---------------------------- MODULE ServiceProofs ----------------------------
(***************************************************************************)
(* For any executables and any options that may be installed, and whatever *)
(* step fails or is cut off: what systemd or the SCM may start is there,   *)
(* and whole unless a write over it was cut short.                         *)
(***************************************************************************)
EXTENDS Service, TLAPS

LinuxInstalling   == {"copy", "env", "private", "unit", "reload", "enable", "start"}
LinuxRemoving     == {"stop", "disable", "removeUnit", "forget", "removeBin", "removeEnv"}
WindowsInstalling == {"copy", "create", "launch"}
WindowsRemoving   == {"open", "query", "delete", "poll", "files"}

Installs(pcs)   == [pc : pcs, opts : Candidates, from : Versions \cup {"self"}]
Uninstalls(pcs) == [pc : pcs]

CmdIsOneOf(installing, removing) ==
  cmd \in {Idle} \cup Installs(installing) \cup Uninstalls(removing)

\* What a step does to the command: it leaves it what it is, but for its place; or
\* begins it; or ends it.
LEMMA InstallStep ==
  ASSUME NEW Ins, NEW Rem, CmdIsOneOf(Ins, Rem), "idle" \notin Ins, Ins \cap Rem = {},
         NEW from \in Ins, NEW to \in Ins, Goto(from, to)
  PROVE  /\ CmdIsOneOf(Ins, Rem)'
         /\ cmd.pc = from /\ cmd'.pc = to
         /\ cmd.opts \in Candidates /\ cmd'.opts = cmd.opts /\ cmd'.from = cmd.from
<1>1. cmd.pc = from /\ cmd' = [cmd EXCEPT !.pc = to]
  BY DEF Goto, At
<1>2. cmd \in Installs(Ins)
  BY <1>1 DEF CmdIsOneOf, Idle, Uninstalls
<1>3. cmd' \in Installs(Ins)
  BY <1>1, <1>2 DEF Installs
<1>4. cmd'.pc = to /\ cmd'.opts = cmd.opts /\ cmd'.from = cmd.from /\ cmd.opts \in Candidates
  BY <1>1, <1>2 DEF Installs
<1> QED
  BY <1>1, <1>3, <1>4 DEF CmdIsOneOf

LEMMA RemovalStep ==
  ASSUME NEW Ins, NEW Rem, CmdIsOneOf(Ins, Rem), "idle" \notin Rem, Ins \cap Rem = {},
         NEW from \in Rem, NEW to \in Rem, Goto(from, to)
  PROVE  CmdIsOneOf(Ins, Rem)' /\ cmd.pc = from /\ cmd'.pc = to
<1>1. cmd.pc = from /\ cmd' = [cmd EXCEPT !.pc = to]
  BY DEF Goto, At
<1>2. cmd \in Uninstalls(Rem)
  BY <1>1 DEF CmdIsOneOf, Idle, Installs
<1>3. cmd' \in Uninstalls(Rem) /\ cmd'.pc = to
  BY <1>1, <1>2 DEF Uninstalls
<1> QED
  BY <1>1, <1>3 DEF CmdIsOneOf

LEMMA InstallBegins ==
  ASSUME NEW Ins, NEW Rem, NEW first \in Ins, NEW o \in Candidates,
         NEW from \in Versions \cup {"self"}, BeginInstall(first, o, from)
  PROVE  CmdIsOneOf(Ins, Rem)' /\ cmd'.pc = first /\ cmd'.opts = o /\ cmd'.from = from
<1>1. cmd' = [pc |-> first, opts |-> o, from |-> from]
  BY DEF BeginInstall
<1>2. cmd' \in Installs(Ins)
  BY <1>1 DEF Installs
<1> QED
  BY <1>1, <1>2 DEF CmdIsOneOf

LEMMA RemovalBegins ==
  ASSUME NEW Ins, NEW Rem, NEW first \in Rem, BeginUninstall(first)
  PROVE  CmdIsOneOf(Ins, Rem)' /\ cmd'.pc = first
BY DEF BeginUninstall, CmdIsOneOf, Uninstalls

LEMMA CommandEnds ==
  ASSUME NEW Ins, NEW Rem, cmd' = Idle
  PROVE  CmdIsOneOf(Ins, Rem)' /\ cmd'.pc = "idle"
BY DEF CmdIsOneOf, Idle

LEMMA CommandStays ==
  ASSUME NEW Ins, NEW Rem, CmdIsOneOf(Ins, Rem), cmd' = cmd
  PROVE  CmdIsOneOf(Ins, Rem)'
BY DEF CmdIsOneOf

-----------------------------------------------------------------------------
(* Linux.                                                                  *)

\* From the copy on there is a whole executable.
ExecutableIsThere ==
  /\ cmd.pc \in LinuxInstalling \ {"copy"} => bin \in Versions
  /\ At("copy") => (cmd.from = "self" => bin \in Versions)

\* The unit is written after the whole environment file it names.
CredentialsAreThere ==
  /\ At("private") => env.is = "whole"
  /\ At("unit") => (NeedsEnv(cmd.opts) => env.is = "whole" /\ env.private)

\* Files go after the unit has gone.
UnitIsGone == cmd.pc \in {"forget", "removeBin", "removeEnv"} => unit = NoFile

EnvIsFile ==
  \/ env = NoFile
  \/ /\ env = [is |-> env.is, user |-> env.user, pass |-> env.pass, private |-> env.private]
     /\ env.is \in {"whole", "cut"}

\* A unit's files are there, whole or not.
UnitHasFiles ==
  unit.is = "whole" => bin # "none" /\ (unit.env => env.is # "none" /\ env.private)

LinuxInv ==
  /\ CmdIsOneOf(LinuxInstalling, LinuxRemoving)
  /\ EnvIsFile
  /\ ExecutableIsThere
  /\ CredentialsAreThere
  /\ UnitIsGone
  /\ UnitHasFiles

LEMMA PrivateRecord ==
  ASSUME NEW is, NEW user, NEW pass, NEW private, NEW value, NEW file,
         file = [is |-> is, user |-> user, pass |-> pass, private |-> private]
  PROVE  [file EXCEPT !.private = value]
           = [is |-> is, user |-> user, pass |-> pass, private |-> value]
OBVIOUS

LEMMA LinuxInvHolds ==
  ASSUME LinuxInv, LinuxNext
  PROVE  LinuxInv'
<1> DEFINE Is == CmdIsOneOf(LinuxInstalling, LinuxRemoving)
<1> USE DEF LinuxInv, EnvIsFile, ExecutableIsThere, CredentialsAreThere, UnitIsGone,
            UnitHasFiles, At, NoFile, Partial, LinuxInstalling
<1>1. CASE ProcessFails
  <2>1. Is' /\ cmd' = cmd
    BY <1>1, CommandStays DEF ProcessFails
  <2> QED
    BY <1>1, <2>1 DEF ProcessFails
<1>2. CASE Restart
  <2>1. Is' /\ cmd' = cmd
    BY <1>2, CommandStays DEF Restart
  <2> QED
    BY <1>2, <2>1 DEF Restart
<1>3. CASE Reboot
  <2>1. Is' /\ cmd'.pc = "idle"
    BY <1>3, CommandEnds DEF Reboot
  <2> QED
    BY <1>3, <2>1 DEF Reboot
<1>4. CASE Install
  <2>1. PICK o \in Candidates, from \in Versions \cup {"self"} : BeginInstall("copy", o, from)
    BY <1>4 DEF Install
  <2>2. Is' /\ cmd'.pc = "copy" /\ cmd'.from = from
    BY <2>1, InstallBegins
  <2>3. cmd.pc = "idle" /\ (from = "self" => bin \in Versions)
    BY <2>1 DEF BeginInstall, Idle
  <2> QED
    BY <1>4, <2>2, <2>3 DEF Install
<1>5. CASE CopyBinary
  <2>1. At("copy") /\ UNCHANGED <<env, unit>>
    BY <1>5 DEF CopyBinary, CopyTo
  <2>2. CASE Stop /\ bin' = "partial"
    <3>1. Is' /\ cmd'.pc = "idle"
      BY <2>2, CommandEnds DEF Stop
    <3> QED
      BY <2>1, <2>2, <3>1
  <2>3. CASE Goto("copy", "env") /\ bin' = (IF cmd.from = "self" THEN bin ELSE cmd.from)
    <3>1. Is' /\ cmd'.pc = "env"
      BY <2>3, InstallStep DEF LinuxRemoving
    <3>2. bin' \in Versions /\ bin' # "none"
      BY <2>1, <2>3, InstallerAssumption DEF CmdIsOneOf, Installs, Uninstalls, Idle, LinuxRemoving
    <3> QED
      BY <2>1, <3>1, <3>2
  <2>4. \/ Stop /\ bin' = "partial"
        \/ Goto("copy", "env") /\ bin' = (IF cmd.from = "self" THEN bin ELSE cmd.from)
    BY <1>5 DEF CopyBinary, CopyTo
  <2> QED
    BY <2>2, <2>3, <2>4, Zenon
<1>6. CASE WriteEnv
  <2>1. At("env") /\ UNCHANGED <<bin, unit>>
    BY <1>6 DEF WriteEnv
  <2>2. PICK is, user, pass :
           /\ is \in {"whole", "cut"}
           /\ env' = CredentialsFile(is, user, pass, env.is # "none" /\ env.private)
           /\ (is = "whole" /\ Goto("env", "private")) \/ Stop
    BY <1>6 DEF WriteEnv
  <2>3. /\ is \in {"whole", "cut"} /\ env'.is = is /\ EnvIsFile'
        /\ env'.private = (env.is # "none" /\ env.private)
    BY <2>2 DEF CredentialsFile
  <2>4. Is' /\ cmd'.pc \in {"private", "idle"} /\ (cmd'.pc = "private" => is = "whole")
    <3>1. CASE is = "whole" /\ Goto("env", "private")
      BY <3>1, InstallStep DEF LinuxRemoving
    <3>2. CASE Stop
      BY <3>2, CommandEnds DEF Stop
    <3> QED
      BY <2>2, <3>1, <3>2
  <2> QED
    BY <2>1, <2>3, <2>4
<1>7. CASE SkipEnv
  <2>1. Goto("env", "unit")
    BY <1>7 DEF SkipEnv
  <2>2. /\ Is' /\ cmd.pc = "env" /\ cmd'.pc = "unit"
        /\ cmd'.opts = cmd.opts
    BY <2>1, InstallStep DEF LinuxRemoving
  <2> QED
    BY <1>7, <2>2 DEF SkipEnv
<1>8. CASE MakePrivate
  <2>1. Goto("private", "unit")
    BY <1>8 DEF MakePrivate
  <2>2. /\ Is' /\ cmd.pc = "private" /\ cmd'.pc = "unit"
        /\ cmd'.opts = cmd.opts
    BY <2>1, InstallStep DEF LinuxRemoving
  <2>3. env' = [is |-> "whole", user |-> env.user, pass |-> env.pass, private |-> TRUE]
    <3>1. env.is = "whole"
      BY <2>2
    <3>2. env = [is |-> "whole", user |-> env.user, pass |-> env.pass, private |-> env.private]
      BY <3>1
    <3>3. env' = [env EXCEPT !.private = TRUE]
      BY <1>8 DEF MakePrivate
    <3>4. \A value : [env EXCEPT !.private = value]
                     = [is |-> "whole", user |-> env.user, pass |-> env.pass, private |-> value]
      BY <3>2, PrivateRecord
    <3> QED
      BY <3>3, <3>4, Zenon
  <2>4. UNCHANGED <<bin, unit>>
    BY <1>8 DEF MakePrivate
  <2> QED
    BY <2>2, <2>3, <2>4
<1>9. CASE WriteUnit
  <2>1. At("unit") /\ UNCHANGED <<bin, env>>
    BY <1>9 DEF WriteUnit
  <2>2. CASE Goto("unit", "reload") /\ unit' = [is |-> "whole", args |-> Args(cmd.opts), env |-> NeedsEnv(cmd.opts)]
    <3>1. Is' /\ cmd'.pc = "reload"
      BY <2>2, InstallStep DEF LinuxRemoving
    <3>2. unit'.env => NeedsEnv(cmd.opts)
      BY <2>2
    <3>3. /\ bin \in Versions /\ bin # "none" /\ unit' # NoFile
          /\ NeedsEnv(cmd.opts) => env.is = "whole" /\ env.private
      BY <2>1, <2>2, InstallerAssumption
    <3> QED
      BY <2>1, <3>1, <3>2, <3>3
  <2>3. CASE Stop /\ unit' = Partial
    <3>1. Is' /\ cmd'.pc = "idle"
      BY <2>3, CommandEnds DEF Stop
    <3> QED
      BY <2>1, <2>3, <3>1
  <2> QED
    BY <1>9, <2>2, <2>3 DEF WriteUnit
<1>10. CASE Reload
  <2>1. Goto("reload", "enable")
    BY <1>10 DEF Reload
  <2>2. /\ Is' /\ cmd.pc = "reload" /\ cmd'.pc = "enable"
        /\ cmd'.opts = cmd.opts
    BY <2>1, InstallStep DEF LinuxRemoving
  <2> QED
    BY <1>10, <2>2 DEF Reload
<1>11. CASE Enable
  <2>1. Goto("enable", "start")
    BY <1>11 DEF Enable
  <2>2. /\ Is' /\ cmd.pc = "enable" /\ cmd'.pc = "start"
        /\ cmd'.opts = cmd.opts
    BY <2>1, InstallStep DEF LinuxRemoving
  <2> QED
    BY <1>11, <2>2 DEF Enable
<1>12. CASE Start
  <2>1. Is' /\ cmd'.pc = "idle"
    BY <1>12, CommandEnds DEF Start, Finish
  <2> QED
    BY <1>12, <2>1 DEF Start
<1>13. CASE Uninstall
  <2>1. Is' /\ cmd'.pc = "stop"
    BY <1>13, RemovalBegins DEF Uninstall, LinuxRemoving
  <2> QED
    BY <1>13, <2>1 DEF Uninstall
<1>14. CASE StopService
  <2>1. Goto("stop", "disable")
    BY <1>14 DEF StopService
  <2>2. Is' /\ cmd.pc = "stop" /\ cmd'.pc = "disable"
    BY <2>1, RemovalStep DEF LinuxRemoving
  <2> QED
    BY <1>14, <2>2 DEF StopService
<1>15. CASE Disable
  <2>1. Goto("disable", "removeUnit")
    BY <1>15 DEF Disable
  <2>2. Is' /\ cmd.pc = "disable" /\ cmd'.pc = "removeUnit"
    BY <2>1, RemovalStep DEF LinuxRemoving
  <2> QED
    BY <1>15, <2>2 DEF Disable
<1>16. CASE RemoveUnit
  <2>1. Goto("removeUnit", "forget")
    BY <1>16 DEF RemoveUnit
  <2>2. Is' /\ cmd.pc = "removeUnit" /\ cmd'.pc = "forget"
    BY <2>1, RemovalStep DEF LinuxRemoving
  <2> QED
    BY <1>16, <2>2 DEF RemoveUnit
<1>17. CASE Forget
  <2>1. Goto("forget", "removeBin")
    BY <1>17 DEF Forget
  <2>2. Is' /\ cmd.pc = "forget" /\ cmd'.pc = "removeBin"
    BY <2>1, RemovalStep DEF LinuxRemoving
  <2> QED
    BY <1>17, <2>2 DEF Forget
<1>18. CASE RemoveBin
  <2>1. Goto("removeBin", "removeEnv")
    BY <1>18 DEF RemoveBin
  <2>2. Is' /\ cmd.pc = "removeBin" /\ cmd'.pc = "removeEnv"
    BY <2>1, RemovalStep DEF LinuxRemoving
  <2>3. unit = NoFile /\ UNCHANGED <<env, unit>>
    BY <1>18, <2>2 DEF RemoveBin
  <2> QED
    BY <2>2, <2>3
<1>19. CASE RemoveEnv
  <2>1. Is' /\ cmd'.pc = "idle"
    BY <1>19, CommandEnds DEF RemoveEnv, Finish
  <2> QED
    BY <1>19, <2>1 DEF RemoveEnv
<1>20. CASE LinuxStop
  <2>1. Is' /\ cmd'.pc = "idle"
    BY <1>20, CommandEnds DEF LinuxStop, Stop
  <2> QED
    BY <1>20, <2>1 DEF LinuxStop
<1> QED
  BY <1>1, <1>2, <1>3, <1>4, <1>5, <1>6, <1>7, <1>8, <1>9, <1>10, <1>11, <1>12, <1>13,
     <1>14, <1>15, <1>16, <1>17, <1>18, <1>19, <1>20 DEF LinuxNext

-----------------------------------------------------------------------------
(* What a command reports is so.                                           *)

WholeUnit(o) == [is |-> "whole", args |-> Args(o), env |-> NeedsEnv(o)]

\* The environment file holds what o needs of it.
HasCredentials(o) == NeedsEnv(o) => env.is = "whole" /\ env.user = o.user /\ env.pass = o.pass

\* A user name is in the environment file or there is none.
UserIsCovered(o) == o.user # "unset" => NeedsEnv(o)

\* What the steps of an install have achieved so far.
InstallSoFar ==
  /\ cmd.pc \in LinuxInstalling => Accepts(cmd.opts)
  /\ cmd.pc \in LinuxInstalling \ {"copy"} => bin \in Versions
  /\ At("copy") => (cmd.from = "self" => bin \in Versions)
  /\ cmd.pc \in {"private", "unit", "reload", "enable", "start"} => HasCredentials(cmd.opts)
  /\ cmd.pc \in {"reload", "enable", "start"} =>
       unit = WholeUnit(cmd.opts) /\ UserIsCovered(cmd.opts)
  /\ cmd.pc \in {"enable", "start"} => loaded = unit
  /\ At("start") => enabled

\* And those of an uninstall.
RemovalSoFar ==
  /\ cmd.pc \in {"removeBin", "removeEnv"} => loaded = NoFile
  /\ At("removeEnv") => bin = "none"

IsInstalled(version, o) ==
  /\ o \in Candidates /\ Accepts(o) /\ UserIsCovered(o)
  /\ version \in Versions /\ bin = version
  /\ HasCredentials(o)
  /\ unit = WholeUnit(o) /\ loaded = unit
  /\ enabled

LastIsTrue ==
  /\ cmd.pc # "idle" => last = Unsettled
  /\ \/ last = Unsettled
     \/ last = Removed /\ bin = "none" /\ env = NoFile /\ unit = NoFile /\ loaded = NoFile
     \/ \E version, o : last = Installed(version, o) /\ IsInstalled(version, o)

LinuxWord == InstallSoFar /\ RemovalSoFar /\ LastIsTrue

LEMMA LinuxWordHolds ==
  ASSUME LinuxInv, LinuxWord, LinuxNext
  PROVE  LinuxWord'
<1> USE DEF LinuxWord, InstallSoFar, RemovalSoFar, LastIsTrue, HasCredentials, IsInstalled, At,
            LinuxInstalling
<1>0. CmdIsOneOf(LinuxInstalling, LinuxRemoving) /\ UnitIsGone
  BY DEF LinuxInv
<1>1. CASE ProcessFails
  <2>1. UNCHANGED <<bin, cmd, last, env, unit, loaded, enabled>>
    BY <1>1 DEF ProcessFails
  <2> QED
    BY <2>1
<1>2. CASE Restart
  <2>1. UNCHANGED <<bin, cmd, last, env, unit, loaded, enabled>>
    BY <1>2 DEF Restart
  <2> QED
    BY <2>1
<1>3. CASE Reboot
  <2>1. cmd'.pc = "idle" /\ loaded' = unit /\ UNCHANGED <<bin, last, env, unit, enabled>>
    BY <1>3 DEF Reboot, Idle
  <2> QED
    BY <2>1
<1>4. CASE Install
  <2>1. PICK o \in Candidates, from \in Versions \cup {"self"} :
           Accepts(o) /\ BeginInstall("copy", o, from)
    BY <1>4 DEF Install
  <2>2. cmd'.pc = "copy" /\ cmd'.from = from /\ cmd'.opts = o
    BY <2>1, InstallBegins
  <2>3. last' = Unsettled /\ (from = "self" => bin \in Versions) /\ bin' = bin
    BY <1>4, <2>1 DEF BeginInstall, Install
  <2> QED
    BY <2>1, <2>2, <2>3
<1>5. CASE CopyBinary
  <2>1. At("copy") /\ last' = last
    BY <1>5 DEF CopyBinary, CopyTo, Goto, Stop
  <2>2. CASE Stop
    <3>1. cmd'.pc = "idle"
      BY <2>2 DEF Stop, Idle
    <3> QED
      BY <2>1, <3>1
  <2>3. CASE Goto("copy", "env") /\ bin' = (IF cmd.from = "self" THEN bin ELSE cmd.from)
    <3>1. cmd'.pc = "env" /\ cmd'.opts = cmd.opts
      BY <1>0, <2>3, InstallStep DEF LinuxRemoving
    <3>2. bin' \in Versions
      BY <1>0, <2>1, <2>3 DEF CmdIsOneOf, Installs, Uninstalls, Idle, LinuxRemoving
    <3> QED
      BY <2>1, <3>1, <3>2
  <2>4. Stop \/ (Goto("copy", "env") /\ bin' = (IF cmd.from = "self" THEN bin ELSE cmd.from))
    BY <1>5 DEF CopyBinary, CopyTo
  <2> QED
    BY <2>2, <2>3, <2>4, Zenon
<1>6. CASE WriteEnv
  <2>1. At("env") /\ UNCHANGED <<bin, last, unit, loaded, enabled>>
    BY <1>6 DEF WriteEnv, Goto, Stop
  <2>2. CASE Stop
    <3>1. cmd'.pc = "idle"
      BY <2>2 DEF Stop, Idle
    <3> QED
      BY <2>1, <3>1
  <2>3. CASE /\ Goto("env", "private")
             /\ env' = CredentialsFile("whole", cmd.opts.user, cmd.opts.pass,
                                       env.is # "none" /\ env.private)
    <3>1. cmd'.pc = "private" /\ cmd'.opts = cmd.opts
      BY <1>0, <2>3, InstallStep DEF LinuxRemoving
    <3>2. env'.is = "whole" /\ env'.user = cmd.opts.user /\ env'.pass = cmd.opts.pass
      BY <2>3 DEF CredentialsFile
    <3> QED
      BY <2>1, <3>1, <3>2
  <2> QED
    BY <1>6, <2>2, <2>3 DEF WriteEnv
<1>7. CASE SkipEnv
  <2>1. Goto("env", "unit") /\ last' = last
    BY <1>7 DEF SkipEnv, Goto
  <2>2. /\ cmd.pc = "env" /\ cmd'.pc = "unit" /\ cmd.opts \in Candidates
        /\ cmd'.opts = cmd.opts
    BY <1>0, <2>1, InstallStep DEF LinuxRemoving
  <2> QED
    BY <1>7, <2>1, <2>2 DEF SkipEnv
<1>8. CASE MakePrivate
  <2>1. Goto("private", "unit") /\ last' = last
    BY <1>8 DEF MakePrivate, Goto
  <2>2. /\ cmd.pc = "private" /\ cmd'.pc = "unit" /\ cmd.opts \in Candidates
        /\ cmd'.opts = cmd.opts
    BY <1>0, <2>1, InstallStep DEF LinuxRemoving
  <2>3. env'.is = env.is /\ env'.user = env.user /\ env'.pass = env.pass
    BY <1>8, LinuxInv DEF MakePrivate, LinuxInv, EnvIsFile, NoFile
  <2>4. UNCHANGED <<bin, unit, loaded, enabled>>
    BY <1>8 DEF MakePrivate
  <2> QED
    BY <1>8, <2>1, <2>2, <2>3, <2>4
<1>9. CASE WriteUnit
  <2>1. At("unit") /\ UNCHANGED <<bin, last, env, loaded, enabled>> /\ UserIsCovered(cmd.opts)
    BY <1>9 DEF WriteUnit, Goto, Stop, UserIsCovered
  <2>2. CASE Stop
    <3>1. cmd'.pc = "idle"
      BY <2>2 DEF Stop, Idle
    <3> QED
      BY <2>1, <3>1
  <2>3. CASE Goto("unit", "reload") /\ unit' = WholeUnit(cmd.opts)
    <3>1. cmd'.pc = "reload" /\ cmd'.opts = cmd.opts
      BY <1>0, <2>3, InstallStep DEF LinuxRemoving
    <3> QED
      BY <2>1, <2>3, <3>1
  <2> QED
    BY <1>9, <2>2, <2>3 DEF WriteUnit, WholeUnit
<1>10. CASE Reload
  <2>1. Goto("reload", "enable") /\ last' = last
    BY <1>10 DEF Reload, Goto
  <2>2. /\ cmd.pc = "reload" /\ cmd'.pc = "enable" /\ cmd.opts \in Candidates
        /\ cmd'.opts = cmd.opts
    BY <1>0, <2>1, InstallStep DEF LinuxRemoving
  <2> QED
    BY <1>10, <2>1, <2>2 DEF Reload
<1>11. CASE Enable
  <2>1. Goto("enable", "start") /\ last' = last
    BY <1>11 DEF Enable, Goto
  <2>2. /\ cmd.pc = "enable" /\ cmd'.pc = "start" /\ cmd.opts \in Candidates
        /\ cmd'.opts = cmd.opts
    BY <1>0, <2>1, InstallStep DEF LinuxRemoving
  <2> QED
    BY <1>11, <2>1, <2>2 DEF Enable
<1>12. CASE Start
  <2>1. cmd'.pc = "idle" /\ UNCHANGED <<bin, env, unit, loaded, enabled>>
    BY <1>12 DEF Start, Finish, Idle
  <2>2. At("start") /\ last' = Installed(bin, cmd.opts)
    BY <1>12 DEF Start, Finish
  <2>3. cmd.opts \in Candidates
    BY <1>0, <2>2 DEF CmdIsOneOf, Installs, Uninstalls, Idle, LinuxRemoving
  <2>4. IsInstalled(bin, cmd.opts)
    BY <2>2, <2>3
  <2>5. \E version, o : last' = Installed(version, o) /\ IsInstalled(version, o)'
    BY <2>1, <2>2, <2>4
  <2> QED
    BY <2>1, <2>5
<1>13. CASE Uninstall
  <2>1. cmd'.pc = "stop" /\ last' = Unsettled
    BY <1>13 DEF Uninstall, BeginUninstall
  <2> QED
    BY <2>1
<1>14. CASE StopService
  <2>1. Goto("stop", "disable") /\ last' = last
    BY <1>14 DEF StopService, Goto
  <2>2. cmd.pc = "stop" /\ cmd'.pc = "disable"
    BY <1>0, <2>1, RemovalStep DEF LinuxRemoving
  <2> QED
    BY <1>0, <1>14, <2>1, <2>2 DEF StopService
<1>15. CASE Disable
  <2>1. Goto("disable", "removeUnit") /\ last' = last
    BY <1>15 DEF Disable, Goto
  <2>2. cmd.pc = "disable" /\ cmd'.pc = "removeUnit"
    BY <1>0, <2>1, RemovalStep DEF LinuxRemoving
  <2> QED
    BY <1>0, <1>15, <2>1, <2>2 DEF Disable
<1>16. CASE RemoveUnit
  <2>1. Goto("removeUnit", "forget") /\ last' = last
    BY <1>16 DEF RemoveUnit, Goto
  <2>2. cmd.pc = "removeUnit" /\ cmd'.pc = "forget"
    BY <1>0, <2>1, RemovalStep DEF LinuxRemoving
  <2> QED
    BY <1>0, <1>16, <2>1, <2>2 DEF RemoveUnit
<1>17. CASE Forget
  <2>1. Goto("forget", "removeBin") /\ last' = last
    BY <1>17 DEF Forget, Goto
  <2>2. cmd.pc = "forget" /\ cmd'.pc = "removeBin"
    BY <1>0, <2>1, RemovalStep DEF LinuxRemoving
  <2> QED
    BY <1>0, <1>17, <2>1, <2>2 DEF Forget, UnitIsGone
<1>18. CASE RemoveBin
  <2>1. Goto("removeBin", "removeEnv") /\ last' = last
    BY <1>18 DEF RemoveBin, Goto
  <2>2. cmd.pc = "removeBin" /\ cmd'.pc = "removeEnv"
    BY <1>0, <2>1, RemovalStep DEF LinuxRemoving
  <2> QED
    BY <1>0, <1>18, <2>1, <2>2 DEF RemoveBin
<1>19. CASE RemoveEnv
  <2>1. cmd.pc = "removeEnv" /\ cmd'.pc = "idle" /\ last' = Removed /\ env' = NoFile
    BY <1>19 DEF RemoveEnv, Finish, Idle
  <2>2. bin = "none" /\ unit = NoFile /\ loaded = NoFile /\ UNCHANGED <<bin, unit, loaded>>
    BY <1>0, <1>19, <2>1 DEF UnitIsGone, RemoveEnv
  <2> QED
    BY <2>1, <2>2
<1>20. CASE LinuxStop
  <2>1. cmd'.pc = "idle" /\ UNCHANGED <<bin, last, env, unit, loaded, enabled>>
    BY <1>20 DEF LinuxStop, Stop, Idle
  <2> QED
    BY <2>1
<1> QED
  BY <1>1, <1>2, <1>3, <1>4, <1>5, <1>6, <1>7, <1>8, <1>9, <1>10, <1>11, <1>12, <1>13,
     <1>14, <1>15, <1>16, <1>17, <1>18, <1>19, <1>20 DEF LinuxNext

LEMMA SplitOptions ==
  ASSUME NEW o \in Candidates
  PROVE  With(Args(o), o.user, o.pass) = o
<1>1. o = With(o, o.user, o.pass)
  BY InstallerAssumption
<1> QED
  BY <1>1 DEF Args, With

\* Without an environment file there are no credentials to lose.
LEMMA NoCredentials ==
  ASSUME NEW o \in Candidates, Accepts(o), UserIsCovered(o), ~NeedsEnv(o)
  PROVE  Accepts(Args(o)) /\ Effective(Args(o)) = Effective(o)
<1>1. o.user = "unset" /\ ~Given(o.pass)
  BY DEF Accepts, UserIsCovered, NeedsEnv, Given
<1>2. /\ Args(o).user = "unset" /\ Args(o).pass = "unset"
      /\ Args(o).bind = o.bind /\ Args(o).max = o.max /\ Args(o).bypass = o.bypass
  BY DEF Args, With
<1>3. Accepts(Args(o))
  BY <1>1, <1>2 DEF Accepts, Given
<1>4. Cleaned(o.user) = "unset" /\ Cleaned(o.pass) = "unset" /\ Cleaned("unset") = "unset"
  BY <1>1 DEF Cleaned, Given
<1>5. Effective(o) = With(o, "unset", "unset")
  BY <1>4 DEF Effective
<1>6. Effective(Args(o)) = With(Args(o), "unset", "unset")
  BY <1>2, <1>4 DEF Effective
<1>7. With(Args(o), "unset", "unset") = With(o, "unset", "unset")
  BY DEF With, Args
<1> QED
  BY <1>3, <1>5, <1>6, <1>7

\* What is split between the unit and the environment file is put together again.
LEMMA SplitIsJoined ==
  ASSUME NEW version, NEW o, IsInstalled(version, o)
  PROVE  /\ Accepts(Joined(unit))
         /\ Effective(Joined(unit)) = Effective(o)
         /\ unit.env => env.is # "none"
         /\ unit.is = "whole"
<1>1. /\ unit.is = "whole" /\ unit.args = Args(o)
      /\ unit.env <=> NeedsEnv(o)
  BY DEF IsInstalled, WholeUnit
<1>2. CASE NeedsEnv(o)
  <2>1. env.is = "whole" /\ env.user = o.user /\ env.pass = o.pass
    BY <1>2 DEF IsInstalled, HasCredentials
  <2>2. Joined(unit) = With(unit.args, env.user, env.pass)
    BY <1>1, <1>2 DEF Joined
  <2>3. Joined(unit) = o
    BY <1>1, <2>1, <2>2, SplitOptions DEF IsInstalled
  <2> QED
    BY <1>1, <2>1, <2>3 DEF IsInstalled
<1>3. CASE ~NeedsEnv(o)
  <2>1. Joined(unit) = Args(o)
    BY <1>1, <1>3 DEF Joined
  <2> QED
    BY <1>1, <1>3, <2>1, NoCredentials DEF IsInstalled
<1> QED
  BY <1>2, <1>3

LEMMA LinuxWordIsKept ==
  ASSUME LinuxWord
  PROVE  LinuxKeepsItsWord
<1>1. ASSUME last.is = "installed"
      PROVE  /\ enabled /\ unit.is = "whole" /\ loaded = unit
             /\ Launched(unit).is = "running"
             /\ Running(unit).version = last.version
             /\ Running(unit).opts = Effective(last.opts)
  <2>1. PICK version, o : last = Installed(version, o) /\ IsInstalled(version, o)
    BY <1>1 DEF LinuxWord, LastIsTrue, Unsettled, Removed
  <2>2. last.version = version /\ last.opts = o
    BY <2>1 DEF Installed
  <2>3. Launched(unit) = Running(unit)
    BY <2>1, SplitIsJoined DEF Launched, IsInstalled
  <2>4. /\ Running(unit).is = "running" /\ Running(unit).version = bin
        /\ Running(unit).opts = Effective(Joined(unit))
    BY DEF Running
  <2> QED
    BY <2>1, <2>2, <2>3, <2>4, SplitIsJoined DEF IsInstalled
<1>2. last.is = "removed" => bin = "none" /\ {env, unit, loaded} = {NoFile}
  <2>1. last.is = "removed" => last = Removed
    BY DEF LinuxWord, LastIsTrue, Unsettled, Installed
  <2>2. last = Removed => last # Unsettled /\ \A version, o : last # Installed(version, o)
    BY DEF Removed, Unsettled, Installed
  <2>3. last = Removed => bin = "none" /\ env = NoFile /\ unit = NoFile /\ loaded = NoFile
    BY <2>2 DEF LinuxWord, LastIsTrue
  <2> QED
    BY <2>1, <2>3
<1> QED
  BY <1>1, <1>2 DEF LinuxKeepsItsWord

-----------------------------------------------------------------------------
(* Windows.                                                                *)

\* An executable is there from the copy on, and a service that an uninstall is
\* past deleting will not be started.
WindowsSteps ==
  /\ cmd.pc \in {"create", "launch"} => bin \in Versions
  /\ At("copy") => (cmd.from = "self" => bin \in Versions)
  /\ cmd.pc \in {"poll", "files"} => entry.is # "present"

EntryHasFile == (entry.is = "present" => bin # "none") /\ (InUse => bin \in Versions)

EntryIsOne == entry = NoEntry \/ entry \in [is : {"present", "marked"}, opts : {entry.opts}]

WindowsInv ==
  /\ CmdIsOneOf(WindowsInstalling, WindowsRemoving)
  /\ EntryIsOne
  /\ WindowsSteps
  /\ EntryHasFile

LEMMA WindowsInvHolds ==
  ASSUME WindowsInv, WindowsNext
  PROVE  WindowsInv'
<1> USE InstallerAssumption DEF WindowsInv, CmdIsOneOf, Installs, Uninstalls,
      WindowsInstalling, WindowsRemoving, EntryIsOne, WindowsSteps, EntryHasFile, At, Idle,
      NoEntry, InUse
<1>1. CASE Launch
  BY <1>1 DEF Launch
<1>2. CASE Register \/ ServerFails \/ ReportStopped \/ WorkerExits
  BY <1>2 DEF Register, ServerFails, ReportStopped, WorkerExits, Worker
<1>3. CASE EntryVanishes
  BY <1>3 DEF EntryVanishes
<1>4. CASE WindowsReboot
  BY <1>4 DEF WindowsReboot
<1>5. CASE WindowsInstall
  BY <1>5 DEF WindowsInstall, BeginInstall
<1>6. CASE CopyExe
  BY <1>6 DEF CopyExe, CopyTo, Goto, Stop
<1>7. CASE CreateService
  <2> DEFINE args == RuntimeArgs(cmd.opts)
  <2>1. /\ cmd.pc = "create" /\ cmd' = [cmd EXCEPT !.pc = "launch"]
        /\ entry' = [is |-> "present", opts |-> args] /\ UNCHANGED <<bin, worker>>
    BY <1>7 DEF CreateService, Goto
  <2> HIDE DEF args
  <2> QED
    BY <2>1
<1>8. CASE StartWorker
  BY <1>8 DEF StartWorker, Finish
<1>9. CASE WindowsUninstall
  BY <1>9 DEF WindowsUninstall, BeginUninstall
<1>10. CASE OpenService
  BY <1>10 DEF OpenService, Goto
<1>11. CASE StopWorker
  BY <1>11 DEF StopWorker, Goto
<1>12. CASE DeleteService
  BY <1>12 DEF DeleteService, Goto
<1>13. CASE PollEnds
  BY <1>13 DEF PollEnds, Goto
<1>14. CASE RemoveFiles
  BY <1>14 DEF RemoveFiles, Finish
<1>15. CASE DirectoryStays
  BY <1>15 DEF DirectoryStays, Stop
<1>16. CASE WindowsStop
  BY <1>16 DEF WindowsStop, Stop
<1> QED
  BY <1>1, <1>2, <1>3, <1>4, <1>5, <1>6, <1>7, <1>8, <1>9, <1>10, <1>11, <1>12, <1>13,
     <1>14, <1>15, <1>16 DEF WindowsNext

-----------------------------------------------------------------------------
(* What a command reports is so, on Windows.                               *)

EntryIsFor(o) == entry = [is |-> "present", opts |-> RuntimeArgs(o)] /\ Accepts(o)

WindowsWord ==
  /\ At("launch") => EntryIsFor(cmd.opts)
  /\ cmd.pc # "idle" => last = Unsettled
  /\ \/ last = Unsettled
     \/ last = Removed /\ bin = "none" /\ entry.is # "present" /\ worker = "none"
     \/ \E version, o : last = Installed(version, o) /\ EntryIsFor(o) /\ bin = version

LEMMA WindowsWordHolds ==
  ASSUME WindowsInv, WindowsWord, WindowsNext
  PROVE  WindowsWord'
<1> USE DEF WindowsWord, EntryIsFor, At, WindowsInstalling, NoEntry
<1>0. CmdIsOneOf(WindowsInstalling, WindowsRemoving)
  BY DEF WindowsInv
<1>1. CASE Launch
  BY <1>1 DEF Launch
<1>2. CASE Register \/ ServerFails \/ ReportStopped \/ WorkerExits
  BY <1>2 DEF Register, ServerFails, ReportStopped, WorkerExits, Worker
<1>3. CASE EntryVanishes
  BY <1>3 DEF EntryVanishes
<1>4. CASE WindowsReboot
  BY <1>4 DEF WindowsReboot, Idle
<1>5. CASE WindowsInstall
  BY <1>5 DEF WindowsInstall, BeginInstall
<1>6. CASE CopyExe
  <2>1. last' = last /\ cmd.pc # "idle" /\ cmd'.pc # "launch"
    <3>1. CASE Stop
      BY <1>6, <3>1 DEF CopyExe, CopyTo, Stop, Idle
    <3>2. CASE Goto("copy", "create")
      BY <1>0, <1>6, <3>2, InstallStep DEF WindowsRemoving, Goto
    <3> QED
      BY <1>6, <3>1, <3>2 DEF CopyExe, CopyTo
  <2> QED
    BY <2>1
<1>7. CASE CreateService
  <2>1. Goto("create", "launch") /\ last' = last
    BY <1>7 DEF CreateService, Goto
  <2>2. cmd.pc = "create" /\ cmd'.pc = "launch" /\ cmd'.opts = cmd.opts
    BY <1>0, <2>1, InstallStep DEF WindowsRemoving
  <2> QED
    BY <1>7, <2>1, <2>2 DEF CreateService
<1>8. CASE StartWorker
  <2>1. cmd.pc = "launch" /\ cmd'.pc = "idle" /\ last' = Installed(bin, cmd.opts)
    BY <1>8 DEF StartWorker, Finish, Idle
  <2>2. EntryIsFor(cmd.opts) /\ UNCHANGED <<bin, entry>>
    BY <1>8, <2>1 DEF StartWorker
  <2> QED
    BY <2>1, <2>2
<1>9. CASE WindowsUninstall
  BY <1>9 DEF WindowsUninstall, BeginUninstall
<1>10. CASE OpenService
  <2>1. (Goto("open", "files") \/ Goto("open", "query")) /\ last' = last
    BY <1>10 DEF OpenService, Goto
  <2>2. cmd.pc = "open" /\ cmd'.pc \in {"files", "query"}
    BY <1>0, <2>1, RemovalStep DEF WindowsRemoving
  <2> QED
    BY <2>1, <2>2
<1>11. CASE StopWorker
  <2>1. (Goto("query", "delete")) /\ last' = last
    BY <1>11 DEF StopWorker, Goto
  <2>2. cmd.pc = "query" /\ cmd'.pc \in {"delete"}
    BY <1>0, <2>1, RemovalStep DEF WindowsRemoving
  <2> QED
    BY <2>1, <2>2
<1>12. CASE DeleteService
  <2>1. (Goto("delete", "poll")) /\ last' = last
    BY <1>12 DEF DeleteService, Goto
  <2>2. cmd.pc = "delete" /\ cmd'.pc \in {"poll"}
    BY <1>0, <2>1, RemovalStep DEF WindowsRemoving
  <2> QED
    BY <2>1, <2>2
<1>13. CASE PollEnds
  <2>1. (Goto("poll", "files")) /\ last' = last
    BY <1>13 DEF PollEnds, Goto
  <2>2. cmd.pc = "poll" /\ cmd'.pc \in {"files"}
    BY <1>0, <2>1, RemovalStep DEF WindowsRemoving
  <2> QED
    BY <2>1, <2>2
<1>14. CASE RemoveFiles
  <2>1. cmd.pc = "files" /\ cmd'.pc = "idle" /\ last' = Removed
    BY <1>14 DEF RemoveFiles, Finish, Idle
  <2>2. entry.is # "present" /\ worker = "none" /\ bin' = "none" /\ UNCHANGED <<entry, worker>>
    BY <1>14, <2>1 DEF RemoveFiles, WindowsInv, WindowsSteps, InUse
  <2> QED
    BY <2>1, <2>2
<1>15. CASE DirectoryStays
  BY <1>15 DEF DirectoryStays, Stop, Idle
<1>16. CASE WindowsStop
  BY <1>16 DEF WindowsStop, Stop, Idle
<1> QED
  BY <1>1, <1>2, <1>3, <1>4, <1>5, <1>6, <1>7, <1>8, <1>9, <1>10, <1>11, <1>12, <1>13,
     <1>14, <1>15, <1>16 DEF WindowsNext

\* The credentials left out are none.
LEMMA ArgumentsSuffice ==
  ASSUME NEW o, Accepts(o)
  PROVE  Accepts(RuntimeArgs(o)) /\ Effective(RuntimeArgs(o)) = Effective(o)
<1>1. CASE "unset" \in {o.user, o.pass}
  <2>1. ~Given(o.user) /\ ~Given(o.pass)
    BY <1>1 DEF Accepts, Given
  <2> DEFINE args == With(o, "unset", "unset")
  <2>2. RuntimeArgs(o) = args
    BY <1>1 DEF RuntimeArgs
  <2>3. /\ args.user = "unset" /\ args.pass = "unset" /\ args.bind = o.bind
        /\ args.max = o.max /\ args.bypass = o.bypass
    BY DEF With
  <2>4. Accepts(args)
    BY <2>1, <2>3 DEF Accepts, Given
  <2>5. Effective(args) = With(args, "unset", "unset") /\ Effective(o) = args
    BY <2>1, <2>3 DEF Effective, Cleaned, Given
  <2>6. With(args, "unset", "unset") = args
    BY DEF With
  <2> QED
    BY <2>2, <2>4, <2>5, <2>6
<1>2. CASE "unset" \notin {o.user, o.pass}
  BY <1>2 DEF RuntimeArgs
<1> QED
  BY <1>1, <1>2

LEMMA WindowsWordIsKept ==
  ASSUME WindowsWord
  PROVE  WindowsKeepsItsWord
<1>1. ASSUME last.is = "installed"
      PROVE  /\ entry.is = "present" /\ bin = last.version
             /\ Accepts(entry.opts) /\ Effective(entry.opts) = Effective(last.opts)
  <2>1. PICK version, o : last = Installed(version, o) /\ EntryIsFor(o) /\ bin = version
    BY <1>1 DEF WindowsWord, Unsettled, Removed
  <2>2. last.version = version /\ last.opts = o
    BY <2>1 DEF Installed
  <2>3. entry.is = "present" /\ entry.opts = RuntimeArgs(o) /\ Accepts(o)
    BY <2>1 DEF EntryIsFor
  <2> QED
    BY <2>1, <2>2, <2>3, ArgumentsSuffice
<1>2. last.is = "removed" => bin = "none" /\ entry.is # "present" /\ ~InUse
  BY DEF WindowsWord, Unsettled, Installed, Removed, InUse
<1> QED
  BY <1>1, <1>2 DEF WindowsKeepsItsWord

-----------------------------------------------------------------------------
(* Types.                                                                  *)

\* A launched process runs an executable, never a copy that was cut short.
LEMMA LaunchedType ==
  ASSUME NEW u
  PROVE  \/ Launched(u) \in {NoProc, Waiting}
         \/ Launched(u) \in [is : {"running"}, opts : {Launched(u).opts},
                             version : Versions, linked : BOOLEAN]
BY DEF Launched, Running

\* Steps keep the types, given what the command under way has reached.
LEMMA LinuxTypeStep ==
  ASSUME LinuxInv, LinuxTypeOK, LinuxNext
  PROVE  LinuxTypeOK'
<1> DEFINE Bins == {"none", "partial"} \cup Versions
           EnvType == env = NoFile \/ \E o \in Candidates : env \in CredentialFiles(o)
           Units == {NoFile, Partial} \cup WholeUnits
           ProcType == \/ proc \in {NoProc, Waiting}
                       \/ proc \in [is : {"running"}, opts : {proc.opts},
                                    version : Versions, linked : BOOLEAN]
<1>0. /\ bin \in Bins /\ EnvType /\ unit \in Units /\ loaded \in Units
      /\ enabled \in BOOLEAN /\ ProcType
  BY DEF LinuxTypeOK
<1>1. bin' \in Bins
  <2>1. CASE CopyBinary
    <3>1. At("copy") /\ (cmd.from # "self" => bin' \in {cmd.from, "partial"})
                     /\ (cmd.from = "self" => bin' = bin)
      BY <2>1 DEF CopyBinary, CopyTo
    <3>2. cmd.from \in Versions \cup {"self"}
      BY <3>1 DEF LinuxInv, CmdIsOneOf, Installs, Uninstalls, Idle, At, LinuxRemoving
    <3> QED
      BY <1>0, <3>1, <3>2
  <2>2. CASE RemoveBin
    BY <2>2 DEF RemoveBin
  <2>3. ~CopyBinary /\ ~RemoveBin => bin' = bin
    BY DEF LinuxNext, ProcessFails, Restart, Reboot, Install, WriteEnv, SkipEnv, MakePrivate,
           WriteUnit, Reload, Enable, Start, Uninstall, StopService, Disable, RemoveUnit,
           Forget, RemoveEnv, LinuxStop
  <2> QED
    BY <1>0, <2>1, <2>2, <2>3
<1>2. EnvType'
  <2>1. CASE WriteEnv
    <3>1. At("env") /\ cmd.opts \in Candidates
      BY <2>1 DEF WriteEnv, LinuxInv, CmdIsOneOf, Installs, Uninstalls, Idle, At, LinuxRemoving
    <3>2. env' \in CredentialFiles(cmd.opts)
      <4>1. PICK is \in {"whole", "cut"}, user \in {cmd.opts.user, "unset", "", "cut"},
                 pass \in {cmd.opts.pass, "unset", "", "cut"} :
              env' = [is |-> is, user |-> user, pass |-> pass,
                      private |-> env.is # "none" /\ env.private]
        <5>1. \A c \in CutCredentials(cmd.opts) :
                /\ c[1] \in {cmd.opts.user, "unset", "", "cut"}
                /\ c[2] \in {cmd.opts.pass, "unset", "", "cut"}
          BY DEF CutCredentials, Beginnings
        <5> QED
          BY <2>1, <5>1 DEF WriteEnv, CredentialsFile
      <4>2. PICK private \in BOOLEAN : private = (env.is # "none" /\ env.private)
        OBVIOUS
      <4>3. env' = [is |-> is, user |-> user, pass |-> pass, private |-> private]
        BY <4>1, <4>2, Zenon
      <4> QED
        BY <4>3 DEF CredentialFiles
    <3> QED
      BY <3>1, <3>2
  <2>2. CASE MakePrivate
    <3>1. env.is = "whole" /\ env' = [env EXCEPT !.private = TRUE]
      BY <2>2 DEF MakePrivate, Goto, LinuxInv, CredentialsAreThere
    <3>2. PICK o \in Candidates : env \in CredentialFiles(o)
      BY <1>0, <3>1 DEF NoFile
    <3>3. env' \in CredentialFiles(o)
      BY <3>1, <3>2 DEF CredentialFiles
    <3> QED
      BY <3>3
  <2>3. CASE RemoveEnv
    BY <2>3 DEF RemoveEnv, NoFile
  <2>4. ~WriteEnv /\ ~MakePrivate /\ ~RemoveEnv => env' = env
    BY DEF LinuxNext, ProcessFails, Restart, Reboot, Install, CopyBinary, SkipEnv,
           WriteUnit, Reload, Enable, Start, Uninstall, StopService, Disable, RemoveUnit,
           Forget, RemoveBin, LinuxStop
  <2>5. env' = env => EnvType'
    BY <1>0 DEF NoFile, CredentialFiles
  <2> QED
    BY <2>1, <2>2, <2>3, <2>4, <2>5
<1>3. unit' \in Units
  <2>1. CASE WriteUnit
    <3>1. At("unit") /\ cmd.opts \in Candidates
      BY <2>1 DEF WriteUnit, LinuxInv, CmdIsOneOf, Installs, Uninstalls, Idle, At, LinuxRemoving
    <3>2. NeedsEnv(cmd.opts) \in BOOLEAN
      BY DEF NeedsEnv
    <3>3. [is |-> "whole", args |-> Args(cmd.opts), env |-> NeedsEnv(cmd.opts)] \in WholeUnits
      BY <3>1, <3>2 DEF WholeUnits, Args
    <3> QED
      BY <2>1, <3>3 DEF WriteUnit, Partial
  <2>2. CASE RemoveUnit
    BY <2>2 DEF RemoveUnit, NoFile
  <2>3. ~WriteUnit /\ ~RemoveUnit => unit' = unit
    BY DEF LinuxNext, ProcessFails, Restart, Reboot, Install, CopyBinary, WriteEnv, SkipEnv,
           MakePrivate, Reload, Enable, Start, Uninstall, StopService, Disable,
           Forget, RemoveBin, RemoveEnv, LinuxStop
  <2> QED
    BY <1>0, <2>1, <2>2, <2>3
<1>4. loaded' \in Units
  <2>1. loaded' \in {loaded, unit}
    BY DEF LinuxNext, ProcessFails, Restart, Reboot, Install, CopyBinary, WriteEnv, SkipEnv,
           MakePrivate, WriteUnit, Reload, Enable, Start, Uninstall, StopService, Disable,
           RemoveUnit, Forget, RemoveBin, RemoveEnv, LinuxStop
  <2> QED
    BY <1>0, <2>1
<1>5. enabled' \in BOOLEAN
  BY <1>0 DEF LinuxNext, ProcessFails, Restart, Reboot, Install, CopyBinary, WriteEnv,
         SkipEnv, MakePrivate, WriteUnit, Reload, Enable, Start, Uninstall, StopService,
         Disable, RemoveUnit, Forget, RemoveBin, RemoveEnv, LinuxStop
<1>6. ProcType'
  <2>1. CASE RemoveBin
    <3>1. proc.is = "running" => proc' = [proc EXCEPT !.linked = FALSE] /\ proc \notin {NoProc, Waiting}
      BY <2>1 DEF RemoveBin, NoProc, Waiting
    <3>2. proc.is # "running" => proc' = proc
      BY <2>1 DEF RemoveBin
    <3> QED
      BY <1>0, <3>1, <3>2
  <2>2. ~RemoveBin => proc' \in {proc, NoProc, Waiting, Launched(loaded), Launched(unit)}
    BY DEF LinuxNext, ProcessFails, Restart, Reboot, Install, CopyBinary, WriteEnv, SkipEnv,
           MakePrivate, WriteUnit, Reload, Enable, Start, Uninstall, StopService, Disable,
           RemoveUnit, Forget, RemoveEnv, LinuxStop
  <2> QED
    BY <1>0, <2>1, <2>2, LaunchedType DEF NoProc, Waiting
<1> QED
  BY <1>1, <1>2, <1>3, <1>4, <1>5, <1>6 DEF LinuxTypeOK

LEMMA WindowsTypeStep ==
  ASSUME WindowsInv, WindowsTypeOK, WindowsNext
  PROVE  WindowsTypeOK'
<1> DEFINE Bins == {"none", "partial"} \cup Versions
           EntryType == entry = NoEntry \/ entry \in [is : {"present", "marked"}, opts : {RuntimeArgs(o) : o \in Candidates}]
<1>0. bin \in Bins /\ EntryType
  BY DEF WindowsTypeOK
<1>1. bin' \in Bins
  <2>1. CASE CopyExe
    <3>1. At("copy") /\ (cmd.from # "self" => bin' \in {cmd.from, "partial"})
                     /\ (cmd.from = "self" => bin' = bin)
      BY <2>1 DEF CopyExe, CopyTo
    <3>2. cmd.from \in Versions \cup {"self"}
      BY <3>1 DEF WindowsInv, CmdIsOneOf, Installs, Uninstalls, Idle, At, WindowsRemoving
    <3> QED
      BY <1>0, <3>1, <3>2
  <2>2. ~CopyExe => bin' \in {bin, "none"}
    BY DEF WindowsNext, Launch, Register, ServerFails, ReportStopped, WorkerExits, Worker,
           EntryVanishes, WindowsReboot, WindowsInstall, CreateService, StartWorker,
           WindowsUninstall, OpenService, StopWorker, DeleteService, PollEnds, RemoveFiles,
           DirectoryStays, WindowsStop
  <2> QED
    BY <1>0, <2>1, <2>2
<1>2. EntryType'
  <2>1. CASE CreateService
    <3>1. cmd.opts \in Candidates
      BY <2>1 DEF CreateService, WindowsInv, CmdIsOneOf, Installs, Uninstalls, Idle, At,
             WindowsRemoving
    <3> QED
      BY <2>1, <3>1 DEF CreateService
  <2>2. CASE DeleteService
    <3>1. entry \in [is : {"present", "marked"}, opts : {RuntimeArgs(o) : o \in Candidates}]
      BY <1>0, <2>2 DEF DeleteService, NoEntry
    <3> QED
      BY <2>2, <3>1 DEF DeleteService
  <2>3. ~CreateService /\ ~DeleteService => entry' \in {entry, NoEntry}
    BY DEF WindowsNext, Launch, Register, ServerFails, ReportStopped, WorkerExits, Worker,
           EntryVanishes, WindowsReboot, WindowsInstall, CopyExe, StartWorker,
           WindowsUninstall, OpenService, StopWorker, PollEnds, RemoveFiles,
           DirectoryStays, WindowsStop
  <2> QED
    BY <1>0, <2>1, <2>2, <2>3 DEF NoEntry
<1>3. worker' \in {"none", "launched", "serving", "stopping", "reported"}
  BY DEF WindowsTypeOK, WindowsNext, Launch, Register, ServerFails, ReportStopped, WorkerExits,
         Worker, EntryVanishes, WindowsReboot, WindowsInstall, CopyExe, CreateService,
         StartWorker, WindowsUninstall, OpenService, StopWorker, DeleteService, PollEnds,
         RemoveFiles, DirectoryStays, WindowsStop
<1> QED
  BY <1>1, <1>2, <1>3 DEF WindowsTypeOK

-----------------------------------------------------------------------------
(* Either platform.                                                        *)

ServiceInv ==
  \/ /\ platform = "linux" /\ LinuxInv /\ LinuxWord
     /\ entry = NoEntry /\ worker = "none"
  \/ /\ platform = "windows" /\ WindowsInv /\ WindowsWord
     /\ unit = NoFile

LEMMA ServiceInvHolds == Spec => []ServiceInv
<1>1. Init => ServiceInv
  <2> SUFFICES ASSUME Init PROVE ServiceInv
    OBVIOUS
  <2>1. LinuxInv
    BY DEF Init, LinuxInit, LinuxInv, CmdIsOneOf, Idle, EnvIsFile, ExecutableIsThere,
           CredentialsAreThere, UnitIsGone, UnitHasFiles, At, NoFile, LinuxInstalling
  <2>2. WindowsInv
    BY DEF Init, LinuxInit, WindowsInit, WindowsInv, CmdIsOneOf, Idle, EntryIsOne,
           WindowsSteps, EntryHasFile, InUse, NoEntry, At
  <2>3. LinuxWord
    BY DEF Init, LinuxInit, LinuxWord, InstallSoFar, RemovalSoFar, LastIsTrue, At, Idle,
           LinuxInstalling
  <2>4. WindowsWord
    BY DEF Init, LinuxInit, WindowsInit, WindowsWord, At, Idle, NoEntry
  <2> QED
    BY <2>1, <2>2, <2>3, <2>4 DEF Init, LinuxInit, WindowsInit, ServiceInv
<1>2. ServiceInv /\ [Next]_vars => ServiceInv'
  <2> SUFFICES ASSUME ServiceInv, [Next]_vars PROVE ServiceInv'
    OBVIOUS
  <2>1. CASE platform = "linux" /\ LinuxNext /\ UNCHANGED <<platform, entry, worker>>
    <3>1. LinuxInv /\ LinuxWord /\ entry = NoEntry /\ worker = "none"
      BY <2>1 DEF ServiceInv
    <3> QED
      BY <2>1, <3>1, LinuxInvHolds, LinuxWordHolds DEF ServiceInv, NoEntry
  <2>2. CASE platform = "windows" /\ WindowsNext
               /\ UNCHANGED <<platform, env, unit, loaded, enabled, proc>>
    <3>1. WindowsInv /\ WindowsWord /\ unit = NoFile
      BY <2>2 DEF ServiceInv
    <3> QED
      BY <2>2, <3>1, WindowsInvHolds, WindowsWordHolds DEF ServiceInv, NoFile
  <2>3. CASE UNCHANGED vars
    <3>1. UNCHANGED linux /\ UNCHANGED windows /\ UNCHANGED platform
      BY <2>3 DEF vars
    <3>2. LinuxInv => LinuxInv'
      BY <3>1 DEF linux, LinuxInv, CmdIsOneOf, EnvIsFile, ExecutableIsThere,
           CredentialsAreThere, UnitIsGone, UnitHasFiles, NoFile, At
    <3>3. LinuxWord => LinuxWord'
      BY <3>1 DEF linux, LinuxWord, InstallSoFar, RemovalSoFar, LastIsTrue, HasCredentials,
           IsInstalled, At
    <3>4. WindowsInv => WindowsInv'
      BY <3>1 DEF windows, WindowsInv, CmdIsOneOf, EntryIsOne, WindowsSteps, EntryHasFile,
           InUse, NoEntry, At
    <3>5. WindowsWord => WindowsWord'
      BY <3>1 DEF windows, WindowsWord, EntryIsFor, At
    <3> QED
      BY <3>1, <3>2, <3>3, <3>4, <3>5 DEF ServiceInv, linux, windows, NoEntry, NoFile
  <2> QED
    BY <2>1, <2>2, <2>3 DEF Next
<1> QED
  BY <1>1, <1>2, PTL DEF Spec

\* A command that has reported success has done what it says, until the next begins:
\* for all options, however they are split, and whatever earlier commands left behind.
THEOREM WordIsKept == Spec => []CommandsKeepTheirWord
<1>1. ServiceInv => CommandsKeepTheirWord
  BY LinuxWordIsKept, WindowsWordIsKept DEF ServiceInv, CommandsKeepTheirWord
<1> QED
  BY <1>1, ServiceInvHolds, PTL

\* The types of both platforms.  In particular no unit file, which all may read, ever
\* holds a user name or a password, and no process runs an executable cut short.
THEOREM TypeCorrect == Spec => []TypeOK
<1>1. Init => TypeOK
  BY DEF Init, LinuxInit, WindowsInit, TypeOK, LinuxTypeOK, WindowsTypeOK, NoFile, NoProc,
         NoEntry
<1>2. ServiceInv /\ TypeOK /\ [Next]_vars => TypeOK'
  <2> SUFFICES ASSUME ServiceInv, TypeOK, [Next]_vars PROVE TypeOK'
    OBVIOUS
  <2>1. CASE platform = "linux" /\ LinuxNext /\ UNCHANGED <<platform, entry, worker>>
    <3>1. LinuxInv /\ LinuxTypeOK /\ entry = NoEntry /\ worker = "none"
      BY <2>1 DEF ServiceInv, TypeOK
    <3>2. LinuxTypeOK'
      BY <2>1, <3>1, LinuxTypeStep
    <3> QED
      BY <2>1, <3>1, <3>2 DEF TypeOK, LinuxTypeOK, WindowsTypeOK, NoEntry
  <2>2. CASE platform = "windows" /\ WindowsNext
               /\ UNCHANGED <<platform, env, unit, loaded, enabled, proc>>
    <3>1. WindowsInv /\ WindowsTypeOK /\ LinuxTypeOK
      BY <2>2 DEF ServiceInv, TypeOK
    <3>2. WindowsTypeOK'
      BY <2>2, <3>1, WindowsTypeStep
    <3> QED
      BY <2>2, <3>1, <3>2 DEF TypeOK, LinuxTypeOK, WindowsTypeOK, NoFile, NoProc, Waiting,
             CredentialFiles
  <2>3. CASE UNCHANGED vars
    <3>1. UNCHANGED linux /\ UNCHANGED windows /\ UNCHANGED platform
      BY <2>3 DEF vars
    <3>2. LinuxTypeOK'
      <4>1. (\E o \in Candidates : env \in CredentialFiles(o))
              => \E o \in Candidates : env' \in CredentialFiles(o)
        BY <3>1 DEF linux
      <4> QED
        BY <3>1, <4>1 DEF linux, TypeOK, LinuxTypeOK, NoFile, NoProc, Waiting
    <3>3. WindowsTypeOK'
      BY <3>1 DEF windows, TypeOK, WindowsTypeOK
    <3> QED
      BY <3>1, <3>2, <3>3 DEF linux, windows, TypeOK, NoEntry, NoFile, NoProc
  <2> QED
    BY <2>1, <2>2, <2>3 DEF Next
<1> QED
  BY <1>1, <1>2, ServiceInvHolds, PTL DEF Spec

\* No step of Linux's takes a whole executable or environment file away from a unit
\* that may be started, but for a write of install that is cut short.
LEMMA UnitStep ==
  ASSUME LinuxInv, LinuxInv', LinuxTypeOK', LinuxNext, unit'.is = "whole"
  PROVE  Backed
<1>1. bin' # "none" /\ (unit'.env => env'.is # "none" /\ env'.private)
  BY DEF LinuxInv, UnitHasFiles
<1>2. bin' \in {"partial"} \cup Versions
  BY <1>1 DEF LinuxTypeOK
<1>3. env'.is \in {"none", "whole", "cut"}
  BY DEF LinuxInv, EnvIsFile, NoFile
<1>4. unit' = unit \/ (bin' \in Versions /\ (unit'.env => env'.is = "whole"))
  <2>1. CASE WriteUnit
    <3>1. At("unit") /\ UNCHANGED <<bin, env>>
      BY <2>1 DEF WriteUnit
    <3>2. unit' = WholeUnit(cmd.opts)
      BY <2>1 DEF WriteUnit, WholeUnit, Partial
    <3>3. unit'.env => NeedsEnv(cmd.opts)
      BY <3>2 DEF WholeUnit
    <3> QED
      BY <3>1, <3>3 DEF LinuxInv, ExecutableIsThere, CredentialsAreThere, LinuxInstalling, At
  <2>2. ~RemoveUnit
    BY DEF RemoveUnit, NoFile
  <2>3. ~WriteUnit => unit' = unit
    BY <2>2 DEF LinuxNext, ProcessFails, Restart, Reboot, Install, CopyBinary, WriteEnv,
           SkipEnv, MakePrivate, Reload, Enable, Start, Uninstall, StopService, Disable,
           Forget, RemoveBin, RemoveEnv, LinuxStop
  <2> QED
    BY <2>1, <2>3
<1>5. bin' \in Versions \/ bin' = bin \/ CutShort("copy")
  <2>1. CASE CopyBinary
    <3>1. CASE Stop /\ bin' = "partial"
      BY <2>1, <3>1 DEF CopyBinary, CopyTo, CutShort, Stop
    <3>2. CASE Goto("copy", "env") /\ bin' = (IF cmd.from = "self" THEN bin ELSE cmd.from)
      <4>1. cmd.from \in Versions \cup {"self"}
        BY <3>2 DEF Goto, LinuxInv, CmdIsOneOf, Installs, Uninstalls, Idle, At, LinuxRemoving
      <4> QED
        BY <3>2, <4>1
    <3>3. \/ Stop /\ bin' = "partial"
          \/ Goto("copy", "env") /\ bin' = (IF cmd.from = "self" THEN bin ELSE cmd.from)
      BY <2>1 DEF CopyBinary, CopyTo
    <3> QED
      BY <3>1, <3>2, <3>3
  <2>2. ~RemoveBin
    BY <1>1 DEF RemoveBin
  <2>3. ~CopyBinary => bin' = bin
    BY <2>2 DEF LinuxNext, ProcessFails, Restart, Reboot, Install, WriteEnv, SkipEnv,
           MakePrivate, WriteUnit, Reload, Enable, Start, Uninstall, StopService, Disable,
           RemoveUnit, Forget, RemoveEnv, LinuxStop
  <2> QED
    BY <2>1, <2>3
<1>6. env'.is \in {"none", "whole"} \/ env' = env \/ CutShort("env")
  <2>1. CASE WriteEnv
    BY <2>1 DEF WriteEnv, CutShort, Stop, CredentialsFile
  <2>2. CASE MakePrivate
    <3>1. env.is = "whole" /\ env' = [env EXCEPT !.private = TRUE]
      BY <2>2 DEF MakePrivate, Goto, LinuxInv, CredentialsAreThere
    <3>2. env'.is = "whole"
      BY <3>1 DEF LinuxInv, EnvIsFile, NoFile
    <3> QED
      BY <3>2
  <2>3. CASE RemoveEnv
    BY <2>3 DEF RemoveEnv, NoFile
  <2>4. ~WriteEnv /\ ~MakePrivate /\ ~RemoveEnv => env' = env
    BY DEF LinuxNext, ProcessFails, Restart, Reboot, Install, CopyBinary, SkipEnv,
           WriteUnit, Reload, Enable, Start, Uninstall, StopService, Disable, RemoveUnit,
           Forget, RemoveBin, LinuxStop
  <2> QED
    BY <2>1, <2>2, <2>3, <2>4
<1>7. \/ bin' \in Versions
      \/ bin' = "partial" /\ unit' = unit /\ (bin = "partial" \/ CutShort("copy"))
  BY <1>2, <1>4, <1>5
<1>8. unit'.env =>
        /\ env'.private
        /\ \/ env'.is = "whole"
           \/ env'.is = "cut" /\ unit' = unit /\ (env.is = "cut" \/ CutShort("env"))
  BY <1>1, <1>3, <1>4, <1>6
<1> QED
  BY <1>7, <1>8 DEF Backed

\* Likewise on Windows.
LEMMA EntryStep ==
  ASSUME WindowsInv, WindowsInv', WindowsTypeOK', WindowsNext, entry'.is = "present"
  PROVE  \/ bin' \in Versions
         \/ bin' = "partial" /\ entry' = entry /\ (bin = "partial" \/ CutShort("copy"))
<1>1. bin' \in {"partial"} \cup Versions
  BY DEF WindowsInv, EntryHasFile, WindowsTypeOK
<1>2. entry' = entry \/ bin' \in Versions
  <2>1. CASE CreateService
    BY <2>1 DEF CreateService, WindowsInv, WindowsSteps, At
  <2>2. CASE DeleteService
    <3>1. entry' = [entry EXCEPT !.is = "marked"] /\ entry.is = "present"
      BY <2>2 DEF DeleteService
    <3>2. entry'.is = "marked"
      BY <3>1 DEF WindowsInv, EntryIsOne, NoEntry
    <3> QED
      BY <3>2
  <2>3. ~CreateService /\ ~DeleteService => entry' \in {entry, NoEntry}
    BY DEF WindowsNext, Launch, Register, ServerFails, ReportStopped, WorkerExits, Worker,
           EntryVanishes, WindowsReboot, WindowsInstall, CopyExe, StartWorker,
           WindowsUninstall, OpenService, StopWorker, PollEnds, RemoveFiles,
           DirectoryStays, WindowsStop
  <2> QED
    BY <2>1, <2>2, <2>3 DEF NoEntry
<1>3. bin' \in Versions \/ bin' = bin \/ CutShort("copy")
  <2>1. CASE CopyExe
    <3>1. CASE Stop /\ bin' = "partial"
      BY <2>1, <3>1 DEF CopyExe, CopyTo, CutShort, Stop
    <3>2. CASE Goto("copy", "create") /\ bin' = (IF cmd.from = "self" THEN bin ELSE cmd.from)
      <4>1. cmd.from \in Versions \cup {"self"}
        BY <3>2 DEF Goto, WindowsInv, CmdIsOneOf, Installs, Uninstalls, Idle, At,
               WindowsRemoving
      <4> QED
        BY <3>2, <4>1
    <3>3. \/ Stop /\ bin' = "partial"
          \/ Goto("copy", "create") /\ bin' = (IF cmd.from = "self" THEN bin ELSE cmd.from)
      BY <2>1 DEF CopyExe, CopyTo
    <3> QED
      BY <3>1, <3>2, <3>3
  <2>2. ~CopyExe => bin' \in {bin, "none"}
    BY DEF WindowsNext, Launch, Register, ServerFails, ReportStopped, WorkerExits, Worker,
           EntryVanishes, WindowsReboot, WindowsInstall, CreateService, StartWorker,
           WindowsUninstall, OpenService, StopWorker, DeleteService, PollEnds, RemoveFiles,
           DirectoryStays, WindowsStop
  <2>3. bin' # "none"
    BY DEF WindowsInv, EntryHasFile
  <2> QED
    BY <2>1, <2>2, <2>3
<1> QED
  BY <1>1, <1>2, <1>3

\* Whatever installs and uninstalls fail, and wherever: a unit that systemd may start
\* keeps its executable and its private environment file, whole but for a write of
\* install over them that is cut short, and none is written for less.
THEOREM UnitStaysBacked == Spec => UnitIsBacked
<1>1. ServiceInv /\ ServiceInv' /\ TypeOK' /\ [Next]_vars
        => [unit'.is = "whole" => Backed]_linux
  <2> SUFFICES ASSUME ServiceInv, ServiceInv', TypeOK', [Next]_vars, unit'.is = "whole",
                      ~UNCHANGED linux
               PROVE  Backed
    OBVIOUS
  <2>1. ~UNCHANGED vars
    BY DEF vars
  <2>2. platform' = "linux"
    BY DEF ServiceInv, NoFile
  <2>3. platform = "linux" /\ LinuxNext
    BY <2>1, <2>2 DEF Next
  <2>4. LinuxInv /\ LinuxInv' /\ LinuxTypeOK'
    BY <2>2, <2>3 DEF ServiceInv, TypeOK
  <2> QED
    BY <2>3, <2>4, UnitStep
<1> QED
  BY <1>1, ServiceInvHolds, TypeCorrect, PTL DEF Spec, UnitIsBacked

\* And the service that the SCM may start keeps its executable, in the same sense;
\* a worker only ever runs a whole one.
THEOREM EntryStaysBacked == Spec => EntryIsBacked
<1>1. ASSUME ServiceInv, ServiceInv', TypeOK', [Next]_vars, entry'.is = "present",
             ~UNCHANGED windows
      PROVE  \/ bin' \in Versions
             \/ bin' = "partial" /\ entry' = entry /\ (bin = "partial" \/ CutShort("copy"))
  <2>1. ~UNCHANGED vars
    BY <1>1 DEF vars
  <2>2. platform' = "windows"
    BY <1>1 DEF ServiceInv, NoEntry
  <2>3. platform = "windows" /\ WindowsNext
    BY <1>1, <2>1, <2>2 DEF Next
  <2>4. WindowsInv /\ WindowsInv' /\ WindowsTypeOK'
    BY <1>1, <2>2, <2>3 DEF ServiceInv, TypeOK
  <2> QED
    BY <1>1, <2>3, <2>4, EntryStep
<1>2. ServiceInv' => (InUse' => bin' \in Versions)
  BY DEF ServiceInv, WindowsInv, EntryHasFile, InUse
<1>3. ServiceInv /\ ServiceInv' /\ TypeOK' /\ [Next]_vars =>
        [/\ entry'.is = "present" =>
              \/ bin' \in Versions
              \/ bin' = "partial" /\ entry' = entry /\ (bin = "partial" \/ CutShort("copy"))
         /\ InUse' => bin' \in Versions]_windows
  BY <1>1, <1>2
<1> QED
  BY <1>3, ServiceInvHolds, TypeCorrect, PTL DEF Spec, EntryIsBacked

=============================================================================
