---------------------------- MODULE LinuxService ----------------------------
(***************************************************************************)
(* install and uninstall on Linux (service/linux.rs), and the systemd they *)
(* talk to.  The options are split: the command line goes to the unit, the *)
(* credentials to an environment file, and the service process puts them   *)
(* together again when systemd starts it.                                  *)
(***************************************************************************)
EXTENDS Installer

VARIABLES
  env,      \* /etc/tinysocks/tinysocks.env
  unit,     \* the unit file
  loaded,   \* the unit as systemd has it since its last daemon-reload
  enabled,  \* is the unit started at boot?
  proc      \* the service process

linux == <<bin, cmd, last, env, unit, loaded, enabled, proc>>

NoFile  == [is |-> "none"]
Partial == [is |-> "partial"]   \* a unit file cut short
NoProc  == [is |-> "none"]
Waiting == [is |-> "waiting"]   \* it failed; systemd will start it again

CredentialsFile(is, user, pass, private) ==
  [is |-> is, user |-> user, pass |-> pass, private |-> private]

ArgsOfUserToo(o) == With(o, o.user, "unset")   \* faulty: the user name stays

\* linux_service_args: all but the credentials.
Args(o) == With(o, "unset", "unset")

\* build_env_file writes a file if both options were given, be they empty.
NeedsEnv(o) == o.user # "unset" /\ o.pass # "unset"

\* The user name and the password in a file of theirs that is cut short: none yet,
\* or the beginning of a value, which systemd takes as it is.
Beginnings(value) == {"unset", ""} \cup (IF Given(value) THEN {"cut"} ELSE {})
CutCredentials(o) ==
  (Beginnings(o.user) \X {"unset"}) \cup ({o.user} \X Beginnings(o.pass))

\* quote_env_value refuses a line break.
Quotable(o) == "two\nlines" \notin {o.user, o.pass}

LinuxInit ==
  /\ bin = "none" /\ cmd = Idle /\ last = Removed
  /\ env = NoFile /\ unit = NoFile /\ loaded = NoFile
  /\ enabled = FALSE
  /\ proc = NoProc

-----------------------------------------------------------------------------
(* systemd.                                                                *)

\* The options a process started from unit u gets: its command line, and the
\* environment, which the command line does not override.
Joined(u) == IF u.env THEN With(u.args, env.user, env.pass) ELSE u.args

Running(u) == [is |-> "running", opts |-> Effective(Joined(u)), version |-> bin, linked |-> TRUE]

\* Restart=on-failure: a start that fails, for want of a file or because the
\* process rejects its options, is tried again.
Launched(u) ==
  IF u.is # "whole" THEN NoProc
  ELSE IF bin \in Versions /\ (u.env => env.is # "none") /\ Accepts(Joined(u))
    THEN Running(u)
  ELSE Waiting

Busy == proc.is = "running" /\ proc.linked   \* the installed file is being executed

ProcessFails ==
  /\ proc.is = "running"
  /\ proc' = Waiting
  /\ UNCHANGED <<bin, cmd, last, env, unit, loaded, enabled>>

Restart ==
  /\ proc = Waiting
  /\ proc' = Launched(loaded)
  /\ proc' # proc
  /\ UNCHANGED <<bin, cmd, last, env, unit, loaded, enabled>>

\* The machine goes down, and the command with it, and comes up again.
Reboot ==
  /\ cmd' = Idle
  /\ loaded' = unit
  /\ proc' = IF enabled THEN Launched(unit) ELSE NoProc
  /\ UNCHANGED <<bin, last, env, unit, enabled>>

-----------------------------------------------------------------------------
(* install                                                                 *)

\* Options that are not accepted end the command before it has done anything.
Install ==
  /\ \E o \in Candidates, from \in Versions \cup {"self"} :
       Accepts(o) /\ BeginInstall("copy", o, from)
  /\ UNCHANGED <<bin, env, unit, loaded, enabled, proc>>

CopyBinary ==
  /\ CopyTo("env", Busy)
  /\ UNCHANGED <<env, unit, loaded, enabled, proc>>

\* A new file is readable by all until it is made private; one that is
\* there keeps its mode.
WriteEnv ==
  LET o == cmd.opts
      private == env.is # "none" /\ env.private
  IN
  /\ At("env") /\ NeedsEnv(o) /\ Quotable(o)
  /\ \/ Goto("env", "private") /\ env' = CredentialsFile("whole", o.user, o.pass, private)
     \/ /\ Stop
        /\ \E c \in CutCredentials(o) : env' = CredentialsFile("cut", c[1], c[2], private)
  /\ UNCHANGED <<bin, unit, loaded, enabled, proc>>

SkipEnv ==
  /\ At("env") /\ ~NeedsEnv(cmd.opts)
  /\ Goto("env", "unit")
  /\ UNCHANGED <<bin, env, unit, loaded, enabled, proc>>

MakePrivate ==
  /\ Goto("private", "unit")
  /\ env' = [env EXCEPT !.private = TRUE]
  /\ UNCHANGED <<bin, unit, loaded, enabled, proc>>

WriteUnitForFile ==   \* faulty: the unit names the environment file if there is one
  LET o == cmd.opts IN
  /\ At("unit")
  /\ o.user # "unset" => NeedsEnv(o)
  /\ Goto("unit", "reload")
  /\ unit' = [is |-> "whole", args |-> Args(o), env |-> env.is # "none"]
  /\ UNCHANGED <<bin, env, loaded, enabled, proc>>

\* build_unit refuses a user name without an environment file.
WriteUnit ==
  LET o == cmd.opts IN
  /\ At("unit")
  /\ o.user # "unset" => NeedsEnv(o)
  /\ \/ /\ Goto("unit", "reload")
        /\ unit' = [is |-> "whole", args |-> Args(o), env |-> NeedsEnv(o)]
     \/ Stop /\ unit' = Partial
  /\ UNCHANGED <<bin, env, loaded, enabled, proc>>

Reload ==
  /\ Goto("reload", "enable")
  /\ loaded' = unit
  /\ UNCHANGED <<bin, env, unit, enabled, proc>>

Enable ==
  /\ Goto("enable", "start")
  /\ enabled' = TRUE
  /\ UNCHANGED <<bin, env, unit, loaded, proc>>

\* systemctl start does nothing if the service is running.
Start ==
  /\ At("start")
  /\ proc' = IF proc.is = "running" THEN proc ELSE Launched(loaded)
  /\ Finish(Installed(bin, cmd.opts))
  /\ UNCHANGED <<bin, env, unit, loaded, enabled>>

-----------------------------------------------------------------------------
(* uninstall                                                               *)

Uninstall ==
  /\ BeginUninstall("stop")
  /\ UNCHANGED <<bin, env, unit, loaded, enabled, proc>>

\* The outcome of `stop` and of `disable` is ignored.
StopService ==
  /\ Goto("stop", "disable")
  /\ proc' \in {NoProc, proc}
  /\ UNCHANGED <<bin, env, unit, loaded, enabled>>

Disable ==
  /\ Goto("disable", "removeUnit")
  /\ enabled' \in {FALSE, enabled}
  /\ UNCHANGED <<bin, env, unit, loaded, proc>>

\* A file that is not there counts as removed.
KeepUnit ==   \* faulty: the unit is left for later
  /\ Goto("removeUnit", "forget")
  /\ UNCHANGED <<bin, env, unit, loaded, enabled, proc>>

RemoveUnit ==
  /\ Goto("removeUnit", "forget")
  /\ unit' = NoFile
  /\ UNCHANGED <<bin, env, loaded, enabled, proc>>

Forget ==
  /\ Goto("forget", "removeBin")
  /\ loaded' = unit
  /\ UNCHANGED <<bin, env, unit, enabled, proc>>

\* A process that still runs keeps the file it is executing, without its name.
RemoveBin ==
  /\ Goto("removeBin", "removeEnv")
  /\ bin' = "none"
  /\ proc' = IF proc.is = "running" THEN [proc EXCEPT !.linked = FALSE] ELSE proc
  /\ UNCHANGED <<env, unit, loaded, enabled>>

RemoveEnv ==
  /\ At("removeEnv")
  /\ env' = NoFile
  /\ Finish(Removed)
  /\ UNCHANGED <<bin, unit, loaded, enabled, proc>>

LinuxStop == Stop /\ UNCHANGED <<bin, env, unit, loaded, enabled, proc>>

-----------------------------------------------------------------------------
LinuxNext ==
  \/ ProcessFails \/ Restart \/ Reboot
  \/ Install \/ CopyBinary \/ WriteEnv \/ SkipEnv \/ MakePrivate \/ WriteUnit
  \/ Reload \/ Enable \/ Start
  \/ Uninstall \/ StopService \/ Disable \/ RemoveUnit \/ Forget \/ RemoveBin \/ RemoveEnv
  \/ LinuxStop

LinuxSpec == LinuxInit /\ [][LinuxNext]_linux

-----------------------------------------------------------------------------
(* Properties                                                              *)

CredentialFiles(o) ==
  [is : {"whole", "cut"}, user : {o.user, "unset", "", "cut"},
   pass : {o.pass, "unset", "", "cut"}, private : BOOLEAN]

WholeUnits ==
  [is : {"whole"}, args : {With(o, "unset", "unset") : o \in Candidates}, env : BOOLEAN]

\* The type invariant.  A unit file, which all may read, has no credentials in it.
LinuxTypeOK ==
  /\ bin \in {"none", "partial"} \cup Versions
  /\ env = NoFile \/ \E o \in Candidates : env \in CredentialFiles(o)
  /\ {unit, loaded} \subseteq {NoFile, Partial} \cup WholeUnits
  /\ enabled \in BOOLEAN
  /\ \/ proc \in {NoProc, Waiting}
     \/ proc \in [is : {"running"}, opts : {proc.opts}, version : Versions, linked : BOOLEAN]

\* Whatever fails, is killed or rebooted, no step leaves a unit that systemd may
\* start without its executable and the environment file it names, which only its
\* owner can read.  Both are whole, with one exception: install writes them in
\* place, so a copy or a write of it that is cut short over those of an earlier
\* unit leaves them so; and no unit is ever written for files like that.
Backed ==
  /\ \/ bin' \in Versions
     \/ bin' = "partial" /\ unit' = unit /\ (bin = "partial" \/ CutShort("copy"))
  /\ unit'.env =>
       /\ env'.private
       /\ \/ env'.is = "whole"
          \/ env'.is = "cut" /\ unit' = unit /\ (env.is = "cut" \/ CutShort("env"))
UnitIsBacked == [][unit'.is = "whole" => Backed]_linux

\* After a successful install the next start of the service, at boot or after a
\* failure, runs that executable with exactly the options given, however they were
\* split and whatever earlier commands have left behind; after a successful
\* uninstall there is nothing left to start.
LinuxKeepsItsWord ==
  /\ last.is = "installed" =>
       /\ enabled /\ unit.is = "whole" /\ loaded = unit
       /\ Launched(unit).is = "running"
       /\ Running(unit).version = last.version
       /\ Running(unit).opts = Effective(last.opts)
  /\ last.is = "removed" => bin = "none" /\ {env, unit, loaded} = {NoFile}

\* README.md: install is to "Install, start, and enable the service at boot": what
\* runs once install has reported success runs with the options it was given.
InstallTakesEffect ==
  last.is = "installed" /\ proc.is = "running" => proc.opts = Effective(last.opts)

=============================================================================
