------------------------------ MODULE Installer ------------------------------
(***************************************************************************)
(* What `tinysocks install` and `tinysocks uninstall` have in common on    *)
(* both platforms: the installed executable, and a command that goes       *)
(* through its steps one by one, stops at the first that fails, may be     *)
(* killed between any two, and undoes nothing.  One command runs at a      *)
(* time; the service process and the system go on meanwhile.               *)
(***************************************************************************)
EXTENDS Config

CONSTANTS
  Versions,    \* the executables that may be run to install themselves
  Candidates   \* the options they may be given

ASSUME InstallerAssumption ==
  /\ {"none", "partial", "self"} \cap Versions = {}
  /\ \A o \in Candidates : o = With(o, o.user, o.pass)   \* a record of options

VARIABLES
  bin,    \* the installed executable: none, partial (a copy cut short), a version
  cmd,    \* the command under way, its options and where its executable is from
  last    \* history: what the last command achieved

Idle      == [pc |-> "idle"]
Unsettled == [is |-> "unsettled"]   \* a command has begun, and not succeeded
Removed   == [is |-> "removed"]
Installed(version, o) == [is |-> "installed", version |-> version, opts |-> o]

At(pc) == cmd.pc = pc
Goto(from, to) ==
  /\ At(from)
  /\ cmd' = [cmd EXCEPT !.pc = to]
  /\ UNCHANGED last

\* The command's own executable may be the installed one ("self").
BeginInstall(first, o, from) ==
  /\ cmd = Idle
  /\ from = "self" => bin \in Versions
  /\ cmd' = [pc |-> first, opts |-> o, from |-> from]
  /\ last' = Unsettled

BeginUninstall(first) ==
  /\ cmd = Idle
  /\ cmd' = [pc |-> first]
  /\ last' = Unsettled

\* A step fails, or the command is killed.
Stop == cmd # Idle /\ cmd' = Idle /\ UNCHANGED last

CutShort(at) == At(at) /\ cmd' = Idle

Finish(what) == cmd' = Idle /\ last' = what

\* The copy: it is skipped if the command runs from the installed executable, and
\* fails if that is being executed.  Cut short, it leaves a partial file.
CopyTo(next, busy) ==
  /\ At("copy")
  /\ IF cmd.from = "self" THEN Goto("copy", next) /\ UNCHANGED bin
     ELSE /\ ~busy
          /\ \/ Goto("copy", next) /\ bin' = cmd.from
             \/ Stop /\ bin' = "partial"

=============================================================================
