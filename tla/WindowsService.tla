--------------------------- MODULE WindowsService ---------------------------
(***************************************************************************)
(* install and uninstall on Windows, and the service worker                *)
(* (service/windows.rs), with the service control manager (SCM) they talk  *)
(* to.  All options go to the service's command line.  Windows does not    *)
(* remove or replace an executable that a process runs.                    *)
(***************************************************************************)
EXTENDS Installer

VARIABLES
  entry,    \* the service in the SCM's database: none, present, marked for deletion
  worker    \* the service process: none, launched (start pending), serving,
            \* stopping (still "running" for the SCM), reported (stopped, not gone)

windows == <<bin, cmd, last, entry, worker>>

\* runtime_args leaves out a user name without a password, and the reverse.
RuntimeArgs(o) == IF "unset" \in {o.user, o.pass} THEN With(o, "unset", "unset") ELSE o

NoEntry == [is |-> "none"]
InUse   == worker # "none"

WindowsInit ==
  /\ bin = "none" /\ cmd = Idle /\ last = Removed
  /\ entry = NoEntry
  /\ worker = "none"

-----------------------------------------------------------------------------
(* The SCM and the worker, run_service_worker.                             *)

Launch ==
  /\ entry.is = "present" /\ worker = "none" /\ bin \in Versions
  /\ worker' = "launched"
  /\ UNCHANGED <<bin, cmd, last, entry>>

Worker(from, to) ==
  /\ worker = from
  /\ worker' = to
  /\ UNCHANGED <<bin, cmd, last, entry>>

\* run() may return an error by itself; the stop it gets is StopWorker's.
Register      == Worker("launched", "serving")
ServerFails   == Worker("serving", "stopping")
ReportStopped == Worker("stopping", "reported")

\* The process ends: it has reported, it failed before it could, or it was killed.
WorkerExits == worker # "none" /\ Worker(worker, "none")

\* The SCM forgets a marked service once it is stopped and no handle is open.
EntryVanishes ==
  /\ entry.is = "marked" /\ worker \in {"none", "reported"}
  /\ cmd.pc \notin {"query", "delete"}
  /\ entry' = NoEntry
  /\ UNCHANGED <<bin, cmd, last, worker>>

\* The service is started at boot.
WindowsReboot ==
  /\ cmd' = Idle
  /\ entry' = IF entry.is = "marked" THEN NoEntry ELSE entry
  /\ worker' = IF entry.is = "present" /\ bin \in Versions THEN "launched" ELSE "none"
  /\ UNCHANGED <<bin, last>>

-----------------------------------------------------------------------------
(* install                                                                 *)

WindowsInstall ==
  /\ \E o \in Candidates, from \in Versions \cup {"self"} : BeginInstall("copy", o, from)
  /\ UNCHANGED <<bin, entry, worker>>

CopyExe ==
  /\ CopyTo("create", InUse)
  /\ UNCHANGED <<entry, worker>>

\* The options are only checked here; a service of the name must not exist.
CreateService ==
  /\ At("create") /\ Accepts(cmd.opts)
  /\ entry = NoEntry
  /\ Goto("create", "launch")
  /\ entry' = [is |-> "present", opts |-> RuntimeArgs(cmd.opts)]
  /\ UNCHANGED <<bin, worker>>

StartWorker ==
  /\ At("launch") /\ worker = "none" /\ bin \in Versions
  /\ worker' = "launched"
  /\ Finish(Installed(bin, cmd.opts))
  /\ UNCHANGED <<bin, entry>>

-----------------------------------------------------------------------------
(* uninstall                                                               *)

WindowsUninstall ==
  /\ BeginUninstall("open")
  /\ UNCHANGED <<bin, entry, worker>>

OpenService ==
  /\ Goto("open", IF entry = NoEntry THEN "files" ELSE "query")
  /\ UNCHANGED <<bin, entry, worker>>

\* A service that is only being started does not accept the stop.
StopWorker ==
  /\ worker # "launched"
  /\ Goto("query", "delete")
  /\ worker' = IF worker = "serving" THEN "stopping" ELSE worker
  /\ UNCHANGED <<bin, entry>>

DeleteUnchecked ==   \* faulty: a failed delete() is ignored
  /\ Goto("delete", "poll")
  /\ entry' \in {entry, [entry EXCEPT !.is = "marked"]}
  /\ UNCHANGED <<bin, worker>>

DeleteService ==
  /\ entry.is = "present"
  /\ Goto("delete", "poll")
  /\ entry' = [entry EXCEPT !.is = "marked"]
  /\ UNCHANGED <<bin, worker>>

\* Until the service has vanished, or for five seconds.
PollEnds ==
  /\ Goto("poll", "files")
  /\ UNCHANGED <<bin, entry, worker>>

RemoveFiles ==
  /\ At("files") /\ ~InUse
  /\ bin' = "none"
  /\ Finish(Removed)
  /\ UNCHANGED <<entry, worker>>

\* The executable is gone, but its directory cannot be removed.
DirectoryStays ==
  /\ At("files") /\ ~InUse
  /\ bin' = "none"
  /\ Stop
  /\ UNCHANGED <<entry, worker>>

WindowsStop == Stop /\ UNCHANGED <<bin, entry, worker>>

-----------------------------------------------------------------------------
WindowsNext ==
  \/ Launch \/ Register \/ ServerFails \/ ReportStopped \/ WorkerExits
  \/ EntryVanishes \/ WindowsReboot
  \/ WindowsInstall \/ CopyExe \/ CreateService \/ StartWorker
  \/ WindowsUninstall \/ OpenService \/ StopWorker \/ DeleteService \/ PollEnds
  \/ RemoveFiles \/ DirectoryStays
  \/ WindowsStop

WindowsSpec == WindowsInit /\ [][WindowsNext]_windows

-----------------------------------------------------------------------------
(* Properties                                                              *)

WindowsTypeOK ==
  /\ bin \in {"none", "partial"} \cup Versions
  /\ entry = NoEntry \/ entry \in [is : {"present", "marked"}, opts : {RuntimeArgs(o) : o \in Candidates}]
  /\ worker \in {"none", "launched", "serving", "stopping", "reported"}

\* No step leaves the service that the SCM starts at boot without an executable, or
\* a process without a whole one.  The former's is whole too, unless an install that
\* stops at the entry of an earlier one has had its copy cut short; no entry is
\* ever made for such a file.
EntryIsBacked ==
  [][/\ entry'.is = "present" =>
          \/ bin' \in Versions
          \/ bin' = "partial" /\ entry' = entry /\ (bin = "partial" \/ CutShort("copy"))
     /\ InUse' => bin' \in Versions]_windows

\* After a successful install the SCM has the service with options that come to
\* those given; after a successful uninstall neither file nor service is left, but
\* for an entry that vanishes by itself.
WindowsKeepsItsWord ==
  /\ last.is = "installed" => /\ entry.is = "present" /\ bin = last.version
                              /\ Accepts(entry.opts)
                              /\ Effective(entry.opts) = Effective(last.opts)
  /\ last.is = "removed" => bin = "none" /\ entry.is # "present" /\ ~InUse

=============================================================================
