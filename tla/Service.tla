------------------------------ MODULE Service ------------------------------
(***************************************************************************)
(* The installed service on the platform the program was built for         *)
(* (service/mod.rs chooses one of the two implementations).                *)
(***************************************************************************)
EXTENDS LinuxService, WindowsService

VARIABLE platform

vars == <<platform, linux, windows>>

Init == platform \in {"linux", "windows"} /\ LinuxInit /\ WindowsInit

Next ==
  \/ platform = "linux" /\ LinuxNext /\ UNCHANGED <<platform, entry, worker>>
  \/ platform = "windows" /\ WindowsNext
       /\ UNCHANGED <<platform, env, unit, loaded, enabled, proc>>

Spec == Init /\ [][Next]_vars

-----------------------------------------------------------------------------
TypeOK == LinuxTypeOK /\ WindowsTypeOK

\* A command that reports success has done what it says, until the next one
\* begins: see LinuxKeepsItsWord and WindowsKeepsItsWord.
CommandsKeepTheirWord ==
  IF platform = "linux" THEN LinuxKeepsItsWord ELSE WindowsKeepsItsWord

=============================================================================
