-------------------------- MODULE MCSysctlProcess --------------------------
(* Instances of SysctlProcess for TLC: one module with a file and a key.   *)
EXTENDS SysctlProcess, TLC

CONSTANTS kernel, kfile, kkey, old, new

MCModuleOf   == kfile :> kernel @@ kkey :> kernel
MCRank       == kfile :> 1 @@ kkey :> 2
MCDesired    == [o \in {kfile, kkey} |-> new]
MCSelections == {{kernel}}

\* Errors that the code is meant to survive.
MCFaults == {"create_sync", "file", "refuse", "clamp", "read"}

\* A key that stores something else makes apply and its restoration uncertain.
MCUncertain == {"refuse", "clamp"}

\* The disk refuses the marker as well.
MCMarkLost == {"refuse", "clamp", "mark_open"}
=============================================================================
