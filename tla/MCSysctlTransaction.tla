----------------------- MODULE MCSysctlTransaction -----------------------
(* Instances of SysctlTransaction for TLC: a kernel and a network module,  *)
(* each with a file and a key, and the two selections that the packaged    *)
(* manifest allows.                                                        *)
EXTENDS SysctlTransaction, TLC

CONSTANTS kernel, network, kfile, kkey, nfile, nkey, old, new

MCModuleOf   == [o \in Objects |-> IF o \in {kfile, kkey} THEN kernel ELSE network]
MCRank       == [o \in Objects |->
                  (kfile :> 1 @@ kkey :> 2 @@ nfile :> 3 @@ nkey :> 4)[o]]
MCDesired    == [o \in Objects |-> new]
MCSelections == {{kernel}, {kernel, network}} \cap SUBSET Modules

\* Everything can fail but the removal of the marker after its unlink and the
\* reading back of a valid backup.
MCFaults     == FaultKinds \ {"clear_sync", "load"}
MCClearSync  == {"file", "refuse", "clear_sync"}
MCLoad       == {"refuse", "load"}
=============================================================================
