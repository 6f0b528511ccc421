------------------------ MODULE MCSystemBusService ------------------------
(* Instances of SystemBusService for TLC.                                  *)
EXTENDS SystemBusService, TLC

CONSTANTS c1, c2, c3, idA, idB, o1, o2

\* The second connection has a request of its own and repeats the identifier
\* of the first one.
MCIdOf    == c1 :> idA @@ c2 :> idB @@ c3 :> idA
MCOwnerOf == c1 :> o1 @@ c2 :> o2 @@ c3 :> o2

\* Two requests of two connections.
MCPairIdOf    == c1 :> idA @@ c2 :> idB
MCPairOwnerOf == c1 :> o1 @@ c2 :> o2
=============================================================================
