-------------------------- MODULE MCDesktopSession --------------------------
(* Instances of DesktopSession for TLC: two actions, one after the other,   *)
(* each with a connection and a request identifier of its own.             *)
EXTENDS DesktopSession, TLC

CONSTANTS c1, c2, idA, idB, o1, o2

MCIdOf    == c1 :> idA @@ c2 :> idB
MCOwnerOf == c1 :> o1 @@ c2 :> o2

\* One action.
MCOneIdOf    == c1 :> idA
MCOneOwnerOf == c1 :> o1
=============================================================================
