--------------------------- MODULE MCConfigEditor ---------------------------
(* Instances of ConfigEditor for TLC.  "flag" has a control for all of its  *)
(* values, "level" one that does not offer every accepted value, "other"    *)
(* is in the file but not in the form.                                      *)
EXTENDS ConfigEditor, TLC

CONSTANTS flag, level, other, a, b

\* The controls of "flag" and "other", and those of "level" and "other".
MCOffered == flag :> {a, b} @@ other :> {}
MCFirst   == flag :> a @@ other :> a
MCNarrow  == level :> {a} @@ flag :> {a, b}
MCNarrowFirst == level :> a @@ flag :> a
=============================================================================
