------------------------ MODULE LiveRequestRegistry ------------------------
(***************************************************************************)
(* The helper's memory of request identifiers (lsmf/ipc_security.py): the  *)
(* bindings of the requests in hand, and the latest identifiers that were  *)
(* served or invalidated, oldest first.  Both are bounded.                 *)
(*                                                                         *)
(* A binding is a request identifier with the bus connection that sent it: *)
(* action, parameters and session are functions of the two.                *)
(***************************************************************************)
EXTENDS Naturals, Sequences, FiniteSets

CONSTANTS Ids, Owners, MaxLive, MaxRecent

ASSUME RegistryAssumption == MaxLive \in Nat \ {0} /\ MaxRecent \in Nat \ {0}

Bindings == [id : Ids, owner : Owners]

VARIABLES live, recent
registryVars == <<live, recent>>

RegistryTypeOK ==
  /\ live \in SUBSET Bindings /\ Cardinality(live) <= MaxLive
  /\ recent \in Seq(Ids) /\ Len(recent) <= MaxRecent
RegistryInit   == live = {} /\ recent = << >>

Remembered(id) ==
  (\E b \in live : b.id = id) \/ (\E i \in DOMAIN recent : recent[i] = id)

\* Mutant: only live identifiers are compared.
RegistrableWhenServed(b) ==
  ~(\E a \in live : a.id = b.id) /\ Cardinality(live) < MaxLive

Registrable(b) == ~Remembered(b.id) /\ Cardinality(live) < MaxLive

Register(b) == live' = live \cup {b} /\ UNCHANGED recent

\* Mutant: one identifier too many is kept.
LatestOneMore(s) ==
  IF Len(s) > MaxRecent + 1 THEN SubSeq(s, Len(s) - MaxRecent, Len(s)) ELSE s

\* The newest MaxRecent identifiers of a sequence.
Latest(s) ==
  IF Len(s) > MaxRecent THEN SubSeq(s, Len(s) - MaxRecent + 1, Len(s)) ELSE s

\* The identifiers of bs in some order: theirs is the order of registration,
\* which matters to nothing but which of them is forgotten first.
IdOrders(bs) ==
  {s \in [1..Cardinality(bs) -> {b.id : b \in bs}] : \A i, j \in DOMAIN s : s[i] = s[j] => i = j}

\* complete, and the loop of invalidate_owner.
Retire(bs) ==
  /\ live' = live \ bs
  /\ \E s \in IdOrders(bs \cap live) : recent' = Latest(recent \o s)

\* register and complete, one after the other.
Serve(b) == UNCHANGED live /\ recent' = Latest(Append(recent, b.id))

Owned(o) == {b \in live : b.owner = o}
=============================================================================
