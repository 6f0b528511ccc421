---------------------- MODULE SystemBusRegistryProofs ----------------------
(***************************************************************************)
(* The registry of request identifiers: it stays within its limits, and,   *)
(* as long as it can remember every identifier there is, the service runs  *)
(* one request at a time and none twice.                                   *)
(***************************************************************************)
EXTENDS SystemBusServiceProofs, FiniteSetTheorems, SequenceTheorems

---------------------------------------------------------------------------
(* What the registry's operators return.                                   *)

\* The newest identifiers are identifiers, and no more than the limit.
LEMMA LatestType ==
  ASSUME NEW s \in Seq(Ids)
  PROVE  Latest(s) \in Seq(Ids) /\ Len(Latest(s)) <= MaxRecent
<1>1. Len(s) \in Nat /\ MaxRecent \in Nat \ {0}
  BY LenProperties, RegistryAssumption
<1>2. CASE Len(s) > MaxRecent
  <2>1. \A i \in (Len(s) - MaxRecent + 1)..Len(s) : s[i] \in Ids
    BY <1>1, <1>2, ElementOfSeq
  <2>2. /\ SubSeq(s, Len(s) - MaxRecent + 1, Len(s)) \in Seq(Ids)
        /\ Len(SubSeq(s, Len(s) - MaxRecent + 1, Len(s))) = MaxRecent
    BY <1>1, <1>2, <2>1, SubSeqProperties
  <2> QED BY <1>1, <1>2, <2>2 DEF Latest
<1>3. CASE ~(Len(s) > MaxRecent)
  BY <1>1, <1>3 DEF Latest
<1> QED BY <1>2, <1>3

\* An order of registration is a sequence of identifiers.
LEMMA OrderType ==
  ASSUME NEW bs \in SUBSET Bindings, IsFiniteSet(bs), NEW s \in IdOrders(bs)
  PROVE  s \in Seq(Ids)
<1>1. Cardinality(bs) \in Nat
  BY FS_CardinalityType
<1>2. s \in [1..Cardinality(bs) -> Ids]
  BY DEF IdOrders, Bindings
<1> QED BY <1>1, <1>2, SeqDef

---------------------------------------------------------------------------
(* The limits.                                                             *)

RegistryShape == RegistryTypeOK /\ IsFiniteSet(live)

\* Withdrawing registrations keeps the limits (complete, invalidate_owner).
LEMMA RetireType ==
  ASSUME RegistryShape, NEW bs, Retire(bs)
  PROVE  RegistryShape'
<1>1. live \cap bs \in SUBSET live /\ live \in SUBSET Bindings /\ recent \in Seq(Ids)
  BY DEF RegistryShape, RegistryTypeOK
<1>2. IsFiniteSet(bs \cap live)
  BY FS_Intersection DEF RegistryShape
<1>3. PICK s \in IdOrders(bs \cap live) : recent' = Latest(recent \o s)
  BY DEF Retire
<1>4. recent \o s \in Seq(Ids)
  BY <1>1, <1>2, OrderType, ConcatProperties
<1>5. recent' \in Seq(Ids) /\ Len(recent') <= MaxRecent
  BY <1>3, <1>4, LatestType
<1>6. live' \in SUBSET live
  BY DEF Retire
<1>7. IsFiniteSet(live') /\ Cardinality(live') <= Cardinality(live)
  BY <1>6, FS_Subset DEF RegistryShape
<1>8. Cardinality(live) <= MaxLive /\ Cardinality(live) \in Nat /\ Cardinality(live') \in Nat
  BY <1>7, FS_CardinalityType DEF RegistryShape, RegistryTypeOK
<1> QED BY <1>1, <1>5, <1>6, <1>7, <1>8, RegistryAssumption DEF RegistryShape, RegistryTypeOK

\* So does registering where there is room.
LEMMA RegisterType ==
  ASSUME RegistryShape, NEW b \in Bindings, Registrable(b), Register(b)
  PROVE  RegistryShape'
<1>1. /\ IsFiniteSet(live')
      /\ Cardinality(live') \in {Cardinality(live), Cardinality(live) + 1}
  BY FS_AddElement DEF RegistryShape, Register
<1>2. Cardinality(live) < MaxLive /\ Cardinality(live) \in Nat /\ MaxLive \in Nat
  BY FS_CardinalityType, RegistryAssumption DEF RegistryShape, Registrable
<1> QED BY <1>1, <1>2 DEF RegistryShape, RegistryTypeOK, Register

\* Registering and completing at once.
LEMMA ServeType ==
  ASSUME RegistryShape, NEW b \in Bindings, Serve(b)
  PROVE  RegistryShape'
<1>1. Append(recent, b.id) \in Seq(Ids)
  BY DEF RegistryShape, RegistryTypeOK, Bindings
<1>2. recent' \in Seq(Ids) /\ Len(recent') <= MaxRecent
  BY <1>1, LatestType DEF Serve
<1> QED BY <1>2 DEF RegistryShape, RegistryTypeOK, Serve

\* Every step keeps the limits.
LEMMA RegistryStep ==
  ASSUME RegistryShape, [Next]_vars
  PROVE  RegistryShape'
<1>1. ASSUME UNCHANGED registryVars PROVE RegistryShape'
  BY <1>1 DEF registryVars, RegistryShape, RegistryTypeOK
<1>2. ASSUME NEW c \in Calls PROVE Binding(c) \in Bindings
  BY CallAssumption DEF Binding, Bindings
<1>3. ASSUME NEW c \in Calls, Admit(c) PROVE RegistryShape'
  BY <1>2, <1>3, RegisterType, ServeType DEF Admit
<1>4. ASSUME NEW c \in Calls, Continue(c) PROVE RegistryShape'
  BY <1>1, <1>4, RetireType DEF Continue, Deliver
<1>5. ASSUME NEW o \in Owners, Disconnected(o) PROVE RegistryShape'
  BY <1>5, RetireType DEF Disconnected
<1>6. ASSUME NEW c \in Calls, Route(c) \/ CallStep(c) \/ Outside(Expire(c)) \/ CancelCall(c)
      PROVE  RegistryShape'
  BY <1>1, <1>3, <1>4, <1>6
     DEF Route, CallStep, Lookup, Refuse, Outside, CancelCall
<1> QED BY <1>1, <1>5, <1>6 DEF Next, vars, Deactivated

\* Type correctness, the limits of the registry included: its memory of
\* identifiers and the number of requests in hand stay bounded, whatever order
\* requests, cancellations and lost connections come in (LiveRequestRegistry).
THEOREM ServiceTypes == Spec => []TypeOK
<1>1. Init => RegistryShape
  BY FS_EmptySet, RegistryAssumption DEF Init, RegistryInit, RegistryShape, RegistryTypeOK
<1>2. RegistryShape /\ [Next]_vars => RegistryShape'
  BY RegistryStep
<1>3. Safety /\ Fields /\ RegistryShape => TypeOK
  BY DEF Safety, Shape, Fields, RegistryShape, TypeOK, DispatcherTypeOK
<1> QED BY <1>1, <1>2, <1>3, ServiceRecorded, PTL DEF Spec
---------------------------------------------------------------------------
(* A registry with room for every identifier that is sent forgets none.    *)

Sent == {IdOf[c] : c \in Calls}

\* The helper is not sent more identifiers than it remembers while it runs.
Remembering == IsFiniteSet(Sent) /\ Cardinality(Sent) <= MaxRecent /\ NoId \notin Ids

\* No identifier is in the registry twice, and none that was not sent.
Distinct ==
  /\ recent \in Seq(Sent) /\ \A b \in live : b.id \in Sent
  /\ \A i, j \in 1..Len(recent) : recent[i] = recent[j] => i = j
  /\ \A b \in live : \A i \in 1..Len(recent) : recent[i] # b.id
  /\ \A a, b \in live : a.id = b.id => a = b

\* A sequence without repetition fits.
LEMMA NothingDropped ==
  ASSUME Remembering, NEW s \in Seq(Sent), \A i, j \in 1..Len(s) : s[i] = s[j] => i = j
  PROVE  Latest(s) = s
<1>1. Len(s) \in Nat /\ s \in [1..Len(s) -> Sent]
  BY LenProperties
<1>2. s \in Injection(1..Len(s), Sent)
  BY <1>1 DEF Injection, IsInjective
<1>3. Cardinality(1..Len(s)) <= Cardinality(Sent)
  BY <1>2, FS_Injection DEF Remembering
<1>4. Cardinality(1..Len(s)) = Len(s)
  <2>1. \A n \in Nat : Cardinality(1..n) = n
    <3> SUFFICES ASSUME NEW n \in Nat PROVE Cardinality(1..n) = n
      OBVIOUS
    <3>1. Cardinality(1..n) = IF 1 > n THEN 0 ELSE n - 1 + 1
      BY FS_Interval
    <3> QED BY <3>1
  <2> QED BY <1>1, <2>1
<1>5. Cardinality(Sent) \in Nat /\ MaxRecent \in Nat
  BY FS_CardinalityType, RegistryAssumption DEF Remembering
<1>6. ~(Len(s) > MaxRecent)
  BY <1>1, <1>3, <1>4, <1>5 DEF Remembering
<1> QED BY <1>6 DEF Latest

\* An order of registration names every identifier it is an order of.
LEMMA OrderComplete ==
  ASSUME NEW bs \in SUBSET Bindings, IsFiniteSet(bs), NEW s \in IdOrders(bs),
         \A a, b \in bs : a.id = b.id => a = b
  PROVE  /\ Len(s) = Cardinality(bs)
         /\ \A i, j \in 1..Len(s) : s[i] = s[j] => i = j
         /\ \A i \in 1..Len(s) : \E b \in bs : s[i] = b.id
         /\ \A b \in bs : \E i \in 1..Len(s) : s[i] = b.id
<1> DEFINE n == Cardinality(bs)
           I == {b.id : b \in bs}
           f == [b \in bs |-> b.id]
<1>1. n \in Nat
  BY FS_CardinalityType
<1>2. s \in [1..n -> I] /\ \A i, j \in 1..n : s[i] = s[j] => i = j
  BY DEF IdOrders
<1>3. f \in Bijection(bs, I)
  <2>1. f \in [bs -> I] /\ \A a, b \in bs : f[a] = f[b] => a = b
    OBVIOUS
  <2>2. \A t \in I : \E b \in bs : f[b] = t
    OBVIOUS
  <2> QED BY <2>1, <2>2 DEF Bijection, Injection, Surjection, IsInjective
<1>4. IsFiniteSet(I) /\ Cardinality(I) = n
  <2>1. ExistsBijection(bs, I)
    BY <1>3 DEF ExistsBijection
  <2> QED BY <2>1, FS_Bijection
<1>5. s \in Injection(1..n, I)
  BY <1>2 DEF Injection, IsInjective
<1>6. Cardinality(1..n) = n
  BY <1>1, FS_Interval
<1>7. s \in Surjection(1..n, I)
  BY <1>4, <1>5, <1>6, FS_Injection
<1>8. Len(s) = n
  <2>1. s \in Seq(I)
    BY <1>1, <1>2, SeqDef
  <2> QED BY <1>1, <1>2, <2>1, LenProperties
<1> QED BY <1>2, <1>7, <1>8 DEF Surjection

\* Withdrawing registrations forgets no identifier.
LEMMA RetireRemembers ==
  ASSUME Remembering, RegistryShape, Distinct, NEW bs, Retire(bs)
  PROVE  Distinct' /\ \A id \in Ids : Remembered(id) => Remembered(id)'
<1> DEFINE gone == bs \cap live
<1>1. gone \in SUBSET Bindings /\ recent \in Seq(Ids) /\ live' = live \ gone
  BY DEF RegistryShape, RegistryTypeOK, Retire
<1>2. IsFiniteSet(gone)
  BY FS_Intersection DEF RegistryShape
<1>3. PICK s \in IdOrders(gone) : recent' = Latest(recent \o s)
  BY DEF Retire
<1>4. /\ s \in Seq(Ids)
      /\ \A i, j \in 1..Len(s) : s[i] = s[j] => i = j
      /\ \A i \in 1..Len(s) : \E b \in gone : s[i] = b.id
      /\ \A b \in gone : \E i \in 1..Len(s) : s[i] = b.id
  <2>1. \A a, b \in gone : a.id = b.id => a = b
    BY DEF Distinct
  <2>2. s \in Seq(Ids)
    BY <1>1, <1>2, OrderType
  <2> HIDE DEF gone
  <2> QED BY <1>1, <1>2, <2>1, <2>2, OrderComplete
<1> DEFINE t == recent \o s
           m == Len(recent)
           k == Len(s)
<1>5. m \in Nat /\ k \in Nat
  BY <1>1, <1>4, LenProperties
<1>6. /\ t \in Seq(Ids) /\ Len(t) = m + k
      /\ \A i \in 1..m : t[i] = recent[i]
      /\ \A i \in 1..k : t[m + i] = s[i]
      /\ \A i \in 1..(m + k) : i \in 1..m \/ (i - m \in 1..k /\ t[i] = s[i - m])
  BY <1>1, <1>4, <1>5, ConcatProperties
<1>7. \A i \in 1..m : \A b \in live : recent[i] # b.id
  BY DEF Distinct
<1>8. \A i, j \in 1..(m + k) : t[i] = t[j] => i = j
  <2> HIDE DEF t
  <2>1. \A i \in 1..m : \A j \in 1..k : recent[i] # s[j]
    BY <1>4, <1>7
  <2>2. \A i, j \in 1..m : recent[i] = recent[j] => i = j
    BY DEF Distinct
  <2> SUFFICES ASSUME NEW i \in 1..(m + k), NEW j \in 1..(m + k), t[i] = t[j] PROVE i = j
    OBVIOUS
  <2>3. CASE i \in 1..m /\ j \in 1..m
    BY <1>6, <2>2, <2>3
  <2>4. CASE i \in 1..m /\ j \notin 1..m
    BY <1>6, <2>1, <2>4
  <2>5. CASE i \notin 1..m /\ j \in 1..m
    BY <1>6, <2>1, <2>5
  <2>6. CASE i \notin 1..m /\ j \notin 1..m
    <3>1. i - m \in 1..k /\ j - m \in 1..k /\ s[i - m] = s[j - m]
      BY <1>6, <2>6
    <3>2. i - m = j - m
      BY <1>4, <3>1
    <3> QED BY <1>5, <3>2
  <2> QED BY <2>3, <2>4, <2>5, <2>6
<1>9. recent' = t /\ t \in Seq(Sent)
  <2>1. s \in Seq(Sent)
    <3>1. \A i \in 1..k : s[i] \in Sent
      BY <1>4 DEF Distinct
    <3> QED BY <1>4, <1>5, <3>1, LenProperties, SeqDef
  <2>2. t \in Seq(Sent)
    BY <2>1, ConcatProperties DEF Distinct
  <2> HIDE DEF t
  <2> QED BY <1>3, <1>6, <1>8, <2>2, NothingDropped DEF t
<1>10. Distinct'
  <2>1. \A b \in live' : b \in live /\ b \notin gone
    BY <1>1
  <2>2. ASSUME NEW b \in live', NEW i \in 1..(m + k) PROVE t[i] # b.id
    <3>1. CASE i \in 1..m
      BY <1>6, <1>7, <2>1, <3>1
    <3>2. CASE i \notin 1..m
      <4> HIDE DEF t
      <4>1. i - m \in 1..k /\ t[i] = s[i - m]
        BY <1>6, <3>2
      <4>2. \E a \in gone : s[i - m] = a.id
        BY <1>4, <4>1
      <4>3. PICK a \in live : a.id = t[i] /\ a \in gone
        BY <4>1, <4>2
      <4>4. a # b /\ b \in live
        BY <2>1, <4>3
      <4> QED BY <4>3, <4>4 DEF Distinct
    <3> QED BY <3>1, <3>2
  <2>3. \A a, b \in live' : a.id = b.id => a = b
    BY <2>1 DEF Distinct
  <2>4. recent' \in Seq(Sent) /\ \A b \in live' : b.id \in Sent
    BY <1>9, <2>1 DEF Distinct
  <2> HIDE DEF t
  <2> QED BY <1>6, <1>8, <1>9, <2>2, <2>3, <2>4 DEF Distinct
<1>11. ASSUME NEW id \in Ids, Remembered(id) PROVE Remembered(id)'
  <2>0. DOMAIN recent = 1..m /\ DOMAIN recent' = 1..(m + k)
    BY <1>1, <1>6, <1>9, LenProperties
  <2>1. CASE \E i \in 1..m : recent[i] = id
    <3>1. PICK i \in 1..m : recent[i] = id
      BY <2>1
    <3>2. i \in 1..(m + k) /\ recent'[i] = id
      BY <1>5, <1>6, <1>9, <3>1
    <3> QED BY <2>0, <3>2 DEF Remembered
  <2>2. CASE \E b \in gone : b.id = id
    <3>1. PICK i \in 1..k : s[i] = id
      BY <1>4, <2>2
    <3>2. m + i \in 1..(m + k) /\ recent'[m + i] = id
      BY <1>5, <1>6, <1>9, <3>1
    <3> QED BY <2>0, <3>2 DEF Remembered
  <2>3. CASE \E b \in live \ gone : b.id = id
    BY <1>1, <2>3 DEF Remembered
  <2> QED BY <1>11, <2>0, <2>1, <2>2, <2>3 DEF Remembered
<1> QED BY <1>10, <1>11

\* Registering forgets none.
LEMMA RegisterRemembers ==
  ASSUME RegistryShape, Distinct, NEW b \in Bindings, b.id \in Sent, Registrable(b), Register(b)
  PROVE  Distinct' /\ \A id \in Ids : Remembered(id) => Remembered(id)'
<1>1. recent \in Seq(Ids) /\ DOMAIN recent = 1..Len(recent)
  BY LenProperties DEF RegistryShape, RegistryTypeOK
<1> QED BY <1>1 DEF Registrable, Register, Remembered, Distinct

\* Registering and completing at once forgets none either.
LEMMA ServeRemembers ==
  ASSUME Remembering, RegistryShape, Distinct,
         NEW b \in Bindings, b.id \in Sent, Registrable(b), Serve(b)
  PROVE  Distinct' /\ \A id \in Ids : Remembered(id) => Remembered(id)'
<1> DEFINE t == Append(recent, b.id)
           m == Len(recent)
<1>1. /\ recent \in Seq(Ids) /\ m \in Nat /\ b.id \in Ids
      /\ DOMAIN recent = 1..m
  BY LenProperties DEF RegistryShape, RegistryTypeOK, Bindings
<1>2. /\ t \in Seq(Ids) /\ Len(t) = m + 1 /\ DOMAIN t = 1..(m + 1)
      /\ \A i \in 1..m : t[i] = recent[i]
      /\ t[m + 1] = b.id
  <2>1. /\ t \in Seq(Ids) /\ Len(t) = m + 1
        /\ \A i \in 1..m : t[i] = recent[i]
        /\ t[m + 1] = b.id
    BY <1>1, AppendProperties
  <2> QED BY <2>1, LenProperties
<1>3. ~Remembered(b.id)
  BY DEF Registrable
<1>4. \A i, j \in 1..(m + 1) : t[i] = t[j] => i = j
  <2> HIDE DEF t
  <2>1. \A i \in 1..m : recent[i] # b.id
    BY <1>1, <1>3 DEF Remembered
  <2>2. \A i \in 1..(m + 1) : i \in 1..m \/ i = m + 1
    BY <1>1
  <2> QED BY <1>2, <2>1, <2>2 DEF Distinct
<1>5. recent' = t /\ live' = live /\ t \in Seq(Sent)
  <2>1. t \in Seq(Sent)
    BY AppendProperties DEF Distinct
  <2> HIDE DEF t
  <2> QED BY <1>2, <1>4, <2>1, NothingDropped DEF t, Serve
<1>6. Distinct'
  <2> HIDE DEF t
  <2>1. \A i \in 1..(m + 1) : i \in 1..m \/ i = m + 1
    BY <1>1
  <2>2. \A a \in live : a.id # b.id
    BY <1>3 DEF Remembered
  <2> QED BY <1>2, <1>4, <1>5, <2>1, <2>2 DEF Distinct
<1>7. ASSUME NEW id \in Ids, Remembered(id) PROVE Remembered(id)'
  <2> HIDE DEF t
  <2>1. \A i \in 1..m : i \in 1..(m + 1)
    BY <1>1
  <2> QED BY <1>1, <1>2, <1>5, <1>7, <2>1 DEF Remembered
<1> QED BY <1>6, <1>7

\* No step forgets an identifier.
LEMMA MemoryStep ==
  ASSUME Remembering, RegistryShape, Distinct, [Next]_vars
  PROVE  Distinct' /\ \A id \in Ids : Remembered(id) => Remembered(id)'
<1> DEFINE Goal == Distinct' /\ \A id \in Ids : Remembered(id) => Remembered(id)'
<1>1. ASSUME UNCHANGED registryVars PROVE Goal
  BY <1>1 DEF registryVars, Distinct, Remembered
<1>2. ASSUME NEW c \in Calls PROVE Binding(c) \in Bindings /\ Binding(c).id \in Sent
  BY CallAssumption DEF Binding, Bindings, Sent
<1>3. ASSUME NEW c \in Calls, Admit(c) PROVE Goal
  BY <1>2, <1>3, RegisterRemembers, ServeRemembers DEF Admit
<1>4. ASSUME NEW c \in Calls, Continue(c) PROVE Goal
  <2>1. UNCHANGED registryVars \/ Retire({Binding(c)})
    BY <1>4 DEF Continue, Deliver
  <2> QED BY <1>1, <2>1, RetireRemembers
<1>5. ASSUME NEW o \in Owners, Disconnected(o) PROVE Goal
  BY <1>5, RetireRemembers DEF Disconnected
<1>6. ASSUME NEW c \in Calls, Route(c) \/ CallStep(c) \/ Outside(Expire(c)) \/ CancelCall(c)
      PROVE  Goal
  <2> HIDE DEF Goal
  <2> QED BY <1>1, <1>3, <1>4, <1>6
       DEF Route, CallStep, Lookup, Refuse, Outside, CancelCall
<1> HIDE DEF Goal
<1>7. Goal
  BY <1>1, <1>5, <1>6 DEF Next, vars, Deactivated
<1> QED BY <1>7 DEF Goal

---------------------------------------------------------------------------
(* One request at a time, and no identifier twice.                         *)

\* What has run is remembered, and no other operation has its identifier.
RanInv ==
  /\ \A d \in Calls : Ran(d) => Remembered(IdOf[d])
  /\ \A c, d \in Calls : Operating(c) /\ Ran(d) /\ IdOf[c] = IdOf[d] => c = d

Serving == Safety /\ Fields /\ Recorded /\ RegistryShape /\ Distinct /\ RanInv

\* A submit takes one of six steps on its way, and only one submit does.
Quiet     == UNCHANGED <<stage, outcome>>
Enters(c) == /\ stage[c] = "out" /\ ~Ran(c) /\ ~Remembered(IdOf[c])
             /\ \E s \in {"prompt", "queued"} : stage' = [stage EXCEPT ![c] = s]
Prompts(c) == stage[c] = "queued" /\ stage' = [stage EXCEPT ![c] = "prompt"]
Starts(c) == /\ stage[c] = "prompt" /\ Binding(c) \in live /\ ~Ran(c)
             /\ stage' = [stage EXCEPT ![c] = "running"]
Returns(c) == /\ stage[c] = "running" /\ stage' = [stage EXCEPT ![c] = "returned"]
              /\ outcome'[c] # "none" /\ \A d \in Calls \ {c} : outcome'[d] = outcome[d]
Leaves(c) == /\ stage[c] \in {"queued", "prompt", "returned"}
             /\ stage' = [stage EXCEPT ![c] = "out"]

Journey(c) == \/ UNCHANGED outcome /\ (Enters(c) \/ Prompts(c) \/ Starts(c) \/ Leaves(c))
              \/ Returns(c)

LEMMA Journeys ==
  ASSUME Serving, [Next]_vars
  PROVE  Quiet \/ \E c \in Calls : Journey(c)
<1>1. ASSUME NEW c \in Calls, Admit(c) PROVE Quiet \/ Journey(c)
  <2>1. CASE DispatcherSubmit(c, "none")
    <3>1. SubmitEligible(c, "none") /\ place[c] = "known" /\ ~Remembered(IdOf[c])
      BY <1>1, <2>1
         DEF Admit, DispatcherSubmit, SubmitDuplicate, SubmitRejected, AuditRequired,
             Statuses, Registrable, Binding
    <3>2. stage[c] = "out" /\ outcome[c] = "none"
      BY <3>1 DEF Serving, Fields, Operating, Recorded, Record
    <3> QED BY <3>1, <3>2 DEF SubmitEligible, EnterLock, Journey, Enters, Ran
  <2>2. CASE \E a \in Answers \ {"none"} : DispatcherSubmit(c, a)
    BY <2>2 DEF DispatcherSubmit, SubmitDuplicate, SubmitRejected, SubmitEligible,
                dispatcherVars, Quiet
  <2> QED BY <1>1, <2>1, <2>2 DEF Admit
<1>2. ASSUME NEW c \in Calls, Continue(c) PROVE Journey(c)
  <2>1. PICK a \in Answers : Resume(c, a)
    BY <1>2 DEF Continue
  <2>2. UNCHANGED outcome
    BY <2>1, ResumeEffect DEF Serving
  <2>3. CASE stage[c] = "prompt" /\ stage' = [stage EXCEPT ![c] = "running"]
    <3>1. Next
      BY <1>2 DEF Next, CallStep
    <3>2. stage'[c] = "running"
      BY <2>3 DEF Serving, Safety, Shape
    <3>3. Binding(c) \in live
      BY <2>3, <3>1, <3>2, LiveStart DEF Serving
    <3>4. outcome[c] = "none"
      BY <2>3 DEF Serving, Fields, Operating, Recorded, Record
    <3> QED BY <2>2, <2>3, <3>3, <3>4 DEF Journey, Starts, Ran
  <2>4. CASE stage[c] = "queued" /\ stage' = [stage EXCEPT ![c] = "prompt"]
    BY <2>2, <2>4 DEF Journey, Prompts
  <2>5. CASE stage[c] \in {"queued", "prompt", "returned"} /\ stage' = [stage EXCEPT ![c] = "out"]
    BY <2>2, <2>5 DEF Journey, Leaves
  <2> QED BY <2>1, <2>3, <2>4, <2>5, ResumeEffect DEF Serving
<1>3. ASSUME NEW c \in Calls, Outside(Executed(c)) PROVE Journey(c)
  <2>1. /\ stage[c] = "running" /\ stage' = [stage EXCEPT ![c] = "returned"]
        /\ \E r \in Statuses \cup {"raised"} : outcome' = [outcome EXCEPT ![c] = r]
    BY <1>3 DEF Outside, Executed, Serving, Safety, Shape, Statuses
  <2> QED BY <2>1 DEF Journey, Returns, Serving, Fields, Statuses
<1>4. ASSUME NEW c \in Calls, Route(c) \/ Lookup(c) \/ Refuse(c) \/ Outside(Authorize(c))
                              \/ Outside(Expire(c)) \/ CancelCall(c)
      PROVE  Quiet
  BY <1>4 DEF Route, Lookup, Refuse, Outside, Authorize, Expire, CancelCall, Interrupt,
              dispatcherVars, Quiet
<1>5. ASSUME NEW o \in Owners, Disconnected(o) \/ Deactivated(o) PROVE Quiet
  BY <1>5 DEF Disconnected, Deactivated, Interrupt, dispatcherVars, Quiet
<1>6. CASE UNCHANGED vars
  BY <1>6 DEF vars, dispatcherVars, Quiet
<1> QED BY <1>1, <1>2, <1>3, <1>4, <1>5, <1>6 DEF Next, CallStep

\* What a journey does to what runs and to what has run.
LEMMA Effects ==
  ASSUME Serving, NEW c \in Calls, Journey(c)
  PROVE  \A d \in Calls :
           /\ Ran(d)' <=> (Ran(d) \/ (d = c /\ Starts(c)))
           /\ d # c => (Operating(d)' <=> Operating(d))
           /\ Operating(c)' => Operating(c) \/ Enters(c)
<1>1. \A d \in Calls : outcome[d] # "none" => outcome'[d] # "none"
  BY DEF Journey, Returns
<1> QED BY <1>1 DEF Journey, Enters, Prompts, Starts, Returns, Leaves, Ran, Operating,
       Serving, Safety, Shape, Recorded, Record

\* Every step keeps the memory of what has run.
LEMMA ServingStep ==
  ASSUME Remembering, Serving, [Next]_vars
  PROVE  Serving'
<1>1. Safety' /\ Fields' /\ Recorded' /\ RegistryShape'
  BY SafetyNext, RecordNext, RegistryStep DEF Serving
<1>2. Distinct' /\ \A id \in Ids : Remembered(id) => Remembered(id)'
  BY MemoryStep DEF Serving
<1>3. \A c \in Calls : IdOf[c] \in Ids
  BY CallAssumption
<1>4. CASE Quiet
  BY <1>1, <1>2, <1>3, <1>4 DEF Quiet, Serving, RanInv, Ran, Operating
<1>5. ASSUME NEW c \in Calls, Journey(c) PROVE RanInv'
  <2>1. ASSUME NEW d \in Calls, Ran(d)' PROVE Remembered(IdOf[d])'
    <3>1. Ran(d) \/ (d = c /\ Starts(c))
      BY <1>5, <2>1, Effects
    <3>2. Remembered(IdOf[d])
      BY <3>1 DEF Serving, RanInv, Starts, Remembered, Binding
    <3> QED BY <1>2, <1>3, <3>2
  <2>2. ASSUME NEW b \in Calls, NEW d \in Calls, Operating(b)', Ran(d)', IdOf[b] = IdOf[d]
        PROVE  b = d
    <3>1. (Operating(b) \/ (b = c /\ Enters(c))) /\ (Ran(d) \/ (d = c /\ Starts(c)))
      BY <1>5, <2>2, Effects
    <3>2. CASE Operating(b) /\ Ran(d)
      BY <2>2, <3>2 DEF Serving, RanInv
    <3>3. CASE Operating(b) /\ d = c /\ Starts(c)
      BY <2>2, <3>3 DEF Serving, Safety, OneOperationPerId, Operating, Starts
    <3>4. CASE b = c /\ Enters(c) /\ Ran(d)
      BY <2>2, <3>4 DEF Serving, RanInv, Enters
    <3>5. CASE Enters(c) /\ Starts(c)
      BY <3>5 DEF Enters, Starts
    <3> QED BY <3>1, <3>2, <3>3, <3>4, <3>5
  <2> QED BY <2>1, <2>2 DEF RanInv
<1> QED BY <1>1, <1>2, <1>4, <1>5, Journeys DEF Serving

\* What the executor does, as the abstract specification sees it.
Busy  == IF Running = {} THEN NoId ELSE IdOf[CHOOSE c \in Running : TRUE]
Spent == {IdOf[c] : c \in {d \in Calls : Ran(d)}}

LEMMA BusyWith ==
  ASSUME NEW c \in Calls, Running = {c} PROVE Busy = IdOf[c]
<1>1. (CHOOSE d \in {c} : TRUE) = c
  OBVIOUS
<1> QED BY <1>1 DEF Busy

\* At most one submit is at its executor.
LEMMA RunningOne ==
  ASSUME OneExecutor, NEW c \in Calls, Holding(c)
  PROVE  /\ stage[c] \in {"running", "returned"} => Running = {c}
         /\ stage[c] = "prompt" => Running = {}
BY DEF OneExecutor, Holding, Running

\* Every step of the service is a step of serial execution, or none.
LEMMA SerialStep ==
  ASSUME Remembering, Serving, [Next]_vars
  PROVE  [Serial!Next]_(Serial!serialVars)
<1>0. OneExecutor' /\ OneExecutor
  BY SafetyNext DEF Serving, Safety
<1>1. CASE Quiet
  BY <1>1 DEF Quiet, Serial!serialVars, Running, Ran
<1>2. ASSUME NEW c \in Calls, Journey(c) PROVE [Serial!Next]_(Serial!serialVars)
  <2>0. stage \in [Calls -> {"out", "queued", "prompt", "running", "returned"}]
    BY DEF Serving, Safety, Shape
  <2>1. IdOf[c] \in Ids /\ IdOf[c] # NoId
    BY CallAssumption DEF Remembering
  <2>2. CASE Starts(c)
    <3>1. Busy = NoId
      BY <1>0, <2>2, RunningOne DEF Starts, Holding, Busy
    <3>2. Running' = {c}
      <4>1. Running = {}
        BY <1>0, <2>2, RunningOne DEF Starts, Holding
      <4> QED BY <2>0, <2>2, <4>1 DEF Starts, Running
    <3>3. Busy' = IdOf[c]
      <4>1. (CHOOSE d \in {c} : TRUE) = c
        OBVIOUS
      <4> QED BY <3>2, <4>1 DEF Busy
    <3>4. IdOf[c] \notin Spent
      <4>1. Operating(c) /\ ~Ran(c)
        BY <2>2 DEF Starts, Operating
      <4> QED BY <4>1 DEF Spent, Serving, RanInv
    <3>5. Spent' = Spent \cup {IdOf[c]}
      <4>1. \A d \in Calls : Ran(d)' <=> (Ran(d) \/ d = c)
        BY <1>2, <2>2, Effects
      <4> QED BY <4>1 DEF Spent
    <3> QED BY <2>1, <3>1, <3>3, <3>4, <3>5 DEF Serial!Next, Serial!Start, Busy, Spent
  <2>3. ASSUME ~Starts(c) PROVE Spent' = Spent
    <3>1. \A d \in Calls : Ran(d)' <=> Ran(d)
      BY <1>2, <2>3, Effects
    <3> QED BY <3>1 DEF Spent
  <2>4. CASE ~Starts(c) /\ Running' = Running
    BY <2>3, <2>4 DEF Busy, Spent, Serial!serialVars
  <2>5. CASE ~Starts(c) /\ Leaves(c) /\ stage[c] = "returned"
    <3>1. Running = {c}
      BY <1>0, <2>5, RunningOne DEF Holding
    <3>2. Running' = {}
      BY <2>0, <2>5, <3>1 DEF Leaves, Running
    <3>3. Busy = IdOf[c] /\ Busy' = NoId
      BY <3>1, <3>2, BusyWith DEF Busy
    <3> QED BY <2>1, <2>3, <2>5, <3>3 DEF Serial!Next, Serial!Finish, Busy, Spent
  <2>6. CASE ~Starts(c) /\ ~(Leaves(c) /\ stage[c] = "returned")
    <3>1. Running' = Running
      BY <1>2, <2>0, <2>6 DEF Journey, Enters, Prompts, Returns, Leaves, Running
    <3> QED BY <2>4, <2>6, <3>1
  <2> QED BY <2>2, <2>5, <2>6
<1> QED BY <1>1, <1>2, Journeys

\* With a memory for every identifier the service executes one request at a
\* time and none twice, whatever is sent again, cancelled or disconnected
\* (LiveRequestRegistry under ProductionDispatcher).
THEOREM ServiceSerial ==
  ASSUME Remembering
  PROVE  Spec => ImplementsSerial
<1>1. Init => Serving /\ Serial!Init
  <2> SUFFICES ASSUME Init PROVE Serving /\ Serial!Init
    OBVIOUS
  <2>1. Distinct /\ RanInv
    BY DEF Init, DispatcherInit, RegistryInit, Distinct, RanInv, Ran
  <2>2. RegistryShape
    BY FS_EmptySet, RegistryAssumption DEF Init, RegistryInit, RegistryShape, RegistryTypeOK
  <2>3. Fields
    BY DEF Init, DispatcherInit, Fields, Operating, NoRecord, Replies, Answers
  <2>4. Recorded
    BY DEF Init, DispatcherInit, Recorded, Record
  <2>5. Serial!Init
    BY DEF Init, DispatcherInit, Serial!Init, Running, Ran
  <2> QED BY <2>1, <2>2, <2>3, <2>4, <2>5, SafetyInit DEF Serving
<1>2. Serving /\ [Next]_vars => Serving'
  BY ServingStep
<1>3. Serving /\ [Next]_vars => [Serial!Next]_(Serial!serialVars)
  BY SerialStep
<1> QED BY <1>1, <1>2, <1>3, PTL DEF Spec, ImplementsSerial, Serial!Spec
=============================================================================
