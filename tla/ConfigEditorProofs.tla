------------------------- MODULE ConfigEditorProofs -------------------------
(***************************************************************************)
(* Proofs about ConfigEditor, for any number of editors, keys and values:  *)
(* a save changes what its form changed and nothing else, and not what was *)
(* written after the form was filled.                                      *)
(*                                                                         *)
(* The invariant follows the stamps.  A revision never is ahead of the     *)
(* file; while the file has the revision's stamp nobody has written since, *)
(* so that what the candidate has parsed is still what the file holds.     *)
(***************************************************************************)
EXTENDS ConfigEditor, TLAPS

Stamps == [read : Nat, filled : Nat, looked : Nat]
Prints == [digest : Bodies, stamp : Nat]

\* The types that the argument about the stamps uses.
LType ==
  /\ file \in [body : Bodies, stamp : Nat \ {0}]
  /\ DOMAIN pc = Editors /\ DOMAIN phase = Editors /\ DOMAIN touched = Editors
  /\ shown \in [Editors -> Configs] /\ values \in [Editors -> Configs]
  /\ revision \in [Editors -> Prints] /\ at \in [Editors -> Stamps]
  /\ digest \in [Editors -> Bodies]
  /\ \A e \in Editors : \A k \in DOMAIN touched[e] : touched[e][k] \in Vals

\* What is to be written keeps what the file holds, save for the changes.
Agrees(e) ==
  /\ file.body \in Configs /\ DOMAIN values[e] = DOMAIN file.body
  /\ \A k \in DOMAIN file.body \ Changes(e) : values[e][k] = file.body[k]

\* What holds of one editor: its stamps are of the past,
Past(e) ==
  /\ revision[e].stamp <= file.stamp /\ at[e].looked <= file.stamp
  /\ revision[e].stamp = 0 => revision[e] = NoFile
  /\ revision[e].stamp # 0 => at[e].filled = revision[e].stamp

\* and if nobody wrote since its revision, it knows the file.
Knows(e) ==
  /\ phase[e] = "candidate" /\ pc[e] \in {"digest", "stat"} /\ file.stamp = revision[e].stamp
       => values[e] = Parsed
  /\ phase[e] = "check" /\ pc[e] \in {"digest", "stat", "write"} /\ file.stamp = revision[e].stamp
       => Agrees(e)
  /\ phase[e] = "check" /\ pc[e] = "stat" => at[e].looked >= revision[e].stamp
  /\ pc[e] = "parse" => phase[e] # "check"
  /\ pc[e] = "write" =>
       /\ phase[e] = "check"
       /\ revision[e].stamp = 0 => (file.stamp = at[e].looked => file.body = Gone)
       /\ revision[e].stamp # 0 => at[e].looked = revision[e].stamp

LInv == LType /\ \A e \in Editors : Past(e) /\ Knows(e)

\* What an editor holds is left alone by a step.
Same(e) ==
  /\ pc'[e] = pc[e] /\ phase'[e] = phase[e] /\ shown'[e] = shown[e]
  /\ revision'[e] = revision[e] /\ touched'[e] = touched[e] /\ values'[e] = values[e]
  /\ at'[e] = at[e]

\* The file is left alone or gets a later stamp.
FileStep == file' = file \/ file'.stamp > file.stamp

StepOf(e) == Open(e) \/ Edit(e) \/ Save(e) \/ Parse(e) \/ Digest(e) \/ Stat(e) \/ Write(e)

---------------------------------------------------------------------------
\* What the controls hold are values, and so is what the candidate becomes.
LEMMA EditedIsConfig ==
  ASSUME LType, NEW e \in Editors
  PROVE  Edited(e) \in Configs
<1>1. shown[e] \in Configs /\ values[e] \in Configs /\ \A k \in DOMAIN touched[e] : touched[e][k] \in Vals
  BY DEF LType
<1>2. \A c \in Configs : DOMAIN c \subseteq Keys /\ \A k \in DOMAIN c : c[k] \in Vals
  BY DEF Configs
<1>3. \A k \in Fields : First[k] \in Vals
  BY EditorAssumption DEF Fields
<1>4. \A k \in DOMAIN Control(e) : Control(e)[k] \in Vals
  BY <1>1, <1>2, <1>3 DEF Control
<1>5. \A k \in DOMAIN values[e] : Edited(e)[k] \in Vals
  BY <1>1, <1>2, <1>4 DEF Edited, Changes
<1>6. Edited(e) = [k \in DOMAIN values[e] |-> Edited(e)[k]]
  BY DEF Edited
<1>7. Edited(e) \in [DOMAIN values[e] -> Vals]
  BY <1>5, <1>6
<1> QED BY <1>1, <1>2, <1>7 DEF Configs

\* What does not touch the form does not touch its changes.
LEMMA ChangesSame ==
  ASSUME NEW e \in Editors, shown'[e] = shown[e], touched'[e] = touched[e]
  PROVE  Changes(e)' = Changes(e)
<1>1. Control(e)' = Control(e) BY DEF Control
<1> QED BY <1>1 DEF Changes

\* A step that leaves an editor alone keeps what holds of it.
LEMMA AloneKeeps ==
  ASSUME LType, NEW e \in Editors, Past(e), Knows(e), Same(e), FileStep, LType'
  PROVE  Past(e)' /\ Knows(e)'
<1>1. /\ file.stamp \in Nat /\ file'.stamp \in Nat /\ file'.stamp >= file.stamp
      /\ revision[e].stamp \in Nat /\ at[e].looked \in Nat
  BY DEF LType, FileStep, Prints, Stamps
<1>2. Past(e)'
  BY <1>1 DEF Past, Same, NoFile
<1>3. CASE file' = file
  <2>1. Parsed' = Parsed BY <1>3 DEF Parsed
  <2>2. Agrees(e)' <=> Agrees(e)
    BY <1>3, ChangesSame DEF Agrees, Same
  <2> QED BY <1>2, <1>3, <2>1, <2>2 DEF Knows, Same
<1>4. CASE file'.stamp > file.stamp
  <2>1. file'.stamp # revision[e].stamp /\ file'.stamp # at[e].looked
    BY <1>1, <1>4 DEF Past
  <2> QED BY <1>2, <2>1 DEF Knows, Same
<1> QED BY <1>3, <1>4 DEF FileStep

---------------------------------------------------------------------------
\* The history of an editor's stamps is kept in its type.
LEMMA StampsType ==
  ASSUME at \in [Editors -> Stamps], NEW e \in Editors, NEW n \in Nat
  PROVE  /\ [at EXCEPT ![e].read = n] \in [Editors -> Stamps]
         /\ [at EXCEPT ![e].filled = n] \in [Editors -> Stamps]
         /\ [at EXCEPT ![e].looked = n] \in [Editors -> Stamps]
<1>1. at[e] \in Stamps OBVIOUS
<1>2. /\ [at[e] EXCEPT !.read = n] \in Stamps /\ [at[e] EXCEPT !.filled = n] \in Stamps
      /\ [at[e] EXCEPT !.looked = n] \in Stamps
  BY <1>1 DEF Stamps
<1> QED BY <1>2

\* The types are kept.
LEMMA TypeStep == LType /\ [ENext]_vars => LType'
<1> SUFFICES ASSUME LType, [ENext]_vars PROVE LType'
  OBVIOUS
<1> USE DEF Go, Answer
<1>0. /\ Empty \in Configs /\ Gone \in Bodies /\ NoFile \in Prints
      /\ file.body # Garbled => Parsed \in Configs
      /\ file.stamp \in Nat /\ at \in [Editors -> Stamps]
      /\ \A e \in Editors : at[e].looked \in Nat
  <2>1. Empty \in [{} -> Vals] BY DEF Empty
  <2>2. Empty \in Configs BY <2>1 DEF Configs
  <2>3. file.body \in Bodies BY DEF LType
  <2>4. file.stamp \in Nat /\ at \in [Editors -> Stamps] BY DEF LType
  <2>5. \A e \in Editors : at[e].looked \in Nat BY <2>4 DEF Stamps
  <2> QED BY <2>2, <2>3, <2>4, <2>5 DEF Bodies, NoFile, Prints, Parsed
<1>1. ASSUME NEW e \in Editors, Open(e) PROVE LType'
  <2>1. \A k \in DOMAIN touched'[e] : touched'[e][k] \in Vals
    BY <1>1 DEF Open, LType, Empty
  <2> QED BY <1>1, <2>1 DEF Open, LType
<1>2. ASSUME NEW e \in Editors, Edit(e) PROVE LType'
  <2>1. PICK S \in SUBSET DOMAIN Control(e) : \E t \in [S -> Vals] : touched' = [touched EXCEPT ![e] = t]
    BY <1>2 DEF Edit
  <2>2. PICK t \in [S -> Vals] : touched' = [touched EXCEPT ![e] = t]
    BY <2>1
  <2>3. \A k \in DOMAIN touched'[e] : touched'[e][k] \in Vals
    BY <2>2 DEF LType
  <2> QED BY <1>2, <2>2, <2>3 DEF Edit, LType
<1>3. ASSUME NEW e \in Editors, Save(e) PROVE LType'
  BY <1>3 DEF Save, LType
<1>a. ASSUME NEW e \in Editors, NEW r, Answer(e, r) PROVE LType'
  BY <1>0, <1>a DEF LType
<1>4. ASSUME NEW e \in Editors, Parse(e) PROVE LType'
  <2>1. CASE Answer(e, "error") BY <2>1, <1>a
  <2>2. CASE ~Answer(e, "error")
    <3>1. at' \in [Editors -> Stamps]
      <4>1. at' = at \/ at' = [at EXCEPT ![e].read = file.stamp]
        BY <1>4, <2>2 DEF Parse
      <4>2. [at EXCEPT ![e].read = file.stamp] \in [Editors -> Stamps]
        BY <1>0, StampsType
      <4> QED BY <1>0, <4>1, <4>2
    <3> QED BY <1>0, <1>4, <2>2, <3>1 DEF Parse, LType
  <2> QED BY <2>1, <2>2
<1>b. ASSUME NEW e \in Editors, NEW print \in Prints, Taken(e, print) PROVE LType'
  <2>1. CASE Filled(e, print)
    <3>1. at' \in [Editors -> Stamps]
      BY <1>0, <2>1, StampsType DEF Filled
    <3> QED BY <2>1, <3>1 DEF Filled, LType
  <2>2. CASE Compared(e, print)
    BY <1>a, <2>2, EditedIsConfig DEF Compared, LType
  <2>3. CASE Checked(e, print)
    <3>1. CASE print = revision[e]
      <4>1. PICK n \in Nat : at' = [at EXCEPT ![e].looked = n]
        BY <1>0, <2>3, <3>1 DEF Checked
      <4>2. at' \in [Editors -> Stamps]
        BY <1>0, <4>1, StampsType
      <4> QED BY <2>3, <3>1, <4>2 DEF Checked, LType
    <3> QED BY <1>a, <2>3, <3>1 DEF Checked
  <2>4. CASE Saved(e)
    <3>1. \A k \in DOMAIN touched'[e] : touched'[e][k] \in Vals
      BY <2>4 DEF Saved, LType, Empty
    <3> QED BY <2>4, <3>1 DEF Saved, LType
  <2> QED BY <1>b, <2>1, <2>2, <2>3, <2>4 DEF Taken
<1>5. ASSUME NEW e \in Editors, Digest(e) PROVE LType'
  <2>1. CASE Answer(e, "error") BY <2>1, <1>a
  <2>2. CASE Taken(e, NoFile) BY <2>2, <1>0, <1>b
  <2>3. CASE ~Answer(e, "error") /\ ~Taken(e, NoFile)
    <3>1. at' \in [Editors -> Stamps]
      <4>1. at' = [at EXCEPT ![e].looked = file.stamp]
        BY <1>5, <2>3 DEF Digest
      <4> QED BY <1>0, <4>1, StampsType
    <3>2. file.body \in Bodies BY DEF LType
    <3> QED BY <1>5, <2>3, <3>1, <3>2 DEF Digest, LType
  <2> QED BY <2>1, <2>2, <2>3
<1>6. ASSUME NEW e \in Editors, Stat(e) PROVE LType'
  <2>1. CASE Answer(e, "error") BY <2>1, <1>a
  <2>2. [digest |-> digest[e], stamp |-> file.stamp] \in Prints
    BY DEF LType, Prints
  <2> QED BY <2>1, <2>2, <1>b, <1>6 DEF Stat
<1>7. ASSUME NEW e \in Editors, Write(e) PROVE LType'
  <2>1. CASE Answer(e, "error") BY <2>1, <1>a
  <2>2. CASE ~Answer(e, "error")
    BY <1>7, <2>2 DEF Write, LType, Bodies
  <2> QED BY <2>1, <2>2
<1>8. CASE Foreign
  BY <1>8 DEF Foreign, LType, editVars
<1>9. CASE UNCHANGED vars
  BY <1>9 DEF LType, vars, editVars
<1> QED BY <1>1, <1>2, <1>3, <1>4, <1>5, <1>6, <1>7, <1>8, <1>9 DEF ENext

\* An editor's step leaves the other editors alone and never turns the file back.
LEMMA StepIsLocal ==
  ASSUME LType, NEW d \in Editors, StepOf(d)
  PROVE  FileStep /\ \A e \in Editors \ {d} : Same(e)
<1> USE DEF FileStep, Same, Go, Answer, LType
<1>1. CASE Open(d) BY <1>1 DEF Open
<1>2. CASE Edit(d)
  <2>1. PICK S \in SUBSET DOMAIN Control(d) : \E t \in [S -> Vals] : touched' = [touched EXCEPT ![d] = t]
    BY <1>2 DEF Edit
  <2>2. PICK t \in [S -> Vals] : touched' = [touched EXCEPT ![d] = t]
    BY <2>1
  <2> QED BY <1>2, <2>2 DEF Edit
<1>3. CASE Save(d) BY <1>3 DEF Save
<1>4. CASE Parse(d) BY <1>4 DEF Parse
<1>a. ASSUME NEW print, Taken(d, print) PROVE FileStep /\ \A e \in Editors \ {d} : Same(e)
  <2>1. CASE Filled(d, print) BY <2>1 DEF Filled
  <2>2. CASE Compared(d, print) BY <2>2 DEF Compared
  <2>3. CASE Checked(d, print) BY <2>3 DEF Checked
  <2>4. CASE Saved(d) BY <2>4 DEF Saved
  <2> QED BY <1>a, <2>1, <2>2, <2>3, <2>4 DEF Taken
<1>5. CASE Digest(d)
  <2>1. CASE Answer(d, "error") BY <2>1
  <2>2. CASE Taken(d, NoFile) BY <2>2, <1>a
  <2>3. CASE ~Answer(d, "error") /\ ~Taken(d, NoFile) BY <1>5, <2>3 DEF Digest
  <2> QED BY <2>1, <2>2, <2>3
<1>6. CASE Stat(d)
  <2>1. CASE Answer(d, "error") BY <2>1
  <2> QED BY <1>6, <2>1, <1>a DEF Stat
<1>7. CASE Write(d) BY <1>7 DEF Write
<1> QED BY <1>1, <1>2, <1>3, <1>4, <1>5, <1>6, <1>7 DEF StepOf

\* An editor's own step keeps what holds of it.
LEMMA OwnStep ==
  ASSUME LType, LType', NEW e \in Editors, Past(e), Knows(e), StepOf(e)
  PROVE  Past(e)' /\ Knows(e)'
<1> USE DEF Go, Answer
<1>0. /\ file.stamp \in Nat \ {0} /\ file.body \in Bodies /\ digest[e] \in Bodies
      /\ revision[e] \in Prints /\ at[e] \in Stamps /\ values[e] \in Configs
      /\ DOMAIN pc = Editors /\ DOMAIN phase = Editors /\ at \in [Editors -> Stamps]
      /\ revision \in [Editors -> Prints] /\ values \in [Editors -> Configs]
  BY DEF LType
<1>a. ASSUME NEW r, Answer(e, r) PROVE Past(e)' /\ Knows(e)'
  BY <1>0, <1>a DEF Past, Knows, NoFile, LType
<1>1. CASE Open(e) BY <1>0, <1>1 DEF Open, Past, Knows
<1>2. CASE Edit(e)
  BY <1>0, <1>2 DEF Edit, Past, Knows
<1>3. CASE Save(e) BY <1>0, <1>3 DEF Save, Past, Knows
<1>4. CASE Parse(e)
  <2>1. CASE Answer(e, "error") BY <2>1, <1>a
  <2>2. CASE ~Answer(e, "error")
    <3>1. Parsed' = Parsed BY <1>4, <2>2 DEF Parse, Parsed
    <3>2. pc'[e] = "digest" /\ phase' = phase /\ file' = file /\ revision' = revision
      BY <1>0, <1>4, <2>2 DEF Parse
    <3>3. at'[e].filled = at[e].filled /\ at'[e].looked = at[e].looked
      BY <1>0, <1>4, <2>2 DEF Parse, Stamps
    <3>4. phase[e] # "open" => values'[e] = Parsed
      BY <1>0, <1>4, <2>2 DEF Parse
    <3>5. phase[e] # "check"
      BY <1>4 DEF Parse, Knows
    <3> QED BY <3>1, <3>2, <3>3, <3>4, <3>5 DEF Past, Knows
  <2> QED BY <2>1, <2>2
<1>5. CASE Digest(e)
  <2>1. CASE Answer(e, "error") BY <2>1, <1>a
  <2>2. CASE file.body = Gone /\ Taken(e, NoFile)
    <3>1. revision[e] = NoFile => revision[e].stamp = 0 BY DEF NoFile
    <3>2. CASE Filled(e, NoFile)
      <4>1. pc'[e] = "shown" /\ revision'[e] = NoFile /\ file' = file /\ at'[e].looked = at[e].looked
        BY <1>0, <3>2 DEF Filled, Stamps
      <4> QED BY <1>0, <4>1 DEF Past, Knows, NoFile
    <3>3. CASE Compared(e, NoFile)
      <4>1. CASE \E r : Answer(e, r) BY <4>1, <1>a
      <4>2. CASE ~\E r : Answer(e, r)
        <5>1. revision[e].stamp = 0 /\ revision' = revision /\ file' = file /\ at' = at
          BY <3>1, <3>3, <4>2 DEF Compared
        <5>2. pc'[e] = "digest" /\ phase'[e] = "check"
          BY <1>0, <3>3, <4>2 DEF Compared
        <5> QED BY <1>0, <5>1, <5>2 DEF Past, Knows
      <4> QED BY <4>1, <4>2
    <3>4. CASE phase[e] = "check" /\ Checked(e, NoFile)
      <4>1. CASE NoFile # revision[e] BY <3>4, <4>1, <1>a DEF Checked
      <4>2. CASE NoFile = revision[e]
        <5>1. /\ pc'[e] = "write" /\ phase' = phase /\ revision' = revision /\ file' = file
              /\ at' = [at EXCEPT ![e].looked = file.stamp]
          BY <1>0, <3>4, <4>2 DEF Checked
        <5>2. at'[e].looked = file.stamp /\ at'[e].filled = at[e].filled
          BY <1>0, <5>1 DEF Stamps
        <5> QED BY <1>0, <2>2, <3>1, <3>4, <4>2, <5>1, <5>2 DEF Past, Knows
      <4> QED BY <4>1, <4>2
    <3>5. CASE Saved(e)
      BY <1>0, <3>5 DEF Saved, Past, Knows
    <3> QED BY <2>2, <3>2, <3>3, <3>4, <3>5 DEF Taken
  <2>3. CASE ~Answer(e, "error") /\ file.body # Gone
    <3>1. /\ pc[e] = "digest" /\ pc'[e] = "stat" /\ phase' = phase /\ revision' = revision /\ file' = file
          /\ values' = values /\ at' = [at EXCEPT ![e].looked = file.stamp]
      BY <1>0, <1>5, <2>3 DEF Digest
    <3>2. at'[e].looked = file.stamp /\ at'[e].filled = at[e].filled
      BY <1>0, <3>1 DEF Stamps
    <3>3. Parsed' = Parsed /\ (Agrees(e)' <=> Agrees(e))
      BY <1>5, <2>3, ChangesSame DEF Digest, Parsed, Agrees
    <3> QED BY <1>0, <3>1, <3>2, <3>3 DEF Past, Knows, Prints
  <2> QED BY <1>5, <2>1, <2>2, <2>3 DEF Digest
<1>6. CASE Stat(e)
  <2>1. CASE Answer(e, "error") BY <2>1, <1>a
  <2> DEFINE print == [digest |-> digest[e], stamp |-> file.stamp]
  <2>2. CASE pc[e] = "stat" /\ file.body # Gone /\ Taken(e, print)
    <3>0. print.stamp = file.stamp /\ print.stamp # 0 BY <1>0
    <3> HIDE DEF print
    <3>1. CASE Filled(e, print)
      <4>1. pc'[e] = "shown" /\ revision'[e] = print /\ file' = file
        BY <1>0, <3>1 DEF Filled
      <4>2. at'[e].looked = at[e].looked /\ at'[e].filled = file.stamp
        BY <1>0, <3>1 DEF Filled, Stamps
      <4> QED BY <1>0, <3>0, <4>1, <4>2 DEF Past, Knows
    <3>2. CASE phase[e] = "candidate" /\ Compared(e, print)
      <4>1. CASE \E r : Answer(e, r) BY <4>1, <1>a
      <4>2. CASE ~\E r : Answer(e, r)
        <5>1. /\ print = revision[e] /\ revision' = revision /\ file' = file /\ at' = at
              /\ shown' = shown /\ touched' = touched
          BY <3>2, <4>2 DEF Compared
        <5>2. pc'[e] = "digest" /\ phase'[e] = "check" /\ values'[e] = Edited(e)
          BY <1>0, <3>2, <4>2 DEF Compared
        <5>3. values[e] = file.body
          BY <2>2, <3>0, <3>2, <5>1 DEF Knows, Parsed
        <5>4. Changes(e)' = Changes(e) BY <5>1, ChangesSame
        <5>5. Agrees(e)'
          BY <1>0, <5>1, <5>2, <5>3, <5>4 DEF Agrees, Edited
        <5> QED BY <1>0, <5>1, <5>2, <5>5 DEF Past, Knows
      <4> QED BY <4>1, <4>2
    <3>3. CASE phase[e] = "check" /\ Checked(e, print)
      <4>1. CASE print # revision[e] BY <3>3, <4>1, <1>a DEF Checked
      <4>2. CASE print = revision[e]
        <5>1. /\ pc'[e] = "write" /\ phase' = phase /\ revision' = revision /\ file' = file
              /\ at' = [at EXCEPT ![e].looked = IF print = NoFile THEN file.stamp ELSE @]
              /\ values' = values /\ shown' = shown /\ touched' = touched
          BY <1>0, <3>3, <4>2 DEF Checked
        <5>2. print # NoFile BY <3>0 DEF NoFile
        <5>3. at'[e].looked = at[e].looked /\ at'[e].filled = at[e].filled
          BY <1>0, <5>1, <5>2 DEF Stamps
        <5>4. at[e].looked = revision[e].stamp
          <6>1. at[e].looked >= revision[e].stamp BY <2>2, <3>3 DEF Knows
          <6>2. at[e].looked <= file.stamp BY DEF Past
          <6>3. revision[e].stamp = file.stamp BY <3>0, <4>2
          <6>4. at[e].looked \in Nat BY <1>0 DEF Stamps
          <6> QED BY <1>0, <6>1, <6>2, <6>3, <6>4
        <5>5. Agrees(e)' <=> Agrees(e)
          BY <5>1, ChangesSame DEF Agrees
        <5> QED BY <1>0, <2>2, <3>0, <3>3, <4>2, <5>1, <5>3, <5>4, <5>5 DEF Past, Knows
      <4> QED BY <4>1, <4>2
    <3>4. CASE Saved(e)
      BY <1>0, <3>4 DEF Saved, Past, Knows
    <3> QED BY <2>2, <3>1, <3>2, <3>3, <3>4 DEF Taken
  <2> QED BY <1>6, <2>1, <2>2 DEF Stat
<1>7. CASE Write(e)
  <2>1. CASE Answer(e, "error") BY <2>1, <1>a
  <2>2. CASE ~Answer(e, "error")
    <3>1. /\ file'.stamp = file.stamp + 1 /\ pc'[e] = "digest" /\ phase'[e] = "after"
          /\ revision' = revision /\ at' = at
      BY <1>0, <1>7, <2>2 DEF Write
    <3> QED BY <1>0, <3>1 DEF Past, Knows, Prints, Stamps
  <2> QED BY <2>1, <2>2
<1> QED BY <1>1, <1>2, <1>3, <1>4, <1>5, <1>6, <1>7 DEF StepOf

---------------------------------------------------------------------------
LEMMA EditorInitial == EInit => LInv
<1> SUFFICES ASSUME EInit PROVE LInv
  OBVIOUS
<1>1. Empty \in [{} -> Vals] BY DEF Empty
<1>2. Empty \in Configs BY <1>1 DEF Configs
<1>3. LType
  BY <1>2 DEF EInit, LType, Bodies, NoFile, Prints, Stamps, Empty
<1>4. ASSUME NEW e \in Editors PROVE Past(e) /\ Knows(e)
  BY DEF EInit, Past, Knows, NoFile
<1> QED BY <1>3, <1>4 DEF LInv

LEMMA EditorStep == LInv /\ [ENext]_vars => LInv'
<1> SUFFICES ASSUME LInv, [ENext]_vars PROVE LInv'
  OBVIOUS
<1>1. LType /\ LType' BY TypeStep DEF LInv
<1>2. ASSUME NEW e \in Editors PROVE Past(e)' /\ Knows(e)'
  <2>1. CASE Foreign \/ UNCHANGED vars
    <3>1. Same(e) /\ FileStep
      BY <1>1, <2>1 DEF Foreign, vars, editVars, Same, FileStep, LType
    <3> QED BY <1>1, <3>1, AloneKeeps DEF LInv
  <2>2. CASE StepOf(e) BY <1>1, <2>2, OwnStep DEF LInv
  <2>3. ASSUME NEW d \in Editors \ {e}, StepOf(d) PROVE Past(e)' /\ Knows(e)'
    <3>1. Same(e) /\ FileStep BY <1>1, <2>3, StepIsLocal
    <3> QED BY <1>1, <3>1, AloneKeeps DEF LInv
  <2> QED BY <2>1, <2>2, <2>3 DEF ENext, StepOf
<1> QED BY <1>1, <1>2 DEF LInv

\* The stamps tell each editor of the settings page what it knows of the file.
THEOREM StampsAreTrue == ESpec => []LInv
<1> QED BY EditorInitial, EditorStep, PTL DEF ESpec

\* The step that replaces the file is a write of the candidate's values.
LEMMA ReplaceStep ==
  ASSUME LInv, [ENext]_vars, NEW e \in Editors, Replaces(e)
  PROVE  file' = [body |-> values[e], stamp |-> file.stamp + 1]
<1>1. LType /\ phase[e] = "check" BY DEF LInv, Knows, Replaces
<1>2. phase'[e] # phase[e] BY <1>1 DEF Replaces
<1>3. ASSUME NEW d \in Editors, StepOf(d) PROVE d = e
  <2>1. d # e => Same(e) BY <1>1, <1>3, StepIsLocal
  <2> QED BY <1>2, <2>1 DEF Same
<1>4. StepOf(e)
  BY <1>2, <1>3 DEF ENext, StepOf, Foreign, vars, editVars
<1>5. Write(e)
  BY <1>4 DEF StepOf, Replaces, Open, Edit, Save, Parse, Digest, Stat
<1> QED BY <1>2, <1>5 DEF Write, Answer

\* A save keeps what it does not change, keys without a control included, unless
\* somebody wrote after its last look at the file.
THEOREM SaveKeeps == ESpec => NoLostUpdate
<1>1. ASSUME LInv, [ENext]_vars, NEW e \in Editors, Replaces(e),
             file.stamp = at[e].looked, file.body # Gone
      PROVE  /\ file.body \in Configs /\ DOMAIN file'.body = DOMAIN file.body
             /\ \A k \in DOMAIN file.body \ Changes(e) : file'.body[k] = file.body[k]
  <2>1. Agrees(e) BY <1>1 DEF LInv, Knows, Replaces
  <2>2. file'.body = values[e] BY <1>1, ReplaceStep
  <2> QED BY <2>1, <2>2 DEF Agrees
<1>2. LInv /\ [ENext]_vars =>
        [\A e \in Editors : Replaces(e) /\ file.stamp = at[e].looked /\ file.body # Gone =>
          /\ file.body \in Configs /\ DOMAIN file'.body = DOMAIN file.body
          /\ \A k \in DOMAIN file.body \ Changes(e) : file'.body[k] = file.body[k]]_vars
  BY <1>1
<1> QED BY <1>2, StampsAreTrue, PTL DEF ESpec, NoLostUpdate

\* A save that goes through knows every write that came after the form was filled.
THEOREM SaveIsNotBlind == ESpec => NoBlindOverwrite
<1>1. ASSUME LInv, [ENext]_vars, NEW e \in Editors, Replaces(e), revision[e] # NoFile
      PROVE  at[e].looked = at[e].filled
  BY <1>1 DEF LInv, Past, Knows, Replaces
<1>2. LInv /\ [ENext]_vars =>
        [\A e \in Editors : Replaces(e) /\ revision[e] # NoFile => at[e].looked = at[e].filled]_vars
  BY <1>1
<1> QED BY <1>2, StampsAreTrue, PTL DEF ESpec, NoBlindOverwrite

---------------------------------------------------------------------------
(* The answers.  The fingerprint of a form whose file nobody wrote since   *)
(* its values were read is the file's own, so that only a write can make   *)
(* a later fingerprint differ from it.                                     *)

FilePrint == IF file.body = Gone THEN NoFile ELSE [digest |-> file.body, stamp |-> file.stamp]

AType ==
  /\ pc \in [Editors -> {"closed", "shown", "parse", "digest", "stat", "write"}]
  /\ phase \in [Editors -> {"open", "candidate", "check", "after"}]
  /\ result \in [Editors -> {"none", "saved", "conflict", "error"}]
  /\ wrote \in [Editors -> BOOLEAN]

Told(e) ==
  /\ phase[e] \in {"candidate", "check"} => ~wrote[e]
  /\ phase[e] = "after" \/ result[e] = "saved" => wrote[e]
  /\ result[e] = "conflict" => pc[e] = "shown" /\ ~wrote[e] /\ file.stamp # at[e].read
  /\ at[e].read <= file.stamp
  /\ file.stamp = at[e].read =>
       /\ phase[e] # "open" \/ pc[e] = "shown" => revision[e] = FilePrint
       /\ pc[e] = "stat" => digest[e] = file.body
  /\ phase[e] = "open" /\ pc[e] # "shown" => touched[e] = Empty
  /\ DOMAIN touched[e] \subseteq DOMAIN shown[e]

AInv == LInv /\ AType /\ \A e \in Editors : Told(e)

\* What an answer is made of is left alone by a step, too.
SameAnswer(e) ==
  Same(e) /\ result'[e] = result[e] /\ wrote'[e] = wrote[e] /\ digest'[e] = digest[e]

LEMMA AloneTold ==
  ASSUME LType, LType', NEW e \in Editors, Told(e), SameAnswer(e), FileStep
  PROVE  Told(e)'
<1>1. file.stamp \in Nat /\ file'.stamp \in Nat /\ at[e].read \in Nat
  BY DEF LType, Stamps
<1>2. CASE file' = file
  BY <1>2 DEF Told, SameAnswer, Same, FilePrint
<1>3. CASE file'.stamp > file.stamp
  <2>1. file'.stamp # at[e].read /\ at[e].read <= file'.stamp
    BY <1>1, <1>3 DEF Told
  <2>. QED  BY <2>1 DEF Told, SameAnswer, Same
<1>. QED  BY <1>2, <1>3 DEF FileStep

\* An editor's step leaves the answers of the others alone.
LEMMA AnswerIsLocal ==
  ASSUME LType, AType, NEW d \in Editors, StepOf(d)
  PROVE  AType' /\ FileStep /\ \A e \in Editors \ {d} : SameAnswer(e)
<1> DEFINE Local == AType' /\ \A e \in Editors \ {d} :
             result'[e] = result[e] /\ wrote'[e] = wrote[e] /\ digest'[e] = digest[e]
<1> USE DEF AType, Go, Answer
<1>0. DOMAIN digest = Editors BY DEF LType
<1>1. ASSUME Open(d) PROVE Local BY <1>1 DEF Open
<1>2. ASSUME Edit(d) PROVE Local
  <2>1. UNCHANGED <<pc, phase, result, wrote, digest>> BY <1>2 DEF Edit
  <2>. QED  BY <2>1
<1>3. ASSUME Save(d) PROVE Local BY <1>3 DEF Save
<1>4. ASSUME Parse(d) PROVE Local BY <1>4 DEF Parse
<1>a. ASSUME NEW print, Taken(d, print) PROVE Local
  <2>1. CASE Filled(d, print) BY <2>1 DEF Filled
  <2>2. CASE Compared(d, print) BY <2>2 DEF Compared
  <2>3. CASE Checked(d, print) BY <2>3 DEF Checked
  <2>4. CASE Saved(d) BY <2>4 DEF Saved
  <2> QED BY <1>a, <2>1, <2>2, <2>3, <2>4 DEF Taken
<1>5. ASSUME Digest(d) PROVE Local
  <2>1. CASE Answer(d, "error") BY <2>1
  <2>2. CASE Taken(d, NoFile) BY <2>2, <1>a
  <2>3. CASE ~Answer(d, "error") /\ ~Taken(d, NoFile) BY <1>0, <1>5, <2>3 DEF Digest
  <2> QED BY <2>1, <2>2, <2>3
<1>6. ASSUME Stat(d) PROVE Local
  <2>1. CASE Answer(d, "error") BY <2>1
  <2> QED BY <1>6, <2>1, <1>a DEF Stat
<1>7. ASSUME Write(d) PROVE Local BY <1>7 DEF Write
<1>8. Local BY <1>1, <1>2, <1>3, <1>4, <1>5, <1>6, <1>7 DEF StepOf
<1> QED BY <1>8, StepIsLocal DEF SameAnswer

\* An editor's own step keeps its answer true.
LEMMA OwnTold ==
  ASSUME LInv, LType', AType, AType', NEW e \in Editors, Told(e), StepOf(e)
  PROVE  Told(e)'
<1> USE DEF Go
<1>0. /\ file.stamp \in Nat \ {0} /\ at[e] \in Stamps /\ at[e].read \in Nat
      /\ DOMAIN pc = Editors /\ DOMAIN phase = Editors /\ DOMAIN result = Editors
      /\ DOMAIN wrote = Editors /\ DOMAIN digest = Editors /\ DOMAIN touched = Editors
      /\ DOMAIN shown = Editors /\ DOMAIN revision = Editors /\ DOMAIN at = Editors
      /\ phase[e] \in {"open", "candidate", "check", "after"}
  BY DEF LInv, LType, AType, Stamps
<1>1. ASSUME Open(e) PROVE Told(e)'
  BY <1>0, <1>1 DEF Open, Told, Empty, FilePrint
<1>2. ASSUME Edit(e) PROVE Told(e)'
  <2>1. PICK S \in SUBSET DOMAIN Control(e) : \E t \in [S -> Vals] : touched' = [touched EXCEPT ![e] = t]
    BY <1>2 DEF Edit
  <2>2. DOMAIN touched'[e] \subseteq DOMAIN shown[e]
    BY <1>0, <2>1 DEF Control
  <2>3. UNCHANGED <<file, pc, phase, shown, revision, digest, result, at, wrote>> /\ pc[e] = "shown"
    BY <1>2 DEF Edit
  <2>. QED  BY <2>2, <2>3 DEF Told, FilePrint
<1>3. ASSUME Save(e) PROVE Told(e)'
  BY <1>0, <1>3 DEF Save, Told, FilePrint
<1>a. ASSUME NEW r \in {"error", "conflict"}, Answer(e, r), pc[e] # "shown",
             r = "conflict" => phase[e] \in {"candidate", "check"} /\ file.stamp # at[e].read
      PROVE  Told(e)'
  BY <1>0, <1>a DEF Answer, Told, FilePrint, Empty
<1>4. ASSUME Parse(e) PROVE Told(e)'
  <2>1. CASE Answer(e, "error") BY <1>4, <2>1, <1>a DEF Parse
  <2>2. CASE ~Answer(e, "error") /\ phase[e] = "open"
    <3>1. /\ pc[e] = "parse" /\ pc'[e] = "digest" /\ at'[e].read = file.stamp
          /\ UNCHANGED <<file, phase, revision, touched, digest, result, wrote>>
      BY <1>0, <1>4, <2>2 DEF Parse, Stamps
    <3>. QED  BY <1>0, <2>2, <3>1 DEF Told, Empty
  <2>3. CASE ~Answer(e, "error") /\ phase[e] # "open"
    <3>1. /\ pc[e] = "parse" /\ pc'[e] = "digest"
          /\ UNCHANGED <<file, phase, shown, revision, touched, digest, result, wrote, at>>
      BY <1>0, <1>4, <2>3 DEF Parse
    <3>. QED  BY <2>3, <3>1 DEF Told, FilePrint
  <2>. QED  BY <2>1, <2>2, <2>3
<1>b. ASSUME NEW print, Taken(e, print), pc[e] \notin {"shown", "write"},
             file.stamp = at[e].read => print = FilePrint
      PROVE  Told(e)'
  <2>1. CASE phase[e] = "open" /\ Filled(e, print)
    <3>1. /\ pc'[e] = "shown" /\ revision'[e] = print /\ at'[e].read = at[e].read
          /\ UNCHANGED <<file, phase, shown, touched, digest, result, wrote>>
      BY <1>0, <2>1 DEF Filled, Stamps
    <3>. QED  BY <1>b, <2>1, <3>1 DEF Told, FilePrint
  <2>2. CASE phase[e] = "candidate" /\ Compared(e, print)
    <3>1. CASE print # revision[e]
      <4>1. file.stamp # at[e].read
        BY <1>b, <2>2, <3>1 DEF Told
      <4>. QED  BY <1>a, <1>b, <2>2, <3>1, <4>1 DEF Compared
    <3>2. CASE print = revision[e] /\ Answer(e, "error")
      BY <1>a, <1>b, <3>2
    <3>3. CASE print = revision[e] /\ ~Answer(e, "error")
      <4>1. /\ pc'[e] = "digest" /\ phase'[e] = "check"
            /\ UNCHANGED <<file, shown, revision, touched, digest, result, at, wrote>>
        BY <1>0, <2>2, <3>3 DEF Compared
      <4>. QED  BY <1>b, <2>2, <4>1 DEF Told, FilePrint
    <3>. QED  BY <3>1, <3>2, <3>3
  <2>3. CASE phase[e] = "check" /\ Checked(e, print)
    <3>1. CASE print # revision[e]
      <4>1. file.stamp # at[e].read
        BY <1>b, <2>3, <3>1 DEF Told
      <4>. QED  BY <1>a, <1>b, <2>3, <3>1, <4>1 DEF Checked
    <3>2. CASE print = revision[e]
      <4>1. /\ pc'[e] = "write" /\ at'[e].read = at[e].read
            /\ UNCHANGED <<file, phase, shown, revision, touched, digest, result, wrote>>
        BY <1>0, <2>3, <3>2 DEF Checked, Stamps
      <4>. QED  BY <1>b, <2>3, <4>1 DEF Told, FilePrint
    <3>. QED  BY <3>1, <3>2
  <2>4. CASE phase[e] = "after" /\ Saved(e)
    BY <1>0, <1>b, <2>4 DEF Saved, Told, FilePrint, Empty
  <2>. QED  BY <1>b, <2>1, <2>2, <2>3, <2>4 DEF Taken
<1>5. ASSUME Digest(e) PROVE Told(e)'
  <2>1. CASE Answer(e, "error") BY <1>5, <2>1, <1>a DEF Digest
  <2>2. CASE file.body = Gone /\ Taken(e, NoFile)
    BY <1>5, <2>2, <1>b DEF Digest, FilePrint
  <2>3. CASE file.body # Gone /\ ~Answer(e, "error")
    <3>1. /\ pc[e] = "digest" /\ pc'[e] = "stat" /\ digest'[e] = file.body
          /\ at'[e].read = at[e].read
          /\ UNCHANGED <<file, phase, shown, revision, touched, result, wrote>>
      BY <1>0, <1>5, <2>3 DEF Digest, Stamps
    <3>. QED  BY <3>1 DEF Told, FilePrint
  <2>. QED  BY <1>5, <2>1, <2>2, <2>3 DEF Digest
<1>6. ASSUME Stat(e) PROVE Told(e)'
  <2>1. CASE Answer(e, "error") BY <1>6, <2>1, <1>a DEF Stat
  <2>2. CASE file.body # Gone /\ Taken(e, [digest |-> digest[e], stamp |-> file.stamp])
    BY <1>6, <2>2, <1>b DEF Stat, Told, FilePrint
  <2>. QED  BY <1>6, <2>1, <2>2 DEF Stat
<1>7. ASSUME Write(e) PROVE Told(e)'
  <2>1. CASE Answer(e, "error") BY <1>7, <2>1, <1>a DEF Write
  <2>2. CASE ~Answer(e, "error")
    <3>1. /\ pc[e] = "write" /\ file'.stamp = file.stamp + 1 /\ pc'[e] = "digest"
          /\ phase'[e] = "after" /\ wrote'[e] = TRUE
          /\ UNCHANGED <<shown, touched, result, at>>
      BY <1>0, <1>7, <2>2 DEF Write
    <3>2. at[e].read <= file.stamp
      BY DEF Told
    <3>. QED  BY <1>0, <3>1, <3>2 DEF Told
  <2>. QED  BY <2>1, <2>2
<1> QED BY <1>1, <1>2, <1>3, <1>4, <1>5, <1>6, <1>7 DEF StepOf

LEMMA AnswerStep == AInv /\ [ENext]_vars => AInv'
<1> SUFFICES ASSUME AInv, [ENext]_vars PROVE AInv'
  OBVIOUS
<1>1. LInv /\ LInv' /\ LType /\ LType' /\ AType
  BY EditorStep DEF AInv, LInv
<1>2. CASE Foreign \/ UNCHANGED vars
  <2>1. AType' /\ FileStep /\ \A e \in Editors : SameAnswer(e)
    BY <1>1, <1>2 DEF Foreign, vars, editVars, SameAnswer, Same, FileStep, AType, LType
  <2>. QED  BY <1>1, <2>1, AloneTold DEF AInv
<1>3. ASSUME NEW d \in Editors, StepOf(d) PROVE AInv'
  <2>1. AType' /\ FileStep /\ \A e \in Editors \ {d} : SameAnswer(e)
    BY <1>1, <1>3, AnswerIsLocal
  <2>2. ASSUME NEW e \in Editors PROVE Told(e)'
    BY <1>1, <1>3, <2>1, OwnTold, AloneTold DEF AInv
  <2>. QED  BY <1>1, <2>1, <2>2 DEF AInv
<1>. QED  BY <1>2, <1>3 DEF ENext, StepOf

LEMMA AnswersKept == ESpec => []AInv
<1>1. EInit => AInv
  BY EditorInitial DEF AInv, EInit, AType, Told, Empty
<1>. QED  BY <1>1, AnswerStep, PTL DEF ESpec

\* What the settings page says of a save is so: "saved" has replaced the file,
\* "conflict" has not and is said only of a file that was written since
\* (save_configuration and SafeConfigEditor.save), whoever writes meanwhile.
THEOREM AnswersAreTrue == ESpec => []AnswerTrue
<1>1. AInv => AnswerTrue
  BY DEF AInv, Told, AnswerTrue
<1>. QED  BY <1>1, AnswersKept, PTL

\* Every variable holds a value of its kind, and what an editor shows or saves
\* has been parsed.
THEOREM EditorTypes == ESpec => []ETypeOK
<1>1. ASSUME AInv PROVE ETypeOK
  <2>1. LType /\ AType BY <1>1 DEF AInv, LInv
  <2>2. file.body \in Bodies /\ file.stamp \in Nat \ {0} BY <2>1 DEF LType
  <2>3. ASSUME NEW e \in Editors
        PROVE  /\ shown[e] \in Configs /\ values[e] \in Configs
               /\ revision[e].digest \in Bodies /\ revision[e].stamp \in 0..file.stamp
               /\ DOMAIN touched[e] \subseteq DOMAIN shown[e]
    <3>1. revision[e] \in Prints /\ shown[e] \in Configs /\ values[e] \in Configs
      BY <2>1 DEF LType
    <3>2. revision[e].digest \in Bodies /\ revision[e].stamp \in Nat
      BY <3>1 DEF Prints
    <3>3. revision[e].stamp <= file.stamp /\ DOMAIN touched[e] \subseteq DOMAIN shown[e]
      BY <1>1 DEF AInv, LInv, Past, Told
    <3>. QED  BY <2>2, <3>1, <3>2, <3>3
  <2>. QED  BY <2>1, <2>2, <2>3 DEF ETypeOK, AType
<1>. QED  BY <1>1, AnswersKept, PTL
=============================================================================
