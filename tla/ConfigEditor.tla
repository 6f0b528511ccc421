---------------------------- MODULE ConfigEditor ----------------------------
(***************************************************************************)
(* The settings page: the form of the main window, the controller that     *)
(* keeps one SafeConfigEditor for what the form shows and makes another    *)
(* one to save, and the configuration file, which others write as well.    *)
(*                                                                         *)
(* An editor reads the file three times, to parse it, to digest it and to  *)
(* stat it, and anybody may write in between.  A write gives the file      *)
(* another stamp: inode, size and modification time.                       *)
(***************************************************************************)
EXTENDS Naturals

CONSTANTS
  Editors,    \* windows open on the same project
  Keys,       \* keys that the file may have
  Vals,       \* values that parse_config accepts
  Offered,    \* what the control of each key can show; nothing for a key without one
  First,      \* what it shows of a value that it does not offer
  Garbled,    \* content that parse_config rejects
  Gone,       \* no file
  MaxStamp    \* bound of the instance: writes after which nothing begins

Configs == UNION {[S -> Vals] : S \in SUBSET Keys}
Fields  == {k \in Keys : Offered[k] # {}}    \* _field_for
Empty   == [k \in {} |-> k]
Bodies  == Configs \cup {Garbled, Gone}

ASSUME EditorAssumption ==
  /\ Offered \in [Keys -> SUBSET Vals]
  /\ \A k \in Fields : First[k] \in Offered[k]
  /\ Garbled \notin Configs /\ Gone \notin Configs /\ Garbled # Gone
  /\ MaxStamp \in Nat

VARIABLES
  file,      \* body and stamp
  pc,        \* what each editor does next
  phase,     \* and what for
  shown,     \* _editor_initial_values: the values the form was filled with
  revision,  \* the fingerprint that goes with them
  touched,   \* what the user has set in the form
  values,    \* _values of the candidate that saves
  digest,    \* the half of a fingerprint that was taken
  result,    \* the last answer of save_configuration
  at,        \* history: the file's stamp as the form's values were read, as their
             \* fingerprint was complete, and as it last read the content
  wrote      \* history: the last save has replaced the file

editVars == <<pc, phase, shown, revision, touched, values, digest, result>>
vars     == <<file, editVars, at, wrote>>

\* The fingerprint of a file that does not exist.
NoFile == [digest |-> Gone, stamp |-> 0]

\* Every variable holds a value of its kind; what an editor holds was parsed.
ETypeOK ==
  /\ file.body \in Bodies /\ file.stamp \in Nat \ {0}
  /\ pc \in [Editors -> {"closed", "shown", "parse", "digest", "stat", "write"}]
  /\ phase \in [Editors -> {"open", "candidate", "check", "after"}]
  /\ result \in [Editors -> {"none", "saved", "conflict", "error"}]
  /\ \A e \in Editors :
       /\ shown[e] \in Configs /\ values[e] \in Configs
       /\ revision[e].digest \in Bodies /\ revision[e].stamp \in 0..file.stamp
       /\ DOMAIN touched[e] \subseteq DOMAIN shown[e]

EInit ==
  /\ \E b \in Bodies : file = [body |-> b, stamp |-> 1]
  /\ pc = [e \in Editors |-> "closed"] /\ phase = [e \in Editors |-> "open"]
  /\ shown = [e \in Editors |-> Empty] /\ values = [e \in Editors |-> Empty]
  /\ revision = [e \in Editors |-> NoFile] /\ touched = [e \in Editors |-> Empty]
  /\ digest = [e \in Editors |-> Gone] /\ result = [e \in Editors |-> "none"]
  /\ at = [e \in Editors |-> [read |-> 0, filled |-> 0, looked |-> 0]] /\ wrote = [e \in Editors |-> FALSE]

Parsed == IF file.body = Gone THEN Empty ELSE file.body

---------------------------------------------------------------------------
(* The form.                                                               *)

\* What the controls hold, and what _confirm_and_save_editor finds changed.
Control(e) == [k \in DOMAIN shown[e] \cap Fields |->
  IF k \in DOMAIN touched[e] THEN touched[e][k]
  ELSE IF shown[e][k] \in Offered[k] THEN shown[e][k] ELSE First[k]]
Changes(e) == {k \in DOMAIN Control(e) : Control(e)[k] # shown[e][k]}

Go(e, p, f) == pc' = [pc EXCEPT ![e] = p] /\ phase' = [phase EXCEPT ![e] = f]

\* _refresh_editor: at the start, at the user's wish and after a save.
Open(e) ==
  /\ pc[e] \in {"closed", "shown"} /\ file.stamp <= MaxStamp
  /\ Go(e, "parse", "open")
  /\ result' = [result EXCEPT ![e] = "none"] /\ touched' = [touched EXCEPT ![e] = Empty]
  /\ wrote' = [wrote EXCEPT ![e] = FALSE]
  /\ UNCHANGED <<file, shown, revision, values, digest, at>>

\* The user sets some controls.
Edit(e) ==
  /\ pc[e] = "shown" /\ touched[e] = Empty
  /\ \E S \in SUBSET DOMAIN Control(e) : \E t \in [S -> Vals] :
       /\ S # {} /\ \A k \in S : t[k] \in Offered[k]
       /\ touched' = [touched EXCEPT ![e] = t]
  /\ UNCHANGED <<file, pc, phase, shown, revision, values, digest, result, at, wrote>>

\* The user saves, and confirms; save_configuration makes a new editor.
Save(e) ==
  /\ pc[e] = "shown" /\ Changes(e) # {} /\ file.stamp <= MaxStamp
  /\ Go(e, "parse", "candidate")
  /\ wrote' = [wrote EXCEPT ![e] = FALSE] /\ result' = [result EXCEPT ![e] = "none"]
  /\ UNCHANGED <<file, shown, revision, touched, values, digest, at>>

---------------------------------------------------------------------------
(* SafeConfigEditor and the controller around it.                          *)

\* A form without values for which nothing is saved, or the answer to a save.
Answer(e, r) ==
  /\ IF phase[e] = "open"
     THEN /\ pc' = [pc EXCEPT ![e] = "closed"] /\ UNCHANGED result
          /\ shown' = [shown EXCEPT ![e] = Empty]
          /\ revision' = [revision EXCEPT ![e] = NoFile]
     ELSE /\ pc' = [pc EXCEPT ![e] = "shown"] /\ result' = [result EXCEPT ![e] = r]
          /\ UNCHANGED <<shown, revision>>
  /\ UNCHANGED <<file, phase, touched, values, digest, at, wrote>>

\* Mutant: lines that do not parse are taken over.
ParseLenient(e) ==
  /\ pc[e] = "parse"
  /\ pc' = [pc EXCEPT ![e] = "digest"]
  /\ IF phase[e] = "open"
     THEN /\ shown' = [shown EXCEPT ![e] = Parsed]
          /\ at' = [at EXCEPT ![e].read = file.stamp] /\ UNCHANGED values
     ELSE values' = [values EXCEPT ![e] = Parsed] /\ UNCHANGED <<shown, at>>
  /\ UNCHANGED <<file, phase, revision, touched, digest, result, wrote>>

\* load() up to its fingerprint; any reading may fail.
Parse(e) ==
  /\ pc[e] = "parse"
  /\ \/ Answer(e, "error")
     \/ /\ file.body # Garbled /\ pc' = [pc EXCEPT ![e] = "digest"]
        /\ IF phase[e] = "open"
           THEN /\ shown' = [shown EXCEPT ![e] = Parsed]
                /\ at' = [at EXCEPT ![e].read = file.stamp] /\ UNCHANGED values
           ELSE values' = [values EXCEPT ![e] = Parsed] /\ UNCHANGED <<shown, at>>
        /\ UNCHANGED <<file, phase, revision, touched, digest, result, wrote>>

\* Mutant: only the form's keys are saved.
EditedForm(e) == Control(e)

\* The candidate's values with the changes of the form.
Edited(e) == [k \in DOMAIN values[e] |->
  IF k \in Changes(e) THEN Control(e)[k] ELSE values[e][k]]

\* Mutant: the candidate is not compared with what the form was filled from.
ComparedUnasked(e, print) ==
  IF ~(Changes(e) \subseteq DOMAIN values[e]) THEN Answer(e, "error")
  ELSE /\ Go(e, "digest", "check")
       /\ values' = [values EXCEPT ![e] = Edited(e)]
       /\ revision' = [revision EXCEPT ![e] = print]
       /\ UNCHANGED <<file, shown, touched, digest, result, at, wrote>>

\* The candidate is compared with what the form was filled from, and edited.
Compared(e, print) ==
  IF print # revision[e] THEN Answer(e, "conflict")
  ELSE IF ~(Changes(e) \subseteq DOMAIN values[e]) THEN Answer(e, "error")
  ELSE /\ Go(e, "digest", "check")
       /\ values' = [values EXCEPT ![e] = Edited(e)]
       /\ UNCHANGED <<file, shown, revision, touched, digest, result, at, wrote>>

\* save(): the file is compared once more before it is replaced.
Checked(e, print) ==
  IF print # revision[e] THEN Answer(e, "conflict")
  ELSE /\ pc' = [pc EXCEPT ![e] = "write"]
       /\ at' = [at EXCEPT ![e].looked = IF print = NoFile THEN file.stamp ELSE @]
       /\ UNCHANGED <<file, phase, shown, revision, touched, values, digest, result, wrote>>

\* The form is complete.
Filled(e, print) ==
  /\ pc' = [pc EXCEPT ![e] = "shown"]
  /\ revision' = [revision EXCEPT ![e] = print]
  /\ at' = [at EXCEPT ![e].filled = file.stamp]
  /\ UNCHANGED <<file, phase, shown, touched, values, digest, result, wrote>>

\* The file is saved, and the form is filled again.
Saved(e) ==
  /\ Go(e, "parse", "open") /\ result' = [result EXCEPT ![e] = "saved"]
  /\ touched' = [touched EXCEPT ![e] = Empty]
  /\ UNCHANGED <<file, shown, revision, values, digest, at, wrote>>

\* What follows a complete fingerprint.
Taken(e, print) ==
  \/ phase[e] = "open" /\ Filled(e, print)
  \/ phase[e] = "candidate" /\ Compared(e, print)
  \/ phase[e] = "check" /\ Checked(e, print)
  \/ phase[e] = "after" /\ Saved(e)

\* _current_fingerprint: a digest of the content,
Digest(e) ==
  /\ pc[e] = "digest"
  /\ \/ Answer(e, "error")
     \/ file.body = Gone /\ Taken(e, NoFile)
     \/ /\ file.body # Gone /\ pc' = [pc EXCEPT ![e] = "stat"]
        /\ digest' = [digest EXCEPT ![e] = file.body]
        /\ at' = [at EXCEPT ![e].looked = file.stamp]
        /\ UNCHANGED <<file, phase, shown, revision, touched, values, result, wrote>>

\* and then the metadata.
Stat(e) ==
  /\ pc[e] = "stat"
  /\ \/ Answer(e, "error")
     \/ file.body # Gone /\ Taken(e, [digest |-> digest[e], stamp |-> file.stamp])

\* Mutant: a failed write is not noticed.
WriteUnnoticed(e) ==
  /\ pc[e] = "write" /\ Go(e, "digest", "after")
  /\ \/ /\ file' = [body |-> values[e], stamp |-> file.stamp + 1]
        /\ wrote' = [wrote EXCEPT ![e] = TRUE]
     \/ UNCHANGED <<file, wrote>>
  /\ UNCHANGED <<shown, revision, touched, values, digest, result, at>>

\* write_config_atomic: the file is replaced as a whole or left alone.
Write(e) ==
  /\ pc[e] = "write"
  /\ \/ Answer(e, "error")
     \/ /\ file' = [body |-> values[e], stamp |-> file.stamp + 1]
        /\ Go(e, "digest", "after") /\ wrote' = [wrote EXCEPT ![e] = TRUE]
        /\ UNCHANGED <<shown, revision, touched, values, digest, result, at>>

\* Anybody else, the command line program or a text editor, writes or removes it.
Foreign ==
  /\ file.stamp < MaxStamp
  /\ \E b \in Bodies : file' = [body |-> b, stamp |-> file.stamp + 1]
  /\ UNCHANGED <<editVars, at, wrote>>

ENext ==
  \/ Foreign
  \/ \E e \in Editors : Open(e) \/ Edit(e) \/ Save(e) \/ Parse(e) \/ Digest(e) \/ Stat(e) \/ Write(e)

ESpec == EInit /\ [][ENext]_vars

---------------------------------------------------------------------------
(* Properties.                                                             *)

Replaces(e) == pc[e] = "write" /\ phase'[e] = "after"

\* No change is lost: what a save does not change, keys without a control
\* included, keeps the value that the file has, whoever wrote it last, unless
\* that was after the save's last look at the file.
NoLostUpdate ==
  [][\A e \in Editors : Replaces(e) /\ file.stamp = at[e].looked /\ file.body # Gone =>
       /\ file.body \in Configs /\ DOMAIN file'.body = DOMAIN file.body
       /\ \A k \in DOMAIN file.body \ Changes(e) : file'.body[k] = file.body[k]]_vars

\* No change is made blindly: nobody wrote the file between the fingerprint that
\* goes with the form and the last look of the save, if there was a file.
NoBlindOverwrite ==
  [][\A e \in Editors : Replaces(e) /\ revision[e] # NoFile => at[e].looked = at[e].filled]_vars

\* The answer to a save is true: "saved" has replaced the file, and "conflict"
\* has not and is only said if the file was written since the form was filled.
AnswerTrue ==
  \A e \in Editors :
    /\ result[e] = "saved" => wrote[e]
    /\ result[e] = "conflict" /\ pc[e] = "shown" => ~wrote[e] /\ file.stamp # at[e].read

---------------------------------------------------------------------------
(* Promises that the code does not keep.                                   *)

\* A save goes through only for the content that the form was filled with
\* (lsmf/config_editor.py, StaleConfigError).
StaleRefused == [][\A e \in Editors : Replaces(e) => shown[e] = file.body]_vars

\* Only what the user has set is changed.
OnlyTouched ==
  [][\A e \in Editors : Replaces(e) =>
       \A k \in DOMAIN Control(e) \ DOMAIN touched[e] : values[e][k] = shown[e][k]]_vars

\* A save that is answered with an error has left the file alone.
ErrorUnwritten == \A e \in Editors : result[e] = "error" /\ pc[e] = "shown" => ~wrote[e]
=============================================================================
