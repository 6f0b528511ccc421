------------------------- MODULE SysctlBackupStore -------------------------
(***************************************************************************)
(* What the sysctl transaction keeps on disk: the managed host objects,    *)
(* the directory of integrity-checked snapshots and the single             *)
(* "recovery-required" marker (lsmf/sysctl_transaction.py).                *)
(*                                                                         *)
(* An object is a managed drop-in file or a sysctl key.  Its value stands  *)
(* for everything a snapshot of it compares: presence, mode, owner and     *)
(* bytes of a file, canonical text of a key.  A snapshot is a function     *)
(* whose domain is the set of objects it covers.                           *)
(***************************************************************************)
EXTENDS Naturals, FiniteSets

CONSTANTS
  Modules,    \* module identifiers of the trusted manifest
  Files,      \* managed files, one per module
  Keys,       \* sysctl keys
  ModuleOf,   \* the module that owns an object
  Rank,       \* position of an object in manifest order
  Values,     \* values an object can hold
  Desired,    \* the manifest's value of each object
  Selections, \* the module selections the manifest allows to apply
  Requests,   \* request identifiers
  NoBackup,   \* "no backup identifier": Python's None
  Damaged     \* a marker file that exists and does not parse

Objects   == Files \cup Keys
Kinds     == {"backup", "recovery"}
BackupIds == Kinds \X Requests
Snapshots == UNION {[S -> Values] : S \in SUBSET Objects}

\* The manifest covers each object with exactly one module and orders them.
ASSUME ManifestAssumption ==
  /\ Files \cap Keys = {}
  /\ ModuleOf \in [Objects -> Modules]
  /\ Rank \in [Objects -> Nat]
  /\ \A o, p \in Objects : Rank[o] = Rank[p] => o = p
  /\ Desired \in [Objects -> Values]
  /\ Selections \subseteq SUBSET Modules

\* The two special marker values are not identifiers.
ASSUME MarkerAssumption ==
  /\ NoBackup \notin BackupIds
  /\ Damaged \notin BackupIds
  /\ NoBackup # Damaged

VARIABLES
  live,    \* the host: the current value of every object
  bstate,  \* per identifier: no directory, a directory without a valid
           \* snapshot, or a validated snapshot
  bsnap,   \* the content of each validated snapshot
  marker   \* the recovery-required file

storeVars == <<live, bstate, bsnap, marker>>

StoreTypeOK ==
  /\ live \in [Objects -> Values]
  /\ bstate \in [BackupIds -> {"absent", "torn", "valid"}]
  /\ bsnap \in [BackupIds -> Snapshots]
  /\ marker \in BackupIds \cup {NoBackup, Damaged}

StoreInit ==
  /\ live \in [Objects -> Values]
  /\ bstate = [b \in BackupIds |-> "absent"]
  /\ bsnap = [b \in BackupIds |-> << >>]
  /\ marker = NoBackup

---------------------------------------------------------------------------
(* Objects of a selection, and the order in which they are visited.        *)

ObjectsOf(mods) == {o \in Objects : ModuleOf[o] \in mods}

\* Apply goes module by module, the file of a module before its keys: Rank.
NextToApply(o, todo) == o \in todo /\ \A p \in todo : Rank[o] <= Rank[p]

\* Restoration goes over all the files, then over all the keys.
NextToRestore(o, todo) ==
  /\ o \in todo
  /\ o \in Keys => todo \cap Files = {}
  /\ \A p \in todo : (p \in Files <=> o \in Files) => Rank[o] <= Rank[p]

---------------------------------------------------------------------------
(* Reading the store.                                                      *)

Capture(objs)     == [o \in objs |-> live[o]]
Holds(snapshot)   == \A o \in DOMAIN snapshot : live[o] = snapshot[o]
Eligible(b)       == b \in BackupIds /\ bstate[b] = "valid"

(***************************************************************************)
(* Writing the store.  mark_recovery_required opens the marker with O_EXCL *)
(* and writes the identifier afterwards: a marker that was only opened is  *)
(* an empty file, which recovery_backup_id rejects as malformed.           *)
(***************************************************************************)
MakeDirectory(b) == bstate' = [bstate EXCEPT ![b] = "torn"] /\ UNCHANGED bsnap

Publish(b, snapshot) ==
  /\ bstate' = [bstate EXCEPT ![b] = "valid"]
  /\ bsnap' = [bsnap EXCEPT ![b] = snapshot]

\* Mutant: a marker for another backup is replaced.
MarkReplaces(b) == Eligible(b) /\ marker # Damaged

MarkAllowed(b) == Eligible(b) /\ marker \in {NoBackup, b}
OpenMarker     == marker' = IF marker = NoBackup THEN Damaged ELSE marker
=============================================================================
