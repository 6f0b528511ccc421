# LSMF in TLA+

LSMF hardens Linux hosts. Its core is a privileged helper: a D-Bus service that
admits a few typed requests (audit, verify, apply, rollback), has each of them
authorized by Polkit, runs one at a time in a worker process and keeps a
rollback point for every mutation. A desktop program sends those requests and
edits the configuration file. This directory models both from their Python
source (`lsmf/`, `desktop/`): the mutating transaction, its worker process, the
service in front of them, the read-only runner, the fixture engine, the desktop
session and the settings page. It checks them with TLC and proves their central
claims with TLAPS. The Bash command line program is inventoried below and planned.

## Inventory

| Component | State it keeps | Operations | What is hard | Correct when |
| --- | --- | --- | --- | --- |
| Sysctl transaction (`sysctl_transaction.py`, `sysctl_worker.py`) | managed files and keys of the host; backup directories; the recovery marker; a snapshot in memory | apply, rollback | every write, sync and read may fail, before or after its effect; cancellation at checkpoints; restoration of a restoration | the host is in a known state, or a marker names a backup that restores it |
| Worker lifecycle (`synthetic_process.py`, `sysctl_process.py`) | child process, cancellation token, trust in its output | execute | signal, exit and kill race; a worker that dies anywhere; errors while cleaning up | the answer is true and an uncertain host is locked |
| Dispatcher (`production_dispatcher.py`) | operations, lock, tokens | submit, cancel, disconnected | awaits between check and use; cancellation of a prompt; one of three audit writes failing | one executor at a time; nothing runs unauthorized or unaudited; everyone is answered |
| Bus boundary and registry (`system_bus_service.py`, `ipc_security.py`) | live and recent request identifiers, bindings | Submit, Cancel, NameOwnerChanged | the caller leaves while its credentials are looked up; bounded memory of identifiers | an identifier runs once, for its owner |
| Authorization (`system_authorization.py`) | a `pkcheck` child | authorize | a prompt that is cancelled or never answered; a reused PID | no executor without a positive answer |
| Audit (`protected_audit.py`) | an append-only file | append | failing writes | a record precedes every execution |
| Read-only runner (`read_only_process.py`) | a process group and its output pipe | execute | descendants that survive their parent and hold the pipe | a cancelled request has stopped |
| Synthetic executor (`synthetic_executor.py`) | fixture files, backups, marker | audit, verify, apply, rollback | as the sysctl transaction | as the sysctl transaction |
| Wire protocol (`production_protocol.py`, `privileged_protocol.py`) | none | encode, decode, validate | exact shapes per action | every answer of the helper is a valid result |
| Settings page (`config_editor.py`, `configuration.py`, `desktop/controller.py`) | a file, the form filled from it and the fingerprint that goes with the form | load, edit, save | another writer between any two readings of the file | no change is lost or overwritten unseen |
| Desktop session (`desktop/helper_actions.py`, `desktop/main.py`, `system_bus_client.py`) | one action in hand, its thread, loop and connection, its cancellation | begin, cancel, finish | three threads of control; the cancellation races connection, answer and end | a cancellation reaches the helper and the user sees what happened |
| Profiles, module catalog (`profiles.py`, `module_catalog.py`) | none | read | none | parsing only |
| Command line (`src/lsmf`, `src/lib/*.sh`, `src/modules/*.sh`) | run directories, backups with a manifest | run, verify, backup, restore | a step fails in the middle of a run | a backup precedes each change |

The components are connected by calls: the bus boundary registers a request and
calls the dispatcher, which calls policy, authorizer, audit and executor in that
order under one lock; the executor starts a worker and talks to it through a
pipe, two signals and an exit status; worker and helper share the backup
directory and the marker on disk. The desktop keeps a connection per action,
whose end is what the boundary hears as `NameOwnerChanged`. `PROJECT.json` lists every hazard at its line.

## Modules and the code they stand for

| Module | Stands for |
| --- | --- |
| `RecoverableHost` | the abstract promise: a host that only a running request changes, that is given back by a request that fails or is locked, and unlocked only in the state known before |
| `SysctlBackupStore` | `RootedManagedFiles`, `ProcSysctlValues`, `SysctlBackupStore`: host objects, snapshots, backup directories and the marker, with the operators that read and write them |
| `SysctlTransaction` | `SysctlTransactionExecutor` in its worker process: apply and rollback as a program with a counter `pc`; one action for each stretch of code between two points where an error or a cancellation can strike |
| `SysctlProcess` | `SyntheticProcessExecutor.execute`, inherited by `SysctlProcessExecutor`: the helper's counter `ppc` runs beside the worker's |
| `SerialExecution` | the abstract promise of the dispatcher: one execution at a time, no identifier twice |
| `LiveRequestRegistry` | `LiveRequestRegistry`: live bindings and the bounded memory of served identifiers |
| `ProductionDispatcher` | `ProductionDispatcher.submit`, `cancel`, `disconnected`, with the authorizer and the audit sink as they answer it |
| `SystemBusService` | `SystemBusServiceBoundary` and the router around the dispatcher: Submit, Cancel, NameOwnerChanged |
| `ReadOnlyProcess` | `ReadOnlyProcessExecutor.execute`: the polling of the token, the two stages of the stop, the bounded reader, and the worker's process group with a descendant |
| `DesktopSession` | the main window's handlers, `QtReadOnlyActionClient` and `SystemBusHelperClient`, composed with `SystemBusService` and, as its executor, `ReadOnlyProcess` |
| `SyntheticExecutor` | `SyntheticExecutor.execute`: audit, verify, apply and rollback over fixture files |
| `ConfigEditor` | the settings page, `DesktopController.save_configuration` and `SafeConfigEditor`, beside other writers of the file |
| `SysctlTransactionProofs`, `SysctlProcessProofs`, `SystemBusServiceProofs`, `SystemBusRegistryProofs`, `ReadOnlyProcessProofs`, `DesktopSessionProofs`, `SyntheticExecutorProofs`, `ConfigEditorProofs` | the theorems |
| `MCSysctlTransaction`, `MCSysctlProcess`, `MCSystemBusService`, `MCDesktopSession`, `MCSyntheticExecutor`, `MCConfigEditor` | instances for TLC |

**Transaction.** An object is a managed file or a sysctl key; a value stands for
all that a snapshot compares. A snapshot is a function on the objects it covers,
a backup directory is absent, torn or valid, and the marker is none, a backup
identifier or damaged. `Faults` names the errors of the operating system that an
instance may meet, each of them before or after its effect where both can be.
`Start` is the entry of `execute`, `Create`, `Commit` and `Ready` the three
stretches of `SysctlBackupStore.create` and the eligibility check after it,
`ApplyObject` and `VerifyApply` the loop and the comparison of `_apply`,
`RestoreObject`, `VerifyRestore` and `ClearMarker` those of `_rollback`,
`HandleException`, `UndoObject`, `VerifyUndo`, `Mark` and `MarkWrite` the
handlers. `stable` is a history variable: the
state of the host at first and after each request that succeeded.

**Process.** `Launch`, `Send`, `Wait`, `Relay`, `Kill`, `Reap` follow the helper
from the spawn to the trust in the output, `MarkUncertain` is the marking of an
end that is not confirmed. The worker's steps are those of `SysctlTransaction`,
interleaved. `Crash` kills both; `Restart` starts the helper with an empty
registry and what is on disk.

**Service.** The helper runs on one event loop, so that an action is what a
coroutine does between two awaits: `Lookup` is the credential query, `Admit` the
registration and the dispatcher up to the lock, `Acquire` the lock, `Authorize`
the answer of `pkcheck`, `Authorized`, `Denied`, `Interrupted` what follows it,
`Executed` the end of the executor's task, `Return` what follows that. Between
any two of them another Submit, `CancelCall`, `Disconnected`, the time limit
(`Expire`) or a transition of the caller's session (`Deactivated`) can come. The
conditions on an answer are kept in `verdict` (authorizer), `outcome`
(executor), `log` (audit) and `reply` (what the sender gets). `Return` encodes
the result after its terminal record, as the code does, and the encoding may
fail for a request whose result carries a process's output (`Verbose`: audits
and verifications); how much of it is control characters is left open.

**Read-only process.** The leader of the group may fork one descendant, which
inherits the pipe, may close it and may outlive the leader. `Launch` starts the
group, `Terminate` and `Kill` are the two stages of `_stop`, `Exited` is the end
of the polling loop and `Collect` the answer once the pipe is at its end. Output
is counted, not spelled: `Read` takes a chunk of any size, keeps what fits and
sets the flag. When asyncio reports the end of a leader whose pipe is still open
depends on its version, so `Reap` may come then or later; it must come once the
pipe is closed (`ReapClosed`).

**Desktop session.** Three threads of control: the GUI thread (`Begin`, `Keep`,
`Click`, `Schedule`, `Show`), whose handlers do not overlap but between whose
two halves the worker thread can go on; the worker thread of an action
(`Connect`, `Finish`, `Close`), which publishes its loop and connection, sends
Submit and, if the user was early, Cancel, and withdraws them; and the helper,
whose actions are those of `SystemBusService`. `Proceed` calls the read-only
executor where the dispatcher starts one, `Collected` hands back its answer, and
the token that it polls is the dispatcher's (`Shared`). `evidence` is a history
variable: what was true of the worker when the executor answered.

**Synthetic executor.** The same promise as that of the sysctl transactions, kept
by other code: a target is replaced by a rename, a marker that is there is left
there, and audit and verification run in the same engine. Its worker is started
by `SyntheticProcessExecutor`, which is `SysctlProcess` and not repeated.

**Settings page.** The file is a body and a stamp; the stamp stands for inode,
size and modification time, and every write gives a new one. `Open`, `Edit` and
`Save` are the user's, `Parse`, `Digest` and `Stat` the three readings of a load,
which the page makes to fill its form, to build the editor that saves, to look
at the file once more before `Write`, and to take the new fingerprint after it
(`phase`). `Foreign` is anybody else between any two of them. `at` and `wrote`
are history variables.

## What is checked

| Run | Question | Instance |
| --- | --- | --- |
| `transaction` | Does every end of apply and rollback leave the host known, recoverable or locked, is the result true, does every request end, and is `RecoverableHost` implemented? | two requests, two modules with a file and a key each, two values, every fault but the two that the proofs exclude (`SafeFaults`) |
| `process` | Whatever way worker and call end, is the host known or locked and the answer true? Does a cancelled request end? | two requests, one module, errors at spawn, transfer, output and in the helper's own cancellation |
| `lockout` | With every fault, crash and restart: does only the exact rollback write while a marker stands, and clear it? | one request identifier, which a restarted helper may be sent again, one module |
| `service` | Mutual exclusion, identifiers that run once, and stopping of what waits, is authorized or runs | three Submits of two connections, one of them a replay by the other connection; both connections may end, both sessions may transition |
| `service_audit` | Do answers, records and executions agree when any record may be lost and a result may be too large to encode, and is everyone answered? | two Submits of two connections that queue for the lock, one of them with output |
| `service_window` | What happens when the registry is full and has forgotten an identifier that still waits for the lock? | as `service`, one live request, one remembered identifier |
| `desktop` | Is a cancellation ever forgotten, whichever thread comes first? Do window and client agree, is the answer that is shown true, is output reported whole, and does every action end? | one action, whose connection may end and whose records may be lost; output limit 2 and up to three units of output, so under, at and over the limit |
| `synthetic` | Are the fixture targets known, recoverable or locked, are results true, does every request end, and is `RecoverableHost` implemented? | two modules, two identifiers that are sent again and again, every fault but a marker that cannot be opened, the time limit as the way to be stopped |
| `editor` | Is a change of another writer lost or overwritten unseen, and is the answer to a save true? | one window, one key with a control and one without, two values, up to three foreign writes around its saves |
| `late_cancel`, `departed`, `held_pipe` | Promises of the documents that the code does not keep, see Findings | the smallest instance that shows it |

`SysctlHistory.cfg` (`MCSysctlTransaction`) is another instance with three
requests in a row and one module, which also checks the inductive invariant
`Inductive` of the proofs; `DesktopSessionTwo.cfg` (`MCDesktopSession`) has two
actions one after the other. Both hold and are not listed as runs, since they
ask nothing new.

*Why these bounds are enough.* A transaction treats its objects one by one, and
a file and a key are the two ways in which a write can fail; two modules make a
rollback that covers another selection than the apply it follows. Two values
tell changed from unchanged. A marker is set by one request and cleared or
replaced by a later one, and three requests (`SysctlHistory.cfg`) are enough for
a failed recovery between them. Two Submits make a queue behind the lock; the third makes a replay
of an identifier that is live, served or forgotten. The registry's limits are 32
and 256 in the code; `service_window` has both at 1, where they bite at once.
In `synthetic` an identifier can be sent any number of times, so that the number
of requests has no bound; two modules make a loop that stops in the middle. In
`editor` one foreign write can fall between any two readings of a save and leave
room for a second save; a second window is a foreign writer to the first, and
the proofs are for any number of them. In `desktop` a second action meets the
first only through the client's `_request_id` and the helper's lock, which
`DesktopSessionTwo.cfg` has; the desktop draws its identifiers at random, so
that its requests are refused only by a registry that other callers have filled,
which `service_window` is about.
No state constraint is used; identifiers and messages are finite and used once,
so that every run ends, which is why deadlock is not checked: a helper without
requests rests.

*Fairness.* `transaction` assumes that the worker goes on
(`WF(Work)`): it is a sequential program without waiting. `process` assumes only
the helper's event loop (`WF(Parent)`) and nothing of the worker, which may
hang; SIGKILL after the grace period is what ends it. `service_audit` assumes
for each Submit that the loop resumes it, that the bus daemon answers, that
`pkcheck` ends (it is killed after 120 seconds) and that the executor's task
ends. The last is what `CancelEnds` shows of the mutating executor; the
read-only executor waits for its output pipe without limit (`held_pipe`).
`synthetic` assumes that the engine goes on (`WF(Execute)`), a sequential program
as well. `desktop` (`FairHelper`) assumes that GUI and worker threads, event
loops, bus daemon, authorizer and timers go on, and of the worker only that its
end is reported once its pipe is closed: a leader that hangs is killed after the
time limit and its grace period. The user need not click. Besides,
`FairDesktop` assumes that a descendant of the worker ends at some time; the code
does nothing to make it, and without that `ActionEnds` fails as `held_pipe` does.

## What is proved

TLAPS checks the following for every manifest and any number of requests,
messages, connections, windows and objects. Every safety property that a run
checks is a theorem, and so are the three refinements. Each inductive invariant was
checked with TLC before it was proved.

*Transactions* (`SysctlTransactionProofs`). `TypeCorrect` gives types and the
shape of a request, for all faults. `Safety` is the inductive invariant
`Inductive`: the safety properties alone are not inductive, since what a handler
does depends on what the worker holds in memory. It adds that an unused
identifier has no backup and a rollback does not name its own (`OwnInv`), that a
rollback has a valid target and a directory is filled only once (`JobInv`), that
snapshot and loops cover the request's objects (`CoverInv`), that the snapshot in
memory is on disk before anything is written (`SavedInv`), and that a marker
stands only beside the rollback of its backup, while without one the snapshot in
memory recovers the host (`MarkerInv`). `JobInv` and `CoverInv` (`Steady`) need
no fresh identifiers, so that they hold of a helper that is restarted as well.
`HostSettled`, `RecoveryIsExact`, `BackupComesFirst`, `ResultsAreTrue` and
`BackupsAreReported` follow, and `Refinement` maps every step to a step of
`RecoverableHost` or to none. They assume `SafeFaults`: neither the sync after
the marker's removal nor the reading back of a valid backup fails, since with
either the properties are false (`SysctlClearSync`, `SysctlLoad` below).
`Lockout` and `ClearedExactly` assume nothing about the faults.

*Helper and worker* (`SysctlProcessProofs`). The helper's steps come between any
two of the worker's, kill it, crash with it and start again with identifiers that
come back. `ProcessTypes`, `ProcessLockout` and `ProcessClearedExactly` hold for
all faults and hazards. `HelperSafety` is the inductive invariant of the fail-closed end:
a worker that died left a valid backup of its own or a host as it was (`HeldInv`,
`BackInv`), so that the helper, which finds it ended uncertainly, can always set
the marker; a success stays complete and unlocked until the helper has trusted
it (`SuccessInv`); and a token, and with it a cancelled result, is one that the
helper asked for (`AskedInv`). `HelperFailsClosed` and `RepliesAreTrue` follow.
They assume `SafeHelper`: the marker can be created, its removal synced, a valid
backup read, and helper and worker do not die at once. With any one of
the four `FailClosed` is false, as TLC shows (`SysctlMarkLost` and `SysctlCrash`
below for two of them).

*Service* (`SystemBusServiceProofs`). `ServiceSafe` is the inductive invariant:
mutual exclusion, unique identifiers and `Stoppable` together with two parts
they need, that the queue of the lock holds queued operations, each once, and
that a request with an accepted cancellation has a token that says so.
`MutualExclusion`, `IdentifiersUnique`, `AlwaysStoppable` and the action
property `StartsOnlyLive` follow. The proofs reduce the actions to five kinds of
step (idle, entering, leaving the queue, going on with the lock, being stopped).
`AnswersAccounted` needs `Recorded`, which says of a submit anywhere on its way
what it has passed: who runs was allowed and has a start record, an outcome
belongs to a submit that has returned or was answered, and an exception after
an execution hides its status only if the result was too large to encode, and
then the status is on record.

*Registry* (`SystemBusRegistryProofs`). `ServiceTypes`: types, and the two limits
of the registry, from lemmas about `Latest`, `IdOrders` and `Retire`. `ServiceSerial`: the
service implements `SerialExecution`. It assumes `Remembering`, that no more
identifiers are sent in the helper's life than it remembers, for then `Latest`
drops nothing (`NothingDropped`, by counting) and an identifier that has run is refused for
ever (`RanInv`); with one more the refinement is false, as `SystemBusService.cfg`
shows when `MaxRecent` is set to 1.

*Read-only process* (`ReadOnlyProcessProofs`). `OutputIsWhole`: an answer that
reports success or failure carries all that was written, up to any limit, and
the flag is set exactly if something was cut off. The inductive invariant says
of the reader that `kept` is `consumed` up to the limit and that the flag
compares the two, and of `execute` that a leader whose end was reported does not
run. `LeaderIsStopped`: a cancelled or timed out request has no leader that runs.
That nothing of its group runs is false (`DesktopGroup` below).

*Desktop session* (`DesktopSessionProofs`). Every step of the session is a step of
the service or leaves it alone (`SessionServes`), and the same holds of the
executor's process, so that the invariants above are kept; what is new relates the
programs. `HandleInv` ties the window to the client and `ThreadInv` the client to
its one worker thread, whose connection is published only while it can be used;
without that, `ClickInv`, that a click is remembered until it can be acted upon,
would break where one action follows another. `LineInv` says that a line was made
of the helper's answer, `Recorded` that the answer is of the executor's outcome,
`EvidenceInv` that the outcome is of the process; together they give
`ShownIsTrue`. `HandleAlwaysMatches`, `CancelIsSent`, `SessionOutput` and
`SessionTypes` follow as well, and `ExecutorIsFree`, on which the model rests: it
has room for one call of the executor, and the dispatcher never makes a second.

*Synthetic executor* (`SyntheticExecutorProofs`). `SyntheticTypes`,
`SyntheticLockout` and `SyntheticCleared`, for all faults: what passed the gate of
`execute` is, while a marker stands, the rollback of that marker (`GateInv`), and
the marker's removal is reached only with the marker's backup in place
(`TargetInv`). `SyntheticRecovery`, `SyntheticResults`, `SyntheticBackupFirst` and
`SyntheticRefinement` rest on `KnownInv`, that the snapshot in memory, or the backup of
the marker, recovers the known state. They assume that the marker's
file can be created (`SafeFaults`), the one fault that the run leaves out as well.

*Settings page* (`ConfigEditorProofs`). `SaveKeeps` and `SaveIsNotBlind`, for any
number of windows, keys, values and foreign writes. The argument is that of
stamps: no fingerprint is ahead of the file, and as long as the file has the
stamp of a form's fingerprint nobody has written since the fingerprint was
complete; two equal fingerprints therefore enclose a time without writes, and
what the candidate parsed within it is what the file holds. `AnswersAreTrue` adds
the other direction: while the file has the stamp that a form was read at, no
comparison can fail, so that a conflict means a write.

Besides the conditions named above, the only assumptions are those of the modules
about their constants: a manifest in which files and keys are distinct and
ordered, limits of at least one, special values that are not identifiers or
requests, controls that offer accepted values.

*Only model-checked:* everything under fairness (`Terminates`, `CancelEnds`,
`Answered`, `ActionEnds`), which the provers do not treat, and the violations
below.

## Findings

`PROJECT.json` quotes the sentence of the documents that each contradicts.

- `late_cancel`: a cancellation that arrives after an exact rollback has
  succeeded makes the snapshot of the broken host the required recovery.
- `departed`: a connection that ends between its credential lookup and the
  registration leaves a request that is executed for nobody and that no signal
  stops.
- `held_pipe`: when the read-only worker has exited and a descendant keeps its
  output pipe open, neither a cancellation nor the time limit ends the request,
  and the dispatcher's lock is held as long.

More can be seen with the configurations that no run lists (`tlc -config X.cfg
M`):

| Configuration, module | Violated | What happens |
| --- | --- | --- |
| `SysctlClearSync`, `MCSysctlTransaction` | `Settled` | the marker is unlinked, the sync after it fails, and the rollback is undone on a host that no marker locks; docs/privileged-helper.md:278 |
| `SysctlCrash`, `MCSysctlProcess` | `FailClosed` | after a crash in the middle of an apply nothing at start-up looks for it, and the next request runs; docs/privileged-helper-vm-verification.md:259 |
| `SystemBusTransition`, `MCSystemBusService` | `TransitionInvalidates` | a session that stops being active invalidates nothing; docs/privileged-helper.md:181 |
| `DesktopGroup`, `MCDesktopSession` | `GroupStopped` | the leader ends of SIGTERM before its descendants, and the request is answered as stopped while they run; docs/privileged-helper.md:249 |
| `DesktopEarlyCancel`, `MCDesktopSession` | `AnswerShown` | a cancellation clicked while the thread connects is refused because the request was answered already, and the user reads an error in place of the answer; docs/privileged-helper.md:235 |
| `SyntheticNamed`, `MCSyntheticExecutor` | `RecoveryNamed` | a failed rollback of a locked host reports its own backup as the required one while the marker names the older |
| `EditorStale`, `MCConfigEditor` | `StaleRefused` | the file changes between the parsing and the fingerprint of a load: the form shows old values with the new revision, and its save goes through; lsmf/config_editor.py:31 |
| `EditorTouched`, `MCConfigEditor` | `OnlyTouched` | a value that a control cannot show is changed by any save of another |
| `EditorError`, `MCConfigEditor` | `ErrorUnwritten` | the file is replaced, its new fingerprint cannot be taken, and the save is answered with an error |
| `SysctlLoad`, `MCSysctlTransaction` | `BackupReported` | a backup that cannot be read back when an apply fails is taken for one that was never made: no restoration, no identifier |
| `SysctlReplyBackup`, `MCSysctlProcess` | `ReplyNamesBackup` | an apply whose end is uncertain is answered without the backup it made |
| `SysctlMarkLost`, `MCSysctlProcess` | `FailClosed` | the marker cannot be written by worker and helper; the next request runs |
| `SysctlReplay`, `MCSysctlProcess` | `ReplayRejected` | served identifiers are forgotten at a restart |
| `SystemBusAuthorization`, `MCSystemBusService` | `AuthorizationRecorded` | a request cancelled after the authorizer's answer is recorded as never authorized |
| `SystemBusAccepted`, `MCSystemBusService` | `AcceptedMeansStopped` | a cancellation accepted when the executor is done is followed by success |
| `SystemBusOversize`, `MCSystemBusService` | `ResultEncoded` | output full of control characters, within its own limit, makes a message beyond the limit of messages: the status is recorded and the sender gets `internal_error`; docs/privileged-helper.md:211 |
| `SystemBusRejection`, `MCSystemBusService` | `RejectionRecorded` | what the boundary refuses has no audit record |

## Not modelled

Left out of what is modelled: the parsing of the manifest and of wire messages
(conditions on the constants, and messages that change nothing); ownership and
mode checks of files, which are errors of the read or write they guard; the
query of logind, a condition on the caller (`seated`); the life of the `pkcheck`
process; cancellation of the helper's own tasks when it shuts down, except in
`SysctlProcess` (`Stop`); times, which only order events; in the settings page the
migration of the former file format, a pure function of the text. A foreign write
between the last look of a save and its rename is overwritten, which no
comparison in user space can exclude: `NoLostUpdate` and `NoBlindOverwrite` are
about what the save could see, and their history `at.looked` says so. `pkcheck` is free to
answer anything at any time. The order in which a connection's identifiers are
retired together is any order; in the code it is that of registration.

Not modelled at all: the encoding and decoding of the wire protocol and its
policies (stateless; which requests and results exist is in `Jobs` and `Results`
of the executors), except that encoding an answer may fail, which happens after
its terminal record and is in `Return`; the mock helper core of the first gate (`privileged_helper.py`),
which only tests start; profiles and the module catalog, which parse and show;
the desktop's pages that show files; the construction of the runtime
(`production_runtime.py`); packaging scripts. Not modelled yet: the Bash program.

## Plan

1. `SysctlBackupStore`, `SysctlTransaction`, and the promise `RecoverableHost` (done)
2. `SysctlTransactionProofs` (done)
3. `SysctlProcess`, which composes the worker with the helper's call (done)
4. `LiveRequestRegistry`, `ProductionDispatcher`, `SystemBusService`, their
   promise `SerialExecution` and `SystemBusServiceProofs` (done)
5. `ReadOnlyProcess`: cancellation against descendants that outlive the leader
   of their group or hold its pipe, and `ReadOnlyProcessProofs` (done)
6. `SyntheticExecutor`, checked against `RecoverableHost`, and
   `SyntheticExecutorProofs` (done)
7. `DesktopSession`, which composes the desktop with service and runner, and
   `ConfigEditor` with `ConfigEditorProofs` (done)
8. the Bash program: backup engine (a backup precedes each change, restore gives
   it back) and the life of a run
9. the policies and the protocol's validity predicates as pure operators,
   checked against the results that the executors build; `production_runtime`
   as the routing of requests to executors; the life of the `pkcheck` process

Theorems worth proving next: that a session's requests, whose identifiers are
drawn at random, are executed once (`ServiceSerial` through `SessionServes`); that
the helper's answers of `SysctlProcess` name the backup of an apply wherever the
code does; the operators of the protocol's validity (step 9).
