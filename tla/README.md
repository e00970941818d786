# RigMate: a TLA+ model of its jobs, files, bridge and add-on

RigMate is a local companion of Blender: an add-on inside Blender talks to a
bridge process, and a job service changes a user's document through a host
adapter in a way that survives crashes and never repeats a mutation. This
directory holds TLA+ modules of the parts with state and a protocol, TLC
configurations that check them on small instances, and proofs for TLAPS.

Source paths below are relative to `src/src/rigmate/`, documents to `src/docs/`.
`PROJECT.json` maps every definition to the lines it models.

## 1. The system

### 1.1 Components

| component | state | operations | modelled in |
|---|---|---|---|
| Job service, `core/job_service.py` | none of its own: a call loads `job.json` into memory, changes it, saves it | `create_job`, `start_inspecting`, `prepare_job`, `start_apply`, `verify_job`, `resume_job`, `request_cancel`, `recover_job` | `JobService` |
| Job status machine, `core/jobs.py` | the status of a job | `validate_transition`, the validator of a loaded job | `JobStatus` |
| Recovery scanner, `core/recovery.py` | none | `scan_and_reconcile`: replay the journal, correct `job.json`, classify, write a receipt for a proved execution | `JobService` |
| Job store, `storage/job_store.py`, `json_io.py` | `job.json`, `events.jsonl`, operation envelopes, receipts | save, load, append, list | `JobService`; the journal as bytes in `Journal` |
| Idempotency registry, `storage/idempotency.py` | one file per key: the operation, its hash, its receipt | `check`, `register` | `JobService` |
| Document lock, `core/lock.py` | one lock file per document: job, pid, time | `acquire` (refresh, reclaim), `release` | `DocumentLock`; as one step in `JobService` |
| Host, `contracts/host.py`, `testing/durable_host.py` | documents with a revision; operation records by id and by key | `prepare_`, `apply_`, `verify_operation`, `query_operation_status`, `inspect_document` | `DurableHost` |
| Checkpoint engine, `storage/checkpoints.py` | blobs named by their SHA-256; a manifest per checkpoint | `create_checkpoint`, `restore_to_copy` | `CheckpointStore` |
| Retention and disk budget, `storage/retention.py`, `disk_budget.py`, `evaluate_retention` | none: the manifests on disk | admit a checkpoint, name those that may go | `Retention` |
| Chat bridge, `bridge/server.py`, `session.py`, history of `storage/manager.py` | sessions in memory, one running task per session, the history file | `/chat`, `/cancel`, `DELETE /history`, restart | `ChatSession` |
| Runtime state file, `storage/runtime_state.py`, `bridge/__main__.py` | address and token of the running bridge | save, load (stale after 12 h), clear | `BridgeDiscovery` |
| Blender add-on, `blender_addon/operators.py`, `client.py` | active session, busy flag, a thread per request; cached token and address; the service shown | Send, Stop, New Session, timer callbacks; Check Connection; manual quota; Diagnose | `ChatSession`, `BridgeDiscovery`, `Quota`, `SceneDiagnosis` |
| Manual quota, `bridge/server.py`, `storage/manager.py` | one JSON file of snapshots for all accounts | `/quota`, `/quota/manual`, sign-out (called by no handler) | `Quota` |
| Scene analysis, `analysis/rig.py`, `blender_addon/bpy_inspectors.py`, `diagnose_rig` of the MCP server | none: it reads the scene | a report and its readiness | `SceneDiagnosis` |
| Project binding, `core/binding.py` | none | `validate_job_binding` | `JobBinding` |
| Retry policy, plans and predicates, executors, localization, UI, helpers | none that a decision of the service depends on | | not modelled |

### 1.2 How they interact

A caller hands an operation envelope to the job service. `start_apply` takes the
document lock, asks the idempotency registry whether the request was executed
before, has the host prepare the operation, checks the checkpoint, and then
writes, in this order: the envelope, the transition to `applying`, the registry
entry, the host's mutation (two reads and three writes of the host's own), the transition to
`verifying`, the receipt, the registry's receipt, two events, the transition to
`completed`. Each transition is an append to the journal and then a save of
`job.json`. `request_cancel` and `resume_job` write the same files without the
lock (`resume_job` takes it only to dispatch again). On startup the scanner
replays each journal and corrects `job.json`.

The add-on sends a message from a daemon thread and learns of the answer by a
timer callback on Blender's main thread. The bridge is one `asyncio` loop; its
handlers interleave only while they await the provider's task.

The add-on finds the bridge through a file the bridge writes when it is constructed,
before it has its port, and removes when it ends, whoever's it is by then. Both the
chat thread and the operators use one client object and assign to its token and its
address, one after the other.

The disk budget and the retention policy are asked by the checkpoint engine; nothing
acts on the retention answer in this repository. Binding validation is called by
nobody in it. Diagnosis and quota touch no job.

### 1.3 What is hard

* a crash between any two of about a dozen writes, of the service or the host;
* an acknowledgement that is lost: the service must learn whether the host
  mutated the document, and mutate it once whatever it learns;
* a retry under a fresh operation id, a resume racing a resume, a cancellation
  racing an apply, each with its own stale copy of `job.json`;
* a lock whose holder died, one refreshed by somebody else, one that has expired, and
  files read and then written with nothing to exclude another process in between, the
  lock file and the host's document among them;
* a journal line that a crash tears, and the append that goes onto it;
* a state file left by a killed bridge, or removed by one that failed to start;
* blobs trusted by their name, shared by checkpoints, and half written;
* files edited between being hashed and being copied;
* answers that arrive after the user stopped waiting, two requests on one
  session, a restart that keeps only the history file.

The list, each at its line with the properties that would catch it, is under
`hazards` in `PROJECT.json`.

### 1.4 What makes each component correct

* Job service: the document carries the change of a request at most once, made only under a
  complete checkpoint and only while `job.json` already says `applying`;
  `completed` and a cached receipt mean that the host confirmed the operation;
  `job.json` is never ahead of its journal; a call that has ended holds no lock; a job
  interrupted while applying, if `job.json` names its operation, is brought out by resuming.
* Status machine: a job moves along `ALLOWED_TRANSITIONS` across crashes.
* Checkpoint engine: a restore that returns is exact; only an interrupted or
  failed copy can spoil a checkpoint.
* Chat: a conversation is never mixed up, duplicated or ahead on disk; no task
  entry outlives its request; the panel does not stay busy.
* Document lock: two processes write at once only after one of three named incidents;
  a dead holder is replaced.
* Journal: a read that succeeds has lost at most the last event; a scan moves a job
  back only after a torn line.
* Discovery: a bridge that runs alone can be found, no token of a finished one is
  published, and checking the connection ends with the right token and address.
* Retention: only surplus is given up, and one clean-up suffices. Quota: an answer is
  the account's own, as far as joined names keep accounts apart. Diagnosis: "ready" means
  that nothing examined is defective, and that the armature was examined unless a modifier
  hides it. Binding: accepted means that no two artefacts disagree in a claim that is
  compared.

## 2. Modules

| module | what it is |
|---|---|
| `JobStatus` | the status graph, used by both `JobLifecycle` and `JobService` |
| `DurableHost` | the host's durable state and its operations, as fragments of actions |
| `JobService` | the service, the scanner and their files, over `DurableHost` |
| `JobLifecycle` | the abstract promise: a job walks the graph, has at most one effect, completes after it was confirmed |
| `JobRefinement` | `JobService` implements `JobLifecycle` |
| `MCJobService` | instances of `JobService` |
| `JobService_proofs` | its types, replayable files, effects at most once, checkpoints before mutations, verification before completion |
| `JobRefinement_proofs` | locks that end with their calls; for a service with no concurrent caller: the write-ahead rule and the refinement |
| `JobLifecycle_proofs` | what the abstract promise implies |
| `CheckpointStore` | the checkpoint engine under an artist who edits, and failures |
| `MCCheckpointStore` | its instance |
| `CheckpointStore_proofs` | type correctness, exact restores under a suffix of one's own, and why a blob may be unsound |
| `ChatSession` | the add-on, the bridge and the history file |
| `ChatSession_proofs` | its types, whole conversations, the file behind the memory, tasks dropped, sessions left |
| `DocumentLock` | the lock file, one file-system call at a time, with deaths and a clock |
| `DocumentLock_proofs` | its types, mutual exclusion up to three incidents, and why a lock is lost |
| `BridgeDiscovery` | bridges, the runtime state file and the add-on's client with its two threads |
| `BridgeDiscovery_proofs` | its types, and what the state file says |
| `Journal` | `events.jsonl` as lines made of pieces, and the scan that reads it |
| `SceneDiagnosis` | an edited character and the two ways to a report about it |
| `Retention` | the disk budget and the retention policy, and a caller acting on them |
| `Quota` | the add-on, the bridge and the snapshot file with its joined keys |
| `JobBinding` | the seven checks over plan, operation, checkpoint and receipt |
| `MCSideBySide` | the last five, each on its own, in one run |
| `SideBySide_proofs` | what is proved about each of the five |

### 2.1 `JobService`

A worker is a process that executes one call. `task[w]` is the call's
continuation: `pc` names the next step, `mem` is the call's copy of the job
record, `op` and `result` its operation and the receipt it holds, `locked`
whether it is inside the `try ... finally` that releases the lock. One action is
one durable write, one access of the host to its files, or one read after which a decision is made;
between any two, other workers run and the worker may crash (`Crash`), which
loses `task[w]` and leaves the files. A function body that reads and writes
nothing another worker can change between two writes is one action.

`_transition_job` is two steps: `Transition` appends to the journal, `SaveJob`
writes the file. `_emit_event` is one, and saves nothing; its caller may. The
three places that spell out verification and completion (`start_apply`, and twice
`resume_job`) write the same things in the same order and share the actions from
`StartVerifying` to `Complete`.

The host may be unavailable at any call and an acknowledgement may be lost after
any write, so every host call also has the branch in which it raises. A receipt
is the operation whose execution it reports; `error` is kept as whether there is
one, `checkpoint_ref` as whether it is set. `verified` is a history variable, the
operations `verify_operation` has confirmed.

`apply_operation` of the stand-in host is five actions, because it uses no lock: `Dispatch`
looks up the key (`testing/durable_host.py:245`), `CheckRevision` reads the document and compares
its revision (262), `HostSavesDocument` writes the changed copy (300), and
`HostRecordsOperation` and `HostRecordsKey` write the two records. `copies[w]` is the document
that worker `w` has read. The document lock does not help two calls of one job, since the
second only refreshes it; so both may pass the check, and the later save replaces the
document of the earlier one. `mutations[o]` belongs to the document's content: how often the document on
disk carries the change of `o`. `AtMostOnce` speaks of that content, as the tests do with
`mutation_count`; it does not say that `apply_operation` saves once. The document's file
is taken to exist (`get_or_create_document` would create it); inspecting, preparing,
querying and verifying only read.

Abstractions: all jobs are about one document, so there is one lock; the
operation's expected revision is the job's (a mismatch is one more early return
of `Preflight`); timestamps, facts, changes, `plan.json`, `recovery.json` and the
`cancel_requested` flag are never read back by a decision and are left out. Here a
journal line is appended whole, `acquire` is one step, and a lock does not grow
old; `Journal` and `DocumentLock` take these apart. `OperationExecutor`, the older
interface beside `HostAdapter`, is not modelled.

### 2.2 `CheckpointStore`

A content stands for its own hash, so blob `h` is sound when it holds `h`.
`shutil.copy2` is two steps, truncation and filling, and the source may be edited
before, between or after them. Hashing a file and looking for its blob are one
step: the hash is of the content at that moment. A restored copy is named by a suffix,
the time in seconds (`storage/checkpoints.py:200`), and `copies` is keyed by it: `StartRestore`
takes any of `Suffixes`, so two restores may share one. The clock allows that within
one second only; here it may happen at any distance, which is more than the code does and
costs `RestoreIsFaithful` nothing, since it speaks of the restores nobody shared a suffix with.
`damaged` and `shared` (the processes whose restore under way was met by another one
under its suffix) are history variables. The artist is external.

### 2.3 `ChatSession`

`thread[r]` is the daemon thread of request `r` and the callback it registers,
`handler[r]` the coroutine that serves it and the outcome of the provider's task.
A handler is one action up to its await (`Accept`) and one after it (`Reply`).
`RequestFails` covers every way a request can end without an answer: no bridge, a
refused token, a dropped connection, the 40 s timeout. `BridgeTimeout` happens
after the client has given up, because 45 s is more than 40 s. `Restart` keeps only
the history file. A request that fails before it is accepted is not accepted
later. The transcript shown in the panel is left out: nothing reads it back. Between setting
`is_busy` and starting the thread, `Send` empties the input box and collects the context
(`blender_addon/operators.py:53`), which tests the type of what it reads; that one of these, or
starting a thread, raises is not modelled. It would leave the panel busy until Stop.
`left` and `late` are history variables: the sessions the user left with New Session, and the
requests that were out when each was left, whose answers may bring it back
(`blender_addon/operators.py:68`).

### 2.4 `DocumentLock`

`pc[p]` is the next file operation of process `p`, `job[p]` the job it calls for and
`seen[p]` what it has read. `acquire` is `Look` (exists, then read), `Decide`
(`_is_pid_alive` and the age, judged on what was read), and `Refresh` or `Write`;
`release` is `Exists`, `Compare`, `Unlink`. A read, write or unlink may be refused. A read
that raises counts as no lock in `acquire` and as one's own in `release`
(`core/lock.py:110`, 136), and `RefreshFails` goes on to write a new lock. `Die` ends a process
and starts another in its place; the pid it leaves is `Dead` and not given out again.
`Tick` lets every lock grow older; an age stops one past the timeout. `incidents` is a
history variable of the three things the protocol does not exclude:

* `raced`: a file was overwritten or removed after it had changed since it was read, or
  could not be read;
* `expired`: a living holder's lock was replaced because of its age;
* `shared`: a lock that names another process was taken for one's own, because it names
  one's own job. `Refresh` puts the old pid back, so the file may go on naming a
  process that is dead, and the next job reclaims it from a living one.

### 2.5 `BridgeDiscovery`

A bridge stands for one run of the program, and its token for the bridge. `Launch` is
the constructor, which publishes the token; `Bind`, `BindFails`, `Stop`, `Cleanup` and
`Kill` are the rest of `main`. `PortTaken` is the operating system. In Blender,
`pc["main"]` runs Check Connection and the short requests, `pc["worker"]` the chat
request; `Load`, `TakeToken` and `TakeAddress` are the three assignments of
`discover_token`, `Headers` and `Post` the rest of a request, whose URL is made before
the token is looked for. `overlapped` is a history variable: the bridges that have run
beside another.

### 2.6 `Journal`

A line of the file is a sequence of pieces, because an append that is cut off leaves a
piece without a newline and the next one is written behind it. A piece is `whole` (at
most the newline is missing), `cut` between characters, or `split` inside one: text is
written as UTF-8 without escapes, and a split character makes the whole file
undecodable. `Emit` and `Save` are the two halves of `_transition_job`; `EmitCut` and
`SaveLost` are the crashes in them; `Scan` replays the journal as the scanner does.
`stage` counts transitions and stands for the status. `acked` is a history variable.

### 2.7 `SceneDiagnosis`, `Retention`, `Quota`, `JobBinding`

* `SceneDiagnosis`: the artist edits one property of a character at a time, so a report is
  always about a scene that was reached. A bone name is the part a side pattern reads at
  the start, a stem, and the part one reads at the end; which patterns a stem contains
  is a table of those the tests and the pattern lists use. What an agent hands to
  `diagnose_rig` is taken to agree with the scene, but for `total_bones`, which is 0 when the agent
  leaves it out (`core/models.py:38`) and then reports an empty armature (`uncounted`). Weights
  reach the analysis through a tool call only. Floating-point tolerances and
  the texts of issues are left out.
* `Retention`: checkpoints are taken while the disk allows, jobs end, manifests get damaged,
  and `CleanUp` deletes what the answer names. `shelf` is a set of manifests whose ids are
  their places in the order of creation; the walk of `calculate_retention` is a recursive
  function, one value for each turn. Blobs shared by checkpoints are counted in each, as the
  code counts them.
* `Quota`: a bridge of one provider or another, a panel that keeps the service it last saw, and
  one file. Handlers do not await between reading and writing it, so each is a step.
  Names are sequences of segments, the text split at its colons, so joining profile, provider and model
  into a key is concatenation, two accounts may have one key, and a sign-out removes by prefix.
  What was typed is the number of its entry. `invalidate_snapshots_for_profile` is called by no handler
  of the repository, only by a test; `SignOut` is the caller it is meant for.
* `JobBinding`: `dossier` holds the fields that come from one other job, those the code never
  compares too. The code's checks are kept in their order, each with the error code it raises.

## 3. What is checked

| run | question | answer |
|---|---|---|
| `JobServiceCrash` | One service, an operation and its retry under the same key with a fresh id, up to two crashes anywhere, all handlers and the scan: safety and the refinement of `JobLifecycle` | holds, 1.7 million states |
| `JobServiceRaces` | Two workers run apply, a retry, resume, cancel and scans on one prepared job, each with stale copies of job and document, one crash | holds, 1.9 million states |
| `JobServiceLive` | Does resuming get a job out of `applying`? | holds, 259,000 states |
| `CheckpointStore` | Two processes, two files being edited, two failures, suffixes shared or not: are restores exact? | holds, 1.7 million states |
| `ChatSession` | Three messages, two sessions, one restart, everything that can be late | holds, 700,000 states |
| `DocumentLock` | Two processes, one of which dies again and again, two jobs, a timeout: when can two be writing, who loses a lock, and is the dead one replaced? | holds, 193,000 states |
| `BridgeDiscovery` | Two bridges on two ports, killed, stopped or refused their port; two client threads: what does the state file say, and does checking the connection help? | holds, 225,000 states |
| `SideBySide` | Torn journals, a character being edited, checkpoints and their retention, quota entries, job binding | holds, 543,000 states |
| `VerifyingStuck` | "If verifying: resumes verification directly." (`core/job_service.py:512`) | violated |
| `JournalSequence` | "Append monotonic event to journal" (`core/job_service.py:80`) | violated |
| `RecoveredJob` | "Completed/Recovered require no unresolved error" (`core/jobs.py:192`) | violated |
| `TornBlob` | "Create a durable, verified checkpoint" (`storage/checkpoints.py:61`) | violated |

The violated ones are disagreements between a text in the repository and its
code; `findings` in `PROJECT.json` tells each story. What they do not break is
as telling: `CompletedIsVerified` and `RegistryOnlyVerified` are proved although the
scanner writes an unverified receipt, because a resume that finds it still asks the
host.

Each property of a passing run has a mutant: a plausible bug in one definition
(an unchecked checkpoint, a call that leaves without its `finally`, an optimistic query, a copy that is
not hashed, a task entry never removed) for which TLC finds the property violated
under the same configuration. The faulty variants stand before the
definitions they vary, marked as such, and are used nowhere.

### 3.1 Properties of several steps

* `MutationHasCheckpoint`, `CompletedIsVerified`, `RegistryOnlyVerified`: what
  the files claim is backed by what happened, for all interleavings and crashes.
* `AtMostOnce`: the document carries the change of a request once, over lost acknowledgements,
  redispatch and retries. It is the host's revision check that carries it when
  the host died between the document and its records, and the copy being as old as the
  check when two calls both pass it.
* `LockHasHolder`: a lock that names a live process is held by a call of that process on that job,
  with two workers, a refresh by the other one and a crash in between: no return and no
  exception of `start_apply` and `resume_job` leaves a lock behind. That a lock left by a
  dead process does not block is `DeadHolderIsReplaced`.
* `ResumeResolvesApplying`: resuming resolves a job left in flight whose `job.json` names its
  operation. A scan can also bring a job back to `applying` from its journal when the crash came before
  `job.json` was saved; such a job has no `current_operation_id` and no resume moves it.
* `JobFileReplayable`: some prefix of the journal explains `job.json`.
* `MutatesOnlyWhileApplying` and `ImplementsLifecycle`: write-ahead order, and
  the status graph across crashes. They are about one service with no concurrent
  caller; with two workers a stale save may put an older status back.
* `RestoreIsFaithful`, `UnsoundBlobIsDamaged`: see above. Only a restore that shared its
  suffix may find its copies overwritten before it returns.
* `FileBehindMemory`, `ConversationIsWhole`, `NoTaskLeftBehind`, `BusyEnds`.
* `LeftSessionStaysLeft`: a session the user left becomes the active one again only through an
  answer that was out when it was left, whatever restarts and cleared histories do to the ids.
* `SingleWriterUnlessIncident`: `core/lock.py:3` promises a single writer; this is as far
  as the code keeps it. The three incidents are each reachable, and without them
  no number of deaths, refused writes and ticks lets two processes past `acquire`.
  `LockLostForAReason` says the same of one step: who may take a lock from a living
  holder. `DeadHolderIsReplaced` is the other side: caution does not block for ever.
* `LoneBridgeIsPublished`, `NoTokenOfAFinishedBridge`: a bridge whose run overlaps no
  other's is found, whatever was left behind. With an overlap it need not be.
  `CheckingReconnects`: the two threads may mix the token of one run with the address of
  another, and a repeated check still ends with a matching pair.
* `ReadLosesAtMostTheLast`, `StatusMovesForward`: what a torn line can cost.
* `OnlySurplusGoes`, `OneCleanUpSuffices`: a greedy walk that skips what does not fit has
  a fixed point, and never gives up a checkpoint it had room for.
* `AnswerIsTheAccounts`: one file for all accounts keeps those apart whose names have no colon,
  whatever accounts with colons are stored beside them. Two things take such an entry away: a spoilt
  file, and the sign-out of its own profile or of a profile named like the profile and the provider
  with a colon between (`TakenBy`).
* `ReadyMeansNoDefect`, `WholeHandIsComplete`: the report, against the scene and an
  animator's reading of the names. The first says what is wrong of the scene alone; a mesh whose
  first armature modifier has no target is the one exception, and it has a name
  (`Misleading`).
* `AcceptedIsConsistent`: seven checks, against pairwise agreement of all claims the artefacts and
  the job make, compared or not. `NeverCompared` lists the claims through which a disagreement gets by.

### 3.2 Bounds, and why they are enough

`MaxEvents` stops calls from starting on a long journal. Eight events reach
creation, inspection, preparation, an apply that is interrupted, a resume and a
retry after it. `MaxResumeEvents` is out of reach (20) in the runs about liveness,
where a bound on resume would itself stop the job from being resolved. Two crashes
reach a crash during the recovery from a crash. `JobServiceRaces`
starts from `PreparedInit`, the state after create, inspect and prepare of the job,
so the state space is spent on the contention; its workers share one job, which is what the
document lock lets in twice. Two operations under one key are the least for a retry. In `CheckpointStore`
two contents make an edit visible and reversible, two files an incomplete manifest,
two faults a failure after a failure, and two suffixes restores that share one and restores that do
not. In `ChatSession` three requests overlap on
one session while a second one exists; one restart loses memory once.

`DocumentLock` and `BridgeDiscovery` count nothing: their state spaces are finite and
complete. Two processes and two jobs are the least for each of the three incidents
(one process mortal, so that somebody stays to replace the dead), and one tick of
timeout is one state of a lock that is neither new nor expired. Two bridges and two addresses reach a
contended port, a state file overwritten and removed by the other, and a token with the
wrong address. A bridge is one run, so it is not launched twice.

In `SideBySide` five appends with three cuts reach a torn line in the middle, a merged one
and a torn one again; two edits a defect that hides another; four checkpoints of two sizes
on a disk with room for three large ones reach each bound of the policy (three checkpoints,
six bytes) and a refusal of the budget; two entries overwrite or stand beside each other, and the accounts hold two with one key and a
profile that is another one's prefix (`MCProfiles`, `MCNamed`);
three foreign fields a disagreement between two artefacts which the job does not see. The
five modules share nothing and a behaviour moves only one of them, so the state
space is the sum of theirs. Each machine stops at its bound, which is why deadlock is not
checked there. The vertex counts are the two sides of the comparison with 45000, and none.

Symmetry is used in two runs that check invariants only: over workers in
`JobServiceRaces`, and in `CheckpointStore` over the sets `MCCheckpointStore` names.

The fake host names revisions by alternating two names, so a revision may
come back; `FakeNextRevision` does the same.

### 3.3 Fairness, and why the code justifies it

* `Progress`: a running process takes its next step. Calls are synchronous and
  `acquire` does not wait: it raises.
* `HostAnswers`: of repeated attempts to inspect the document and dispatch again,
  not all fail. A host that is down for ever cannot be recovered from.
* `KeepsResuming`: somebody calls `resume_job` again. The code has no scheduler of
  its own; the liveness property says that resuming is enough. No scan is
  assumed, and no fairness between the answers of a query: "unknown" for ever leads
  to `recovery_required`, which also resolves `applying`.
* `ChatSession`: a request thread ends (its socket has a timeout of 40 s), and
  Blender runs the timers registered with it. Nothing is assumed of the bridge.
* `FairSpec` of `DocumentLock`: a process that does not die takes its next step and, when its
  call has ended, calls again; of its repeated attempts to write or unlink the file, not all
  are refused (strong fairness, since a process may have to come back to them). Nothing is
  assumed of the clock, of reads, or of a process that may die, so a dead holder is
  replaced because it is dead. The code does not
  retry by itself: a caller that got `LOCK_CONFLICT` and never asks again gets nothing.
* `CheckingSpec` of `BridgeDiscovery`: both threads run on, the user chats and keeps pressing
  Check Connection (strong fairness: the main thread is busy in between). Nothing is
  assumed of the bridges; the property is about those that stay up under a fresh file.

## 4. What is proved

All theorems are about every value of the constants: any number of jobs, workers,
operations, keys and revisions, any files and contents, and any bounds. The
assumptions are the ones named in the modules (`HostAssumption`,
`JobAssumption`, `StoreAssumption`, `LockAssumption`, `DiscoveryAssumption`, `ChatAssumption`,
`JournalAssumption`, `QuotaAssumption`, `RetentionAssumption`): the special values differ from the ordinary
ones, the parameter functions have their domains and ranges, sizes and bounds are numbers, and
the request hash covers the expected revision. TLC checks each of them on the instances. Three more,
hypotheses of the theorems that need them, are about what the code relies on:

* `RevisionsNotReused` (`DurableHost`): once an operation has been executed, no further mutation
  leads back to a revision that a request under its key expects. It is what makes the
  comparison with `expected_revision` a guard against a second execution
  (an operation "increments the document revision", `docs/DECISIONS.md:248`). The stand-in host keeps to
  it for requests on its initial revision, to which it never returns: `FirstRevisionIsNotReused`. After its
  first mutation it alternates between two revisions (`testing/durable_host.py:275`), and of a request on
  one of those the theorem says nothing: it could be executed twice.
* `OneWorker` (`JobRefinement`): no call runs beside another. `job.json` has no lock, so two calls
  on one job save over each other's statuses, and neither the write-ahead rule nor
  the refinement holds of them; `JobServiceRaces` checks what does hold.
* `KeysOfOneJob` (`JobRefinement`): an idempotency key belongs to one job. The hash that detects a
  misused key (`contracts/hashing.py:19`) covers document, tool, targets, revision and arguments but not the job,
  so a second job under the key of the first could be answered from the registry and complete
  without an effect of its own.

The first is the hypothesis of `RequestTakesEffectOnce`, the other two of `WriteAhead` and
`ServiceImplementsLifecycle`. The instances those properties are checked on satisfy them: the
requests of `AtMostOnce` expect the initial revision.

**`TypeCorrect`** (`JobService_proofs`). `TypeOK` is not inductive: a handler that
appends reads the end of the journal, and a step that uses an operation must have
one. `TInv` adds that a task past its first step has a job (`WellFormed`), that the
labels which read an operation have one, and that every job which is on disk, listed
or being worked on has a journal (`Journaled`). `Heading` looks through the pending
save of a transition to the step that follows it.

**`CheckpointBeforeMutation`, `CompletionIsVerified`, `RegistryIsVerified`**
(`JobService_proofs`). The idea is that evidence only grows: checkpoints, confirmed
operations and receipts are never taken back, so what a call had evidence for
remains true whatever other workers do (`Grows`, `EvidenceGrows`). `EInv` says that
every copy of a job, on disk, in a listing or in a worker's memory, is backed by
evidence (`Backed`), that a task at a label behind a guard still satisfies the guard
(`Evidence`), and that a journal says completed only with a confirmation. That is why
stale copies do no harm here: a stale copy is as true as it was when it was read.

**`JobFileIsReplayable`** (`JobService_proofs`). `job.json` is never ahead of its journal, with any
number of workers. A worker may save a copy after others have appended, so `RInv` says of
each copy about to be saved or found by a listing that *some* prefix of the journal replays to
it (`Replayable`); journals only grow, so that stays true however late it is saved.

**`RequestTakesEffectOnce`** (`JobService_proofs`), for any number of workers, each access of the host to
its files a step of its own. The records the host keeps do not suffice: it may
die after the mutation and before either of them, and another call may look for them too early.
What remains is the revision, and that a copy is saved with the content it was read with. `MInv`
says of the document on disk and of every copy in a worker's memory that its content has each request once (`Once`), and
that its revision lies in every set of revisions that contains the one a change in it produced and is
closed under mutation (`Futures`, `Spent`); by `RevisionsNotReused` one of them lacks the revision that a second
request under the key would have to find. So a copy whose revision matches does not carry the change yet,
however many calls save such copies over each other.

**`LocksAreHeld`** (`JobRefinement_proofs`), for any number of workers. The invariant `LInv` adds to `LockHasHolder`
that a process between calls or scanning is not inside the `try`; each action then either stays
inside it, or goes to the `finally` clause, which is where the lock is released.

**`WriteAhead`, `ServiceImplementsLifecycle`** (`JobRefinement_proofs`), for a service with no concurrent
caller, any jobs, operations and number of crashes. Two invariants carry both. `XInv` says that what
is recorded as executed was: the host's records, the registry, the receipts and what a
task holds as its result name an execution under the same key. `SInv` relates memory, file and journal through a crash at
any point: `job.json` is at most one transition behind the task that is working on it (`TasksInStep`) and
behind its journal, if that is contiguous (`FilesInStep`); a crash followed by another event breaks the
sequence for good, and a scan repeats no other journal, so what it lists moves by that one
transition (`ListingsInStep`). An effect belongs to the operation `job.json` names (`EffectsOwned`). The refinement then has one lemma for the steps that save a job
(a step of the graph, with its proof of effect and confirmation), one for the mutation, one for
the confirmation, and stutters otherwise.

**`OutcomeHolds`** (`JobLifecycle_proofs`). The abstract promise implies that a job
cancelled before it was applied has no effect and a completed one exactly one,
confirmed.

**`StoreTypeCorrect`, `RestoreFaithful`, `DamageExplained`** (`CheckpointStore_proofs`).
The invariant `SInv` has three strands. Checkpoints under construction have one owner
each, so a complete manifest never changes and a restore's entries are the manifest's
(`OwnsManifest`, `OwnersDiffer`, `ReadsManifest`). A restored file was compared with
its entry after the last write to it (`DoneIsVerified`), and it stays what it was because two restores
nobody marked as shared write under different suffixes (`SuffixesApart`). And a blob, an entry in
progress or a complete manifest whose hash is not what is stored is explained by
damage or by a copy under way (`BlobsExplained`, `EntriesExplained`,
`ManifestsExplained`); an existing blob is trusted, so the explanation has to travel
with the name.

**`LockTypeCorrect`, `SingleWriterButForIncidents`** (`DocumentLock_proofs`), for any processes,
jobs and timeout. Mutual exclusion alone is not inductive: the invariant `Guarded` says that
while there has been no incident, every process from the write of `acquire` to the
unlink of `release` is the one the file names (`Owning(p) => Holds(p)`), and two cannot
both be. For a step of another process to keep that, its judgement has to be still true
when it acts on it: `Judged` says that what was read as stale stays stale (a dead pid
stays dead, an age only grows: `OlderFact`, `BuriedFact`) and that what is to be refreshed
or removed names the process's own job.

**`LossHasAReason`** (`DocumentLock_proofs`). The same judgements, read the other way: a step that changes the file
under a holder was taken by another process, and either it believes the file is its own job's, or
what it has read is no longer what is there, or the lock had expired.

**`DiscoveryTypeCorrect`, `LoneBridgeFound`, `FinishedBridgeForgotten`** (`BridgeDiscovery_proofs`),
for any bridges and addresses. `LoneBridgeIsPublished` speaks of a serving bridge; the invariant needs it
from the constructor to the `finally` clause (`LoneBridgeKeepsFile`), and needs that of two
bridges running at once both are marked (`OverlapsAreMarked`), so that a lone one
has nobody beside it whose `Cleanup` could remove its file.

**`ChatTypeCorrect`, `FileStaysBehind`, `ConversationStaysWhole`, `TasksAreDropped`** (`ChatSession_proofs`),
for any sessions, requests and restarts. The invariant `CInv` adds two things to the
properties. The question of a request under way is in memory (`QuestionsKept`), so that its answer
follows its question. And the file must be whole too (`AnswersWhole`), not only a beginning of the
memory: after a restart it becomes the memory, and the requests whose answers it
holds are long over (`HandlersOK` keeps what has become of them).

**`LeftStaysLeft`** (`ChatSession_proofs`). The panel takes its session from whatever answer
comes last, so the invariant `LeftInv` has to speak of the answers on their way. Every session that
the panel or a request names, or that was left, is one the bridge has used (`SidsAreUsed`), so
a fresh id was never left; and a request that was not out when a session was left neither
names it nor waits for a handler that does (`LeftIsApart`).

**`JournalTypeCorrect`, `ReadsLoseLittle`, `StatusOnlyForward`** (`SideBySide_proofs`), for any number of events and
of appends cut off, on a line as often as one likes. The k-th line of the file ends with the k-th event
acknowledged (`Acknowledged`), so a line is read as its event or, if something was cut off before it on that line,
not at all; only the last line may end in a piece nobody was told of. `StatusBehind` says that while no
line is spoilt, the journal is as far as the job; an append in progress has not been
saved (`CallInProgress`).

**`AnswersAreTheAccounts`** (`SideBySide_proofs`), for any profiles and accounts, with colons in their
names or not. `QuotaInv` says that under the key of every account without a colon the file reads as that account's newest entry,
unless it has been signed out or spoilt (`Standing`). That takes two facts about joined names: a key of three segments
is the key of one account only (`KeyOfThree`, `PlainKeys`), and just two profiles are a prefix of
it (`PlainTaken`). Nothing is claimed of accounts with colons, which may share a key.

**`SurplusGoesOnly`, `OneCleanUpIsEnough`** (`SideBySide_proofs`), for any policy and any number of checkpoints.
These are about what a loop computes, so the proof goes along the loop. The induction theorems of the
library take an operator, which the provers cannot instantiate; `UpTo` is an induction over a
*set* of numbers instead, from the library's theorem that the order of the naturals is well-founded
(`LeastNumber`). With it, `Recursion` shows that the recursive functions of the
module exist, `OneMore` that one more checkpoint adds its own bytes and no others, and the lemmas on
`Walk` that nothing retained is given up later (`WalkGrows`), that what is retained was admitted in its
own turn (`InItsTurn`), and that each turn which admits something leaves both bounds met
(`WalkKeepsBounds`). Retaining twice is retaining once (`RetainingTwice`) because the second
walk admits at each turn what the first did. The invariant of the machine, `RetentionInv`, is
short: an answer is still what the shelf would get if asked now, after a clean-up too.

**`AcceptedMeansConsistent`** (`SideBySide_proofs`). The seven checks compare fields in pairs, the property
speaks of any two claims. The proof goes through `Fits`: each artefact's own fields are the ones a
check looks at, whichever other artefacts are given, and any two claims about
the same thing meet in one of them, unless one of the two is never compared. `NeverCompared` is part of the
statement: that the plan presented is another plan of the same job is accepted
(`plan.plan_id` is compared neither with `job.plan_ref` nor with `operation.prepared_plan_ref`), and so is a plan that
lists operations of another job, or an operation other than the job's `current_operation_id`.

**`ReadyIsNoDefect`, `WholeHandsAreComplete`** (`SideBySide_proofs`), for any vertices, modifiers and bones. An
edit takes the report with it, so the invariant only says that a report is the one `analyze` makes of the
scene as it is. What has to be shown is that each issue that blocks stands for one defect, that every
finger an animator would read in a name is found whatever else the patterns find there, and that
a name marked for one side only is put on that side although the left is tried first. A defect is
said of the scene: no modifier has the armature for a target, or the armature that one has is
defective. That the report misses this only if the first armature modifier has no target is `FirstOfStack`. The
proof showed that `SideNamed` had been written as a `CASE` whose guards overlap, which TLA+
leaves undetermined and TLC evaluates in order; it is an IF now.

### Only model-checked

* Liveness: `ResumeResolvesApplying`, `BusyEnds`, `DeadHolderIsReplaced` and
  `CheckingReconnects`. Fairness and `ENABLED` are out of the prover's reach.
* The four properties of the runs that expect a violation are false, and have counterexamples
  instead of proofs.

Every other property of the runs is a theorem. No module uses a `RECURSIVE` operator.

## 5. Not modelled, and why

* The legacy executor branches of `start_apply` and `resume_job` and `core/executors.py`: a
  different order of the same writes; an option of `JobService` that is still to come.
* Plans and predicates (`core/plans.py`): the plan is stored and handed to nobody, and no
  code evaluates its predicates.
* Retry delays (`core/retry.py`) and the quota label helpers: called by nothing with state.
* `core/project.py`, the MCP tools other than `diagnose_rig`, `GET /history` and the export:
  they hand back what they read. Localization and the panels have no protocol.
* Path safety, redaction, identifiers, time and schema versions: string helpers.

### 5.1 Observed while modelling

None of these has a run of its own; each follows from the definitions named.

* `core/lock.py:3` promises single writers. A refresh by the same job keeps the old pid
  (`Refresh`): after the first holder dies, a second process of that job works under a dead pid,
  and another job reclaims the lock beside it. This is the incident `shared`.
* The scan writes a completed receipt without a verification (`core/recovery.py:192`), where
  `ARCHITECTURE.md:174` wants one; every reader of it asks the host again.
* New Session gives up no request (`blender_addon/operators.py:131`), and its button is there while one
  is out: the late answer makes the session that was left the active one again (`Callback`) and adds
  its text to the emptied panel. `docs/DECISIONS.md:48` has New Session reset the active session.
* `storage/checkpoints.py:212` speaks of a non-destructive destination, but the suffix has seconds only
  and a copy that is there is written over (`StartRestore`, `TruncateCopy`): of two checkpoints with
  the same file restored in one second, the second takes the place of the first, whose job
  has recorded the path as its restored copy.
* Stop on the first message of a session sends nothing, since the id is not known yet
  (`blender_addon/operators.py:117`, `DECISIONS.md:45`).
* The client reads the token again only when it has none or checks the connection: a user
  who only chats keeps an old token for ever. The pid in the state file is not looked at
  (compare `DECISIONS.md:12`).
* `storage/json_io.py:6` speaks of a torn final line that is tolerated; if the cut is
  inside a character, no line of the journal can be read. An event appended onto a torn line
  may be dropped, and the scan then takes the job back to the status before it
  (`ARCHITECTURE.md:101`). One unreadable journal ends the scan for all jobs.
* `evaluate_retention` passes `is_newest_pre_mutation=False` for every checkpoint, so the rule
  that protects the newest one never applies; a large newer checkpoint may go while a
  smaller older one stays; bytes of blobs that checkpoints share are counted in each.
* The dialog stores an entry under the model the panel shows, and before the first connection check
  that is one no bridge has: the entry is never read. A damaged snapshot file is replaced by
  the next entry alone.
* "Prevents cross-account contamination" (`storage/manager.py:97`): the key joins free names with colons, so accounts
  "a" of provider "b:c" and "a:b" of provider "c" have one entry, and signing out "a" removes the
  entries of "a:b". No name in the repository has a colon in it.
* Two calls of one job, each past the lock by a refresh, may both pass the host's revision check
  and both save the document: the later save replaces the earlier one with a document read at the same revision
  (`testing/durable_host.py:262`). The content stays one change; a change of another request under
  a key of its own would be lost.
* An armature modifier without a target hides the armature from the panel's report, which
  may still say ready; a report about a camera is ready and empty; weights are never read
  from Blender. "ngon_ap_ut" counts for two fingers, "control" for one; a name such as
  "little.L.001" loses its side.
* Nothing in the service calls `validate_job_binding`, and it compares the plan's id, the operations a
  plan lists and the job's current operation with nothing.

## 6. Plan

The order is by what would hurt most if it were wrong.

1. Done: the job service over its host, with types and evidence proved; the checkpoint store
   and the chat; the document lock and the bridge's discovery, with proofs; the journal,
   retention, quota, diagnosis and binding.
2. Done: every safety and action property of the runs is a theorem, and so is the refinement,
   for one worker.
3. The legacy executor in `JobService`, chosen by a constant.
4. Predicates and retry delays, against reference definitions, if they come to be used.

## 7. Running

    tlc -workers 2 -config JobServiceCrash.cfg MCJobService.tla
    tlapm JobService_proofs.tla

`runs` in `PROJECT.json` names the module of each configuration.
