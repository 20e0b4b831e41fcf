# Batch Fabric: TLA+ models, checks and proofs

Batch Fabric admits inference requests, groups compatible ones into batches, seals, merges,
splits and dispatches the batches, and applies the outcomes that workers report. This directory
models the scheduler, the recovery of its state, the bytes of its state file, the coordinator with
its worker processes, the wire protocol and its transport, and the compatibility key.

Paths are relative to the repository. Run a check with
`tlc -workers 2 -config <run>.cfg <module>` and the proofs of a module with
`tlapm <module>.tla`, for each of the eight modules whose name ends in `Proofs`.

## 1. The system

| Component | State | Operations that change it |
|---|---|---|
| Scheduler, `src/scheduler.cpp` | requests, attempts, batches, waiting index, forming batch per key, order of sealed batches, workers, epoch, id counters | `submit`, `cancel`, `tick`, `expire`, `seal`, `split`, `merge`, `retry`, `complete`, `prepare_dispatch`, `dispatch_and_run`, `register_worker`, `roll_epoch` |
| Policy, `include/batch_fabric/policy.hpp` | none (configuration) | budget and deadline tests |
| Batch former, `src/formation.cpp` | none | seal or wait |
| Fairness, `src/fairness.cpp` | served and outstanding work per tenant | charge at submission and placement, release at completion |
| Compatibility, `src/identity.cpp`, `src/compatibility.cpp` | the index's buckets | key, pairwise decision, add, remove |
| Persistence, `src/persistence.cpp` and the two conversions in the scheduler | the state file | `persist_to`, `recover_from` |
| Coordinator, `app/coordinator.cpp` | map from worker ids to connections | one thread per connection: register, dispatch, report, disconnect, cancel, roll epoch |
| Worker, `app/worker.cpp` | its inbox | connect, execute, report, die |
| Clock | monotonic time | advances |
| Transport, `src/transport.cpp` | a connection, the bytes in flight | `bind`, `connect`, `accept`, `send`, `recv`, `close` |
| Protocol, `src/protocol.cpp`, byte I/O, `include/batch_fabric/io.hpp` | none | ten encoders and decoders |
| Executors, hashing, events, statistics, snapshots, explanations, CLI | none of the above | see section 7 |

**Interaction.** The embedding program, or the threads of the coordinator, call the scheduler's
public methods; each takes one mutex for its whole body. The coordinator keeps a second mutex
around its worker map and never holds both. Workers report over the TCP connection their
executions came by. Events are emitted after the mutex is released and nothing reads them back.

**What is hard here.** Reports that arrive late, twice or for an attempt that was meanwhile
cancelled or retried; worker restarts and epoch rolls between dispatch and report; merges and
splits that move members between batches while three indexes must follow; deadlines and wait
limits at their boundary; charging that must match live work; a crash between two methods and the
rebuilding of indexes; the gaps between the coordinator's two locks; methods that act on a time
read before they got the mutex; frames cut at any byte and threads that share a connection; saves
that stop half way. `PROJECT.json` lists these as hazards, at their lines, with the properties that watch them.

**What makes each part correct.** *Scheduler:* a request is in one place at a time, its recorded
outcomes are final, its attempts are bounded and executed once, reports count only under the
authority they were handed out with, batches stay compatible and in budget. *Former and fairness:*
nothing waits forever, ticks meet their limits, charged work
covers live work. *Recovery:* what was saved can be loaded and the rebuilt indexes agree with the
records. *Coordinator:* it uses the scheduler as specified, sends executions to the process they
were authorised for, always answers the driver, and completes fresh work. *Transport and protocol:*
what is received is what was sent, whole, in order and field by field, or nothing. *State file:* a
save replaces the file as a whole or leaves it alone, and a load gives what was saved or an error.

## 2. Modules

| Module | Models | Composition |
|---|---|---|
| `Policy` | constants and pure decisions: `AllowsAdd`, `WaitLimits`, `DecideSeal`, `IsNext`, ... | |
| `Scheduler` | `BatchFabric::Impl`: state, every public method, properties | extends `Policy` |
| `RequestLife` | abstract: what a client may rely on about its request | implemented by `Scheduler` |
| `Recovery` | the saved records, crash and restart | extends `Scheduler` |
| `ControlPlane` | coordinator threads and worker processes | extends `Scheduler`, implements it |
| `Compatibility` | key, decision, index | stands alone |
| `ByteIO` | `ByteWriter`, `ByteReader` | |
| `Protocol` | encoders and decoders of the messages | extends `ByteIO` |
| `Channel` | frames over a stream socket, whatever is in them | |
| `Transport` | the frames of the messages on the channel | extends `Channel`, `Protocol` |
| `AtomicFile` | abstract: a file that is replaced as a whole | implemented by `StateFile` |
| `StateFile` | `PersistenceStore`: bytes, temporary file, rename, load | extends `ByteIO` |
| `SchedulerProofs` | proofs: types, ledger of attempts, retries, final outcomes | extends `Scheduler` |
| `BatchProofs` | proofs: books of the batches, compatibility, lineage, no request lost, authority of reports, count | extends `SchedulerProofs` |
| `PlacementProofs` | proofs: one batch per request, index, states of members, executions; `Scheduler` implements `RequestLife`; what a split breaks: batch field, lists, generations, deadlines of ticks | extends `BatchProofs` |
| `WorkProofs` | proofs: sums over finite sets, budget of work, charges of tenants | extends `PlacementProofs` |
| `ControlPlaneProofs` | proofs: the coordinator's own invariants, its refinement and what carries over | extends `ControlPlane` and the above |
| `RecoveryProofs` | proofs: what was saved is accepted, and what holds across crashes and restarts | extends `Recovery`, `PlacementProofs` |
| `CompatibilityProofs` | proofs: the key tells descriptors apart, the index and the decision follow | extends `Compatibility` |
| `ChannelProofs` | proofs: frames come out whole, in order and once | extends `Channel` |
| `MC...` | offered requests and descriptors for TLC | extend the above |

### Scheduler

One action per method, or, where the body loops over requests, keys or batches, one per iteration.
The variable `op` holds the local variables of the method that has the mutex: `op.pc` is its phase
(`expire`, `evict`, `make`, `fillnew`, `form`, `fill`, `merge`, `split` for a tick; `complete`; `fail`), and
every other method requires `Unlocked`. A tick is `Tick`, `ExpireWaiting`, `EvictMember`*,
`EvictDone`, (`MakeForming`, `Place`*, `FillNewDone`)*, `MakeDone`, (`FormNext`, `Place`*, `FillDone`)*,
`FormDone`, `MergePair`*, `MergeDone`, `SplitStep`*, `TickDone`, in the order of `do_tick`; `Retry` runs
one too, as `do_retry` does. Where the code walks a hash map the model takes the keys in any order.
`complete` is split per member, so the reader sees that what remains to be applied in the middle of
a report is still open (it is: `OpenAttempts`).

Abstractions: the work of a request stands for its four amounts (tokens in and out, work, memory),
which the code treats alike; (request, attempt number) stands for the attempt id; the waiting index
is the number of times a request is in the bucket of its key; payloads, reasons, time stamps other
than those read again, statistics other than `batches_merged`, and events are left out. The phase
of a request is part of its key. `FillDone` joins the fill and the seal loop of one batch, which no
other step can separate.

A method reads the clock before it takes the mutex, so one that had to wait acts on a time older
than that of the method it follows. `EnterLate` sets `clock`, the time the next method acts on, back
by at most `Lag`.

`RequestLife` is the promise behind all this, without batches: a request is queued, placed, committed
and issued, one phase after the other; its attempt ends with one outcome; out of an execution that
failed it may be queued again with a fresh attempt, within the limit; an ended request stays ended.
`LivesAsSpecified` says that `Scheduler` implements it, with the states of a request as phases
(`PhaseOf`) and its attempts as the ledger. A step moves any number of requests, as a seal does.

Inputs the model does not offer: `retry` of a request that is `reserved` (it would be queued while
a member of a forming batch) or unknown; `merge` of a batch with itself; completions that name
members or a worker other than those of an execution that was handed out.

### Recovery

`PersistTo` writes `Image`, what `build_persisted` copies. `Restart` is a crash at any moment,
inside a method too, and a new process that loads the file; `RestartEmpty` is the command line
tool's start without an acceptable file. The file is replaced as a whole, which `StateFile` shows to be
right where saves are durable. `Accepts` keeps the checks of `parse` on the records. It also keeps the order in
which fields are read: `save` writes the number of parents, the parents, the number of children and
the children; `parse` reads both numbers first. A file whose batch has parents is therefore read out
of step (`Aligned`, `ReadLineage`), and the checks on what is read refuse it.

### ControlPlane

`slot` is the coordinator's map, `conn` a worker process with the thread of its connection, `driver`
the thread of the submitting driver. Every gap between two critical sections is a step boundary:
registering is `MapWorker` then `EnrolWorker`; dispatching is `DriverPick`, `DriverFind`,
`DriverPrepare` or `DriverRefused`, `DriverSend`. A process dies at any time (`WorkerCrash`), a prefix
of what it sent still arrives, and a process with a higher boot id may take its place, before the
old thread notices (`Disconnect`). Sending to a connection that has ended, or was freed, loses the
message. One driver submits; others cancel and roll the epoch. Status queries, shutdown and
completions sent by a driver are left out.

### ByteIO, Protocol, Channel and Transport

A *layout* is what one function writes or reads, field by field: `write_desc` and `read_desc` are two
layouts, each taken from its own function, and `Put` and `Get` are what the two classes make of a
layout. A `Get` that runs past the end, or meets a value its reader refuses, fails for good.

`Channel` is one direction of a connection, for any set of frames (`Message`, `FrameOf`); `Transport` gives it the
frames of the protocol's messages (`WireFrames`). `Send` puts the frame together and makes the first call
of `::send`; `SendSome` and `ReceiveSome` are further calls, each of which moves as many bytes as it
likes. `CloseSender` ends the connection after any byte in flight. The threads of the coordinator
that share a worker's connection send without a lock; `mixed` records that one has begun a frame
inside the frame of another, which a short `::send` makes possible. A frame above the limit is
refused and its caller goes on (`Refuse`). Socket errors before a connection exists leave it unmade,
which is the absence of `Bind` or `Connect`.

`ControlPlane` takes a connection as an ordered channel of whole messages of which a prefix arrives.
`FramesInOrder` and `MessagesDecoded` justify that where frames are not mixed and messages are within
the decoder's limits.

### AtomicFile and StateFile

`Save` is the byte string of the records with its checksum, `Parse` every check of `load` and `parse`
in their order. A file is named by the image being written and by how much of it is there. `OpenTemp`,
`WriteSome`, `Rename` are `save`; `AbandonSave` is a failed write, flush or rename or a dead process,
and leaves the temporary file behind. `flushed` tells the two builds apart: the Windows build forces
the bytes to the disk and checks that it did; the other one ignores the result of its flush, so it may
rename a short file, and does not force anything, so power loss may cut the file (`PowerLoss`).
`AtomicReplace` says that `StateFile` implements `AtomicFile`, where only a file that is not durable may
be torn, and a torn one is refused. `ReadingOf` says independently of the bytes, in terms of records,
what a load makes of a file, misread lineage included.

### Compatibility

`Build` is the byte stream that `CompatibilityKey::build` hashes, with fixed-width numbers as single
elements, without the constant version byte, and SHA-256 taken to be injective. It justifies that `Scheduler`
takes keys as given. `IndexExact` says of a bucket what the code and the comments agree on: equal descriptors
share one, and requests of one bucket agree in every dimension (`SameDimensions`), their extensions as a
bag. Whether the same extensions in another order give the same key is left open; section 6 says why.

## 3. Runs

| Run | Distinct states | What it shows |
|---|---|---|
| `lifecycle` | 548 222 | Two requests, two boots, two epochs, merging and retries on: `TypeOK`, index, one live batch per request, member states, batch field, lineage, orphan-free lists, unique generations, attempts executed once, charges cover live work; `ReportAuthority` and `AttemptFinal` as action properties; `LivesAsSpecified`, the refinement. |
| `budget` | 540 534 | Four requests of two tenants and two keys, an outstanding cap, client and policy merges: `BatchCompatible`, `BudgetKept`. |
| `split` | 164 623 | Three requests, client splits and splits for workers of size 1 and 2: `OneActiveBatch`, `NoRequestLost`, `MemberStates`. |
| `latency` | 40 147 | Deadlines, methods that act on older times and a contribution limit, `FairSpec`: `TickMeetsDeadlines`, `NeverWaitsForever`, `QueueDrains`. |
| `retry` | 427 618 | One request, all seven statuses, failing runs, explicit retries: `AttemptInv`, `AttemptsBounded`. |
| `recovery` | 119 328 | One restart at any moment, `RecoveryFairSpec`: `OwnFileAccepted`, `IndexCoherent`, `MemberStates`, `NeverWaitsForever`. |
| `control` | 103 398 | Two connections, two boots, two epochs, `ControlFairSpec`: `ControlInv`, `ExecutionAddressed`, `ImplementsScheduler`, `DriverAnswered`, `FreshWorkCompletes`. |
| `compatibility` | 306 085 | All pairs of descriptors at most two fields away from a plain one, the same extensions in two orders and repeated among them: `IndexExact`, `DecisionAgrees`. |
| `wire` | 70 610 | Seven conversations with messages of every schema, empty, filled, at and above the limits, two threads on a worker's connection, `ChannelSpec`: `ChannelTypeOK`, `FramesInOrder`, `MessagesDecoded`, `BodiesDelimited`, `Delivered`. |
| `statefile` | 88 616 | Nine kinds of state, among them one retried, one merged and one above each limit of `load`; both builds: `AtomicReplace`. |
| `lost_work`, `merged_recovery` | | Violations, section 6. |

**Bounds.** Two requests reach every interleaving of two members of a batch, or of two batches; a
third is needed for a split to leave an odd half, a fourth for merges of batches with several
members. `BatchBound` is large enough that no tick of a passing run is stopped by it (TLC would
report the deadlock). Two boots and two epochs are a current and a stale one. `ClockBound` exceeds
the wait limit and the deadline, so that times before, at and after both occur; where time plays no
part it is 0. `Lag` is 1 where time plays a part, enough for a time on the other side of a deadline or a
wait limit. `CutBound` is 1: one transfer, or one file, is cut at each of its bytes in turn; a second cut
meets the same code at a later byte. `Conversations` and `Histories` hold what is sent and saved: every
schema and every limit, at it and beyond it. Limits of the code (frame size, string length, members,
records, size of the file) are constants with small values. Deadlock is checked except in the
`ControlPlane` runs, where every process may have ended and the driver may have stopped, and in `wire`,
where the connection ends.

Each property of a passing run has a mutant: a faulty variant of a modelled definition, kept
beside it and marked *Faulty*, under which TLC finds the property violated.

## 4. Fairness

`FairSpec`: a method that holds the mutex finishes (`WF` of `OpStep`: no method blocks inside);
`tick` keeps being called (`WF` of `Tick`: the embedding program's duty, since formation is driven
by `tick` only); time passes (`SF` of `AdvanceClock`: a method acts at one instant here while the
real clock runs whoever holds the mutex). Methods act on older times only finitely often: `EnterLate` would
otherwise undo `AdvanceClock` for ever, while the real clock outruns any wait for the mutex. Clients and workers owe nothing. `RecoveryFairSpec` is the
same, and a crash is never owed. `ControlFairSpec`: the coordinator's threads run, each obtaining
the mutex it waits for (`SF`), and a process that is up executes what is in its inbox (`WF`); no
process is obliged to start or to survive, and the driver need not submit. `ChannelSpec`: a thread in
the middle of `send_all` or `recv_all` goes on, and a connection is accepted; nobody is obliged to
connect or to send.

## 5. Proofs

For every policy, set of requests, workers and bound, under the named assumptions
`PolicyAssumption` and `WaitAssumption` (types of the policy), `SchedulerAssumption` (types of the
constants; `RetryFrom` without `reserved` and `created`), `ControlAssumption`, `CompatibilityAssumption` (types of the
descriptors) and `ChannelAssumption` (types of the frames; a frame at the limit has a size that fits the `int` it is cast
to). A hypothesis in the third column is part of the theorem; section 6 says what the code does without it.

| Theorem | Statement | Hypothesis |
|---|---|---|
| `TypeCorrect` | `Spec => []TypeOK` | |
| `AttemptsConsistent` | `Spec => []AttemptInv` | |
| `RetriesBounded` | `Spec => []AttemptsBounded` | |
| `OutcomesFinal` | `Spec => AttemptFinal` | no failing in-process run |
| `BatchesCompatible` | `Spec => []BatchCompatible` | |
| `RequestsKept` | `Spec => []NoRequestLost` | |
| `LineageRecorded` | `Spec => []LineageKept` | |
| `ReportsAuthorised` | `Spec => ReportAuthority` | |
| `OneBatchEach` | `Spec => []OneActiveBatch` | `Careful` |
| `IndexInStep` | `Spec => []IndexCoherent` | `Careful` |
| `AttemptsExecutedOnce` | `Spec => []ExecutedOnce` | `Careful` |
| `MembersInStep` | `Spec => []MemberStates` | `Careful`, no explicit retry |
| `LivesImplemented` | `Spec => LivesAsSpecified` | no explicit retry, no failing in-process run |
| `FieldsLead` | `Spec => []BatchFieldCorrect` | `NoSplits` |
| `BatchesReachable` | `Spec => []NoOrphanBatch` | `NoSplits` |
| `GenerationsUnique` | `Spec => []GenerationUnique` | `NoSplits` |
| `TicksMeetDeadlines` | `Spec => TickMeetsDeadlines` | no call of `split` |
| `BatchesInCount` | `Spec => []CountKept` | |
| `BatchesInBudget` | `Spec => []BudgetKept` | `NoWrap` |
| `OutstandingCovered` | `Spec => []OutstandingCovers` | explicit retries of completed and failed requests only, no failing in-process run |
| `ControlConsistent` | `ControlSpec => []ControlInv` | |
| `CoordinatorImplements` | `ControlSpec => ImplementsScheduler` | |
| `CoordinatorAttempts` | `ControlSpec => []AttemptInv` | |
| `ExecutionsAddressed` | `ControlSpec => []ExecutionAddressed` | |
| `CoordinatorKeepsRequests` | `ControlSpec => []NoRequestLost /\ ReportAuthority` | |
| `CoordinatorPlacesRequests` | `ControlSpec => []OneActiveBatch /\ []ExecutedOnce /\ []IndexCoherent /\ []MemberStates` | |
| `CoordinatorOutcomesFinal` | `ControlSpec => AttemptFinal` | |
| `CoordinatorLives` | `ControlSpec => LivesAsSpecified` | |
| `CoordinatorMeetsDeadlines` | `ControlSpec => TickMeetsDeadlines` | |
| `CoordinatorCharges` | `ControlSpec => []OutstandingCovers` | |
| `RecoveryConsistent` | `RecoverySpec => []RecoveryInv` | |
| `OwnFilesAccepted` | `RecoverySpec => []OwnFileAccepted` | |
| `PromisesSurvive` | `RecoverySpec => [](AttemptsBounded /\ BatchCompatible /\ NoRequestLost)` | |
| `PlacementSurvives` | `RecoverySpec => [](OneActiveBatch /\ IndexCoherent)` | `Careful`, `Undeferred` |
| `MembersSurvive` | `RecoverySpec => []MemberStates` | `Careful`, `Undeferred`, no explicit retry |
| `KeyTellsApart` | `Build(a) = Build(b) <=> a = b` for all descriptors | |
| `IndexIsExact` | `Spec => []IndexExact` (of `Compatibility`) | |
| `DecisionIsKept` | `Spec => []DecisionAgrees` (of `Compatibility`) | |
| `BytesBounded` | `ChannelSpec => []ChannelTypeOK` | |
| `FramesKept` | `ChannelSpec => []FramesInOrder` | |

The hypotheses, and why each is needed:

- `Careful`: `RetryFrom` holds ended states other than `cancelled`, and no in-process run fails.
  `retry` looks at neither the state nor the batch of a request, so a queued request is queued twice, and a
  cancelled member, which stays listed in its sealed batch, is placed in a second one. A failing
  in-process run applies its failure to members that have ended and queues them again.
- No explicit retry, in `MembersInStep` and `LivesImplemented`: a retried member leaves a completed batch
  that lists it, and `RequestLife` promises that an ended request stays ended.
- `NoSplits`: `split` is not called and workers register no size. A split gives both halves the
  generation of the batch, leaves the first half of a sealed batch with the superseded batch in its
  batch field, and lists the second half nowhere.
- `"split" \notin Calls` in `TicksMeetDeadlines`: `split` of a partially completed batch makes that batch the entry
  of its key, and a tick, which visits the entries, cannot seal it. The splits a tick makes itself, of
  sealed batches, are allowed.
- `NoWrap`: twice the budget of work, and the budget plus the work of a request, fit in a 64-bit sum.
  `allows_add` adds before it compares, so beyond that a wrapped sum passes.
- `Undeferred`: no tenant has a limit of outstanding work, or fairness is off. A submission over the limit is
  `waiting` and not in the waiting index; `load_persisted` puts every waiting request into it.
- Retries of completed or failed requests, in `OutstandingCovered`: `retry` charges nothing, so the retry of a
  request that was rejected or deferred, or expired, queues work the tenant is not charged for.

*The ledger of attempts (`SchedulerProofs`).* `TypeOK` is inductive by itself: one lemma per action, and one for
each helper that rebuilds a sequence (`Without`, the halves of a split, merged members). `AttemptFinal` is not provable
from it, because an outcome is applied by a step that no longer looks at the attempt: `complete`
decided earlier, when it began, which members are open. The strengthening is `AttemptInv`: the
number of a request's current attempt is the length of its list (so writing "the current attempt"
never reaches an earlier one); members, queued requests and members still to be visited were
submitted (so they have an attempt); and a live request, and a member `complete` has still to visit,
has an open attempt. The last part holds through a report because nothing else runs while the mutex
is held and each visit concerns one member. Its proof sorts the actions by the shape of what they do
to a request (nothing, a move among live states, an end with the attempt, a new attempt) and proves
once, in `ShapeKeeps`, that steps of such a shape preserve it. `OutcomesFinal` needs in addition
that the path of a failing in-process run is not taken; with it the property is false (section 6).
`RetriesBounded` follows from the guards of both retries and the first part of `AttemptInv`.

*Batches (`BatchProofs`).* `BatchInv` is what every statement about batches rests on: ids at or above the counter are
unused, the entry of a key is a batch of that key, the seal order lists batches that exist and none
twice, and the batches in the local variables of the method under way are of the kind its phase expects
(two different ones where it merges). `StepKinds` then reduces `Next` to the few things a step can do to requests
and batches, and one lemma per kind says which fields it changes. On these rest compatibility (a member
joins by a fill or a merge, both within one key), lineage, the count half of the budget and `NoRequestLost`,
whose inductive form `Placed` says of every request in a batch state that a batch it has not left lists it.
`ReportAuthority` needs `ReportInv`: what a method in phase `complete` works on is a batch handed out under
the epoch, generation and boot that were compared when the report was admitted.

*Placement (`PlacementProofs`).* No part of `Placement` is inductive alone. `Layout`: active batches are disjoint, list
no request twice, and a batch field that names an active batch names the one that lists the request.
`StatesImplied`: a member's state follows from the state of its batch, except in the batch a report is
being applied to. `IndexCoherent`: the index holds exactly the eligible requests, once. `EndRecorded`: an ended
request has an ended attempt. `Todo`: what is left of a report are executing members. `Exec`: the current attempt
of a member that is not yet handed out is in no execution. A fill keeps `Layout` because a queued request is
eligible and therefore, by `StatesImplied`, in no active batch; a report keeps `StatesImplied` because its last
step ends the batch; a new execution keeps `ExecutedOnce` by `Exec`. Merges, splits, cancellations,
expiry and automatic retries are all included.

*Lives (`PlacementProofs`).* Each kind of step is, for each request, a step or a stutter of `RequestLife`. `Placement` says
in which phase a member is when its batch moves on, `AttemptInv` that what ends is open.

*Without splits (`PlacementProofs`).* `Unsplit` relates three indexes: the batch field of every request that left the queue
names the batch that lists it (`FieldNames`); forming batches are the entries of their keys and sealed ones
are in the seal order (`BatchesListed`); the key the tick makes a batch for has none yet (`NewKeys`, needed
because the entry is overwritten without a look); generations are below the counter and pairwise
different (`Generations`).

*Deadlines (`PlacementProofs`).* `TickMeetsDeadlines` speaks of the state a tick ends in. `Timely` says for each phase what
has been achieved so far (after the expiry no overdue request is queued; batches already visited by
the fill loop are sealed or within their limits) and is carried to the end; `EntriesForming` says that the entries of the
keys are forming, so that a due one can be sealed.

*Sums (`WorkProofs`).* The model's sums are folds whose order is that of `CHOOSE`. The module first derives induction
over the naturals and over finite sets from the existence of minimal elements (`WFMin`), shows that
the fold's recursion has a solution on every finite set and that the sum does not depend on the order
(`SumRemove`), and gets from it sums of unions, subsets and embeddings. A fill and a merge then add at most what
`allows_add` was asked about; removals and halves embed into the batch they come from. For the charges the
invariant `Charged` is stronger than `OutstandingCovers`: a request in a batch counts twice, for its
admission and its placement, and a completed or failed one still counts once, which is what pays for the
automatic retry and for the release at success.

*The coordinator (`ControlPlaneProofs`).* `ControlInv` says that inboxes and reports hold executions of `dispatches`, and
that the driver's thread is about to send only what was prepared. With it every step of `ControlNext`
is a step of the scheduler or leaves its variables alone (`StepImplements`): the report a thread reads
is one `Complete` allows because its execution was handed out. The scheduler's theorems carry over, and
the hypotheses on retries, failing runs and `split` are discharged: no thread calls those methods, so the
step lemmas, which ask for the hypothesis of the step alone, apply to every step of the coordinator.
`Addressed` is the invariant for `ExecutionsAddressed`: the entry of a worker in the map, and the connection the
driver's thread has looked up, are connections of that worker; what the thread is about to send was authorised
for the boot it looked up; and a batch is handed out once, so that nothing else is sent for it.

*Recovery (`RecoveryProofs`).* `RecoverySpec` has two more kinds of step than the scheduler: a save, and a restart that
replaces every variable by what `load_persisted` makes of the file. An invariant survives if it is stated of the
records alone as well, because the indexes and the locals of the method are gone after a crash: a save must
give a file in which the record part holds (`Fits`, `FilePromises`, `FilePlaced`, `FileEnded`), and loading such a file
must give a state in which all of it does. `RecoveryInv` is the scheduler's kernel (types, `BatchInv`, `AttemptInv`) and
`Fits` of every file. It also has `Singly`: as long as no batch was merged or split and no request tried
again, the members of the batches are disjoint, from which `OwnFilesAccepted` follows by the checks of `parse`. The file
has no phase `complete`, so its members are those of whole reports: a save takes the mutex. The rest of the step is the
scheduler's own step lemma, cited (`BoundedStep`, `CompatibleStep`, `NothingLost`, and those of `PlacementProofs`). A
file whose lineage `parse` misreads is refused (`Accepts`), so what is loaded is what was saved (`LoadedRecords`).

*Compatibility (`CompatibilityProofs`).* `KeyTellsApart` compares two streams field by field: each starts with a length, so two
equal streams have equal first texts and equal rests; the list of extensions is a fold, whose prefixes are compared by
minimality. The invariant of the index, `IndexInv`, says that the bucket of each key lists exactly the queued
requests whose descriptor has that key, each once, and that no bucket is empty; that those of a bucket agree in
every dimension then follows from `KeyTellsApart`. Descriptors are any, with texts
and extensions of any length; the run has those at most two fields apart.

*Frames (`ChannelProofs`).* The bytes of all the frames sent so far, one after the other, are one long row. As long as no
frame is begun inside another, what the reader has consumed, what is in the stream and what the thread in the
middle of a frame has still to send are consecutive parts of it (`Row`). The row is not a variable: `RowInv` says that
there are a function of bytes and one of frame ends that fit (`FramesIn`), and a step that sends a frame gives longer
ones (`RowExtended`). Moving bytes keeps consecutive parts consecutive (`Moves`), once for the senders and once for the
reader. A header is complete when four bytes after the end of a frame were read, and since nothing beyond the
row is in the stream they are those of the next frame sent, whose length `LengthRead` gives back.

Every inductive invariant about states TLC can evaluate was checked by TLC, on the `lifecycle`, `split`, `retry`,
`budget`, `latency`, `control`, `recovery` or `compatibility` instance, before it was proved; `RowInv` quantifies over
functions on the natural numbers, and its consequence `FramesInOrder` was checked instead.

*Only model-checked:* liveness (`NeverWaitsForever`, `QueueDrains`, `DriverAnswered`, `FreshWorkCompletes`,
`Delivered`), since the prover does not treat fairness; and what rests on the recursive layouts of `ByteIO`, which the
prover cannot read: `MessagesDecoded` and `BodiesDelimited` of `Transport`, `AtomicReplace` of `StateFile`, and
`SealedRecoverable`, which is false. `Channel` is kept apart from the layouts, so that it can be proved about.

## 6. Where the code and its documents disagree

Each of these two is shown by a run that TLC must find violated:

- **`merged_recovery`**: a file saved after a merge, with a sealed batch, is refused by
  `recover_from` (`src/persistence.cpp:350` against 156-159). README line 175 calls such batches
  recoverable.
- **`lost_work`**: a batch sealed while no worker is connected is not reported by later ticks
  (`src/scheduler.cpp:1274`); a later tick merges new work into it and loses that too. README line
  162 says fresh work completes. With merging disabled it does (`control`).

Modelling also showed the following, for which there is no run:

- A failing in-process execution overwrites the outcome of a member that was cancelled after the seal
  (`scheduler.cpp:942`), against README line 146, one outcome per attempt: `AttemptFinal` fails when
  `LocalResults` contains failures. Elsewhere outcomes are final (`lifecycle`, `OutcomesFinal`).
- A tenant at its outstanding cap is skipped by the fill (`scheduler.cpp:349`), although its own queued
  requests may be what fills the cap, against README line 105, starvation prevention: `QueueDrains` fails
  with a cap. Without a cap the queue drains (`latency`).
- The limit of merges per cycle (`policy.hpp:92`) is compared with the number of all merges so far
  (`scheduler.cpp:646`): after that many, merging by policy stops for good.
- Two threads of the coordinator send on a worker's connection without a lock (`coordinator.cpp:97`, 140).
  After a short `::send` (`transport.cpp:74`) one frame may begin inside another; the worker then reads
  frames that nobody sent, or waits for bytes that do not come.
- A dispatch above the limits of `decode_dispatch` is skipped by the worker without an answer
  (`worker.cpp:54`), and one above the frame limit is refused by `send` and ignored (`coordinator.cpp:140`):
  the batch stays dispatched.
- `save` has no limits where `load` and `parse` have them (`persistence.cpp:219`, 248, `io.hpp:108`): a
  payload of more than 1 MiB or a file of more than 84 MB is written and never read back.
- The build that is not for Windows ignores the result of its flush (`persistence.cpp:205`) and renames
  without forcing the bytes to the disk; `persistence.hpp` line 80 describes temp file, flush and replace.
  The checksum makes a load refuse such a file, and the state is lost.
- A split sealed batch: the first half's members keep the superseded batch in their batch field and
  can no longer be cancelled (`scheduler.cpp:457`, 465, 719); both halves keep the old generation
  (435, 470); only the first half is in `sealed_order_` (486).
- A split forming batch: the second half is in no list and is never sealed by a tick (495).
- A merge adds members to a sealed batch (526) and ignores the contribution limit (504).
- `retry` accepts cancelled and queued requests (723); the automatic retry ignores the deadline (840).
- A deadline that passes after the seal does not stop the dispatch (1315), and a batch may be handed
  to a worker of smaller `max_batch_size` (1308).
- Cancellation, expiry and failure release no outstanding work (`fairness.cpp:11`).
- After a retry the request is in two batches that `parse` counts as active (`persistence.cpp:394`).
- The thread of a dead connection erases the map entry of the worker's next connection
  (`coordinator.cpp:87`).
- A submission over its tenant's outstanding limit is `waiting` but not in the waiting index (206-214); a
  recovery puts it there (1090), so that a tick places it only after a restart or a client's `retry`.
- `evaluate_compatibility` ignores the tokenizer (`compatibility.cpp:12`).
- The key depends on the order of the extensions: `build` writes them as they come (`identity.cpp:101-102`), and
  nothing calls `sort_extensions`, although `identity.hpp:127` calls the field sorted and 167-168 say "extensions are
  sorted before hashing so the key is order-independent". Two requests that list the same extensions
  differently are never in one batch; `evaluate_compatibility` too compares the lists as they come.

The properties of the passing runs say what holds beside these: `lifecycle` and `recovery` do not
split, `latency` does not merge or split, `control` does not merge.

## 7. Not modelled

- The CPU and CUDA executors: device code and arithmetic on payloads; an execution yields a status.
- SHA-256: taken to be free of collisions.
- State files that `save` did not write; `recover_from` into a fabric already in use.
- In the coordinator: status queries, shutdown, completions sent by a driver, several submitting
  drivers, and what a freed connection object does when it is used.
- Events, statistics, snapshots and explanations: output that nothing reads back.
- The command line tool beyond `load_or_init`: it parses arguments, calls one method, saves and prints.
  Overlapping invocations on one file are outside its contract.
- `id.hpp`, `error.hpp`, `result.hpp` and the names of enumerations: wrappers without behaviour.
- The wrap of 64-bit sums is in `AllowsAdd` but no run reaches it.
- In `Scheduler`: the refusal of a submission without model or revision (161), which changes nothing but a counter;
  `prepare_dispatch` to worker 0, the fabric itself, which runs its batches with `dispatch_and_run`; and a second
  occurrence of a request in a forming batch, which `cancel` removes with the first (698) and
  `CancelForming` leaves (only explicit retries can bring one about).

## 8. Plan

Done: all modules of section 2; every safety property of the scheduler, the coordinator, recovery,
compatibility and the channel that a run checks is proved, with the refinement to `RequestLife` and of the
coordinator to the scheduler; the refinement to `AtomicFile` is model-checked.

1. Prove: `AtomicReplace`, for any `Parse` that refuses a torn file, once the steps of a save are apart from the
   layouts, as `Channel` is.
2. Model: two submitting drivers; `recover_from` into a fabric in use.
