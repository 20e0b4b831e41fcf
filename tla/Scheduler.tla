----------------------------- MODULE Scheduler -----------------------------
(***************************************************************************)
(* BatchFabric (src/scheduler.cpp): the scheduler that admits requests,    *)
(* forms compatible batches of them, seals, merges, splits and dispatches  *)
(* the batches and applies the completions workers report.                 *)
(*                                                                         *)
(* Every public method takes one mutex for its whole body.  A method whose *)
(* body is a loop over requests, keys or batches is a sequence of steps    *)
(* here; the variable op says which method holds the mutex and how far it  *)
(* is, and every other method needs op to be idle.                         *)
(*                                                                         *)
(* The number of an attempt stands for its AttemptId: ids are drawn from a *)
(* counter, and (request, number) is in bijection with them.  The waiting  *)
(* index is the number of times a request occurs in the bucket of its key: *)
(* nothing depends on the order inside a bucket, which the fill sorts.     *)
(***************************************************************************)
EXTENDS Policy, FiniteSets, SequencesExt

CONSTANTS
  Key,           \* compatibility keys
  Class,         \* latency classes
  Offered,       \* request metadata clients submit
  Worker,        \* ids of remote workers; 0 is the in-process one
  WorkerSizes,   \* values of max_batch_size workers register (0: unlimited)
  Calls,         \* which of the optional public methods clients call
  RetryFrom,     \* request states in which clients call retry()
  ReportStatus,  \* statuses workers report for a member
  LocalResults,  \* what an in-process executor returns: "ok", "failed"
  RequestBound, BatchBound, BootBound, EpochBound, ClockBound,  \* bounds of the model
  SubmitBound,   \* the clock value after which clients submit nothing
  Lag            \* how far behind the latest time a method may act

RequestId == 1 .. RequestBound
BatchId   == 1 .. BatchBound
WorkerId  == Worker \cup {0}
BootId    == 0 .. BootBound
NoBatch   == 0

Terminal      == {"cancelled", "expired", "rejected", "failed", "completed"}
WaitingState  == {"eligible", "waiting"}
InBatchState  == {"reserved", "batched", "sealed", "dispatched", "running"}
RequestState  == {"created"} \cup WaitingState \cup InBatchState \cup Terminal
BatchTerminal == {"cancelled", "failed", "completed", "superseded"}
BatchState    == {"none", "forming", "sealed", "dispatched", "running",
                  "partially_completed"} \cup BatchTerminal
Status        == {"success", "retryable_failure", "non_retryable_failure",
                  "cancelled", "expired", "stale", "deferred"}
Phase         == {"idle", "expire", "evict", "make", "fillnew", "form", "fill",
                  "merge", "split", "complete", "fail"}
Meta          == [tenant: Tenant, key: Key, class: Class, work: Nat, deadline: Nat]

ASSUME SchedulerAssumption ==
  /\ Offered \subseteq Meta /\ Offered # {}
  /\ Worker \subseteq Nat \ {0}
  /\ WorkerSizes \subseteq Nat
  /\ Calls \subseteq {"seal", "split", "merge", "expire", "run", "roll", "register"}
  /\ RetryFrom \subseteq RequestState \ {"created", "reserved"}
  /\ ReportStatus \subseteq Status
  /\ LocalResults \subseteq {"ok", "failed"}
  /\ {RequestBound, BatchBound, BootBound, EpochBound, ClockBound, SubmitBound, Lag} \subseteq Nat

VARIABLES
  clock,           \* the time the method that holds the mutex, or takes it next, has read
  epoch,           \* epoch_
  nextRequest, nextBatch, nextGeneration,   \* id counters
  meta,            \* requests_[r].meta and key, fixed at submission
  requests,        \* requests_[r]: state, current attempt, batch, flags
  attempts,        \* attempts_ of each request, by number
  batches,         \* batches_
  waiting,         \* waiting_index_: occurrences of a request in its bucket
  formingByKey,    \* forming_by_key_ (NoBatch: no entry)
  sealedOrder,     \* sealed_order_
  workers,         \* workers_
  served, outstanding,   \* FairnessController
  merged,          \* stats_.batches_merged, which the merge phase reads
  lineage,         \* parents and children of batches_[b]
  dispatches,      \* BatchExecutions handed to remote workers; none is ever lost,
                   \* any may be answered late, twice or not at all
  op               \* the method that holds the mutex

requestVars == <<requests, attempts, waiting>>
idVars      == <<nextRequest, nextBatch, nextGeneration, meta>>
batchVars   == <<batches, formingByKey, sealedOrder, merged, lineage>>
fairVars    == <<served, outstanding>>
envVars     == <<clock, epoch, workers, dispatches>>
vars == <<requestVars, idVars, batchVars, fairVars, envVars, op>>

-----------------------------------------------------------------------------
(* Records, as their constructors leave them. *)

Eligible == [state |-> "eligible", outcome |-> "success"]

NoOutcomes == [r \in RequestId |-> "none"]

NoBatchRec == [state |-> "none", generation |-> 0, epoch |-> 0,
               key |-> CHOOSE k \in {m.key : m \in Offered} : TRUE,
               members |-> <<>>, formed |-> 0, worker |-> 0, boot |-> 0,
               outcomes |-> NoOutcomes]

NoLineage == [parents |-> <<>>, children |-> <<>>]

Idle == [pc |-> "idle", whole |-> FALSE, todo |-> {}, keys |-> {}, forming |-> {}, cur |-> NoBatch,
         pairs |-> {}, pos |-> 0, report |-> [r \in RequestId |-> "none"]]

Init ==
  /\ clock = 0 /\ epoch = 1
  /\ nextRequest = 1 /\ nextBatch = 1 /\ nextGeneration = 1
  /\ meta = [r \in RequestId |-> CHOOSE m \in Offered : TRUE]
  /\ requests = [r \in RequestId |->
       [state |-> "created", attempt |-> 0, batch |-> NoBatch, queued |-> FALSE, submitted |-> 0]]
  /\ attempts = [r \in RequestId |-> <<>>]
  /\ batches = [b \in BatchId |-> NoBatchRec]
  /\ waiting = [r \in RequestId |-> 0]
  /\ formingByKey = [k \in Key |-> NoBatch]
  /\ sealedOrder = <<>>
  /\ workers = [w \in WorkerId |-> [live |-> w = 0, boot |-> 0, size |-> 0]]
  /\ served = [t \in Tenant |-> 0] /\ outstanding = [t \in Tenant |-> 0]
  /\ merged = 0
  /\ lineage = [b \in BatchId |-> NoLineage]
  /\ dispatches = {}
  /\ op = Idle

Unlocked == op.pc = "idle"

StateOfBatch(b) == IF b = NoBatch THEN "none" ELSE batches[b].state
Members(b)  == Range(batches[b].members)
Work(s)     == SumFunction([i \in DOMAIN s |-> meta[s[i]].work])
WorkOf(s)   == Work(s) % Word
Overdue(r)  == Expired(meta[r].deadline, clock)

(* The sequence s without its element x, if it has one. *)
Without(s, x) ==
  IF x \in Range(s) THEN RemoveAt(s, CHOOSE i \in DOMAIN s : s[i] = x) ELSE s

-----------------------------------------------------------------------------
(* submit(): one action per admission decision, in the order the code      *)
(* tests them.                                                             *)

NewRequest(m, state, outcome) ==
  /\ Unlocked /\ nextRequest \in RequestId /\ clock <= SubmitBound
  /\ nextRequest' = nextRequest + 1
  /\ meta' = [meta EXCEPT ![nextRequest] = m]
  /\ requests' = [requests EXCEPT ![nextRequest] =
       [state |-> state, attempt |-> 1, batch |-> NoBatch,
        queued |-> state = "eligible", submitted |-> clock]]
  /\ attempts' = [attempts EXCEPT ![nextRequest] = <<[state |-> state, outcome |-> outcome]>>]
  /\ UNCHANGED <<nextBatch, nextGeneration, batchVars, served, envVars, op>>

SubmitExpired(m) ==
  /\ Expired(m.deadline, clock)
  /\ NewRequest(m, "expired", "expired")
  /\ UNCHANGED <<waiting, outstanding>>

SubmitOversized(m) ==
  /\ ~Expired(m.deadline, clock) /\ Oversized(m.work)
  /\ NewRequest(m, "rejected", "non_retryable_failure")
  /\ UNCHANGED <<waiting, outstanding>>

Deferrable(m) == FairnessEnabled /\ AtOutstandingCap(outstanding, m.tenant)

(* A deferred request is recorded but not put into the waiting index. *)
SubmitDeferred(m) ==
  /\ ~Expired(m.deadline, clock) /\ ~Oversized(m.work) /\ Deferrable(m)
  /\ NewRequest(m, "waiting", "success")
  /\ UNCHANGED <<waiting, outstanding>>

(* Faulty: admission charges the tenant nothing. *)
SubmitUncharged(m) ==
  /\ ~Expired(m.deadline, clock) /\ ~Oversized(m.work) /\ ~Deferrable(m)
  /\ NewRequest(m, "eligible", "success")
  /\ waiting' = [waiting EXCEPT ![nextRequest] = @ + 1]
  /\ UNCHANGED outstanding

SubmitAdmitted(m) ==
  /\ ~Expired(m.deadline, clock) /\ ~Oversized(m.work) /\ ~Deferrable(m)
  /\ NewRequest(m, "eligible", "success")
  /\ waiting' = [waiting EXCEPT ![nextRequest] = @ + 1]
  /\ outstanding' = [outstanding EXCEPT ![m.tenant] = @ + m.work]

Submit == \E m \in Offered :
  SubmitExpired(m) \/ SubmitOversized(m) \/ SubmitDeferred(m) \/ SubmitAdmitted(m)

-----------------------------------------------------------------------------
(* cancel().  Each alternative ends the request and its current attempt.    *)

EndRequest(r, state, outcome) ==
  attempts' = [attempts EXCEPT ![r][requests[r].attempt] =
                 [state |-> state, outcome |-> outcome]]

CancelQueued(r) ==
  /\ requests[r].state \notin InBatchState
  /\ waiting' = IF requests[r].queued /\ waiting[r] > 0
                  THEN [waiting EXCEPT ![r] = @ - 1] ELSE waiting
  /\ requests' = [requests EXCEPT ![r].state = "cancelled", ![r].queued = FALSE]
  /\ EndRequest(r, "cancelled", "cancelled")
  /\ UNCHANGED batches

(* Out of a forming batch the request leaves without a trace. *)
CancelForming(r) ==
  LET b == requests[r].batch IN
  /\ requests[r].state \in InBatchState /\ StateOfBatch(b) = "forming"
  /\ batches' = [batches EXCEPT ![b].members = Without(@, r)]
  /\ requests' = [requests EXCEPT ![r].state = "cancelled", ![r].batch = NoBatch]
  /\ EndRequest(r, "cancelled", "cancelled")
  /\ UNCHANGED waiting

(* From the seal on it stays a member, with an explicit outcome. *)
CancelSealed(r) ==
  LET b == requests[r].batch IN
  /\ requests[r].state \in InBatchState
  /\ StateOfBatch(b) \in {"sealed", "dispatched", "running"}
  /\ batches' = [batches EXCEPT ![b].outcomes[r] = "cancelled"]
  /\ requests' = [requests EXCEPT ![r].state = "cancelled"]
  /\ EndRequest(r, "cancelled", "cancelled")
  /\ UNCHANGED waiting

Live(r) == requests[r].state \notin Terminal \cup {"created"}

Cancellable(r) ==
  /\ Live(r)
  /\ requests[r].state \in InBatchState =>
       StateOfBatch(requests[r].batch) \in {"forming", "sealed", "dispatched", "running"}

(* Faulty: a request that has ended is cancelled too. *)
DoCancelEnded(r) ==
  /\ requests[r].state # "created"
  /\ CancelQueued(r) \/ CancelForming(r) \/ CancelSealed(r)
  /\ UNCHANGED <<idVars, formingByKey, sealedOrder, merged, lineage, fairVars, envVars>>

DoCancel(r) ==
  /\ Live(r)
  /\ CancelQueued(r) \/ CancelForming(r) \/ CancelSealed(r)
  /\ UNCHANGED <<idVars, formingByKey, sealedOrder, merged, lineage, fairVars, envVars>>

Cancel(r) == Unlocked /\ DoCancel(r) /\ UNCHANGED op

-----------------------------------------------------------------------------
(* expire() and the first phase of tick(): expire_locked.                   *)

Tick == /\ Unlocked
        /\ op' = [Idle EXCEPT !.pc = "expire", !.whole = TRUE]
        /\ UNCHANGED <<requestVars, idVars, batchVars, fairVars, envVars>>

Expire == /\ Unlocked /\ "expire" \in Calls
          /\ op' = [Idle EXCEPT !.pc = "expire"]
          /\ UNCHANGED <<requestVars, idVars, batchVars, fairVars, envVars>>

(* Every queued request whose deadline has passed leaves the index; unless  *)
(* it is terminal already it expires.  The members of the forming batches   *)
(* whose deadline has passed are cancelled next.                            *)
ExpireWaiting ==
  LET late == {r \in RequestId : waiting[r] > 0 /\ Overdue(r)}
      ends == {r \in late : requests[r].state \notin Terminal}
  IN
  /\ op.pc = "expire"
  /\ waiting' = [r \in RequestId |-> IF r \in late THEN 0 ELSE waiting[r]]
  /\ requests' = [r \in RequestId |->
       IF r \in ends THEN [requests[r] EXCEPT !.state = "expired", !.queued = FALSE]
                     ELSE requests[r]]
  /\ attempts' = [r \in RequestId |->
       IF r \in ends
         THEN [attempts[r] EXCEPT ![requests[r].attempt] =
                 [state |-> "expired", outcome |-> "expired"]]
         ELSE attempts[r]]
  /\ op' = [op EXCEPT !.pc = "evict",
              !.todo = {r \in RequestId :
                          /\ Overdue(r)
                          /\ \E k \in Key : /\ formingByKey[k] # NoBatch
                                            /\ r \in Members(formingByKey[k])}]
  /\ UNCHANGED <<idVars, batchVars, fairVars, envVars>>

EvictMember(r) ==
  /\ op.pc = "evict" /\ r \in op.todo
  /\ op' = [op EXCEPT !.todo = @ \ {r}]
  /\ \/ DoCancel(r)
     \/ ~Cancellable(r) /\ UNCHANGED <<requestVars, idVars, batchVars, fairVars, envVars>>

(* Faulty: the test for an existing forming batch is inverted. *)
EvictDoneInverted ==
  /\ op.pc = "evict" /\ op.todo = {}
  /\ op' = IF op.whole
             THEN [Idle EXCEPT !.pc = "make", !.keys = {k \in Key : formingByKey[k] # NoBatch}]
             ELSE Idle
  /\ UNCHANGED <<requestVars, idVars, batchVars, fairVars, envVars>>

(* The keys of the waiting index that have no forming batch get one. *)
EvictDone ==
  /\ op.pc = "evict" /\ op.todo = {}
  /\ op' = IF op.whole
             THEN [Idle EXCEPT !.pc = "make",
                     !.keys = {k \in Key : /\ formingByKey[k] = NoBatch
                                           /\ \E r \in RequestId :
                                                waiting[r] > 0 /\ meta[r].key = k}]
             ELSE Idle
  /\ UNCHANGED <<requestVars, idVars, batchVars, fairVars, envVars>>

-----------------------------------------------------------------------------
(* Formation: make_forming, fill_forming and the seal-or-wait decision.     *)

(* Faulty: the generation counter is not advanced. *)
MakeFormingAgain(k) ==
  /\ op.pc = "make" /\ k \in op.keys /\ nextBatch \in BatchId
  /\ batches' = [batches EXCEPT ![nextBatch] =
       [NoBatchRec EXCEPT !.state = "forming", !.generation = nextGeneration,
          !.epoch = epoch, !.key = k, !.formed = clock]]
  /\ formingByKey' = [formingByKey EXCEPT ![k] = nextBatch]
  /\ nextBatch' = nextBatch + 1
  /\ op' = [op EXCEPT !.pc = "fillnew", !.cur = nextBatch, !.keys = @ \ {k}]
  /\ UNCHANGED <<requestVars, nextRequest, nextGeneration, meta, sealedOrder, merged,
                 lineage,
                 fairVars, envVars>>

MakeForming(k) ==
  /\ op.pc = "make" /\ k \in op.keys /\ nextBatch \in BatchId
  /\ batches' = [batches EXCEPT ![nextBatch] =
       [NoBatchRec EXCEPT !.state = "forming", !.generation = nextGeneration,
          !.epoch = epoch, !.key = k, !.formed = clock]]
  /\ formingByKey' = [formingByKey EXCEPT ![k] = nextBatch]
  /\ nextBatch' = nextBatch + 1 /\ nextGeneration' = nextGeneration + 1
  /\ op' = [op EXCEPT !.pc = "fillnew", !.cur = nextBatch, !.keys = @ \ {k}]
  /\ UNCHANGED <<requestVars, nextRequest, meta, sealedOrder, merged, lineage,
                 fairVars, envVars>>

TenantCount(b, t) ==
  Cardinality({i \in DOMAIN batches[b].members : meta[batches[b].members[i]].tenant = t})

(* The waiting requests of the batch's key that may join it now. *)
Candidates(b) ==
  {r \in RequestId :
     /\ waiting[r] > 0 /\ meta[r].key = batches[b].key
     /\ requests[r].state \in WaitingState
     /\ ~Overdue(r)
     /\ ~(FairnessEnabled /\ AtOutstandingCap(outstanding, meta[r].tenant))
     /\ MaxContribution # 0 => TenantCount(b, meta[r].tenant) < MaxContribution
     /\ AllowsAdd(Len(batches[b].members), WorkOf(batches[b].members), 1, meta[r].work)}

(* The most under-served tenant's oldest request. *)
IsPick(b, r) ==
  /\ r \in Candidates(b)
  /\ IsNext(served, {meta[q].tenant : q \in Candidates(b)}, meta[r].tenant)
  /\ \A q \in Candidates(b) \ {r} : meta[q].tenant = meta[r].tenant =>
       \/ requests[r].submitted < requests[q].submitted
       \/ requests[r].submitted = requests[q].submitted /\ r < q

(* Faulty: the placed request stays in the index. *)
PlaceIndexed(r) ==
  LET b == op.cur IN
  /\ op.pc \in {"fillnew", "fill"} /\ IsPick(b, r)
  /\ batches' = [batches EXCEPT ![b].members = Append(@, r)]
  /\ requests' = [requests EXCEPT ![r].state = "reserved", ![r].batch = b, ![r].queued = FALSE]
  /\ UNCHANGED <<attempts, waiting, idVars, formingByKey, sealedOrder, merged, lineage,
                 fairVars,
                 envVars, op>>

(* add_member_to_batch, and the removal from the index that follows it. *)
Place(r) ==
  LET b == op.cur IN
  /\ op.pc \in {"fillnew", "fill"} /\ IsPick(b, r)
  /\ batches' = [batches EXCEPT ![b].members = Append(@, r)]
  /\ requests' = [requests EXCEPT ![r].state = "reserved", ![r].batch = b, ![r].queued = FALSE]
  /\ waiting' = [waiting EXCEPT ![r] = @ - 1]
  /\ served' = [served EXCEPT ![meta[r].tenant] = @ + meta[r].work]
  /\ outstanding' = [outstanding EXCEPT ![meta[r].tenant] = @ + meta[r].work]
  /\ UNCHANGED <<attempts, idVars, formingByKey, sealedOrder, merged, lineage, envVars, op>>

(* A new batch has been forming since its first member arrived. *)
FillNewDone ==
  LET b     == op.cur
      times == {clock} \cup {requests[r].submitted : r \in Members(b)}
  IN
  /\ op.pc = "fillnew" /\ Candidates(b) = {}
  /\ \E first \in times :
       /\ \A t \in times : first <= t
       /\ batches' = [batches EXCEPT ![b].formed = first]
  /\ op' = [op EXCEPT !.pc = "make", !.cur = NoBatch]
  /\ UNCHANGED <<requestVars, idVars, formingByKey, sealedOrder, merged, lineage,
                 fairVars, envVars>>

(* Faulty: keys without a forming batch are visited too. *)
MakeDoneAll ==
  /\ op.pc = "make" /\ op.keys = {}
  /\ op' = [op EXCEPT !.pc = "form", !.forming = {formingByKey[k] : k \in Key}]
  /\ UNCHANGED <<requestVars, idVars, batchVars, fairVars, envVars>>

MakeDone ==
  /\ op.pc = "make" /\ op.keys = {}
  /\ op' = [op EXCEPT !.pc = "form", !.forming = {formingByKey[k] : k \in Key} \ {NoBatch}]
  /\ UNCHANGED <<requestVars, idVars, batchVars, fairVars, envVars>>

FormNext(b) ==
  /\ op.pc = "form" /\ b \in op.forming
  /\ op' = [op EXCEPT !.pc = "fill", !.cur = b, !.forming = @ \ {b}]
  /\ UNCHANGED <<requestVars, idVars, batchVars, fairVars, envVars>>

(* Faulty: the sealed batch is not listed. *)
DoSealUnlisted(b) ==
  /\ batches[b].state = "forming"
  /\ batches' = [batches EXCEPT ![b].state = "sealed"]
  /\ requests' = [r \in RequestId |->
       IF r \in Members(b) /\ requests[r].state = "reserved"
         THEN [requests[r] EXCEPT !.state = "batched"] ELSE requests[r]]
  /\ formingByKey' = [formingByKey EXCEPT ![batches[b].key] = NoBatch]
  /\ UNCHANGED sealedOrder

(* do_seal.  The entry of the key is erased whichever batch it names. *)
DoSeal(b) ==
  /\ batches[b].state = "forming"
  /\ batches' = [batches EXCEPT ![b].state = "sealed"]
  /\ requests' = [r \in RequestId |->
       IF r \in Members(b) /\ requests[r].state = "reserved"
         THEN [requests[r] EXCEPT !.state = "batched"] ELSE requests[r]]
  /\ formingByKey' = [formingByKey EXCEPT ![batches[b].key] = NoBatch]
  /\ sealedOrder' = Append(sealedOrder, b)

SealDue(b) ==
  DecideSeal(batches[b].formed, {meta[r] : r \in Members(b)}, Len(batches[b].members),
             WorkOf(batches[b].members),
             \E r \in RequestId : /\ waiting[r] > 0 /\ meta[r].key = batches[b].key
                                  /\ requests[r].state \in WaitingState,
             clock)

(* The code seals the due batches after it has filled them all; no fill     *)
(* depends on another key's seal, so the two loops are one here.            *)
FillDone ==
  LET b == op.cur IN
  /\ op.pc = "fill" /\ Candidates(b) = {}
  /\ op' = [op EXCEPT !.pc = "form", !.cur = NoBatch]
  /\ \/ SealDue(b) /\ DoSeal(b)
     \/ /\ ~SealDue(b) \/ batches[b].state # "forming"
        /\ UNCHANGED <<requests, batches, formingByKey, sealedOrder>>
  /\ UNCHANGED <<attempts, waiting, idVars, merged, lineage, fairVars, envVars>>

Seal(b) ==
  /\ Unlocked /\ "seal" \in Calls /\ DoSeal(b)
  /\ UNCHANGED <<attempts, waiting, idVars, merged, lineage, fairVars, envVars, op>>

-----------------------------------------------------------------------------
(* Merging. *)

(* Faulty: the keys are not compared. *)
CanMergeAnyKey(a, b) ==
  /\ batches[a].state = batches[b].state /\ batches[a].state \in {"sealed", "forming"}
  /\ MergeEnabled

(* Faulty: the budget is checked for the second batch only. *)
CanMergeSecond(a, b) ==
  /\ batches[a].key = batches[b].key /\ batches[a].state = batches[b].state
  /\ batches[a].state \in {"sealed", "forming"}
  /\ MergeEnabled
  /\ AllowsAdd(0, 0, Len(batches[b].members), WorkOf(batches[b].members))

CanMerge(a, b) ==
  /\ batches[a].key = batches[b].key /\ batches[a].state = batches[b].state
  /\ batches[a].state \in {"sealed", "forming"}
  /\ MergeEnabled
  /\ AllowsAdd(0, 0, Len(batches[a].members) + Len(batches[b].members),
               WorkOf(batches[a].members) + WorkOf(batches[b].members))

(* Faulty: the batch that was emptied is not superseded. *)
DoMergeTwice(a, b) ==
  /\ CanMerge(a, b) /\ merged < 2
  /\ batches' = [batches EXCEPT ![a].members = @ \o batches[b].members]
  /\ merged' = merged + 1
  /\ UNCHANGED <<requestVars, idVars, formingByKey, sealedOrder, lineage, fairVars, envVars>>

(* Faulty: the members do not learn of their new batch. *)
DoMergeUntold(a, b) ==
  /\ CanMerge(a, b)
  /\ batches' = [batches EXCEPT ![a].members = @ \o batches[b].members,
                                ![b].state = "superseded"]
  /\ sealedOrder' = Without(sealedOrder, b)
  /\ merged' = merged + 1
  /\ UNCHANGED <<requestVars, idVars, formingByKey, lineage, fairVars, envVars>>

(* Faulty: the merged batch forgets where its members came from. *)
DoMergeUntraced(a, b) ==
  /\ CanMerge(a, b)
  /\ batches' = [batches EXCEPT ![a].members = @ \o batches[b].members,
                                ![b].state = "superseded"]
  /\ requests' = [r \in RequestId |->
       IF r \in Members(b) THEN [requests[r] EXCEPT !.batch = a] ELSE requests[r]]
  /\ sealedOrder' = Without(sealedOrder, b)
  /\ formingByKey' = IF formingByKey[batches[b].key] = b
                       THEN [formingByKey EXCEPT ![batches[b].key] = a] ELSE formingByKey
  /\ merged' = merged + 1
  /\ UNCHANGED <<attempts, waiting, idVars, lineage, fairVars, envVars>>

(* Batch a takes over the members and the lineage of b, which is superseded.*)
DoMerge(a, b) ==
  /\ CanMerge(a, b)
  /\ batches' = [batches EXCEPT ![a].members = @ \o batches[b].members,
                                ![b].state = "superseded"]
  /\ requests' = [r \in RequestId |->
       IF r \in Members(b) THEN [requests[r] EXCEPT !.batch = a] ELSE requests[r]]
  /\ sealedOrder' = Without(sealedOrder, b)
  /\ formingByKey' = IF formingByKey[batches[b].key] = b
                       THEN [formingByKey EXCEPT ![batches[b].key] = a] ELSE formingByKey
  /\ merged' = merged + 1
  /\ lineage' = [lineage EXCEPT
       ![a] = [parents  |-> Append(@.parents \o lineage[b].parents, b),
               children |-> @.children \o lineage[b].children]]
  /\ UNCHANGED <<attempts, waiting, idVars, fairVars, envVars>>

(* merge(a, a) iterates over a vector it appends to; it is left out. *)
Merge(a, b) == Unlocked /\ "merge" \in Calls /\ a # b /\ DoMerge(a, b) /\ UNCHANGED op

(* The pairs the merge phase of a tick tries: neighbours among the sealed   *)
(* batches of one key, in the order they were sealed.                       *)
SealedOf(i, k) == batches[sealedOrder[i]].state = "sealed" /\ batches[sealedOrder[i]].key = k

Neighbours ==
  {pair \in BatchId \X BatchId :
     \E i, j \in DOMAIN sealedOrder :
       /\ i < j /\ pair = <<sealedOrder[i], sealedOrder[j]>>
       /\ \E k \in Key : /\ SealedOf(i, k) /\ SealedOf(j, k)
                         /\ \A n \in i + 1 .. j - 1 : ~SealedOf(n, k)}

FormDone ==
  /\ op.pc = "form" /\ op.forming = {}
  /\ op' = [Idle EXCEPT !.pc = "merge", !.pairs = IF MergeEnabled THEN Neighbours ELSE {}]
  /\ UNCHANGED <<requestVars, idVars, batchVars, fairVars, envVars>>

(* The pairs of a key are tried in order: a pair after the one that ends    *)
(* where it begins.  The limit is compared with the count of all merges.    *)
MergePair(a, b) ==
  /\ op.pc = "merge" /\ <<a, b>> \in op.pairs /\ \A p \in op.pairs : p[2] # a
  /\ op' = [op EXCEPT !.pairs = @ \ {<<a, b>>}]
  /\ \/ merged < MaxMerges /\ DoMerge(a, b)
     \/ /\ merged >= MaxMerges \/ ~CanMerge(a, b)
        /\ UNCHANGED <<requestVars, idVars, batchVars, fairVars, envVars>>

MergeDone ==
  /\ op.pc = "merge" /\ op.pairs = {}
  /\ op' = [Idle EXCEPT !.pc = "split", !.pos = 1]
  /\ UNCHANGED <<requestVars, idVars, batchVars, fairVars, envVars>>

-----------------------------------------------------------------------------
(* Splitting.  The second half of the members moves to a new batch of the   *)
(* same generation and epoch.  The order of the members decides the halves. *)

Half(b)       == Len(batches[b].members) \div 2
FirstHalf(b)  == SubSeq(batches[b].members, 1, Half(b))
(* Faulty: the second half starts one member too late. *)
SecondHalfShort(b) == SubSeq(batches[b].members, Half(b) + 2, Len(batches[b].members))

SecondHalf(b) == SubSeq(batches[b].members, Half(b) + 1, Len(batches[b].members))

Splittable(b) ==
  /\ batches[b].state \notin {"none", "dispatched", "running"} \cup BatchTerminal
  /\ Half(b) > 0

(* Faulty: the new batch is open again. *)
ChildForming(b, members) ==
  [batches[b] EXCEPT !.members = members, !.outcomes = NoOutcomes, !.state = "forming"]

Child(b, members) == [batches[b] EXCEPT !.members = members, !.outcomes = NoOutcomes]

(* The second half learns the id of its new batch; the first half is        *)
(* written last, so a request listed in both stays where it was.            *)
Rehome(b, child) ==
  requests' = [r \in RequestId |->
    IF r \in Range(FirstHalf(b)) THEN [requests[r] EXCEPT !.batch = b]
    ELSE IF r \in Range(SecondHalf(b)) THEN [requests[r] EXCEPT !.batch = child]
    ELSE requests[r]]

(* Faulty: the batch that was split is not superseded. *)
SplitSealedKept(b) ==
  /\ batches[b].state = "sealed" /\ Splittable(b)
  /\ nextBatch + 1 \in BatchId
  /\ batches' = [batches EXCEPT
       ![b].members = FirstHalf(b),
       ![nextBatch] = Child(b, SecondHalf(b)),
       ![nextBatch + 1] = Child(b, FirstHalf(b))]
  /\ Rehome(b, nextBatch)
  /\ nextBatch' = nextBatch + 2
  /\ UNCHANGED <<sealedOrder, formingByKey, lineage>>

(* A sealed batch is superseded by two sealed ones; the first half takes    *)
(* its place in the seal order, the second half has none.                   *)
SplitSealed(b) ==
  /\ batches[b].state = "sealed" /\ Splittable(b)
  /\ nextBatch + 1 \in BatchId
  /\ batches' = [batches EXCEPT
       ![b].members = FirstHalf(b), ![b].state = "superseded",
       ![nextBatch] = Child(b, SecondHalf(b)),
       ![nextBatch + 1] = Child(b, FirstHalf(b))]
  /\ Rehome(b, nextBatch)
  /\ nextBatch' = nextBatch + 2
  /\ sealedOrder' = Append(Without(sealedOrder, b), nextBatch + 1)
  /\ lineage' = [lineage EXCEPT
       ![b].children    = @ \o <<nextBatch, nextBatch + 1>>,
       ![nextBatch]     = [parents |-> <<b, nextBatch + 1>>, children |-> <<>>],
       ![nextBatch + 1] = [parents |-> <<b>>, children |-> <<nextBatch>>]]
  /\ UNCHANGED formingByKey

(* Any other batch keeps its first half and becomes its key's forming batch.*)
SplitOpen(b) ==
  /\ batches[b].state # "sealed" /\ Splittable(b)
  /\ nextBatch \in BatchId
  /\ batches' = [batches EXCEPT ![b].members = FirstHalf(b),
                                ![nextBatch] = Child(b, SecondHalf(b))]
  /\ Rehome(b, nextBatch)
  /\ nextBatch' = nextBatch + 1
  /\ formingByKey' = [formingByKey EXCEPT ![batches[b].key] = b]
  /\ lineage' = [lineage EXCEPT ![b].children = Append(@, nextBatch),
                                ![nextBatch] = [parents |-> <<b>>, children |-> <<>>]]
  /\ UNCHANGED sealedOrder

DoSplit(b) ==
  /\ SplitSealed(b) \/ SplitOpen(b)
  /\ UNCHANGED <<attempts, waiting, nextRequest, nextGeneration, meta, merged,
                 fairVars, envVars>>

Split(b) == Unlocked /\ "split" \in Calls /\ DoSplit(b) /\ UNCHANGED op

(* The smallest max_batch_size a live worker has registered (0: none). *)
MaxWorkerBatchSize ==
  LET sizes == {workers[w].size : w \in {v \in WorkerId : workers[v].live}} \ {0}
  IN IF sizes = {} THEN 0 ELSE Min(sizes)

TooLarge(b) ==
  /\ batches[b].state = "sealed"
  /\ MaxWorkerBatchSize # 0 /\ Len(batches[b].members) > MaxWorkerBatchSize

(* The split phase of a tick walks sealed_order_ by index while splits      *)
(* remove and append elements.                                              *)
SplitStep ==
  /\ op.pc = "split" /\ op.pos \in DOMAIN sealedOrder
  /\ op' = [op EXCEPT !.pos = @ + 1]
  /\ \/ TooLarge(sealedOrder[op.pos]) /\ DoSplit(sealedOrder[op.pos])
     \/ /\ ~TooLarge(sealedOrder[op.pos])
        /\ UNCHANGED <<requestVars, idVars, batchVars, fairVars, envVars>>

TickDone ==
  /\ op.pc = "split" /\ op.pos \notin DOMAIN sealedOrder
  /\ op' = Idle
  /\ UNCHANGED <<requestVars, idVars, batchVars, fairVars, envVars>>

-----------------------------------------------------------------------------
(* retry(): a fresh attempt is queued and a whole tick follows.  The only   *)
(* checks are the attempt budget and the deadline.                          *)

(* Faulty: the retry keeps the number of the attempt that failed. *)
RequeueSame(r) ==
  /\ requests' = [requests EXCEPT ![r].state = "eligible", ![r].batch = NoBatch,
                                  ![r].queued = TRUE]
  /\ waiting' = [waiting EXCEPT ![r] = @ + 1]

Requeue(r) ==
  /\ requests' = [requests EXCEPT ![r].state = "eligible", ![r].attempt = @ + 1,
                                  ![r].batch = NoBatch, ![r].queued = TRUE]
  /\ waiting' = [waiting EXCEPT ![r] = @ + 1]

Retry(r) ==
  /\ Unlocked /\ requests[r].state \in RetryFrom
  /\ requests[r].attempt < MaxAttempts /\ ~Overdue(r)
  /\ Requeue(r)
  /\ attempts' = [attempts EXCEPT ![r] = Append(@, Eligible)]
  /\ op' = [Idle EXCEPT !.pc = "expire", !.whole = TRUE]
  /\ UNCHANGED <<idVars, batchVars, fairVars, envVars>>

-----------------------------------------------------------------------------
(* apply_member_outcome: what a reported status does to a member.           *)

FinalState == [success |-> "completed", retryable_failure |-> "failed",
               non_retryable_failure |-> "failed", cancelled |-> "cancelled",
               expired |-> "expired"]

NoteOutcome(r, status) ==
  LET b == requests[r].batch IN
  batches' = IF b = NoBatch THEN batches ELSE [batches EXCEPT ![b].outcomes[r] = status]

(* Faulty: one retry too many. *)
RetriedOnceMore(r, status) ==
  status = "retryable_failure" /\ RetryEnabled /\ requests[r].attempt <= MaxAttempts

Retried(r, status) ==
  status = "retryable_failure" /\ RetryEnabled /\ requests[r].attempt < MaxAttempts

ApplyIgnored(status) ==
  status \in {"stale", "deferred"} /\ UNCHANGED <<requestVars, batches, outstanding>>

ApplyFinal(r, status) ==
  /\ status \in DOMAIN FinalState /\ ~Retried(r, status)
  /\ requests' = [requests EXCEPT ![r].state = FinalState[status]]
  /\ EndRequest(r, FinalState[status], status)
  /\ NoteOutcome(r, status)
  /\ outstanding' = IF status = "success" /\ FairnessEnabled
                      THEN [outstanding EXCEPT ![meta[r].tenant] = Release(@, meta[r].work)]
                      ELSE outstanding
  /\ UNCHANGED waiting

ApplyRetry(r, status) ==
  /\ Retried(r, status)
  /\ Requeue(r)
  /\ attempts' = [attempts EXCEPT ![r] =
       Append([@ EXCEPT ![requests[r].attempt] = [state |-> "failed", outcome |-> status]],
              Eligible)]
  /\ NoteOutcome(r, status)
  /\ UNCHANGED outstanding

ApplyOutcome(r, status) ==
  /\ ApplyIgnored(status) \/ ApplyFinal(r, status) \/ ApplyRetry(r, status)
  /\ UNCHANGED <<idVars, formingByKey, sealedOrder, merged, lineage, served, envVars>>

-----------------------------------------------------------------------------
(* complete(): the checks on the report, then a loop over its members.      *)

(* An attempt with one of these states has its outcome. *)
Finished == {"completed", "cancelled", "expired", "failed"}

Open(r) == attempts[r][requests[r].attempt].state \notin Finished

(* Faulty: the boot of the worker is not compared. *)
AuthorisedAnyBoot(x) ==
  /\ x.epoch = epoch /\ workers[x.worker].live
  /\ batches[x.batch].generation = x.generation
  /\ batches[x.batch].state \in {"dispatched", "running"}

Authorised(x) ==
  /\ x.epoch = epoch
  /\ workers[x.worker].live /\ workers[x.worker].boot = x.boot
  /\ batches[x.batch].generation = x.generation
  /\ batches[x.batch].state \in {"dispatched", "running"}

(* Faulty: attempts that have their outcome are not skipped. *)
BeginReportAll(b, attempt, report) ==
  op' = [Idle EXCEPT !.pc = "complete", !.cur = b,
           !.todo = {r \in DOMAIN report : requests[r].attempt = attempt[r]},
           !.report = [r \in RequestId |-> IF r \in DOMAIN report THEN report[r] ELSE "none"]]

(* x is the execution the worker answers, report the status per member.     *)
(* A member whose attempt is no longer the current one, or has its outcome, *)
(* is skipped.                                                              *)
BeginReport(b, attempt, report) ==
  op' = [Idle EXCEPT !.pc = "complete", !.cur = b,
           !.todo = {r \in DOMAIN report : requests[r].attempt = attempt[r] /\ Open(r)},
           !.report = [r \in RequestId |-> IF r \in DOMAIN report THEN report[r] ELSE "none"]]

Complete(x) ==
  /\ Unlocked /\ Authorised(x)
  /\ \E told \in SUBSET {r \in RequestId : x.attempt[r] # 0} :
       \E report \in [told -> ReportStatus] : BeginReport(x.batch, x.attempt, report)
  /\ UNCHANGED <<requestVars, idVars, batchVars, fairVars, envVars>>

CompleteMember(r) ==
  /\ op.pc = "complete" /\ r \in op.todo
  /\ ApplyOutcome(r, op.report[r])
  /\ op' = [op EXCEPT !.todo = @ \ {r}]

(* Faulty: the batch completes whatever its members did. *)
CompleteDoneAlways ==
  /\ op.pc = "complete" /\ op.todo = {}
  /\ batches' = [batches EXCEPT ![op.cur].state = "completed"]
  /\ op' = Idle
  /\ UNCHANGED <<requestVars, idVars, formingByKey, sealedOrder, merged, lineage,
                 fairVars, envVars>>

CompleteDone ==
  LET b == op.cur IN
  /\ op.pc = "complete" /\ op.todo = {}
  /\ batches' = [batches EXCEPT ![b].state =
       IF \A r \in Members(b) : requests[r].state \in Terminal
         THEN "completed" ELSE "partially_completed"]
  /\ op' = Idle
  /\ UNCHANGED <<requestVars, idVars, formingByKey, sealedOrder, merged, lineage,
                 fairVars, envVars>>

-----------------------------------------------------------------------------
(* Dispatch to a remote worker, and execution in-process under the mutex.   *)

CurrentAttempts(b) ==
  [r \in RequestId |-> IF r \in Members(b) THEN requests[r].attempt ELSE 0]

(* The members that were batched move on; the others keep their state. *)
Advance(b, state) ==
  requests' = [r \in RequestId |->
    IF r \in Members(b) /\ requests[r].state = "batched"
      THEN [requests[r] EXCEPT !.state = state] ELSE requests[r]]

(* Faulty: a batch that was handed out is handed out again. *)
PrepareDispatchAgain(b, w) ==
  /\ Unlocked /\ batches[b].state \in {"sealed", "dispatched"} /\ workers[w].live
  /\ batches' = [batches EXCEPT ![b].state = "dispatched", ![b].worker = w,
                                ![b].boot = workers[w].boot]
  /\ Advance(b, "dispatched")
  /\ dispatches' = dispatches \cup
       {[batch |-> b, generation |-> batches[b].generation, epoch |-> batches[b].epoch,
         worker |-> w, boot |-> workers[w].boot, attempt |-> CurrentAttempts(b)]}
  /\ UNCHANGED <<attempts, waiting, idVars, formingByKey, sealedOrder, merged, lineage,
                 fairVars,
                 clock, epoch, workers, op>>

PrepareDispatch(b, w) ==
  /\ Unlocked /\ batches[b].state = "sealed" /\ workers[w].live
  /\ batches' = [batches EXCEPT ![b].state = "dispatched", ![b].worker = w,
                                ![b].boot = workers[w].boot]
  /\ Advance(b, "dispatched")
  /\ dispatches' = dispatches \cup
       {[batch |-> b, generation |-> batches[b].generation, epoch |-> batches[b].epoch,
         worker |-> w, boot |-> workers[w].boot, attempt |-> CurrentAttempts(b)]}
  /\ UNCHANGED <<attempts, waiting, idVars, formingByKey, sealedOrder, merged, lineage,
                 fairVars,
                 clock, epoch, workers, op>>

StartRun(b) ==
  /\ Unlocked /\ "run" \in Calls /\ batches[b].state = "sealed"
  /\ batches' = [batches EXCEPT ![b].state = "running", ![b].worker = 0,
                                ![b].boot = workers[0].boot]
  /\ Advance(b, "running")
  /\ UNCHANGED <<attempts, waiting, idVars, formingByKey, sealedOrder, merged, lineage,
                 fairVars, envVars>>

(* The results go through complete(), which refuses them when the batch     *)
(* was formed in an earlier epoch: the batch then stays running.            *)
RunOk(b) ==
  /\ "ok" \in LocalResults /\ StartRun(b)
  /\ IF batches[b].epoch = epoch
       THEN BeginReport(b, CurrentAttempts(b), [r \in Members(b) |-> "success"])
       ELSE UNCHANGED op

(* A failed execution is a retryable failure of every member, whatever the  *)
(* state of the member; the batch stays running.                            *)
RunFailed(b) ==
  /\ "failed" \in LocalResults /\ StartRun(b)
  /\ op' = [Idle EXCEPT !.pc = "fail", !.todo = Members(b)]

FailMember(r) ==
  /\ op.pc = "fail" /\ r \in op.todo
  /\ ApplyOutcome(r, "retryable_failure")
  /\ op' = [op EXCEPT !.todo = @ \ {r}]

FailDone ==
  /\ op.pc = "fail" /\ op.todo = {}
  /\ op' = Idle
  /\ UNCHANGED <<requestVars, idVars, batchVars, fairVars, envVars>>

-----------------------------------------------------------------------------
(* Workers, epochs and time. *)

RegisterWorker(w, boot, size) ==
  /\ Unlocked /\ "register" \in Calls
  /\ workers' = [workers EXCEPT ![w] = [live |-> TRUE, boot |-> boot, size |-> size]]
  /\ UNCHANGED <<requestVars, idVars, batchVars, fairVars, clock, epoch, dispatches, op>>

RollEpoch ==
  /\ Unlocked /\ "roll" \in Calls /\ epoch < EpochBound
  /\ epoch' = epoch + 1
  /\ UNCHANGED <<requestVars, idVars, batchVars, fairVars, clock, workers, dispatches, op>>

AdvanceClock ==
  /\ Unlocked /\ clock < ClockBound
  /\ clock' = clock + 1
  /\ UNCHANGED <<requestVars, idVars, batchVars, fairVars, epoch, workers, dispatches, op>>

(* A method reads the clock before it takes the mutex: one that has waited  *)
(* acts on an older time than the method it follows.                        *)
EnterLate ==
  /\ Unlocked
  /\ clock' \in {t \in 0 .. clock : t < clock /\ clock <= t + Lag}
  /\ UNCHANGED <<requestVars, idVars, batchVars, fairVars, epoch, workers, dispatches, op>>

(* The steps of the method that holds the mutex. *)
OpStep ==
  \/ ExpireWaiting \/ EvictDone \/ FillNewDone \/ MakeDone \/ FillDone \/ FormDone
  \/ MergeDone \/ SplitStep \/ TickDone \/ CompleteDone \/ FailDone
  \/ \E r \in RequestId : EvictMember(r) \/ Place(r) \/ CompleteMember(r) \/ FailMember(r)
  \/ \E k \in Key : MakeForming(k)
  \/ \E b \in BatchId : FormNext(b)
  \/ \E a, b \in BatchId : MergePair(a, b)

Next ==
  \/ Submit \/ Tick \/ Expire \/ RollEpoch \/ AdvanceClock \/ EnterLate \/ OpStep
  \/ \E r \in RequestId : Cancel(r) \/ Retry(r)
  \/ \E b \in BatchId : Seal(b) \/ Split(b) \/ RunOk(b) \/ RunFailed(b)
  \/ \E a, b \in BatchId : Merge(a, b)
  \/ \E b \in BatchId, w \in Worker : PrepareDispatch(b, w)
  \/ \E w \in Worker, boot \in BootId, size \in WorkerSizes : RegisterWorker(w, boot, size)
  \/ \E x \in dispatches : Complete(x)

Spec == Init /\ [][Next]_vars

(* The mutex holder finishes its method, the embedding program keeps        *)
(* calling tick(), and time passes: strongly fair, because a method acts at *)
(* one instant here while the real clock runs whoever holds the mutex.      *)
(* No wait for the mutex outlasts every limit: in the end all methods act   *)
(* on times past the bound of the clock.  Clients and workers owe nothing.  *)
FairSpec ==
  /\ Spec
  /\ WF_vars(OpStep) /\ WF_vars(Tick)
  /\ SF_vars(AdvanceClock) /\ <>[][clock' >= clock]_vars

-----------------------------------------------------------------------------
(* Types. *)

RequestRec == [state: RequestState, attempt: Nat, batch: BatchId \cup {NoBatch},
               queued: BOOLEAN, submitted: Nat]
AttemptRec == [state: RequestState, outcome: Status]
BatchRec   == [state: BatchState, generation: Nat, epoch: Nat, key: Key,
               members: Seq(RequestId), formed: Nat, worker: WorkerId, boot: BootId,
               outcomes: [RequestId -> Status \cup {"none"}]]
LineageRec == [parents: Seq(BatchId), children: Seq(BatchId)]
Execution  == [batch: BatchId, generation: Nat, epoch: Nat, worker: WorkerId,
               boot: BootId, attempt: [RequestId -> Nat]]
OpRec      == [pc: Phase, whole: BOOLEAN, todo: SUBSET RequestId, keys: SUBSET Key,
               forming: SUBSET BatchId, cur: BatchId \cup {NoBatch},
               pairs: SUBSET (BatchId \X BatchId), pos: Nat,
               report: [RequestId -> Status \cup {"none"}]]

(* The local variables of the method that holds the mutex. *)
OpOK ==
  /\ op \in OpRec
  /\ op.pc \in {"fillnew", "fill", "complete"} => op.cur \in BatchId
  /\ op.pc = "complete" => \A r \in op.todo : op.report[r] \in Status

(* Every record the scheduler keeps is well formed: states, ids, counters   *)
(* and the local variables of the method under way have their types.        *)
TypeOK ==
  /\ clock \in Nat /\ epoch \in Nat
  /\ nextRequest \in Nat \ {0} /\ nextBatch \in Nat \ {0} /\ nextGeneration \in Nat \ {0}
  /\ meta \in [RequestId -> Meta]
  /\ requests \in [RequestId -> RequestRec]
  /\ attempts \in [RequestId -> Seq(AttemptRec)]
  /\ batches \in [BatchId -> BatchRec]
  /\ waiting \in [RequestId -> Nat]
  /\ formingByKey \in [Key -> BatchId \cup {NoBatch}]
  /\ sealedOrder \in Seq(BatchId)
  /\ workers \in [WorkerId -> [live: BOOLEAN, boot: BootId, size: Nat]]
  /\ served \in [Tenant -> Nat] /\ outstanding \in [Tenant -> Nat]
  /\ merged \in Nat
  /\ lineage \in [BatchId -> LineageRec]
  /\ dispatches \subseteq Execution
  /\ OpOK

-----------------------------------------------------------------------------
(* Safety. *)

ActiveBatch == {"forming", "sealed", "dispatched", "running"}

(* The waiting index and the requests agree: a request is in the bucket of  *)
(* its key once if it is eligible and flagged as queued, and not at all     *)
(* otherwise.  Admission, placement, cancellation, expiry and every retry   *)
(* keep the two in step (waiting_index_ and in_waiting).                    *)
IndexCoherent ==
  \A r \in RequestId :
    /\ waiting[r] = IF requests[r].queued THEN 1 ELSE 0
    /\ requests[r].queued <=> requests[r].state = "eligible"

(* No double membership: a request that still waits for its outcome is a    *)
(* member of at most one batch that can still deliver one, whatever was     *)
(* merged, sealed, cancelled, reported or retried before.                   *)
OneActiveBatch ==
  \A a, b \in BatchId : \A r \in Members(a) \cap Members(b) :
    (Live(r) /\ batches[a].state \in ActiveBatch /\ batches[b].state \in ActiveBatch)
      => a = b

(* Between two methods, the state of every member is the one its batch      *)
(* implies: reserved in the batch that is forming, batched in a sealed one, *)
(* dispatched or running in one that was handed out; only a cancellation    *)
(* may have come in between, and a completed batch has no open member.      *)
MemberStates ==
  Unlocked => \A b \in BatchId : \A r \in Members(b) :
    CASE batches[b].state = "forming"    -> requests[r].state = "reserved"
      [] batches[b].state = "sealed"     -> requests[r].state \in {"batched", "cancelled"}
      [] batches[b].state = "dispatched" -> requests[r].state \in {"dispatched", "cancelled"}
      [] batches[b].state = "running"    -> requests[r].state \in {"running", "cancelled"}
      [] batches[b].state = "completed"  -> requests[r].state \in Terminal
      [] OTHER -> TRUE

(* A live request knows the batch it is in: the batch field names a batch   *)
(* that lists it as a member, and cancel() finds it there.                  *)
BatchFieldCorrect ==
  \A r \in RequestId : requests[r].state \in InBatchState =>
    /\ requests[r].batch # NoBatch
    /\ r \in Members(requests[r].batch)
    /\ batches[requests[r].batch].state # "superseded"

(* Nothing is lost: a live request that has left the queue is a member of a *)
(* batch that is neither superseded nor otherwise at its end, so that some  *)
(* seal, dispatch or report can still move it.                              *)
NoRequestLost ==
  Unlocked => \A r \in RequestId : requests[r].state \in InBatchState =>
    \E b \in BatchId : /\ r \in Members(b)
                       /\ batches[b].state \notin BatchTerminal \cup {"none"}

(* Only requests of the batch's compatibility key are in a batch, through   *)
(* fills, merges and splits.                                                *)
BatchCompatible ==
  \A b \in BatchId : \A r \in Members(b) : meta[r].key = batches[b].key

(* Lineage: a batch that was superseded, by a merge or by a split, is named *)
(* as a parent by a batch that took its members over, so that every place a *)
(* request has been in can be traced from the batch it ends in.             *)
LineageKept ==
  \A b \in BatchId : batches[b].state = "superseded" =>
    \E a \in BatchId \ {b} : b \in Range(lineage[a].parents)

(* The hard budget: no batch, filled, merged or split, holds more requests  *)
(* or more work, summed without wrapping, than the budget.                  *)
CountKept == MaxRequests # 0 => \A b \in BatchId : Len(batches[b].members) <= MaxRequests

WorkKept == MaxWork # 0 => \A b \in BatchId : Work(batches[b].members) <= MaxWork

BudgetKept == CountKept /\ WorkKept

(* The outstanding cap is never undercut: what the fairness controller has  *)
(* charged to a tenant covers the work of its requests that were admitted   *)
(* and have not ended, through placements, failures, retries and            *)
(* cancellations.                                                           *)
OutstandingCovers ==
  \A t \in Tenant :
    SumFunctionOnSet([r \in RequestId |-> meta[r].work],
                     {r \in RequestId : /\ Live(r) /\ requests[r].state # "waiting"
                                        /\ meta[r].tenant = t}) <= outstanding[t]

(* The retry bound: automatic and explicit retries together never give a    *)
(* request more attempts than the policy allows.                            *)
AttemptsBounded ==
  \A r \in RequestId :
    Len(attempts[r]) <= (IF MaxAttempts > 1 THEN MaxAttempts ELSE 1)

AllMembers == UNION {Members(b) : b \in BatchId}

(* The parts of AttemptInv: the number of the current attempt is the length *)
(* of the attempt list; what exists is what was submitted; members, queued  *)
(* requests and what a loop has still to visit were submitted; a request    *)
(* that has not ended has an attempt that has not.                          *)
AttemptNumbers ==
  \A r \in RequestId : /\ requests[r].attempt = Len(attempts[r])
                       /\ requests[r].attempt = 0 <=> requests[r].state = "created"
                       /\ r >= nextRequest => requests[r].state = "created"

SubmittedOnly ==
  /\ \A r \in AllMembers : requests[r].state # "created"
  /\ \A r \in RequestId : waiting[r] > 0 => requests[r].state # "created"
  /\ op.pc \in {"complete", "fail"} => \A r \in op.todo : requests[r].state # "created"

OpenAttempts ==
  /\ \A r \in RequestId : Live(r) => Open(r)
  /\ op.pc = "complete" => \A r \in op.todo : Open(r)

(* The ledger of attempts and the requests agree in every state, also in    *)
(* the middle of a report: what complete() has still to apply is an attempt *)
(* without an outcome, because nothing else runs while it holds the mutex.  *)
AttemptInv == AttemptNumbers /\ SubmittedOnly /\ OpenAttempts

(* No attempt is executed twice: two executions handed to workers never     *)
(* share an attempt of a request, whatever was merged, split, cancelled or  *)
(* retried between them and however often workers restart.                  *)
ExecutedOnce ==
  \A x, y \in dispatches : \A r \in RequestId :
    (x.attempt[r] # 0 /\ x.attempt[r] = y.attempt[r]) => x = y

(* Every batch can make progress through tick(): a forming batch is the one *)
(* its key's entry names, a sealed one is in the seal order, where it is    *)
(* reported, merged and split.                                              *)
NoOrphanBatch ==
  Unlocked => \A b \in BatchId :
    /\ batches[b].state = "forming" => formingByKey[batches[b].key] = b
    /\ batches[b].state = "sealed" => b \in Range(sealedOrder)

(* A generation names one live batch: two batches that can still complete   *)
(* never share it, so a report for one cannot be taken for another.         *)
GenerationUnique ==
  \A a, b \in BatchId :
    (/\ batches[a].state \in ActiveBatch /\ batches[b].state \in ActiveBatch
     /\ batches[a].generation = batches[b].generation) => a = b

-----------------------------------------------------------------------------
(* What no step may do. *)

(* The outcome of an attempt is final: once an attempt has completed,       *)
(* failed, expired or been cancelled, no late report, cancellation, expiry  *)
(* or retry changes what is recorded for it.                                *)
AttemptFinal ==
  [][\A r \in RequestId : \A n \in DOMAIN attempts[r] :
       attempts[r][n].state \in Finished =>
         n \in DOMAIN attempts'[r] /\ attempts'[r][n] = attempts[r][n]]_vars

(* Authority: a batch leaves execution through a report only in the epoch   *)
(* it was formed in, and only while the very boot of the worker it was      *)
(* handed to is the registered one.                                         *)
ReportAuthority ==
  [][\A b \in BatchId :
       (/\ batches[b].state \in {"dispatched", "running"}
        /\ batches'[b].state \notin {"dispatched", "running"}) =>
          /\ batches[b].epoch = epoch
          /\ workers[batches[b].worker].live
          /\ workers[batches[b].worker].boot = batches[b].boot]_vars

(* Latency protection: a tick leaves behind no forming batch of the key map *)
(* that has waited as long as its members' classes, deadlines and the       *)
(* global limit allow, and no queued request whose deadline has passed.     *)
TickMeetsDeadlines ==
  [][(op.pc = "split" /\ op'.pc = "idle") =>
       /\ \A k \in Key : formingByKey[k] # NoBatch =>
            LET b == formingByKey[k] IN
            \A limit \in WaitLimits({meta[r] : r \in Members(b)},
                                     Len(batches[b].members), clock) :
              clock - batches[b].formed < limit
       /\ \A r \in RequestId : ~(waiting[r] > 0 /\ Overdue(r))]_vars
-----------------------------------------------------------------------------
(* The life of the requests, as RequestLife specifies it.  The states that  *)
(* tell the same about a request are one phase of its life.                 *)

PhaseOf(state) ==
  CASE state = "created" -> "absent"
    [] state \in WaitingState -> "queued"
    [] state = "reserved" -> "placed"
    [] state \in {"batched", "sealed"} -> "committed"
    [] state \in {"dispatched", "running"} -> "issued"
    [] state \in Terminal -> "ended"

(* An attempt that was turned away has its outcome from the start. *)
Told(a) == IF a.state \in Terminal THEN a.outcome ELSE "open"

Life == INSTANCE RequestLife WITH
  Request  <- RequestId,
  Outcome  <- Status,
  Attempts <- MaxAttempts,
  phase    <- [r \in RequestId |-> PhaseOf(requests[r].state)],
  ledger   <- [r \in RequestId |-> [n \in DOMAIN attempts[r] |-> Told(attempts[r][n])]]

(* Every request lives as RequestLife specifies, whatever happens to the    *)
(* batches it passes through: no step skips a phase, a request is handed    *)
(* out once per attempt, goes back to the queue only out of an execution    *)
(* that failed and only with a fresh attempt, and an outcome is recorded    *)
(* exactly once (submit, fill_forming, do_seal, prepare_dispatch, complete, *)
(* cancel and expire together).                                             *)
LivesAsSpecified == Life!LifeSpec

-----------------------------------------------------------------------------
(* Liveness. *)

(* The batch former never waits indefinitely: a request reserved in a       *)
(* forming batch is eventually sealed with it or ends.                      *)
NeverWaitsForever ==
  \A r \in RequestId : requests[r].state = "reserved" ~> requests[r].state # "reserved"

(* No tenant starves: a queued request eventually leaves the queue, into a  *)
(* batch or to its end, as long as ticks happen.                            *)
QueueDrains ==
  \A r \in RequestId : requests[r].state = "eligible" ~> requests[r].state # "eligible"
=============================================================================
