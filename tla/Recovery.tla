------------------------------ MODULE Recovery ------------------------------
(***************************************************************************)
(* Crashes and the state file: persist_to() writes the scheduler's records *)
(* to a file, and a new process recovers from it with recover_from().      *)
(*                                                                         *)
(* The file is replaced atomically (a temporary file, then a rename), so a *)
(* crash during the save leaves the previous file; bytes, checksum and     *)
(* field encodings are left out and what remains of parse() are the checks *)
(* on the records themselves.  A new process starts with no remote worker  *)
(* and, since a report travels on the connection its execution came by,    *)
(* with no execution that can still be answered.                           *)
(***************************************************************************)
EXTENDS Scheduler

CONSTANT RestartBound    \* bound of the model: restarts of the process

ASSUME RecoveryAssumption == RestartBound \in Nat

VARIABLES
  disk,       \* the state file: a set of at most one image
  restarts    \* how often the process has been restarted

recoveryVars == <<disk, restarts>>
allVars == <<vars, recoveryVars>>

-----------------------------------------------------------------------------
(* build_persisted and save. *)

(* Faulty: requests that have ended are left out of the file. *)
ImagePruned ==
  [epoch |-> epoch, nextRequest |-> nextRequest, nextBatch |-> nextBatch,
   nextGeneration |-> nextGeneration, meta |-> meta, attempts |-> attempts, served |-> served,
   lineage |-> lineage,
   requests |-> [r \in RequestId |->
     [requests[r] EXCEPT !.queued = FALSE, !.state = IF @ \in Terminal THEN "created" ELSE @]],
   batches  |-> [b \in BatchId |-> [batches[b] EXCEPT !.outcomes = NoOutcomes]]]

(* The outcomes of a batch and the in_waiting flag are not written. *)
Image ==
  [epoch |-> epoch, nextRequest |-> nextRequest, nextBatch |-> nextBatch,
   nextGeneration |-> nextGeneration, meta |-> meta, attempts |-> attempts, served |-> served,
   lineage |-> lineage,
   requests |-> [r \in RequestId |-> [requests[r] EXCEPT !.queued = FALSE]],
   batches  |-> [b \in BatchId |-> [batches[b] EXCEPT !.outcomes = NoOutcomes]]]

(* Faulty: the records are copied without the mutex. *)
PersistUnlocked == disk' = {Image} /\ UNCHANGED <<vars, restarts>>

PersistTo ==
  /\ Unlocked
  /\ disk' = {Image}
  /\ UNCHANGED <<vars, restarts>>

-----------------------------------------------------------------------------
(* save() writes the lineage of a batch as the number of parents, the       *)
(* parents, the number of children, the children; parse() reads both        *)
(* numbers first.  For a batch with parents it takes the first of them for  *)
(* the number of children and the number of children for the last parent.   *)
(* When the two differ the rest of the file is read out of step, and the    *)
(* checks on what is read refuse it.                                        *)
Aligned(l) == l.parents # <<>> => Head(l.parents) = Len(l.children)

ReadLineage(l) ==
  IF l.parents = <<>> THEN l
  ELSE [l EXCEPT !.parents = Append(Tail(@), Len(l.children))]

(* parse: no request is a member of two batches that are not at their end,  *)
(* and every member is a request of the file.                               *)
Accepts(f) ==
  LET holders(r) == {b \in BatchId : /\ f.batches[b].state \notin BatchTerminal \cup {"none"}
                                     /\ r \in Range(f.batches[b].members)}
  IN /\ \A b \in BatchId : Aligned(f.lineage[b])
     /\ \A r \in RequestId : Cardinality(holders(r)) <= 1
     /\ \A b \in BatchId : \A r \in Range(f.batches[b].members) :
          f.requests[r].state # "created"

(* load_persisted rebuilds the three indexes from the records, which it     *)
(* visits in the order of their ids.                                        *)
InState(f, state) == {b \in BatchId : f.batches[b].state = state}

(* Faulty: the forming batches are not entered. *)
RebuiltFormingNone(f) == [k \in Key |-> NoBatch]

RebuiltForming(f) ==
  [k \in Key |-> LET bs == {b \in InState(f, "forming") : f.batches[b].key = k}
                 IN IF bs = {} THEN NoBatch ELSE Max(bs)]

RebuiltOrders(f) ==
  LET bs == InState(f, "sealed") IN
  {s \in [1 .. Cardinality(bs) -> bs] : \A i, j \in DOMAIN s : i < j => s[i] < s[j]}

(* Faulty: eligible requests are forgotten. *)
RequeuedWaiting(f, r) == f.requests[r].state = "waiting"

Requeued(f, r) == f.requests[r].state \in WaitingState

RebuiltWaiting(f) == [r \in RequestId |-> IF Requeued(f, r) THEN 1 ELSE 0]

Load(f) ==
  /\ epoch' = f.epoch
  /\ nextRequest' = f.nextRequest /\ nextBatch' = f.nextBatch
  /\ nextGeneration' = f.nextGeneration
  /\ meta' = f.meta /\ attempts' = f.attempts
  /\ requests' = [r \in RequestId |-> [f.requests[r] EXCEPT !.queued = Requeued(f, r)]]
  /\ batches' = f.batches
  /\ waiting' = RebuiltWaiting(f)
  /\ formingByKey' = RebuiltForming(f)
  /\ sealedOrder' \in RebuiltOrders(f)
  /\ lineage' = [b \in BatchId |-> ReadLineage(f.lineage[b])]
  /\ served' = f.served

(* What a process that has just been constructed holds besides that. *)
NewProcess ==
  /\ restarts < RestartBound /\ restarts' = restarts + 1
  /\ workers' = [w \in WorkerId |-> [live |-> w = 0, boot |-> 0, size |-> 0]]
  /\ outstanding' = [t \in Tenant |-> 0]
  /\ merged' = 0
  /\ dispatches' = {}
  /\ op' = Idle
  /\ UNCHANGED <<clock, disk>>

(* The process dies at any moment, also inside a method, and a new one      *)
(* recovers.                                                                *)
Restart == NewProcess /\ \E f \in disk : Accepts(f) /\ Load(f)

(* Without a file it accepts, the new process starts empty (load_or_init of *)
(* the command line tool).                                                  *)
RestartEmpty ==
  /\ NewProcess
  /\ \A f \in disk : ~Accepts(f)
  /\ epoch' = 1 /\ nextRequest' = 1 /\ nextBatch' = 1 /\ nextGeneration' = 1
  /\ meta' = [r \in RequestId |-> CHOOSE m \in Offered : TRUE]
  /\ requests' = [r \in RequestId |->
       [state |-> "created", attempt |-> 0, batch |-> NoBatch, queued |-> FALSE, submitted |-> 0]]
  /\ attempts' = [r \in RequestId |-> <<>>]
  /\ batches' = [b \in BatchId |-> NoBatchRec]
  /\ waiting' = [r \in RequestId |-> 0]
  /\ formingByKey' = [k \in Key |-> NoBatch]
  /\ sealedOrder' = <<>>
  /\ lineage' = [b \in BatchId |-> NoLineage]
  /\ served' = [t \in Tenant |-> 0]

-----------------------------------------------------------------------------
RecoveryInit == Init /\ disk = {} /\ restarts = 0

RecoveryNext ==
  \/ Next /\ UNCHANGED recoveryVars
  \/ PersistTo \/ Restart \/ RestartEmpty

RecoverySpec == RecoveryInit /\ [][RecoveryNext]_allVars

(* As FairSpec; a crash is never owed. *)
RecoveryFairSpec ==
  /\ RecoverySpec
  /\ WF_allVars(OpStep /\ UNCHANGED recoveryVars)
  /\ WF_allVars(Tick /\ UNCHANGED recoveryVars)
  /\ SF_allVars(AdvanceClock /\ UNCHANGED recoveryVars)

-----------------------------------------------------------------------------
(* Sealed batches that were not dispatched are recoverable: whenever the    *)
(* scheduler saved itself with such a batch, the file is one recover_from() *)
(* accepts.                                                                 *)
SealedRecoverable ==
  \A f \in disk : InState(f, "sealed") # {} => Accepts(f)

(* The scheduler refuses its own file only when batches were merged or      *)
(* split or a request was retried: whatever else was submitted, cancelled,  *)
(* expired, sealed, dispatched or reported before the save, the file passes *)
(* the checks of parse().                                                   *)
OwnFileAccepted ==
  \A f \in disk :
    (/\ \A b \in BatchId : f.lineage[b] = NoLineage
     /\ \A r \in RequestId : f.requests[r].attempt <= 1) => Accepts(f)
=============================================================================
