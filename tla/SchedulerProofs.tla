-------------------------- MODULE SchedulerProofs --------------------------
(***************************************************************************)
(* What holds of the scheduler for every policy, every set of tenants,     *)
(* keys and workers, and every bound of the model.                         *)
(***************************************************************************)
EXTENDS Scheduler, SequenceTheorems, TLAPS

-----------------------------------------------------------------------------
(* The operators the actions are built from. *)

(* The bounds are naturals, so the ids below them are positive naturals. *)
LEMMA IdsNatural ==
  /\ RequestId \subseteq Nat \ {0} /\ BatchId \subseteq Nat \ {0}
  /\ 0 \in BootId /\ 0 \in WorkerId
  /\ NoBatch = 0
BY SchedulerAssumption DEF SchedulerAssumption, RequestId, BatchId, BootId, WorkerId, NoBatch

(* Removing an element from a sequence leaves a sequence over the same set. *)
LEMMA WithoutType ==
  ASSUME NEW S, NEW s \in Seq(S), NEW x
  PROVE  Without(s, x) \in Seq(S)
BY DEF Without, RemoveAt, Range

(* Replacing an element of a sequence leaves a sequence over the same set,  *)
(* and of the same length, whether the index is one of its indices or not.  *)
LEMMA ExceptType ==
  ASSUME NEW S, NEW s \in Seq(S), NEW i, NEW e \in S
  PROVE  [s EXCEPT ![i] = e] \in Seq(S) /\ Len([s EXCEPT ![i] = e]) = Len(s)
<1>1. s \in [1 .. Len(s) -> S] /\ Len(s) \in Nat
  BY LenProperties
<1>2. [s EXCEPT ![i] = e] \in [1 .. Len(s) -> S]
  BY <1>1
<1> QED
  BY <1>1, <1>2, IsASeq, LenProperties

(* Replacing one value of a function by one of its range's type. *)
LEMMA PutType ==
  ASSUME NEW S, NEW T, NEW f \in [S -> T], NEW x \in S, NEW e \in T
  PROVE  [f EXCEPT ![x] = e] \in [S -> T]
OBVIOUS

(* The two halves a split makes of a member list are lists of its members. *)
LEMMA HalvesRange ==
  ASSUME TypeOK, NEW b \in BatchId
  PROVE  /\ FirstHalf(b) \in Seq(Members(b)) /\ SecondHalf(b) \in Seq(Members(b))
         /\ Range(FirstHalf(b)) \subseteq Members(b) /\ Range(SecondHalf(b)) \subseteq Members(b)
<1>1. batches[b].members \in Seq(RequestId)
  BY DEF TypeOK, BatchRec
<1>2. batches[b].members \in Seq(Members(b))
  BY <1>1, SeqOfRange DEF Members
<1>3. Half(b) \in Nat /\ Half(b) <= Len(batches[b].members) /\ Len(batches[b].members) \in Nat
  <2>1. Len(batches[b].members) \in Nat
    BY <1>1
  <2>2. \A n \in Nat : n \div 2 \in Nat /\ n \div 2 <= n
    OBVIOUS
  <2> QED
    BY <2>1, <2>2 DEF Half
<1>4. FirstHalf(b) \in Seq(Members(b)) /\ SecondHalf(b) \in Seq(Members(b))
  <2>1. \A i \in 1 .. Len(batches[b].members) : batches[b].members[i] \in Members(b)
    BY <1>2
  <2>2. SubSeq(batches[b].members, 1, Half(b)) \in Seq(Members(b))
    BY <1>3, <2>1, SubSeqProperties
  <2>3. SubSeq(batches[b].members, Half(b) + 1, Len(batches[b].members)) \in Seq(Members(b))
    BY <1>3, <2>1, SubSeqProperties
  <2> QED
    BY <2>2, <2>3 DEF FirstHalf, SecondHalf
<1> QED
  BY <1>4, RangeOfSeq

LEMMA HalvesType ==
  ASSUME TypeOK, NEW b \in BatchId
  PROVE  FirstHalf(b) \in Seq(RequestId) /\ SecondHalf(b) \in Seq(RequestId)
<1>1. Members(b) \subseteq RequestId
  BY RangeOfSeq DEF TypeOK, BatchRec, Members
<1> QED
  BY <1>1, HalvesRange, SeqMonotonic

(* The record of a batch that does not exist yet is a batch record. *)
LEMMA NoBatchRecType == NoBatchRec \in BatchRec
<1>1. PICK m \in Offered : m \in Meta
  BY SchedulerAssumption DEF SchedulerAssumption
<1>2. (CHOOSE k \in {n.key : n \in Offered} : TRUE) \in Key
  BY <1>1, SchedulerAssumption DEF SchedulerAssumption, Meta
<1>3. NoOutcomes \in [RequestId -> Status \cup {"none"}]
  BY DEF NoOutcomes
<1> QED
  BY <1>2, <1>3, IdsNatural DEF NoBatchRec, BatchRec, BatchState, BatchTerminal

(* So is the idle record of the mutex. *)
LEMMA IdleType == Idle \in OpRec
BY DEF Idle, OpRec, Phase

(* The initial state has the types. *)
LEMMA InitType == Init => TypeOK
<1> SUFFICES ASSUME Init PROVE TypeOK
  OBVIOUS
<1>1. (CHOOSE m \in Offered : TRUE) \in Meta
  BY SchedulerAssumption DEF SchedulerAssumption
<1>2. meta \in [RequestId -> Meta]
  BY <1>1 DEF Init
<1>3. requests \in [RequestId -> RequestRec]
  BY DEF Init, RequestRec, RequestState, NoBatch
<1>4. workers \in [WorkerId -> [live: BOOLEAN, boot: BootId, size: Nat]]
  BY IdsNatural DEF Init
<1>5. /\ attempts \in [RequestId -> Seq(AttemptRec)] /\ sealedOrder \in Seq(BatchId)
      /\ batches \in [BatchId -> BatchRec]
  BY NoBatchRecType DEF Init
<1>6. /\ waiting \in [RequestId -> Nat]
      /\ formingByKey \in [Key -> BatchId \cup {NoBatch}]
      /\ served \in [Tenant -> Nat] /\ outstanding \in [Tenant -> Nat]
      /\ dispatches \subseteq Execution /\ OpOK
      /\ clock \in Nat /\ epoch \in Nat /\ merged \in Nat
      /\ lineage \in [BatchId -> LineageRec]
      /\ nextRequest \in Nat \ {0} /\ nextBatch \in Nat \ {0} /\ nextGeneration \in Nat \ {0}
  BY IdleType DEF Init, OpOK, Idle, LineageRec, NoLineage
<1> QED
  BY <1>2, <1>3, <1>4, <1>5, <1>6 DEF TypeOK

-----------------------------------------------------------------------------
(* Type correctness. *)

(* What a state change leaves of the types when it is confined to the       *)
(* requests, their attempts and the outcomes noted in their batches.        *)
LEMMA EndRequestType ==
  ASSUME TypeOK, NEW r \in RequestId, NEW state \in RequestState, NEW outcome \in Status,
         EndRequest(r, state, outcome)
  PROVE  attempts' \in [RequestId -> Seq(AttemptRec)]
<1>1. [state |-> state, outcome |-> outcome] \in AttemptRec
  BY DEF AttemptRec
<1>2. attempts[r] \in Seq(AttemptRec)
  BY DEF TypeOK
<1>3. [attempts[r] EXCEPT ![requests[r].attempt] = [state |-> state, outcome |-> outcome]]
        \in Seq(AttemptRec)
  BY <1>1, <1>2, ExceptType
<1> QED
  BY <1>3 DEF TypeOK, EndRequest

(* submit() *)
LEMMA SubmitType == TypeOK /\ Submit => TypeOK'
<1> SUFFICES ASSUME TypeOK, NEW m \in Offered,
                    SubmitExpired(m) \/ SubmitOversized(m) \/ SubmitDeferred(m) \/ SubmitAdmitted(m)
             PROVE  TypeOK'
  BY DEF Submit
<1>1. m \in Meta /\ m.tenant \in Tenant /\ m.work \in Nat
  BY SchedulerAssumption DEF SchedulerAssumption, Meta
<1>2. ASSUME NEW state \in RequestState, NEW outcome \in Status, NewRequest(m, state, outcome)
      PROVE  /\ nextRequest' \in Nat \ {0} /\ meta' \in [RequestId -> Meta]
             /\ requests' \in [RequestId -> RequestRec]
             /\ attempts' \in [RequestId -> Seq(AttemptRec)]
             /\ nextRequest \in RequestId
             /\ UNCHANGED <<nextBatch, nextGeneration, batchVars, served, envVars, op>>
  <2>1. <<[state |-> state, outcome |-> outcome]>> \in Seq(AttemptRec)
    BY DEF AttemptRec
  <2> QED
    BY <1>1, <1>2, <2>1, SMTT(20) DEF NewRequest, TypeOK, RequestRec, NoBatch
<1>3. {"expired", "rejected", "waiting", "eligible"} \subseteq RequestState
      /\ {"expired", "non_retryable_failure", "success"} \subseteq Status
  BY DEF RequestState, Terminal, WaitingState, Status
<1>4. CASE SubmitAdmitted(m)
  <2>1. waiting \in [RequestId -> Nat] /\ outstanding \in [Tenant -> Nat]
    BY DEF TypeOK
  <2>2. /\ nextRequest \in RequestId
        /\ waiting' = [waiting EXCEPT ![nextRequest] = @ + 1]
        /\ outstanding' = [outstanding EXCEPT ![m.tenant] = @ + m.work]
    BY <1>4 DEF SubmitAdmitted, NewRequest
  <2>3. waiting' \in [RequestId -> Nat] /\ outstanding' \in [Tenant -> Nat]
    BY <1>1, <2>1, <2>2
  <2> QED
    BY <1>2, <1>3, <1>4, <2>3 DEF SubmitAdmitted, TypeOK, OpOK, batchVars, envVars
<1>5. CASE SubmitExpired(m) \/ SubmitOversized(m) \/ SubmitDeferred(m)
  BY <1>2, <1>3, <1>5
     DEF SubmitExpired, SubmitOversized, SubmitDeferred, TypeOK, OpOK, batchVars, envVars
<1> QED
  BY <1>4, <1>5

(* cancel(), and the cancellation of the members expire() evicts. *)
LEMMA CancelType ==
  ASSUME TypeOK, NEW r \in RequestId, DoCancel(r)
  PROVE  /\ requests' \in [RequestId -> RequestRec]
         /\ attempts' \in [RequestId -> Seq(AttemptRec)]
         /\ waiting' \in [RequestId -> Nat]
         /\ batches' \in [BatchId -> BatchRec]
<1>1. "cancelled" \in RequestState /\ "cancelled" \in Status
  BY DEF RequestState, Terminal, Status
<1>2. /\ requests \in [RequestId -> RequestRec] /\ requests[r] \in RequestRec
      /\ batches \in [BatchId -> BatchRec]
  BY DEF TypeOK
<1>3. CASE CancelQueued(r)
  <2>1. attempts' \in [RequestId -> Seq(AttemptRec)]
    BY <1>1, <1>3, EndRequestType DEF CancelQueued
  <2>2. requests' \in [RequestId -> RequestRec]
    BY <1>1, <1>2, <1>3 DEF CancelQueued, RequestRec
  <2>3. waiting' \in [RequestId -> Nat]
    BY <1>3 DEF CancelQueued, TypeOK
  <2> QED
    BY <1>3, <2>1, <2>2, <2>3 DEF CancelQueued, TypeOK
<1>4. CASE CancelForming(r)
  <2>1. requests[r].batch \in BatchId
    BY <1>2, <1>4 DEF CancelForming, StateOfBatch, RequestRec
  <2>2. Without(batches[requests[r].batch].members, r) \in Seq(RequestId)
    BY <2>1, WithoutType DEF TypeOK, BatchRec
  <2>3. batches' \in [BatchId -> BatchRec]
    BY <1>2, <1>4, <2>1, <2>2 DEF CancelForming, BatchRec
  <2>4. requests' \in [RequestId -> RequestRec]
    BY <1>1, <1>2, <1>4 DEF CancelForming, RequestRec, NoBatch
  <2>5. attempts' \in [RequestId -> Seq(AttemptRec)]
    BY <1>1, <1>4, EndRequestType DEF CancelForming
  <2> QED
    BY <1>4, <2>3, <2>4, <2>5 DEF CancelForming, TypeOK
<1>5. CASE CancelSealed(r)
  <2>1. requests[r].batch \in BatchId
    BY <1>2, <1>5 DEF CancelSealed, StateOfBatch, RequestRec
  <2>2. batches' \in [BatchId -> BatchRec]
    BY <1>1, <1>2, <1>5, <2>1 DEF CancelSealed, BatchRec
  <2>3. requests' \in [RequestId -> RequestRec]
    BY <1>1, <1>2, <1>5 DEF CancelSealed, RequestRec
  <2>4. attempts' \in [RequestId -> Seq(AttemptRec)]
    BY <1>1, <1>5, EndRequestType DEF CancelSealed
  <2> QED
    BY <1>5, <2>2, <2>3, <2>4 DEF CancelSealed, TypeOK
<1> QED
  BY <1>3, <1>4, <1>5 DEF DoCancel

(* The first phase of expire() and tick(). *)
LEMMA ExpireType == TypeOK /\ ExpireWaiting => TypeOK'
<1> SUFFICES ASSUME TypeOK, ExpireWaiting PROVE TypeOK'
  OBVIOUS
<1>1. /\ requests \in [RequestId -> RequestRec] /\ waiting \in [RequestId -> Nat]
      /\ attempts \in [RequestId -> Seq(AttemptRec)] /\ op \in OpRec
  BY DEF TypeOK, OpOK
<1>2. waiting' \in [RequestId -> Nat]
  BY <1>1 DEF ExpireWaiting
<1>3. requests' \in [RequestId -> RequestRec]
  <2>1. \A r \in RequestId : [requests[r] EXCEPT !.state = "expired", !.queued = FALSE] \in RequestRec
    BY <1>1 DEF RequestRec, RequestState, Terminal
  <2> QED
    BY <1>1, <2>1 DEF ExpireWaiting
<1>4. attempts' \in [RequestId -> Seq(AttemptRec)]
  <2>1. [state |-> "expired", outcome |-> "expired"] \in AttemptRec
    BY DEF AttemptRec, RequestState, Terminal, Status
  <2>2. \A r \in RequestId : [attempts[r] EXCEPT ![requests[r].attempt] =
                               [state |-> "expired", outcome |-> "expired"]] \in Seq(AttemptRec)
    BY <1>1, <2>1, ExceptType
  <2> QED
    BY <1>1, <2>2 DEF ExpireWaiting
<1>5. OpOK'
  BY <1>1 DEF ExpireWaiting, OpOK, OpRec, Phase
<1> QED
  BY <1>2, <1>3, <1>4, <1>5 DEF ExpireWaiting, TypeOK, idVars, batchVars, fairVars, envVars

(* make_forming creates a batch record. *)
LEMMA MakeType ==
  ASSUME TypeOK, NEW k \in Key, MakeForming(k)
  PROVE  TypeOK'
<1>1. /\ batches \in [BatchId -> BatchRec] /\ nextBatch \in BatchId /\ nextGeneration \in Nat
      /\ epoch \in Nat /\ clock \in Nat /\ op \in OpRec
      /\ formingByKey \in [Key -> BatchId \cup {NoBatch}]
  BY DEF TypeOK, OpOK, MakeForming
<1>2. [NoBatchRec EXCEPT !.state = "forming", !.generation = nextGeneration,
         !.epoch = epoch, !.key = k, !.formed = clock] \in BatchRec
  BY <1>1, NoBatchRecType DEF BatchRec, BatchState
<1>3. batches' \in [BatchId -> BatchRec]
  BY <1>1, <1>2 DEF MakeForming
<1>4. formingByKey' \in [Key -> BatchId \cup {NoBatch}]
  BY <1>1 DEF MakeForming
<1>5. OpOK'
  BY <1>1 DEF MakeForming, OpOK, OpRec, Phase
<1>6. nextBatch' \in Nat \ {0} /\ nextGeneration' \in Nat \ {0}
  BY DEF MakeForming, TypeOK
<1> QED
  BY <1>3, <1>4, <1>5, <1>6 DEF MakeForming, TypeOK, requestVars, fairVars, envVars

(* fill_forming places requests. *)
LEMMA PlaceType ==
  ASSUME TypeOK, NEW r \in RequestId, Place(r)
  PROVE  TypeOK'
<1> DEFINE b == op.cur
<1>1. /\ batches \in [BatchId -> BatchRec] /\ requests \in [RequestId -> RequestRec]
      /\ waiting \in [RequestId -> Nat]
      /\ served \in [Tenant -> Nat] /\ outstanding \in [Tenant -> Nat]
      /\ meta[r].tenant \in Tenant /\ meta[r].work \in Nat
  BY DEF TypeOK, Meta
<1>2. waiting[r] > 0 /\ b \in BatchId
  BY DEF Place, IsPick, Candidates, TypeOK, OpOK
<1>3. batches' \in [BatchId -> BatchRec]
  <2>1. batches' = [batches EXCEPT ![b].members = Append(@, r)]
    BY DEF Place
  <2>2. Append(batches[b].members, r) \in Seq(RequestId)
    BY <1>1, <1>2 DEF BatchRec
  <2> DEFINE e == [batches[b] EXCEPT !.members = Append(@, r)]
  <2>3. batches' = [batches EXCEPT ![b] = e]
    BY <2>1
  <2>4. e \in BatchRec
    BY <1>1, <1>2, <2>2 DEF BatchRec
  <2> HIDE DEF e
  <2> QED
    BY <1>1, <1>2, <2>3, <2>4, PutType
<1>4. requests' \in [RequestId -> RequestRec]
  <2> DEFINE e == [requests[r] EXCEPT !.state = "reserved", !.batch = b, !.queued = FALSE]
  <2>1. requests' = [requests EXCEPT ![r] = e]
    BY DEF Place
  <2>2. e \in RequestRec
    BY <1>1, <1>2 DEF RequestRec, RequestState, InBatchState
  <2> HIDE DEF e
  <2> QED
    BY <1>1, <2>1, <2>2, PutType
<1>5. waiting' \in [RequestId -> Nat]
  BY <1>1, <1>2 DEF Place
<1>6. served' \in [Tenant -> Nat] /\ outstanding' \in [Tenant -> Nat]
  BY <1>1 DEF Place
<1> QED
  BY <1>3, <1>4, <1>5, <1>6 DEF Place, TypeOK, OpOK, idVars, envVars

(* make_forming dates the batch back to its first arrival. *)
LEMMA FillNewType == TypeOK /\ FillNewDone => TypeOK'
<1> SUFFICES ASSUME TypeOK, FillNewDone PROVE TypeOK'
  OBVIOUS
<1> DEFINE b == op.cur
<1>1. /\ batches \in [BatchId -> BatchRec] /\ op \in OpRec
      /\ requests \in [RequestId -> RequestRec] /\ clock \in Nat
      /\ b \in BatchId
  BY DEF TypeOK, OpOK, FillNewDone
<1>2. Members(b) \subseteq RequestId
  BY <1>1 DEF Members, Range, BatchRec
<1>3. \A r \in Members(b) : requests[r].submitted \in Nat
  BY <1>1, <1>2 DEF RequestRec
<1>4. PICK first \in Nat : batches' = [batches EXCEPT ![b].formed = first]
  BY <1>1, <1>3 DEF FillNewDone
<1>5. batches' \in [BatchId -> BatchRec]
  <2> DEFINE e == [batches[b] EXCEPT !.formed = first]
  <2>1. batches' = [batches EXCEPT ![b] = e]
    BY <1>4
  <2>2. e \in BatchRec
    BY <1>1 DEF BatchRec
  <2> HIDE DEF e
  <2> QED
    BY <1>1, <2>1, <2>2, PutType
<1>6. OpOK'
  BY <1>1 DEF FillNewDone, OpOK, OpRec, Phase, NoBatch
<1> QED
  BY <1>5, <1>6 DEF FillNewDone, TypeOK, requestVars, idVars, fairVars, envVars

(* do_seal *)
LEMMA SealType ==
  ASSUME TypeOK, NEW b \in BatchId, DoSeal(b)
  PROVE  /\ batches' \in [BatchId -> BatchRec] /\ requests' \in [RequestId -> RequestRec]
         /\ formingByKey' \in [Key -> BatchId \cup {NoBatch}] /\ sealedOrder' \in Seq(BatchId)
<1>1. /\ batches \in [BatchId -> BatchRec] /\ requests \in [RequestId -> RequestRec]
      /\ formingByKey \in [Key -> BatchId \cup {NoBatch}] /\ sealedOrder \in Seq(BatchId)
  BY DEF TypeOK
<1>2. batches' \in [BatchId -> BatchRec]
  <2> DEFINE e == [batches[b] EXCEPT !.state = "sealed"]
  <2>1. batches' = [batches EXCEPT ![b] = e]
    BY DEF DoSeal
  <2>2. e \in BatchRec
    BY <1>1 DEF BatchRec, BatchState
  <2> HIDE DEF e
  <2> QED
    BY <1>1, <2>1, <2>2, PutType
<1>3. requests' \in [RequestId -> RequestRec]
  <2>1. \A r \in RequestId : [requests[r] EXCEPT !.state = "batched"] \in RequestRec
    BY <1>1 DEF RequestRec, RequestState, InBatchState
  <2> QED
    BY <1>1, <2>1 DEF DoSeal
<1>4. formingByKey' \in [Key -> BatchId \cup {NoBatch}] /\ sealedOrder' \in Seq(BatchId)
  <2>1. /\ formingByKey' = [formingByKey EXCEPT ![batches[b].key] = NoBatch]
        /\ sealedOrder' = Append(sealedOrder, b)
    BY DEF DoSeal
  <2>2. formingByKey' \in [Key -> BatchId \cup {NoBatch}]
    BY <1>1, <2>1
  <2>3. sealedOrder' \in Seq(BatchId)
    BY <1>1, <2>1, AppendProperties
  <2> QED
    BY <2>2, <2>3
<1> QED
  BY <1>2, <1>3, <1>4

(* do_merge *)
LEMMA MergeType ==
  ASSUME TypeOK, NEW a \in BatchId, NEW b \in BatchId, DoMerge(a, b)
  PROVE  /\ batches' \in [BatchId -> BatchRec] /\ requests' \in [RequestId -> RequestRec]
         /\ formingByKey' \in [Key -> BatchId \cup {NoBatch}] /\ sealedOrder' \in Seq(BatchId)
         /\ merged' \in Nat /\ lineage' \in [BatchId -> LineageRec]
<1>1. /\ batches \in [BatchId -> BatchRec] /\ requests \in [RequestId -> RequestRec]
      /\ formingByKey \in [Key -> BatchId \cup {NoBatch}] /\ sealedOrder \in Seq(BatchId)
      /\ merged \in Nat
  BY DEF TypeOK
<1>2. batches' \in [BatchId -> BatchRec]
  <2>1. batches[a].members \o batches[b].members \in Seq(RequestId)
    BY <1>1 DEF BatchRec
  <2>2. batches' = [batches EXCEPT ![a].members = @ \o batches[b].members, ![b].state = "superseded"]
    BY DEF DoMerge
  <2>3. [batches EXCEPT ![a].members = @ \o batches[b].members] \in [BatchId -> BatchRec]
    BY <1>1, <2>1 DEF BatchRec
  <2>4. "superseded" \in BatchState
    BY DEF BatchState, BatchTerminal
  <2> QED
    BY <2>2, <2>3, <2>4, ZenonT(30) DEF BatchRec
<1>3. requests' \in [RequestId -> RequestRec]
  <2>1. \A r \in RequestId : [requests[r] EXCEPT !.batch = a] \in RequestRec
    BY <1>1 DEF RequestRec
  <2> QED
    BY <1>1, <2>1 DEF DoMerge
<1>4. sealedOrder' \in Seq(BatchId)
  BY <1>1, WithoutType DEF DoMerge
<1>5. formingByKey' \in [Key -> BatchId \cup {NoBatch}] /\ merged' \in Nat
  <2>1. /\ \/ formingByKey' = formingByKey
           \/ formingByKey' = [formingByKey EXCEPT ![batches[b].key] = a]
        /\ merged' = merged + 1
    BY DEF DoMerge
  <2> QED
    BY <1>1, <2>1
<1>6. lineage' \in [BatchId -> LineageRec]
  <2> DEFINE e == [parents  |-> Append(lineage[a].parents \o lineage[b].parents, b),
                   children |-> lineage[a].children \o lineage[b].children]
  <2>1. lineage \in [BatchId -> LineageRec]
    BY DEF TypeOK
  <2>2. e \in LineageRec
    BY <2>1 DEF LineageRec
  <2>3. lineage' = [lineage EXCEPT ![a] = e]
    BY DEF DoMerge
  <2> HIDE DEF e
  <2> QED
    BY <2>1, <2>2, <2>3
<1> QED
  BY <1>2, <1>3, <1>4, <1>5, <1>6

(* do_split *)
LEMMA SplitType ==
  ASSUME TypeOK, NEW b \in BatchId, DoSplit(b)
  PROVE  /\ batches' \in [BatchId -> BatchRec] /\ requests' \in [RequestId -> RequestRec]
         /\ formingByKey' \in [Key -> BatchId \cup {NoBatch}] /\ sealedOrder' \in Seq(BatchId)
         /\ nextBatch' \in Nat \ {0} /\ lineage' \in [BatchId -> LineageRec]
<1>1. /\ batches \in [BatchId -> BatchRec] /\ requests \in [RequestId -> RequestRec]
      /\ formingByKey \in [Key -> BatchId \cup {NoBatch}] /\ sealedOrder \in Seq(BatchId)
      /\ nextBatch \in Nat \ {0} /\ lineage \in [BatchId -> LineageRec]
  BY DEF TypeOK
<1>2. \A m \in Seq(RequestId) : Child(b, m) \in BatchRec
  BY <1>1, NoBatchRecType DEF Child, BatchRec, NoOutcomes
<1>3. FirstHalf(b) \in Seq(RequestId) /\ SecondHalf(b) \in Seq(RequestId)
  BY HalvesType
<1>4. ASSUME Rehome(b, nextBatch), nextBatch \in BatchId
      PROVE  requests' \in [RequestId -> RequestRec]
  <2>1. \A r \in RequestId : /\ [requests[r] EXCEPT !.batch = b] \in RequestRec
                             /\ [requests[r] EXCEPT !.batch = nextBatch] \in RequestRec
    BY <1>1, <1>4 DEF RequestRec
  <2>2. requests' = [r \in RequestId |-> requests'[r]]
    BY <1>4 DEF Rehome
  <2>3. \A r \in RequestId : requests'[r] \in RequestRec
    BY <1>1, <1>4, <2>1 DEF Rehome
  <2> QED
    BY <2>2, <2>3
<1>5. CASE SplitSealed(b)
  <2>1. /\ batches' = [batches EXCEPT
             ![b].members = FirstHalf(b), ![b].state = "superseded",
             ![nextBatch] = Child(b, SecondHalf(b)),
             ![nextBatch + 1] = Child(b, FirstHalf(b))]
        /\ nextBatch \in BatchId /\ nextBatch + 1 \in BatchId
    BY <1>1, <1>5, SchedulerAssumption, SMTT(30) DEF SplitSealed, BatchId, SchedulerAssumption
  <2>2. batches' \in [BatchId -> BatchRec]
    <3>1. [batches EXCEPT ![b].members = FirstHalf(b), ![b].state = "superseded"]
            \in [BatchId -> BatchRec]
      <4> DEFINE e == [batches[b] EXCEPT !.members = FirstHalf(b), !.state = "superseded"]
      <4>1. [batches EXCEPT ![b].members = FirstHalf(b), ![b].state = "superseded"]
              = [batches EXCEPT ![b] = e]
        OBVIOUS
      <4>2. e \in BatchRec
        <5>1. "superseded" \in BatchState
          BY DEF BatchState, BatchTerminal
        <5> QED
          BY <1>1, <1>3, <5>1 DEF BatchRec
      <4> HIDE DEF e
      <4> QED
        BY <1>1, <4>1, <4>2, PutType
    <3> QED
      BY <1>2, <1>3, <2>1, <3>1
  <2>3. sealedOrder' \in Seq(BatchId)
    BY <1>1, <1>5, <2>1, WithoutType DEF SplitSealed
  <2>4. Rehome(b, nextBatch) /\ nextBatch' = nextBatch + 2 /\ formingByKey' = formingByKey
    BY <1>5 DEF SplitSealed
  <2>5. requests' \in [RequestId -> RequestRec]
    BY <1>4, <2>1, <2>4
  <2>6. lineage' \in [BatchId -> LineageRec]
    <3> DEFINE e == [lineage[b] EXCEPT !.children = @ \o <<nextBatch, nextBatch + 1>>]
               f == [parents |-> <<b, nextBatch + 1>>, children |-> <<>>]
               g == [parents |-> <<b>>, children |-> <<nextBatch>>]
    <3>1. lineage' = [lineage EXCEPT ![b] = e, ![nextBatch] = f, ![nextBatch + 1] = g]
      BY <1>5 DEF SplitSealed
    <3>2. e \in LineageRec /\ f \in LineageRec /\ g \in LineageRec
      <4>1. /\ <<nextBatch, nextBatch + 1>> \in Seq(BatchId) /\ <<b, nextBatch + 1>> \in Seq(BatchId)
            /\ <<b>> \in Seq(BatchId) /\ <<nextBatch>> \in Seq(BatchId) /\ <<>> \in Seq(BatchId)
        BY <2>1
      <4>2. lineage[b] \in LineageRec
        BY <1>1
      <4>3. lineage[b].children \o <<nextBatch, nextBatch + 1>> \in Seq(BatchId)
        BY <4>1, <4>2 DEF LineageRec
      <4> QED
        BY <4>1, <4>2, <4>3 DEF LineageRec
    <3> HIDE DEF e, f, g
    <3> QED
      BY <1>1, <2>1, <3>1, <3>2
  <2> QED
    BY <1>1, <2>2, <2>3, <2>4, <2>5, <2>6
<1>6. CASE SplitOpen(b)
  <2>1. /\ batches' = [batches EXCEPT ![b].members = FirstHalf(b),
                                     ![nextBatch] = Child(b, SecondHalf(b))]
        /\ nextBatch \in BatchId
    BY <1>6 DEF SplitOpen
  <2>2. batches' \in [BatchId -> BatchRec]
    <3>1. [batches EXCEPT ![b].members = FirstHalf(b)] \in [BatchId -> BatchRec]
      BY <1>1, <1>3 DEF BatchRec
    <3> QED
      BY <1>2, <1>3, <2>1, <3>1
  <2>3. /\ Rehome(b, nextBatch) /\ nextBatch' = nextBatch + 1 /\ sealedOrder' = sealedOrder
        /\ formingByKey' = [formingByKey EXCEPT ![batches[b].key] = b]
    BY <1>6 DEF SplitOpen
  <2>4. formingByKey' \in [Key -> BatchId \cup {NoBatch}]
    BY <1>1, <2>3
  <2>5. lineage' \in [BatchId -> LineageRec]
    <3> DEFINE e == [lineage[b] EXCEPT !.children = Append(@, nextBatch)]
               f == [parents |-> <<b>>, children |-> <<>>]
    <3>1. lineage' = [lineage EXCEPT ![b] = e, ![nextBatch] = f]
      BY <1>6 DEF SplitOpen
    <3>2. e \in LineageRec /\ f \in LineageRec
      <4>1. <<b>> \in Seq(BatchId) /\ <<>> \in Seq(BatchId) /\ lineage[b] \in LineageRec
        BY <1>1
      <4>2. Append(lineage[b].children, nextBatch) \in Seq(BatchId)
        BY <2>1, <4>1, AppendProperties DEF LineageRec
      <4> QED
        BY <4>1, <4>2 DEF LineageRec
    <3> HIDE DEF e, f
    <3> QED
      BY <1>1, <2>1, <3>1, <3>2
  <2> QED
    BY <1>1, <1>4, <2>1, <2>2, <2>3, <2>4, <2>5
<1> QED
  BY <1>5, <1>6 DEF DoSplit

(* What a retry does to a request and to the index. *)
LEMMA RequeueType ==
  ASSUME TypeOK, NEW r \in RequestId, Requeue(r)
  PROVE  requests' \in [RequestId -> RequestRec] /\ waiting' \in [RequestId -> Nat]
<1>1. /\ requests \in [RequestId -> RequestRec] /\ waiting \in [RequestId -> Nat]
      /\ "eligible" \in RequestState
  BY DEF TypeOK, RequestState, WaitingState
<1>2. requests' = [requests EXCEPT ![r].state = "eligible", ![r].attempt = @ + 1,
                                   ![r].batch = NoBatch, ![r].queued = TRUE]
  BY DEF Requeue
<1>3. requests[r].attempt + 1 \in Nat
  BY <1>1 DEF RequestRec
<1>4. requests' \in [RequestId -> RequestRec]
  BY <1>1, <1>2, <1>3 DEF RequestRec
<1>5. waiting' \in [RequestId -> Nat]
  BY <1>1 DEF Requeue
<1> QED
  BY <1>4, <1>5

(* apply_member_outcome *)
LEMMA OutcomeType ==
  ASSUME TypeOK, NEW r \in RequestId, NEW status \in Status, ApplyOutcome(r, status)
  PROVE  /\ requests' \in [RequestId -> RequestRec] /\ waiting' \in [RequestId -> Nat]
         /\ attempts' \in [RequestId -> Seq(AttemptRec)] /\ batches' \in [BatchId -> BatchRec]
         /\ outstanding' \in [Tenant -> Nat]
<1>1. /\ requests \in [RequestId -> RequestRec] /\ waiting \in [RequestId -> Nat]
      /\ attempts \in [RequestId -> Seq(AttemptRec)] /\ batches \in [BatchId -> BatchRec]
      /\ outstanding \in [Tenant -> Nat] /\ meta[r].tenant \in Tenant /\ meta[r].work \in Nat
  BY DEF TypeOK, Meta
<1>2. ASSUME NoteOutcome(r, status) PROVE batches' \in [BatchId -> BatchRec]
  <2>1. requests[r].batch \in BatchId \cup {NoBatch}
    BY <1>1 DEF RequestRec
  <2>2. ASSUME NEW b \in BatchId
        PROVE  [batches EXCEPT ![b].outcomes[r] = status] \in [BatchId -> BatchRec]
    <3> DEFINE e == [batches[b] EXCEPT !.outcomes[r] = status]
               g == [batches EXCEPT ![b].outcomes[r] = status]
    <3>1. g = [batches EXCEPT ![b] = e]
      OBVIOUS
    <3>2. e \in BatchRec
      BY <1>1 DEF BatchRec
    <3> HIDE DEF e, g
    <3> QED
      <4>1. g \in [BatchId -> BatchRec]
        BY <1>1, <3>1, <3>2, PutType
      <4> QED
        BY <4>1 DEF g
  <2> QED
    BY <1>1, <1>2, <2>1, <2>2 DEF NoteOutcome
<1>3. CASE ApplyIgnored(status)
  BY <1>1, <1>3 DEF ApplyIgnored, requestVars
<1>4. CASE ApplyFinal(r, status)
  <2>1. FinalState[status] \in RequestState /\ status \in DOMAIN FinalState
    BY <1>4 DEF ApplyFinal, FinalState, RequestState, Terminal
  <2>2. requests' \in [RequestId -> RequestRec]
    BY <1>1, <1>4, <2>1 DEF ApplyFinal, RequestRec
  <2>3. attempts' \in [RequestId -> Seq(AttemptRec)]
    BY <1>4, <2>1, EndRequestType DEF ApplyFinal
  <2>4. outstanding' \in [Tenant -> Nat]
    <3>1. Release(outstanding[meta[r].tenant], meta[r].work) \in Nat
      BY <1>1 DEF Release
    <3>2. \/ outstanding' = outstanding
          \/ outstanding' = [outstanding EXCEPT ![meta[r].tenant] =
                               Release(outstanding[meta[r].tenant], meta[r].work)]
      BY <1>4 DEF ApplyFinal
    <3> QED
      BY <1>1, <3>1, <3>2
  <2> QED
    BY <1>1, <1>2, <1>4, <2>2, <2>3, <2>4 DEF ApplyFinal
<1>5. CASE ApplyRetry(r, status)
  <2>1. attempts' \in [RequestId -> Seq(AttemptRec)]
    <3>1. [state |-> "failed", outcome |-> status] \in AttemptRec /\ Eligible \in AttemptRec
      BY DEF AttemptRec, Eligible, RequestState, Terminal, WaitingState, Status
    <3>2. [attempts[r] EXCEPT ![requests[r].attempt] = [state |-> "failed", outcome |-> status]]
            \in Seq(AttemptRec)
      BY <1>1, <3>1, ExceptType
    <3>3. Append([attempts[r] EXCEPT ![requests[r].attempt] =
                    [state |-> "failed", outcome |-> status]], Eligible) \in Seq(AttemptRec)
      BY <3>1, <3>2, AppendProperties
    <3>4. attempts' = [attempts EXCEPT ![r] =
            Append([@ EXCEPT ![requests[r].attempt] = [state |-> "failed", outcome |-> status]],
                   Eligible)]
      BY <1>5 DEF ApplyRetry
    <3> QED
      BY <1>1, <3>3, <3>4
  <2> QED
    BY <1>1, <1>2, <1>5, <2>1, RequeueType DEF ApplyRetry
<1> QED
  BY <1>3, <1>4, <1>5 DEF ApplyOutcome

(* The members a report tells something about. *)
LEMMA ReportType ==
  ASSUME TypeOK, NEW b \in BatchId, NEW attempt, NEW told \in SUBSET RequestId,
         NEW report \in [told -> Status], BeginReport(b, attempt, report)
  PROVE  OpOK'
<1> DEFINE full == [r \in RequestId |-> IF r \in DOMAIN report THEN report[r] ELSE "none"]
           todo == {r \in DOMAIN report : requests[r].attempt = attempt[r] /\ Open(r)}
<1>1. full \in [RequestId -> Status \cup {"none"}] /\ \A r \in told : full[r] \in Status
  OBVIOUS
<1>2. op' = [Idle EXCEPT !.pc = "complete", !.cur = b, !.todo = todo, !.report = full]
  BY DEF BeginReport
<1>3. todo \subseteq told
  OBVIOUS
<1> HIDE DEF full, todo
<1>4. op' \in OpRec
  BY <1>1, <1>2, <1>3, IdleType DEF OpRec, Phase
<1>5. op'.cur = b /\ op'.todo = todo /\ op'.report = full
  BY <1>2 DEF Idle
<1> QED
  BY <1>1, <1>3, <1>4, <1>5 DEF OpOK

(* Handing a batch out sets its state, worker and boot. *)
LEMMA HandOut ==
  ASSUME NEW f \in [BatchId -> BatchRec], NEW b \in BatchId, NEW state \in BatchState,
         NEW w \in WorkerId, NEW boot \in BootId, NEW g,
         g = [f EXCEPT ![b].state = state, ![b].worker = w, ![b].boot = boot]
  PROVE  g \in [BatchId -> BatchRec]
<1> DEFINE rec == [f[b] EXCEPT !.state = state, !.worker = w, !.boot = boot]
<1>1. rec \in BatchRec
  BY DEF BatchRec
<1>2. g = [f EXCEPT ![b] = rec]
  OBVIOUS
<1> HIDE DEF rec
<1> QED
  BY <1>1, <1>2

(* Every step of every method keeps the types. *)
LEMMA TypeStep == TypeOK /\ [Next]_vars => TypeOK'
<1> SUFFICES ASSUME TypeOK, [Next]_vars PROVE TypeOK'
  OBVIOUS
<1>types. /\ op \in OpRec /\ batches \in [BatchId -> BatchRec]
          /\ requests \in [RequestId -> RequestRec] /\ attempts \in [RequestId -> Seq(AttemptRec)]
  BY DEF TypeOK, OpOK
<1>idle. op' = Idle => OpOK'
  BY IdleType DEF OpOK, Idle
<1>same. op' = op => OpOK'
  BY DEF TypeOK, OpOK
<1> USE DEF requestVars, idVars, batchVars, fairVars, envVars
<1>1. CASE Submit
  BY <1>1, SubmitType
<1>2. CASE Tick \/ Expire
  <2>1. OpOK'
    <3>1. CASE Tick
      BY <3>1, IdleType DEF Tick, Idle, OpOK, OpRec, Phase
    <3>2. CASE Expire
      BY <3>2, IdleType DEF Expire, Idle, OpOK, OpRec, Phase
    <3> QED
      BY <1>2, <3>1, <3>2
  <2> QED
    BY <1>2, <2>1 DEF Tick, Expire, TypeOK
<1>3. CASE RollEpoch \/ AdvanceClock \/ EnterLate
  BY <1>3, <1>same, SMTT(20) DEF RollEpoch, AdvanceClock, EnterLate, TypeOK
<1>4. CASE ExpireWaiting \/ FillNewDone
  BY <1>4, ExpireType, FillNewType
<1>5. CASE EvictDone \/ MakeDone \/ FormDone \/ MergeDone \/ TickDone \/ FailDone
  <2>1. CASE EvictDone
    BY <2>1, IdleType DEF EvictDone, Idle, OpOK, OpRec, Phase, TypeOK
  <2>2. CASE MakeDone
    <3>1. {formingByKey[k] : k \in Key} \ {NoBatch} \subseteq BatchId
      BY DEF TypeOK
    <3>2. OpOK'
      BY <1>types, <2>2, <3>1 DEF MakeDone, OpOK, OpRec, Phase
    <3> QED
      BY <2>2, <3>2 DEF MakeDone, TypeOK
  <2>3. CASE FormDone
    <3>1. Neighbours \subseteq BatchId \X BatchId
      BY DEF Neighbours
    <3>2. OpOK'
      BY <2>3, <3>1, IdleType DEF FormDone, Idle, OpOK, OpRec, Phase
    <3> QED
      BY <2>3, <3>2 DEF FormDone, TypeOK
  <2>4. CASE MergeDone
    BY <2>4, IdleType DEF MergeDone, Idle, OpOK, OpRec, Phase, TypeOK
  <2>5. CASE TickDone \/ FailDone
    BY <2>5, <1>idle DEF TickDone, FailDone, TypeOK
  <2> QED
    BY <1>5, <2>1, <2>2, <2>3, <2>4, <2>5
<1>6. CASE FillDone
  <2>1. OpOK'
    BY <1>6, <1>types DEF FillDone, OpOK, OpRec, Phase, NoBatch
  <2>2. CASE UNCHANGED <<requests, batches, formingByKey, sealedOrder>>
    BY <1>6, <2>1, <2>2 DEF FillDone, TypeOK
  <2>3. CASE DoSeal(op.cur)
    <3>1. op.cur \in BatchId
      BY <1>6 DEF FillDone, TypeOK, OpOK
    <3> QED
      BY <1>6, <2>1, <2>3, <3>1, SealType DEF FillDone, TypeOK
  <2> QED
    BY <1>6, <2>2, <2>3 DEF FillDone
<1>7. CASE SplitStep
  <2>1. OpOK'
    <3>1. op.pc = "split" /\ op' = [op EXCEPT !.pos = @ + 1]
      BY <1>7 DEF SplitStep
    <3>2. op.pos + 1 \in Nat
      BY <1>types DEF OpRec
    <3>3. op' \in OpRec
      BY <1>types, <3>1, <3>2 DEF OpRec
    <3>4. op'.pc = "split"
      BY <1>types, <3>1 DEF OpRec
    <3> QED
      BY <3>3, <3>4 DEF OpOK
  <2>2. sealedOrder[op.pos] \in BatchId
    BY <1>7 DEF SplitStep, TypeOK
  <2>3. CASE DoSplit(sealedOrder[op.pos])
    BY <1>7, <2>1, <2>2, <2>3, SplitType DEF SplitStep, DoSplit, TypeOK
  <2>4. CASE UNCHANGED <<requestVars, idVars, batchVars, fairVars, envVars>>
    BY <1>7, <2>1, <2>4 DEF SplitStep, TypeOK
  <2> QED
    BY <1>7, <2>3, <2>4 DEF SplitStep
<1>8. CASE CompleteDone
  <2>1. op.cur \in BatchId
    BY <1>8 DEF CompleteDone, TypeOK, OpOK
  <2>2. PICK state \in BatchState : batches' = [batches EXCEPT ![op.cur].state = state]
    BY <1>8 DEF CompleteDone, BatchState, BatchTerminal
  <2>3. batches' \in [BatchId -> BatchRec]
    BY <1>types, <2>1, <2>2 DEF BatchRec
  <2> QED
    BY <1>8, <1>idle, <2>3 DEF CompleteDone, TypeOK
<1>9. ASSUME NEW r \in RequestId, EvictMember(r) PROVE TypeOK'
  <2>1. OpOK'
    BY <1>9, <1>types DEF EvictMember, OpOK, OpRec
  <2>2. CASE DoCancel(r)
    BY <1>9, <2>1, <2>2, CancelType DEF EvictMember, DoCancel, TypeOK
  <2>3. CASE UNCHANGED <<requestVars, idVars, batchVars, fairVars, envVars>>
    BY <1>9, <2>1, <2>3 DEF EvictMember, TypeOK
  <2> QED
    BY <1>9, <2>2, <2>3 DEF EvictMember
<1>10. ASSUME NEW r \in RequestId, Place(r) PROVE TypeOK'
  BY <1>10, PlaceType
<1>11. ASSUME NEW r \in RequestId, CompleteMember(r) PROVE TypeOK'
  <2>1. OpOK'
    BY <1>11, <1>types DEF CompleteMember, TypeOK, OpOK, OpRec
  <2>2. op.report[r] \in Status /\ ApplyOutcome(r, op.report[r])
    BY <1>11 DEF CompleteMember, TypeOK, OpOK
  <2> QED
    BY <1>11, <2>1, <2>2, OutcomeType DEF ApplyOutcome, TypeOK
<1>12. ASSUME NEW r \in RequestId, FailMember(r) PROVE TypeOK'
  <2>1. OpOK'
    BY <1>12, <1>types DEF FailMember, OpOK, OpRec
  <2>2. "retryable_failure" \in Status
    BY DEF Status
  <2> QED
    BY <1>12, <2>1, <2>2, OutcomeType DEF FailMember, ApplyOutcome, TypeOK
<1>13. ASSUME NEW k \in Key, MakeForming(k) PROVE TypeOK'
  BY <1>13, MakeType
<1>14. ASSUME NEW b \in BatchId, FormNext(b) PROVE TypeOK'
  <2>1. OpOK'
    BY <1>14, <1>types DEF FormNext, OpOK, OpRec, Phase, TypeOK
  <2> QED
    BY <1>14, <2>1 DEF FormNext, TypeOK
<1>15. ASSUME NEW a \in BatchId, NEW b \in BatchId, MergePair(a, b) PROVE TypeOK'
  <2>1. OpOK'
    BY <1>15, <1>types DEF MergePair, OpOK, OpRec
  <2>2. CASE DoMerge(a, b)
    BY <1>15, <2>1, <2>2, MergeType DEF MergePair, DoMerge, TypeOK
  <2>3. CASE UNCHANGED <<requestVars, idVars, batchVars, fairVars, envVars>>
    BY <1>15, <2>1, <2>3 DEF MergePair, TypeOK
  <2> QED
    BY <1>15, <2>2, <2>3 DEF MergePair
<1>16. ASSUME NEW r \in RequestId, Cancel(r) PROVE TypeOK'
  BY <1>16, <1>same, CancelType DEF Cancel, DoCancel, TypeOK
<1>17. ASSUME NEW r \in RequestId, Retry(r) PROVE TypeOK'
  <2>1. OpOK'
    BY <1>17, IdleType DEF Retry, Idle, OpOK, OpRec, Phase
  <2>2. attempts' \in [RequestId -> Seq(AttemptRec)]
    <3>1. Append(attempts[r], Eligible) \in Seq(AttemptRec)
      <4>1. Eligible \in AttemptRec
        BY DEF Eligible, AttemptRec, RequestState, WaitingState, Status
      <4> QED
        BY <1>types, <4>1, AppendProperties
    <3> QED
      BY <1>17, <1>types, <3>1 DEF Retry
  <2> QED
    BY <1>17, <2>1, <2>2, RequeueType DEF Retry, TypeOK
<1>18. ASSUME NEW b \in BatchId, Seal(b) PROVE TypeOK'
  BY <1>18, <1>same, SealType DEF Seal, TypeOK
<1>19. ASSUME NEW b \in BatchId, Split(b) PROVE TypeOK'
  BY <1>19, <1>same, SplitType DEF Split, DoSplit, TypeOK
<1>20. ASSUME NEW a \in BatchId, NEW b \in BatchId, Merge(a, b) PROVE TypeOK'
  BY <1>20, <1>same, MergeType DEF Merge, DoMerge, TypeOK
<1>21. ASSUME NEW x \in dispatches, Complete(x) PROVE TypeOK'
  <2>1. x.batch \in BatchId
    BY DEF TypeOK, Execution
  <2>2. PICK told \in SUBSET {r \in RequestId : x.attempt[r] # 0} :
          \E report \in [told -> ReportStatus] : BeginReport(x.batch, x.attempt, report)
    BY <1>21 DEF Complete
  <2>3. PICK report \in [told -> ReportStatus] : BeginReport(x.batch, x.attempt, report)
    BY <2>2
  <2>4. report \in [told -> Status]
    BY SchedulerAssumption DEF SchedulerAssumption
  <2>5. OpOK'
    BY <2>1, <2>2, <2>3, <2>4, ReportType
  <2> QED
    BY <1>21, <2>5 DEF Complete, TypeOK
<1>22. ASSUME NEW b \in BatchId, NEW state \in RequestState, Advance(b, state)
       PROVE  requests' \in [RequestId -> RequestRec]
  <2>1. \A r \in RequestId : [requests[r] EXCEPT !.state = state] \in RequestRec
    BY <1>types DEF RequestRec
  <2> QED
    BY <1>22, <1>types, <2>1 DEF Advance
<1>23. ASSUME NEW b \in BatchId, NEW w \in Worker, PrepareDispatch(b, w) PROVE TypeOK'
  <2>1. workers[w].boot \in BootId /\ w \in WorkerId
    BY DEF TypeOK, WorkerId
  <2>2. batches' \in [BatchId -> BatchRec]
    <3>1. /\ batches' = [batches EXCEPT ![b].state = "dispatched", ![b].worker = w,
                                       ![b].boot = workers[w].boot]
          /\ "dispatched" \in BatchState
      BY <1>23 DEF PrepareDispatch, BatchState
    <3> QED
      BY <1>types, <2>1, <3>1, HandOut
  <2>3. requests' \in [RequestId -> RequestRec]
    BY <1>22, <1>23 DEF PrepareDispatch, RequestState, InBatchState
  <2>4. dispatches' \subseteq Execution
    <3>1. CurrentAttempts(b) \in [RequestId -> Nat]
      BY <1>types DEF CurrentAttempts, RequestRec
    <3>2. [batch |-> b, generation |-> batches[b].generation, epoch |-> batches[b].epoch,
           worker |-> w, boot |-> workers[w].boot, attempt |-> CurrentAttempts(b)] \in Execution
      BY <1>types, <2>1, <3>1 DEF Execution, BatchRec
    <3> QED
      BY <1>23, <3>2 DEF PrepareDispatch, TypeOK
  <2> QED
    BY <1>23, <1>same, <2>2, <2>3, <2>4 DEF PrepareDispatch, TypeOK
<1>24. ASSUME NEW b \in BatchId, StartRun(b), OpOK' PROVE TypeOK'
  <2>1. workers[0].boot \in BootId /\ 0 \in WorkerId
    BY IdsNatural DEF TypeOK
  <2>2. batches' \in [BatchId -> BatchRec]
    <3>1. /\ batches' = [batches EXCEPT ![b].state = "running", ![b].worker = 0,
                                       ![b].boot = workers[0].boot]
          /\ "running" \in BatchState
      BY <1>24 DEF StartRun, BatchState
    <3> QED
      BY <1>types, <2>1, <3>1, HandOut
  <2>3. requests' \in [RequestId -> RequestRec]
    BY <1>22, <1>24 DEF StartRun, RequestState, InBatchState
  <2> QED
    BY <1>24, <2>2, <2>3 DEF StartRun, TypeOK
<1>25. ASSUME NEW b \in BatchId PROVE Members(b) \subseteq RequestId
  BY <1>types DEF Members, Range, BatchRec
<1>26. ASSUME NEW b \in BatchId, RunOk(b) PROVE TypeOK'
  <2>1. CASE BeginReport(b, CurrentAttempts(b), [r \in Members(b) |-> "success"])
    <3>1. [r \in Members(b) |-> "success"] \in [Members(b) -> Status]
      BY DEF Status
    <3>2. OpOK'
      BY <1>25, <2>1, <3>1, ReportType
    <3> QED
      BY <1>24, <1>26, <3>2 DEF RunOk
  <2>2. CASE UNCHANGED op
    BY <1>24, <1>26, <1>same, <2>2 DEF RunOk
  <2> QED
    BY <1>26, <2>1, <2>2 DEF RunOk
<1>27. ASSUME NEW b \in BatchId, RunFailed(b) PROVE TypeOK'
  <2>1. op' = [Idle EXCEPT !.pc = "fail", !.todo = Members(b)]
    BY <1>27 DEF RunFailed
  <2>2. OpOK'
    BY <1>25, <2>1, IdleType DEF Idle, OpOK, OpRec, Phase
  <2> QED
    BY <1>24, <1>27, <2>2 DEF RunFailed
<1>28. ASSUME NEW w \in Worker, NEW boot \in BootId, NEW size \in WorkerSizes,
              RegisterWorker(w, boot, size)
       PROVE  TypeOK'
  <2>1. size \in Nat
    BY SchedulerAssumption DEF SchedulerAssumption
  <2> QED
    BY <1>28, <1>same, <2>1 DEF RegisterWorker, TypeOK
<1>29. CASE UNCHANGED vars
  BY <1>29, <1>same DEF vars, TypeOK
<1> QED
  BY <1>1, <1>2, <1>3, <1>4, <1>5, <1>6, <1>7, <1>8, <1>9, <1>10, <1>11, <1>12, <1>13, <1>14,
     <1>15, <1>16, <1>17, <1>18, <1>19, <1>20, <1>21, <1>23, <1>26, <1>27, <1>28, <1>29
     DEF Next, OpStep

(* Type correctness: every behaviour of the scheduler keeps its records     *)
(* well formed, whatever is submitted, cancelled, retried or reported.      *)
THEOREM TypeCorrect == Spec => []TypeOK
BY InitType, TypeStep, PTL DEF Spec

-----------------------------------------------------------------------------
(* Who can be a member. *)

(* Removing an element from a sequence adds none. *)
LEMMA WithoutRange ==
  ASSUME NEW S, NEW s \in Seq(S), NEW x
  PROVE  Range(Without(s, x)) \subseteq Range(s)
<1>1. s \in Seq(Range(s))
  BY SeqOfRange
<1>2. Without(s, x) \in Seq(Range(s))
  BY <1>1, WithoutType
<1> QED
  BY <1>2, RangeOfSeq

(* The sets of members before and after a step, batch by batch. *)
LEMMA MembersOf ==
  /\ AllMembers = UNION {Members(b) : b \in BatchId}
  /\ \A r : r \in AllMembers' <=> \E b \in BatchId : r \in Range(batches'[b].members)
BY DEF AllMembers, Members

(* No method but a fill adds a member to any batch. *)
LEMMA CancelMembers ==
  ASSUME TypeOK, NEW r \in RequestId, DoCancel(r)
  PROVE  AllMembers' \subseteq AllMembers
<1>1. batches \in [BatchId -> BatchRec] /\ requests[r].batch \in BatchId \cup {NoBatch}
  BY DEF TypeOK, RequestRec
<1>2. CASE CancelQueued(r)
  BY <1>2 DEF CancelQueued, AllMembers, Members
<1>3. CASE CancelForming(r)
  <2>1. requests[r].batch \in BatchId
    BY <1>1, <1>3 DEF CancelForming, StateOfBatch
  <2>2. Range(Without(batches[requests[r].batch].members, r)) \subseteq Members(requests[r].batch)
    BY <1>1, <2>1, WithoutRange DEF BatchRec, Members
  <2>3. \A c \in BatchId : Range(batches'[c].members) \subseteq Members(c)
    BY <1>1, <1>3, <2>1, <2>2 DEF CancelForming, BatchRec, Members
  <2> QED
    BY <2>3, MembersOf
<1>4. CASE CancelSealed(r)
  <2>1. requests[r].batch \in BatchId
    BY <1>1, <1>4 DEF CancelSealed, StateOfBatch
  <2>2. \A c \in BatchId : batches'[c].members = batches[c].members
    BY <1>1, <1>4, <2>1 DEF CancelSealed, BatchRec
  <2> QED
    BY <2>2, MembersOf DEF Members
<1> QED
  BY <1>2, <1>3, <1>4 DEF DoCancel

LEMMA SealMembers ==
  ASSUME TypeOK, NEW b \in BatchId, DoSeal(b)
  PROVE  AllMembers' \subseteq AllMembers
<1>1. batches \in [BatchId -> BatchRec]
  BY DEF TypeOK
<1>2. \A c \in BatchId : batches'[c].members = batches[c].members
  BY <1>1 DEF DoSeal, BatchRec
<1> QED
  BY <1>2, MembersOf DEF Members

LEMMA MergeMembers ==
  ASSUME TypeOK, NEW a \in BatchId, NEW b \in BatchId, DoMerge(a, b)
  PROVE  AllMembers' \subseteq AllMembers
<1>1. batches \in [BatchId -> BatchRec]
  BY DEF TypeOK
<1>2. batches' = [batches EXCEPT ![a].members = @ \o batches[b].members, ![b].state = "superseded"]
  BY DEF DoMerge
<1>3. Range(batches[a].members \o batches[b].members) \subseteq Members(a) \cup Members(b)
  BY <1>1, RangeConcatenation DEF BatchRec, Members
<1>4. \A c \in BatchId : batches'[c].members =
        IF c = a THEN batches[a].members \o batches[b].members ELSE batches[c].members
  BY <1>1, <1>2 DEF BatchRec
<1> QED
  BY <1>3, <1>4, MembersOf DEF Members

LEMMA SplitMembers ==
  ASSUME TypeOK, NEW b \in BatchId, DoSplit(b)
  PROVE  AllMembers' \subseteq AllMembers
<1>1. batches \in [BatchId -> BatchRec]
  BY DEF TypeOK
<1>2. \A m : Child(b, m).members = m
  BY <1>1 DEF Child, BatchRec
<1>3. Range(FirstHalf(b)) \subseteq Members(b) /\ Range(SecondHalf(b)) \subseteq Members(b)
  BY HalvesRange
<1>4. \A c \in BatchId : \/ batches'[c].members = batches[c].members
                         \/ batches'[c].members = FirstHalf(b)
                         \/ batches'[c].members = SecondHalf(b)
  <2>1. CASE SplitSealed(b)
    <3>1. batches' = [batches EXCEPT
             ![b].members = FirstHalf(b), ![b].state = "superseded",
             ![nextBatch] = Child(b, SecondHalf(b)),
             ![nextBatch + 1] = Child(b, FirstHalf(b))]
      BY <2>1 DEF SplitSealed
    <3>2. /\ [batches EXCEPT ![b].members = FirstHalf(b), ![b].state = "superseded"]
               \in [BatchId -> BatchRec]
          /\ \A c \in BatchId :
               [batches EXCEPT ![b].members = FirstHalf(b), ![b].state = "superseded"][c].members
                 = IF c = b THEN FirstHalf(b) ELSE batches[c].members
      <4>1. "superseded" \in BatchState
        BY DEF BatchState, BatchTerminal
      <4> QED
        BY <1>1, <4>1, HalvesType, ZenonT(30) DEF BatchRec
    <3> QED
      BY <1>2, <3>1, <3>2
  <2>2. CASE SplitOpen(b)
    <3>1. batches' = [batches EXCEPT ![b].members = FirstHalf(b),
                                     ![nextBatch] = Child(b, SecondHalf(b))]
      BY <2>2 DEF SplitOpen
    <3> QED
      BY <1>1, <1>2, <3>1 DEF BatchRec
  <2> QED
    BY <2>1, <2>2 DEF DoSplit
<1> QED
  BY <1>3, <1>4, MembersOf DEF Members

LEMMA OutcomeMembers ==
  ASSUME TypeOK, NEW r \in RequestId, NEW status, ApplyOutcome(r, status)
  PROVE  AllMembers' \subseteq AllMembers
<1>1. batches \in [BatchId -> BatchRec] /\ requests[r].batch \in BatchId \cup {NoBatch}
  BY DEF TypeOK, RequestRec
<1>2. ASSUME NoteOutcome(r, status)
      PROVE  \A c \in BatchId : batches'[c].members = batches[c].members
  BY <1>1, <1>2 DEF NoteOutcome, BatchRec
<1>3. \A c \in BatchId : batches'[c].members = batches[c].members
  BY <1>2 DEF ApplyOutcome, ApplyIgnored, ApplyFinal, ApplyRetry
<1> QED
  BY <1>3, MembersOf DEF Members

-----------------------------------------------------------------------------
(* Attempts.  What a step can do to a request and its attempts is one of    *)
(* four things; every action is shown to do one of them to each request,    *)
(* and the invariant and the action properties follow from that alone.      *)

(* The attempts but the current one stay as they are. *)
OthersKept(r) ==
  \A n \in DOMAIN attempts[r] \ {requests[r].attempt} :
    n \in DOMAIN attempts'[r] /\ attempts'[r][n] = attempts[r][n]

CurrentKept(r) ==
  LET n == requests[r].attempt IN
  n \in DOMAIN attempts[r] => n \in DOMAIN attempts'[r] /\ attempts'[r][n] = attempts[r][n]

(* Nothing happens to its attempts, and the request does not come back from *)
(* a terminal state.                                                        *)
Kept(r) ==
  /\ attempts'[r] = attempts[r] /\ requests'[r].attempt = requests[r].attempt
  /\ requests'[r].state = "created" <=> requests[r].state = "created"
  /\ requests[r].state \in Terminal => requests'[r].state \in Terminal

(* It ends, with its current attempt. *)
Ended(r) ==
  /\ requests[r].state # "created" /\ requests'[r].state \in Terminal
  /\ requests'[r].attempt = requests[r].attempt /\ Len(attempts'[r]) = Len(attempts[r])
  /\ OthersKept(r)

(* It gets a new attempt, within the limit of the policy. *)
Renewed(r) ==
  /\ requests[r].state # "created" /\ requests'[r].state = "eligible"
  /\ requests[r].attempt < MaxAttempts
  /\ requests'[r].attempt = requests[r].attempt + 1
  /\ Len(attempts'[r]) = Len(attempts[r]) + 1
  /\ attempts'[r][requests'[r].attempt] = Eligible
  /\ OthersKept(r)

(* It is submitted. *)
Created(r) ==
  /\ attempts[r] = <<>> /\ r < nextRequest'
  /\ requests'[r].state # "created" /\ requests'[r].attempt = 1
  /\ Len(attempts'[r]) = 1 /\ attempts'[r][1].state = requests'[r].state

Shape(r) == Kept(r) \/ Ended(r) \/ Renewed(r) \/ Created(r)

(* Only the failure path of an in-process execution may overwrite what is   *)
(* recorded for the current attempt once it has its outcome.                *)
Settled(r) == Kept(r) \/ Created(r) \/ CurrentKept(r) \/ Open(r) \/ op.pc = "fail"

(* Steps of the four shapes keep the invariant. *)
LEMMA ShapeKeeps ==
  ASSUME TypeOK, TypeOK', AttemptInv,
         \A r \in RequestId : Shape(r),
         nextRequest' >= nextRequest,
         \A r \in AllMembers' : requests[r].state # "created",
         \A r \in RequestId :
           waiting'[r] > 0 => waiting[r] > 0 \/ requests'[r].state # "created",
         op'.pc \in {"complete", "fail"} =>
           \A r \in op'.todo : requests[r].state # "created",
         op'.pc = "complete" => \A r \in op'.todo : Kept(r) /\ Open(r)
  PROVE  AttemptInv'
<1>0. /\ nextRequest \in Nat /\ nextRequest' \in Nat /\ RequestId \subseteq Nat
      /\ \A r \in RequestId : /\ requests[r].attempt \in Nat /\ requests'[r].attempt \in Nat
                              /\ Len(attempts[r]) \in Nat /\ Len(attempts'[r]) \in Nat
  <2>1. /\ requests \in [RequestId -> RequestRec] /\ requests' \in [RequestId -> RequestRec]
        /\ attempts \in [RequestId -> Seq(AttemptRec)]
        /\ attempts' \in [RequestId -> Seq(AttemptRec)]
        /\ nextRequest \in Nat /\ nextRequest' \in Nat
    BY DEF TypeOK
  <2> QED
    BY <2>1, IdsNatural DEF RequestRec
<1>1. AttemptNumbers'
  <2> SUFFICES ASSUME NEW r \in RequestId
               PROVE  /\ requests'[r].attempt = Len(attempts'[r])
                      /\ requests'[r].attempt = 0 <=> requests'[r].state = "created"
                      /\ r >= nextRequest' => requests'[r].state = "created"
    BY DEF AttemptNumbers
  <2>1. /\ requests[r].attempt = Len(attempts[r])
        /\ requests[r].attempt = 0 <=> requests[r].state = "created"
        /\ r >= nextRequest => requests[r].state = "created"
    BY DEF AttemptInv, AttemptNumbers
  <2>2. r \in Nat
    BY <1>0
  <2>3. CASE Kept(r)
    BY <1>0, <2>1, <2>2, <2>3 DEF Kept
  <2>4. CASE Ended(r)
    BY <1>0, <2>1, <2>2, <2>4 DEF Ended, Terminal
  <2>5. CASE Renewed(r)
    BY <1>0, <2>1, <2>2, <2>5 DEF Renewed
  <2>6. CASE Created(r)
    BY <1>0, <2>2, <2>6 DEF Created
  <2> QED
    BY <2>3, <2>4, <2>5, <2>6 DEF Shape
<1>2. \A r \in RequestId : requests[r].state # "created" => requests'[r].state # "created"
  BY DEF Shape, Kept, Ended, Renewed, Created, Terminal
<1>3. SubmittedOnly'
  <2>1. AllMembers' \subseteq RequestId /\ op'.todo \subseteq RequestId
    <3>1. batches' \in [BatchId -> BatchRec] /\ op' \in OpRec
      BY DEF TypeOK, OpOK
    <3>2. \A b \in BatchId : Range(batches'[b].members) \subseteq RequestId
      BY <3>1, RangeOfSeq DEF BatchRec
    <3> QED
      BY <3>1, <3>2, MembersOf DEF OpRec
  <2> QED
    BY <1>2, <2>1 DEF SubmittedOnly, AttemptInv
<1>4. OpenAttempts'
  <2>1. ASSUME NEW r \in RequestId, Kept(r), Open(r) PROVE Open(r)'
    BY <2>1 DEF Kept, Open
  <2>2. ASSUME NEW r \in RequestId, Live(r)' PROVE Open(r)'
    <3>1. CASE Kept(r)
      BY <2>1, <2>2, <3>1 DEF Kept, Live, AttemptInv, OpenAttempts
    <3>2. CASE Ended(r)
      BY <2>2, <3>2 DEF Ended, Live
    <3>3. CASE Renewed(r)
      BY <3>3 DEF Renewed, Open, Eligible, Finished
    <3>4. CASE Created(r)
      BY <2>2, <3>4 DEF Created, Open, Live, Finished, Terminal
    <3> QED
      BY <3>1, <3>2, <3>3, <3>4 DEF Shape
  <2>3. op'.todo \subseteq RequestId
    BY DEF TypeOK, OpOK, OpRec
  <2> QED
    BY <2>1, <2>2, <2>3 DEF OpenAttempts
<1> QED
  BY <1>1, <1>3, <1>4 DEF AttemptInv

(* Writing the end of the current attempt of r touches nothing else. *)
LEMMA EndRequestShape ==
  ASSUME TypeOK, NEW r \in RequestId, NEW state \in RequestState, NEW outcome \in Status,
         EndRequest(r, state, outcome)
  PROVE  /\ Len(attempts'[r]) = Len(attempts[r]) /\ OthersKept(r)
         /\ \A q \in RequestId \ {r} : attempts'[q] = attempts[q]
<1>1. attempts \in [RequestId -> Seq(AttemptRec)] /\ attempts[r] \in Seq(AttemptRec)
  BY DEF TypeOK
<1>2. [state |-> state, outcome |-> outcome] \in AttemptRec
  BY DEF AttemptRec
<1> DEFINE n == requests[r].attempt
           e == [state |-> state, outcome |-> outcome]
<1>3. attempts'[r] = [attempts[r] EXCEPT ![n] = e] /\ \A q \in RequestId \ {r} : attempts'[q] = attempts[q]
  BY <1>1 DEF EndRequest
<1>4. Len([attempts[r] EXCEPT ![n] = e]) = Len(attempts[r])
  BY <1>1, <1>2, ExceptType
<1>5. \A i \in DOMAIN attempts[r] \ {n} : /\ i \in DOMAIN [attempts[r] EXCEPT ![n] = e]
                                         /\ [attempts[r] EXCEPT ![n] = e][i] = attempts[r][i]
  BY <1>1
<1> QED
  BY <1>3, <1>4, <1>5 DEF OthersKept

LEMMA SubmitShape ==
  ASSUME TypeOK, AttemptInv, Submit
  PROVE  /\ \A q \in RequestId : Shape(q) /\ Settled(q)
         /\ nextRequest' >= nextRequest /\ batches' = batches /\ op' = op
<1>1. PICK m \in Offered, state \in RequestState, outcome \in Status :
        NewRequest(m, state, outcome) /\ state # "created"
  BY DEF Submit, SubmitExpired, SubmitOversized, SubmitDeferred, SubmitAdmitted,
         RequestState, Terminal, WaitingState, Status
<1>2. /\ attempts \in [RequestId -> Seq(AttemptRec)] /\ requests \in [RequestId -> RequestRec]
      /\ nextRequest \in RequestId /\ nextRequest \in Nat
  BY <1>1 DEF TypeOK, NewRequest
<1>3. /\ nextRequest' = nextRequest + 1
      /\ requests' = [requests EXCEPT ![nextRequest] =
           [state |-> state, attempt |-> 1, batch |-> NoBatch,
            queued |-> state = "eligible", submitted |-> clock]]
      /\ attempts' = [attempts EXCEPT ![nextRequest] = <<[state |-> state, outcome |-> outcome]>>]
      /\ batches' = batches /\ op' = op
  BY <1>1 DEF NewRequest, batchVars
<1>4. \A q \in RequestId \ {nextRequest} : Kept(q)
  BY <1>2, <1>3 DEF Kept
<1>5. Created(nextRequest)
  <2>1. attempts[nextRequest] = <<>>
    <3>1. requests[nextRequest].state = "created"
      BY <1>2 DEF AttemptInv, AttemptNumbers
    <3>2. Len(attempts[nextRequest]) = 0
      BY <1>2, <3>1 DEF AttemptInv, AttemptNumbers
    <3> QED
      BY <1>2, <3>2, EmptySeq
  <2>2. /\ requests'[nextRequest].state = state /\ requests'[nextRequest].attempt = 1
        /\ attempts'[nextRequest] = <<[state |-> state, outcome |-> outcome]>>
    BY <1>2, <1>3
  <2> QED
    BY <1>1, <1>2, <1>3, <2>1, <2>2 DEF Created
<1> QED
  BY <1>2, <1>3, <1>4, <1>5 DEF Shape, Settled

LEMMA CancelShape ==
  ASSUME TypeOK, AttemptInv, NEW r \in RequestId, DoCancel(r)
  PROVE  \A q \in RequestId : Shape(q) /\ Settled(q)
<1>1. requests \in [RequestId -> RequestRec]
  BY DEF TypeOK
<1>2. EndRequest(r, "cancelled", "cancelled") /\ Live(r)
  BY DEF DoCancel, CancelQueued, CancelForming, CancelSealed
<1>3. /\ requests'[r].state = "cancelled" /\ requests'[r].attempt = requests[r].attempt
      /\ \A q \in RequestId \ {r} : requests'[q] = requests[q]
  <2>1. CASE CancelQueued(r)
    BY <1>1, <2>1 DEF CancelQueued, RequestRec
  <2>2. CASE CancelForming(r)
    BY <1>1, <2>2 DEF CancelForming, RequestRec
  <2>3. CASE CancelSealed(r)
    BY <1>1, <2>3 DEF CancelSealed, RequestRec
  <2> QED
    BY <2>1, <2>2, <2>3 DEF DoCancel
<1>4. /\ Len(attempts'[r]) = Len(attempts[r]) /\ OthersKept(r)
      /\ \A q \in RequestId \ {r} : attempts'[q] = attempts[q]
  BY <1>2, EndRequestShape DEF RequestState, Terminal, Status
<1>5. Ended(r) /\ Open(r)
  BY <1>2, <1>3, <1>4 DEF Ended, Live, Terminal, AttemptInv, OpenAttempts
<1>6. \A q \in RequestId \ {r} : Kept(q)
  BY <1>3, <1>4 DEF Kept
<1> QED
  BY <1>5, <1>6 DEF Shape, Settled

LEMMA ExpireShape ==
  ASSUME TypeOK, AttemptInv, ExpireWaiting
  PROVE  \A q \in RequestId : Shape(q) /\ Settled(q)
<1> SUFFICES ASSUME NEW q \in RequestId PROVE Shape(q) /\ Settled(q)
  OBVIOUS
<1>1. requests \in [RequestId -> RequestRec] /\ attempts \in [RequestId -> Seq(AttemptRec)]
  BY DEF TypeOK
<1> DEFINE e    == [state |-> "expired", outcome |-> "expired"]
           ends == waiting[q] > 0 /\ Overdue(q) /\ requests[q].state \notin Terminal
<1>2. CASE ~ends
  <2>1. requests'[q] = requests[q] /\ attempts'[q] = attempts[q]
    BY <1>2 DEF ExpireWaiting
  <2> QED
    BY <2>1 DEF Shape, Settled, Kept
<1>3. CASE ends
  <2>1. /\ requests'[q].state = "expired" /\ requests'[q].attempt = requests[q].attempt
        /\ attempts'[q] = [attempts[q] EXCEPT ![requests[q].attempt] = e]
    BY <1>1, <1>3 DEF ExpireWaiting, RequestRec
  <2>2. e \in AttemptRec
    BY DEF AttemptRec, RequestState, Terminal, Status
  <2>3. Len(attempts'[q]) = Len(attempts[q])
    BY <1>1, <2>1, <2>2, ExceptType
  <2>4. OthersKept(q)
    BY <1>1, <2>1 DEF OthersKept
  <2>5. Ended(q) /\ Open(q)
    BY <1>3, <2>1, <2>3, <2>4 DEF Ended, Live, Terminal, AttemptInv, OpenAttempts, SubmittedOnly
  <2> QED
    BY <2>5 DEF Shape, Settled
<1> QED
  BY <1>2, <1>3

LEMMA RequeueShape ==
  ASSUME TypeOK, NEW r \in RequestId, Requeue(r)
  PROVE  /\ requests'[r].state = "eligible" /\ requests'[r].attempt = requests[r].attempt + 1
         /\ \A q \in RequestId \ {r} : requests'[q] = requests[q] /\ waiting'[q] = waiting[q]
<1>1. requests \in [RequestId -> RequestRec] /\ waiting \in [RequestId -> Nat]
  BY DEF TypeOK
<1> QED
  BY <1>1 DEF Requeue, RequestRec

LEMMA RetryShape ==
  ASSUME TypeOK, AttemptInv, NEW r \in RequestId, Retry(r)
  PROVE  \A q \in RequestId : Shape(q) /\ Settled(q)
<1>1. attempts \in [RequestId -> Seq(AttemptRec)] /\ requests \in [RequestId -> RequestRec]
  BY DEF TypeOK
<1>2. /\ requests[r].state # "created" /\ requests[r].attempt < MaxAttempts /\ Requeue(r)
      /\ attempts'[r] = Append(attempts[r], Eligible)
      /\ \A q \in RequestId \ {r} : attempts'[q] = attempts[q]
  BY <1>1, SchedulerAssumption DEF Retry, SchedulerAssumption
<1>3. Eligible \in AttemptRec
  BY DEF Eligible, AttemptRec, RequestState, WaitingState, Status
<1>4. /\ Len(attempts'[r]) = Len(attempts[r]) + 1 /\ attempts'[r][Len(attempts[r]) + 1] = Eligible
      /\ \A n \in DOMAIN attempts[r] : n \in DOMAIN attempts'[r] /\ attempts'[r][n] = attempts[r][n]
  BY <1>1, <1>2, <1>3, AppendProperties
<1>5. requests[r].attempt = Len(attempts[r])
  BY DEF AttemptInv, AttemptNumbers
<1>6. Renewed(r) /\ CurrentKept(r)
  BY <1>2, <1>4, <1>5, RequeueShape DEF Renewed, OthersKept, CurrentKept
<1>7. \A q \in RequestId \ {r} : Kept(q)
  BY <1>2, RequeueShape DEF Kept
<1> QED
  BY <1>6, <1>7 DEF Shape, Settled

LEMMA OutcomeShape ==
  ASSUME TypeOK, AttemptInv, NEW r \in RequestId, NEW status \in Status,
         requests[r].state # "created", Open(r) \/ op.pc = "fail", ApplyOutcome(r, status)
  PROVE  /\ \A q \in RequestId : Shape(q) /\ Settled(q)
         /\ \A q \in RequestId \ {r} : Kept(q)
<1>1. attempts \in [RequestId -> Seq(AttemptRec)] /\ requests \in [RequestId -> RequestRec]
  BY DEF TypeOK
<1>2. CASE ApplyIgnored(status)
  BY <1>2 DEF ApplyIgnored, requestVars, Kept, Shape, Settled
<1>3. CASE ApplyFinal(r, status)
  <2>1. FinalState[status] \in Terminal /\ FinalState[status] \in RequestState
    BY <1>3 DEF ApplyFinal, FinalState, Terminal, RequestState
  <2>2. /\ requests'[r].state = FinalState[status] /\ requests'[r].attempt = requests[r].attempt
        /\ \A q \in RequestId \ {r} : requests'[q] = requests[q]
    BY <1>1, <1>3 DEF ApplyFinal, RequestRec
  <2>3. /\ Len(attempts'[r]) = Len(attempts[r]) /\ OthersKept(r)
        /\ \A q \in RequestId \ {r} : attempts'[q] = attempts[q]
    BY <1>3, <2>1, EndRequestShape DEF ApplyFinal
  <2>4. Ended(r)
    BY <2>1, <2>2, <2>3 DEF Ended
  <2>5. \A q \in RequestId \ {r} : Kept(q)
    BY <2>2, <2>3 DEF Kept
  <2> QED
    BY <2>4, <2>5 DEF Shape, Settled
<1>4. CASE ApplyRetry(r, status)
  <2> DEFINE e    == [state |-> "failed", outcome |-> status]
             done == [attempts[r] EXCEPT ![requests[r].attempt] = e]
  <2>1. /\ Requeue(r) /\ requests[r].attempt < MaxAttempts
        /\ attempts'[r] = Append(done, Eligible)
        /\ \A q \in RequestId \ {r} : attempts'[q] = attempts[q]
    BY <1>1, <1>4 DEF ApplyRetry, Retried
  <2>2. e \in AttemptRec /\ Eligible \in AttemptRec
    BY DEF Eligible, AttemptRec, RequestState, WaitingState, Terminal, Status
  <2>3. done \in Seq(AttemptRec) /\ Len(done) = Len(attempts[r])
    <3>1. attempts[r] \in Seq(AttemptRec)
      BY <1>1
    <3>2. done \in Seq(AttemptRec)
      BY <2>2, <3>1, ExceptType
    <3>3. Len(done) = Len(attempts[r])
      BY <2>2, <3>1, ExceptType
    <3> QED
      BY <3>2, <3>3
  <2>4. \A n \in DOMAIN attempts[r] \ {requests[r].attempt} :
          n \in 1 .. Len(done) /\ done[n] = attempts[r][n]
    BY <1>1, <2>3
  <2> HIDE DEF done
  <2>5. /\ Len(attempts'[r]) = Len(attempts[r]) + 1 /\ attempts'[r][Len(attempts[r]) + 1] = Eligible
        /\ attempts'[r] \in Seq(AttemptRec)
        /\ \A n \in 1 .. Len(done) : attempts'[r][n] = done[n]
    BY <2>1, <2>2, <2>3, AppendProperties
  <2>6. requests[r].attempt = Len(attempts[r])
    BY DEF AttemptInv, AttemptNumbers
  <2>7. OthersKept(r)
    BY <2>3, <2>4, <2>5 DEF OthersKept
  <2>8. Renewed(r)
    BY <2>1, <2>5, <2>6, <2>7, RequeueShape DEF Renewed
  <2>9. \A q \in RequestId \ {r} : Kept(q)
    BY <2>1, RequeueShape DEF Kept
  <2> QED
    BY <2>8, <2>9 DEF Shape, Settled
<1> QED
  BY <1>2, <1>3, <1>4 DEF ApplyOutcome

(* Filling, sealing, merging, splitting and dispatching move requests about *)
(* without touching their attempts.                                         *)
LEMMA QuietShape ==
  ASSUME TypeOK, attempts' = attempts,
         \A r \in RequestId :
           /\ requests'[r].attempt = requests[r].attempt
           /\ \/ requests'[r].state = requests[r].state
              \/ /\ requests[r].state \in {"eligible", "waiting", "reserved", "batched"}
                 /\ requests'[r].state # "created"
  PROVE  \A r \in RequestId : Kept(r) /\ Shape(r) /\ Settled(r)
BY DEF Kept, Shape, Settled, Terminal

LEMMA PlaceShape ==
  ASSUME TypeOK, AttemptInv, NEW r \in RequestId, Place(r)
  PROVE  /\ \A q \in RequestId : Shape(q) /\ Settled(q)
         /\ \A q \in AllMembers' : requests[q].state # "created"
<1>1. /\ requests \in [RequestId -> RequestRec] /\ batches \in [BatchId -> BatchRec]
      /\ op.cur \in BatchId /\ requests[r].state \in WaitingState
  BY DEF TypeOK, OpOK, Place, IsPick, Candidates
<1>2. /\ requests'[r].state = "reserved" /\ requests'[r].attempt = requests[r].attempt
      /\ \A q \in RequestId \ {r} : requests'[q] = requests[q]
      /\ attempts' = attempts
  BY <1>1 DEF Place, RequestRec
<1>3. \A c \in BatchId : Range(batches'[c].members) \subseteq Members(c) \cup {r}
  <2>1. batches' = [batches EXCEPT ![op.cur].members = Append(@, r)]
    BY DEF Place
  <2>2. batches[op.cur].members \in Seq(RequestId)
    BY <1>1 DEF BatchRec
  <2>3. Range(Append(batches[op.cur].members, r)) \subseteq Members(op.cur) \cup {r}
    BY <2>2 DEF Range, Members
  <2>4. batches'[op.cur].members = Append(batches[op.cur].members, r)
    BY <1>1, <2>1 DEF BatchRec
  <2>5. \A c \in BatchId \ {op.cur} : batches'[c] = batches[c]
    BY <1>1, <2>1
  <2> QED
    BY <2>3, <2>4, <2>5 DEF Members
<1>4. \A q \in AllMembers' : requests[q].state # "created"
  BY <1>1, <1>3, MembersOf DEF AttemptInv, SubmittedOnly, WaitingState
<1> QED
  BY <1>1, <1>2, <1>4, QuietShape DEF WaitingState

LEMMA SealShape ==
  ASSUME TypeOK, NEW b \in BatchId, DoSeal(b), attempts' = attempts
  PROVE  \A q \in RequestId : Shape(q) /\ Settled(q)
<1>1. requests \in [RequestId -> RequestRec]
  BY DEF TypeOK
<1>2. \A q \in RequestId : \/ requests'[q] = requests[q]
                           \/ /\ requests[q].state = "reserved" /\ requests'[q].state = "batched"
                              /\ requests'[q].attempt = requests[q].attempt
  BY <1>1 DEF DoSeal, RequestRec
<1> QED
  BY <1>2, QuietShape

LEMMA MergeShape ==
  ASSUME TypeOK, NEW a \in BatchId, NEW b \in BatchId, DoMerge(a, b)
  PROVE  \A q \in RequestId : Shape(q) /\ Settled(q)
<1>1. requests \in [RequestId -> RequestRec]
  BY DEF TypeOK
<1>2. \A q \in RequestId : /\ requests'[q].state = requests[q].state
                           /\ requests'[q].attempt = requests[q].attempt
  BY <1>1 DEF DoMerge, RequestRec
<1> QED
  BY <1>2, QuietShape DEF DoMerge

LEMMA SplitShape ==
  ASSUME TypeOK, NEW b \in BatchId, DoSplit(b)
  PROVE  \A q \in RequestId : Shape(q) /\ Settled(q)
<1>1. requests \in [RequestId -> RequestRec] /\ Rehome(b, nextBatch)
  BY DEF TypeOK, DoSplit, SplitSealed, SplitOpen
<1>2. \A q \in RequestId : /\ requests'[q].state = requests[q].state
                           /\ requests'[q].attempt = requests[q].attempt
  BY <1>1 DEF Rehome, RequestRec
<1> QED
  BY <1>2, QuietShape DEF DoSplit

(* Handing a batch out, to a remote worker or to the in-process executor. *)
LEMMA AdvanceShape ==
  ASSUME TypeOK, NEW b \in BatchId, NEW state, state # "created", Advance(b, state),
         attempts' = attempts
  PROVE  \A q \in RequestId : Kept(q) /\ Shape(q) /\ Settled(q)
<1>1. requests \in [RequestId -> RequestRec]
  BY DEF TypeOK
<1>2. \A q \in RequestId : \/ requests'[q] = requests[q]
                           \/ /\ requests[q].state = "batched" /\ requests'[q].state = state
                              /\ requests'[q].attempt = requests[q].attempt
  BY <1>1 DEF Advance, RequestRec
<1> QED
  BY <1>2, QuietShape

LEMMA StartRunMembers ==
  ASSUME TypeOK, NEW b \in BatchId, StartRun(b)
  PROVE  AllMembers' \subseteq AllMembers /\ \A q \in RequestId : Kept(q) /\ Shape(q) /\ Settled(q)
<1>1. batches \in [BatchId -> BatchRec]
  BY DEF TypeOK
<1>2. batches' = [batches EXCEPT ![b].state = "running", ![b].worker = 0, ![b].boot = workers[0].boot]
  BY DEF StartRun
<1>3. \A c \in BatchId : batches'[c].members = batches[c].members
  BY <1>1, <1>2 DEF BatchRec
<1> QED
  BY <1>3, AdvanceShape, MembersOf DEF StartRun, Members

LEMMA DispatchMembers ==
  ASSUME TypeOK, NEW b \in BatchId, NEW w \in Worker, PrepareDispatch(b, w)
  PROVE  AllMembers' \subseteq AllMembers /\ \A q \in RequestId : Shape(q) /\ Settled(q)
<1>1. batches \in [BatchId -> BatchRec]
  BY DEF TypeOK
<1>2. batches' = [batches EXCEPT ![b].state = "dispatched", ![b].worker = w, ![b].boot = workers[w].boot]
  BY DEF PrepareDispatch
<1>3. \A c \in BatchId : batches'[c].members = batches[c].members
  BY <1>1, <1>2 DEF BatchRec
<1> QED
  BY <1>3, AdvanceShape, MembersOf DEF PrepareDispatch, Members

(* A report starts with attempts that are open. *)
LEMMA ReportOpen ==
  ASSUME TypeOK, NEW b, NEW attempt, NEW report, BeginReport(b, attempt, report)
  PROVE  op'.pc = "complete" /\ \A r \in op'.todo : r \in DOMAIN report /\ Open(r) /\ requests[r].attempt = attempt[r]
BY DEF BeginReport, Idle

(* Every step does one of the four things to each request, and keeps the    *)
(* invariant.                                                               *)
LEMMA AttemptStep ==
  ASSUME TypeOK, TypeOK', AttemptInv, [Next]_vars
  PROVE  AttemptInv' /\ \A q \in RequestId : Shape(q) /\ Settled(q)
<1>types. op \in OpRec /\ nextRequest \in Nat /\ waiting \in [RequestId -> Nat]
  BY DEF TypeOK, OpOK
<1>old. \A r \in AllMembers : requests[r].state # "created"
  BY DEF AttemptInv, SubmittedOnly
<1> USE DEF requestVars, idVars, batchVars, fairVars, envVars
(* Outside the loops of complete() and of a failed execution. *)
<1>free. ASSUME \A q \in RequestId : Shape(q) /\ Settled(q),
                nextRequest' >= nextRequest,
                AllMembers' \subseteq AllMembers \/ \A r \in AllMembers' : requests[r].state # "created",
                \A r \in RequestId : waiting'[r] > 0 => waiting[r] > 0 \/ requests'[r].state # "created",
                op'.pc \notin {"complete", "fail"}
         PROVE  AttemptInv' /\ \A q \in RequestId : Shape(q) /\ Settled(q)
  BY <1>free, <1>old, ShapeKeeps
(* The requests and the members stay as they are. *)
<1>still. ASSUME requests' = requests, attempts' = attempts, waiting' = waiting,
                 nextRequest' = nextRequest, AllMembers' \subseteq AllMembers,
                 op'.pc \notin {"complete", "fail"}
          PROVE  AttemptInv' /\ \A q \in RequestId : Shape(q) /\ Settled(q)
  <2>1. \A q \in RequestId : Shape(q) /\ Settled(q)
    BY <1>still, QuietShape
  <2> QED
    BY <1>free, <1>still, <1>types, <2>1
<1>same. batches' = batches => AllMembers' = AllMembers
  BY DEF AllMembers, Members
<1>1. CASE Submit
  <2>1. /\ \A q \in RequestId : Shape(q) /\ Settled(q)
        /\ nextRequest' >= nextRequest /\ AllMembers' = AllMembers /\ op' = op
    BY <1>1, <1>same, SubmitShape
  <2>2. op.pc = "idle"
    BY <1>1 DEF Submit, SubmitExpired, SubmitOversized, SubmitDeferred, SubmitAdmitted, NewRequest, Unlocked
  <2>3. \A r \in RequestId : waiting'[r] > 0 => waiting[r] > 0 \/ requests'[r].state # "created"
    <3>1. CASE waiting' = waiting
      BY <3>1
    <3>2. CASE \E m \in Offered : SubmitAdmitted(m)
      <4>1. /\ nextRequest \in RequestId
            /\ waiting' = [waiting EXCEPT ![nextRequest] = @ + 1]
            /\ requests'[nextRequest].state = "eligible"
        BY <3>2 DEF SubmitAdmitted, NewRequest, TypeOK
      <4> QED
        BY <1>types, <4>1
    <3> QED
      BY <1>1, <3>1, <3>2 DEF Submit, SubmitExpired, SubmitOversized, SubmitDeferred
  <2> QED
    BY <1>free, <2>1, <2>2, <2>3
<1>2. CASE \/ Tick \/ Expire \/ RollEpoch \/ AdvanceClock \/ EnterLate
           \/ EvictDone \/ MakeDone \/ FormDone \/ MergeDone \/ TickDone \/ FailDone
  <2>1. op'.pc \notin {"complete", "fail"}
    <3>1. CASE RollEpoch \/ AdvanceClock \/ EnterLate
      BY <3>1 DEF RollEpoch, AdvanceClock, EnterLate, Unlocked
    <3>2. CASE MakeDone
      BY <3>2, <1>types DEF MakeDone, OpRec
    <3>3. CASE EvictDone
      BY <3>3 DEF EvictDone, Idle
    <3>4. CASE FormDone \/ MergeDone
      BY <3>4 DEF FormDone, MergeDone, Idle
    <3>5. CASE Tick \/ Expire
      BY <3>5 DEF Tick, Expire, Idle
    <3>6. CASE TickDone \/ FailDone
      BY <3>6 DEF TickDone, FailDone, Idle
    <3> QED
      BY <1>2, <3>1, <3>2, <3>3, <3>4, <3>5, <3>6
  <2> QED
    BY <1>2, <1>still, <1>same, <2>1 DEF Tick, Expire, RollEpoch, AdvanceClock, EnterLate, EvictDone, MakeDone,
          FormDone, MergeDone, TickDone, FailDone
<1>3. CASE ExpireWaiting
  <2>1. op'.pc = "evict"
    BY <1>3, <1>types DEF ExpireWaiting, OpRec
  <2>2. \A r \in RequestId : waiting'[r] > 0 => waiting[r] > 0
    BY <1>3 DEF ExpireWaiting
  <2>3. nextRequest' = nextRequest /\ AllMembers' = AllMembers
    BY <1>3, <1>same DEF ExpireWaiting
  <2> QED
    BY <1>3, <1>free, <1>types, <2>1, <2>2, <2>3, ExpireShape
<1>4. ASSUME NEW r \in RequestId, DoCancel(r), op'.pc \notin {"complete", "fail"}
      PROVE  AttemptInv' /\ \A q \in RequestId : Shape(q) /\ Settled(q)
  <2>1. \A q \in RequestId : waiting'[q] > 0 => waiting[q] > 0
    BY <1>4, <1>types DEF DoCancel, CancelQueued, CancelForming, CancelSealed
  <2> QED
    BY <1>4, <1>free, <1>types, <2>1, CancelShape, CancelMembers DEF DoCancel
<1>5. ASSUME NEW r \in RequestId, EvictMember(r)
      PROVE  AttemptInv' /\ \A q \in RequestId : Shape(q) /\ Settled(q)
  <2>1. op'.pc = "evict"
    BY <1>5, <1>types DEF EvictMember, OpRec
  <2> QED
    BY <1>4, <1>5, <1>still, <1>same, <2>1 DEF EvictMember
<1>6. ASSUME NEW r \in RequestId, Cancel(r)
      PROVE  AttemptInv' /\ \A q \in RequestId : Shape(q) /\ Settled(q)
  BY <1>4, <1>6 DEF Cancel, Unlocked
<1>7. ASSUME NEW k \in Key, MakeForming(k)
      PROVE  AttemptInv' /\ \A q \in RequestId : Shape(q) /\ Settled(q)
  <2>1. op'.pc = "fillnew"
    BY <1>7, <1>types DEF MakeForming, OpRec
  <2>2. \A b \in BatchId : batches'[b].members = batches[b].members \/ batches'[b].members = <<>>
    BY <1>7 DEF MakeForming, TypeOK, NoBatchRec
  <2>3. AllMembers' \subseteq AllMembers
    BY <2>2, MembersOf DEF Members, Range
  <2> QED
    BY <1>7, <1>still, <2>1, <2>3 DEF MakeForming
<1>8. ASSUME NEW r \in RequestId, Place(r)
      PROVE  AttemptInv' /\ \A q \in RequestId : Shape(q) /\ Settled(q)
  <2>1. op'.pc \notin {"complete", "fail"}
    BY <1>8 DEF Place
  <2>2. \A q \in RequestId : waiting'[q] > 0 => waiting[q] > 0
    BY <1>8, <1>types DEF Place, IsPick, Candidates
  <2>3. nextRequest' = nextRequest
    BY <1>8 DEF Place
  <2> QED
    BY <1>8, <1>free, <1>types, <2>1, <2>2, <2>3, PlaceShape
<1>9. CASE FillNewDone
  <2>1. op'.pc = "make"
    BY <1>9, <1>types DEF FillNewDone, OpRec
  <2>2. \A b \in BatchId : batches'[b].members = batches[b].members
    <3>1. batches \in [BatchId -> BatchRec]
      BY DEF TypeOK
    <3>2. PICK first : batches' = [batches EXCEPT ![op.cur].formed = first]
      BY <1>9 DEF FillNewDone
    <3> QED
      BY <3>1, <3>2 DEF BatchRec
  <2>3. AllMembers' \subseteq AllMembers
    BY <2>2, MembersOf DEF Members
  <2> QED
    BY <1>9, <1>still, <2>1, <2>3 DEF FillNewDone
<1>10. ASSUME NEW b \in BatchId, FormNext(b)
       PROVE  AttemptInv' /\ \A q \in RequestId : Shape(q) /\ Settled(q)
  <2>1. op'.pc = "fill"
    BY <1>10, <1>types DEF FormNext, OpRec
  <2> QED
    BY <1>10, <1>still, <1>same, <2>1 DEF FormNext
<1>11. ASSUME NEW b \in BatchId, DoSeal(b), op'.pc \notin {"complete", "fail"},
              UNCHANGED <<attempts, waiting, nextRequest>>
       PROVE  AttemptInv' /\ \A q \in RequestId : Shape(q) /\ Settled(q)
  BY <1>11, <1>free, <1>types, SealShape, SealMembers
<1>12. CASE FillDone
  <2>1. op'.pc = "form" /\ op.cur \in BatchId
    BY <1>12, <1>types DEF FillDone, OpRec, TypeOK, OpOK
  <2> QED
    BY <1>11, <1>12, <1>still, <1>same, <2>1 DEF FillDone
<1>13. ASSUME NEW b \in BatchId, Seal(b)
       PROVE  AttemptInv' /\ \A q \in RequestId : Shape(q) /\ Settled(q)
  BY <1>11, <1>13 DEF Seal, Unlocked
<1>14. ASSUME NEW a \in BatchId, NEW b \in BatchId, MergePair(a, b) \/ Merge(a, b)
       PROVE  AttemptInv' /\ \A q \in RequestId : Shape(q) /\ Settled(q)
  <2>1. op'.pc \notin {"complete", "fail"}
    BY <1>14, <1>types DEF MergePair, Merge, Unlocked, OpRec
  <2>2. CASE DoMerge(a, b)
    <3>1. waiting' = waiting /\ nextRequest' = nextRequest
      BY <2>2 DEF DoMerge
    <3> QED
      BY <1>free, <1>types, <2>1, <2>2, <3>1, MergeShape, MergeMembers
  <2> QED
    BY <1>14, <1>still, <1>same, <2>1, <2>2 DEF MergePair, Merge
<1>15. ASSUME NEW b \in BatchId, DoSplit(b), op'.pc \notin {"complete", "fail"}
       PROVE  AttemptInv' /\ \A q \in RequestId : Shape(q) /\ Settled(q)
  BY <1>15, <1>free, <1>types, SplitShape, SplitMembers DEF DoSplit
<1>16. CASE SplitStep
  <2>1. op'.pc = "split" /\ sealedOrder[op.pos] \in BatchId
    BY <1>16, <1>types, SMTT(20) DEF SplitStep, OpRec, TypeOK
  <2> QED
    BY <1>15, <1>16, <1>still, <1>same, <2>1 DEF SplitStep
<1>17. ASSUME NEW b \in BatchId, Split(b)
       PROVE  AttemptInv' /\ \A q \in RequestId : Shape(q) /\ Settled(q)
  BY <1>15, <1>17 DEF Split, Unlocked
<1>18. ASSUME NEW r \in RequestId, Retry(r)
       PROVE  AttemptInv' /\ \A q \in RequestId : Shape(q) /\ Settled(q)
  <2>1. op'.pc = "expire"
    BY <1>18 DEF Retry, Idle
  <2>2. Requeue(r) /\ batches' = batches /\ nextRequest' = nextRequest
    BY <1>18 DEF Retry
  <2>3. \A q \in RequestId : waiting'[q] > 0 => waiting[q] > 0 \/ requests'[q].state # "created"
    BY <2>2, RequeueShape
  <2> QED
    BY <1>18, <1>free, <1>same, <1>types, <2>1, <2>2, <2>3, RetryShape
<1>19. ASSUME NEW r \in RequestId, NEW status \in Status, ApplyOutcome(r, status),
              op.pc \in {"complete", "fail"}, r \in op.todo,
              op' = [op EXCEPT !.todo = @ \ {r}]
       PROVE  AttemptInv' /\ \A q \in RequestId : Shape(q) /\ Settled(q)
  <2>1. requests[r].state # "created" /\ (Open(r) \/ op.pc = "fail")
    BY <1>19 DEF AttemptInv, SubmittedOnly, OpenAttempts
  <2>2. /\ \A q \in RequestId : Shape(q) /\ Settled(q)
        /\ \A q \in RequestId \ {r} : Kept(q)
    BY <1>19, <2>1, OutcomeShape
  <2>3. op'.pc = op.pc /\ op'.todo = op.todo \ {r} /\ op.todo \subseteq RequestId
    BY <1>19, <1>types DEF OpRec
  <2>4. AllMembers' \subseteq AllMembers
    BY <1>19, OutcomeMembers
  <2>5. \A q \in RequestId : waiting'[q] > 0 => waiting[q] > 0 \/ requests'[q].state # "created"
    <3>1. CASE waiting' = waiting
      BY <3>1
    <3>2. CASE Requeue(r)
      BY <3>2, RequeueShape
    <3> QED
      BY <1>19, <3>1, <3>2 DEF ApplyOutcome, ApplyIgnored, ApplyFinal, ApplyRetry
  <2>6. \A q \in op'.todo : /\ requests[q].state # "created"
                            /\ op'.pc = "complete" => Kept(q) /\ Open(q)
    BY <2>2, <2>3, <1>19 DEF AttemptInv, SubmittedOnly, OpenAttempts
  <2>7. nextRequest' >= nextRequest
    BY <1>19, <1>types DEF ApplyOutcome
  <2> QED
    BY <1>old, <2>2, <2>4, <2>5, <2>6, <2>7, ShapeKeeps
<1>20. ASSUME NEW r \in RequestId, CompleteMember(r) \/ FailMember(r)
       PROVE  AttemptInv' /\ \A q \in RequestId : Shape(q) /\ Settled(q)
  <2>1. CASE CompleteMember(r)
    <3>1. op.report[r] \in Status
      BY <2>1 DEF CompleteMember, TypeOK, OpOK
    <3> QED
      BY <1>19, <2>1, <3>1 DEF CompleteMember
  <2>2. CASE FailMember(r)
    <3>1. "retryable_failure" \in Status
      BY DEF Status
    <3> QED
      BY <1>19, <2>2, <3>1 DEF FailMember
  <2> QED
    BY <1>20, <2>1, <2>2
<1>21. CASE CompleteDone
  <2>1. op'.pc = "idle" /\ op.cur \in BatchId
    BY <1>21 DEF CompleteDone, Idle, TypeOK, OpOK
  <2>2. \A b \in BatchId : batches'[b].members = batches[b].members
    <3>1. batches \in [BatchId -> BatchRec]
      BY DEF TypeOK
    <3>2. PICK state : batches' = [batches EXCEPT ![op.cur].state = state]
      BY <1>21 DEF CompleteDone
    <3> QED
      BY <3>1, <3>2 DEF BatchRec
  <2>3. AllMembers' \subseteq AllMembers
    BY <2>2, MembersOf DEF Members
  <2> QED
    BY <1>21, <1>still, <2>1, <2>3 DEF CompleteDone
<1>22. ASSUME NEW x \in dispatches, Complete(x)
       PROVE  AttemptInv' /\ \A q \in RequestId : Shape(q) /\ Settled(q)
  <2>1. /\ requests' = requests /\ attempts' = attempts /\ waiting' = waiting
        /\ nextRequest' = nextRequest /\ batches' = batches
    BY <1>22 DEF Complete
  <2>2. PICK told \in SUBSET {r \in RequestId : x.attempt[r] # 0} :
          \E report \in [told -> ReportStatus] : BeginReport(x.batch, x.attempt, report)
    BY <1>22 DEF Complete
  <2>3. PICK report \in [told -> ReportStatus] : BeginReport(x.batch, x.attempt, report)
    BY <2>2
  <2>4. op'.pc = "complete" /\ \A r \in op'.todo :
          r \in told /\ Open(r) /\ requests[r].attempt = x.attempt[r]
    BY <2>3, ReportOpen
  <2>5. \A r \in op'.todo : r \in RequestId /\ requests[r].state # "created"
    BY <2>2, <2>4 DEF AttemptInv, AttemptNumbers
  <2>6. \A q \in RequestId : Kept(q) /\ Shape(q) /\ Settled(q)
    BY <2>1, QuietShape
  <2> QED
    BY <1>old, <1>same, <1>types, <2>1, <2>4, <2>5, <2>6, ShapeKeeps
<1>23. ASSUME NEW b \in BatchId, RunOk(b) \/ RunFailed(b)
       PROVE  AttemptInv' /\ \A q \in RequestId : Shape(q) /\ Settled(q)
  <2>1. /\ AllMembers' \subseteq AllMembers
        /\ \A q \in RequestId : Kept(q) /\ Shape(q) /\ Settled(q)
    BY <1>23, StartRunMembers DEF RunOk, RunFailed
  <2>2. Members(b) \subseteq AllMembers /\ Members(b) \subseteq RequestId
    <3>1. batches[b].members \in Seq(RequestId)
      BY DEF TypeOK, BatchRec
    <3> QED
      BY <3>1, RangeOfSeq DEF AllMembers, Members
  <2>3. waiting' = waiting /\ nextRequest' = nextRequest /\ op.pc = "idle"
    BY <1>23 DEF RunOk, RunFailed, StartRun, Unlocked
  <2>4. CASE op' = op
    BY <1>free, <1>types, <2>1, <2>3, <2>4
  <2>5. CASE BeginReport(b, CurrentAttempts(b), [r \in Members(b) |-> "success"])
    <3>1. op'.pc = "complete" /\ \A r \in op'.todo : r \in Members(b) /\ Open(r)
      BY <2>5, ReportOpen
    <3> QED
      BY <1>old, <1>types, <2>1, <2>2, <2>3, <3>1, ShapeKeeps
  <2>6. CASE RunFailed(b)
    <3>1. op'.pc = "fail" /\ op'.todo = Members(b)
      BY <2>6 DEF RunFailed, Idle
    <3> QED
      BY <1>old, <1>types, <2>1, <2>2, <2>3, <3>1, ShapeKeeps
  <2> QED
    BY <1>23, <2>4, <2>5, <2>6 DEF RunOk
<1>24. ASSUME NEW b \in BatchId, NEW w \in Worker, PrepareDispatch(b, w)
       PROVE  AttemptInv' /\ \A q \in RequestId : Shape(q) /\ Settled(q)
  <2>1. waiting' = waiting /\ nextRequest' = nextRequest /\ op' = op /\ op.pc = "idle"
    BY <1>24 DEF PrepareDispatch, Unlocked
  <2> QED
    BY <1>24, <1>free, <1>types, <2>1, DispatchMembers
<1>25. ASSUME NEW w \in Worker, NEW boot \in BootId, NEW size \in WorkerSizes,
              RegisterWorker(w, boot, size)
       PROVE  AttemptInv' /\ \A q \in RequestId : Shape(q) /\ Settled(q)
  BY <1>25, <1>still, <1>same DEF RegisterWorker, Unlocked
<1>26. CASE UNCHANGED vars
  <2>1. \A q \in RequestId : Kept(q) /\ Shape(q) /\ Settled(q)
    BY <1>26, QuietShape DEF vars
  <2> QED
    BY <1>26, <2>1 DEF vars, AttemptInv, AttemptNumbers, SubmittedOnly, OpenAttempts, Live, Open,
                       AllMembers, Members
<1> QED
  BY <1>1, <1>2, <1>3, <1>5, <1>6, <1>7, <1>8, <1>9, <1>10, <1>12, <1>13, <1>14, <1>16, <1>17,
     <1>18, <1>20, <1>21, <1>22, <1>23, <1>24, <1>25, <1>26 DEF Next, OpStep

(* The ledger is in order before the first request. *)
LEMMA AttemptStart == Init => AttemptInv
<1> SUFFICES ASSUME Init PROVE AttemptInv
  OBVIOUS
<1>1. AttemptNumbers
  BY DEF Init, AttemptNumbers
<1>2. SubmittedOnly
  BY DEF Init, SubmittedOnly, AllMembers, Members, Range, NoBatchRec, Idle
<1>3. OpenAttempts
  BY DEF Init, OpenAttempts, Live, Idle
<1> QED
  BY <1>1, <1>2, <1>3 DEF AttemptInv

(* The ledger of attempts agrees with the requests in every reachable       *)
(* state, for every policy and every sequence of calls and reports.         *)
THEOREM AttemptsConsistent == Spec => []AttemptInv
<1>1. TypeOK /\ TypeOK' /\ AttemptInv /\ [Next]_vars => AttemptInv'
  BY AttemptStep
<1> QED
  BY AttemptStart, <1>1, TypeCorrect, PTL DEF Spec

(* A step adds an attempt to a request only below the limit. *)
LEMMA BoundedStep ==
  ASSUME TypeOK, TypeOK', AttemptInv, [Next]_vars, AttemptsBounded
  PROVE  AttemptsBounded'
<1> SUFFICES ASSUME NEW r \in RequestId
             PROVE  Len(attempts'[r]) <= (IF MaxAttempts > 1 THEN MaxAttempts ELSE 1)
  BY DEF AttemptsBounded
<1>1. MaxAttempts \in Nat
  BY PolicyAssumption DEF PolicyAssumption
<1>2. /\ Len(attempts[r]) \in Nat /\ Len(attempts'[r]) \in Nat
      /\ requests[r].attempt = Len(attempts[r])
      /\ Len(attempts[r]) <= (IF MaxAttempts > 1 THEN MaxAttempts ELSE 1)
  BY SMTT(30) DEF TypeOK, AttemptsBounded, AttemptInv, AttemptNumbers
<1>3. Shape(r)
  BY AttemptStep
<1>4. CASE Kept(r)
  BY <1>2, <1>4 DEF Kept
<1>5. CASE Ended(r)
  BY <1>2, <1>5 DEF Ended
<1>6. CASE Renewed(r)
  BY <1>1, <1>2, <1>6 DEF Renewed
<1>7. CASE Created(r)
  BY <1>1, <1>7 DEF Created
<1> QED
  BY <1>3, <1>4, <1>5, <1>6, <1>7 DEF Shape

LEMMA BoundedStart == Init => AttemptsBounded
BY PolicyAssumption DEF Init, AttemptsBounded, PolicyAssumption

(* The retry bound: no sequence of automatic and explicit retries gives a   *)
(* request more attempts than retry.max_attempts allows.                    *)
THEOREM RetriesBounded == Spec => []AttemptsBounded
<1>1. TypeOK /\ TypeOK' /\ AttemptInv /\ [Next]_vars /\ AttemptsBounded => AttemptsBounded'
  BY BoundedStep
<1> QED
  BY <1>1, BoundedStart, TypeCorrect, AttemptsConsistent, PTL DEF Spec

(* The failure path of dispatch_and_run() is not under way. *)
NotFailing == op.pc # "fail"

(* It is entered by an in-process execution that fails, and by nothing else. *)
LEMMA FailEntry ==
  ASSUME TypeOK, NotFailing, [Next]_vars
  PROVE  NotFailing' \/ \E b \in BatchId : RunFailed(b)
<1>1. op \in OpRec
  BY DEF TypeOK, OpOK
<1>2. ASSUME op' = op PROVE NotFailing'
  BY <1>2 DEF NotFailing
<1>3. CASE Submit \/ RollEpoch \/ AdvanceClock \/ EnterLate \/ UNCHANGED vars
  BY <1>2, <1>3 DEF Submit, SubmitExpired, SubmitOversized, SubmitDeferred, SubmitAdmitted,
       NewRequest, RollEpoch, AdvanceClock, EnterLate, vars
<1>4. CASE Tick \/ Expire
  BY <1>4 DEF Tick, Expire, Idle, NotFailing
<1>5. CASE ExpireWaiting \/ MakeDone
  BY <1>1, <1>5 DEF ExpireWaiting, MakeDone, OpRec, NotFailing
<1>6. CASE FillNewDone \/ FillDone
  BY <1>1, <1>6 DEF FillNewDone, FillDone, OpRec, NotFailing
<1>7. CASE EvictDone \/ FormDone \/ MergeDone
  <2>1. CASE EvictDone
    BY <2>1 DEF EvictDone, Idle, NotFailing
  <2>2. CASE FormDone
    BY <2>2 DEF FormDone, Idle, NotFailing
  <2>3. CASE MergeDone
    BY <2>3 DEF MergeDone, Idle, NotFailing
  <2> QED
    BY <1>7, <2>1, <2>2, <2>3
<1>8. CASE TickDone \/ CompleteDone \/ FailDone
  BY <1>8 DEF TickDone, CompleteDone, FailDone, Idle, NotFailing
<1>9. ASSUME op'.pc = op.pc PROVE NotFailing'
  BY <1>9 DEF NotFailing
<1>10. CASE SplitStep
  BY <1>1, <1>9, <1>10 DEF SplitStep, OpRec
<1>11. ASSUME NEW r \in RequestId,
              EvictMember(r) \/ Place(r) \/ CompleteMember(r) \/ FailMember(r)
       PROVE  NotFailing'
  BY <1>1, <1>9, <1>11 DEF EvictMember, Place, CompleteMember, FailMember, OpRec
<1>12. ASSUME NEW k \in Key, MakeForming(k) PROVE NotFailing'
  BY <1>1, <1>12 DEF MakeForming, OpRec, NotFailing
<1>13. ASSUME NEW b \in BatchId, FormNext(b) PROVE NotFailing'
  BY <1>1, <1>13 DEF FormNext, OpRec, NotFailing
<1>14. ASSUME NEW a \in BatchId, NEW b \in BatchId, MergePair(a, b) \/ Merge(a, b)
       PROVE  NotFailing'
  BY <1>1, <1>2, <1>9, <1>14 DEF MergePair, Merge, OpRec
<1>15. ASSUME NEW r \in RequestId, Cancel(r) PROVE NotFailing'
  BY <1>2, <1>15 DEF Cancel
<1>16. ASSUME NEW r \in RequestId, Retry(r) PROVE NotFailing'
  BY <1>16 DEF Retry, Idle, NotFailing
<1>17. ASSUME NEW b \in BatchId, Seal(b) \/ Split(b) PROVE NotFailing'
  BY <1>2, <1>17 DEF Seal, Split
<1>18. ASSUME NEW b \in BatchId, RunOk(b) PROVE NotFailing'
  BY <1>2, <1>18, ReportOpen DEF RunOk, NotFailing
<1>19. ASSUME NEW b \in BatchId, NEW w \in Worker, PrepareDispatch(b, w) PROVE NotFailing'
  BY <1>2, <1>19 DEF PrepareDispatch
<1>20. ASSUME NEW x \in dispatches, Complete(x) PROVE NotFailing'
  BY <1>20, ReportOpen DEF Complete, NotFailing
<1>21. ASSUME NEW w \in Worker, NEW boot \in BootId, NEW size \in WorkerSizes,
              RegisterWorker(w, boot, size)
       PROVE  NotFailing'
  BY <1>2, <1>21 DEF RegisterWorker
<1> QED
  BY <1>3, <1>4, <1>5, <1>6, <1>7, <1>8, <1>10, <1>11, <1>12, <1>13, <1>14, <1>15, <1>16,
     <1>17, <1>18, <1>19, <1>20, <1>21 DEF Next, OpStep

(* It is never entered when no in-process executor fails. *)
LEMMA NoFailPath ==
  ASSUME "failed" \notin LocalResults
  PROVE  Spec => []NotFailing
<1>1. Init => NotFailing
  BY DEF Init, Idle, NotFailing
<1>2. TypeOK /\ NotFailing /\ [Next]_vars => NotFailing'
  BY FailEntry DEF RunFailed
<1> QED
  BY <1>1, <1>2, TypeCorrect, PTL DEF Spec

(* What is recorded for an attempt that has ended stays, while the failure  *)
(* path is not under way.                                                   *)
LEMMA OutcomeKept ==
  ASSUME TypeOK, TypeOK', AttemptInv, NotFailing, [Next]_vars
  PROVE  [\A r \in RequestId : \A n \in DOMAIN attempts[r] :
            attempts[r][n].state \in Finished =>
              n \in DOMAIN attempts'[r] /\ attempts'[r][n] = attempts[r][n]]_vars
<1> SUFFICES ASSUME NEW r \in RequestId, NEW n \in DOMAIN attempts[r],
                    attempts[r][n].state \in Finished
             PROVE  n \in DOMAIN attempts'[r] /\ attempts'[r][n] = attempts[r][n]
  OBVIOUS
<1>1. Shape(r) /\ Settled(r)
  BY AttemptStep
<1>2. ~Created(r)
  BY DEF Created
<1>3. CASE Kept(r)
  BY <1>3 DEF Kept
<1>4. CASE OthersKept(r)
  BY <1>1, <1>2, <1>4 DEF OthersKept, Settled, CurrentKept, Kept, Open, NotFailing
<1> QED
  BY <1>1, <1>2, <1>3, <1>4 DEF Shape, Ended, Renewed

(* An attempt's outcome is final: when the in-process executors do not      *)
(* fail, no late report, cancellation, expiry or retry changes what is      *)
(* recorded for an attempt that has ended.  (With executors that fail it    *)
(* does not hold: the failure path of dispatch_and_run() records a failure  *)
(* for every member, also one whose attempt has ended.)                     *)
THEOREM OutcomesFinal ==
  ASSUME "failed" \notin LocalResults
  PROVE  Spec => AttemptFinal
<1>1. Spec => []NotFailing
  BY NoFailPath
<1> QED
  BY <1>1, OutcomeKept, TypeCorrect, AttemptsConsistent, PTL DEF Spec, AttemptFinal
=============================================================================
