---------------------------- MODULE BatchProofs ----------------------------
(***************************************************************************)
(* What holds of the batches for every policy and every sequence of calls: *)
(* splits, merges, explicit retries and failing executors included.        *)
(***************************************************************************)
EXTENDS SchedulerProofs

-----------------------------------------------------------------------------
(* What a step does to one batch, field by field. *)

(* What make_forming or do_split wrote into a batch, nothing rewrites. *)
Identity(b) ==
  /\ batches'[b].key = batches[b].key
  /\ batches'[b].generation = batches[b].generation
  /\ batches'[b].epoch = batches[b].epoch

Assigned(b) ==
  batches'[b].worker = batches[b].worker /\ batches'[b].boot = batches[b].boot

SameState(b)   == batches'[b].state = batches[b].state
SameMembers(b) == batches'[b].members = batches[b].members

(* A step that leaves all of them alone in every batch. *)
BatchesKept ==
  \A b \in BatchId : Identity(b) /\ Assigned(b) /\ SameState(b) /\ SameMembers(b)

LEMMA KeptFields ==
  ASSUME batches' = batches
  PROVE  BatchesKept
BY DEF BatchesKept, Identity, Assigned, SameState, SameMembers

(* cancel() touches the members of a forming batch, and the outcomes noted *)
(* in a later one.                                                         *)
LEMMA CancelFields ==
  ASSUME TypeOK, NEW r \in RequestId, DoCancel(r)
  PROVE  /\ \A b \in BatchId : Identity(b) /\ Assigned(b) /\ SameState(b)
         /\ \A b \in BatchId :
              \/ SameMembers(b)
              \/ /\ b = requests[r].batch /\ batches[b].state = "forming"
                 /\ batches'[b].members = Without(batches[b].members, r)
<1>1. batches \in [BatchId -> BatchRec] /\ requests[r].batch \in BatchId \cup {NoBatch}
  BY DEF TypeOK, RequestRec
<1> USE DEF Identity, Assigned, SameState, SameMembers
<1>2. CASE CancelQueued(r)
  BY <1>2 DEF CancelQueued
<1>3. CASE CancelForming(r)
  <2>1. requests[r].batch \in BatchId /\ batches[requests[r].batch].state = "forming"
    BY <1>1, <1>3 DEF CancelForming, StateOfBatch
  <2>2. batches' = [batches EXCEPT ![requests[r].batch].members = Without(@, r)]
    BY <1>3 DEF CancelForming
  <2> QED
    BY <1>1, <2>1, <2>2 DEF BatchRec
<1>4. CASE CancelSealed(r)
  <2>1. batches' = [batches EXCEPT ![requests[r].batch].outcomes[r] = "cancelled"]
    BY <1>4 DEF CancelSealed
  <2> QED
    BY <1>1, <2>1 DEF BatchRec
<1> QED
  BY <1>2, <1>3, <1>4 DEF DoCancel

(* make_forming writes a new batch of the key. *)
LEMMA MakeFields ==
  ASSUME TypeOK, NEW k \in Key, MakeForming(k)
  PROVE  /\ nextBatch \in BatchId
         /\ \A b \in BatchId \ {nextBatch} : batches'[b] = batches[b]
         /\ batches'[nextBatch].state = "forming" /\ batches'[nextBatch].key = k
         /\ batches'[nextBatch].members = <<>>
         /\ batches'[nextBatch].generation = nextGeneration
         /\ formingByKey'[k] = nextBatch
         /\ \A l \in Key \ {k} : formingByKey'[l] = formingByKey[l]
<1>1. batches \in [BatchId -> BatchRec] /\ formingByKey \in [Key -> BatchId \cup {NoBatch}]
  BY DEF TypeOK
<1>2. /\ nextBatch \in BatchId
      /\ batches' = [batches EXCEPT ![nextBatch] =
           [NoBatchRec EXCEPT !.state = "forming", !.generation = nextGeneration,
              !.epoch = epoch, !.key = k, !.formed = clock]]
      /\ formingByKey' = [formingByKey EXCEPT ![k] = nextBatch]
  BY DEF MakeForming
<1> QED
  BY <1>1, <1>2, NoBatchRecType DEF NoBatchRec

(* fill_forming appends a request to the batch it fills. *)
LEMMA PlaceFields ==
  ASSUME TypeOK, NEW r \in RequestId, Place(r)
  PROVE  /\ op.cur \in BatchId
         /\ \A b \in BatchId : Identity(b) /\ Assigned(b) /\ SameState(b)
         /\ \A b \in BatchId \ {op.cur} : SameMembers(b)
         /\ batches'[op.cur].members = Append(batches[op.cur].members, r)
<1>1. batches \in [BatchId -> BatchRec] /\ op.cur \in BatchId
  BY DEF TypeOK, Place, OpOK
<1>2. batches' = [batches EXCEPT ![op.cur].members = Append(@, r)]
  BY DEF Place
<1> QED
  BY <1>1, <1>2 DEF BatchRec, Identity, Assigned, SameState, SameMembers

LEMMA FillNewFields == TypeOK /\ FillNewDone => BatchesKept
<1> SUFFICES ASSUME TypeOK, FillNewDone PROVE BatchesKept
  OBVIOUS
<1>1. batches \in [BatchId -> BatchRec]
  BY DEF TypeOK
<1>2. PICK first : batches' = [batches EXCEPT ![op.cur].formed = first]
  BY DEF FillNewDone
<1> QED
  BY <1>1, <1>2 DEF BatchRec, BatchesKept, Identity, Assigned, SameState, SameMembers

(* do_seal *)
LEMMA SealFields ==
  ASSUME TypeOK, NEW b \in BatchId, DoSeal(b)
  PROVE  /\ \A c \in BatchId : Identity(c) /\ Assigned(c) /\ SameMembers(c)
         /\ \A c \in BatchId \ {b} : SameState(c)
         /\ batches[b].state = "forming" /\ batches'[b].state = "sealed"
         /\ formingByKey'[batches[b].key] = NoBatch
         /\ \A k \in Key \ {batches[b].key} : formingByKey'[k] = formingByKey[k]
<1>1. batches \in [BatchId -> BatchRec] /\ formingByKey \in [Key -> BatchId \cup {NoBatch}]
  BY DEF TypeOK
<1>2. /\ batches' = [batches EXCEPT ![b].state = "sealed"] /\ batches[b].state = "forming"
      /\ formingByKey' = [formingByKey EXCEPT ![batches[b].key] = NoBatch]
  BY DEF DoSeal
<1>3. batches[b].key \in Key
  BY <1>1 DEF BatchRec
<1> QED
  BY <1>1, <1>2, <1>3 DEF BatchRec, Identity, Assigned, SameState, SameMembers

(* do_merge moves the members of b to a. *)
LEMMA MergeFields ==
  ASSUME TypeOK, NEW a \in BatchId, NEW b \in BatchId, a # b, DoMerge(a, b)
  PROVE  /\ \A c \in BatchId : Identity(c) /\ Assigned(c)
         /\ \A c \in BatchId \ {a} : SameMembers(c)
         /\ \A c \in BatchId \ {b} : SameState(c)
         /\ batches'[a].members = batches[a].members \o batches[b].members
         /\ batches'[b].state = "superseded"
         /\ batches[a].state \in {"sealed", "forming"} /\ batches[b].state = batches[a].state
         /\ batches[a].key = batches[b].key
<1>1. batches \in [BatchId -> BatchRec]
  BY DEF TypeOK
<1>2. batches' = [batches EXCEPT ![a].members = @ \o batches[b].members, ![b].state = "superseded"]
  BY DEF DoMerge
<1>3. /\ batches[a].state \in {"sealed", "forming"} /\ batches[b].state = batches[a].state
      /\ batches[a].key = batches[b].key
  BY DEF DoMerge, CanMerge
<1> QED
  BY <1>1, <1>2, <1>3, ZenonT(30) DEF BatchRec, Identity, Assigned, SameState, SameMembers

(* The ids from nextBatch on name no batch. *)
FreshBatches ==
  \A b \in BatchId : b >= nextBatch => batches[b].state = "none" /\ lineage[b] = NoLineage

(* Child takes over everything but the members and the outcomes. *)
LEMMA ChildFields ==
  ASSUME TypeOK, NEW b \in BatchId, NEW m
  PROVE  /\ Child(b, m).members = m /\ Child(b, m).state = batches[b].state
         /\ Child(b, m).key = batches[b].key
         /\ Child(b, m).generation = batches[b].generation
         /\ Child(b, m).epoch = batches[b].epoch
BY DEF TypeOK, BatchRec, Child

(* do_split on a sealed batch: two new sealed batches take its place. *)
LEMMA SplitSealedFields ==
  ASSUME TypeOK, FreshBatches, NEW b \in BatchId, SplitSealed(b)
  PROVE  /\ nextBatch \in BatchId /\ nextBatch + 1 \in BatchId /\ b < nextBatch
         /\ nextBatch \in Nat /\ b \in Nat
         /\ batches[b].state = "sealed" /\ batches'[b].state = "superseded"
         /\ batches'[b].members = FirstHalf(b) /\ Identity(b) /\ Assigned(b)
         /\ batches'[nextBatch] = Child(b, SecondHalf(b))
         /\ batches'[nextBatch + 1] = Child(b, FirstHalf(b))
         /\ \A c \in BatchId \ {b, nextBatch, nextBatch + 1} : batches'[c] = batches[c]
<1>1. batches \in [BatchId -> BatchRec] /\ nextBatch \in Nat \ {0} /\ b \in Nat
  BY IdsNatural DEF TypeOK
<1>2. /\ batches' = [batches EXCEPT
           ![b].members = FirstHalf(b), ![b].state = "superseded",
           ![nextBatch] = Child(b, SecondHalf(b)),
           ![nextBatch + 1] = Child(b, FirstHalf(b))]
      /\ nextBatch + 1 \in BatchId /\ batches[b].state = "sealed"
  BY DEF SplitSealed
<1>3. nextBatch \in BatchId
  BY <1>1, <1>2, SchedulerAssumption DEF BatchId, SchedulerAssumption
<1>4. b < nextBatch
  BY <1>1, <1>2 DEF FreshBatches
<1> QED
  BY <1>1, <1>2, <1>3, <1>4, SMTT(30) DEF BatchRec, Identity, Assigned

(* do_split on any other batch: it keeps its first half. *)
LEMMA SplitOpenFields ==
  ASSUME TypeOK, FreshBatches, NEW b \in BatchId, SplitOpen(b)
  PROVE  /\ nextBatch \in BatchId /\ b < nextBatch /\ nextBatch \in Nat /\ b \in Nat
         /\ batches[b].state \in {"forming", "partially_completed"} /\ SameState(b)
         /\ batches'[b].members = FirstHalf(b) /\ Identity(b) /\ Assigned(b)
         /\ batches'[nextBatch] = Child(b, SecondHalf(b))
         /\ \A c \in BatchId \ {b, nextBatch} : batches'[c] = batches[c]
         /\ formingByKey'[batches[b].key] = b
         /\ \A k \in Key \ {batches[b].key} : formingByKey'[k] = formingByKey[k]
<1>1. /\ batches \in [BatchId -> BatchRec] /\ nextBatch \in Nat \ {0} /\ b \in Nat
      /\ formingByKey \in [Key -> BatchId \cup {NoBatch}] /\ batches[b].key \in Key
      /\ batches[b].state \in BatchState
  BY IdsNatural DEF TypeOK, BatchRec
<1>2. /\ batches' = [batches EXCEPT ![b].members = FirstHalf(b),
                                    ![nextBatch] = Child(b, SecondHalf(b))]
      /\ nextBatch \in BatchId
      /\ formingByKey' = [formingByKey EXCEPT ![batches[b].key] = b]
  BY DEF SplitOpen
<1>3. batches[b].state \in {"forming", "partially_completed"}
  BY <1>1 DEF SplitOpen, Splittable, BatchState, BatchTerminal
<1>4. b < nextBatch
  BY <1>1, <1>2, <1>3 DEF FreshBatches
<1> QED
  BY <1>1, <1>2, <1>3, <1>4 DEF BatchRec, Identity, Assigned, SameState

(* apply_member_outcome notes outcomes only. *)
LEMMA OutcomeFields ==
  ASSUME TypeOK, NEW r \in RequestId, NEW status, ApplyOutcome(r, status)
  PROVE  BatchesKept
<1>1. batches \in [BatchId -> BatchRec]
  BY DEF TypeOK
<1>2. CASE batches' = batches
  BY <1>2, KeptFields
<1>3. CASE batches' = [batches EXCEPT ![requests[r].batch].outcomes[r] = status]
  BY <1>1, <1>3 DEF BatchRec, BatchesKept, Identity, Assigned, SameState, SameMembers
<1> QED
  BY <1>2, <1>3 DEF ApplyOutcome, ApplyIgnored, ApplyFinal, ApplyRetry, NoteOutcome

(* complete() ends the batch it was called for. *)
LEMMA DoneFields ==
  ASSUME TypeOK, CompleteDone
  PROVE  /\ op.cur \in BatchId
         /\ \A c \in BatchId : Identity(c) /\ Assigned(c) /\ SameMembers(c)
         /\ \A c \in BatchId \ {op.cur} : SameState(c)
         /\ batches'[op.cur].state \in {"completed", "partially_completed"}
         /\ batches'[op.cur].state = "completed" =>
              \A r \in Members(op.cur) : requests[r].state \in Terminal
<1>1. batches \in [BatchId -> BatchRec] /\ op.cur \in BatchId
  BY DEF TypeOK, CompleteDone, OpOK
<1>2. PICK state \in {"completed", "partially_completed"} :
        /\ batches' = [batches EXCEPT ![op.cur].state = state]
        /\ state = "completed" => \A r \in Members(op.cur) : requests[r].state \in Terminal
  BY DEF CompleteDone
<1> QED
  BY <1>1, <1>2 DEF BatchRec, Identity, Assigned, SameState, SameMembers

(* prepare_dispatch and dispatch_and_run hand a sealed batch out. *)
Handed(b, state, w) ==
  /\ \A c \in BatchId : Identity(c) /\ SameMembers(c)
  /\ \A c \in BatchId \ {b} : SameState(c) /\ Assigned(c)
  /\ batches[b].state = "sealed" /\ batches'[b].state = state
  /\ batches'[b].worker = w /\ batches'[b].boot = workers[w].boot

LEMMA DispatchFields ==
  ASSUME TypeOK, NEW b \in BatchId, NEW w \in Worker, PrepareDispatch(b, w)
  PROVE  Handed(b, "dispatched", w)
<1>1. batches \in [BatchId -> BatchRec]
  BY DEF TypeOK
<1>2. /\ batches' = [batches EXCEPT ![b].state = "dispatched", ![b].worker = w,
                                    ![b].boot = workers[w].boot]
      /\ batches[b].state = "sealed"
  BY DEF PrepareDispatch
<1> QED
  BY <1>1, <1>2 DEF BatchRec, Handed, Identity, Assigned, SameState, SameMembers

LEMMA RunFields ==
  ASSUME TypeOK, NEW b \in BatchId, StartRun(b)
  PROVE  Handed(b, "running", 0)
<1>1. batches \in [BatchId -> BatchRec]
  BY DEF TypeOK
<1>2. /\ batches' = [batches EXCEPT ![b].state = "running", ![b].worker = 0,
                                    ![b].boot = workers[0].boot]
      /\ batches[b].state = "sealed"
  BY DEF StartRun
<1> QED
  BY <1>1, <1>2 DEF BatchRec, Handed, Identity, Assigned, SameState, SameMembers

-----------------------------------------------------------------------------
(* The removal of an element from a sequence. *)

(* Exactly one occurrence goes, the others move up. *)
LEMMA WithoutElements ==
  ASSUME NEW S, NEW s \in Seq(S), NEW x, x \in Range(s)
  PROVE  \E i \in 1 .. Len(s) :
           /\ s[i] = x /\ Without(s, x) \in Seq(S)
           /\ Len(Without(s, x)) = Len(s) - 1
           /\ \A j \in 1 .. Len(s) - 1 :
                Without(s, x)[j] = IF j < i THEN s[j] ELSE s[j + 1]
<1> DEFINE i == CHOOSE n \in DOMAIN s : s[n] = x
<1>1. i \in 1 .. Len(s) /\ s[i] = x
  BY DEF Range
<1>2. Without(s, x) = RemoveAt(s, i)
  BY DEF Without
<1> HIDE DEF i
<1>3. Without(s, x) = SubSeq(s, 1, i - 1) \o SubSeq(s, i + 1, Len(s))
  BY <1>2 DEF RemoveAt
<1>4. Len(s) \in Nat
  OBVIOUS
<1>5. /\ SubSeq(s, 1, i - 1) \in Seq(S) /\ Len(SubSeq(s, 1, i - 1)) = i - 1
      /\ \A j \in 1 .. i - 1 : SubSeq(s, 1, i - 1)[j] = s[j]
  BY <1>1, <1>4
<1>6. /\ SubSeq(s, i + 1, Len(s)) \in Seq(S) /\ Len(SubSeq(s, i + 1, Len(s))) = Len(s) - i
      /\ \A j \in 1 .. Len(s) - i : SubSeq(s, i + 1, Len(s))[j] = s[i + j]
  BY <1>1, <1>4
<1> DEFINE l == SubSeq(s, 1, i - 1)
           u == SubSeq(s, i + 1, Len(s))
<1> HIDE DEF l, u
<1>7. /\ l \o u \in Seq(S) /\ Len(l \o u) = Len(s) - 1
      /\ \A j \in 1 .. Len(s) - 1 : (l \o u)[j] = IF j < i THEN s[j] ELSE s[j + 1]
  <2>1. l \in Seq(S) /\ u \in Seq(S) /\ Len(l) = i - 1 /\ Len(u) = Len(s) - i
    BY <1>5, <1>6 DEF l, u
  <2>2. /\ l \o u \in Seq(S) /\ Len(l \o u) = Len(l) + Len(u)
        /\ \A j \in 1 .. Len(l) + Len(u) :
             (l \o u)[j] = IF j <= Len(l) THEN l[j] ELSE u[j - Len(l)]
    BY <2>1, ConcatProperties
  <2>3. \A j \in 1 .. i - 1 : l[j] = s[j]
    BY <1>5 DEF l
  <2>4. \A j \in 1 .. Len(s) - i : u[j] = s[i + j]
    BY <1>6 DEF u
  <2>5. ASSUME NEW j \in 1 .. Len(s) - 1
        PROVE  (l \o u)[j] = IF j < i THEN s[j] ELSE s[j + 1]
    <3>1. CASE j < i
      BY <1>1, <1>4, <2>1, <2>2, <2>3, <3>1
    <3>2. CASE j >= i
      <4>1. j - (i - 1) \in 1 .. Len(s) - i /\ i + (j - (i - 1)) = j + 1
        BY <1>1, <1>4, <3>2
      <4>2. u[j - (i - 1)] = s[j + 1]
        BY <2>4, <4>1
      <4> QED
        BY <1>1, <1>4, <2>1, <2>2, <3>2, <4>2
    <3>3. j < i \/ j >= i
      BY <1>1, <1>4
    <3> QED
      BY <3>1, <3>2, <3>3, Zenon
  <2>6. (i - 1) + (Len(s) - i) = Len(s) - 1
    BY <1>1, <1>4
  <2>7. Len(l \o u) = Len(s) - 1
    BY <2>1, <2>2, <2>6
  <2> QED
    BY <2>2, <2>5, <2>7, Zenon
<1>8. Without(s, x) = l \o u
  BY <1>3 DEF l, u
<1>9. /\ Without(s, x) \in Seq(S) /\ Len(Without(s, x)) = Len(s) - 1
      /\ \A j \in 1 .. Len(s) - 1 : Without(s, x)[j] = IF j < i THEN s[j] ELSE s[j + 1]
  BY <1>7, <1>8, Zenon
<1> QED
  BY <1>1, <1>9, Zenon

(* A sequence without repetitions. *)
Distinct(s) == \A i, j \in DOMAIN s : s[i] = s[j] => i = j

(* Removing an element keeps every other one, and removes the element if    *)
(* it occurs once.                                                          *)
LEMMA WithoutKeeps ==
  ASSUME NEW S, NEW s \in Seq(S), NEW x
  PROVE  /\ Range(s) \ {x} \subseteq Range(Without(s, x))
         /\ Distinct(s) => /\ Distinct(Without(s, x))
                           /\ Range(Without(s, x)) = Range(s) \ {x}
<1>1. CASE x \notin Range(s)
  BY <1>1 DEF Without
<1>2. CASE x \in Range(s)
  <2>1. PICK i \in 1 .. Len(s) :
           /\ s[i] = x /\ Without(s, x) \in Seq(S)
           /\ Len(Without(s, x)) = Len(s) - 1
           /\ \A j \in 1 .. Len(s) - 1 :
                Without(s, x)[j] = IF j < i THEN s[j] ELSE s[j + 1]
    BY <1>2, WithoutElements
  <2> DEFINE w == Without(s, x)
  <2>2. Len(s) \in Nat /\ DOMAIN s = 1 .. Len(s) /\ DOMAIN w = 1 .. Len(s) - 1
    BY <2>1
  <2>3. \A j \in 1 .. Len(s) - 1 : w[j] = IF j < i THEN s[j] ELSE s[j + 1]
    BY <2>1
  <2>4. w \in Seq(S)
    BY <2>1
  <2> HIDE DEF w
  <2>5. ASSUME NEW y \in Range(s), y # x PROVE y \in Range(w)
    <3>1. PICK n \in 1 .. Len(s) : s[n] = y
      BY <2>2 DEF Range
    <3>2. CASE n < i
      <4>1. n \in 1 .. Len(s) - 1 /\ w[n] = y
        BY <2>2, <2>3, <3>1, <3>2
      <4> QED
        BY <2>2, <4>1 DEF Range
    <3>3. CASE n > i
      <4>1. n - 1 \in 1 .. Len(s) - 1 /\ ~(n - 1 < i) /\ (n - 1) + 1 = n
        BY <2>2, <3>1, <3>3
      <4>2. w[n - 1] = y
        BY <2>3, <3>1, <4>1
      <4> QED
        BY <2>2, <4>1, <4>2 DEF Range
    <3> QED
      BY <2>1, <2>2, <2>5, <3>1, <3>2, <3>3
  <2>6. ASSUME Distinct(s) PROVE Distinct(w) /\ x \notin Range(w)
    <3>1. \A j, n \in 1 .. Len(s) : s[j] = s[n] => j = n
      BY <2>2, <2>6 DEF Distinct
    <3>2. \A j \in 1 .. Len(s) - 1 : j \in 1 .. Len(s) /\ j + 1 \in 1 .. Len(s)
      BY <2>2
    <3>3. \A j \in 1 .. Len(s) - 1 : w[j] # x
      BY <2>1, <2>2, <2>3, <3>1, <3>2
    <3>4. \A j, n \in 1 .. Len(s) - 1 : w[j] = w[n] => j = n
      <4> SUFFICES ASSUME NEW j \in 1 .. Len(s) - 1, NEW n \in 1 .. Len(s) - 1, w[j] = w[n]
                   PROVE  j = n
        OBVIOUS
      <4>1. CASE j < i /\ n < i
        BY <2>3, <3>1, <3>2, <4>1
      <4>2. CASE ~(j < i) /\ ~(n < i)
        <5>1. j + 1 = n + 1
          BY <2>3, <3>1, <3>2, <4>2
        <5> QED
          BY <5>1
      <4>3. CASE j < i /\ ~(n < i)
        <5>1. j = n + 1
          BY <2>3, <3>1, <3>2, <4>3
        <5> QED
          BY <4>3, <5>1
      <4>4. CASE ~(j < i) /\ n < i
        <5>1. j + 1 = n
          BY <2>3, <3>1, <3>2, <4>4
        <5> QED
          BY <4>4, <5>1
      <4> QED
        BY <4>1, <4>2, <4>3, <4>4
    <3> QED
      BY <2>2, <3>3, <3>4 DEF Distinct, Range
  <2>7. Range(w) \subseteq Range(s)
    BY WithoutRange DEF w
  <2> QED
    BY <2>5, <2>6, <2>7 DEF w
<1> QED
  BY <1>1, <1>2

-----------------------------------------------------------------------------
(* The books the scheduler keeps of its batches. *)

(* No batch is listed twice in the seal order, and none that is still       *)
(* forming.                                                                 *)
SealOrder ==
  /\ Distinct(sealedOrder)
  /\ \A b \in Range(sealedOrder) : batches[b].state \notin {"none", "forming"}

(* Requests can be added to these batches. *)
Fillable == {"forming", "partially_completed"}

(* The entry of a key names a batch of that key that can be filled. *)
KeyEntries ==
  \A k \in Key : formingByKey[k] # NoBatch =>
    /\ batches[formingByKey[k]].key = k
    /\ batches[formingByKey[k]].state \in Fillable

(* The batch field of a request names a batch that exists. *)
KnownBatches ==
  \A r \in RequestId : requests[r].batch # NoBatch => batches[requests[r].batch].state # "none"

Books == FreshBatches /\ SealOrder /\ KeyEntries /\ KnownBatches

HandedOut == {"dispatched", "running"}

EntryOf(b) == formingByKey[batches[b].key]

(* What the method that holds the mutex relies on: it fills the batches the *)
(* key entries name, each once; it merges pairs of two batches; and the     *)
(* batch a report is applied to was handed out.                             *)
OpBatches ==
  /\ op.pc \in {"fillnew", "fill"} => EntryOf(op.cur) = op.cur
  /\ op.pc \in {"form", "fill"} => \A b \in op.forming : EntryOf(b) = b
  /\ op.pc = "fill" => op.cur \notin op.forming
  /\ op.pc = "merge" => \A p \in op.pairs : p[1] # p[2]
  /\ op.pc = "complete" => batches[op.cur].state \in HandedOut

BatchInv == Books /\ OpBatches

(* The types the proofs about the books use. *)
LEMMA BookTypes ==
  ASSUME TypeOK, TypeOK'
  PROVE  /\ \A k \in Key : /\ formingByKey[k] \in BatchId \cup {NoBatch}
                           /\ formingByKey'[k] \in BatchId \cup {NoBatch}
         /\ \A r \in RequestId : /\ requests[r].batch \in BatchId \cup {NoBatch}
                                 /\ requests'[r].batch \in BatchId \cup {NoBatch}
         /\ sealedOrder \in Seq(BatchId) /\ sealedOrder' \in Seq(BatchId)
         /\ Range(sealedOrder) \subseteq BatchId
         /\ \A b \in BatchId : batches[b].key \in Key /\ batches[b].state \in BatchState
<1>1. sealedOrder \in Seq(BatchId) /\ sealedOrder' \in Seq(BatchId)
  BY DEF TypeOK
<1>2. Range(sealedOrder) \subseteq BatchId
  BY <1>1, RangeOfSeq
<1> QED
  BY <1>1, <1>2 DEF TypeOK, RequestRec, BatchRec

(* A step that moves no batch to another state keeps the books. *)
LEMMA QuietBooks ==
  ASSUME TypeOK, TypeOK', Books,
         \A b \in BatchId : batches'[b].key = batches[b].key /\ SameState(b),
         UNCHANGED <<lineage, nextBatch, sealedOrder, formingByKey>>,
         \A r \in RequestId : requests'[r].batch \in {requests[r].batch, NoBatch}
  PROVE  Books'
<1>1. FreshBatches'
  BY DEF Books, FreshBatches, SameState
<1>2. SealOrder'
  BY BookTypes DEF Books, SealOrder, SameState
<1>3. KeyEntries'
  BY BookTypes DEF Books, KeyEntries, SameState
<1>4. KnownBatches'
  BY BookTypes DEF Books, KnownBatches, SameState
<1> QED
  BY <1>1, <1>2, <1>3, <1>4 DEF Books

LEMMA MakeBooks ==
  ASSUME TypeOK, TypeOK', Books, NEW k \in Key, MakeForming(k)
  PROVE  Books'
<1>1. /\ nextBatch \in BatchId
      /\ \A b \in BatchId \ {nextBatch} : batches'[b] = batches[b]
      /\ batches'[nextBatch].state = "forming" /\ batches'[nextBatch].key = k
      /\ formingByKey'[k] = nextBatch
      /\ \A l \in Key \ {k} : formingByKey'[l] = formingByKey[l]
  BY MakeFields
<1>2. /\ requests' = requests /\ lineage' = lineage /\ sealedOrder' = sealedOrder
      /\ nextBatch' = nextBatch + 1
  BY DEF MakeForming, requestVars
<1>3. batches[nextBatch].state = "none" /\ nextBatch \in Nat \ {0}
  BY <1>1, IdsNatural DEF Books, FreshBatches
<1>4. FreshBatches'
  BY <1>1, <1>2, <1>3, IdsNatural DEF Books, FreshBatches
<1>same. \A b \in BatchId : b # nextBatch => /\ batches'[b].state = batches[b].state
                                            /\ batches'[b].key = batches[b].key
  BY <1>1
<1>5. SealOrder'
  BY <1>2, <1>3, <1>same, BookTypes DEF Books, SealOrder
<1>6. KeyEntries'
  <2> SUFFICES ASSUME NEW l \in Key, formingByKey'[l] # NoBatch
               PROVE  /\ batches'[formingByKey'[l]].key = l
                      /\ batches'[formingByKey'[l]].state \in Fillable
    BY DEF KeyEntries
  <2>1. CASE l = k
    BY <1>1, <2>1 DEF Fillable
  <2>2. CASE l # k
    <3>1. /\ formingByKey'[l] = formingByKey[l] /\ formingByKey[l] \in BatchId
          /\ batches[formingByKey[l]].key = l /\ batches[formingByKey[l]].state \in Fillable
      BY <1>1, <2>2, BookTypes DEF Books, KeyEntries
    <3> QED
      BY <1>3, <1>same, <3>1 DEF Fillable
  <2> QED
    BY <2>1, <2>2
<1>7. KnownBatches'
  BY <1>1, <1>2, <1>3, BookTypes DEF Books, KnownBatches
<1> QED
  BY <1>4, <1>5, <1>6, <1>7 DEF Books

(* The batch being filled is one a key entry names. *)
LEMMA FilledBatch ==
  ASSUME TypeOK, BatchInv, op.pc \in {"fillnew", "fill"}
  PROVE  op.cur \in BatchId /\ EntryOf(op.cur) = op.cur /\ batches[op.cur].state \in Fillable
BY IdsNatural DEF TypeOK, OpOK, BatchInv, Books, OpBatches, KeyEntries, EntryOf, BatchRec

LEMMA PlaceBooks ==
  ASSUME TypeOK, TypeOK', BatchInv, NEW r \in RequestId, Place(r)
  PROVE  Books'
<1>1. /\ op.cur \in BatchId
      /\ \A b \in BatchId : Identity(b) /\ Assigned(b) /\ SameState(b)
  BY PlaceFields
<1>2. batches[op.cur].state \in Fillable
  BY FilledBatch DEF Place
<1>3. /\ UNCHANGED <<lineage, nextBatch, sealedOrder, formingByKey>>
      /\ requests' = [requests EXCEPT ![r].state = "reserved", ![r].batch = op.cur,
                                      ![r].queued = FALSE]
  BY DEF Place, idVars
<1>4. \A q \in RequestId : requests'[q].batch = IF q = r THEN op.cur ELSE requests[q].batch
  BY <1>3 DEF TypeOK, RequestRec
<1>5. FreshBatches'
  BY <1>1, <1>3 DEF BatchInv, Books, FreshBatches, SameState
<1>6. SealOrder'
  BY <1>1, <1>3, BookTypes DEF BatchInv, Books, SealOrder, SameState
<1>7. KeyEntries'
  BY <1>1, <1>3, BookTypes DEF BatchInv, Books, KeyEntries, SameState, Identity
<1>8. KnownBatches'
  BY <1>1, <1>2, <1>4, BookTypes DEF BatchInv, Books, KnownBatches, SameState, Fillable
<1> QED
  BY <1>5, <1>6, <1>7, <1>8 DEF Books

LEMMA SealBooks ==
  ASSUME TypeOK, TypeOK', Books, NEW b \in BatchId, DoSeal(b), UNCHANGED <<lineage, nextBatch>>
  PROVE  Books'
<1>1. /\ \A c \in BatchId : Identity(c) /\ Assigned(c) /\ SameMembers(c)
      /\ \A c \in BatchId \ {b} : SameState(c)
      /\ batches[b].state = "forming" /\ batches'[b].state = "sealed"
      /\ formingByKey'[batches[b].key] = NoBatch
      /\ \A k \in Key \ {batches[b].key} : formingByKey'[k] = formingByKey[k]
  BY SealFields
<1>2. FreshBatches'
  BY <1>1 DEF Books, FreshBatches, SameState
<1>3. SealOrder'
  <2>1. sealedOrder' = Append(sealedOrder, b) /\ sealedOrder \in Seq(BatchId)
    BY DEF DoSeal, TypeOK
  <2>2. /\ Len(sealedOrder) \in Nat /\ DOMAIN sealedOrder = 1 .. Len(sealedOrder)
        /\ DOMAIN sealedOrder' = 1 .. Len(sealedOrder) + 1
        /\ \A i \in 1 .. Len(sealedOrder) : sealedOrder'[i] = sealedOrder[i]
        /\ sealedOrder'[Len(sealedOrder) + 1] = b
    BY <2>1
  <2>3. \A i \in 1 .. Len(sealedOrder) :
          sealedOrder[i] \in BatchId /\ batches[sealedOrder[i]].state \notin {"none", "forming"}
    BY <2>1, <2>2 DEF Books, SealOrder, Range
  <2>4. \A i, j \in 1 .. Len(sealedOrder) : sealedOrder[i] = sealedOrder[j] => i = j
    BY <2>2 DEF Books, SealOrder, Distinct
  <2>5. Distinct(sealedOrder')
    BY <1>1, <2>2, <2>3, <2>4 DEF Distinct
  <2>6. \A i \in DOMAIN sealedOrder' : batches'[sealedOrder'[i]].state \notin {"none", "forming"}
    BY <1>1, <2>2, <2>3 DEF SameState
  <2> QED
    BY <2>5, <2>6 DEF SealOrder, Range
<1>4. KeyEntries'
  BY <1>1, BookTypes DEF Books, KeyEntries, SameState, Identity
<1>5. KnownBatches'
  <2>1. \A r \in RequestId : requests'[r].batch = requests[r].batch
    BY DEF DoSeal, TypeOK, RequestRec
  <2> QED
    BY <1>1, <2>1, BookTypes DEF Books, KnownBatches, SameState
<1> QED
  BY <1>2, <1>3, <1>4, <1>5 DEF Books

LEMMA MergeBooks ==
  ASSUME TypeOK, TypeOK', Books, NEW a \in BatchId, NEW b \in BatchId, a # b, DoMerge(a, b)
  PROVE  Books'
<1>1. /\ \A c \in BatchId : Identity(c) /\ Assigned(c)
      /\ \A c \in BatchId \ {b} : SameState(c)
      /\ batches'[b].state = "superseded"
      /\ batches[a].state \in {"sealed", "forming"} /\ batches[b].state = batches[a].state
      /\ batches[a].key = batches[b].key
  BY MergeFields
<1>2. /\ nextBatch' = nextBatch /\ sealedOrder' = Without(sealedOrder, b)
      /\ formingByKey' = IF formingByKey[batches[b].key] = b
                           THEN [formingByKey EXCEPT ![batches[b].key] = a] ELSE formingByKey
  BY DEF DoMerge, idVars
<1>3. \A c \in BatchId : c # a => lineage'[c] = lineage[c]
  BY DEF DoMerge, TypeOK
<1>4. FreshBatches'
  BY <1>1, <1>2, <1>3 DEF Books, FreshBatches, SameState
<1>5. SealOrder'
  <2>1. Distinct(sealedOrder) /\ Range(sealedOrder) \subseteq BatchId /\ sealedOrder \in Seq(BatchId)
    BY BookTypes DEF Books, SealOrder
  <2>2. Distinct(sealedOrder') /\ Range(sealedOrder') \subseteq Range(sealedOrder)
    BY <1>2, <2>1, WithoutKeeps, WithoutRange
  <2>3. \A c \in Range(sealedOrder) : batches'[c].state \notin {"none", "forming"}
    BY <1>1, <2>1 DEF Books, SealOrder, SameState
  <2> QED
    BY <2>2, <2>3 DEF SealOrder
<1>6. KeyEntries'
  <2> SUFFICES ASSUME NEW k \in Key, formingByKey'[k] # NoBatch
               PROVE  /\ batches'[formingByKey'[k]].key = k
                      /\ batches'[formingByKey'[k]].state \in Fillable
    BY DEF KeyEntries
  <2>1. formingByKey \in [Key -> BatchId \cup {NoBatch}] /\ batches[b].key \in Key
    BY DEF TypeOK, BatchRec
  <2>2. CASE k = batches[b].key /\ formingByKey[k] = b
    <3>1. batches[b].state \in Fillable
      BY <2>2, IdsNatural DEF Books, KeyEntries
    <3>2. formingByKey'[k] = a
      BY <1>2, <2>1, <2>2
    <3> QED
      BY <1>1, <2>2, <3>1, <3>2 DEF SameState, Identity
  <2>3. CASE ~(k = batches[b].key /\ formingByKey[k] = b)
    <3>1. formingByKey'[k] = formingByKey[k]
      BY <1>2, <2>1, <2>3
    <3>2. /\ formingByKey[k] \in BatchId /\ batches[formingByKey[k]].key = k
          /\ batches[formingByKey[k]].state \in Fillable
      BY <2>1, <3>1 DEF Books, KeyEntries
    <3> QED
      BY <1>1, <2>3, <3>1, <3>2 DEF SameState, Identity
  <2> QED
    BY <2>2, <2>3
<1>7. KnownBatches'
  <2>1. \A r \in RequestId : requests'[r].batch \in {requests[r].batch, a}
    BY ZenonT(30) DEF DoMerge, TypeOK, RequestRec
  <2>2. \A c \in BatchId : batches[c].state # "none" => batches'[c].state # "none"
    BY <1>1 DEF SameState
  <2>3. batches[a].state # "none"
    BY <1>1
  <2> QED
    BY <2>1, <2>2, <2>3, BookTypes DEF Books, KnownBatches
<1> QED
  BY <1>4, <1>5, <1>6, <1>7 DEF Books

(* The seal order after a split: the first half takes the batch's place. *)
LEMMA SplitOrder ==
  ASSUME TypeOK, Books, NEW b \in BatchId, NEW c \in BatchId,
         c \notin Range(sealedOrder)
  PROVE  /\ Distinct(Append(Without(sealedOrder, b), c))
         /\ Range(Append(Without(sealedOrder, b), c)) = (Range(sealedOrder) \ {b}) \cup {c}
<1> DEFINE w == Without(sealedOrder, b)
<1>1. sealedOrder \in Seq(BatchId) /\ Distinct(sealedOrder)
  BY DEF TypeOK, Books, SealOrder
<1>2. w \in Seq(BatchId) /\ Distinct(w) /\ Range(w) = Range(sealedOrder) \ {b}
  BY <1>1, WithoutKeeps, WithoutType
<1> HIDE DEF w
<1>3. /\ Len(w) \in Nat /\ DOMAIN w = 1 .. Len(w)
      /\ DOMAIN Append(w, c) = 1 .. Len(w) + 1
      /\ \A i \in 1 .. Len(w) : Append(w, c)[i] = w[i]
      /\ Append(w, c)[Len(w) + 1] = c
  BY <1>2
<1>4. \A i \in 1 .. Len(w) : w[i] # c
  BY <1>2, <1>3 DEF Range
<1>5. Distinct(Append(w, c))
  BY <1>2, <1>3, <1>4 DEF Distinct
<1>6. Range(Append(w, c)) = Range(w) \cup {c}
  BY <1>2, AppendProperties DEF Range
<1> QED
  BY <1>2, <1>5, <1>6 DEF w

LEMMA SplitBooks ==
  ASSUME TypeOK, TypeOK', Books, NEW b \in BatchId, DoSplit(b)
  PROVE  Books'
<1>fresh. FreshBatches
  BY DEF Books
<1>field. ASSUME Rehome(b, nextBatch)
          PROVE  \A r \in RequestId : requests'[r].batch \in {requests[r].batch, b, nextBatch}
  BY <1>field DEF Rehome, TypeOK, RequestRec
<1>1. CASE SplitSealed(b)
  <2>1. /\ nextBatch \in BatchId /\ nextBatch + 1 \in BatchId /\ b < nextBatch
        /\ nextBatch \in Nat /\ b \in Nat
        /\ batches[b].state = "sealed" /\ batches'[b].state = "superseded"
        /\ Identity(b)
        /\ batches'[nextBatch] = Child(b, SecondHalf(b))
        /\ batches'[nextBatch + 1] = Child(b, FirstHalf(b))
        /\ \A c \in BatchId \ {b, nextBatch, nextBatch + 1} : batches'[c] = batches[c]
    BY <1>1, <1>fresh, SplitSealedFields
  <2>2. /\ batches'[nextBatch].state = "sealed" /\ batches'[nextBatch + 1].state = "sealed"
        /\ batches[nextBatch].state = "none" /\ batches[nextBatch + 1].state = "none"
    BY <1>fresh, <2>1, ChildFields DEF FreshBatches
  <2>3. \A c \in BatchId : c \notin {b, nextBatch, nextBatch + 1} =>
          batches'[c].state = batches[c].state /\ batches'[c].key = batches[c].key
    BY <2>1
  <2>4. /\ nextBatch' = nextBatch + 2 /\ formingByKey' = formingByKey /\ Rehome(b, nextBatch)
        /\ sealedOrder' = Append(Without(sealedOrder, b), nextBatch + 1)
        /\ lineage' = [lineage EXCEPT
             ![b].children    = @ \o <<nextBatch, nextBatch + 1>>,
             ![nextBatch]     = [parents |-> <<b, nextBatch + 1>>, children |-> <<>>],
             ![nextBatch + 1] = [parents |-> <<b>>, children |-> <<nextBatch>>]]
    BY <1>1 DEF SplitSealed
  <2>5. FreshBatches'
    <3>1. \A c \in BatchId : c \in Nat
      BY IdsNatural
    <3>2. \A c \in BatchId : c \notin {b, nextBatch, nextBatch + 1} => lineage'[c] = lineage[c]
      BY <2>4 DEF TypeOK
    <3>3. \A c \in BatchId : c >= nextBatch' => c >= nextBatch /\ c \notin {b, nextBatch, nextBatch + 1}
      BY <2>1, <2>4, <3>1
    <3> QED
      BY <1>fresh, <2>3, <3>2, <3>3 DEF FreshBatches
  <2>6. SealOrder'
    <3>1. Range(sealedOrder) \subseteq BatchId /\ nextBatch + 1 \notin Range(sealedOrder)
      BY <2>2, BookTypes DEF Books, SealOrder
    <3>2. /\ Distinct(sealedOrder')
          /\ Range(sealedOrder') = (Range(sealedOrder) \ {b}) \cup {nextBatch + 1}
      BY <2>1, <2>4, <3>1, SplitOrder
    <3>3. \A c \in Range(sealedOrder) : batches[c].state \notin {"none", "forming"}
      BY DEF Books, SealOrder
    <3>4. \A c \in Range(sealedOrder) : batches'[c].state \notin {"none", "forming"}
      BY <2>1, <2>2, <2>3, <3>1, <3>3
    <3> QED
      BY <2>2, <3>2, <3>4 DEF SealOrder
  <2>7. KeyEntries'
    BY <2>1, <2>2, <2>3, <2>4, BookTypes DEF Books, KeyEntries, Fillable
  <2>8. KnownBatches'
    BY <1>field, <2>1, <2>2, <2>3, <2>4, BookTypes DEF Books, KnownBatches
  <2> QED
    BY <2>5, <2>6, <2>7, <2>8 DEF Books
<1>2. CASE SplitOpen(b)
  <2>1. /\ nextBatch \in BatchId /\ b < nextBatch /\ nextBatch \in Nat /\ b \in Nat
        /\ batches[b].state \in {"forming", "partially_completed"} /\ SameState(b)
        /\ Identity(b)
        /\ batches'[nextBatch] = Child(b, SecondHalf(b))
        /\ \A c \in BatchId \ {b, nextBatch} : batches'[c] = batches[c]
        /\ formingByKey'[batches[b].key] = b
        /\ \A k \in Key \ {batches[b].key} : formingByKey'[k] = formingByKey[k]
    BY <1>2, <1>fresh, SplitOpenFields
  <2>2. /\ batches'[nextBatch].state = batches[b].state
        /\ batches[nextBatch].state = "none"
    BY <1>fresh, <2>1, ChildFields DEF FreshBatches
  <2>3. \A c \in BatchId : c # nextBatch =>
          batches'[c].state = batches[c].state /\ batches'[c].key = batches[c].key
    BY <2>1 DEF SameState, Identity
  <2>4. /\ nextBatch' = nextBatch + 1 /\ Rehome(b, nextBatch) /\ sealedOrder' = sealedOrder
        /\ lineage' = [lineage EXCEPT ![b].children = Append(@, nextBatch),
                                      ![nextBatch] = [parents |-> <<b>>, children |-> <<>>]]
    BY <1>2 DEF SplitOpen
  <2>5. FreshBatches'
    <3>1. \A c \in BatchId : c \in Nat
      BY IdsNatural
    <3>2. \A c \in BatchId : c \notin {b, nextBatch} => lineage'[c] = lineage[c]
      BY <2>4 DEF TypeOK
    <3>3. \A c \in BatchId : c >= nextBatch' => c >= nextBatch /\ c \notin {b, nextBatch}
      BY <2>1, <2>4, <3>1
    <3> QED
      BY <1>fresh, <2>3, <3>2, <3>3 DEF FreshBatches
  <2>6. SealOrder'
    BY <2>2, <2>3, <2>4, BookTypes DEF Books, SealOrder
  <2>7. KeyEntries'
    <3> SUFFICES ASSUME NEW k \in Key, formingByKey'[k] # NoBatch
                 PROVE  /\ batches'[formingByKey'[k]].key = k
                        /\ batches'[formingByKey'[k]].state \in Fillable
      BY DEF KeyEntries
    <3>1. CASE k = batches[b].key
      BY <2>1, <2>3, <3>1 DEF Fillable
    <3>2. CASE k # batches[b].key
      <4>1. /\ formingByKey'[k] = formingByKey[k] /\ formingByKey[k] \in BatchId
            /\ batches[formingByKey[k]].key = k /\ batches[formingByKey[k]].state \in Fillable
        BY <2>1, <3>2, BookTypes DEF Books, KeyEntries
      <4> QED
        BY <2>2, <2>3, <4>1 DEF Fillable
    <3> QED
      BY <3>1, <3>2
  <2>8. KnownBatches'
    BY <1>field, <2>1, <2>2, <2>3, <2>4, BookTypes DEF Books, KnownBatches
  <2> QED
    BY <2>5, <2>6, <2>7, <2>8 DEF Books
<1> QED
  BY <1>1, <1>2 DEF DoSplit

(* A batch that leaves "sealed", or leaves execution, is in no key entry. *)
LEMMA LeaveBooks ==
  ASSUME TypeOK, TypeOK', Books, NEW b \in BatchId,
         \A c \in BatchId : Identity(c),
         \A c \in BatchId \ {b} : SameState(c),
         batches[b].state \in {"sealed"} \cup HandedOut,
         batches'[b].state \notin {"none", "forming"},
         UNCHANGED <<lineage, nextBatch, sealedOrder, formingByKey>>,
         \A r \in RequestId : requests'[r].batch = requests[r].batch
  PROVE  Books'
<1>1. FreshBatches'
  BY DEF Books, FreshBatches, SameState, HandedOut
<1>2. SealOrder'
  BY BookTypes DEF Books, SealOrder, SameState
<1>3. KeyEntries'
  BY BookTypes DEF Books, KeyEntries, SameState, Identity, HandedOut, Fillable
<1>4. KnownBatches'
  BY BookTypes DEF Books, KnownBatches, SameState
<1> QED
  BY <1>1, <1>2, <1>3, <1>4 DEF Books

(* A report is applied to the batch it names. *)
LEMMA ReportBatch ==
  ASSUME NEW b, NEW attempt, NEW report, BeginReport(b, attempt, report)
  PROVE  /\ op'.pc = "complete" /\ op'.cur = b
         /\ op'.todo = {r \in DOMAIN report : requests[r].attempt = attempt[r] /\ Open(r)}
BY DEF BeginReport, Idle

(* Two batches next to each other in the seal order are two batches. *)
LEMMA NeighboursDiffer ==
  ASSUME TypeOK, SealOrder
  PROVE  \A p \in Neighbours : p[1] # p[2]
<1> SUFFICES ASSUME NEW p \in Neighbours PROVE p[1] # p[2]
  OBVIOUS
<1>1. PICK i \in DOMAIN sealedOrder, j \in DOMAIN sealedOrder :
        i < j /\ p = <<sealedOrder[i], sealedOrder[j]>>
  BY DEF Neighbours
<1>2. i \in Nat /\ j \in Nat
  BY DEF TypeOK
<1> QED
  BY <1>1, <1>2 DEF SealOrder, Distinct

(* Every step of every method keeps the books and what the method under     *)
(* way relies on.                                                           *)
LEMMA BatchStep ==
  ASSUME TypeOK, TypeOK', BatchInv, [Next]_vars
  PROVE  BatchInv'
<1>books. Books
  BY DEF BatchInv
<1>types. /\ op \in OpRec /\ requests \in [RequestId -> RequestRec]
          /\ batches \in [BatchId -> BatchRec]
  BY DEF TypeOK, OpOK
<1>free. ASSUME op'.pc \in {"idle", "expire", "evict", "make", "split", "fail"}
         PROVE  OpBatches'
  BY <1>free DEF OpBatches
<1>same. ASSUME op' = op, Unlocked PROVE OpBatches'
  BY <1>same, <1>free DEF Unlocked
<1>still. ASSUME UNCHANGED <<requestVars, idVars, batchVars>> PROVE Books'
  <2>1. \A b \in BatchId : batches'[b].key = batches[b].key /\ SameState(b)
    BY <1>still DEF batchVars, SameState
  <2> QED
    BY <1>still, <1>books, <2>1, QuietBooks DEF requestVars, idVars, batchVars
<1> USE DEF requestVars, idVars, batchVars, fairVars, envVars
<1>1. CASE Submit
  <2>1. PICK m \in Offered, state \in RequestState, outcome \in Status :
        NewRequest(m, state, outcome)
    BY <1>1 DEF Submit, SubmitExpired, SubmitOversized, SubmitDeferred, SubmitAdmitted,
                RequestState, Terminal, WaitingState, Status
  <2>2. /\ batches' = batches /\ Unlocked /\ op' = op
        /\ UNCHANGED <<lineage, nextBatch, sealedOrder, formingByKey>>
        /\ requests' = [requests EXCEPT ![nextRequest] =
             [state |-> state, attempt |-> 1, batch |-> NoBatch,
              queued |-> state = "eligible", submitted |-> clock]]
    BY <2>1 DEF NewRequest
  <2>3. \A r \in RequestId : requests'[r].batch \in {requests[r].batch, NoBatch}
    BY <1>types, <2>2
  <2>4. \A b \in BatchId : batches'[b].key = batches[b].key /\ SameState(b)
    BY <2>2 DEF SameState
  <2>5. Books'
    BY <1>books, <2>2, <2>3, <2>4, QuietBooks
  <2> QED
    BY <1>same, <2>2, <2>5 DEF BatchInv
<1>2. CASE Tick \/ Expire
  <2>1. op'.pc = "expire"
    BY <1>2 DEF Tick, Expire, Idle
  <2> QED
    BY <1>2, <1>free, <1>still, <2>1 DEF Tick, Expire, BatchInv
<1>3. CASE RollEpoch \/ AdvanceClock \/ EnterLate
  BY <1>3, <1>same, <1>still DEF RollEpoch, AdvanceClock, EnterLate, BatchInv
<1>4. CASE ExpireWaiting
  <2>1. op'.pc = "evict"
    BY <1>4, <1>types DEF ExpireWaiting, OpRec
  <2>2. \A r \in RequestId : requests'[r].batch \in {requests[r].batch, NoBatch}
    BY <1>4, <1>types DEF ExpireWaiting, RequestRec
  <2>3. batches' = batches /\ UNCHANGED <<lineage, nextBatch, sealedOrder, formingByKey>>
    BY <1>4 DEF ExpireWaiting
  <2>4. \A b \in BatchId : batches'[b].key = batches[b].key /\ SameState(b)
    BY <2>3 DEF SameState
  <2> QED
    BY <1>books, <1>free, <2>1, <2>2, <2>3, <2>4, QuietBooks DEF BatchInv
<1>5. CASE EvictDone \/ MergeDone \/ TickDone \/ FailDone
  <2>1. op'.pc \in {"idle", "make", "split"}
    <3>1. CASE EvictDone
      BY <3>1 DEF EvictDone, Idle
    <3>2. CASE MergeDone
      BY <3>2 DEF MergeDone, Idle
    <3>3. CASE TickDone \/ FailDone
      BY <3>3 DEF TickDone, FailDone, Idle
    <3> QED
      BY <1>5, <3>1, <3>2, <3>3
  <2> QED
    BY <1>5, <1>free, <1>still, <2>1 DEF EvictDone, MergeDone, TickDone, FailDone, BatchInv
<1>6. CASE MakeDone
  <2>1. /\ op'.pc = "form" /\ op'.forming = {formingByKey[k] : k \in Key} \ {NoBatch}
        /\ formingByKey' = formingByKey /\ batches' = batches
    BY <1>6, <1>types DEF MakeDone, OpRec
  <2>2. \A b \in op'.forming : EntryOf(b)' = b
    BY <1>books, <2>1 DEF Books, KeyEntries, EntryOf
  <2>3. OpBatches'
    BY <2>1, <2>2 DEF OpBatches
  <2> QED
    BY <1>6, <1>still, <2>3 DEF MakeDone, BatchInv
<1>7. ASSUME NEW b \in BatchId, FormNext(b) PROVE BatchInv'
  <2>1. /\ op.pc = "form" /\ op'.pc = "fill" /\ op'.cur = b /\ b \in op.forming
        /\ op'.forming = op.forming \ {b}
        /\ formingByKey' = formingByKey /\ batches' = batches
    BY <1>7, <1>types DEF FormNext, OpRec
  <2>2. OpBatches'
    BY <2>1 DEF OpBatches, BatchInv, EntryOf
  <2> QED
    BY <1>7, <1>still, <2>2 DEF FormNext, BatchInv
<1>8. CASE FormDone
  <2>1. op'.pc = "merge" /\ op'.pairs = IF MergeEnabled THEN Neighbours ELSE {}
    BY <1>8 DEF FormDone, Idle
  <2>2. OpBatches'
    BY <1>books, <2>1, NeighboursDiffer DEF OpBatches, Books
  <2> QED
    BY <1>8, <1>still, <2>2 DEF FormDone, BatchInv
<1>9. ASSUME NEW k \in Key, MakeForming(k) PROVE BatchInv'
  <2>1. op'.pc = "fillnew" /\ op'.cur = nextBatch
    BY <1>9, <1>types DEF MakeForming, OpRec
  <2>2. batches'[nextBatch].key = k /\ formingByKey'[k] = nextBatch
    BY <1>9, MakeFields
  <2>3. OpBatches'
    BY <2>1, <2>2 DEF OpBatches, EntryOf
  <2> QED
    BY <1>9, <1>books, <2>3, MakeBooks DEF BatchInv
<1>10. ASSUME NEW r \in RequestId, Place(r) PROVE BatchInv'
  <2>1. op' = op /\ op.pc \in {"fillnew", "fill"} /\ formingByKey' = formingByKey
    BY <1>10 DEF Place
  <2>2. op.cur \in BatchId /\ op.forming \subseteq BatchId
    BY <2>1, <1>types DEF TypeOK, OpOK, OpRec
  <2>3. \A b \in BatchId : EntryOf(b)' = EntryOf(b)
    BY <1>10, <2>1, PlaceFields DEF EntryOf, Identity
  <2>4. OpBatches'
    BY <2>1, <2>2, <2>3 DEF OpBatches, BatchInv
  <2> QED
    BY <1>10, <2>4, PlaceBooks DEF BatchInv
<1>11. CASE FillNewDone
  <2>1. op'.pc = "make"
    BY <1>11, <1>types DEF FillNewDone, OpRec
  <2>2. \A b \in BatchId : batches'[b].key = batches[b].key /\ SameState(b)
    BY <1>11, FillNewFields DEF BatchesKept, Identity
  <2>3. /\ requests' = requests
        /\ UNCHANGED <<lineage, nextBatch, sealedOrder, formingByKey>>
    BY <1>11 DEF FillNewDone
  <2>4. Books'
    BY <1>books, <2>2, <2>3, QuietBooks
  <2> QED
    BY <1>free, <2>1, <2>4 DEF BatchInv
<1>12. CASE FillDone
  <2>1. /\ op.pc = "fill" /\ op'.pc = "form" /\ op'.forming = op.forming /\ op.cur \in BatchId
        /\ op.forming \subseteq BatchId
    BY <1>12, <1>types DEF FillDone, OpRec, TypeOK, OpOK
  <2>2. CASE DoSeal(op.cur)
    <3>1. Books'
      BY <1>12, <1>books, <2>1, <2>2, SealBooks DEF FillDone
    <3>2. \A b \in op.forming : EntryOf(b)' = b
      <4> SUFFICES ASSUME NEW b \in op.forming PROVE EntryOf(b)' = b
        OBVIOUS
      <4>1. EntryOf(b) = b /\ EntryOf(op.cur) = op.cur /\ b # op.cur
        BY <2>1 DEF OpBatches, BatchInv
      <4>2. batches[b].key # batches[op.cur].key /\ b \in BatchId /\ batches[b].key \in Key
        BY <1>types, <2>1, <4>1 DEF EntryOf, BatchRec
      <4>3. batches'[b].key = batches[b].key /\ formingByKey'[batches[b].key] = formingByKey[batches[b].key]
        BY <2>1, <2>2, <4>2, SealFields DEF Identity
      <4> QED
        BY <4>1, <4>3 DEF EntryOf
    <3>3. OpBatches'
      BY <2>1, <3>2 DEF OpBatches
    <3> QED
      BY <3>1, <3>3 DEF BatchInv
  <2>3. CASE UNCHANGED <<requests, batches, formingByKey, sealedOrder>>
    <3>1. OpBatches'
      BY <2>1, <2>3 DEF OpBatches, BatchInv, EntryOf
    <3>2. \A b \in BatchId : batches'[b].key = batches[b].key /\ SameState(b)
      BY <2>3 DEF SameState
    <3>3. Books'
      BY <1>12, <1>books, <2>3, <3>2, QuietBooks DEF FillDone
    <3> QED
      BY <3>1, <3>3 DEF BatchInv
  <2> QED
    BY <1>12, <2>2, <2>3 DEF FillDone
<1>13. ASSUME NEW b \in BatchId, Seal(b) PROVE BatchInv'
  <2>1. Books'
    BY <1>13, <1>books, SealBooks DEF Seal
  <2> QED
    BY <1>13, <1>same, <2>1 DEF Seal, BatchInv
<1>14. ASSUME NEW a \in BatchId, NEW b \in BatchId, MergePair(a, b) PROVE BatchInv'
  <2>1. /\ op.pc = "merge" /\ op'.pc = "merge" /\ op'.pairs \subseteq op.pairs
        /\ <<a, b>> \in op.pairs
    BY <1>14, <1>types DEF MergePair, OpRec
  <2>2. a # b /\ OpBatches'
    BY <2>1 DEF OpBatches, BatchInv
  <2>3. CASE DoMerge(a, b)
    BY <1>books, <2>2, <2>3, MergeBooks DEF BatchInv
  <2>4. CASE UNCHANGED <<requestVars, idVars, batchVars, fairVars, envVars>>
    BY <1>still, <2>2, <2>4 DEF BatchInv
  <2> QED
    BY <1>14, <2>3, <2>4 DEF MergePair
<1>15. ASSUME NEW a \in BatchId, NEW b \in BatchId, Merge(a, b) PROVE BatchInv'
  BY <1>15, <1>books, <1>same, MergeBooks DEF Merge, BatchInv
<1>16. CASE SplitStep
  <2>1. op'.pc = "split" /\ sealedOrder[op.pos] \in BatchId
    BY <1>16, <1>types, SMTT(20) DEF SplitStep, OpRec, TypeOK
  <2>2. CASE DoSplit(sealedOrder[op.pos])
    BY <1>books, <1>free, <2>1, <2>2, SplitBooks DEF BatchInv
  <2> QED
    BY <1>16, <1>free, <1>still, <2>1, <2>2 DEF SplitStep, BatchInv
<1>17. ASSUME NEW b \in BatchId, Split(b) PROVE BatchInv'
  BY <1>17, <1>books, <1>same, SplitBooks DEF Split, BatchInv
<1>18. ASSUME NEW r \in RequestId, DoCancel(r) PROVE Books'
  <2>1. \A b \in BatchId : batches'[b].key = batches[b].key /\ SameState(b)
    BY <1>18, CancelFields DEF Identity
  <2>2. UNCHANGED <<lineage, nextBatch, sealedOrder, formingByKey>>
    BY <1>18 DEF DoCancel
  <2>3. \A q \in RequestId : requests'[q].batch \in {requests[q].batch, NoBatch}
    BY <1>18, <1>types DEF DoCancel, CancelQueued, CancelForming, CancelSealed, RequestRec
  <2> QED
    BY <1>books, <2>1, <2>2, <2>3, QuietBooks
<1>19. ASSUME NEW r \in RequestId, Cancel(r) \/ EvictMember(r) PROVE BatchInv'
  <2>1. CASE Cancel(r)
    BY <1>18, <1>same, <2>1 DEF Cancel, BatchInv
  <2>2. CASE EvictMember(r)
    <3>1. op'.pc = "evict"
      BY <1>types, <2>2 DEF EvictMember, OpRec
    <3> QED
      BY <1>18, <1>free, <1>still, <2>2, <3>1 DEF EvictMember, BatchInv
  <2> QED
    BY <1>19, <2>1, <2>2
<1>20. ASSUME NEW r \in RequestId, Retry(r) PROVE BatchInv'
  <2>1. op'.pc = "expire" /\ batches' = batches
    BY <1>20 DEF Retry, Idle
  <2>2. \A q \in RequestId : requests'[q].batch \in {requests[q].batch, NoBatch}
    BY <1>20, <1>types DEF Retry, Requeue, RequestRec
  <2>3. \A b \in BatchId : batches'[b].key = batches[b].key /\ SameState(b)
    BY <2>1 DEF SameState
  <2>4. Books'
    BY <1>20, <1>books, <2>2, <2>3, QuietBooks DEF Retry
  <2> QED
    BY <1>free, <2>1, <2>4 DEF BatchInv
<1>21. ASSUME NEW r \in RequestId, NEW status, ApplyOutcome(r, status) PROVE Books'
  <2>1. \A b \in BatchId : batches'[b].key = batches[b].key /\ SameState(b)
    BY <1>21, OutcomeFields DEF BatchesKept, Identity
  <2>2. \A q \in RequestId : requests'[q].batch \in {requests[q].batch, NoBatch}
    <3>1. CASE requests' = requests
      BY <3>1
    <3>2. CASE ApplyFinal(r, status)
      BY <3>2, <1>types DEF ApplyFinal, RequestRec
    <3>3. CASE ApplyRetry(r, status)
      BY <3>3, <1>types DEF ApplyRetry, Requeue, RequestRec
    <3> QED
      BY <1>21, <3>1, <3>2, <3>3 DEF ApplyOutcome, ApplyIgnored
  <2> QED
    BY <1>21, <1>books, <2>1, <2>2, QuietBooks DEF ApplyOutcome
<1>22. ASSUME NEW r \in RequestId, CompleteMember(r) PROVE BatchInv'
  <2>1. /\ op.pc = "complete" /\ op'.pc = "complete" /\ op'.cur = op.cur /\ op.cur \in BatchId
        /\ ApplyOutcome(r, op.report[r])
    BY <1>22, <1>types DEF CompleteMember, OpRec, TypeOK, OpOK
  <2>2. batches'[op.cur].state = batches[op.cur].state
    BY <2>1, OutcomeFields DEF BatchesKept, SameState
  <2>3. OpBatches'
    BY <2>1, <2>2 DEF OpBatches, BatchInv
  <2> QED
    BY <1>21, <2>1, <2>3 DEF BatchInv
<1>23. ASSUME NEW r \in RequestId, FailMember(r) PROVE BatchInv'
  <2>1. op'.pc = "fail" /\ ApplyOutcome(r, "retryable_failure")
    BY <1>23, <1>types DEF FailMember, OpRec
  <2> QED
    BY <1>21, <1>free, <2>1 DEF BatchInv
<1>24. CASE CompleteDone
  <2>1. op.cur \in BatchId /\ op'.pc = "idle" /\ batches[op.cur].state \in HandedOut
    BY <1>24 DEF CompleteDone, Idle, TypeOK, OpOK, OpBatches, BatchInv
  <2>2. Books'
    BY <1>24, <1>books, <2>1, DoneFields, LeaveBooks DEF CompleteDone
  <2> QED
    BY <1>free, <2>1, <2>2 DEF BatchInv
<1>25. ASSUME NEW x \in dispatches, Complete(x) PROVE BatchInv'
  <2>1. /\ op'.pc = "complete" /\ op'.cur = x.batch
        /\ batches[x.batch].state \in HandedOut /\ batches' = batches
    BY <1>25, ReportBatch DEF Complete, Authorised, HandedOut
  <2>2. OpBatches'
    BY <2>1 DEF OpBatches
  <2> QED
    BY <1>25, <1>still, <2>2 DEF Complete, BatchInv
<1>26. ASSUME NEW b \in BatchId, NEW state, Advance(b, state)
       PROVE  \A r \in RequestId : requests'[r].batch = requests[r].batch
  BY <1>26, <1>types DEF Advance, RequestRec
<1>27. ASSUME NEW b \in BatchId, NEW w \in Worker, PrepareDispatch(b, w) PROVE BatchInv'
  <2>1. Handed(b, "dispatched", w) /\ Advance(b, "dispatched")
    BY <1>27, DispatchFields DEF PrepareDispatch
  <2>2. Books'
    BY <1>26, <1>27, <1>books, <2>1, LeaveBooks DEF PrepareDispatch, Handed
  <2> QED
    BY <1>27, <1>same, <2>2 DEF PrepareDispatch, BatchInv
<1>28. ASSUME NEW b \in BatchId, StartRun(b) PROVE Books' /\ batches'[b].state = "running"
  <2>1. Handed(b, "running", 0) /\ Advance(b, "running")
    BY <1>28, RunFields DEF StartRun
  <2> QED
    BY <1>26, <1>28, <1>books, <2>1, LeaveBooks DEF StartRun, Handed
<1>29. ASSUME NEW b \in BatchId, RunOk(b) PROVE BatchInv'
  <2>1. CASE BeginReport(b, CurrentAttempts(b), [r \in Members(b) |-> "success"])
    <3>1. op'.pc = "complete" /\ op'.cur = b
      BY <2>1, ReportBatch
    <3>2. OpBatches'
      BY <1>28, <1>29, <3>1 DEF OpBatches, HandedOut, RunOk
    <3> QED
      BY <1>28, <1>29, <3>2 DEF RunOk, BatchInv
  <2>2. CASE UNCHANGED op
    BY <1>28, <1>29, <1>same, <2>2 DEF RunOk, StartRun, BatchInv
  <2> QED
    BY <1>29, <2>1, <2>2 DEF RunOk
<1>30. ASSUME NEW b \in BatchId, RunFailed(b) PROVE BatchInv'
  <2>1. op'.pc = "fail" /\ StartRun(b)
    BY <1>30 DEF RunFailed, Idle
  <2> QED
    BY <1>28, <1>free, <2>1 DEF BatchInv
<1>31. ASSUME NEW w \in Worker, NEW boot \in BootId, NEW size \in WorkerSizes,
              RegisterWorker(w, boot, size)
       PROVE  BatchInv'
  BY <1>31, <1>same, <1>still DEF RegisterWorker, BatchInv
<1>32. CASE UNCHANGED vars
  <2>1. OpBatches'
    BY <1>32 DEF vars, OpBatches, BatchInv, EntryOf
  <2> QED
    BY <1>32, <1>still, <2>1 DEF vars, BatchInv
<1> QED
  BY <1>1, <1>2, <1>3, <1>4, <1>5, <1>6, <1>7, <1>8, <1>9, <1>10, <1>11, <1>12, <1>13, <1>14,
     <1>15, <1>16, <1>17, <1>19, <1>20, <1>22, <1>23, <1>24, <1>25, <1>27, <1>29, <1>30, <1>31,
     <1>32 DEF Next, OpStep

(* The books are right before the first batch. *)
LEMMA BatchStart == Init => BatchInv
<1> SUFFICES ASSUME Init PROVE BatchInv
  OBVIOUS
<1>1. FreshBatches /\ KeyEntries /\ KnownBatches
  BY DEF Init, FreshBatches, KeyEntries, KnownBatches, NoBatchRec
<1>2. SealOrder
  BY DEF Init, SealOrder, Distinct, Range
<1>3. OpBatches
  BY DEF Init, OpBatches, Idle
<1> QED
  BY <1>1, <1>2, <1>3 DEF BatchInv, Books

(* The books are right in every reachable state. *)
LEMMA BatchesBooked == Spec => []BatchInv
<1>1. TypeOK /\ TypeOK' /\ BatchInv /\ [Next]_vars => BatchInv'
  BY BatchStep
<1> QED
  BY BatchStart, <1>1, TypeCorrect, PTL DEF Spec

-----------------------------------------------------------------------------
(* What a step may be, as far as the requests and the batches can tell. *)

Still == UNCHANGED <<requestVars, idVars, batchVars, outstanding, dispatches>>

LEMMA StepKinds ==
  ASSUME TypeOK, BatchInv, [Next]_vars
  PROVE  \/ Submit \/ Still \/ ExpireWaiting \/ FillNewDone \/ CompleteDone
         \/ \E r \in RequestId : DoCancel(r)
         \/ \E k \in Key : MakeForming(k)
         \/ \E r \in RequestId : Place(r)
         \/ \E b \in BatchId :
              /\ DoSeal(b)
              /\ UNCHANGED <<attempts, waiting, idVars, merged, lineage, outstanding, dispatches>>
         \/ \E a \in BatchId, b \in BatchId : a # b /\ DoMerge(a, b)
         \/ \E b \in BatchId : DoSplit(b) /\ (Split(b) \/ TooLarge(b))
         \/ \E r \in RequestId : Retry(r)
         \/ \E r \in RequestId : CompleteMember(r) \/ FailMember(r)
         \/ \E b \in BatchId, w \in Worker : PrepareDispatch(b, w)
         \/ \E b \in BatchId : StartRun(b) /\ (RunOk(b) \/ RunFailed(b))
<1> USE DEF requestVars, idVars, batchVars, fairVars, envVars
<1>1. CASE Tick \/ Expire \/ RollEpoch \/ AdvanceClock \/ EnterLate
  BY <1>1 DEF Tick, Expire, RollEpoch, AdvanceClock, EnterLate, Still
<1>2. CASE EvictDone \/ MakeDone \/ FormDone \/ MergeDone \/ TickDone \/ FailDone
  BY <1>2 DEF EvictDone, MakeDone, FormDone, MergeDone, TickDone, FailDone, Still
<1>3. CASE FillDone
  <2>1. op.cur \in BatchId
    BY <1>3 DEF FillDone, TypeOK, OpOK
  <2> QED
    BY <1>3, <2>1 DEF FillDone, Still
<1>4. CASE SplitStep
  <2>1. sealedOrder[op.pos] \in BatchId
    BY <1>4 DEF SplitStep, TypeOK
  <2> QED
    BY <1>4, <2>1 DEF SplitStep, Still
<1>5. ASSUME NEW r \in RequestId, EvictMember(r) \/ Cancel(r) PROVE DoCancel(r) \/ Still
  BY <1>5 DEF EvictMember, Cancel, Still
<1>6. ASSUME NEW b \in BatchId, FormNext(b) PROVE Still
  BY <1>6 DEF FormNext, Still
<1>7. ASSUME NEW a \in BatchId, NEW b \in BatchId, MergePair(a, b)
      PROVE  (a # b /\ DoMerge(a, b)) \/ Still
  <2>1. a # b
    BY <1>7 DEF MergePair, BatchInv, OpBatches
  <2> QED
    BY <1>7, <2>1 DEF MergePair, Still
<1>8. ASSUME NEW a \in BatchId, NEW b \in BatchId, Merge(a, b) PROVE a # b /\ DoMerge(a, b)
  BY <1>8 DEF Merge
<1>9. ASSUME NEW b \in BatchId, Seal(b)
      PROVE  /\ DoSeal(b)
             /\ UNCHANGED <<attempts, waiting, idVars, merged, lineage, outstanding, dispatches>>
  BY <1>9 DEF Seal
<1>10. ASSUME NEW b \in BatchId, Split(b) PROVE DoSplit(b)
  BY <1>10 DEF Split
<1>11. ASSUME NEW w \in Worker, NEW boot \in BootId, NEW size \in WorkerSizes,
              RegisterWorker(w, boot, size)
       PROVE  Still
  BY <1>11 DEF RegisterWorker, Still
<1>12. ASSUME NEW x \in dispatches, Complete(x) PROVE Still
  BY <1>12 DEF Complete, Still
<1>13. ASSUME NEW b \in BatchId, RunOk(b) \/ RunFailed(b) PROVE StartRun(b)
  BY <1>13 DEF RunOk, RunFailed
<1>14. CASE UNCHANGED vars
  BY <1>14 DEF vars, Still
<1> QED
  BY <1>1, <1>2, <1>3, <1>4, <1>5, <1>6, <1>7, <1>8, <1>9, <1>10, <1>11, <1>12, <1>13, <1>14
     DEF Next, OpStep

(* What each of them does to the requests. *)
LEMMA SubmitRequests ==
  ASSUME TypeOK, Submit
  PROVE  /\ nextRequest \in RequestId /\ nextRequest' = nextRequest + 1
         /\ \A q \in RequestId \ {nextRequest} :
              requests'[q] = requests[q] /\ attempts'[q] = attempts[q] /\ meta'[q] = meta[q]
         /\ requests'[nextRequest].state \in {"expired", "rejected", "waiting", "eligible"}
         /\ requests'[nextRequest].batch = NoBatch
         /\ UNCHANGED <<batchVars, nextBatch, nextGeneration, dispatches, op>>
         /\ op.pc = "idle"
<1>1. PICK m \in Offered, state \in {"expired", "rejected", "waiting", "eligible"},
             outcome \in Status :
        NewRequest(m, state, outcome)
  BY DEF Submit, SubmitExpired, SubmitOversized, SubmitDeferred, SubmitAdmitted, Status
<1>2. /\ requests \in [RequestId -> RequestRec] /\ meta \in [RequestId -> Meta]
      /\ attempts \in [RequestId -> Seq(AttemptRec)]
  BY DEF TypeOK
<1> QED
  BY <1>1, <1>2 DEF NewRequest, envVars, Unlocked

LEMMA CancelRequests ==
  ASSUME TypeOK, NEW r \in RequestId, DoCancel(r)
  PROVE  /\ \A q \in RequestId \ {r} : /\ requests'[q] = requests[q]
                                       /\ attempts'[q] = attempts[q]
                                       /\ waiting'[q] = waiting[q]
         /\ requests'[r].state = "cancelled" /\ requests'[r].attempt = requests[r].attempt
         /\ requests'[r].batch \in {requests[r].batch, NoBatch}
         /\ UNCHANGED <<idVars, formingByKey, sealedOrder, merged, lineage, dispatches>>
<1>1. /\ requests \in [RequestId -> RequestRec] /\ attempts \in [RequestId -> Seq(AttemptRec)]
      /\ waiting \in [RequestId -> Nat]
  BY DEF TypeOK
<1>2. \A q \in RequestId \ {r} : attempts'[q] = attempts[q]
  BY <1>1 DEF DoCancel, CancelQueued, CancelForming, CancelSealed, EndRequest
<1>3. \A q \in RequestId \ {r} : requests'[q] = requests[q] /\ waiting'[q] = waiting[q]
  BY <1>1 DEF DoCancel, CancelQueued, CancelForming, CancelSealed
<1>4. /\ requests'[r].state = "cancelled" /\ requests'[r].attempt = requests[r].attempt
      /\ requests'[r].batch \in {requests[r].batch, NoBatch}
  BY <1>1 DEF DoCancel, CancelQueued, CancelForming, CancelSealed, RequestRec
<1> QED
  BY <1>2, <1>3, <1>4 DEF DoCancel, envVars

LEMMA ExpireRequests ==
  ASSUME TypeOK, ExpireWaiting, NEW q \in RequestId
  PROVE  /\ \/ requests'[q] = requests[q] /\ attempts'[q] = attempts[q]
            \/ /\ waiting[q] > 0 /\ requests[q].state \notin Terminal
               /\ requests'[q].state = "expired" /\ requests'[q].queued = FALSE
               /\ requests'[q].attempt = requests[q].attempt
               /\ requests'[q].batch = requests[q].batch
         /\ UNCHANGED <<idVars, batchVars, dispatches>>
BY DEF ExpireWaiting, TypeOK, RequestRec, envVars

LEMMA PlaceRequests ==
  ASSUME TypeOK, NEW r \in RequestId, Place(r)
  PROVE  /\ \A q \in RequestId \ {r} : requests'[q] = requests[q] /\ waiting'[q] = waiting[q]
         /\ requests'[r].state = "reserved" /\ requests'[r].batch = op.cur
         /\ requests'[r].attempt = requests[r].attempt /\ requests'[r].queued = FALSE
         /\ waiting[r] > 0 /\ waiting'[r] = waiting[r] - 1
         /\ requests[r].state \in WaitingState
         /\ meta[r].key = batches[op.cur].key
         /\ op.pc \in {"fillnew", "fill"}
         /\ UNCHANGED <<attempts, idVars, formingByKey, sealedOrder, merged, lineage, dispatches, op>>
<1>1. requests \in [RequestId -> RequestRec] /\ waiting \in [RequestId -> Nat]
  BY DEF TypeOK
<1>2. /\ requests' = [requests EXCEPT ![r].state = "reserved", ![r].batch = op.cur,
                                      ![r].queued = FALSE]
      /\ waiting' = [waiting EXCEPT ![r] = @ - 1]
  BY DEF Place
<1>3. /\ \A q \in RequestId \ {r} : requests'[q] = requests[q] /\ waiting'[q] = waiting[q]
      /\ requests'[r].state = "reserved" /\ requests'[r].batch = op.cur
      /\ requests'[r].attempt = requests[r].attempt /\ requests'[r].queued = FALSE
      /\ waiting'[r] = waiting[r] - 1
  BY <1>1, <1>2 DEF RequestRec
<1>4. r \in Candidates(op.cur)
  BY DEF Place, IsPick
<1>5. waiting[r] > 0 /\ requests[r].state \in WaitingState /\ meta[r].key = batches[op.cur].key
  BY <1>4 DEF Candidates
<1> QED
  BY <1>3, <1>5 DEF Place, envVars

LEMMA SealRequests ==
  ASSUME TypeOK, NEW b \in BatchId, DoSeal(b), NEW q \in RequestId
  PROVE  \/ /\ requests'[q] = requests[q]
            /\ ~(q \in Members(b) /\ requests[q].state = "reserved")
         \/ /\ q \in Members(b) /\ requests[q].state = "reserved"
            /\ requests'[q] = [requests[q] EXCEPT !.state = "batched"]
BY DEF DoSeal

LEMMA MergeRequests ==
  ASSUME TypeOK, NEW a \in BatchId, NEW b \in BatchId, DoMerge(a, b), NEW q \in RequestId
  PROVE  /\ requests'[q].state = requests[q].state /\ requests'[q].attempt = requests[q].attempt
         /\ requests'[q].queued = requests[q].queued
         /\ requests'[q].batch = IF q \in Members(b) THEN a ELSE requests[q].batch
BY DEF DoMerge, TypeOK, RequestRec

LEMMA RehomeRequests ==
  ASSUME TypeOK, NEW b \in BatchId, DoSplit(b), NEW q \in RequestId
  PROVE  /\ requests'[q].state = requests[q].state /\ requests'[q].attempt = requests[q].attempt
         /\ requests'[q].queued = requests[q].queued
         /\ requests'[q].batch = IF q \in Range(FirstHalf(b)) THEN b
                                ELSE IF q \in Range(SecondHalf(b)) THEN nextBatch
                                ELSE requests[q].batch
<1>1. Rehome(b, nextBatch)
  BY DEF DoSplit, SplitSealed, SplitOpen
<1>2. requests[q] \in RequestRec
  BY DEF TypeOK
<1>3. requests'[q] = IF q \in Range(FirstHalf(b)) THEN [requests[q] EXCEPT !.batch = b]
                     ELSE IF q \in Range(SecondHalf(b))
                            THEN [requests[q] EXCEPT !.batch = nextBatch]
                            ELSE requests[q]
  BY <1>1 DEF Rehome
<1> QED
  BY <1>2, <1>3 DEF RequestRec

LEMMA AdvanceRequests ==
  ASSUME TypeOK, NEW b \in BatchId, NEW state, Advance(b, state), NEW q \in RequestId
  PROVE  \/ /\ requests'[q] = requests[q]
            /\ ~(q \in Members(b) /\ requests[q].state = "batched")
         \/ /\ q \in Members(b) /\ requests[q].state = "batched"
            /\ requests'[q].state = state /\ requests'[q].attempt = requests[q].attempt
            /\ requests'[q].batch = requests[q].batch /\ requests'[q].queued = requests[q].queued
BY DEF Advance, TypeOK, RequestRec

LEMMA RetryRequests ==
  ASSUME TypeOK, NEW r \in RequestId, Requeue(r)
  PROVE  /\ \A q \in RequestId \ {r} : requests'[q] = requests[q] /\ waiting'[q] = waiting[q]
         /\ requests'[r].state = "eligible" /\ requests'[r].attempt = requests[r].attempt + 1
         /\ requests'[r].batch = NoBatch /\ requests'[r].queued = TRUE
         /\ waiting'[r] = waiting[r] + 1
<1>1. requests \in [RequestId -> RequestRec] /\ waiting \in [RequestId -> Nat]
  BY DEF TypeOK
<1> QED
  BY <1>1 DEF Requeue, RequestRec

LEMMA OutcomeRequests ==
  ASSUME TypeOK, NEW r \in RequestId, NEW status, ApplyOutcome(r, status)
  PROVE  /\ \A q \in RequestId \ {r} : requests'[q] = requests[q] /\ waiting'[q] = waiting[q]
         /\ \/ requests'[r] = requests[r] /\ waiting'[r] = waiting[r]
            \/ /\ requests'[r].state \in {"completed", "failed", "cancelled", "expired"}
               /\ requests'[r].attempt = requests[r].attempt
               /\ requests'[r].batch = requests[r].batch
               /\ requests'[r].queued = requests[r].queued /\ waiting'[r] = waiting[r]
            \/ Requeue(r)
         /\ UNCHANGED <<idVars, formingByKey, sealedOrder, merged, lineage, dispatches, workers,
                        epoch>>
<1>1. requests \in [RequestId -> RequestRec] /\ waiting \in [RequestId -> Nat]
  BY DEF TypeOK
<1>2. UNCHANGED <<idVars, formingByKey, sealedOrder, merged, lineage, dispatches, workers, epoch>>
  BY DEF ApplyOutcome, envVars
<1>3. CASE ApplyIgnored(status)
  BY <1>2, <1>3 DEF ApplyIgnored, requestVars
<1>4. CASE ApplyFinal(r, status)
  <2>1. /\ FinalState[status] \in {"completed", "failed", "cancelled", "expired"}
        /\ requests' = [requests EXCEPT ![r].state = FinalState[status]]
    BY <1>4 DEF ApplyFinal, FinalState
  <2>2. waiting' = waiting
    BY <1>4 DEF ApplyFinal
  <2> QED
    BY <1>1, <1>2, <2>1, <2>2 DEF RequestRec
<1>5. CASE ApplyRetry(r, status)
  BY <1>2, <1>5, RetryRequests DEF ApplyRetry
<1> QED
  BY <1>3, <1>4, <1>5 DEF ApplyOutcome

-----------------------------------------------------------------------------
(* What the halves of a split, an append and a concatenation hold. *)

LEMMA MemberTypes ==
  ASSUME TypeOK
  PROVE  \A b \in BatchId : batches[b].members \in Seq(RequestId) /\ Members(b) \subseteq RequestId
BY RangeOfSeq DEF TypeOK, BatchRec, Members

(* No member is lost between the halves; none is in both if none repeats. *)
LEMMA HalvesSplit ==
  ASSUME TypeOK, NEW b \in BatchId
  PROVE  /\ Range(FirstHalf(b)) \cup Range(SecondHalf(b)) = Members(b)
         /\ Distinct(batches[b].members) =>
              /\ Distinct(FirstHalf(b)) /\ Distinct(SecondHalf(b))
              /\ Range(FirstHalf(b)) \cap Range(SecondHalf(b)) = {}
<1> DEFINE s == batches[b].members
           n == Len(s)
           h == Half(b)
           f == FirstHalf(b)
           g == SecondHalf(b)
<1>1. s \in Seq(RequestId) /\ n \in Nat /\ DOMAIN s = 1 .. n
  BY DEF TypeOK, BatchRec
<1>2. h = n \div 2 /\ f = SubSeq(s, 1, h) /\ g = SubSeq(s, h + 1, n)
  BY DEF Half, FirstHalf, SecondHalf
<1>3. h \in 0 .. n
  <2>1. \A m \in Nat : m \div 2 \in 0 .. m
    OBVIOUS
  <2> HIDE DEF n, h
  <2> QED
    BY <1>1, <1>2, <2>1
<1>4. /\ DOMAIN f = 1 .. h /\ \A i \in 1 .. h : f[i] = s[i]
      /\ DOMAIN g = 1 .. n - h /\ \A i \in 1 .. n - h : g[i] = s[h + i]
  <2> HIDE DEF s, h, f, g
  <2> QED
    BY <1>1, <1>2, <1>3 DEF n
<1> HIDE DEF s, n, h, f, g
<1>5. \A i \in 1 .. h : i \in 1 .. n
  BY <1>1, <1>3
<1>6. \A i \in 1 .. n - h : h + i \in 1 .. n /\ h + i > h
  BY <1>1, <1>3
<1>7. \A i \in 1 .. n : i \in 1 .. h \/ (i - h \in 1 .. n - h /\ h + (i - h) = i)
  BY <1>1, <1>3
<1>8. Range(f) \cup Range(g) = Range(s)
  <2>1. Range(f) \cup Range(g) \subseteq Range(s)
    BY <1>1, <1>4, <1>5, <1>6 DEF Range
  <2>2. ASSUME NEW i \in 1 .. n PROVE s[i] \in Range(f) \cup Range(g)
    <3>1. CASE i \in 1 .. h
      BY <1>4, <3>1 DEF Range
    <3>2. CASE i - h \in 1 .. n - h /\ h + (i - h) = i
      <4>1. g[i - h] = s[i]
        BY <1>4, <3>2
      <4> QED
        BY <1>4, <3>2, <4>1 DEF Range
    <3> QED
      BY <1>7, <3>1, <3>2
  <2> QED
    BY <1>1, <2>1, <2>2 DEF Range
<1>9. ASSUME Distinct(s)
      PROVE  Distinct(f) /\ Distinct(g) /\ Range(f) \cap Range(g) = {}
  <2>1. \A i, j \in 1 .. n : s[i] = s[j] => i = j
    BY <1>1, <1>9 DEF Distinct
  <2>2. Distinct(f)
    BY <1>4, <1>5, <2>1 DEF Distinct
  <2>3. \A i, j \in 1 .. n - h : g[i] = g[j] => h + i = h + j
    BY <1>4, <1>6, <2>1
  <2>4. Distinct(g)
    BY <1>1, <1>3, <1>4, <2>3 DEF Distinct
  <2>5. \A i \in 1 .. h, j \in 1 .. n - h : f[i] # g[j]
    <3> SUFFICES ASSUME NEW i \in 1 .. h, NEW j \in 1 .. n - h, s[i] = s[h + j] PROVE FALSE
      BY <1>4
    <3>1. i = h + j
      BY <1>5, <1>6, <2>1
    <3> QED
      BY <1>1, <1>3, <3>1
  <2> QED
    BY <1>4, <2>2, <2>4, <2>5 DEF Range
<1> QED
  BY <1>8, <1>9 DEF Members, s, f, g

LEMMA AppendRange ==
  ASSUME NEW S, NEW s \in Seq(S), NEW x \in S
  PROVE  Range(Append(s, x)) = Range(s) \cup {x}
BY AppendProperties DEF Range

-----------------------------------------------------------------------------
(* The members of a batch have its key. *)

(* Every member of a batch after a step was a member of a batch of the same *)
(* key, or was waiting under that key.                                      *)
LEMMA MemberOrigin ==
  ASSUME TypeOK, BatchInv, [Next]_vars, NEW c \in BatchId, NEW q \in Range(batches'[c].members)
  PROVE  \/ \E d \in BatchId : q \in Members(d) /\ batches[d].key = batches'[c].key
         \/ q \in RequestId /\ waiting[q] > 0 /\ meta[q].key = batches'[c].key
<1> USE DEF Members
<1>kept. ASSUME BatchesKept
         PROVE  \E d \in BatchId : q \in Members(d) /\ batches[d].key = batches'[c].key
  BY <1>kept DEF BatchesKept, Identity, SameMembers
<1>same. ASSUME batches' = batches
         PROVE  \E d \in BatchId : q \in Members(d) /\ batches[d].key = batches'[c].key
  BY <1>kept, <1>same, KeptFields
<1>fresh. FreshBatches
  BY DEF BatchInv, Books
<1>1. CASE Submit \/ Still \/ ExpireWaiting \/ \E r \in RequestId : Retry(r)
  BY <1>1, <1>same, SubmitRequests, ExpireRequests DEF Still, batchVars, Retry, ExpireWaiting
<1>2. CASE FillNewDone \/ \E r \in RequestId : CompleteMember(r) \/ FailMember(r)
  BY <1>2, <1>kept, FillNewFields, OutcomeFields DEF CompleteMember, FailMember
<1>3. CASE CompleteDone
  BY <1>3, DoneFields DEF Identity, SameMembers
<1>4. ASSUME NEW r \in RequestId, DoCancel(r)
      PROVE  \E d \in BatchId : q \in Members(d) /\ batches[d].key = batches'[c].key
  <2>1. Range(Without(batches[c].members, r)) \subseteq Range(batches[c].members)
    BY WithoutRange, MemberTypes
  <2> QED
    BY <1>4, <2>1, CancelFields DEF Identity, SameMembers
<1>5. ASSUME NEW k \in Key, MakeForming(k)
      PROVE  \E d \in BatchId : q \in Members(d) /\ batches[d].key = batches'[c].key
  <2>1. c # nextBatch
    BY <1>5, MakeFields DEF Range
  <2> QED
    BY <1>5, <2>1, MakeFields
<1>6. ASSUME NEW r \in RequestId, Place(r)
      PROVE  \/ \E d \in BatchId : q \in Members(d) /\ batches[d].key = batches'[c].key
             \/ waiting[q] > 0 /\ meta[q].key = batches'[c].key /\ q \in RequestId
  <2>1. CASE c # op.cur
    BY <1>6, <2>1, PlaceFields DEF Identity, SameMembers
  <2>2. CASE c = op.cur
    <3>1. Range(Append(batches[c].members, r)) = Range(batches[c].members) \cup {r}
      BY AppendRange, MemberTypes
    <3>2. q \in Range(batches[c].members) \cup {r} /\ batches'[c].key = batches[c].key
      BY <1>6, <2>2, <3>1, PlaceFields DEF Identity
    <3>3. waiting[r] > 0 /\ meta[r].key = batches[c].key
      BY <1>6, <2>2, PlaceRequests
    <3> QED
      BY <3>2, <3>3
  <2> QED
    BY <2>1, <2>2
<1>7. ASSUME NEW b \in BatchId, DoSeal(b)
      PROVE  \E d \in BatchId : q \in Members(d) /\ batches[d].key = batches'[c].key
  BY <1>7, SealFields DEF Identity, SameMembers
<1>8. ASSUME NEW a \in BatchId, NEW b \in BatchId, a # b, DoMerge(a, b)
      PROVE  \E d \in BatchId : q \in Members(d) /\ batches[d].key = batches'[c].key
  <2>1. Range(batches[a].members \o batches[b].members) =
          Range(batches[a].members) \cup Range(batches[b].members)
    BY RangeConcatenation, MemberTypes
  <2>2. CASE c # a
    <3>1. Identity(c) /\ SameMembers(c)
      BY <1>8, <2>2, MergeFields
    <3> QED
      BY <3>1 DEF Identity, SameMembers
  <2>3. CASE c = a
    <3>1. /\ q \in Range(batches[a].members) \cup Range(batches[b].members)
          /\ batches'[a].key = batches[a].key /\ batches[b].key = batches[a].key
      BY <1>8, <2>1, <2>3, MergeFields DEF Identity
    <3> QED
      BY <2>3, <3>1
  <2> QED
    BY <2>2, <2>3
<1>9. ASSUME NEW b \in BatchId, DoSplit(b)
      PROVE  \E d \in BatchId : q \in Members(d) /\ batches[d].key = batches'[c].key
  <2>1. \A m : Child(b, m).members = m /\ Child(b, m).key = batches[b].key
    BY ChildFields
  <2>2. Range(FirstHalf(b)) \subseteq Members(b) /\ Range(SecondHalf(b)) \subseteq Members(b)
    BY HalvesRange
  <2>3. CASE SplitSealed(b)
    BY <1>fresh, <2>1, <2>2, <2>3, SplitSealedFields DEF Identity
  <2>4. CASE SplitOpen(b)
    BY <1>fresh, <2>1, <2>2, <2>4, SplitOpenFields DEF Identity
  <2> QED
    BY <1>9, <2>3, <2>4 DEF DoSplit
<1>10. ASSUME NEW b \in BatchId, StartRun(b) \/ \E w \in Worker : PrepareDispatch(b, w)
       PROVE  \E d \in BatchId : q \in Members(d) /\ batches[d].key = batches'[c].key
  BY <1>10, RunFields, DispatchFields DEF Handed, Identity, SameMembers
<1> QED
  BY <1>1, <1>2, <1>3, <1>4, <1>5, <1>6, <1>7, <1>8, <1>9, <1>10, StepKinds

(* submit() is the only method that writes metadata ... *)
LEMMA OnlySubmit ==
  ASSUME TypeOK, BatchInv, [Next]_vars, ~Submit
  PROVE  meta' = meta
<1> USE DEF idVars
<1>1. CASE Still \/ ExpireWaiting \/ FillNewDone \/ CompleteDone
  BY <1>1 DEF Still, ExpireWaiting, FillNewDone, CompleteDone
<1>2. CASE \E r \in RequestId : DoCancel(r) \/ Place(r) \/ Retry(r) \/ CompleteMember(r) \/ FailMember(r)
  BY <1>2 DEF DoCancel, Place, Retry, CompleteMember, FailMember, ApplyOutcome
<1>3. CASE \E k \in Key : MakeForming(k)
  BY <1>3 DEF MakeForming
<1>4. CASE \E a, b \in BatchId : DoMerge(a, b)
  BY <1>4 DEF DoMerge
<1>5. CASE \E b \in BatchId : DoSplit(b) \/ StartRun(b) \/ \E w \in Worker : PrepareDispatch(b, w)
  BY <1>5 DEF DoSplit, StartRun, PrepareDispatch
<1>6. CASE \E b \in BatchId : DoSeal(b) /\ UNCHANGED <<attempts, waiting, idVars, merged, lineage, dispatches>>
  BY <1>6
<1> QED
  BY <1>1, <1>2, <1>3, <1>4, <1>5, <1>6, StepKinds

(* ... and it writes that of a request no batch lists and no bucket holds.  *)
LEMMA MetaKept ==
  ASSUME TypeOK, BatchInv, AttemptInv, [Next]_vars,
         NEW q \in RequestId, requests[q].state # "created"
  PROVE  meta'[q] = meta[q]
<1>1. CASE Submit
  <2>1. nextRequest \in RequestId /\ nextRequest \in Nat
    BY <1>1, SubmitRequests, IdsNatural
  <2>2. nextRequest >= nextRequest
    BY <2>1
  <2>3. requests[nextRequest].state = "created"
    BY <2>1, <2>2 DEF AttemptInv, AttemptNumbers
  <2> QED
    BY <1>1, <2>3, SubmitRequests
<1>2. CASE ~Submit
  BY <1>2, OnlySubmit
<1> QED
  BY <1>1, <1>2

(* A step adds to a batch members of other batches of its key, or requests  *)
(* of its key that wait.                                                    *)
LEMMA CompatibleStep ==
  ASSUME TypeOK, TypeOK', AttemptInv, BatchInv, BatchCompatible, [Next]_vars
  PROVE  BatchCompatible'
<1> SUFFICES ASSUME NEW c \in BatchId, NEW q \in Range(batches'[c].members)
             PROVE  meta'[q].key = batches'[c].key
  BY DEF BatchCompatible, Members
<1>1. CASE \E d \in BatchId : q \in Members(d) /\ batches[d].key = batches'[c].key
  <2>1. PICK d \in BatchId : q \in Members(d) /\ batches[d].key = batches'[c].key
    BY <1>1
  <2>2. q \in RequestId /\ requests[q].state # "created" /\ meta[q].key = batches[d].key
    BY <2>1, MemberTypes DEF AttemptInv, SubmittedOnly, AllMembers, BatchCompatible
  <2> QED
    BY <2>1, <2>2, MetaKept
<1>2. CASE q \in RequestId /\ waiting[q] > 0 /\ meta[q].key = batches'[c].key
  BY <1>2, MetaKept DEF AttemptInv, SubmittedOnly
<1> QED
  BY <1>1, <1>2, MemberOrigin

LEMMA CompatibleStart == Init => BatchCompatible
BY DEF Init, BatchCompatible, Members, Range, NoBatchRec

(* Only requests of the batch's compatibility key are in a batch, through   *)
(* fills, merges, splits, retries and cancellations, for every policy.      *)
THEOREM BatchesCompatible == Spec => []BatchCompatible
<1>1. TypeOK /\ TypeOK' /\ AttemptInv /\ BatchInv /\ BatchCompatible /\ [Next]_vars
        => BatchCompatible'
  BY CompatibleStep
<1> QED
  BY <1>1, CompatibleStart, TypeCorrect, AttemptsConsistent, BatchesBooked, PTL DEF Spec

-----------------------------------------------------------------------------
(* No request is lost. *)

(* The batches in which a request can still be moved on. *)
Homes == ActiveBatch \cup {"partially_completed"}

HomeOf(b, r) == r \in Members(b) /\ batches[b].state \in Homes

(* A live request that has left the queue has such a batch, also in the     *)
(* middle of a method.                                                      *)
Placed ==
  \A r \in RequestId : requests[r].state \in InBatchState => \E b \in BatchId : HomeOf(b, r)

(* A step that keeps the members of the batches and ends none. *)
LEMMA QuietPlaced ==
  ASSUME Placed,
         \A c \in BatchId : SameMembers(c) /\ (batches[c].state \in Homes => batches'[c].state \in Homes),
         \A q \in RequestId : requests'[q].state \in InBatchState => requests[q].state \in InBatchState
  PROVE  Placed'
BY DEF Placed, HomeOf, Members, SameMembers

(* Every step keeps every such request in such a batch: what cancel() takes *)
(* out of a batch has ended, what a merge or a split moves it adds to a     *)
(* batch that lives on, and complete() ends only a batch whose members have *)
(* all ended.                                                               *)
LEMMA PlacedStep ==
  ASSUME TypeOK, BatchInv, Placed, [Next]_vars
  PROVE  Placed'
<1>fresh. FreshBatches
  BY DEF BatchInv, Books
<1>kept. ASSUME BatchesKept
         PROVE  \A c \in BatchId : /\ SameMembers(c)
                                   /\ batches[c].state \in Homes => batches'[c].state \in Homes
  BY <1>kept DEF BatchesKept, SameState
<1>1. CASE Submit
  <2>1. BatchesKept
    BY <1>1, KeptFields, SubmitRequests DEF batchVars
  <2>2. \A q \in RequestId : requests'[q].state \in InBatchState => requests[q].state \in InBatchState
    BY <1>1, SubmitRequests DEF InBatchState
  <2> QED
    BY <1>kept, <2>1, <2>2, QuietPlaced
<1>2. CASE Still
  <2>1. BatchesKept /\ requests' = requests
    BY <1>2, KeptFields DEF Still, batchVars, requestVars
  <2> QED
    BY <1>kept, <2>1, QuietPlaced
<1>3. CASE ExpireWaiting
  <2>1. BatchesKept
    BY <1>3, KeptFields DEF ExpireWaiting, batchVars
  <2>2. \A q \in RequestId : requests'[q].state \in InBatchState => requests[q].state \in InBatchState
    BY <1>3, ExpireRequests DEF InBatchState
  <2> QED
    BY <1>kept, <2>1, <2>2, QuietPlaced
<1>4. CASE FillNewDone
  <2>1. BatchesKept /\ requests' = requests
    BY <1>4, FillNewFields DEF FillNewDone, requestVars
  <2> QED
    BY <1>kept, <2>1, QuietPlaced
<1>5. ASSUME NEW r \in RequestId, Retry(r) PROVE Placed'
  <2>1. BatchesKept
    BY <1>5, KeptFields DEF Retry, batchVars
  <2>2. \A q \in RequestId : requests'[q].state \in InBatchState => requests[q].state \in InBatchState
    BY <1>5, RetryRequests DEF InBatchState, Retry
  <2> QED
    BY <1>kept, <2>1, <2>2, QuietPlaced
<1>6. ASSUME NEW r \in RequestId, CompleteMember(r) \/ FailMember(r) PROVE Placed'
  <2>1. PICK status : ApplyOutcome(r, status)
    BY <1>6 DEF CompleteMember, FailMember
  <2>2. BatchesKept
    BY <2>1, OutcomeFields
  <2>3. requests'[r].state \in InBatchState => requests[r].state \in InBatchState
    BY <2>1, OutcomeRequests, RetryRequests DEF InBatchState
  <2>4. \A q \in RequestId : requests'[q].state \in InBatchState => requests[q].state \in InBatchState
    BY <2>1, <2>3, OutcomeRequests
  <2> QED
    BY <1>kept, <2>2, <2>4, QuietPlaced
<1>7. ASSUME NEW b \in BatchId, DoSeal(b) PROVE Placed'
  <2>1. \A c \in BatchId : SameMembers(c) /\ (batches[c].state \in Homes => batches'[c].state \in Homes)
    BY <1>7, SealFields DEF SameState, Homes, ActiveBatch
  <2>2. \A q \in RequestId : requests'[q].state \in InBatchState => requests[q].state \in InBatchState
    BY <1>7, SealRequests DEF InBatchState
  <2> QED
    BY <2>1, <2>2, QuietPlaced
<1>8. ASSUME NEW b \in BatchId, NEW state \in HandedOut, NEW w, Handed(b, state, w), Advance(b, state)
      PROVE  Placed'
  <2>1. \A c \in BatchId : SameMembers(c) /\ (batches[c].state \in Homes => batches'[c].state \in Homes)
    BY <1>8 DEF Handed, SameState, Homes, ActiveBatch, HandedOut
  <2>2. \A q \in RequestId : requests'[q].state \in InBatchState => requests[q].state \in InBatchState
    BY <1>8, AdvanceRequests DEF InBatchState
  <2> QED
    BY <2>1, <2>2, QuietPlaced
<1>9. ASSUME NEW b \in BatchId, StartRun(b) \/ \E w \in Worker : PrepareDispatch(b, w) PROVE Placed'
  BY <1>8, <1>9, RunFields, DispatchFields DEF StartRun, PrepareDispatch, HandedOut
<1>10. CASE CompleteDone
  <2> SUFFICES ASSUME NEW q \in RequestId, requests'[q].state \in InBatchState
               PROVE  \E c \in BatchId : HomeOf(c, q)'
    BY DEF Placed
  <2>1. requests' = requests
    BY <1>10 DEF CompleteDone, requestVars
  <2>2. PICK c \in BatchId : HomeOf(c, q)
    BY <2>1 DEF Placed
  <2>3. requests[q].state \notin Terminal
    BY <2>1 DEF InBatchState, Terminal
  <2>4. batches'[c].state \in Homes
    BY <1>10, <2>2, <2>3, DoneFields DEF SameState, HomeOf, Homes
  <2>5. batches'[c].members = batches[c].members
    BY <1>10, DoneFields DEF SameMembers
  <2> QED
    BY <2>2, <2>4, <2>5 DEF HomeOf, Members
<1>11. ASSUME NEW r \in RequestId, DoCancel(r) PROVE Placed'
  <2> SUFFICES ASSUME NEW q \in RequestId, requests'[q].state \in InBatchState
               PROVE  \E c \in BatchId : HomeOf(c, q)'
    BY DEF Placed
  <2>1. q # r /\ requests'[q] = requests[q]
    BY <1>11, CancelRequests DEF InBatchState
  <2>2. PICK c \in BatchId : HomeOf(c, q)
    BY <2>1 DEF Placed
  <2>3. q \in Range(Without(batches[c].members, r))
    BY <2>1, <2>2, WithoutKeeps, MemberTypes DEF HomeOf, Members
  <2>4. q \in Range(batches'[c].members)
    BY <1>11, <2>2, <2>3, CancelFields DEF HomeOf, Members, SameMembers
  <2>5. batches'[c].state \in Homes
    BY <1>11, <2>2, CancelFields DEF HomeOf, SameState
  <2> QED
    BY <2>4, <2>5 DEF HomeOf, Members
<1>12. ASSUME NEW k \in Key, MakeForming(k) PROVE Placed'
  <2> SUFFICES ASSUME NEW q \in RequestId, requests'[q].state \in InBatchState
               PROVE  \E c \in BatchId : HomeOf(c, q)'
    BY DEF Placed
  <2>1. requests' = requests
    BY <1>12 DEF MakeForming, requestVars
  <2>2. PICK c \in BatchId : HomeOf(c, q)
    BY <2>1 DEF Placed
  <2>3. c # nextBatch
    BY <1>fresh, <2>2, IdsNatural DEF FreshBatches, HomeOf, Homes, ActiveBatch
  <2> QED
    BY <1>12, <2>2, <2>3, MakeFields DEF HomeOf, Members
<1>13. ASSUME NEW r \in RequestId, Place(r) PROVE Placed'
  <2> SUFFICES ASSUME NEW q \in RequestId, requests'[q].state \in InBatchState
               PROVE  \E c \in BatchId : HomeOf(c, q)'
    BY DEF Placed
  <2>1. op.cur \in BatchId /\ batches[op.cur].state \in Homes
    BY <1>13, FilledBatch DEF Place, Fillable, Homes, ActiveBatch
  <2>2. \A x \in Members(op.cur) \cup {r} : x \in Range(batches'[op.cur].members)
    <3>1. Range(Append(batches[op.cur].members, r)) = Range(batches[op.cur].members) \cup {r}
      BY <2>1, AppendRange, MemberTypes
    <3> QED
      BY <1>13, <3>1, PlaceFields DEF Members
  <2>3. CASE q = r
    BY <1>13, <2>1, <2>2, <2>3, PlaceFields DEF HomeOf, Members, SameState
  <2>4. CASE q # r
    <3>1. PICK c \in BatchId : HomeOf(c, q)
      BY <1>13, <2>4, PlaceRequests DEF Placed
    <3>2. CASE c = op.cur
      BY <1>13, <2>1, <2>2, <3>1, <3>2, PlaceFields DEF HomeOf, Members, SameState
    <3>3. CASE c # op.cur
      <4>1. SameState(c) /\ SameMembers(c)
        BY <1>13, <3>3, PlaceFields
      <4> QED
        BY <3>1, <4>1 DEF HomeOf, Members, SameState, SameMembers
    <3> QED
      BY <3>2, <3>3
  <2> QED
    BY <2>3, <2>4
<1>14. ASSUME NEW a \in BatchId, NEW b \in BatchId, a # b, DoMerge(a, b) PROVE Placed'
  <2> SUFFICES ASSUME NEW q \in RequestId, requests'[q].state \in InBatchState
               PROVE  \E c \in BatchId : HomeOf(c, q)'
    BY DEF Placed
  <2>1. PICK c \in BatchId : HomeOf(c, q)
    BY <1>14, MergeRequests DEF Placed
  <2>2. /\ batches'[a].state \in Homes
        /\ \A x \in Members(a) \cup Members(b) : x \in Range(batches'[a].members)
    <3>1. Range(batches[a].members \o batches[b].members) = Members(a) \cup Members(b)
      BY RangeConcatenation, MemberTypes DEF Members
    <3>2. /\ batches'[a].members = batches[a].members \o batches[b].members
          /\ SameState(a) /\ batches[a].state \in {"sealed", "forming"}
      BY <1>14, MergeFields
    <3> QED
      BY <3>1, <3>2 DEF SameState, Homes, ActiveBatch
  <2>3. CASE c \in {a, b}
    BY <2>1, <2>2, <2>3 DEF HomeOf, Members
  <2>4. CASE c \notin {a, b}
    <3>1. SameState(c) /\ SameMembers(c)
      BY <1>14, <2>4, MergeFields
    <3> QED
      BY <2>1, <3>1 DEF HomeOf, Members, SameState, SameMembers
  <2> QED
    BY <2>3, <2>4
<1>15. ASSUME NEW b \in BatchId, DoSplit(b) PROVE Placed'
  <2> SUFFICES ASSUME NEW q \in RequestId, requests'[q].state \in InBatchState
               PROVE  \E c \in BatchId : HomeOf(c, q)'
    BY DEF Placed
  <2>1. PICK c \in BatchId : HomeOf(c, q)
    BY <1>15, RehomeRequests DEF Placed
  <2>2. Members(b) = Range(FirstHalf(b)) \cup Range(SecondHalf(b))
    BY HalvesSplit
  <2>3. \A m : Child(b, m).members = m /\ Child(b, m).state = batches[b].state
    BY ChildFields
  <2>4. c < nextBatch /\ c \in Nat
    BY <1>fresh, <2>1, IdsNatural DEF FreshBatches, HomeOf, Homes, ActiveBatch, TypeOK
  <2>5. CASE SplitSealed(b)
    <3>1. /\ nextBatch \in BatchId /\ nextBatch + 1 \in BatchId /\ nextBatch \in Nat
          /\ batches[b].state = "sealed"
          /\ batches'[nextBatch] = Child(b, SecondHalf(b))
          /\ batches'[nextBatch + 1] = Child(b, FirstHalf(b))
          /\ \A d \in BatchId \ {b, nextBatch, nextBatch + 1} : batches'[d] = batches[d]
      BY <1>fresh, <2>5, SplitSealedFields
    <3>2. CASE c = b
      <4>1. batches[b].state \in Homes
        BY <3>1 DEF Homes, ActiveBatch
      <4>2. CASE q \in Range(FirstHalf(b))
        BY <2>3, <3>1, <4>1, <4>2 DEF HomeOf, Members
      <4>3. CASE q \in Range(SecondHalf(b))
        BY <2>3, <3>1, <4>1, <4>3 DEF HomeOf, Members
      <4> QED
        BY <2>1, <2>2, <3>2, <4>2, <4>3 DEF HomeOf
    <3>3. CASE c # b
      <4>1. c \notin {b, nextBatch, nextBatch + 1}
        BY <2>4, <3>1, <3>3
      <4> QED
        BY <2>1, <3>1, <4>1 DEF HomeOf, Members
    <3> QED
      BY <3>2, <3>3
  <2>6. CASE SplitOpen(b)
    <3>1. /\ nextBatch \in BatchId /\ nextBatch \in Nat
          /\ batches[b].state \in {"forming", "partially_completed"} /\ SameState(b)
          /\ batches'[b].members = FirstHalf(b)
          /\ batches'[nextBatch] = Child(b, SecondHalf(b))
          /\ \A d \in BatchId \ {b, nextBatch} : batches'[d] = batches[d]
      BY <1>fresh, <2>6, SplitOpenFields
    <3>2. CASE c = b
      <4>1. batches[b].state \in Homes /\ batches'[b].state \in Homes
        BY <3>1 DEF Homes, ActiveBatch, SameState
      <4>2. CASE q \in Range(FirstHalf(b))
        BY <3>1, <4>1, <4>2 DEF HomeOf, Members
      <4>3. CASE q \in Range(SecondHalf(b))
        BY <2>3, <3>1, <4>1, <4>3 DEF HomeOf, Members
      <4> QED
        BY <2>1, <2>2, <3>2, <4>2, <4>3 DEF HomeOf
    <3>3. CASE c # b
      <4>1. c \notin {b, nextBatch}
        BY <2>4, <3>1, <3>3
      <4> QED
        BY <2>1, <3>1, <4>1 DEF HomeOf, Members
    <3> QED
      BY <3>2, <3>3
  <2> QED
    BY <1>15, <2>5, <2>6 DEF DoSplit
<1> QED
  BY <1>1, <1>2, <1>3, <1>4, <1>5, <1>6, <1>7, <1>9, <1>10, <1>11, <1>12, <1>13, <1>14, <1>15,
     StepKinds

LEMMA PlacedStart == Init => Placed
BY DEF Init, Placed, InBatchState

LEMMA NothingLost == Placed => NoRequestLost
BY DEF Placed, HomeOf, Homes, ActiveBatch, NoRequestLost, BatchTerminal

(* Nothing is lost: a live request that has left the queue is a member of a *)
(* batch that is neither superseded nor otherwise at its end, whatever was  *)
(* merged, split, retried or reported before (the member lists of           *)
(* add_member_to_batch, do_merge, do_split, cancel and complete).           *)
THEOREM RequestsKept == Spec => []NoRequestLost
<1>1. Init => Placed
  BY PlacedStart
<1>2. TypeOK /\ BatchInv /\ Placed /\ [Next]_vars => Placed'
  BY PlacedStep
<1>3. Placed => NoRequestLost
  BY NothingLost
<1> QED
  BY <1>1, <1>2, <1>3, TypeCorrect, BatchesBooked, PTL DEF Spec

-----------------------------------------------------------------------------
(* The lineage of the batches. *)

(* A step that supersedes no batch and forgets no parent. *)
LEMMA QuietLineage ==
  ASSUME LineageKept, lineage' = lineage,
         \A c \in BatchId : batches'[c].state = "superseded" => batches[c].state = "superseded"
  PROVE  LineageKept'
BY DEF LineageKept

(* Only merges and splits supersede a batch, and the batch that takes the   *)
(* members over names it as a parent; no parent is ever forgotten, because  *)
(* the ids of new batches had no lineage.                                   *)
LEMMA LineageStep ==
  ASSUME TypeOK, BatchInv, LineageKept, [Next]_vars
  PROVE  LineageKept'
<1>fresh. FreshBatches /\ lineage \in [BatchId -> LineageRec]
  BY DEF BatchInv, Books, TypeOK
<1>kept. ASSUME BatchesKept, lineage' = lineage PROVE LineageKept'
  BY <1>kept, QuietLineage DEF BatchesKept, SameState
<1> USE DEF requestVars, idVars, batchVars
<1>1. CASE Submit \/ Still \/ ExpireWaiting \/ \E r \in RequestId : Retry(r)
  <2>1. batches' = batches /\ lineage' = lineage
    BY <1>1, SubmitRequests DEF Still, Retry, ExpireWaiting
  <2> QED
    BY <1>kept, <2>1, KeptFields
<1>2. CASE FillNewDone \/ \E r \in RequestId : CompleteMember(r) \/ FailMember(r)
  BY <1>2, <1>kept, FillNewFields, OutcomeFields DEF FillNewDone, CompleteMember, FailMember, ApplyOutcome
<1>3. CASE CompleteDone
  <2>1. \A c \in BatchId : batches'[c].state = "superseded" => batches[c].state = "superseded"
    BY <1>3, DoneFields DEF SameState
  <2> QED
    BY <1>3, <2>1, QuietLineage DEF CompleteDone
<1>4. ASSUME NEW r \in RequestId, DoCancel(r) \/ Place(r) PROVE LineageKept'
  <2>1. \A c \in BatchId : SameState(c)
    BY <1>4, CancelFields, PlaceFields
  <2> QED
    BY <1>4, <2>1, QuietLineage DEF DoCancel, Place, SameState
<1>5. ASSUME NEW k \in Key, MakeForming(k) PROVE LineageKept'
  <2>1. \A c \in BatchId : batches'[c].state = "superseded" => batches[c].state = "superseded"
    BY <1>5, MakeFields
  <2> QED
    BY <1>5, <2>1, QuietLineage DEF MakeForming
<1>6. ASSUME NEW b \in BatchId, DoSeal(b), lineage' = lineage PROVE LineageKept'
  <2>1. \A c \in BatchId : batches'[c].state = "superseded" => batches[c].state = "superseded"
    BY <1>6, SealFields DEF SameState
  <2> QED
    BY <1>6, <2>1, QuietLineage
<1>7. ASSUME NEW b \in BatchId, StartRun(b) \/ \E w \in Worker : PrepareDispatch(b, w)
      PROVE  LineageKept'
  <2>1. \A c \in BatchId : batches'[c].state = "superseded" => batches[c].state = "superseded"
    BY <1>7, RunFields, DispatchFields DEF Handed, SameState
  <2> QED
    BY <1>7, <2>1, QuietLineage DEF StartRun, PrepareDispatch
<1>8. ASSUME NEW a \in BatchId, NEW b \in BatchId, a # b, DoMerge(a, b) PROVE LineageKept'
  <2> DEFINE p == lineage[a].parents
             q == lineage[b].parents
  <2>1. p \in Seq(BatchId) /\ q \in Seq(BatchId) /\ p \o q \in Seq(BatchId)
    BY <1>fresh DEF LineageRec
  <2>2. lineage'[a].parents = Append(p \o q, b)
    BY <1>8, <1>fresh DEF DoMerge
  <2> HIDE DEF p, q
  <2>3. Range(Append(p \o q, b)) = Range(p) \cup Range(q) \cup {b}
    <3>1. Range(p \o q) = Range(p) \cup Range(q)
      BY <2>1, RangeConcatenation
    <3> DEFINE t == p \o q
    <3>2. t \in Seq(BatchId)
      BY <2>1
    <3> HIDE DEF t
    <3>3. Range(Append(t, b)) = Range(t) \cup {b}
      BY <3>2, AppendRange
    <3> QED
      BY <3>1, <3>3 DEF t
  <2>4. \A c \in BatchId : c # a => lineage'[c] = lineage[c]
    BY <1>8, <1>fresh DEF DoMerge
  <2>5. \A c \in BatchId : Range(lineage[c].parents) \subseteq Range(lineage'[c].parents)
    <3>1. Range(lineage[a].parents) \subseteq Range(lineage'[a].parents)
      BY <2>2, <2>3 DEF p
    <3>2. ASSUME NEW c \in BatchId PROVE Range(lineage[c].parents) \subseteq Range(lineage'[c].parents)
      <4>1. CASE c = a
        BY <3>1, <4>1
      <4>2. CASE c # a
        <5>1. lineage'[c].parents = lineage[c].parents
          BY <2>4, <4>2
        <5> QED
          BY <5>1
      <4> QED
        BY <4>1, <4>2
    <3> QED
      BY <3>2
  <2>6. \A c \in BatchId : c # b /\ batches'[c].state = "superseded" => batches[c].state = "superseded"
    <3>1. \A c \in BatchId \ {b} : SameState(c)
      BY <1>8, MergeFields
    <3> QED
      BY <3>1 DEF SameState
  <2>7. b \in Range(lineage'[a].parents)
    BY <2>2, <2>3
  <2> QED
    BY <1>8, <2>5, <2>6, <2>7 DEF LineageKept
<1>9. ASSUME NEW b \in BatchId, DoSplit(b) PROVE LineageKept'
  <2>1. \A c \in BatchId : c >= nextBatch => Range(lineage[c].parents) = {}
    BY <1>fresh DEF FreshBatches, NoLineage, Range
  <2>2. \A m : Child(b, m).state = batches[b].state
    BY ChildFields
  <2>3. CASE SplitSealed(b)
    <3>1. /\ nextBatch \in BatchId /\ nextBatch + 1 \in BatchId /\ b < nextBatch /\ nextBatch \in Nat
          /\ b \in Nat /\ batches[b].state = "sealed"
          /\ batches'[nextBatch] = Child(b, SecondHalf(b))
          /\ batches'[nextBatch + 1] = Child(b, FirstHalf(b))
          /\ \A c \in BatchId \ {b, nextBatch, nextBatch + 1} : batches'[c] = batches[c]
      BY <1>fresh, <2>3, SplitSealedFields
    <3>2. lineage' = [lineage EXCEPT
             ![b].children    = @ \o <<nextBatch, nextBatch + 1>>,
             ![nextBatch]     = [parents |-> <<b, nextBatch + 1>>, children |-> <<>>],
             ![nextBatch + 1] = [parents |-> <<b>>, children |-> <<nextBatch>>]]
      BY <2>3 DEF SplitSealed
    <3>3. \A c \in BatchId : c \notin {nextBatch, nextBatch + 1} =>
            lineage'[c].parents = lineage[c].parents
      BY <1>fresh, <3>1, <3>2 DEF LineageRec
    <3>4. lineage'[nextBatch].parents = <<b, nextBatch + 1>>
      BY <1>fresh, <3>1, <3>2
    <3>5. b \in Range(lineage'[nextBatch].parents) /\ b # nextBatch
      BY <3>1, <3>4 DEF Range
    <3>6. \A c \in BatchId : Range(lineage[c].parents) \subseteq Range(lineage'[c].parents)
      BY <2>1, <3>1, <3>3
    <3>7. \A c \in BatchId : c # b /\ batches'[c].state = "superseded" => batches[c].state = "superseded"
      BY <2>2, <3>1
    <3> QED
      BY <3>1, <3>5, <3>6, <3>7 DEF LineageKept
  <2>4. CASE SplitOpen(b)
    <3>1. /\ nextBatch \in BatchId /\ b < nextBatch /\ nextBatch \in Nat
          /\ b \in Nat /\ batches[b].state \in {"forming", "partially_completed"} /\ SameState(b)
          /\ batches'[nextBatch] = Child(b, SecondHalf(b))
          /\ \A c \in BatchId \ {b, nextBatch} : batches'[c] = batches[c]
      BY <1>fresh, <2>4, SplitOpenFields
    <3>2. lineage' = [lineage EXCEPT ![b].children = Append(@, nextBatch),
                                     ![nextBatch] = [parents |-> <<b>>, children |-> <<>>]]
      BY <2>4 DEF SplitOpen
    <3>3. \A c \in BatchId : c # nextBatch => lineage'[c].parents = lineage[c].parents
      BY <1>fresh, <3>1, <3>2 DEF LineageRec
    <3>4. \A c \in BatchId : Range(lineage[c].parents) \subseteq Range(lineage'[c].parents)
      BY <2>1, <3>1, <3>3
    <3>5. \A c \in BatchId : batches'[c].state = "superseded" => batches[c].state = "superseded"
      BY <2>2, <3>1 DEF SameState
    <3> QED
      BY <3>4, <3>5 DEF LineageKept
  <2> QED
    BY <1>9, <2>3, <2>4 DEF DoSplit
<1> QED
  BY <1>1, <1>2, <1>3, <1>4, <1>5, <1>6, <1>7, <1>8, <1>9, StepKinds

(* A superseded batch is named as a parent by another batch that took its   *)
(* members over, so that the way of a request can be traced through any     *)
(* chain of merges and splits (parents, in do_merge and do_split).          *)
THEOREM LineageRecorded == Spec => []LineageKept
<1>1. Init => LineageKept
  BY DEF Init, LineageKept, NoBatchRec
<1>2. TypeOK /\ BatchInv /\ LineageKept /\ [Next]_vars => LineageKept'
  BY LineageStep
<1> QED
  BY <1>1, <1>2, TypeCorrect, BatchesBooked, PTL DEF Spec

-----------------------------------------------------------------------------
(* Who may end an execution. *)

(* The in-process worker is never forgotten.  A batch that was handed to a  *)
(* remote worker is never sealed or filled as a new one again, and while it *)
(* is out it names the worker, the boot and the epoch of its one execution. *)
Executions ==
  /\ workers[0].live
  /\ \A x \in dispatches :
       /\ batches[x.batch].state \notin {"none", "forming", "sealed"}
       /\ batches[x.batch].state \in HandedOut =>
            /\ batches[x.batch].epoch = x.epoch
            /\ batches[x.batch].worker = x.worker /\ batches[x.batch].boot = x.boot

(* The report under way was authorised when complete() began, and nothing   *)
(* can withdraw the authority before it ends.                               *)
Authority ==
  op.pc = "complete" =>
    /\ batches[op.cur].epoch = epoch
    /\ workers[batches[op.cur].worker].live
    /\ workers[batches[op.cur].worker].boot = batches[op.cur].boot

ReportInv == Executions /\ Authority

(* What happens to a batch that was handed out or has been. *)
LEMMA HandedStep ==
  ASSUME TypeOK, BatchInv, [Next]_vars, NEW b \in BatchId,
         batches[b].state \notin {"none", "forming", "sealed"}
  PROVE  /\ batches'[b].state \notin {"none", "forming", "sealed"}
         /\ batches'[b].state \in HandedOut => batches[b].state \in HandedOut
         /\ batches[b].state \in HandedOut => Identity(b) /\ Assigned(b)
         /\ batches[b].state \in HandedOut /\ batches'[b].state \notin HandedOut =>
              CompleteDone /\ op.cur = b
<1>fresh. FreshBatches /\ nextBatch \in Nat /\ b \in Nat
  BY IdsNatural DEF BatchInv, Books, TypeOK
<1>old. b < nextBatch
  BY <1>fresh DEF FreshBatches
<1>kept. ASSUME Identity(b), Assigned(b), SameState(b)
         PROVE  /\ batches'[b].state = batches[b].state /\ Identity(b) /\ Assigned(b)
  BY <1>kept DEF SameState
<1>1. CASE Submit \/ Still \/ ExpireWaiting \/ \E r \in RequestId : Retry(r)
  <2>1. batches' = batches
    BY <1>1, SubmitRequests DEF Still, Retry, ExpireWaiting, batchVars
  <2> QED
    BY <2>1 DEF Identity, Assigned
<1>2. CASE FillNewDone \/ \E r \in RequestId : CompleteMember(r) \/ FailMember(r)
  BY <1>2, <1>kept, FillNewFields, OutcomeFields DEF CompleteMember, FailMember, BatchesKept
<1>3. CASE CompleteDone
  <2>1. CASE b # op.cur
    BY <1>3, <1>kept, <2>1, DoneFields
  <2>2. CASE b = op.cur
    BY <1>3, <2>2, DoneFields DEF HandedOut
  <2> QED
    BY <2>1, <2>2
<1>4. CASE \E r \in RequestId : DoCancel(r) \/ Place(r)
  BY <1>4, <1>kept, CancelFields, PlaceFields
<1>5. CASE \E k \in Key : MakeForming(k)
  <2>1. batches'[b] = batches[b]
    BY <1>5, <1>fresh, <1>old, MakeFields
  <2> QED
    BY <2>1 DEF Identity, Assigned
<1>6. ASSUME NEW c \in BatchId, DoSeal(c) PROVE Identity(b) /\ Assigned(b) /\ SameState(b)
  BY <1>6, SealFields
<1>7. ASSUME NEW a \in BatchId, NEW c \in BatchId, a # c, DoMerge(a, c)
      PROVE  Identity(b) /\ Assigned(b) /\ SameState(b)
  BY <1>7, MergeFields
<1>8. ASSUME NEW c \in BatchId, DoSplit(c)
      PROVE  /\ batches'[b].state = batches[b].state
             /\ batches[b].state \in HandedOut => Identity(b) /\ Assigned(b)
  <2>1. CASE SplitSealed(c)
    BY <1>fresh, <1>old, <2>1, SplitSealedFields DEF Identity, Assigned
  <2>2. CASE SplitOpen(c)
    BY <1>fresh, <1>old, <2>2, SplitOpenFields DEF Identity, Assigned, SameState
  <2> QED
    BY <1>8, <2>1, <2>2 DEF DoSplit
<1>9. ASSUME NEW c \in BatchId, StartRun(c) \/ \E w \in Worker : PrepareDispatch(c, w)
      PROVE  Identity(b) /\ Assigned(b) /\ SameState(b)
  BY <1>9, RunFields, DispatchFields DEF Handed
<1> QED
  BY <1>1, <1>2, <1>3, <1>4, <1>5, <1>6, <1>7, <1>8, <1>9, <1>kept, StepKinds

(* Which steps touch the workers, the executions and the report under way. *)
LEMMA WorkersKept ==
  ASSUME [Next]_vars
  PROVE  \/ workers' = workers
         \/ \E w \in Worker, boot \in BootId, size \in WorkerSizes : RegisterWorker(w, boot, size)
<1> USE DEF envVars
<1>1. CASE Submit
  BY <1>1 DEF Submit, SubmitExpired, SubmitOversized, SubmitDeferred, SubmitAdmitted, NewRequest
<1>2. CASE Tick \/ Expire \/ RollEpoch \/ AdvanceClock \/ EnterLate
  BY <1>2 DEF Tick, Expire, RollEpoch, AdvanceClock, EnterLate
<1>3. CASE OpStep
  BY <1>3 DEF OpStep, ExpireWaiting, EvictDone, FillNewDone, MakeDone, FillDone, FormDone, MergeDone,
       SplitStep, TickDone, CompleteDone, FailDone, EvictMember, DoCancel, Place, CompleteMember,
       FailMember, ApplyOutcome, MakeForming, FormNext, MergePair, DoMerge, DoSplit
<1>4. CASE \E r \in RequestId : Cancel(r) \/ Retry(r)
  BY <1>4 DEF Cancel, DoCancel, Retry
<1>5. CASE \E b \in BatchId : Seal(b) \/ Split(b) \/ RunOk(b) \/ RunFailed(b)
  BY <1>5 DEF Seal, Split, DoSplit, RunOk, RunFailed, StartRun
<1>6. CASE \E a, b \in BatchId : Merge(a, b)
  BY <1>6 DEF Merge, DoMerge
<1>7. CASE \E b \in BatchId, w \in Worker : PrepareDispatch(b, w)
  BY <1>7 DEF PrepareDispatch
<1>8. CASE (\E x \in dispatches : Complete(x)) \/ UNCHANGED vars
  BY <1>8 DEF Complete, vars
<1> QED
  BY <1>1, <1>2, <1>3, <1>4, <1>5, <1>6, <1>7, <1>8 DEF Next

LEMMA DispatchesGrow ==
  ASSUME [Next]_vars, dispatches' # dispatches
  PROVE  \E b \in BatchId, w \in Worker : PrepareDispatch(b, w)
<1> USE DEF envVars
<1>1. ~Submit
  BY DEF Submit, SubmitExpired, SubmitOversized, SubmitDeferred, SubmitAdmitted, NewRequest
<1>2. ~(Tick \/ Expire \/ RollEpoch \/ AdvanceClock \/ EnterLate)
  BY DEF Tick, Expire, RollEpoch, AdvanceClock, EnterLate
<1>3. ~OpStep
  BY DEF OpStep, ExpireWaiting, EvictDone, FillNewDone, MakeDone, FillDone, FormDone, MergeDone,
       SplitStep, TickDone, CompleteDone, FailDone, EvictMember, DoCancel, Place, CompleteMember,
       FailMember, ApplyOutcome, MakeForming, FormNext, MergePair, DoMerge, DoSplit
<1>4. ~ \E r \in RequestId : Cancel(r) \/ Retry(r)
  BY DEF Cancel, DoCancel, Retry
<1>5. ~ \E b \in BatchId : Seal(b) \/ Split(b) \/ RunOk(b) \/ RunFailed(b)
  BY DEF Seal, Split, DoSplit, RunOk, RunFailed, StartRun
<1>6. ~ \E a, b \in BatchId : Merge(a, b)
  BY DEF Merge, DoMerge
<1>7. ~ \E w \in Worker, boot \in BootId, size \in WorkerSizes : RegisterWorker(w, boot, size)
  BY DEF RegisterWorker
<1>8. ~((\E x \in dispatches : Complete(x)) \/ UNCHANGED vars)
  BY DEF Complete, vars
<1> QED
  BY <1>1, <1>2, <1>3, <1>4, <1>5, <1>6, <1>7, <1>8 DEF Next

LEMMA ReportEntry ==
  ASSUME TypeOK, [Next]_vars, op'.pc = "complete"
  PROVE  \/ UNCHANGED vars
         \/ \E x \in dispatches : Complete(x)
         \/ \E b \in BatchId : RunOk(b) /\ op'.pc = "complete"
         \/ \E r \in RequestId : CompleteMember(r)
<1>types. op \in OpRec /\ Idle.pc = "idle" /\ Idle \in OpRec
  BY IdleType DEF TypeOK, OpOK, Idle
<1>1. ~Submit
  BY DEF Submit, SubmitExpired, SubmitOversized, SubmitDeferred, SubmitAdmitted, NewRequest, Unlocked
<1>2. ~(Tick \/ Expire \/ RollEpoch \/ AdvanceClock \/ EnterLate)
  BY DEF Tick, Expire, RollEpoch, AdvanceClock, EnterLate, Unlocked, Idle
<1>3. ~(ExpireWaiting \/ EvictDone \/ FillNewDone \/ MakeDone \/ FillDone \/ FormDone)
  BY <1>types, ZenonT(30) DEF ExpireWaiting, EvictDone, FillNewDone, MakeDone, FillDone, FormDone, Idle, OpRec
<1>4. ~(MergeDone \/ SplitStep \/ TickDone \/ CompleteDone \/ FailDone)
  BY <1>types DEF MergeDone, SplitStep, TickDone, CompleteDone, FailDone, Idle, OpRec
<1>5. ~ \E r \in RequestId : EvictMember(r) \/ Place(r) \/ FailMember(r) \/ Cancel(r) \/ Retry(r)
  BY <1>types DEF EvictMember, Place, FailMember, Cancel, Retry, Unlocked, Idle, OpRec
<1>6. ~((\E k \in Key : MakeForming(k)) \/ \E b \in BatchId : FormNext(b))
  BY <1>types DEF MakeForming, FormNext, OpRec
<1>7. ~ \E a, b \in BatchId : MergePair(a, b) \/ Merge(a, b)
  BY <1>types DEF MergePair, Merge, Unlocked, OpRec
<1>8. ~ \E b \in BatchId : Seal(b) \/ Split(b) \/ RunFailed(b) \/ \E w \in Worker : PrepareDispatch(b, w)
  BY DEF Seal, Split, RunFailed, PrepareDispatch, Unlocked, Idle
<1>9. ~ \E w \in Worker, boot \in BootId, size \in WorkerSizes : RegisterWorker(w, boot, size)
  BY DEF RegisterWorker, Unlocked
<1> QED
  BY <1>1, <1>2, <1>3, <1>4, <1>5, <1>6, <1>7, <1>8, <1>9 DEF Next, OpStep

(* A report is taken only with authority, and the authority holds until the *)
(* report has been applied: workers register and epochs roll only while the *)
(* mutex is free.                                                           *)
LEMMA ReportStep ==
  ASSUME TypeOK, TypeOK', BatchInv, ReportInv, [Next]_vars
  PROVE  ReportInv'
<1>types. op \in OpRec /\ dispatches \subseteq Execution /\ 0 \notin Worker
  BY SchedulerAssumption DEF TypeOK, OpOK, SchedulerAssumption
<1> USE DEF requestVars, idVars, batchVars, fairVars, envVars
<1>1. workers'[0].live
  <2>1. CASE workers' = workers
    BY <2>1 DEF ReportInv, Executions
  <2>2. ASSUME NEW w \in Worker, NEW boot \in BootId, NEW size \in WorkerSizes,
               RegisterWorker(w, boot, size)
        PROVE  workers'[0].live
    <3>1. workers \in [WorkerId -> [live: BOOLEAN, boot: BootId, size: Nat]] /\ w # 0
      BY <1>types DEF TypeOK
    <3> QED
      BY <2>2, <3>1, IdsNatural DEF RegisterWorker, ReportInv, Executions
  <2>3. workers' = workers \/ \E w \in Worker, boot \in BootId, size \in WorkerSizes : RegisterWorker(w, boot, size)
    BY WorkersKept
  <2> QED
    BY <2>1, <2>2, <2>3
<1>2. ASSUME NEW x \in dispatches
      PROVE  /\ batches'[x.batch].state \notin {"none", "forming", "sealed"}
             /\ batches'[x.batch].state \in HandedOut =>
                  /\ batches'[x.batch].epoch = x.epoch
                  /\ batches'[x.batch].worker = x.worker /\ batches'[x.batch].boot = x.boot
  <2>1. x.batch \in BatchId
    BY <1>types DEF Execution
  <2>2. batches[x.batch].state \notin {"none", "forming", "sealed"}
    BY DEF ReportInv, Executions
  <2> QED
    BY <2>1, <2>2, HandedStep DEF ReportInv, Executions, Identity, Assigned
<1>3. ASSUME NEW x \in dispatches' \ dispatches
      PROVE  /\ batches'[x.batch].state \notin {"none", "forming", "sealed"}
             /\ batches'[x.batch].epoch = x.epoch
             /\ batches'[x.batch].worker = x.worker /\ batches'[x.batch].boot = x.boot
  <2>1. PICK b \in BatchId, w \in Worker : PrepareDispatch(b, w)
    BY <1>3, DispatchesGrow
  <2>2. x = [batch |-> b, generation |-> batches[b].generation, epoch |-> batches[b].epoch,
             worker |-> w, boot |-> workers[w].boot, attempt |-> CurrentAttempts(b)]
    BY <1>3, <2>1 DEF PrepareDispatch
  <2> QED
    BY <2>1, <2>2, DispatchFields DEF Handed, Identity
<1>4. Executions'
  BY <1>1, <1>2, <1>3 DEF Executions
<1>5. Authority'
  <2>1. CASE op'.pc # "complete"
    BY <2>1 DEF Authority
  <2>2. ASSUME NEW x \in dispatches, Complete(x) PROVE Authority'
    <3>1. /\ op'.cur = x.batch /\ UNCHANGED <<batches, epoch, workers>>
          /\ x.epoch = epoch /\ workers[x.worker].live /\ workers[x.worker].boot = x.boot
          /\ batches[x.batch].state \in HandedOut
      BY <2>2, ReportBatch DEF Complete, Authorised, HandedOut
    <3> QED
      BY <3>1 DEF Authority, ReportInv, Executions
  <2>3. ASSUME NEW b \in BatchId, RunOk(b), op'.pc = "complete" PROVE Authority'
    <3>1. StartRun(b) /\ op'.cur = b /\ batches[b].epoch = epoch
      BY <2>3, ReportBatch DEF RunOk, StartRun, Unlocked
    <3>2. Handed(b, "running", 0)
      BY <3>1, RunFields
    <3> QED
      <4>1. /\ batches'[b].epoch = epoch' /\ batches'[b].worker = 0
            /\ batches'[b].boot = workers'[0].boot /\ workers' = workers
        BY <3>1, <3>2 DEF StartRun, Handed, Identity
      <4>2. workers[0].live
        BY DEF ReportInv, Executions
      <4> QED
        BY <3>1, <4>1, <4>2 DEF Authority
  <2>4. ASSUME NEW r \in RequestId, CompleteMember(r) PROVE Authority'
    <3>1. /\ op.pc = "complete" /\ op'.cur = op.cur /\ op.cur \in BatchId
          /\ ApplyOutcome(r, op.report[r])
      BY <2>4, <1>types DEF CompleteMember, OpRec, TypeOK, OpOK
    <3>2. BatchesKept /\ epoch' = epoch /\ workers' = workers
      BY <3>1, OutcomeFields DEF ApplyOutcome
    <3> QED
      BY <3>1, <3>2 DEF Authority, ReportInv, BatchesKept, Identity, Assigned
  <2>5. CASE UNCHANGED vars
    BY <2>5 DEF vars, Authority, ReportInv
  <2>6. \/ op'.pc # "complete" \/ UNCHANGED vars \/ \E x \in dispatches : Complete(x)
        \/ \E b \in BatchId : RunOk(b) /\ op'.pc = "complete"
        \/ \E r \in RequestId : CompleteMember(r)
    BY ReportEntry
  <2> QED
    BY <2>1, <2>2, <2>3, <2>4, <2>5, <2>6
<1> QED
  BY <1>4, <1>5 DEF ReportInv

(* Nothing was executed before the first dispatch. *)
LEMMA ReportStart == Init => ReportInv
<1> SUFFICES ASSUME Init PROVE ReportInv
  OBVIOUS
<1>1. workers[0] = [live |-> TRUE, boot |-> 0, size |-> 0]
  BY IdsNatural DEF Init
<1>2. dispatches = {} /\ op.pc = "idle"
  BY DEF Init, Idle
<1> QED
  BY <1>1, <1>2 DEF ReportInv, Executions, Authority

(* Both parts hold from the start. *)
LEMMA ReportsSound == Spec => []ReportInv
<1>1. TypeOK /\ TypeOK' /\ BatchInv /\ ReportInv /\ [Next]_vars => ReportInv'
  BY ReportStep
<1> QED
  BY ReportStart, <1>1, TypeCorrect, BatchesBooked, PTL DEF Spec

(* A batch leaves execution only through a report made in the epoch the     *)
(* batch was formed in, by the very boot of the worker it was handed to:    *)
(* the checks of complete() are enough, however workers restart, epochs     *)
(* roll and reports are repeated or delayed.                                *)
THEOREM ReportsAuthorised == Spec => ReportAuthority
<1>1. ASSUME TypeOK, BatchInv, ReportInv, [Next]_vars
      PROVE  [\A b \in BatchId :
                (/\ batches[b].state \in {"dispatched", "running"}
                 /\ batches'[b].state \notin {"dispatched", "running"}) =>
                   /\ batches[b].epoch = epoch
                   /\ workers[batches[b].worker].live
                   /\ workers[batches[b].worker].boot = batches[b].boot]_vars
  <2> SUFFICES ASSUME NEW b \in BatchId, batches[b].state \in HandedOut,
                      batches'[b].state \notin HandedOut
               PROVE  /\ batches[b].epoch = epoch
                      /\ workers[batches[b].worker].live
                      /\ workers[batches[b].worker].boot = batches[b].boot
    BY DEF HandedOut
  <2>1. CompleteDone /\ op.cur = b
    BY <1>1, HandedStep DEF HandedOut
  <2> QED
    BY <1>1, <2>1 DEF ReportInv, Authority, CompleteDone
<1> QED
  BY <1>1, TypeCorrect, BatchesBooked, ReportsSound, PTL DEF Spec, ReportAuthority

-----------------------------------------------------------------------------
(* The budget of requests. *)

(* A removal and a split make a sequence of members no longer. *)
LEMMA WithoutShorter ==
  ASSUME NEW S, NEW s \in Seq(S), NEW x
  PROVE  Len(Without(s, x)) <= Len(s)
<1>1. Len(s) \in Nat
  OBVIOUS
<1>2. CASE x \in Range(s)
  BY <1>1, <1>2, WithoutElements
<1>3. CASE x \notin Range(s)
  BY <1>1, <1>3 DEF Without
<1> QED
  BY <1>2, <1>3

LEMMA HalvesShorter ==
  ASSUME TypeOK, NEW b \in BatchId
  PROVE  /\ Len(FirstHalf(b)) <= Len(batches[b].members)
         /\ Len(SecondHalf(b)) <= Len(batches[b].members)
<1> DEFINE s == batches[b].members
           n == Len(s)
           h == Half(b)
<1>1. s \in Seq(RequestId) /\ n \in Nat
  BY MemberTypes
<1>2. h \in 0 .. n
  <2>1. \A m \in Nat : m \div 2 \in 0 .. m
    OBVIOUS
  <2> QED
    BY <1>1, <2>1 DEF Half
<1> HIDE DEF h
<1>3. Len(SubSeq(s, 1, h)) = h /\ Len(SubSeq(s, h + 1, n)) = n - h
  BY <1>1, <1>2
<1> QED
  BY <1>1, <1>2, <1>3 DEF FirstHalf, SecondHalf, h

(* What a split leaves in a batch. *)
LEMMA SplitLeaves ==
  ASSUME TypeOK, FreshBatches, NEW b \in BatchId, NEW c \in BatchId, DoSplit(b)
  PROVE  batches'[c].members \in {batches[c].members, FirstHalf(b), SecondHalf(b)}
<1>1. Child(b, FirstHalf(b)).members = FirstHalf(b) /\ Child(b, SecondHalf(b)).members = SecondHalf(b)
  BY ChildFields
<1>2. ASSUME SplitSealed(b)
      PROVE  /\ batches'[b].members = FirstHalf(b) /\ batches'[nextBatch].members = SecondHalf(b)
             /\ batches'[nextBatch + 1].members = FirstHalf(b)
             /\ \A d \in BatchId \ {b, nextBatch, nextBatch + 1} : batches'[d] = batches[d]
  BY <1>1, <1>2, SplitSealedFields
<1>3. ASSUME SplitOpen(b)
      PROVE  /\ batches'[b].members = FirstHalf(b) /\ batches'[nextBatch].members = SecondHalf(b)
             /\ \A d \in BatchId \ {b, nextBatch} : batches'[d] = batches[d]
  BY <1>1, <1>3, SplitOpenFields
<1>4. CASE SplitSealed(b)
  BY <1>2, <1>4
<1>5. CASE SplitOpen(b)
  BY <1>3, <1>5
<1> QED
  BY <1>4, <1>5 DEF DoSplit

(* Every step keeps every batch in the budget of requests: only a fill and  *)
(* a merge lengthen a batch, and both ask allows_add first.                 *)
LEMMA CountStep ==
  ASSUME TypeOK, TypeOK', BatchInv, CountKept, [Next]_vars
  PROVE  CountKept'
<1> SUFFICES ASSUME MaxRequests # 0, NEW c \in BatchId PROVE Len(batches'[c].members) <= MaxRequests
  BY DEF CountKept
<1>types. /\ \A b \in BatchId : batches[b].members \in Seq(RequestId) /\ Len(batches[b].members) \in Nat
          /\ batches'[c].members \in Seq(RequestId) /\ Len(batches'[c].members) \in Nat
          /\ MaxRequests \in Nat
  <2>1. batches \in [BatchId -> BatchRec] /\ batches' \in [BatchId -> BatchRec]
    BY DEF TypeOK
  <2> QED
    BY <2>1, PolicyAssumption, SMTT(30) DEF BatchRec, PolicyAssumption
<1>old. \A b \in BatchId : Len(batches[b].members) <= MaxRequests
  BY DEF CountKept
<1>fresh. FreshBatches
  BY DEF BatchInv, Books
<1>short. ASSUME NEW b \in BatchId, Len(batches'[c].members) <= Len(batches[b].members)
          PROVE  Len(batches'[c].members) <= MaxRequests
  BY <1>short, <1>types, <1>old
<1>kept. ASSUME SameMembers(c) PROVE Len(batches'[c].members) <= MaxRequests
  BY <1>kept, <1>old DEF SameMembers
<1>1. CASE Submit \/ Still \/ ExpireWaiting \/ \E r \in RequestId : Retry(r)
  <2>1. batches' = batches
    BY <1>1, SubmitRequests DEF Still, Retry, ExpireWaiting, batchVars
  <2> QED
    BY <1>old, <2>1
<1>2. CASE FillNewDone \/ \E r \in RequestId : CompleteMember(r) \/ FailMember(r)
  BY <1>2, <1>kept, FillNewFields, OutcomeFields DEF CompleteMember, FailMember, BatchesKept
<1>3. CASE CompleteDone
  BY <1>3, <1>kept, DoneFields
<1>4. ASSUME NEW r \in RequestId, DoCancel(r) PROVE Len(batches'[c].members) <= MaxRequests
  <2>1. CASE batches'[c].members = Without(batches[c].members, r)
    BY <1>short, <1>types, <2>1, WithoutShorter
  <2> QED
    BY <1>4, <1>kept, <2>1, CancelFields
<1>5. ASSUME NEW k \in Key, MakeForming(k) PROVE Len(batches'[c].members) <= MaxRequests
  <2>1. CASE c = nextBatch
    <3>1. batches'[c].members = <<>>
      BY <1>5, <2>1, MakeFields
    <3> QED
      BY <1>types, <3>1
  <2>2. CASE c # nextBatch
    BY <1>5, <1>old, <2>2, MakeFields
  <2> QED
    BY <2>1, <2>2
<1>6. ASSUME NEW r \in RequestId, Place(r) PROVE Len(batches'[c].members) <= MaxRequests
  <2>1. CASE c # op.cur
    BY <1>6, <1>kept, <2>1, PlaceFields
  <2>2. CASE c = op.cur
    <3>1. Len(batches[c].members) + 1 <= MaxRequests
      BY <1>6, <2>2 DEF Place, IsPick, Candidates, AllowsAdd
    <3>2. Len(batches'[c].members) = Len(batches[c].members) + 1
      BY <1>6, <1>types, <2>2, PlaceFields, SMTT(30)
    <3> QED
      BY <3>1, <3>2
  <2> QED
    BY <2>1, <2>2
<1>7. ASSUME NEW b \in BatchId, DoSeal(b) PROVE Len(batches'[c].members) <= MaxRequests
  BY <1>7, <1>kept, SealFields
<1>8. ASSUME NEW a \in BatchId, NEW b \in BatchId, a # b, DoMerge(a, b)
      PROVE  Len(batches'[c].members) <= MaxRequests
  <2>1. CASE c # a
    BY <1>8, <1>kept, <2>1, MergeFields
  <2>2. CASE c = a
    <3> DEFINE n == Len(batches[a].members) + Len(batches[b].members)
    <3>4. 0 + n <= MaxRequests
      BY <1>8 DEF DoMerge, CanMerge, AllowsAdd
    <3>1. n <= MaxRequests
      <4>1. Len(batches[a].members) \in Nat /\ Len(batches[b].members) \in Nat
        BY <1>types
      <4>2. \A x, y \in Nat : 0 + (x + y) = x + y
        OBVIOUS
      <4>3. 0 + n = n
        BY <4>1, <4>2, Zenon
      <4> QED
        BY <3>4, <4>3, Zenon
    <3>2. batches'[a].members = batches[a].members \o batches[b].members
      BY <1>8, MergeFields
    <3>3. Len(batches'[a].members) = Len(batches[a].members) + Len(batches[b].members)
      BY <1>types, <3>2
    <3> QED
      BY <2>2, <3>1, <3>3
  <2> QED
    BY <2>1, <2>2
<1>9. ASSUME NEW b \in BatchId, DoSplit(b) PROVE Len(batches'[c].members) <= MaxRequests
  <2>1. batches'[c].members \in {batches[c].members, FirstHalf(b), SecondHalf(b)}
    BY <1>9, <1>fresh, SplitLeaves
  <2> QED
    BY <1>short, <1>old, <2>1, HalvesShorter
<1>10. ASSUME NEW b \in BatchId, StartRun(b) \/ \E w \in Worker : PrepareDispatch(b, w)
       PROVE  Len(batches'[c].members) <= MaxRequests
  BY <1>10, <1>kept, RunFields, DispatchFields DEF Handed
<1> QED
  BY <1>1, <1>2, <1>3, <1>4, <1>5, <1>6, <1>7, <1>8, <1>9, <1>10, StepKinds

(* No batch ever holds more requests than the budget allows, whatever is    *)
(* filled, merged, split and retried (fill_forming, can_merge, do_split).   *)
THEOREM BatchesInCount == Spec => []CountKept
<1>1. Init => CountKept
  <2> SUFFICES ASSUME Init, MaxRequests # 0, NEW b \in BatchId PROVE Len(batches[b].members) <= MaxRequests
    BY DEF CountKept
  <2>1. batches[b].members = <<>> /\ MaxRequests \in Nat
    BY PolicyAssumption DEF Init, NoBatchRec, PolicyAssumption
  <2> QED
    BY <2>1
<1>2. TypeOK /\ TypeOK' /\ BatchInv /\ CountKept /\ [Next]_vars => CountKept'
  BY CountStep
<1> QED
  BY <1>1, <1>2, TypeCorrect, BatchesBooked, PTL DEF Spec
=============================================================================
