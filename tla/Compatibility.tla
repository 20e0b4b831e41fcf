--------------------------- MODULE Compatibility ---------------------------
(***************************************************************************)
(* Compatibility of requests: the canonical key a request's descriptor is  *)
(* given (CompatibilityKey::build), the pairwise decision explain() asks   *)
(* for (evaluate_compatibility) and the index of waiting requests by key   *)
(* (CompatibilityIndex).  The scheduler's module takes keys as given; this *)
(* one checks what they tell apart.                                        *)
(*                                                                         *)
(* A text is the sequence of its characters, a fixed-width number of the   *)
(* key's byte stream is one element of it, and the SHA-256 digest is taken *)
(* to be injective: the stream itself stands for the key.                  *)
(***************************************************************************)
EXTENDS Integers, SequencesExt, FiniteSetsExt

CONSTANTS
  Request,      \* ids of requests
  Descriptor    \* ModelDescriptors clients submit

Text == Seq(Nat)

(* The numbers of a descriptor are unsigned or enumerations.                *)
ModelDescriptor ==
  [model: Text, revision: Text, adapter: Text, tokenizer: Text,
   phase: Nat, dtype: Nat, backend: Nat, mode: Nat,
   device: [backend: Nat, major: Nat, minor: Nat, memory: Nat],
   shape: Text, sampling: Text, extensions: Seq(Text)]

ASSUME CompatibilityAssumption == Descriptor \subseteq ModelDescriptor

VARIABLES
  descriptor,   \* requests_[r].meta.descriptor, by submitted request
  queued,       \* the requests with in_waiting set
  buckets       \* buckets_, a partial map from keys

vars == <<descriptor, queued, buckets>>

-----------------------------------------------------------------------------
(* The key of a descriptor.  Its version number, the same in every key, is  *)
(* left out.                                                                *)

(* Faulty: nothing marks the end of a text. *)
StringUnmarked(s) == s

(* ByteWriter::string: the length, then the characters. *)
String(s) == <<Len(s)>> \o s

Build(d) ==
  String(d.model) \o String(d.revision) \o String(d.adapter) \o String(d.tokenizer)
    \o <<d.phase, d.dtype, d.backend, d.mode>>
    \o <<d.device.backend, d.device.major, d.device.minor, d.device.memory>>
    \o String(d.shape) \o String(d.sampling)
    \o <<Len(d.extensions)>> \o FlattenSeq([i \in DOMAIN d.extensions |-> String(d.extensions[i])])

-----------------------------------------------------------------------------
(* The decision on a pair, with its first reason. *)

Order == <<"model", "revision", "adapter", "phase", "dtype", "backend", "mode",
           "device", "shape", "sampling", "extensions">>

FirstDifference(a, b, fields) ==
  LET differ == {i \in DOMAIN fields : a[fields[i]] # b[fields[i]]}
  IN  IF differ = {} THEN "compatible" ELSE fields[Min(differ)]

(* Faulty: the device is not compared. *)
EvaluateAnyDevice(a, b) == FirstDifference(a, b, SubSeq(Order, 1, 7) \o SubSeq(Order, 9, 11))

EvaluateCompatibility(a, b) == FirstDifference(a, b, Order)

-----------------------------------------------------------------------------
(* The index. *)

BucketOf(k) == IF k \in DOMAIN buckets THEN buckets[k] ELSE <<>>

Added(k, r) ==
  [j \in DOMAIN buckets \cup {k} |-> IF j = k THEN Append(BucketOf(k), r) ELSE buckets[j]]

(* The first occurrence of r goes, and with the last request the bucket. *)
Removed(k, r) ==
  LET rest == RemoveFirst(BucketOf(k), r)
  IN  [j \in (IF rest = <<>> THEN DOMAIN buckets \ {k} ELSE DOMAIN buckets) |->
         IF j = k THEN rest ELSE buckets[j]]

Init == descriptor = <<>> /\ queued = {} /\ buckets = <<>>

(* An admitted submission.  One without a model or a revision is refused.  *)
Submit(r, d) ==
  /\ d.model # <<>> /\ d.revision # <<>>
  /\ r \notin DOMAIN descriptor
  /\ descriptor' = [s \in DOMAIN descriptor \cup {r} |-> IF s = r THEN d ELSE descriptor[s]]
  /\ queued' = queued \cup {r}
  /\ buckets' = Added(Build(d), r)

(* A request is taken into a batch, expires or is cancelled. *)
Leave(r) ==
  /\ r \in queued
  /\ queued' = queued \ {r}
  /\ buckets' = Removed(Build(descriptor[r]), r)
  /\ UNCHANGED descriptor

(* A retry puts it back, under the key it was given at submission. *)
Requeue(r) ==
  /\ r \in DOMAIN descriptor \ queued
  /\ queued' = queued \cup {r}
  /\ buckets' = Added(Build(descriptor[r]), r)
  /\ UNCHANGED descriptor

Next == \E r \in Request : (\E d \in Descriptor : Submit(r, d)) \/ Leave(r) \/ Requeue(r)

Spec == Init /\ [][Next]_vars

-----------------------------------------------------------------------------
Share(r, s) == \E k \in DOMAIN buckets : {r, s} \subseteq Range(buckets[k])

(* The descriptors agree in every field, the extensions as a bag: a key is  *)
(* documented to tell sets of extensions apart and not their orders.        *)
SameDimensions(a, b) ==
  /\ [a EXCEPT !.extensions = <<>>] = [b EXCEPT !.extensions = <<>>]
  /\ ToBag(a.extensions) = ToBag(b.extensions)

(* The index is exact: it lists the queued requests, each once, and holds   *)
(* no empty bucket (the tick makes a forming batch for every bucket it      *)
(* finds).  Two requests share a bucket if their descriptors are equal, and *)
(* only if they agree in every dimension, however texts of adjacent fields  *)
(* line up in the stream.  Of descriptors with the same extensions in       *)
(* another order nothing is said: build() sorts no extensions.              *)
IndexExact ==
  /\ \A k \in DOMAIN buckets : buckets[k] # <<>> /\ IsInjective(buckets[k])
  /\ UNION {Range(buckets[k]) : k \in DOMAIN buckets} = queued
  /\ \A r, s \in queued :
       /\ descriptor[r] = descriptor[s] => Share(r, s)
       /\ Share(r, s) => SameDimensions(descriptor[r], descriptor[s])

(* What explain() says of a pair agrees with what formation does with it:   *)
(* requests of one bucket are compatible, and compatible requests with the  *)
(* same tokenizer are in one bucket.                                        *)
DecisionAgrees ==
  \A r, s \in queued :
    LET compatible == EvaluateCompatibility(descriptor[r], descriptor[s]) = "compatible"
    IN  /\ Share(r, s) => compatible
        /\ compatible /\ descriptor[r].tokenizer = descriptor[s].tokenizer => Share(r, s)
=============================================================================
