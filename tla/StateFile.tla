------------------------------ MODULE StateFile ------------------------------
(***************************************************************************)
(* The state file in bytes (src/persistence.cpp): save() encodes the       *)
(* records, appends a checksum, writes a temporary file and renames it;    *)
(* load() reads the bytes back and parse() checks them.  The process may   *)
(* die between any two writes and a write may fail.  The Windows build     *)
(* forces the bytes to the disk before the rename; the other one neither   *)
(* does that nor looks at the result of its flush, so that a file may be   *)
(* renamed short, or cut by a loss of power.                               *)
(*                                                                         *)
(* Enumerations are numbers, times and ids too.  A file is named by what   *)
(* was being written and by how many bytes of it are there.                *)
(***************************************************************************)
EXTENDS ByteIO, FiniteSets

CONSTANTS
  Digest(_),       \* Sha256::digest, free of collisions on the files of the model
  Runtime,         \* what the scheduler may hand to save: a function from names to records
  MaxRecords,      \* kMaxRecords
  MaxFileSize,     \* load: kMaxRecords * 8 + 4096 bytes
  MaxExtensions,   \* read_descriptor: extensions of a descriptor
  MaxAttemptIds,   \* parse: attempts of a request
  Histories,       \* bound of the model: sequences of images that are saved one after the other
  CutBound         \* bound of the model: how often some bytes of a file are written and not all

Image  == DOMAIN Runtime
NoFile == "no file"

ASSUME StateFileAssumption ==
  /\ \A b \in {<<>>, <<1>>} : Len(Digest(b)) = 32
  /\ MaxRecords \in Nat /\ MaxFileSize \in Nat /\ MaxExtensions \in Nat /\ MaxAttemptIds \in Nat
  /\ CutBound \in Nat /\ \A h \in Histories : Range(h) \subseteq Image

VARIABLES
  path,      \* the state file
  temp,      \* path + ".tmp"
  writing,   \* save: the image it is writing, or NoFile
  loaded,    \* the result of the last load
  flushed,   \* whether this is the build that forces the bytes to the disk
  plan,      \* the images still to be saved
  cuts       \* how often a file was cut

stateFileVars == <<path, temp, writing, loaded, flushed, plan, cuts>>

-----------------------------------------------------------------------------
(* What save writes.  Key digests are 32 raw bytes. *)

DigestSize == 32
U64s(names) == [i \in DOMAIN names |-> Field(names[i], U64)]
Strings(names) == [i \in DOMAIN names |-> Field(names[i], String)]

write_descriptor ==
     <<Field("version", Const(<<1>>))>>
  \o Strings(<<"model", "revision", "adapter", "tokenizer">>)
  \o <<Field("phase", U8), Field("dtype", U8), Field("backend", U8), Field("execution_mode", U8),
       Field("device_backend", U8), Field("compute_major", U32), Field("compute_minor", U32),
       Field("min_memory_bytes", U64)>>
  \o Strings(<<"shape", "sampling_semantics">>) \o <<Field("extensions", List(U32, String))>>

SaveRequest ==
     U64s(<<"id", "tenant", "session", "sequence">>)
  \o <<Field("descriptor", Record(write_descriptor))>>
  \o U64s(<<"input", "output", "work", "memory_bytes", "deadline">>)
  \o <<Field("latency", U8), Field("priority", U8), Field("payload", String), Field("state", U8)>>
  \o U64s(<<"submitted_ns", "batch", "current_attempt">>)
  \o <<Field("attempt_ids", List(U64, U64))>>

SaveAttempt ==
     <<Field("id", U64), Field("number", U32), Field("state", U8), Field("batch", U64),
       Field("outcome", U8), Field("result", String)>>
  \o U64s(<<"started", "completed">>)

SaveBatch ==
     U64s(<<"id", "generation", "epoch">>)
  \o <<Field("state", U8), Field("key", Raw(DigestSize)), Field("members", List(U64, U64)), Field("count", U32)>>
  \o U64s(<<"input_tokens", "output_tokens", "work", "memory",
            "formed_ns", "sealed_ns", "dispatched_ns", "completed_ns">>)
  \o <<Field("seal_reason", U8), Field("worker", U64), Field("boot", U64),
       Field("parents", List(U64, U64)), Field("children", List(U64, U64))>>

Magic == <<70, 67, 82, 84>>
Header == <<Field("magic", Const(Magic)), Field("format", Const(<<0, 0, 0, 1>>))>>
Counters == U64s(<<"epoch", "next_request", "next_batch", "next_attempt", "next_generation">>)

(* The three numbers of records come first, then the records. *)
SaveRuntime ==
     Header \o Counters \o U64s(<<"nreq", "natt", "nbat">>)
  \o <<Field("requests", Sized("nreq", Record(SaveRequest))),
       Field("attempts", Sized("natt", Record(SaveAttempt))),
       Field("batches", Sized("nbat", Record(SaveBatch))),
       Field("fairness", List(U64, Record(<<Field("tenant", String), Field("served", U64)>>)))>>

Save(rt) ==
  LET body == Put(Record(SaveRuntime),
                  rt @@ [nreq |-> Len(rt.requests), natt |-> Len(rt.attempts),
                         nbat |-> Len(rt.batches)])
  IN body \o Digest(body)

-----------------------------------------------------------------------------
(* What parse reads.  Enumerations are checked; "unknown" is 255. *)

OrUnknown(max) == Enum((0 .. max) \cup {255})

read_descriptor ==
     <<Field("version", Const(<<1>>))>>
  \o Strings(<<"model", "revision", "adapter", "tokenizer">>)
  \o <<Field("phase", Enum(0 .. 1)), Field("dtype", OrUnknown(4)), Field("backend", OrUnknown(4)),
       Field("execution_mode", OrUnknown(3)), Field("device_backend", OrUnknown(4)),
       Field("compute_major", U32), Field("compute_minor", U32), Field("min_memory_bytes", U64)>>
  \o Strings(<<"shape", "sampling_semantics">>)
  \o <<Field("extensions", List(UpTo(U32, MaxExtensions), String))>>

ParseRequest ==
     U64s(<<"id", "tenant", "session", "sequence">>)
  \o <<Field("descriptor", Record(read_descriptor))>>
  \o U64s(<<"input", "output", "work", "memory_bytes", "deadline">>)
  \o <<Field("latency", Enum(0 .. 4)), Field("priority", Enum(0 .. 3)), Field("payload", String),
       Field("state", Enum(0 .. 12))>>
  \o U64s(<<"submitted_ns", "batch", "current_attempt">>)
  \o <<Field("attempt_ids", List(UpTo(U64, MaxAttemptIds), U64))>>

ParseAttempt ==
     <<Field("id", U64), Field("number", U32), Field("state", Enum(0 .. 12)), Field("batch", U64),
       Field("outcome", Enum(0 .. 6)), Field("result", String)>>
  \o U64s(<<"started", "completed">>)

RecordCount == UpTo(U64, MaxRecords)

(* The numbers of parents and of children are read before either list. *)
ParseBatch ==
     U64s(<<"id", "generation", "epoch">>)
  \o <<Field("state", Enum(0 .. 8)), Field("key", Raw(DigestSize)), Field("members", List(RecordCount, U64)),
       Field("count", U32)>>
  \o U64s(<<"input_tokens", "output_tokens", "work", "memory",
            "formed_ns", "sealed_ns", "dispatched_ns", "completed_ns">>)
  \o <<Field("seal_reason", Enum(0 .. 10)), Field("worker", U64), Field("boot", U64),
       Field("np", RecordCount), Field("nc", RecordCount),
       Field("parents", Sized("np", U64)), Field("children", Sized("nc", U64))>>

ParseRuntime ==
     Header \o Counters
  \o <<Field("nreq", RecordCount), Field("natt", RecordCount), Field("nbat", RecordCount),
       Field("requests", Sized("nreq", Record(ParseRequest))),
       Field("attempts", Sized("natt", Record(ParseAttempt))),
       Field("batches", Sized("nbat", Record(ParseBatch))),
       Field("fairness", List(RecordCount, Record(<<Field("tenant", String), Field("served", U64)>>)))>>

Without(names, rec) == [f \in DOMAIN rec \ names |-> rec[f]]

(* The runtime that was read, without the numbers of records. *)
Read(val) ==
  [Without({"nreq", "natt", "nbat"}, val) EXCEPT !.batches =
     [i \in DOMAIN @ |-> Without({"np", "nc"}, @[i])]]

BatchActive == 0 .. 4     \* forming to partially_completed

Distinct(records) ==
  /\ \A i \in DOMAIN records : records[i].id # 0
  /\ \A i, j \in DOMAIN records : records[i].id = records[j].id => i = j

(* The checks on the records: ids are unique, members are requests of the   *)
(* file, and no request is in two batches that are not at their end.        *)
Consistent(rt) ==
  /\ Distinct(rt.requests) /\ Distinct(rt.attempts) /\ Distinct(rt.batches)
  /\ \A b \in Range(rt.batches) :
       Range(b.members) \subseteq {r.id : r \in Range(rt.requests)}
  /\ \A b, c \in Range(rt.batches) :
       (b.state \in BatchActive /\ c.state \in BatchActive /\ b.id # c.id)
         => Range(b.members) \cap Range(c.members) = {}

Refused == [ok |-> FALSE, runtime |-> <<>>]
Accepted(rt) == [ok |-> TRUE, runtime |-> rt]

MinSize == 44

(* parse: size, checksum, magic, version, records, consistency, and nothing *)
(* between the last record and the checksum.  The reader's input includes   *)
(* the checksum.                                                            *)
Parse(bytes) ==
  IF Len(bytes) < MinSize THEN Refused
  ELSE LET size == Len(bytes) - DigestSize
           body == SubSeq(bytes, 1, size)
           r    == Get(Record(ParseRuntime), Reader(bytes))
       IN IF /\ Digest(body) = SubSeq(bytes, size + 1, Len(bytes))
             /\ r.ok /\ Consistent(Read(r.val)) /\ Len(r.rest) = DigestSize
          THEN Accepted(Read(r.val)) ELSE Refused

-----------------------------------------------------------------------------
(* The files.  Encoded holds the bytes of every image. *)

Encoded == [n \in Image |-> Save(Runtime[n])]

File(n, size) == [of |-> n, size |-> size]
Absent        == File(NoFile, 0)
Bytes(f)      == SubSeq(Encoded[f.of], 1, f.size)
Complete(f)   == f.size = Len(Encoded[f.of])

StateFileInit ==
  /\ path = Absent /\ temp = Absent
  /\ writing = NoFile
  /\ loaded = Refused
  /\ flushed \in BOOLEAN
  /\ plan \in Histories /\ cuts = 0

(* save: the temporary file is created, or cut to nothing. *)
OpenTemp ==
  /\ writing = NoFile /\ plan # <<>>
  /\ writing' = Head(plan) /\ temp' = File(Head(plan), 0) /\ plan' = Tail(plan)
  /\ UNCHANGED <<flushed, path, loaded, cuts>>

Cut(whole) == IF whole THEN UNCHANGED cuts ELSE cuts < CutBound /\ cuts' = cuts + 1

(* Some more bytes reach the file. *)
WriteSome ==
  /\ writing # NoFile
  /\ \E size \in temp.size + 1 .. Len(Encoded[writing]) :
       temp' = File(writing, size) /\ Cut(Complete(temp'))
  /\ UNCHANGED <<flushed, path, writing, loaded, plan>>

(* A write, the flush or the rename fails and save returns the error; or    *)
(* the process dies.  The temporary file stays as it is.                    *)
AbandonSave ==
  /\ writing # NoFile
  /\ writing' = NoFile
  /\ UNCHANGED <<flushed, path, temp, loaded, plan, cuts>>

(* Faulty: the rename does not wait for the last byte. *)
RenameEarly ==
  /\ writing # NoFile
  /\ path' = temp /\ temp' = Absent /\ writing' = NoFile
  /\ UNCHANGED <<flushed, loaded, plan, cuts>>

(* The rename follows the last byte, or, in the build that ignores the      *)
(* result of its flush, whatever the flush has left out.                    *)
Rename ==
  /\ writing # NoFile
  /\ Complete(temp) \/ ~flushed
  /\ path' = temp /\ temp' = Absent /\ writing' = NoFile
  /\ UNCHANGED <<flushed, loaded, plan, cuts>>

(* Power is lost: of a file that was not forced to the disk some bytes from *)
(* the start are left.                                                      *)
PowerLoss ==
  /\ ~flushed /\ path # Absent
  /\ \E size \in 0 .. path.size - 1 : path' = File(path.of, size)
  /\ writing' = NoFile /\ Cut(FALSE)
  /\ UNCHANGED <<flushed, temp, loaded, plan>>

(* A file that is too large is refused before it is read; save has no such  *)
(* limit.                                                                   *)
Load ==
  /\ loaded' = IF path = Absent \/ path.size > MaxFileSize THEN Refused ELSE Parse(Bytes(path))
  /\ UNCHANGED <<flushed, path, temp, writing, plan, cuts>>

StateFileNext ==
  \/ OpenTemp \/ WriteSome \/ AbandonSave \/ Rename \/ PowerLoss \/ Load

StateFileSpec == StateFileInit /\ [][StateFileNext]_stateFileVars

-----------------------------------------------------------------------------
(* How parse misreads a batch that save wrote: with parents, the first of   *)
(* them is taken for the number of children and the number of children for  *)
(* the last parent.                                                         *)
AlignedBatch(b) == b.parents # <<>> => Head(b.parents) = Len(b.children)
Misread(b) ==
  IF b.parents = <<>> THEN b ELSE [b EXCEPT !.parents = Append(Tail(@), Len(b.children))]

(* What a load makes of a complete file, in terms of records.               *)
ReadingOf ==
  [n \in Image |->
     LET rt   == Runtime[n]
         read == [rt EXCEPT !.batches = [i \in DOMAIN @ |-> Misread(@[i])]]
     IN IF /\ Len(Encoded[n]) <= MaxFileSize
           /\ Within(Record(ParseRuntime), rt)
           /\ \A records \in {rt.requests, rt.attempts, rt.batches} : Len(records) <= MaxRecords
           /\ \A i \in DOMAIN rt.batches : AlignedBatch(rt.batches[i])
           /\ Consistent(rt)
        THEN Accepted(read) ELSE Refused]

Reading(n) == IF n \in Image THEN ReadingOf[n] ELSE Refused

FileValue == IF path = Absent \/ Complete(path) THEN path.of ELSE "torn"

Atomic == INSTANCE AtomicFile WITH file <- FileValue, durable <- flushed

(* The state file behaves as one that is replaced as a whole: whatever is   *)
(* interrupted, fails or is cut, a load gives the records of the last save  *)
(* that finished, as parse reads them, or an error, and a save that did not *)
(* finish changes nothing; without the flush, a file that is cut is refused.*)
AtomicReplace == Atomic!FileSpec
=============================================================================
