------------------------------- MODULE ByteIO -------------------------------
(***************************************************************************)
(* Byte strings and the two classes that write and read them: ByteWriter   *)
(* and the bounds-checking ByteReader of include/batch_fabric/io.hpp.      *)
(* Frames of the wire protocol and the state file are both built from      *)
(* these.                                                                  *)
(*                                                                         *)
(* A byte is a number below 256 and a string a sequence of bytes.  What a  *)
(* function of the code writes or reads, field by field, is a layout: a    *)
(* sequence of named fields, each of a kind.  A writer and its reader have *)
(* each a layout of its own, taken from each function's own statements.    *)
(***************************************************************************)
EXTENDS Integers, Sequences, SequencesExt, TLC

CONSTANT MaxStringLen    \* kDefaultMaxStringLen

ASSUME ByteAssumption == MaxStringLen \in Nat

(* Numbers from Huge on exceed every limit they are compared with and are   *)
(* not told apart; no writer of the model puts one in.                      *)
Huge == 2 ^ 22

(* The kinds of field. *)
Unsigned(width) == [tag |-> "number", width |-> width, max |-> Huge]
U8     == Unsigned(1)
U32    == Unsigned(4)
U64    == Unsigned(8)
Bool   == [tag |-> "bool"]
String == [tag |-> "string"]

UpTo(kind, max)  == [kind EXCEPT !.max = max]               \* a number, refused above max
Const(bytes)     == [tag |-> "const", value |-> bytes]      \* always the same bytes
Enum(values)     == [tag |-> "enum", values |-> values]     \* one byte, checked on reading
Record(layout)   == [tag |-> "record", layout |-> layout]
List(count, of)  == [tag |-> "list", count |-> count, of |-> of]
Sized(field, of) == [tag |-> "sized", field |-> field, of |-> of]  \* its length is an earlier field
Raw(width)       == [tag |-> "raw", width |-> width]        \* bytes as they are

Field(name, kind) == [name |-> name, kind |-> kind]

-----------------------------------------------------------------------------
(* ByteWriter. *)

RECURSIVE BigEndian(_, _)
BigEndian(v, width) ==
  IF width = 0 THEN <<>> ELSE Append(BigEndian(v \div 256, width - 1), v % 256)

RECURSIVE Put(_, _)
Put(kind, v) ==
  CASE kind.tag = "number" -> BigEndian(v, kind.width)
    [] kind.tag = "enum"   -> <<v>>
    [] kind.tag = "const"  -> kind.value
    [] kind.tag = "bool"   -> IF v THEN <<1>> ELSE <<0>>
    [] kind.tag = "string" -> BigEndian(Len(v), U64.width) \o v
    [] kind.tag = "raw"    -> v
    [] kind.tag = "sized"  -> FlattenSeq([i \in DOMAIN v |-> Put(kind.of, v[i])])
    [] kind.tag = "list"   -> Put(kind.count, Len(v))
                                \o FlattenSeq([i \in DOMAIN v |-> Put(kind.of, v[i])])
    [] kind.tag = "record" -> FlattenSeq([i \in DOMAIN kind.layout |->
                                LET f == kind.layout[i] IN
                                IF f.kind.tag = "const" THEN f.kind.value
                                                        ELSE Put(f.kind, v[f.name])])

-----------------------------------------------------------------------------
(* ByteReader.  A read that would run past the end fails, and so does every *)
(* read after it: each caller returns at the first failure.                 *)

Reader(bytes) == [ok |-> TRUE, rest |-> bytes, val |-> <<>>]
Failed        == [ok |-> FALSE, rest |-> <<>>, val |-> <<>>]

Number(bytes) ==
  FoldLeft(LAMBDA acc, b : IF 256 * acc + b > Huge THEN Huge ELSE 256 * acc + b, 0, bytes)

(* A read of n bytes. *)
Take(r, n) ==
  IF ~r.ok \/ n > Len(r.rest) THEN Failed
  ELSE [ok |-> TRUE, rest |-> SubSeq(r.rest, n + 1, Len(r.rest)), val |-> SubSeq(r.rest, 1, n)]

As(r, v) == [r EXCEPT !.val = v]
Where(cond, r) == IF cond THEN r ELSE Failed

RECURSIVE Get(_, _)
Get(kind, r) ==
  LET number(width) == LET t == Take(r, width) IN As(t, Number(t.val))
      items(of, count, rd) ==
        FoldLeft(LAMBDA acc, i : IF ~acc.ok THEN Failed
                                 ELSE LET t == Get(of, acc) IN As(t, Append(acc.val, t.val)),
                 As(rd, <<>>), [i \in 1 .. count |-> i])
      entry(acc, f) ==
        LET t == IF f.kind.tag = "sized" THEN items(f.kind.of, acc.val[f.kind.field], acc)
                                         ELSE Get(f.kind, acc)
        IN IF f.kind.tag = "const" THEN As(t, acc.val)
           ELSE As(t, acc.val @@ (f.name :> t.val))
  IN
  CASE kind.tag = "number" -> LET t == number(kind.width) IN Where(t.val <= kind.max, t)
    [] kind.tag = "enum"   -> LET t == number(1) IN Where(t.val \in kind.values, t)
    [] kind.tag = "const"  -> LET t == Take(r, Len(kind.value)) IN Where(t.val = kind.value, t)
    [] kind.tag = "bool"   -> LET t == number(1) IN As(t, t.val # 0)
    [] kind.tag = "string" -> LET t == number(8) IN Where(t.val <= MaxStringLen, Take(t, t.val))
    [] kind.tag = "raw"    -> Take(r, kind.width)
    [] kind.tag = "list"   -> LET t == Get(kind.count, r)
                              IN IF t.ok THEN items(kind.of, t.val, t) ELSE Failed
    [] kind.tag = "record" -> FoldLeft(LAMBDA acc, f : IF acc.ok THEN entry(acc, f) ELSE Failed,
                                       As(r, <<>>), kind.layout)

(* The limits a reader of this kind puts on a value. *)
RECURSIVE Within(_, _)
Within(kind, v) ==
  CASE kind.tag = "number" -> v <= kind.max
    [] kind.tag = "enum"   -> v \in kind.values
    [] kind.tag = "string" -> Len(v) <= MaxStringLen
    [] kind.tag = "sized"  -> \A i \in DOMAIN v : Within(kind.of, v[i])
    [] kind.tag = "list"   -> Within(kind.count, Len(v)) /\ \A i \in DOMAIN v : Within(kind.of, v[i])
    [] kind.tag = "record" -> \A i \in DOMAIN kind.layout :
                                LET f == kind.layout[i] IN
                                f.name \in DOMAIN v => Within(f.kind, v[f.name])
    [] OTHER -> TRUE

(* A reader that must have used up its input (ok_reader). *)
Exactly(r) == Where(r.rest = <<>>, r)
=============================================================================
