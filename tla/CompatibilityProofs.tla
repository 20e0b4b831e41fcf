------------------------ MODULE CompatibilityProofs ------------------------
(***************************************************************************)
(* The index of waiting requests by key, for every set of descriptors: the *)
(* key tells any two descriptors apart, so a bucket holds the requests of  *)
(* one descriptor, and the decision explain() reports is the one formation *)
(* acts on.                                                                *)
(*                                                                         *)
(* The byte stream a key is built from is read back from the left: every   *)
(* text in it is preceded by its length, every number has one place, and   *)
(* the extensions are preceded by their count.                             *)
(***************************************************************************)
EXTENDS Compatibility, SequenceTheorems, WellFoundedInduction, TLAPS

-----------------------------------------------------------------------------
(* Induction over numbers. *)

(* The order of the natural numbers as a relation. *)
Below == {p \in Nat \X Nat : p[1] < p[2]}

(* A set of numbers that is not empty has a least one ... *)
LEMMA LeastNumber ==
  ASSUME NEW T, T \subseteq Nat, T # {}
  PROVE  \E m \in T : \A k \in T : m <= k
<1>1. IsWellFoundedOn(Below, Nat)
  BY NatLessThanWellFounded, Zenon DEF OpToRel, Below
<1>2. PICK m \in T : \A k \in T : ~(<<k, m>> \in Below)
  BY <1>1, WFMin
<1>3. ASSUME NEW k \in T PROVE m <= k
  <2>1. k \in Nat /\ m \in Nat
    OBVIOUS
  <2>2. <<k, m>> \in Nat \X Nat /\ <<k, m>>[1] = k /\ <<k, m>>[2] = m
    BY <2>1
  <2>3. ~(<<k, m>> \in Below)
    BY <1>2
  <2>4. ~(k < m)
    BY <2>2, <2>3 DEF Below
  <2> QED
    BY <2>1, <2>4
<1> QED
  BY <1>3

(* ... so one that is closed under successors is all of them. *)
LEMMA NatClosed ==
  ASSUME NEW T, 0 \in T, \A n \in Nat : n \in T => n + 1 \in T
  PROVE  \A n \in Nat : n \in T
<1> SUFFICES ASSUME Nat \ T # {} PROVE FALSE
  OBVIOUS
<1>1. PICK m \in Nat \ T : \A k \in Nat \ T : m <= k
  BY LeastNumber
<1>2. m # 0 /\ m - 1 \in Nat
  BY <1>1
<1> QED
  BY <1>1, <1>2

-----------------------------------------------------------------------------
(* Reading a stream from the left. *)

(* Two streams that are equal and begin with parts of equal length agree on *)
(* these parts and on what follows them.                                    *)
LEMMA PartsEqual ==
  ASSUME NEW S, NEW s \in Seq(S), NEW t \in Seq(S), NEW u \in Seq(S), NEW v \in Seq(S),
         Len(s) = Len(t), s \o u = t \o v
  PROVE  s = t /\ u = v
<1>1. /\ Len(s) \in Nat /\ Len(u) \in Nat /\ Len(v) \in Nat
      /\ Len(s \o u) = Len(s) + Len(u) /\ Len(t \o v) = Len(t) + Len(v)
  <2>1. Len(s \o u) = Len(s) + Len(u)
    BY ConcatProperties
  <2>2. Len(t \o v) = Len(t) + Len(v)
    BY ConcatProperties
  <2> QED
    BY <2>1, <2>2, LenProperties
<1>2. Len(u) = Len(v)
  BY <1>1
<1>3. ASSUME NEW i \in 1 .. Len(s) PROVE s[i] = t[i]
  <2>1. i \in 1 .. Len(s) + Len(u) /\ i <= Len(s)
    BY <1>1
  <2>2. (s \o u)[i] = s[i] /\ (t \o v)[i] = t[i]
    BY <1>1, <1>2, <2>1, ConcatProperties
  <2> QED
    BY <2>2
<1>4. ASSUME NEW i \in 1 .. Len(u) PROVE u[i] = v[i]
  <2>1. /\ Len(s) + i \in 1 .. Len(s) + Len(u) /\ ~(Len(s) + i <= Len(s))
        /\ (Len(s) + i) - Len(s) = i
    BY <1>1
  <2>2. (s \o u)[Len(s) + i] = u[i] /\ (t \o v)[Len(s) + i] = v[i]
    BY <1>1, <1>2, <2>1, ConcatProperties
  <2> QED
    BY <2>2
<1> QED
  BY <1>2, <1>3, <1>4, SeqEqual

(* A stream of bytes and of numbers of fixed width, and one followed by     *)
(* another.                                                                 *)
Stream == Seq(Nat)

Then(s, t) == s \o t

LEMMA StreamParts ==
  \A s, t, u, v \in Stream : Len(s) = Len(t) /\ Then(s, u) = Then(t, v) => s = t /\ u = v
<1> DEFINE S == Nat
<1>1. Stream = Seq(S)
  BY DEF Stream
<1> HIDE DEF S
<1> SUFFICES ASSUME NEW s \in Stream, NEW t \in Stream, NEW u \in Stream, NEW v \in Stream,
                    Len(s) = Len(t), Then(s, u) = Then(t, v)
             PROVE  s = t /\ u = v
  OBVIOUS
<1>2. /\ s \in Seq(S) /\ t \in Seq(S) /\ u \in Seq(S) /\ v \in Seq(S)
      /\ Len(s) = Len(t) /\ s \o u = t \o v
  BY <1>1 DEF Then
<1> QED
  BY <1>2, PartsEqual

LEMMA StreamAssociative ==
  \A s, t, u \in Stream : Then(Then(s, t), u) = Then(s, Then(t, u))
<1> DEFINE S == Nat
<1>1. Stream = Seq(S)
  BY DEF Stream
<1> HIDE DEF S
<1> SUFFICES ASSUME NEW s \in Stream, NEW t \in Stream, NEW u \in Stream
             PROVE  Then(Then(s, t), u) = Then(s, Then(t, u))
  OBVIOUS
<1>2. s \in Seq(S) /\ t \in Seq(S) /\ u \in Seq(S)
  BY <1>1
<1>3. (s \o t) \o u = s \o (t \o u)
  BY <1>2, ConcatAssociative
<1> QED
  BY <1>3 DEF Then

LEMMA StreamThen ==
  \A s, t \in Stream : Then(s, t) \in Stream
BY DEF Stream, Then

(* A text is a stream, and so is what String makes of it. *)
LEMMA TextType ==
  ASSUME NEW s \in Text
  PROVE  /\ s \in Stream /\ <<Len(s)>> \in Stream
         /\ String(s) = Then(<<Len(s)>>, s) /\ String(s) \in Stream
BY DEF Text, Stream, String, Then

(* A text in the stream ends where its length says. *)
LEMMA TextEqual ==
  ASSUME NEW s \in Text, NEW t \in Text, NEW u \in Stream, NEW v \in Stream,
         Then(String(s), u) = Then(String(t), v)
  PROVE  s = t /\ u = v
<1> DEFINE p == <<Len(s)>>
           q == <<Len(t)>>
<1>1. /\ p \in Stream /\ q \in Stream /\ s \in Stream /\ t \in Stream
      /\ String(s) = Then(p, s) /\ String(t) = Then(q, t)
  BY TextType
<1>2. Len(p) = Len(q) /\ p[1] = Len(s) /\ q[1] = Len(t)
  OBVIOUS
<1> HIDE DEF p, q
<1>3. Then(s, u) \in Stream /\ Then(t, v) \in Stream
  BY <1>1, StreamThen
<1>4. Then(p, Then(s, u)) = Then(q, Then(t, v))
  BY <1>1, StreamAssociative
<1>5. p = q /\ Then(s, u) = Then(t, v)
  BY <1>1, <1>2, <1>3, <1>4, StreamParts
<1>6. Len(s) = Len(t)
  BY <1>2, <1>5
<1> QED
  BY <1>1, <1>5, <1>6, StreamParts

-----------------------------------------------------------------------------
(* The extensions. *)

(* The joined prefixes of a sequence of sequences, as FlattenSeq computes   *)
(* them.                                                                    *)
JoinAt(g, s, i) == IF i = 1 THEN s[i] ELSE g[i - 1] \o s[i]

Joins(g, s, n) == g = [i \in 1 .. n |-> JoinAt(g, s, i)]

Joined(s) == CHOOSE g : Joins(g, s, Len(s))

LEMMA FlattenUnfolded ==
  ASSUME NEW s
  PROVE  FlattenSeq(s) = IF Len(s) = 0 THEN s ELSE Joined(s)[Len(s)]
BY DEF FlattenSeq, Joined, Joins, JoinAt

(* The recursion has a solution for the first n sequences, for every n. *)
LEMMA JoinedDefined ==
  ASSUME NEW s, Len(s) \in Nat
  PROVE  Joins(Joined(s), s, Len(s))
<1> DEFINE T == {n \in Nat : \E g : Joins(g, s, n)}
<1>1. 0 \in T
  <2> DEFINE g == [i \in 1 .. 0 |-> 0]
  <2>1. g = [i \in 1 .. 0 |-> JoinAt(g, s, i)]
    OBVIOUS
  <2>2. Joins(g, s, 0)
    BY <2>1 DEF Joins
  <2> HIDE DEF g
  <2> QED
    BY <2>2
<1>2. ASSUME NEW n \in Nat, n \in T PROVE n + 1 \in T
  <2>1. PICK g : g = [i \in 1 .. n |-> JoinAt(g, s, i)]
    BY <1>2 DEF Joins
  <2>2. \E h : h = [i \in 1 .. n + 1 |-> JoinAt(g, s, i)]
    OBVIOUS
  <2>3. PICK h : h = [i \in 1 .. n + 1 |-> JoinAt(g, s, i)]
    BY <2>2
  <2>4. ASSUME NEW i \in 1 .. n PROVE h[i] = g[i]
    <3>1. i \in 1 .. n + 1
      OBVIOUS
    <3>2. h[i] = JoinAt(g, s, i)
      BY <2>3, <3>1
    <3>3. g[i] = JoinAt(g, s, i)
      BY <2>1
    <3> QED
      BY <3>2, <3>3
  <2>5. ASSUME NEW i \in 1 .. n + 1 PROVE JoinAt(g, s, i) = JoinAt(h, s, i)
    <3>1. CASE i = 1
      BY <3>1 DEF JoinAt
    <3>2. CASE i # 1
      <4>1. i - 1 \in 1 .. n
        BY <3>2
      <4>2. h[i - 1] = g[i - 1]
        BY <2>4, <4>1
      <4> QED
        BY <3>2, <4>2 DEF JoinAt
    <3> QED
      BY <3>1, <3>2
  <2>6. h = [i \in 1 .. n + 1 |-> JoinAt(h, s, i)]
    BY <2>3, <2>5
  <2>7. Joins(h, s, n + 1)
    BY <2>6 DEF Joins
  <2> QED
    BY <2>7
<1> HIDE DEF T
<1>3. Len(s) \in T
  BY <1>1, <1>2, NatClosed
<1>4. \E g : Joins(g, s, Len(s))
  BY <1>3 DEF T
<1> QED
  BY <1>4 DEF Joined

(* The texts of the extensions, each with its length. *)
Texts(e) == [i \in DOMAIN e |-> String(e[i])]

LEMMA TextsFields ==
  ASSUME NEW e \in Seq(Text)
  PROVE  /\ Len(e) \in Nat /\ Len(Texts(e)) = Len(e)
         /\ \A i \in 1 .. Len(e) : /\ e[i] \in Text /\ Texts(e)[i] = String(e[i])
                                   /\ Texts(e)[i] \in Stream
<1>1. Len(e) \in Nat /\ DOMAIN e = 1 .. Len(e)
  BY LenProperties
<1>2. \A i \in 1 .. Len(e) : e[i] \in Text
  BY ElementOfSeq
<1>3. \A i \in 1 .. Len(e) : Texts(e)[i] = String(e[i])
  BY <1>1 DEF Texts
<1>4. Len(Texts(e)) = Len(e)
  BY <1>1 DEF Texts
<1> QED
  BY <1>1, <1>2, <1>3, <1>4, TextType

LEMMA TextsJoined ==
  ASSUME NEW e \in Seq(Text), NEW i \in 1 .. Len(e)
  PROVE  /\ i = 1 => Joined(Texts(e))[i] = String(e[i])
         /\ i # 1 => Joined(Texts(e))[i] = Then(Joined(Texts(e))[i - 1], String(e[i]))
<1> DEFINE g == Joined(Texts(e))
<1>1. Len(Texts(e)) = Len(e) /\ Len(e) \in Nat /\ Texts(e)[i] = String(e[i])
  BY TextsFields
<1>2. g = [j \in 1 .. Len(e) |-> JoinAt(g, Texts(e), j)]
  BY <1>1, JoinedDefined DEF Joins
<1> HIDE DEF g
<1>3. g[i] = JoinAt(g, Texts(e), i)
  BY <1>2
<1> QED
  BY <1>1, <1>3 DEF JoinAt, Then, g

(* The first m of them are read back whatever follows. *)
LEMMA PrefixesEqual ==
  ASSUME NEW e \in Seq(Text), NEW f \in Seq(Text), Len(e) = Len(f), NEW m \in 1 .. Len(e)
  PROVE  /\ Joined(Texts(e))[m] \in Stream /\ Joined(Texts(f))[m] \in Stream
         /\ \A u, v \in Stream :
              Then(Joined(Texts(e))[m], u) = Then(Joined(Texts(f))[m], v) =>
                u = v /\ \A i \in 1 .. m : e[i] = f[i]
<1> DEFINE g == Joined(Texts(e))
           h == Joined(Texts(f))
           Same(n) == /\ g[n] \in Stream /\ h[n] \in Stream
                      /\ \A u, v \in Stream : Then(g[n], u) = Then(h[n], v) =>
                           u = v /\ \A i \in 1 .. n : e[i] = f[i]
           T == {n \in Nat : n + 1 \in 1 .. Len(e) => Same(n + 1)}
<1>len. Len(e) \in Nat
  BY TextsFields
<1>texts. ASSUME NEW n \in 1 .. Len(e)
          PROVE  /\ e[n] \in Text /\ f[n] \in Text /\ String(e[n]) \in Stream /\ String(f[n]) \in Stream
                 /\ n = 1 => g[n] = String(e[n]) /\ h[n] = String(f[n])
                 /\ n # 1 => g[n] = Then(g[n - 1], String(e[n])) /\ h[n] = Then(h[n - 1], String(f[n]))
  <2>1. e[n] \in Text /\ f[n] \in Text
    BY TextsFields
  <2> QED
    BY <2>1, TextType, TextsJoined
<1> HIDE DEF g, h
<1>1. 0 \in T
  <2> SUFFICES ASSUME 1 \in 1 .. Len(e) PROVE Same(1)
    OBVIOUS
  <2>1. /\ e[1] \in Text /\ f[1] \in Text /\ String(e[1]) \in Stream /\ String(f[1]) \in Stream
        /\ g[1] = String(e[1]) /\ h[1] = String(f[1])
    BY <1>texts
  <2>2. ASSUME NEW u \in Stream, NEW v \in Stream, Then(g[1], u) = Then(h[1], v)
        PROVE  u = v /\ e[1] = f[1]
    BY <2>1, <2>2, TextEqual
  <2>3. \A i \in 1 .. 1 : i = 1
    OBVIOUS
  <2> QED
    BY <2>1, <2>2, <2>3
<1>2. ASSUME NEW n \in Nat, n \in T PROVE n + 1 \in T
  <2> DEFINE k == n + 1
  <2> SUFFICES ASSUME k + 1 \in 1 .. Len(e) PROVE Same(k + 1)
    OBVIOUS
  <2>1. k \in 1 .. Len(e) /\ (k + 1) - 1 = k /\ k + 1 # 1 /\ k \in Nat
    BY <1>len
  <2>2. Same(k)
    BY <1>2, <2>1
  <2> HIDE DEF k
  <2>3. /\ e[k + 1] \in Text /\ f[k + 1] \in Text
        /\ String(e[k + 1]) \in Stream /\ String(f[k + 1]) \in Stream
        /\ g[k + 1] = Then(g[k], String(e[k + 1])) /\ h[k + 1] = Then(h[k], String(f[k + 1]))
    BY <1>texts, <2>1
  <2>4. g[k + 1] \in Stream /\ h[k + 1] \in Stream
    BY <2>2, <2>3, StreamThen
  <2>5. ASSUME NEW u \in Stream, NEW v \in Stream, Then(g[k + 1], u) = Then(h[k + 1], v)
        PROVE  u = v /\ \A i \in 1 .. k + 1 : e[i] = f[i]
    <3> DEFINE x == Then(String(e[k + 1]), u)
               y == Then(String(f[k + 1]), v)
    <3>1. x \in Stream /\ y \in Stream
      BY <2>3, StreamThen
    <3>2. Then(g[k], x) = Then(h[k], y)
      BY <2>2, <2>3, <2>5, StreamAssociative
    <3>3. x = y /\ \A i \in 1 .. k : e[i] = f[i]
      <4> HIDE DEF x, y
      <4> QED
        BY <2>2, <3>1, <3>2
    <3>4. e[k + 1] = f[k + 1] /\ u = v
      BY <2>3, <3>3, TextEqual
    <3>5. \A i \in 1 .. k + 1 : i = k + 1 \/ i \in 1 .. k
      BY <2>1
    <3> QED
      BY <3>3, <3>4, <3>5
  <2> QED
    BY <2>4, <2>5
<1> HIDE DEF T
<1>3. \A n \in Nat : n \in T
  BY <1>1, <1>2, NatClosed
<1>4. PICK n \in Nat : m = n + 1
  <2>1. m - 1 \in Nat /\ m = (m - 1) + 1
    BY <1>len
  <2> QED
    BY <2>1
<1> HIDE DEF Same
<1>5. Same(m)
  BY <1>3, <1>4 DEF T
<1> QED
  BY <1>5 DEF g, h, Same

(* As many extensions that are written alike are alike. *)
LEMMA ExtensionsEqual ==
  ASSUME NEW e \in Seq(Text)
  PROVE  /\ FlattenSeq(Texts(e)) \in Stream
         /\ \A f \in Seq(Text) :
              Len(e) = Len(f) /\ FlattenSeq(Texts(e)) = FlattenSeq(Texts(f)) => e = f
<1>1. Len(e) \in Nat /\ Len(Texts(e)) = Len(e)
  BY TextsFields
<1>2. FlattenSeq(Texts(e)) \in Stream
  <2>1. CASE Len(e) = 0
    <3>1. e = <<>>
      BY <2>1, EmptySeq
    <3>2. Texts(e) = <<>>
      <4>1. DOMAIN Texts(e) = {} /\ Texts(e) = [i \in {} |-> String(e[i])]
        BY <3>1 DEF Texts
      <4> QED
        BY <4>1
    <3>3. FlattenSeq(Texts(e)) = Texts(e)
      BY <1>1, <2>1, FlattenUnfolded
    <3>4. <<>> \in Stream
      BY DEF Stream
    <3> QED
      BY <3>2, <3>3, <3>4
  <2>2. CASE Len(e) # 0
    <3>1. Len(e) \in 1 .. Len(e)
      BY <1>1, <2>2
    <3> QED
      BY <1>1, <2>2, <3>1, FlattenUnfolded, PrefixesEqual
  <2> QED
    BY <2>1, <2>2
<1>3. ASSUME NEW f \in Seq(Text), Len(e) = Len(f), FlattenSeq(Texts(e)) = FlattenSeq(Texts(f))
      PROVE  e = f
  <2>1. Len(Texts(f)) = Len(f)
    BY TextsFields
  <2>2. CASE Len(e) = 0
    BY <1>3, <2>2, EmptySeq
  <2>3. CASE Len(e) # 0
    <3>1. Len(e) \in 1 .. Len(e)
      BY <1>1, <2>3
    <3>2. Joined(Texts(e))[Len(e)] = Joined(Texts(f))[Len(e)]
      BY <1>1, <1>3, <2>1, <2>3, FlattenUnfolded
    <3>3. <<>> \in Stream
      BY DEF Stream
    <3>4. \A i \in 1 .. Len(e) : e[i] = f[i]
      BY <1>3, <3>1, <3>2, <3>3, PrefixesEqual
    <3> QED
      BY <1>3, <3>4, SeqEqual
  <2> QED
    BY <2>2, <2>3
<1> QED
  BY <1>2, <1>3

-----------------------------------------------------------------------------
(* The key. *)

(* The four numbers of a descriptor, and those of its device. *)
Numbers(d) == <<d.phase, d.dtype, d.backend, d.mode>>
DeviceNumbers(d) == <<d.device.backend, d.device.major, d.device.minor, d.device.memory>>

(* What of the stream is left when all before a part has been read. *)
FromCount(d)     == Then(<<Len(d.extensions)>>, FlattenSeq(Texts(d.extensions)))
FromSampling(d)  == Then(String(d.sampling), FromCount(d))
FromShape(d)     == Then(String(d.shape), FromSampling(d))
FromDevice(d)    == Then(DeviceNumbers(d), FromShape(d))
FromNumbers(d)   == Then(Numbers(d), FromDevice(d))
FromTokenizer(d) == Then(String(d.tokenizer), FromNumbers(d))
FromAdapter(d)   == Then(String(d.adapter), FromTokenizer(d))
FromRevision(d)  == Then(String(d.revision), FromAdapter(d))

(* A descriptor is its twelve fields. *)
LEMMA SameFields ==
  ASSUME NEW a \in ModelDescriptor, NEW b \in ModelDescriptor,
         a.model = b.model, a.revision = b.revision, a.adapter = b.adapter,
         a.tokenizer = b.tokenizer, a.phase = b.phase, a.dtype = b.dtype, a.backend = b.backend,
         a.mode = b.mode, a.device = b.device, a.shape = b.shape, a.sampling = b.sampling,
         a.extensions = b.extensions
  PROVE  a = b
BY DEF ModelDescriptor

LEMMA DescriptorFields ==
  ASSUME NEW d \in ModelDescriptor
  PROVE  /\ d.model \in Text /\ d.revision \in Text /\ d.adapter \in Text /\ d.tokenizer \in Text
         /\ d.shape \in Text /\ d.sampling \in Text /\ d.extensions \in Seq(Text)
         /\ d.phase \in Nat /\ d.dtype \in Nat /\ d.backend \in Nat /\ d.mode \in Nat
         /\ d.device \in [backend: Nat, major: Nat, minor: Nat, memory: Nat]
BY DEF ModelDescriptor

LEMMA DescriptorParts ==
  ASSUME NEW d \in ModelDescriptor
  PROVE  /\ String(d.model) \in Stream /\ String(d.revision) \in Stream
         /\ String(d.adapter) \in Stream /\ String(d.tokenizer) \in Stream
         /\ String(d.shape) \in Stream /\ String(d.sampling) \in Stream
         /\ Numbers(d) \in Stream /\ Len(Numbers(d)) = 4
         /\ DeviceNumbers(d) \in Stream /\ Len(DeviceNumbers(d)) = 4
         /\ <<Len(d.extensions)>> \in Stream /\ Len(<<Len(d.extensions)>>) = 1
         /\ FlattenSeq(Texts(d.extensions)) \in Stream
<1>1. Numbers(d) \in Stream /\ Len(Numbers(d)) = 4
  BY DescriptorFields DEF Numbers, Stream
<1>2. DeviceNumbers(d) \in Stream /\ Len(DeviceNumbers(d)) = 4
  BY DescriptorFields DEF DeviceNumbers, Stream
<1>3. FlattenSeq(Texts(d.extensions)) \in Stream /\ Len(d.extensions) \in Nat
  BY DescriptorFields, ExtensionsEqual, TextsFields
<1>4. <<Len(d.extensions)>> \in Stream /\ Len(<<Len(d.extensions)>>) = 1
  BY <1>3 DEF Stream
<1> QED
  BY <1>1, <1>2, <1>3, <1>4, DescriptorFields, TextType

LEMMA RestsAreStreams ==
  ASSUME NEW d \in ModelDescriptor
  PROVE  /\ FromCount(d) \in Stream /\ FromSampling(d) \in Stream /\ FromShape(d) \in Stream
         /\ FromDevice(d) \in Stream /\ FromNumbers(d) \in Stream /\ FromTokenizer(d) \in Stream
         /\ FromAdapter(d) \in Stream /\ FromRevision(d) \in Stream
<1>1. FromCount(d) \in Stream
  BY DescriptorParts, StreamThen DEF FromCount
<1>2. FromSampling(d) \in Stream /\ FromShape(d) \in Stream
  BY <1>1, DescriptorParts, StreamThen DEF FromSampling, FromShape
<1>3. FromDevice(d) \in Stream /\ FromNumbers(d) \in Stream
  BY <1>2, DescriptorParts, StreamThen DEF FromDevice, FromNumbers
<1>4. FromTokenizer(d) \in Stream /\ FromAdapter(d) \in Stream /\ FromRevision(d) \in Stream
  BY <1>3, DescriptorParts, StreamThen DEF FromTokenizer, FromAdapter, FromRevision
<1> QED
  BY <1>1, <1>2, <1>3, <1>4

LEMMA FourThen ==
  ASSUME NEW s \in Stream, NEW a \in Stream, NEW b \in Stream, NEW c \in Stream, NEW d \in Stream,
         NEW t \in Stream
  PROVE  Then(Then(Then(Then(Then(s, a), b), c), d), t) = Then(s, Then(a, Then(b, Then(c, Then(d, t)))))
<1>1. /\ Then(s, a) \in Stream /\ Then(Then(s, a), b) \in Stream /\ Then(Then(Then(s, a), b), c) \in Stream
      /\ Then(d, t) \in Stream /\ Then(c, Then(d, t)) \in Stream /\ Then(b, Then(c, Then(d, t))) \in Stream
  BY StreamThen
<1>2. Then(Then(Then(Then(Then(s, a), b), c), d), t) = Then(Then(Then(Then(s, a), b), c), Then(d, t))
  BY <1>1, StreamAssociative
<1>3. Then(Then(Then(Then(s, a), b), c), Then(d, t)) = Then(Then(Then(s, a), b), Then(c, Then(d, t)))
  BY <1>1, StreamAssociative
<1>4. Then(Then(Then(s, a), b), Then(c, Then(d, t))) = Then(Then(s, a), Then(b, Then(c, Then(d, t))))
  BY <1>1, StreamAssociative
<1>5. Then(Then(s, a), Then(b, Then(c, Then(d, t)))) = Then(s, Then(a, Then(b, Then(c, Then(d, t)))))
  BY <1>1, StreamAssociative
<1> QED
  BY <1>2, <1>3, <1>4, <1>5

(* Build writes the parts in this order. *)
LEMMA BuildParts ==
  ASSUME NEW d \in ModelDescriptor
  PROVE  Build(d) = Then(String(d.model), FromRevision(d))
<1> DEFINE l4 == Then(Then(Then(String(d.model), String(d.revision)), String(d.adapter)), String(d.tokenizer))
           l8 == Then(Then(Then(Then(l4, Numbers(d)), DeviceNumbers(d)), String(d.shape)), String(d.sampling))
<1>parts. /\ String(d.model) \in Stream /\ String(d.revision) \in Stream
          /\ String(d.adapter) \in Stream /\ String(d.tokenizer) \in Stream
          /\ String(d.shape) \in Stream /\ String(d.sampling) \in Stream
          /\ Numbers(d) \in Stream /\ DeviceNumbers(d) \in Stream
  BY DescriptorParts
<1>rests. /\ FromCount(d) \in Stream /\ FromNumbers(d) \in Stream /\ FromTokenizer(d) \in Stream
          /\ FromAdapter(d) \in Stream
  BY RestsAreStreams
<1>1. Build(d) = Then(Then(l8, <<Len(d.extensions)>>), FlattenSeq(Texts(d.extensions)))
  BY DEF Build, Then, Numbers, DeviceNumbers, Texts
<1>2. l4 \in Stream
  BY DescriptorParts, StreamThen
<1> HIDE DEF l4
<1>3. l8 \in Stream
  BY <1>2, DescriptorParts, StreamThen
<1>4. Then(l8, FromCount(d)) = Then(l4, FromNumbers(d))
  <2>1. l4 \in Stream /\ FromNumbers(d) = Then(Numbers(d), Then(DeviceNumbers(d),
          Then(String(d.shape), Then(String(d.sampling), FromCount(d)))))
    BY <1>2 DEF FromNumbers, FromDevice, FromShape, FromSampling
  <2>2. l4 \in Stream /\ Numbers(d) \in Stream /\ DeviceNumbers(d) \in Stream
    BY <1>2, <1>parts
  <2>3. String(d.shape) \in Stream /\ String(d.sampling) \in Stream /\ FromCount(d) \in Stream
    BY <1>parts, <1>rests
  <2>4. Then(l8, FromCount(d)) = Then(l4, Then(Numbers(d), Then(DeviceNumbers(d),
          Then(String(d.shape), Then(String(d.sampling), FromCount(d))))))
    BY ONLY <2>2, <2>3, FourThen
  <2> QED
    BY <2>1, <2>4
<1> HIDE DEF l8
<1>5. Build(d) = Then(l8, FromCount(d))
  BY <1>1, <1>3, DescriptorParts, StreamAssociative DEF FromCount
<1>6. Then(l4, FromNumbers(d)) = Then(String(d.model), FromRevision(d))
  <2> DEFINE l2 == Then(String(d.model), String(d.revision))
             l3 == Then(l2, String(d.adapter))
  <2>1. l2 \in Stream /\ l3 \in Stream
    BY DescriptorParts, StreamThen
  <2>2. l4 = Then(l3, String(d.tokenizer))
    BY DEF l4
  <2> HIDE DEF l3
  <2>3. Then(l4, FromNumbers(d)) = Then(l3, FromTokenizer(d))
    BY <1>parts, <1>rests, <2>1, <2>2, StreamAssociative DEF FromTokenizer
  <2>4. Then(l3, FromTokenizer(d)) = Then(l2, FromAdapter(d))
    <3> HIDE DEF l2
    <3> QED
      BY <1>parts, <1>rests, <2>1, StreamAssociative DEF FromAdapter, l3
  <2>5. Then(l2, FromAdapter(d)) = Then(String(d.model), FromRevision(d))
    BY <1>parts, <1>rests, StreamAssociative DEF FromRevision
  <2> QED
    BY <2>3, <2>4, <2>5
<1> QED
  BY <1>4, <1>5, <1>6

(* Different descriptors have different streams, however the texts of       *)
(* adjacent fields line up (CompatibilityKey::build).  That holds of two    *)
(* orders of the same extensions too, although a comment promises one key   *)
(* for both: build() does not sort them.                                    *)
THEOREM KeyTellsApart ==
  ASSUME NEW a \in ModelDescriptor, NEW b \in ModelDescriptor
  PROVE  Build(a) = Build(b) <=> a = b
<1> SUFFICES ASSUME Build(a) = Build(b) PROVE a = b
  OBVIOUS
<1>1. a.model = b.model /\ FromRevision(a) = FromRevision(b)
  BY BuildParts, DescriptorFields, RestsAreStreams, TextEqual
<1>2. a.revision = b.revision /\ FromAdapter(a) = FromAdapter(b)
  BY <1>1, DescriptorFields, RestsAreStreams, TextEqual DEF FromRevision
<1>3. a.adapter = b.adapter /\ FromTokenizer(a) = FromTokenizer(b)
  BY <1>2, DescriptorFields, RestsAreStreams, TextEqual DEF FromAdapter
<1>4. a.tokenizer = b.tokenizer /\ FromNumbers(a) = FromNumbers(b)
  BY <1>3, DescriptorFields, RestsAreStreams, TextEqual DEF FromTokenizer
<1>5. Numbers(a) = Numbers(b) /\ FromDevice(a) = FromDevice(b)
  <2>1. /\ Numbers(a) \in Stream /\ Numbers(b) \in Stream /\ Len(Numbers(a)) = Len(Numbers(b))
        /\ FromDevice(a) \in Stream /\ FromDevice(b) \in Stream
    BY DescriptorParts, RestsAreStreams
  <2> QED
    BY <1>4, <2>1, StreamParts DEF FromNumbers
<1>6. DeviceNumbers(a) = DeviceNumbers(b) /\ FromShape(a) = FromShape(b)
  <2>1. /\ DeviceNumbers(a) \in Stream /\ DeviceNumbers(b) \in Stream
        /\ Len(DeviceNumbers(a)) = Len(DeviceNumbers(b))
        /\ FromShape(a) \in Stream /\ FromShape(b) \in Stream
    BY DescriptorParts, RestsAreStreams
  <2> QED
    BY <1>5, <2>1, StreamParts DEF FromDevice
<1>7. a.shape = b.shape /\ FromSampling(a) = FromSampling(b)
  BY <1>6, DescriptorFields, RestsAreStreams, TextEqual DEF FromShape
<1>8. a.sampling = b.sampling /\ FromCount(a) = FromCount(b)
  BY <1>7, DescriptorFields, RestsAreStreams, TextEqual DEF FromSampling
<1>9. /\ <<Len(a.extensions)>> = <<Len(b.extensions)>>
      /\ FlattenSeq(Texts(a.extensions)) = FlattenSeq(Texts(b.extensions))
  <2> DEFINE p(d) == <<Len(d.extensions)>>
             x(d) == FlattenSeq(Texts(d.extensions))
  <2>1. /\ p(a) \in Stream /\ p(b) \in Stream /\ Len(p(a)) = Len(p(b))
        /\ x(a) \in Stream /\ x(b) \in Stream /\ Then(p(a), x(a)) = Then(p(b), x(b))
    BY <1>8, DescriptorParts DEF FromCount
  <2> HIDE DEF p, x
  <2>2. p(a) = p(b) /\ x(a) = x(b)
    BY <2>1, StreamParts
  <2> QED
    BY <2>2 DEF p, x
<1>10. a.extensions = b.extensions
  <2>1. Len(a.extensions) = Len(b.extensions)
    BY <1>9
  <2> QED
    BY <1>9, <2>1, DescriptorFields, ExtensionsEqual
<1>11. a.phase = b.phase /\ a.dtype = b.dtype /\ a.backend = b.backend /\ a.mode = b.mode
  BY <1>5 DEF Numbers
<1>12. a.device = b.device
  <2>1. /\ a.device.backend = b.device.backend /\ a.device.major = b.device.major
        /\ a.device.minor = b.device.minor /\ a.device.memory = b.device.memory
    BY <1>6 DEF DeviceNumbers
  <2> DEFINE x == a.device
             y == b.device
  <2>2. /\ x \in [backend: Nat, major: Nat, minor: Nat, memory: Nat]
        /\ y \in [backend: Nat, major: Nat, minor: Nat, memory: Nat]
    BY DescriptorFields
  <2>3. x.backend = y.backend /\ x.major = y.major /\ x.minor = y.minor /\ x.memory = y.memory
    BY <2>1
  <2> HIDE DEF x, y
  <2>4. x = y
    BY <2>2, <2>3
  <2> QED
    BY <2>4 DEF x, y
<1> QED
  BY <1>1, <1>2, <1>3, <1>4, <1>7, <1>8, <1>10, <1>11, <1>12, SameFields

-----------------------------------------------------------------------------
(* The index. *)

(* A bucket lists the queued requests of its key, each once, every queued   *)
(* request has one, and none is empty.                                      *)
Listed(k) == {r \in queued : Build(descriptor[r]) = k}

Lists(s, rs) == s \in Seq(Request) /\ IsInjective(s) /\ Range(s) = rs

IndexInv ==
  /\ DOMAIN descriptor \subseteq Request
  /\ \A r \in DOMAIN descriptor : descriptor[r] \in Descriptor
  /\ queued \subseteq DOMAIN descriptor
  /\ \A k \in DOMAIN buckets : buckets[k] # <<>> /\ Lists(buckets[k], Listed(k))
  /\ \A r \in queued : Build(descriptor[r]) \in DOMAIN buckets

(* A bucket that is not there lists the requests of its key as well: none.  *)
LEMMA BucketLists ==
  ASSUME IndexInv, NEW k
  PROVE  Lists(BucketOf(k), Listed(k))
<1>1. CASE k \in DOMAIN buckets
  BY <1>1 DEF IndexInv, BucketOf
<1>2. CASE k \notin DOMAIN buckets
  <2>1. Listed(k) = {} /\ BucketOf(k) = <<>>
    BY <1>2 DEF IndexInv, Listed, BucketOf
  <2>2. <<>> \in Seq(Request) /\ IsInjective(<<>>) /\ Range(<<>>) = {}
    BY DEF IsInjective, Range
  <2> QED
    BY <2>1, <2>2 DEF Lists
<1> QED
  BY <1>1, <1>2

(* One more, and one less, in a list without repetitions. *)
LEMMA OneMore ==
  ASSUME NEW S, NEW s \in Seq(S), IsInjective(s), NEW r \in S, r \notin Range(s)
  PROVE  /\ Append(s, r) \in Seq(S) /\ Append(s, r) # <<>> /\ IsInjective(Append(s, r))
         /\ Range(Append(s, r)) = Range(s) \cup {r}
<1> DEFINE t == Append(s, r)
<1>1. /\ Len(s) \in Nat /\ DOMAIN s = 1 .. Len(s)
      /\ t \in Seq(S) /\ Len(t) = Len(s) + 1 /\ DOMAIN t = 1 .. Len(s) + 1
      /\ t[Len(s) + 1] = r /\ \A i \in 1 .. Len(s) : t[i] = s[i]
  BY AppendProperties, LenProperties
<1> HIDE DEF t
<1>2. \A i \in 1 .. Len(s) + 1 : i = Len(s) + 1 \/ i \in 1 .. Len(s)
  BY <1>1
<1>3. \A i \in 1 .. Len(s) : i \in 1 .. Len(s) + 1 /\ s[i] \in Range(s) /\ s[i] # r
  BY <1>1 DEF Range
<1>4. IsInjective(t)
  <2> SUFFICES ASSUME NEW i \in 1 .. Len(s) + 1, NEW j \in 1 .. Len(s) + 1, t[i] = t[j] PROVE i = j
    BY <1>1 DEF IsInjective
  <2>1. CASE i \in 1 .. Len(s) /\ j \in 1 .. Len(s)
    <3>1. s[i] = s[j] /\ i \in DOMAIN s /\ j \in DOMAIN s
      BY <1>1, <2>1
    <3> QED
      BY <3>1 DEF IsInjective
  <2>2. CASE i = Len(s) + 1 \/ j = Len(s) + 1
    BY <1>1, <1>2, <1>3, <2>2
  <2> QED
    BY <1>2, <2>1, <2>2
<1>5. Range(t) = Range(s) \cup {r}
  <2>1. Len(s) + 1 \in 1 .. Len(s) + 1
    BY <1>1
  <2> QED
    BY <1>1, <1>2, <1>3, <2>1 DEF Range
<1>6. t # <<>>
  <2>1. Len(t) # 0
    BY <1>1
  <2> QED
    BY <2>1
<1> QED
  BY <1>1, <1>4, <1>5, <1>6 DEF t

LEMMA OneLess ==
  ASSUME NEW S, NEW s \in Seq(S), IsInjective(s), NEW r \in Range(s)
  PROVE  /\ RemoveFirst(s, r) \in Seq(S) /\ IsInjective(RemoveFirst(s, r))
         /\ Range(RemoveFirst(s, r)) = Range(s) \ {r}
<1>1. Len(s) \in Nat /\ DOMAIN s = 1 .. Len(s)
  BY LenProperties
<1>2. PICK p \in 1 .. Len(s) : s[p] = r
  BY <1>1 DEF Range
<1>3. \A i \in 1 .. Len(s) : s[i] = r <=> i = p
  BY <1>1, <1>2 DEF IsInjective
<1>4. SelectInSeq(s, LAMBDA v : v = r) = p
  <2>1. {i \in 1 .. Len(s) : s[i] = r} = {p}
    BY <1>2, <1>3
  <2>2. Min({p}) = p
    BY DEF Min
  <2> QED
    BY <2>1, <2>2 DEF SelectInSeq
<1> DEFINE u == SubSeq(s, 1, p - 1)
           v == SubSeq(s, p + 1, Len(s))
           t == u \o v
<1>5. RemoveFirst(s, r) = t
  BY <1>2, <1>4 DEF RemoveFirst, RemoveAt
<1>6. u \in Seq(S) /\ Len(u) = p - 1 /\ \A i \in 1 .. p - 1 : u[i] = s[i]
  <2>1. \A i \in 1 .. p - 1 : s[i] \in S
    BY <1>1, ElementOfSeq
  <2> QED
    BY <1>1, <2>1
<1>7. v \in Seq(S) /\ Len(v) = Len(s) - p /\ \A i \in 1 .. Len(s) - p : v[i] = s[p + i]
  BY <1>1
<1> HIDE DEF u, v
<1>8. /\ t \in Seq(S) /\ Len(t) = Len(s) - 1 /\ DOMAIN t = 1 .. Len(s) - 1
      /\ \A i \in 1 .. Len(s) - 1 : t[i] = IF i < p THEN s[i] ELSE s[i + 1]
  <2>1. t \in Seq(S) /\ Len(t) = Len(s) - 1 /\ DOMAIN t = 1 .. Len(s) - 1
    <3>1. t \in Seq(S) /\ Len(t) = Len(u) + Len(v)
      BY <1>6, <1>7, ConcatProperties
    <3>2. Len(t) = Len(s) - 1
      BY <1>1, <1>6, <1>7, <3>1
    <3> HIDE DEF t
    <3> QED
      BY <3>1, <3>2, LenProperties
  <2>2. ASSUME NEW i \in 1 .. Len(s) - 1, i < p PROVE t[i] = s[i]
    <3>1. i \in 1 .. p - 1 /\ i \in 1 .. Len(u) + Len(v) /\ i <= Len(u)
      BY <1>1, <1>6, <1>7, <2>2
    <3>2. t[i] = u[i]
      BY <1>6, <1>7, <3>1, ConcatProperties
    <3> QED
      BY <1>6, <3>1, <3>2
  <2>3. ASSUME NEW i \in 1 .. Len(s) - 1, ~(i < p) PROVE t[i] = s[i + 1]
    <3>1. /\ i - Len(u) \in 1 .. Len(s) - p /\ p + (i - Len(u)) = i + 1
          /\ i \in 1 .. Len(u) + Len(v) /\ ~(i <= Len(u))
      BY <1>1, <1>6, <1>7, <2>3
    <3>2. t[i] = v[i - Len(u)]
      BY <1>6, <1>7, <3>1, ConcatProperties
    <3> QED
      BY <1>7, <3>1, <3>2
  <2> QED
    BY <2>1, <2>2, <2>3
<1> HIDE DEF t
<1>9. IsInjective(t)
  <2> SUFFICES ASSUME NEW i \in 1 .. Len(s) - 1, NEW j \in 1 .. Len(s) - 1, t[i] = t[j] PROVE i = j
    BY <1>8 DEF IsInjective
  <2> DEFINE from(n) == IF n < p THEN n ELSE n + 1
  <2>1. from(i) \in DOMAIN s /\ from(j) \in DOMAIN s /\ s[from(i)] = s[from(j)]
    BY <1>1, <1>8
  <2>2. from(i) = from(j)
    BY <2>1 DEF IsInjective
  <2> QED
    BY <1>1, <2>2
<1>10. Range(t) = Range(s) \ {r}
  <2>1. ASSUME NEW x \in Range(t) PROVE x \in Range(s) /\ x # r
    <3>1. PICK i \in 1 .. Len(s) - 1 : x = t[i]
      BY <1>8, <2>1 DEF Range
    <3>2. PICK j \in 1 .. Len(s) : x = s[j] /\ j # p
      BY <1>1, <1>8, <3>1
    <3> QED
      BY <1>1, <1>3, <3>2 DEF Range
  <2>2. ASSUME NEW x \in Range(s), x # r PROVE x \in Range(t)
    <3>1. PICK j \in 1 .. Len(s) : x = s[j]
      BY <1>1 DEF Range
    <3>2. j # p
      BY <1>2, <2>2, <3>1
    <3>3. \E i \in 1 .. Len(s) - 1 : t[i] = s[j]
      <4>1. CASE j < p
        <5>1. j \in 1 .. Len(s) - 1
          BY <1>1, <4>1
        <5> QED
          BY <1>8, <4>1, <5>1
      <4>2. CASE ~(j < p)
        <5>1. j - 1 \in 1 .. Len(s) - 1 /\ ~(j - 1 < p) /\ (j - 1) + 1 = j
          BY <1>1, <3>2, <4>2
        <5> QED
          BY <1>8, <5>1
      <4> QED
        BY <4>1, <4>2
    <3> QED
      BY <1>8, <3>1, <3>3 DEF Range
  <2> QED
    BY <2>1, <2>2
<1> QED
  BY <1>5, <1>8, <1>9, <1>10

(* A request that was not queued enters the bucket of its key. *)
LEMMA AddedListed ==
  ASSUME IndexInv, NEW r \in Request \ queued, NEW k,
         buckets' = Added(k, r), queued' = queued \cup {r},
         r \in DOMAIN descriptor', DOMAIN descriptor' = DOMAIN descriptor \cup {r},
         descriptor'[r] \in Descriptor, Build(descriptor'[r]) = k,
         \A s \in DOMAIN descriptor \ {r} : descriptor'[s] = descriptor[s]
  PROVE  IndexInv'
<1>1. /\ DOMAIN buckets' = DOMAIN buckets \cup {k}
      /\ buckets'[k] = Append(BucketOf(k), r)
      /\ \A j \in DOMAIN buckets \ {k} : buckets'[j] = buckets[j]
  BY DEF Added
<1>2. \A s \in queued : s # r /\ s \in DOMAIN descriptor /\ descriptor'[s] = descriptor[s]
  BY DEF IndexInv
<1>3. Listed(k)' = Listed(k) \cup {r} /\ \A j : j # k => Listed(j)' = Listed(j)
  BY <1>2 DEF Listed
<1>4. ASSUME NEW j \in DOMAIN buckets' PROVE buckets'[j] # <<>> /\ Lists(buckets'[j], Listed(j)')
  <2>1. CASE j = k
    <3>1. Lists(BucketOf(k), Listed(k)) /\ r \notin Listed(k)
      BY BucketLists DEF Listed
    <3>2. /\ Append(BucketOf(k), r) \in Seq(Request) /\ Append(BucketOf(k), r) # <<>>
          /\ IsInjective(Append(BucketOf(k), r))
          /\ Range(Append(BucketOf(k), r)) = Range(BucketOf(k)) \cup {r}
      BY <3>1, OneMore DEF Lists
    <3> QED
      BY <1>1, <1>3, <2>1, <3>1, <3>2 DEF Lists
  <2>2. CASE j # k
    BY <1>1, <1>3, <2>2 DEF IndexInv
  <2> QED
    BY <2>1, <2>2
<1>5. \A s \in queued' : s \in DOMAIN descriptor' /\ Build(descriptor'[s]) \in DOMAIN buckets'
  BY <1>1, <1>2 DEF IndexInv
<1>6. DOMAIN descriptor' \subseteq Request /\ \A s \in DOMAIN descriptor' : descriptor'[s] \in Descriptor
  BY DEF IndexInv
<1> QED
  BY <1>4, <1>5, <1>6 DEF IndexInv

(* A queued request leaves the bucket of its key. *)
LEMMA RemovedListed ==
  ASSUME IndexInv, NEW r \in queued, buckets' = Removed(Build(descriptor[r]), r),
         queued' = queued \ {r}, descriptor' = descriptor
  PROVE  IndexInv'
<1> PICK k : k = Build(descriptor[r])
  OBVIOUS
<1> DEFINE rest == RemoveFirst(BucketOf(k), r)
<1>1. k \in DOMAIN buckets /\ Lists(BucketOf(k), Listed(k)) /\ r \in Listed(k)
  BY BucketLists DEF IndexInv, Listed
<1>2. rest \in Seq(Request) /\ IsInjective(rest) /\ Range(rest) = Listed(k) \ {r}
  BY <1>1, OneLess DEF Lists
<1>3. buckets' = [j \in (IF rest = <<>> THEN DOMAIN buckets \ {k} ELSE DOMAIN buckets) |->
                    IF j = k THEN rest ELSE buckets[j]]
  BY DEF Removed
<1> HIDE DEF rest
<1>4. /\ DOMAIN buckets' \subseteq DOMAIN buckets
      /\ \A j \in DOMAIN buckets : j # k => j \in DOMAIN buckets' /\ buckets'[j] = buckets[j]
      /\ k \in DOMAIN buckets' <=> rest # <<>>
      /\ k \in DOMAIN buckets' => buckets'[k] = rest
  BY <1>1, <1>3
<1>5. Listed(k)' = Listed(k) \ {r} /\ \A j : j # k => Listed(j)' = Listed(j)
  BY DEF Listed
<1>6. ASSUME NEW j \in DOMAIN buckets' PROVE buckets'[j] # <<>> /\ Lists(buckets'[j], Listed(j)')
  <2>1. CASE j = k
    BY <1>2, <1>4, <1>5, <2>1 DEF Lists
  <2>2. CASE j # k
    <3>1. j \in DOMAIN buckets /\ buckets'[j] = buckets[j] /\ Listed(j)' = Listed(j)
      BY <1>4, <1>5, <2>2
    <3>2. buckets[j] # <<>> /\ Lists(buckets[j], Listed(j))
      BY <3>1 DEF IndexInv
    <3> QED
      BY <3>1, <3>2
  <2> QED
    BY <2>1, <2>2
<1>7. ASSUME NEW s \in queued' PROVE Build(descriptor[s]) \in DOMAIN buckets'
  <2>1. s \in queued /\ s # r
    BY <1>7
  <2>2. CASE Build(descriptor[s]) = k
    <3>1. s \in Range(rest)
      BY <1>2, <2>1, <2>2 DEF Listed
    <3>2. Range(<<>>) = {}
      BY DEF Range
    <3> QED
      BY <1>4, <2>2, <3>1, <3>2
  <2>3. CASE Build(descriptor[s]) # k
    BY <1>4, <2>1, <2>3 DEF IndexInv
  <2> QED
    BY <2>2, <2>3
<1> QED
  BY <1>6, <1>7 DEF IndexInv

(* The invariant holds of an empty index and every call keeps it. *)
LEMMA IndexKept == Spec => []IndexInv
<1>1. Init => IndexInv
  BY DEF Init, IndexInv
<1>2. ASSUME IndexInv, [Next]_vars PROVE IndexInv'
  <2>1. ASSUME NEW r \in Request, NEW d \in Descriptor, Submit(r, d) PROVE IndexInv'
    <3>1. r \in Request \ queued
      BY <1>2, <2>1 DEF Submit, IndexInv
    <3>2. /\ DOMAIN descriptor' = DOMAIN descriptor \cup {r} /\ descriptor'[r] = d
          /\ \A s \in DOMAIN descriptor \ {r} : descriptor'[s] = descriptor[s]
      BY <2>1 DEF Submit
    <3> QED
      BY <1>2, <2>1, <3>1, <3>2, AddedListed DEF Submit
  <2>2. ASSUME NEW r \in Request, Leave(r) PROVE IndexInv'
    BY <1>2, <2>2, RemovedListed DEF Leave
  <2>3. ASSUME NEW r \in Request, Requeue(r) PROVE IndexInv'
    <3>1. r \in Request \ queued /\ r \in DOMAIN descriptor /\ descriptor[r] \in Descriptor
      BY <1>2, <2>3 DEF Requeue, IndexInv
    <3>2. DOMAIN descriptor' = DOMAIN descriptor \cup {r} /\ descriptor' = descriptor
      BY <2>3, <3>1 DEF Requeue
    <3> QED
      BY <1>2, <2>3, <3>1, <3>2, AddedListed DEF Requeue
  <2>4. CASE UNCHANGED vars
    <3>1. descriptor' = descriptor /\ queued' = queued /\ buckets' = buckets
      BY <2>4 DEF vars
    <3>2. \A k : Listed(k)' = Listed(k)
      BY <3>1 DEF Listed
    <3> QED
      BY <1>2, <3>1, <3>2 DEF IndexInv, Lists
  <2> QED
    BY <1>2, <2>1, <2>2, <2>3, <2>4 DEF Next
<1> QED
  BY <1>1, <1>2, PTL DEF Spec

(* Two queued requests share a bucket when they have the same key. *)
LEMMA SharedKey ==
  ASSUME IndexInv, NEW r \in queued, NEW s \in queued
  PROVE  /\ Share(r, s) <=> Build(descriptor[r]) = Build(descriptor[s])
         /\ Share(r, s) <=> descriptor[r] = descriptor[s]
<1>1. ASSUME Share(r, s) PROVE Build(descriptor[r]) = Build(descriptor[s])
  <2>1. PICK k \in DOMAIN buckets : {r, s} \subseteq Range(buckets[k])
    BY <1>1 DEF Share
  <2> QED
    BY <2>1 DEF IndexInv, Lists, Listed
<1>2. ASSUME Build(descriptor[r]) = Build(descriptor[s]) PROVE Share(r, s)
  <2> DEFINE k == Build(descriptor[r])
  <2>1. k \in DOMAIN buckets /\ {r, s} \subseteq Listed(k)
    BY <1>2 DEF IndexInv, Listed
  <2> QED
    BY <2>1 DEF Share, IndexInv, Lists
<1>3. descriptor[r] \in ModelDescriptor /\ descriptor[s] \in ModelDescriptor
  BY CompatibilityAssumption DEF IndexInv, CompatibilityAssumption
<1> QED
  BY <1>1, <1>2, <1>3, KeyTellsApart

(* The index is exact: it lists the queued requests, each once, without     *)
(* empty buckets; two of them share a bucket if their descriptors are equal *)
(* and only if they agree in every dimension, for every set of requests and *)
(* descriptors, with texts and extensions of any length                     *)
(* (CompatibilityIndex, and the key of CompatibilityKey::build).            *)
THEOREM IndexIsExact == Spec => []IndexExact
<1>1. ASSUME IndexInv PROVE IndexExact
  <2>1. \A k \in DOMAIN buckets : buckets[k] # <<>> /\ IsInjective(buckets[k])
    BY <1>1 DEF IndexInv, Lists
  <2>2. UNION {Range(buckets[k]) : k \in DOMAIN buckets} = queued
    <3>1. ASSUME NEW k \in DOMAIN buckets PROVE Range(buckets[k]) = Listed(k) /\ Listed(k) \subseteq queued
      BY <1>1 DEF IndexInv, Lists, Listed
    <3>2. ASSUME NEW r \in queued PROVE \E k \in DOMAIN buckets : r \in Listed(k)
      BY <1>1 DEF IndexInv, Listed
    <3> QED
      BY <3>1, <3>2
  <2>3. ASSUME NEW r \in queued, NEW s \in queued
        PROVE  /\ descriptor[r] = descriptor[s] => Share(r, s)
               /\ Share(r, s) => SameDimensions(descriptor[r], descriptor[s])
    <3>1. Share(r, s) <=> descriptor[r] = descriptor[s]
      BY <1>1, SharedKey
    <3>2. descriptor[r] = descriptor[s] => SameDimensions(descriptor[r], descriptor[s])
      BY DEF SameDimensions
    <3> QED
      BY <3>1, <3>2
  <2> QED
    BY <2>1, <2>2, <2>3 DEF IndexExact
<1> QED
  BY <1>1, IndexKept, PTL

-----------------------------------------------------------------------------
(* The decision. *)

(* It is "compatible" when none of the fields in the list differs. *)
LEMMA NoDifference ==
  ASSUME NEW a, NEW b, NEW fields, DOMAIN fields \subseteq Nat,
         \A i \in DOMAIN fields : fields[i] # "compatible"
  PROVE  FirstDifference(a, b, fields) = "compatible" <=>
           \A i \in DOMAIN fields : a[fields[i]] = b[fields[i]]
<1> DEFINE differ == {i \in DOMAIN fields : a[fields[i]] # b[fields[i]]}
<1>1. ASSUME differ # {} PROVE Min(differ) \in DOMAIN fields
  <2>1. differ \subseteq Nat /\ differ \subseteq DOMAIN fields
    OBVIOUS
  <2> HIDE DEF differ
  <2>2. PICK m \in differ : \A k \in differ : m <= k
    BY <1>1, <2>1, LeastNumber
  <2> QED
    BY <2>1, <2>2 DEF Min
<1>2. FirstDifference(a, b, fields) = IF differ = {} THEN "compatible" ELSE fields[Min(differ)]
  BY DEF FirstDifference
<1>3. differ = {} <=> \A i \in DOMAIN fields : a[fields[i]] = b[fields[i]]
  OBVIOUS
<1> HIDE DEF differ
<1> QED
  BY <1>1, <1>2, <1>3

(* The list leaves one field out, the tokenizer. *)
LEMMA Decision ==
  ASSUME NEW a \in ModelDescriptor, NEW b \in ModelDescriptor
  PROVE  /\ a = b => EvaluateCompatibility(a, b) = "compatible"
         /\ EvaluateCompatibility(a, b) = "compatible" /\ a.tokenizer = b.tokenizer => a = b
<1>1. DOMAIN Order = 1 .. 11 /\ \A i \in 1 .. 11 : Order[i] # "compatible"
  BY DEF Order
<1>2. EvaluateCompatibility(a, b) = "compatible" <=> \A i \in 1 .. 11 : a[Order[i]] = b[Order[i]]
  <2>1. DOMAIN Order \subseteq Nat /\ \A i \in DOMAIN Order : Order[i] # "compatible"
    BY <1>1
  <2>2. FirstDifference(a, b, Order) = "compatible" <=>
          \A i \in DOMAIN Order : a[Order[i]] = b[Order[i]]
    BY <2>1, NoDifference
  <2> QED
    BY <1>1, <2>2 DEF EvaluateCompatibility
<1>3. ASSUME \A i \in 1 .. 11 : a[Order[i]] = b[Order[i]], a.tokenizer = b.tokenizer PROVE a = b
  <2>1. /\ a[Order[1]] = b[Order[1]] /\ a[Order[2]] = b[Order[2]] /\ a[Order[3]] = b[Order[3]]
        /\ a[Order[4]] = b[Order[4]] /\ a[Order[5]] = b[Order[5]] /\ a[Order[6]] = b[Order[6]]
        /\ a[Order[7]] = b[Order[7]] /\ a[Order[8]] = b[Order[8]] /\ a[Order[9]] = b[Order[9]]
        /\ a[Order[10]] = b[Order[10]] /\ a[Order[11]] = b[Order[11]]
    BY <1>3
  <2>2. /\ a.model = b.model /\ a.revision = b.revision /\ a.adapter = b.adapter
        /\ a.phase = b.phase /\ a.dtype = b.dtype /\ a.backend = b.backend /\ a.mode = b.mode
        /\ a.device = b.device /\ a.shape = b.shape /\ a.sampling = b.sampling
        /\ a.extensions = b.extensions
    BY <2>1 DEF Order
  <2> QED
    BY <1>3, <2>2, SameFields
<1> QED
  BY <1>2, <1>3

(* What explain() says of a pair of waiting requests agrees with what       *)
(* formation does with it, for every two descriptors                        *)
(* (evaluate_compatibility against CompatibilityKey::build).                *)
THEOREM DecisionIsKept == Spec => []DecisionAgrees
<1>1. ASSUME IndexInv PROVE DecisionAgrees
  <2> SUFFICES ASSUME NEW r \in queued, NEW s \in queued
               PROVE  LET compatible == EvaluateCompatibility(descriptor[r], descriptor[s]) = "compatible"
                      IN  /\ Share(r, s) => compatible
                          /\ compatible /\ descriptor[r].tokenizer = descriptor[s].tokenizer => Share(r, s)
    BY DEF DecisionAgrees
  <2>1. descriptor[r] \in ModelDescriptor /\ descriptor[s] \in ModelDescriptor
    BY <1>1, CompatibilityAssumption DEF IndexInv, CompatibilityAssumption
  <2>2. Share(r, s) <=> descriptor[r] = descriptor[s]
    BY <1>1, SharedKey
  <2> QED
    BY <2>1, <2>2, Decision
<1> QED
  BY <1>1, IndexKept, PTL
=============================================================================
