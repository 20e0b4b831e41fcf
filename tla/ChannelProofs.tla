---------------------------- MODULE ChannelProofs ----------------------------
(***************************************************************************)
(* Frames come out of the channel as they went in.  The bytes of all the   *)
(* frames sent so far, one after the other, are one long row; what the     *)
(* reader has consumed, what is in the stream and what a thread has still  *)
(* to send are consecutive parts of that row, as long as no frame is begun *)
(* inside another.                                                         *)
(***************************************************************************)
EXTENDS Channel, SequenceTheorems, TLAPS

-----------------------------------------------------------------------------
(* The bytes of a frame. *)

LEMMA LengthRead ==
  ASSUME NEW n \in Nat, n <= MaxInt
  PROVE  /\ LengthBytes(n) \in Seq(Byte) /\ Len(LengthBytes(n)) = 4
         /\ LengthIn(LengthBytes(n)) = n
<1> USE DEF Byte
<1> DEFINE c == n \div 256
           b == c \div 256
           a == b \div 256
<1>div. ASSUME NEW k \in Nat
        PROVE  k = 256 * (k \div 256) + (k % 256) /\ k % 256 \in 0 .. 255 /\ k \div 256 \in Nat
  OBVIOUS
<1>1. n = 256 * c + (n % 256) /\ n % 256 \in 0 .. 255 /\ c \in Nat
  BY <1>div
<1>2. c = 256 * b + (c % 256) /\ c % 256 \in 0 .. 255 /\ b \in Nat
  BY <1>1, <1>div
<1>3. b = 256 * a + (b % 256) /\ b % 256 \in 0 .. 255 /\ a \in Nat
  BY <1>2, <1>div
<1> DEFINE x == b % 256
           y == c % 256
           z == n % 256
<1>4. LengthBytes(n) = <<a % 256, x, y, z>>
  BY DEF LengthBytes
<1> HIDE DEF a, b, c, x, y, z
<1>5. a <= 127
  BY <1>1, <1>2, <1>3, SMT DEF MaxInt
<1>6. a % 256 = a
  BY <1>3, <1>5
<1>7. LengthBytes(n) = <<a, x, y, z>> /\ a \in 0 .. 255
  BY <1>3, <1>4, <1>5, <1>6
<1>8. n = 256 * (256 * (256 * a + x) + y) + z
  BY <1>1, <1>2, <1>3 DEF x, y, z
<1>9. x \in 0 .. 255 /\ y \in 0 .. 255 /\ z \in 0 .. 255
  BY <1>1, <1>2, <1>3 DEF x, y, z
<1> QED
  BY <1>5, <1>7, <1>8, <1>9 DEF LengthIn, Byte

LEMMA Joining ==
  ASSUME NEW s \in Seq(Byte), NEW t \in Seq(Byte)
  PROVE  /\ s \o t \in Seq(Byte) /\ Len(s \o t) = Len(s) + Len(t)
         /\ \A j \in 1 .. Len(s) : (s \o t)[j] = s[j]
         /\ \A j \in 1 .. Len(t) : (s \o t)[Len(s) + j] = t[j]
<1> DEFINE u == s \o t
<1>1. /\ u \in Seq(Byte) /\ Len(u) = Len(s) + Len(t)
      /\ \A i \in 1 .. Len(s) + Len(t) : u[i] = IF i <= Len(s) THEN s[i] ELSE t[i - Len(s)]
  BY ConcatProperties
<1> HIDE DEF u
<1>2. Len(s) \in Nat /\ Len(t) \in Nat
  OBVIOUS
<1>3. ASSUME NEW j \in 1 .. Len(s) PROVE u[j] = s[j]
  BY <1>1, <1>2
<1>4. ASSUME NEW j \in 1 .. Len(t) PROVE u[Len(s) + j] = t[j]
  BY <1>1, <1>2
<1> QED
  BY <1>1, <1>3, <1>4 DEF u

LEMMA SameBytes ==
  ASSUME NEW s \in Seq(Byte), NEW t \in Seq(Byte), Len(s) = Len(t), \A j \in 1 .. Len(s) : s[j] = t[j]
  PROVE  s = t
OBVIOUS

LEMMA FrameParts ==
  ASSUME NEW f \in Frame
  PROVE  /\ FrameBytes(f) \in Seq(Byte) /\ Len(FrameBytes(f)) = 5 + Len(f.body)
         /\ \A j \in 1 .. 4 : FrameBytes(f)[j] = LengthBytes(1 + Len(f.body))[j]
         /\ FrameBytes(f)[5] = f.type
         /\ \A j \in 1 .. Len(f.body) : FrameBytes(f)[5 + j] = f.body[j]
<1> DEFINE h == LengthBytes(1 + Len(f.body))
<1>1. f.type \in Byte /\ f.body \in Seq(Byte)
  BY DEF Frame
<1>2. h \in Seq(Byte) /\ Len(h) = 4
  <2>1. \A k \in Nat : k % 256 \in Byte /\ k \div 256 \in Nat
    BY DEF Byte
  <2>2. 1 + Len(f.body) \in Nat
    BY <1>1
  <2> DEFINE n == 1 + Len(f.body)
             c == n \div 256
             b == c \div 256
             a == b \div 256
  <2>3. n \in Nat /\ c \in Nat /\ b \in Nat /\ a \in Nat
    BY <2>1, <2>2, ZenonT(30)
  <2> DEFINE w == a % 256
             x == b % 256
             y == c % 256
             z == n % 256
  <2>4. h = <<w, x, y, z>>
    BY DEF LengthBytes
  <2>5. w \in Byte /\ x \in Byte /\ y \in Byte /\ z \in Byte
    BY <2>1, <2>3, ZenonT(30)
  <2> HIDE DEF w, x, y, z, h
  <2> QED
    BY <2>4, <2>5
<1> DEFINE t == <<f.type>>
           g == h \o t
<1>3. FrameBytes(f) = g \o f.body
  BY DEF FrameBytes
<1>4. t \in Seq(Byte) /\ Len(t) = 1 /\ t[1] = f.type
  BY <1>1
<1> HIDE DEF h, t
<1>5. /\ g \in Seq(Byte) /\ Len(g) = 5 /\ g[5] = t[1]
      /\ \A j \in 1 .. 4 : g[j] = h[j]
  <2>1. /\ g \in Seq(Byte) /\ Len(g) = Len(h) + Len(t)
        /\ \A j \in 1 .. Len(h) : g[j] = h[j]
        /\ \A j \in 1 .. Len(t) : g[Len(h) + j] = t[j]
    BY <1>2, <1>4, Joining
  <2>2. g[4 + 1] = t[1]
    BY <1>2, <1>4, <2>1
  <2> HIDE DEF g
  <2> QED
    BY <1>2, <1>4, <2>1, <2>2
<1> HIDE DEF g
<1>6. /\ g \o f.body \in Seq(Byte) /\ Len(g \o f.body) = 5 + Len(f.body)
      /\ \A j \in 1 .. 5 : (g \o f.body)[j] = g[j]
      /\ \A j \in 1 .. Len(f.body) : (g \o f.body)[5 + j] = f.body[j]
  <2> DEFINE s == f.body
  <2>1. s \in Seq(Byte)
    BY <1>1
  <2> HIDE DEF s
  <2>2. /\ g \o s \in Seq(Byte) /\ Len(g \o s) = Len(g) + Len(s)
        /\ \A j \in 1 .. Len(g) : (g \o s)[j] = g[j]
        /\ \A j \in 1 .. Len(s) : (g \o s)[Len(g) + j] = s[j]
    BY <1>5, <2>1, Joining
  <2>3. /\ g \o s \in Seq(Byte) /\ Len(g \o s) = 5 + Len(s)
        /\ \A j \in 1 .. 5 : (g \o s)[j] = g[j]
        /\ \A j \in 1 .. Len(s) : (g \o s)[5 + j] = s[j]
    BY <1>5, <2>2
  <2> QED
    BY <2>3 DEF s
<1>7. FrameBytes(f) \in Seq(Byte) /\ Len(FrameBytes(f)) = 5 + Len(f.body)
  BY <1>3, <1>6
<1>8. ASSUME NEW j \in 1 .. 4 PROVE FrameBytes(f)[j] = h[j]
  BY <1>3, <1>5, <1>6
<1>9. FrameBytes(f)[5] = f.type
  BY <1>3, <1>4, <1>5, <1>6
<1>10. ASSUME NEW j \in 1 .. Len(f.body) PROVE FrameBytes(f)[5 + j] = f.body[j]
  BY <1>3, <1>6
<1> QED
  BY <1>7, <1>8, <1>9, <1>10 DEF h

-----------------------------------------------------------------------------
(* Types. *)

ChannelType ==
  /\ outbox \in [Threads -> Seq(Message)]
  /\ link \in {"unbound", "listening", "open", "closed"}
  /\ sending \in [Threads -> Seq(Byte)]
  /\ stream \in Seq(Byte)
  /\ reader \in [part: {"none", "header", "payload", "ended"}, got: Seq(Byte), want: Nat]
  /\ sent \in Seq(Message) /\ mixed \in BOOLEAN /\ received \in Seq(Frame) /\ cuts \in Nat

(* recv asks for four bytes, or for what a length within the limit says;    *)
(* nothing above the limit is sent.                                         *)
Sizes ==
  /\ Len(reader.got) <= reader.want
  /\ reader.part \in {"none", "ended"} => reader.want = 0
  /\ reader.part = "header" => reader.want = 4
  /\ reader.part = "payload" => reader.want \in 1 .. MaxFrameSize
  /\ \A i \in DOMAIN sent : ~TooLarge(FrameOf[sent[i]])

TypeInv == ChannelType /\ Sizes

LEMMA ByteSeqs ==
  ASSUME NEW s \in Seq(Byte), NEW n \in 1 .. Len(s)
  PROVE  /\ SubSeq(s, 1, n) \in Seq(Byte) /\ Len(SubSeq(s, 1, n)) = n
         /\ Rest(s, n) \in Seq(Byte) /\ Len(Rest(s, n)) = Len(s) - n
         /\ \A j \in 1 .. n : SubSeq(s, 1, n)[j] = s[j]
         /\ \A j \in 1 .. Len(s) - n : Rest(s, n)[j] = s[n + j]
BY DEF Rest

(* What is left of a stream, none of whose bytes may have been taken.       *)
LEMMA Truncated ==
  ASSUME NEW s \in Seq(Byte), NEW n \in 0 .. Len(s)
  PROVE  /\ SubSeq(s, 1, n) \in Seq(Byte) /\ Len(SubSeq(s, 1, n)) = n
         /\ \A j \in 1 .. n : SubSeq(s, 1, n)[j] = s[j]
OBVIOUS

LEMMA Framed ==
  ASSUME NEW m \in Message
  PROVE  /\ FrameOf[m] \in Frame /\ Len(FrameOf[m].body) \in Nat
         /\ FrameBytes(FrameOf[m]) \in Seq(Byte)
         /\ Len(FrameBytes(FrameOf[m])) = 5 + Len(FrameOf[m].body)
<1>1. FrameOf[m] \in Frame
  BY ChannelAssumption DEF ChannelAssumption
<1>2. FrameOf[m].body \in Seq(Byte)
  BY <1>1 DEF Frame
<1> QED
  BY <1>1, <1>2, FrameParts

(* What one call of ::recv does to the reader.                              *)
Taken(n) == reader.got \o SubSeq(stream, 1, n)

LEMMA ReceiveKinds ==
  ASSUME TypeInv, ReceiveSome
  PROVE  /\ reader.part \in {"header", "payload"} /\ Len(reader.got) < reader.want
         /\ UNCHANGED <<outbox, link, sending, sent, mixed>>
         /\ \E n \in 1 .. Len(stream) :
              /\ n <= reader.want - Len(reader.got)
              /\ stream' = Rest(stream, n)
              /\ Taken(n) \in Seq(Byte) /\ Len(Taken(n)) = Len(reader.got) + n
              /\ \/ /\ Len(Taken(n)) = reader.want /\ Filled(Taken(n))
                 \/ /\ Len(Taken(n)) < reader.want
                    /\ reader' = [reader EXCEPT !.got = Taken(n)] /\ received' = received
<1>types. /\ stream \in Seq(Byte) /\ reader.got \in Seq(Byte) /\ reader.want \in Nat
          /\ reader.part \in {"none", "header", "payload", "ended"}
          /\ Len(reader.got) \in Nat /\ Len(stream) \in Nat
          /\ Len(reader.got) <= reader.want
          /\ reader.part \in {"none", "ended"} => reader.want = 0
  BY DEF TypeInv, ChannelType, Sizes
<1>1. reader.want - Len(reader.got) > 0
  BY DEF ReceiveSome, Missing
<1> DEFINE k == IF Missing < Len(stream) THEN Missing ELSE Len(stream)
<1>2. PICK n \in 1 .. k :
        /\ stream' = SubSeq(stream, n + 1, Len(stream))
        /\ IF Len(Taken(n)) = reader.want THEN Filled(Taken(n))
           ELSE reader' = [reader EXCEPT !.got = Taken(n)] /\ UNCHANGED received
  BY DEF ReceiveSome, Taken
<1>3. n \in 1 .. Len(stream) /\ n <= reader.want - Len(reader.got)
  BY <1>1, <1>types DEF Missing
<1>4. SubSeq(stream, 1, n) \in Seq(Byte) /\ Len(SubSeq(stream, 1, n)) = n
  BY <1>3, <1>types, ByteSeqs
<1>5. Taken(n) \in Seq(Byte) /\ Len(Taken(n)) = Len(reader.got) + n
  BY <1>4, <1>types, Joining DEF Taken
<1>6. stream' = Rest(stream, n)
  BY <1>2 DEF Rest
<1>7. Len(Taken(n)) <= reader.want
  BY <1>3, <1>5, <1>types
<1>8. UNCHANGED <<outbox, link, sending, sent, mixed>>
  BY DEF ReceiveSome
<1>9. reader.part \in {"header", "payload"} /\ Len(reader.got) < reader.want
  BY <1>1, <1>types
<1>10. \/ Len(Taken(n)) = reader.want /\ Filled(Taken(n))
       \/ /\ Len(Taken(n)) < reader.want
          /\ reader' = [reader EXCEPT !.got = Taken(n)] /\ received' = received
  <2>1. CASE Len(Taken(n)) = reader.want
    BY <1>2, <2>1
  <2>2. CASE Len(Taken(n)) # reader.want
    <3>1. Len(Taken(n)) < reader.want
      BY <1>5, <1>7, <1>types, <2>2, SMTT(30)
    <3> QED
      BY <1>2, <2>2, <3>1
  <2> QED
    BY <2>1, <2>2
<1> QED
  BY <1>3, <1>5, <1>6, <1>8, <1>9, <1>10

(* What is there when all that was asked for is there.                      *)
LEMMA FilledKinds ==
  ASSUME TypeInv, NEW got \in Seq(Byte), Len(got) = reader.want, Filled(got),
         reader.part \in {"header", "payload"}
  PROVE  \/ /\ reader.part = "header" /\ LengthIn(got) \in 1 .. MaxFrameSize
            /\ reader' = ReadPayload(LengthIn(got)) /\ received' = received
         \/ reader.part = "header" /\ reader' = Ended /\ received' = received
         \/ /\ reader.part = "payload" /\ reader' = ReadHeader
            /\ Head(got) = got[1] /\ got[1] \in Byte /\ Tail(got) \in Seq(Byte)
            /\ Len(Tail(got)) = Len(got) - 1
            /\ \A j \in 1 .. Len(got) - 1 : Tail(got)[j] = got[j + 1]
            /\ received' = Append(received, [type |-> got[1], body |-> Tail(got)])
<1>1. CASE reader.part = "header"
  BY <1>1 DEF Filled
<1>2. CASE reader.part = "payload"
  <2>1. reader.want >= 1 /\ got # <<>>
    BY <1>2 DEF TypeInv, Sizes
  <2>2. /\ Head(got) = got[1] /\ got[1] \in Byte /\ Tail(got) \in Seq(Byte)
        /\ Len(Tail(got)) = Len(got) - 1
        /\ \A j \in 1 .. Len(got) - 1 : Tail(got)[j] = got[j + 1]
    BY <2>1
  <2>3. reader' = ReadHeader /\ received' = Append(received, [type |-> Head(got), body |-> Tail(got)])
    BY <1>2 DEF Filled
  <2> QED
    BY <1>2, <2>2, <2>3
<1> QED
  BY <1>1, <1>2

(* What one call of send does, when the frame is within the limit.          *)
LEMMA SendKinds ==
  ASSUME TypeInv, NEW t \in Threads, Send(t)
  PROVE  /\ link = "open" /\ UNCHANGED <<link, reader, received>>
         /\ outbox' \in [Threads -> Seq(Message)]
         /\ mixed' = (mixed \/ \E u \in Threads : sending[u] # <<>>)
         /\ \E m \in Message : \E n \in 1 .. Len(FrameBytes(FrameOf[m])) :
              /\ ~TooLarge(FrameOf[m])
              /\ sent' = Append(sent, m)
              /\ stream' = stream \o SubSeq(FrameBytes(FrameOf[m]), 1, n)
              /\ sending' = [sending EXCEPT ![t] = Rest(FrameBytes(FrameOf[m]), n)]
<1>types. outbox \in [Threads -> Seq(Message)]
  BY DEF TypeInv, ChannelType
<1>1. outbox[t] \in Seq(Message) /\ outbox[t] # <<>>
  BY <1>types DEF Send
<1>2. Head(outbox[t]) \in Message /\ Tail(outbox[t]) \in Seq(Message)
  BY <1>1
<1>3. outbox' \in [Threads -> Seq(Message)]
  BY <1>2, <1>types DEF Send
<1>4. PICK m \in Message : m = Head(outbox[t])
  BY <1>2
<1>5. NextFrame(t) = FrameOf[m]
  BY <1>4 DEF NextFrame
<1>6. /\ link = "open" /\ UNCHANGED <<link, reader, received>> /\ sent' = Append(sent, m)
      /\ mixed' = (mixed \/ \E u \in Threads : sending[u] # <<>>)
      /\ ~TooLarge(FrameOf[m])
  BY <1>4, <1>5 DEF Send
<1>7. PICK n \in 1 .. Len(FrameBytes(FrameOf[m])) :
        /\ stream' = stream \o SubSeq(FrameBytes(FrameOf[m]), 1, n)
        /\ sending' = [sending EXCEPT ![t] = Rest(FrameBytes(FrameOf[m]), n)]
  BY <1>5 DEF Send
<1> QED
  BY <1>3, <1>6, <1>7, Zenon

LEMMA SendSomeKinds ==
  ASSUME TypeInv, NEW t \in Threads, SendSome(t)
  PROVE  /\ link = "open" /\ sending[t] # <<>> /\ sending[t] \in Seq(Byte)
         /\ UNCHANGED <<outbox, link, reader, sent, mixed, received>>
         /\ \E n \in 1 .. Len(sending[t]) :
              /\ stream' = stream \o SubSeq(sending[t], 1, n)
              /\ sending' = [sending EXCEPT ![t] = Rest(sending[t], n)]
<1>1. sending \in [Threads -> Seq(Byte)]
  BY DEF TypeInv, ChannelType
<1>2. sending[t] \in Seq(Byte)
  BY <1>1
<1>3. PICK n \in 1 .. Len(sending[t]) :
        /\ stream' = stream \o SubSeq(sending[t], 1, n)
        /\ sending' = [sending EXCEPT ![t] = Rest(@, n)]
  BY DEF SendSome
<1>4. sending' = [sending EXCEPT ![t] = Rest(sending[t], n)]
  BY <1>3
<1>5. link = "open" /\ sending[t] # <<>> /\ UNCHANGED <<outbox, link, reader, sent, mixed, received>>
  BY DEF SendSome
<1> QED
  BY <1>2, <1>3, <1>4, <1>5, Zenon

LEMMA TypeStart == ChannelInit => TypeInv
<1> SUFFICES ASSUME ChannelInit PROVE TypeInv
  OBVIOUS
<1>1. outbox \in [Threads -> Seq(Message)]
  BY ChannelAssumption DEF ChannelInit, ChannelAssumption
<1>2. /\ link = "unbound" /\ stream = <<>> /\ sent = <<>> /\ mixed = FALSE /\ received = <<>>
      /\ cuts = 0
  BY DEF ChannelInit
<1>4. sending \in [Threads -> Seq(Byte)]
  BY DEF ChannelInit
<1>5. reader \in [part: {"none", "header", "payload", "ended"}, got: Seq(Byte), want: Nat]
  BY DEF ChannelInit
<1>6. ChannelType
  <2>1. /\ link \in {"unbound", "listening", "open", "closed"} /\ stream \in Seq(Byte)
        /\ sent \in Seq(Message) /\ mixed \in BOOLEAN /\ received \in Seq(Frame) /\ cuts \in Nat
    <3>1. stream = <<>> /\ sent = <<>> /\ received = <<>> /\ cuts = 0
      BY <1>2
    <3>2. stream \in Seq(Byte) /\ sent \in Seq(Message) /\ received \in Seq(Frame) /\ cuts \in Nat
      BY <3>1
    <3> QED
      BY <1>2, <3>2, Zenon
  <2> QED
    BY <1>1, <1>4, <1>5, <2>1, Zenon DEF ChannelType
<1>3. Sizes
  BY DEF ChannelInit, Sizes
<1> QED
  BY <1>3, <1>6 DEF TypeInv

LEMMA TypeStep == TypeInv /\ [ChannelNext]_channelVars => TypeInv'
<1> SUFFICES ASSUME TypeInv, [ChannelNext]_channelVars PROVE TypeInv'
  OBVIOUS
<1>types. /\ outbox \in [Threads -> Seq(Message)] /\ link \in {"unbound", "listening", "open", "closed"}
          /\ sending \in [Threads -> Seq(Byte)] /\ stream \in Seq(Byte)
          /\ reader \in [part: {"none", "header", "payload", "ended"}, got: Seq(Byte), want: Nat]
          /\ sent \in Seq(Message) /\ mixed \in BOOLEAN /\ received \in Seq(Frame) /\ cuts \in Nat
  BY Zenon DEF TypeInv, ChannelType
<1>sizes. Sizes
  BY DEF TypeInv
<1>limit. MaxFrameSize \in Nat
  BY ChannelAssumption DEF ChannelAssumption
<1>moved. ASSUME NEW k, NEW n, Moved(k, n) PROVE cuts' \in Nat
  BY <1>moved, <1>types DEF Moved
<1>ended. reader' = Ended => /\ reader' \in [part: {"none", "header", "payload", "ended"}, got: Seq(Byte), want: Nat]
                             /\ Len(reader'.got) <= reader'.want /\ reader'.part = "ended" /\ reader'.want = 0
  BY DEF Ended
<1>header. reader' = ReadHeader =>
             /\ reader' \in [part: {"none", "header", "payload", "ended"}, got: Seq(Byte), want: Nat]
             /\ Len(reader'.got) <= reader'.want /\ reader'.part = "header" /\ reader'.want = 4
  BY DEF ReadHeader
<1>made. ASSUME UNCHANGED sent,
                \/ UNCHANGED reader
                \/ reader' = Ended
                \/ reader' = ReadHeader
         PROVE  /\ reader' \in [part: {"none", "header", "payload", "ended"}, got: Seq(Byte), want: Nat]
                /\ Sizes'
  <2>1. CASE UNCHANGED reader
    BY <1>made, <1>types, <1>sizes, <2>1 DEF Sizes, TooLarge
  <2>2. CASE reader' = Ended
    BY <1>made, <1>sizes, <1>ended, <2>2 DEF Sizes, TooLarge
  <2>3. CASE reader' = ReadHeader
    BY <1>made, <1>sizes, <1>header, <2>3 DEF Sizes, TooLarge
  <2> QED
    BY <1>made, <2>1, <2>2, <2>3
<1>all. ASSUME outbox' \in [Threads -> Seq(Message)], link' \in {"unbound", "listening", "open", "closed"},
               sending' \in [Threads -> Seq(Byte)], stream' \in Seq(Byte),
               reader' \in [part: {"none", "header", "payload", "ended"}, got: Seq(Byte), want: Nat],
               sent' \in Seq(Message), mixed' \in BOOLEAN, received' \in Seq(Frame), cuts' \in Nat, Sizes'
        PROVE  TypeInv'
  BY <1>all, Zenon DEF TypeInv, ChannelType
<1>1. ASSUME Bind \/ Connect PROVE TypeInv'
  <2>1. link' \in {"unbound", "listening", "open", "closed"}
    BY <1>1 DEF Bind, Connect
  <2>2. UNCHANGED <<outbox, sending, stream, reader, sent, mixed, received, cuts>>
    BY <1>1 DEF Bind, Connect
  <2> QED
    BY <1>all, <1>made, <1>types, <2>1, <2>2
<1>2. ASSUME Accept PROVE TypeInv'
  <2>1. reader' = ReadHeader /\ UNCHANGED <<outbox, link, sending, stream, sent, mixed, received, cuts>>
    BY <1>2 DEF Accept
  <2> QED
    BY <1>all, <1>made, <1>types, <2>1
<1>3. ASSUME CloseSender PROVE TypeInv'
  <2>1. PICK n \in 0 .. Len(stream) : Moved(Len(stream), n) /\ stream' = SubSeq(stream, 1, n)
    BY <1>3 DEF CloseSender
  <2>2. stream' \in Seq(Byte)
    BY <1>types, <2>1, Truncated
  <2>3. cuts' \in Nat
    BY <1>moved, <2>1
  <2>4. /\ link' = "closed" /\ sending' = [u \in Threads |-> <<>>]
        /\ UNCHANGED <<outbox, reader, sent, mixed, received>>
    BY <1>3 DEF CloseSender
  <2>5. sending' \in [Threads -> Seq(Byte)]
    BY <2>4
  <2> QED
    BY <1>all, <1>made, <1>types, <2>2, <2>3, <2>4, <2>5
<1>4. ASSUME CloseReceiver PROVE TypeInv'
  <2>1. /\ link' = "closed" /\ sending' = [u \in Threads |-> <<>>] /\ stream' = <<>> /\ reader' = Ended
        /\ UNCHANGED <<outbox, sent, mixed, received, cuts>>
    BY <1>4 DEF CloseReceiver
  <2>2. sending' \in [Threads -> Seq(Byte)] /\ stream' \in Seq(Byte)
    BY <2>1
  <2> QED
    BY <1>all, <1>made, <1>types, <2>1, <2>2
<1>5. ASSUME NEW t \in Threads, Refuse(t) PROVE TypeInv'
  <2>1. UNCHANGED <<link, sending, stream, reader, sent, mixed, received, cuts>>
    BY <1>5 DEF Refuse
  <2>2. outbox[t] \in Seq(Message) /\ outbox[t] # <<>>
    BY <1>5, <1>types DEF Refuse
  <2>3. Tail(outbox[t]) \in Seq(Message)
    BY <2>2
  <2>4. outbox' \in [Threads -> Seq(Message)]
    BY <1>5, <1>types, <2>3 DEF Refuse
  <2> QED
    BY <1>all, <1>made, <1>types, <2>1, <2>4
<1>6. ASSUME NEW t \in Threads, Send(t) PROVE TypeInv'
  <2>1. /\ link = "open" /\ UNCHANGED <<link, reader, received>> /\ outbox' \in [Threads -> Seq(Message)]
        /\ mixed' = (mixed \/ \E u \in Threads : sending[u] # <<>>)
    BY <1>6, SendKinds
  <2> PICK m \in Message :
         \E n \in 1 .. Len(FrameBytes(FrameOf[m])) :
           /\ ~TooLarge(FrameOf[m])
           /\ sent' = Append(sent, m)
           /\ stream' = stream \o SubSeq(FrameBytes(FrameOf[m]), 1, n)
           /\ sending' = [sending EXCEPT ![t] = Rest(FrameBytes(FrameOf[m]), n)]
    BY <1>6, SendKinds, Zenon
  <2>2. PICK n \in 1 .. Len(FrameBytes(FrameOf[m])) :
          /\ ~TooLarge(FrameOf[m])
          /\ sent' = Append(sent, m)
          /\ stream' = stream \o SubSeq(FrameBytes(FrameOf[m]), 1, n)
          /\ sending' = [sending EXCEPT ![t] = Rest(FrameBytes(FrameOf[m]), n)]
    OBVIOUS
  <2> DEFINE fb == FrameBytes(FrameOf[m])
  <2>3. fb \in Seq(Byte)
    BY Framed
  <2>4. n \in 1 .. Len(fb) /\ stream' = stream \o SubSeq(fb, 1, n) /\ sending' = [sending EXCEPT ![t] = Rest(fb, n)]
    BY <2>2
  <2> HIDE DEF fb
  <2>5. SubSeq(fb, 1, n) \in Seq(Byte) /\ Rest(fb, n) \in Seq(Byte)
    BY <2>3, <2>4, ByteSeqs
  <2>6. stream' \in Seq(Byte)
    BY <1>types, <2>4, <2>5, Joining
  <2>7. sending' \in [Threads -> Seq(Byte)]
    BY <1>types, <2>4, <2>5
  <2>8. cuts' \in Nat
    <3>1. \E k, j : Moved(k, j)
      BY <1>6 DEF Send
    <3> QED
      BY <1>moved, <3>1
  <2>9. sent' \in Seq(Message) /\ DOMAIN sent' = 1 .. Len(sent) + 1 /\ DOMAIN sent = 1 .. Len(sent)
        /\ sent'[Len(sent) + 1] = m /\ \A i \in 1 .. Len(sent) : sent'[i] = sent[i]
    BY <1>types, <2>2
  <2>10. \A i \in DOMAIN sent' : ~TooLarge(FrameOf[sent'[i]])
    <3> SUFFICES ASSUME NEW i \in DOMAIN sent' PROVE ~TooLarge(FrameOf[sent'[i]])
      OBVIOUS
    <3>1. CASE i = Len(sent) + 1
      BY <2>2, <2>9, <3>1
    <3>2. CASE i \in 1 .. Len(sent)
      BY <1>sizes, <2>9, <3>2 DEF Sizes
    <3>3. Len(sent) \in Nat
      BY <1>types
    <3> QED
      BY <2>9, <3>1, <3>2, <3>3
  <2>11. Sizes'
    <3> HIDE DEF Sizes
    <3>1. UNCHANGED reader
      BY <2>1
    <3>2. \A f : TooLarge(f)' <=> TooLarge(f)
      BY DEF TooLarge
    <3> QED
      BY <1>sizes, <2>10, <3>1 DEF Sizes, TooLarge
  <2>12. mixed' \in BOOLEAN /\ UNCHANGED <<link, reader, received>>
    BY <2>1
  <2> QED
    BY <1>all, <1>types, <2>1, <2>6, <2>7, <2>8, <2>9, <2>11, <2>12
<1>7. ASSUME NEW t \in Threads, SendSome(t) PROVE TypeInv'
  <2>1. sending[t] \in Seq(Byte) /\ UNCHANGED <<outbox, link, reader, sent, mixed, received>>
    BY <1>7, SendSomeKinds
  <2>2. PICK n \in 1 .. Len(sending[t]) :
          /\ stream' = stream \o SubSeq(sending[t], 1, n)
          /\ sending' = [sending EXCEPT ![t] = Rest(sending[t], n)]
    BY <1>7, SendSomeKinds
  <2> DEFINE fb == sending[t]
  <2>3. SubSeq(fb, 1, n) \in Seq(Byte) /\ Rest(fb, n) \in Seq(Byte)
    BY <2>1, ByteSeqs
  <2>4. stream' \in Seq(Byte)
    BY <1>types, <2>2, <2>3, Joining
  <2>5. sending' \in [Threads -> Seq(Byte)]
    BY <1>types, <2>2, <2>3
  <2>6. cuts' \in Nat
    <3>1. \E k, j : Moved(k, j)
      BY <1>7 DEF SendSome
    <3> QED
      BY <1>moved, <3>1
  <2> QED
    BY <1>all, <1>made, <1>types, <2>1, <2>4, <2>5, <2>6
<1>8. ASSUME ReceiveSome PROVE TypeInv'
  <2>1. reader.part \in {"header", "payload"} /\ UNCHANGED <<outbox, link, sending, sent, mixed>>
    BY <1>8, ReceiveKinds
  <2>2. PICK n \in 1 .. Len(stream) :
          /\ stream' = Rest(stream, n) /\ Taken(n) \in Seq(Byte)
          /\ \/ /\ Len(Taken(n)) = reader.want /\ Filled(Taken(n))
             \/ /\ Len(Taken(n)) < reader.want
                /\ reader' = [reader EXCEPT !.got = Taken(n)] /\ received' = received
    BY <1>8, ReceiveKinds
  <2>3. stream' \in Seq(Byte)
    BY <1>types, <2>2, ByteSeqs
  <2>4. cuts' \in Nat
    <3>1. \E k, j : Moved(k, j)
      BY <1>8 DEF ReceiveSome
    <3> QED
      BY <1>moved, <3>1
  <2> PICK got \in Seq(Byte) : got = Taken(n)
    BY <2>2
  <2>5. /\ reader' \in [part: {"none", "header", "payload", "ended"}, got: Seq(Byte), want: Nat]
        /\ Sizes' /\ received' \in Seq(Frame)
    <3>1. CASE Len(got) < reader.want /\ reader' = [reader EXCEPT !.got = got] /\ received' = received
      <4>1. /\ reader' \in [part: {"none", "header", "payload", "ended"}, got: Seq(Byte), want: Nat]
            /\ reader'.got = got /\ reader'.part = reader.part /\ reader'.want = reader.want
        BY <1>types, <3>1
      <4> QED
        BY <1>types, <1>sizes, <2>1, <3>1, <4>1 DEF Sizes, TooLarge
    <3>2. CASE Len(got) = reader.want /\ Filled(got)
      <4>1. CASE /\ reader.part = "header" /\ LengthIn(got) \in 1 .. MaxFrameSize
                 /\ reader' = ReadPayload(LengthIn(got)) /\ received' = received
        <5>1. PICK w \in 1 .. MaxFrameSize : w = LengthIn(got)
          BY <4>1
        <5>2. /\ reader' \in [part: {"none", "header", "payload", "ended"}, got: Seq(Byte), want: Nat]
              /\ reader'.part = "payload" /\ reader'.want = w /\ Len(reader'.got) = 0
          BY <1>limit, <4>1, <5>1 DEF ReadPayload
        <5> QED
          BY <1>limit, <1>types, <1>sizes, <2>1, <4>1, <5>2 DEF Sizes, TooLarge
      <4>2. CASE reader' = Ended /\ received' = received
        BY <1>made, <1>types, <2>1, <4>2
      <4>3. CASE /\ reader' = ReadHeader /\ got[1] \in Byte /\ Tail(got) \in Seq(Byte)
                 /\ received' = Append(received, [type |-> got[1], body |-> Tail(got)])
        <5>1. [type |-> got[1], body |-> Tail(got)] \in Frame
          BY <4>3 DEF Frame
        <5>2. received' \in Seq(Frame)
          BY <1>types, <4>3, <5>1
        <5> QED
          BY <1>made, <2>1, <4>3, <5>2
      <4> QED
        BY <2>1, <3>2, <4>1, <4>2, <4>3, FilledKinds
    <3> QED
      BY <2>2, <3>1, <3>2
  <2> QED
    BY <1>all, <1>types, <2>1, <2>3, <2>4, <2>5
<1>9. ASSUME ReceiveEnd PROVE TypeInv'
  <2>1. reader' = Ended /\ UNCHANGED <<outbox, link, sending, stream, sent, mixed, received, cuts>>
    BY <1>9 DEF ReceiveEnd
  <2> QED
    BY <1>all, <1>made, <1>types, <2>1
<1>10. CASE UNCHANGED channelVars
  <2>1. UNCHANGED <<outbox, link, sending, stream, reader, sent, mixed, received, cuts>>
    BY <1>10 DEF channelVars
  <2> QED
    BY <1>all, <1>made, <1>types, <2>1
<1> QED
  BY <1>1, <1>2, <1>3, <1>4, <1>5, <1>6, <1>7, <1>8, <1>9, <1>10, Zenon DEF ChannelNext

(* The channel holds bytes, its link, its reader are in one of their states *)
(* and recv never asks for more than a frame may hold, whatever is sent and *)
(* however the calls of ::send and ::recv split it.                         *)
THEOREM BytesBounded == ChannelSpec => []ChannelTypeOK
<1>1. TypeInv => ChannelTypeOK
  <2> SUFFICES ASSUME TypeInv PROVE ChannelTypeOK
    OBVIOUS
  <2>1. /\ link \in {"unbound", "listening", "open", "closed"}
        /\ sending \in [Threads -> Seq(Byte)] /\ stream \in Seq(Byte)
        /\ reader \in [part: {"none", "header", "payload", "ended"}, got: Seq(Byte), want: Nat]
    BY Zenon DEF TypeInv, ChannelType
  <2>2. reader.got \in Seq(Byte)
    BY <2>1
  <2>3. ASSUME NEW s \in Seq(Byte) PROVE Range(s) \subseteq 0 .. 255
    <3> SUFFICES ASSUME NEW x \in Range(s) PROVE x \in Byte
      BY DEF Byte
    <3>1. PICK i \in 1 .. Len(s) : x = s[i]
      BY DEF Range
    <3> QED
      BY <3>1
  <2>4. stream \o reader.got \in Seq(Byte)
    BY <2>1, <2>2, Joining
  <2>5. \A t \in Threads : Range(sending[t]) \subseteq 0 .. 255
    BY <2>1, <2>3
  <2>6. Len(reader.got) <= reader.want /\ reader.want \in 0 .. MaxFrameSize + 4
    BY <2>1, ChannelAssumption DEF TypeInv, Sizes, ChannelAssumption
  <2> QED
    BY <2>1, <2>3, <2>4, <2>5, <2>6 DEF ChannelTypeOK
<1> QED
  BY <1>1, TypeStart, TypeStep, PTL DEF ChannelSpec

-----------------------------------------------------------------------------
(* The row.  Its byte k is W[k], the frame of the i-th message sent ends at *)
(* off[i], and the reader has consumed the first p bytes.                   *)
Part(W, p, s) == \A j \in 1 .. Len(s) : s[j] = W[p + j]

Content(i) == FrameBytes(FrameOf[sent[i]])

FramesIn(W, off) ==
  /\ W \in [Nat -> Byte] /\ off \in [Nat -> Nat] /\ off[0] = 0
  /\ \A i \in 1 .. Len(sent) : off[i] = off[i - 1] + Len(Content(i)) /\ Part(W, off[i - 1], Content(i))
  /\ \A i \in 0 .. Len(sent) : off[i] <= off[Len(sent)]

InFlight(W, off, p) == p + Len(stream) <= off[Len(sent)] /\ Part(W, p, stream)

(* At most one thread is inside a frame, the last, and has its rest.        *)
StillToSend(W, off, p) ==
  link # "closed" =>
    /\ (\A t \in Threads : sending[t] = <<>>) => p + Len(stream) = off[Len(sent)]
    /\ \A t \in Threads : sending[t] # <<>> =>
         /\ \A u \in Threads \ {t} : sending[u] = <<>>
         /\ p + Len(stream) + Len(sending[t]) = off[Len(sent)]
         /\ Part(W, p + Len(stream), sending[t])

Returned ==
  /\ Len(received) <= Len(sent)
  /\ \A i \in 1 .. Len(received) : received[i] = FrameOf[sent[i]]

(* The reader is inside the frame after those it has returned.              *)
Reading(W, off, p) ==
  /\ reader.part = "none" => Len(received) = 0 /\ p = 0
  /\ reader.part = "header" =>
       /\ p = off[Len(received)] + Len(reader.got)
       /\ Part(W, off[Len(received)], reader.got)
  /\ reader.part = "payload" =>
       /\ Len(received) < Len(sent)
       /\ reader.want = 1 + Len(FrameOf[sent[Len(received) + 1]].body)
       /\ p = off[Len(received)] + 4 + Len(reader.got)
       /\ Part(W, off[Len(received)] + 4, reader.got)

Row(W, off, p) ==
  FramesIn(W, off) /\ InFlight(W, off, p) /\ StillToSend(W, off, p) /\ Returned /\ Reading(W, off, p)

RowInv == ~mixed => \E W, off : \E p \in Nat : Row(W, off, p)

(* Two parts that follow each other still do when bytes move from the       *)
(* second to the first.                                                     *)
LEMMA Moves ==
  ASSUME NEW W, NEW u \in Seq(Byte), NEW s \in Seq(Byte), NEW n \in 1 .. Len(s), NEW p \in Nat,
         Part(W, p, u), Part(W, p + Len(u), s)
  PROVE  /\ u \o SubSeq(s, 1, n) \in Seq(Byte) /\ Rest(s, n) \in Seq(Byte)
         /\ Len(u \o SubSeq(s, 1, n)) = Len(u) + n /\ Len(Rest(s, n)) = Len(s) - n
         /\ Part(W, p, u \o SubSeq(s, 1, n)) /\ Part(W, p + (Len(u) + n), Rest(s, n))
<1>len. PICK a \in Nat, z \in Nat : a = Len(u) /\ z = Len(s)
  OBVIOUS
<1> DEFINE v == u \o SubSeq(s, 1, n)
           r == Rest(s, n)
<1>1. /\ SubSeq(s, 1, n) \in Seq(Byte) /\ Len(SubSeq(s, 1, n)) = n
      /\ r \in Seq(Byte) /\ Len(r) = z - n
      /\ \A j \in 1 .. n : SubSeq(s, 1, n)[j] = s[j]
      /\ \A j \in 1 .. z - n : r[j] = s[n + j]
  BY <1>len, ByteSeqs
<1>q. PICK q \in Seq(Byte) : q = SubSeq(s, 1, n)
  BY <1>1
<1>2. /\ v \in Seq(Byte) /\ Len(v) = Len(u) + Len(q)
      /\ \A j \in 1 .. Len(u) : v[j] = u[j]
      /\ \A j \in 1 .. Len(q) : v[Len(u) + j] = q[j]
  BY <1>q, Joining
<1>3. Len(q) = n /\ \A j \in 1 .. n : q[j] = s[j]
  BY <1>1, <1>q
<1> HIDE DEF v, r
<1>4. /\ \A j \in 1 .. a : v[j] = u[j]
      /\ \A j \in 1 .. n : v[a + j] = s[j]
  BY <1>len, <1>2, <1>3
<1>5. /\ \A j \in 1 .. a : u[j] = W[p + j]
      /\ \A j \in 1 .. z : s[j] = W[p + a + j]
  BY <1>len DEF Part
<1>6. n \in 1 .. z
  BY <1>len
<1> HIDE DEF Part
<1>7. ASSUME NEW j \in 1 .. a + n PROVE v[j] = W[p + j]
  <2>1. CASE j \in 1 .. a
    BY <1>4, <1>5, <2>1
  <2>2. CASE j \notin 1 .. a
    <3>1. PICK i : i \in 1 .. n /\ j = a + i
      <4>1. j - a \in 1 .. n /\ j = a + (j - a)
        BY <1>6, <2>2
      <4> QED
        BY <4>1
    <3>2. v[a + i] = s[i] /\ i \in 1 .. z
      BY <1>4, <1>6, <3>1
    <3>3. s[i] = W[p + a + i]
      BY <1>5, <3>2
    <3>4. p + a + i = p + j
      BY <3>1
    <3> QED
      BY <3>1, <3>2, <3>3, <3>4
  <2> QED
    BY <2>1, <2>2
<1>10. ASSUME NEW j \in 1 .. z - n PROVE r[j] = W[p + (a + n) + j]
  <2>1. r[j] = s[n + j]
    BY <1>1
  <2>2. n + j \in 1 .. z
    BY <1>6
  <2>3. s[n + j] = W[p + a + (n + j)]
    BY <1>5, <2>2
  <2>4. p + a + (n + j) = p + (a + n) + j
    BY <1>6
  <2> QED
    BY <2>1, <2>3, <2>4
<1>8. Len(v) = a + n
  BY <1>len, <1>2, <1>3
<1>9. Part(W, p, v) /\ Part(W, p + (a + n), r)
  BY <1>1, <1>7, <1>8, <1>10, Zenon DEF Part
<1> QED
  BY <1>len, <1>1, <1>2, <1>8, <1>9 DEF v, r

LEMMA RowStart == ChannelInit => RowInv
<1> SUFFICES ASSUME ChannelInit PROVE \E W, off : \E p \in Nat : Row(W, off, p)
  BY DEF RowInv
<1> DEFINE W == [k \in Nat |-> 0]
           off == [k \in Nat |-> 0]
<1>1. W \in [Nat -> Byte] /\ off \in [Nat -> Nat] /\ off[0] = 0
  BY DEF Byte
<1> HIDE DEF W, off
<1>2. Len(sent) = 0 /\ Len(stream) = 0 /\ Len(received) = 0 /\ reader.part = "none"
  BY DEF ChannelInit
<1>3. \A t \in Threads : sending[t] = <<>>
  BY DEF ChannelInit
<1>4. FramesIn(W, off)
  BY <1>1, <1>2 DEF FramesIn
<1>5. InFlight(W, off, 0)
  BY <1>1, <1>2 DEF InFlight, Part
<1>6. StillToSend(W, off, 0)
  BY <1>1, <1>2, <1>3 DEF StillToSend
<1>7. Returned
  BY <1>2 DEF Returned
<1>8. Reading(W, off, 0)
  BY <1>2 DEF Reading
<1>9. Row(W, off, 0)
  BY <1>4, <1>5, <1>6, <1>7, <1>8 DEF Row
<1> QED
  BY <1>1, <1>9

(* The row only changes when a frame is begun.                              *)
LEMMA RowFrames ==
  ASSUME NEW W, NEW off, FramesIn(W, off), UNCHANGED sent
  PROVE  FramesIn(W, off)'
BY DEF FramesIn, Content

(* Bytes move from a thread to the stream.                                  *)
LEMMA RowSendSome ==
  ASSUME TypeInv, NEW W, NEW off, NEW p \in Nat, Row(W, off, p),
         NEW t \in Threads, SendSome(t)
  PROVE  Row(W, off, p)'
<1>types. /\ stream \in Seq(Byte) /\ sending \in [Threads -> Seq(Byte)] /\ sent \in Seq(Message)
  BY Zenon DEF TypeInv, ChannelType
<1>1. /\ link = "open" /\ sending[t] # <<>> /\ sending[t] \in Seq(Byte)
      /\ UNCHANGED <<outbox, link, reader, sent, mixed, received>>
  BY SendSomeKinds
<1>2. PICK n : /\ n \in 1 .. Len(sending[t])
               /\ stream' = stream \o SubSeq(sending[t], 1, n)
               /\ sending' = [sending EXCEPT ![t] = Rest(sending[t], n)]
  BY SendSomeKinds
<1> DEFINE s == sending[t]
           r == Rest(s, n)
<1>3. /\ \A u \in Threads \ {t} : sending[u] = <<>>
      /\ p + Len(stream) + Len(s) = off[Len(sent)]
      /\ Part(W, p + Len(stream), s)
  BY <1>1 DEF Row, StillToSend
<1>4. Part(W, p, stream)
  BY DEF Row, InFlight
<1>5. /\ stream' \in Seq(Byte) /\ Len(stream') = Len(stream) + n /\ Len(r) = Len(s) - n
      /\ r \in Seq(Byte)
      /\ Part(W, p, stream') /\ Part(W, p + (Len(stream) + n), r)
  <2>1. s \in Seq(Byte) /\ n \in 1 .. Len(s) /\ stream' = stream \o SubSeq(s, 1, n)
    BY <1>1, <1>2
  <2> HIDE DEF s
  <2> QED
    BY <1>types, <1>3, <1>4, <2>1, Moves
<1>6. n \in Nat /\ n <= Len(s) /\ Len(s) \in Nat /\ Len(stream) \in Nat
  <2>1. s \in Seq(Byte) /\ n \in 1 .. Len(s)
    BY <1>1, <1>2
  <2> HIDE DEF s
  <2> QED
    BY <1>types, <2>1
<1>sent. sending'[t] = r /\ \A u \in Threads \ {t} : sending'[u] = <<>>
  BY <1>2, <1>3, <1>types
<1> HIDE DEF s, r
<1>7. /\ p + Len(stream') + Len(r) = off[Len(sent)]
      /\ p + Len(stream') <= off[Len(sent)]
  <2>1. ASSUME NEW a \in Nat, NEW z \in Nat, NEW k \in Nat, k <= z
        PROVE  p + (a + k) + (z - k) = p + a + z /\ p + (a + k) <= p + a + z
    BY <2>1
  <2>2. p + (Len(stream) + n) + (Len(s) - n) = p + Len(stream) + Len(s)
    BY <1>6, <2>1
  <2>3. p + (Len(stream) + n) <= p + Len(stream) + Len(s)
    BY <1>6, <2>1
  <2> QED
    BY <1>3, <1>5, <2>2, <2>3, Zenon
<1>8. InFlight(W, off, p)'
  BY <1>1, <1>5, <1>7 DEF InFlight, Part
<1>9. StillToSend(W, off, p)'
  <2>2. (\A u \in Threads : sending'[u] = <<>>) => p + Len(stream') = off[Len(sent)]
    <3>1. r = <<>> => Len(r) = 0
      OBVIOUS
    <3>2. p + Len(stream') \in Nat
      BY <1>5
    <3>3. Len(r) = 0 => p + Len(stream') = off[Len(sent)]
      BY <1>7, <3>2
    <3> QED
      BY <1>sent, <3>1, <3>3
  <2>3. Part(W, p + Len(stream'), r)
    BY <1>5, Zenon
  <2>4. ASSUME NEW u \in Threads, sending'[u] # <<>>
        PROVE  /\ \A v \in Threads \ {u} : sending'[v] = <<>>
               /\ p + Len(stream') + Len(sending'[u]) = off[Len(sent)]
               /\ Part(W, p + Len(stream'), sending'[u])
    <3>1. u = t
      BY <1>sent, <2>4
    <3> QED
      BY <1>7, <1>sent, <2>3, <3>1, Zenon
  <2>5. sent' = sent
    BY <1>1
  <2> QED
    BY <2>2, <2>4, <2>5, Zenon DEF StillToSend, Part
<1>10. FramesIn(W, off)'
  BY <1>1, RowFrames DEF Row
<1>11. Returned' /\ Reading(W, off, p)'
  BY <1>1 DEF Row, Returned, Reading, Part
<1> QED
  BY <1>8, <1>9, <1>10, <1>11 DEF Row

(* Steps that move no byte.                                                 *)
LEMMA RowKept ==
  ASSUME NEW W, NEW off, NEW p \in Nat, Row(W, off, p),
         UNCHANGED <<sending, stream, sent, received>>, link' # "closed" => link # "closed",
         \/ UNCHANGED reader
         \/ reader' = Ended
         \/ reader.part = "none" /\ reader' = ReadHeader
  PROVE  Row(W, off, p)'
<1>1. FramesIn(W, off)'
  BY RowFrames DEF Row
<1>2. InFlight(W, off, p)'
  BY DEF Row, InFlight, Part
<1>3. StillToSend(W, off, p)'
  BY Zenon DEF Row, StillToSend, Part
<1>4. Returned'
  BY DEF Row, Returned
<1>5. Reading(W, off, p)'
  <2>1. CASE UNCHANGED reader
    BY <2>1 DEF Row, Reading, Part
  <2>2. CASE reader' = Ended
    BY <2>2 DEF Reading, Ended
  <2>3. CASE reader.part = "none" /\ reader' = ReadHeader
    <3>1. /\ reader'.part = "header" /\ reader'.got = <<>> /\ received' = received
      BY <2>3 DEF ReadHeader
    <3>2. Len(received) = 0 /\ p = 0 /\ off[0] = 0
      BY <2>3 DEF Row, Reading, FramesIn
    <3>3. p = off[Len(received')] + Len(reader'.got)
      BY <3>1, <3>2
    <3>4. Len(reader'.got) = 0
      BY <3>1
    <3>5. \A q : Part(W, q, reader'.got)
      BY <3>4 DEF Part
    <3> QED
      BY <3>1, <3>3, <3>5 DEF Reading, Part
  <2> QED
    BY <2>1, <2>2, <2>3
<1> QED
  BY <1>1, <1>2, <1>3, <1>4, <1>5 DEF Row

(* When the connection ends, the stream may end anywhere, the reader too.   *)
LEMMA RowCut ==
  ASSUME TypeInv, NEW W, NEW off, NEW p \in Nat, Row(W, off, p),
         NEW n \in 0 .. Len(stream), stream' = SubSeq(stream, 1, n), link' = "closed",
         UNCHANGED <<sent, received>>, UNCHANGED reader \/ reader' = Ended
  PROVE  Row(W, off, p)'
<1>1. FramesIn(W, off)'
  BY RowFrames DEF Row
<1>2. InFlight(W, off, p)'
  <2>1. stream \in Seq(Byte) /\ sent \in Seq(Message)
    BY DEF TypeInv, ChannelType
  <2>2. Len(stream') = n /\ \A j \in 1 .. n : stream'[j] = stream[j]
    BY <2>1, Truncated
  <2>3. n \in Nat /\ n <= Len(stream) /\ Len(stream) \in Nat
    BY <2>1
  <2>4. off[Len(sent)] \in Nat
    <3>1. Len(sent) \in Nat
      BY <2>1
    <3>2. off \in [Nat -> Nat]
      BY Zenon DEF Row, FramesIn
    <3> QED
      BY <3>1, <3>2
  <2>5. p + n <= off[Len(sent)]
    BY <2>3, <2>4 DEF Row, InFlight
  <2>6. \A j \in 1 .. n : stream'[j] = W[p + j]
    <3>1. \A j \in 1 .. Len(stream) : stream[j] = W[p + j]
      BY Zenon DEF Row, InFlight, Part
    <3>2. \A j \in 1 .. n : j \in 1 .. Len(stream)
      BY <2>3
    <3> QED
      BY <2>2, <3>1, <3>2, Zenon
  <2> QED
    BY <2>2, <2>5, <2>6 DEF InFlight, Part
<1>3. StillToSend(W, off, p)' /\ Returned'
  BY DEF Row, StillToSend, Returned
<1>4. Reading(W, off, p)'
  <2>1. CASE UNCHANGED reader
    BY <2>1 DEF Row, Reading, Part
  <2>2. CASE reader' = Ended
    BY <2>2 DEF Reading, Ended
  <2> QED
    BY <2>1, <2>2
<1> QED
  BY <1>1, <1>2, <1>3, <1>4 DEF Row

(* A frame is put at the end of the row.                                    *)
LEMMA RowExtended ==
  ASSUME NEW W, NEW off, FramesIn(W, off), sent \in Seq(Message),
         NEW m \in Message, sent' = Append(sent, m)
  PROVE  \E V, ends :
           /\ FramesIn(V, ends)'
           /\ \A i \in 0 .. Len(sent) : ends[i] = off[i]
           /\ \A k \in 1 .. off[Len(sent)] : V[k] = W[k]
           /\ ends[Len(sent) + 1] = off[Len(sent)] + Len(FrameBytes(FrameOf[m]))
           /\ Part(V, off[Len(sent)], FrameBytes(FrameOf[m]))
<1>c. PICK N : N = Len(sent)
  OBVIOUS
<1>n. N \in Nat
  BY <1>c
<1>f. PICK fb : fb = FrameBytes(FrameOf[m])
  OBVIOUS
<1>l. fb \in Seq(Byte) /\ Len(fb) \in Nat
  BY <1>f, Framed
<1>w. W \in [Nat -> Byte] /\ off \in [Nat -> Nat] /\ off[0] = 0
  BY DEF FramesIn
<1>e. PICK e : e = off[N]
  OBVIOUS
<1>d. e \in Nat
  BY <1>e, <1>n, <1>w
<1>z. PICK z : z = Len(fb)
  OBVIOUS
<1>y. z \in Nat
  BY <1>l, <1>z
<1> DEFINE V == [k \in Nat |-> IF k \in e + 1 .. e + z THEN fb[k - e] ELSE W[k]]
           ends == [k \in Nat |-> IF k = N + 1 THEN e + z ELSE off[k]]
<1>1. V \in [Nat -> Byte]
  <2> SUFFICES ASSUME NEW k \in Nat PROVE (IF k \in e + 1 .. e + z THEN fb[k - e] ELSE W[k]) \in Byte
    OBVIOUS
  <2>1. CASE k \in e + 1 .. e + z
    <3>1. k - e \in 1 .. z
      BY <1>d, <1>y, <2>1
    <3>2. fb[k - e] \in Byte
      BY <1>l, <1>z, <3>1
    <3> QED
      BY <2>1, <3>2
  <2>2. CASE k \notin e + 1 .. e + z
    BY <1>w, <2>2
  <2> QED
    BY <2>1, <2>2
<1>2. ends \in [Nat -> Nat]
  BY <1>d, <1>w, <1>y
<1>3. \A k \in 1 .. e : V[k] = W[k]
  BY <1>d
<1>4. ASSUME NEW j \in 1 .. z PROVE V[e + j] = fb[j]
  <2>1. e + j \in Nat /\ e + j \in e + 1 .. e + z /\ (e + j) - e = j
    BY <1>d, <1>y
  <2>2. V[e + j] = fb[(e + j) - e]
    BY <2>1
  <2> QED
    BY <2>1, <2>2
<1>5. \A i \in 0 .. N : ends[i] = off[i]
  BY <1>n
<1>6. ends[N + 1] = e + z
  BY <1>n
<1> HIDE DEF V, ends
<1>7. Part(V, e, fb)
  BY <1>4, <1>z DEF Part
<1>8. /\ Len(sent') = N + 1 /\ sent'[N + 1] = m
      /\ \A i \in 1 .. N : sent'[i] = sent[i]
  BY <1>c
<1>9. ASSUME NEW i \in 0 .. N PROVE off[i] <= e /\ off[i] \in Nat
  BY <1>c, <1>e, <1>n, <1>w DEF FramesIn
<1>10. ASSUME NEW i \in 1 .. N
       PROVE  /\ ends[i] = ends[i - 1] + Len(FrameBytes(FrameOf[sent'[i]]))
              /\ Part(V, ends[i - 1], FrameBytes(FrameOf[sent'[i]]))
  <2> PICK g : g = FrameBytes(FrameOf[sent[i]])
    OBVIOUS
  <2>1. off[i] = off[i - 1] + Len(g) /\ \A j \in 1 .. Len(g) : W[off[i - 1] + j] = g[j]
    BY <1>c DEF FramesIn, Content, Part
  <2>2. i - 1 \in 0 .. N /\ i \in 0 .. N
    BY <1>n
  <2>3. ends[i] = off[i] /\ ends[i - 1] = off[i - 1]
    BY <1>5, <2>2
  <2>4. sent'[i] = sent[i]
    BY <1>8
  <2>5. off[i - 1] \in Nat /\ off[i] <= e /\ off[i] \in Nat
    BY <1>9, <2>2
  <2>6. Len(g) \in Nat
    <3>1. sent[i] \in Message
      BY <1>c
    <3> QED
      BY <3>1, Framed
  <2>7. ASSUME NEW j \in 1 .. Len(g) PROVE V[off[i - 1] + j] = g[j]
    <3>1. off[i - 1] + j \in 1 .. e
      BY <1>d, <2>1, <2>5, <2>6
    <3> QED
      BY <1>3, <2>1, <3>1
  <2>8. Part(V, off[i - 1], g)
    BY <2>7 DEF Part
  <2> QED
    BY <2>1, <2>3, <2>4, <2>8
<1>11. /\ ends[N + 1] = ends[(N + 1) - 1] + Len(FrameBytes(FrameOf[sent'[N + 1]]))
       /\ Part(V, ends[(N + 1) - 1], FrameBytes(FrameOf[sent'[N + 1]]))
  <2>1. (N + 1) - 1 = N /\ ends[N] = e
    BY <1>5, <1>e, <1>n
  <2> QED
    BY <1>6, <1>7, <1>8, <1>f, <1>z, <2>1
<1>12. ASSUME NEW i \in 0 .. N + 1 PROVE ends[i] <= ends[N + 1]
  <2>1. CASE i = N + 1
    BY <1>2, <1>n, <2>1
  <2>2. CASE i \in 0 .. N
    BY <1>5, <1>6, <1>9, <1>d, <1>y, <2>2
  <2> QED
    BY <1>n, <2>1, <2>2
<1>13. ends[0] = 0
  BY <1>5, <1>n, <1>w
<1>14. FramesIn(V, ends)'
  <2>1. ASSUME NEW i \in 1 .. N + 1
        PROVE  /\ ends[i] = ends[i - 1] + Len(FrameBytes(FrameOf[sent'[i]]))
               /\ Part(V, ends[i - 1], FrameBytes(FrameOf[sent'[i]]))
    <3>1. CASE i = N + 1
      BY <1>11, <3>1
    <3>2. CASE i \in 1 .. N
      BY <1>10, <3>2
    <3>3. i = N + 1 \/ i \in 1 .. N
      BY <1>n
    <3> QED
      BY <3>1, <3>2, <3>3, Zenon
  <2>2. \A i \in 1 .. Len(sent') : /\ ends[i] = ends[i - 1] + Len(FrameBytes(FrameOf[sent'[i]]))
                                   /\ Part(V, ends[i - 1], FrameBytes(FrameOf[sent'[i]]))
    BY <1>8, <2>1
  <2>3. \A i \in 0 .. Len(sent') : ends[i] <= ends[Len(sent')]
    BY <1>8, <1>12
  <2> QED
    BY <1>1, <1>2, <1>13, <2>2, <2>3, Zenon DEF FramesIn, Content, Part
<1>15. /\ \A i \in 0 .. Len(sent) : ends[i] = off[i]
       /\ \A k \in 1 .. off[Len(sent)] : V[k] = W[k]
       /\ ends[Len(sent) + 1] = off[Len(sent)] + Len(FrameBytes(FrameOf[m]))
       /\ Part(V, off[Len(sent)], FrameBytes(FrameOf[m]))
  BY <1>3, <1>5, <1>6, <1>7, <1>c, <1>e, <1>f, <1>z
<1> QED
  BY <1>14, <1>15, Zenon

(* The first call of ::send for a frame.                                    *)
LEMMA RowSend ==
  ASSUME TypeInv, NEW W, NEW off, NEW p \in Nat, Row(W, off, p), NEW t \in Threads, Send(t),
         \A u \in Threads : sending[u] = <<>>
  PROVE  \E V, ends : Row(V, ends, p)'
<1>types. /\ stream \in Seq(Byte) /\ sending \in [Threads -> Seq(Byte)] /\ sent \in Seq(Message)
          /\ received \in Seq(Frame) /\ reader.got \in Seq(Byte)
  BY DEF TypeInv, ChannelType
<1>1. link = "open" /\ UNCHANGED <<link, reader, received>>
  BY SendKinds
<1>2. PICK m \in Message :
         \E n \in 1 .. Len(FrameBytes(FrameOf[m])) :
           /\ ~TooLarge(FrameOf[m])
           /\ sent' = Append(sent, m)
           /\ stream' = stream \o SubSeq(FrameBytes(FrameOf[m]), 1, n)
           /\ sending' = [sending EXCEPT ![t] = Rest(FrameBytes(FrameOf[m]), n)]
  BY SendKinds, Zenon
<1> DEFINE s == FrameBytes(FrameOf[m])
<1>3. PICK n : /\ n \in 1 .. Len(s) /\ sent' = Append(sent, m)
               /\ stream' = stream \o SubSeq(s, 1, n)
               /\ sending' = [sending EXCEPT ![t] = Rest(s, n)]
  BY <1>2, Zenon
<1>4. s \in Seq(Byte)
  BY Framed
<1> DEFINE r == Rest(s, n)
           a == Len(stream)
           z == Len(s)
           N == Len(sent)
           e == off[N]
<1>5. PICK V, ends :
        /\ FramesIn(V, ends)'
        /\ \A i \in 0 .. N : ends[i] = off[i]
        /\ \A k \in 1 .. e : V[k] = W[k]
        /\ ends[N + 1] = e + z
        /\ Part(V, e, s)
  <2>1. \E V, ends :
          /\ FramesIn(V, ends)'
          /\ \A i \in 0 .. Len(sent) : ends[i] = off[i]
          /\ \A k \in 1 .. off[Len(sent)] : V[k] = W[k]
          /\ ends[Len(sent) + 1] = off[Len(sent)] + Len(FrameBytes(FrameOf[m]))
          /\ Part(V, off[Len(sent)], FrameBytes(FrameOf[m]))
    <3>1. FramesIn(W, off)
      BY DEF Row
    <3>2. sent \in Seq(Message)
      BY <1>types
    <3>3. sent' = Append(sent, m)
      BY <1>3
    <3> HIDE DEF s, r, a, z, N, e
    <3> QED
      BY <3>1, <3>2, <3>3, RowExtended
  <2> QED
    BY <2>1, Zenon
<1>6. n \in Nat /\ n \in 1 .. z /\ z \in Nat /\ a \in Nat /\ N \in Nat
  <2>1. z \in Nat /\ a \in Nat /\ N \in Nat
    BY <1>types, <1>4
  <2> HIDE DEF z
  <2> QED
    BY <1>3, <2>1 DEF z
<1>off. off \in [Nat -> Nat] /\ \A i \in 0 .. N : off[i] <= e
  BY Zenon DEF Row, FramesIn
<1>7. e \in Nat
  BY <1>6, <1>off
<1>8. p + a = e
  BY <1>1 DEF Row, StillToSend
<1>9. Part(W, p, stream)
  BY DEF Row, InFlight
<1>sent. sending'[t] = r /\ \A u \in Threads \ {t} : sending'[u] = <<>>
  BY <1>3, <1>types
<1>long. Len(sent') = N + 1 /\ \A i \in 1 .. N : sent'[i] = sent[i]
  BY <1>3, <1>types
<1> HIDE DEF s, r, a, z, N, e
<1>10. Part(V, p, stream)
  <2>1. ASSUME NEW j \in 1 .. a PROVE V[p + j] = W[p + j]
    <3>1. p + j \in 1 .. e
      BY <1>6, <1>7, <1>8
    <3> QED
      BY <1>5, <3>1
  <2>2. \A j \in 1 .. a : V[p + j] = stream[j]
    BY <1>9, <2>1 DEF Part, a
  <2> QED
    BY <2>2 DEF Part, a
<1>11. /\ stream' \in Seq(Byte) /\ Len(stream') = a + n /\ r \in Seq(Byte) /\ Len(r) = z - n
       /\ Part(V, p, stream') /\ Part(V, p + (a + n), r)
  <2>1. Part(V, p + Len(stream), s)
    BY <1>5, <1>8, Zenon DEF a
  <2>2. n \in 1 .. Len(s)
    BY <1>6 DEF z
  <2>3. /\ stream \o SubSeq(s, 1, n) \in Seq(Byte) /\ Rest(s, n) \in Seq(Byte)
        /\ Len(stream \o SubSeq(s, 1, n)) = Len(stream) + n /\ Len(Rest(s, n)) = Len(s) - n
        /\ Part(V, p, stream \o SubSeq(s, 1, n)) /\ Part(V, p + (Len(stream) + n), Rest(s, n))
    BY <1>types, <1>4, <1>10, <2>1, <2>2, Moves
  <2> QED
    BY <1>3, <2>3, Zenon DEF a, z, r
<1>12. p + (a + n) + (z - n) = e + z /\ p + (a + n) <= e + z
  BY <1>6, <1>7, <1>8
<1>13. InFlight(V, ends, p)'
  <2>1. p + Len(stream') <= ends[Len(sent')]
    BY <1>5, <1>11, <1>12, <1>long, Zenon
  <2> QED
    BY <1>11, <2>1, Zenon DEF InFlight, Part
<1>14. StillToSend(V, ends, p)'
  <2>1. p + Len(stream') + Len(r) = ends[Len(sent')]
    BY <1>5, <1>11, <1>12, <1>long, Zenon
  <2>2. (\A u \in Threads : sending'[u] = <<>>) => p + Len(stream') = ends[Len(sent')]
    <3>1. r = <<>> => Len(r) = 0
      OBVIOUS
    <3>2. p + Len(stream') \in Nat
      BY <1>11
    <3>3. Len(r) = 0 => p + Len(stream') = ends[Len(sent')]
      BY <2>1, <3>2
    <3> QED
      BY <1>sent, <3>1, <3>3
  <2>3. Part(V, p + Len(stream'), r)
    BY <1>11, Zenon
  <2>4. ASSUME NEW u \in Threads, sending'[u] # <<>>
        PROVE  /\ \A v \in Threads \ {u} : sending'[v] = <<>>
               /\ p + Len(stream') + Len(sending'[u]) = ends[Len(sent')]
               /\ Part(V, p + Len(stream'), sending'[u])
    <3>1. u = t
      BY <1>sent, <2>4
    <3> QED
      BY <1>sent, <2>1, <2>3, <3>1, Zenon
  <2> QED
    BY <2>2, <2>4, Zenon DEF StillToSend, Part
<1> DEFINE R == Len(received)
<1>15. R \in Nat /\ R <= N
  <2>1. R \in Nat
    BY <1>types
  <2> QED
    BY <2>1 DEF Row, Returned, N
<1> HIDE DEF R
<1>16. Returned'
  <2>1. R <= N + 1
    BY <1>6, <1>15
  <2>2. ASSUME NEW i \in 1 .. R PROVE received[i] = FrameOf[sent'[i]]
    <3>1. i \in 1 .. N
      BY <1>6, <1>15
    <3>2. received[i] = FrameOf[sent[i]]
      BY DEF Row, Returned, R
    <3> QED
      BY <1>long, <3>1, <3>2
  <2> QED
    BY <1>1, <1>long, <2>1, <2>2 DEF Returned, R
<1> DEFINE o == off[R]
           g == reader.got
<1>17. ends[R] = o /\ o \in Nat /\ o <= e
  <2>1. R \in 0 .. N
    BY <1>6, <1>15
  <2> QED
    BY <1>5, <1>15, <1>off, <2>1
<1>18. p <= e
  BY <1>6, <1>7, <1>8
<1>g. g \in Seq(Byte) /\ Len(g) \in Nat
  BY <1>types
<1> HIDE DEF o, g
<1>19. ASSUME NEW d \in Nat, p = o + d + Len(g), Part(W, o + d, g)
       PROVE  Part(V, o + d, g)
  <2>1. ASSUME NEW j \in 1 .. Len(g) PROVE V[o + d + j] = W[o + d + j]
    <3>1. o + d + j \in 1 .. e
      BY <1>7, <1>17, <1>18, <1>19, <1>g
    <3> QED
      BY <1>5, <3>1
  <2> QED
    BY <1>19, <2>1 DEF Part
<1>20. CASE reader.part = "header"
  <2>1. p = o + Len(g) /\ Part(W, o, g)
    BY <1>20 DEF Row, Reading, o, g, R
  <2>2. o + 0 = o
    BY <1>17
  <2>3. Part(V, o, g)
    BY <1>19, <2>1, <2>2
  <2> QED
    <3>1. reader'.part = "header" /\ reader'.got = g /\ Len(received') = R
      BY <1>1, <1>20 DEF g, R
    <3>2. p = ends[Len(received')] + Len(reader'.got) /\ Part(V, ends[Len(received')], reader'.got)
      BY <1>17, <2>1, <2>3, <3>1
    <3>3. Reading(V, ends, p)'
      BY <3>1, <3>2 DEF Reading, Part
    <3> QED
      BY <1>5, <1>13, <1>14, <1>16, <3>3 DEF Row
<1>21. CASE reader.part = "payload"
  <2>1. /\ R < N /\ reader.want = 1 + Len(FrameOf[sent[R + 1]].body)
        /\ p = o + 4 + Len(g) /\ Part(W, o + 4, g)
    BY <1>21 DEF Row, Reading, o, g, R, N
  <2>2. Part(V, o + 4, g)
    BY <1>19, <2>1
  <2>3. R + 1 \in 1 .. N /\ R < N + 1
    BY <1>6, <1>15, <2>1
  <2>4. sent'[R + 1] = sent[R + 1]
    BY <1>long, <2>3
  <2>5. reader'.part = "payload" /\ reader'.got = g /\ Len(received') = R /\ reader'.want = reader.want
    BY <1>1, <1>21 DEF g, R
  <2>6. /\ Len(received') < Len(sent')
        /\ reader'.want = 1 + Len(FrameOf[sent'[Len(received') + 1]].body)
        /\ p = ends[Len(received')] + 4 + Len(reader'.got)
        /\ Part(V, ends[Len(received')] + 4, reader'.got)
    BY <1>17, <1>long, <2>1, <2>2, <2>3, <2>4, <2>5
  <2>7. Reading(V, ends, p)'
    BY <2>5, <2>6 DEF Reading, Part
  <2> QED
    BY <1>5, <1>13, <1>14, <1>16, <2>7 DEF Row
<1>22. CASE reader.part \notin {"header", "payload"}
  <2>1. reader'.part \notin {"header", "payload"} /\ Len(received') = Len(received)
    BY <1>1, <1>22
  <2>2. reader.part = "none" => Len(received) = 0 /\ p = 0
    BY DEF Row, Reading
  <2>3. Reading(V, ends, p)'
    BY <1>1, <2>1, <2>2 DEF Reading
  <2> QED
    BY <1>5, <1>13, <1>14, <1>16, <2>3 DEF Row
<1> QED
  BY <1>20, <1>21, <1>22

(* One call of ::recv.                                                      *)
LEMMA RowReceive ==
  ASSUME TypeInv, NEW W, NEW off, NEW p \in Nat, Row(W, off, p), ReceiveSome
  PROVE  \E q \in Nat : Row(W, off, q)'
<1>types. /\ stream \in Seq(Byte) /\ sent \in Seq(Message) /\ received \in Seq(Frame)
          /\ reader.got \in Seq(Byte)
          /\ reader \in [part: {"none", "header", "payload", "ended"}, got: Seq(Byte), want: Nat]
  BY DEF TypeInv, ChannelType
<1>1. /\ reader.part \in {"header", "payload"} /\ Len(reader.got) < reader.want
      /\ UNCHANGED <<outbox, link, sending, sent, mixed>>
  BY ReceiveKinds
<1>2. PICK n : /\ n \in 1 .. Len(stream) /\ stream' = Rest(stream, n)
               /\ \/ /\ Len(Taken(n)) = reader.want /\ Filled(Taken(n))
                  \/ /\ Len(Taken(n)) < reader.want
                     /\ reader' = [reader EXCEPT !.got = Taken(n)] /\ received' = received
  BY ReceiveKinds, Zenon
<1> DEFINE g == reader.got
           a == Len(stream)
           N == Len(sent)
           e == off[N]
           R == Len(received)
           o == off[R]
           got == Taken(n)
<1>off. off \in [Nat -> Nat]
  BY Zenon DEF Row, FramesIn
<1>3. a \in Nat /\ N \in Nat /\ R \in Nat /\ Len(g) \in Nat /\ R <= N
  <2>1. a \in Nat /\ N \in Nat /\ R \in Nat /\ Len(g) \in Nat
    BY <1>types
  <2> QED
    BY <2>1 DEF Row, Returned
<1>4. e \in Nat /\ o \in Nat
  BY <1>3, <1>off
<1>5. n \in Nat /\ n \in 1 .. a
  <2> HIDE DEF a
  <2>1. n \in 1 .. a
    BY <1>2 DEF a
  <2> QED
    BY <1>3, <2>1
<1>6. p + a <= e /\ Part(W, p, stream)
  BY DEF Row, InFlight
(* Where the part that is read begins.                                      *)
<1>7. PICK b \in Nat : /\ p = b + Len(g) /\ Part(W, b, g)
                       /\ reader.part = "header" => b = o
                       /\ reader.part = "payload" => b = o + 4
  <2>1. CASE reader.part = "header"
    BY <1>4, <2>1 DEF Row, Reading
  <2>2. CASE reader.part = "payload"
    <3>1. o + 4 \in Nat
      BY <1>4
    <3>2. p = o + 4 + Len(g) /\ Part(W, o + 4, g)
      BY <2>2 DEF Row, Reading
    <3> QED
      BY <2>2, <3>1, <3>2
  <2> QED
    BY <1>1, <2>1, <2>2
<1> HIDE DEF g, a, N, e, R, o, got
<1>8. /\ got \in Seq(Byte) /\ Len(got) = Len(g) + n
      /\ stream' \in Seq(Byte) /\ Len(stream') = a - n
      /\ Part(W, b, got) /\ Part(W, b + (Len(g) + n), stream')
  <2>1. g \in Seq(Byte) /\ n \in 1 .. Len(stream) /\ Part(W, b + Len(g), stream)
    BY <1>types, <1>2, <1>6, <1>7, Zenon DEF g
  <2>2. /\ g \o SubSeq(stream, 1, n) \in Seq(Byte) /\ Rest(stream, n) \in Seq(Byte)
        /\ Len(g \o SubSeq(stream, 1, n)) = Len(g) + n /\ Len(Rest(stream, n)) = Len(stream) - n
        /\ Part(W, b, g \o SubSeq(stream, 1, n)) /\ Part(W, b + (Len(g) + n), Rest(stream, n))
    BY <1>types, <1>7, <2>1, Moves
  <2> QED
    BY <1>2, <2>2, Zenon DEF got, Taken, a, g
<1> DEFINE q == p + n
<1>9. q \in Nat /\ q = b + Len(got) /\ q = b + (Len(g) + n) /\ q + (a - n) = p + a /\ q <= e
  BY <1>3, <1>4, <1>5, <1>6, <1>7, <1>8
<1> HIDE DEF q
<1>10. FramesIn(W, off)'
  BY <1>1, RowFrames DEF Row
<1>11. InFlight(W, off, q)'
  <2>1. q + Len(stream') <= off[Len(sent')] /\ Part(W, q, stream')
    BY <1>1, <1>6, <1>8, <1>9, Zenon DEF e, N
  <2> QED
    BY <2>1, Zenon DEF InFlight, Part
<1>12. StillToSend(W, off, q)'
  <2>1. q + Len(stream') = p + Len(stream)
    BY <1>8, <1>9, Zenon DEF a
  <2> QED
    BY <1>1, <2>1, Zenon DEF Row, StillToSend, Part
<1>kept. received' = received => Returned'
  BY <1>1 DEF Row, Returned
(* Less than was asked for has come.                                        *)
<1>13. CASE Len(got) < reader.want /\ reader' = [reader EXCEPT !.got = got] /\ received' = received
  <2>1. reader'.got = got /\ reader'.part = reader.part /\ reader'.want = reader.want
    BY <1>types, <1>13
  <2>2. CASE reader.part = "header"
    <3>1. q = off[Len(received')] + Len(reader'.got) /\ Part(W, off[Len(received')], reader'.got)
      BY <1>7, <1>8, <1>9, <1>13, <2>1, <2>2, Zenon DEF o, R
    <3>2. Reading(W, off, q)'
      BY <2>1, <2>2, <3>1 DEF Reading, Part
    <3> QED
      BY <1>9, <1>10, <1>11, <1>12, <1>13, <1>kept, <3>2, Zenon DEF Row
  <2>3. CASE reader.part = "payload"
    <3>1. q = off[Len(received')] + 4 + Len(reader'.got) /\ Part(W, off[Len(received')] + 4, reader'.got)
      BY <1>7, <1>8, <1>9, <1>13, <2>1, <2>3, Zenon DEF o, R
    <3>2. /\ Len(received') < Len(sent')
          /\ reader'.want = 1 + Len(FrameOf[sent'[Len(received') + 1]].body)
      BY <1>1, <1>13, <2>1, <2>3 DEF Row, Reading
    <3>3. Reading(W, off, q)'
      BY <2>1, <2>3, <3>1, <3>2 DEF Reading, Part
    <3> QED
      BY <1>9, <1>10, <1>11, <1>12, <1>13, <1>kept, <3>3, Zenon DEF Row
  <2> QED
    BY <1>1, <2>2, <2>3
(* The header is there: it is that of the next frame sent.                  *)
<1>14. CASE reader.part = "header" /\ Len(got) = reader.want /\ Filled(got)
  <2>1. Len(got) = 4 /\ b = o
    BY <1>7, <1>14 DEF TypeInv, Sizes
  <2>2. R < N
    <3>1. o + 4 <= e
      BY <1>9, <2>1
    <3>2. R # N
      BY <1>4, <3>1 DEF o, e
    <3> QED
      BY <1>3, <3>2
  <2>3. R + 1 \in 1 .. N /\ (R + 1) - 1 = R
    BY <1>3, <2>2
  <2> DEFINE m == sent[R + 1]
             f == FrameOf[m]
             fb == FrameBytes(f)
             w == 1 + Len(f.body)
  <2>4. m \in Message
    BY <1>types, <2>3 DEF N
  <2>5. f \in Frame /\ Len(f.body) \in Nat
    BY <2>4, Framed
  <2>6. Len(fb) = 5 + Len(f.body) /\ \A j \in 1 .. 4 : fb[j] = LengthBytes(w)[j]
    <3> HIDE DEF f
    <3> QED
      BY <2>5, FrameParts
  <2>7. Part(W, o, fb)
    <3>1. Part(W, off[(R + 1) - 1], Content(R + 1))
      BY <2>3, Zenon DEF Row, FramesIn, N
    <3> QED
      BY <2>3, <3>1, Zenon DEF Content, o
  <2>8. w \in 1 .. MaxFrameSize
    <3>1. ~TooLarge(f)
      BY <1>types, <2>3 DEF TypeInv, Sizes, N
    <3>2. MaxFrameSize \in Nat
      BY ChannelAssumption DEF ChannelAssumption
    <3> HIDE DEF f
    <3> QED
      BY <2>5, <3>1, <3>2 DEF TooLarge
  <2>9. w \in Nat /\ w <= MaxInt
    <3>1. MaxFrameSize \in Nat /\ 4 + MaxFrameSize <= MaxInt
      BY ChannelAssumption DEF ChannelAssumption
    <3>2. MaxInt \in Nat
      BY SMT DEF MaxInt
    <3> HIDE DEF w
    <3> QED
      BY <2>8, <3>1, <3>2, SMT
  <2> HIDE DEF m, f, fb, w
  <2>10. LengthBytes(w) \in Seq(Byte) /\ Len(LengthBytes(w)) = 4 /\ LengthIn(LengthBytes(w)) = w
    BY <2>9, LengthRead
  <2>11. got = LengthBytes(w)
    <3>1. ASSUME NEW j \in 1 .. 4 PROVE got[j] = LengthBytes(w)[j]
      <4>1. got[j] = W[o + j]
        BY <1>8, <2>1 DEF Part
      <4>2. j \in 1 .. Len(fb)
        <5>1. Len(f.body) \in Nat
          BY <2>5
        <5> QED
          BY <2>6, <5>1
      <4>3. fb[j] = W[o + j]
        BY <2>7, <4>2 DEF Part
      <4> QED
        BY <2>6, <4>1, <4>3
    <3>2. got \in Seq(Byte) /\ Len(got) = Len(LengthBytes(w)) /\ LengthBytes(w) \in Seq(Byte)
      BY <1>8, <2>1, <2>10, Zenon
    <3>3. \A j \in 1 .. Len(got) : got[j] = LengthBytes(w)[j]
      BY <2>1, <3>1
    <3> QED
      BY <3>2, <3>3, SameBytes, Zenon
  <2>12. reader' = ReadPayload(w) /\ received' = received
    <3>1. LengthIn(got) = w
      BY <2>10, <2>11, Zenon
    <3>2. IF LengthIn(got) \in 1 .. MaxFrameSize THEN reader' = ReadPayload(LengthIn(got)) ELSE reader' = Ended
      BY <1>14 DEF Filled
    <3>3. received' = received
      BY <1>14 DEF Filled
    <3> QED
      BY <2>8, <3>1, <3>2, <3>3, Zenon
  <2>13. reader'.part = "payload" /\ reader'.got = <<>> /\ reader'.want = w
    BY <2>12 DEF ReadPayload
  <2>14. Reading(W, off, q)'
    <3>1. Len(received') = R /\ sent' = sent
      BY <1>1, <2>12 DEF R
    <3>2. Len(reader'.got) = 0
      BY <2>13
    <3>3. q = off[Len(received')] + 4 + Len(reader'.got)
      <4>1. q = o + 4 /\ o + 4 = o + 4 + 0
        BY <1>4, <1>9, <2>1
      <4> QED
        BY <3>1, <3>2, <4>1, Zenon DEF o
    <3>4. Part(W, off[Len(received')] + 4, reader'.got)
      BY <3>2 DEF Part
    <3>5. Len(received') < Len(sent') /\ reader'.want = 1 + Len(FrameOf[sent'[Len(received') + 1]].body)
      BY <2>2, <2>13, <3>1, Zenon DEF N, w, f, m
    <3> QED
      BY <2>13, <3>3, <3>4, <3>5 DEF Reading, Part
  <2> QED
    BY <1>9, <1>10, <1>11, <1>12, <1>kept, <2>12, <2>14, Zenon DEF Row
(* The payload is there: recv returns that frame.                           *)
<1>15. CASE reader.part = "payload" /\ Len(got) = reader.want /\ Filled(got)
  <2>1. b = o + 4 /\ R < N /\ reader.want = 1 + Len(FrameOf[sent[R + 1]].body)
    BY <1>7, <1>15 DEF Row, Reading, R, N
  <2>2. R + 1 \in 1 .. N /\ (R + 1) - 1 = R
    BY <1>3, <2>1
  <2> DEFINE m == sent[R + 1]
             f == FrameOf[m]
             fb == FrameBytes(f)
             h == f.body
  <2>3. m \in Message
    BY <1>types, <2>2 DEF N
  <2>4. f \in Frame /\ Len(h) \in Nat
    BY <2>3, Framed
  <2>5. Len(fb) = 5 + Len(h) /\ fb[5] = f.type /\ \A j \in 1 .. Len(h) : fb[5 + j] = h[j]
    <3> HIDE DEF f
    <3> QED
      BY <2>4, FrameParts
  <2>6. f = [type |-> f.type, body |-> h] /\ h \in Seq(Byte)
    <3> HIDE DEF f
    <3> QED
      BY <2>4 DEF Frame
  <2>7. Part(W, o, fb) /\ off[R + 1] = o + Len(fb)
    <3>1. Part(W, off[(R + 1) - 1], Content(R + 1)) /\ off[R + 1] = off[(R + 1) - 1] + Len(Content(R + 1))
      BY <2>2, Zenon DEF Row, FramesIn, N
    <3> QED
      BY <2>2, <3>1, Zenon DEF Content, o
  <2>8. Len(got) = 1 + Len(h)
    BY <1>15, <2>1
  <2> HIDE DEF m, f, fb, h
  <2>9. ASSUME NEW j \in 1 .. 1 + Len(h) PROVE got[j] = fb[4 + j]
    <3>1. got[j] = W[o + 4 + j]
      BY <1>8, <2>1, <2>8 DEF Part
    <3>2. 4 + j \in 1 .. Len(fb)
      BY <2>4, <2>5
    <3>3. fb[4 + j] = W[o + (4 + j)]
      BY <2>7, <3>2 DEF Part
    <3>4. o + (4 + j) = o + 4 + j
      BY <1>4
    <3> QED
      BY <3>1, <3>3, <3>4
  <2>10. /\ reader' = ReadHeader /\ Tail(got) \in Seq(Byte) /\ Len(Tail(got)) = Len(got) - 1
         /\ \A j \in 1 .. Len(got) - 1 : Tail(got)[j] = got[j + 1]
         /\ received' = Append(received, [type |-> got[1], body |-> Tail(got)])
    BY <1>8, <1>15, FilledKinds
  <2>11. got[1] = f.type
    <3>1. 1 \in 1 .. 1 + Len(h) /\ 4 + 1 = 5
      BY <2>4
    <3> QED
      BY <2>5, <2>9, <3>1
  <2>12. Tail(got) = h
    <3>1. Len(Tail(got)) = Len(h)
      BY <2>4, <2>8, <2>10
    <3>2. ASSUME NEW j \in 1 .. Len(h) PROVE Tail(got)[j] = h[j]
      <4>1. j \in 1 .. Len(got) - 1 /\ j + 1 \in 1 .. 1 + Len(h) /\ 4 + (j + 1) = 5 + j
        BY <2>4, <2>8
      <4> QED
        BY <2>5, <2>9, <2>10, <4>1
    <3> QED
      BY <2>6, <2>10, <3>1, <3>2
  <2>13. received' = Append(received, f)
    BY <2>6, <2>10, <2>11, <2>12, Zenon
  <2>14. Len(received') = R + 1 /\ received'[R + 1] = f /\ \A i \in 1 .. R : received'[i] = received[i]
    BY <1>types, <2>13 DEF R
  <2>15. Returned'
    <3>1. R + 1 <= N
      BY <2>2
    <3>2. ASSUME NEW i \in 1 .. R + 1 PROVE received'[i] = FrameOf[sent[i]]
      <4>1. CASE i = R + 1
        BY <2>14, <4>1 DEF f, m
      <4>2. CASE i \in 1 .. R
        BY <2>14, <4>2 DEF Row, Returned, R
      <4>3. i = R + 1 \/ i \in 1 .. R
        BY <1>3
      <4> QED
        BY <4>1, <4>2, <4>3, Zenon
    <3> QED
      BY <1>1, <2>14, <3>1, <3>2 DEF Returned, N
  <2>16. Reading(W, off, q)'
    <3>1. reader'.part = "header" /\ reader'.got = <<>>
      BY <2>10 DEF ReadHeader
    <3>2. Len(reader'.got) = 0
      BY <3>1
    <3>3. q = off[Len(received')] + Len(reader'.got)
      <4>1. q = o + Len(fb) + 0
        BY <1>4, <1>9, <2>1, <2>4, <2>5, <2>8
      <4> QED
        BY <2>7, <2>14, <3>2, <4>1, Zenon
    <3>4. Part(W, off[Len(received')], reader'.got)
      BY <3>2 DEF Part
    <3> QED
      BY <3>1, <3>3, <3>4 DEF Reading, Part
  <2> QED
    BY <1>9, <1>10, <1>11, <1>12, <2>15, <2>16, Zenon DEF Row
<1> QED
  BY <1>1, <1>2, <1>13, <1>14, <1>15 DEF got

LEMMA RowStep == TypeInv /\ RowInv /\ [ChannelNext]_channelVars => RowInv'
<1> SUFFICES ASSUME TypeInv, RowInv, [ChannelNext]_channelVars, ~mixed'
             PROVE  \E W, off : \E p \in Nat : Row(W, off, p)'
  BY Zenon DEF RowInv
<1>1. ~mixed
  BY DEF ChannelNext, channelVars, Bind, Connect, Accept, CloseSender, CloseReceiver, Refuse, Send,
         SendSome, ReceiveSome, ReceiveEnd
<1> PICK W, off, p : p \in Nat /\ Row(W, off, p)
  BY <1>1, Zenon DEF RowInv
<1>p. p \in Nat /\ Row(W, off, p)
  OBVIOUS
<1>2. ASSUME Bind \/ Connect \/ Accept \/ UNCHANGED channelVars \/ ReceiveEnd \/ \E t \in Threads : Refuse(t)
      PROVE  Row(W, off, p)'
  <2>1. UNCHANGED <<sending, stream, sent, received>>
    BY <1>2 DEF Bind, Connect, Accept, channelVars, ReceiveEnd, Refuse
  <2>2. link' # "closed" => link # "closed"
    BY <1>2 DEF Bind, Connect, Accept, channelVars, ReceiveEnd, Refuse
  <2>3. \/ UNCHANGED reader
        \/ reader' = Ended
        \/ reader.part = "none" /\ reader' = ReadHeader
    BY <1>2 DEF Bind, Connect, Accept, channelVars, ReceiveEnd, Refuse
  <2> QED
    BY <1>p, <2>1, <2>2, <2>3, RowKept, Zenon
<1>3. ASSUME CloseSender PROVE Row(W, off, p)'
  <2>1. PICK n \in 0 .. Len(stream) : stream' = SubSeq(stream, 1, n)
    BY <1>3 DEF CloseSender
  <2>2. link' = "closed" /\ UNCHANGED <<sent, received>> /\ UNCHANGED reader
    BY <1>3 DEF CloseSender
  <2> QED
    BY <1>p, <2>1, <2>2, RowCut, Zenon
<1>4. ASSUME CloseReceiver PROVE Row(W, off, p)'
  <2>1. stream' = SubSeq(stream, 1, 0) /\ 0 \in 0 .. Len(stream)
    <3>1. stream \in Seq(Byte) /\ stream' = <<>>
      BY <1>4 DEF CloseReceiver, TypeInv, ChannelType
    <3>2. Len(stream) \in Nat /\ SubSeq(stream, 1, 0) = <<>>
      BY <3>1
    <3> QED
      BY <3>1, <3>2
  <2>2. link' = "closed" /\ UNCHANGED <<sent, received>> /\ reader' = Ended
    BY <1>4 DEF CloseReceiver
  <2> QED
    BY <1>p, <2>1, <2>2, RowCut, Zenon
<1>5. ASSUME NEW t \in Threads, Send(t) PROVE \E V, ends : Row(V, ends, p)'
  <2>1. \A u \in Threads : sending[u] = <<>>
    BY <1>5 DEF Send
  <2> QED
    BY <1>5, <1>p, <2>1, RowSend, Zenon
<1>6. ASSUME NEW t \in Threads, SendSome(t) PROVE Row(W, off, p)'
  BY <1>6, <1>p, RowSendSome, Zenon
<1>7. ASSUME ReceiveSome PROVE \E q \in Nat : Row(W, off, q)'
  BY <1>7, <1>p, RowReceive, Zenon
<1>8. \/ Bind \/ Connect \/ Accept \/ UNCHANGED channelVars \/ ReceiveEnd \/ \E t \in Threads : Refuse(t)
      \/ CloseSender \/ CloseReceiver \/ ReceiveSome
      \/ \E t \in Threads : Send(t)
      \/ \E t \in Threads : SendSome(t)
  BY Zenon DEF ChannelNext
<1>9. CASE Bind \/ Connect \/ Accept \/ UNCHANGED channelVars \/ ReceiveEnd \/ \E t \in Threads : Refuse(t)
  BY <1>2, <1>9, <1>p, Zenon
<1>10. CASE CloseSender \/ CloseReceiver \/ ReceiveSome
  BY <1>3, <1>4, <1>7, <1>10, <1>p, Zenon
<1>11. CASE \E t \in Threads : Send(t)
  BY <1>5, <1>11, <1>p, Zenon
<1>12. CASE \E t \in Threads : SendSome(t)
  BY <1>6, <1>12, <1>p, Zenon
<1> QED
  BY <1>8, <1>9, <1>10, <1>11, <1>12, Zenon

(* What recv returns are the frames given to send, in their order and none  *)
(* twice, for every set of frames and every way the calls split them, as    *)
(* long as no thread begins a frame inside another's.                       *)
THEOREM FramesKept == ChannelSpec => []FramesInOrder
<1>1. TypeInv /\ RowInv => FramesInOrder
  <2> SUFFICES ASSUME TypeInv, RowInv, ~mixed
               PROVE  /\ Len(received) <= Len(sent)
                      /\ \A i \in DOMAIN received : received[i] = FrameOf[sent[i]]
    BY Zenon DEF FramesInOrder
  <2>1. Returned
    BY Zenon DEF RowInv, Row
  <2>2. DOMAIN received = 1 .. Len(received)
    BY DEF TypeInv, ChannelType
  <2> QED
    BY <2>1, <2>2, Zenon DEF Returned
<1> QED
  BY <1>1, TypeStart, TypeStep, RowStart, RowStep, PTL DEF ChannelSpec
=============================================================================
