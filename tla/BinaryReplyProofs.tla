-------------------------- MODULE BinaryReplyProofs -------------------------
(****************************************************************************)
(* Proof that the binary server answers in order, whatever its client is.   *)
(*                                                                          *)
(* The bytes on their way to the worker, and what their client has still to *)
(* write of its packet, are whole packets one after the other, and what is  *)
(* owed beyond the bytes already written as replies is what these packets   *)
(* bring.  The sequences of packets are not counted but generated: Asked is *)
(* the least relation between packets and replies that is closed under one  *)
(* more packet, so that a property of all of it needs no induction.         *)
(****************************************************************************)
EXTENDS BinaryProofs, WellFoundedInduction

----------------------------------------------------------------------------
(* Requests and the replies owed for them                                   *)

(* A client's packet with what it is to bring: the one reply to a payload,  *)
(* nothing for a malformed packet.                                          *)
TheReply(p) == CHOOSE r \in Replies(p) : TRUE
Pairs ==
  {<<Frame(Payload(q[1], q[2])), Frame(TheReply(Payload(q[1], q[2])))>> : q \in Codecs \X States}
    \cup {<<m, <<>>>> : m \in Malformations}

(* The least relation between packets one after the other and the replies   *)
(* to them.                                                                 *)
AddsPairs(R) ==
  /\ <<<<>>, <<>>>> \in R
  /\ \A w \in Pairs, z \in R : <<w[1] \o z[1], w[2] \o z[2]>> \in R
Asked == {z \in Bytes \X Bytes : \A R \in SUBSET (Bytes \X Bytes) : AddsPairs(R) => z \in R}

(* The front packet of s is asked first and its reply is Frame(q).          *)
FrontGone(s, x, r, q) ==
  /\ 2 + Length(s) \in 0 .. Len(s)
  /\ \E t \in Bytes : r = Frame(q) \o t /\ <<Drop(s, 2 + Length(s)) \o x, t>> \in Asked

(* Beyond the bytes that are already replies, owed holds what the packets   *)
(* asked bring.                                                             *)
Due(asked, replied, owed) == \E r \in Bytes : owed = replied \o r /\ <<asked, r>> \in Asked

(* What a connection holds with u still to be written by its client: the    *)
(* packets, and what is owed beyond the bytes that are already replies.     *)
Follows(k, u) ==
  /\ k.client = "none" => /\ k.input = <<>> /\ k.up = <<>> /\ k.down = <<>>
                          /\ k.output = <<>> /\ k.owed = <<>>
  /\ k.client = "open" /\ k.whole =>
       \E r \in Bytes :
         /\ k.owed = (k.down \o k.output) \o r
         /\ k.server # "closed" => <<(k.input \o k.up) \o u, r>> \in Asked

(* Joining and cutting bytes                                                *)

LEMMA ByteSeq ==
  \A a \in Bytes : /\ Len(a) \in Nat /\ a \in Seq(0 .. Byte - 1)
                   /\ \A i \in 1 .. Len(a) : a[i] \in 0 .. Byte - 1
BY LenProperties, ElementOfSeq DEF Bytes

LEMMA JoinedAt ==
  ASSUME NEW a \in Bytes, NEW b \in Bytes
  PROVE  /\ \A i \in 1 .. Len(a) : (a \o b)[i] = a[i]
         /\ \A i \in Len(a) + 1 .. Len(a) + Len(b) : (a \o b)[i] = b[i - Len(a)]
<1>1. Len(a) \in Nat /\ Len(b) \in Nat
  BY ByteSeq
<1>2. \A i \in 1 .. Len(a) + Len(b) : (a \o b)[i] = IF i <= Len(a) THEN a[i] ELSE b[i - Len(a)]
  BY ConcatProperties DEF Bytes
<1> QED
  BY <1>1, <1>2

LEMMA SameFront ==
  ASSUME NEW S, NEW f \in Seq(S), NEW g \in Seq(S), NEW h \in Seq(S), f \o g = f \o h
  PROVE  g = h
BY ConcatSimplifications

LEMMA Joined ==
  \A a, b \in Bytes : a \o b \in Bytes /\ Len(a \o b) = Len(a) + Len(b)
BY ConcatProperties DEF Bytes

LEMMA Grouped ==
  ASSUME NEW a \in Bytes, NEW b \in Bytes, NEW c \in Bytes
  PROVE  (a \o b) \o c = a \o (b \o c)
<1>1. a \in Seq(0 .. Byte - 1) /\ b \in Seq(0 .. Byte - 1) /\ c \in Seq(0 .. Byte - 1)
  BY DEF Bytes
<1> QED
  BY <1>1

LEMMA Regrouped ==
  \A a, b, c \in Bytes : (a \o b) \o c = a \o (b \o c)
BY Grouped

(* The same fact under a name, to be cited for three given sequences.       *)
Groups(a, b, c) == (a \o b) \o c = a \o (b \o c)

LEMMA Grouping == \A a, b, c \in Bytes : Groups(a, b, c)
BY Regrouped DEF Groups

LEMMA WithNothing ==
  <<>> \in Bytes /\ \A a \in Bytes : a \o <<>> = a /\ <<>> \o a = a
BY ConcatEmptySeq DEF Bytes

(* What is taken from the front and what is left.                           *)
LEMMA Cut ==
  ASSUME NEW a \in Bytes, NEW n \in 0 .. Len(a)
  PROVE  /\ SubSeq(a, 1, n) \in Bytes /\ Drop(a, n) \in Bytes
         /\ Len(SubSeq(a, 1, n)) = n /\ Len(Drop(a, n)) = Len(a) - n
         /\ a = SubSeq(a, 1, n) \o Drop(a, n)
<1> DEFINE V == 0 .. Byte - 1
           p == SubSeq(a, 1, n)
           q == Drop(a, n)
<1>1. n \in Nat /\ n <= Len(a) /\ Len(a) \in Nat /\ \A i \in 1 .. Len(a) : a[i] \in V
  BY ByteSeq
<1>2. p \in Seq(V) /\ Len(p) = n /\ \A i \in 1 .. n : p[i] = a[i]
  <2>1. \A i \in 1 .. n : a[i] \in V
    BY <1>1
  <2> HIDE DEF V
  <2>2. /\ p \in Seq(V) /\ Len(p) = IF 1 <= n THEN n - 1 + 1 ELSE 0
        /\ \A i \in 1 .. n - 1 + 1 : p[i] = a[1 + i - 1]
    BY <1>1, <2>1, SubSeqProperties
  <2> HIDE DEF p
  <2> QED
    BY <1>1, <2>2
<1>3. /\ q \in Seq(V) /\ Len(q) = Len(a) - n
      /\ \A i \in 1 .. Len(a) - n : q[i] = a[n + i]
  <2>1. \A i \in n + 1 .. Len(a) : a[i] \in V
    BY <1>1
  <2> HIDE DEF V
  <2>2. /\ q \in Seq(V) /\ Len(q) = IF n + 1 <= Len(a) THEN Len(a) - (n + 1) + 1 ELSE 0
        /\ \A i \in 1 .. Len(a) - (n + 1) + 1 : q[i] = a[n + 1 + i - 1]
    BY <1>1, <2>1, SubSeqProperties DEF Drop
  <2> HIDE DEF q
  <2> QED
    BY <1>1, <2>2
<1>4. p \in Bytes /\ q \in Bytes
  BY <1>2, <1>3 DEF Bytes
<1> HIDE DEF p, q, V
<1>5. p \o q \in Bytes /\ Len(p \o q) = Len(a)
  <2>1. p \o q \in Bytes /\ Len(p \o q) = Len(p) + Len(q)
    BY <1>4, Joined
  <2> QED
    BY <1>1, <1>2, <1>3, <2>1
<1>6. ASSUME NEW i \in 1 .. Len(a) PROVE (p \o q)[i] = a[i]
  <2>1. CASE i <= n
    <3>1. i \in 1 .. n
      BY <1>1, <2>1
    <3> QED
      BY <1>2, <1>4, <3>1, JoinedAt
  <2>2. CASE i > n
    <3>1. i \in n + 1 .. n + (Len(a) - n) /\ i - n \in 1 .. Len(a) - n /\ n + (i - n) = i
      BY <1>1, <2>2
    <3>2. \A j \in Len(p) + 1 .. Len(p) + Len(q) : (p \o q)[j] = q[j - Len(p)]
      BY <1>4, JoinedAt
    <3>4. (p \o q)[i] = q[i - n]
      BY <1>2, <1>3, <3>1, <3>2
    <3>3. q[i - n] = a[n + (i - n)]
      BY <1>3, <3>1
    <3> QED
      BY <3>1, <3>3, <3>4
  <2>3. i <= n \/ i > n
    BY <1>1
  <2> QED
    BY <2>1, <2>2, <2>3, Zenon
<1>7. a = p \o q
  BY <1>5, <1>6, SeqEqual DEF Bytes
<1> QED
  BY <1>2, <1>3, <1>4, <1>7 DEF p, q

(* Of the same bytes cut in two ways the longer front begins with the       *)
(* shorter one.                                                             *)
LEMMA CutTwice ==
  ASSUME NEW a \in Bytes, NEW b \in Bytes, NEW f \in Bytes, NEW g \in Bytes,
         a \o b = f \o g, Len(f) <= Len(a)
  PROVE  SubSeq(a, 1, Len(f)) = f /\ Drop(a, Len(f)) \o b = g
<1> DEFINE n == Len(f)
           p == SubSeq(a, 1, n)
           q == Drop(a, n)
<1>1. n \in 0 .. Len(a)
  BY ByteSeq
<1>2. p \in Bytes /\ q \in Bytes /\ Len(p) = n /\ a = p \o q
  BY <1>1, Cut
<1> HIDE DEF p, q
<1>3. p \o (q \o b) = f \o g /\ q \o b \in Bytes
  <2>1. (p \o q) \o b = p \o (q \o b)
    <3>1. p \in Bytes /\ q \in Bytes
      BY <1>2
    <3>2. Groups(p, q, b)
      BY <3>1, Grouping
    <3> QED
      BY <3>2 DEF Groups
  <2>2. a \o b = (p \o q) \o b
    BY <1>2, Zenon
  <2>3. q \o b \in Bytes
    BY <1>2, Joined
  <2> QED
    BY <2>1, <2>2, <2>3, Zenon
<1> DEFINE h == q \o b
<1> HIDE DEF h
<1>4. p \o h = f \o g /\ h \in Bytes /\ Len(p) = Len(f)
  BY <1>2, <1>3 DEF h, n
<1>5. \A i \in 1 .. Len(f) : p[i] = f[i]
  <2>1. \A i \in 1 .. Len(f) : (p \o h)[i] = p[i] /\ (f \o g)[i] = f[i]
    BY <1>2, <1>4, JoinedAt
  <2> QED
    BY <1>4, <2>1
<1>6. p = f
  BY <1>2, <1>4, <1>5, SeqEqual DEF Bytes
<1>7. f \o h = f \o g
  BY <1>4, <1>6
<1>8. h = g
  BY <1>4, <1>7, SameFront DEF Bytes
<1> QED
  BY <1>6, <1>8 DEF p, q, h, n

(* What is taken from the front is taken from the first sequence.           *)
LEMMA DropFirst ==
  ASSUME NEW b \in Bytes, NEW c \in Bytes, NEW n \in 0 .. Len(b)
  PROVE  Drop(b \o c, n) = Drop(b, n) \o c
<1> DEFINE p == SubSeq(b, 1, n)
           q == Drop(b, n)
           o == b \o c
           e == q \o c
<1>1. p \in Bytes /\ q \in Bytes /\ Len(p) = n /\ b = p \o q
  BY Cut
<1>2. o \in Bytes /\ e \in Bytes
  BY <1>1, Joined
<1>3. o = p \o e
  <2>1. p \in Bytes /\ q \in Bytes
    BY <1>1
  <2> HIDE DEF p, q
  <2>2. (p \o q) \o c = p \o (q \o c)
    <3>1. Groups(p, q, c)
      BY <2>1, Grouping
    <3> QED
      BY <3>1 DEF Groups
  <2>3. b = p \o q
    BY <1>1, Zenon
  <2>4. o = (p \o q) \o c
    BY <2>3, Zenon DEF o
  <2> QED
    BY <2>2, <2>4, Zenon DEF e
<1> HIDE DEF p, q, o, e
<1>4. Len(o) = Len(p) + Len(e) /\ Len(e) \in Nat /\ Len(p) \in Nat
  BY <1>1, <1>2, <1>3, Joined, ByteSeq
<1>5. Len(p) <= Len(o) /\ Len(p) \in 0 .. Len(o)
  BY <1>4
<1>6. o \o <<>> = p \o e /\ <<>> \in Bytes
  BY <1>2, <1>3, WithNothing
<1>7. Drop(o, Len(p)) \o <<>> = e
  BY <1>1, <1>2, <1>5, <1>6, CutTwice
<1>8. Drop(o, Len(p)) \in Bytes
  BY <1>2, <1>5, Cut
<1>9. Drop(o, n) = e
  BY <1>1, <1>7, <1>8, WithNothing
<1> QED
  BY <1>9 DEF o, e, q

DropsFront(b, c, d, n) == Drop((b \o c) \o d, n) = (Drop(b, n) \o c) \o d

LEMMA DropFront ==
  ASSUME NEW b \in Bytes, NEW c \in Bytes, NEW d \in Bytes, NEW n \in 0 .. Len(b)
  PROVE  DropsFront(b, c, d, n)
<1> DEFINE o == b \o c
<1>1. o \in Bytes /\ Len(o) = Len(b) + Len(c) /\ Len(b) \in Nat /\ Len(c) \in Nat
  BY Joined, ByteSeq
<1>2. Drop(o, n) = Drop(b, n) \o c
  BY DropFirst
<1> HIDE DEF o
<1>3. n \in 0 .. Len(o)
  BY <1>1
<1>4. Drop(o \o d, n) = Drop(o, n) \o d
  BY <1>1, <1>3, DropFirst
<1> QED
  BY <1>2, <1>4, Zenon DEF o, DropsFront

(* The least relation                                                       *)

LEMMA OwnReply ==
  ASSUME NEW type \in Codecs, NEW s \in States
  PROVE  Payload(type, player_mutate(s)) \in Replies(Payload(type, s))
<1> DEFINE q == <<type, s>>
<1>1. q \in {r \in Codecs \X States : Payload(r[1], r[2]) = Payload(type, s)}
  OBVIOUS
<1>2. Payload(q[1], player_mutate(q[2])) = Payload(type, player_mutate(s))
  OBVIOUS
<1> HIDE DEF q
<1> QED
  BY <1>1, <1>2 DEF Replies

LEMMA PairTyped ==
  ASSUME NEW w \in Pairs
  PROVE  /\ w[1] \in Bytes /\ w[2] \in Bytes
         /\ \/ \E type \in Codecs, s \in States :
                 /\ w[1] = Frame(Payload(type, s))
                 /\ w[2] = Frame(TheReply(Payload(type, s)))
            \/ w[1] \in Malformations /\ w[2] = <<>>
<1>1. CASE w \in {<<m, <<>>>> : m \in Malformations}
  BY <1>1, MalformationsTyped, EmptyTyped
<1>2. CASE w \in {<<Frame(Payload(q[1], q[2])), Frame(TheReply(Payload(q[1], q[2])))>> :
                    q \in Codecs \X States}
  <2>1. PICK type \in Codecs, s \in States :
          w = <<Frame(Payload(type, s)), Frame(TheReply(Payload(type, s)))>>
    BY <1>2
  <2>2. Frame(Payload(type, s)) \in Bytes
    <3>1. Payload(type, s) \in Bytes /\ Len(Payload(type, s)) \in 0 .. 15
      BY PayloadTyped
    <3> QED
      BY <3>1, FrameTyped
  <2>3. TheReply(Payload(type, s)) \in Replies(Payload(type, s))
    <3>1. Payload(type, player_mutate(s)) \in Replies(Payload(type, s))
      BY OwnReply
    <3> QED
      BY <3>1 DEF TheReply
  <2>4. Frame(TheReply(Payload(type, s))) \in Bytes
    BY <2>3, ReplyTyped
  <2> QED
    BY <2>1, <2>2, <2>4
<1> QED
  BY <1>1, <1>2 DEF Pairs

LEMMA AskedAdds ==
  /\ <<<<>>, <<>>>> \in Asked
  /\ \A w \in Pairs, z \in Asked : <<w[1] \o z[1], w[2] \o z[2]>> \in Asked
<1>1. <<<<>>, <<>>>> \in Asked
  BY EmptyTyped DEF Asked, AddsPairs
<1>2. ASSUME NEW w \in Pairs, NEW z \in Asked
      PROVE  <<w[1] \o z[1], w[2] \o z[2]>> \in Asked
  <2>1. z[1] \in Bytes /\ z[2] \in Bytes
    BY DEF Asked
  <2>2. w[1] \o z[1] \in Bytes /\ w[2] \o z[2] \in Bytes
    BY <2>1, PairTyped, Joined
  <2>3. \A R \in SUBSET (Bytes \X Bytes) :
          AddsPairs(R) => <<w[1] \o z[1], w[2] \o z[2]>> \in R
    BY DEF Asked, AddsPairs
  <2> QED
    BY <2>2, <2>3 DEF Asked
<1> QED
  BY <1>1, <1>2

LEMMA AskedLeast ==
  ASSUME NEW R \in SUBSET (Bytes \X Bytes), AddsPairs(R)
  PROVE  Asked \subseteq R
BY DEF Asked

(* It is empty, or begins with a packet.                                    *)
LEMMA AskedFront ==
  ASSUME NEW s \in Bytes, NEW r \in Bytes, <<s, r>> \in Asked
  PROVE  \/ s = <<>> /\ r = <<>>
         \/ \E w \in Pairs, z \in Asked : s = w[1] \o z[1] /\ r = w[2] \o z[2]
<1> DEFINE R == {y \in Asked :
                   \/ y = <<<<>>, <<>>>>
                   \/ \E w \in Pairs, z \in Asked : y = <<w[1] \o z[1], w[2] \o z[2]>>}
<1>1. R \in SUBSET (Bytes \X Bytes)
  BY DEF Asked
<1>2. AddsPairs(R)
  <2>1. <<<<>>, <<>>>> \in R
    BY AskedAdds
  <2>2. \A w \in Pairs, z \in R : <<w[1] \o z[1], w[2] \o z[2]>> \in R
    BY AskedAdds
  <2> HIDE DEF R
  <2> QED
    BY <2>1, <2>2 DEF AddsPairs
<1>3. <<s, r>> \in R
  <2> HIDE DEF R
  <2> QED
    BY <1>1, <1>2, AskedLeast
<1> QED
  BY <1>3

LEMMA AskedAround ==
  ASSUME NEW w \in Pairs, NEW z \in Asked, NEW v \in Pairs,
         <<z[1] \o v[1], z[2] \o v[2]>> \in Asked
  PROVE  <<(w[1] \o z[1]) \o v[1], (w[2] \o z[2]) \o v[2]>> \in Asked
<1>1. w[1] \in Bytes /\ z[1] \in Bytes /\ v[1] \in Bytes
  BY PairTyped DEF Asked
<1>2. w[2] \in Bytes /\ z[2] \in Bytes /\ v[2] \in Bytes
  BY PairTyped DEF Asked
<1>3. (w[1] \o z[1]) \o v[1] = w[1] \o (z[1] \o v[1])
  <2>1. Groups(w[1], z[1], v[1])
    BY <1>1, Grouping
  <2> QED
    BY <2>1 DEF Groups
<1>4. (w[2] \o z[2]) \o v[2] = w[2] \o (z[2] \o v[2])
  <2>1. Groups(w[2], z[2], v[2])
    BY <1>2, Grouping
  <2> QED
    BY <2>1 DEF Groups
<1>5. <<w[1] \o (z[1] \o v[1]), w[2] \o (z[2] \o v[2])>> \in Asked
  BY AskedAdds
<1> QED
  BY <1>3, <1>4, <1>5

(* One more packet at the end owes one more reply at the end.               *)
LEMMA AskedMore ==
  ASSUME NEW s \in Bytes, NEW r \in Bytes, <<s, r>> \in Asked, NEW v \in Pairs
  PROVE  <<s \o v[1], r \o v[2]>> \in Asked
<1> DEFINE R == {y \in Asked : <<y[1] \o v[1], y[2] \o v[2]>> \in Asked}
<1>1. R \in SUBSET (Bytes \X Bytes)
  BY DEF Asked
<1>2. v[1] \in Bytes /\ v[2] \in Bytes
  BY PairTyped
<1>3. AddsPairs(R)
  <2>1. <<<<>>, <<>>>> \in R
    <3>1. <<v[1] \o <<>>, v[2] \o <<>>>> \in Asked
      BY AskedAdds
    <3> QED
      BY <1>2, <3>1, WithNothing, AskedAdds
  <2>2. ASSUME NEW w \in Pairs, NEW z \in R PROVE <<w[1] \o z[1], w[2] \o z[2]>> \in R
    BY AskedAround, AskedAdds
  <2> HIDE DEF R
  <2> QED
    BY <2>1, <2>2 DEF AddsPairs
<1>4. <<s, r>> \in R
  <2> HIDE DEF R
  <2> QED
    BY <1>1, <1>3, AskedLeast
<1> QED
  BY <1>4

(* What packets hold                                                        *)

LEMMA Wrapped ==
  ASSUME NEW S, NEW a \in S, NEW b \in S, NEW t \in Seq(S), NEW w, w = <<a>> \o t \o <<b>>
  PROVE  /\ Len(w) = Len(t) + 2 /\ w[1] = a /\ w[Len(t) + 2] = b
         /\ \A i \in 1 .. Len(t) : w[i + 1] = t[i]
OBVIOUS

LEMMA PayloadFields ==
  ASSUME NEW type \in Codecs, NEW s \in States
  PROVE  \E n \in 1 .. 2 : LET p == Payload(type, s)
                         IN Len(p) = n + 2 /\ p[1] = type /\ p[n + 1] = s.x /\ p[n + 2] = s.hp
<1> DEFINE body == IF type = RAW THEN <<s.x>> ELSE PackUint(s.x)
           V == 0 .. Byte - 1
           p == Payload(type, s)
<1>1. s.x \in V /\ s.hp \in V /\ type \in V
  BY BinaryAssumption DEF States, RAW, MSGPACK
<1>2. body \in Seq(V) /\ \E n \in 1 .. 2 : Len(body) = n /\ body[n] = s.x
  <2>1. body = <<s.x>> \/ body = <<Byte - 1, s.x>>
    BY DEF PackUint
  <2>2. Byte - 1 \in V
    BY BinaryAssumption
  <2> HIDE DEF body, V
  <2>3. CASE body = <<s.x>>
    BY <1>1, <2>3
  <2>4. CASE body = <<Byte - 1, s.x>>
    BY <1>1, <2>2, <2>4
  <2> QED
    BY <2>1, <2>3, <2>4
<1>3. PICK n \in 1 .. 2 : Len(body) = n /\ body[n] = s.x
  BY <1>2
<1>4. p = <<type>> \o body \o <<s.hp>>
  BY DEF Payload
<1> HIDE DEF body, V, p
<1> DEFINE hp == s.hp
<1> HIDE DEF hp
<1>7. p = <<type>> \o body \o <<hp>> /\ hp \in V
  BY <1>1, <1>4 DEF hp
<1>5. /\ Len(p) = Len(body) + 2 /\ p[1] = type /\ p[Len(body) + 2] = hp
      /\ \A i \in 1 .. Len(body) : p[i + 1] = body[i]
  BY <1>1, <1>2, <1>7, Wrapped
<1>6. Len(p) = n + 2 /\ p[1] = type /\ p[n + 1] = s.x /\ p[n + 2] = s.hp
  BY <1>3, <1>5 DEF hp
<1> QED
  BY <1>3, <1>6 DEF p

(* A payload tells its type and its state, so it has one reply.             *)
LEMMA PayloadTells ==
  ASSUME NEW t \in Codecs, NEW s \in States, NEW u \in Codecs, NEW v \in States,
         Payload(t, s) = Payload(u, v)
  PROVE  t = u /\ s = v
<1> DEFINE p == Payload(t, s)
<1>2. PICK m \in 1 .. 2 : Len(p) = m + 2 /\ p[1] = t /\ p[m + 1] = s.x /\ p[m + 2] = s.hp
  BY PayloadFields
<1>3. PICK n \in 1 .. 2 : Len(p) = n + 2 /\ p[1] = u /\ p[n + 1] = v.x /\ p[n + 2] = v.hp
  BY PayloadFields
<1> HIDE DEF p
<1>4. m = n
  BY <1>2, <1>3
<1>1. t = u /\ s.x = v.x /\ s.hp = v.hp
  BY <1>2, <1>3, <1>4
<1> QED
  BY <1>1 DEF States

LEMMA OneReply ==
  ASSUME NEW type \in Codecs, NEW s \in States, NEW r \in Replies(Payload(type, s))
  PROVE  r = TheReply(Payload(type, s))
<1>1. \A q \in Replies(Payload(type, s)) : q = Payload(type, player_mutate(s))
  <2> SUFFICES ASSUME NEW q \in Replies(Payload(type, s))
               PROVE  q = Payload(type, player_mutate(s))
    OBVIOUS
  <2>1. PICK z \in Codecs \X States :
          Payload(z[1], z[2]) = Payload(type, s) /\ q = Payload(z[1], player_mutate(z[2]))
    BY DEF Replies
  <2>2. z[1] \in Codecs /\ z[2] \in States
    OBVIOUS
  <2>3. z[1] = type /\ z[2] = s
    BY <2>1, <2>2, PayloadTells
  <2> QED
    BY <2>1, <2>3
<1>2. TheReply(Payload(type, s)) \in Replies(Payload(type, s))
  BY DEF TheReply
<1> QED
  BY <1>1, <1>2

(* A payload that has a reply is one of three or four bytes.                *)
LEMMA ReplyTo ==
  ASSUME NEW p, Replies(p) # {}
  PROVE  Len(p) \in 3 .. 4
<1>1. PICK q \in Codecs \X States : Payload(q[1], q[2]) = p
  BY DEF Replies
<1>2. q[1] \in Codecs /\ q[2] \in States
  OBVIOUS
<1> QED
  BY <1>1, <1>2, PayloadTyped

(* A packet begins with its length, the payload follows.                    *)
LEMMA FrameParts ==
  ASSUME NEW p \in Bytes, Len(p) \in 0 .. 15
  PROVE  Length(Frame(p)) = Len(p) /\ SubSeq(Frame(p), 3, 2 + Len(p)) = p
<1> DEFINE n == Len(p)
           V == 0 .. Byte - 1
           h == <<n \div Byte, n % Byte>>
           f == Frame(p)
<1>0. n \in 0 .. 15 /\ p \in Seq(V) /\ Byte \in Nat \ {0}
  BY BinaryAssumption DEF Bytes
<1>1. n \in Nat /\ n <= 15 /\ p \in Seq(V) /\ Byte \in Nat \ {0}
  <2> HIDE DEF n
  <2> QED
    BY <1>0
<1>2. f \in Seq(V) /\ Len(f) = 2 + n
  BY FrameTyped DEF Bytes
<1>3. f = h \o p
  BY DEF Frame
<1>4. f[1] = n \div Byte /\ f[2] = n % Byte /\ \A i \in 1 .. n : f[2 + i] = p[i]
  BY <1>1, <1>3
<1> HIDE DEF n, f, V
<1> DEFINE q == n \div Byte
           r == n % Byte
<1>5. n = Byte * q + r /\ q \in Nat /\ r \in 0 .. Byte - 1
  BY <1>1, DivMod
<1>6. Length(f) = n
  <2>1. f[1] = q /\ f[2] = r
    BY <1>4
  <2> HIDE DEF q, r
  <2>2. Byte * q = q * Byte /\ q * Byte \in Nat /\ r \in Nat
    BY <1>1, <1>5
  <2> QED
    BY <1>5, <2>1, <2>2 DEF Length
<1> DEFINE g == SubSeq(f, 3, 2 + n)
<1>7. \A i \in 3 .. 2 + n : f[i] \in V
  BY <1>1, <1>2
<1>8. /\ g \in Seq(V) /\ Len(g) = IF 3 <= 2 + n THEN 2 + n - 3 + 1 ELSE 0
      /\ \A i \in 1 .. 2 + n - 3 + 1 : g[i] = f[3 + i - 1]
  BY <1>1, <1>7, SubSeqProperties
<1> HIDE DEF g
<1>9. g = p
  <2>1. Len(g) = n /\ Len(p) = n
    BY <1>1, <1>8 DEF n
  <2>2. \A i \in 1 .. n : g[i] = p[i]
    BY <1>1, <1>4, <1>8
  <2> QED
    BY <1>1, <1>8, <2>1, <2>2, SeqEqual
<1> QED
  BY <1>6, <1>9 DEF f, g, n

(* The lengths that malformed packets say.                                  *)
LEMMA MalformedLength ==
  ASSUME NEW m \in Malformations
  PROVE  Len(m) >= 2 /\ Length(m) \in {0, 1, 2, MaxPayload + 1}
<1>1. Byte \in Nat \ {0} /\ MaxPayload + 1 \in Nat
  BY BinaryAssumption
<1>2. CASE m \in {<<0, 0>>, <<0, 2, RAW, 0>>, <<0, 2, MSGPACK, 0>>, <<0, 1, 0>>}
  <2>1. Len(m) >= 2 /\ m[1] = 0 /\ m[2] \in {0, 1, 2}
    <3>1. CASE m = <<0, 0>>
      BY <3>1
    <3>2. CASE m = <<0, 2, RAW, 0>> \/ m = <<0, 2, MSGPACK, 0>>
      BY <3>2
    <3>3. CASE m = <<0, 1, 0>>
      BY <3>3
    <3> QED
      BY <1>2, <3>1, <3>2, <3>3
  <2> QED
    BY <1>1, <2>1 DEF Length
<1>3. CASE m = <<(MaxPayload + 1) \div Byte, (MaxPayload + 1) % Byte>>
  <2> DEFINE n == MaxPayload + 1
             q == n \div Byte
             r == n % Byte
  <2>1. Len(m) = 2 /\ m[1] = q /\ m[2] = r
    BY <1>3
  <2> HIDE DEF n
  <2>2. n = Byte * q + r /\ q \in Nat /\ r \in 0 .. Byte - 1
    BY <1>1, DivMod DEF n
  <2> HIDE DEF q, r
  <2>3. Byte * q = q * Byte /\ q * Byte \in Nat /\ r \in Nat
    BY <1>1, <2>2
  <2>4. Length(m) = n
    BY <2>1, <2>2, <2>3 DEF Length
  <2> QED
    BY <2>1, <2>4 DEF n
<1> QED
  BY <1>2, <1>3 DEF Malformations

(* Bytes cut in two ways begin with the same length.                        *)
LEMMA SameLength ==
  ASSUME NEW a \in Bytes, NEW b \in Bytes, NEW f \in Bytes, NEW g \in Bytes,
         a \o b = f \o g, Len(a) >= 2, Len(f) >= 2
  PROVE  Length(a) = Length(f)
<1>1. Len(a) \in Nat /\ Len(f) \in Nat
  BY ByteSeq
<1>2. 1 \in 1 .. Len(a) /\ 2 \in 1 .. Len(a) /\ 1 \in 1 .. Len(f) /\ 2 \in 1 .. Len(f)
  BY <1>1
<1>3. (a \o b)[1] = a[1] /\ (a \o b)[2] = a[2] /\ (f \o g)[1] = f[1] /\ (f \o g)[2] = f[2]
  BY <1>2, JoinedAt
<1> QED
  BY <1>3 DEF Length

LEMMA SameMiddle ==
  ASSUME NEW S, NEW s \in Seq(S), NEW f \in Seq(S), NEW n \in Nat,
         n <= Len(s), n <= Len(f), \A i \in 1 .. n : f[i] = s[i]
  PROVE  SubSeq(s, 3, n) = SubSeq(f, 3, n)
<1> DEFINE a == SubSeq(s, 3, n)
           b == SubSeq(f, 3, n)
<1>1. \A i \in 3 .. n : s[i] \in S /\ f[i] \in S
  BY LenProperties
<1>2. /\ a \in Seq(S) /\ Len(a) = IF 3 <= n THEN n - 3 + 1 ELSE 0
      /\ \A i \in 1 .. n - 3 + 1 : a[i] = s[3 + i - 1]
  BY <1>1, SubSeqProperties
<1>3. /\ b \in Seq(S) /\ Len(b) = IF 3 <= n THEN n - 3 + 1 ELSE 0
      /\ \A i \in 1 .. n - 3 + 1 : b[i] = f[3 + i - 1]
  BY <1>1, SubSeqProperties
<1> HIDE DEF a, b
<1>4. \A i \in 1 .. Len(a) : a[i] = b[i]
  BY <1>2, <1>3
<1>5. a = b
  BY <1>2, <1>3, <1>4, SeqEqual
<1> QED
  BY <1>5 DEF a, b

LEMMA AskedTyped ==
  ASSUME NEW z \in Asked
  PROVE  z[1] \in Bytes /\ z[2] \in Bytes /\ <<z[1], z[2]>> \in Asked
<1>1. z \in Bytes \X Bytes
  BY DEF Asked
<1>2. z = <<z[1], z[2]>> /\ z[1] \in Bytes /\ z[2] \in Bytes
  BY <1>1
<1> QED
  BY <1>2

(* What the worker takes for a packet is the next one asked, and what it    *)
(* answers is owed next.                                                    *)
LEMMA FrontAnswered ==
  ASSUME NEW s \in Bytes, NEW x \in Bytes, NEW r \in Bytes, <<s \o x, r>> \in Asked,
         ~Incomplete(s), ~Malformed(s), NEW q \in Replies(FrontPayload(s))
  PROVE  FrontGone(s, x, r, q)
<1> DEFINE n == 2 + Length(s)
<1>1. /\ Len(s) \in Nat /\ Len(s) >= 2 /\ Length(s) \in Nat /\ n <= Len(s)
      /\ Length(s) \in 1 .. MaxPayload
  <2>1. Len(s) \in Nat
    BY ByteSeq
  <2>2. ~BadLength(s) /\ ~(Len(s) < 2)
    BY DEF Incomplete, Malformed
  <2>3. Len(s) >= 2 /\ Length(s) \in 1 .. MaxPayload
    BY <2>1, <2>2 DEF BadLength
  <2>4. Length(s) \in Nat
    BY <2>3, BinaryAssumption
  <2>5. ~(Len(s) < n)
    BY <2>2 DEF Incomplete
  <2> QED
    BY <2>1, <2>3, <2>4, <2>5
<1>2. PICK w \in Pairs, g \in Bytes, e \in Bytes :
        s \o x = w[1] \o g /\ r = w[2] \o e /\ <<g, e>> \in Asked
  <2>1. s \o x \in Bytes /\ Len(s \o x) = Len(s) + Len(x) /\ Len(x) \in Nat
    BY Joined, ByteSeq
  <2>2. s \o x # <<>>
    BY <1>1, <2>1, EmptyTyped
  <2>3. PICK w \in Pairs, z \in Asked : s \o x = w[1] \o z[1] /\ r = w[2] \o z[2]
    BY <2>1, <2>2, AskedFront
  <2> QED
    BY <2>3, AskedTyped
<1>3. PICK f : f \in Bytes /\ f = w[1] /\ s \o x = f \o g /\ g \in Bytes
  BY <1>2, PairTyped
<1>4. s \in Bytes /\ x \in Bytes /\ f \in Bytes /\ g \in Bytes /\ s \o x = f \o g
  BY <1>3
<1>5. CASE w[1] \in Malformations
  <2>1. Length(s) \in {0, 1, 2, MaxPayload + 1}
    <3>1. Len(f) >= 2 /\ Length(f) \in {0, 1, 2, MaxPayload + 1}
      BY <1>3, <1>5, MalformedLength
    <3>2. Len(s) >= 2 /\ Len(f) >= 2
      BY <1>1, <3>1
    <3>3. Length(s) = Length(f)
      BY <1>4, <3>2, SameLength
    <3> QED
      BY <3>1, <3>3
  <2>2. Len(FrontPayload(s)) \in 3 .. 4
    BY ReplyTo
  <2>3. Len(FrontPayload(s)) = Length(s)
    <3>1. \A i \in 3 .. n : s[i] \in 0 .. Byte - 1
      BY <1>1, ByteSeq
    <3>2. Len(SubSeq(s, 3, n)) = IF 3 <= n THEN n - 3 + 1 ELSE 0
      BY <1>1, <3>1, SubSeqProperties
    <3> QED
      BY <1>1, <3>2 DEF FrontPayload
  <2>4. MaxPayload \in Nat
    BY BinaryAssumption
  <2> QED
    BY <1>1, <2>1, <2>2, <2>3, <2>4
<1>6. ASSUME NEW type \in Codecs, NEW state \in States,
             w[1] = Frame(Payload(type, state)), w[2] = Frame(TheReply(Payload(type, state)))
      PROVE  \E t \in Bytes : r = Frame(q) \o t /\ <<Drop(s, n) \o x, t>> \in Asked
  <2> DEFINE p == Payload(type, state)
  <2>1. p \in Bytes /\ Len(p) \in 0 .. 15
    <3>1. p \in Bytes /\ Len(p) \in 3 .. 4
      BY PayloadTyped
    <3> QED
      BY <3>1
  <2>2. f = Frame(p) /\ Len(f) = 2 + Len(p) /\ Length(f) = Len(p) /\ SubSeq(f, 3, 2 + Len(p)) = p
    BY <1>3, <1>6, <2>1, FrameTyped, FrameParts
  <2>4. Length(s) = Len(p) /\ n = Len(f)
    <3>1. Len(f) >= 2
      BY <2>1, <2>2
    <3> HIDE DEF p
    <3>2. Len(s) >= 2
      BY <1>1
    <3>3. Length(s) = Length(f)
      BY <1>4, <3>1, <3>2, SameLength
    <3> QED
      BY <2>2, <3>3
  <2>5. SubSeq(s, 1, n) = f /\ Drop(s, n) \o x = g
    <3>1. Len(f) <= Len(s)
      BY <1>1, <2>4
    <3>2. SubSeq(s, 1, Len(f)) = f /\ Drop(s, Len(f)) \o x = g
      BY <1>4, <3>1, CutTwice
    <3> HIDE DEF n
    <3> QED
      BY <2>4, <3>2
  <2>6. FrontPayload(s) = p
    <3>1. n \in Nat /\ n = Len(f)
      BY <1>1, <2>4
    <3>2. \A i \in 1 .. n : f[i] = s[i]
      <4>1. \A i \in 1 .. n : s[i] \in 0 .. Byte - 1
        BY <1>1, ByteSeq
      <4>2. \A i \in 1 .. n - 1 + 1 : SubSeq(s, 1, n)[i] = s[1 + i - 1]
        BY <1>1, <4>1, SubSeqProperties
      <4> QED
        BY <1>1, <2>5, <4>2
    <3> HIDE DEF n
    <3>3. SubSeq(s, 3, n) = SubSeq(f, 3, n)
      BY <1>1, <1>3, <3>1, <3>2, ByteSeq, SameMiddle
    <3> QED
      BY <2>2, <2>4, <3>3 DEF FrontPayload
  <2>7. q = TheReply(p)
    BY <2>6, OneReply
  <2> QED
    BY <1>2, <1>6, <2>5, <2>7
<1>7. n \in 0 .. Len(s)
  BY <1>1
<1> QED
  BY <1>5, <1>6, <1>7, PairTyped DEF FrontGone

----------------------------------------------------------------------------
(* Connections that follow                                                  *)

LEMMA ClientGone ==
  ASSUME NEW k, NEW u, k.client \in {"failed", "closed"}
  PROVE  Follows(k, u)
BY DEF Follows

LEMMA ServerGone ==
  ASSUME NEW k, NEW u, NEW v, k.server = "closed", Follows(k, u)
  PROVE  Follows(k, v)
BY DEF Follows

LEMMA NewFollows ==
  ASSUME NEW u
  PROVE  Follows(NoConn, u)
BY DEF Follows, NoConn

(* Nothing is asked yet when a client connects.                             *)
LEMMA ConnectedFollows ==
  ASSUME NEW k \in ConnTypes, NEW u, Follows(k, u), k.client = "none"
  PROVE  Follows([k EXCEPT !.client = "open", !.server = "backlog"], <<>>)
<1> DEFINE r == [k EXCEPT !.client = "open", !.server = "backlog"]
<1>1. /\ r.client = "open" /\ r.input = <<>> /\ r.up = <<>> /\ r.down = <<>>
      /\ r.output = <<>> /\ r.owed = <<>>
  BY DEF ConnTypes, Follows
<1>2. (<<>> \o <<>>) \o <<>> = <<>> /\ <<>> \in Bytes
  BY WithNothing
<1>3. <<<<>>, <<>>>> \in Asked
  BY AskedAdds
<1> HIDE DEF r
<1>4. Follows(r, <<>>)
  BY <1>1, <1>2, <1>3 DEF Follows
<1> QED
  BY <1>4 DEF r

(* What the server drops when it closes is still owed.                      *)
LEMMA EndedFollows ==
  ASSUME NEW k \in ConnTypes, NEW r, NEW u, Follows(k, u),
         r.client = k.client, r.server = "closed", r.whole = k.whole,
         r.down = k.down, r.owed = k.owed,
         r.output \in {<<>>, k.output}, r.input \in {<<>>, k.input}, r.up \in {<<>>, k.up}
  PROVE  Follows(r, u)
<1>1. CASE k.client = "none"
  BY <1>1 DEF Follows
<1>2. CASE k.client = "open" /\ k.whole
  <2>1. PICK t \in Bytes : k.owed = (k.down \o k.output) \o t
    BY <1>2 DEF Follows
  <2>2. PICK d \in Bytes, p \in Bytes : d = k.down /\ p = k.output
    BY ConnFields
  <2>3. (d \o p) \o t = (d \o <<>>) \o (p \o t)
    <3>1. (d \o p) \o t = d \o (p \o t)
      <4>1. Groups(d, p, t)
        BY <2>1, <2>2, Grouping
      <4> QED
        BY <4>1 DEF Groups
    <3> QED
      BY <2>2, <3>1, WithNothing
  <2>4. p \o t \in Bytes
    BY <2>1, <2>2, Joined
  <2>5. \E q \in Bytes : r.owed = (r.down \o r.output) \o q
    BY <2>1, <2>2, <2>3, <2>4
  <2> QED
    BY <1>2, <2>5 DEF Follows
<1> QED
  BY <1>1, <1>2 DEF Follows

LEMMA CloseFollows ==
  ASSUME NEW k \in ConnTypes, NEW u, Follows(k, u)
  PROVE  Follows(binary_conn_close(k), u)
<1> DEFINE r == [k EXCEPT !.active = FALSE, !.server = "closed",
                          !.up = <<>>, !.input = <<>>, !.output = <<>>]
<1>1. /\ r.client = k.client /\ r.server = "closed" /\ r.whole = k.whole
      /\ r.down = k.down /\ r.owed = k.owed
      /\ r.output = <<>> /\ r.input = <<>> /\ r.up = <<>>
  BY DEF ConnTypes
<1> HIDE DEF r
<1>2. Follows(r, u)
  BY <1>1, EndedFollows
<1> QED
  BY <1>2 DEF binary_conn_close, r

LEMMA OpenFollows ==
  ASSUME NEW k \in ConnTypes, NEW u, Follows(k, u), NEW fails, k.server # "closed"
  PROVE  Follows(binary_conn_open(k, fails), u)
<1> DEFINE r == [k EXCEPT !.server = "closed", !.up = <<>>]
           q == [k EXCEPT !.server = "open", !.active = TRUE]
<1>1. /\ r.client = k.client /\ r.server = "closed" /\ r.whole = k.whole
      /\ r.down = k.down /\ r.owed = k.owed
      /\ r.output = k.output /\ r.input = k.input /\ r.up = <<>>
  BY DEF ConnTypes
<1>2. /\ q.client = k.client /\ q.server = "open" /\ q.whole = k.whole
      /\ q.down = k.down /\ q.owed = k.owed
      /\ q.output = k.output /\ q.input = k.input /\ q.up = k.up
  BY DEF ConnTypes
<1> HIDE DEF r, q
<1>3. Follows(r, u)
  BY <1>1, EndedFollows
<1>4. Follows(q, u)
  BY <1>2 DEF Follows
<1> QED
  BY <1>3, <1>4 DEF binary_conn_open, r, q

LEMMA TornFollows ==
  ASSUME NEW k \in ConnTypes, NEW u, Follows(k, u), room \in Nat, Fits(k)
  PROVE  Follows(Torn(k), u)
<1> DEFINE q == binary_conn_close(k)
           r == [q EXCEPT !.server = "closed", !.up = <<>>]
<1>1. Follows(q, u) /\ q \in ConnTypes
  BY CloseFollows, CloseTyped
<1> HIDE DEF q
<1>2. /\ r.client = q.client /\ r.server = "closed" /\ r.whole = q.whole
      /\ r.down = q.down /\ r.owed = q.owed
      /\ r.output = q.output /\ r.input = q.input /\ r.up = <<>>
  BY <1>1 DEF ConnTypes
<1> HIDE DEF r
<1>3. Follows(r, u)
  BY <1>1, <1>2, EndedFollows
<1> QED
  BY <1>3 DEF Torn, r, q

(* Bytes that go from the output to the client stay in their order.         *)
LEMMA FlushFollows ==
  ASSUME NEW k \in ConnTypes, NEW u, Follows(k, u), room \in Nat, Fits(k),
         NEW f \in stream_flush(k)
  PROVE  Follows(f, u)
<1>1. CASE f = k
  BY <1>1
<1>2. CASE f = Sent(k) /\ k.client # "closed"
  <2> DEFINE n == Least(Len(k.output), room - Len(k.down))
             a == SubSeq(k.output, 1, n)
             b == Drop(k.output, n)
  <2>1. /\ f.client = k.client /\ f.server = k.server /\ f.whole = k.whole /\ f.owed = k.owed
        /\ f.input = k.input /\ f.up = k.up /\ f.down = k.down \o a /\ f.output = b
    BY <1>2 DEF Sent, ConnTypes
  <2>2. k.down \in Bytes /\ k.output \in Bytes
    BY ConnFields
  <2>3. n \in 0 .. Len(k.output)
    <3>1. Len(k.output) \in Nat /\ Len(k.down) \in Nat /\ Len(k.down) <= room
      BY <2>2, ByteSeq DEF Fits
    <3> QED
      BY <3>1 DEF Least
  <2> HIDE DEF n
  <2>4. a \in Bytes /\ b \in Bytes /\ k.output = a \o b
    BY <2>2, <2>3, Cut
  <2> HIDE DEF a, b
  <2>5. f.down \o f.output = k.down \o k.output
    <3>1. PICK d \in Bytes : d = k.down
      BY <2>2
    <3>2. (d \o a) \o b = d \o (a \o b)
      <4>1. Groups(d, a, b)
        BY <2>4, <3>1, Grouping
      <4> QED
        BY <4>1 DEF Groups
    <3> QED
      BY <2>1, <2>4, <3>1, <3>2
  <2>6. k.client = "none" => f.down = <<>> /\ f.output = <<>>
    <3> SUFFICES ASSUME k.client = "none" PROVE f.down = <<>> /\ f.output = <<>>
      OBVIOUS
    <3>1. k.down = <<>> /\ a \o b = <<>>
      BY <2>4 DEF Follows
    <3>2. a = <<>> /\ b = <<>>
      BY <2>4, <3>1, ConcatSimplifications DEF Bytes
    <3> QED
      BY <2>1, <3>1, <3>2, WithNothing
  <2> QED
    BY <2>1, <2>5, <2>6 DEF Follows
<1>3. CASE k.client = "closed"
  BY <1>3, FlushKeepsClient, ClientGone
<1> QED
  BY <1>1, <1>2, <1>3 DEF stream_flush

(* What arrives goes behind what is there.                                  *)
LEMMA ReceivedFollows ==
  ASSUME NEW k \in ConnTypes, NEW u \in Bytes, Follows(k, u)
  PROVE  Follows([k EXCEPT !.input = k.input \o k.up, !.up = <<>>], u)
<1> DEFINE input == k.input \o k.up
           r == [k EXCEPT !.input = input, !.up = <<>>]
<1>1. /\ r.client = k.client /\ r.server = k.server /\ r.whole = k.whole
      /\ r.down = k.down /\ r.owed = k.owed /\ r.output = k.output
      /\ r.input = input /\ r.up = <<>>
  BY DEF ConnTypes
<1>2. k.input \in Bytes /\ k.up \in Bytes /\ input \in Bytes
  BY ConnFields, Joined
<1>3. input \o <<>> = input
  BY <1>2, WithNothing
<1>4. k.client = "none" => input = <<>>
  BY <1>2, WithNothing DEF Follows
<1>5. (r.input \o r.up) \o u = (k.input \o k.up) \o u
  BY <1>1, <1>3
<1> HIDE DEF r, input
<1>6. Follows(r, u)
  BY <1>1, <1>4, <1>5 DEF Follows
<1> QED
  BY <1>6 DEF r, input

LEMMA FlushConsumes ==
  ASSUME NEW k \in ConnTypes, NEW f \in stream_flush(k), NEW n
  PROVE  stream_consume(f, n) \in stream_flush(stream_consume(k, n))
BY DEF stream_flush, stream_consume, Sent, ConnTypes

(* What is left once the front packet is answered.                          *)
LEMMA FrontLeft ==
  ASSUME NEW in \in Bytes, NEW up \in Bytes, NEW u \in Bytes, NEW t \in Bytes, NEW q
  PROVE  /\ <<(in \o up) \o u, t>> \in Asked /\ ~Incomplete(in) /\ ~Malformed(in)
         /\ q \in Replies(FrontPayload(in))
         => Due((Drop(in, 2 + Length(in)) \o up) \o u, Frame(q), t)
<1>1. ASSUME NEW d \in Bytes PROVE (d \o up) \o u = d \o (up \o u)
  BY Grouped
<1>2. PICK x \in Bytes : x = up \o u
  BY Joined
<1>3. (in \o up) \o u = in \o x
  BY <1>1, <1>2
<1>4. ASSUME 2 + Length(in) \in 0 .. Len(in)
      PROVE  (Drop(in, 2 + Length(in)) \o up) \o u = Drop(in, 2 + Length(in)) \o x
  <2>1. PICK d \in Bytes : d = Drop(in, 2 + Length(in))
    BY <1>4, Cut
  <2>2. (d \o up) \o u = d \o (up \o u)
    BY <1>1
  <2> QED
    BY <1>2, <2>1, <2>2
<1> SUFFICES ASSUME <<(in \o up) \o u, t>> \in Asked, ~Incomplete(in), ~Malformed(in),
                    q \in Replies(FrontPayload(in))
             PROVE  Due((Drop(in, 2 + Length(in)) \o up) \o u, Frame(q), t)
  OBVIOUS
<1>5. <<in \o x, t>> \in Asked
  BY <1>3
<1>6. FrontGone(in, x, t, q)
  BY <1>5, FrontAnswered
<1>7. /\ 2 + Length(in) \in 0 .. Len(in)
      /\ \E v \in Bytes : t = Frame(q) \o v /\ <<Drop(in, 2 + Length(in)) \o x, v>> \in Asked
  BY <1>6 DEF FrontGone
<1>8. (Drop(in, 2 + Length(in)) \o up) \o u = Drop(in, 2 + Length(in)) \o x
  BY <1>4, <1>7
<1> QED
  BY <1>7, <1>8 DEF Due

LEMMA RepliedNext ==
  ASSUME NEW down \in Bytes, NEW out \in Bytes, NEW a \in Bytes
  PROVE  \A asked, t : Due(asked, a, t) => Due(asked, down \o (out \o a), (down \o out) \o t)
<1>1. ASSUME NEW v \in Bytes PROVE (down \o out) \o (a \o v) = (down \o (out \o a)) \o v
  <2>1. PICK o \in Bytes : o = down \o out
    BY Joined
  <2>2. (o \o a) \o v = o \o (a \o v)
    <3>1. Groups(o, a, v)
      BY Grouping
    <3> QED
      BY <3>1 DEF Groups
  <2>3. (down \o out) \o a = down \o (out \o a)
    <3>1. Groups(down, out, a)
      BY Grouping
    <3> QED
      BY <3>1 DEF Groups
  <2> QED
    BY <2>1, <2>2, <2>3
<1>2. ASSUME NEW asked, NEW t, Due(asked, a, t)
      PROVE  Due(asked, down \o (out \o a), (down \o out) \o t)
  <2>1. PICK v \in Bytes : t = a \o v /\ <<asked, v>> \in Asked
    BY <1>2 DEF Due
  <2>2. (down \o out) \o (a \o v) = (down \o (out \o a)) \o v
    BY <1>1
  <2> QED
    BY <2>1, <2>2 DEF Due
<1> QED
  BY <1>2

(* A turn of the worker's loop: the front request is gone, its reply is     *)
(* behind those before it.                                                  *)
LEMMA AnsweredFollows ==
  ASSUME NEW k \in ConnTypes, NEW u \in Bytes, Follows(k, u), room \in Nat, Fits(k),
         k.server = "open", k.client # "none", ~Incomplete(k.input), ~Malformed(k.input),
         NEW q \in Replies(FrontPayload(k.input)),
         NEW f \in stream_flush(stream_write(k, Frame(q)))
  PROVE  Follows(stream_consume(f, 2 + Length(k.input)), u)
<1> DEFINE n == 2 + Length(k.input)
           w == stream_write(k, Frame(q))
           r == stream_consume(w, n)
           a == Frame(q)
<1>1. a \in Bytes
  BY ReplyTyped
<1>2. w \in ConnTypes /\ Fits(w)
  BY <1>1, AppendOutputTyped
<1>3. PICK in \in Bytes, up \in Bytes, down \in Bytes, out \in Bytes :
        in = k.input /\ up = k.up /\ down = k.down /\ out = k.output
  BY ConnFields
<1>4. /\ r.client = k.client /\ r.server = k.server /\ r.whole = k.whole
      /\ r.down = k.down /\ r.owed = k.owed /\ r.up = k.up
      /\ r.output = out \o a /\ r.input = Drop(in, n)
  BY <1>3 DEF stream_write, stream_consume, ConnTypes
<1> HIDE DEF w, a, n, r
<1>5. ASSUME k.client = "open", k.whole PROVE Follows(r, u)
  <2>1. PICK t \in Bytes : k.owed = (down \o out) \o t /\ <<(in \o up) \o u, t>> \in Asked
    BY <1>3, <1>5 DEF Follows
  <2>2. /\ in \in Bytes /\ up \in Bytes /\ down \in Bytes /\ out \in Bytes /\ a \in Bytes
        /\ t \in Bytes
    BY <1>1, <1>3, <2>1
  <2>3. ~Incomplete(in) /\ ~Malformed(in) /\ q \in Replies(FrontPayload(in)) /\ a = Frame(q)
    BY <1>3 DEF a
  <2>4. Due((Drop(in, 2 + Length(in)) \o up) \o u, a, t)
    BY <2>1, <2>2, <2>3, FrontLeft
  <2>6. Due((Drop(in, 2 + Length(in)) \o up) \o u, down \o (out \o a), k.owed)
    <3>1. PICK z : z = (Drop(in, 2 + Length(in)) \o up) \o u
      OBVIOUS
    <3>2. Due(z, a, t)
      BY <2>4, <3>1
    <3>3. Due(z, down \o (out \o a), (down \o out) \o t)
      BY <2>2, <3>2, RepliedNext
    <3> QED
      BY <2>1, <3>1, <3>3
  <2>5. Due((r.input \o r.up) \o u, r.down \o r.output, r.owed)
    BY <1>3, <1>4, <2>6 DEF n
  <2> QED
    BY <1>4, <1>5, <2>5 DEF Follows, Due
<1>6. Follows(r, u)
  BY <1>4, <1>5 DEF Follows
<1>7. r \in ConnTypes /\ Fits(r)
  <2>1. Length(k.input) \in Nat
    <3>1. Len(in) \in Nat /\ ~(Len(in) < 2)
      BY <1>3, ByteSeq DEF Incomplete
    <3>2. Len(in) >= 2
      BY <3>1
    <3> QED
      BY <1>3, <3>2, LengthTyped
  <2>2. n \in Nat
    BY <2>1 DEF n
  <2> QED
    BY <1>2, <2>2, ConsumeTyped DEF r
<1>8. stream_consume(f, n) \in stream_flush(r)
  BY <1>2, FlushConsumes DEF r, w, a
<1>9. Follows(stream_consume(f, n), u)
  BY <1>6, <1>7, <1>8, FlushFollows
<1> QED
  BY <1>9 DEF n

(* The client asks: a request whole is still to be written, its reply is    *)
(* owed.                                                                    *)
LEMMA OweFollows ==
  ASSUME NEW k \in ConnTypes, Follows(k, <<>>), k.client # "none",
         NEW type \in Codecs, NEW s \in States
  PROVE  Follows(Owe(k, Payload(type, s)), Frame(Payload(type, s)))
<1> DEFINE p == Payload(type, s)
           f == Frame(p)
           a == Frame(TheReply(p))
           r == Owe(k, p)
<1>1. k.server = "closed" => r = k
  BY DEF Owe, ConnTypes
<1>2. CASE k.server = "closed"
  <2>1. r = k
    BY <1>1, <1>2
  <2> QED
    BY <1>2, <2>1, ServerGone
<1>3. CASE k.server # "closed"
  <2>1. Replies(p) # {}
    BY OwnReply
  <2>2. r = [k EXCEPT !.owed = @ \o a]
    BY <1>3, <2>1 DEF Owe, TheReply
  <2>3. /\ r.client = k.client /\ r.server = k.server /\ r.whole = k.whole
        /\ r.down = k.down /\ r.owed = k.owed \o a /\ r.output = k.output
        /\ r.input = k.input /\ r.up = k.up
    BY <2>2 DEF ConnTypes
  <2>4. <<f, a>> \in Pairs
    <3> DEFINE q == <<type, s>>
    <3>1. q \in Codecs \X States /\ q[1] = type /\ q[2] = s
      OBVIOUS
    <3> HIDE DEF q
    <3>2. <<Frame(Payload(q[1], q[2])), Frame(TheReply(Payload(q[1], q[2])))>> \in Pairs
      BY <3>1 DEF Pairs
    <3> QED
      BY <3>1, <3>2
  <2>5. f \in Bytes /\ a \in Bytes
    BY <2>4, PairTyped
  <2> HIDE DEF r, f, a, p
  <2>6. ASSUME k.client = "open", k.whole PROVE Follows(r, f)
    <3>1. PICK in \in Bytes, up \in Bytes, down \in Bytes, out \in Bytes :
            in = k.input /\ up = k.up /\ down = k.down /\ out = k.output
      BY ConnFields
    <3>2. PICK t \in Bytes : k.owed = (down \o out) \o t /\ <<(in \o up) \o <<>>, t>> \in Asked
      BY <1>3, <2>6, <3>1 DEF Follows
    <3>3. PICK x \in Bytes, o \in Bytes : x = in \o up /\ o = down \o out
      BY <3>1, Joined
    <3>4. <<x, t>> \in Asked
      BY <3>2, <3>3, WithNothing
    <3>5. <<x \o f, t \o a>> \in Asked
      BY <2>4, <3>2, <3>3, <3>4, AskedMore
    <3>9. o \in Bytes /\ t \in Bytes
      BY <3>2, <3>3
    <3>6. (o \o t) \o a = o \o (t \o a)
      <4>1. Groups(o, t, a)
        BY <2>5, <3>9, Grouping
      <4> QED
        BY <4>1 DEF Groups
    <3>8. t \o a \in Bytes
      BY <2>5, <3>2, Joined
    <3>7. /\ r.owed = (r.down \o r.output) \o (t \o a)
          /\ (r.input \o r.up) \o f = x \o f
      BY <2>3, <3>1, <3>2, <3>3, <3>6
    <3> QED
      BY <2>3, <2>6, <3>5, <3>7, <3>8 DEF Follows
  <2> QED
    BY <2>3, <2>6 DEF Follows, r, f, p
<1> QED
  BY <1>2, <1>3

(* For a malformed packet nothing is owed.                                  *)
LEMMA MalformedFollows ==
  ASSUME NEW k \in ConnTypes, Follows(k, <<>>), NEW m \in Malformations
  PROVE  Follows(k, m)
<1>1. <<m, <<>>>> \in Pairs /\ m \in Bytes
  BY MalformationsTyped DEF Pairs
<1>2. ASSUME k.client = "open", k.whole, k.server # "closed" PROVE Follows(k, m)
  <2>1. PICK x \in Bytes : x = k.input \o k.up
    BY ConnFields, Joined
  <2>2. PICK t \in Bytes : k.owed = (k.down \o k.output) \o t /\ <<x \o <<>>, t>> \in Asked
    BY <1>2, <2>1 DEF Follows
  <2>3. <<x \o m, t \o <<>>>> \in Asked
    BY <1>1, <2>1, <2>2, AskedMore, WithNothing
  <2>4. <<x \o m, t>> \in Asked
    BY <2>2, <2>3, WithNothing
  <2> QED
    BY <1>2, <2>1, <2>2, <2>4 DEF Follows
<1> QED
  BY <1>2 DEF Follows

(* What is written leaves the rest.                                         *)
LEMMA WriteFollows ==
  ASSUME NEW k \in ConnTypes, NEW a \in Bytes, NEW b \in Bytes, Follows(k, a \o b),
         k.client # "none"
  PROVE  Follows(Write(k, a), b)
<1>1. CASE k.server = "closed"
  BY <1>1, ServerGone DEF Write
<1>2. CASE k.server # "closed"
  <2> DEFINE r == [k EXCEPT !.up = @ \o a]
  <2>1. /\ r.client = k.client /\ r.server = k.server /\ r.whole = k.whole
        /\ r.down = k.down /\ r.owed = k.owed /\ r.output = k.output
        /\ r.input = k.input /\ r.up = k.up \o a
    BY DEF ConnTypes
  <2> HIDE DEF r
  <2>2. PICK in \in Bytes, up \in Bytes : in = k.input /\ up = k.up
    BY ConnFields
  <2>3. (in \o (up \o a)) \o b = (in \o up) \o (a \o b)
    <3>1. PICK x \in Bytes : x = in \o up
      BY <2>2, Joined
    <3>2. (x \o a) \o b = x \o (a \o b)
      <4>1. Groups(x, a, b)
        BY <3>1, Grouping
      <4> QED
        BY <4>1 DEF Groups
    <3>3. (in \o up) \o a = in \o (up \o a)
      <4>1. Groups(in, up, a)
        BY <2>2, Grouping
      <4> QED
        BY <4>1 DEF Groups
    <3> QED
      BY <3>1, <3>2, <3>3
  <2>4. Follows(r, b)
    BY <2>1, <2>2, <2>3 DEF Follows
  <2> QED
    BY <1>2, <2>4 DEF Write, r
<1> QED
  BY <1>1, <1>2

(* The client reads what is owed to it first.                               *)
LEMMA ReadFollows ==
  ASSUME NEW k \in ConnTypes, NEW u, Follows(k, u), NEW n \in 0 .. Len(k.down),
         k.client # "none"
  PROVE  Follows(Read(k, n), u)
<1> DEFINE r == Read(k, n)
<1>1. /\ r.client = k.client /\ r.server = k.server /\ r.whole = k.whole
      /\ r.down = Drop(k.down, n) /\ r.owed = Drop(k.owed, n) /\ r.output = k.output
      /\ r.input = k.input /\ r.up = k.up
  BY DEF Read, ConnTypes
<1> HIDE DEF r
<1>2. ASSUME k.client = "open", k.whole PROVE Follows(r, u)
  <2>1. PICK down \in Bytes, out \in Bytes : down = k.down /\ out = k.output
    BY ConnFields
  <2>2. PICK t \in Bytes : /\ k.owed = (down \o out) \o t
                           /\ k.server # "closed" => <<(k.input \o k.up) \o u, t>> \in Asked
    BY <1>2, <2>1 DEF Follows
  <2>3. Drop((down \o out) \o t, n) = (Drop(down, n) \o out) \o t
    <3>1. n \in 0 .. Len(down)
      BY <2>1
    <3>2. t \in Bytes
      BY <2>2
    <3>3. DropsFront(down, out, t, n)
      BY <3>1, <3>2, DropFront
    <3> QED
      BY <3>3 DEF DropsFront
  <2>4. r.owed = (r.down \o r.output) \o t
    BY <1>1, <2>1, <2>2, <2>3, Zenon
  <2> QED
    BY <1>1, <1>2, <2>2, <2>4 DEF Follows
<1> QED
  BY <1>1, <1>2 DEF Follows, r

----------------------------------------------------------------------------
(* The worker's steps keep what a connection holds                          *)

LEMMA OneKeeps ==
  ASSUME ConnInv, NEW d \in Conns, NEW r, NEW u, Follows(conn[d], u) => Follows(r, u),
         r.client = conn[d].client, conn' = [conn EXCEPT ![d] = r]
  PROVE  \A c \in Conns : /\ Follows(conn[c], u) => Follows(conn'[c], u)
                          /\ conn'[c].client = conn[c].client
BY DEF ConnInv

LEMMA ReadKeeps ==
  ASSUME ServerInv, on_read, NEW u \in Bytes
  PROVE  \A c \in Conns : /\ Follows(conn[c], u) => Follows(conn'[c], u)
                          /\ conn'[c].client = conn[c].client
<1> DEFINE k == conn[cur.conn]
           r == [k EXCEPT !.input = k.input \o k.up, !.up = <<>>]
<1>1. conn' = [conn EXCEPT ![cur.conn] = r]
  BY DEF on_read
<1>2. ConnInv /\ cur.conn \in Conns /\ k \in ConnTypes
  BY DEF ServerInv, ServerTypes, ConnInv
<1>3. Follows(k, u) => Follows(r, u)
  BY <1>2, ReceivedFollows
<1>4. r.client = k.client
  BY <1>2 DEF ConnTypes
<1> HIDE DEF r
<1> QED
  BY <1>1, <1>2, <1>3, <1>4, OneKeeps

LEMMA CloseKeepsClient ==
  ASSUME NEW k \in ConnTypes
  PROVE  binary_conn_close(k).client = k.client
BY DEF binary_conn_close, ConnTypes

LEMMA WriteKeeps ==
  ASSUME ServerInv, on_write, NEW u \in Bytes
  PROVE  \A c \in Conns : /\ Follows(conn[c], u) => Follows(conn'[c], u)
                          /\ conn'[c].client = conn[c].client
<1> DEFINE k == conn[cur.conn]
<1>1. PICK f \in stream_flush(k) :
        conn' = [conn EXCEPT ![cur.conn] = IF f.output = <<>> THEN binary_conn_close(f) ELSE f]
  BY DEF on_write
<1>2. ConnInv /\ cur.conn \in Conns /\ k \in ConnTypes /\ Fits(k) /\ room \in Nat
  BY DEF ServerInv, ServerTypes, ConnInv
<1>3. f \in ConnTypes /\ f.client = k.client
  BY <1>2, FlushTyped, FlushKeepsClient
<1>4. Follows(k, u) => Follows(f, u)
  BY <1>2, FlushFollows
<1> DEFINE r == IF f.output = <<>> THEN binary_conn_close(f) ELSE f
<1>5. Follows(k, u) => Follows(r, u)
  BY <1>3, <1>4, CloseFollows
<1>6. r.client = k.client
  BY <1>3, CloseKeepsClient
<1>7. conn' = [conn EXCEPT ![cur.conn] = r]
  BY <1>1
<1> HIDE DEF r
<1> QED
  BY <1>2, <1>5, <1>6, <1>7, OneKeeps

LEMMA CloseKeeps ==
  ASSUME ServerInv, NEW u \in Bytes, conn' = [conn EXCEPT ![cur.conn] = binary_conn_close(@)]
  PROVE  \A c \in Conns : /\ Follows(conn[c], u) => Follows(conn'[c], u)
                          /\ conn'[c].client = conn[c].client
<1> DEFINE k == conn[cur.conn]
           r == binary_conn_close(k)
<1>1. ConnInv /\ cur.conn \in Conns /\ k \in ConnTypes
  BY DEF ServerInv, ServerTypes, ConnInv
<1>2. Follows(k, u) => Follows(r, u)
  BY <1>1, CloseFollows
<1>3. r.client = k.client
  BY <1>1, CloseKeepsClient
<1>4. conn' = [conn EXCEPT ![cur.conn] = r]
  OBVIOUS
<1> HIDE DEF r
<1> QED
  BY <1>1, <1>2, <1>3, <1>4, OneKeeps

LEMMA ProcessKeeps ==
  ASSUME ServerInv, binary_conn_process, NEW u \in Bytes
  PROVE  \A c \in Conns : /\ Follows(conn[c], u) => Follows(conn'[c], u)
                          /\ conn'[c].client = conn[c].client
<1> DEFINE k == conn[cur.conn]
<1>1. ConnInv /\ cur.conn \in Conns /\ k \in ConnTypes /\ Fits(k) /\ room \in Nat
  BY DEF ServerInv, ServerTypes, ConnInv
<1>2. k.server = "open" /\ k.client # "none"
  <2>1. k.active
    BY DEF binary_conn_process, ServerInv, ListInv
  <2> QED
    BY <1>1, <2>1 DEF ServerInv, ListInv
<1>3. CASE UNCHANGED conn
  BY <1>3
<1>4. CASE conn' = [conn EXCEPT ![cur.conn] = binary_conn_close(k)]
  BY <1>4, CloseKeeps
<1>5. ASSUME ~Incomplete(k.input), ~Malformed(k.input),
             NEW q \in Replies(FrontPayload(k.input)),
             NEW f \in stream_flush(stream_write(k, Frame(q))),
             conn' = [conn EXCEPT ![cur.conn] = stream_consume(f, 2 + Length(k.input))]
      PROVE  \A c \in Conns : /\ Follows(conn[c], u) => Follows(conn'[c], u)
                              /\ conn'[c].client = conn[c].client
  <2> DEFINE n == 2 + Length(k.input)
             r == stream_consume(f, n)
  <2>1. Follows(k, u) => Follows(r, u)
    BY <1>1, <1>2, <1>5, AnsweredFollows
  <2>2. stream_write(k, Frame(q)) \in ConnTypes /\ stream_write(k, Frame(q)).client = k.client
    BY <1>1, ReplyTyped, AppendOutputTyped
  <2>3. f.client = k.client
    BY <2>2, FlushKeepsClient
  <2>5. f \in ConnTypes
    BY <1>1, <2>2, ReplyTyped, AppendOutputTyped, FlushTyped
  <2>4. r.client = k.client
    BY <2>3, <2>5 DEF stream_consume, ConnTypes
  <2>6. conn' = [conn EXCEPT ![cur.conn] = r]
    BY <1>5
  <2> HIDE DEF r
  <2> QED
    BY <1>1, <2>1, <2>4, <2>6, OneKeeps
<1> QED
  BY <1>3, <1>4, <1>5 DEF binary_conn_process

LEMMA TornKeeps ==
  ASSUME ServerInv, NEW u \in Bytes, conn' = [c \in Conns |-> Torn(conn[c])]
  PROVE  \A c \in Conns : /\ Follows(conn[c], u) => Follows(conn'[c], u)
                          /\ conn'[c].client = conn[c].client
<1> TAKE c \in Conns
<1>1. conn[c] \in ConnTypes /\ Fits(conn[c]) /\ room \in Nat
  BY DEF ServerInv, ConnInv
<1>2. conn[c].active <=> conn[c].server = "open"
  BY DEF ServerInv, ListInv
<1>3. Torn(conn[c]).client = conn[c].client
  BY <1>1, <1>2, TornTyped
<1>4. Follows(conn[c], u) => Follows(Torn(conn[c]), u)
  BY <1>1, TornFollows
<1> QED
  BY <1>3, <1>4

LEMMA ListenerKeeps ==
  ASSUME ServerInv, binary_listener_callback, NEW u \in Bytes
  PROVE  \A c \in Conns : /\ Follows(conn[c], u) => Follows(conn'[c], u)
                          /\ conn'[c].client = conn[c].client
<1> DEFINE n == Least(Len(backlog), AcceptMax)
           accepted == {backlog[i] : i \in 1 .. n}
<1>1. PICK refused \in SUBSET accepted :
        conn' = [c \in Conns |-> IF c \in accepted
                                 THEN binary_conn_open(conn[c], c \in refused)
                                 ELSE conn[c]]
  BY DEF binary_listener_callback
<1>2. ASSUME NEW c \in Conns, c \in accepted PROVE conn[c].server = "backlog"
  <2>1. PICK i \in 1 .. n : backlog[i] = c
    BY <1>2
  <2>2. n <= Len(backlog) /\ Len(backlog) \in Nat /\ n \in Nat
    <3> DEFINE len == Len(backlog)
    <3>1. len \in Nat
      BY DEF ServerInv, ServerTypes
    <3> HIDE DEF len
    <3>2. Least(len, AcceptMax) <= len /\ Least(len, AcceptMax) \in Nat
      BY <3>1, BinaryAssumption DEF Least
    <3> QED
      BY <3>1, <3>2 DEF len
  <2> HIDE DEF n
  <2>3. i \in 1 .. Len(backlog)
    BY <2>2
  <2>4. Listed(c)
    BY <2>1, <2>3 DEF Listed
  <2> QED
    BY <2>4 DEF ServerInv, ListInv
<1> HIDE DEF accepted
<1>3. ASSUME NEW c \in Conns
      PROVE  /\ Follows(conn[c], u) => Follows(conn'[c], u)
             /\ conn'[c].client = conn[c].client
  <2>1. conn[c] \in ConnTypes
    BY DEF ServerInv, ConnInv
  <2>2. CASE c \in accepted
    <3>1. conn'[c] = binary_conn_open(conn[c], c \in refused)
      BY <1>1, <2>2
    <3>2. conn[c].server # "closed"
      BY <1>2, <2>2
    <3>3. PICK fails : fails = (c \in refused)
      OBVIOUS
    <3>4. conn'[c] = binary_conn_open(conn[c], fails)
      BY <3>1, <3>3
    <3>5. Follows(conn[c], u) => Follows(conn'[c], u)
      BY <2>1, <3>2, <3>4, OpenFollows
    <3>6. conn'[c].client = conn[c].client
      BY <2>1, <3>4 DEF binary_conn_open, ConnTypes
    <3> QED
      BY <3>5, <3>6
  <2>3. CASE c \notin accepted
    BY <1>1, <2>3
  <2> QED
    BY <2>2, <2>3
<1> QED
  BY <1>3

LEMMA ServerKeeps ==
  ASSUME ServerInv, ServerNext, NEW u \in Bytes
  PROVE  \A c \in Conns : /\ Follows(conn[c], u) => Follows(conn'[c], u)
                          /\ conn'[c].client = conn[c].client
<1>1. CASE UNCHANGED conn
  BY <1>1
<1>2. CASE on_close
  BY <1>2, CloseKeeps DEF on_close
<1>3. CASE assert_fails \/ binary_server_shutdown
  BY <1>3, TornKeeps DEF assert_fails, binary_server_shutdown
<1>4. (\E c \in Conns : dispatch(c)) \/ dispatched => UNCHANGED conn
  BY DEF dispatch, dispatched
<1> QED
  BY <1>1, <1>2, <1>3, <1>4, ListenerKeeps, ReadKeeps, WriteKeeps, ProcessKeeps
     DEF ServerNext, WorkerStep

----------------------------------------------------------------------------
(* What the clients have begun to write                                     *)

(* A thread that will not come back to its connection j.                    *)
Passed(r, j) ==
  r.pc \in {"loop", "close", "done"} \/ (r.pc \in {"conn", "write", "read"} /\ r.i > j)

(* What thread r has left to write on its connection j: one that was cut    *)
(* off by the alarm is not used again.                                      *)
ThreadRest(r, j, stop, u) ==
  u = (IF r.pc = "write" /\ r.i = j THEN r.unsent ELSE <<>>) \/ (stop /\ Passed(r, j))

RestOf(c, u) ==
  /\ client.program = "threads" =>
       \A t \in Threads : \A j \in DOMAIN ConnsOf[t] :
         c = ConnsOf[t][j] => ThreadRest(thr[t], j, g_stop, u)
  /\ client.program = "uring" => u = <<>>
  /\ client.program = "other" => u = other[c].unsent

(* No client writes before it has connected.                                *)
Held(k, u) == Follows(k, u) /\ (k.client = "none" => u = <<>>)

InOrder == \A c \in Conns : \E u \in Bytes : RestOf(c, u) /\ Held(conn[c], u)

LEMMA OrderStarts ==
  ASSUME Init
  PROVE  InOrder
<1>1. TypeInv
  BY TypesStart
<1>2. \A c \in Conns : Held(conn[c], <<>>)
  BY NewFollows DEF Init, ServerInit, Held
<1>3. ASSUME NEW c \in Conns PROVE RestOf(c, <<>>)
  <2>1. thr = [t \in Threads |-> NoThread] /\ \A d \in Conns : other[d].unsent = <<>>
    BY DEF Init, ThreadsInit
  <2>2. NoThread.pc = "none"
    BY DEF NoThread
  <2>3. \A t \in Threads : \A j \in DOMAIN ConnsOf[t] : ThreadRest(thr[t], j, g_stop, <<>>)
    BY <2>1, <2>2 DEF ThreadRest
  <2> QED
    BY <2>1, <2>3 DEF RestOf
<1> QED
  BY <1>2, <1>3, EmptyTyped DEF InOrder

(* Every connection goes on as it was, and its client has as much to write. *)
LEMMA OrderKept ==
  ASSUME InOrder,
         \A c \in Conns, u \in Bytes :
           RestOf(c, u) /\ Held(conn[c], u) => \E v \in Bytes : RestOf(c, v)' /\ Held(conn'[c], v)
  PROVE  InOrder'
BY DEF InOrder

LEMMA HeldKept ==
  ASSUME NEW k, NEW r, NEW u, Held(k, u), Follows(k, u) => Follows(r, u),
         r.client = "none" => k.client = "none"
  PROVE  Held(r, u)
BY DEF Held

LEMMA ServerOrder ==
  ASSUME TypeInv, InOrder, ServerNext, UNCHANGED <<clientVars, threadsVars, uringVars, other>>
  PROVE  InOrder'
<1>1. ASSUME NEW c \in Conns, NEW u \in Bytes, RestOf(c, u), Held(conn[c], u)
      PROVE  RestOf(c, u)' /\ Held(conn'[c], u)
  <2>1. RestOf(c, u)'
    BY <1>1 DEF RestOf, clientVars, threadsVars, Threads, ConnsOf
  <2>2. ServerInv
    BY Invs
  <2>3. /\ Follows(conn[c], u) => Follows(conn'[c], u)
        /\ conn'[c].client = conn[c].client
    BY <2>2, ServerKeeps
  <2> QED
    BY <1>1, <2>1, <2>3, HeldKept
<1> QED
  BY <1>1, OrderKept

(* Sockets that are closed bring nothing any more.                          *)
LEMMA ClosingHolds ==
  ASSUME ConnInv, NEW closed, Closing(closed), NEW c \in Conns, NEW u, Held(conn[c], u)
  PROVE  Held(conn'[c], u)
<1>1. PICK lost : conn' = [d \in Conns |->
               IF d \in closed
               THEN [conn[d] EXCEPT !.client = "closed", !.down = <<>>, !.owed = <<>>,
                                    !.up = IF d \in lost THEN <<>> ELSE @]
               ELSE conn[d]]
  BY DEF Closing
<1>2. CASE c \in closed
  <2>1. conn[c] \in ConnTypes
    BY DEF ConnInv
  <2>2. conn'[c].client = "closed"
    BY <1>1, <1>2, <2>1 DEF ConnTypes
  <2> QED
    BY <2>2, ClientGone DEF Held
<1>3. CASE c \notin closed
  BY <1>1, <1>3
<1> QED
  BY <1>2, <1>3

LEMMA ConnectHolds ==
  ASSUME ConnInv, NEW c \in Conns, Connect(c)
  PROVE  /\ \A u : Held(conn[c], u) => u = <<>> /\ Held(conn'[c], u)
         /\ \A d \in Conns : d # c => conn'[d] = conn[d]
<1> DEFINE r == [conn[c] EXCEPT !.client = "open", !.server = "backlog"]
<1>1. conn[c] \in ConnTypes /\ conn[c].client = "none"
  BY DEF ConnInv, Connect
<1>2. conn' = [conn EXCEPT ![c] = r]
  BY DEF Connect, ConnInv
<1>3. r.client = "open"
  BY <1>1 DEF ConnTypes
<1>4. ASSUME NEW u, Held(conn[c], u) PROVE u = <<>> /\ Held(r, u)
  <2>1. u = <<>> /\ Follows(conn[c], u)
    BY <1>1, <1>4 DEF Held
  <2>2. Follows(r, <<>>)
    BY <1>1, <2>1, ConnectedFollows
  <2> HIDE DEF r
  <2> QED
    BY <1>3, <2>1, <2>2 DEF Held
<1> HIDE DEF r
<1> QED
  BY <1>2, <1>4 DEF ConnInv

----------------------------------------------------------------------------
(* The threads go on                                                        *)

(* The thread that is created is one that was not: it has nothing to write. *)
LEMMA FirstThread ==
  ASSUME NEW S, S \subseteq Nat, S # {}
  PROVE  (CHOOSE u \in S : \A v \in S : u <= v) \in S
<1>1. \E R : IsWellFoundedOn(R, Nat) /\ \A a, b \in Nat : a < b => <<a, b>> \in R
  <2>1. IsWellFoundedOn(OpToRel(<, Nat), Nat)
    BY NatLessThanWellFounded
  <2>2. \A a, b \in Nat : a < b => <<a, b>> \in OpToRel(<, Nat)
    BY DEF OpToRel
  <2> QED
    BY <2>1, <2>2
<1>2. PICK R : IsWellFoundedOn(R, Nat) /\ \A a, b \in Nat : a < b => <<a, b>> \in R
  BY <1>1
<1>3. IsWellFoundedOn(R, S)
  BY <1>2, IsWellFoundedOnSubset
<1>4. PICK x \in S : \A y \in S : ~(<<y, x>> \in R)
  BY <1>3, WFMin
<1>5. ASSUME NEW y \in S PROVE x <= y
  <2>1. x \in Nat /\ y \in Nat /\ ~(<<y, x>> \in R)
    BY <1>4
  <2>2. ~(y < x)
    BY <1>2, <2>1
  <2> QED
    BY <2>1, <2>2
<1> QED
  BY <1>5

(* Whose connection it is.                                                  *)
LEMMA OneOwner ==
  ASSUME ClientTypes, NEW t \in Threads, NEW i \in DOMAIN ConnsOf[t],
         NEW w \in Threads, NEW j \in DOMAIN ConnsOf[w], ConnsOf[t][i] = ConnsOf[w][j]
  PROVE  t = w /\ i = j
BY ClientAssumption DEF ClientTypes, ConnsOf, Threads

(* One thread takes a step: what it says of its connections is enough.      *)
LEMMA OneThread ==
  ASSUME TypeInv, InOrder, client.program = "threads", UNCHANGED clientVars,
         NEW t \in Threads, NEW r, thr' = [thr EXCEPT ![t] = r],
         \A j \in DOMAIN ConnsOf[t] : \A u \in Bytes :
           ThreadRest(thr[t], j, g_stop, u) /\ Held(conn[ConnsOf[t][j]], u) =>
             \E v \in Bytes : ThreadRest(r, j, g_stop, v) /\ Held(conn'[ConnsOf[t][j]], v),
         \A c \in Conns, u \in Bytes :
           (\A j \in DOMAIN ConnsOf[t] : c # ConnsOf[t][j]) /\ Held(conn[c], u) => Held(conn'[c], u)
  PROVE  InOrder'
<1>1. /\ client' = client /\ g_stop' = g_stop /\ ConnsOf' = ConnsOf /\ Threads' = Threads
      /\ thr'[t] = r /\ \A w \in Threads : w # t => thr'[w] = thr[w]
  <2>1. client' = client /\ g_stop' = g_stop
    BY DEF clientVars
  <2>2. ConnsOf' = ConnsOf /\ Threads' = Threads
    BY <2>1 DEF ConnsOf, Threads
  <2>3. thr \in [Threads -> ThreadRecords]
    BY Invs DEF ThreadTypes
  <2> QED
    BY <2>1, <2>2, <2>3
<1>2. ASSUME NEW c \in Conns, NEW u \in Bytes, RestOf(c, u), Held(conn[c], u),
             NEW i \in DOMAIN ConnsOf[t], c = ConnsOf[t][i]
      PROVE  \E v \in Bytes : RestOf(c, v)' /\ Held(conn'[c], v)
  <2>1. ThreadRest(thr[t], i, g_stop, u)
    BY <1>2 DEF RestOf
  <2>2. PICK v \in Bytes : ThreadRest(r, i, g_stop, v) /\ Held(conn'[c], v)
    BY <1>2, <2>1
  <2>3. \A w \in Threads : \A j \in DOMAIN ConnsOf[w] : c = ConnsOf[w][j] => w = t /\ j = i
    BY <1>2, Invs, OneOwner
  <2>4. \A w \in Threads : \A j \in DOMAIN ConnsOf[w] :
          c = ConnsOf[w][j] => ThreadRest(thr'[w], j, g_stop, v)
    BY <1>1, <2>2, <2>3
  <2>5. RestOf(c, v)'
    BY <1>1, <2>4 DEF RestOf
  <2> QED
    BY <2>2, <2>5
<1>3. ASSUME NEW c \in Conns, NEW u \in Bytes, RestOf(c, u), Held(conn[c], u),
             \A j \in DOMAIN ConnsOf[t] : c # ConnsOf[t][j]
      PROVE  RestOf(c, u)' /\ Held(conn'[c], u)
  <2>1. \A w \in Threads : \A j \in DOMAIN ConnsOf[w] :
          c = ConnsOf[w][j] => ThreadRest(thr[w], j, g_stop, u)
    BY <1>3 DEF RestOf
  <2>2. \A w \in Threads : \A j \in DOMAIN ConnsOf[w] :
          c = ConnsOf[w][j] => ThreadRest(thr'[w], j, g_stop, u)
    BY <1>1, <1>3, <2>1
  <2>3. RestOf(c, u)'
    BY <1>1, <2>2 DEF RestOf
  <2> QED
    BY <1>3, <2>3
<1> QED
  BY <1>2, <1>3, OrderKept

(* A thread that takes a step and leaves the sockets alone.                 *)
LEMMA ThreadAlone ==
  ASSUME TypeInv, InOrder, client.program = "threads", UNCHANGED clientVars, UNCHANGED conn,
         NEW t \in Threads, NEW r, thr' = [thr EXCEPT ![t] = r],
         \A j \in DOMAIN ConnsOf[t] : \A u \in Bytes :
           ThreadRest(thr[t], j, g_stop, u) => ThreadRest(r, j, g_stop, u)
  PROVE  InOrder'
BY OneThread

(* What a step of a thread, to the record r, with the connection i it is at *)
(* does to what it still has to write: to its other connections nothing, to *)
(* this one a prefix at most, which the connection then holds.              *)
OthersKept(t, i, r) ==
  \A j \in DOMAIN ConnsOf[t] : \A u \in Bytes :
    j # i /\ ThreadRest(thr[t], j, g_stop, u) => ThreadRest(r, j, g_stop, u)
RestHeld(t, i, r) ==
  \A u \in Bytes :
    ThreadRest(thr[t], i, g_stop, u) /\ Held(conn[ConnsOf[t][i]], u) =>
      \E v \in Bytes : ThreadRest(r, i, g_stop, v) /\ Held(conn'[ConnsOf[t][i]], v)

(* A thread that takes a step with the connection it is at.                 *)
LEMMA ThreadWith ==
  ASSUME TypeInv, InOrder, client.program = "threads", UNCHANGED clientVars,
         NEW t \in Threads, NEW r, thr' = [thr EXCEPT ![t] = r],
         NEW i \in DOMAIN ConnsOf[t], thr[t].i = i,
         \A c \in Conns : c # ConnsOf[t][i] => conn'[c] = conn[c],
         OthersKept(t, i, r), RestHeld(t, i, r)
  PROVE  InOrder'
<1>1. \A j \in DOMAIN ConnsOf[t] : ConnsOf[t][j] \in Conns
  BY Invs, ClientFacts
<1>2. \A j \in DOMAIN ConnsOf[t] : j # i => ConnsOf[t][j] # ConnsOf[t][i]
  BY Invs, OneOwner
<1>3. ASSUME NEW j \in DOMAIN ConnsOf[t], NEW u \in Bytes,
             ThreadRest(thr[t], j, g_stop, u), Held(conn[ConnsOf[t][j]], u)
      PROVE  \E v \in Bytes : ThreadRest(r, j, g_stop, v) /\ Held(conn'[ConnsOf[t][j]], v)
  <2>1. CASE j = i
    BY <1>3, <2>1 DEF RestHeld
  <2>2. CASE j # i
    <3>1. conn'[ConnsOf[t][j]] = conn[ConnsOf[t][j]]
      BY <1>1, <1>2, <2>2
    <3>2. ThreadRest(r, j, g_stop, u)
      BY <1>3, <2>2 DEF OthersKept
    <3> QED
      BY <1>3, <3>1, <3>2
  <2> QED
    BY <2>1, <2>2
<1>4. \A c \in Conns, u \in Bytes :
        (\A j \in DOMAIN ConnsOf[t] : c # ConnsOf[t][j]) /\ Held(conn[c], u) => Held(conn'[c], u)
  OBVIOUS
<1> QED
  BY <1>3, <1>4, OneThread

LEMMA CreateOrder ==
  ASSUME TypeInv, InOrder, pthread_create
  PROVE  InOrder'
<1>1. /\ client.program = "threads" /\ UNCHANGED clientVars /\ UNCHANGED conn
  BY DEF pthread_create, Running, serverVars
<1> DEFINE S == Threads \ Created
           t == CHOOSE u \in S : \A v \in S : u <= v
           r == [NoThread EXCEPT !.pc = "connect"]
<1>2. thr' = [thr EXCEPT ![t] = r]
  BY DEF pthread_create
<1>3. t \in Threads /\ thr[t].pc = "none"
  <2>1. S \subseteq Nat
    <3>1. ConnsOf \in Seq(Seq(Conns))
      BY Invs, ClientFacts
    <3> QED
      BY <3>1 DEF Threads
  <2>2. S # {}
    <3>1. Created \subseteq Threads /\ Created # Threads
      BY DEF pthread_create, Created
    <3> QED
      BY <3>1
  <2>3. t \in S
    BY <2>1, <2>2, FirstThread
  <2> HIDE DEF t
  <2> QED
    BY <2>3 DEF Created
<1> HIDE DEF t
<1>4. r.pc = "connect"
  BY DEF NoThread
<1> HIDE DEF r
<1>5. \A j \in DOMAIN ConnsOf[t] : \A u \in Bytes :
        ThreadRest(thr[t], j, g_stop, u) => ThreadRest(r, j, g_stop, u)
  BY <1>3, <1>4 DEF ThreadRest, Passed
<1> QED
  BY <1>1, <1>2, <1>3, <1>5, ThreadAlone

(* All of a client's sockets are closed.                                    *)
LEMMA ClosedOrder ==
  ASSUME TypeInv, InOrder, NEW closed, Closing(closed), UNCHANGED <<clientVars, thr, other>>
  PROVE  InOrder'
<1>1. ConnInv
  BY Invs
<1>2. ASSUME NEW c \in Conns, NEW u \in Bytes, RestOf(c, u), Held(conn[c], u)
      PROVE  RestOf(c, u)' /\ Held(conn'[c], u)
  <2>1. RestOf(c, u)'
    BY <1>2 DEF RestOf, clientVars, Threads, ConnsOf
  <2> QED
    BY <1>1, <1>2, <2>1, ClosingHolds
<1> QED
  BY <1>2, OrderKept

LEMMA SameOrder ==
  ASSUME InOrder, UNCHANGED <<clientVars, conn, thr, other>>
  PROVE  InOrder'
<1>1. ASSUME NEW c \in Conns, NEW u \in Bytes, RestOf(c, u), Held(conn[c], u)
      PROVE  RestOf(c, u)' /\ Held(conn'[c], u)
  BY <1>1 DEF RestOf, clientVars, Threads, ConnsOf
<1> QED
  BY <1>1, OrderKept

LEMMA MainOrder ==
  ASSUME TypeInv, InOrder, pthread_create_fails \/ alarm \/ pthread_join, UNCHANGED other
  PROVE  InOrder'
<1>1. CASE pthread_create_fails
  BY <1>1, ClosedOrder DEF pthread_create_fails, Killed
<1>2. CASE alarm \/ pthread_join
  BY <1>2, SameOrder DEF alarm, pthread_join, serverVars
<1> QED
  BY <1>1, <1>2

LEMMA ConnectOneOrder ==
  ASSUME TypeInv, InOrder, NEW t \in Threads, connect_one(t)
  PROVE  InOrder'
<1> DEFINE q == thr[t]
<1>1. client.program = "threads" /\ UNCHANGED clientVars /\ q.pc = "connect"
  BY DEF connect_one, At, Running
<1>2. /\ q \in ThreadRecords /\ q.i \in Nat \ {0} /\ Len(ConnsOf[t]) \in Nat
      /\ ConnsOf[t] \in Seq(Conns) /\ ConnInv
  BY Invs, ThreadFields, ClientFacts
<1>3. CASE thr' = [thr EXCEPT ![t].pc = "loop"] /\ UNCHANGED serverVars
  <2> DEFINE r == [q EXCEPT !.pc = "loop"]
  <2>1. thr' = [thr EXCEPT ![t] = r] /\ UNCHANGED conn
    BY <1>3 DEF serverVars
  <2>2. r.pc = "loop"
    BY <1>2 DEF ThreadRecords
  <2> HIDE DEF r
  <2>3. \A j \in DOMAIN ConnsOf[t] : \A u \in Bytes :
          ThreadRest(q, j, g_stop, u) => ThreadRest(r, j, g_stop, u)
    BY <1>1, <2>2 DEF ThreadRest, Passed
  <2> QED
    BY <1>1, <2>1, <2>3, ThreadAlone
<1>4. CASE /\ q.i <= Len(ConnsOf[t])
           /\ thr' = [thr EXCEPT ![t].i = @ + 1]
           /\ \/ Connect(MyConn(t))
              \/ conn' = [conn EXCEPT ![MyConn(t)].client = "failed"]
  <2> DEFINE i == q.i + 1
             r == [q EXCEPT !.i = i]
             d == ConnsOf[t][q.i]
  <2>1. thr' = [thr EXCEPT ![t] = r]
    BY <1>4
  <2>2. r.pc = "connect"
    BY <1>1, <1>2 DEF ThreadRecords
  <2> HIDE DEF r
  <2>3. \A j \in DOMAIN ConnsOf[t] : \A u \in Bytes :
          ThreadRest(q, j, g_stop, u) <=> u = <<>>
    BY <1>1 DEF ThreadRest, Passed
  <2>4. \A j \in DOMAIN ConnsOf[t] : \A u \in Bytes :
          ThreadRest(r, j, g_stop, u) <=> u = <<>>
    BY <2>2 DEF ThreadRest, Passed
  <2>5. q.i \in DOMAIN ConnsOf[t] /\ d \in Conns /\ MyConn(t) = d
    BY <1>2, <1>4 DEF MyConn
  <2>6. /\ \A c \in Conns : c # d => conn'[c] = conn[c]
        /\ Held(conn[d], <<>>) => Held(conn'[d], <<>>)
    <3>1. CASE Connect(d)
      BY <1>2, <2>5, <3>1, ConnectHolds
    <3>2. CASE conn' = [conn EXCEPT ![d].client = "failed"]
      <4>1. conn'[d].client = "failed" /\ \A c \in Conns : c # d => conn'[c] = conn[c]
        BY <1>2, <2>5, <3>2 DEF ConnInv, ConnTypes
      <4> QED
        BY <4>1, ClientGone DEF Held
    <3> QED
      BY <1>4, <2>5, <3>1, <3>2
  <2>7. \A u \in Bytes :
          ThreadRest(q, q.i, g_stop, u) /\ Held(conn[d], u) =>
            \E v \in Bytes : ThreadRest(r, q.i, g_stop, v) /\ Held(conn'[d], v)
    BY <2>3, <2>4, <2>5, <2>6, EmptyTyped
  <2>8. \A j \in DOMAIN ConnsOf[t] : \A u \in Bytes :
          j # q.i /\ ThreadRest(q, j, g_stop, u) => ThreadRest(r, j, g_stop, u)
    BY <2>3, <2>4
  <2>9. /\ q.i \in DOMAIN ConnsOf[t]
        /\ \A c \in Conns : c # ConnsOf[t][q.i] => conn'[c] = conn[c]
    BY <2>5, <2>6
  <2>10. RestHeld(t, q.i, r) /\ OthersKept(t, q.i, r)
    BY <2>7, <2>8 DEF RestHeld, OthersKept
  <2> QED
    BY <1>1, <2>1, <2>9, <2>10, ThreadWith
<1> QED
  BY <1>3, <1>4 DEF connect_one

LEMMA LoopOrder ==
  ASSUME TypeInv, InOrder, NEW t \in Threads, loop(t)
  PROVE  InOrder'
<1> DEFINE q == thr[t]
           pc == IF g_stop THEN "close" ELSE "conn"
           r == [q EXCEPT !.pc = pc, !.i = 1]
<1>1. /\ client.program = "threads" /\ UNCHANGED clientVars /\ q.pc = "loop" /\ UNCHANGED conn
      /\ thr' = [thr EXCEPT ![t] = r]
  BY DEF loop, At, Running, serverVars
<1>2. q \in ThreadRecords
  BY Invs, ThreadFields
<1>3. r.pc = pc
  BY <1>2 DEF ThreadRecords
<1> HIDE DEF r
<1>4. \A j \in DOMAIN ConnsOf[t] : \A u \in Bytes :
        ThreadRest(q, j, g_stop, u) => ThreadRest(r, j, g_stop, u)
  BY <1>1, <1>3 DEF ThreadRest, Passed
<1> QED
  BY <1>1, <1>4, ThreadAlone

LEMMA SendOrder ==
  ASSUME TypeInv, InOrder, NEW t \in Threads, send(t)
  PROVE  InOrder'
<1> DEFINE q == thr[t]
<1>1. client.program = "threads" /\ UNCHANGED clientVars /\ q.pc = "conn"
  BY DEF send, At, Running
<1>2. /\ q \in ThreadRecords /\ q.i \in Nat \ {0} /\ Len(ConnsOf[t]) \in Nat
      /\ ConnsOf[t] \in Seq(Conns) /\ DOMAIN ConnsOf[t] \subseteq Nat
  BY Invs, ThreadFields, ClientFacts
<1>3. CASE thr' = [thr EXCEPT ![t].pc = "loop"] /\ UNCHANGED conn
  <2> DEFINE r == [q EXCEPT !.pc = "loop"]
  <2>1. thr' = [thr EXCEPT ![t] = r]
    BY <1>3
  <2>2. r.pc = "loop"
    BY <1>2 DEF ThreadRecords
  <2> HIDE DEF r
  <2>3. \A j \in DOMAIN ConnsOf[t] : \A u \in Bytes :
          ThreadRest(q, j, g_stop, u) => ThreadRest(r, j, g_stop, u)
    BY <1>1, <2>2 DEF ThreadRest, Passed
  <2> QED
    BY <1>1, <1>3, <2>1, <2>3, ThreadAlone
<1>4. CASE thr' = [thr EXCEPT ![t].i = @ + 1] /\ UNCHANGED conn
  <2> DEFINE i == q.i + 1
             r == [q EXCEPT !.i = i]
  <2>1. thr' = [thr EXCEPT ![t] = r]
    BY <1>4
  <2>2. r.pc = "conn" /\ r.i = i
    BY <1>1, <1>2 DEF ThreadRecords
  <2> HIDE DEF r
  <2>3. \A j \in DOMAIN ConnsOf[t] : q.i > j => i > j
    BY <1>2
  <2> HIDE DEF i
  <2>4. \A j \in DOMAIN ConnsOf[t] : \A u \in Bytes :
          ThreadRest(q, j, g_stop, u) => ThreadRest(r, j, g_stop, u)
    BY <1>1, <2>2, <2>3 DEF ThreadRest, Passed
  <2> QED
    BY <1>1, <1>4, <2>1, <2>4, ThreadAlone
<1>5. CASE /\ q.i <= Len(ConnsOf[t]) /\ conn[MyConn(t)].client = "open"
           /\ thr' = [thr EXCEPT ![t].pc = "write", ![t].unsent = Frame(Request(t))]
           /\ conn' = [conn EXCEPT ![MyConn(t)] = Owe(@, Request(t))]
  <2> DEFINE unsent == Frame(Request(t))
             r == [q EXCEPT !.pc = "write", !.unsent = unsent]
             d == ConnsOf[t][q.i]
             k == Owe(conn[d], Request(t))
  <2>1. thr' = [thr EXCEPT ![t] = r]
    BY <1>5
  <2>2. r.pc = "write" /\ r.i = q.i /\ r.unsent = unsent
    BY <1>2 DEF ThreadRecords
  <2> HIDE DEF r
  <2>3. q.i \in DOMAIN ConnsOf[t] /\ d \in Conns /\ MyConn(t) = d
    BY <1>2, <1>5 DEF MyConn
  <2>4. conn[d] \in ConnTypes /\ conn[d].client = "open" /\ conn \in [Conns -> ConnTypes]
    BY <1>5, <2>3, Invs DEF ConnInv
  <2>5. conn'[d] = k /\ \A c \in Conns : c # d => conn'[c] = conn[c]
    BY <1>5, <2>3, <2>4
  <2>6. Follows(conn[d], <<>>) => Follows(k, unsent)
    <3>1. [x |-> q.x, hp |-> Byte - 1] \in States /\ proto \in Codecs
      BY Invs, ThreadFields, BinaryAssumption DEF States, ClientTypes
    <3> QED
      BY <2>4, <3>1, OweFollows DEF Request
  <2>7. k.client = "open"
    BY <2>4 DEF Owe, ConnTypes
  <2> HIDE DEF k
  <2>8. unsent \in Bytes
    BY Invs, RequestTyped
  <2> HIDE DEF unsent
  <2>9. ThreadRest(r, q.i, g_stop, unsent)
    BY <2>2 DEF ThreadRest
  <2>10. Held(conn[d], <<>>) => Held(k, unsent)
    BY <2>6, <2>7 DEF Held
  <2>11. \A u \in Bytes : ThreadRest(q, q.i, g_stop, u) => u = <<>>
    BY <1>1, <1>2 DEF ThreadRest, Passed
  <2>12. \A u \in Bytes :
          ThreadRest(q, q.i, g_stop, u) /\ Held(conn[d], u) =>
            \E v \in Bytes : ThreadRest(r, q.i, g_stop, v) /\ Held(conn'[d], v)
    BY <2>5, <2>8, <2>9, <2>10, <2>11
  <2>13. \A j \in DOMAIN ConnsOf[t] : \A u \in Bytes :
          j # q.i /\ ThreadRest(q, j, g_stop, u) => ThreadRest(r, j, g_stop, u)
    BY <1>1, <2>2 DEF ThreadRest, Passed
  <2>14. \A c \in Conns : c # ConnsOf[t][q.i] => conn'[c] = conn[c]
    BY <2>5
  <2>15. RestHeld(t, q.i, r) /\ OthersKept(t, q.i, r)
    BY <2>12, <2>13 DEF RestHeld, OthersKept
  <2> QED
    BY <1>1, <2>1, <2>3, <2>14, <2>15, ThreadWith
<1> QED
  BY <1>3, <1>4, <1>5 DEF send

LEMMA NextFields ==
  ASSUME NEW r \in ThreadRecords
  PROVE  NextConn(r).pc = "conn" /\ NextConn(r).i = r.i + 1
<1> DEFINE i == r.i + 1
<1>1. NextConn(r) = [r EXCEPT !.pc = "conn", !.i = i, !.d = 0, !.unsent = <<>>, !.reply = <<>>]
  BY DEF NextConn
<1> HIDE DEF i
<1>2. NextConn(r).pc = "conn" /\ NextConn(r).i = i
  BY <1>1 DEF ThreadRecords
<1> QED
  BY <1>2 DEF i

LEMMA WrittenFields ==
  ASSUME NEW r \in ThreadRecords
  PROVE  Written(r).pc \in {"conn", "read"} /\ Written(r).i = r.i
<1> DEFINE x == (r.x + 1) % Byte
           d == IF r.d + 1 < Depth THEN r.d + 1 ELSE 0
           pc == IF r.d + 1 < Depth THEN "conn" ELSE "read"
<1>1. Written(r) = [r EXCEPT !.d = d, !.x = x, !.pc = pc, !.unsent = <<>>]
  BY DEF Written
<1>2. pc \in {"conn", "read"}
  OBVIOUS
<1> HIDE DEF x, d, pc
<1> QED
  BY <1>1, <1>2 DEF ThreadRecords

(* A connection that the thread is done with for now, or goes back to.      *)
LEMMA NothingLeft ==
  ASSUME NEW r, r.pc # "write", NEW j, NEW stop
  PROVE  ThreadRest(r, j, stop, <<>>)
BY DEF ThreadRest

(* What a thread that writes or reads says of its other connections holds   *)
(* when it is through with this one.                                        *)
LEMMA OthersRest ==
  ASSUME NEW q, NEW r, q.i \in Nat, r.i \in {q.i, q.i + 1},
         q.pc \in {"write", "read"}, r.pc \in {"conn", "write", "read"},
         r.pc = "write" => r.i = q.i,
         NEW j \in Nat, j # q.i, NEW stop, NEW u, ThreadRest(q, j, stop, u)
  PROVE  ThreadRest(r, j, stop, u)
<1>1. u = <<>> \/ (stop /\ q.i > j)
  BY DEF ThreadRest, Passed
<1>2. q.i > j => r.i > j
  OBVIOUS
<1> QED
  BY <1>1, <1>2 DEF ThreadRest, Passed

LEMMA LenZero ==
  \A a \in Bytes : Len(a) = 0 => a = <<>>
BY DEF Bytes

LEMMA WriteHolds ==
  ASSUME NEW k \in ConnTypes, NEW a \in Bytes, NEW b \in Bytes, a # <<>>, Held(k, a \o b)
  PROVE  Held(Write(k, a), b)
<1>1. a \o b # <<>>
  <2>1. Len(a) # 0
    BY ByteSeq, LenZero
  <2>2. Len(a \o b) # 0
    BY <2>1, ByteSeq, Joined
  <2> QED
    BY <2>2, EmptyTyped
<1>2. k.client # "none" /\ Follows(k, a \o b)
  BY <1>1 DEF Held
<1>3. Follows(Write(k, a), b)
  BY <1>2, WriteFollows
<1>4. Write(k, a).client = k.client
  BY DEF Write, ConnTypes
<1> QED
  BY <1>2, <1>3, <1>4 DEF Held

LEMMA FreeTyped ==
  ASSUME NEW k \in ConnTypes, room \in Nat
  PROVE  Free(k) \in Int
<1>1. PICK up \in Bytes : up = k.up
  BY ConnFields
<1>2. Len(up) \in Nat
  BY ByteSeq
<1> QED
  BY <1>1, <1>2 DEF Free

LEMMA WriteOrder ==
  ASSUME TypeInv, InOrder, NEW t \in Threads, write(t), UNCHANGED other
  PROVE  InOrder'
<1> DEFINE q == thr[t]
           d == ConnsOf[t][q.i]
           k == conn[d]
<1>1. client.program = "threads" /\ UNCHANGED clientVars /\ q.pc = "write"
  BY DEF write, At, Running
<1>2. /\ q \in ThreadRecords /\ q.i \in Nat \ {0} /\ Len(ConnsOf[t]) \in Nat
      /\ ConnsOf[t] \in Seq(Conns) /\ DOMAIN ConnsOf[t] \subseteq Nat /\ q.unsent \in Bytes
      /\ q.i <= Len(ConnsOf[t])
  <2>1. /\ q \in ThreadRecords /\ q.i \in Nat \ {0} /\ Len(ConnsOf[t]) \in Nat
        /\ q.unsent \in Bytes /\ Placed(t, q)
    BY Invs, ThreadFields
  <2>2. ConnsOf[t] \in Seq(Conns)
    BY Invs, ClientFacts
  <2>3. DOMAIN ConnsOf[t] \subseteq Nat
    BY <2>2
  <2>4. q.i <= Len(ConnsOf[t])
    BY <1>1, <2>1 DEF Placed
  <2> QED
    BY <2>1, <2>2, <2>3, <2>4
<1>3. q.i \in DOMAIN ConnsOf[t] /\ d \in Conns /\ MyConn(t) = d
  BY <1>2 DEF MyConn
<1>4. k \in ConnTypes /\ conn \in [Conns -> ConnTypes] /\ room \in Nat
  BY <1>3, Invs DEF ConnInv
<1>5. \A u \in Bytes : ThreadRest(q, q.i, g_stop, u) => u = q.unsent
  BY <1>1, <1>2 DEF ThreadRest, Passed
<1>6. ASSUME NEW n \in 1 .. Least(Free(k), Len(q.unsent)),
             conn' = [conn EXCEPT ![d] = Write(k, SubSeq(q.unsent, 1, n))],
             thr' = [thr EXCEPT ![t] = IF n = Len(q.unsent) THEN Written(q)
                                       ELSE [q EXCEPT !.unsent = Drop(@, n)]]
      PROVE  InOrder'
  <2> DEFINE part == SubSeq(q.unsent, 1, n)
             rest == Drop(q.unsent, n)
             w == [q EXCEPT !.unsent = rest]
             r == IF n = Len(q.unsent) THEN Written(q) ELSE w
  <2>1. n \in 1 .. Len(q.unsent) /\ n \in 0 .. Len(q.unsent) /\ n \in Nat
    <3> DEFINE a == Free(k)
               b == Len(q.unsent)
    <3>1. b \in Nat
      BY <1>2 DEF Bytes
    <3>9. a \in Int
      BY <1>4, FreeTyped
    <3>2. n \in 1 .. Least(a, b)
      BY <1>6
    <3> HIDE DEF a, b
    <3>3. n \in 1 .. b /\ n \in 0 .. b /\ n \in Nat
      BY <3>1, <3>2, <3>9 DEF Least
    <3> QED
      BY <3>3 DEF b
  <2>2. /\ part \in Bytes /\ rest \in Bytes /\ Len(part) = n /\ Len(rest) = Len(q.unsent) - n
        /\ q.unsent = part \o rest
    BY <1>2, <2>1, Cut
  <2>3. part # <<>>
    <3>1. Len(part) = n /\ n # 0
      BY <2>1, <2>2
    <3> HIDE DEF part
    <3> QED
      BY <3>1, EmptyTyped
  <2>4. conn'[d] = Write(k, part) /\ \A c \in Conns : c # d => conn'[c] = conn[c]
    BY <1>3, <1>4, <1>6
  <2>5. thr' = [thr EXCEPT ![t] = r]
    BY <1>6
  <2>6. n = Len(q.unsent) => rest = <<>>
    <3>1. n = Len(q.unsent) => Len(rest) = 0
      BY <1>2, <2>1, <2>2, ByteSeq
    <3> QED
      BY <2>2, <3>1, ByteSeq, LenZero
  <2> HIDE DEF part, rest
  <2>7. w.pc = "write" /\ w.i = q.i /\ w.unsent = rest
    BY <1>1, <1>2 DEF ThreadRecords
  <2>8. Written(q).pc \in {"conn", "read"} /\ Written(q).i = q.i
    BY <1>2, WrittenFields
  <2> HIDE DEF w
  <2>9. /\ r.i = q.i /\ r.pc \in {"conn", "write", "read"}
        /\ ThreadRest(r, q.i, g_stop, rest)
    <3>1. CASE n = Len(q.unsent)
      BY <2>6, <2>8, <3>1, NothingLeft
    <3>2. CASE n # Len(q.unsent)
      BY <2>7, <3>2 DEF ThreadRest
    <3> QED
      BY <3>1, <3>2
  <2> HIDE DEF r
  <2>10. Held(k, q.unsent) => Held(Write(k, part), rest)
    BY <1>4, <2>2, <2>3, WriteHolds
  <2>11. \A u \in Bytes :
          ThreadRest(q, q.i, g_stop, u) /\ Held(conn[d], u) =>
            \E v \in Bytes : ThreadRest(r, q.i, g_stop, v) /\ Held(conn'[d], v)
    BY <1>5, <2>2, <2>4, <2>9, <2>10
  <2>12. \A j \in DOMAIN ConnsOf[t] : \A u \in Bytes :
          j # q.i /\ ThreadRest(q, j, g_stop, u) => ThreadRest(r, j, g_stop, u)
    BY <1>1, <1>2, <2>9, OthersRest
  <2>13. \A c \in Conns : c # ConnsOf[t][q.i] => conn'[c] = conn[c]
    BY <2>4
  <2>14. RestHeld(t, q.i, r) /\ OthersKept(t, q.i, r)
    BY <2>11, <2>12 DEF RestHeld, OthersKept
  <2> QED
    BY <1>1, <1>3, <2>5, <2>13, <2>14, ThreadWith
<1>7. ASSUME k.server = "closed", NEW r \in {Written(q), NextConn(q)},
             thr' = [thr EXCEPT ![t] = r], UNCHANGED conn
      PROVE  InOrder'
  <2>1. r.i \in {q.i, q.i + 1} /\ r.pc \in {"conn", "read"}
    BY <1>2, <1>7, NextFields, WrittenFields
  <2>2. ThreadRest(r, q.i, g_stop, <<>>)
    BY <2>1, NothingLeft
  <2>3. \A u \in Bytes : Held(k, u) => Held(k, <<>>)
    BY <1>7, ServerGone DEF Held
  <2>4. \A u \in Bytes :
          ThreadRest(q, q.i, g_stop, u) /\ Held(conn[d], u) =>
            \E v \in Bytes : ThreadRest(r, q.i, g_stop, v) /\ Held(conn'[d], v)
    BY <1>7, <2>2, <2>3, EmptyTyped
  <2>5. \A j \in DOMAIN ConnsOf[t] : \A u \in Bytes :
          j # q.i /\ ThreadRest(q, j, g_stop, u) => ThreadRest(r, j, g_stop, u)
    BY <1>1, <1>2, <2>1, OthersRest
  <2>6. RestHeld(t, q.i, r) /\ OthersKept(t, q.i, r)
    BY <2>4, <2>5 DEF RestHeld, OthersKept
  <2> QED
    BY <1>1, <1>3, <1>7, <2>6, ThreadWith
<1>8. CASE Killed
  BY <1>1, <1>8, ClosedOrder DEF Killed
<1> QED
  BY <1>3, <1>6, <1>7, <1>8 DEF write, serverVars

LEMMA AnsweredFields ==
  ASSUME NEW r \in ThreadRecords, r.pc = "read", NEW s \in Bytes
  PROVE  Answered(r, s).i \in {r.i, r.i + 1} /\ Answered(r, s).pc \in {"conn", "read"}
<1>1. NextConn(r).i = r.i + 1 /\ NextConn(r).pc = "conn"
  BY NextFields
<1> DEFINE p == [r EXCEPT !.reply = s]
           d == r.d + 1
           n == [r EXCEPT !.reply = <<>>, !.d = d]
<1>2. p.i = r.i /\ p.pc = "read"
  BY DEF ThreadRecords
<1>3. n.i = r.i /\ n.pc = "read"
  BY DEF ThreadRecords
<1>4. \/ Answered(r, s) = NextConn(r)
      \/ Answered(r, s) = p
      \/ Answered(r, s) = n
  BY DEF Answered
<1> HIDE DEF p, n, d
<1> QED
  BY <1>1, <1>2, <1>3, <1>4

LEMMA ReadHolds ==
  ASSUME NEW k \in ConnTypes, NEW u, Held(k, u), NEW n \in 1 .. Len(k.down)
  PROVE  Held(Read(k, n), u)
<1>1. n \in 0 .. Len(k.down) /\ Len(k.down) # 0
  <2>1. Len(k.down) \in Nat
    BY ConnFields, ByteSeq
  <2> QED
    BY <2>1
<1>2. k.client # "none"
  BY <1>1, EmptyTyped DEF Held, Follows
<1>3. Follows(Read(k, n), u)
  BY <1>1, <1>2, ReadFollows DEF Held
<1>4. Read(k, n).client = k.client
  BY DEF Read, ConnTypes
<1> QED
  BY <1>2, <1>3, <1>4 DEF Held

(* A thread that has read from the connection it is at, or gives up on it.  *)
LEMMA ReadWith ==
  ASSUME TypeInv, InOrder, client.program = "threads", UNCHANGED clientVars,
         NEW t \in Threads, NEW r, thr' = [thr EXCEPT ![t] = r],
         NEW i \in DOMAIN ConnsOf[t], thr[t].i = i, thr[t].pc = "read",
         r.i \in {i, i + 1}, r.pc \in {"conn", "read"},
         \A c \in Conns : c # ConnsOf[t][i] => conn'[c] = conn[c],
         \A u \in Bytes : Held(conn[ConnsOf[t][i]], u) => Held(conn'[ConnsOf[t][i]], u)
  PROVE  InOrder'
<1> DEFINE q == thr[t]
<1>1. DOMAIN ConnsOf[t] \subseteq Nat
  BY Invs, ClientFacts
<1>2. \A u \in Bytes : ThreadRest(q, i, g_stop, u) => u = <<>>
  BY <1>1 DEF ThreadRest, Passed
<1>3. ThreadRest(r, i, g_stop, <<>>)
  BY NothingLeft
<1>4. \A u \in Bytes :
        ThreadRest(q, i, g_stop, u) /\ Held(conn[ConnsOf[t][i]], u) =>
          \E v \in Bytes : ThreadRest(r, i, g_stop, v) /\ Held(conn'[ConnsOf[t][i]], v)
  BY <1>2, <1>3, EmptyTyped
<1>5. \A j \in DOMAIN ConnsOf[t] : \A u \in Bytes :
        j # i /\ ThreadRest(q, j, g_stop, u) => ThreadRest(r, j, g_stop, u)
  BY <1>1, OthersRest
<1>6. RestHeld(t, i, r) /\ OthersKept(t, i, r)
  BY <1>4, <1>5 DEF RestHeld, OthersKept
<1> QED
  BY <1>6, ThreadWith

LEMMA ReadReplyOrder ==
  ASSUME TypeInv, InOrder, NEW t \in Threads, read_reply(t)
  PROVE  InOrder'
<1> DEFINE q == thr[t]
           d == ConnsOf[t][q.i]
           k == conn[d]
           n == Least(Needed(q.reply), Len(k.down))
           s == q.reply \o SubSeq(k.down, 1, n)
<1>1. client.program = "threads" /\ UNCHANGED clientVars /\ q.pc = "read"
  BY DEF read_reply, At, Running
<1>2. /\ q \in ThreadRecords /\ q.i \in Nat \ {0} /\ Len(ConnsOf[t]) \in Nat
      /\ ConnsOf[t] \in Seq(Conns) /\ DOMAIN ConnsOf[t] \subseteq Nat /\ q.reply \in Bytes
      /\ q.i <= Len(ConnsOf[t])
  <2>1. /\ q \in ThreadRecords /\ q.i \in Nat \ {0} /\ Len(ConnsOf[t]) \in Nat
        /\ q.reply \in Bytes /\ Placed(t, q)
    BY Invs, ThreadFields
  <2>2. ConnsOf[t] \in Seq(Conns)
    BY Invs, ClientFacts
  <2>3. DOMAIN ConnsOf[t] \subseteq Nat
    BY <2>2
  <2>4. q.i <= Len(ConnsOf[t])
    BY <1>1, <2>1 DEF Placed
  <2> QED
    BY <2>1, <2>2, <2>3, <2>4
<1>3. q.i \in DOMAIN ConnsOf[t] /\ d \in Conns /\ MyConn(t) = d
  BY <1>2 DEF MyConn
<1>4. k \in ConnTypes /\ conn \in [Conns -> ConnTypes] /\ k.down \in Bytes
  BY <1>3, Invs, ConnFields DEF ConnInv
<1>6. CASE /\ n > 0 /\ conn' = [conn EXCEPT ![d] = Read(k, n)]
           /\ thr' = [thr EXCEPT ![t] = Answered(q, s)]
  <2>1. n \in 1 .. Len(k.down) /\ n \in 0 .. Len(k.down)
    <3> DEFINE a == Needed(q.reply)
               b == Len(k.down)
    <3>1. a \in Int
      <4>1. CASE Len(q.reply) < 2
        BY <1>2, <4>1 DEF Needed, Bytes
      <4>2. CASE ~(Len(q.reply) < 2)
        <5>1. Len(q.reply) \in Nat /\ Len(q.reply) >= 2
          BY <1>2, <4>2 DEF Bytes
        <5>2. Length(q.reply) \in Nat
          BY <1>2, <5>1, LengthTyped
        <5> QED
          BY <4>2, <5>1, <5>2 DEF Needed
      <4> QED
        BY <4>1, <4>2
    <3>2. b \in Nat
      BY <1>4 DEF Bytes
    <3> HIDE DEF a, b
    <3>3. n = Least(a, b) /\ n > 0
      BY <1>6 DEF a, b
    <3> HIDE DEF n
    <3>4. n \in 1 .. b /\ n \in 0 .. b
      BY <3>1, <3>2, <3>3 DEF Least
    <3> QED
      BY <3>4 DEF b
  <2> HIDE DEF n
  <2>2. s \in Bytes
    BY <1>2, <1>4, <2>1, Cut, Joined
  <2> HIDE DEF s
  <2>3. Answered(q, s).i \in {q.i, q.i + 1} /\ Answered(q, s).pc \in {"conn", "read"}
    BY <1>1, <1>2, <2>2, AnsweredFields
  <2>4. \A u \in Bytes : Held(k, u) => Held(Read(k, n), u)
    BY <1>4, <2>1, ReadHolds
  <2>5. conn'[d] = Read(k, n) /\ \A c \in Conns : c # d => conn'[c] = conn[c]
    BY <1>3, <1>4, <1>6
  <2>6. \A u \in Bytes : Held(k, u) => Held(conn'[d], u)
    BY <2>4, <2>5
  <2> DEFINE r == Answered(q, s)
  <2>7. thr' = [thr EXCEPT ![t] = r] /\ r.i \in {q.i, q.i + 1} /\ r.pc \in {"conn", "read"}
    BY <1>6, <2>3
  <2> HIDE DEF r
  <2> QED
    BY <1>1, <1>3, <2>5, <2>6, <2>7, ReadWith
<1>7. CASE thr' = [thr EXCEPT ![t] = NextConn(q)] /\ UNCHANGED conn
  <2> DEFINE r == NextConn(q)
  <2>1. thr' = [thr EXCEPT ![t] = r] /\ r.i \in {q.i, q.i + 1} /\ r.pc \in {"conn", "read"}
    BY <1>2, <1>7, NextFields
  <2> HIDE DEF r
  <2> QED
    BY <1>1, <1>3, <1>7, <2>1, ReadWith
<1> QED
  BY <1>3, <1>6, <1>7 DEF read_reply

LEMMA CloseAllOrder ==
  ASSUME TypeInv, InOrder, NEW t \in Threads, close_all(t)
  PROVE  InOrder'
<1> DEFINE q == thr[t]
           r == [q EXCEPT !.pc = "done"]
           closed == Open \cap Range(ConnsOf[t])
<1>1. /\ client.program = "threads" /\ UNCHANGED clientVars /\ q.pc = "close"
      /\ thr' = [thr EXCEPT ![t] = r] /\ Closing(closed)
  BY DEF close_all, At, Running
<1>2. q \in ThreadRecords /\ ConnInv /\ \A j \in DOMAIN ConnsOf[t] : ConnsOf[t][j] \in Conns
  BY Invs, ThreadFields, ClientFacts
<1>3. r.pc = "done"
  BY <1>2 DEF ThreadRecords
<1> HIDE DEF r, closed
<1>4. \A j \in DOMAIN ConnsOf[t] : \A u \in Bytes :
        ThreadRest(q, j, g_stop, u) => ThreadRest(r, j, g_stop, u)
  BY <1>1, <1>3 DEF ThreadRest, Passed
<1>5. \A c \in Conns, u \in Bytes : Held(conn[c], u) => Held(conn'[c], u)
  BY <1>1, <1>2, ClosingHolds
<1>6. \A j \in DOMAIN ConnsOf[t] : \A u \in Bytes :
        ThreadRest(q, j, g_stop, u) /\ Held(conn[ConnsOf[t][j]], u) =>
          \E v \in Bytes : ThreadRest(r, j, g_stop, v) /\ Held(conn'[ConnsOf[t][j]], v)
  BY <1>2, <1>4, <1>5
<1> QED
  BY <1>1, <1>5, <1>6, OneThread

LEMMA SigalrmThreadsOrder ==
  ASSUME TypeInv, InOrder, on_sigalrm_threads
  PROVE  InOrder'
<1>1. /\ g_stop = FALSE /\ g_stop' = TRUE /\ client' = client /\ UNCHANGED conn
      /\ client.program = "threads"
  BY Invs DEF on_sigalrm_threads, serverVars, Running, ClientTypes
<1>2. PICK cut \in {{}} \cup {{t} : t \in {u \in Threads :
                     thr[u].pc = "write" /\ thr[u].unsent # Frame(Request(u))}} :
        thr' = [t \in Threads |-> IF t \in cut THEN NextConn(thr[t]) ELSE thr[t]]
  BY DEF on_sigalrm_threads
<1>3. Threads' = Threads /\ ConnsOf' = ConnsOf
  BY <1>1 DEF Threads, ConnsOf
<1>4. ASSUME NEW t \in Threads, NEW j \in DOMAIN ConnsOf[t], NEW u,
             ThreadRest(thr[t], j, FALSE, u)
      PROVE  ThreadRest(thr'[t], j, TRUE, u)
  <2>1. CASE t \in cut
    <3>1. thr[t].pc = "write" /\ thr'[t] = NextConn(thr[t])
      BY <1>2, <2>1
    <3>2. thr[t] \in ThreadRecords /\ thr[t].i \in Nat
      BY Invs, ThreadFields
    <3>3. thr'[t].pc = "conn" /\ thr'[t].i = thr[t].i + 1
      BY <3>1, <3>2, NextFields
    <3>4. j = thr[t].i => thr'[t].i > j
      BY <3>2, <3>3
    <3> QED
      BY <1>4, <3>1, <3>3, <3>4 DEF ThreadRest, Passed
  <2>2. CASE t \notin cut
    BY <1>2, <1>4, <2>2 DEF ThreadRest
  <2> QED
    BY <2>1, <2>2
<1>5. ASSUME NEW c \in Conns, NEW u \in Bytes, RestOf(c, u) PROVE RestOf(c, u)'
  <2>1. \A t \in Threads : \A j \in DOMAIN ConnsOf[t] :
          c = ConnsOf[t][j] => ThreadRest(thr'[t], j, TRUE, u)
    BY <1>1, <1>4, <1>5 DEF RestOf
  <2> QED
    BY <1>1, <1>3, <2>1 DEF RestOf
<1> QED
  BY <1>1, <1>5, OrderKept

LEMMA ThreadsOrder ==
  ASSUME TypeInv, InOrder, ThreadsNext, UNCHANGED <<uringVars, other>>
  PROVE  InOrder'
<1>1. ASSUME NEW t \in Threads, ThreadStep(t) PROVE InOrder'
  BY <1>1, ConnectOneOrder, LoopOrder, SendOrder, WriteOrder, ReadReplyOrder, CloseAllOrder
     DEF ThreadStep
<1> QED
  BY <1>1, CreateOrder, MainOrder, SigalrmThreadsOrder DEF ThreadsNext, MainStep

----------------------------------------------------------------------------
(* The ring and the other program go on                                     *)

(* No operation is prepared before all sockets have connected.              *)
RingUp ==
  client.program = "uring" =>
    /\ gen.pc = "connect" => ring = <<>> /\ sq = <<>>
    /\ gen.pc # "stopped" =>
         \A i \in DOMAIN UringConns :
           gen.pc # "connect" \/ i < gen.i => conn[UringConns[i]].client # "none"

LEMMA MovedClients ==
  ASSUME ConnInv, Moved, NEW c \in Conns, conn'[c].client = "none"
  PROVE  conn[c].client = "none"
BY DEF Moved, WorkerUntouched, Unnoticed, Connect, ConnInv

LEMMA ConnectRing ==
  ASSUME TypeInv, RingUp, uring_connect
  PROVE  RingUp'
<1>1. /\ client' = client /\ client.program = "uring" /\ gen.pc = "connect"
      /\ UNCHANGED <<sq, ring>> /\ ring = <<>> /\ sq = <<>> /\ UringConns' = UringConns
  BY DEF uring_connect, Going, RingUp, clientVars, UringConns, ConnsOf
<1>2. CASE Go("stopped")
  <2>1. gen'.pc = "stopped"
    BY <1>2, Invs, UringFields DEF Go, GenRecords
  <2> QED
    BY <2>1 DEF RingUp
<1>3. CASE /\ Connect(It)
           /\ gen' = IF gen.i < Len(UringConns) THEN [gen EXCEPT !.i = @ + 1]
                     ELSE [pc |-> "seed", i |-> 1, left |-> Depth]
  <2>1. /\ gen \in GenRecords /\ It \in Conns /\ UringConns \in Seq(Conns) /\ ConnInv
        /\ gen.i \in DOMAIN UringConns /\ DOMAIN UringConns = 1 .. Len(UringConns)
        /\ Len(UringConns) \in Nat /\ gen.i \in Nat /\ It = UringConns[gen.i]
        /\ \A i \in DOMAIN UringConns : UringConns[i] \in Conns
    BY Invs, UringFields, ClientFacts DEF It
  <2>2. conn'[It].client = "open" /\ \A d \in Conns \ {It} : conn'[d] = conn[d]
    BY <1>3, <2>1, Invs, ConnectMoves DEF ServerTypes
  <2>3. \A i \in DOMAIN UringConns :
          i < gen.i \/ i = gen.i => conn'[UringConns[i]].client # "none"
    BY <1>1, <2>1, <2>2 DEF RingUp
  <2>4. CASE gen.i < Len(UringConns)
    <3> DEFINE n == gen.i + 1
    <3>1. gen' = [gen EXCEPT !.i = n]
      BY <1>3, <2>4
    <3>2. \A i \in DOMAIN UringConns : i < n => i < gen.i \/ i = gen.i
      BY <2>1
    <3> HIDE DEF n
    <3>3. gen'.pc = "connect" /\ gen'.i = n
      BY <1>1, <2>1, <3>1 DEF GenRecords
    <3> QED
      BY <1>1, <2>3, <3>2, <3>3 DEF RingUp
  <2>5. CASE ~(gen.i < Len(UringConns))
    <3>1. gen'.pc = "seed"
      BY <1>3, <2>5
    <3>2. \A i \in DOMAIN UringConns : i < gen.i \/ i = gen.i
      BY <2>1, <2>5
    <3> QED
      BY <1>1, <2>3, <3>1, <3>2 DEF RingUp
  <2> QED
    BY <2>4, <2>5
<1> QED
  BY <1>2, <1>3 DEF uring_connect

LEMMA GoesTo ==
  ASSUME UringTypes, ClientTypes, NEW place, Go(place)
  PROVE  gen'.pc = place
BY UringFields DEF Go, GenRecords

(* Once it is connected the program does not go back to it.                 *)
LEMMA NoWayBack ==
  ASSUME TypeInv, RingUp, UringNext, ~uring_connect
  PROVE  gen.pc \notin {"connect", "stopped"} /\ gen'.pc # "connect" /\ UNCHANGED client
<1>1. gen \in GenRecords /\ client' = client
  BY Invs, UringFields, UringStepTypes
     DEF UringNext, submit_send, submit_recv, submit_and_wait, woken, cq_advance, kernel_send,
         kernel_recv, reap_send, reap_recv, Reap, drain_packets, refill, on_sigalrm_uring,
         uring_exit, clientVars
<1>2. CASE submit_send \/ submit_recv \/ drain_packets
  BY <1>1, <1>2 DEF submit_send, submit_recv, drain_packets, Going, GenRecords
<1>3. CASE submit_and_wait \/ woken \/ cq_advance \/ refill \/ uring_exit
  BY <1>1, <1>3, Invs, GoesTo DEF submit_and_wait, woken, cq_advance, refill, uring_exit, Going
<1>4. CASE on_sigalrm_uring
  BY <1>1, <1>4, Invs, GoesTo DEF on_sigalrm_uring, Going
<1>5. CASE kernel_send \/ kernel_recv
  BY <1>1, <1>5 DEF kernel_send, kernel_recv, Issue, RingUp
<1>6. CASE reap_send \/ reap_recv
  <2>1. gen.pc = "reap"
    BY <1>6 DEF reap_send, reap_recv, Reap, Going
  <2>2. CASE reap_send
    BY <1>1, <2>1, <2>2 DEF reap_send
  <2>3. CASE reap_recv
    <3>1. gen' = gen \/ \E i : gen' = [pc |-> "drain", left |-> 0, i |-> i]
      BY <2>3, Zenon DEF reap_recv
    <3>2. gen' = gen \/ gen'.pc = "drain"
      BY <3>1
    <3> QED
      BY <1>1, <2>1, <3>2
  <2> QED
    BY <1>6, <2>2, <2>3
<1> QED
  BY <1>1, <1>2, <1>3, <1>4, <1>5, <1>6 DEF UringNext

LEMMA UringRing ==
  ASSUME TypeInv, RingUp, UringNext, UNCHANGED <<threadsVars, other>>
  PROVE  RingUp'
<1>1. CASE uring_connect
  BY <1>1, ConnectRing
<1>2. CASE ~uring_connect
  <2>1. gen.pc \notin {"connect", "stopped"} /\ gen'.pc # "connect" /\ client' = client
    BY <1>2, NoWayBack
  <2>2. UringConns' = UringConns /\ \A i \in DOMAIN UringConns : UringConns[i] \in Conns
    BY <2>1, Invs, ClientFacts DEF UringConns, ConnsOf
  <2>3. Moved
    BY UringStepTypes
  <2>4. \A i \in DOMAIN UringConns :
          conn[UringConns[i]].client # "none" => conn'[UringConns[i]].client # "none"
    BY <2>2, <2>3, Invs, MovedClients
  <2> QED
    BY <2>1, <2>2, <2>4 DEF RingUp
<1> QED
  BY <1>1, <1>2

LEMMA RingSame ==
  ASSUME TypeInv, RingUp, UNCHANGED <<client, uringVars>>,
         \A c \in Conns : conn'[c].client = "none" => conn[c].client = "none"
  PROVE  RingUp'
<1>1. \A i \in DOMAIN UringConns : UringConns[i] \in Conns
  BY Invs, ClientFacts
<1> QED
  BY <1>1 DEF RingUp, uringVars, UringConns, ConnsOf

(* The ring leaves nothing half written but what was cut for good.          *)
LEMMA RingHolds ==
  ASSUME InOrder, client.program = "uring", client' = client,
         \A c \in Conns : Held(conn[c], <<>>) => Held(conn'[c], <<>>)
  PROVE  InOrder'
<1>1. ASSUME NEW c \in Conns, NEW u \in Bytes, RestOf(c, u), Held(conn[c], u)
      PROVE  RestOf(c, <<>>)' /\ Held(conn'[c], <<>>)
  BY <1>1 DEF RestOf
<1> QED
  BY <1>1, EmptyTyped, OrderKept

LEMMA RingTarget ==
  ASSUME TypeInv, RingUp, client.program = "uring", gen.pc # "stopped", ring # <<>>
  PROVE  /\ Head(ring) \in Operations /\ Head(ring).conn \in Conns
         /\ conn[Head(ring).conn].client # "none"
<1>1. Head(ring) \in Operations
  BY Invs, HeadTyped DEF UringTypes
<1>2. Head(ring).conn \in Range(UringConns)
  BY <1>1 DEF Operations
<1>3. PICK i \in DOMAIN UringConns : UringConns[i] = Head(ring).conn
  BY <1>2 DEF Range
<1>4. Head(ring).conn \in Conns
  BY <1>2, Invs, ClientFacts
<1> QED
  BY <1>1, <1>3, <1>4 DEF RingUp

LEMMA KernelSendOrder ==
  ASSUME TypeInv, RingUp, InOrder, kernel_send
  PROVE  InOrder'
<1> DEFINE c == Head(ring).conn
           a == Free(conn[c])
           b == Len(Packet)
           n == Least(a, b)
           k == conn[c]
           o == Owe(k, Template)
           part == SubSeq(Packet, 1, n)
           m == Write(o, part)
<1>1. client.program = "uring" /\ client' = client /\ gen.pc # "stopped" /\ ring # <<>>
  BY DEF kernel_send, Issue, clientVars
<1>2. /\ c \in Conns /\ k.client # "none" /\ k \in ConnTypes /\ Fits(k) /\ room \in Nat
      /\ conn \in [Conns -> ConnTypes]
  BY <1>1, RingTarget, Invs DEF ConnInv
<1>3. CASE UNCHANGED conn
  BY <1>1, <1>3, RingHolds
<1>4. CASE n > 0 /\ conn' = [conn EXCEPT ![c] = [m EXCEPT !.whole = m.whole /\ n = Len(Packet)]]
  <2> DEFINE whole == m.whole /\ n = b
             r == [m EXCEPT !.whole = whole]
  <2>1. n \in 0 .. b
    <3>1. a \in Int /\ b \in Nat
      BY <1>2, PacketTyped, Invs, ConnFields DEF Free, Bytes
    <3> HIDE DEF a, b
    <3> QED
      BY <1>4, <3>1 DEF Least
  <2>2. /\ Packet \in Bytes /\ part \in Bytes /\ Drop(Packet, n) \in Bytes
        /\ Packet = part \o Drop(Packet, n) /\ Len(Drop(Packet, n)) = b - n
    BY <2>1, Invs, PacketTyped, Cut
  <2>3. o \in ConnTypes /\ o.client = k.client
    <3>1. o \in ConnTypes
      BY <1>2, OweTyped
    <3>2. o.client = k.client
      BY <1>2 DEF Owe, ConnTypes
    <3> QED
      BY <3>1, <3>2
  <2>4. n = b => Packet = part
    <3>1. n = b => Drop(Packet, n) = <<>>
      <4>1. n = b => Len(Drop(Packet, n)) = 0
        BY <2>1, <2>2, ByteSeq
      <4> QED
        BY <2>2, <4>1, LenZero
    <3> QED
      BY <2>2, <3>1, WithNothing
  <2>5. Held(k, <<>>) => Follows(o, Packet)
    <3>1. [x |-> 1, hp |-> Byte - 1] \in States /\ proto \in Codecs
      BY Invs, BinaryAssumption DEF States, ClientTypes
    <3> QED
      BY <1>2, <3>1, OweFollows DEF Held, Packet, Template
  <2>6. n = b => (Held(k, <<>>) => Follows(m, <<>>))
    <3>1. Follows(o, part) => Follows(o, part \o <<>>)
      BY <2>2, WithNothing
    <3>2. Follows(o, part) => Follows(m, <<>>)
      BY <1>2, <2>2, <2>3, <3>1, EmptyTyped, WriteFollows
    <3> QED
      BY <2>4, <2>5, <3>2
  <2>7. m \in ConnTypes /\ m.client = k.client
    <3>1. m = IF o.server = "closed" THEN o ELSE [o EXCEPT !.up = o.up \o part]
      BY DEF Write
    <3>2. o.up \o part \in Bytes
      BY <2>2, <2>3, ConnFields, Joined
    <3> HIDE DEF o, part, m
    <3> QED
      BY <2>3, <3>1, <3>2 DEF ConnTypes
  <2> HIDE DEF m
  <2>8. whole \in BOOLEAN
    OBVIOUS
  <2>9. /\ r.whole = whole /\ r.client = m.client /\ r.server = m.server /\ r.up = m.up
        /\ r.down = m.down /\ r.input = m.input /\ r.output = m.output /\ r.owed = m.owed
    <3> HIDE DEF whole
    <3> QED
      BY <2>7 DEF ConnTypes
  <2>10. conn'[c] = r /\ \A d \in Conns : d # c => conn'[d] = conn[d]
    BY <1>2, <1>4
  <2> HIDE DEF r
  <2>11. r.client # "none"
    BY <1>2, <2>7, <2>9
  <2>12. CASE n = b
    <3>1. Follows(m, <<>>) => Follows(r, <<>>)
      BY <2>9, <2>11, <2>12 DEF Follows
    <3>2. Held(k, <<>>) => Held(r, <<>>)
      BY <2>6, <2>12, <3>1 DEF Held
    <3> QED
      BY <1>1, <2>10, <3>2, RingHolds
  <2>13. CASE n # b
    <3>1. Held(r, <<>>)
      BY <2>9, <2>11, <2>13 DEF Held, Follows
    <3> QED
      BY <1>1, <2>10, <3>1, RingHolds
  <2> QED
    BY <2>12, <2>13
<1> QED
  BY <1>3, <1>4 DEF kernel_send

LEMMA KernelRecvOrder ==
  ASSUME TypeInv, RingUp, InOrder, kernel_recv
  PROVE  InOrder'
<1> DEFINE op == Head(ring)
           c == op.conn
           n == Received(op)
           r == Read(conn[c], n)
<1>1. /\ client.program = "uring" /\ client' = client /\ gen.pc # "stopped" /\ ring # <<>>
      /\ op.op = "recv" /\ conn' = [conn EXCEPT ![c] = r]
  BY DEF kernel_recv, Issue, clientVars
<1>2. /\ c \in Conns /\ conn[c].client # "none" /\ conn[c] \in ConnTypes /\ op \in Operations
      /\ conn \in [Conns -> ConnTypes] /\ conn[c].down \in Bytes
  BY <1>1, RingTarget, Invs, ConnFields DEF ConnInv
<1>3. op.off \in 0 .. RecvSize - 1
  BY <1>1, <1>2 DEF Operations
<1>4. n \in 0 .. Len(conn[c].down)
  <2> DEFINE a == Len(conn[c].down)
             b == RecvSize - op.off
  <2>1. a \in Nat /\ b \in Nat
    BY <1>2, <1>3, UringAssumption DEF Bytes
  <2>2. n = Least(a, b)
    BY DEF Received
  <2> HIDE DEF a, b, n
  <2>3. n \in 0 .. a
    BY <2>1, <2>2 DEF Least
  <2> QED
    BY <2>3 DEF a
<1> HIDE DEF n
<1>5. r.client = conn[c].client
  BY <1>2 DEF Read, ConnTypes
<1>6. Held(conn[c], <<>>) => Held(r, <<>>)
  BY <1>2, <1>4, <1>5, ReadFollows DEF Held
<1>7. conn'[c] = r /\ \A d \in Conns : d # c => conn'[d] = conn[d]
  BY <1>1, <1>2
<1> QED
  BY <1>1, <1>6, <1>7, RingHolds

LEMMA UringOrder ==
  ASSUME TypeInv, RingUp, InOrder, UringNext, UNCHANGED <<threadsVars, other>>
  PROVE  InOrder'
<1>1. CASE uring_connect
  <2>1. client.program = "uring" /\ client' = client
    BY <1>1 DEF uring_connect, Going, clientVars
  <2>2. It \in Conns /\ ConnInv
    BY Invs, UringFields
  <2>3. \A c \in Conns : Held(conn[c], <<>>) => Held(conn'[c], <<>>)
    <3>1. CASE Connect(It)
      BY <2>2, <3>1, ConnectHolds
    <3>2. CASE Closing(Open)
      BY <2>2, <3>2, ClosingHolds
    <3> QED
      BY <1>1, <3>1, <3>2 DEF uring_connect
  <2> QED
    BY <2>1, <2>3, RingHolds
<1>2. CASE kernel_send \/ kernel_recv
  BY <1>2, KernelSendOrder, KernelRecvOrder
<1>3. CASE uring_exit
  BY <1>3, ClosedOrder DEF uring_exit, threadsVars
<1>4. CASE on_sigalrm_uring
  BY <1>4, RingHolds DEF on_sigalrm_uring, Going, serverVars
<1>5. CASE \/ submit_send \/ submit_recv \/ submit_and_wait \/ woken \/ cq_advance
           \/ reap_send \/ reap_recv \/ drain_packets \/ refill
  BY <1>5, SameOrder DEF submit_send, submit_recv, submit_and_wait, woken, cq_advance,
     reap_send, reap_recv, Reap, drain_packets, refill, serverVars, threadsVars
<1> QED
  BY <1>1, <1>2, <1>3, <1>4, <1>5 DEF UringNext

(* The other program does something with one of its connections.            *)
LEMMA OtherHolds ==
  ASSUME InOrder, client.program = "other", client' = client, NEW c \in Conns,
         NEW v \in Bytes, other'[c].unsent = v,
         \A d \in Conns : d # c => conn'[d] = conn[d] /\ other'[d] = other[d],
         Held(conn[c], other[c].unsent) => Held(conn'[c], v)
  PROVE  InOrder'
<1>1. ASSUME NEW d \in Conns, NEW u \in Bytes, RestOf(d, u), Held(conn[d], u)
      PROVE  \E w \in Bytes : RestOf(d, w)' /\ Held(conn'[d], w)
  <2>1. CASE d = c
    <3>1. u = other[c].unsent
      BY <1>1, <2>1 DEF RestOf
    <3>2. RestOf(c, v)'
      BY DEF RestOf
    <3> QED
      BY <1>1, <2>1, <3>1, <3>2
  <2>2. CASE d # c
    <3>1. RestOf(d, u)'
      BY <1>1, <2>2 DEF RestOf
    <3> QED
      BY <1>1, <2>2, <3>1
  <2> QED
    BY <2>1, <2>2
<1> QED
  BY <1>1, OrderKept

LEMMA AsksOrder ==
  ASSUME TypeInv, InOrder, NEW c \in Conns, other_asks(c)
  PROVE  InOrder'
<1>1. /\ client.program = "other" /\ client' = client /\ conn[c].client = "open"
      /\ other[c].unsent = <<>>
  BY DEF other_asks, Other, clientVars
<1>2. /\ conn[c] \in ConnTypes /\ conn \in [Conns -> ConnTypes]
      /\ other \in [Conns -> [asked : 0 .. Depth, unsent : Bytes]]
  BY Invs DEF ConnInv, OtherTypes
<1>3. ASSUME NEW type \in Codecs, NEW s \in {[x |-> 0, hp |-> 0], [x |-> Byte - 1, hp |-> 1]},
             other' = [other EXCEPT ![c] = [asked |-> @.asked + 1, unsent |-> Frame(Payload(type, s))]],
             conn' = [conn EXCEPT ![c] = Owe(@, Payload(type, s))]
      PROVE  InOrder'
  <2> DEFINE asked == other[c].asked + 1
             p == Payload(type, s)
             unsent == Frame(p)
             r == Owe(conn[c], p)
  <2>1. s \in States
    BY BinaryAssumption DEF States
  <2>2. unsent \in Bytes
    <3>1. p \in Bytes /\ Len(p) \in 3 .. 4
      BY <2>1, PayloadTyped
    <3>2. Len(p) \in 0 .. 15
      BY <3>1
    <3> QED
      BY <3>1, <3>2, FrameTyped
  <2>3. Follows(conn[c], <<>>) => Follows(r, unsent)
    BY <1>1, <1>2, <2>1, OweFollows
  <2>4. r.client = "open"
    BY <1>1, <1>2 DEF Owe, ConnTypes
  <2>5. /\ conn' = [conn EXCEPT ![c] = r]
        /\ other' = [other EXCEPT ![c] = [asked |-> asked, unsent |-> unsent]]
    BY <1>3
  <2> HIDE DEF r, unsent, asked
  <2>6. /\ conn'[c] = r /\ other'[c].unsent = unsent
        /\ \A d \in Conns : d # c => conn'[d] = conn[d] /\ other'[d] = other[d]
    BY <1>2, <2>5
  <2>7. Held(conn[c], other[c].unsent) => Held(conn'[c], unsent)
    BY <1>1, <2>3, <2>4, <2>6 DEF Held
  <2> QED
    BY <1>1, <2>2, <2>6, <2>7, OtherHolds
<1>4. ASSUME NEW bytes \in Malformations,
             other' = [other EXCEPT ![c] = [asked |-> Depth, unsent |-> bytes]],
             UNCHANGED conn
      PROVE  InOrder'
  <2>1. bytes \in Bytes
    BY MalformationsTyped
  <2>2. /\ other'[c].unsent = bytes
        /\ \A d \in Conns : d # c => conn'[d] = conn[d] /\ other'[d] = other[d]
    BY <1>2, <1>4
  <2>3. Held(conn[c], other[c].unsent) => Held(conn'[c], bytes)
    BY <1>1, <1>2, <1>4, MalformedFollows DEF Held
  <2> QED
    BY <1>1, <2>1, <2>2, <2>3, OtherHolds
<1> QED
  BY <1>3, <1>4 DEF other_asks

LEMMA WritesOrder ==
  ASSUME TypeInv, InOrder, NEW c \in Conns, other_writes(c)
  PROVE  InOrder'
<1> DEFINE s == other[c].unsent
           a == Free(conn[c])
           b == Len(s)
<1>1. client.program = "other" /\ client' = client
  BY DEF other_writes, Other, clientVars
<1>2. /\ other \in [Conns -> [asked : 0 .. Depth, unsent : Bytes]]
      /\ other[c] \in [asked : 0 .. Depth, unsent : Bytes] /\ s \in Bytes
  BY Invs DEF OtherTypes
<1>3. conn[c] \in ConnTypes /\ conn \in [Conns -> ConnTypes] /\ room \in Nat /\ conn[c].up \in Bytes
  BY Invs, ConnFields DEF ConnInv
<1>4. PICK n \in 1 .. Least(a, b) :
        /\ other' = [other EXCEPT ![c].unsent = Drop(@, n)]
        /\ conn' = [conn EXCEPT ![c] = Write(@, SubSeq(s, 1, n))]
  BY DEF other_writes
<1>5. n \in 0 .. b /\ n # 0
  <2>1. a \in Int /\ b \in Nat
    BY <1>2, <1>3 DEF Free, Bytes
  <2> HIDE DEF a, b
  <2> QED
    BY <1>4, <2>1 DEF Least
<1> DEFINE part == SubSeq(s, 1, n)
           rest == Drop(s, n)
           r == Write(conn[c], part)
           o == [other[c] EXCEPT !.unsent = rest]
<1>6. part \in Bytes /\ rest \in Bytes /\ Len(part) = n /\ s = part \o rest
  BY <1>2, <1>5, Cut
<1>7. conn' = [conn EXCEPT ![c] = r] /\ other' = [other EXCEPT ![c] = o]
  BY <1>4
<1> HIDE DEF part, rest
<1>8. part # <<>>
  BY <1>5, <1>6, EmptyTyped
<1>9. Held(conn[c], s) => Held(r, rest)
  BY <1>3, <1>6, <1>8, WriteHolds
<1>10. o.unsent = rest
  BY <1>2
<1> HIDE DEF r, o
<1>11. /\ conn'[c] = r /\ other'[c].unsent = rest
       /\ \A d \in Conns : d # c => conn'[d] = conn[d] /\ other'[d] = other[d]
  BY <1>2, <1>3, <1>7, <1>10
<1> QED
  BY <1>1, <1>6, <1>9, <1>11, OtherHolds

LEMMA OtherOrder ==
  ASSUME TypeInv, InOrder, OtherNext
  PROVE  InOrder'
<1>1. PICK c \in Range(ConnsOf[1]) :
        other_connect(c) \/ other_asks(c) \/ other_writes(c) \/ other_reads(c) \/ other_closes(c)
  BY DEF OtherNext
<1>2. c \in Conns /\ ConnInv
  BY Invs, ClientFacts DEF UringConns
<1>3. /\ client.program = "other" /\ client' = client /\ UNCHANGED <<clientVars, thr>>
  BY <1>1 DEF other_connect, other_asks, other_writes, other_reads, other_closes, Other,
     clientVars, threadsVars
<1>4. other[c].unsent \in Bytes /\ conn[c] \in ConnTypes /\ conn \in [Conns -> ConnTypes]
  BY <1>2, Invs DEF OtherTypes, ConnInv
<1>5. CASE other_connect(c)
  <2>1. Connect(c) /\ other' = other
    BY <1>5 DEF other_connect
  <2>2. /\ \A d \in Conns : d # c => conn'[d] = conn[d] /\ other'[d] = other[d]
        /\ Held(conn[c], other[c].unsent) => Held(conn'[c], other[c].unsent)
    BY <1>2, <2>1, ConnectHolds
  <2> QED
    BY <1>2, <1>3, <1>4, <2>1, <2>2, OtherHolds
<1>6. CASE other_reads(c)
  <2> DEFINE n == Len(conn[c].down)
             r == Read(conn[c], n)
  <2>1. conn' = [conn EXCEPT ![c] = r] /\ other' = other /\ conn[c].down # <<>>
    BY <1>6 DEF other_reads
  <2>2. n \in 1 .. Len(conn[c].down)
    <3>1. n \in Nat /\ n # 0
      BY <1>4, <2>1, ConnFields, ByteSeq, LenZero
    <3> HIDE DEF n
    <3>2. n \in 1 .. n
      BY <3>1
    <3> QED
      BY <3>2 DEF n
  <2>3. Held(conn[c], other[c].unsent) => Held(r, other[c].unsent)
    BY <1>4, <2>2, ReadHolds
  <2> HIDE DEF r
  <2>4. conn'[c] = r /\ \A d \in Conns : d # c => conn'[d] = conn[d] /\ other'[d] = other[d]
    BY <1>2, <1>4, <2>1
  <2> QED
    BY <1>2, <1>3, <1>4, <2>1, <2>3, <2>4, OtherHolds
<1>7. CASE other_closes(c)
  BY <1>3, <1>7, ClosedOrder DEF other_closes
<1> QED
  BY <1>1, <1>2, <1>5, <1>6, <1>7, AsksOrder, WritesOrder

----------------------------------------------------------------------------
(* Replies in order                                                         *)

RepliesInv == InOrder /\ RingUp

LEMMA RepliesStart ==
  ASSUME Init
  PROVE  RepliesInv
<1>1. gen.pc = "connect" /\ gen.i = 1 /\ ring = <<>> /\ sq = <<>>
  BY DEF Init, UringInit
<1>2. DOMAIN UringConns = 1 .. Len(UringConns) /\ Len(UringConns) \in Nat
  BY TypesStart, Invs, ClientFacts
<1>3. \A i \in DOMAIN UringConns : ~(i < 1)
  BY <1>2
<1>4. RingUp
  BY <1>1, <1>3 DEF RingUp
<1> QED
  BY <1>4, OrderStarts DEF RepliesInv

LEMMA RepliesStep ==
  ASSUME TypeInv, RepliesInv, [Next]_vars
  PROVE  RepliesInv'
<1>1. InOrder /\ RingUp
  BY DEF RepliesInv
<1>2. CASE ServerNext /\ UNCHANGED <<clientVars, threadsVars, uringVars, other>>
  <2>1. client' = client /\ UNCHANGED uringVars
    BY <1>2 DEF clientVars
  <2>2. ServerInv /\ <<>> \in Bytes
    BY Invs, EmptyTyped
  <2>3. \A c \in Conns : conn'[c].client = conn[c].client
    BY <1>2, <2>2, ServerKeeps
  <2>4. RingUp'
    BY <1>1, <2>1, <2>3, RingSame
  <2> QED
    BY <1>1, <1>2, <2>4, ServerOrder DEF RepliesInv
<1>3. CASE ThreadsNext /\ UNCHANGED <<uringVars, other>>
  <2>1. client' = client
    BY <1>3 DEF ThreadsNext, MainStep, ThreadStep, pthread_create, pthread_create_fails, alarm,
         pthread_join, on_sigalrm_threads, connect_one, loop, send, write, read_reply,
         close_all, clientVars
  <2>2. \A c \in Conns : conn'[c].client = "none" => conn[c].client = "none"
    BY <1>3, Invs, ThreadsStepTypes, MovedClients
  <2>3. RingUp'
    BY <1>1, <1>3, <2>1, <2>2, RingSame
  <2> QED
    BY <1>1, <1>3, <2>3, ThreadsOrder DEF RepliesInv
<1>4. CASE UringNext /\ UNCHANGED <<threadsVars, other>>
  BY <1>1, <1>4, UringRing, UringOrder DEF RepliesInv
<1>5. CASE OtherNext
  <2>1. client' = client /\ UNCHANGED uringVars
    BY <1>5 DEF OtherNext, other_connect, other_asks, other_writes, other_reads, other_closes,
         Other, clientVars
  <2>2. \A c \in Conns : conn'[c].client = "none" => conn[c].client = "none"
    BY <1>5, Invs, OtherStepTypes, MovedClients
  <2>3. RingUp'
    BY <1>1, <2>1, <2>2, RingSame
  <2> QED
    BY <1>1, <1>5, <2>3, OtherOrder DEF RepliesInv
<1>6. CASE UNCHANGED vars
  <2>1. UNCHANGED <<clientVars, conn, thr, other>> /\ client' = client /\ UNCHANGED uringVars
    BY <1>6 DEF vars, clientVars, serverVars, threadsVars
  <2>2. RingUp'
    BY <1>1, <2>1, RingSame
  <2> QED
    BY <1>1, <2>1, <2>2, SameOrder DEF RepliesInv
<1> QED
  BY <1>2, <1>3, <1>4, <1>5, <1>6 DEF Next

LEMMA FrontIsPrefix ==
  ASSUME NEW a \in Bytes, NEW r \in Bytes
  PROVE  IsPrefix(a, a \o r)
<1>1. a \o r \in Bytes /\ Len(a \o r) = Len(a) + Len(r) /\ Len(a) \in Nat /\ Len(r) \in Nat
  BY Joined, ByteSeq
<1>2. \A i \in 1 .. Len(a) : (a \o r)[i] = a[i]
  BY JoinedAt
<1> QED
  BY <1>1, <1>2 DEF IsPrefix

(* What a client has yet to read, in its socket or in the worker's output,  *)
(* is what is due to it next.                                               *)
THEOREM RepliesInOrderHolds == Spec => []RepliesInOrder
<1>1. TypeInv /\ RepliesInv => RepliesInOrder
  <2> SUFFICES ASSUME TypeInv, InOrder, NEW c \in Conns,
                      conn[c].client = "open" /\ conn[c].whole
               PROVE  IsPrefix(conn[c].down \o conn[c].output, conn[c].owed)
    BY DEF RepliesInv, RepliesInOrder
  <2>1. PICK u \in Bytes : Held(conn[c], u)
    BY DEF InOrder
  <2>2. PICK r \in Bytes : conn[c].owed = (conn[c].down \o conn[c].output) \o r
    BY <2>1 DEF Held, Follows
  <2>3. conn[c].down \o conn[c].output \in Bytes
    BY Invs, ConnFields, Joined
  <2> QED
    BY <2>2, <2>3, FrontIsPrefix
<1>2. Init => RepliesInv
  BY RepliesStart
<1>3. TypeInv /\ RepliesInv /\ [Next]_vars => RepliesInv'
  BY RepliesStep
<1> QED
  BY <1>1, <1>2, <1>3, TypeInvHolds, PTL DEF Spec
=============================================================================
