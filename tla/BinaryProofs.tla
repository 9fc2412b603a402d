----------------------------- MODULE BinaryProofs -----------------------------
(****************************************************************************)
(* Proofs about BinarySystem: what the variables hold, which connections    *)
(* the worker lists, and that no packet is forgotten.                       *)
(****************************************************************************)
EXTENDS BinarySystem, SequenceTheorems, TLAPS

----------------------------------------------------------------------------
(* Bytes                                                                    *)

LEMMA DivMod ==
  ASSUME NEW b \in Nat \ {0}, NEW n \in Nat
  PROVE  n \div b \in Nat /\ n % b \in 0 .. b - 1 /\ n = b * (n \div b) + (n % b)
OBVIOUS

LEMMA Products ==
  ASSUME NEW b \in Nat \ {0}, NEW q \in Nat, q >= b
  PROVE  b * q >= b * b
OBVIOUS

(* A number of two bytes.                                                   *)
LEMMA TwoBytes ==
  ASSUME NEW n \in Nat, n < Byte * Byte
  PROVE  n \div Byte \in 0 .. Byte - 1 /\ n % Byte \in 0 .. Byte - 1
<1> DEFINE q == n \div Byte
           p == Byte * q
           s == Byte * Byte
<1>1. Byte \in Nat \ {0} /\ q \in Nat /\ n % Byte \in 0 .. Byte - 1 /\ n = p + (n % Byte)
  <2>1. Byte \in Nat \ {0}
    BY BinaryAssumption
  <2> QED
    BY <2>1, DivMod
<1>2. p \in Nat /\ s \in Nat
  BY <1>1
<1>3. q >= Byte => p >= s
  BY <1>1, Products
<1>4. n < s
  OBVIOUS
<1> HIDE DEF p, s
<1>5. ~ q >= Byte
  BY <1>1, <1>2, <1>3, <1>4
<1> QED
  BY <1>1, <1>5

LEMMA Sixteen ==
  Byte * Byte \in Nat /\ Byte * Byte >= 16 /\ MaxPayload + 1 < Byte * Byte
<1>1. Byte * Byte \in Nat /\ Byte * Byte >= 16
  BY BinaryAssumption
<1> QED
  BY <1>1, BinaryAssumption

LEMMA Bytes4 ==
  \A n \in 0 .. 3 : n \in 0 .. Byte - 1
BY BinaryAssumption

LEMMA PackUintTyped ==
  ASSUME NEW x \in 0 .. Byte - 1
  PROVE  PackUint(x) \in Bytes /\ Len(PackUint(x)) \in {1, 2}
<1>1. <<x>> \in Bytes /\ <<Byte - 1, x>> \in Bytes
  BY BinaryAssumption DEF Bytes
<1>2. PackUint(x) \in {<<x>>, <<Byte - 1, x>>}
  BY DEF PackUint
<1>3. Len(<<x>>) = 1 /\ Len(<<Byte - 1, x>>) = 2
  OBVIOUS
<1> QED
  BY <1>1, <1>2, <1>3

LEMMA PayloadTyped ==
  ASSUME NEW type \in Codecs, NEW s \in States
  PROVE  Payload(type, s) \in Bytes /\ Len(Payload(type, s)) \in 3 .. 4
<1>1. s.x \in 0 .. Byte - 1 /\ s.hp \in 0 .. Byte - 1 /\ type \in 0 .. Byte - 1
  BY BinaryAssumption DEF States, RAW, MSGPACK
<1> DEFINE V == 0 .. Byte - 1
           body == IF type = RAW THEN <<s.x>> ELSE PackUint(s.x)
<1>2. PackUint(s.x) \in Seq(V) /\ Len(PackUint(s.x)) \in {1, 2}
  BY <1>1, PackUintTyped DEF Bytes
<1> HIDE DEF V
<1>3. <<s.x>> \in Seq(V) /\ <<type>> \in Seq(V) /\ <<s.hp>> \in Seq(V)
  BY <1>1 DEF V
<1>4. body \in Seq(V) /\ Len(body) \in {1, 2}
  BY <1>2, <1>3
<1> HIDE DEF body
<1>5. <<type>> \o body \o <<s.hp>> \in Seq(V) /\ Len(<<type>> \o body \o <<s.hp>>) = Len(body) + 2
  BY <1>3, <1>4
<1>6. Payload(type, s) \in Bytes /\ Len(Payload(type, s)) = Len(body) + 2
  BY <1>5 DEF Payload, body, V, Bytes
<1>7. Len(body) + 2 \in 3 .. 4
  <2> DEFINE n == Len(body)
  <2>1. n \in {1, 2}
    BY <1>4
  <2> HIDE DEF n
  <2>2. n + 2 \in 3 .. 4
    BY <2>1
  <2> QED
    BY <2>2 DEF n
<1> QED
  BY <1>6, <1>7

LEMMA FrameTyped ==
  ASSUME NEW p \in Bytes, Len(p) \in 0 .. 15
  PROVE  Frame(p) \in Bytes /\ Len(Frame(p)) = 2 + Len(p)
<1> DEFINE n == Len(p)
<1>1. n \div Byte \in 0 .. Byte - 1 /\ n % Byte \in 0 .. Byte - 1
  <2>1. n \in Nat /\ n <= 15
    <3>1. n \in 0 .. 15
      OBVIOUS
    <3> HIDE DEF n
    <3> QED
      BY <3>1
  <2>2. n < Byte * Byte
    <3> DEFINE square == Byte * Byte
    <3>1. square \in Nat /\ square >= 16
      BY Sixteen
    <3> HIDE DEF square, n
    <3>2. n < square
      BY <2>1, <3>1
    <3> QED
      BY <3>2 DEF square
  <2> HIDE DEF n
  <2> QED
    BY <2>1, <2>2, TwoBytes
<1> DEFINE V == 0 .. Byte - 1
<1>2. p \in Seq(V)
  BY DEF Bytes
<1> HIDE DEF V
<1>3. <<n \div Byte, n % Byte>> \in Seq(V) /\ Len(<<n \div Byte, n % Byte>>) = 2
  BY <1>1 DEF V
<1>4. <<n \div Byte, n % Byte>> \o p \in Seq(V) /\ Len(<<n \div Byte, n % Byte>> \o p) = 2 + Len(p)
  BY <1>2, <1>3
<1> QED
  BY <1>4 DEF Frame, Bytes, V

LEMMA MutateTyped ==
  ASSUME NEW s \in States
  PROVE  player_mutate(s) \in States
<1>1. s.x \in 0 .. Byte - 1 /\ s.hp \in 0 .. Byte - 1
  BY DEF States
<1>2. (s.x + 1) % Byte \in 0 .. Byte - 1
  <2>1. s.x + 1 \in Nat /\ Byte \in Nat \ {0}
    BY <1>1, BinaryAssumption
  <2> QED
    BY <2>1, DivMod
<1> QED
  BY <1>1, <1>2, BinaryAssumption DEF player_mutate, States

LEMMA ReplyTyped ==
  ASSUME NEW p, NEW r \in Replies(p)
  PROVE  r \in Bytes /\ Frame(r) \in Bytes /\ Len(Frame(r)) \in 5 .. 6
<1>1. PICK q \in Codecs \X States : r = Payload(q[1], player_mutate(q[2]))
  BY DEF Replies
<1>2. q[1] \in Codecs /\ player_mutate(q[2]) \in States
  BY MutateTyped
<1>3. r \in Bytes /\ Len(r) \in 3 .. 4
  BY <1>1, <1>2, PayloadTyped
<1>4. Len(r) \in 0 .. 15
  BY <1>3
<1>5. Frame(r) \in Bytes /\ Len(Frame(r)) = 2 + Len(r)
  BY <1>3, <1>4, FrameTyped
<1>6. 2 + Len(r) \in 5 .. 6
  <2> DEFINE n == Len(r)
  <2>1. n \in 3 .. 4
    BY <1>3
  <2> HIDE DEF n
  <2>2. 2 + n \in 5 .. 6
    BY <2>1
  <2> QED
    BY <2>2 DEF n
<1> QED
  BY <1>3, <1>5, <1>6

LEMMA DropTyped ==
  ASSUME NEW S, NEW s \in Seq(S), NEW n \in Nat
  PROVE  /\ Drop(s, n) \in Seq(S) /\ Len(Drop(s, n)) <= Len(s)
         /\ n <= Len(s) => Len(Drop(s, n)) = Len(s) - n
<1>1. /\ SubSeq(s, n + 1, Len(s)) \in Seq(S)
      /\ Len(SubSeq(s, n + 1, Len(s))) = IF n + 1 <= Len(s) THEN Len(s) - (n + 1) + 1 ELSE 0
  BY SubSeqProperties
<1> QED
  BY <1>1 DEF Drop

LEMMA TakeTyped ==
  ASSUME NEW S, NEW s \in Seq(S), NEW n \in 0 .. Len(s)
  PROVE  SubSeq(s, 1, n) \in Seq(S) /\ Len(SubSeq(s, 1, n)) = n
<1>1. /\ SubSeq(s, 1, n) \in Seq(S)
      /\ Len(SubSeq(s, 1, n)) = IF 1 <= n THEN n - 1 + 1 ELSE 0
  BY SubSeqProperties
<1> QED
  BY <1>1

LEMMA LengthTyped ==
  ASSUME NEW s \in Bytes, Len(s) >= 2
  PROVE  Length(s) \in Nat
<1>1. s[1] \in Nat /\ s[2] \in Nat /\ Byte \in Nat
  BY BinaryAssumption DEF Bytes
<1>2. s[1] * Byte \in Nat
  BY <1>1
<1> QED
  BY <1>1, <1>2 DEF Length

LEMMA MalformationsTyped ==
  Malformations \subseteq Bytes
<1>1. (MaxPayload + 1) \div Byte \in 0 .. Byte - 1 /\ (MaxPayload + 1) % Byte \in 0 .. Byte - 1
  <2>1. MaxPayload + 1 \in Nat /\ MaxPayload + 1 < Byte * Byte
    BY Sixteen, BinaryAssumption
  <2> QED
    BY <2>1, TwoBytes
<1>2. 0 \in 0 .. Byte - 1 /\ 1 \in 0 .. Byte - 1 /\ 2 \in 0 .. Byte - 1
  BY BinaryAssumption
<1>3. <<(MaxPayload + 1) \div Byte, (MaxPayload + 1) % Byte>> \in Bytes
  BY <1>1 DEF Bytes
<1>4. /\ <<0, 0>> \in Bytes /\ <<0, 2, 1, 0>> \in Bytes
      /\ <<0, 2, 2, 0>> \in Bytes /\ <<0, 1, 0>> \in Bytes
  BY <1>2 DEF Bytes
<1> QED
  BY <1>3, <1>4 DEF Malformations, RAW, MSGPACK

----------------------------------------------------------------------------
(* Connections                                                              *)

ConnTypes ==
  [client : {"none", "open", "failed", "closed"}, active : BOOLEAN,
   server : {"none", "backlog", "open", "closed"}, whole : BOOLEAN,
   up : Bytes, down : Bytes, input : Bytes, output : Bytes, owed : Bytes]

(* What the sockets hold is within their size.                              *)
Fits(k) == Len(k.up) <= room /\ Len(k.down) <= room

(* A connection that is the same to the worker, but for what its client     *)
(* wrote and read.                                                          *)
Unnoticed(k, r) ==
  /\ r.server = k.server /\ r.active = k.active /\ r.input = k.input
  /\ r.client = "none" => k.client = "none"

LEMMA ConnFields ==
  ASSUME NEW k \in ConnTypes
  PROVE  /\ k.client \in {"none", "open", "failed", "closed"} /\ k.active \in BOOLEAN
         /\ k.server \in {"none", "backlog", "open", "closed"} /\ k.whole \in BOOLEAN
         /\ k.up \in Bytes /\ k.down \in Bytes /\ k.input \in Bytes
         /\ k.output \in Bytes /\ k.owed \in Bytes
BY DEF ConnTypes

LEMMA EmptyTyped == <<>> \in Bytes /\ Len(<<>>) = 0
BY DEF Bytes

LEMMA JoinTyped ==
  ASSUME NEW S, NEW s \in Seq(S), NEW t \in Seq(S)
  PROVE  s \o t \in Seq(S) /\ Len(s \o t) = Len(s) + Len(t) /\ s \o <<>> = s
OBVIOUS

LEMMA NoConnTyped ==
  ASSUME room \in Nat
  PROVE  NoConn \in ConnTypes /\ Fits(NoConn)
BY EmptyTyped DEF NoConn, ConnTypes, Fits

LEMMA SentTyped ==
  ASSUME NEW k \in ConnTypes, room \in Nat, Fits(k)
  PROVE  Sent(k) \in ConnTypes /\ Fits(Sent(k)) /\ Unnoticed(k, Sent(k))
<1> DEFINE a == Len(k.output)
           b == Len(k.down)
           n == Least(a, room - b)
           out == SubSeq(k.output, 1, n)
           d == IF k.client = "closed" THEN <<>> ELSE k.down \o out
           o == Drop(k.output, n)
<1>1. k.output \in Bytes /\ k.down \in Bytes
  BY ConnFields
<1>2. a \in Nat /\ b \in Nat /\ b <= room
  BY <1>1 DEF Fits, Bytes
<1>3. n \in 0 .. a /\ n \in Nat /\ b + n <= room
  <2> HIDE DEF a, b
  <2> QED
    BY <1>2 DEF Least
<1>4. out \in Bytes /\ Len(out) = n
  BY <1>1, <1>3, TakeTyped DEF Bytes
<1>5. o \in Bytes
  BY <1>1, <1>3, DropTyped DEF Bytes
<1>6. k.down \o out \in Bytes /\ Len(k.down \o out) = b + n
  BY <1>1, <1>4, JoinTyped DEF Bytes
<1>7. d \in Bytes /\ Len(d) <= room
  BY <1>3, <1>6, EmptyTyped
<1>8. Sent(k) = [k EXCEPT !.down = d, !.output = o]
  BY DEF Sent
<1>9. Len(k.up) <= room
  BY DEF Fits
<1> HIDE DEF d, o, n, a, b, out
<1> QED
  BY <1>5, <1>7, <1>8, <1>9 DEF ConnTypes, Fits, Unnoticed

LEMMA FlushTyped ==
  ASSUME NEW k \in ConnTypes, room \in Nat, Fits(k), NEW f \in stream_flush(k)
  PROVE  f \in ConnTypes /\ Fits(f) /\ Unnoticed(k, f)
<1>1. f = Sent(k) \/ f = k
  BY DEF stream_flush
<1> QED
  BY <1>1, SentTyped DEF Unnoticed

LEMMA CloseTyped ==
  ASSUME NEW k \in ConnTypes, room \in Nat, Fits(k)
  PROVE  /\ binary_conn_close(k) \in ConnTypes /\ Fits(binary_conn_close(k))
         /\ k.active => /\ binary_conn_close(k).active = FALSE
                        /\ binary_conn_close(k).server = "closed"
         /\ ~k.active => binary_conn_close(k) = k
<1>1. CASE k.active
  <2> DEFINE r == [k EXCEPT !.active = FALSE, !.server = "closed",
                            !.up = <<>>, !.input = <<>>, !.output = <<>>]
  <2>1. r \in ConnTypes
    BY EmptyTyped DEF ConnTypes
  <2>2. r.up = <<>> /\ r.down = k.down /\ r.active = FALSE /\ r.server = "closed"
    BY DEF ConnTypes
  <2>3. binary_conn_close(k) = r
    BY <1>1 DEF binary_conn_close
  <2> HIDE DEF r
  <2> QED
    BY <1>1, <2>1, <2>2, <2>3, EmptyTyped DEF Fits
<1>2. CASE ~k.active
  BY <1>2 DEF binary_conn_close
<1> QED
  BY <1>1, <1>2

LEMMA OpenTyped ==
  ASSUME NEW k \in ConnTypes, room \in Nat, Fits(k), NEW fails \in BOOLEAN
  PROVE  /\ binary_conn_open(k, fails) \in ConnTypes /\ Fits(binary_conn_open(k, fails))
         /\ binary_conn_open(k, fails).input = k.input
         /\ binary_conn_open(k, fails).active = IF fails THEN k.active ELSE TRUE
         /\ binary_conn_open(k, fails).server = IF fails THEN "closed" ELSE "open"
<1> DEFINE r == [k EXCEPT !.server = "closed", !.up = <<>>]
           q == [k EXCEPT !.server = "open", !.active = TRUE]
<1>1. r \in ConnTypes /\ q \in ConnTypes
  BY EmptyTyped DEF ConnTypes
<1>2. /\ r.up = <<>> /\ r.down = k.down /\ r.active = k.active
      /\ r.server = "closed" /\ r.input = k.input
  BY DEF ConnTypes
<1>3. /\ q.up = k.up /\ q.down = k.down /\ q.active = TRUE
      /\ q.server = "open" /\ q.input = k.input
  BY DEF ConnTypes
<1>4. binary_conn_open(k, fails) = IF fails THEN r ELSE q
  BY DEF binary_conn_open
<1> HIDE DEF r, q
<1>5. CASE fails
  BY <1>1, <1>2, <1>4, <1>5, EmptyTyped DEF Fits
<1>6. CASE ~fails
  BY <1>1, <1>3, <1>4, <1>6 DEF Fits
<1> QED
  BY <1>5, <1>6

LEMMA TornTyped ==
  ASSUME NEW k \in ConnTypes, room \in Nat, Fits(k), k.active <=> k.server = "open"
  PROVE  /\ Torn(k) \in ConnTypes /\ Fits(Torn(k)) /\ Torn(k).active = FALSE
         /\ Torn(k).server \in {"none", "closed"} /\ Torn(k).client = k.client
         /\ k.server = "none" => Torn(k) = k
<1> DEFINE q == binary_conn_close(k)
           r == [q EXCEPT !.server = "closed", !.up = <<>>]
<1>1. q \in ConnTypes /\ Fits(q)
  BY CloseTyped
<1>2. q.active = FALSE /\ q.client = k.client
  <2>1. CASE k.active
    BY <2>1 DEF binary_conn_close, ConnTypes
  <2>2. CASE ~k.active
    <3>1. q = k /\ k.active \in BOOLEAN
      BY <2>2, CloseTyped, ConnFields
    <3> HIDE DEF q
    <3> QED
      BY <2>2, <3>1
  <2> QED
    BY <2>1, <2>2
<1> HIDE DEF q
<1>3. r \in ConnTypes
  BY <1>1, EmptyTyped DEF ConnTypes
<1>4. /\ r.up = <<>> /\ r.down = q.down /\ r.active = q.active
      /\ r.server = "closed" /\ r.client = q.client
  BY <1>1 DEF ConnTypes
<1>5. Torn(k) = IF k.server \in {"open", "backlog"} THEN r ELSE k
  BY DEF Torn, q
<1> HIDE DEF r
<1>6. CASE k.server \in {"open", "backlog"}
  <2>1. Torn(k) = r
    BY <1>5, <1>6
  <2>2. Fits(r)
    BY <1>1, <1>4, EmptyTyped DEF Fits
  <2> QED
    BY <1>2, <1>3, <1>4, <1>6, <2>1, <2>2
<1>7. CASE k.server \in {"none", "closed"}
  <2>1. Torn(k) = k
    BY <1>5, <1>7
  <2>2. k.active = FALSE
    BY <1>7, ConnFields
  <2> QED
    BY <1>7, <2>1, <2>2
<1> QED
  BY <1>6, <1>7, ConnFields

LEMMA OweTyped ==
  ASSUME NEW k \in ConnTypes, Fits(k), NEW p
  PROVE  /\ Owe(k, p) \in ConnTypes /\ Fits(Owe(k, p)) /\ Unnoticed(k, Owe(k, p))
         /\ Owe(k, p).up = k.up
<1> DEFINE owed == IF k.server = "closed" \/ Replies(p) = {} THEN k.owed
                   ELSE k.owed \o Frame(CHOOSE r \in Replies(p) : TRUE)
<1>1. owed \in Bytes
  <2>1. CASE k.server = "closed" \/ Replies(p) = {}
    BY <2>1, ConnFields
  <2>2. CASE ~(k.server = "closed" \/ Replies(p) = {})
    <3>1. (CHOOSE r \in Replies(p) : TRUE) \in Replies(p)
      BY <2>2
    <3>2. Frame(CHOOSE r \in Replies(p) : TRUE) \in Bytes
      BY <3>1, ReplyTyped
    <3> QED
      BY <2>2, <3>2, ConnFields, JoinTyped DEF Bytes
  <2> QED
    BY <2>1, <2>2
<1>2. Owe(k, p) = [k EXCEPT !.owed = owed]
  BY DEF Owe
<1> HIDE DEF owed
<1> QED
  BY <1>1, <1>2 DEF ConnTypes, Fits, Unnoticed

LEMMA WriteTyped ==
  ASSUME NEW k \in ConnTypes, room \in Nat, Fits(k), NEW s \in Bytes, Len(s) <= Free(k)
  PROVE  Write(k, s) \in ConnTypes /\ Fits(Write(k, s)) /\ Unnoticed(k, Write(k, s))
<1> DEFINE up == k.up \o s
           r == [k EXCEPT !.up = up]
<1>1. up \in Bytes /\ Len(up) <= room
  <2>1. k.up \in Bytes
    BY ConnFields
  <2>2. up \in Bytes /\ Len(up) = Len(k.up) + Len(s) /\ Len(k.up) \in Nat /\ Len(s) \in Nat
    BY <2>1, JoinTyped DEF Bytes
  <2> DEFINE a == Len(k.up)
             b == Len(s)
             n == Len(up)
  <2>3. b <= room - a
    BY DEF Free
  <2>4. n = a + b /\ a \in Nat /\ b \in Nat
    BY <2>2
  <2> HIDE DEF a, b, n
  <2>5. n <= room
    BY <2>3, <2>4
  <2> QED
    BY <2>2, <2>5 DEF n
<1> HIDE DEF up
<1>2. r \in ConnTypes /\ Fits(r) /\ Unnoticed(k, r)
  BY <1>1 DEF ConnTypes, Fits, Unnoticed
<1>3. Write(k, s) = IF k.server = "closed" THEN k ELSE r
  BY DEF Write, up
<1> HIDE DEF r
<1> QED
  BY <1>2, <1>3 DEF Unnoticed

LEMMA ReadTyped ==
  ASSUME NEW k \in ConnTypes, room \in Nat, Fits(k), NEW n \in Nat
  PROVE  Read(k, n) \in ConnTypes /\ Fits(Read(k, n)) /\ Unnoticed(k, Read(k, n))
<1> DEFINE down == Drop(k.down, n)
           owed == Drop(k.owed, n)
<1>1. k.down \in Bytes /\ k.owed \in Bytes
  BY ConnFields
<1>2. down \in Bytes /\ owed \in Bytes /\ Len(down) <= Len(k.down) /\ Len(down) \in Nat /\ Len(k.down) \in Nat
  BY <1>1, DropTyped DEF Bytes
<1>3. Len(down) <= room
  <2> DEFINE a == Len(down)
             b == Len(k.down)
  <2>1. a <= b /\ a \in Nat /\ b \in Nat /\ b <= room
    BY <1>2 DEF Fits
  <2> HIDE DEF a, b
  <2>2. a <= room
    BY <2>1
  <2> QED
    BY <2>2 DEF a
<1>4. Read(k, n) = [k EXCEPT !.down = down, !.owed = owed]
  BY DEF Read
<1> HIDE DEF down, owed
<1> QED
  BY <1>2, <1>3, <1>4 DEF ConnTypes, Fits, Unnoticed

----------------------------------------------------------------------------
(* Steps of the clients                                                     *)

ConnInv ==
  /\ conn \in [Conns -> ConnTypes] /\ room \in Nat \ {0}
  /\ \A c \in Conns : Fits(conn[c])

(* Nothing the worker keeps is touched.                                     *)
WorkerUntouched ==
  /\ UNCHANGED <<backlog, worker, cur, room>>
  /\ \A c \in Conns : Unnoticed(conn[c], conn'[c])

LEMMA OneMoves ==
  ASSUME ConnInv, NEW c \in Conns, NEW r \in ConnTypes, Fits(r), Unnoticed(conn[c], r),
         conn' = [conn EXCEPT ![c] = r], room' = room
  PROVE  ConnInv' /\ \A d \in Conns : Unnoticed(conn[d], conn'[d])
BY DEF ConnInv, Fits, Unnoticed

LEMMA NoneMoves ==
  ASSUME ConnInv, conn' = conn, room' = room
  PROVE  ConnInv' /\ \A d \in Conns : Unnoticed(conn[d], conn'[d])
BY DEF ConnInv, Fits, Unnoticed

LEMMA ClosingMoves ==
  ASSUME ConnInv, NEW closed, Closing(closed), room' = room
  PROVE  ConnInv' /\ \A d \in Conns : Unnoticed(conn[d], conn'[d])
<1>1. PICK lost : conn' = [c \in Conns |->
               IF c \in closed
               THEN [conn[c] EXCEPT !.client = "closed", !.down = <<>>, !.owed = <<>>,
                                    !.up = IF c \in lost THEN <<>> ELSE @]
               ELSE conn[c]]
  BY DEF Closing
<1>2. ASSUME NEW c \in Conns
      PROVE  conn'[c] \in ConnTypes /\ Fits(conn'[c]) /\ Unnoticed(conn[c], conn'[c])
  <2>1. conn[c] \in ConnTypes /\ Fits(conn[c])
    BY DEF ConnInv
  <2> DEFINE k == conn[c]
             up == IF c \in lost THEN <<>> ELSE k.up
             r == [k EXCEPT !.client = "closed", !.down = <<>>, !.owed = <<>>, !.up = up]
  <2>2. conn'[c] = IF c \in closed THEN r ELSE k
    BY <1>1
  <2> HIDE DEF k
  <2>3. up \in Bytes /\ Len(up) <= room /\ 0 <= room
    BY <2>1, ConnFields, EmptyTyped DEF k, Fits, ConnInv
  <2> HIDE DEF up
  <2>4. r \in ConnTypes
    BY <2>1, <2>3, EmptyTyped DEF ConnTypes, k
  <2>5. /\ r.up = up /\ r.down = <<>> /\ r.server = k.server /\ r.active = k.active
        /\ r.input = k.input /\ r.client = "closed"
    BY <2>1 DEF ConnTypes, k
  <2> HIDE DEF r
  <2>6. Fits(r) /\ Unnoticed(k, r) /\ Unnoticed(k, k)
    BY <2>3, <2>5, EmptyTyped DEF Fits, Unnoticed
  <2> QED
    BY <2>1, <2>2, <2>4, <2>6 DEF k
<1>3. conn' \in [Conns -> ConnTypes]
  BY <1>1, <1>2
<1>4. \A c \in Conns : Fits(conn[c])'
  BY <1>2 DEF Fits
<1> QED
  BY <1>2, <1>3, <1>4 DEF ConnInv

LEMMA ConnectMoves ==
  ASSUME ConnInv, backlog \in Seq(Conns), NEW c \in Conns, Connect(c)
  PROVE  /\ ConnInv' /\ backlog' \in Seq(Conns)
         /\ conn'[c].client = "open" /\ conn'[c].server = "backlog"
         /\ conn'[c].active = conn[c].active /\ conn'[c].input = conn[c].input
         /\ \A d \in Conns \ {c} : conn'[d] = conn[d]
<1> DEFINE r == [conn[c] EXCEPT !.client = "open", !.server = "backlog"]
<1>1. conn[c] \in ConnTypes /\ Fits(conn[c])
  BY DEF ConnInv
<1>2. /\ r \in ConnTypes /\ Fits(r) /\ r.client = "open" /\ r.server = "backlog"
      /\ r.active = conn[c].active /\ r.input = conn[c].input
  BY <1>1 DEF ConnTypes, Fits
<1>3. conn' = [conn EXCEPT ![c] = r] /\ room' = room /\ backlog' = Append(backlog, c)
  BY DEF Connect, ConnInv
<1> HIDE DEF r
<1> QED
  BY <1>2, <1>3 DEF ConnInv, Fits

----------------------------------------------------------------------------
(* The worker                                                               *)

ServerTypes ==
  /\ worker \in {"idle", "event", "process", "stopped", "aborted"}
  /\ backlog \in Seq(Conns)
  /\ cur \in [conn : Conns, evs : SUBSET {"READ", "WRITE", "CLOSE"}]

Listed(c) == \E i \in 1 .. Len(backlog) : backlog[i] = c

(* ListedIsOpen, with what it rests on: nobody waits twice, and a           *)
(* connection is the server's only once its client has connected.           *)
ListInv ==
  /\ \A c \in Conns : conn[c].active <=> conn[c].server = "open"
  /\ \A c \in Conns : conn[c].server = "backlog" <=> Listed(c)
  /\ \A i, j \in 1 .. Len(backlog) : backlog[i] = backlog[j] => i = j
  /\ \A c \in Conns : conn[c].client = "none" => conn[c].server = "none"
  /\ worker = "process" => conn[cur.conn].active
  /\ worker \in {"stopped", "aborted"} =>
       \A c \in Conns : conn[c].server \notin {"open", "backlog"}

(* NoPacketForgotten at every step: but for the connection whose packets    *)
(* are being taken, no input holds one.                                     *)
PacketInv ==
  /\ \A c \in Conns : conn[c].server \in {"none", "backlog"} => conn[c].input = <<>>
  /\ \A c \in Conns :
       conn[c].active /\ ~(worker = "process" /\ cur.conn = c) => Incomplete(conn[c].input)

ServerInv == ConnInv /\ ServerTypes /\ ListInv /\ PacketInv

LEMMA EmptyIncomplete == Incomplete(<<>>)
BY DEF Incomplete

LEMMA ServerStarts ==
  ASSUME Init
  PROVE  ServerInv
<1>1. /\ conn = [c \in Conns |-> NoConn] /\ backlog = <<>> /\ worker = "idle"
      /\ cur = [conn |-> CHOOSE c \in Conns : TRUE, evs |-> {}] /\ room \in Nat \ {0}
  BY BinaryAssumption DEF Init, ServerInit
<1>2. Conns # {}
  <2>1. client.conns \in Seq(Seq(Conns) \ {<<>>}) /\ client.conns # <<>>
    BY ClientAssumption DEF Init, ClientInit
  <2>2. client.conns[1] \in Seq(Conns) /\ client.conns[1] # <<>>
    BY <2>1
  <2>3. client.conns[1][1] \in Conns
    BY <2>2
  <2> QED
    BY <2>3
<1>3. cur \in [conn : Conns, evs : SUBSET {"READ", "WRITE", "CLOSE"}]
  BY <1>1, <1>2
<1>4. ConnInv
  BY <1>1, NoConnTyped DEF ConnInv
<1>5. /\ NoConn.client = "none" /\ NoConn.server = "none" /\ NoConn.active = FALSE
      /\ NoConn.input = <<>>
  BY DEF NoConn
<1>6. \A c \in Conns : conn[c] = NoConn
  BY <1>1
<1>7. ServerTypes
  BY <1>1, <1>3 DEF ServerTypes
<1>8. ListInv
  BY <1>1, <1>5, <1>6 DEF ListInv, Listed
<1>9. PacketInv
  BY <1>5, <1>6 DEF PacketInv
<1> QED
  BY <1>4, <1>7, <1>8, <1>9 DEF ServerInv

(* What a client does to its sockets is nothing to the worker's lists.      *)
LEMMA UntouchedKeeps ==
  ASSUME ServerInv, WorkerUntouched, ConnInv'
  PROVE  ServerInv'
<1>1. \A c \in Conns : /\ conn'[c].server = conn[c].server /\ conn'[c].active = conn[c].active
                       /\ conn'[c].input = conn[c].input
                       /\ conn'[c].client = "none" => conn[c].client = "none"
  BY DEF WorkerUntouched, Unnoticed
<1>2. backlog' = backlog /\ worker' = worker /\ cur' = cur
  BY DEF WorkerUntouched
<1>3. ServerTypes'
  BY <1>2 DEF ServerInv, ServerTypes
<1>4. ListInv'
  <2>1. cur.conn \in Conns
    BY DEF ServerInv, ServerTypes
  <2>2. \A c \in Conns : Listed(c)' = Listed(c)
    BY <1>2 DEF Listed
  <2> QED
    BY <1>1, <1>2, <2>1, <2>2 DEF ServerInv, ListInv
<1>5. PacketInv'
  BY <1>1, <1>2 DEF ServerInv, PacketInv
<1> QED
  BY <1>3, <1>4, <1>5 DEF ServerInv

LEMMA ConnectKeeps ==
  ASSUME ServerInv, NEW c \in Conns, Connect(c)
  PROVE  ServerInv'
<1>1. ConnInv /\ ServerTypes /\ ListInv /\ PacketInv
  BY DEF ServerInv
<1>2. backlog \in Seq(Conns)
  BY <1>1 DEF ServerTypes
<1>3. /\ ConnInv' /\ backlog' \in Seq(Conns)
      /\ conn'[c].client = "open" /\ conn'[c].server = "backlog"
      /\ conn'[c].active = conn[c].active /\ conn'[c].input = conn[c].input
      /\ \A d \in Conns \ {c} : conn'[d] = conn[d]
  BY <1>1, <1>2, ConnectMoves
<1>4. /\ conn[c].client = "none" /\ worker \notin {"stopped", "aborted"}
      /\ backlog' = Append(backlog, c) /\ worker' = worker /\ cur' = cur
  BY DEF Connect
<1>5. conn[c].server = "none" /\ ~conn[c].active /\ conn[c].input = <<>>
  BY <1>1, <1>4 DEF ListInv, PacketInv
<1>6. ServerTypes'
  BY <1>1, <1>3, <1>4 DEF ServerTypes
<1> DEFINE n == Len(backlog)
<1>7. /\ n \in Nat /\ Len(backlog') = n + 1 /\ backlog'[n + 1] = c
      /\ \A i \in 1 .. n : backlog'[i] = backlog[i]
  BY <1>2, <1>4
<1> HIDE DEF n
<1>8. \A d \in Conns : Listed(d)' <=> Listed(d) \/ d = c
  BY <1>7 DEF Listed, n
<1>9. ~Listed(c)
  BY <1>1, <1>5 DEF ListInv
<1>10. \A i, j \in 1 .. Len(backlog') : backlog'[i] = backlog'[j] => i = j
  <2>1. \A i, j \in 1 .. n : backlog[i] = backlog[j] => i = j
    BY <1>1 DEF ListInv, n
  <2>2. \A i \in 1 .. n : backlog[i] # c
    BY <1>9 DEF Listed, n
  <2> QED
    BY <1>7, <2>1, <2>2
<1>11. cur.conn \in Conns
  BY <1>1 DEF ServerTypes
<1>12. ListInv'
  <2>1. \A d \in Conns : conn'[d].active <=> conn'[d].server = "open"
    BY <1>1, <1>3, <1>5 DEF ListInv
  <2>2. \A d \in Conns : conn'[d].server = "backlog" <=> Listed(d)'
    BY <1>1, <1>3, <1>8 DEF ListInv
  <2>3. \A d \in Conns : conn'[d].client = "none" => conn'[d].server = "none"
    BY <1>1, <1>3 DEF ListInv
  <2>4. worker' = "process" => conn'[cur'.conn].active
    BY <1>1, <1>3, <1>4, <1>11 DEF ListInv
  <2> QED
    BY <1>4, <1>10, <2>1, <2>2, <2>3, <2>4 DEF ListInv
<1>13. PacketInv'
  BY <1>1, <1>3, <1>4, <1>5 DEF PacketInv
<1> QED
  BY <1>3, <1>6, <1>12, <1>13 DEF ServerInv

(* The worker does something to the connection it is at.                    *)
LEMMA OneServed ==
  ASSUME ServerInv, NEW r \in ConnTypes, Fits(r),
         conn[cur.conn].active, worker \in {"event", "process"},
         r.client = conn[cur.conn].client,
         \/ r.active = TRUE /\ r.server = "open"
         \/ r.active = FALSE /\ r.server = "closed",
         conn' = [conn EXCEPT ![cur.conn] = r], UNCHANGED <<backlog, room>>,
         cur'.conn = cur.conn, ServerTypes',
         worker' \in {"event", "process"}, worker' = "process" => r.active,
         worker' # "process" /\ r.active => Incomplete(r.input)
  PROVE  ServerInv'
<1> DEFINE c == cur.conn
<1>1. ConnInv /\ ServerTypes /\ ListInv /\ PacketInv
  BY DEF ServerInv
<1>2. c \in Conns /\ conn[c].server = "open" /\ conn[c].client # "none"
  BY <1>1 DEF ServerTypes, ListInv
<1>3. conn'[c] = r /\ \A d \in Conns \ {c} : conn'[d] = conn[d]
  BY <1>1, <1>2 DEF ConnInv
<1>4. ConnInv'
  BY <1>1, <1>2, <1>3 DEF ConnInv, Fits
<1>5. \A d \in Conns : Listed(d)' <=> Listed(d)
  BY DEF Listed
<1>6. ListInv'
  <2>1. \A d \in Conns : conn'[d].active <=> conn'[d].server = "open"
    BY <1>1, <1>3 DEF ListInv
  <2>2. \A d \in Conns : conn'[d].server = "backlog" <=> Listed(d)'
    BY <1>1, <1>2, <1>3, <1>5 DEF ListInv
  <2>3. \A d \in Conns : conn'[d].client = "none" => conn'[d].server = "none"
    BY <1>1, <1>2, <1>3 DEF ListInv
  <2>4. worker' = "process" => conn'[cur'.conn].active
    BY <1>3
  <2>5. \A i, j \in 1 .. Len(backlog') : backlog'[i] = backlog'[j] => i = j
    BY <1>1 DEF ListInv
  <2> QED
    BY <2>1, <2>2, <2>3, <2>4, <2>5 DEF ListInv
<1>7. PacketInv'
  <2>1. \A d \in Conns : conn'[d].server \in {"none", "backlog"} => conn'[d].input = <<>>
    BY <1>1, <1>3 DEF PacketInv
  <2>2. \A d \in Conns \ {c} : conn'[d].active => Incomplete(conn'[d].input)
    BY <1>1, <1>3 DEF PacketInv
  <2>3. conn'[c].active /\ ~(worker' = "process" /\ cur'.conn = c) => Incomplete(conn'[c].input)
    BY <1>3
  <2> QED
    BY <2>1, <2>2, <2>3 DEF PacketInv
<1> QED
  BY <1>4, <1>6, <1>7 DEF ServerInv

(* The worker ends.                                                         *)
LEMMA AllTorn ==
  ASSUME ServerInv, conn' = [c \in Conns |-> Torn(conn[c])], backlog' = <<>>,
         worker' \in {"stopped", "aborted"}, UNCHANGED <<cur, room>>
  PROVE  ServerInv'
<1>1. ConnInv /\ ServerTypes /\ ListInv /\ PacketInv
  BY DEF ServerInv
<1>2. ASSUME NEW c \in Conns
      PROVE  /\ conn'[c] \in ConnTypes /\ Fits(conn'[c]) /\ conn'[c].active = FALSE
             /\ conn'[c].server \in {"none", "closed"} /\ conn'[c].client = conn[c].client
             /\ conn[c].server = "none" => conn'[c] = conn[c]
  <2>1. conn[c] \in ConnTypes /\ Fits(conn[c]) /\ (conn[c].active <=> conn[c].server = "open") /\ room \in Nat
    BY <1>1 DEF ConnInv, ListInv
  <2>2. conn'[c] = Torn(conn[c])
    OBVIOUS
  <2> QED
    BY <2>1, <2>2, TornTyped
<1>3. ConnInv'
  BY <1>1, <1>2 DEF ConnInv, Fits
<1>4. ServerTypes'
  BY <1>1 DEF ServerTypes
<1>5. ListInv'
  <2>1. \A c \in Conns : ~Listed(c)'
    BY DEF Listed
  <2>2. ASSUME NEW c \in Conns, conn'[c].client = "none"
        PROVE  conn'[c].server = "none"
    <3>1. conn[c].client = "none"
      BY <1>2, <2>2
    <3>2. conn[c].server = "none"
      BY <1>1, <3>1 DEF ListInv
    <3> QED
      BY <1>2, <3>2
  <2>3. \A i, j \in 1 .. Len(backlog') : backlog'[i] = backlog'[j] => i = j
    OBVIOUS
  <2>4. \A c \in Conns : /\ conn'[c].active <=> conn'[c].server = "open"
                         /\ conn'[c].server # "backlog" /\ conn'[c].server # "open"
    BY <1>2
  <2>5. worker' # "process"
    OBVIOUS
  <2> QED
    BY <2>1, <2>2, <2>3, <2>4, <2>5 DEF ListInv
<1>6. PacketInv'
  <2>1. ASSUME NEW c \in Conns, conn'[c].server \in {"none", "backlog"}
        PROVE  conn'[c].input = <<>>
    <3>1. conn[c].server \in {"none", "backlog", "open", "closed"}
      BY <1>1, ConnFields DEF ConnInv
    <3>2. conn'[c].server = "none"
      BY <1>2, <2>1
    <3>3. conn[c].server = "none"
      <4>1. conn[c].server \in {"open", "backlog"} => conn'[c].server = "closed"
        <5>1. conn[c] \in ConnTypes
          BY <1>1 DEF ConnInv
        <5>2. binary_conn_close(conn[c]) \in ConnTypes
          BY <1>1, CloseTyped DEF ConnInv
        <5> QED
          BY <5>2 DEF Torn, ConnTypes
      <4>2. conn[c].server = "closed" => conn'[c].server = "closed"
        BY DEF Torn
      <4> QED
        BY <3>1, <3>2, <4>1, <4>2
    <3> QED
      BY <1>1, <1>2, <3>3 DEF PacketInv
  <2> QED
    BY <1>2, <2>1 DEF PacketInv
<1> QED
  BY <1>3, <1>4, <1>5, <1>6 DEF ServerInv

LEMMA ListenerStep ==
  ASSUME ServerInv, binary_listener_callback
  PROVE  ServerInv'
<1> DEFINE len == Len(backlog)
           n == Least(len, AcceptMax)
           accepted == {backlog[i] : i \in 1 .. n}
<1>1. ConnInv /\ ServerTypes /\ ListInv /\ PacketInv
  BY DEF ServerInv
<1>2. PICK refused \in SUBSET accepted :
        conn' = [c \in Conns |-> IF c \in accepted
                                 THEN binary_conn_open(conn[c], c \in refused)
                                 ELSE conn[c]]
  BY DEF binary_listener_callback
<1>3. /\ worker = "idle" /\ backlog' = Drop(backlog, n)
      /\ worker' = worker /\ cur' = cur /\ room' = room
  BY DEF binary_listener_callback
<1>4. backlog \in Seq(Conns) /\ len \in Nat
  BY <1>1 DEF ServerTypes
<1>5. n \in 0 .. len
  <2> HIDE DEF len
  <2> QED
    BY <1>4, BinaryAssumption DEF Least
<1>6. /\ backlog' \in Seq(Conns) /\ Len(backlog') = len - n
      /\ \A i \in 1 .. len - n : backlog'[i] = backlog[n + i]
  <2>1. n \in Nat /\ n <= len
    BY <1>4, <1>5
  <2>2. backlog' \in Seq(Conns) /\ Len(backlog') = len - n
    <3> HIDE DEF n
    <3> QED
      BY <1>3, <1>4, <2>1, DropTyped
  <2>3. \A i \in n + 1 .. len : backlog[i] \in Conns
    BY <1>4, <2>1
  <2> HIDE DEF n
  <2>4. \A i \in 1 .. len - (n + 1) + 1 : SubSeq(backlog, n + 1, len)[i] = backlog[n + 1 + i - 1]
    <3> HIDE DEF len
    <3> QED
      BY <1>4, <2>1, <2>3, SubSeqProperties
  <2>5. backlog' = SubSeq(backlog, n + 1, len)
    BY <1>3 DEF Drop
  <2> HIDE DEF len
  <2>6. \A i \in 1 .. len - n : i \in 1 .. len - (n + 1) + 1 /\ n + 1 + i - 1 = n + i
    BY <1>4, <2>1
  <2> QED
    BY <2>2, <2>4, <2>5, <2>6
<1> HIDE DEF n
<1>7. ASSUME NEW c \in Conns, c \in accepted
      PROVE  /\ Listed(c) /\ ~Listed(c)' /\ conn[c].server = "backlog" /\ conn[c].active = FALSE
             /\ conn[c].input = <<>> /\ conn[c].client # "none"
  <2>1. PICK i \in 1 .. n : backlog[i] = c
    BY <1>7
  <2>2. i \in 1 .. len
    BY <1>4, <1>5, <2>1
  <2>3. Listed(c)
    BY <2>1, <2>2 DEF Listed
  <2>4. conn[c].server = "backlog" /\ conn[c].active = FALSE
    BY <1>1, <2>3, ConnFields DEF ListInv, ConnInv
  <2>5. conn[c].input = <<>> /\ conn[c].client # "none"
    BY <1>1, <2>4 DEF PacketInv, ListInv
  <2>6. ~Listed(c)'
    <3>1. ASSUME NEW j \in 1 .. Len(backlog'), backlog'[j] = c
          PROVE  FALSE
      <4>1. j \in 1 .. len - n /\ backlog[n + j] = c
        BY <1>6, <3>1
      <4>2. n + j \in 1 .. len /\ n + j # i
        BY <1>4, <1>5, <2>1, <4>1
      <4>3. \A x, y \in 1 .. len : backlog[x] = backlog[y] => x = y
        BY <1>1 DEF ListInv
      <4> QED
        BY <2>1, <2>2, <4>1, <4>2, <4>3
    <3> QED
      BY <3>1 DEF Listed
  <2> QED
    BY <2>3, <2>4, <2>5, <2>6
<1>8. ASSUME NEW c \in Conns, c \notin accepted
      PROVE  Listed(c)' <=> Listed(c)
  <2>1. ASSUME NEW i \in 1 .. len, backlog[i] = c
        PROVE  \E j \in 1 .. Len(backlog') : backlog'[j] = c
    <3>1. ~ i \in 1 .. n
      BY <1>8, <2>1
    <3>2. i - n \in 1 .. len - n /\ n + (i - n) = i
      BY <1>4, <1>5, <2>1, <3>1
    <3> QED
      BY <1>6, <2>1, <3>2
  <2>2. ASSUME NEW j \in 1 .. Len(backlog'), backlog'[j] = c
        PROVE  \E i \in 1 .. len : backlog[i] = c
    <3>1. j \in 1 .. len - n /\ backlog[n + j] = c
      BY <1>6, <2>2
    <3>2. n + j \in 1 .. len
      BY <1>4, <1>5, <3>1
    <3> QED
      BY <3>1, <3>2
  <2> QED
    BY <2>1, <2>2 DEF Listed
<1>9. ASSUME NEW c \in Conns, c \in accepted
      PROVE  /\ conn'[c] \in ConnTypes /\ Fits(conn'[c]) /\ conn'[c].input = <<>>
             /\ \/ conn'[c].active = TRUE /\ conn'[c].server = "open"
                \/ conn'[c].active = FALSE /\ conn'[c].server = "closed"
  <2> DEFINE fails == c \in refused
  <2>1. conn'[c] = binary_conn_open(conn[c], fails)
    BY <1>2, <1>9
  <2>2. fails \in BOOLEAN /\ conn[c] \in ConnTypes /\ Fits(conn[c]) /\ room \in Nat
    BY <1>1 DEF ConnInv
  <2> HIDE DEF fails
  <2>3. /\ binary_conn_open(conn[c], fails) \in ConnTypes /\ Fits(binary_conn_open(conn[c], fails))
        /\ binary_conn_open(conn[c], fails).input = conn[c].input
        /\ binary_conn_open(conn[c], fails).active = IF fails THEN conn[c].active ELSE TRUE
        /\ binary_conn_open(conn[c], fails).server = IF fails THEN "closed" ELSE "open"
    BY <2>2, OpenTyped
  <2> QED
    BY <1>7, <1>9, <2>1, <2>2, <2>3
<1>10. \A c \in Conns : c \notin accepted => conn'[c] = conn[c]
  BY <1>2
<1>11. ConnInv'
  <2>1. conn' \in [Conns -> ConnTypes]
    BY <1>1, <1>2, <1>9, <1>10 DEF ConnInv
  <2>2. \A c \in Conns : Fits(conn[c])'
    BY <1>1, <1>3, <1>9, <1>10 DEF ConnInv, Fits
  <2> QED
    BY <1>1, <1>3, <2>1, <2>2 DEF ConnInv
<1>12. ServerTypes'
  BY <1>1, <1>3, <1>6 DEF ServerTypes
<1>13. ListInv'
  <2>1. ASSUME NEW c \in Conns
        PROVE  conn'[c].active <=> conn'[c].server = "open"
    <3>1. CASE c \in accepted
      BY <1>9, <3>1
    <3>2. CASE c \notin accepted
      <4>1. conn'[c] = conn[c] /\ ListInv
        BY <1>1, <1>10, <3>2
      <4> QED
        BY <4>1 DEF ListInv
    <3> QED
      BY <3>1, <3>2
  <2>2. ASSUME NEW c \in Conns
        PROVE  conn'[c].server = "backlog" <=> Listed(c)'
    <3>1. CASE c \in accepted
      BY <1>7, <1>9, <3>1
    <3>2. CASE c \notin accepted
      BY <1>1, <1>8, <1>10, <3>2 DEF ListInv
    <3> QED
      BY <3>1, <3>2
  <2>3. \A i, j \in 1 .. Len(backlog') : backlog'[i] = backlog'[j] => i = j
    <3> SUFFICES ASSUME NEW i \in 1 .. len - n, NEW j \in 1 .. len - n, backlog'[i] = backlog'[j]
                 PROVE  i = j
      BY <1>6
    <3>1. n + i \in 1 .. len /\ n + j \in 1 .. len /\ backlog[n + i] = backlog[n + j]
      BY <1>4, <1>5, <1>6
    <3>2. \A x, y \in 1 .. len : backlog[x] = backlog[y] => x = y
      BY <1>1 DEF ListInv
    <3>3. n + i = n + j
      BY <3>1, <3>2
    <3> QED
      BY <1>4, <1>5, <3>3
  <2>4. ASSUME NEW c \in Conns, conn'[c].client = "none"
        PROVE  conn'[c].server = "none"
    <3>1. c \notin accepted
      <4>1. SUFFICES ASSUME c \in accepted PROVE FALSE
        OBVIOUS
      <4>2. conn'[c] = binary_conn_open(conn[c], c \in refused) /\ conn[c] \in ConnTypes
        BY <1>1, <1>2, <4>1 DEF ConnInv
      <4>3. conn'[c].client = conn[c].client
        BY <4>2 DEF binary_conn_open, ConnTypes
      <4> QED
        BY <1>7, <2>4, <4>1, <4>3
    <3> QED
      BY <1>1, <1>10, <2>4, <3>1 DEF ListInv
  <2> QED
    BY <1>3, <2>1, <2>2, <2>3, <2>4 DEF ListInv
<1>14. PacketInv'
  BY <1>1, <1>3, <1>9, <1>10, EmptyIncomplete DEF PacketInv
<1> QED
  BY <1>11, <1>12, <1>13, <1>14 DEF ServerInv

LEMMA DispatchStep ==
  ASSUME ServerInv, NEW c \in Conns, dispatch(c)
  PROVE  ServerInv'
<1>1. ConnInv /\ ServerTypes /\ ListInv /\ PacketInv
  BY DEF ServerInv
<1> DEFINE evs == {e \in {"READ", "WRITE", "CLOSE"} : Ready(conn[c], e)}
<1>2. /\ worker = "idle" /\ worker' = "event" /\ cur' = [conn |-> c, evs |-> evs]
      /\ conn' = conn /\ backlog' = backlog /\ room' = room
  BY DEF dispatch
<1>3. evs \in SUBSET {"READ", "WRITE", "CLOSE"}
  OBVIOUS
<1> HIDE DEF evs
<1>4. ConnInv'
  BY <1>1, <1>2 DEF ConnInv, Fits
<1>5. ServerTypes'
  BY <1>1, <1>2, <1>3 DEF ServerTypes
<1>6. ListInv'
  BY <1>1, <1>2 DEF ListInv, Listed
<1>7. PacketInv'
  BY <1>1, <1>2 DEF PacketInv
<1> QED
  BY <1>4, <1>5, <1>6, <1>7 DEF ServerInv

LEMMA EventTyped ==
  ASSUME ServerInv, NEW e, Event(e), worker' \in {"event", "process"}
  PROVE  /\ ServerTypes' /\ cur'.conn = cur.conn /\ cur.conn \in Conns
         /\ conn[cur.conn].active /\ worker = "event" /\ UNCHANGED <<backlog, room>>
         /\ conn[cur.conn] \in ConnTypes /\ Fits(conn[cur.conn]) /\ room \in Nat
         /\ conn[cur.conn].server = "open" /\ conn[cur.conn].active = TRUE
         /\ Incomplete(conn[cur.conn].input)
<1>1. ConnInv /\ ServerTypes /\ ListInv /\ PacketInv
  BY DEF ServerInv
<1>2. /\ worker = "event" /\ conn[cur.conn].active /\ cur' = [cur EXCEPT !.evs = @ \ {e}]
      /\ backlog' = backlog /\ room' = room
  BY DEF Event
<1>3. cur.conn \in Conns /\ cur'.conn = cur.conn
  BY <1>1, <1>2 DEF ServerTypes
<1>4. ServerTypes'
  BY <1>1, <1>2 DEF ServerTypes
<1>5. conn[cur.conn] \in ConnTypes /\ Fits(conn[cur.conn]) /\ room \in Nat
  BY <1>1, <1>3 DEF ConnInv
<1>6. conn[cur.conn].server = "open" /\ conn[cur.conn].active = TRUE
  BY <1>1, <1>2, <1>3, <1>5, ConnFields DEF ListInv
<1>7. Incomplete(conn[cur.conn].input)
  BY <1>1, <1>2, <1>3 DEF PacketInv
<1> QED
  BY <1>2, <1>3, <1>4, <1>5, <1>6, <1>7

LEMMA ReadStep ==
  ASSUME ServerInv, on_read
  PROVE  ServerInv'
<1> DEFINE k == conn[cur.conn]
           input == k.input \o k.up
           r == [k EXCEPT !.input = input, !.up = <<>>]
<1>1. /\ Event("READ") /\ conn' = [conn EXCEPT ![cur.conn] = r]
      /\ worker' = IF k.up = <<>> THEN "event" ELSE "process"
  BY DEF on_read
<1>2. worker' \in {"event", "process"}
  BY <1>1
<1>3. /\ ServerTypes' /\ cur'.conn = cur.conn /\ cur.conn \in Conns
      /\ k.active /\ worker = "event" /\ UNCHANGED <<backlog, room>>
      /\ k \in ConnTypes /\ Fits(k) /\ room \in Nat
      /\ k.server = "open" /\ k.active = TRUE /\ Incomplete(k.input)
  BY <1>1, <1>2, EventTyped
<1> HIDE DEF k
<1>4. k.input \in Bytes /\ k.up \in Bytes
  BY <1>3, ConnFields
<1>5. input \in Bytes /\ (k.up = <<>> => input = k.input)
  BY <1>4, JoinTyped DEF Bytes
<1> HIDE DEF input
<1>6. r \in ConnTypes
  BY <1>3, <1>5, EmptyTyped DEF ConnTypes
<1>7. /\ r.up = <<>> /\ r.down = k.down /\ r.server = k.server /\ r.active = k.active
      /\ r.input = input /\ r.client = k.client
  BY <1>3 DEF ConnTypes
<1> HIDE DEF r
<1>8. Fits(r)
  BY <1>3, <1>7, EmptyTyped DEF Fits
<1>9. conn' = [conn EXCEPT ![cur.conn] = r]
  BY <1>1
<1> QED
  BY <1>1, <1>2, <1>3, <1>5, <1>6, <1>7, <1>8, <1>9, OneServed DEF k

(* A connection closed, or one whose input is as before.                    *)
LEMMA ClosedOrNot ==
  ASSUME NEW k \in ConnTypes, room \in Nat, Fits(k), k.active = TRUE, k.server = "open"
  PROVE  /\ binary_conn_close(k) \in ConnTypes /\ Fits(binary_conn_close(k))
         /\ binary_conn_close(k).client = k.client
         /\ binary_conn_close(k).active = FALSE /\ binary_conn_close(k).server = "closed"
<1>1. binary_conn_close(k).client = k.client
  BY DEF binary_conn_close, ConnTypes
<1> QED
  BY <1>1, CloseTyped

LEMMA FlushKeepsClient ==
  ASSUME NEW k \in ConnTypes, NEW f \in stream_flush(k)
  PROVE  f.client = k.client
BY DEF stream_flush, Sent, ConnTypes

LEMMA WriteStep ==
  ASSUME ServerInv, on_write
  PROVE  ServerInv'
<1> DEFINE k == conn[cur.conn]
<1>1. Event("WRITE") /\ worker' = worker
  BY DEF on_write
<1>2. PICK f \in stream_flush(k) :
        conn' = [conn EXCEPT ![cur.conn] = IF f.output = <<>> THEN binary_conn_close(f) ELSE f]
  BY DEF on_write
<1>3. worker' \in {"event", "process"} /\ worker' = "event"
  BY <1>1 DEF Event
<1>4. /\ ServerTypes' /\ cur'.conn = cur.conn /\ cur.conn \in Conns
      /\ k.active /\ worker = "event" /\ UNCHANGED <<backlog, room>>
      /\ k \in ConnTypes /\ Fits(k) /\ room \in Nat
      /\ k.server = "open" /\ k.active = TRUE /\ Incomplete(k.input)
  BY <1>1, <1>3, EventTyped
<1>5. /\ f \in ConnTypes /\ Fits(f) /\ f.client = k.client
      /\ f.server = k.server /\ f.active = k.active /\ f.input = k.input
  BY <1>4, FlushTyped, FlushKeepsClient DEF Unnoticed
<1> DEFINE r == IF f.output = <<>> THEN binary_conn_close(f) ELSE f
<1>6. /\ r \in ConnTypes /\ Fits(r) /\ r.client = k.client
      /\ \/ r.active = TRUE /\ r.server = "open" /\ r.input = k.input
         \/ r.active = FALSE /\ r.server = "closed"
  BY <1>4, <1>5, ClosedOrNot
<1>7. conn' = [conn EXCEPT ![cur.conn] = r]
  BY <1>2
<1> HIDE DEF r
<1> QED
  BY <1>3, <1>4, <1>6, <1>7, OneServed

LEMMA CloseStep ==
  ASSUME ServerInv, on_close
  PROVE  ServerInv'
<1> DEFINE k == conn[cur.conn]
           r == binary_conn_close(k)
<1>1. Event("CLOSE") /\ worker' = worker /\ conn' = [conn EXCEPT ![cur.conn] = r]
  BY DEF on_close
<1>2. worker' \in {"event", "process"} /\ worker' = "event"
  BY <1>1 DEF Event
<1>3. /\ ServerTypes' /\ cur'.conn = cur.conn /\ cur.conn \in Conns
      /\ k.active /\ worker = "event" /\ UNCHANGED <<backlog, room>>
      /\ k \in ConnTypes /\ Fits(k) /\ room \in Nat
      /\ k.server = "open" /\ k.active = TRUE
  BY <1>1, <1>2, EventTyped
<1>4. /\ r \in ConnTypes /\ Fits(r) /\ r.client = k.client
      /\ r.active = FALSE /\ r.server = "closed"
  BY <1>3, ClosedOrNot
<1> HIDE DEF r
<1> QED
  BY <1>1, <1>2, <1>3, <1>4, OneServed

LEMMA DispatchedStep ==
  ASSUME ServerInv, dispatched
  PROVE  ServerInv'
<1>1. ConnInv /\ ServerTypes /\ ListInv /\ PacketInv
  BY DEF ServerInv
<1>2. /\ worker = "event" /\ worker' = "idle" /\ cur' = [cur EXCEPT !.evs = {}]
      /\ conn' = conn /\ backlog' = backlog /\ room' = room
  BY DEF dispatched
<1>3. ConnInv'
  BY <1>1, <1>2 DEF ConnInv, Fits
<1>4. ServerTypes'
  BY <1>1, <1>2 DEF ServerTypes
<1>5. ListInv'
  BY <1>1, <1>2 DEF ListInv, Listed
<1>6. PacketInv'
  BY <1>1, <1>2 DEF PacketInv
<1> QED
  BY <1>3, <1>4, <1>5, <1>6 DEF ServerInv

LEMMA AppendOutputTyped ==
  ASSUME NEW k \in ConnTypes, Fits(k), NEW s \in Bytes
  PROVE  /\ stream_write(k, s) \in ConnTypes /\ Fits(stream_write(k, s))
         /\ stream_write(k, s).client = k.client /\ Unnoticed(k, stream_write(k, s))
<1> DEFINE output == k.output \o s
<1>1. output \in Bytes
  BY ConnFields, JoinTyped DEF Bytes
<1>2. stream_write(k, s) = [k EXCEPT !.output = output]
  BY DEF stream_write
<1> HIDE DEF output
<1> QED
  BY <1>1, <1>2 DEF ConnTypes, Fits, Unnoticed

LEMMA ConsumeTyped ==
  ASSUME NEW k \in ConnTypes, Fits(k), NEW n \in Nat
  PROVE  /\ stream_consume(k, n) \in ConnTypes /\ Fits(stream_consume(k, n))
         /\ stream_consume(k, n).client = k.client /\ stream_consume(k, n).active = k.active
         /\ stream_consume(k, n).server = k.server
<1> DEFINE input == Drop(k.input, n)
<1>1. input \in Bytes
  BY ConnFields, DropTyped DEF Bytes
<1>2. stream_consume(k, n) = [k EXCEPT !.input = input]
  BY DEF stream_consume
<1> HIDE DEF input
<1> QED
  BY <1>1, <1>2 DEF ConnTypes, Fits

LEMMA ProcessStep ==
  ASSUME ServerInv, binary_conn_process
  PROVE  ServerInv'
<1> DEFINE c == cur.conn
           k == conn[c]
<1>1. ConnInv /\ ServerTypes /\ ListInv /\ PacketInv
  BY DEF ServerInv
<1>2. /\ worker = "process" /\ backlog' = backlog /\ cur' = cur /\ room' = room
      /\ UNCHANGED <<backlog, room>>
  BY DEF binary_conn_process
<1>3. c \in Conns /\ cur'.conn = c
  BY <1>1, <1>2 DEF ServerTypes
<1>4. k \in ConnTypes /\ Fits(k) /\ room \in Nat
  BY <1>1, <1>3 DEF ConnInv
<1>5. k.active = TRUE /\ k.server = "open" /\ k.active
  BY <1>1, <1>2, <1>3, <1>4, ConnFields DEF ListInv
<1>6. worker' \in {"event", "process"} => ServerTypes'
  BY <1>1, <1>2 DEF ServerTypes
<1>7. CASE Incomplete(k.input) /\ worker' = "event" /\ UNCHANGED conn
  <2>1. conn' = [conn EXCEPT ![c] = k]
    BY <1>1, <1>3, <1>7 DEF ConnInv
  <2> HIDE DEF k
  <2>2. conn[cur.conn].active /\ k.client = conn[cur.conn].client
    BY <1>5 DEF k
  <2> QED
    BY <1>2, <1>3, <1>4, <1>5, <1>6, <1>7, <2>1, <2>2, OneServed
<1>8. CASE worker' = "event" /\ conn' = [conn EXCEPT ![c] = binary_conn_close(k)]
  <2> DEFINE r == binary_conn_close(k)
  <2>1. /\ r \in ConnTypes /\ Fits(r) /\ r.client = k.client
        /\ r.active = FALSE /\ r.server = "closed"
    BY <1>4, <1>5, ClosedOrNot
  <2>2. conn' = [conn EXCEPT ![c] = r]
    BY <1>8
  <2> HIDE DEF r
  <2> QED
    BY <1>2, <1>3, <1>5, <1>6, <1>8, <2>1, <2>2, OneServed
<1>9. ASSUME ~Incomplete(k.input), worker' = worker,
             NEW p \in Replies(FrontPayload(k.input)),
             NEW f \in stream_flush(stream_write(k, Frame(p))),
             conn' = [conn EXCEPT ![c] = stream_consume(f, 2 + Length(k.input))]
      PROVE  ServerInv'
  <2> DEFINE w == stream_write(k, Frame(p))
             n == 2 + Length(k.input)
             r == stream_consume(f, n)
  <2>1. Frame(p) \in Bytes
    BY ReplyTyped
  <2>2. /\ w \in ConnTypes /\ Fits(w) /\ w.client = k.client
        /\ w.server = k.server /\ w.active = k.active
    BY <1>4, <2>1, AppendOutputTyped DEF Unnoticed
  <2>3. /\ f \in ConnTypes /\ Fits(f) /\ f.client = k.client
        /\ f.server = k.server /\ f.active = k.active
    BY <1>4, <2>2, FlushTyped, FlushKeepsClient DEF Unnoticed
  <2>4. n \in Nat
    <3>1. k.input \in Bytes /\ ~(Len(k.input) < 2) /\ Len(k.input) \in Nat
      BY <1>4, <1>9, ConnFields DEF Incomplete, Bytes
    <3>2. Len(k.input) >= 2
      BY <3>1
    <3>3. Length(k.input) \in Nat
      BY <3>1, <3>2, LengthTyped
    <3> QED
      BY <3>3
  <2> HIDE DEF n
  <2>5. /\ r \in ConnTypes /\ Fits(r) /\ r.client = k.client
        /\ r.active = TRUE /\ r.server = "open"
    BY <1>5, <2>3, <2>4, ConsumeTyped
  <2>6. conn' = [conn EXCEPT ![c] = r]
    BY <1>9 DEF n
  <2> HIDE DEF r
  <2>7. worker' = "process" /\ ServerTypes'
    BY <1>2, <1>6, <1>9
  <2> QED
    BY <1>2, <1>3, <1>5, <2>5, <2>6, <2>7, OneServed
<1> QED
  BY <1>7, <1>8, <1>9 DEF binary_conn_process

(* The worker's steps.                                                      *)
LEMMA ServerStep ==
  ASSUME ServerInv, ServerNext
  PROVE  ServerInv'
<1>1. ASSUME NEW c \in Conns, dispatch(c) PROVE ServerInv'
  BY <1>1, DispatchStep
<1>2. CASE WorkerStep
  BY <1>2, ReadStep, WriteStep, CloseStep, DispatchedStep, ProcessStep DEF WorkerStep
<1>3. CASE assert_fails
  <2>1. /\ conn' = [c \in Conns |-> Torn(conn[c])] /\ backlog' = <<>>
        /\ worker' = "aborted" /\ UNCHANGED <<cur, room>>
    BY <1>3 DEF assert_fails
  <2> QED
    BY <2>1, AllTorn
<1>4. CASE binary_server_shutdown
  <2>1. /\ conn' = [c \in Conns |-> Torn(conn[c])] /\ backlog' = <<>>
        /\ worker' = "stopped" /\ UNCHANGED <<cur, room>>
    BY <1>4 DEF binary_server_shutdown
  <2> QED
    BY <2>1, AllTorn
<1> QED
  BY <1>1, <1>2, <1>3, <1>4, ListenerStep DEF ServerNext

----------------------------------------------------------------------------
(* Types of the clients                                                     *)

ClientTypes == client \in Clients /\ proto \in Codecs /\ g_stop \in BOOLEAN

ThreadRecords ==
  [pc : {"none", "connect", "loop", "conn", "write", "read", "close", "done"},
   i : Nat \ {0}, d : 0 .. Depth - 1, x : 0 .. Byte - 1, unsent : Bytes, reply : Bytes]

(* A thread that writes or reads is at one of its connections.              *)
Placed(t, r) ==
  /\ r.i <= Len(ConnsOf[t]) + 1
  /\ r.pc \in {"write", "read"} => r.i <= Len(ConnsOf[t])

ThreadTypes ==
  /\ main \in {"create", "join", "done", "killed"}
  /\ thr \in [Threads -> ThreadRecords]
  /\ \A t \in Threads : Placed(t, thr[t])

GenRecords ==
  [pc : {"connect", "seed", "loop", "wait", "reap", "drain", "refill", "stopped"},
   i : DOMAIN UringConns, left : Nat]

UringTypes ==
  /\ gen \in GenRecords
  /\ sq \in Seq(Operations) /\ Len(sq) <= SqSize /\ ring \in Seq(Operations)
  /\ cq \in Seq([op : Operations, res : Bytes]) /\ free \in Seq(1 .. PoolSize)
  /\ uconn \in [Conns -> [in_flight : Int, rbuf : Bytes, failed : BOOLEAN, deaf : BOOLEAN]]

OtherTypes == other \in [Conns -> [asked : 0 .. Depth, unsent : Bytes]]

TypeInv ==
  ServerInv /\ ClientTypes /\ ThreadTypes /\ UringTypes /\ OtherTypes

(* A client's step to the worker: nothing, or one more connection.          *)
Moved == (WorkerUntouched /\ ConnInv') \/ \E c \in Conns : Connect(c)

LEMMA MovedKeeps ==
  ASSUME ServerInv, Moved
  PROVE  ServerInv'
BY UntouchedKeeps, ConnectKeeps DEF Moved

LEMMA ClientFacts ==
  ASSUME ClientTypes
  PROVE  /\ Depth \in Nat \ {0} /\ ConnsOf \in Seq(Seq(Conns)) /\ 1 \in DOMAIN ConnsOf
         /\ \A t \in Threads : ConnsOf[t] \in Seq(Conns) /\ ConnsOf[t] # <<>>
         /\ UringConns \in Seq(Conns) /\ 1 \in DOMAIN UringConns
         /\ \A i \in DOMAIN UringConns : UringConns[i] \in Conns
         /\ Range(UringConns) \subseteq Conns
<1>1. /\ client.depth \in Nat \ {0}
      /\ client.conns \in Seq(Seq(Conns) \ {<<>>}) /\ client.conns # <<>>
  BY ClientAssumption DEF ClientTypes
<1>2. /\ ConnsOf \in Seq(Seq(Conns) \ {<<>>}) /\ ConnsOf # <<>> /\ Depth \in Nat \ {0}
  BY <1>1 DEF ConnsOf, Depth
<1>3. /\ ConnsOf \in Seq(Seq(Conns)) /\ 1 \in DOMAIN ConnsOf
      /\ \A t \in DOMAIN ConnsOf : ConnsOf[t] \in Seq(Conns) /\ ConnsOf[t] # <<>>
  BY <1>2
<1>4. UringConns \in Seq(Conns) /\ UringConns # <<>>
  BY <1>3 DEF UringConns
<1>5. /\ 1 \in DOMAIN UringConns
      /\ \A i \in DOMAIN UringConns : UringConns[i] \in Conns
  BY <1>4
<1>6. Range(UringConns) \subseteq Conns
  BY <1>5 DEF Range
<1> QED
  BY <1>2, <1>3, <1>4, <1>5, <1>6 DEF Threads

LEMMA TypesStart ==
  ASSUME Init
  PROVE  TypeInv
<1>1. ServerInv
  BY ServerStarts
<1>2. ClientTypes
  BY DEF Init, ClientInit, ClientTypes
<1>3. ThreadTypes
  <2>1. NoThread \in ThreadRecords /\ NoThread.i = 1 /\ NoThread.pc = "none"
    <3>1. 0 \in 0 .. Depth - 1 /\ 0 \in 0 .. Byte - 1
      BY <1>2, ClientFacts, BinaryAssumption
    <3> QED
      BY <3>1, EmptyTyped DEF NoThread, ThreadRecords
  <2>2. \A t \in Threads : Len(ConnsOf[t]) \in Nat
    BY <1>2, ClientFacts
  <2>3. thr = [t \in Threads |-> NoThread] /\ main = "create"
    BY DEF Init, ThreadsInit
  <2>4. \A t \in Threads : Placed(t, thr[t])
    BY <2>1, <2>2, <2>3 DEF Placed
  <2> QED
    BY <2>1, <2>3, <2>4 DEF ThreadTypes
<1>4. UringTypes
  <2>1. gen \in GenRecords
    BY <1>2, ClientFacts DEF Init, UringInit, GenRecords
  <2>2. /\ sq = <<>> /\ ring = <<>> /\ cq = <<>> /\ free = [i \in 1 .. PoolSize |-> i]
        /\ uconn = [c \in Conns |->
                      [in_flight |-> 0, rbuf |-> <<>>, failed |-> FALSE, deaf |-> FALSE]]
    BY DEF Init, UringInit
  <2>3. free \in Seq(1 .. PoolSize)
    BY <2>2, UringAssumption
  <2>4. uconn \in [Conns -> [in_flight : Int, rbuf : Bytes, failed : BOOLEAN, deaf : BOOLEAN]]
    BY <2>2, EmptyTyped
  <2> QED
    BY <2>1, <2>2, <2>3, <2>4, UringAssumption DEF UringTypes
<1>5. OtherTypes
  <2>1. 0 \in 0 .. Depth
    BY <1>2, ClientFacts
  <2> QED
    BY <2>1, EmptyTyped DEF OtherTypes, Init
<1> QED
  BY <1>1, <1>2, <1>3, <1>4, <1>5 DEF TypeInv

LEMMA ClientSame ==
  ASSUME ClientTypes, UNCHANGED clientVars
  PROVE  ClientTypes' /\ client' = client
BY DEF ClientTypes, clientVars

LEMMA ThreadsSame ==
  ASSUME ThreadTypes, UNCHANGED <<client, threadsVars>>
  PROVE  ThreadTypes'
BY DEF ThreadTypes, ThreadRecords, Placed, Threads, ConnsOf, Depth, threadsVars

LEMMA UringSame ==
  ASSUME UringTypes, UNCHANGED <<client, uringVars>>
  PROVE  UringTypes'
BY DEF UringTypes, GenRecords, Operations, UringConns, ConnsOf, uringVars

LEMMA OtherSame ==
  ASSUME OtherTypes, UNCHANGED <<client, other>>
  PROVE  OtherTypes'
BY DEF OtherTypes, Depth

LEMMA ServerStepTypes ==
  ASSUME TypeInv, ServerNext, UNCHANGED <<clientVars, threadsVars, uringVars, other>>
  PROVE  TypeInv'
<1>1. ServerInv'
  BY ServerStep DEF TypeInv
<1> QED
  BY <1>1, ClientSame, ThreadsSame, UringSame, OtherSame DEF TypeInv

----------------------------------------------------------------------------
(* The threads                                                              *)

LEMMA ThreadFields ==
  ASSUME ClientTypes, ThreadTypes, NEW t \in Threads
  PROVE  /\ thr[t] \in ThreadRecords /\ Placed(t, thr[t]) /\ Len(ConnsOf[t]) \in Nat
         /\ thr[t].i \in Nat \ {0} /\ thr[t].d \in 0 .. Depth - 1 /\ thr[t].x \in 0 .. Byte - 1
         /\ thr[t].unsent \in Bytes /\ thr[t].reply \in Bytes
         /\ thr[t].i <= Len(ConnsOf[t]) => MyConn(t) \in Conns
<1>1. thr[t] \in ThreadRecords /\ Placed(t, thr[t])
  BY DEF ThreadTypes
<1>2. /\ thr[t].i \in Nat \ {0} /\ thr[t].d \in 0 .. Depth - 1 /\ thr[t].x \in 0 .. Byte - 1
      /\ thr[t].unsent \in Bytes /\ thr[t].reply \in Bytes
  BY <1>1 DEF ThreadRecords
<1>3. ConnsOf[t] \in Seq(Conns)
  BY ClientFacts
<1> QED
  BY <1>1, <1>2, <1>3 DEF MyConn

LEMMA ThreadMoves ==
  ASSUME ThreadTypes, NEW t \in Threads, NEW r \in ThreadRecords, Placed(t, r),
         thr' = [thr EXCEPT ![t] = r], UNCHANGED <<main, client>>
  PROVE  ThreadTypes'
<1>1. Threads' = Threads /\ ThreadRecords' = ThreadRecords /\ ConnsOf' = ConnsOf
  BY DEF Threads, ConnsOf, ThreadRecords, Depth
<1>2. thr' \in [Threads -> ThreadRecords]
  BY DEF ThreadTypes
<1>3. \A u \in Threads : Placed(u, thr'[u])
  BY DEF ThreadTypes
<1>4. \A u \in Threads : Placed(u, thr[u])'
  BY <1>1, <1>3 DEF Placed
<1> QED
  BY <1>1, <1>2, <1>4 DEF ThreadTypes

LEMMA NextConnTyped ==
  ASSUME ClientTypes, NEW t \in Threads, NEW r \in ThreadRecords,
         r.i <= Len(ConnsOf[t])
  PROVE  NextConn(r) \in ThreadRecords /\ Placed(t, NextConn(r))
<1>1. 0 \in 0 .. Depth - 1
  BY ClientFacts
<1>2. r.i \in Nat \ {0} /\ Len(ConnsOf[t]) \in Nat
  BY ClientFacts DEF ThreadRecords
<1> DEFINE i == r.i + 1
<1>3. i \in Nat \ {0} /\ i <= Len(ConnsOf[t]) + 1
  BY <1>2
<1>4. NextConn(r) = [r EXCEPT !.pc = "conn", !.i = i, !.d = 0, !.unsent = <<>>, !.reply = <<>>]
  BY DEF NextConn
<1> HIDE DEF i
<1>5. NextConn(r) \in ThreadRecords
  BY <1>1, <1>3, <1>4, EmptyTyped DEF ThreadRecords
<1>6. NextConn(r).pc = "conn" /\ NextConn(r).i = i
  BY <1>4 DEF ThreadRecords
<1> QED
  BY <1>3, <1>5, <1>6 DEF Placed

LEMMA WrittenTyped ==
  ASSUME ClientTypes, NEW t \in Threads, NEW r \in ThreadRecords,
         r.i <= Len(ConnsOf[t])
  PROVE  Written(r) \in ThreadRecords /\ Placed(t, Written(r))
<1> DEFINE d == IF r.d + 1 < Depth THEN r.d + 1 ELSE 0
           x == (r.x + 1) % Byte
           pc == IF r.d + 1 < Depth THEN "conn" ELSE "read"
<1>1. r.d \in 0 .. Depth - 1 /\ r.x \in 0 .. Byte - 1 /\ r.i \in Nat \ {0}
  BY DEF ThreadRecords
<1>2. d \in 0 .. Depth - 1 /\ pc \in {"conn", "read"}
  <2>1. PICK e \in Nat : e = Depth /\ e > 0
    BY ClientFacts
  <2> QED
    BY <1>1, <2>1
<1>3. x \in 0 .. Byte - 1
  <2>1. r.x + 1 \in Nat /\ Byte \in Nat \ {0}
    BY <1>1, BinaryAssumption
  <2> QED
    BY <2>1, DivMod
<1>4. Written(r) = [r EXCEPT !.d = d, !.x = x, !.pc = pc, !.unsent = <<>>]
  BY DEF Written
<1> HIDE DEF d, x, pc
<1>5. Written(r) \in ThreadRecords /\ Written(r).i = r.i /\ Written(r).pc = pc
  BY <1>2, <1>3, <1>4, EmptyTyped DEF ThreadRecords
<1>6. Len(ConnsOf[t]) \in Nat
  BY ClientFacts
<1> QED
  BY <1>1, <1>2, <1>5, <1>6 DEF Placed

LEMMA KilledMoves ==
  ASSUME TypeInv, Killed, UNCHANGED clientVars
  PROVE  Moved /\ ThreadTypes'
<1>1. main' = "killed" /\ thr' = thr /\ Closing(Open) /\ UNCHANGED <<backlog, worker, cur, room>>
  BY DEF Killed
<1>2. Moved
  BY <1>1, ClosingMoves DEF Moved, WorkerUntouched, TypeInv, ServerInv
<1>3. client' = client
  BY DEF clientVars
<1>4. ThreadTypes'
  BY <1>1, <1>3 DEF TypeInv, ThreadTypes, ThreadRecords, Placed, Threads, ConnsOf, Depth
<1> QED
  BY <1>2, <1>4

LEMMA Stays ==
  ASSUME ConnInv, UNCHANGED serverVars
  PROVE  Moved
BY NoneMoves DEF Moved, WorkerUntouched, serverVars

LEMMA OneMoved ==
  ASSUME ConnInv, NEW c \in Conns, NEW r \in ConnTypes, Fits(r), Unnoticed(conn[c], r),
         conn' = [conn EXCEPT ![c] = r], UNCHANGED <<backlog, worker, cur, room>>
  PROVE  Moved
BY OneMoves DEF Moved, WorkerUntouched

LEMMA Invs ==
  ASSUME TypeInv
  PROVE  /\ ServerInv /\ ConnInv /\ ServerTypes /\ ClientTypes /\ ThreadTypes
         /\ UringTypes /\ OtherTypes /\ room \in Nat
         /\ \A c \in Conns : conn[c] \in ConnTypes /\ Fits(conn[c])
BY DEF TypeInv, ServerInv, ConnInv

LEMMA RequestTyped ==
  ASSUME ClientTypes, ThreadTypes, NEW t \in Threads
  PROVE  Frame(Request(t)) \in Bytes
<1>1. [x |-> thr[t].x, hp |-> Byte - 1] \in States
  BY ThreadFields, BinaryAssumption DEF States
<1>2. Request(t) \in Bytes /\ Len(Request(t)) \in 3 .. 4
  BY <1>1, PayloadTyped DEF Request, ClientTypes
<1>3. Len(Request(t)) \in 0 .. 15
  BY <1>2
<1> QED
  BY <1>2, <1>3, FrameTyped

LEMMA CreateStep ==
  ASSUME TypeInv, pthread_create
  PROVE  Moved /\ ThreadTypes' /\ ClientTypes'
<1>1. Moved /\ ClientTypes' /\ client' = client
  BY Invs, Stays, ClientSame DEF pthread_create
<1>2. PICK t : thr' = [thr EXCEPT ![t] = [NoThread EXCEPT !.pc = "connect"]]
  BY DEF pthread_create
<1> DEFINE r == [NoThread EXCEPT !.pc = "connect"]
<1>3. main' = main
  BY DEF pthread_create
<1>4. CASE t \in Threads
  <2>1. 0 \in 0 .. Depth - 1 /\ 0 \in 0 .. Byte - 1
    BY Invs, ClientFacts, BinaryAssumption
  <2>2. r \in ThreadRecords /\ r.i = 1 /\ r.pc = "connect"
    BY <2>1, EmptyTyped DEF NoThread, ThreadRecords
  <2>3. Len(ConnsOf[t]) \in Nat
    BY <1>4, Invs, ClientFacts
  <2> HIDE DEF r
  <2>4. Placed(t, r)
    BY <2>2, <2>3 DEF Placed
  <2> QED
    BY <1>1, <1>2, <1>3, <1>4, <2>2, <2>4, Invs, ThreadMoves DEF r
<1>5. CASE t \notin Threads
  <2>1. thr' = thr
    BY <1>2, <1>5, Invs DEF ThreadTypes
  <2> QED
    BY <1>1, <1>3, <2>1, Invs, ThreadsSame DEF threadsVars
<1> QED
  BY <1>4, <1>5

LEMMA MainSteps ==
  ASSUME TypeInv, pthread_create_fails \/ alarm \/ pthread_join
  PROVE  Moved /\ ThreadTypes' /\ ClientTypes'
<1>1. CASE pthread_create_fails
  BY <1>1, KilledMoves, ClientSame, Invs DEF pthread_create_fails
<1>2. CASE alarm \/ pthread_join
  <2>1. /\ main' \in {"join", "done"} /\ thr' = thr
        /\ UNCHANGED serverVars /\ UNCHANGED clientVars
    BY <1>2 DEF alarm, pthread_join
  <2>2. Moved /\ ClientTypes' /\ client' = client
    BY <2>1, Invs, Stays, ClientSame
  <2>3. ThreadTypes'
    BY <2>1, <2>2, Invs DEF ThreadTypes, ThreadRecords, Placed, Threads, ConnsOf, Depth
  <2> QED
    BY <2>2, <2>3
<1> QED
  BY <1>1, <1>2

LEMMA ConnectOneStep ==
  ASSUME TypeInv, NEW t \in Threads, connect_one(t)
  PROVE  Moved /\ ThreadTypes' /\ ClientTypes'
<1> DEFINE q == thr[t]
<1>1. /\ main' = main /\ ClientTypes' /\ client' = client /\ q.pc = "connect"
  BY Invs, ClientSame DEF connect_one, At
<1>2. /\ q \in ThreadRecords /\ Placed(t, q) /\ Len(ConnsOf[t]) \in Nat /\ q.i \in Nat \ {0}
      /\ q.i <= Len(ConnsOf[t]) => MyConn(t) \in Conns
  BY Invs, ThreadFields
<1>3. CASE /\ q.i > Len(ConnsOf[t])
           /\ thr' = [thr EXCEPT ![t].pc = "loop"] /\ UNCHANGED serverVars
  <2> DEFINE r == [q EXCEPT !.pc = "loop"]
  <2>1. thr' = [thr EXCEPT ![t] = r]
    BY <1>3
  <2> HIDE DEF q
  <2>2. r \in ThreadRecords /\ Placed(t, r)
    BY <1>2 DEF ThreadRecords, Placed
  <2> QED
    BY <1>1, <1>3, <2>1, <2>2, Invs, Stays, ThreadMoves
<1>4. CASE /\ q.i <= Len(ConnsOf[t])
           /\ thr' = [thr EXCEPT ![t].i = @ + 1]
           /\ \/ Connect(MyConn(t))
              \/ /\ conn' = [conn EXCEPT ![MyConn(t)].client = "failed"]
                 /\ UNCHANGED <<backlog, worker, cur, room>>
  <2> DEFINE i == q.i + 1
             r == [q EXCEPT !.i = i]
             c == MyConn(t)
             k == [conn[c] EXCEPT !.client = "failed"]
  <2>1. thr' = [thr EXCEPT ![t] = r]
    BY <1>4
  <2> HIDE DEF q
  <2>2. i \in Nat \ {0} /\ i <= Len(ConnsOf[t]) + 1
    BY <1>2, <1>4
  <2> HIDE DEF i
  <2>3. r \in ThreadRecords /\ Placed(t, r)
    BY <1>1, <1>2, <2>2 DEF ThreadRecords, Placed
  <2>4. ThreadTypes'
    BY <1>1, <2>1, <2>3, Invs, ThreadMoves
  <2>5. c \in Conns
    BY <1>2, <1>4
  <2>6. CASE Connect(c)
    BY <1>1, <2>4, <2>5, <2>6 DEF Moved
  <2>7. CASE conn' = [conn EXCEPT ![c].client = "failed"] /\ UNCHANGED <<backlog, worker, cur, room>>
    <3>1. conn[c] \in ConnTypes /\ Fits(conn[c])
      BY <2>5, Invs
    <3>2. k \in ConnTypes /\ Fits(k) /\ Unnoticed(conn[c], k)
      BY <3>1 DEF ConnTypes, Fits, Unnoticed
    <3>3. conn' = [conn EXCEPT ![c] = k]
      BY <2>7
    <3> HIDE DEF k, c
    <3>4. Moved
      BY <2>5, <2>7, <3>2, <3>3, Invs, OneMoved
    <3> QED
      BY <1>1, <2>4, <3>4
  <2> QED
    BY <1>4, <2>6, <2>7
<1> QED
  BY <1>3, <1>4 DEF connect_one

LEMMA LoopStep ==
  ASSUME TypeInv, NEW t \in Threads, loop(t)
  PROVE  Moved /\ ThreadTypes' /\ ClientTypes'
<1> DEFINE q == thr[t]
           pc == IF g_stop THEN "close" ELSE "conn"
           r == [q EXCEPT !.pc = pc, !.i = 1]
<1>1. /\ main' = main /\ ClientTypes' /\ client' = client /\ Moved
      /\ thr' = [thr EXCEPT ![t] = r]
  BY Invs, ClientSame, Stays DEF loop
<1>2. q \in ThreadRecords /\ Len(ConnsOf[t]) \in Nat
  BY Invs, ThreadFields
<1>3. pc \in {"close", "conn"}
  OBVIOUS
<1> HIDE DEF q, pc
<1>4. r \in ThreadRecords /\ r.i = 1 /\ r.pc = pc
  <2>1. pc \in {"none", "connect", "loop", "conn", "write", "read", "close", "done"}
    BY <1>2, <1>3 DEF ThreadRecords
  <2>2. 1 \in Nat \ {0}
    OBVIOUS
  <2>3. r \in ThreadRecords
    BY <1>2, <2>1, <2>2 DEF ThreadRecords
  <2>4. r.i = 1 /\ r.pc = pc
    BY <1>2 DEF ThreadRecords
  <2> QED
    BY <2>3, <2>4
<1> HIDE DEF r
<1>5. Placed(t, r)
  BY <1>2, <1>3, <1>4 DEF Placed
<1> QED
  BY <1>1, <1>4, <1>5, Invs, ThreadMoves

LEMMA SendStep ==
  ASSUME TypeInv, NEW t \in Threads, send(t)
  PROVE  Moved /\ ThreadTypes' /\ ClientTypes'
<1> DEFINE q == thr[t]
           c == MyConn(t)
<1>1. /\ main' = main /\ ClientTypes' /\ client' = client /\ q.pc = "conn"
      /\ UNCHANGED <<backlog, worker, cur, room>>
  BY Invs, ClientSame DEF send, At
<1>2. /\ q \in ThreadRecords /\ Placed(t, q) /\ Len(ConnsOf[t]) \in Nat /\ q.i \in Nat \ {0}
      /\ q.i <= Len(ConnsOf[t]) => c \in Conns
  BY Invs, ThreadFields
<1>3. CASE thr' = [thr EXCEPT ![t].pc = "loop"] /\ UNCHANGED conn
  <2> DEFINE r == [q EXCEPT !.pc = "loop"]
  <2>1. thr' = [thr EXCEPT ![t] = r]
    BY <1>3
  <2> HIDE DEF q
  <2>2. r \in ThreadRecords /\ Placed(t, r)
    BY <1>2 DEF ThreadRecords, Placed
  <2>3. Moved
    BY <1>1, <1>3, Invs, Stays DEF serverVars
  <2> QED
    BY <1>1, <2>1, <2>2, <2>3, Invs, ThreadMoves
<1>4. CASE /\ q.i <= Len(ConnsOf[t])
           /\ thr' = [thr EXCEPT ![t].i = @ + 1] /\ UNCHANGED conn
  <2> DEFINE i == q.i + 1
             r == [q EXCEPT !.i = i]
  <2>1. thr' = [thr EXCEPT ![t] = r]
    BY <1>4
  <2> HIDE DEF q
  <2>2. i \in Nat \ {0} /\ i <= Len(ConnsOf[t]) + 1
    BY <1>2, <1>4
  <2> HIDE DEF i
  <2>3. r \in ThreadRecords /\ Placed(t, r)
    BY <1>1, <1>2, <2>2 DEF ThreadRecords, Placed
  <2>4. Moved
    BY <1>1, <1>4, Invs, Stays DEF serverVars
  <2> QED
    BY <1>1, <2>1, <2>3, <2>4, Invs, ThreadMoves
<1>5. CASE /\ q.i <= Len(ConnsOf[t])
           /\ thr' = [thr EXCEPT ![t].pc = "write", ![t].unsent = Frame(Request(t))]
           /\ conn' = [conn EXCEPT ![c] = Owe(@, Request(t))]
  <2> DEFINE unsent == Frame(Request(t))
             r == [q EXCEPT !.pc = "write", !.unsent = unsent]
             k == Owe(conn[c], Request(t))
  <2>1. thr' = [thr EXCEPT ![t] = r]
    BY <1>5
  <2>2. unsent \in Bytes
    BY Invs, RequestTyped
  <2>3. c \in Conns
    BY <1>2, <1>5
  <2>4. k \in ConnTypes /\ Fits(k) /\ Unnoticed(conn[c], k)
    BY <2>3, Invs, OweTyped
  <2>5. conn' = [conn EXCEPT ![c] = k]
    BY <1>5
  <2> HIDE DEF k, c, unsent
  <2>6. Moved
    BY <1>1, <2>3, <2>4, <2>5, Invs, OneMoved
  <2> HIDE DEF q
  <2>7. r \in ThreadRecords /\ Placed(t, r)
    BY <1>2, <1>5, <2>2 DEF ThreadRecords, Placed
  <2> HIDE DEF r
  <2> QED
    BY <1>1, <2>1, <2>6, <2>7, Invs, ThreadMoves
<1> QED
  BY <1>3, <1>4, <1>5 DEF send

LEMMA WriteCallStep ==
  ASSUME TypeInv, NEW t \in Threads, write(t)
  PROVE  Moved /\ ThreadTypes' /\ ClientTypes'
<1> DEFINE q == thr[t]
           c == MyConn(t)
           k == conn[c]
<1>1. ClientTypes' /\ client' = client /\ UNCHANGED clientVars /\ q.pc = "write"
  BY Invs, ClientSame DEF write, At
<1>2. /\ q \in ThreadRecords /\ Placed(t, q) /\ Len(ConnsOf[t]) \in Nat /\ q.unsent \in Bytes
      /\ q.i <= Len(ConnsOf[t]) /\ c \in Conns
  BY <1>1, Invs, ThreadFields DEF Placed
<1>3. k \in ConnTypes /\ Fits(k) /\ room \in Nat
  BY <1>2, Invs
<1>4. Written(q) \in ThreadRecords /\ Placed(t, Written(q))
  BY <1>2, Invs, WrittenTyped
<1>5. NextConn(q) \in ThreadRecords /\ Placed(t, NextConn(q))
  BY <1>2, Invs, NextConnTyped
<1>6. ASSUME NEW n \in 1 .. Least(Free(k), Len(q.unsent)),
             conn' = [conn EXCEPT ![c] = Write(k, SubSeq(q.unsent, 1, n))],
             thr' = [thr EXCEPT ![t] = IF n = Len(q.unsent) THEN Written(q)
                                          ELSE [q EXCEPT !.unsent = Drop(@, n)]],
             UNCHANGED <<main, backlog, worker, cur, room>>
      PROVE  Moved /\ ThreadTypes'
  <2> DEFINE part == SubSeq(q.unsent, 1, n)
             rest == Drop(q.unsent, n)
             w == Write(k, part)
             r == [q EXCEPT !.unsent = rest]
  <2>1. n \in 0 .. Len(q.unsent) /\ n <= Free(k) /\ n \in Nat
    <3> DEFINE a == Free(k)
               b == Len(q.unsent)
    <3>1. a \in Int /\ b \in Nat
      BY <1>2, <1>3, ConnFields DEF Free, Bytes
    <3>2. n \in 1 .. Least(a, b)
      BY <1>6
    <3> HIDE DEF a, b
    <3>3. n \in 0 .. b /\ n <= a /\ n \in Nat
      BY <3>1, <3>2 DEF Least
    <3> QED
      BY <3>3 DEF a, b
  <2>2. part \in Bytes /\ Len(part) = n
    BY <1>2, <2>1, TakeTyped DEF Bytes
  <2>3. rest \in Bytes
    BY <1>2, <2>1, DropTyped DEF Bytes
  <2>4. conn' = [conn EXCEPT ![c] = w]
    BY <1>6
  <2> HIDE DEF part
  <2>5. w \in ConnTypes /\ Fits(w) /\ Unnoticed(k, w)
    BY <1>3, <2>1, <2>2, WriteTyped
  <2> HIDE DEF w
  <2>6. Moved
    BY <1>2, <1>6, <2>4, <2>5, Invs, OneMoved
  <2>7. thr' = [thr EXCEPT ![t] = IF n = Len(q.unsent) THEN Written(q) ELSE r]
    BY <1>6
  <2> HIDE DEF rest
  <2> HIDE DEF q
  <2>8. r \in ThreadRecords /\ r.pc = q.pc /\ r.i = q.i
    BY <1>2, <2>3 DEF ThreadRecords
  <2>9. Placed(t, r)
    BY <1>2, <2>8 DEF Placed
  <2> HIDE DEF r
  <2> QED
    BY <1>1, <1>4, <1>6, <2>6, <2>7, <2>8, <2>9, Invs, ThreadMoves
<1>7. ASSUME NEW r \in {Written(q), NextConn(q)}, thr' = [thr EXCEPT ![t] = r],
             UNCHANGED <<main, serverVars>>
      PROVE  Moved /\ ThreadTypes'
  BY <1>1, <1>4, <1>5, <1>7, Invs, Stays, ThreadMoves
<1>8. CASE Killed
  BY <1>1, <1>8, KilledMoves
<1> QED
  BY <1>1, <1>6, <1>7, <1>8 DEF write

LEMMA AnsweredTyped ==
  ASSUME ClientTypes, NEW t \in Threads, NEW r \in ThreadRecords, r.i <= Len(ConnsOf[t]),
         NEW s \in Bytes
  PROVE  Answered(r, s) \in ThreadRecords /\ Placed(t, Answered(r, s))
<1>1. NextConn(r) \in ThreadRecords /\ Placed(t, NextConn(r))
  BY NextConnTyped
<1>2. Len(ConnsOf[t]) \in Nat /\ r.i \in Nat \ {0}
  BY ClientFacts DEF ThreadRecords
<1> DEFINE p == [r EXCEPT !.reply = s]
           d == r.d + 1
           n == [r EXCEPT !.reply = <<>>, !.d = d]
<1>3. p \in ThreadRecords /\ Placed(t, p)
  <2>1. p \in ThreadRecords /\ p.i = r.i
    BY DEF ThreadRecords
  <2> HIDE DEF p
  <2> QED
    BY <1>2, <2>1 DEF Placed
<1>4. d < Depth => n \in ThreadRecords /\ Placed(t, n)
  <2> SUFFICES ASSUME d < Depth PROVE n \in ThreadRecords /\ Placed(t, n)
    OBVIOUS
  <2>1. d \in 0 .. Depth - 1
    <3>1. PICK e \in Nat : e = Depth
      BY ClientFacts
    <3>2. r.d \in 0 .. e - 1
      BY <3>1 DEF ThreadRecords
    <3> QED
      BY <3>1, <3>2
  <2> HIDE DEF d
  <2>2. n \in ThreadRecords /\ n.i = r.i
    BY <2>1, EmptyTyped DEF ThreadRecords
  <2> HIDE DEF n
  <2> QED
    BY <1>2, <2>2 DEF Placed
<1>5. \/ Answered(r, s) = NextConn(r)
      \/ Answered(r, s) = p
      \/ d < Depth /\ Answered(r, s) = n
  BY DEF Answered
<1> HIDE DEF p, n, d
<1> QED
  BY <1>1, <1>3, <1>4, <1>5

LEMMA ReadReplyStep ==
  ASSUME TypeInv, NEW t \in Threads, read_reply(t)
  PROVE  Moved /\ ThreadTypes' /\ ClientTypes'
<1> DEFINE q == thr[t]
           c == MyConn(t)
           k == conn[c]
           n == Least(Needed(q.reply), Len(k.down))
           s == q.reply \o SubSeq(k.down, 1, n)
<1>1. /\ main' = main /\ ClientTypes' /\ client' = client /\ q.pc = "read"
      /\ UNCHANGED <<backlog, worker, cur, room>>
  BY Invs, ClientSame DEF read_reply, At
<1>2. /\ q \in ThreadRecords /\ Placed(t, q) /\ Len(ConnsOf[t]) \in Nat /\ q.reply \in Bytes
      /\ q.i <= Len(ConnsOf[t]) /\ c \in Conns
  BY <1>1, Invs, ThreadFields DEF Placed
<1>3. k \in ConnTypes /\ Fits(k) /\ room \in Nat /\ k.down \in Bytes
  BY <1>2, Invs, ConnFields
<1>4. CASE /\ n > 0 /\ conn' = [conn EXCEPT ![c] = Read(k, n)]
           /\ thr' = [thr EXCEPT ![t] = Answered(q, s)]
  <2> DEFINE a == Needed(q.reply)
             b == Len(k.down)
             r == Read(k, n)
  <2>1. n \in 0 .. Len(k.down) /\ n \in Nat
    <3>1. a \in Int
      <4>1. CASE Len(q.reply) < 2
        BY <1>2, <4>1 DEF Needed, Bytes
      <4>2. CASE ~(Len(q.reply) < 2)
        <5>1. Len(q.reply) \in Nat /\ Len(q.reply) >= 2
          BY <1>2, <4>2 DEF Bytes
        <5>2. Length(q.reply) \in Nat
          BY <1>2, <5>1, LengthTyped
        <5> QED
          BY <4>2, <5>1, <5>2 DEF Needed
      <4> QED
        BY <4>1, <4>2
    <3>2. b \in Nat
      BY <1>3 DEF Bytes
    <3> HIDE DEF a, b
    <3>3. n = Least(a, b) /\ n > 0
      BY <1>4 DEF a, b
    <3> HIDE DEF n
    <3>4. n \in 0 .. b /\ n \in Nat
      BY <3>1, <3>2, <3>3 DEF Least
    <3> QED
      BY <3>4 DEF b
  <2>2. s \in Bytes
    <3>1. SubSeq(k.down, 1, n) \in Bytes
      BY <1>3, <2>1, TakeTyped DEF Bytes
    <3> QED
      BY <1>2, <3>1, JoinTyped DEF Bytes
  <2>3. r \in ConnTypes /\ Fits(r) /\ Unnoticed(k, r)
    BY <1>3, <2>1, ReadTyped
  <2>4. conn' = [conn EXCEPT ![c] = r]
    BY <1>4
  <2>5. thr' = [thr EXCEPT ![t] = Answered(q, s)]
    BY <1>4
  <2> HIDE DEF r, s
  <2>6. Moved
    BY <1>1, <1>2, <2>3, <2>4, Invs, OneMoved
  <2>7. Answered(q, s) \in ThreadRecords /\ Placed(t, Answered(q, s))
    BY <1>2, <2>2, Invs, AnsweredTyped
  <2> QED
    BY <1>1, <2>5, <2>6, <2>7, Invs, ThreadMoves
<1>5. CASE thr' = [thr EXCEPT ![t] = NextConn(q)] /\ UNCHANGED conn
  <2>1. NextConn(q) \in ThreadRecords /\ Placed(t, NextConn(q))
    BY <1>2, Invs, NextConnTyped
  <2>2. Moved
    BY <1>1, <1>5, Invs, Stays DEF serverVars
  <2> QED
    BY <1>1, <1>5, <2>1, <2>2, Invs, ThreadMoves
<1> QED
  BY <1>4, <1>5 DEF read_reply

LEMMA CloseAllStep ==
  ASSUME TypeInv, NEW t \in Threads, close_all(t)
  PROVE  Moved /\ ThreadTypes' /\ ClientTypes'
<1> DEFINE q == thr[t]
           r == [q EXCEPT !.pc = "done"]
<1>1. /\ main' = main /\ ClientTypes' /\ client' = client
      /\ UNCHANGED <<backlog, worker, cur, room>> /\ Closing(Open \cap Range(ConnsOf[t]))
      /\ thr' = [thr EXCEPT ![t] = r]
  BY Invs, ClientSame DEF close_all
<1>2. q \in ThreadRecords /\ Placed(t, q)
  BY Invs, ThreadFields
<1> HIDE DEF q
<1>3. r \in ThreadRecords /\ Placed(t, r)
  BY <1>2 DEF ThreadRecords, Placed
<1> HIDE DEF r
<1>4. Moved
  BY <1>1, Invs, ClosingMoves DEF Moved, WorkerUntouched
<1> QED
  BY <1>1, <1>3, <1>4, Invs, ThreadMoves

LEMMA SigalrmThreadsStep ==
  ASSUME TypeInv, on_sigalrm_threads
  PROVE  Moved /\ ThreadTypes' /\ ClientTypes' /\ client' = client
<1>1. /\ main' = main /\ g_stop' = TRUE /\ client' = client /\ proto' = proto
      /\ UNCHANGED serverVars
  BY DEF on_sigalrm_threads
<1>2. PICK cut \in {{}} \cup {{t} : t \in {u \in Threads :
                     thr[u].pc = "write" /\ thr[u].unsent # Frame(Request(u))}} :
        thr' = [t \in Threads |-> IF t \in cut THEN NextConn(thr[t]) ELSE thr[t]]
  BY DEF on_sigalrm_threads
<1>3. Moved
  BY <1>1, Invs, Stays
<1>4. ClientTypes'
  BY <1>1, Invs DEF ClientTypes
<1>5. ASSUME NEW t \in Threads
      PROVE  thr'[t] \in ThreadRecords /\ Placed(t, thr'[t])
  <2>1. thr[t] \in ThreadRecords /\ Placed(t, thr[t])
    BY Invs, ThreadFields
  <2>2. CASE t \in cut
    <3>1. thr[t].pc = "write"
      BY <1>2, <2>2
    <3>2. NextConn(thr[t]) \in ThreadRecords /\ Placed(t, NextConn(thr[t]))
      BY <2>1, <3>1, Invs, NextConnTyped DEF Placed
    <3> QED
      BY <1>2, <2>2, <3>2
  <2>3. CASE t \notin cut
    BY <1>2, <2>1, <2>3
  <2> QED
    BY <2>2, <2>3
<1>6. /\ Threads' = Threads /\ ThreadRecords' = ThreadRecords /\ ConnsOf' = ConnsOf
  BY <1>1 DEF Threads, ConnsOf, ThreadRecords, Depth
<1>7. \A t \in Threads : Placed(t, thr[t])'
  BY <1>5, <1>6 DEF Placed
<1>8. thr' \in [Threads -> ThreadRecords]
  BY <1>2, <1>5
<1>9. ThreadTypes'
  BY <1>1, <1>6, <1>7, <1>8, Invs DEF ThreadTypes
<1> QED
  BY <1>1, <1>3, <1>4, <1>9

LEMMA ThreadsStepTypes ==
  ASSUME TypeInv, ThreadsNext, UNCHANGED <<uringVars, other>>
  PROVE  TypeInv' /\ Moved
<1>1. client' = client
  BY DEF ThreadsNext, MainStep, ThreadStep, pthread_create, pthread_create_fails, alarm,
         pthread_join, on_sigalrm_threads, connect_one, loop, send, write, read_reply,
         close_all, clientVars
<1>2. Moved /\ ThreadTypes' /\ ClientTypes'
  <2>1. ASSUME NEW t \in Threads, ThreadStep(t)
        PROVE  Moved /\ ThreadTypes' /\ ClientTypes'
    BY <2>1, ConnectOneStep, LoopStep, SendStep, WriteCallStep, ReadReplyStep, CloseAllStep
       DEF ThreadStep
  <2> QED
    BY <2>1, CreateStep, MainSteps, SigalrmThreadsStep DEF ThreadsNext, MainStep
<1> QED
  BY <1>1, <1>2, Invs, MovedKeeps, UringSame, OtherSame DEF TypeInv

----------------------------------------------------------------------------
(* The ring                                                                 *)

LEMMA UringFields ==
  ASSUME ClientTypes, UringTypes
  PROVE  /\ gen \in GenRecords /\ gen.i \in DOMAIN UringConns /\ gen.i \in Nat /\ gen.left \in Nat
         /\ gen.pc \in {"connect", "seed", "loop", "wait", "reap", "drain", "refill", "stopped"}
         /\ It \in Conns /\ It \in Range(UringConns)
         /\ \A c \in Conns :
              /\ uconn[c] \in [in_flight : Int, rbuf : Bytes, failed : BOOLEAN, deaf : BOOLEAN]
              /\ uconn[c].in_flight \in Int /\ uconn[c].rbuf \in Bytes
              /\ Len(uconn[c].rbuf) \in Nat
              /\ TailOff(uconn[c]) \in 0 .. RecvSize - 1
<1>1. gen \in GenRecords
  BY DEF UringTypes
<1>2. /\ gen.i \in DOMAIN UringConns /\ gen.left \in Nat
      /\ gen.pc \in {"connect", "seed", "loop", "wait", "reap", "drain", "refill", "stopped"}
  BY <1>1 DEF GenRecords
<1>3. gen.i \in Nat /\ It \in Conns /\ It \in Range(UringConns)
  BY <1>2, ClientFacts DEF It, Range
<1>4. ASSUME NEW c \in Conns
      PROVE  /\ uconn[c] \in [in_flight : Int, rbuf : Bytes, failed : BOOLEAN, deaf : BOOLEAN]
             /\ uconn[c].in_flight \in Int /\ uconn[c].rbuf \in Bytes
             /\ Len(uconn[c].rbuf) \in Nat
             /\ TailOff(uconn[c]) \in 0 .. RecvSize - 1
  <2>1. uconn[c] \in [in_flight : Int, rbuf : Bytes, failed : BOOLEAN, deaf : BOOLEAN]
    BY DEF UringTypes
  <2>2. uconn[c].in_flight \in Int /\ uconn[c].rbuf \in Bytes
    BY <2>1
  <2>3. Len(uconn[c].rbuf) \in Nat
    BY <2>2 DEF Bytes
  <2> DEFINE n == Len(uconn[c].rbuf)
  <2>4. TailOff(uconn[c]) = IF n >= RecvSize THEN 0 ELSE n
    BY DEF TailOff
  <2>5. n \in Nat
    BY <2>3
  <2> HIDE DEF n
  <2>6. TailOff(uconn[c]) \in 0 .. RecvSize - 1
    BY <2>4, <2>5, UringAssumption
  <2> QED
    BY <2>1, <2>2, <2>3, <2>6
<1> QED
  BY <1>1, <1>2, <1>3, <1>4

LEMMA GenMoves ==
  ASSUME UringTypes, ClientTypes,
         NEW pc \in {"connect", "seed", "loop", "wait", "reap", "drain", "refill", "stopped"},
         NEW i \in DOMAIN UringConns, NEW left \in Nat
  PROVE  /\ [gen EXCEPT !.pc = pc] \in GenRecords
         /\ [gen EXCEPT !.i = i] \in GenRecords
         /\ [gen EXCEPT !.left = left] \in GenRecords
         /\ [gen EXCEPT !.i = i, !.left = left] \in GenRecords
         /\ [pc |-> pc, i |-> i, left |-> left] \in GenRecords
BY DEF UringTypes, GenRecords

LEMMA SendTyped ==
  ASSUME NEW c \in Range(UringConns), NEW slot \in 1 .. PoolSize
  PROVE  Send(c, slot) \in Operations
BY DEF Send, Operations

LEMMA RecvTyped ==
  ASSUME NEW c \in Range(UringConns), NEW off \in 0 .. RecvSize - 1
  PROVE  Recv(c, off) \in Operations
BY DEF Recv, Operations

LEMMA PrepareTyped ==
  ASSUME UringTypes, NEW op \in Operations, Prepare(op)
  PROVE  sq' \in Seq(Operations) /\ Len(sq') <= SqSize /\ ring' \in Seq(Operations)
<1>1. sq \in Seq(Operations) /\ Len(sq) <= SqSize /\ ring \in Seq(Operations)
  BY DEF UringTypes
<1>2. CASE Len(sq) < SqSize /\ sq' = Append(sq, op) /\ UNCHANGED ring
  BY <1>1, <1>2, UringAssumption
<1>3. CASE sq' = <<op>> /\ ring' = ring \o sq
  BY <1>1, <1>3, UringAssumption
<1> QED
  BY <1>2, <1>3 DEF Prepare

LEMMA ReceiveTyped ==
  ASSUME ClientTypes, UringTypes, NEW c \in Range(UringConns), c \in Conns, Receive(c)
  PROVE  /\ sq' \in Seq(Operations) /\ Len(sq') <= SqSize /\ ring' \in Seq(Operations)
         /\ uconn' \in [Conns -> [in_flight : Int, rbuf : Bytes, failed : BOOLEAN, deaf : BOOLEAN]]
<1>1. /\ sq \in Seq(Operations) /\ Len(sq) <= SqSize /\ ring \in Seq(Operations)
      /\ uconn \in [Conns -> [in_flight : Int, rbuf : Bytes, failed : BOOLEAN, deaf : BOOLEAN]]
  BY DEF UringTypes
<1>2. CASE Prepare(Recv(c, TailOff(uconn[c]))) /\ UNCHANGED uconn
  <2>1. Recv(c, TailOff(uconn[c])) \in Operations
    BY UringFields, RecvTyped
  <2> QED
    BY <1>1, <1>2, <2>1, PrepareTyped
<1>3. CASE uconn' = [uconn EXCEPT ![c].deaf = TRUE] /\ UNCHANGED <<sq, ring>>
  <2> DEFINE r == [uconn[c] EXCEPT !.deaf = TRUE]
  <2>1. r \in [in_flight : Int, rbuf : Bytes, failed : BOOLEAN, deaf : BOOLEAN]
    BY <1>1
  <2>2. uconn' = [uconn EXCEPT ![c] = r]
    BY <1>3
  <2> HIDE DEF r
  <2> QED
    BY <1>1, <1>3, <2>1, <2>2
<1> QED
  BY <1>2, <1>3 DEF Receive

LEMMA AppendTyped ==
  ASSUME NEW S, NEW s \in Seq(S), NEW e \in S
  PROVE  Append(s, e) \in Seq(S)
OBVIOUS

LEMMA HeadTyped ==
  ASSUME NEW S, NEW s \in Seq(S), s # <<>>
  PROVE  Head(s) \in S /\ Tail(s) \in Seq(S)
OBVIOUS

LEMMA LastFront ==
  ASSUME NEW S, NEW s \in Seq(S), s # <<>>
  PROVE  /\ Last(s) \in S /\ Last(s) = s[Len(s)] /\ Front(s) \in Seq(S)
         /\ Len(s) \in Nat \ {0} /\ Len(Front(s)) = Len(s) - 1
         /\ \A i \in 1 .. Len(s) - 1 : Front(s)[i] = s[i]
<1>1. Len(s) \in Nat \ {0} /\ Last(s) = s[Len(s)] /\ Front(s) = SubSeq(s, 1, Len(s) - 1)
  BY DEF Last, Front
<1>2. Last(s) \in S
  BY <1>1
<1> DEFINE n == Len(s) - 1
<1>3. n \in Nat /\ n <= Len(s) /\ n \in 0 .. Len(s) /\ n \in Int
  BY <1>1
<1> HIDE DEF n
<1>4. SubSeq(s, 1, n) \in Seq(S) /\ Len(SubSeq(s, 1, n)) = n
  BY <1>3, TakeTyped
<1>5. \A i \in 1 .. n : SubSeq(s, 1, n)[i] = s[i]
  BY <1>3
<1> QED
  BY <1>1, <1>2, <1>4, <1>5 DEF n

LEMMA UringMoves ==
  ASSUME UringTypes, client' = client, gen' \in GenRecords,
         sq' \in Seq(Operations), Len(sq') <= SqSize, ring' \in Seq(Operations),
         cq' \in Seq([op : Operations, res : Bytes]), free' \in Seq(1 .. PoolSize),
         uconn' \in [Conns -> [in_flight : Int, rbuf : Bytes, failed : BOOLEAN, deaf : BOOLEAN]]
  PROVE  UringTypes'
<1>1. Operations' = Operations /\ GenRecords' = GenRecords
  BY DEF Operations, GenRecords, UringConns, ConnsOf
<1> QED
  BY <1>1 DEF UringTypes

LEMMA UringConnectStep ==
  ASSUME TypeInv, uring_connect
  PROVE  Moved /\ UringTypes' /\ ClientTypes' /\ client' = client
<1>1. /\ UNCHANGED <<sq, ring, cq, free, uconn>> /\ ClientTypes' /\ client' = client
  BY Invs, ClientSame DEF uring_connect
<1>2. gen' \in GenRecords => UringTypes'
  BY <1>1, Invs, UringMoves DEF UringTypes
<1>3. CASE /\ Connect(It)
           /\ gen' = IF gen.i < Len(UringConns) THEN [gen EXCEPT !.i = @ + 1]
                     ELSE [pc |-> "seed", i |-> 1, left |-> Depth]
  <2>1. Moved
    BY <1>3, Invs, UringFields DEF Moved
  <2>2. gen.i < Len(UringConns) => gen.i + 1 \in DOMAIN UringConns
    BY Invs, UringFields, ClientFacts
  <2>3. Depth \in Nat /\ 1 \in DOMAIN UringConns
    BY Invs, ClientFacts
  <2>4. gen' \in GenRecords
    <3>1. CASE gen.i < Len(UringConns)
      <4>1. [gen EXCEPT !.i = gen.i + 1] \in GenRecords
        BY <2>2, <3>1, Invs, GenMoves, UringFields
      <4> QED
        BY <1>3, <3>1, <4>1
    <3>2. CASE ~(gen.i < Len(UringConns))
      <4>1. [pc |-> "seed", i |-> 1, left |-> Depth] \in GenRecords
        BY <2>3, Invs, GenMoves
      <4> QED
        BY <1>3, <3>2, <4>1
    <3> QED
      BY <3>1, <3>2
  <2> QED
    BY <1>1, <1>2, <2>1, <2>4
<1>4. CASE Go("stopped") /\ Closing(Open) /\ UNCHANGED <<backlog, worker, cur, room>>
  <2>1. Moved
    BY <1>4, Invs, ClosingMoves DEF Moved, WorkerUntouched
  <2>2. gen' \in GenRecords
    BY <1>4, Invs, GenMoves, UringFields DEF Go
  <2> QED
    BY <1>1, <1>2, <2>1, <2>2
<1> QED
  BY <1>3, <1>4 DEF uring_connect

LEMMA SubmitSendStep ==
  ASSUME TypeInv, submit_send
  PROVE  Moved /\ UringTypes' /\ ClientTypes' /\ client' = client
<1> DEFINE c == It
           n == uconn[c].in_flight + 1
           r == [uconn[c] EXCEPT !.in_flight = n]
           q == [uconn[c] EXCEPT !.in_flight = n, !.failed = TRUE]
           left == gen.left - 1
<1>1. /\ UNCHANGED cq /\ ClientTypes' /\ client' = client /\ Moved
      /\ gen.left > 0 /\ gen' = [gen EXCEPT !.left = left]
  BY Invs, ClientSame, Stays DEF submit_send
<1>2. gen' \in GenRecords
  <2>1. left \in Nat
    BY <1>1, Invs, UringFields
  <2> HIDE DEF left
  <2> QED
    BY <1>1, <2>1, Invs, GenMoves, UringFields
<1>3. /\ c \in Conns /\ c \in Range(UringConns) /\ n \in Int
      /\ uconn[c] \in [in_flight : Int, rbuf : Bytes, failed : BOOLEAN, deaf : BOOLEAN]
  BY Invs, UringFields
<1>4. /\ r \in [in_flight : Int, rbuf : Bytes, failed : BOOLEAN, deaf : BOOLEAN]
      /\ q \in [in_flight : Int, rbuf : Bytes, failed : BOOLEAN, deaf : BOOLEAN]
  <2> HIDE DEF n
  <2> QED
    BY <1>3
<1>5. CASE /\ alloc_send_slot /\ Prepare(Send(It, Last(free)))
           /\ uconn' = [uconn EXCEPT ![It].in_flight = @ + 1]
  <2>1. free # <<>> /\ free' = Front(free) /\ free \in Seq(1 .. PoolSize)
    BY <1>5, Invs DEF alloc_send_slot, UringTypes
  <2>2. Last(free) \in 1 .. PoolSize
    BY <2>1, LastFront
  <2>3. free' \in Seq(1 .. PoolSize)
    BY <2>1, LastFront
  <2>4. Send(It, Last(free)) \in Operations
    BY <1>3, <2>2, SendTyped
  <2>5. sq' \in Seq(Operations) /\ Len(sq') <= SqSize /\ ring' \in Seq(Operations)
    BY <1>5, <2>4, Invs, PrepareTyped
  <2>6. uconn' = [uconn EXCEPT ![c] = r]
    BY <1>5
  <2> HIDE DEF r, c
  <2>7. uconn' \in [Conns -> [in_flight : Int, rbuf : Bytes, failed : BOOLEAN, deaf : BOOLEAN]]
    BY <1>3, <1>4, <2>6, Invs DEF UringTypes
  <2>8. UringTypes /\ cq' \in Seq([op : Operations, res : Bytes])
    BY <1>1, Invs DEF UringTypes
  <2> QED
    BY <1>1, <1>2, <2>3, <2>5, <2>7, <2>8, UringMoves
<1>6. CASE /\ UNCHANGED <<free, sq, ring>>
           /\ uconn' = [uconn EXCEPT ![It].in_flight = @ + 1, ![It].failed = TRUE]
  <2>1. uconn' = [uconn EXCEPT ![c] = q]
    BY <1>3, <1>6, Invs DEF UringTypes
  <2> HIDE DEF q, c
  <2>2. uconn' \in [Conns -> [in_flight : Int, rbuf : Bytes, failed : BOOLEAN, deaf : BOOLEAN]]
    BY <1>3, <1>4, <2>1, Invs DEF UringTypes
  <2> QED
    BY <1>1, <1>2, <1>6, <2>2, Invs, UringMoves DEF UringTypes
<1> QED
  BY <1>5, <1>6 DEF submit_send

LEMMA SubmitRecvStep ==
  ASSUME TypeInv, submit_recv
  PROVE  Moved /\ UringTypes' /\ ClientTypes' /\ client' = client
<1>1. /\ UNCHANGED <<cq, free>> /\ ClientTypes' /\ client' = client /\ Moved /\ Receive(It)
  BY Invs, ClientSame, Stays DEF submit_recv
<1>2. /\ It \in Conns /\ It \in Range(UringConns) /\ gen \in GenRecords
      /\ gen.i \in DOMAIN UringConns /\ gen.i \in Nat
  BY Invs, UringFields
<1>3. /\ sq' \in Seq(Operations) /\ Len(sq') <= SqSize /\ ring' \in Seq(Operations)
      /\ uconn' \in [Conns -> [in_flight : Int, rbuf : Bytes, failed : BOOLEAN, deaf : BOOLEAN]]
  BY <1>1, <1>2, Invs, ReceiveTyped
<1>4. gen' \in GenRecords
  <2>1. Depth \in Nat
    BY Invs, ClientFacts
  <2>2. gen.i < Len(UringConns) => gen.i + 1 \in DOMAIN UringConns
    BY <1>2, Invs, ClientFacts
  <2>3. /\ [gen EXCEPT !.pc = "reap"] \in GenRecords /\ [gen EXCEPT !.pc = "loop"] \in GenRecords
    BY <1>2, <2>1, Invs, GenMoves
  <2>4. gen.i < Len(UringConns) => [gen EXCEPT !.i = gen.i + 1, !.left = Depth] \in GenRecords
    BY <2>1, <2>2, Invs, GenMoves
  <2>5. \/ gen' = [gen EXCEPT !.pc = "reap"]
        \/ gen.i < Len(UringConns) /\ gen' = [gen EXCEPT !.i = gen.i + 1, !.left = Depth]
        \/ gen' = [gen EXCEPT !.pc = "loop"]
    BY DEF submit_recv
  <2> QED
    BY <2>3, <2>4, <2>5
<1> QED
  BY <1>1, <1>3, <1>4, Invs, UringMoves DEF UringTypes

LEMMA LoopSteps ==
  ASSUME TypeInv, submit_and_wait \/ woken \/ cq_advance \/ refill
  PROVE  Moved /\ UringTypes' /\ ClientTypes' /\ client' = client
<1>1. /\ UNCHANGED <<cq, free, uconn>> /\ ClientTypes' /\ client' = client /\ Moved
  BY Invs, ClientSame, Stays DEF submit_and_wait, woken, cq_advance, refill
<1>2. gen' \in GenRecords
  BY Invs, GenMoves, UringFields DEF submit_and_wait, woken, cq_advance, refill, Go
<1>3. \/ sq' = sq /\ ring' = ring
      \/ sq' = <<>> /\ ring' = ring \o sq
  BY DEF submit_and_wait, woken, cq_advance, refill
<1>4. /\ sq \in Seq(Operations) /\ ring \in Seq(Operations) /\ Len(sq) <= SqSize
      /\ cq' \in Seq([op : Operations, res : Bytes]) /\ free' \in Seq(1 .. PoolSize)
      /\ uconn' \in [Conns -> [in_flight : Int, rbuf : Bytes, failed : BOOLEAN, deaf : BOOLEAN]]
  BY <1>1, Invs DEF UringTypes
<1>5. sq' \in Seq(Operations) /\ ring' \in Seq(Operations) /\ Len(sq') <= SqSize
  <2>1. ring \o sq \in Seq(Operations) /\ <<>> \in Seq(Operations) /\ Len(<<>>) <= SqSize
    BY <1>4, UringAssumption
  <2> QED
    BY <1>3, <1>4, <2>1
<1> QED
  BY <1>1, <1>2, <1>4, <1>5, Invs, UringMoves

(* What an operation that the kernel ends leaves.                           *)
LEMMA IssueTyped ==
  ASSUME ClientTypes, UringTypes, NEW op, NEW res \in Bytes, Issue(op, res)
  PROVE  /\ ring' \in Seq(Operations) /\ cq' \in Seq([op : Operations, res : Bytes])
         /\ Head(ring) \in Operations /\ Head(ring).conn \in Range(UringConns)
         /\ Head(ring).conn \in Conns
         /\ op = "recv" => Head(ring).off \in 0 .. RecvSize - 1
<1>1. /\ ring # <<>> /\ Head(ring).op = op /\ ring' = Tail(ring)
      /\ cq' = Append(cq, [op |-> Head(ring), res |-> res])
  BY DEF Issue
<1>2. ring \in Seq(Operations) /\ cq \in Seq([op : Operations, res : Bytes])
  BY DEF UringTypes
<1>3. Head(ring) \in Operations /\ Tail(ring) \in Seq(Operations)
  BY <1>1, <1>2, HeadTyped
<1>4. [op |-> Head(ring), res |-> res] \in [op : Operations, res : Bytes]
  BY <1>3
<1>5. cq' \in Seq([op : Operations, res : Bytes])
  BY <1>1, <1>2, <1>4
<1>6. Head(ring).conn \in Range(UringConns)
  BY <1>3 DEF Operations
<1>7. op = "recv" => Head(ring).off \in 0 .. RecvSize - 1
  BY <1>1, <1>3 DEF Operations
<1> QED
  BY <1>1, <1>3, <1>5, <1>6, <1>7, ClientFacts

LEMMA PacketTyped ==
  ASSUME ClientTypes
  PROVE  Packet \in Bytes /\ Len(Packet) \in Nat \ {0}
<1>1. [x |-> 1, hp |-> Byte - 1] \in States
  BY BinaryAssumption DEF States
<1>2. Template \in Bytes /\ Len(Template) \in 3 .. 4
  BY <1>1, PayloadTyped DEF Template, ClientTypes
<1>3. Len(Template) \in 0 .. 15
  BY <1>2
<1>4. Packet \in Bytes /\ Len(Packet) = 2 + Len(Template)
  BY <1>2, <1>3, FrameTyped DEF Packet
<1> QED
  BY <1>2, <1>4

LEMMA KernelSendStep ==
  ASSUME TypeInv, kernel_send
  PROVE  Moved /\ UringTypes' /\ ClientTypes' /\ client' = client
<1> DEFINE c == Head(ring).conn
           a == Free(conn[c])
           b == Len(Packet)
           n == Least(a, b)
           m == Write(Owe(conn[c], Template), SubSeq(Packet, 1, n))
<1>1. /\ UNCHANGED <<gen, sq, free, backlog, worker, cur, room>>
      /\ ClientTypes' /\ client' = client
  BY Invs, ClientSame DEF kernel_send
<1>2. ring' \in Seq(Operations) /\ cq' \in Seq([op : Operations, res : Bytes]) /\ c \in Conns
  BY Invs, IssueTyped, EmptyTyped DEF kernel_send
<1>3. conn[c] \in ConnTypes /\ Fits(conn[c]) /\ room \in Nat
  BY <1>2, Invs
<1>4. CASE /\ n > 0
           /\ conn' = [conn EXCEPT ![c] = [m EXCEPT !.whole = m.whole /\ n = b]]
           /\ UNCHANGED uconn
  <2> DEFINE s == SubSeq(Packet, 1, n)
             k == Owe(conn[c], Template)
             w == Write(k, s)
             whole == w.whole /\ n = b
             r == [w EXCEPT !.whole = whole]
  <2>1. n \in 0 .. b /\ n <= a
    <3>1. a \in Int /\ b \in Nat
      BY <1>3, PacketTyped, Invs, ConnFields DEF Free, Bytes
    <3> HIDE DEF a, b
    <3> QED
      BY <1>4, <3>1 DEF Least
  <2>2. s \in Bytes /\ Len(s) = n
    BY <2>1, Invs, PacketTyped, TakeTyped DEF Bytes
  <2>3. k \in ConnTypes /\ Fits(k) /\ Unnoticed(conn[c], k) /\ k.up = conn[c].up
    BY <1>3, OweTyped
  <2>4. Len(s) <= Free(k)
    BY <2>1, <2>2, <2>3 DEF Free
  <2>6. conn' = [conn EXCEPT ![c] = r]
    BY <1>4
  <2> HIDE DEF s
  <2> HIDE DEF k
  <2>5. w \in ConnTypes /\ Fits(w) /\ Unnoticed(k, w)
    BY <1>3, <2>2, <2>3, <2>4, WriteTyped
  <2> HIDE DEF w
  <2>7. whole \in BOOLEAN
    OBVIOUS
  <2> HIDE DEF whole
  <2>8. r \in ConnTypes /\ Fits(r) /\ Unnoticed(w, r)
    BY <2>5, <2>7 DEF ConnTypes, Fits, Unnoticed
  <2>9. Unnoticed(conn[c], r)
    BY <2>3, <2>5, <2>8 DEF Unnoticed
  <2> HIDE DEF r, c
  <2>10. Moved
    BY <1>1, <1>2, <2>6, <2>8, <2>9, Invs, OneMoved
  <2>11. UringTypes'
    BY <1>1, <1>2, <1>4, Invs, UringMoves DEF UringTypes
  <2> QED
    BY <1>1, <2>10, <2>11
<1>5. CASE uconn' = [uconn EXCEPT ![c].failed = TRUE] /\ UNCHANGED conn
  <2> DEFINE r == [uconn[c] EXCEPT !.failed = TRUE]
  <2>1. Moved
    BY <1>1, <1>5, Invs, Stays DEF serverVars
  <2>2. uconn' = [uconn EXCEPT ![c] = r]
    BY <1>5
  <2> HIDE DEF c
  <2>3. r \in [in_flight : Int, rbuf : Bytes, failed : BOOLEAN, deaf : BOOLEAN]
    BY <1>2, Invs, UringFields
  <2> HIDE DEF r
  <2>4. uconn' \in [Conns -> [in_flight : Int, rbuf : Bytes, failed : BOOLEAN, deaf : BOOLEAN]]
    BY <1>2, <2>2, <2>3, Invs DEF UringTypes
  <2>5. UringTypes'
    BY <1>1, <1>2, <2>4, Invs, UringMoves DEF UringTypes
  <2> QED
    BY <1>1, <2>1, <2>5
<1> QED
  BY <1>4, <1>5 DEF kernel_send

LEMMA KernelRecvStep ==
  ASSUME TypeInv, kernel_recv
  PROVE  Moved /\ UringTypes' /\ ClientTypes' /\ client' = client
<1> DEFINE op == Head(ring)
           c == op.conn
           n == Received(op)
           res == SubSeq(conn[c].down, 1, n)
           r == Read(conn[c], n)
<1>1. /\ UNCHANGED <<gen, sq, free, uconn, backlog, worker, cur, room>>
      /\ ClientTypes' /\ client' = client
      /\ Issue("recv", res) /\ conn' = [conn EXCEPT ![c] = r]
  BY Invs, ClientSame DEF kernel_recv
<1>2. op \in Operations /\ c \in Conns /\ op.off \in 0 .. RecvSize - 1
  <2>1. ring # <<>> /\ op.op = "recv"
    BY <1>1 DEF Issue
  <2>2. op \in Operations
    BY <2>1, Invs, HeadTyped DEF UringTypes
  <2>3. c \in Range(UringConns) /\ op.off \in 0 .. RecvSize - 1
    BY <2>1, <2>2 DEF Operations
  <2> QED
    BY <2>2, <2>3, Invs, ClientFacts
<1>3. conn[c] \in ConnTypes /\ Fits(conn[c]) /\ room \in Nat /\ conn[c].down \in Bytes
  BY <1>2, Invs, ConnFields
<1>4. n \in 0 .. Len(conn[c].down) /\ n \in Nat
  <2> DEFINE a == Len(conn[c].down)
             b == RecvSize - op.off
  <2>1. a \in Nat /\ b \in Nat
    BY <1>2, <1>3, UringAssumption DEF Bytes
  <2>2. n = Least(a, b)
    BY DEF Received
  <2> HIDE DEF a, b, n
  <2>3. n \in 0 .. a /\ n \in Nat
    BY <2>1, <2>2 DEF Least
  <2> QED
    BY <2>3 DEF a
<1> HIDE DEF n
<1>5. res \in Bytes
  BY <1>3, <1>4, TakeTyped DEF Bytes
<1>6. r \in ConnTypes /\ Fits(r) /\ Unnoticed(conn[c], r)
  BY <1>3, <1>4, ReadTyped
<1> HIDE DEF r, res
<1>7. Moved
  <2> HIDE DEF c
  <2> QED
    BY <1>1, <1>2, <1>6, Invs, OneMoved
<1>8. ring' \in Seq(Operations) /\ cq' \in Seq([op : Operations, res : Bytes])
  BY <1>1, <1>5, Invs, IssueTyped
<1>9. UringTypes'
  BY <1>1, <1>8, Invs, UringMoves DEF UringTypes
<1> QED
  BY <1>1, <1>7, <1>9

LEMMA ReapTyped ==
  ASSUME TypeInv, NEW op, Reap(op)
  PROVE  /\ cq # <<>> /\ Head(cq) \in [op : Operations, res : Bytes] /\ Head(cq).op.op = op
         /\ Head(cq).op \in Operations /\ Head(cq).res \in Bytes
         /\ Head(cq).op.conn \in Range(UringConns) /\ Head(cq).op.conn \in Conns
         /\ cq' \in Seq([op : Operations, res : Bytes]) /\ cq' = Tail(cq)
         /\ op = "send" => Head(cq).op.slot \in 1 .. PoolSize
         /\ Moved /\ ClientTypes' /\ client' = client
<1>1. cq # <<>> /\ Head(cq).op.op = op /\ cq' = Tail(cq)
  BY DEF Reap
<1>2. Head(cq) \in [op : Operations, res : Bytes] /\ cq' \in Seq([op : Operations, res : Bytes])
  BY <1>1, Invs, HeadTyped DEF UringTypes
<1>3. Head(cq).op \in Operations /\ Head(cq).res \in Bytes
  BY <1>2
<1>4. Head(cq).op.conn \in Range(UringConns) /\ (op = "send" => Head(cq).op.slot \in 1 .. PoolSize)
  BY <1>1, <1>3 DEF Operations
<1>5. Head(cq).op.conn \in Conns
  BY <1>4, Invs, ClientFacts
<1>6. Moved /\ ClientTypes' /\ client' = client
  BY Invs, Stays, ClientSame DEF Reap
<1> QED
  BY <1>1, <1>2, <1>3, <1>4, <1>5, <1>6

LEMMA ReapSendStep ==
  ASSUME TypeInv, reap_send
  PROVE  Moved /\ UringTypes' /\ ClientTypes' /\ client' = client
<1> DEFINE slot == Head(cq).op.slot
<1>1. /\ Reap("send") /\ UNCHANGED <<gen, sq, ring, uconn>>
      /\ free' = IF Len(free) < PoolSize THEN Append(free, slot) ELSE free
  BY DEF reap_send, free_send_slot
<1>2. /\ cq' \in Seq([op : Operations, res : Bytes]) /\ slot \in 1 .. PoolSize
      /\ Moved /\ ClientTypes' /\ client' = client
  BY <1>1, ReapTyped
<1> HIDE DEF slot
<1>3. free' \in Seq(1 .. PoolSize)
  <2>1. free \in Seq(1 .. PoolSize)
    BY Invs DEF UringTypes
  <2>2. Append(free, slot) \in Seq(1 .. PoolSize)
    BY <1>2, <2>1, AppendTyped
  <2> QED
    BY <1>1, <2>1, <2>2
<1> QED
  BY <1>1, <1>2, <1>3, Invs, UringMoves DEF UringTypes

LEMMA ReapRecvStep ==
  ASSUME TypeInv, reap_recv
  PROVE  Moved /\ UringTypes' /\ ClientTypes' /\ client' = client
<1> DEFINE c == Head(cq).op.conn
           res == Head(cq).res
<1>1. Reap("recv") /\ UNCHANGED free
  BY DEF reap_recv
<1>2. /\ cq' \in Seq([op : Operations, res : Bytes]) /\ res \in Bytes
      /\ c \in Conns /\ c \in Range(UringConns)
      /\ Moved /\ ClientTypes' /\ client' = client
  BY <1>1, ReapTyped
<1>3. CASE Receive(c) /\ UNCHANGED gen
  <2> HIDE DEF c
  <2>1. /\ sq' \in Seq(Operations) /\ Len(sq') <= SqSize /\ ring' \in Seq(Operations)
        /\ uconn' \in [Conns -> [in_flight : Int, rbuf : Bytes, failed : BOOLEAN, deaf : BOOLEAN]]
    BY <1>2, <1>3, Invs, ReceiveTyped
  <2> QED
    BY <1>1, <1>2, <1>3, <2>1, Invs, UringMoves DEF UringTypes
<1>4. CASE /\ UNCHANGED <<sq, ring>>
           /\ uconn' = [uconn EXCEPT ![c].rbuf = @ \o res]
           /\ gen' = [pc |-> "drain", left |-> 0,
                      i |-> CHOOSE i \in 1 .. Len(UringConns) : UringConns[i] = c]
  <2> DEFINE i == CHOOSE i \in 1 .. Len(UringConns) : UringConns[i] = c
             rbuf == uconn[c].rbuf \o res
             r == [uconn[c] EXCEPT !.rbuf = rbuf]
  <2>1. i \in DOMAIN UringConns
    <3>1. \E j \in 1 .. Len(UringConns) : UringConns[j] = c
      <4> HIDE DEF c
      <4>1. PICK j \in DOMAIN UringConns : UringConns[j] = c
        BY <1>2 DEF Range
      <4>2. DOMAIN UringConns = 1 .. Len(UringConns)
        BY Invs, ClientFacts
      <4> QED
        BY <4>1, <4>2
    <3>2. i \in 1 .. Len(UringConns)
      BY <3>1
    <3> QED
      BY <3>2, Invs, ClientFacts
  <2>2. gen' \in GenRecords
    <3> HIDE DEF i
    <3>1. [pc |-> "drain", i |-> i, left |-> 0] \in GenRecords
      BY <2>1, Invs, GenMoves
    <3> QED
      BY <1>4, <3>1 DEF i
  <2>3. uconn' = [uconn EXCEPT ![c] = r]
    BY <1>4
  <2> HIDE DEF c, res
  <2>4. rbuf \in Bytes
    BY <1>2, Invs, UringFields, JoinTyped DEF Bytes
  <2> HIDE DEF rbuf
  <2>5. r \in [in_flight : Int, rbuf : Bytes, failed : BOOLEAN, deaf : BOOLEAN]
    BY <1>2, <2>4, Invs, UringFields
  <2> HIDE DEF r
  <2>6. uconn' \in [Conns -> [in_flight : Int, rbuf : Bytes, failed : BOOLEAN, deaf : BOOLEAN]]
    BY <1>2, <2>3, <2>5, Invs DEF UringTypes
  <2> QED
    BY <1>1, <1>2, <1>4, <2>2, <2>6, Invs, UringMoves DEF UringTypes
<1> QED
  BY <1>3, <1>4 DEF reap_recv

LEMMA DrainStep ==
  ASSUME TypeInv, drain_packets
  PROVE  Moved /\ UringTypes' /\ ClientTypes' /\ client' = client
<1> DEFINE c == It
           k == uconn[c]
           s == k.rbuf
           left == gen.left + Answers(s)
           rbuf == Drop(s, 2 + Length(s))
           n == k.in_flight - Answers(s)
           r == [k EXCEPT !.rbuf = rbuf, !.in_flight = n]
<1>1. /\ UNCHANGED <<sq, ring, cq, free>> /\ ~Drained(s)
      /\ ClientTypes' /\ client' = client /\ Moved
      /\ gen' = [gen EXCEPT !.left = left]
  BY Invs, ClientSame, Stays DEF drain_packets
<1>2. /\ c \in Conns /\ k \in [in_flight : Int, rbuf : Bytes, failed : BOOLEAN, deaf : BOOLEAN]
      /\ s \in Bytes /\ Len(s) \in Nat /\ k.in_flight \in Int /\ gen.left \in Nat
  BY Invs, UringFields
<1>3. uconn' = [uconn EXCEPT ![c] = r]
  <2>1. uconn' = [uconn EXCEPT ![c].rbuf = rbuf, ![c].in_flight = n]
    BY <1>2, Invs DEF drain_packets, UringTypes
  <2> HIDE DEF rbuf, n, c
  <2> QED
    BY <1>2, <2>1, Invs DEF UringTypes
<1>4. Answers(s) \in {0, 1}
  BY DEF Answers
<1>5. left \in Nat /\ n \in Int
  <2> HIDE DEF s, k
  <2> QED
    BY <1>2, <1>4
<1>6. rbuf \in Bytes
  <2>1. ~(Len(s) < 2)
    BY <1>1 DEF Drained, Incomplete
  <2>2. Length(s) \in Nat
    BY <1>2, <2>1, LengthTyped
  <2> QED
    BY <1>2, <2>2, DropTyped DEF Bytes
<1> HIDE DEF rbuf, left, n, s
<1>7. r \in [in_flight : Int, rbuf : Bytes, failed : BOOLEAN, deaf : BOOLEAN]
  BY <1>2, <1>5, <1>6
<1> HIDE DEF r, k, c
<1>8. uconn' \in [Conns -> [in_flight : Int, rbuf : Bytes, failed : BOOLEAN, deaf : BOOLEAN]]
  BY <1>2, <1>3, <1>7, Invs DEF UringTypes
<1>9. gen' \in GenRecords
  BY <1>1, <1>5, Invs, GenMoves, UringFields
<1> QED
  BY <1>1, <1>8, <1>9, Invs, UringMoves DEF UringTypes

LEMMA SigalrmUringStep ==
  ASSUME TypeInv, on_sigalrm_uring
  PROVE  Moved /\ UringTypes' /\ ClientTypes' /\ client' = client
<1>1. /\ g_stop' = TRUE /\ client' = client /\ proto' = proto
      /\ UNCHANGED serverVars /\ UNCHANGED <<sq, ring, cq, free, uconn>>
      /\ gen' = [gen EXCEPT !.pc = IF gen.pc = "wait" THEN "reap" ELSE gen.pc]
  BY DEF on_sigalrm_uring, Go
<1>2. gen' \in GenRecords
  <2> DEFINE pc == IF gen.pc = "wait" THEN "reap" ELSE gen.pc
  <2>1. pc \in {"connect", "seed", "loop", "wait", "reap", "drain", "refill", "stopped"}
    BY Invs, UringFields
  <2> HIDE DEF pc
  <2>2. [gen EXCEPT !.pc = pc] \in GenRecords
    BY <2>1, Invs, GenMoves, UringFields
  <2> QED
    BY <1>1, <2>2 DEF pc
<1>3. Moved
  BY <1>1, Invs, Stays
<1>4. ClientTypes'
  BY <1>1, Invs DEF ClientTypes
<1> QED
  BY <1>1, <1>2, <1>3, <1>4, Invs, UringMoves DEF UringTypes

LEMMA UringExitStep ==
  ASSUME TypeInv, uring_exit
  PROVE  Moved /\ UringTypes' /\ ClientTypes' /\ client' = client
<1>1. /\ UNCHANGED <<sq, ring, cq, free, uconn>> /\ UNCHANGED <<backlog, worker, cur, room>>
      /\ ClientTypes' /\ client' = client /\ Closing(Open) /\ Go("stopped")
  BY Invs, ClientSame DEF uring_exit
<1>2. Moved
  BY <1>1, Invs, ClosingMoves DEF Moved, WorkerUntouched
<1>3. gen' \in GenRecords
  BY <1>1, Invs, GenMoves, UringFields DEF Go
<1> QED
  BY <1>1, <1>2, <1>3, Invs, UringMoves DEF UringTypes

LEMMA UringStepTypes ==
  ASSUME TypeInv, UringNext, UNCHANGED <<threadsVars, other>>
  PROVE  TypeInv' /\ Moved
<1>1. Moved /\ UringTypes' /\ ClientTypes' /\ client' = client
  BY UringConnectStep, SubmitSendStep, SubmitRecvStep, LoopSteps, KernelSendStep,
     KernelRecvStep, ReapSendStep, ReapRecvStep, DrainStep, SigalrmUringStep, UringExitStep
     DEF UringNext
<1> QED
  BY <1>1, Invs, MovedKeeps, ThreadsSame, OtherSame DEF TypeInv

----------------------------------------------------------------------------
(* The other program                                                        *)

LEMMA OtherMoves ==
  ASSUME OtherTypes, ClientTypes, client' = client, NEW c \in Conns,
         NEW asked \in 0 .. Depth, NEW unsent \in Bytes,
         other' = [other EXCEPT ![c] = [asked |-> asked, unsent |-> unsent]]
  PROVE  OtherTypes'
<1>1. Depth' = Depth
  BY DEF Depth
<1> QED
  BY <1>1 DEF OtherTypes

LEMMA OtherAsksStep ==
  ASSUME TypeInv, NEW c \in Conns, other_asks(c)
  PROVE  Moved /\ OtherTypes'
<1>1. /\ UNCHANGED <<backlog, worker, cur, room>> /\ client' = client
      /\ other[c].asked < Depth
  BY DEF other_asks, Other, clientVars
<1>2. other[c].asked \in 0 .. Depth /\ Depth \in Nat \ {0}
  BY Invs, ClientFacts DEF OtherTypes
<1>3. conn[c] \in ConnTypes /\ Fits(conn[c])
  BY Invs
<1>4. ASSUME NEW type \in Codecs, NEW s \in {[x |-> 0, hp |-> 0], [x |-> Byte - 1, hp |-> 1]},
             other' = [other EXCEPT ![c] = [asked |-> @.asked + 1, unsent |-> Frame(Payload(type, s))]],
             conn' = [conn EXCEPT ![c] = Owe(@, Payload(type, s))]
      PROVE  Moved /\ OtherTypes'
  <2> DEFINE asked == other[c].asked + 1
             unsent == Frame(Payload(type, s))
             r == Owe(conn[c], Payload(type, s))
  <2>1. asked \in 0 .. Depth
    <3> DEFINE n == other[c].asked
    <3>1. n < Depth /\ n \in 0 .. Depth
      BY <1>1, <1>2
    <3> HIDE DEF n
    <3>2. n + 1 \in 0 .. Depth
      BY <1>2, <3>1
    <3> QED
      BY <3>2 DEF n
  <2>2. unsent \in Bytes
    <3>1. s \in States
      BY BinaryAssumption DEF States
    <3>2. Payload(type, s) \in Bytes /\ Len(Payload(type, s)) \in 3 .. 4
      BY <3>1, PayloadTyped
    <3>3. Len(Payload(type, s)) \in 0 .. 15
      BY <3>2
    <3> QED
      BY <3>2, <3>3, FrameTyped
  <2>3. other' = [other EXCEPT ![c] = [asked |-> asked, unsent |-> unsent]]
    BY <1>4
  <2>4. r \in ConnTypes /\ Fits(r) /\ Unnoticed(conn[c], r)
    BY <1>3, OweTyped
  <2>5. conn' = [conn EXCEPT ![c] = r]
    BY <1>4
  <2> HIDE DEF asked, unsent, r
  <2>6. OtherTypes'
    BY <1>1, <2>1, <2>2, <2>3, Invs, OtherMoves
  <2>7. Moved
    BY <1>1, <2>4, <2>5, Invs, OneMoved
  <2> QED
    BY <2>6, <2>7
<1>5. ASSUME NEW bytes \in Malformations,
             other' = [other EXCEPT ![c] = [asked |-> Depth, unsent |-> bytes]],
             UNCHANGED conn
      PROVE  Moved /\ OtherTypes'
  <2>1. bytes \in Bytes /\ Depth \in 0 .. Depth
    BY <1>2, MalformationsTyped
  <2>2. OtherTypes'
    BY <1>1, <1>5, <2>1, Invs, OtherMoves
  <2>3. Moved
    BY <1>1, <1>5, Invs, Stays DEF serverVars
  <2> QED
    BY <2>2, <2>3
<1> QED
  BY <1>4, <1>5 DEF other_asks

LEMMA OtherWritesStep ==
  ASSUME TypeInv, NEW c \in Conns, other_writes(c)
  PROVE  Moved /\ OtherTypes'
<1> DEFINE s == other[c].unsent
           a == Free(conn[c])
           b == Len(s)
<1>1. /\ UNCHANGED <<backlog, worker, cur, room>> /\ client' = client
  BY DEF other_writes, Other, clientVars
<1>2. /\ other[c] \in [asked : 0 .. Depth, unsent : Bytes] /\ s \in Bytes
      /\ other[c].asked \in 0 .. Depth
  BY Invs DEF OtherTypes
<1>3. conn[c] \in ConnTypes /\ Fits(conn[c]) /\ room \in Nat /\ conn[c].up \in Bytes
  BY Invs, ConnFields
<1>4. PICK n \in 1 .. Least(a, b) :
        /\ other' = [other EXCEPT ![c].unsent = Drop(@, n)]
        /\ conn' = [conn EXCEPT ![c] = Write(@, SubSeq(s, 1, n))]
  BY DEF other_writes
<1>5. n \in 0 .. b /\ n <= a /\ n \in Nat
  <2>1. a \in Int /\ b \in Nat
    BY <1>2, <1>3 DEF Free, Bytes
  <2> HIDE DEF a, b
  <2> QED
    BY <1>4, <2>1 DEF Least
<1> DEFINE part == SubSeq(s, 1, n)
           rest == Drop(s, n)
           r == Write(conn[c], part)
           asked == other[c].asked
<1>6. part \in Bytes /\ Len(part) = n /\ rest \in Bytes
  BY <1>2, <1>5, TakeTyped, DropTyped DEF Bytes
<1>7. other' = [other EXCEPT ![c] = [asked |-> asked, unsent |-> rest]]
  <2>1. other' = [other EXCEPT ![c] = [other[c] EXCEPT !.unsent = rest]]
    BY <1>4
  <2> HIDE DEF rest
  <2>2. [other[c] EXCEPT !.unsent = rest] = [asked |-> asked, unsent |-> rest]
    BY <1>2
  <2> QED
    BY <2>1, <2>2
<1>8. conn' = [conn EXCEPT ![c] = r]
  BY <1>4
<1> HIDE DEF part, rest, asked
<1>9. r \in ConnTypes /\ Fits(r) /\ Unnoticed(conn[c], r)
  BY <1>3, <1>5, <1>6, WriteTyped
<1> HIDE DEF r
<1>10. Moved
  BY <1>1, <1>8, <1>9, Invs, OneMoved
<1>11. OtherTypes'
  BY <1>1, <1>2, <1>6, <1>7, Invs, OtherMoves DEF asked
<1> QED
  BY <1>10, <1>11

LEMMA OtherStepTypes ==
  ASSUME TypeInv, OtherNext
  PROVE  TypeInv' /\ Moved
<1>1. PICK c \in Range(ConnsOf[1]) :
        other_connect(c) \/ other_asks(c) \/ other_writes(c) \/ other_reads(c) \/ other_closes(c)
  BY DEF OtherNext
<1>2. c \in Conns
  BY Invs, ClientFacts DEF UringConns
<1>3. UNCHANGED <<clientVars, threadsVars, uringVars>>
  BY <1>1 DEF other_connect, other_asks, other_writes, other_reads, other_closes, Other
<1>4. ClientTypes' /\ client' = client /\ ThreadTypes' /\ UringTypes'
  BY <1>3, Invs, ClientSame, ThreadsSame, UringSame
<1>5. Moved /\ OtherTypes'
  <2>1. CASE other_connect(c)
    BY <1>2, <1>4, <2>1, Invs, OtherSame DEF other_connect, Moved
  <2>2. CASE other_asks(c)
    BY <1>2, <2>2, OtherAsksStep
  <2>3. CASE other_writes(c)
    BY <1>2, <2>3, OtherWritesStep
  <2>4. CASE other_reads(c)
    <3> DEFINE n == Len(conn[c].down)
               r == Read(conn[c], n)
    <3>1. conn[c] \in ConnTypes /\ Fits(conn[c]) /\ room \in Nat /\ n \in Nat
      BY <1>2, Invs, ConnFields DEF Bytes
    <3>2. r \in ConnTypes /\ Fits(r) /\ Unnoticed(conn[c], r)
      BY <3>1, ReadTyped
    <3>3. conn' = [conn EXCEPT ![c] = r] /\ UNCHANGED <<backlog, worker, cur, room>> /\ other' = other
      BY <2>4 DEF other_reads, Other
    <3> HIDE DEF r
    <3> QED
      BY <1>2, <1>4, <3>2, <3>3, Invs, OneMoved, OtherSame
  <2>5. CASE other_closes(c)
    <3>1. Closing({c}) /\ UNCHANGED <<backlog, worker, cur, room>> /\ other' = other
      BY <2>5 DEF other_closes, Other
    <3> QED
      BY <1>4, <3>1, Invs, ClosingMoves, OtherSame DEF Moved, WorkerUntouched
  <2> QED
    BY <1>1, <2>1, <2>2, <2>3, <2>4, <2>5
<1> QED
  BY <1>4, <1>5, Invs, MovedKeeps DEF TypeInv

----------------------------------------------------------------------------
(* The theorems                                                             *)

LEMMA StutterTypes ==
  ASSUME TypeInv, UNCHANGED vars
  PROVE  TypeInv'
<1>1. UNCHANGED <<serverVars, clientVars, threadsVars, uringVars, other>>
  BY DEF vars
<1>2. ServerInv'
  BY <1>1, Invs, Stays, MovedKeeps
<1> QED
  BY <1>1, <1>2, Invs, ClientSame, ThreadsSame, UringSame, OtherSame DEF TypeInv

(* The invariant all the others follow from: what each variable holds, the  *)
(* worker's list and backlog, and the packets that are not in its inputs.   *)
THEOREM TypeInvHolds == Spec => []TypeInv
<1>1. Init => TypeInv
  BY TypesStart
<1>2. TypeInv /\ [Next]_vars => TypeInv'
  BY ServerStepTypes, ThreadsStepTypes, UringStepTypes, OtherStepTypes, StutterTypes DEF Next
<1> QED
  BY <1>1, <1>2, PTL DEF Spec

(* Type correctness of the binary server and its clients; no socket holds   *)
(* more than it can.                                                        *)
THEOREM TypeCorrect == Spec => []TypeOK
<1>1. TypeInv => TypeOK
  <2> SUFFICES ASSUME TypeInv PROVE TypeOK
    OBVIOUS
  <2>1. \A c \in Conns : Len(conn[c].up) <= room /\ Len(conn[c].down) <= room
    BY Invs DEF Fits
  <2>2. ASSUME NEW t \in Threads
        PROVE  thr[t] \in [pc : {"none", "connect", "loop", "conn", "write", "read", "close", "done"},
                   i : 1 .. Len(ConnsOf[t]) + 1, d : 0 .. Depth - 1, x : 0 .. Byte - 1,
                   unsent : Bytes, reply : Bytes]
    <3> DEFINE n == Len(ConnsOf[t])
    <3>1. thr[t] \in ThreadRecords /\ thr[t].i \in Nat \ {0} /\ thr[t].i <= n + 1 /\ n \in Nat
      BY Invs, ThreadFields DEF Placed
    <3> HIDE DEF n
    <3>2. thr[t].i \in 1 .. n + 1
      BY <3>1
    <3> QED
      BY <3>1, <3>2 DEF ThreadRecords, n
  <2>3. /\ gen.pc \in {"connect", "seed", "loop", "wait", "reap", "drain", "refill", "stopped"}
        /\ gen.left \in Nat /\ gen.i \in DOMAIN UringConns
    BY Invs, UringFields
  <2>4. conn \in [Conns -> ConnTypes]
    BY Invs DEF ConnInv
  <2> QED
    BY <2>1, <2>2, <2>3, <2>4, Invs
       DEF TypeOK, ConnTypes, ServerTypes, ThreadTypes, UringTypes, OtherTypes
<1> QED
  BY <1>1, TypeInvHolds, PTL

(* The worker's list holds the connections whose socket is open and no      *)
(* other, through every accept, failure, close and shutdown.                *)
THEOREM ListedIsOpenHolds == Spec => []ListedIsOpen
<1>1. TypeInv => ListedIsOpen
  BY Invs DEF ServerInv, ListInv, Listed, ListedIsOpen
<1> QED
  BY <1>1, TypeInvHolds, PTL

(* While the worker waits no input holds a packet it should have taken.     *)
THEOREM NoPacketForgottenHolds == Spec => []NoPacketForgotten
<1>1. TypeInv => NoPacketForgotten
  BY Invs DEF ServerInv, PacketInv, NoPacketForgotten
<1> QED
  BY <1>1, TypeInvHolds, PTL
=============================================================================
