------------------------ MODULE HttpConnectionProofs ------------------------
(****************************************************************************)
(* Proofs about one HTTP connection: type correctness, the safety           *)
(* invariants of HttpConnection and that it implements Responder, for any   *)
(* number of requests, malformed or answered late, any lengths and any      *)
(* socket buffer.                                                           *)
(****************************************************************************)
EXTENDS HttpConnection, SequenceTheorems, FiniteSetTheorems, TLAPS

----------------------------------------------------------------------------
(* The inductive invariant                                                  *)

PollBags == UNION {[S -> Nat \ {0}] : S \in SUBSET Polls}
Units == Seq(1 .. NRequests)
ConnRecords ==
  [open : BOOLEAN, mask : Interests, polls : PollBags, cancel : BOOLEAN, base : Nat, top : Nat,
   output : Units, sndbuf : Units,
   state : {"NONE", "NEED_MORE_DATA", "READ", "HANDLING", "CLOSED"},
   ref : Nat, event_triggered : BOOLEAN, consumed_bytes : {0, RequestLen}]

TypeInv ==
  /\ conn \in ConnRecords
  /\ conn.base <= conn.top /\ conn.top <= sent /\ Len(conn.sndbuf) <= SndBuf
  /\ pending \in 0 .. NRequests
  /\ pc \in {"idle", "event", "read", "handler", "finish", "aborted", "stopped"}
  /\ evs \subseteq Bits /\ answering \in BOOLEAN
  /\ sent \in 0 .. NRequests * RequestLen /\ got \in Units
  /\ peer \in {"open", "half", "reset"}

(* RefsCounted with the users added up one by one.                          *)
Updating == pc \in {"read", "handler", "finish"}
One(b) == IF b THEN 1 ELSE 0
RefsInv ==
  /\ Running =>
       conn.ref = One(conn.state \notin {"NONE", "CLOSED"}) + One(pending # 0)
                    + One(Updating) + One(answering)
  /\ conn.ref <= 4

(* Where the worker is and what that says of the request.                   *)
ControlInv ==
  /\ conn.state = "NONE" => conn = Unaccepted /\ got = <<>> /\ pc = "idle" /\ pending = 0
  /\ conn.open => conn.state \notin {"NONE", "CLOSED"}
  /\ Running =>
       /\ conn.state \notin {"NONE", "CLOSED"} => conn.open
       /\ conn.state = "HANDLING" => pending # 0
       /\ pending # 0 => conn.state \in {"HANDLING", "CLOSED"}
       /\ conn.state = "READ" <=> pc = "read"
  /\ pc = "handler" => conn.state = "HANDLING" /\ conn.consumed_bytes = RequestLen
  /\ pc = "finish" /\ conn.state = "CLOSED" => pending = 0
  /\ pc = "idle" => evs = {} /\ ~answering
  /\ Running /\ answering => Updating /\ evs = {}
  /\ pc = "event" => conn.open \/ conn.ref = 0 \/ evs \subseteq {"CLOSE"}

ClosedInv ==
  ~conn.open =>
    conn.mask = {} /\ conn.output = <<>> /\ conn.base = conn.top

(* The input begins behind the request that is with its handler, if that was*)
(* consumed before it was answered, else behind the last one answered.      *)
InputInv ==
  Running /\ conn.open =>
    /\ IF pending = 0 THEN conn.consumed_bytes = 0 /\ conn.base % RequestLen = 0
       ELSE conn.base = (IF conn.consumed_bytes = 0 THEN pending ELSE pending - 1) * RequestLen
    /\ conn.consumed_bytes # 0 => Input(conn) >= RequestLen
    /\ pending # 0 => pending \notin Bad /\ pending * RequestLen <= sent
    /\ conn.state = "NEED_MORE_DATA" => Input(conn) = 0 \/ http_read_request_data(conn) = -2

(* Every request answered has put one whole response in the channel.        *)
Channel(c) == c.sndbuf \o c.output
AnsweredRequests == IF pending = 0 THEN conn.base \div RequestLen ELSE pending - 1
ChannelInv ==
  Running /\ conn.open /\ peer # "reset" =>
    Len(got) + Len(Channel(conn)) = AnsweredRequests * ResponseLen

HttpInv ==
  /\ TypeInv /\ RefsInv /\ ControlInv /\ ClosedInv /\ InputInv /\ ChannelInv
  /\ AnsweredInOrder

----------------------------------------------------------------------------
(* Arithmetic                                                               *)

(* A multiple of n holds n that many times and leaves nothing.              *)
LEMMA MultipleDiv ==
  ASSUME NEW n \in Nat \ {0}, NEW k \in Nat
  PROVE  (k * n) \div n = k /\ (k * n) % n = 0
OBVIOUS

(* A number that leaves nothing is the multiple its quotient says.          *)
LEMMA ModZero ==
  ASSUME NEW n \in Nat \ {0}, NEW a \in Nat, a % n = 0
  PROVE  a \div n \in Nat /\ a = (a \div n) * n
OBVIOUS

(* The units of the (a+1)st block of n.                                     *)
LEMMA BlockOf ==
  ASSUME NEW n \in Nat \ {0}, NEW a \in Nat, NEW i \in Int,
         a * n < i, i <= (a + 1) * n
  PROVE  (i - 1) \div n = a
OBVIOUS

(* Blocks that fit below a number of blocks are no more than those.         *)
LEMMA BlocksFit ==
  ASSUME NEW n \in Nat \ {0}, NEW a \in Nat, NEW b \in Nat
  PROVE  /\ a * n <= b * n => a <= b
         /\ a * n < b * n => a < b
         /\ (a + 1) * n = a * n + n
OBVIOUS

----------------------------------------------------------------------------
(* Bags of polls                                                            *)

(* The bag with one poll.                                                   *)
LEMMA OnePoll ==
  ASSUME NEW p \in Polls
  PROVE  SetToBag({p}) \in PollBags /\ EmptyBag \in PollBags
<1>1. SetToBag({p}) \in [{p} -> Nat \ {0}] /\ {p} \in SUBSET Polls
  BY DEF SetToBag
<1>2. EmptyBag \in [{} -> Nat \ {0}] /\ {} \in SUBSET Polls
  BY DEF EmptyBag, SetToBag
<1> QED
  BY <1>1, <1>2 DEF PollBags

(* Polls put in a bag of polls, and one taken out of it.                    *)
LEMMA PollsAdded ==
  ASSUME NEW B \in PollBags, NEW p \in Polls
  PROVE  B (+) SetToBag({p}) \in PollBags /\ B (-) SetToBag({p}) \in PollBags
<1>1. PICK S \in SUBSET Polls : B \in [S -> Nat \ {0}]
  BY DEF PollBags
<1>2. B (+) SetToBag({p}) \in [S \cup {p} -> Nat \ {0}]
  BY <1>1 DEF SetToBag, (+)
<1>3. S \cup {p} \in SUBSET Polls
  OBVIOUS
<1>4. B (-) SetToBag({p}) \in [DOMAIN (B (-) SetToBag({p})) -> Nat \ {0}]
  BY <1>1 DEF SetToBag, (-)
<1>5. DOMAIN (B (-) SetToBag({p})) \in SUBSET Polls
  BY <1>1 DEF SetToBag, (-)
<1> QED
  BY <1>2, <1>3, <1>4, <1>5 DEF PollBags

(* A bag of polls is a bag, and what it holds are polls.                    *)
LEMMA PollsHeld ==
  ASSUME NEW B \in PollBags
  PROVE  IsABag(B) /\ BagToSet(B) \subseteq Polls
BY DEF PollBags, IsABag, BagToSet

----------------------------------------------------------------------------
(* Sequences of units                                                       *)

(* What a prefix and the rest of a sequence are together.                   *)
LEMMA SplitJoin ==
  ASSUME NEW s \in Units, NEW n \in 0 .. Len(s)
  PROVE  /\ SubSeq(s, 1, n) \in Units /\ Len(SubSeq(s, 1, n)) = n
         /\ SubSeq(s, n + 1, Len(s)) \in Units
         /\ Len(SubSeq(s, n + 1, Len(s))) = Len(s) - n
         /\ SubSeq(s, 1, n) \o SubSeq(s, n + 1, Len(s)) = s
<1>1. Len(s) \in Nat /\ \A i \in 1 .. Len(s) : s[i] \in 1 .. NRequests
  BY LenProperties, ElementOfSeq DEF Units
<1>2. SubSeq(s, 1, n) \in Seq(1 .. NRequests) /\ Len(SubSeq(s, 1, n)) = n
  BY <1>1, SubSeqProperties
<1>3. /\ SubSeq(s, n + 1, Len(s)) \in Seq(1 .. NRequests)
      /\ Len(SubSeq(s, n + 1, Len(s))) = Len(s) - n
  BY <1>1, SubSeqProperties
<1>4. SubSeq(s, 1, n) \o SubSeq(s, n + 1, Len(s)) = SubSeq(s, 1, Len(s))
  <2>1. n \in 1 - 1 .. Len(s) /\ Len(s) \in n .. Len(s) /\ 1 \in 1 .. Len(s) + 1
    BY <1>1
  <2> QED
    BY <2>1, ConcatAdjacentSubSeq DEF Units
<1>5. SubSeq(s, 1, Len(s)) = s
  BY SubSeqFull DEF Units
<1> QED
  BY <1>2, <1>3, <1>4, <1>5 DEF Units

(* Sequences of units joined.                                               *)
LEMMA Joined ==
  ASSUME NEW s \in Units, NEW t \in Units
  PROVE  s \o t \in Units /\ Len(s \o t) = Len(s) + Len(t) /\ Len(s) \in Nat /\ Len(t) \in Nat
BY ConcatProperties, LenProperties DEF Units

(* Concatenation associates: under a name, to be cited for three given      *)
(* sequences.                                                               *)
Groups(x, y, z) == (x \o y) \o z = x \o (y \o z)

LEMMA Associative == \A x, y, z \in Units : Groups(x, y, z)
BY ConcatAssociative DEF Units, Groups

(* Moving units from the front of one sequence to the end of another leaves *)
(* the two together as they were.                                           *)
LEMMA Moved ==
  ASSUME NEW s \in Units, NEW t \in Units, NEW n \in 0 .. Len(t)
  PROVE  (s \o SubSeq(t, 1, n)) \o SubSeq(t, n + 1, Len(t)) = s \o t
<1> DEFINE a == SubSeq(t, 1, n)
           b == SubSeq(t, n + 1, Len(t))
<1>1. a \in Units /\ b \in Units /\ a \o b = t
  BY SplitJoin
<1> HIDE DEF a, b
<1>2. Groups(s, a, b)
  BY <1>1, Associative
<1>3. (s \o a) \o b = s \o t
  BY <1>1, <1>2 DEF Groups
<1> QED
  BY <1>3 DEF a, b

Response(k) == [i \in 1 .. ResponseLen |-> k]

(* A response is so many units of the request it answers.                   *)
LEMMA ResponseUnits ==
  ASSUME NEW k \in 1 .. NRequests
  PROVE  /\ Response(k) \in Units /\ Len(Response(k)) = ResponseLen
         /\ \A i \in 1 .. ResponseLen : Response(k)[i] = k
<1>1. Response(k) \in [1 .. ResponseLen -> 1 .. NRequests] /\ ResponseLen \in Nat
  BY HttpAssumption DEF Response
<1>2. Response(k) \in Units
  BY <1>1, SeqDef DEF Units
<1>3. Len(Response(k)) \in Nat /\ DOMAIN Response(k) = 1 .. Len(Response(k))
  BY <1>2, LenProperties DEF Units
<1>4. Len(Response(k)) = ResponseLen
  BY <1>1, <1>3 DEF Response
<1> QED
  BY <1>2, <1>4 DEF Response

(* Responses one after the other, each whole but perhaps the last.          *)
InOrder(s) == \A i \in 1 .. Len(s) : s[i] = (i - 1) \div ResponseLen + 1

(* The response to the next request keeps the order.                        *)
LEMMA OrderExtended ==
  ASSUME NEW s \in Units, NEW a \in Nat, Len(s) = a * ResponseLen, InOrder(s),
         a + 1 \in 1 .. NRequests
  PROVE  /\ s \o Response(a + 1) \in Units
         /\ Len(s \o Response(a + 1)) = (a + 1) * ResponseLen
         /\ InOrder(s \o Response(a + 1))
<1> DEFINE r == Response(a + 1)
           t == s \o r
           n == ResponseLen
<1>1. r \in Units /\ Len(r) = n /\ \A i \in 1 .. n : r[i] = a + 1
  BY ResponseUnits
<1>2. n \in Nat \ {0}
  BY HttpAssumption
<1> HIDE DEF r
<1>3. /\ t \in Units /\ Len(t) = Len(s) + n /\ Len(s) \in Nat
      /\ \A i \in 1 .. Len(s) + n : t[i] = IF i <= Len(s) THEN s[i] ELSE r[i - Len(s)]
  <2>1. /\ t \in Units /\ Len(t) = Len(s) + Len(r) /\ Len(s) \in Nat
        /\ \A i \in 1 .. Len(s) + Len(r) : t[i] = IF i <= Len(s) THEN s[i] ELSE r[i - Len(s)]
    <3>1. r \in Units
      BY <1>1
    <3>2. \A y \in Units :
            /\ s \o y \in Units /\ Len(s \o y) = Len(s) + Len(y)
            /\ \A i \in 1 .. Len(s) + Len(y) :
                 (s \o y)[i] = IF i <= Len(s) THEN s[i] ELSE y[i - Len(s)]
      BY ConcatProperties DEF Units
    <3> QED
      BY <3>1, <3>2, Joined
  <2> QED
    BY <1>1, <2>1
<1> DEFINE m == Len(s)
<1>4. m \in Nat /\ m = a * n /\ (a + 1) * n = m + n
  BY <1>2, <1>3, BlocksFit
<1>5. ASSUME NEW i \in 1 .. m + n
      PROVE  t[i] = (i - 1) \div n + 1
  <2>1. CASE i <= m
    <3>1. s[i] = (i - 1) \div n + 1
      <4>1. i \in 1 .. Len(s)
        BY <1>4, <2>1
      <4> QED
        BY <4>1 DEF InOrder
    <3> QED
      BY <1>3, <2>1, <3>1
  <2>2. CASE i > m
    <3> HIDE DEF n, m
    <3>1. i - m \in 1 .. n /\ i \in Int /\ a * n < i /\ i <= (a + 1) * n
      BY <1>2, <1>4, <2>2
    <3>2. (i - 1) \div n = a
      BY <1>2, <3>1, BlockOf
    <3>3. t[i] = r[i - m]
      BY <1>3, <1>4, <2>2 DEF m, n
    <3> QED
      BY <1>1, <3>1, <3>2, <3>3
  <2> HIDE DEF t, m, n
  <2> QED
    BY <1>2, <1>4, <2>1, <2>2
<1>6. InOrder(t)
  BY <1>3, <1>5 DEF InOrder
<1> QED
  BY <1>3, <1>4, <1>6 DEF r

(* Whatever is lost at the end, the rest is in order.                       *)
LEMMA OrderOfPrefix ==
  ASSUME NEW s \in Units, NEW t \in Units, InOrder(s \o t)
  PROVE  InOrder(s)
<1> DEFINE u == s \o t
<1>1. /\ Len(u) = Len(s) + Len(t)
      /\ \A i \in 1 .. Len(s) + Len(t) : u[i] = IF i <= Len(s) THEN s[i] ELSE t[i - Len(s)]
      /\ Len(s) \in Nat /\ Len(t) \in Nat
  BY ConcatProperties, LenProperties DEF Units
<1> DEFINE m == Len(s)
           n == Len(t)
<1>2. ASSUME NEW i \in 1 .. Len(s)
      PROVE  s[i] = (i - 1) \div ResponseLen + 1
  <2>1. m \in Nat /\ n \in Nat /\ i \in 1 .. m
    BY <1>1
  <2> HIDE DEF m, n
  <2>2. i \in 1 .. m + n /\ i <= m
    BY <2>1
  <2>3. u[i] = s[i]
    BY <1>1, <2>2 DEF m, n
  <2>4. u[i] = (i - 1) \div ResponseLen + 1
    BY <1>1, <2>2 DEF m, n, InOrder
  <2> QED
    BY <2>3, <2>4
<1> QED
  BY <1>2 DEF InOrder

(* A unit that passes from the front of one sequence to the end of another. *)
Passes(s, t, u) ==
  /\ Append(s, Head(t)) \in Units /\ Len(Append(s, Head(t))) = Len(s) + 1
  /\ Tail(t) \in Units /\ Len(Tail(t)) = Len(t) - 1
  /\ Append(s, Head(t)) \o (Tail(t) \o u) = s \o (t \o u)
  /\ t \o u # <<>> /\ Head(t \o u) = Head(t) /\ Tail(t \o u) = Tail(t) \o u

LEMMA PassedOn ==
  ASSUME NEW s \in Units, NEW t \in Units, NEW u \in Units, t # <<>>
  PROVE  Passes(s, t, u)
<1> DEFINE h == <<Head(t)>>
           w == Tail(t)
           n == Len(t)
<1>1. /\ Head(t) \in 1 .. NRequests /\ w \in Units /\ Len(w) = n - 1
      /\ \A i \in 1 .. Len(w) : w[i] = t[i + 1]
      /\ n \in Nat \ {0}
  BY HeadTailProperties, EmptySeq DEF Units
<1>2. /\ Append(s, Head(t)) \in Units /\ Len(Append(s, Head(t))) = Len(s) + 1
      /\ Append(s, Head(t)) = s \o h
  BY <1>1, AppendProperties, AppendIsConcat DEF Units
<1>3. h \in Units
  BY <1>1 DEF Units
<1>4. h \o w = t
  <2>1. SubSeq(t, 1, n) = <<t[1]>> \o SubSeq(t, 2, n)
    <3>1. 1 \in 1 .. n /\ n \in 1 .. n /\ 1 + 1 = 2
      BY <1>1
    <3> QED
      BY <3>1, SubSeqRecursiveFirst DEF Units
  <2>2. SubSeq(t, 1, n) = t /\ w = SubSeq(t, 2, n) /\ Head(t) = t[1]
    BY SubSeqFull, TailIsSubSeq DEF Units
  <2> QED
    BY <2>1, <2>2
<1> HIDE DEF h, w
<1>5. w \o u \in Units /\ t \o u \in Units
  BY <1>1, Joined
<1>6. t \o u = h \o (w \o u)
  <2>1. Groups(h, w, u)
    BY <1>1, <1>3, Associative
  <2> QED
    BY <1>4, <2>1 DEF Groups
<1>7. (s \o h) \o (w \o u) = s \o (t \o u)
  <2>1. PICK v : v = w \o u
    OBVIOUS
  <2>2. Groups(s, h, v)
    BY <1>3, <1>5, <2>1, Associative
  <2>3. (s \o h) \o v = s \o (h \o v)
    BY <2>2 DEF Groups
  <2> QED
    BY <1>6, <2>1, <2>3, Zenon
<1>8. t \o u = <<Head(t)>> \o (w \o u)
  BY <1>6 DEF h
<1>9. t \o u # <<>> /\ Head(t \o u) = Head(t) /\ Tail(t \o u) = w \o u
  <2> DEFINE v == w \o u
             x == Head(t)
  <2>1. v \in Units /\ x \in 1 .. NRequests
    BY <1>1, <1>5
  <2> HIDE DEF v, x
  <2>2. /\ <<x>> \o v # <<>> /\ Head(<<x>> \o v) = x
        /\ Tail(<<x>> \o v) \in Units /\ Len(Tail(<<x>> \o v)) = Len(v)
        /\ \A i \in 1 .. Len(v) : Tail(<<x>> \o v)[i] = v[i]
    <3> DEFINE y == <<x>> \o v
    <3>1. <<x>> \in Seq(1 .. NRequests) /\ Len(<<x>>) = 1 /\ <<x>>[1] = x
      BY <2>1
    <3>2. /\ y \in Units /\ Len(y) = 1 + Len(v) /\ Len(v) \in Nat
          /\ \A i \in 1 .. 1 + Len(v) : y[i] = IF i <= 1 THEN <<x>>[i] ELSE v[i - 1]
      BY <2>1, <3>1, ConcatProperties, LenProperties DEF Units
    <3>3. y # <<>>
      BY <3>2, EmptySeq
    <3> HIDE DEF y
    <3>4. /\ Tail(y) \in Units /\ Len(Tail(y)) = Len(y) - 1
          /\ \A i \in 1 .. Len(Tail(y)) : Tail(y)[i] = y[i + 1]
      BY <3>2, <3>3, HeadTailProperties DEF Units
    <3>5. y[1] = x /\ \A i \in 1 .. Len(v) : y[i + 1] = v[i]
      BY <3>1, <3>2
    <3>6. Head(y) = x
      BY <3>2, <3>5
    <3> QED
      BY <3>2, <3>3, <3>4, <3>5, <3>6 DEF y
  <2>3. Tail(<<x>> \o v) = v
    BY <2>1, <2>2, SeqEqual DEF Units
  <2> QED
    BY <1>8, <2>2, <2>3 DEF v, x
<1> QED
  BY <1>1, <1>2, <1>7, <1>9 DEF w, Passes

----------------------------------------------------------------------------
(* The operators on the connection record                                   *)

(* The fields that writing and polling leave alone.                         *)
SameRequest(d, c) ==
  /\ d.open = c.open /\ d.base = c.base /\ d.top = c.top
  /\ d.state = c.state /\ d.ref = c.ref /\ d.event_triggered = c.event_triggered
  /\ d.consumed_bytes = c.consumed_bytes

(* Setting the mask may queue a poll and changes nothing else.              *)
LEMMA MaskFacts ==
  ASSUME NEW c \in ConnRecords, NEW m \in Interests
  PROVE  /\ descriptor_mask(c, m) \in ConnRecords
         /\ SameRequest(descriptor_mask(c, m), c)
         /\ descriptor_mask(c, m).output = c.output
         /\ descriptor_mask(c, m).sndbuf = c.sndbuf
<1>1. Poll(m) \in Polls
  BY DEF Poll, Polls
<1>2. SetToBag({Poll(m)}) \in PollBags
  BY <1>1, OnePoll
<1> DEFINE q == IF c.mask # m /\ c.polls = EmptyBag THEN SetToBag({Poll(m)}) ELSE c.polls
<1>3. q \in PollBags
  BY <1>2 DEF ConnRecords
<1>4. descriptor_mask(c, m) = [c EXCEPT !.mask = m, !.polls = q]
  BY DEF descriptor_mask, ConnRecords
<1> HIDE DEF q
<1> QED
  BY <1>3, <1>4 DEF ConnRecords, SameRequest

(* Sending moves units from the output to the socket, as many as it holds.  *)
LEMMA WriteFacts ==
  ASSUME NEW c \in ConnRecords, Len(c.sndbuf) <= SndBuf
  PROVE  LET d == stream_socket_write(c) IN
         /\ d \in ConnRecords /\ SameRequest(d, c)
         /\ d.mask = c.mask /\ d.polls = c.polls
         /\ Len(d.sndbuf) <= SndBuf /\ Channel(d) = Channel(c)
         /\ c.output = <<>> => d.output = <<>>
<1> DEFINE room == SndBuf - Len(c.sndbuf)
           total == IF Len(c.output) < room THEN Len(c.output) ELSE room
           s == c.sndbuf \o SubSeq(c.output, 1, total)
           o == SubSeq(c.output, total + 1, Len(c.output))
<1>1. c.sndbuf \in Units /\ c.output \in Units
  BY DEF ConnRecords
<1>2. Len(c.sndbuf) \in Nat /\ Len(c.output) \in Nat
  BY <1>1, Joined
<1>3. total \in 0 .. Len(c.output) /\ total <= room
  <2>1. room \in Nat
    BY <1>2, HttpAssumption
  <2> HIDE DEF room
  <2> QED
    BY <1>2, <2>1
<1>4. stream_socket_write(c) = [c EXCEPT !.sndbuf = s, !.output = o]
  BY DEF stream_socket_write, ConnRecords
<1> HIDE DEF total
<1>5. /\ SubSeq(c.output, 1, total) \in Units /\ Len(SubSeq(c.output, 1, total)) = total
      /\ o \in Units /\ Len(o) = Len(c.output) - total
  BY <1>1, <1>3, SplitJoin
<1>6. s \in Units /\ Len(s) = Len(c.sndbuf) + total
  <2>1. PICK u \in Units, v \in Units : u = c.sndbuf /\ v = SubSeq(c.output, 1, total)
    BY <1>1, <1>5
  <2>2. u \o v \in Units /\ Len(u \o v) = Len(u) + Len(v)
    BY Joined
  <2> QED
    BY <1>5, <2>1, <2>2
<1>7. s \o o = c.sndbuf \o c.output
  BY <1>1, <1>3, Moved
<1>8. c.output = <<>> => o = <<>>
  <2>1. c.output = <<>> => Len(o) = 0
    BY <1>2, <1>3, <1>5, EmptySeq
  <2> QED
    BY <1>5, <2>1, EmptySeq DEF Units
<1> HIDE DEF s, o
<1>9. Len(s) <= SndBuf
  <2> DEFINE n == Len(c.sndbuf)
  <2>1. n \in Nat /\ total <= SndBuf - n /\ Len(s) = n + total /\ total \in Nat /\ SndBuf \in Nat
    BY <1>2, <1>3, <1>6, HttpAssumption
  <2> HIDE DEF n
  <2> QED
    BY <2>1
<1> QED
  BY <1>4, <1>5, <1>6, <1>7, <1>8, <1>9 DEF ConnRecords, SameRequest, Channel

(* A flush sends and sets the mask.                                         *)
LEMMA FlushFacts ==
  ASSUME NEW c \in ConnRecords, Len(c.sndbuf) <= SndBuf
  PROVE  LET d == stream_flush(c) IN
         /\ d \in ConnRecords /\ SameRequest(d, c)
         /\ Len(d.sndbuf) <= SndBuf /\ Channel(d) = Channel(c)
         /\ c.output = <<>> => d.output = <<>>
<1> DEFINE w == stream_socket_write(c)
<1>1. /\ w \in ConnRecords /\ SameRequest(w, c)
      /\ Len(w.sndbuf) <= SndBuf /\ Channel(w) = Channel(c)
      /\ c.output = <<>> => w.output = <<>>
  BY WriteFacts
<1>2. stream_socket_mask(w) \in Interests
  BY DEF stream_socket_mask, Interests
<1>3. stream_flush(c) = descriptor_mask(w, stream_socket_mask(w))
  BY DEF stream_flush, stream_socket_update
<1> HIDE DEF w
<1>4. /\ stream_flush(c) \in ConnRecords /\ SameRequest(stream_flush(c), w)
      /\ stream_flush(c).output = w.output /\ stream_flush(c).sndbuf = w.sndbuf
  BY <1>1, <1>2, <1>3, MaskFacts
<1> QED
  BY <1>1, <1>4 DEF SameRequest, Channel

(* A response is put at the end of what the channel holds.                  *)
LEMMA RespondFacts ==
  ASSUME NEW c \in ConnRecords, NEW k \in 1 .. NRequests
  PROVE  LET d == stream_write(c, k) IN
         /\ d \in ConnRecords /\ SameRequest(d, c)
         /\ d.mask = c.mask /\ d.polls = c.polls /\ d.sndbuf = c.sndbuf
         /\ d.output # <<>>
         /\ Channel(d) = Channel(c) \o Response(k)
<1> DEFINE o == c.output \o Response(k)
<1>1. c.sndbuf \in Units /\ c.output \in Units /\ Response(k) \in Units
  BY ResponseUnits DEF ConnRecords
<1>2. o \in Units /\ Len(o) = Len(c.output) + ResponseLen /\ Len(c.output) \in Nat
  <2>1. PICK u \in Units, v \in Units : u = c.output /\ v = Response(k) /\ Len(v) = ResponseLen
    BY <1>1, ResponseUnits
  <2>2. u \o v \in Units /\ Len(u \o v) = Len(u) + Len(v) /\ Len(u) \in Nat
    BY Joined
  <2> QED
    BY <2>1, <2>2
<1>3. o # <<>>
  <2> DEFINE n == Len(c.output)
  <2>1. n \in Nat /\ Len(o) = n + ResponseLen
    BY <1>2
  <2> HIDE DEF n, o
  <2>2. Len(o) # 0
    BY <2>1, HttpAssumption
  <2> QED
    BY <2>2, EmptySeq
<1>4. c.sndbuf \o o = (c.sndbuf \o c.output) \o Response(k)
  <2>1. Groups(c.sndbuf, c.output, Response(k))
    BY <1>1, Associative
  <2> QED
    BY <2>1 DEF Groups
<1>5. stream_write(c, k) = [c EXCEPT !.output = o]
  BY DEF stream_write, ConnRecords, Response
<1> HIDE DEF o
<1> QED
  BY <1>2, <1>3, <1>4, <1>5 DEF ConnRecords, SameRequest, Channel

(* What a closed stream is left with.                                       *)
Shut(d) == ~d.open /\ d.mask = {} /\ d.output = <<>> /\ d.base = d.top

(* Closing empties the buffers; what the socket holds stays.                *)
LEMMA CloseFacts ==
  ASSUME NEW c \in ConnRecords
  PROVE  LET d == stream_close(c) IN
         /\ d \in ConnRecords
         /\ d.top = c.top /\ d.state = c.state /\ d.ref = c.ref /\ d.sndbuf = c.sndbuf
         /\ c.open => Shut(d)
         /\ ~c.open => d = c
<1>2. <<>> \in Units
  BY EmptySeq DEF Units
<1>3. CASE c.open
  <2> DEFINE d == stream_close(c)
  <2>1. d = [c EXCEPT !.open = FALSE, !.mask = {}, !.cancel = TRUE,
                      !.base = c.top, !.output = <<>>]
    BY <1>3 DEF stream_close, descriptor_close, ConnRecords
  <2> HIDE DEF d
  <2>2. d \in ConnRecords
    BY <1>2, <2>1 DEF ConnRecords, Interests
  <2>3. d.top = c.top /\ d.state = c.state /\ d.ref = c.ref /\ d.sndbuf = c.sndbuf
    BY <2>1 DEF ConnRecords
  <2>4. d.open = FALSE /\ d.mask = {} /\ d.base = c.top /\ d.output = <<>>
    BY <2>1 DEF ConnRecords
  <2>5. Shut(d)
    BY <2>3, <2>4 DEF Shut
  <2> QED
    BY <1>3, <2>2, <2>3, <2>5 DEF d
<1>4. CASE ~c.open
  BY <1>4 DEF stream_close
<1> QED
  BY <1>3, <1>4

(* A release that is not the last only counts; the last closes.             *)
LEMMA ReleaseFacts ==
  ASSUME NEW c \in ConnRecords, c.ref > 0
  PROVE  LET d == server_release(c) IN
         /\ d \in ConnRecords
         /\ d.ref = c.ref - 1
         /\ c.ref > 1 => d = [c EXCEPT !.ref = @ - 1]
         /\ c.ref = 1 => d = [stream_close(c) EXCEPT !.ref = 0]
<1>1. CASE c.ref = 1
  <2>1. stream_close(c) \in ConnRecords /\ stream_close(c).ref = c.ref
    BY CloseFacts
  <2>2. server_release(c) = [stream_close(c) EXCEPT !.ref = 0]
    BY <1>1 DEF server_release
  <2> QED
    BY <1>1, <2>1, <2>2 DEF ConnRecords
<1>2. CASE c.ref # 1
  BY <1>2 DEF server_release, ConnRecords
<1> QED
  BY <1>1, <1>2

----------------------------------------------------------------------------
(* Steps that leave the request and its data alone                          *)

(* What the client may notice of a step: nothing, or that the connection    *)
(* was closed and only a beginning of v is left to read.                    *)
Unnoticed ==
  /\ UNCHANGED <<sent, got, peer>>
  /\ conn'.open = conn.open /\ (conn'.state = "NONE" <=> conn.state = "NONE")
  /\ Channel(conn') = Channel(conn)
ClosedWith(v) ==
  /\ UNCHANGED <<sent, got, peer>>
  /\ conn.open /\ ~conn'.open /\ conn'.state # "NONE"
  /\ \E u \in Units : Channel(conn') \o u = v

(* What was read and answered stands as long as nobody touches the buffers. *)
LEMMA DataKept ==
  ASSUME HttpInv, SameRequest(conn', conn),
         conn'.sndbuf = conn.sndbuf, conn'.output = conn.output,
         UNCHANGED <<pending, sent, got>>, peer' = "reset" <=> peer = "reset",
         Running' => Running
  PROVE  InputInv' /\ ChannelInv' /\ AnsweredInOrder'
<1>1. AnsweredInOrder'
  BY DEF HttpInv, AnsweredInOrder
<1>2. ChannelInv'
  BY DEF HttpInv, ChannelInv, AnsweredRequests, Channel, SameRequest
<1>3. InputInv'
  BY DEF HttpInv, InputInv, SameRequest, Input, http_read_request_data, FrontRequest
<1> QED
  BY <1>1, <1>2, <1>3

(* The initial state.                                                       *)
LEMMA InitHolds == Init => HttpInv
<1> SUFFICES ASSUME Init PROVE HttpInv
  OBVIOUS
<1>1. EmptyBag \in PollBags
  <2>1. Poll({}) \in Polls
    BY DEF Poll, Polls, Interests
  <2> QED
    BY <2>1, OnePoll
<1>2. <<>> \in Units /\ Len(<<>>) = 0
  BY EmptySeq DEF Units
<1>3. NRequests * RequestLen \in Nat
  BY HttpAssumption
<1>4. TypeInv
  <2>1. {} \in Interests
    BY DEF Interests
  <2>2. Unaccepted \in ConnRecords
    BY <1>1, <1>2, <2>1 DEF ConnRecords, Unaccepted
  <2>3. conn.base = 0 /\ conn.top = 0 /\ conn.sndbuf = <<>>
    BY DEF Init, Unaccepted
  <2>4. Len(conn.sndbuf) <= SndBuf
    BY <1>2, <2>3, HttpAssumption
  <2>5. answering \in BOOLEAN /\ evs \subseteq Bits /\ got \in Units
    BY <1>2 DEF Init
  <2>6. sent \in 0 .. NRequests * RequestLen /\ pending \in 0 .. NRequests
    BY <1>3, HttpAssumption DEF Init
  <2>7. conn \in ConnRecords
    BY <2>2 DEF Init
  <2> QED
    BY <2>3, <2>4, <2>5, <2>6, <2>7 DEF Init, TypeInv
<1>5. /\ ~conn.open /\ conn.state = "NONE" /\ conn.ref = 0 /\ conn.mask = {}
      /\ conn.output = <<>> /\ conn.base = conn.top
      /\ conn = Unaccepted /\ pending = 0 /\ pc = "idle" /\ evs = {} /\ answering = FALSE
      /\ got = <<>>
  BY DEF Init, Unaccepted
<1>6. RefsInv /\ ControlInv /\ ClosedInv /\ InputInv /\ ChannelInv
  BY <1>5 DEF RefsInv, ControlInv, ClosedInv, InputInv, ChannelInv, One, Updating
<1>7. AnsweredInOrder
  <2>1. <<>> \o <<>> \o <<>> = <<>>
    BY <1>2, ConcatEmptySeq DEF Units
  <2> QED
    BY <1>2, <2>1 DEF Init, Unaccepted, AnsweredInOrder
<1> QED
  BY <1>4, <1>6, <1>7 DEF HttpInv

(* A completion is taken or dropped, the polls of its descriptor are queued *)
(* again, or the kernel completes or cancels one.                           *)
LEMMA PollSteps ==
  ASSUME HttpInv, dispatch \/ dispatched \/ dropped \/ poll_complete \/ poll_cancelled
  PROVE  HttpInv' /\ Unnoticed
<1>1. conn \in ConnRecords /\ conn.polls \in PollBags /\ IsABag(conn.polls)
      /\ BagToSet(conn.polls) \subseteq Polls
  BY PollsHeld DEF HttpInv, TypeInv, ConnRecords
<1>2. CASE dispatch
  <2>1. PICK p \in BagToSet(conn.polls) :
          /\ conn' = [conn EXCEPT !.polls = @ (-) SetToBag({p})]
          /\ evs' = p.res
    BY <1>2 DEF dispatch
  <2>2. p \in Polls /\ p.res \subseteq Bits
    BY <1>1, <2>1 DEF Polls
  <2>3. conn.polls (-) SetToBag({p}) \in PollBags
    BY <1>1, <2>2, PollsAdded
  <2>4. conn' \in ConnRecords /\ SameRequest(conn', conn) /\ conn'.mask = conn.mask
        /\ conn'.sndbuf = conn.sndbuf /\ conn'.output = conn.output
    BY <1>1, <2>1, <2>3 DEF ConnRecords, SameRequest
  <2>5. InputInv' /\ ChannelInv' /\ AnsweredInOrder'
    BY <1>2, <2>4, DataKept DEF dispatch, Running
  <2>6. TypeInv'
    BY <1>2, <2>1, <2>2, <2>4 DEF HttpInv, TypeInv, dispatch, SameRequest
  <2>7. RefsInv' /\ ControlInv' /\ ClosedInv'
    BY <1>2, <2>1, <2>2, <2>4
       DEF HttpInv, TypeInv, RefsInv, ControlInv, ClosedInv, dispatch, SameRequest, Running,
           Updating, One, Unaccepted
  <2>8. Unnoticed
    BY <1>2, <2>4 DEF Unnoticed, SameRequest, Channel, dispatch
  <2> QED
    BY <2>5, <2>6, <2>7, <2>8 DEF HttpInv
<1>3. CASE dispatched
  <2>1. Poll(conn.mask) \in Polls
    BY <1>1 DEF Poll, Polls, ConnRecords
  <2>2. conn.polls (+) SetToBag({Poll(conn.mask)}) \in PollBags
    BY <1>1, <2>1, PollsAdded
  <2>3. conn' \in ConnRecords /\ SameRequest(conn', conn) /\ conn'.mask = conn.mask
        /\ conn'.sndbuf = conn.sndbuf /\ conn'.output = conn.output
        /\ (~conn.open => conn' = conn)
    BY <1>1, <1>3, <2>2 DEF dispatched, rearm, ConnRecords, SameRequest
  <2>4. InputInv' /\ ChannelInv' /\ AnsweredInOrder'
    BY <1>3, <2>3, DataKept DEF dispatched, Running
  <2>5. TypeInv'
    BY <1>3, <2>3 DEF HttpInv, TypeInv, dispatched, SameRequest
  <2>6. RefsInv' /\ ControlInv' /\ ClosedInv'
    BY <1>3, <2>3
       DEF HttpInv, TypeInv, RefsInv, ControlInv, ClosedInv, dispatched, SameRequest, Running,
           Updating, One
  <2>7. Unnoticed
    BY <1>3, <2>3 DEF Unnoticed, SameRequest, Channel, dispatched
  <2> QED
    BY <2>4, <2>5, <2>6, <2>7 DEF HttpInv
<1>4. CASE poll_complete
  <2>1. PICK p \in BagToSet(conn.polls) :
          LET res == Readiness \cap (p.events \cup {"CLOSE"}) IN
          conn' = [conn EXCEPT !.polls = (@ (-) SetToBag({p})) (+) SetToBag({[p EXCEPT !.res = res]})]
    BY <1>4 DEF poll_complete
  <2> DEFINE res == Readiness \cap (p.events \cup {"CLOSE"})
             q == [p EXCEPT !.res = res]
             b == (conn.polls (-) SetToBag({p})) (+) SetToBag({q})
  <2>2. p \in Polls /\ res \subseteq Bits
    BY <1>1 DEF Polls, Readiness, Bits
  <2>3. q \in Polls
    BY <2>2 DEF Polls
  <2>4. b \in PollBags
    BY <1>1, <2>2, <2>3, PollsAdded
  <2>5. conn' = [conn EXCEPT !.polls = b]
    BY <1>1, <2>1 DEF ConnRecords
  <2> HIDE DEF b
  <2>6. conn' \in ConnRecords /\ SameRequest(conn', conn) /\ conn'.mask = conn.mask
        /\ conn'.sndbuf = conn.sndbuf /\ conn'.output = conn.output
    BY <1>1, <2>4, <2>5 DEF ConnRecords, SameRequest
  <2>7. InputInv' /\ ChannelInv' /\ AnsweredInOrder'
    BY <1>4, <2>6, DataKept DEF poll_complete, Running
  <2>8. TypeInv'
    BY <1>4, <2>6 DEF HttpInv, TypeInv, poll_complete, SameRequest
  <2>9. conn.state # "NONE"
    <3>1. Unaccepted.polls = EmptyBag /\ BagToSet(EmptyBag) = {}
      BY DEF Unaccepted, BagToSet, EmptyBag, SetToBag
    <3> QED
      BY <3>1 DEF HttpInv, ControlInv
  <2>10. RefsInv' /\ ControlInv' /\ ClosedInv'
    BY <1>4, <2>6, <2>9
       DEF HttpInv, TypeInv, RefsInv, ControlInv, ClosedInv, poll_complete, SameRequest, Running,
           Updating, One, Unaccepted
  <2>11. Unnoticed
    BY <1>4, <2>6 DEF Unnoticed, SameRequest, Channel, poll_complete
  <2> QED
    BY <2>7, <2>8, <2>10, <2>11 DEF HttpInv
<1>5. CASE dropped \/ poll_cancelled
  <2>1. PICK p \in BagToSet(conn.polls), x \in BOOLEAN :
          /\ conn' = [conn EXCEPT !.cancel = x, !.polls = @ (-) SetToBag({p})]
          /\ UNCHANGED <<pending, pc, evs, answering, sent, got, peer>>
    <3>1. conn = [conn EXCEPT !.cancel = conn.cancel] /\ conn.cancel \in BOOLEAN
      BY <1>1 DEF ConnRecords
    <3>2. CASE dropped
      BY <3>1, <3>2 DEF dropped
    <3>3. CASE poll_cancelled
      BY <3>3 DEF poll_cancelled
    <3> QED
      BY <1>5, <3>2, <3>3
  <2>2. conn.polls (-) SetToBag({p}) \in PollBags
    BY <1>1, <2>1, PollsAdded
  <2>3. conn' \in ConnRecords /\ SameRequest(conn', conn) /\ conn'.mask = conn.mask
        /\ conn'.sndbuf = conn.sndbuf /\ conn'.output = conn.output
    BY <1>1, <2>1, <2>2 DEF ConnRecords, SameRequest
  <2>4. InputInv' /\ ChannelInv' /\ AnsweredInOrder'
    BY <2>1, <2>3, DataKept DEF Running
  <2>5. TypeInv'
    BY <2>1, <2>3 DEF HttpInv, TypeInv, SameRequest
  <2>6. conn.state # "NONE"
    <3>1. Unaccepted.polls = EmptyBag /\ BagToSet(EmptyBag) = {}
      BY DEF Unaccepted, BagToSet, EmptyBag, SetToBag
    <3> QED
      BY <2>1, <3>1 DEF HttpInv, ControlInv
  <2>7. RefsInv' /\ ControlInv' /\ ClosedInv'
    BY <2>1, <2>3, <2>6
       DEF HttpInv, TypeInv, RefsInv, ControlInv, ClosedInv, SameRequest, Running, Updating, One
  <2>8. Unnoticed
    BY <2>1, <2>3 DEF Unnoticed, SameRequest, Channel
  <2> QED
    BY <2>4, <2>5, <2>7, <2>8 DEF HttpInv
<1> QED
  BY <1>2, <1>3, <1>4, <1>5

----------------------------------------------------------------------------
(* Steps of the client and the end of the worker                            *)

(* All that was sent, in one sequence.                                      *)
LEMMA AnsweredOrder ==
  ASSUME TypeInv
  PROVE  /\ conn.sndbuf \in Units /\ conn.output \in Units /\ Channel(conn) \in Units
         /\ got \in Units
         /\ AnsweredInOrder <=> InOrder(IF peer = "reset" THEN got ELSE got \o Channel(conn))
<1>1. conn.sndbuf \in Units /\ conn.output \in Units /\ got \in Units
  BY DEF TypeInv, ConnRecords
<1>2. Channel(conn) \in Units
  BY <1>1, Joined DEF Channel
<1>3. got \o conn.sndbuf \o conn.output = got \o Channel(conn)
  <2>1. Groups(got, conn.sndbuf, conn.output)
    BY <1>1, Associative
  <2> QED
    BY <2>1 DEF Groups, Channel
<1> QED
  BY <1>1, <1>2, <1>3 DEF AnsweredInOrder, InOrder

(* A failed assertion, a FIN and another unit of a request.                 *)
LEMMA QuietSteps ==
  ASSUME HttpInv, assert_fails \/ client_shutdown \/ client_send
  PROVE  HttpInv'
<1>1. CASE assert_fails
  <2>1. InputInv' /\ ChannelInv' /\ AnsweredInOrder'
    BY <1>1, DataKept DEF assert_fails, Abort, SameRequest, Running
  <2>2. TypeInv' /\ RefsInv' /\ ControlInv' /\ ClosedInv'
    BY <1>1 DEF assert_fails, Abort, HttpInv, TypeInv, RefsInv, ControlInv, ClosedInv, Running,
                Event
  <2> QED
    BY <2>1, <2>2 DEF HttpInv
<1>2. CASE client_shutdown
  <2>1. InputInv' /\ ChannelInv' /\ AnsweredInOrder'
    BY <1>2, DataKept DEF client_shutdown, SameRequest, Running
  <2>2. TypeInv' /\ RefsInv' /\ ControlInv' /\ ClosedInv'
    BY <1>2 DEF client_shutdown, HttpInv, TypeInv, RefsInv, ControlInv, ClosedInv, Running,
                Updating
  <2> QED
    BY <2>1, <2>2 DEF HttpInv
<1>3. CASE client_send
  <2> DEFINE all == NRequests * RequestLen
  <2>1. all \in Nat
    BY HttpAssumption
  <2> HIDE DEF all
  <2>2. sent \in 0 .. all /\ sent < all /\ sent' = sent + 1
    BY <1>3 DEF HttpInv, TypeInv, client_send, all
  <2>3. sent' \in 0 .. all
    BY <2>1, <2>2
  <2>4. conn.top \in Nat /\ conn.top <= sent'
    BY <2>2 DEF HttpInv, TypeInv, ConnRecords
  <2>5. TypeInv'
    BY <1>3, <2>3, <2>4 DEF client_send, HttpInv, TypeInv, all
  <2>6. RefsInv' /\ ControlInv' /\ ClosedInv' /\ ChannelInv' /\ AnsweredInOrder'
    BY <1>3 DEF client_send, HttpInv, RefsInv, ControlInv, ClosedInv, ChannelInv, AnsweredInOrder,
                Running, Updating, AnsweredRequests
  <2>7. InputInv'
    <3> DEFINE due == pending * RequestLen
    <3>1. pending \in Nat /\ due \in Int
      BY HttpAssumption DEF HttpInv, TypeInv
    <3>2. due <= sent => due <= sent'
      <4> HIDE DEF due
      <4> QED
        BY <2>2, <3>1
    <3> QED
      BY <1>3, <3>2 DEF client_send, HttpInv, InputInv, Running, Input, http_read_request_data,
                        FrontRequest
  <2> QED
    BY <2>5, <2>6, <2>7 DEF HttpInv
<1> QED
  BY <1>1, <1>2, <1>3

(* The client takes a unit, or resets the connection.                       *)
LEMMA ClientSteps ==
  ASSUME HttpInv, client_recv \/ client_reset
  PROVE  HttpInv'
<1> USE DEF HttpInv
<1>1. CASE client_recv
  <2> DEFINE h == Append(got, Head(conn.sndbuf))
             r == Tail(conn.sndbuf)
  <2>1. /\ conn.sndbuf \in Units /\ conn.output \in Units /\ got \in Units
        /\ conn.sndbuf # <<>> /\ conn' = [conn EXCEPT !.sndbuf = r] /\ got' = h
        /\ conn \in ConnRecords /\ peer' = peer /\ peer # "reset"
    BY <1>1, AnsweredOrder DEF client_recv, TypeInv, ConnRecords
  <2>2. /\ h \in Units /\ Len(h) = Len(got) + 1 /\ r \in Units /\ Len(r) = Len(conn.sndbuf) - 1
        /\ h \o (r \o conn.output) = got \o Channel(conn)
    <3>1. PICK g \in Units : g = got
      BY <2>1
    <3>2. PICK t \in Units : t = conn.sndbuf
      BY <2>1
    <3>3. PICK u \in Units : u = conn.output
      BY <2>1
    <3>4. t # <<>>
      BY <2>1, <3>2
    <3>5. /\ Append(g, Head(t)) \in Units /\ Len(Append(g, Head(t))) = Len(g) + 1
          /\ Tail(t) \in Units /\ Len(Tail(t)) = Len(t) - 1
          /\ Append(g, Head(t)) \o (Tail(t) \o u) = g \o (t \o u)
      <4>1. Passes(g, t, u)
        BY <3>4, PassedOn
      <4> QED
        BY <4>1 DEF Passes
    <3>6. h = Append(g, Head(t)) /\ r = Tail(t) /\ Channel(conn) = t \o u
      BY <3>1, <3>2, <3>3 DEF Channel
    <3> HIDE DEF HttpInv, h, r
    <3> QED
      BY <3>1, <3>2, <3>3, <3>5, <3>6
  <2> HIDE DEF h, r
  <2>3. /\ conn' \in ConnRecords /\ SameRequest(conn', conn) /\ conn'.sndbuf = r
        /\ conn'.output = conn.output /\ conn'.mask = conn.mask /\ conn'.polls = conn.polls
    BY <2>1, <2>2 DEF ConnRecords, SameRequest
  <2>4. Len(r) <= SndBuf
    <3> DEFINE n == Len(conn.sndbuf)
    <3>1. n <= SndBuf /\ n \in Nat /\ Len(r) = n - 1 /\ SndBuf \in Nat
      BY <2>1, <2>2, Joined, HttpAssumption DEF TypeInv
    <3> HIDE DEF n
    <3> QED
      BY <3>1
  <2>5. TypeInv'
    BY <1>1, <2>1, <2>2, <2>3, <2>4 DEF TypeInv, client_recv, SameRequest
  <2>6. RefsInv' /\ ControlInv' /\ ClosedInv' /\ InputInv'
    <3>1. RefsInv' /\ ClosedInv'
      BY <1>1, <2>3 DEF RefsInv, ClosedInv, client_recv, SameRequest, Running, Updating
    <3>2. conn.state # "NONE"
      BY <2>1 DEF ControlInv, Unaccepted
    <3>3. ControlInv'
      BY <1>1, <2>3, <3>2 DEF ControlInv, client_recv, SameRequest, Running, Updating
    <3>4. InputInv'
      BY <1>1, <2>3 DEF InputInv, client_recv, SameRequest, Running, Input,
                        http_read_request_data, FrontRequest
    <3> QED
      BY <3>1, <3>3, <3>4
  <2>7. Channel(conn') = r \o conn.output /\ Channel(conn') \in Units
    BY <2>1, <2>2, <2>3, Joined DEF Channel
  <2>8. got' \o Channel(conn)' = got \o Channel(conn)
    BY <2>1, <2>2, <2>7
  <2>9. ChannelInv'
    <3>1. Len(got') + Len(Channel(conn)') = Len(got) + Len(Channel(conn))
      <4>1. Len(h \o Channel(conn')) = Len(h) + Len(Channel(conn'))
        BY <2>2, <2>7, Joined
      <4>2. Len(got \o Channel(conn)) = Len(got) + Len(Channel(conn))
        BY <2>1, AnsweredOrder, Joined
      <4> QED
        BY <2>1, <2>8, <4>1, <4>2
    <3> QED
      BY <1>1, <2>3, <3>1 DEF ChannelInv, client_recv, SameRequest, Running, AnsweredRequests
  <2>10. AnsweredInOrder'
    <3>1. InOrder(got \o Channel(conn))
      BY <2>1, AnsweredOrder
    <3>2. InOrder(got' \o Channel(conn)') /\ peer' # "reset"
      BY <2>1, <2>8, <3>1
    <3> QED
      <4>1. (TypeInv => (AnsweredInOrder <=>
               InOrder(IF peer = "reset" THEN got ELSE got \o Channel(conn))))'
        BY AnsweredOrder, PTL
      <4> QED
        BY <2>5, <3>2, <4>1 DEF InOrder
  <2> QED
    BY <2>5, <2>6, <2>9, <2>10
<1>2. CASE client_reset
  <2>1. <<>> \in Units /\ Len(<<>>) = 0
    BY EmptySeq DEF Units
  <2>2. /\ conn \in ConnRecords /\ conn' = [conn EXCEPT !.sndbuf = <<>>]
        /\ peer' = "reset" /\ peer # "reset" /\ got' = got
    BY <1>2 DEF client_reset, TypeInv
  <2>3. /\ conn' \in ConnRecords /\ SameRequest(conn', conn) /\ conn'.sndbuf = <<>>
        /\ conn'.output = conn.output /\ conn'.mask = conn.mask /\ conn'.polls = conn.polls
        /\ (conn.state = "NONE" => conn' = conn)
    BY <2>1, <2>2 DEF ConnRecords, SameRequest, ControlInv, Unaccepted
  <2>4. Len(conn'.sndbuf) <= SndBuf
    BY <2>1, <2>3, HttpAssumption
  <2>5. TypeInv'
    BY <1>2, <2>3, <2>4 DEF TypeInv, client_reset, SameRequest
  <2>6. RefsInv' /\ ClosedInv' /\ InputInv' /\ ChannelInv'
    BY <1>2, <2>3 DEF RefsInv, ClosedInv, InputInv, ChannelInv, client_reset, SameRequest, Running,
                      Updating, Input, http_read_request_data, FrontRequest
  <2>7. ControlInv'
    BY <1>2, <2>3 DEF ControlInv, client_reset, SameRequest, Running, Updating
  <2>8. AnsweredInOrder'
    <3>1. InOrder(got \o Channel(conn)) /\ got \in Units /\ Channel(conn) \in Units
      BY <2>2, AnsweredOrder
    <3>2. InOrder(got)
      BY <3>1, OrderOfPrefix
    <3> QED
      BY <2>2, <3>2 DEF AnsweredInOrder, InOrder
  <2> QED
    BY <2>5, <2>6, <2>7, <2>8
<1> QED
  BY <1>1, <1>2

(* A connection is accepted.                                                *)
LEMMA AcceptStep ==
  ASSUME HttpInv, server_socket_accept
  PROVE  HttpInv'
<1> DEFINE b == SetToBag({Poll({"READ"})})
<1>1. b \in PollBags
  <2>1. Poll({"READ"}) \in Polls
    BY DEF Poll, Polls, Interests
  <2> QED
    BY <2>1, OnePoll
<1> HIDE DEF b
<1>2. conn = Unaccepted /\ got = <<>> /\ pc = "idle" /\ pending = 0 /\ ~answering /\ evs = {}
  BY DEF HttpInv, ControlInv, server_socket_accept
<1>3. conn' = [open |-> TRUE, mask |-> {"READ"}, polls |-> b, cancel |-> FALSE,
               base |-> 0, top |-> 0, output |-> <<>>, sndbuf |-> <<>>,
               state |-> "NEED_MORE_DATA", ref |-> 1, event_triggered |-> FALSE,
               consumed_bytes |-> 0]
  BY DEF server_socket_accept, Unaccepted, b
<1>4. <<>> \in Units /\ Len(<<>>) = 0
  BY EmptySeq DEF Units
<1>5. {"READ"} \in Interests
  BY DEF Interests
<1>6. conn' \in ConnRecords
  BY <1>1, <1>3, <1>4, <1>5 DEF ConnRecords
<1>7. /\ conn'.open /\ conn'.base = 0 /\ conn'.top = 0 /\ conn'.output = <<>>
      /\ conn'.sndbuf = <<>> /\ conn'.state = "NEED_MORE_DATA" /\ conn'.ref = 1
      /\ conn'.consumed_bytes = 0
  BY <1>3
<1>8. UNCHANGED <<pending, pc, evs, answering, sent, got, peer>>
  BY DEF server_socket_accept
<1>9. TypeInv'
  <2>1. Len(conn'.sndbuf) <= SndBuf
    BY <1>4, <1>7, HttpAssumption
  <2>2. sent \in Nat
    BY HttpAssumption DEF HttpInv, TypeInv
  <2> QED
    BY <1>6, <1>7, <1>8, <2>1, <2>2 DEF HttpInv, TypeInv
<1>10. RefsInv' /\ ControlInv' /\ ClosedInv'
  BY <1>2, <1>7, <1>8 DEF RefsInv, ControlInv, ClosedInv, Running, Updating, One
<1>11. InputInv'
  <2>1. 0 % RequestLen = 0 /\ 0 \div RequestLen = 0
    BY HttpAssumption
  <2> QED
    BY <1>2, <1>7, <1>8, <2>1 DEF InputInv, Input
<1>12. ChannelInv' /\ AnsweredInOrder'
  <2>1. <<>> \o <<>> = <<>>
    BY <1>4, ConcatEmptySeq DEF Units
  <2>2. 0 \div RequestLen = 0 /\ 0 * ResponseLen = 0
    BY HttpAssumption
  <2>3. Channel(conn') = <<>>
    BY <1>7, <2>1 DEF Channel
  <2>4. ChannelInv'
    <3>1. AnsweredRequests' = 0
      BY <1>2, <1>7, <1>8, <2>2 DEF AnsweredRequests
    <3>2. Len(got') = 0 /\ Len(Channel(conn)') = 0
      BY <1>2, <1>4, <1>8, <2>3
    <3> QED
      BY <2>2, <3>1, <3>2 DEF ChannelInv
  <2>5. AnsweredInOrder'
    BY <1>2, <1>4, <1>7, <1>8, <2>1 DEF AnsweredInOrder
  <2> QED
    BY <2>4, <2>5
<1> QED
  BY <1>9, <1>10, <1>11, <1>12 DEF HttpInv

----------------------------------------------------------------------------
(* Steps of the worker                                                      *)

(* Closing takes the reference of the connection; only once.                *)
LEMMA ServerCloseFacts ==
  ASSUME NEW c \in ConnRecords, c.ref > 0
  PROVE  LET d == server_close(c) IN
         /\ d \in ConnRecords
         /\ c.state = "CLOSED" => d = c
         /\ c.state # "CLOSED" =>
              /\ d.state = "CLOSED" /\ d.ref = c.ref - 1
              /\ d.top = c.top /\ d.sndbuf = c.sndbuf
              /\ c.open => Shut(d)
<1>1. CASE c.state = "CLOSED"
  BY <1>1 DEF server_close
<1>2. CASE c.state # "CLOSED"
  <2> DEFINE a == stream_close(c)
             b == [a EXCEPT !.state = "CLOSED"]
             d == server_release(b)
  <2>1. /\ a \in ConnRecords /\ a.top = c.top /\ a.ref = c.ref /\ a.sndbuf = c.sndbuf
        /\ c.open => Shut(a)
        /\ ~c.open => a = c
    BY CloseFacts
  <2>2. server_close(c) = d
    BY <1>2 DEF server_close
  <2> HIDE DEF a
  <2>3. /\ b \in ConnRecords /\ b.top = c.top /\ b.ref = c.ref /\ b.sndbuf = c.sndbuf
        /\ b.state = "CLOSED" /\ ~b.open
        /\ c.open => Shut(b)
    <3>1. ~a.open
      BY <2>1 DEF Shut
    <3> QED
      BY <2>1, <3>1 DEF ConnRecords, Shut
  <2> HIDE DEF b
  <2>4. stream_close(b) = b
    BY <2>3, CloseFacts
  <2>5. /\ d \in ConnRecords /\ d.ref = b.ref - 1
        /\ b.ref > 1 => d = [b EXCEPT !.ref = @ - 1]
        /\ b.ref = 1 => d = [b EXCEPT !.ref = 0]
    BY <2>3, <2>4, ReleaseFacts
  <2>6. d = [b EXCEPT !.ref = d.ref]
    <3>1. b.ref \in Nat /\ b.ref > 0
      BY <2>3 DEF ConnRecords
    <3> HIDE DEF d
    <3>2. b.ref > 1 \/ b.ref = 1
      BY <3>1
    <3>3. d.ref = b.ref - 1
      BY <2>5
    <3> QED
      BY <2>3, <2>5, <3>2, <3>3 DEF ConnRecords
  <2> HIDE DEF d
  <2>7. d.state = b.state /\ d.top = b.top /\ d.sndbuf = b.sndbuf /\ (Shut(b) => Shut(d))
    BY <2>3, <2>6 DEF ConnRecords, Shut
  <2> QED
    BY <1>2, <2>2, <2>3, <2>5, <2>7
<1> QED
  BY <1>1, <1>2

(* What the channel holds is in order if it is the beginning of something   *)
(* that continues in order what the client has read.                        *)
LEMMA OrderFrom ==
  ASSUME TypeInv, TypeInv', AnsweredInOrder, got' = got, peer' = peer,
         NEW u \in Units, NEW v \in Units, Channel(conn') \o u = v,
         peer # "reset" => InOrder(got \o v)
  PROVE  AnsweredInOrder'
<1>1. got \in Units /\ (peer = "reset" => InOrder(got))
  BY AnsweredOrder
<1>2. /\ Channel(conn)' \in Units
      /\ AnsweredInOrder' <=> InOrder(IF peer' = "reset" THEN got' ELSE got' \o Channel(conn)')
  <2>1. (TypeInv => /\ Channel(conn) \in Units
                    /\ AnsweredInOrder <=>
                         InOrder(IF peer = "reset" THEN got ELSE got \o Channel(conn)))'
    BY AnsweredOrder, PTL
  <2> QED
    BY <2>1 DEF InOrder
<1>3. CASE peer = "reset"
  BY <1>1, <1>2, <1>3
<1>4. CASE peer # "reset"
  <2> DEFINE w == Channel(conn')
  <2>1. w \in Units
    BY <1>2
  <2> HIDE DEF w
  <2>2. got \o w \in Units
    BY <1>1, <2>1, Joined
  <2>3. (got \o w) \o u = got \o (w \o u)
    <3>1. PICK g \in Units : g = got
      BY <1>1
    <3>2. Groups(g, w, u)
      BY <2>1, Associative
    <3> QED
      BY <3>1, <3>2 DEF Groups
  <2>4. InOrder((got \o w) \o u)
    BY <1>4, <2>3 DEF w
  <2>5. InOrder(got \o w)
    BY <2>2, <2>4, OrderOfPrefix
  <2> QED
    BY <1>2, <1>4, <2>5 DEF w
<1> QED
  BY <1>3, <1>4

(* In particular if the channel stays or loses its end.                     *)
LEMMA OrderKept ==
  ASSUME TypeInv, TypeInv', AnsweredInOrder, got' = got, peer' = peer,
         NEW u \in Units, Channel(conn') \o u = Channel(conn)
  PROVE  AnsweredInOrder'
<1>1. Channel(conn) \in Units /\ (peer # "reset" => InOrder(got \o Channel(conn)))
  BY AnsweredOrder
<1> QED
  BY <1>1, OrderFrom

(* The empty sequence is no change.                                         *)
LEMMA NothingLost ==
  <<>> \in Units /\ \A s \in Units : s \o <<>> = s
BY EmptySeq, ConcatEmptySeq DEF Units

(* server_request_update takes its reference and starts to read.            *)
LEMMA UpdateFacts ==
  ASSUME NEW c \in ConnRecords
  PROVE  LET d == update_begin(c) IN
         /\ d \in ConnRecords /\ d.state = "READ" /\ d.ref = c.ref + 1
         /\ d.consumed_bytes = 0
         /\ d.open = c.open /\ d.base = c.base /\ d.top = c.top
         /\ d.mask = c.mask /\ d.polls = c.polls
         /\ d.output = c.output /\ d.sndbuf = c.sndbuf
<1>1. c.ref + 1 \in Nat
  BY DEF ConnRecords
<1>2. update_begin(c) = [c EXCEPT !.ref = c.ref + 1, !.event_triggered = TRUE,
                                  !.consumed_bytes = 0, !.state = "READ"]
  BY DEF update_begin, server_hold, ConnRecords
<1> DEFINE d == update_begin(c)
<1>3. d = [c EXCEPT !.ref = c.ref + 1, !.event_triggered = TRUE,
                    !.consumed_bytes = 0, !.state = "READ"]
  BY <1>2
<1> HIDE DEF d
<1>4. d \in ConnRecords
  BY <1>1, <1>3 DEF ConnRecords
<1>5. /\ d.state = "READ" /\ d.ref = c.ref + 1 /\ d.consumed_bytes = 0
      /\ d.open = c.open /\ d.base = c.base /\ d.top = c.top
      /\ d.mask = c.mask /\ d.polls = c.polls
      /\ d.output = c.output /\ d.sndbuf = c.sndbuf
  BY <1>3 DEF ConnRecords
<1> QED
  BY <1>4, <1>5 DEF d

(* New data is read, and server_request_update called if there is something *)
(* to do.                                                                   *)
LEMMA ReadEvent ==
  ASSUME HttpInv, on_read
  PROVE  HttpInv' /\ Unnoticed
<1> DEFINE c == [conn EXCEPT !.top = sent]
           begins == sent > conn.top /\ UpdateDue(c)
<1>1. /\ pc = "event" /\ conn.ref > 0 /\ "READ" \in evs /\ evs' = evs \ {"READ"}
      /\ UNCHANGED <<pending, answering, sent, got, peer>>
      /\ IF begins THEN conn' = update_begin(c) /\ pc' = "read" ELSE conn' = c /\ pc' = pc
  BY DEF on_read, Event
<1>2. conn.open /\ conn.state \notin {"NONE", "CLOSED", "READ"} /\ ~answering /\ Running
  BY <1>1 DEF HttpInv, ControlInv, TypeInv, Running, Updating
<1>3. conn \in ConnRecords /\ sent \in Nat /\ conn.base <= conn.top /\ conn.top <= sent
  <2>1. NRequests * RequestLen \in Nat
    BY HttpAssumption
  <2> QED
    BY <2>1 DEF HttpInv, TypeInv
<1>4. /\ c \in ConnRecords /\ c.top = sent /\ c.open = conn.open /\ c.base = conn.base
      /\ c.state = conn.state /\ c.ref = conn.ref /\ c.consumed_bytes = conn.consumed_bytes
      /\ c.mask = conn.mask /\ c.polls = conn.polls /\ c.output = conn.output
      /\ c.sndbuf = conn.sndbuf
  BY <1>3 DEF ConnRecords
<1>5. /\ conn' \in ConnRecords /\ conn'.top = sent /\ conn'.open /\ conn'.base = conn.base
      /\ conn'.output = conn.output /\ conn'.sndbuf = conn.sndbuf
      /\ IF begins THEN /\ conn'.state = "READ" /\ conn'.ref = conn.ref + 1
                        /\ conn'.consumed_bytes = 0
         ELSE /\ conn'.state = conn.state /\ conn'.ref = conn.ref
              /\ conn'.consumed_bytes = conn.consumed_bytes
  <2>1. CASE begins
    <3> DEFINE d == update_begin(c)
    <3>1. conn' = d /\ c \in ConnRecords
      BY <1>1, <1>4, <2>1
    <3> HIDE DEF c
    <3>2. /\ d \in ConnRecords /\ d.ref = c.ref + 1 /\ d.state = "READ" /\ d.consumed_bytes = 0
          /\ d.open = c.open /\ d.base = c.base /\ d.top = c.top
          /\ d.output = c.output /\ d.sndbuf = c.sndbuf
      BY <3>1, UpdateFacts
    <3> HIDE DEF d
    <3> QED
      BY <1>2, <1>4, <2>1, <3>1, <3>2
  <2>2. CASE ~begins
    BY <1>1, <1>2, <1>4, <2>2
  <2> QED
    BY <2>1, <2>2
<1>6. begins => conn.state = "NEED_MORE_DATA" /\ pending = 0
  BY <1>2, <1>4 DEF UpdateDue, HttpInv, ControlInv
<1> HIDE DEF c
<1>7. ~begins => conn'.state # "NEED_MORE_DATA" \/ sent = conn.top
  <2> SUFFICES ASSUME ~begins, conn'.state = "NEED_MORE_DATA" PROVE sent = conn.top
    OBVIOUS
  <2>1. sent <= conn.top \/ Input(c) <= 0
    <3>1. Input(c) \in Int
      BY <1>3, <1>4 DEF Input, ConnRecords
    <3> QED
      BY <1>3, <1>4, <1>5, <3>1 DEF UpdateDue, ConnRecords
  <2>2. Input(c) = sent - conn.base
    BY <1>4 DEF Input
  <2> QED
    BY <1>3, <2>1, <2>2 DEF ConnRecords
<1> HIDE DEF begins
<1>8. TypeInv'
  BY <1>1, <1>3, <1>5 DEF HttpInv, TypeInv, ConnRecords
<1>9. RefsInv'
  BY <1>1, <1>2, <1>5, <1>6 DEF HttpInv, RefsInv, Running, Updating, One
<1>10. ControlInv' /\ ClosedInv'
  BY <1>1, <1>2, <1>5, <1>6 DEF HttpInv, ControlInv, ClosedInv, Running, Updating
<1>11. InputInv'
  <2>1. CASE begins
    BY <1>1, <1>2, <1>5, <1>6, <2>1 DEF HttpInv, InputInv, Running
  <2>2. CASE ~begins
    <3>1. conn'.state = "NEED_MORE_DATA" =>
            conn'.top = conn.top /\ conn'.base = conn.base
      BY <1>5, <1>7, <2>2
    <3>2. conn'.state = "NEED_MORE_DATA" =>
            Input(conn') = 0 \/ http_read_request_data(conn') = -2
      BY <1>2, <1>5, <2>2, <3>1
         DEF HttpInv, InputInv, Running, Input, http_read_request_data, FrontRequest
    <3>3. conn'.consumed_bytes # 0 => Input(conn') >= RequestLen
      <4>1. conn.consumed_bytes # 0 => conn.top - conn.base >= RequestLen
        BY <1>2 DEF HttpInv, InputInv, Running, Input
      <4> QED
        BY <1>3, <1>5, <2>2, <4>1, HttpAssumption DEF ConnRecords, Input
    <3> QED
      BY <1>1, <1>2, <1>5, <2>2, <3>2, <3>3 DEF HttpInv, InputInv, Running
  <2> QED
    BY <2>1, <2>2
<1>12. ChannelInv'
  BY <1>1, <1>2, <1>5 DEF HttpInv, ChannelInv, Running, Channel, AnsweredRequests
<1>13. AnsweredInOrder'
  BY <1>1, <1>5 DEF HttpInv, AnsweredInOrder
<1>14. Unnoticed
  BY <1>1, <1>2, <1>5 DEF Unnoticed, Channel
<1> QED
  BY <1>8, <1>9, <1>10, <1>11, <1>12, <1>13, <1>14 DEF HttpInv

(* What is left of the output is sent; a socket that takes all of it, or    *)
(* that has ended, closes the connection.                                   *)
LEMMA WriteAndCloseEvents ==
  ASSUME HttpInv, on_write \/ on_close
  PROVE  HttpInv' /\ (Unnoticed \/ ClosedWith(Channel(conn)))
<1> DEFINE c == IF on_write THEN stream_flush(conn) ELSE conn
<1>1. /\ pc = "event" /\ conn.ref > 0
      /\ UNCHANGED <<pending, pc, answering, sent, got, peer>>
      /\ IF on_write THEN /\ evs' = evs \ {"WRITE"} /\ "WRITE" \in evs /\ "READ" \notin evs
                          /\ conn' = IF c.output = <<>> THEN server_close(c) ELSE c
         ELSE /\ evs' = evs \ {"CLOSE"} /\ "READ" \notin evs /\ "WRITE" \notin evs
              /\ conn' = server_close(c)
  <2>1. CASE on_write
    BY <2>1 DEF on_write, Event, Before, stream_flush
  <2>2. CASE ~on_write
    BY <2>2 DEF on_close, Event, Before
  <2> QED
    BY <2>1, <2>2
<1>2. /\ conn \in ConnRecords /\ Len(conn.sndbuf) <= SndBuf /\ Running /\ ~answering
      /\ evs \subseteq {"READ", "WRITE", "CLOSE"}
  BY <1>1 DEF HttpInv, TypeInv, ControlInv, Running, Updating, Bits
<1>3. /\ c \in ConnRecords /\ SameRequest(c, conn)
      /\ Len(c.sndbuf) <= SndBuf /\ Channel(c) = Channel(conn)
  <2>1. SameRequest(conn, conn)
    BY DEF SameRequest
  <2> QED
    BY <1>2, <2>1, FlushFacts
<1>4. conn.open => conn.state \notin {"NONE", "CLOSED", "READ"}
  BY <1>1, <1>2 DEF HttpInv, ControlInv
<1>5. ~conn.open => ~on_write /\ conn.state = "CLOSED"
  BY <1>1, <1>2 DEF HttpInv, ControlInv
<1> HIDE DEF c
<1>6. CASE conn' = c /\ on_write
  <2>1. conn.open
    BY <1>5, <1>6
  <2>2. TypeInv'
    BY <1>1, <1>2, <1>3, <1>6 DEF HttpInv, TypeInv, SameRequest
  <2>3. RefsInv' /\ ControlInv' /\ ClosedInv'
    BY <1>1, <1>2, <1>3, <1>4, <1>6, <2>1
       DEF HttpInv, RefsInv, ControlInv, ClosedInv, SameRequest, Running, Updating
  <2>4. InputInv' /\ ChannelInv'
    BY <1>1, <1>2, <1>3, <1>6
       DEF HttpInv, InputInv, ChannelInv, SameRequest, Running, Input, http_read_request_data,
           FrontRequest, AnsweredRequests
  <2>5. AnsweredInOrder'
    <3>1. Channel(conn') \in Units
      BY <1>3, <1>6, Joined DEF ConnRecords, Channel
    <3> QED
      BY <1>1, <1>3, <1>6, <2>2, <3>1, NothingLost, OrderKept DEF HttpInv
  <2>6. Unnoticed
    BY <1>1, <1>3, <1>6 DEF Unnoticed, SameRequest
  <2> QED
    BY <2>2, <2>3, <2>4, <2>5, <2>6 DEF HttpInv
<1>7. CASE conn' = server_close(c) /\ conn.open
  <2>1. /\ conn' \in ConnRecords /\ Shut(conn') /\ conn'.state = "CLOSED"
        /\ conn'.ref = conn.ref - 1 /\ conn'.top = conn.top /\ conn'.sndbuf = c.sndbuf
    BY <1>1, <1>3, <1>4, <1>7, ServerCloseFacts DEF SameRequest
  <2>4. evs' \subseteq {"CLOSE"}
    BY <1>1, <1>2
  <2>2. TypeInv'
    <3>1. conn'.base <= conn'.top
      BY <2>1 DEF Shut, ConnRecords
    <3> QED
      BY <1>1, <1>2, <1>3, <2>1, <2>4, <3>1 DEF HttpInv, TypeInv, Bits
  <2>3. RefsInv'
    BY <1>1, <1>2, <1>4, <1>7, <2>1 DEF HttpInv, TypeInv, RefsInv, Running, Updating, One, ConnRecords
  <2>5. ControlInv' /\ ClosedInv' /\ InputInv' /\ ChannelInv'
    BY <1>1, <1>2, <2>1, <2>4
       DEF HttpInv, ControlInv, ClosedInv, InputInv, ChannelInv, Running, Updating, Shut
  <2>6. Channel(conn') = c.sndbuf /\ c.sndbuf \in Units /\ c.output \in Units
    BY <1>3, <2>1, NothingLost DEF Channel, Shut, ConnRecords
  <2>7. Channel(conn') \o c.output = Channel(conn)
    BY <1>3, <2>6 DEF Channel
  <2>8. AnsweredInOrder'
    BY <1>1, <2>2, <2>6, <2>7, OrderKept DEF HttpInv
  <2>9. ClosedWith(Channel(conn))
    BY <1>1, <1>7, <2>1, <2>6, <2>7 DEF ClosedWith, Shut
  <2> QED
    BY <2>2, <2>3, <2>5, <2>8, <2>9 DEF HttpInv
<1>8. CASE ~conn.open
  <2>1. conn' = conn
    BY <1>1, <1>2, <1>5, <1>8, ServerCloseFacts DEF c
  <2>2. InputInv' /\ ChannelInv' /\ AnsweredInOrder'
    BY <1>1, <2>1, DataKept DEF SameRequest, Running
  <2>3. TypeInv' /\ RefsInv' /\ ControlInv' /\ ClosedInv'
    BY <1>1, <1>2, <2>1 DEF HttpInv, TypeInv, RefsInv, ControlInv, ClosedInv, Running, Updating, Bits
  <2>4. Unnoticed
    BY <1>1, <2>1 DEF Unnoticed
  <2> QED
    BY <2>2, <2>3, <2>4 DEF HttpInv
<1> QED
  BY <1>1, <1>6, <1>7, <1>8

(* The response to the request whose turn it is continues in order.         *)
LEMMA OrderAnswered ==
  ASSUME HttpInv, Running, conn.open, peer # "reset",
         NEW k \in 1 .. NRequests, k = AnsweredRequests + 1
  PROVE  /\ Channel(conn) \o Response(k) \in Units
         /\ InOrder(got \o (Channel(conn) \o Response(k)))
         /\ Len(got) + Len(Channel(conn) \o Response(k)) = k * ResponseLen
<1> DEFINE c == Channel(conn)
           r == Response(k)
           s == got \o c
           a == AnsweredRequests
<1>1. got \in Units /\ c \in Units /\ r \in Units /\ InOrder(s) /\ Len(r) = ResponseLen
  BY AnsweredOrder, ResponseUnits DEF HttpInv
<1>2. Len(got) + Len(c) = a * ResponseLen
  BY DEF HttpInv, ChannelInv
<1> HIDE DEF c, r, a
<1>3. s \in Units /\ Len(s) = Len(got) + Len(c) /\ c \o r \in Units
      /\ Len(c \o r) = Len(c) + Len(r) /\ Len(c) \in Nat /\ Len(got) \in Nat
  BY <1>1, Joined
<1>4. (got \o c) \o r = got \o (c \o r)
  <2>1. PICK g \in Units : g = got
    BY <1>1
  <2>2. c \in Units /\ r \in Units
    BY <1>1
  <2>3. Groups(g, c, r)
    BY <2>2, Associative
  <2> QED
    BY <2>1, <2>3 DEF Groups
<1>5. a \in Nat /\ a + 1 = k
  <2>1. pending = 0 => conn.base \div RequestLen \in Nat
    BY HttpAssumption, ModZero DEF HttpInv, TypeInv, ConnRecords, InputInv
  <2>2. pending \in Nat
    BY HttpAssumption DEF HttpInv, TypeInv
  <2> QED
    BY <2>1, <2>2 DEF a, AnsweredRequests
<1>6. InOrder(s \o r) /\ Len(s \o r) = k * ResponseLen
  <2>1. PICK t \in Units : t = s
    BY <1>3
  <2>2. PICK i \in Nat : i = a
    BY <1>5
  <2>3. Len(t) = i * ResponseLen
    BY <1>2, <1>3, <2>1, <2>2
  <2>4. InOrder(t)
    BY <1>1, <2>1
  <2>5. i + 1 = k
    BY <1>5, <2>2
  <2>6. i + 1 \in 1 .. NRequests
    BY <2>5
  <2>7. InOrder(t \o Response(i + 1)) /\ Len(t \o Response(i + 1)) = (i + 1) * ResponseLen
    BY <2>3, <2>4, <2>6, OrderExtended
  <2> QED
    BY <2>1, <2>5, <2>7 DEF r
<1>7. Len(got \o (c \o r)) = Len(got) + Len(c \o r)
  BY <1>1, <1>3, Joined
<1> QED
  BY <1>3, <1>4, <1>6, <1>7 DEF c, r

(* Releasing what is closed, or still used, only counts.                    *)
LEMMA ReleaseCounts ==
  ASSUME NEW c \in ConnRecords, c.ref > 0, c.ref > 1 \/ ~c.open
  PROVE  LET d == server_release(c) IN
         /\ d \in ConnRecords /\ d.ref = c.ref - 1
         /\ d = [c EXCEPT !.ref = c.ref - 1]
<1>1. c.ref \in Nat
  BY DEF ConnRecords
<1>2. CASE c.ref > 1
  BY <1>1, <1>2, ReleaseFacts DEF ConnRecords
<1>3. CASE c.ref = 1
  <2>1. stream_close(c) = c
    BY <1>3, CloseFacts
  <2> QED
    BY <1>1, <1>3, <2>1, ReleaseFacts DEF ConnRecords
<1> QED
  BY <1>1, <1>2, <1>3

(* What the input holds when the worker comes to read it.                   *)
LEMMA FrontFacts ==
  ASSUME HttpInv, pc = "read"
  PROVE  LET k == FrontRequest(conn)
             n == http_read_request_data(conn)
         IN /\ conn \in ConnRecords /\ conn.open /\ conn.state = "READ" /\ pending = 0
            /\ conn.consumed_bytes = 0 /\ Running
            /\ conn.ref = 2 + One(answering)
            /\ k \in Nat \ {0} /\ conn.base = (k - 1) * RequestLen /\ k = AnsweredRequests + 1
            /\ Input(conn) \in Nat
            /\ Input(conn) > 0 => k \in 1 .. NRequests
            /\ n \in {-1, -2, RequestLen}
            /\ n = -1 => k \in Bad
            /\ n = RequestLen => k \notin Bad /\ Input(conn) >= RequestLen /\ k * RequestLen <= sent
<1>1. /\ conn \in ConnRecords /\ conn.open /\ conn.state = "READ" /\ pending = 0
      /\ conn.consumed_bytes = 0 /\ Running /\ conn.base % RequestLen = 0
      /\ conn.base <= conn.top /\ conn.top <= sent /\ sent \in 0 .. NRequests * RequestLen
  BY DEF HttpInv, TypeInv, ControlInv, InputInv, Running
<1>2. conn.ref = 2 + One(answering)
  BY <1>1 DEF HttpInv, RefsInv, One, Updating
<1> DEFINE b == conn.base
           t == conn.top
           k == FrontRequest(conn)
<1>3. b \in Nat /\ t \in Nat
  BY <1>1 DEF ConnRecords
<1>4. k = b \div RequestLen + 1
  BY DEF FrontRequest
<1>5. Input(conn) = t - b
  BY DEF Input
<1> HIDE DEF b, t
<1>6. b = (b \div RequestLen) * RequestLen /\ b \div RequestLen \in Nat
  BY <1>1, <1>3, HttpAssumption, ModZero DEF b
<1>7. k \in Nat \ {0} /\ b = (k - 1) * RequestLen /\ k = AnsweredRequests + 1
  BY <1>1, <1>4, <1>6 DEF AnsweredRequests, b
<1> HIDE DEF k
<1>8. Input(conn) \in Nat
  BY <1>1, <1>3, <1>5 DEF b, t
<1>9. ASSUME Input(conn) > 0
      PROVE  k \in 1 .. NRequests
  <2>1. NRequests * RequestLen \in Nat
    BY HttpAssumption
  <2>2. (k - 1) * RequestLen < NRequests * RequestLen
    BY <1>1, <1>3, <1>5, <1>7, <1>9, <2>1 DEF b, t
  <2>3. k - 1 < NRequests
    <3>1. k - 1 \in Nat
      BY <1>7
    <3> QED
      BY <2>2, <3>1, BlocksFit, HttpAssumption
  <2> QED
    BY <1>7, <2>3, HttpAssumption
<1>10. /\ http_read_request_data(conn) \in {-1, -2, RequestLen}
       /\ http_read_request_data(conn) = -1 => k \in Bad
       /\ http_read_request_data(conn) = RequestLen => k \notin Bad /\ Input(conn) >= RequestLen
  BY <1>1, <1>8, HttpAssumption DEF http_read_request_data, k
<1>11. ASSUME Input(conn) >= RequestLen
       PROVE  k * RequestLen <= sent
  <2>1. ((k - 1) + 1) * RequestLen = (k - 1) * RequestLen + RequestLen
    <3>1. k - 1 \in Nat /\ NRequests \in Nat
      BY <1>7, HttpAssumption
    <3> QED
      BY <3>1, BlocksFit, HttpAssumption
  <2>2. (k - 1) + 1 = k
    BY <1>7
  <2>3. k * RequestLen = b + RequestLen
    BY <1>7, <2>1, <2>2
  <2> DEFINE due == k * RequestLen
  <2>4. due = b + RequestLen
    BY <2>3
  <2>5. sent \in Int
    <3>1. NRequests * RequestLen \in Nat
      BY HttpAssumption
    <3> QED
      BY <1>1, <3>1
  <2> HIDE DEF due
  <2>6. due <= sent
    BY <1>1, <1>3, <1>5, <1>11, <2>4, <2>5, HttpAssumption DEF t
  <2> QED
    BY <2>6 DEF due
<1> QED
  BY <1>1, <1>2, <1>7, <1>8, <1>9, <1>10, <1>11 DEF k, b
(* A reference taken changes nothing else.                                  *)
LEMMA HoldFacts ==
  ASSUME NEW c \in ConnRecords
  PROVE  LET d == server_hold(c) IN
         /\ d \in ConnRecords /\ d.ref = c.ref + 1
         /\ d.open = c.open /\ d.mask = c.mask /\ d.polls = c.polls /\ d.base = c.base
         /\ d.top = c.top /\ d.output = c.output /\ d.sndbuf = c.sndbuf
         /\ d.state = c.state /\ d.consumed_bytes = c.consumed_bytes
<1>1. c.ref + 1 \in Nat
  BY DEF ConnRecords
<1>2. server_hold(c) = [c EXCEPT !.ref = c.ref + 1]
  BY DEF server_hold, ConnRecords
<1> QED
  BY <1>1, <1>2 DEF ConnRecords

(* What was answered and what carries it stay.                              *)
LEMMA SameChannel ==
  ASSUME ChannelInv, AnsweredInOrder, Running, conn.open,
         conn'.base = conn.base, conn'.sndbuf = conn.sndbuf, conn'.output = conn.output,
         UNCHANGED <<pending, got, peer>>
  PROVE  ChannelInv' /\ AnsweredInOrder'
<1>1. ChannelInv'
  BY DEF ChannelInv, Channel, AnsweredRequests
<1>2. AnsweredInOrder'
  BY DEF AnsweredInOrder
<1> QED
  BY <1>1, <1>2

(* The input holds no whole request: the loop ends.                         *)
LEMMA ReadNothing ==
  ASSUME HttpInv, pc = "read", Input(conn) = 0 \/ http_read_request_data(conn) = -2,
         conn' = [conn EXCEPT !.state = "NEED_MORE_DATA"], pc' = Loop(conn'),
         UNCHANGED <<pending, evs, answering, sent, got, peer>>
  PROVE  HttpInv' /\ Unnoticed
<1>1. /\ conn \in ConnRecords /\ conn.open /\ conn.state = "READ" /\ pending = 0
      /\ conn.consumed_bytes = 0 /\ Running
  BY FrontFacts
<1>2. /\ conn' \in ConnRecords /\ conn'.state = "NEED_MORE_DATA" /\ conn'.open
      /\ conn'.base = conn.base /\ conn'.top = conn.top /\ conn'.ref = conn.ref
      /\ conn'.consumed_bytes = conn.consumed_bytes
      /\ conn'.sndbuf = conn.sndbuf /\ conn'.output = conn.output
  BY <1>1 DEF ConnRecords
<1>3. pc' = "finish"
  BY <1>2 DEF Loop
<1>4. TypeInv'
  BY <1>2, <1>3 DEF HttpInv, TypeInv
<1>5. RefsInv' /\ ControlInv' /\ ClosedInv'
  BY <1>1, <1>2, <1>3
     DEF HttpInv, TypeInv, RefsInv, ControlInv, ClosedInv, Running, Updating, One
<1>6. InputInv'
  BY <1>1, <1>2, <1>3
     DEF HttpInv, InputInv, Running, Input, http_read_request_data, FrontRequest
<1>7. ChannelInv' /\ AnsweredInOrder'
  BY <1>1, <1>2, SameChannel DEF HttpInv
<1>8. Unnoticed
  BY <1>1, <1>2 DEF Unnoticed, Channel
<1> QED
  BY <1>4, <1>5, <1>6, <1>7, <1>8 DEF HttpInv

(* A malformed request is answered and the connection closed.               *)
LEMMA ReadBad ==
  ASSUME HttpInv, pc = "read", Input(conn) > 0,
         ~SendFails(stream_write(server_hold(conn), FrontRequest(conn))),
         conn' = server_release(server_close(stream_flush(
                   stream_write(server_hold(conn), FrontRequest(conn))))),
         pc' = Loop(conn'),
         UNCHANGED <<pending, evs, answering, sent, got, peer>>
  PROVE  /\ HttpInv'
         /\ peer # "reset" /\ ClosedWith(Channel(conn) \o Response(FrontRequest(conn)))
<1> DEFINE k == FrontRequest(conn)
           h == server_hold(conn)
           b == stream_write(h, k)
           f == stream_flush(b)
           d == server_close(f)
<1>1. /\ conn \in ConnRecords /\ conn.open /\ conn.state = "READ" /\ pending = 0
      /\ Running /\ conn.ref = 2 + One(answering) /\ k \in 1 .. NRequests
      /\ k = AnsweredRequests + 1
  BY FrontFacts
<1>2. conn.top <= sent /\ conn.top \in Nat /\ Len(conn.sndbuf) <= SndBuf
  BY <1>1 DEF HttpInv, TypeInv, ConnRecords
<1>3. /\ h \in ConnRecords /\ h.ref = conn.ref + 1 /\ h.open /\ h.state = "READ"
      /\ h.top = conn.top /\ h.sndbuf = conn.sndbuf /\ h.output = conn.output
  BY <1>1, HoldFacts
<1> HIDE DEF h, k
<1>4. /\ b \in ConnRecords /\ SameRequest(b, h) /\ b.sndbuf = h.sndbuf /\ b.output # <<>>
      /\ Channel(b) = Channel(conn) \o Response(k)
  <2>1. /\ b \in ConnRecords /\ SameRequest(b, h) /\ b.sndbuf = h.sndbuf /\ b.output # <<>>
        /\ Channel(b) = Channel(h) \o Response(k)
    BY <1>1, <1>3, RespondFacts
  <2>2. Channel(h) = Channel(conn)
    BY <1>3 DEF Channel
  <2> QED
    BY <2>1, <2>2
<1>5. peer # "reset"
  BY <1>4 DEF SendFails, b, h, k
<1> HIDE DEF b
<1>6. /\ f \in ConnRecords /\ SameRequest(f, h) /\ Len(f.sndbuf) <= SndBuf
      /\ Channel(f) = Channel(conn) \o Response(k)
  BY <1>2, <1>3, <1>4, FlushFacts DEF SameRequest
<1> HIDE DEF f
<1>7. f.ref = 3 + One(answering) /\ f.open /\ f.state = "READ" /\ f.top = conn.top
      /\ One(answering) \in Nat
  BY <1>1, <1>3, <1>6 DEF SameRequest, One
<1>8. /\ d \in ConnRecords /\ Shut(d) /\ d.state = "CLOSED" /\ d.ref = 2 + One(answering)
      /\ d.top = conn.top /\ d.sndbuf = f.sndbuf
  BY <1>6, <1>7, ServerCloseFacts
<1> HIDE DEF d
<1>9. conn' = server_release(d)
  BY DEF d, f, b, h, k
<1>10. conn' \in ConnRecords /\ conn' = [d EXCEPT !.ref = d.ref - 1]
  BY <1>7, <1>8, <1>9, ReleaseCounts
<1>11. /\ Shut(conn') /\ conn'.state = "CLOSED" /\ conn'.ref = 1 + One(answering)
       /\ conn'.top = conn.top /\ conn'.sndbuf = f.sndbuf
  BY <1>7, <1>8, <1>10 DEF ConnRecords, Shut
<1>12. pc' = "finish"
  BY <1>11 DEF Loop
<1>13. TypeInv'
  <2>1. conn'.base <= conn'.top
    BY <1>2, <1>11 DEF Shut
  <2> QED
    BY <1>2, <1>6, <1>10, <1>11, <1>12, <2>1 DEF HttpInv, TypeInv
<1>14. RefsInv'
  BY <1>1, <1>11, <1>12 DEF RefsInv, Running, Updating, One
<1>15. ControlInv' /\ ClosedInv' /\ InputInv' /\ ChannelInv'
  BY <1>1, <1>11, <1>12
     DEF HttpInv, ControlInv, ClosedInv, InputInv, ChannelInv, Shut, Running, Updating
<1>16. /\ Channel(conn') = f.sndbuf /\ f.output \in Units
       /\ Channel(conn') \o f.output = Channel(conn) \o Response(k)
  BY <1>6, <1>11, NothingLost DEF Channel, Shut, ConnRecords
<1>17. AnsweredInOrder'
  <2>1. /\ Channel(conn) \o Response(k) \in Units
        /\ InOrder(got \o (Channel(conn) \o Response(k)))
    BY <1>1, <1>5, OrderAnswered
  <2> QED
    BY <1>13, <1>16, <2>1, OrderFrom DEF HttpInv
<1>18. ClosedWith(Channel(conn) \o Response(k))
  BY <1>1, <1>11, <1>16 DEF ClosedWith, Shut
<1> QED
  BY <1>5, <1>13, <1>14, <1>15, <1>17, <1>18 DEF HttpInv, k

(* A whole request is handed to its handler, which may keep it.             *)
LEMMA ReadHandled ==
  ASSUME HttpInv, pc = "read", Input(conn) > 0, http_read_request_data(conn) > 0,
         conn' = [server_hold(conn) EXCEPT !.state = "HANDLING",
                                           !.consumed_bytes = http_read_request_data(conn)],
         pending' = FrontRequest(conn),
         pc' \in {Loop(conn'), "handler"},
         UNCHANGED <<evs, answering, sent, got, peer>>
  PROVE  HttpInv' /\ Unnoticed
<1> DEFINE k == FrontRequest(conn)
<1>1. /\ conn \in ConnRecords /\ conn.open /\ conn.state = "READ" /\ pending = 0
      /\ Running /\ conn.ref = 2 + One(answering) /\ k \in 1 .. NRequests
      /\ conn.base = (k - 1) * RequestLen /\ k = AnsweredRequests + 1 /\ Input(conn) \in Nat
      /\ http_read_request_data(conn) = RequestLen
      /\ k \notin Bad /\ Input(conn) >= RequestLen /\ k * RequestLen <= sent
  BY FrontFacts, HttpAssumption
<1>2. /\ server_hold(conn) \in ConnRecords /\ server_hold(conn).ref = conn.ref + 1
      /\ server_hold(conn).open /\ server_hold(conn).base = conn.base
      /\ server_hold(conn).top = conn.top /\ server_hold(conn).output = conn.output
      /\ server_hold(conn).sndbuf = conn.sndbuf
  BY <1>1, HoldFacts
<1>3. /\ conn' \in ConnRecords /\ conn'.ref = conn.ref + 1 /\ conn'.open
      /\ conn'.base = conn.base /\ conn'.top = conn.top /\ conn'.output = conn.output
      /\ conn'.sndbuf = conn.sndbuf /\ conn'.state = "HANDLING"
      /\ conn'.consumed_bytes = RequestLen
  BY <1>1, <1>2, HttpAssumption DEF ConnRecords
<1>4. pc' \in {"finish", "handler"}
  BY <1>3 DEF Loop
<1>5. pending' = k /\ k # 0 /\ RequestLen # 0
  BY <1>1, HttpAssumption
<1> HIDE DEF k
<1>6. TypeInv'
  <2>1. pending' \in 0 .. NRequests
    BY <1>1, <1>5
  <2>2. conn'.base <= conn'.top /\ conn'.top <= sent' /\ Len(conn'.sndbuf) <= SndBuf
    BY <1>3 DEF HttpInv, TypeInv
  <2> QED
    BY <1>3, <1>4, <2>1, <2>2 DEF HttpInv, TypeInv
<1>7. RefsInv'
  BY <1>1, <1>3, <1>4, <1>5 DEF RefsInv, Running, Updating, One
<1>8. ControlInv' /\ ClosedInv'
  BY <1>1, <1>3, <1>4, <1>5 DEF HttpInv, ControlInv, ClosedInv, Running, Updating
<1>9. InputInv'
  <2>1. Input(conn') = Input(conn)
    BY <1>3 DEF Input
  <2> QED
    BY <1>1, <1>3, <1>4, <1>5, <2>1 DEF InputInv, Running
<1>10. ChannelInv'
  <2>1. AnsweredRequests' = AnsweredRequests
    <3>1. AnsweredRequests' = k - 1
      BY <1>5 DEF AnsweredRequests
    <3>2. AnsweredRequests \in Int
      BY <1>1, HttpAssumption DEF AnsweredRequests, ConnRecords
    <3> QED
      BY <1>1, <3>1, <3>2
  <2> QED
    BY <1>1, <1>3, <1>4, <2>1 DEF HttpInv, ChannelInv, Running, Channel
<1>11. AnsweredInOrder'
  BY <1>3 DEF HttpInv, AnsweredInOrder
<1>12. Unnoticed
  BY <1>1, <1>3 DEF Unnoticed, Channel
<1> QED
  BY <1>6, <1>7, <1>8, <1>9, <1>10, <1>11, <1>12 DEF HttpInv

(* One turn of the loop of server_request_update.                           *)
LEMMA ReadStep ==
  ASSUME HttpInv, server_request_read
  PROVE  /\ HttpInv'
         /\ \/ Unnoticed
            \/ /\ Input(conn) > 0 /\ http_read_request_data(conn) = -1
               /\ pc = "read" /\ peer # "reset"
               /\ ClosedWith(Channel(conn) \o Response(FrontRequest(conn)))
<1>1. /\ pc = "read"
      /\ UNCHANGED <<evs, answering, sent, got, peer>>
  BY DEF server_request_read
<1>2. CASE /\ Input(conn) = 0 \/ http_read_request_data(conn) = -2
           /\ conn' = [conn EXCEPT !.state = "NEED_MORE_DATA"]
           /\ pc' = Loop(conn') /\ UNCHANGED pending
  BY <1>1, <1>2, ReadNothing
<1>3. CASE LET bad == stream_write(server_hold(conn), FrontRequest(conn)) IN
           /\ Input(conn) > 0 /\ http_read_request_data(conn) = -1 /\ ~SendFails(bad)
           /\ conn' = server_release(server_close(stream_flush(bad)))
           /\ pc' = Loop(conn') /\ UNCHANGED pending
  BY <1>1, <1>3, ReadBad
<1>4. CASE LET n == http_read_request_data(conn) IN
           /\ Input(conn) > 0 /\ n > 0
           /\ conn' = [server_hold(conn) EXCEPT !.state = "HANDLING", !.consumed_bytes = n]
           /\ pending' = FrontRequest(conn)
           /\ pc' \in {Loop(conn'), "handler"}
  BY <1>1, <1>4, ReadHandled
<1> QED
  BY <1>2, <1>3, <1>4 DEF server_request_read
(* Consuming what was taken moves the base by that much.                    *)
LEMMA ConsumeFacts ==
  ASSUME NEW c \in ConnRecords, c.base <= c.top,
         c.consumed_bytes # 0 => Input(c) >= RequestLen
  PROVE  LET d == [stream_consume(c, c.consumed_bytes) EXCEPT !.consumed_bytes = 0] IN
         /\ d \in ConnRecords /\ d.base = c.base + c.consumed_bytes /\ d.base <= d.top
         /\ d.consumed_bytes = 0
         /\ d.open = c.open /\ d.mask = c.mask /\ d.polls = c.polls /\ d.top = c.top
         /\ d.output = c.output /\ d.sndbuf = c.sndbuf /\ d.state = c.state /\ d.ref = c.ref
<1> DEFINE b == c.base
           t == c.top
           n == c.consumed_bytes
<1>1. b \in Nat /\ t \in Nat /\ n \in {0, RequestLen} /\ RequestLen \in Nat /\ b <= t
  BY HttpAssumption DEF ConnRecords
<1>2. n # 0 => t - b >= RequestLen
  BY DEF Input
<1>3. stream_consume(c, n) = [c EXCEPT !.base = IF t - b < n THEN t ELSE b + n]
  BY DEF stream_consume, Input, ConnRecords
<1> HIDE DEF b, t, n
<1>4. ~(t - b < n) /\ b + n <= t /\ b + n \in Nat
  BY <1>1, <1>2
<1>5. PICK m \in Nat : m = b + n /\ m <= t
  BY <1>4
<1> DEFINE d == [stream_consume(c, n) EXCEPT !.consumed_bytes = 0]
<1>6. d = [c EXCEPT !.base = m, !.consumed_bytes = 0]
  BY <1>3, <1>4, <1>5
<1> HIDE DEF d
<1>7. d \in ConnRecords
  BY <1>6 DEF ConnRecords
<1>8. /\ d.base = m /\ d.consumed_bytes = 0 /\ d.top = c.top
      /\ d.open = c.open /\ d.mask = c.mask /\ d.polls = c.polls
      /\ d.output = c.output /\ d.sndbuf = c.sndbuf /\ d.state = c.state /\ d.ref = c.ref
  BY <1>6 DEF ConnRecords
<1> QED
  BY <1>5, <1>7, <1>8 DEF b, t, n, d

(* A response is written and its request leaves the input.                  *)
LEMMA RespondedFacts ==
  ASSUME HttpInv, Running, conn.open, pending # 0
  PROVE  LET d == Responded(conn, pending) IN
         /\ d \in ConnRecords /\ d.base = pending * RequestLen /\ d.base <= d.top
         /\ d.consumed_bytes = 0 /\ d.open /\ d.top = conn.top
         /\ d.sndbuf = conn.sndbuf /\ d.ref = conn.ref
         /\ Channel(d) = Channel(conn) \o Response(pending)
         /\ Channel(d) \in Units /\ pending \in 1 .. NRequests /\ conn \in ConnRecords
         /\ peer # "reset" =>
              /\ InOrder(got \o Channel(d))
              /\ Len(got) + Len(Channel(d)) = pending * ResponseLen
<1> DEFINE k == pending
           w == stream_write(conn, k)
           d == Responded(conn, k)
<1>1. /\ conn \in ConnRecords /\ k \in 1 .. NRequests /\ k = AnsweredRequests + 1
      /\ conn.base <= conn.top
  BY HttpAssumption DEF HttpInv, TypeInv, AnsweredRequests
<1>2. /\ conn.base = (IF conn.consumed_bytes = 0 THEN k ELSE k - 1) * RequestLen
      /\ conn.consumed_bytes # 0 => Input(conn) >= RequestLen
      /\ conn.consumed_bytes \in {0, RequestLen}
  BY <1>1 DEF HttpInv, InputInv, ConnRecords
<1>3. d = [stream_consume(w, conn.consumed_bytes) EXCEPT !.consumed_bytes = 0]
  BY DEF Responded
<1> HIDE DEF d, k
<1>4. /\ w \in ConnRecords /\ SameRequest(w, conn) /\ w.sndbuf = conn.sndbuf
      /\ Channel(w) = Channel(conn) \o Response(k)
  BY <1>1, RespondFacts
<1> HIDE DEF w
<1>5. /\ w.base <= w.top /\ w.consumed_bytes = conn.consumed_bytes
      /\ w.consumed_bytes # 0 => Input(w) >= RequestLen
  BY <1>1, <1>2, <1>4 DEF SameRequest, Input
<1>6. /\ d \in ConnRecords /\ d.base = w.base + w.consumed_bytes /\ d.base <= d.top
      /\ d.consumed_bytes = 0 /\ d.open = w.open /\ d.top = w.top
      /\ d.output = w.output /\ d.sndbuf = w.sndbuf /\ d.ref = w.ref
  BY <1>3, <1>4, <1>5, ConsumeFacts
<1>7. d.base = k * RequestLen
  <2>1. d.base = conn.base + conn.consumed_bytes
    BY <1>4, <1>6 DEF SameRequest
  <2>2. CASE conn.consumed_bytes = 0
    <3> DEFINE due == k * RequestLen
    <3>1. conn.base = due /\ conn.base \in Nat
      BY <1>1, <1>2, <2>2 DEF ConnRecords
    <3> HIDE DEF due
    <3>2. d.base = due
      BY <2>1, <2>2, <3>1
    <3> QED
      BY <3>2 DEF due
  <2>3. CASE conn.consumed_bytes # 0
    <3>1. d.base = (k - 1) * RequestLen + RequestLen
      BY <1>2, <2>1, <2>3
    <3>2. ((k - 1) + 1) * RequestLen = (k - 1) * RequestLen + RequestLen
      <4>1. k - 1 \in Nat /\ NRequests \in Nat
        BY <1>1, HttpAssumption
      <4> QED
        BY <4>1, BlocksFit, HttpAssumption
    <3>3. (k - 1) + 1 = k
      BY <1>1, HttpAssumption
    <3> QED
      BY <3>1, <3>2, <3>3
  <2> QED
    BY <2>2, <2>3
<1>8. Channel(d) = Channel(conn) \o Response(k)
  BY <1>4, <1>6 DEF Channel
<1>9. Channel(d) \in Units
  BY <1>6, Joined DEF Channel, ConnRecords
<1>10. peer # "reset" =>
         /\ InOrder(got \o Channel(d))
         /\ Len(got) + Len(Channel(d)) = k * ResponseLen
  BY <1>1, <1>8, OrderAnswered
<1> QED
  BY <1>1, <1>4, <1>6, <1>7, <1>8, <1>9, <1>10 DEF SameRequest, d, k

(* What a request answered leaves: its response at the end of the channel,  *)
(* the input at the next request.                                           *)
LEMMA AnswerKeepsData ==
  ASSUME HttpInv, Running, conn.open, pending # 0, TypeInv', pending' = 0,
         Channel(conn') = Channel(Responded(conn, pending)),
         conn'.base = pending * RequestLen, conn'.consumed_bytes = 0,
         conn'.state = "NEED_MORE_DATA" => Input(conn') = 0,
         UNCHANGED <<sent, got, peer>>
  PROVE  InputInv' /\ ChannelInv' /\ AnsweredInOrder'
<1> DEFINE d == Responded(conn, pending)
<1>1. /\ Channel(d) \in Units /\ pending \in 1 .. NRequests
      /\ peer # "reset" =>
              /\ InOrder(got \o Channel(d))
              /\ Len(got) + Len(Channel(d)) = pending * ResponseLen
  BY RespondedFacts
<1> HIDE DEF d
<1>2. (pending * RequestLen) \div RequestLen = pending /\ (pending * RequestLen) % RequestLen = 0
  BY <1>1, HttpAssumption, MultipleDiv
<1>3. InputInv'
  BY <1>2 DEF InputInv
<1>4. ChannelInv'
  <2>1. AnsweredRequests' = pending
    BY <1>2 DEF AnsweredRequests
  <2> QED
    BY <1>1, <2>1 DEF ChannelInv, d
<1>5. AnsweredInOrder'
  <2>1. Channel(conn') \o <<>> = Channel(d)
    BY <1>1, NothingLost DEF d
  <2> QED
    BY <1>1, <2>1, NothingLost, OrderFrom DEF HttpInv
<1> QED
  BY <1>3, <1>4, <1>5

(* A handler answers before it returns.                                     *)
LEMMA HandlerStep ==
  ASSUME HttpInv, http_server_handle_request
  PROVE  /\ HttpInv'
         /\ Running /\ pending # 0 /\ conn.open /\ conn'.open /\ conn'.state # "NONE"
         /\ Channel(conn') = Channel(conn) \o Response(pending)
         /\ UNCHANGED <<sent, got, peer>>
<1> DEFINE d == Responded(conn, pending)
           e == [d EXCEPT !.state = "READ"]
<1>1. /\ pc = "handler" /\ pending' = 0 /\ pc' = Loop(conn') /\ conn' = server_release(e)
      /\ UNCHANGED <<evs, answering, sent, got, peer>>
  BY DEF http_server_handle_request
<1>2. /\ Running /\ conn.open /\ conn.state = "HANDLING" /\ pending # 0
      /\ conn.ref = 3 + One(answering) /\ One(answering) \in Nat
      /\ answering => evs = {}
  BY <1>1 DEF HttpInv, TypeInv, ControlInv, RefsInv, Running, Updating, One
<1>3. /\ d \in ConnRecords /\ d.base = pending * RequestLen /\ d.base <= d.top
      /\ d.consumed_bytes = 0 /\ d.open /\ d.top = conn.top
      /\ d.sndbuf = conn.sndbuf /\ d.ref = conn.ref
      /\ Channel(d) = Channel(conn) \o Response(pending)
  BY <1>2, RespondedFacts
<1> HIDE DEF d
<1>4. /\ e \in ConnRecords /\ e.base = d.base /\ e.consumed_bytes = 0 /\ e.open
      /\ e.top = d.top /\ e.sndbuf = d.sndbuf /\ e.output = d.output /\ e.ref = d.ref
      /\ e.state = "READ"
  BY <1>3 DEF ConnRecords
<1> HIDE DEF e
<1>5. conn' \in ConnRecords /\ conn' = [e EXCEPT !.ref = e.ref - 1]
  BY <1>1, <1>2, <1>3, <1>4, ReleaseCounts
<1>6. /\ conn'.base = d.base /\ conn'.consumed_bytes = 0 /\ conn'.open
      /\ conn'.top = d.top /\ conn'.sndbuf = d.sndbuf /\ conn'.output = d.output
      /\ conn'.state = "READ" /\ conn'.ref = 2 + One(answering)
  BY <1>2, <1>3, <1>4, <1>5 DEF ConnRecords
<1>7. pc' = "read"
  BY <1>1, <1>6 DEF Loop
<1>8. TypeInv'
  <2>1. pending' \in 0 .. NRequests
    BY <1>1, HttpAssumption
  <2>2. conn'.base <= conn'.top /\ conn'.top <= sent' /\ Len(conn'.sndbuf) <= SndBuf
    BY <1>1, <1>3, <1>6 DEF HttpInv, TypeInv
  <2> QED
    BY <1>1, <1>5, <1>7, <2>1, <2>2 DEF HttpInv, TypeInv
<1>9. RefsInv' /\ ControlInv' /\ ClosedInv'
  BY <1>1, <1>2, <1>6, <1>7 DEF RefsInv, ControlInv, ClosedInv, Running, Updating, One
<1>10. Channel(conn') = Channel(d)
  BY <1>6 DEF Channel
<1>11. InputInv' /\ ChannelInv' /\ AnsweredInOrder'
  BY <1>1, <1>2, <1>3, <1>6, <1>8, <1>10, AnswerKeepsData DEF d
<1> QED
  BY <1>1, <1>2, <1>3, <1>6, <1>8, <1>9, <1>10, <1>11 DEF HttpInv
(* What server_request_update, and the server_respond around it, give back. *)
LEMMA UpdateReleases ==
  ASSUME NEW c \in ConnRecords, NEW late \in BOOLEAN,
         c.ref > 1 + One(late) \/ (c.ref = 1 + One(late) /\ ~c.open)
  PROVE  LET r == server_release(c)
             d == IF late THEN server_release(r) ELSE r
         IN d \in ConnRecords /\ d = [c EXCEPT !.ref = c.ref - (1 + One(late))]
<1> DEFINE r == server_release(c)
           n == c.ref
<1>1. n \in Nat /\ n > 0 /\ (n > 1 \/ ~c.open)
  BY DEF ConnRecords, One
<1>2. r \in ConnRecords /\ r = [c EXCEPT !.ref = n - 1]
  BY <1>1, ReleaseCounts
<1>3. r.ref = n - 1 /\ r.open = c.open
  BY <1>2 DEF ConnRecords
<1>4. CASE late
  <2>1. n \in Nat /\ (n > 2 \/ (n = 2 /\ ~c.open))
    BY <1>1, <1>4 DEF One
  <2>2. r.ref > 0 /\ (r.ref > 1 \/ ~r.open) /\ r.ref - 1 = n - 2
    BY <1>3, <2>1
  <2> HIDE DEF r
  <2>3. server_release(r) \in ConnRecords /\ server_release(r) = [r EXCEPT !.ref = r.ref - 1]
    BY <1>2, <2>2, ReleaseCounts
  <2>4. server_release(r) = [c EXCEPT !.ref = n - 2]
    BY <1>2, <2>2, <2>3 DEF ConnRecords
  <2>5. c.ref - (1 + One(late)) = n - 2
    BY <1>1, <1>4 DEF One
  <2> QED
    BY <1>4, <2>3, <2>4, <2>5 DEF r
<1>5. CASE ~late
  <2>1. c.ref - (1 + One(late)) = n - 1
    BY <1>1, <1>5 DEF One
  <2> QED
    BY <1>2, <1>5, <2>1
<1> QED
  BY <1>4, <1>5

(* The end of server_request_update while the connection is open: what was  *)
(* taken from a large input is consumed, and the output sent.               *)
LEMMA UpdateEndOpen ==
  ASSUME HttpInv, pc = "finish", conn.state # "CLOSED", update_end
  PROVE  HttpInv' /\ Unnoticed
<1> DEFINE c1 == IF Input(conn) > Threshold
                 THEN [stream_consume(conn, conn.consumed_bytes) EXCEPT !.consumed_bytes = 0]
                 ELSE conn
           c2 == stream_flush(c1)
           e == [c2 EXCEPT !.event_triggered = FALSE]
           r == server_release(e)
<1>1. /\ pc = "finish" /\ conn' = (IF answering THEN server_release(r) ELSE r)
      /\ pc' = (IF answering THEN "idle" ELSE "event") /\ answering' = FALSE
      /\ UNCHANGED <<pending, evs, sent, got, peer>>
  BY DEF update_end
<1>2. /\ Running /\ conn.open /\ conn \in ConnRecords /\ conn.base <= conn.top
      /\ conn.state \in {"NEED_MORE_DATA", "HANDLING"}
      /\ conn.ref = 2 + One(pending # 0) + One(answering)
      /\ answering \in BOOLEAN /\ Len(conn.sndbuf) <= SndBuf
      /\ conn.state = "NEED_MORE_DATA" => pending = 0
      /\ conn.state = "HANDLING" => pending # 0
      /\ answering => evs = {}
  BY <1>1 DEF HttpInv, TypeInv, ControlInv, RefsInv, Running, Updating, One, ConnRecords
<1>3. /\ conn.consumed_bytes # 0 => Input(conn) >= RequestLen
      /\ conn.consumed_bytes \in {0, RequestLen}
  BY <1>2 DEF HttpInv, InputInv, ConnRecords
<1>4. /\ c1 \in ConnRecords /\ c1.base <= c1.top
      /\ c1.open = conn.open /\ c1.top = conn.top /\ c1.output = conn.output
      /\ c1.sndbuf = conn.sndbuf /\ c1.state = conn.state /\ c1.ref = conn.ref
      /\ \/ c1.base = conn.base /\ c1.consumed_bytes = conn.consumed_bytes
         \/ c1.base = conn.base + conn.consumed_bytes /\ c1.consumed_bytes = 0
  BY <1>2, <1>3, ConsumeFacts
<1> HIDE DEF c1
<1>5. /\ c2 \in ConnRecords /\ SameRequest(c2, c1)
      /\ Len(c2.sndbuf) <= SndBuf /\ Channel(c2) = Channel(c1)
  BY <1>2, <1>4, FlushFacts
<1> HIDE DEF c2
<1>6. /\ e \in ConnRecords /\ e.base = c1.base /\ e.top = c1.top /\ e.open
      /\ e.state = conn.state /\ e.ref = conn.ref /\ e.consumed_bytes = c1.consumed_bytes
      /\ e.sndbuf = c2.sndbuf /\ e.output = c2.output
  BY <1>2, <1>4, <1>5 DEF ConnRecords, SameRequest
<1> HIDE DEF e
<1>7. conn' \in ConnRecords /\ conn' = [e EXCEPT !.ref = e.ref - (1 + One(answering))]
  <2>1. e.ref > 1 + One(answering)
    BY <1>2, <1>6 DEF One
  <2> QED
    BY <1>1, <1>2, <1>6, <2>1, UpdateReleases
<1>8. /\ conn'.base = c1.base /\ conn'.top = conn.top /\ conn'.open
      /\ conn'.state = conn.state /\ conn'.ref = 1 + One(pending # 0)
      /\ conn'.consumed_bytes = c1.consumed_bytes
      /\ conn'.sndbuf = c2.sndbuf /\ conn'.output = c2.output
  <2>1. e.ref - (1 + One(answering)) = 1 + One(pending # 0)
    BY <1>2, <1>6 DEF One
  <2> QED
    BY <1>4, <1>6, <1>7, <2>1 DEF ConnRecords
<1>9. Channel(conn') = Channel(conn)
  BY <1>4, <1>5, <1>8 DEF Channel
<1>10. TypeInv'
  BY <1>1, <1>4, <1>5, <1>7, <1>8 DEF HttpInv, TypeInv
<1>11. RefsInv' /\ ControlInv' /\ ClosedInv'
  BY <1>1, <1>2, <1>8 DEF HttpInv, RefsInv, ControlInv, ClosedInv, Running, Updating, One
<1>12. pending = 0 => conn'.base = conn.base /\ conn'.consumed_bytes = 0
  BY <1>2, <1>4, <1>8 DEF HttpInv, InputInv, ConnRecords
<1>13. InputInv'
  <2>1. CASE pending = 0
    BY <1>1, <1>2, <1>8, <1>12, <2>1
       DEF HttpInv, InputInv, Input, http_read_request_data, FrontRequest
  <2>2. CASE pending # 0
    <3> DEFINE taken == (pending - 1) * RequestLen
               due == pending * RequestLen
    <3>1. due = taken + RequestLen /\ taken \in Int
      <4>1. pending - 1 \in Nat /\ NRequests \in Nat /\ (pending - 1) + 1 = pending
        BY <2>2, HttpAssumption DEF HttpInv, TypeInv
      <4>2. ((pending - 1) + 1) * RequestLen = (pending - 1) * RequestLen + RequestLen
        BY <4>1, BlocksFit, HttpAssumption
      <4> QED
        BY <4>1, <4>2, HttpAssumption
    <3>2. /\ conn.base = IF conn.consumed_bytes = 0 THEN due ELSE taken
          /\ pending \notin Bad /\ due <= sent
      BY <1>2, <2>2 DEF HttpInv, InputInv
    <3> HIDE DEF taken, due
    <3>3. conn'.base = IF conn'.consumed_bytes = 0 THEN due ELSE taken
      BY <1>2, <1>3, <1>4, <1>8, <3>1, <3>2 DEF ConnRecords
    <3>4. conn'.consumed_bytes # 0 => Input(conn') >= RequestLen
      BY <1>3, <1>4, <1>8 DEF Input
    <3> QED
      BY <1>1, <1>2, <1>8, <2>2, <3>2, <3>3, <3>4 DEF InputInv, taken, due
  <2> QED
    BY <2>1, <2>2
<1>14. ChannelInv'
  <2>1. AnsweredRequests' = AnsweredRequests
    BY <1>1, <1>12 DEF AnsweredRequests
  <2> QED
    BY <1>1, <1>2, <1>9, <2>1 DEF HttpInv, ChannelInv
<1>15. AnsweredInOrder'
  <2>1. Channel(conn) \in Units
    BY AnsweredOrder DEF HttpInv
  <2> QED
    BY <1>1, <1>9, <1>10, <2>1, NothingLost, OrderKept DEF HttpInv
<1>16. Unnoticed
  BY <1>1, <1>2, <1>8, <1>9 DEF Unnoticed
<1> QED
  BY <1>10, <1>11, <1>13, <1>14, <1>15, <1>16 DEF HttpInv

(* Its end after the connection was closed.                                 *)
LEMMA UpdateEndClosed ==
  ASSUME HttpInv, pc = "finish", conn.state = "CLOSED", update_end
  PROVE  HttpInv' /\ Unnoticed
<1> DEFINE e == [conn EXCEPT !.event_triggered = FALSE]
           r == server_release(e)
<1>1. /\ conn' = (IF answering THEN server_release(r) ELSE r)
      /\ pc' = (IF answering THEN "idle" ELSE "event") /\ answering' = FALSE
      /\ UNCHANGED <<pending, evs, sent, got, peer>>
  BY DEF update_end
<1>2. /\ Running /\ ~conn.open /\ conn \in ConnRecords /\ pending = 0
      /\ conn.ref = 1 + One(answering) /\ answering \in BOOLEAN
      /\ answering => evs = {}
  BY DEF HttpInv, TypeInv, ControlInv, RefsInv, Running, Updating, One
<1>3. /\ e \in ConnRecords /\ e.open = conn.open /\ e.mask = conn.mask /\ e.polls = conn.polls
      /\ e.base = conn.base /\ e.top = conn.top /\ e.output = conn.output
      /\ e.sndbuf = conn.sndbuf /\ e.state = conn.state /\ e.ref = conn.ref
  BY <1>2 DEF ConnRecords
<1> HIDE DEF e
<1>4. conn' \in ConnRecords /\ conn' = [e EXCEPT !.ref = e.ref - (1 + One(answering))]
  <2>1. e.ref = 1 + One(answering) /\ ~e.open
    BY <1>2, <1>3
  <2> QED
    BY <1>1, <1>2, <1>3, <2>1, UpdateReleases
<1>5. /\ conn'.open = conn.open /\ conn'.mask = conn.mask /\ conn'.polls = conn.polls
      /\ conn'.base = conn.base /\ conn'.top = conn.top /\ conn'.output = conn.output
      /\ conn'.sndbuf = conn.sndbuf /\ conn'.state = conn.state /\ conn'.ref = 0
  <2>1. e.ref - (1 + One(answering)) = 0
    BY <1>2, <1>3 DEF One
  <2> QED
    BY <1>3, <1>4, <2>1 DEF ConnRecords
<1>6. TypeInv'
  BY <1>1, <1>4, <1>5 DEF HttpInv, TypeInv
<1>7. RefsInv' /\ ControlInv' /\ ClosedInv' /\ InputInv' /\ ChannelInv'
  <2>1. RefsInv'
    BY <1>1, <1>2, <1>5 DEF HttpInv, RefsInv, ControlInv, Running, Updating, One
  <2>2. ControlInv'
    BY <1>1, <1>2, <1>5 DEF HttpInv, ControlInv, Running, Updating, One
  <2>3. ClosedInv'
    BY <1>1, <1>2, <1>5 DEF HttpInv, ClosedInv, Running
  <2>4. InputInv'
    BY <1>1, <1>2, <1>5 DEF HttpInv, InputInv, Running
  <2>5. ChannelInv'
    BY <1>1, <1>2, <1>5 DEF HttpInv, ChannelInv, Running
  <2> QED
    BY <2>1, <2>2, <2>3, <2>4, <2>5
<1>8. AnsweredInOrder'
  <2>1. got' = got /\ peer' = peer
    BY <1>1
  <2>2. conn'.sndbuf = conn.sndbuf /\ conn'.output = conn.output
    BY <1>5
  <2> QED
    BY <2>1, <2>2 DEF HttpInv, AnsweredInOrder
<1>9. Unnoticed
  BY <1>1, <1>5 DEF Unnoticed, Channel
<1> QED
  BY <1>6, <1>7, <1>8, <1>9 DEF HttpInv
(* A late answer goes to an open connection, which goes on reading if its   *)
(* input holds more.                                                        *)
LEMMA LateAnswer ==
  ASSUME HttpInv, server_respond, conn.state # "CLOSED", peer # "reset"
  PROVE  /\ HttpInv'
         /\ Running /\ pending # 0 /\ conn.open /\ conn'.open /\ conn'.state # "NONE"
         /\ Channel(conn') = Channel(conn) \o Response(pending)
         /\ UNCHANGED <<sent, got, peer>>
<1> DEFINE d == Responded(conn, pending)
           c1 == [d EXCEPT !.state = "NEED_MORE_DATA"]
           c2 == stream_flush(c1)
<1>1. /\ pc = "idle" /\ pending # 0 /\ pending' = 0
      /\ UNCHANGED <<evs, sent, got, peer>>
      /\ IF UpdateDue(c2) THEN conn' = update_begin(c2) /\ pc' = "read" /\ answering' = TRUE
         ELSE conn' = server_release(c2) /\ UNCHANGED <<pc, answering>>
  BY DEF server_respond
<1>2. /\ Running /\ conn.open /\ conn.ref = 2 /\ Len(conn.sndbuf) <= SndBuf
      /\ ~answering /\ evs = {}
  BY <1>1 DEF HttpInv, TypeInv, ControlInv, RefsInv, Running, Updating, One
<1>3. /\ d \in ConnRecords /\ d.base = pending * RequestLen /\ d.base <= d.top
      /\ d.consumed_bytes = 0 /\ d.open /\ d.top = conn.top
      /\ d.sndbuf = conn.sndbuf /\ d.ref = conn.ref
      /\ Channel(d) = Channel(conn) \o Response(pending)
  BY <1>1, <1>2, RespondedFacts
<1> HIDE DEF d
<1>4. /\ c1 \in ConnRecords /\ c1.base = d.base /\ c1.consumed_bytes = 0 /\ c1.open
      /\ c1.top = d.top /\ c1.sndbuf = d.sndbuf /\ c1.output = d.output /\ c1.ref = 2
      /\ c1.state = "NEED_MORE_DATA" /\ Len(c1.sndbuf) <= SndBuf
  BY <1>2, <1>3 DEF ConnRecords
<1> HIDE DEF c1
<1>5. /\ c2 \in ConnRecords /\ SameRequest(c2, c1) /\ Len(c2.sndbuf) <= SndBuf
      /\ Channel(c2) = Channel(c1) /\ Channel(c1) = Channel(d)
  BY <1>4, FlushFacts DEF Channel
<1> HIDE DEF c2
<1>6. /\ c2.base = d.base /\ c2.top = conn.top /\ c2.open /\ c2.ref = 2
      /\ c2.consumed_bytes = 0 /\ c2.state = "NEED_MORE_DATA" /\ c2.base <= c2.top
      /\ c2.base \in Nat /\ c2.top \in Nat
  BY <1>3, <1>4, <1>5 DEF SameRequest, ConnRecords
<1>7. /\ conn' \in ConnRecords /\ conn'.base = d.base /\ conn'.top = conn.top /\ conn'.open
      /\ conn'.consumed_bytes = 0 /\ conn'.output = c2.output /\ conn'.sndbuf = c2.sndbuf
      /\ IF UpdateDue(c2) THEN conn'.ref = 3 /\ conn'.state = "READ"
         ELSE conn'.ref = 1 /\ conn'.state = "NEED_MORE_DATA"
  <2>1. CASE UpdateDue(c2)
    BY <1>1, <1>5, <1>6, <2>1, UpdateFacts
  <2>2. CASE ~UpdateDue(c2)
    <3>1. conn' \in ConnRecords /\ conn' = [c2 EXCEPT !.ref = c2.ref - 1]
      BY <1>1, <1>5, <1>6, <2>2, ReleaseCounts
    <3> QED
      BY <1>5, <1>6, <2>2, <3>1 DEF ConnRecords
  <2> QED
    BY <2>1, <2>2
<1>8. ~UpdateDue(c2) => Input(conn') = 0
  <2> DEFINE b == c2.base
             t == c2.top
  <2>1. b \in Nat /\ t \in Nat /\ b <= t /\ conn'.base = b /\ conn'.top = t
    BY <1>6, <1>7
  <2>2. UpdateDue(c2) <=> t - b > 0
    BY <1>6 DEF UpdateDue, Input
  <2> HIDE DEF b, t
  <2> QED
    BY <2>1, <2>2 DEF Input
<1>9. TypeInv'
  <2>1. /\ conn'.base <= conn'.top /\ conn'.top <= sent' /\ Len(conn'.sndbuf) <= SndBuf
    BY <1>1, <1>3, <1>5, <1>7 DEF HttpInv, TypeInv
  <2>2. pc' \in {"idle", "read"} /\ pending' \in 0 .. NRequests
    BY <1>1, HttpAssumption
  <2>3. answering' \in BOOLEAN
    BY <1>1 DEF HttpInv, TypeInv
  <2> QED
    BY <1>1, <1>7, <2>1, <2>2, <2>3 DEF HttpInv, TypeInv
<1>10. RefsInv' /\ ControlInv' /\ ClosedInv'
  BY <1>1, <1>2, <1>7 DEF RefsInv, ControlInv, ClosedInv, Running, Updating, One
<1>11. Channel(conn') = Channel(d)
  BY <1>5, <1>7 DEF Channel
<1>12. InputInv' /\ ChannelInv' /\ AnsweredInOrder'
  <2>1. conn'.state = "NEED_MORE_DATA" => Input(conn') = 0
    BY <1>7, <1>8
  <2> QED
    BY <1>1, <1>2, <1>3, <1>7, <1>9, <1>11, <2>1, AnswerKeepsData DEF d
<1> QED
  BY <1>1, <1>2, <1>3, <1>7, <1>9, <1>10, <1>11, <1>12 DEF HttpInv

(* One that comes after the close finds no one, or a dead worker.           *)
LEMMA LostAnswer ==
  ASSUME HttpInv, server_respond, conn.state = "CLOSED" \/ peer = "reset"
  PROVE  HttpInv' /\ Unnoticed
<1>1. /\ pc = "idle" /\ pending # 0 /\ pending' = 0
      /\ UNCHANGED <<evs, sent, got, peer>>
      /\ IF conn.state = "CLOSED" THEN conn' = server_release(conn) /\ UNCHANGED <<pc, answering>>
         ELSE pc' = "aborted" /\ UNCHANGED <<conn, answering>>
  BY DEF server_respond
<1>2. /\ Running /\ conn \in ConnRecords /\ ~answering /\ evs = {}
      /\ conn.state # "NONE" /\ (conn.state = "CLOSED" => conn.ref = 1 /\ ~conn.open)
  BY <1>1 DEF HttpInv, TypeInv, ControlInv, RefsInv, Running, Updating, One
<1>3. conn.state = "CLOSED" => conn' \in ConnRecords /\ conn' = [conn EXCEPT !.ref = 0]
  <2>1. conn.state = "CLOSED" => conn.ref - 1 = 0
    BY <1>2
  <2> QED
    BY <1>1, <1>2, <2>1, ReleaseCounts
<1>4. /\ conn' \in ConnRecords
      /\ conn'.open = conn.open /\ conn'.state = conn.state /\ conn'.mask = conn.mask
      /\ conn'.polls = conn.polls /\ conn'.base = conn.base /\ conn'.top = conn.top
      /\ conn'.output = conn.output /\ conn'.sndbuf = conn.sndbuf
      /\ conn'.ref = IF conn.state = "CLOSED" THEN 0 ELSE conn.ref
  BY <1>1, <1>2, <1>3 DEF ConnRecords
<1>5. TypeInv'
  BY <1>1, <1>4, HttpAssumption DEF HttpInv, TypeInv
<1>6. RefsInv' /\ ControlInv' /\ ClosedInv' /\ InputInv' /\ ChannelInv'
  BY <1>1, <1>2, <1>4
     DEF HttpInv, RefsInv, ControlInv, ClosedInv, InputInv, ChannelInv, Running, Updating, One
<1>7. AnsweredInOrder'
  BY <1>1, <1>4 DEF HttpInv, AnsweredInOrder
<1>8. Unnoticed
  BY <1>1, <1>4 DEF Unnoticed, Channel
<1> QED
  BY <1>5, <1>6, <1>7, <1>8 DEF HttpInv

(* The server is destroyed: the connection is closed unless a handler still *)
(* holds its request.                                                       *)
LEMMA ShutdownStep ==
  ASSUME HttpInv, server_shutdown
  PROVE  HttpInv' /\ (Unnoticed \/ ClosedWith(Channel(conn)))
<1>1. /\ pc = "idle" /\ conn.ref > 0 /\ conn' = server_release(conn) /\ pc' = "stopped"
      /\ UNCHANGED <<pending, evs, answering, sent, got, peer>>
  BY DEF server_shutdown
<1>2. /\ conn \in ConnRecords /\ conn.state # "NONE" /\ ~answering /\ evs = {}
      /\ conn.ref \in Nat /\ conn.ref <= 4
  BY <1>1 DEF HttpInv, TypeInv, ControlInv, RefsInv, Running, Updating, One, ConnRecords
<1>3. /\ conn' \in ConnRecords /\ conn'.ref <= 4 /\ conn'.state = conn.state
      /\ conn'.top = conn.top /\ conn'.sndbuf = conn.sndbuf
      /\ \/ Shut(conn')
         \/ /\ conn'.open = conn.open /\ conn'.output = conn.output /\ conn'.mask = conn.mask
            /\ conn'.polls = conn.polls /\ conn'.base = conn.base
  <2>1. CASE conn.ref > 1 \/ ~conn.open
    <3>1. conn' \in ConnRecords /\ conn' = [conn EXCEPT !.ref = conn.ref - 1]
      BY <1>1, <1>2, <2>1, ReleaseCounts
    <3> QED
      BY <1>2, <3>1 DEF ConnRecords
  <2>2. CASE conn.ref = 1 /\ conn.open
    <3> DEFINE s == stream_close(conn)
    <3>1. /\ s \in ConnRecords /\ s.top = conn.top /\ s.state = conn.state
          /\ s.sndbuf = conn.sndbuf /\ Shut(s)
      BY <1>2, <2>2, CloseFacts
    <3> HIDE DEF s
    <3>2. conn' = [s EXCEPT !.ref = 0]
      BY <1>1, <1>2, <2>2, ReleaseFacts DEF s
    <3> QED
      BY <3>1, <3>2 DEF ConnRecords, Shut
  <2> QED
    BY <1>1, <1>2, <2>1, <2>2
<1>4. IF conn.open THEN conn.state # "CLOSED" ELSE conn.output = <<>>
  <2>1. conn.open => conn.state # "CLOSED"
    BY DEF HttpInv, ControlInv
  <2>2. ~conn.open => conn.output = <<>>
    BY DEF HttpInv, ClosedInv
  <2> QED
    BY <2>1, <2>2
<1>5. TypeInv'
  <2>1. conn'.base <= conn'.top
    BY <1>2, <1>3 DEF HttpInv, TypeInv, Shut, ConnRecords
  <2> QED
    BY <1>1, <1>3, <2>1 DEF HttpInv, TypeInv
<1>6. RefsInv' /\ ControlInv' /\ ClosedInv' /\ InputInv' /\ ChannelInv'
  BY <1>1, <1>2, <1>3
     DEF HttpInv, RefsInv, ControlInv, ClosedInv, InputInv, ChannelInv, Running, Updating, One, Shut
<1>7. AnsweredInOrder' /\ (Unnoticed \/ ClosedWith(Channel(conn)))
  <2>1. conn.sndbuf \in Units /\ conn.output \in Units
    BY <1>2 DEF ConnRecords
  <2>2. CASE conn'.open = conn.open /\ conn'.output = conn.output
    BY <1>1, <1>3, <2>2 DEF HttpInv, AnsweredInOrder, Unnoticed, Channel
  <2>3. CASE Shut(conn')
    <3>1. Channel(conn') \o conn.output = Channel(conn)
      BY <1>3, <2>1, <2>3, NothingLost DEF Channel, Shut
    <3>2. AnsweredInOrder'
      BY <1>1, <1>5, <2>1, <3>1, OrderKept DEF HttpInv
    <3>3. CASE conn.open
      BY <1>1, <1>2, <1>3, <2>1, <2>3, <3>1, <3>2, <3>3 DEF ClosedWith, Shut
    <3>4. CASE ~conn.open
      <4>1. conn.open \in BOOLEAN /\ conn'.open \in BOOLEAN
        BY <1>2, <1>3 DEF ConnRecords
      <4>2. conn'.open = conn.open
        BY <2>3, <3>4, <4>1, Zenon DEF Shut
      <4>3. conn'.output = conn.output
        BY <1>4, <2>3, <3>4 DEF Shut
      <4> QED
        BY <2>2, <4>2, <4>3
    <3> QED
      BY <3>3, <3>4
  <2> QED
    BY <1>3, <2>2, <2>3
<1> QED
  BY <1>5, <1>6, <1>7 DEF HttpInv

----------------------------------------------------------------------------
(* The invariants                                                           *)

(* No step of the worker, the kernel or the client breaks the invariant.    *)
LEMMA NextHolds ==
  ASSUME HttpInv, [Next]_vars
  PROVE  HttpInv'
<1>1. CASE UNCHANGED vars
  <2>1. TypeInv' /\ RefsInv' /\ ControlInv' /\ ClosedInv'
    BY <1>1 DEF vars, HttpInv, TypeInv, RefsInv, ControlInv, ClosedInv, Running, Updating
  <2>2. InputInv' /\ ChannelInv' /\ AnsweredInOrder'
    BY <1>1 DEF vars, HttpInv, InputInv, ChannelInv, AnsweredInOrder, Running, AnsweredRequests
  <2> QED
    BY <2>1, <2>2 DEF HttpInv
<1>2. CASE Worker
  <2>1. CASE update_end
    <3>1. pc = "finish"
      BY <2>1 DEF update_end
    <3> QED
      BY <2>1, <3>1, UpdateEndOpen, UpdateEndClosed
  <2> QED
    BY <1>2, <2>1, AcceptStep, PollSteps, ReadEvent, WriteAndCloseEvents, ReadStep, HandlerStep,
       QuietSteps DEF Worker
<1>3. CASE server_respond
  BY <1>3, LateAnswer, LostAnswer
<1>4. CASE server_shutdown
  BY <1>4, ShutdownStep
<1>5. CASE poll_complete \/ poll_cancelled
  BY <1>5, PollSteps
<1>6. CASE Client
  BY <1>6, ClientSteps, QuietSteps DEF Client
<1> QED
  BY <1>1, <1>2, <1>3, <1>4, <1>5, <1>6 DEF Next

(* The inductive invariant holds in every behaviour of the connection.      *)
THEOREM HttpInvHolds == Spec => []HttpInv
<1>1. Init => HttpInv
  BY InitHolds
<1>2. HttpInv /\ [Next]_vars => HttpInv'
  BY NextHolds
<1> QED
  BY <1>1, <1>2, PTL DEF Spec

(* The variables keep their types: no reference is missing or left, the     *)
(* input never ends before it begins, the socket never holds too much.      *)
THEOREM TypeCorrect == Spec => []TypeOK
<1>1. HttpInv => TypeOK
  <2> SUFFICES ASSUME HttpInv PROVE TypeOK
    OBVIOUS
  <2>1. conn \in ConnRecords /\ conn.ref \in 0 .. 4 /\ conn.polls \in PollBags
    BY DEF HttpInv, TypeInv, RefsInv, ConnRecords
  <2>2. IsABag(conn.polls) /\ BagToSet(conn.polls) \subseteq Polls
    BY <2>1, PollsHeld
  <2> QED
    BY <2>1, <2>2 DEF HttpInv, TypeInv, TypeOK, ConnRecords, Units
<1> QED
  BY <1>1, HttpInvHolds, PTL

(* The responses are given in the order of the requests, each once and      *)
(* uninterrupted, however requests and responses are split.                 *)
THEOREM AnsweredInOrderHolds == Spec => []AnsweredInOrder
<1>1. HttpInv => AnsweredInOrder
  BY DEF HttpInv
<1> QED
  BY <1>1, HttpInvHolds, PTL

(* The worker never sleeps on a request it could serve.                     *)
THEOREM NoRequestForgottenHolds == Spec => []NoRequestForgotten
<1>1. HttpInv => NoRequestForgotten
  BY DEF HttpInv, TypeInv, ControlInv, InputInv, NoRequestForgotten, Running, ConnRecords
<1> QED
  BY <1>1, HttpInvHolds, PTL

(* A poll taken from a bag, with another put in or none, adds to no other.  *)
LEMMA NoPollAdded ==
  ASSUME NEW B \in PollBags, NEW p \in Polls, NEW q \in Polls, NEW r \in Polls, r # q
  PROVE  /\ Copies(r, B (-) SetToBag({p})) <= Copies(r, B)
         /\ Copies(r, (B (-) SetToBag({p})) (+) SetToBag({q})) <= Copies(r, B)
<1>1. PICK S \in SUBSET Polls : B \in [S -> Nat \ {0}]
  BY DEF PollBags
<1>2. Copies(r, B) \in Nat
  BY <1>1 DEF Copies, BagIn, BagToSet
<1> DEFINE D == B (-) SetToBag({p})
<1>3. Copies(r, D) \in Nat /\ Copies(r, D) <= Copies(r, B)
  BY <1>1, <1>2 DEF Copies, BagIn, BagToSet, SetToBag, (-)
<1>4. D \in PollBags
  BY PollsAdded
<1> HIDE DEF D
<1>5. PICK T \in SUBSET Polls : D \in [T -> Nat \ {0}]
  BY <1>4 DEF PollBags
<1>6. Copies(r, D (+) SetToBag({q})) = Copies(r, D)
  BY <1>5 DEF Copies, BagIn, BagToSet, SetToBag, (+)
<1> QED
  BY <1>2, <1>3, <1>6 DEF D

(* What stays silent between two states of a closed connection.             *)
Silent ==
  /\ conn'.state = "CLOSED" /\ ~conn'.open
  /\ conn'.output = <<>> /\ Input(conn') = 0 /\ conn'.top = conn.top
  /\ Len(conn'.sndbuf) <= Len(conn.sndbuf)
  /\ evs' \subseteq evs
  /\ \A p \in Polls : p.res = {} => Copies(p, conn'.polls) <= Copies(p, conn.polls)

(* A step that leaves the stream of a closed connection alone is silent.    *)
LEMMA StreamAlone ==
  ASSUME HttpInv, conn.state = "CLOSED",
         conn'.state = conn.state, conn'.open = conn.open, conn'.output = conn.output,
         conn'.base = conn.base, conn'.top = conn.top, conn'.polls = conn.polls,
         Len(conn'.sndbuf) <= Len(conn.sndbuf), evs' \subseteq evs
  PROVE  Silent
<1>1. ~conn.open /\ conn.output = <<>> /\ conn.base = conn.top /\ conn.top \in Nat
  BY DEF HttpInv, TypeInv, ControlInv, ClosedInv, ConnRecords
<1>2. Input(conn') = 0
  BY <1>1 DEF Input
<1>3. ASSUME NEW p \in Polls
      PROVE  Copies(p, conn.polls) <= Copies(p, conn.polls)
  BY DEF HttpInv, TypeInv, ConnRecords, PollBags, Copies, BagIn, BagToSet
<1> QED
  BY <1>1, <1>2, <1>3 DEF Silent

(* A step that only takes or completes a poll is silent.                    *)
LEMMA PollTakenSilently ==
  ASSUME HttpInv, conn.state = "CLOSED", UNCHANGED evs,
         dropped \/ poll_complete \/ poll_cancelled
  PROVE  Silent
<1>1. ~conn.open /\ conn.output = <<>> /\ conn.base = conn.top /\ conn.top \in Nat
      /\ conn \in ConnRecords
  BY DEF HttpInv, TypeInv, ControlInv, ClosedInv, ConnRecords
<1>2. Len(conn.sndbuf) \in Nat
  BY <1>1, LenProperties DEF ConnRecords, Units
<1>3. conn.polls \in PollBags /\ BagToSet(conn.polls) \subseteq Polls
  BY <1>1, PollsHeld DEF ConnRecords
<1>4. CASE dropped \/ poll_cancelled
  <2>1. PICK p \in BagToSet(conn.polls), x \in BOOLEAN :
          conn' = [conn EXCEPT !.cancel = x, !.polls = @ (-) SetToBag({p})]
    <3>1. conn = [conn EXCEPT !.cancel = conn.cancel] /\ conn.cancel \in BOOLEAN
      BY <1>1 DEF ConnRecords
    <3> QED
      BY <1>4, <3>1 DEF dropped, poll_cancelled
  <2>2. /\ conn'.polls = conn.polls (-) SetToBag({p})
        /\ conn'.state = conn.state /\ conn'.open = conn.open /\ conn'.output = conn.output
        /\ conn'.base = conn.base /\ conn'.top = conn.top /\ conn'.sndbuf = conn.sndbuf
    BY <1>1, <2>1 DEF ConnRecords
  <2>3. ASSUME NEW r \in Polls
        PROVE  Copies(r, conn'.polls) <= Copies(r, conn.polls)
    <3>1. PICK q \in Polls : r # q
      <4>1. Poll({}) \in Polls /\ Poll({"READ"}) \in Polls /\ Poll({}) # Poll({"READ"})
        BY DEF Poll, Polls, Interests
      <4> QED
        BY <4>1
    <3> QED
      BY <1>3, <2>2, <3>1, NoPollAdded
  <2>4. Input(conn') = 0 /\ Len(conn'.sndbuf) <= Len(conn.sndbuf)
    BY <1>1, <1>2, <2>2 DEF Input
  <2> QED
    BY <1>1, <2>2, <2>3, <2>4 DEF Silent
<1>5. CASE poll_complete
  <2>1. PICK p \in BagToSet(conn.polls) :
          LET res == Readiness \cap (p.events \cup {"CLOSE"}) IN
          /\ res # {}
          /\ conn' = [conn EXCEPT !.polls = (@ (-) SetToBag({p})) (+) SetToBag({[p EXCEPT !.res = res]})]
    BY <1>5 DEF poll_complete
  <2> DEFINE res == Readiness \cap (p.events \cup {"CLOSE"})
             q == [p EXCEPT !.res = res]
  <2>2. p \in Polls /\ q \in Polls /\ q.res # {}
    BY <1>3, <2>1 DEF Polls, Readiness, Bits
  <2> HIDE DEF q
  <2>3. conn' = [conn EXCEPT !.polls = (conn.polls (-) SetToBag({p})) (+) SetToBag({q})]
    BY <2>1 DEF q
  <2>4. /\ conn'.polls = (conn.polls (-) SetToBag({p})) (+) SetToBag({q})
        /\ conn'.state = conn.state /\ conn'.open = conn.open /\ conn'.output = conn.output
        /\ conn'.base = conn.base /\ conn'.top = conn.top /\ conn'.sndbuf = conn.sndbuf
    BY <1>1, <2>3 DEF ConnRecords
  <2>5. ASSUME NEW r \in Polls, r.res = {}
        PROVE  Copies(r, conn'.polls) <= Copies(r, conn.polls)
    BY <1>3, <2>2, <2>4, <2>5, NoPollAdded
  <2>6. Input(conn') = 0 /\ Len(conn'.sndbuf) <= Len(conn.sndbuf)
    BY <1>1, <1>2, <2>4 DEF Input
  <2> QED
    BY <1>1, <2>4, <2>5, <2>6 DEF Silent
<1> QED
  BY <1>4, <1>5

(* A release of a closed connection leaves its stream alone.                *)
LEMMA ReleasedSilently ==
  ASSUME NEW c \in ConnRecords, c.ref > 0, ~c.open
  PROVE  server_release(c) = [c EXCEPT !.ref = c.ref - 1]
<1>1. stream_close(c) = c
  BY CloseFacts
<1> QED
  BY <1>1 DEF server_release, ConnRecords

(* Nothing more happens for a closed connection, although polls submitted   *)
(* before the close complete and a handler may still answer.                *)
THEOREM ClosedIsSilentHolds == Spec => ClosedIsSilent
<1>1. ASSUME HttpInv, [Next]_vars, conn.state = "CLOSED"
      PROVE  Silent
  <2>1. /\ ~conn.open /\ conn \in ConnRecords /\ Len(conn.sndbuf) \in Nat
        /\ pc \notin {"read", "handler"}
        /\ pc = "event" => conn.ref = 0 \/ evs \subseteq {"CLOSE"}
    <3>1. ~conn.open /\ conn \in ConnRecords
      BY <1>1 DEF HttpInv, TypeInv, ControlInv
    <3>2. Len(conn.sndbuf) \in Nat
      BY <3>1, LenProperties DEF ConnRecords, Units
    <3> QED
      BY <1>1, <3>1, <3>2 DEF HttpInv, ControlInv, Running
  <2>2. CASE UNCHANGED vars
    BY <1>1, <2>1, <2>2, StreamAlone DEF vars
  <2>3. CASE server_socket_accept \/ dispatch \/ server_request_read \/ http_server_handle_request
    BY <1>1, <2>1, <2>3 DEF server_socket_accept, dispatch, server_request_read,
                            http_server_handle_request
  <2>4. CASE on_read \/ on_write
    BY <2>1, <2>4 DEF on_read, on_write, Event
  <2>5. CASE on_close
    <3>1. conn' = conn /\ evs' \subseteq evs
      BY <1>1, <2>5 DEF on_close, server_close
    <3> QED
      BY <1>1, <2>1, <3>1, StreamAlone
  <2>6. CASE dispatched
    <3>1. conn' = conn /\ evs' \subseteq evs
      BY <2>1, <2>6 DEF dispatched, rearm
    <3> QED
      BY <1>1, <2>1, <3>1, StreamAlone
  <2>7. CASE dropped \/ poll_complete \/ poll_cancelled
    BY <1>1, <2>7, PollTakenSilently DEF dropped, poll_complete, poll_cancelled
  <2>8. CASE update_end \/ server_respond \/ server_shutdown
    <3>1. /\ conn'.state = conn.state /\ conn'.open = conn.open /\ conn'.output = conn.output
          /\ conn'.base = conn.base /\ conn'.top = conn.top /\ conn'.polls = conn.polls
          /\ conn'.sndbuf = conn.sndbuf
      <4>1. CASE update_end
        <5> DEFINE c == [conn EXCEPT !.event_triggered = FALSE]
                   d == server_release(c)
        <5>1. conn' = IF answering THEN server_release(d) ELSE d
          BY <1>1, <4>1 DEF update_end
        <5>2. /\ c \in ConnRecords /\ ~c.open /\ c.ref = conn.ref /\ conn.ref \in Nat
              /\ c.state = conn.state /\ c.open = conn.open /\ c.output = conn.output
              /\ c.base = conn.base /\ c.top = conn.top /\ c.polls = conn.polls
              /\ c.sndbuf = conn.sndbuf
          BY <2>1 DEF ConnRecords
        <5> HIDE DEF c
        <5>3. pc = "finish" /\ answering \in BOOLEAN /\ conn.ref >= 1 /\ (answering => conn.ref >= 2)
          BY <1>1, <2>1, <4>1 DEF update_end, HttpInv, TypeInv, RefsInv, Running, Updating, One, ConnRecords
        <5>4. d = [c EXCEPT !.ref = c.ref - 1]
          BY <5>2, <5>3, ReleasedSilently
        <5> HIDE DEF d
        <5>5. d \in ConnRecords /\ ~d.open /\ d.ref = conn.ref - 1
              /\ d.state = conn.state /\ d.open = conn.open /\ d.output = conn.output
              /\ d.base = conn.base /\ d.top = conn.top /\ d.polls = conn.polls
              /\ d.sndbuf = conn.sndbuf
          BY <5>2, <5>3, <5>4 DEF ConnRecords
        <5>6. answering => server_release(d) = [d EXCEPT !.ref = d.ref - 1]
          BY <2>1, <5>3, <5>5, ReleasedSilently DEF ConnRecords
        <5>7. CASE answering
          <6>1. conn' = [d EXCEPT !.ref = d.ref - 1]
            BY <5>1, <5>6, <5>7
          <6> QED
            BY <5>5, <6>1 DEF ConnRecords
        <5>8. CASE ~answering
          <6>1. conn' = d
            BY <5>1, <5>8
          <6> QED
            BY <5>5, <6>1
        <5> QED
          BY <5>7, <5>8
      <4>2. CASE server_respond \/ server_shutdown
        <5>1. conn' = server_release(conn) /\ conn.ref > 0
          BY <1>1, <2>1, <4>2 DEF server_respond, server_shutdown, HttpInv, TypeInv, RefsInv, Running,
                                  Updating, One, ConnRecords
        <5>2. conn' = [conn EXCEPT !.ref = conn.ref - 1]
          BY <2>1, <5>1, ReleasedSilently
        <5> QED
          BY <2>1, <5>2 DEF ConnRecords
      <4> QED
        BY <2>8, <4>1, <4>2
    <3>2. UNCHANGED evs
      BY <2>8 DEF update_end, server_respond, server_shutdown
    <3> QED
      BY <1>1, <2>1, <3>1, <3>2, StreamAlone
  <2>9. CASE assert_fails \/ client_send \/ client_shutdown
    BY <1>1, <2>1, <2>9, StreamAlone DEF assert_fails, Abort, client_send, client_shutdown
  <2>10. CASE client_recv \/ client_reset
    <3>1. PICK s \in Units : conn' = [conn EXCEPT !.sndbuf = s] /\ Len(s) <= Len(conn.sndbuf)
      <4>1. CASE client_recv
        <5>1. conn.sndbuf \in Seq(1 .. NRequests) /\ conn.sndbuf # <<>>
          BY <2>1, <4>1 DEF client_recv, ConnRecords, Units
        <5>2. Tail(conn.sndbuf) \in Seq(1 .. NRequests) /\ Len(Tail(conn.sndbuf)) = Len(conn.sndbuf) - 1
          BY <5>1, HeadTailProperties
        <5>3. conn' = [conn EXCEPT !.sndbuf = Tail(conn.sndbuf)]
          BY <4>1 DEF client_recv
        <5>4. Tail(conn.sndbuf) \in Units /\ Len(Tail(conn.sndbuf)) <= Len(conn.sndbuf)
          BY <2>1, <5>2 DEF Units
        <5> QED
          BY <5>3, <5>4
      <4>2. CASE client_reset
        <5>1. <<>> \in Units /\ Len(<<>>) = 0
          BY EmptySeq DEF Units
        <5> QED
          BY <2>1, <4>2, <5>1 DEF client_reset
      <4> QED
        BY <2>10, <4>1, <4>2
    <3>2. /\ conn'.state = conn.state /\ conn'.open = conn.open /\ conn'.output = conn.output
          /\ conn'.base = conn.base /\ conn'.top = conn.top /\ conn'.polls = conn.polls
          /\ conn'.sndbuf = s
      BY <2>1, <3>1 DEF ConnRecords
    <3>3. UNCHANGED evs
      BY <2>10 DEF client_recv, client_reset
    <3> QED
      BY <1>1, <3>1, <3>2, <3>3, StreamAlone
  <2> QED
    BY <1>1, <2>2, <2>3, <2>4, <2>5, <2>6, <2>7, <2>8, <2>9, <2>10 DEF Next, Worker, Client
<1>2. HttpInv /\ [Next]_vars => [conn.state = "CLOSED" => Silent]_vars
  BY <1>1
<1> QED
  BY <1>2, HttpInvHolds, PTL DEF Spec, ClosedIsSilent, Silent

(* How many of four distinct names a condition of each selects.             *)
LEMMA FourCounted ==
  ASSUME NEW a \in BOOLEAN, NEW b \in BOOLEAN, NEW c \in BOOLEAN, NEW d \in BOOLEAN
  PROVE  Cardinality({u \in {"connection", "handler", "update", "respond"} :
            \/ u = "connection" /\ a
            \/ u = "handler" /\ b
            \/ u = "update" /\ c
            \/ u = "respond" /\ d})
         = One(a) + One(b) + One(c) + One(d)
<1> DEFINE Pick(x, u) == IF x THEN {u} ELSE {}
           A == Pick(a, "connection")
           B == A \cup Pick(b, "handler")
           C == B \cup Pick(c, "update")
           D == C \cup Pick(d, "respond")
<1>1. IsFiniteSet({}) /\ Cardinality({}) = 0
  BY FS_EmptySet
<1>2. ASSUME NEW S, IsFiniteSet(S), NEW u, u \notin S, NEW x \in BOOLEAN
      PROVE  IsFiniteSet(S \cup Pick(x, u))
             /\ Cardinality(S \cup Pick(x, u)) = Cardinality(S) + One(x)
  <2>1. Cardinality(S) \in Nat
    BY <1>2, FS_CardinalityType
  <2>2. CASE x
    BY <1>2, <2>2, FS_AddElement DEF One
  <2>3. CASE ~x
    BY <1>2, <2>1, <2>3 DEF One
  <2> QED
    BY <2>2, <2>3
<1>3. IsFiniteSet(A) /\ Cardinality(A) = One(a)
  <2>1. IsFiniteSet({"connection"}) /\ Cardinality({"connection"}) = 1
    BY FS_Singleton
  <2> QED
    BY <1>1, <2>1 DEF One
<1>4. IsFiniteSet(B) /\ Cardinality(B) = One(a) + One(b)
  <2>1. "handler" \notin A
    OBVIOUS
  <2> HIDE DEF A
  <2> QED
    BY <1>2, <1>3, <2>1
<1>5. IsFiniteSet(C) /\ Cardinality(C) = One(a) + One(b) + One(c)
  <2>1. "update" \notin B
    OBVIOUS
  <2> HIDE DEF B
  <2> QED
    BY <1>2, <1>4, <2>1
<1>6. IsFiniteSet(D) /\ Cardinality(D) = One(a) + One(b) + One(c) + One(d)
  <2>1. "respond" \notin C
    OBVIOUS
  <2> HIDE DEF C
  <2> QED
    BY <1>2, <1>5, <2>1
<1>7. D = {u \in {"connection", "handler", "update", "respond"} :
            \/ u = "connection" /\ a
            \/ u = "handler" /\ b
            \/ u = "update" /\ c
            \/ u = "respond" /\ d}
  <2> DEFINE E == {u \in {"connection", "handler", "update", "respond"} :
                    \/ u = "connection" /\ a
                    \/ u = "handler" /\ b
                    \/ u = "update" /\ c
                    \/ u = "respond" /\ d}
  <2>1. ASSUME NEW u
        PROVE  u \in D <=> \/ u = "connection" /\ a
                           \/ u = "handler" /\ b
                           \/ u = "update" /\ c
                           \/ u = "respond" /\ d
    OBVIOUS
  <2>2. ASSUME NEW u
        PROVE  u \in E <=> \/ u = "connection" /\ a
                           \/ u = "handler" /\ b
                           \/ u = "update" /\ c
                           \/ u = "respond" /\ d
    OBVIOUS
  <2> HIDE DEF D, E
  <2>3. D = E
    BY <2>1, <2>2
  <2> QED
    BY <2>3 DEF E
<1> QED
  BY <1>6, <1>7

(* The reference count counts the users of the request.                     *)
THEOREM RefsCountedHolds == Spec => []RefsCounted
<1>1. HttpInv => RefsCounted
  <2> SUFFICES ASSUME HttpInv, Running PROVE conn.ref = Users
    BY DEF RefsCounted
  <2> DEFINE a == conn.state \notin {"NONE", "CLOSED"}
             b == pending # 0
             c == pc \in {"read", "handler", "finish"}
  <2>1. conn.ref = One(a) + One(b) + One(c) + One(answering) /\ answering \in BOOLEAN
    BY DEF HttpInv, TypeInv, RefsInv, Updating
  <2>2. a \in BOOLEAN /\ b \in BOOLEAN /\ c \in BOOLEAN
    OBVIOUS
  <2>3. Users = Cardinality({u \in {"connection", "handler", "update", "respond"} :
            \/ u = "connection" /\ a
            \/ u = "handler" /\ b
            \/ u = "update" /\ c
            \/ u = "respond" /\ answering})
    BY DEF Users
  <2> HIDE DEF a, b, c
  <2> QED
    BY <2>1, <2>2, <2>3, FourCounted
<1> QED
  BY <1>1, HttpInvHolds, PTL
----------------------------------------------------------------------------
(* The connection implements Responder                                      *)

Need(k) == IF k \in Bad THEN (k - 1) * RequestLen + 1 ELSE k * RequestLen

Phase ==
  IF peer = "reset" THEN "lost"
  ELSE IF conn.state = "NONE" THEN "none"
  ELSE IF conn.open THEN "open" ELSE "closed"
Received == Cardinality({k \in 1 .. NRequests : Arrived(k)})
OnItsWay == IF peer = "reset" THEN <<>> ELSE conn.sndbuf \o conn.output

(* The steps of Responder, said of the connection.                          *)
LEMMA ResponderSteps ==
  /\ Phase = "none" /\ Phase' = "open" /\ UNCHANGED <<Received, OnItsWay, got>>
       => Abstract!Next
  /\ Received < NRequests /\ Received' = Received + 1 /\ UNCHANGED <<Phase, OnItsWay, got>>
       => Abstract!Next
  /\ Phase # "lost" /\ Phase' = "lost" /\ OnItsWay' = <<>> /\ UNCHANGED <<Received, got>>
       => Abstract!Next
  /\ OnItsWay # <<>> /\ got' = Append(got, Head(OnItsWay)) /\ OnItsWay' = Tail(OnItsWay)
       => (UNCHANGED <<Phase, Received>> => Abstract!Next)
  /\ UNCHANGED <<Phase, Received, OnItsWay, got>> => UNCHANGED Abstract!vars
<1> USE DEF Phase, Received, OnItsWay, Abstract!Next
<1>1. Phase = "none" /\ Phase' = "open" /\ UNCHANGED <<Received, OnItsWay, got>>
        => Abstract!Next
  BY DEF Abstract!Accept
<1>2. Received < NRequests /\ Received' = Received + 1 /\ UNCHANGED <<Phase, OnItsWay, got>>
        => Abstract!Next
  BY DEF Abstract!Receive
<1>3. Phase # "lost" /\ Phase' = "lost" /\ OnItsWay' = <<>> /\ UNCHANGED <<Received, got>>
        => Abstract!Next
  BY DEF Abstract!Lose
<1>4. OnItsWay # <<>> /\ got' = Append(got, Head(OnItsWay)) /\ OnItsWay' = Tail(OnItsWay)
        => (UNCHANGED <<Phase, Received>> => Abstract!Next)
  BY DEF Abstract!Deliver
<1>5. UNCHANGED <<Phase, Received, OnItsWay, got>> => UNCHANGED Abstract!vars
  BY DEF Abstract!vars
<1> QED
  BY <1>1, <1>2, <1>3, <1>4, <1>5

(* A step the client does not notice, or any after the reset, is a stutter. *)
LEMMA Stutters ==
  ASSUME UNCHANGED <<sent, got>>, peer' = "reset" <=> peer = "reset",
         \/ peer = "reset"
         \/ /\ conn'.open = conn.open /\ (conn'.state = "NONE" <=> conn.state = "NONE")
            /\ Channel(conn') = Channel(conn)
  PROVE  UNCHANGED Abstract!vars
<1>1. Received' = Received
  BY DEF Received, Arrived
<1>2. Phase' = Phase /\ OnItsWay' = OnItsWay
  BY DEF Phase, OnItsWay, Channel
<1> QED
  BY <1>1, <1>2, ResponderSteps

(* A request arrives after all before it.                                   *)
LEMMA NeedGrows ==
  ASSUME NEW j \in 1 .. NRequests, NEW k \in 1 .. NRequests, j < k
  PROVE  Need(j) \in Nat \ {0} /\ Need(k) \in Nat \ {0} /\ Need(j) < Need(k)
<1> DEFINE n == RequestLen
           B(x) == (x - 1) * n
           E(x) == x * n
<1>1. n \in Nat \ {0} /\ NRequests \in Nat
  BY HttpAssumption
<1>2. ASSUME NEW x \in 1 .. NRequests
      PROVE  B(x) \in Nat /\ E(x) = B(x) + n
  <2>1. x - 1 \in Nat /\ (x - 1) + 1 = x
    BY <1>1
  <2>2. ((x - 1) + 1) * n = (x - 1) * n + n
    BY <1>1, <2>1, BlocksFit
  <2> QED
    BY <1>1, <2>1, <2>2
<1>3. E(j) <= B(k)
  <2>1. j \in Nat /\ k - 1 \in Nat /\ j <= k - 1
    BY <1>1
  <2>2. E(j) \in Int /\ B(k) \in Int
    BY <1>1, <1>2
  <2>3. B(k) < E(j) => k - 1 < j
    BY <1>1, <2>1, BlocksFit
  <2> HIDE DEF B, E
  <2> QED
    BY <2>1, <2>2, <2>3
<1>4. /\ B(j) \in Nat /\ E(j) = B(j) + n /\ B(k) \in Nat /\ E(k) = B(k) + n
      /\ Need(j) = (IF j \in Bad THEN B(j) + 1 ELSE E(j))
      /\ Need(k) = (IF k \in Bad THEN B(k) + 1 ELSE E(k))
  BY <1>2 DEF Need
<1> HIDE DEF n, B, E
<1> QED
  BY <1>1, <1>3, <1>4

(* The requests that have arrived are counted.                              *)
LEMMA ArrivedCounted ==
  ASSUME TypeInv
  PROVE  /\ IsFiniteSet({k \in 1 .. NRequests : Arrived(k)}) /\ Received \in Nat
         /\ \A k \in 1 .. NRequests : Arrived(k) => k <= Received
<1> DEFINE A == {k \in 1 .. NRequests : Arrived(k)}
<1>1. NRequests \in Nat /\ sent \in Nat
  <2>1. NRequests * RequestLen \in Nat
    BY HttpAssumption
  <2> QED
    BY <2>1, HttpAssumption DEF TypeInv
<1>2. IsFiniteSet(1 .. NRequests)
  BY <1>1, FS_Interval
<1>3. IsFiniteSet(A) /\ Received \in Nat
  <2>1. A \in SUBSET (1 .. NRequests)
    OBVIOUS
  <2>2. IsFiniteSet(A)
    BY <1>2, <2>1, FS_Subset
  <2> QED
    BY <2>2, FS_CardinalityType DEF Received
<1>4. ASSUME NEW k \in 1 .. NRequests, Arrived(k)
      PROVE  k <= Received
  <2>1. 1 .. k \subseteq A
    <3> SUFFICES ASSUME NEW j \in 1 .. k PROVE j \in 1 .. NRequests /\ Arrived(j)
      OBVIOUS
    <3>1. j \in 1 .. NRequests /\ j \in Int /\ k \in Int
      BY <1>1
    <3>2. CASE j = k
      BY <1>4, <3>1, <3>2
    <3>3. CASE j # k
      <4>1. j < k
        BY <3>1, <3>3
      <4>2. Need(j) \in Nat /\ Need(k) \in Nat /\ Need(j) < Need(k)
        BY <3>1, <4>1, NeedGrows
      <4>3. Need(k) <= sent
        BY <1>1, <1>4, <4>2 DEF Arrived, Need
      <4>4. Need(j) <= sent
        BY <1>1, <4>2, <4>3
      <4> QED
        BY <1>1, <3>1, <4>2, <4>4 DEF Arrived, Need
    <3> QED
      BY <3>2, <3>3
  <2>2. Cardinality(1 .. k) = k
    <3>1. 1 \in Int /\ k \in Int /\ k >= 1
      BY <1>1
    <3> QED
      BY <3>1, FS_Interval
  <2>3. 1 .. k \in SUBSET A
    BY <2>1
  <2> HIDE DEF A
  <2>4. Cardinality(1 .. k) <= Cardinality(A)
    BY <1>3, <2>3, FS_Subset
  <2> QED
    BY <2>2, <2>4 DEF Received, A
<1> QED
  BY <1>3, <1>4

(* The response that is due is that to the first request not answered.      *)
LEMMA DueIs ==
  ASSUME HttpInv, Running, conn.open, peer # "reset"
  PROVE  Abstract!Due = AnsweredRequests + 1 /\ AnsweredRequests \in Nat
<1> DEFINE a == AnsweredRequests
           w == conn.sndbuf \o conn.output
<1>1. a \in Nat
  <2>1. pending = 0 => conn.base \div RequestLen \in Nat
    BY HttpAssumption, ModZero DEF HttpInv, TypeInv, ConnRecords, InputInv
  <2>2. pending \in Nat
    BY HttpAssumption DEF HttpInv, TypeInv
  <2> QED
    BY <2>1, <2>2 DEF AnsweredRequests
<1>2. Len(got) + Len(w) = a * ResponseLen
  BY DEF HttpInv, ChannelInv, Channel
<1>3. Abstract!Due = (Len(got) + Len(w)) \div ResponseLen + 1
  BY DEF Abstract!Due
<1> HIDE DEF a, w
<1>4. (a * ResponseLen) \div ResponseLen = a
  BY <1>1, HttpAssumption, MultipleDiv
<1> QED
  BY <1>1, <1>2, <1>3, <1>4 DEF a

(* An answer is Responder's, or a stutter once the client has reset.        *)
LEMMA AnswerImplements ==
  ASSUME HttpInv, Running, pending # 0, conn.open, conn'.open, conn'.state # "NONE",
         Channel(conn') = Channel(conn) \o Response(pending),
         UNCHANGED <<sent, got, peer>>
  PROVE  [Abstract!Next]_(Abstract!vars)
<1>1. CASE peer = "reset"
  BY <1>1, Stutters
<1>2. CASE peer # "reset"
  <2> DEFINE k == pending
  <2>1. /\ k \in 1 .. NRequests /\ k \notin Bad /\ k * RequestLen <= sent
        /\ conn.state # "NONE" /\ TypeInv
    BY HttpAssumption DEF HttpInv, TypeInv, InputInv, ControlInv
  <2>2. Abstract!Due = k
    <3>1. AnsweredRequests + 1 = k
      BY <2>1, HttpAssumption DEF AnsweredRequests
    <3> QED
      BY <1>2, <3>1, DueIs
  <2>3. k <= Received
    <3>1. Arrived(k)
      <4> DEFINE due == k * RequestLen
      <4>1. due <= sent /\ due \in Int /\ sent \in Int
        <5>1. NRequests * RequestLen \in Nat /\ k \in Int /\ RequestLen \in Int
          BY <2>1, HttpAssumption
        <5> QED
          BY <2>1, <5>1 DEF TypeInv
      <4> HIDE DEF due
      <4>2. sent >= due
        BY <4>1
      <4> QED
        BY <2>1, <4>2 DEF Arrived, due
    <3> QED
      BY <2>1, <3>1, ArrivedCounted
  <2>4. Phase = "open" /\ Phase' = "open"
    BY <1>2, <2>1 DEF Phase
  <2>5. OnItsWay' = OnItsWay \o Response(k)
    BY <1>2 DEF OnItsWay, Channel
  <2>6. Received' = Received
    BY DEF Received, Arrived
  <2>7. Abstract!Response(k) = Response(k)
    BY DEF Abstract!Response, Response
  <2> HIDE DEF k
  <2>8. Abstract!Answer
    BY <2>1, <2>2, <2>3, <2>4, <2>5, <2>6, <2>7
       DEF Abstract!Answer, Phase, Received, OnItsWay
  <2> QED
    BY <2>8 DEF Abstract!Next
<1> QED
  BY <1>1, <1>2

(* What is left in a closed channel is a beginning of what was to be sent.  *)
LEMMA Shortened ==
  ASSUME NEW s \in Units, NEW u \in Units
  PROVE  \E n \in 0 .. Len(s \o u) : s = SubSeq(s \o u, 1, n)
<1> DEFINE m == Len(s)
<1>1. Len(s \o u) = m + Len(u) /\ m \in Nat /\ Len(u) \in Nat
  BY Joined
<1>2. s = SubSeq(s \o u, 1, m)
  <2>1. CASE m = 0
    <3>1. s = <<>>
      BY <2>1, EmptySeq DEF Units
    <3>2. SubSeq(s \o u, 1, 0) = <<>>
      BY SubSeqEmpty
    <3> QED
      BY <2>1, <3>1, <3>2
  <2>2. CASE m # 0
    <3>1. 1 \in 1 .. Len(s) /\ m \in 1 .. Len(s)
      BY <1>1, <2>2
    <3>2. SubSeq(s \o u, 1, m) = SubSeq(s, 1, m)
      BY <3>1, SubSeqOfConcat1 DEF Units
    <3> QED
      BY <3>2, SubSeqFull DEF Units
  <2> QED
    BY <2>1, <2>2
<1>3. m \in 0 .. Len(s \o u)
  <2> DEFINE k == Len(u)
  <2>1. k \in Nat
    BY <1>1
  <2> HIDE DEF m, k
  <2> QED
    BY <1>1, <2>1 DEF k
<1> QED
  BY <1>2, <1>3

(* A close is Responder's.                                                  *)
LEMMA CloseImplements ==
  ASSUME HttpInv, TypeInv', peer # "reset", NEW v, ClosedWith(v)
  PROVE  /\ Phase = "open" /\ Phase' = "closed" /\ UNCHANGED <<Received, got>>
         /\ \E n \in 0 .. Len(v) : OnItsWay' = SubSeq(v, 1, n)
<1>1. Phase = "open" /\ Phase' = "closed"
  BY DEF ClosedWith, HttpInv, ControlInv, Phase
<1>2. Received' = Received /\ got' = got
  BY DEF ClosedWith, Received, Arrived
<1>3. OnItsWay' = Channel(conn') /\ Channel(conn') \in Units
  <2>1. conn'.sndbuf \in Units /\ conn'.output \in Units
    BY DEF TypeInv, ConnRecords
  <2> QED
    BY <2>1, Joined DEF ClosedWith, OnItsWay, Channel
<1>4. PICK u \in Units : Channel(conn') \o u = v
  BY DEF ClosedWith
<1> QED
  BY <1>1, <1>2, <1>3, <1>4, Shortened
(* A unit sent completes a request, is the first of a malformed one, or is  *)
(* not to be seen.                                                          *)
LEMMA SendImplements ==
  ASSUME HttpInv, client_send
  PROVE  [Abstract!Next]_(Abstract!vars)
<1> DEFINE A == {k \in 1 .. NRequests : Arrived(k)}
           B == {k \in 1 .. NRequests : Arrived(k)'}
<1>1. TypeInv /\ sent' = sent + 1 /\ sent \in Nat /\ NRequests \in Nat
  <2>1. NRequests * RequestLen \in Nat
    BY HttpAssumption
  <2> QED
    BY <2>1, HttpAssumption DEF HttpInv, TypeInv, client_send
<1>2. IsFiniteSet(A) /\ Received = Cardinality(A) /\ Received \in Nat
  BY <1>1, ArrivedCounted DEF Received
<1>3. Received' = Cardinality(B)
  BY DEF Received
<1>4. UNCHANGED <<Phase, OnItsWay, got>>
  BY DEF client_send, Phase, OnItsWay
<1>5. ASSUME NEW k \in 1 .. NRequests
      PROVE  /\ Need(k) \in Nat /\ (Arrived(k) <=> Need(k) <= sent)
             /\ (Arrived(k)' <=> Need(k) <= sent + 1)
  <2> DEFINE due == k * RequestLen
             from == (k - 1) * RequestLen
  <2>1. due \in Nat /\ from \in Nat
    <3>1. k \in Nat /\ k - 1 \in Nat
      BY <1>1
    <3> QED
      BY <3>1, HttpAssumption
  <2>2. /\ Need(k) = IF k \in Bad THEN from + 1 ELSE due
        /\ Arrived(k) <=> sent >= IF k \in Bad THEN from + 1 ELSE due
        /\ Arrived(k)' <=> sent' >= IF k \in Bad THEN from + 1 ELSE due
    BY DEF Need, Arrived
  <2> HIDE DEF due, from
  <2> QED
    BY <1>1, <2>1, <2>2
<1>6. CASE \E k \in 1 .. NRequests : Need(k) = sent + 1
  <2>1. PICK k \in 1 .. NRequests : Need(k) = sent + 1
    BY <1>6
  <2>2. ASSUME NEW j \in 1 .. NRequests, Need(j) = Need(k)
        PROVE  j = k
    <3>1. j \in Int /\ k \in Int
      BY <1>1
    <3>2. Need(j) \in Nat /\ Need(k) \in Nat
      BY <1>5
    <3>3. ~(j < k) /\ ~(k < j)
      BY <2>2, <3>2, NeedGrows
    <3> QED
      BY <3>1, <3>3
  <2>3. ASSUME NEW j \in 1 .. NRequests
        PROVE  j \in B <=> j \in A \cup {k}
    BY <1>1, <1>5, <2>1, <2>2
  <2>4. B = A \cup {k} /\ k \notin A
    <3>1. k \notin A
      BY <1>1, <1>5, <2>1
    <3> QED
      BY <2>3, <3>1
  <2>5. B \in SUBSET (1 .. NRequests) /\ IsFiniteSet(1 .. NRequests)
        /\ Cardinality(1 .. NRequests) = NRequests
    <3>1. IsFiniteSet(1 .. NRequests)
          /\ Cardinality(1 .. NRequests) = IF 1 > NRequests THEN 0 ELSE NRequests - 1 + 1
      BY <1>1, FS_Interval
    <3> QED
      BY <1>1, <3>1
  <2> HIDE DEF A, B
  <2>6. Received' = Received + 1
    BY <1>2, <1>3, <2>4, FS_AddElement
  <2>7. Received' <= NRequests
    BY <1>3, <2>5, FS_Subset
  <2>8. Received < NRequests
    BY <1>1, <1>2, <2>6, <2>7
  <2> QED
    BY <1>4, <2>6, <2>8, ResponderSteps
<1>7. CASE ~ \E k \in 1 .. NRequests : Need(k) = sent + 1
  <2>1. ASSUME NEW j \in 1 .. NRequests
        PROVE  j \in B <=> j \in A
    BY <1>1, <1>5, <1>7
  <2>2. B = A
    BY <2>1
  <2> HIDE DEF A, B
  <2> QED
    BY <1>2, <1>3, <1>4, <2>2, ResponderSteps
<1> QED
  BY <1>6, <1>7

(* A refusal is Responder's.                                                *)
LEMMA RefuseImplements ==
  ASSUME HttpInv, TypeInv', Input(conn) > 0, http_read_request_data(conn) = -1, pc = "read",
         peer # "reset", ClosedWith(Channel(conn) \o Response(FrontRequest(conn)))
  PROVE  Abstract!Next
<1> DEFINE k == FrontRequest(conn)
<1>1. /\ conn.open /\ Running /\ k \in 1 .. NRequests /\ k \in Bad /\ k = AnsweredRequests + 1
      /\ conn.base = (k - 1) * RequestLen
  BY FrontFacts
<1>2. TypeInv /\ conn.base \in Nat /\ conn.top \in Nat /\ conn.top <= sent
  BY DEF HttpInv, TypeInv, ConnRecords
<1> HIDE DEF k
<1>3. k <= Received
  <2> DEFINE from == (k - 1) * RequestLen
             b == conn.base
             t == conn.top
  <2>1. b = from /\ b \in Nat /\ t \in Nat /\ t <= sent /\ t - b > 0 /\ sent \in Int
    <3>1. NRequests * RequestLen \in Nat
      BY HttpAssumption
    <3> QED
      BY <1>1, <1>2, <3>1 DEF Input, TypeInv
  <2> HIDE DEF from, b, t
  <2>2. sent >= from + 1
    BY <2>1
  <2>3. Arrived(k)
    BY <1>1, <2>2 DEF Arrived, from
  <2> QED
    BY <1>1, <1>2, <2>3, ArrivedCounted
<1>4. Abstract!Due = k
  BY <1>1, DueIs
<1> DEFINE v == Channel(conn) \o Response(k)
<1>5. /\ Phase = "open" /\ Phase' = "closed" /\ UNCHANGED <<Received, got>>
      /\ \E n \in 0 .. Len(v) : OnItsWay' = SubSeq(v, 1, n)
  BY CloseImplements DEF k
<1>6. v = OnItsWay \o Abstract!Response(k)
  BY DEF OnItsWay, Channel, Response, Abstract!Response
<1> HIDE DEF v
<1>7. Abstract!CloseWith(v)
  BY <1>5 DEF Abstract!CloseWith, Phase, Received, OnItsWay
<1>8. Abstract!Refuse
  BY <1>1, <1>3, <1>4, <1>6, <1>7 DEF Abstract!Refuse, Received, OnItsWay
<1> QED
  BY <1>8 DEF Abstract!Next

(* A close that leaves only what was on its way, or part of it.             *)
LEMMA EndImplements ==
  ASSUME HttpInv, TypeInv', ClosedWith(Channel(conn))
  PROVE  [Abstract!Next]_(Abstract!vars)
<1>1. CASE peer = "reset"
  BY <1>1, Stutters DEF ClosedWith
<1>2. CASE peer # "reset"
  <2> DEFINE v == Channel(conn)
  <2>1. /\ Phase = "open" /\ Phase' = "closed" /\ UNCHANGED <<Received, got>>
        /\ \E n \in 0 .. Len(v) : OnItsWay' = SubSeq(v, 1, n)
    BY <1>2, CloseImplements
  <2>2. v = OnItsWay
    BY <1>2 DEF OnItsWay, Channel
  <2> HIDE DEF v
  <2>3. Abstract!CloseWith(v)
    BY <2>1 DEF Abstract!CloseWith, Phase, Received, OnItsWay
  <2>4. Abstract!Close
    BY <2>2, <2>3 DEF Abstract!Close, OnItsWay
  <2> QED
    BY <2>4 DEF Abstract!Next
<1> QED
  BY <1>1, <1>2

(* What the client does to the channel: it takes a unit, or resets it.      *)
LEMMA ClientImplements ==
  ASSUME HttpInv, Client \/ assert_fails
  PROVE  [Abstract!Next]_(Abstract!vars)
<1>1. CASE client_send
  BY <1>1, SendImplements
<1>2. CASE client_recv
  <2>1. /\ conn.sndbuf \in Units /\ conn.output \in Units /\ got \in Units
        /\ conn \in ConnRecords
    BY DEF HttpInv, TypeInv, ConnRecords
  <2>2. /\ peer # "reset" /\ peer' = peer /\ sent' = sent /\ conn.sndbuf # <<>>
        /\ got' = Append(got, Head(conn.sndbuf))
        /\ conn' = [conn EXCEPT !.sndbuf = Tail(conn.sndbuf)]
    BY <1>2 DEF client_recv
  <2>3. /\ conn'.sndbuf = Tail(conn.sndbuf) /\ conn'.output = conn.output
        /\ conn'.open = conn.open /\ conn'.state = conn.state
    BY <2>1, <2>2 DEF ConnRecords
  <2>4. /\ conn.sndbuf \o conn.output # <<>>
        /\ Head(conn.sndbuf \o conn.output) = Head(conn.sndbuf)
        /\ Tail(conn.sndbuf \o conn.output) = Tail(conn.sndbuf) \o conn.output
    <3>1. PICK s \in Units : s = conn.sndbuf
      BY <2>1
    <3>2. PICK t \in Units : t = conn.output
      BY <2>1
    <3>3. s # <<>>
      BY <2>2, <3>1
    <3>4. s \o t # <<>> /\ Head(s \o t) = Head(s) /\ Tail(s \o t) = Tail(s) \o t
      <4>1. Passes(s, s, t)
        BY <3>3, PassedOn
      <4> QED
        BY <4>1 DEF Passes
    <3> QED
      BY <3>1, <3>2, <3>4
  <2>5. OnItsWay = conn.sndbuf \o conn.output /\ OnItsWay' = Tail(conn.sndbuf) \o conn.output
    BY <2>2, <2>3 DEF OnItsWay
  <2>6. UNCHANGED <<Phase, Received>>
    BY <2>2, <2>3 DEF Phase, Received, Arrived
  <2>7. OnItsWay # <<>> /\ got' = Append(got, Head(OnItsWay)) /\ OnItsWay' = Tail(OnItsWay)
    BY <2>2, <2>4, <2>5
  <2> QED
    BY <2>6, <2>7, ResponderSteps
<1>3. CASE client_shutdown \/ assert_fails
  BY <1>3, Stutters DEF client_shutdown, assert_fails, Abort
<1>4. CASE client_reset
  <2>1. Phase # "lost" /\ Phase' = "lost" /\ OnItsWay' = <<>> /\ UNCHANGED <<Received, got>>
    BY <1>4 DEF client_reset, Phase, OnItsWay, Received, Arrived
  <2> QED
    BY <2>1, ResponderSteps
<1> QED
  BY <1>1, <1>2, <1>3, <1>4 DEF Client

(* A connection that is accepted opens, unless the client has gone.         *)
LEMMA AcceptImplements ==
  ASSUME HttpInv, server_socket_accept
  PROVE  [Abstract!Next]_(Abstract!vars)
<1>1. UNCHANGED <<sent, got, peer>> /\ conn = Unaccepted /\ conn.state = "NONE"
  BY DEF server_socket_accept, HttpInv, ControlInv
<1>2. /\ conn'.open /\ conn'.state = "NEED_MORE_DATA"
      /\ conn'.output = conn.output /\ conn'.sndbuf = conn.sndbuf
  BY <1>1 DEF server_socket_accept, Unaccepted
<1>3. CASE peer = "reset"
  BY <1>1, <1>3, Stutters
<1>4. CASE peer # "reset"
  <2>1. Phase = "none" /\ Phase' = "open" /\ UNCHANGED <<Received, OnItsWay, got>>
    BY <1>1, <1>2, <1>4 DEF Phase, Received, Arrived, OnItsWay
  <2> QED
    BY <2>1, ResponderSteps
<1> QED
  BY <1>3, <1>4

(* Every step of the connection is one of Responder or a stutter.           *)
LEMMA StepImplements ==
  ASSUME HttpInv, [Next]_vars
  PROVE  [Abstract!Next]_(Abstract!vars)
<1>1. HttpInv' /\ TypeInv'
  BY NextHolds DEF HttpInv
<1>2. Unnoticed => [Abstract!Next]_(Abstract!vars)
  BY Stutters DEF Unnoticed
<1>3. ClosedWith(Channel(conn)) => [Abstract!Next]_(Abstract!vars)
  BY <1>1, EndImplements
<1>4. CASE UNCHANGED vars
  BY <1>4, Stutters DEF vars
<1>5. CASE server_socket_accept
  BY <1>5, AcceptImplements
<1>6. CASE dispatch \/ dispatched \/ dropped \/ poll_complete \/ poll_cancelled
  BY <1>2, <1>6, PollSteps
<1>7. CASE on_read
  BY <1>2, <1>7, ReadEvent
<1>8. CASE on_write \/ on_close
  BY <1>2, <1>3, <1>8, WriteAndCloseEvents
<1>9. CASE server_request_read
  BY <1>1, <1>2, <1>9, ReadStep, RefuseImplements
<1>10. CASE http_server_handle_request
  BY <1>10, HandlerStep, AnswerImplements
<1>11. CASE update_end
  <2>1. pc = "finish"
    BY <1>11 DEF update_end
  <2> QED
    BY <1>2, <1>11, <2>1, UpdateEndOpen, UpdateEndClosed
<1>12. CASE server_respond
  BY <1>2, <1>12, LateAnswer, LostAnswer, AnswerImplements
<1>13. CASE server_shutdown
  BY <1>2, <1>3, <1>13, ShutdownStep
<1>14. CASE Client \/ assert_fails
  BY <1>14, ClientImplements
<1> QED
  BY <1>4, <1>5, <1>6, <1>7, <1>8, <1>9, <1>10, <1>11, <1>12, <1>13, <1>14 DEF Next, Worker

(* An unaccepted connection is one that has promised nothing.               *)
LEMMA InitImplements == Init => Abstract!Init
<1> SUFFICES ASSUME Init PROVE Abstract!Init
  OBVIOUS
<1>1. conn.state = "NONE" /\ conn.sndbuf = <<>> /\ conn.output = <<>> /\ sent = 0
      /\ got = <<>> /\ peer = "open"
  BY DEF Init, Unaccepted
<1>2. OnItsWay = <<>>
  BY <1>1, NothingLost DEF OnItsWay
<1>3. ASSUME NEW k \in 1 .. NRequests
      PROVE  ~Arrived(k)
  <2> DEFINE due == k * RequestLen
             from == (k - 1) * RequestLen
  <2>1. NRequests \in Nat /\ k \in Nat /\ k - 1 \in Nat /\ (k - 1) + 1 = k
    BY HttpAssumption
  <2>2. from \in Nat /\ ((k - 1) + 1) * RequestLen = from + RequestLen
    BY <2>1, HttpAssumption, BlocksFit
  <2>3. due = from + RequestLen
    BY <2>1, <2>2
  <2> HIDE DEF due, from
  <2>4. ~(0 >= due) /\ ~(0 >= from + 1)
    BY <2>2, <2>3, HttpAssumption
  <2> QED
    BY <1>1, <2>4 DEF Arrived, due, from
<1>4. {k \in 1 .. NRequests : Arrived(k)} = {}
  BY <1>3
<1>5. Received = 0
  BY <1>4, FS_EmptySet DEF Received
<1>6. Phase = "none"
  BY <1>1 DEF Phase
<1> QED
  BY <1>1, <1>2, <1>5, <1>6 DEF Abstract!Init, Phase, Received, OnItsWay

(* The connection keeps what the abstract responder promises.               *)
THEOREM ResponderImplemented == Spec => ImplementsResponder
<1>1. Init => Abstract!Init
  BY InitImplements
<1>2. HttpInv /\ [Next]_vars => [Abstract!Next]_(Abstract!vars)
  BY StepImplements
<1> QED
  BY <1>1, <1>2, HttpInvHolds, PTL DEF Spec, ImplementsResponder, Abstract!Spec
=============================================================================
