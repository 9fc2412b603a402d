------------------------- MODULE HttpResponseProofs -------------------------
(****************************************************************************)
(* HttpResponse for every size and length.  A cursor invariant carries      *)
(* everything: what has been written and what remains always make up the    *)
(* size, and a step either appends its whole piece or stops the build.      *)
(****************************************************************************)
EXTENDS HttpResponse, FiniteSetTheorems, TLAPS

Errors == {OK, INVALID_PARAM, BUFFER_OVERFLOW}

(* A build that has come to a cursor after pieces of n bytes; valid says    *)
(* that nothing asked for so far was unknown or too long to print.  What is *)
(* written and what remains make up the size, and the build goes on exactly *)
(* when it is valid and leaves a byte free.                                 *)
Reached(size, cursor, n, valid) ==
  /\ cursor \in [ptr : Nat, remaining : Nat, error : Errors]
  /\ cursor.ptr + cursor.remaining = size
  /\ cursor.ptr > 0 => cursor.remaining > 0
  /\ valid => /\ n \in Nat
              /\ cursor.error \in {OK, BUFFER_OVERFLOW}
              /\ cursor.error = OK <=> n = 0 \/ n < size
              /\ cursor.error = OK => cursor.ptr = n
  /\ ~valid => cursor.error # OK

USE DEF OK, INVALID_PARAM, BUFFER_OVERFLOW, Errors

LEMMA StartReached ==
  ASSUME NEW size \in Nat
  PROVE  Reached(size, Start(size), 0, TRUE)
BY DEF Reached, Start

LEMMA RequireReached ==
  ASSUME NEW size \in Nat, NEW n, NEW cursor, NEW valid \in BOOLEAN,
         NEW condition \in BOOLEAN, Reached(size, cursor, n, valid)
  PROVE  Reached(size, Require(cursor, condition), n, valid /\ condition)
BY DEF Reached, Require

LEMMA PutReached ==
  ASSUME NEW size \in Nat, NEW n, NEW cursor, NEW valid \in BOOLEAN, NEW k,
         Reached(size, cursor, n, valid), valid => k \in Nat \ {0}
  PROVE  Reached(size, Put(cursor, k), n + k, valid)
<1>1. CASE cursor.error # OK
  BY <1>1 DEF Reached, Put
<1>2. CASE cursor.error = OK
  <2>1. /\ valid /\ n \in Nat /\ k \in Nat \ {0} /\ cursor.ptr = n
        /\ cursor.remaining \in Nat /\ n + cursor.remaining = size
        /\ n > 0 => cursor.remaining > 0
    BY <1>2 DEF Reached
  <2>2. cursor = [ptr |-> n, remaining |-> cursor.remaining, error |-> OK]
    BY <1>2, <2>1 DEF Reached
  <2>3. CASE k >= cursor.remaining
    <3>1. Put(cursor, k) = [ptr |-> n, remaining |-> cursor.remaining,
                            error |-> BUFFER_OVERFLOW]
      BY <1>2, <2>2, <2>3 DEF Put
    <3> QED BY <2>1, <2>3, <3>1 DEF Reached
  <2>4. CASE ~(k >= cursor.remaining)
    <3>1. Put(cursor, k) = [ptr |-> n + k, remaining |-> cursor.remaining - k, error |-> OK]
      BY <1>2, <2>1, <2>2, <2>4 DEF Put
    <3> QED BY <2>1, <2>4, <3>1 DEF Reached
  <2> QED BY <2>3, <2>4
<1> QED BY <1>1, <1>2

(* The first lengths of ten and of eleven digits.                           *)
TenDigits == 1000000000
ElevenDigits == 10000000000

(* A printed length has 1 to 15 digits, or the 16 that stand for too many,  *)
(* and a length below 10^9 has at most nine.                                *)
LEMMA DigitsBounds ==
  ASSUME NEW length \in Nat
  PROVE  /\ Digits(length) \in 1 .. 16
         /\ length < TenDigits => Digits(length) <= 9
         /\ length >= TenDigits /\ length < ElevenDigits => Digits(length) = 10
<1> DEFINE below == {i \in 1 .. 15 : PowersOfTen[i] <= length}
<1>1. ASSUME NEW k \in 1 .. 15 PROVE IsFiniteSet(1 .. k) /\ Cardinality(1 .. k) = k
  <2>1. Cardinality(1 .. k) = IF 1 > k THEN 0 ELSE k - 1 + 1
    BY FS_Interval
  <2> QED BY <2>1, FS_Interval
<1>2. IsFiniteSet(below) /\ Cardinality(below) \in 0 .. 15
  <2>1. below \subseteq 1 .. 15
    OBVIOUS
  <2>2. IsFiniteSet(below) /\ Cardinality(below) <= Cardinality(1 .. 15)
    BY <1>1, <2>1, FS_Subset
  <2>3. Cardinality(below) \in Nat
    BY <2>2, FS_CardinalityType
  <2> QED BY <1>1, <2>2, <2>3
<1>3. ASSUME length < TenDigits PROVE Cardinality(below) <= 8
  <2>1. below \subseteq 1 .. 8
    BY <1>3, SMT DEF PowersOfTen, TenDigits, ElevenDigits
  <2>2. Cardinality(below) <= Cardinality(1 .. 8)
    BY <1>1, <2>1, FS_Subset
  <2> QED BY <1>1, <2>2
<1>4. ASSUME length >= TenDigits, length < ElevenDigits PROVE Cardinality(below) = 9
  <2>1. ASSUME NEW i \in 1 .. 9 PROVE PowersOfTen[i] <= length
    BY <1>4, SMT DEF PowersOfTen, TenDigits
  <2>2. ASSUME NEW i \in 10 .. 15 PROVE ~(PowersOfTen[i] <= length)
    BY <1>4, SMT DEF PowersOfTen, ElevenDigits
  <2>3. below = 1 .. 9
    <3>1. \A i \in 1 .. 15 : i \in 1 .. 9 \/ i \in 10 .. 15
      OBVIOUS
    <3>2. \A i \in 1 .. 9 : i \in 1 .. 15
      OBVIOUS
    <3>3. \A i \in 1 .. 9 : i \in below
      BY <2>1, <3>2
    <3>4. \A i \in below : i \in 1 .. 9
      BY <2>2, <3>1
    <3> HIDE DEF below
    <3> QED
      BY <3>3, <3>4
  <2>4. Cardinality(1 .. 9) = 9
    BY <1>1
  <2> HIDE DEF below
  <2> QED BY <2>3, <2>4
<1> QED BY <1>2, <1>3, <1>4 DEF Digits

----------------------------------------------------------------------------
Printable(config) == Known(config) /\ Digits(config.length) < 16

LEMMA ConfigTyped ==
  ASSUME Lengths \subseteq Nat, NEW config \in Configs
  PROVE  config.length \in Nat /\ config.body \in BOOLEAN /\ config.date \in BOOLEAN
<1>1. config.length \in Lengths /\ config.body \in BOOLEAN /\ config.date \in BOOLEAN
  BY SMT DEF Configs
<1>2. config.length \in Nat
  BY <1>1
<1> QED BY <1>1, <1>2

(* A build of a known configuration with a printable length succeeds exactly*)
(* when the response leaves a byte of the buffer free; it then writes the   *)
(* response's bytes and no more.                                            *)
LEMMA BuildReached ==
  ASSUME Lengths \subseteq Nat, NEW size \in Nat, NEW config \in Configs
  PROVE  Reached(size, http_response_build(size, config), ResponseSize(config),
                 Printable(config))
<1> DEFINE status == config.status \in DOMAIN StatusLine
           type == config.type \in DOMAIN ContentType
           printed == Digits(config.length) < 16
           s == StatusLine[config.status]
           d == IF config.date THEN 37 ELSE 0
           t == ContentTypeHeader(config.type)
           l == ContentLengthHeader(Digits(config.length))
           head == s + 11 + d + t + l + 2
<1>1. /\ config.length \in Nat /\ config.body \in BOOLEAN /\ config.date \in BOOLEAN
      /\ Digits(config.length) \in 1 .. 16
  BY ConfigTyped, DigitsBounds
<1>2. status => s \in Nat \ {0}
  BY SMT DEF StatusLine
<1>3. type => t \in Nat \ {0}
  BY SMT DEF ContentType, ContentTypeHeader, TextPlain, ApplicationJson
<1>4. l \in Nat \ {0}
  BY <1>1, SMT DEF ContentLengthHeader
<1>5. d \in Nat
  OBVIOUS
<1>6. status \in BOOLEAN /\ type \in BOOLEAN /\ printed \in BOOLEAN
  OBVIOUS
<1>7. Printable(config) = ((status /\ type) /\ printed)
  BY DEF Printable, Known
<1>8. ResponseSize(config) = head + (IF config.body THEN config.length ELSE 0)
  BY DEF ResponseSize, ServerHeader, DateHeader, Separator
<1>9. AfterStatus(size, config) = Put(Require(Start(size), status), s)
  BY DEF AfterStatus
<1>10. AfterServer(size, config) = Put(AfterStatus(size, config), 11)
  BY DEF AfterServer, ServerHeader
<1>11. AfterDate(size, config) = IF config.date THEN Put(AfterServer(size, config), 37)
                                 ELSE AfterServer(size, config)
  BY DEF AfterDate, DateHeader
<1>12. AfterType(size, config) = Put(Require(AfterDate(size, config), type), t)
  BY DEF AfterType
<1>13. AfterLength(size, config) = Put(Require(AfterType(size, config), printed), l)
  BY DEF AfterLength
<1>14. AfterSeparator(size, config) = Put(AfterLength(size, config), 2)
  BY DEF AfterSeparator, Separator
<1>15. d = IF config.date THEN 37 ELSE 0
  OBVIOUS
<1>16. head = s + 11 + d + t + l + 2
  OBVIOUS
<1> HIDE DEF status, type, printed, s, d, t, l, head
<1>20. Reached(size, AfterStatus(size, config), s, status)
  <2>1. Reached(size, Require(Start(size), status), 0, TRUE /\ status)
    BY <1>6, StartReached, RequireReached
  <2>2. Reached(size, Put(Require(Start(size), status), s), 0 + s, TRUE /\ status)
    BY <1>2, <1>6, <2>1, PutReached
  <2> QED BY <1>2, <1>6, <1>9, <2>2, SMT DEF Reached
<1>21. Reached(size, AfterServer(size, config), s + 11, status)
  BY <1>6, <1>10, <1>20, PutReached
<1>22. Reached(size, AfterDate(size, config), s + 11 + d, status)
  <2>1. CASE config.date
    BY <1>6, <1>11, <1>15, <1>21, <2>1, PutReached
  <2>2. CASE ~config.date
    BY <1>2, <1>6, <1>11, <1>15, <1>21, <2>2, SMT DEF Reached
  <2> QED BY <2>1, <2>2
<1>23. Reached(size, AfterType(size, config), s + 11 + d + t, status /\ type)
  <2>1. Reached(size, Require(AfterDate(size, config), type), s + 11 + d, status /\ type)
    BY <1>6, <1>22, RequireReached
  <2> QED BY <1>3, <1>6, <1>12, <2>1, PutReached
<1>24. Reached(size, AfterLength(size, config), s + 11 + d + t + l,
               (status /\ type) /\ printed)
  <2>1. Reached(size, Require(AfterType(size, config), printed), s + 11 + d + t,
                (status /\ type) /\ printed)
    BY <1>6, <1>23, RequireReached
  <2> QED BY <1>4, <1>6, <1>13, <2>1, PutReached
<1>25. Reached(size, AfterSeparator(size, config), head, Printable(config))
  <2>1. Reached(size, AfterSeparator(size, config), s + 11 + d + t + l + 2,
                (status /\ type) /\ printed)
    BY <1>6, <1>14, <1>24, PutReached
  <2> QED BY <1>7, <1>16, <2>1
<1>26. CASE config.body /\ config.length > 0
  <2>1. Reached(size, Put(AfterSeparator(size, config), config.length),
                head + config.length, Printable(config))
    BY <1>1, <1>6, <1>7, <1>25, <1>26, PutReached
  <2> QED BY <1>8, <1>26, <2>1 DEF http_response_build
<1>27. CASE ~(config.body /\ config.length > 0)
  <2>1. Printable(config) => ResponseSize(config) = head
    BY <1>1, <1>2, <1>3, <1>4, <1>5, <1>7, <1>8, <1>16, <1>27, SMT
  <2> QED BY <1>25, <1>27, <2>1, SMT DEF http_response_build, Reached
<1> QED BY <1>26, <1>27

----------------------------------------------------------------------------
(* Whatever buffers are brought and whatever is built into them, also with  *)
(* unknown codes, bodies that are too long or a buffer that was not reset,  *)
(* no byte is written past the caller's memory.                             *)
THEOREM ResponseWithinMemory ==
  ASSUME Sizes \subseteq Nat, Lengths \subseteq Nat
  PROVE  Spec => [](TypeOK /\ WithinMemory)
<1>1. Init => TypeOK /\ WithinMemory
  BY DEF Init, TypeOK, WithinMemory
<1>2. TypeOK /\ WithinMemory /\ [Next]_vars => (TypeOK /\ WithinMemory)'
  <2> SUFFICES ASSUME TypeOK, WithinMemory, [Next]_vars
               PROVE  (TypeOK /\ WithinMemory)'
    OBVIOUS
  <2>1. ASSUME NEW size \in Sizes, http_response_buffer_init(size)
        PROVE  (TypeOK /\ WithinMemory)'
    BY <2>1 DEF http_response_buffer_init, TypeOK, WithinMemory
  <2>2. ASSUME NEW config \in Configs, build(config)
        PROVE  (TypeOK /\ WithinMemory)'
    <3> DEFINE cursor == http_response_build(buffer.size, config)
    <3>1. /\ memory \in Nat \ {0} /\ buffer.used = 0 /\ memory' = memory
          /\ buffer' = IF cursor.error = OK
                       THEN [buffer EXCEPT !.used = buffer.size - cursor.remaining]
                       ELSE buffer
          /\ written' = IF cursor.ptr > written THEN cursor.ptr ELSE written
      BY <2>2 DEF build, TypeOK
    <3>2. buffer.size = memory /\ written \in Nat /\ written <= memory
          /\ buffer = [size |-> memory, used |-> 0]
      BY <3>1 DEF TypeOK, WithinMemory
    <3>3. Reached(memory, cursor, ResponseSize(config), Printable(config))
      BY <3>1, <3>2, BuildReached
    <3>4. /\ cursor.ptr \in Nat /\ cursor.remaining \in Nat
          /\ cursor.ptr + cursor.remaining = memory
          /\ cursor.ptr > 0 => cursor.remaining > 0
      BY <3>3 DEF Reached
    <3> HIDE DEF cursor
    <3>5. buffer' = [size |-> memory, used |-> IF cursor.error = OK THEN cursor.ptr ELSE 0]
      BY <3>1, <3>2, <3>4
    <3>6. /\ written' \in Nat /\ written' <= memory /\ cursor.ptr <= written'
      BY <3>1, <3>2, <3>4
    <3> QED BY <3>1, <3>4, <3>5, <3>6 DEF TypeOK, WithinMemory
  <2>3. CASE http_response_buffer_reset
    BY <2>3 DEF http_response_buffer_reset, TypeOK, WithinMemory
  <2>4. CASE UNCHANGED vars
    BY <2>4 DEF vars, TypeOK, WithinMemory
  <2> QED BY <2>1, <2>2, <2>3, <2>4 DEF Next
<1> QED BY <1>1, <1>2, PTL DEF Spec

(* A response is built exactly when its length can be printed and its bytes *)
(* leave one byte of the buffer free, and then used counts them exactly.    *)
THEOREM BuildIsExact ==
  ASSUME Lengths \subseteq Nat, NEW size \in Nat \ {0}, NEW config \in Configs,
         Known(config), Digits(config.length) < 16
  PROVE  LET cursor == http_response_build(size, config) IN
         /\ cursor.error = OK <=> ResponseSize(config) < size
         /\ cursor.error = OK => size - cursor.remaining = ResponseSize(config)
<1> DEFINE cursor == http_response_build(size, config)
<1>1. Reached(size, cursor, ResponseSize(config), TRUE)
  <2>1. Printable(config) = TRUE
    BY DEF Printable
  <2> QED BY <2>1, BuildReached
<1>2. /\ cursor.ptr \in Nat /\ cursor.remaining \in Nat /\ ResponseSize(config) \in Nat
      /\ cursor.ptr + cursor.remaining = size
      /\ cursor.error = OK <=> ResponseSize(config) = 0 \/ ResponseSize(config) < size
      /\ cursor.error = OK => cursor.ptr = ResponseSize(config)
  BY <1>1 DEF Reached
<1> HIDE DEF cursor
<1>3. /\ cursor.error = OK <=> ResponseSize(config) < size
      /\ cursor.error = OK => size - cursor.remaining = ResponseSize(config)
  BY <1>2
<1> QED BY <1>3 DEF cursor

(* The calculated size stands for ten digits and a body that is there.      *)
LEMMA SizesCompared ==
  ASSUME Lengths \subseteq Nat, NEW config \in Configs, Known(config)
  PROVE  LET size == http_response_calculate_size(config) IN
         /\ size \in Nat \ {0}
         /\ Digits(config.length) < 10 => ResponseSize(config) < size
         /\ Digits(config.length) = 10 /\ config.body => ResponseSize(config) = size
<1> DEFINE s == StatusLine[config.status]
           c == ContentType[config.type]
           d == IF config.date THEN 37 ELSE 0
           n == Digits(config.length)
           size == http_response_calculate_size(config)
<1>1. config.length \in Nat /\ config.body \in BOOLEAN
  BY ConfigTyped
<1>2. n \in Nat
  BY <1>1, DigitsBounds
<1>3. s \in Nat /\ c \in Nat /\ d \in Nat
  BY SMT DEF Known, StatusLine, ContentType, TextPlain, ApplicationJson
<1>4. size = s + 11 + d + (14 + c + 2) + (16 + 10 + 2) + 2 + config.length
  BY DEF http_response_calculate_size, ContentTypeHeader, ContentLengthHeader,
         ServerHeader, DateHeader, Separator
<1>5. ResponseSize(config) = s + 11 + d + (14 + c + 2) + (16 + n + 2) + 2
                             + (IF config.body THEN config.length ELSE 0)
  BY DEF ResponseSize, ContentTypeHeader, ContentLengthHeader, ServerHeader,
         DateHeader, Separator
<1> HIDE DEF s, c, d, n, size
<1>6. /\ size \in Nat \ {0}
      /\ n < 10 => ResponseSize(config) < size
      /\ n = 10 /\ config.body => ResponseSize(config) = size
  BY <1>1, <1>2, <1>3, <1>4, <1>5
<1> QED BY <1>6 DEF n, size

(* The header's promise, "Buffer must be large enough (use                  *)
(* http_response_calculate_size)", holds for every body below 10^9 bytes:   *)
(* the ten digits allowed for leave the byte that the builder wants free.   *)
THEOREM CalculatedSizeIsEnough ==
  ASSUME Lengths \subseteq Nat, NEW config \in Configs, Known(config),
         config.length < TenDigits
  PROVE  http_response_build(http_response_calculate_size(config), config).error = OK
<1> DEFINE size == http_response_calculate_size(config)
<1>1. config.length \in Nat
  BY ConfigTyped
<1>2. Digits(config.length) \in 1 .. 9
  BY <1>1, DigitsBounds
<1>3. ResponseSize(config) < size /\ size \in Nat \ {0}
  BY <1>1, <1>2, SizesCompared
<1> QED BY <1>2, <1>3, BuildIsExact

(* It breaks exactly there: a body of ten digits is refused in a buffer of  *)
(* the calculated size.                                                     *)
THEOREM CalculatedSizeTooSmall ==
  ASSUME Lengths \subseteq Nat, NEW config \in Configs, Known(config), config.body,
         config.length >= TenDigits, config.length < ElevenDigits
  PROVE  http_response_build(http_response_calculate_size(config), config).error # OK
<1> DEFINE size == http_response_calculate_size(config)
<1>1. config.length \in Nat
  BY ConfigTyped
<1>2. Digits(config.length) = 10
  BY <1>1, DigitsBounds
<1>3. ~(ResponseSize(config) < size) /\ size \in Nat \ {0}
  BY <1>1, <1>2, SizesCompared
<1> QED BY <1>2, <1>3, BuildIsExact

(* What the server generates for any route is a known configuration, so     *)
(* that a buffer of the calculated size serves every request of a server    *)
(* whose texts are shorter than 10^9 bytes.                                 *)
THEOREM ServerResponsesFit ==
  ASSUME Lengths = Nat, NEW route \in {"PLAINTEXT", "JSON", "UNKNOWN"},
         NEW plaintext \in Nat \cup {NoText}, plaintext < TenDigits,
         NEW message \in Nat \cup {NoText}, NEW dates \in BOOLEAN
  PROVE  LET config == http_server_generate_response(http_server_create(message),
                                                     route, plaintext, dates) IN
         http_response_build(http_response_calculate_size(config), config).error = OK
<1> DEFINE server == http_server_create(message)
           config == http_server_generate_response(server, route, plaintext, dates)
<1>1. server.json_buffer_size \in Nat /\ server.json_buffer_size < 4096
  BY DEF http_server_create, NoText
<1> HIDE DEF server
<1>2. config \in Configs /\ Known(config) /\ config.length < TenDigits
  <2>1. /\ config.status \in {200, 404} /\ config.type \in {0, 1}
        /\ config = [status |-> config.status, type |-> config.type, body |-> config.body,
                     length |-> config.length, date |-> dates]
    BY SMT DEF http_server_generate_response, TextPlain, ApplicationJson
  <2>2. config.body \in BOOLEAN
    BY SMT DEF http_server_generate_response
  <2>3. config.length \in Nat /\ config.length < TenDigits
    <3>1. config.length = IF route = "PLAINTEXT" THEN length_of(plaintext)
                          ELSE IF route = "JSON" THEN server.json_buffer_size ELSE 9
      BY SMT DEF http_server_generate_response
    <3>2. TenDigits \in Nat /\ 4096 <= TenDigits
      BY SMT DEF TenDigits
    <3>3. length_of(plaintext) \in Nat /\ length_of(plaintext) < TenDigits
      BY <3>2, SMT DEF length_of, NoText
    <3> HIDE DEF config
    <3>4. CASE route = "PLAINTEXT"
      BY <3>1, <3>3, <3>4
    <3>5. CASE route = "JSON"
      <4>1. config.length = server.json_buffer_size
        BY <3>1, <3>5
      <4> QED BY <1>1, <3>2, <4>1
    <3>6. CASE route = "UNKNOWN"
      BY <3>1, <3>2, <3>6
    <3> QED BY <3>4, <3>5, <3>6
  <2>4. config \in Configs
    BY <2>1, <2>2, <2>3, SMT DEF Configs
  <2>5. Known(config)
    BY <2>1 DEF Known, StatusLine, ContentType, TextPlain, ApplicationJson
  <2> QED BY <2>3, <2>4, <2>5
<1> HIDE DEF config
<1>3. http_response_build(http_response_calculate_size(config), config).error = OK
  BY <1>2, CalculatedSizeIsEnough
<1> QED BY <1>3 DEF config, server
=============================================================================
