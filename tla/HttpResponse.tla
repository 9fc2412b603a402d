---------------------------- MODULE HttpResponse ----------------------------
(****************************************************************************)
(* The response builder (src/domain/http_response.c) and the configurations *)
(* http_server_generate_response hands it: one caller's buffer through      *)
(* http_response_buffer_init, http_response_build and                       *)
(* http_response_buffer_reset.  Text is abstracted to its length; what      *)
(* matters is where each piece ends.  A NULL argument, which every function *)
(* turns down before it does anything, is left out.                         *)
(****************************************************************************)
EXTENDS Integers, FiniteSets

CONSTANTS
  Sizes,    \* sizes of the memory a caller may bring
  Lengths   \* body lengths considered, below 2^64

VARIABLES
  buffer,   \* http_response_buffer_t: its size (0 before init) and bytes used
  memory,   \* bytes there really are behind buffer->buffer
  written   \* one past the last byte ever written there

vars == <<buffer, memory, written>>

OK == "OK"
INVALID_PARAM == "INVALID_PARAM"
BUFFER_OVERFLOW == "BUFFER_OVERFLOW"

----------------------------------------------------------------------------
(* The pieces of a response                                                 *)

StatusLine == [s \in {200, 404, 500} |-> IF s = 200 THEN 17 ELSE IF s = 404 THEN 24 ELSE 36]
ServerHeader == 11
DateHeader == 37
TextPlain == 0
ApplicationJson == 1
ContentType == [t \in {TextPlain, ApplicationJson} |-> IF t = TextPlain THEN 10 ELSE 16]
ContentTypeHeader(t) == 14 + ContentType[t] + 2
ContentLengthHeader(digits) == 16 + digits + 2
Separator == 2

(* The digits "%zu" prints, up to the 16 that no longer fit length_str.     *)
PowersOfTen ==
  <<10, 100, 1000, 10000, 100000, 1000000, 10000000, 100000000, 1000000000,
    10000000000, 100000000000, 1000000000000, 10000000000000,
    100000000000000, 1000000000000000>>
Digits(length) == 1 + Cardinality({i \in 1 .. 15 : PowersOfTen[i] <= length})

Known(config) == config.status \in DOMAIN StatusLine /\ config.type \in DOMAIN ContentType

Configs == [status : Nat, type : Nat, body : BOOLEAN, length : Lengths, date : BOOLEAN]

http_response_calculate_size(config) ==
  IF ~Known(config) THEN 0
  ELSE StatusLine[config.status] + ServerHeader + (IF config.date THEN DateHeader ELSE 0)
       + ContentTypeHeader(config.type) + ContentLengthHeader(10) + Separator
       + config.length

----------------------------------------------------------------------------
(* http_response_build: a cursor moves over the buffer until a piece fails  *)

Start(size) == [ptr |-> 0, remaining |-> size, error |-> OK]

(* A piece is written only when at least one byte stays free behind it.     *)
Put(cursor, n) ==
  IF cursor.error # OK THEN cursor
  ELSE IF n >= cursor.remaining THEN [cursor EXCEPT !.error = BUFFER_OVERFLOW]
  ELSE [cursor EXCEPT !.ptr = @ + n, !.remaining = @ - n]

Require(cursor, condition) ==
  IF cursor.error = OK /\ ~condition THEN [cursor EXCEPT !.error = INVALID_PARAM] ELSE cursor

AfterStatus(size, config) ==
  LET known == Require(Start(size), config.status \in DOMAIN StatusLine) IN
  Put(known, StatusLine[config.status])
AfterServer(size, config) == Put(AfterStatus(size, config), ServerHeader)
AfterDate(size, config) ==
  IF config.date THEN Put(AfterServer(size, config), DateHeader)
  ELSE AfterServer(size, config)
AfterType(size, config) ==
  LET known == Require(AfterDate(size, config), config.type \in DOMAIN ContentType) IN
  Put(known, ContentTypeHeader(config.type))
AfterLength(size, config) ==
  LET printed == Require(AfterType(size, config), Digits(config.length) < 16) IN
  Put(printed, ContentLengthHeader(Digits(config.length)))
AfterSeparator(size, config) == Put(AfterLength(size, config), Separator)

(* The length counts, but a body that is not there is not written.          *)
http_response_build(size, config) ==
  IF config.body /\ config.length > 0
  THEN Put(AfterSeparator(size, config), config.length)
  ELSE AfterSeparator(size, config)

----------------------------------------------------------------------------
(* The buffer                                                               *)

Init == buffer = [size |-> 0, used |-> 0] /\ memory = 0 /\ written = 0

(* An empty memory is refused and the buffer left as it was.                *)
http_response_buffer_init(size) ==
  /\ size # 0
  /\ buffer' = [size |-> size, used |-> 0]
  /\ memory' = size /\ written' = 0

(* A buffer in use is refused; pieces before the one that failed stay       *)
(* written, but are not counted as used.                                    *)
build(config) ==
  /\ memory # 0 /\ buffer.used = 0
  /\ LET cursor == http_response_build(buffer.size, config) IN
       /\ buffer' = IF cursor.error = OK
                    THEN [buffer EXCEPT !.used = buffer.size - cursor.remaining]
                    ELSE buffer
       /\ written' = IF cursor.ptr > written THEN cursor.ptr ELSE written
  /\ UNCHANGED memory

http_response_buffer_reset ==
  /\ buffer' = [buffer EXCEPT !.used = 0]
  /\ UNCHANGED <<memory, written>>

Next ==
  \/ \E size \in Sizes : http_response_buffer_init(size)
  \/ \E config \in Configs : build(config)
  \/ http_response_buffer_reset

Spec == Init /\ [][Next]_vars

----------------------------------------------------------------------------
(* What the server asks for                                                 *)

(* Texts are given by their length, one that is not configured by NoText.   *)
NoText == -1
length_of(text) == IF text = NoText THEN 0 ELSE text

(* The JSON response is {"message":"..."} in a buffer of 4096 bytes with    *)
(* its terminator; a longer message is refused.                             *)
http_server_create(message) ==
  IF message = NoText THEN [error |-> OK, json_buffer_size |-> 0]
  ELSE IF 14 + message >= 4096 THEN [error |-> "MEMORY", json_buffer_size |-> 0]
  ELSE [error |-> OK, json_buffer_size |-> 14 + message]

(* What is asked of the builder for a route; server is what                 *)
(* http_server_create made of the message.                                  *)
http_server_generate_response(server, route, plaintext, dates) ==
  [status |-> IF route \in {"PLAINTEXT", "JSON"} THEN 200 ELSE 404,
   type   |-> IF route = "JSON" THEN ApplicationJson ELSE TextPlain,
   body   |-> route # "PLAINTEXT" \/ plaintext # NoText,
   length |-> IF route = "PLAINTEXT" THEN length_of(plaintext)
              ELSE IF route = "JSON" THEN server.json_buffer_size
              ELSE 9,
   date   |-> dates]

----------------------------------------------------------------------------
(* Properties                                                               *)

TypeOK ==
  /\ buffer \in [size : Nat, used : Nat]
  /\ memory \in Nat /\ written \in Nat
  /\ buffer.size = memory

(* Nothing is written past the caller's memory, also by a build that fails  *)
(* half way, and what counts as the response has been written and leaves a  *)
(* byte free.                                                               *)
WithinMemory ==
  /\ written <= memory
  /\ buffer.used <= written
  /\ buffer.used > 0 => buffer.used < memory

(* The bytes of a response.                                                 *)
ResponseSize(config) ==
  StatusLine[config.status] + ServerHeader + (IF config.date THEN DateHeader ELSE 0)
  + ContentTypeHeader(config.type) + ContentLengthHeader(Digits(config.length))
  + Separator + (IF config.body THEN config.length ELSE 0)
=============================================================================
