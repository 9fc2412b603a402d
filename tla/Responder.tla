----------------------------- MODULE Responder ------------------------------
(****************************************************************************)
(* What an HTTP connection promises its client: requests 1, 2, ... are      *)
(* answered in this order, none before it has arrived, over a channel that  *)
(* loses nothing while the connection is open, only its end when the        *)
(* connection closes, and everything when the client resets it.             *)
(****************************************************************************)
EXTENDS Naturals, Sequences

CONSTANTS NRequests, Bad, ResponseLen

VARIABLES
  phase,     \* "none", "open", "closed", "lost"
  received,  \* requests that have arrived
  channel,   \* units of responses on their way
  delivered  \* units the client has read

vars == <<phase, received, channel, delivered>>

Response(k) == [i \in 1 .. ResponseLen |-> k]
Due == (Len(delivered) + Len(channel)) \div ResponseLen + 1

Init == phase = "none" /\ received = 0 /\ channel = <<>> /\ delivered = <<>>

Accept ==
  /\ phase = "none" /\ phase' = "open"
  /\ UNCHANGED <<received, channel, delivered>>

Receive ==
  /\ received < NRequests /\ received' = received + 1
  /\ UNCHANGED <<phase, channel, delivered>>

Answer ==
  /\ phase = "open" /\ Due <= received /\ Due \notin Bad
  /\ channel' = channel \o Response(Due)
  /\ UNCHANGED <<phase, received, delivered>>

Deliver ==
  /\ channel # <<>>
  /\ delivered' = Append(delivered, Head(channel)) /\ channel' = Tail(channel)
  /\ UNCHANGED <<phase, received>>

CloseWith(units) ==
  /\ phase = "open" /\ phase' = "closed"
  /\ \E n \in 0 .. Len(units) : channel' = SubSeq(units, 1, n)
  /\ UNCHANGED <<received, delivered>>

Close == CloseWith(channel)
Refuse == Due <= received /\ Due \in Bad /\ CloseWith(channel \o Response(Due))

Lose ==
  /\ phase # "lost" /\ phase' = "lost" /\ channel' = <<>>
  /\ UNCHANGED <<received, delivered>>

Next == Accept \/ Receive \/ Answer \/ Deliver \/ Close \/ Refuse \/ Lose

Spec == Init /\ [][Next]_vars
=============================================================================
