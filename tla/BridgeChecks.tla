---------------------------- MODULE BridgeChecks ----------------------------
(***************************************************************************)
(* Properties of Bridge that count what is in its channels, and the credit *)
(* protocol it implements.                                                 *)
(***************************************************************************)
EXTENDS Bridge

\* The bytes that the messages op about r in a channel stand for: upTo[n] counts
\* the n oldest.
Carries(m, op, r) == IF m.op = op /\ m.id = r THEN m.len ELSE 0
Bytes(channel, op, r) ==
  LET upTo[n \in 0 .. Len(channel)] ==
        IF n = 0 THEN 0 ELSE upTo[n - 1] + Carries(channel[n], op, r)
  IN upTo[Len(channel)]

DataBytes(r) == Bytes(toEngine[TabOf[r]], "data", r)
AckBytes(r) == Bytes(toBridge[TabOf[r]], "ack", r)

\* Both ends know the request.
Live(r) == r \in inflight /\ r \in registered

\* The stream of r, as the credit protocol sees it.
Stream(r) == INSTANCE FlowControl WITH
  phase   <- IF Live(r) THEN "open" ELSE IF pc[r] = "new" THEN "idle" ELSE "closed",
  unacked <- IF Live(r) THEN unacked[r] ELSE 0,
  data    <- IF Live(r) THEN DataBytes(r) ELSE 0,
  credit  <- IF Live(r) THEN AckBytes(r) ELSE 0

\* Every response stream of the bridge follows the credit protocol: \A r :
\* Stream(r)!FlowSpec, in the form TLC checks.
StreamsFlow ==
  /\ \A r \in Req : Stream(r)!FlowInit
  /\ [][\A r \in Req : [Stream(r)!FlowNext]_(Stream(r)!flowVars)]_vars

\* A stream that awaits credit has some coming: data the engine has yet to
\* consume, or acks the page has yet to read, while its client still listens.
CreditIsComing ==
  \A r \in Req : pc[r] = "credit" /\ Live(r) => DataBytes(r) + AckBytes(r) > 0
=============================================================================
