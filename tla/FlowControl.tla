---------------------------- MODULE FlowControl ----------------------------
(***************************************************************************)
(* What the credit protocol between the Bridge and its engine promises for *)
(* the body of one response (notes/networking.md, bib_abi.h Networking),   *)
(* whatever the channels between them look like: bytes are sent only while *)
(* fewer than Window are unacknowledged, every byte the engine consumes    *)
(* comes back as credit, and no byte or credit is lost or made up until    *)
(* the stream closes.                                                      *)
(***************************************************************************)
EXTENDS Integers

CONSTANTS
  Window,  \* bytes that may be unacknowledged before the sender stops
  Slice    \* the most it sends at once

VARIABLES
  phase,    \* "idle", "open" or "closed"
  unacked,  \* what the sender counts as unacknowledged
  data,     \* bytes on their way to the engine
  credit    \* acknowledged bytes on their way back

flowVars == <<phase, unacked, data, credit>>

FlowInit == phase = "idle" /\ unacked = 0 /\ data = 0 /\ credit = 0

Open == phase = "idle" /\ phase' = "open" /\ UNCHANGED <<unacked, data, credit>>

Send ==
  /\ phase = "open"
  /\ unacked < Window
  /\ \E n \in 1 .. Slice : unacked' = unacked + n /\ data' = data + n
  /\ UNCHANGED <<phase, credit>>

Consume ==
  /\ phase = "open"
  /\ \E n \in 1 .. data : data' = data - n /\ credit' = credit + n
  /\ UNCHANGED <<phase, unacked>>

Settle ==
  /\ phase = "open"
  /\ \E n \in 1 .. credit : credit' = credit - n /\ unacked' = unacked - n
  /\ UNCHANGED <<phase, data>>

\* What is still on its way when a stream ends is nobody's.
Close ==
  /\ phase \in {"idle", "open"}
  /\ phase' = "closed"
  /\ unacked' = 0 /\ data' = 0 /\ credit' = 0

FlowNext == Open \/ Send \/ Consume \/ Settle \/ Close

FlowSpec == FlowInit /\ [][FlowNext]_flowVars

\* What the sender counts is what is on its way, one direction or the other,
\* and never more than a slice above the window.
FlowInv ==
  /\ unacked = data + credit
  /\ data \in Nat /\ credit \in Nat
  /\ unacked < Window + Slice
=============================================================================
