-------------------------- MODULE FlowControlProofs --------------------------
(***************************************************************************)
(* The credit protocol keeps its promises for every window and slice size. *)
(***************************************************************************)
EXTENDS FlowControl, TLAPS

FlowTypeOK ==
  /\ phase \in {"idle", "open", "closed"}
  /\ unacked \in Nat /\ data \in Nat /\ credit \in Nat

\* FlowInv is inductive with the types: every step keeps the sum, and only Send
\* raises it, from below the window by a slice at most.
LEMMA FlowStep ==
  ASSUME Window \in Nat \ {0}, Slice \in Nat \ {0},
         FlowTypeOK, FlowInv, [FlowNext]_flowVars
  PROVE  FlowTypeOK' /\ FlowInv'
<1> USE DEF FlowTypeOK, FlowInv
<1>1. CASE Open
  BY <1>1 DEF Open
<1>2. CASE Send
  <2>1. PICK n \in 1 .. Slice : unacked' = unacked + n /\ data' = data + n
    BY <1>2 DEF Send
  <2>2. unacked < Window /\ phase' = phase /\ credit' = credit
    BY <1>2 DEF Send
  <2> QED BY <2>1, <2>2
<1>3. CASE Consume
  <2>1. PICK n \in 1 .. data : data' = data - n /\ credit' = credit + n
    BY <1>3 DEF Consume
  <2>2. phase' = phase /\ unacked' = unacked
    BY <1>3 DEF Consume
  <2> QED BY <2>1, <2>2
<1>4. CASE Settle
  <2>1. PICK n \in 1 .. credit : credit' = credit - n /\ unacked' = unacked - n
    BY <1>4 DEF Settle
  <2>2. phase' = phase /\ data' = data
    BY <1>4 DEF Settle
  <2> QED BY <2>1, <2>2
<1>5. CASE Close
  BY <1>5 DEF Close
<1>6. CASE UNCHANGED flowVars
  BY <1>6 DEF flowVars
<1> QED BY <1>1, <1>2, <1>3, <1>4, <1>5, <1>6 DEF FlowNext

\* Whatever the window and the slice: the sender's count is exactly what is on
\* its way, nothing lost and nothing made up, and stays less than a slice above
\* the window (the promise StreamsFlow carries over to the bridge).
THEOREM FlowIsConserved ==
  ASSUME Window \in Nat \ {0}, Slice \in Nat \ {0}
  PROVE  FlowSpec => []FlowInv
<1>1. FlowInit => FlowTypeOK /\ FlowInv
  BY DEF FlowInit, FlowTypeOK, FlowInv
<1>2. FlowTypeOK /\ FlowInv /\ [FlowNext]_flowVars => FlowTypeOK' /\ FlowInv'
  BY FlowStep
<1> QED BY <1>1, <1>2, PTL DEF FlowSpec

\* No deadlock on credit: a sender the window holds back has acknowledgements or
\* unconsumed data on their way, so Consume or Settle is possible.
THEOREM BlockedHasCredit ==
  ASSUME Window \in Nat \ {0}, Slice \in Nat \ {0}
  PROVE  FlowSpec => [](unacked >= Window => data > 0 \/ credit > 0)
<1>1. FlowInv => (unacked >= Window => data > 0 \/ credit > 0)
  BY DEF FlowInv
<1> QED BY <1>1, FlowIsConserved, PTL
=============================================================================
