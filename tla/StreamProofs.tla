---------------------------- MODULE StreamProofs ----------------------------
(***************************************************************************)
(* The response streams of Bridge, for any tabs, requests, window, slice   *)
(* and body: what a client hears of its request follows the load protocol, *)
(* each stream implements FlowControl, and a body that ends was delivered  *)
(* in full.                                                                *)
(***************************************************************************)
EXTENDS BridgeProofs, BridgeChecks, FiniteSetTheorems, WellFoundedInduction

-----------------------------------------------------------------------------
(* Induction on the natural numbers, for sets: a nonempty set of naturals  *)
(* has a least element, as the intervals 0 .. n are well-founded.          *)

LEMMA NatMin ==
  ASSUME NEW T \in SUBSET Nat, T # {}
  PROVE  \E n \in T : \A m \in T : n <= m
<1> DEFINE X == {0 .. n : n \in T}
           R == StrictSubsetOrdering(Nat)
<1>1. IsWellFoundedOn(R, FiniteSubsetsOf(Nat))
  BY FS_StrictSubsetOrderingWellFounded
<1>2. X \subseteq FiniteSubsetsOf(Nat)
  <2>1. ASSUME NEW n \in T PROVE IsFiniteSet(0 .. n) /\ 0 .. n \subseteq Nat
    BY FS_Interval
  <2> QED BY <2>1 DEF FiniteSubsetsOf
<1>3. \E x \in X : \A y \in X : ~(<<y, x>> \in R)
  <2>1. X # {}
    OBVIOUS
  <2> HIDE DEF R, X
  <2> QED BY <1>1, <1>2, <2>1, WFMin
<1>4. PICK n \in T : \A m \in T : ~(<<0 .. m, 0 .. n>> \in R)
  BY <1>3
<1>5. ASSUME NEW m \in T, m < n PROVE FALSE
  <2>1. 0 .. m \in SUBSET Nat /\ 0 .. n \in SUBSET Nat /\ 0 .. m \subseteq 0 .. n
    BY <1>5
  <2>2. n \in 0 .. n /\ n \notin 0 .. m
    BY <1>5
  <2>3. 0 .. m # 0 .. n
    BY <2>2
  <2>4. <<0 .. m, 0 .. n>> \in R
    BY <2>1, <2>3 DEF StrictSubsetOrdering
  <2> QED BY <1>4, <2>4
<1> QED BY <1>5

LEMMA NatInd ==
  ASSUME NEW T \in SUBSET Nat, 0 \in T, \A n \in T : n + 1 \in T
  PROVE  T = Nat
<1> DEFINE U == Nat \ T
<1>1. SUFFICES ASSUME U # {} PROVE FALSE
  OBVIOUS
<1>2. PICK n \in U : \A m \in U : n <= m
  BY <1>1, NatMin
<1>3. n # 0 /\ n - 1 \in Nat /\ n - 1 \notin U
  BY <1>2
<1> QED BY <1>3, <1>2

-----------------------------------------------------------------------------
(* The bytes in a channel.                                                 *)

Sums(f, q, op, r, L) ==
  f = [n \in 0 .. L |-> IF n = 0 THEN 0 ELSE f[n - 1] + Carries(q[n], op, r)]

CountedTo(q, op, r, L) == \A n \in 1 .. L : Carries(q[n], op, r) \in Nat
Counted(q, op, r) == CountedTo(q, op, r, Len(q))

\* The first K messages of p are those of q after the first d, as far as they count.
Follows(p, q, op, r, K, d) == \A n \in 1 .. K : Carries(p[n], op, r) = Carries(q[n + d], op, r)

\* The function exists, for a sequence of any length.
LEMMA SumsExist ==
  ASSUME NEW q, NEW op, NEW r, NEW L \in Nat
  PROVE  \E f : Sums(f, q, op, r, L)
<1> DEFINE T == {n \in Nat : \E f : Sums(f, q, op, r, n)}
<1>1. 0 \in T
  <2>1. Sums([n \in 0 .. 0 |-> 0], q, op, r, 0)
    BY DEF Sums
  <2> QED BY <2>1
<1>2. ASSUME NEW n \in T PROVE n + 1 \in T
  <2>1. PICK f : Sums(f, q, op, r, n)
    OBVIOUS
  <2> DEFINE g == [i \in 0 .. n + 1 |-> IF i = n + 1 THEN f[n] + Carries(q[n + 1], op, r) ELSE f[i]]
  <2>2. \A i \in 0 .. n + 1 : g[i] = IF i = 0 THEN 0 ELSE g[i - 1] + Carries(q[i], op, r)
    <3> SUFFICES ASSUME NEW i \in 0 .. n + 1
                 PROVE  g[i] = IF i = 0 THEN 0 ELSE g[i - 1] + Carries(q[i], op, r)
      OBVIOUS
    <3>1. CASE i = n + 1
      BY <3>1
    <3>2. CASE i \in 0 .. n
      <4>1. f[i] = IF i = 0 THEN 0 ELSE f[i - 1] + Carries(q[i], op, r)
        BY <2>1, <3>2 DEF Sums
      <4> QED BY <3>2, <4>1
    <3> QED BY <3>1, <3>2
  <2>3. Sums(g, q, op, r, n + 1)
    BY <2>2 DEF Sums
  <2> HIDE DEF g
  <2> QED BY <2>3
<1> HIDE DEF T
<1>3. T = Nat
  BY <1>1, <1>2, NatInd DEF T
<1> QED BY <1>3 DEF T

LEMMA BytesSum ==
  ASSUME NEW q, NEW op, NEW r, Len(q) \in Nat
  PROVE  \E f : Sums(f, q, op, r, Len(q)) /\ Bytes(q, op, r) = f[Len(q)]
<1> DEFINE f == CHOOSE g : Sums(g, q, op, r, Len(q))
<1>1. Sums(f, q, op, r, Len(q))
  BY SumsExist
<1>2. Bytes(q, op, r) = f[Len(q)]
  BY DEF Bytes, Sums
<1> HIDE DEF f
<1> QED BY <1>1, <1>2

LEMMA SumsNat ==
  ASSUME NEW q, NEW op, NEW r, NEW L \in Nat, NEW f, Sums(f, q, op, r, L),
         CountedTo(q, op, r, L)
  PROVE  \A n \in 0 .. L : f[n] \in Nat
<1> DEFINE T == {n \in Nat : n <= L => f[n] \in Nat}
<1>1. 0 \in T
  BY DEF Sums
<1>2. ASSUME NEW n \in T PROVE n + 1 \in T
  <2>1. CASE n + 1 <= L
    <3>1. n + 1 \in 0 .. L /\ n + 1 # 0 /\ (n + 1) - 1 = n
      BY <2>1
    <3>2. f[n + 1] = f[n] + Carries(q[n + 1], op, r)
      BY <3>1 DEF Sums
    <3>3. f[n] \in Nat /\ Carries(q[n + 1], op, r) \in Nat
      BY <2>1 DEF CountedTo
    <3> QED BY <3>2, <3>3
  <2> QED BY <2>1
<1> HIDE DEF T
<1>3. T = Nat
  BY <1>1, <1>2, NatInd DEF T
<1> QED BY <1>3 DEF T

\* Sums over channels that agree on the messages they count are equal.
LEMMA SumsAgree ==
  ASSUME NEW q, NEW p, NEW op, NEW r, NEW L \in Nat, NEW K \in Nat, NEW d \in Nat,
         NEW f, NEW g, Sums(f, q, op, r, L), Sums(g, p, op, r, K), K + d <= L,
         Follows(p, q, op, r, K, d), CountedTo(q, op, r, L)
  PROVE  f[K + d] = f[d] + g[K]
<1>0. (\A n \in 0 .. L : f[n] \in Nat) /\ (\A n \in 0 .. K : g[n] \in Nat)
  <2>1. CountedTo(p, op, r, K)
    BY DEF Follows, CountedTo
  <2> QED BY <2>1, SumsNat
<1> DEFINE T == {n \in Nat : n <= K => f[n + d] = f[d] + g[n]}
<1>1. 0 \in T
  <2>1. g[0] = 0 /\ f[d] \in Nat
    BY <1>0 DEF Sums
  <2> QED BY <2>1
<1>2. ASSUME NEW n \in T PROVE n + 1 \in T
  <2>1. CASE n + 1 <= K
    <3>1. f[n + d] = f[d] + g[n] /\ g[n] \in Nat /\ f[d] \in Nat
      BY <1>0, <2>1
    <3>2. f[n + 1 + d] = f[n + d] + Carries(q[n + 1 + d], op, r)
      <4>1. n + 1 + d \in 0 .. L /\ n + 1 + d # 0 /\ (n + 1 + d) - 1 = n + d
        BY <2>1
      <4> QED BY <4>1 DEF Sums
    <3>3. g[n + 1] = g[n] + Carries(p[n + 1], op, r)
      <4>1. n + 1 \in 0 .. K /\ n + 1 # 0 /\ (n + 1) - 1 = n
        BY <2>1
      <4> QED BY <4>1 DEF Sums
    <3>4. Carries(p[n + 1], op, r) = Carries(q[n + 1 + d], op, r)
          /\ Carries(q[n + 1 + d], op, r) \in Nat
      BY <2>1 DEF Follows, CountedTo
    <3> DEFINE c == Carries(p[n + 1], op, r)
    <3> HIDE DEF c
    <3> QED BY <3>1, <3>2, <3>3, <3>4
  <2> QED BY <2>1
<1> HIDE DEF T
<1>3. T = Nat
  BY <1>1, <1>2, NatInd DEF T
<1> QED BY <1>3 DEF T

\* The messages op about r in a channel carry a length.
LEMMA BytesNat ==
  ASSUME NEW S, NEW q \in Seq(S), NEW op, NEW r, Counted(q, op, r)
  PROVE  Bytes(q, op, r) \in Nat
<1>1. PICK f : Sums(f, q, op, r, Len(q)) /\ Bytes(q, op, r) = f[Len(q)]
  BY BytesSum
<1> QED BY <1>1, SumsNat DEF Counted, CountedTo

LEMMA BytesAppend ==
  ASSUME NEW S, NEW q \in Seq(S), NEW m \in S, NEW op, NEW r, Counted(Append(q, m), op, r)
  PROVE  /\ Counted(q, op, r)
         /\ Bytes(Append(q, m), op, r) = Bytes(q, op, r) + Carries(m, op, r)
<1> DEFINE p == Append(q, m)
<1>1. /\ Len(p) = Len(q) + 1 /\ p[Len(q) + 1] = m
      /\ \A n \in 1 .. Len(q) : p[n] = q[n]
  OBVIOUS
<1> HIDE DEF p
<1>2. PICK f : Sums(f, p, op, r, Len(p)) /\ Bytes(p, op, r) = f[Len(p)]
  BY <1>1, BytesSum
<1>3. PICK g : Sums(g, q, op, r, Len(q)) /\ Bytes(q, op, r) = g[Len(q)]
  BY BytesSum
<1>4. \A n \in 1 .. Len(q) : Carries(p[n], op, r) = Carries(q[n], op, r) /\ Carries(p[n], op, r) \in Nat
  BY <1>1 DEF Counted, CountedTo, p
<1>5. f[0] = 0
  BY <1>1, <1>2 DEF Sums
<1>6. f[Len(q)] = g[Len(q)]
  <2>1. Follows(q, p, op, r, Len(q), 0)
    BY <1>4 DEF Follows
  <2>2. CountedTo(p, op, r, Len(p))
    BY DEF Counted, CountedTo, p
  <2>3. Len(q) \in Nat /\ Len(p) \in Nat /\ 0 \in Nat /\ Len(q) + 0 <= Len(p)
    BY <1>1
  <2>4. f[Len(q) + 0] = f[0] + g[Len(q)]
    BY ONLY <1>2, <1>3, <2>1, <2>2, <2>3, SumsAgree
  <2>5. CountedTo(q, op, r, Len(q))
    BY <1>4 DEF CountedTo
  <2>6. g[Len(q)] \in Nat
    BY <1>3, <2>3, <2>5, SumsNat
  <2> QED BY <1>5, <2>3, <2>4, <2>6
<1>7. f[Len(p)] = f[Len(q)] + Carries(m, op, r)
  <2>1. Len(p) \in 0 .. Len(p) /\ Len(p) # 0 /\ Len(p) - 1 = Len(q)
    BY <1>1
  <2> QED BY <1>1, <1>2, <2>1 DEF Sums
<1> QED BY <1>2, <1>3, <1>4, <1>6, <1>7 DEF Counted, CountedTo, p

LEMMA BytesTail ==
  ASSUME NEW S, NEW q \in Seq(S), NEW op, NEW r, q # <<>>, Counted(q, op, r)
  PROVE  /\ Counted(Tail(q), op, r)
         /\ Bytes(q, op, r) = Carries(Head(q), op, r) + Bytes(Tail(q), op, r)
<1> DEFINE p == Tail(q)
<1>1. /\ Len(q) = Len(p) + 1 /\ q[1] = Head(q) /\ p \in Seq(S)
      /\ \A n \in 1 .. Len(p) : p[n] = q[n + 1]
  BY HeadTailProperties
<1> HIDE DEF p
<1>2. PICK f : Sums(f, q, op, r, Len(q)) /\ Bytes(q, op, r) = f[Len(q)]
  BY BytesSum
<1>3. PICK g : Sums(g, p, op, r, Len(p)) /\ Bytes(p, op, r) = g[Len(p)]
  BY <1>1, BytesSum
<1>4. \A n \in 1 .. Len(p) : Carries(p[n], op, r) = Carries(q[n + 1], op, r) /\ Carries(p[n], op, r) \in Nat
  BY <1>1 DEF Counted, CountedTo
<1>5. f[1] = Carries(Head(q), op, r)
  <2>1. f[0] = 0 /\ Carries(q[1], op, r) \in Nat
    BY <1>1, <1>2 DEF Sums, Counted, CountedTo
  <2>2. 1 \in 0 .. Len(q) /\ 1 # 0 /\ 1 - 1 = 0
    BY <1>1
  <2>3. f[1] = f[0] + Carries(q[1], op, r)
    BY <1>2, <2>2 DEF Sums
  <2> QED BY <1>1, <2>1, <2>3
<1>6. f[Len(p) + 1] = f[1] + g[Len(p)]
  <2>1. Follows(p, q, op, r, Len(p), 1)
    BY <1>4 DEF Follows
  <2>2. CountedTo(q, op, r, Len(q))
    BY DEF Counted, CountedTo
  <2>3. Len(q) \in Nat /\ Len(p) \in Nat /\ 1 \in Nat /\ Len(p) + 1 <= Len(q)
    BY <1>1
  <2> QED BY ONLY <1>2, <1>3, <2>1, <2>2, <2>3, SumsAgree
<1> QED BY <1>1, <1>2, <1>3, <1>4, <1>5, <1>6 DEF Counted, CountedTo, p

LEMMA BytesNone ==
  ASSUME NEW S, NEW q \in Seq(S), NEW op, NEW r,
         \A i \in DOMAIN q : ~(q[i].id = r /\ q[i].op = op)
  PROVE  Bytes(q, op, r) = 0
<1>1. PICK f : Sums(f, q, op, r, Len(q)) /\ Bytes(q, op, r) = f[Len(q)]
  BY BytesSum
<1> DEFINE T == {n \in Nat : n <= Len(q) => f[n] = 0}
<1>2. 0 \in T
  BY <1>1 DEF Sums
<1>3. ASSUME NEW n \in T PROVE n + 1 \in T
  <2>1. CASE n + 1 <= Len(q)
    <3>1. n + 1 \in 0 .. Len(q) /\ n + 1 # 0 /\ (n + 1) - 1 = n /\ n + 1 \in DOMAIN q
      BY <2>1
    <3>2. f[n + 1] = f[n] + Carries(q[n + 1], op, r)
      BY <1>1, <3>1 DEF Sums
    <3>3. f[n] = 0 /\ Carries(q[n + 1], op, r) = 0
      BY <2>1, <3>1 DEF Carries
    <3> QED BY <3>2, <3>3
  <2> QED BY <2>1
<1> HIDE DEF T
<1>4. T = Nat
  BY <1>2, <1>3, NatInd DEF T
<1> QED BY <1>1, <1>4 DEF T

-----------------------------------------------------------------------------
(* What is on its way to a client.                                         *)

Opening == {"response", "redirect"}
AnyOp == {"response", "data", "done", "fail", "redirect"}

\* Messages ops about r are in the channel q.
Posted(q, r, ops) == \E i \in DOMAIN q : q[i].id = r /\ q[i].op \in ops
Tells(r, ops) == Posted(toEngine[TabOf[r]], r, ops)

\* Of the messages about r a response or redirect is the first, a terminal one the last.
Ordered(q, r) ==
  \A i, j \in DOMAIN q : q[i].id = r /\ q[j].id = r =>
    /\ q[i].op \in Opening => i <= j
    /\ q[i].op \in Terminal => j <= i

LEMMA PostedAppend ==
  ASSUME NEW q \in Seq(BridgeMsg), NEW m \in BridgeMsg, NEW r, NEW ops
  PROVE  Posted(Append(q, m), r, ops) <=> Posted(q, r, ops) \/ (m.id = r /\ m.op \in ops)
<1>1. ASSUME Posted(Append(q, m), r, ops) PROVE Posted(q, r, ops) \/ (m.id = r /\ m.op \in ops)
  BY <1>1, AppendIndex DEF Posted
<1>2. ASSUME NEW i \in DOMAIN q, q[i].id = r /\ q[i].op \in ops PROVE Posted(Append(q, m), r, ops)
  <2>1. i \in DOMAIN Append(q, m) /\ Append(q, m)[i] = q[i]
    OBVIOUS
  <2> QED BY <1>2, <2>1 DEF Posted
<1>3. ASSUME m.id = r /\ m.op \in ops PROVE Posted(Append(q, m), r, ops)
  <2>1. Len(q) + 1 \in DOMAIN Append(q, m) /\ Append(q, m)[Len(q) + 1] = m
    OBVIOUS
  <2> QED BY <1>3, <2>1 DEF Posted
<1> QED BY <1>1, <1>2, <1>3 DEF Posted

LEMMA OrderedAppend ==
  ASSUME NEW q \in Seq(BridgeMsg), NEW m \in BridgeMsg, NEW r, Ordered(q, r),
         m.id = r => ~Posted(q, r, Terminal) /\ (m.op \in Opening => ~Posted(q, r, AnyOp))
  PROVE  Ordered(Append(q, m), r)
<1> DEFINE p == Append(q, m)
<1>1. SUFFICES ASSUME NEW i \in DOMAIN p, NEW j \in DOMAIN p, p[i].id = r /\ p[j].id = r
               PROVE  (p[i].op \in Opening => i <= j) /\ (p[i].op \in Terminal => j <= i)
  BY DEF Ordered
<1>2. ASSUME NEW k \in DOMAIN p
      PROVE  (k \in DOMAIN q /\ p[k] = q[k]) \/ (k = Len(q) + 1 /\ p[k] = m)
  BY AppendIndex
<1> HIDE DEF p
<1>3. CASE i \in DOMAIN q /\ p[i] = q[i] /\ j \in DOMAIN q /\ p[j] = q[j]
  BY <1>1, <1>3 DEF Ordered
<1>4. CASE i = Len(q) + 1 /\ p[i] = m /\ j \in DOMAIN q /\ p[j] = q[j]
  <2>1. q[j] \in BridgeMsg
    BY <1>4
  <2>2. q[j].op \in AnyOp
    BY <2>1 DEF BridgeMsg, AnyOp
  <2>3. m.op \notin Opening
    BY <1>1, <1>4, <2>2 DEF Posted
  <2>4. j <= i
    BY <1>4
  <2> QED BY <1>4, <2>3, <2>4
<1>5. CASE i \in DOMAIN q /\ p[i] = q[i] /\ j = Len(q) + 1 /\ p[j] = m
  <2>1. q[i].op \notin Terminal
    BY <1>1, <1>5 DEF Posted
  <2>2. i <= j
    BY <1>5
  <2> QED BY <1>5, <2>1, <2>2
<1>6. CASE i = j
  BY <1>6, <1>2
<1> QED BY <1>2, <1>3, <1>4, <1>5, <1>6

LEMMA PostedTail ==
  ASSUME NEW q \in Seq(BridgeMsg), q # <<>>, NEW r, NEW ops
  PROVE  /\ Posted(Tail(q), r, ops) => Posted(q, r, ops)
         /\ Posted(q, r, ops) => Posted(Tail(q), r, ops) \/ (Head(q).id = r /\ Head(q).op \in ops)
         /\ Head(q).id = r /\ Head(q).op \in ops => Posted(q, r, ops)
<1>1. ASSUME Posted(Tail(q), r, ops) PROVE Posted(q, r, ops)
  BY <1>1, TailIndex DEF Posted
<1>2. ASSUME NEW i \in DOMAIN q, q[i].id = r /\ q[i].op \in ops
      PROVE  Posted(Tail(q), r, ops) \/ (Head(q).id = r /\ Head(q).op \in ops)
  <2>1. CASE i = 1
    BY <1>2, <2>1
  <2>2. CASE i # 1
    <3>1. i - 1 \in DOMAIN Tail(q) /\ Tail(q)[i - 1] = q[i]
      BY <2>2
    <3> QED BY <1>2, <3>1 DEF Posted
  <2> QED BY <2>1, <2>2
<1>3. 1 \in DOMAIN q /\ q[1] = Head(q)
  OBVIOUS
<1> QED BY <1>1, <1>2, <1>3 DEF Posted

\* The oldest message decides what may follow it.
LEMMA OrderedTail ==
  ASSUME NEW q \in Seq(BridgeMsg), q # <<>>, NEW r, Ordered(q, r)
  PROVE  /\ Ordered(Tail(q), r)
         /\ Head(q).id = r =>
              /\ ~Posted(Tail(q), r, Opening)
              /\ Head(q).op \in Terminal => ~Posted(Tail(q), r, AnyOp)
<1>1. \A i \in DOMAIN Tail(q) : i + 1 \in DOMAIN q /\ Tail(q)[i] = q[i + 1] /\ i \in Nat /\ i >= 1
  OBVIOUS
<1>2. Ordered(Tail(q), r)
  <2> SUFFICES ASSUME NEW i \in DOMAIN Tail(q), NEW j \in DOMAIN Tail(q),
                      Tail(q)[i].id = r /\ Tail(q)[j].id = r
               PROVE  /\ Tail(q)[i].op \in Opening => i <= j
                      /\ Tail(q)[i].op \in Terminal => j <= i
    BY DEF Ordered
  <2>1. /\ i + 1 \in DOMAIN q /\ Tail(q)[i] = q[i + 1] /\ i \in Nat
        /\ j + 1 \in DOMAIN q /\ Tail(q)[j] = q[j + 1] /\ j \in Nat
    BY <1>1
  <2>2. /\ q[i + 1].op \in Opening => i + 1 <= j + 1
        /\ q[i + 1].op \in Terminal => j + 1 <= i + 1
    BY <2>1 DEF Ordered
  <2> QED BY <2>1, <2>2
<1>3. 1 \in DOMAIN q /\ q[1] = Head(q)
  OBVIOUS
<1>4. ASSUME Head(q).id = r, NEW i \in DOMAIN Tail(q), Tail(q)[i].id = r
      PROVE  Tail(q)[i].op \notin Opening /\ Head(q).op \notin Terminal
  <2>1. i + 1 \in DOMAIN q /\ Tail(q)[i] = q[i + 1] /\ i \in Nat /\ i >= 1
    BY <1>1
  <2>2. /\ q[i + 1].op \in Opening => i + 1 <= 1
        /\ q[1].op \in Terminal => i + 1 <= 1
    BY <1>3, <1>4, <2>1 DEF Ordered
  <2> QED BY <1>3, <2>1, <2>2
<1> QED BY <1>2, <1>4 DEF Posted

-----------------------------------------------------------------------------
(* Whom the tasks of a page resume: a take() the request that awaits it,   *)
(* and a slice loop the one that is in it.                                 *)

Taking == {"takeErr", "takeOk"}

WaitersWait ==
  \A t \in Tab, u \in Url : \A i \in DOMAIN waiters[t][u] :
    LET w == waiters[t][u][i] IN
    w # Nobody =>
      /\ pc[w] \in Taking /\ TabOf[w] = t /\ UrlOf[w] = u
      /\ \A j \in DOMAIN waiters[t][u] : waiters[t][u][j] = w => j = i

RunnersSlice ==
  \A t \in Tab : running[t] # Nobody => TabOf[running[t]] = t /\ pc[running[t]] = "slice"

\* The requests that await a take() go on awaiting it, but for w.
TakersStay(w) == \A r \in Req : pc[r] \in Taking /\ r # w => pc'[r] = pc[r]

LEMMA WaitersKept ==
  ASSUME TypeOK, WaitersWait, TakersStay(Nobody), UNCHANGED waiters
  PROVE  WaitersWait'
<1>1. ASSUME NEW t \in Tab, NEW u \in Url, NEW i \in DOMAIN waiters[t][u], waiters[t][u][i] # Nobody
      PROVE  waiters[t][u][i] \in Req
  BY <1>1 DEF TypeOK, CaptureTypeOK
<1> QED BY <1>1, RequestsAssumption DEF WaitersWait, TakersStay

LEMMA WaiterLeaves ==
  ASSUME TypeOK, WaitersWait, NEW t \in Tab, NEW u \in Url, waiters[t][u] # <<>>,
         waiters' = [waiters EXCEPT ![t][u] = Tail(@)], TakersStay(Head(waiters[t][u]))
  PROVE  WaitersWait'
<1> DEFINE w == Head(waiters[t][u])
<1>1. waiters \in [Tab -> [Url -> Seq(Req \cup {Nobody})]]
  BY DEF TypeOK, CaptureTypeOK
<1>2. ASSUME NEW s \in Tab, NEW v \in Url, NEW i \in DOMAIN waiters[s][v],
             waiters[s][v][i] # Nobody, s # t \/ v # u \/ i # 1
      PROVE  /\ pc'[waiters[s][v][i]] \in Taking
             /\ TabOf[waiters[s][v][i]] = s /\ UrlOf[waiters[s][v][i]] = v
             /\ \A j \in DOMAIN waiters[s][v] : waiters[s][v][j] = waiters[s][v][i] => j = i
  <2>1. waiters[s][v][i] \in Req
    BY <1>1, <1>2
  <2>2. waiters[t][u][1] = w /\ 1 \in DOMAIN waiters[t][u]
    BY <1>1
  <2>3. waiters[s][v][i] # w
    <3>1. CASE w = Nobody
      BY <1>2, <3>1
    <3>2. CASE w # Nobody
      BY <1>2, <2>2, <3>2 DEF WaitersWait
    <3> QED BY <3>1, <3>2
  <2> QED BY <1>2, <2>1, <2>3 DEF WaitersWait, TakersStay
<1>3. SUFFICES ASSUME NEW s \in Tab, NEW v \in Url, NEW i \in DOMAIN waiters'[s][v],
                      waiters'[s][v][i] # Nobody
               PROVE  /\ pc'[waiters'[s][v][i]] \in Taking
                      /\ TabOf[waiters'[s][v][i]] = s /\ UrlOf[waiters'[s][v][i]] = v
                      /\ \A j \in DOMAIN waiters'[s][v] :
                           waiters'[s][v][j] = waiters'[s][v][i] => j = i
  BY DEF WaitersWait
<1>4. CASE s # t \/ v # u
  <2>1. waiters'[s][v] = waiters[s][v]
    BY <1>1, <1>4
  <2> QED BY <1>2, <1>3, <1>4, <2>1
<1>5. CASE s = t /\ v = u
  <2>1. waiters'[s][v] = Tail(waiters[t][u]) /\ waiters[t][u] \in Seq(Req \cup {Nobody})
    BY <1>1, <1>5
  <2>2. \A j \in DOMAIN Tail(waiters[t][u]) :
          /\ j + 1 \in DOMAIN waiters[t][u] /\ j \in Nat /\ j + 1 # 1
          /\ Tail(waiters[t][u])[j] = waiters[t][u][j + 1]
    BY <2>1
  <2>3. i + 1 \in DOMAIN waiters[s][v] /\ waiters'[s][v][i] = waiters[s][v][i + 1] /\ i \in Nat
        /\ i + 1 # 1
    BY <1>5, <2>1, <2>2
  <2>4. /\ pc'[waiters[s][v][i + 1]] \in Taking
        /\ TabOf[waiters[s][v][i + 1]] = s /\ UrlOf[waiters[s][v][i + 1]] = v
        /\ \A j \in DOMAIN waiters[s][v] : waiters[s][v][j] = waiters[s][v][i + 1] => j = i + 1
    BY <1>2, <1>3, <2>3
  <2>5. ASSUME NEW j \in DOMAIN waiters'[s][v], waiters'[s][v][j] = waiters'[s][v][i]
        PROVE  j = i
    <3>1. j + 1 \in DOMAIN waiters[s][v] /\ waiters'[s][v][j] = waiters[s][v][j + 1] /\ j \in Nat
      BY <1>5, <2>1, <2>2
    <3>2. j + 1 = i + 1
      BY <2>3, <2>4, <2>5, <3>1
    <3> QED BY <2>3, <3>1, <3>2
  <2> QED BY <2>3, <2>4, <2>5
<1> QED BY <1>4, <1>5

LEMMA WaiterJoins ==
  ASSUME TypeOK, WaitersWait, NEW t \in Tab, NEW u \in Url, NEW w \in Req \cup {Nobody},
         Wait(t, u, w), TakersStay(Nobody),
         w # Nobody => pc[w] \notin Taking /\ pc'[w] \in Taking /\ TabOf[w] = t /\ UrlOf[w] = u
  PROVE  WaitersWait'
<1>1. waiters \in [Tab -> [Url -> Seq(Req \cup {Nobody})]]
  BY DEF TypeOK, CaptureTypeOK
<1>2. ASSUME NEW s \in Tab, NEW v \in Url, NEW i \in DOMAIN waiters[s][v], waiters[s][v][i] # Nobody
      PROVE  /\ pc'[waiters[s][v][i]] \in Taking /\ waiters[s][v][i] # w
             /\ TabOf[waiters[s][v][i]] = s /\ UrlOf[waiters[s][v][i]] = v
             /\ \A j \in DOMAIN waiters[s][v] : waiters[s][v][j] = waiters[s][v][i] => j = i
  <2>1. waiters[s][v][i] \in Req
    BY <1>1, <1>2
  <2> QED BY <1>2, <2>1, RequestsAssumption DEF WaitersWait, TakersStay
<1>3. SUFFICES ASSUME NEW s \in Tab, NEW v \in Url, NEW i \in DOMAIN waiters'[s][v],
                      waiters'[s][v][i] # Nobody
               PROVE  /\ pc'[waiters'[s][v][i]] \in Taking
                      /\ TabOf[waiters'[s][v][i]] = s /\ UrlOf[waiters'[s][v][i]] = v
                      /\ \A j \in DOMAIN waiters'[s][v] :
                           waiters'[s][v][j] = waiters'[s][v][i] => j = i
  BY DEF WaitersWait
<1>4. CASE s # t \/ v # u
  <2>1. waiters'[s][v] = waiters[s][v]
    BY <1>1, <1>4 DEF Wait
  <2> QED BY <1>2, <1>3, <1>4, <2>1
<1>5. CASE s = t /\ v = u
  <2> DEFINE q == waiters[t][u]
             p == waiters'[s][v]
  <2>1. p = Append(q, w) /\ q \in Seq(Req \cup {Nobody})
    BY <1>1, <1>5 DEF Wait
  <2>2. ASSUME NEW j \in DOMAIN p
        PROVE  (j \in DOMAIN q /\ p[j] = q[j]) \/ (j = Len(q) + 1 /\ p[j] = w)
    BY <2>1, AppendIndex
  <2>3. \A j \in DOMAIN q : q[j] # Nobody =>
          /\ pc'[q[j]] \in Taking /\ q[j] # w /\ TabOf[q[j]] = t /\ UrlOf[q[j]] = u
          /\ \A k \in DOMAIN q : q[k] = q[j] => k = j
    BY <1>2
  <2>4. p[i] # Nobody /\ i \in DOMAIN p
    BY <1>3
  <2> HIDE DEF p, q
  <2>5. /\ pc'[p[i]] \in Taking /\ TabOf[p[i]] = t /\ UrlOf[p[i]] = u
        /\ \A j \in DOMAIN p : p[j] = p[i] => j = i
    BY <2>2, <2>3, <2>4
  <2> QED BY <1>5, <2>5 DEF p
<1> QED BY <1>4, <1>5

-----------------------------------------------------------------------------
(* What a client has been told, and what is still on its way, agree with   *)
(* what the page is doing for the request.                                 *)

Before == {"new", "base", "add", "fetch"} \cup Taking
Streaming == {"read", "slice", "credit"}

Speaks(r) ==
  /\ r \in registered =>
       /\ Ordered(toEngine[TabOf[r]], r)
       /\ Tells(r, Opening) => client[r] = "open"
       /\ Tells(r, {"data", "done"}) \/ pc[r] \in Streaming =>
            client[r] = "responded" \/ Tells(r, {"response"})
       /\ Tells(r, Terminal) => pc[r] = "over"
       /\ pc[r] \in Before => client[r] = "open" /\ ~Tells(r, AnyOp)
  /\ client[r] \in {"done", "failed", "redirected"} => pc[r] = "over" /\ ~Tells(r, AnyOp)

\* The bytes of a response: each was read, is the rest of a chunk, is on its way,
\* or has been consumed; and the window counts those not acknowledged.
Counts(r) ==
  /\ Live(r) => /\ unacked[r] = DataBytes(r) + AckBytes(r)
                /\ pc[r] = "credit" => unacked[r] >= Window
  /\ pc[r] = "new" => /\ unacked[r] = 0 /\ bytes[r] = 0 /\ got[r] = 0
                      /\ DataBytes(r) = 0 /\ AckBytes(r) = 0
  /\ pc[r] \in {"slice", "credit"} => rem[r] >= 1
  /\ pc[r] \in Before \cup {"read"} => rem[r] = 0
  /\ r \in registered /\ pc[r] # "over" => got[r] + DataBytes(r) + rem[r] = bytes[r]
  /\ r \in registered /\ Tells(r, {"done"}) => got[r] + DataBytes(r) = bytes[r]
  /\ client[r] = "done" => got[r] = bytes[r]

-----------------------------------------------------------------------------
(* What a task of the page may do to a request.                            *)

\* It says nothing about r, or one message of the kinds ops.
Quiet(r) ==
  \/ toEngine'[TabOf[r]] = toEngine[TabOf[r]]
  \/ \E m \in BridgeMsg : m.id # r /\ toEngine'[TabOf[r]] = Append(toEngine[TabOf[r]], m)
Posts(r, ops) ==
  \E m \in BridgeMsg : /\ m.id = r /\ m.op \in ops
                       /\ toEngine'[TabOf[r]] = Append(toEngine[TabOf[r]], m)
Sends(r, n) == toEngine'[TabOf[r]] = Append(toEngine[TabOf[r]], Signal("data", r, n))

\* It reads no ack for r, or one of n bytes.
NoAck(r) ==
  LET q == toBridge[TabOf[r]] IN
  \/ toBridge'[TabOf[r]] = q
  \/ /\ q # <<>> /\ toBridge'[TabOf[r]] = Tail(q)
     /\ Head(q).op = "ack" => Head(q).id # r
Acked(r, n) ==
  LET q == toBridge[TabOf[r]] IN
  /\ q # <<>> /\ toBridge'[TabOf[r]] = Tail(q)
  /\ Head(q).op = "ack" /\ Head(q).id = r /\ Head(q).len = n

Same(r) == unacked'[r] = unacked[r] /\ bytes'[r] = bytes[r] /\ rem'[r] = rem[r]
Goes1(r, from, to) == pc[r] \in from /\ pc'[r] \in to

Rests(r) ==
  /\ Quiet(r) /\ NoAck(r) /\ Same(r)
  /\ \/ pc'[r] = pc[r]
     \/ Goes1(r, Before, (Before \ {"new"}) \cup {"over"})
     \/ Goes1(r, Streaming, {"over"})
     \/ Goes1(r, {"slice"}, {"credit"}) /\ unacked[r] >= Window
Ends(r) ==
  /\ NoAck(r) /\ Same(r)
  /\ \/ Posts(r, {"fail"}) /\ Goes1(r, Before \cup Streaming, {"over"})
     \/ Posts(r, {"redirect"}) /\ Goes1(r, Before, {"over"})
     \/ Posts(r, {"done"}) /\ Goes1(r, {"read"}, {"over"})
Responds(r) == NoAck(r) /\ Same(r) /\ Posts(r, {"response"}) /\ Goes1(r, Before, {"read"})
Cancelled(r) ==
  /\ NoAck(r) /\ Same(r) /\ client[r] = "cancelled"
  /\ Quiet(r) \/ Posts(r, {"fail", "redirect"})
  /\ pc'[r] = pc[r] \/ pc'[r] = "over"
Reads(r) ==
  /\ NoAck(r) /\ unacked'[r] = unacked[r]
  /\ \/ /\ Quiet(r) /\ Goes1(r, {"read"}, {"slice"})
        /\ rem'[r] \in Nat \ {0} /\ bytes'[r] = bytes[r] + rem'[r]
     \/ /\ Quiet(r) \/ Posts(r, {"fail"})
        /\ Goes1(r, {"read"}, {"over"})
Slices(r) ==
  /\ NoAck(r) /\ bytes'[r] = bytes[r]
  /\ unacked[r] < Window
  /\ \E n \in 1 .. Slice :
       /\ n <= rem[r] /\ Sends(r, n)
       /\ unacked'[r] = unacked[r] + n
       /\ rem'[r] = rem[r] - n
       /\ Goes1(r, {"slice"}, IF rem[r] = n THEN {"read"} ELSE {"slice"})
Credits(r) ==
  /\ Quiet(r) /\ bytes'[r] = bytes[r] /\ rem'[r] = rem[r]
  /\ \E n \in Nat \ {0} :
       /\ Acked(r, n)
       /\ r \in inflight => unacked'[r] = unacked[r] - n
  /\ \/ pc'[r] = pc[r] /\ (pc[r] = "credit" /\ r \in inflight => unacked'[r] >= Window)
     \/ Goes1(r, {"credit"}, {"slice"})

\* What a step of the page or the browser does to r.
Moves(r) ==
  /\ r \in inflight' => r \in inflight \/ pc[r] = "new"
  /\ \/ Rests(r) \/ Ends(r) \/ Responds(r) \/ Cancelled(r)
     \/ Reads(r) \/ Slices(r) \/ Credits(r)

\* The messages to the engine after such a step.
LEMMA QuietTells ==
  ASSUME TypeOK, NEW r \in Req, Quiet(r)
  PROVE  /\ \A ops : Tells(r, ops)' <=> Tells(r, ops)
         /\ Ordered(toEngine[TabOf[r]], r) => Ordered(toEngine[TabOf[r]], r)'
<1>1. toEngine[TabOf[r]] \in Seq(BridgeMsg)
  BY RequestsAssumption DEF TypeOK, NetTypeOK
<1>2. CASE toEngine'[TabOf[r]] = toEngine[TabOf[r]]
  BY <1>2 DEF Tells, Ordered, Posted
<1>3. ASSUME NEW m \in BridgeMsg, m.id # r, toEngine'[TabOf[r]] = Append(toEngine[TabOf[r]], m)
      PROVE  /\ \A ops : Tells(r, ops)' <=> Tells(r, ops)
             /\ Ordered(toEngine[TabOf[r]], r) => Ordered(toEngine[TabOf[r]], r)'
  <2>1. \A ops : Tells(r, ops)' <=> Tells(r, ops)
    <3>1. \A ops : Posted(Append(toEngine[TabOf[r]], m), r, ops) <=> Posted(toEngine[TabOf[r]], r, ops)
      BY <1>1, <1>3, PostedAppend
    <3> QED BY <1>3, <3>1 DEF Tells, Posted
  <2>2. Ordered(toEngine[TabOf[r]], r) => Ordered(toEngine[TabOf[r]], r)'
    <3>1. Ordered(toEngine[TabOf[r]], r) => Ordered(Append(toEngine[TabOf[r]], m), r)
      BY <1>1, <1>3, OrderedAppend
    <3> QED BY <1>3, <3>1 DEF Ordered
  <2> QED BY <2>1, <2>2
<1> QED BY <1>2, <1>3 DEF Quiet

LEMMA PostsTells ==
  ASSUME TypeOK, NEW r \in Req, NEW op, Posts(r, {op})
  PROVE  /\ \A ops : Tells(r, ops)' <=> Tells(r, ops) \/ op \in ops
         /\ Ordered(toEngine[TabOf[r]], r) /\ ~Tells(r, Terminal)
            /\ (op \in Opening => ~Tells(r, AnyOp)) => Ordered(toEngine[TabOf[r]], r)'
<1>1. toEngine[TabOf[r]] \in Seq(BridgeMsg)
  BY RequestsAssumption DEF TypeOK, NetTypeOK
<1>2. PICK m \in BridgeMsg : m.id = r /\ m.op = op
                             /\ toEngine'[TabOf[r]] = Append(toEngine[TabOf[r]], m)
  BY DEF Posts
<1>3. \A ops : Tells(r, ops)' <=> Tells(r, ops) \/ op \in ops
  <2>1. \A ops : Posted(Append(toEngine[TabOf[r]], m), r, ops)
                 <=> Posted(toEngine[TabOf[r]], r, ops) \/ op \in ops
    BY <1>1, <1>2, PostedAppend
  <2> QED BY <1>2, <2>1 DEF Tells, Posted
<1>4. ASSUME Ordered(toEngine[TabOf[r]], r), ~Tells(r, Terminal), op \in Opening => ~Tells(r, AnyOp)
      PROVE  Ordered(toEngine[TabOf[r]], r)'
  <2>1. Ordered(Append(toEngine[TabOf[r]], m), r)
    BY <1>1, <1>2, <1>4, OrderedAppend DEF Tells
  <2> QED BY <1>2, <2>1 DEF Ordered
<1> QED BY <1>3, <1>4

\* The engine waits for the requests whose clients have not heard their end.
Known == registered = {r \in Req : client[r] \in {"open", "responded"}}

LEMMA MovesSpeak ==
  ASSUME TypeOK, Known, NEW r \in Req, Speaks(r), Moves(r), UNCHANGED engineVars
  PROVE  Speaks(r)'
<1> DEFINE Ord == Ordered(toEngine[TabOf[r]], r)
<1> USE DEF Opening, Terminal, AnyOp, Before, Taking, Streaming, Goes1
<1>1. UNCHANGED <<registered, client>> /\ pc[r] \in Await
  BY DEF engineVars, TypeOK, ProgressTypeOK
<1>2. r \in registered <=> client[r] \in {"open", "responded"}
  BY DEF Known
<1>3. ASSUME Quiet(r), \/ pc'[r] = pc[r] \/ pc'[r] = "over"
                       \/ pc[r] \in Before /\ pc'[r] \in Before
                       \/ pc[r] \in Streaming /\ pc'[r] \in Streaming
      PROVE  Speaks(r)'
  <2>1. (\A ops : Tells(r, ops)' <=> Tells(r, ops)) /\ (Ord => Ord')
    BY <1>3, QuietTells
  <2> HIDE DEF Ord
  <2> QED BY <1>1, <1>3, <2>1 DEF Speaks, Ord
<1>4. ASSUME NEW op \in AnyOp, Posts(r, {op}), pc[r] # "over",
             op \in {"fail", "redirect", "done"} => pc'[r] = "over",
             op \in {"response", "redirect"} => pc[r] \in Before,
             op \in {"response", "data"} => pc'[r] \in Streaming,
             op \in {"data", "done"} => pc[r] \in Streaming
      PROVE  Speaks(r)'
  <2>1. (\A ops : Tells(r, ops)' <=> Tells(r, ops) \/ op \in ops)
        /\ (Ord /\ ~Tells(r, Terminal) /\ (op \in Opening => ~Tells(r, AnyOp)) => Ord')
    BY <1>4, PostsTells
  <2> HIDE DEF Ord
  <2>2. client[r] \notin {"done", "failed", "redirected"}
    BY <1>4 DEF Speaks
  <2>3. ASSUME r \in registered
        PROVE  /\ Ord'
               /\ Tells(r, Opening)' => client[r] = "open"
               /\ Tells(r, {"data", "done"})' \/ pc'[r] \in Streaming =>
                    client[r] = "responded" \/ Tells(r, {"response"})'
               /\ Tells(r, Terminal)' => pc'[r] = "over"
               /\ pc'[r] \notin Before
    <3>1. /\ Ord /\ (Tells(r, Opening) => client[r] = "open") /\ ~Tells(r, Terminal)
          /\ pc[r] \in Streaming => client[r] = "responded" \/ Tells(r, {"response"})
          /\ pc[r] \in Before => client[r] = "open" /\ ~Tells(r, AnyOp)
          /\ Tells(r, {"data", "done"}) => client[r] = "responded" \/ Tells(r, {"response"})
      BY <1>4, <2>3 DEF Speaks, Ord
    <3>2. /\ Tells(r, Opening)' <=> Tells(r, Opening) \/ op \in Opening
          /\ Tells(r, {"data", "done"})' <=> Tells(r, {"data", "done"}) \/ op \in {"data", "done"}
          /\ Tells(r, {"response"})' <=> Tells(r, {"response"}) \/ op = "response"
          /\ Tells(r, Terminal)' <=> Tells(r, Terminal) \/ op \in Terminal
      BY <2>1
    <3>3. op \in Opening => pc[r] \in Before
      BY <1>4
    <3> QED BY <1>4, <2>1, <3>1, <3>2, <3>3
  <2> QED BY <1>1, <2>2, <2>3 DEF Speaks, Ord
<1>5. ASSUME Cancelled(r) PROVE Speaks(r)'
  BY <1>1, <1>2, <1>5 DEF Cancelled, Speaks
<1>6. ASSUME Credits(r) \/ Rests(r) PROVE Speaks(r)'
  BY <1>1, <1>3, <1>6 DEF Credits, Rests
<1>7. ASSUME Ends(r) PROVE Speaks(r)'
  BY <1>4, <1>7 DEF Ends
<1>8. ASSUME Responds(r) PROVE Speaks(r)'
  BY <1>4, <1>8 DEF Responds
<1>9. ASSUME Reads(r) PROVE Speaks(r)'
  BY <1>3, <1>4, <1>9 DEF Reads
<1>10. ASSUME Slices(r) PROVE Speaks(r)'
  <2>1. PICK n \in 1 .. Slice : Sends(r, n)
    BY <1>10 DEF Slices
  <2>2. n \in Nat
    BY BridgeAssumption
  <2>3. Posts(r, {"data"})
    BY <2>1, <2>2, SignalType DEF Sends, Posts, Signal
  <2> QED BY <1>4, <1>10, <2>3 DEF Slices
<1> QED BY <1>5, <1>6, <1>7, <1>8, <1>9, <1>10 DEF Moves

-----------------------------------------------------------------------------
(* What such a step does to the bytes on their way.                        *)

LEMMA DataCounted ==
  ASSUME NEW q \in Seq(BridgeMsg), NEW r
  PROVE  Counted(q, "data", r)
<1>1. \A n \in 1 .. Len(q) : q[n] \in BridgeMsg
  OBVIOUS
<1>2. \A m \in BridgeMsg : m.op = "data" => m.len \in Nat
  BY DEF BridgeMsg
<1> QED BY <1>1, <1>2 DEF Counted, CountedTo, Carries

LEMMA AckCounted ==
  ASSUME NEW q \in Seq(EngineMsg), NEW r
  PROVE  Counted(q, "ack", r)
<1>1. \A n \in 1 .. Len(q) : q[n] \in EngineMsg
  OBVIOUS
<1>2. \A m \in EngineMsg : m.len \in Nat
  BY DEF EngineMsg
<1> QED BY <1>1, <1>2 DEF Counted, CountedTo, Carries

LEMMA CountsNat ==
  ASSUME TypeOK, NEW r \in Req
  PROVE  DataBytes(r) \in Nat /\ AckBytes(r) \in Nat
<1>1. toEngine[TabOf[r]] \in Seq(BridgeMsg) /\ toBridge[TabOf[r]] \in Seq(EngineMsg)
  BY RequestsAssumption DEF TypeOK, NetTypeOK
<1> QED BY <1>1, DataCounted, AckCounted, BytesNat DEF DataBytes, AckBytes

LEMMA CountsPrime ==
  ASSUME NEW r
  PROVE  /\ DataBytes(r)' = Bytes(toEngine'[TabOf[r]], "data", r)
         /\ AckBytes(r)' = Bytes(toBridge'[TabOf[r]], "ack", r)
BY DEF DataBytes, AckBytes, Bytes

LEMMA DataAppend ==
  ASSUME NEW q \in Seq(BridgeMsg), NEW m \in BridgeMsg, NEW r
  PROVE  Bytes(Append(q, m), "data", r) = Bytes(q, "data", r) + Carries(m, "data", r)
<1>1. Append(q, m) \in Seq(BridgeMsg)
  OBVIOUS
<1>2. Counted(Append(q, m), "data", r)
  BY <1>1, DataCounted
<1> QED BY <1>2, BytesAppend

LEMMA NoData ==
  ASSUME TypeOK, NEW r \in Req, Quiet(r) \/ Posts(r, AnyOp \ {"data"})
  PROVE  DataBytes(r)' = DataBytes(r)
<1>1. toEngine[TabOf[r]] \in Seq(BridgeMsg)
  BY RequestsAssumption DEF TypeOK, NetTypeOK
<1>2. CASE toEngine'[TabOf[r]] = toEngine[TabOf[r]]
  BY <1>2, CountsPrime DEF DataBytes
<1>3. ASSUME NEW m \in BridgeMsg, m.id # r \/ m.op # "data",
             toEngine'[TabOf[r]] = Append(toEngine[TabOf[r]], m)
      PROVE  DataBytes(r)' = DataBytes(r)
  <2>2. Bytes(Append(toEngine[TabOf[r]], m), "data", r)
          = Bytes(toEngine[TabOf[r]], "data", r) + Carries(m, "data", r)
    BY <1>1, DataAppend
  <2>3. Carries(m, "data", r) = 0
    BY <1>3 DEF Carries
  <2>4. DataBytes(r) \in Nat
    BY CountsNat
  <2> QED BY <1>3, <2>2, <2>3, <2>4, CountsPrime DEF DataBytes
<1> QED BY <1>2, <1>3 DEF Quiet, Posts

LEMMA SomeData ==
  ASSUME TypeOK, NEW r \in Req, NEW n \in Nat, Sends(r, n)
  PROVE  DataBytes(r)' = DataBytes(r) + n
<1> DEFINE m == Signal("data", r, n)
<1>1. toEngine[TabOf[r]] \in Seq(BridgeMsg) /\ m \in BridgeMsg
  BY RequestsAssumption, SignalType DEF TypeOK, NetTypeOK
<1>3. Carries(m, "data", r) = n
  BY DEF Carries, Signal
<1>4. toEngine'[TabOf[r]] = Append(toEngine[TabOf[r]], m)
  BY DEF Sends
<1> HIDE DEF m
<1>5. Bytes(Append(toEngine[TabOf[r]], m), "data", r)
        = Bytes(toEngine[TabOf[r]], "data", r) + Carries(m, "data", r)
  BY <1>1, DataAppend
<1> QED BY <1>3, <1>4, <1>5, CountsPrime DEF DataBytes

\* The page takes the oldest message of the engine.
LEMMA TailAcks ==
  ASSUME TypeOK, NEW r \in Req, toBridge[TabOf[r]] # <<>>,
         toBridge'[TabOf[r]] = Tail(toBridge[TabOf[r]])
  PROVE  /\ AckBytes(r) = Carries(Head(toBridge[TabOf[r]]), "ack", r) + AckBytes(r)'
         /\ AckBytes(r)' \in Nat
<1> DEFINE q == toBridge[TabOf[r]]
<1>1. q \in Seq(EngineMsg) /\ q # <<>>
  BY RequestsAssumption DEF TypeOK, NetTypeOK
<1>2. Tail(q) \in Seq(EngineMsg)
  BY <1>1, HeadTailProperties
<1>3. Bytes(q, "ack", r) = Carries(Head(q), "ack", r) + Bytes(Tail(q), "ack", r)
      /\ Bytes(Tail(q), "ack", r) \in Nat
  BY <1>1, <1>2, AckCounted, BytesTail, BytesNat
<1> QED BY <1>3, CountsPrime DEF AckBytes

LEMMA NoAckKeeps ==
  ASSUME TypeOK, NEW r \in Req, NoAck(r)
  PROVE  AckBytes(r)' = AckBytes(r)
<1>1. CASE toBridge'[TabOf[r]] = toBridge[TabOf[r]]
  BY <1>1, CountsPrime DEF AckBytes
<1>2. CASE /\ toBridge[TabOf[r]] # <<>>
           /\ toBridge'[TabOf[r]] = Tail(toBridge[TabOf[r]])
           /\ Head(toBridge[TabOf[r]]).op = "ack" => Head(toBridge[TabOf[r]]).id # r
  <2>1. Carries(Head(toBridge[TabOf[r]]), "ack", r) = 0
    BY <1>2 DEF Carries
  <2> QED BY <1>2, <2>1, TailAcks
<1> QED BY <1>1, <1>2 DEF NoAck

LEMMA AckedTakes ==
  ASSUME TypeOK, NEW r \in Req, NEW n \in Nat, Acked(r, n)
  PROVE  AckBytes(r) = n + AckBytes(r)' /\ AckBytes(r)' \in Nat
<1>1. Carries(Head(toBridge[TabOf[r]]), "ack", r) = n
  BY DEF Acked, Carries
<1> QED BY <1>1, TailAcks DEF Acked

-----------------------------------------------------------------------------
(* The steps of FlowControl a request's stream takes.                      *)

FlowStep(r) == [Stream(r)!FlowNext]_(Stream(r)!flowVars)

LEMMA FlowRest ==
  ASSUME NEW r \in Req, Live(r)' <=> Live(r), pc'[r] = "new" <=> pc[r] = "new",
         Live(r) => /\ unacked'[r] = unacked[r] /\ DataBytes(r)' = DataBytes(r)
                    /\ AckBytes(r)' = AckBytes(r)
  PROVE  FlowStep(r)
<1>1. UNCHANGED Stream(r)!flowVars
  BY DEF Stream!flowVars
<1> QED BY <1>1 DEF FlowStep

LEMMA FlowClose ==
  ASSUME NEW r \in Req, ~Live(r)', pc'[r] # "new"
  PROVE  FlowStep(r)
<1>1. CASE Live(r) \/ pc[r] = "new"
  <2>1. Stream(r)!Close
    BY <1>1 DEF Stream!Close
  <2> QED BY <2>1 DEF FlowStep, Stream!FlowNext
<1>2. CASE ~Live(r) /\ pc[r] # "new"
  BY <1>2, FlowRest
<1> QED BY <1>1, <1>2

LEMMA FlowOpen ==
  ASSUME NEW r \in Req, ~Live(r), pc[r] = "new", Live(r)',
         unacked'[r] = 0, DataBytes(r)' = 0, AckBytes(r)' = 0
  PROVE  FlowStep(r)
<1>1. Stream(r)!Open
  BY DEF Stream!Open
<1> QED BY <1>1 DEF FlowStep, Stream!FlowNext

LEMMA FlowSend ==
  ASSUME NEW r \in Req, Live(r), Live(r)', unacked[r] < Window, NEW n \in 1 .. Slice,
         unacked'[r] = unacked[r] + n, DataBytes(r)' = DataBytes(r) + n,
         AckBytes(r)' = AckBytes(r)
  PROVE  FlowStep(r)
<1>1. Stream(r)!Send
  BY DEF Stream!Send
<1> QED BY <1>1 DEF FlowStep, Stream!FlowNext

LEMMA FlowConsume ==
  ASSUME NEW r \in Req, Live(r), Live(r)', NEW n \in 1 .. DataBytes(r),
         unacked'[r] = unacked[r], DataBytes(r)' = DataBytes(r) - n,
         AckBytes(r)' = AckBytes(r) + n
  PROVE  FlowStep(r)
<1>1. Stream(r)!Consume
  BY DEF Stream!Consume
<1> QED BY <1>1 DEF FlowStep, Stream!FlowNext

LEMMA FlowSettle ==
  ASSUME NEW r \in Req, Live(r), Live(r)', NEW n \in 1 .. AckBytes(r),
         unacked'[r] = unacked[r] - n, DataBytes(r)' = DataBytes(r),
         AckBytes(r)' = AckBytes(r) - n
  PROVE  FlowStep(r)
<1>1. Stream(r)!Settle
  BY DEF Stream!Settle
<1> QED BY <1>1 DEF FlowStep, Stream!FlowNext

\* Nothing that a page does makes a request new again, or takes one up that has
\* begun.
LEMMA MovesLive ==
  ASSUME TypeOK, Started, NEW r \in Req, Moves(r), UNCHANGED engineVars
  PROVE  /\ pc'[r] = "new" => pc[r] = "new"
         /\ pc[r] = "new" => ~Live(r)
         /\ Live(r)' => Live(r) \/ (pc[r] = "new" /\ r \in registered)
<1>1. pc'[r] = "new" => pc[r] = "new"
  BY DEF Moves, Rests, Ends, Responds, Cancelled, Reads, Slices, Credits, Goes1, Before, Taking
<1>2. pc[r] = "new" => r \notin inflight
  BY DEF Started, InflightHasBegun
<1>3. Live(r)' <=> r \in inflight' /\ r \in registered
  BY DEF Live, engineVars
<1> QED BY <1>1, <1>2, <1>3 DEF Moves, Live

\* Steps that leave the request's bytes where they are.
LEMMA RestCounts ==
  ASSUME TypeOK, Started, NEW r \in Req, Speaks(r), Counts(r), Moves(r), UNCHANGED engineVars,
         Rests(r) \/ Ends(r) \/ Responds(r) \/ Cancelled(r)
  PROVE  Counts(r)' /\ FlowStep(r)
<1> USE DEF Before, Taking, Streaming
<1>1. NoAck(r) /\ Same(r) /\ (Quiet(r) \/ Posts(r, AnyOp \ {"data"}))
  BY DEF Rests, Ends, Responds, Cancelled, Posts, AnyOp
<1>2. /\ DataBytes(r)' = DataBytes(r) /\ AckBytes(r)' = AckBytes(r)
      /\ unacked'[r] = unacked[r] /\ bytes'[r] = bytes[r] /\ rem'[r] = rem[r]
      /\ UNCHANGED <<registered, client, got>>
  BY <1>1, NoData, NoAckKeeps DEF Same, engineVars
<1>3. /\ pc'[r] = "new" => pc[r] = "new"
      /\ pc[r] = "new" => ~Live(r)
      /\ Live(r)' => Live(r) \/ (pc[r] = "new" /\ r \in registered)
  BY MovesLive
<1>4. \/ pc'[r] = pc[r] \/ pc'[r] = "over"
      \/ pc[r] \in Before /\ pc'[r] \in (Before \ {"new"}) \cup {"read"}
      \/ pc[r] = "slice" /\ pc'[r] = "credit" /\ unacked[r] >= Window
  BY DEF Rests, Ends, Responds, Cancelled, Goes1
<1>5. r \in registered /\ Tells(r, {"done"})' => Tells(r, {"done"}) \/ pc[r] = "read"
  <2>1. CASE Quiet(r)
    BY <2>1, QuietTells
  <2>2. ASSUME NEW op, Posts(r, {op}), op # "done" PROVE Tells(r, {"done"})' <=> Tells(r, {"done"})
    BY <2>2, PostsTells
  <2>3. ASSUME Posts(r, {"fail", "redirect"}) PROVE Posts(r, {"fail"}) \/ Posts(r, {"redirect"})
    BY <2>3 DEF Posts
  <2> QED BY <2>1, <2>2, <2>3 DEF Rests, Ends, Responds, Cancelled, Goes1
<1>6. Counts(r)'
  <2>1. Live(r)' => /\ unacked'[r] = DataBytes(r)' + AckBytes(r)'
                    /\ pc'[r] = "credit" => unacked'[r] >= Window
    BY <1>2, <1>3, <1>4 DEF Counts
  <2>2. /\ pc'[r] = "new" => /\ unacked'[r] = 0 /\ bytes'[r] = 0 /\ got'[r] = 0
                             /\ DataBytes(r)' = 0 /\ AckBytes(r)' = 0
        /\ pc'[r] \in {"slice", "credit"} => rem'[r] >= 1
        /\ pc'[r] \in Before \cup {"read"} => rem'[r] = 0
        /\ r \in registered' /\ pc'[r] # "over" => got'[r] + DataBytes(r)' + rem'[r] = bytes'[r]
        /\ client'[r] = "done" => got'[r] = bytes'[r]
    BY <1>2, <1>3, <1>4 DEF Counts
  <2>3. r \in registered' /\ Tells(r, {"done"})' => got'[r] + DataBytes(r)' = bytes'[r]
    <3>1. CASE Tells(r, {"done"})
      BY <1>2, <3>1 DEF Counts
    <3>2. CASE pc[r] = "read"
      <4>1. r \in registered => got[r] + DataBytes(r) + 0 = bytes[r]
        BY <3>2 DEF Counts
      <4>2. got[r] \in Nat /\ DataBytes(r) \in Nat
        BY CountsNat DEF TypeOK, NetTypeOK
      <4> QED BY <1>2, <4>1, <4>2
    <3> QED BY <1>2, <1>5, <3>1, <3>2
  <2> QED BY <2>1, <2>2, <2>3 DEF Counts
<1>7. FlowStep(r)
  <2>1. CASE Live(r)' /\ Live(r)
    BY <1>2, <1>3, <2>1, FlowRest
  <2>2. CASE Live(r)' /\ ~Live(r)
    BY <1>2, <1>3, <2>2, FlowOpen DEF Counts
  <2>3. CASE ~Live(r)' /\ pc'[r] # "new"
    BY <2>3, FlowClose
  <2>4. CASE ~Live(r)' /\ pc'[r] = "new"
    BY <1>3, <2>4, FlowRest
  <2> QED BY <2>1, <2>2, <2>3, <2>4
<1> QED BY <1>6, <1>7

LEMMA ReadCounts ==
  ASSUME TypeOK, Started, NEW r \in Req, Speaks(r), Counts(r), Moves(r), UNCHANGED engineVars,
         Reads(r)
  PROVE  Counts(r)' /\ FlowStep(r)
<1> USE DEF Before, Taking, Streaming, Terminal
<1>1. pc[r] = "read" /\ NoAck(r) /\ (Quiet(r) \/ Posts(r, {"fail"})) /\ unacked'[r] = unacked[r]
      /\ pc'[r] \in {"slice", "over"}
  BY DEF Reads, Goes1
<1>2. /\ DataBytes(r)' = DataBytes(r) /\ AckBytes(r)' = AckBytes(r)
      /\ UNCHANGED <<registered, client, got>>
      /\ got[r] \in Nat /\ DataBytes(r) \in Nat
  BY <1>1, NoData, NoAckKeeps, CountsNat DEF engineVars, Posts, AnyOp, TypeOK, NetTypeOK
<1>3. /\ pc'[r] = "new" => pc[r] = "new"
      /\ Live(r)' => Live(r) \/ (pc[r] = "new" /\ r \in registered)
  BY MovesLive
<1>4. r \in registered => ~Tells(r, {"done"}) /\ client[r] # "done"
  <2>1. Tells(r, {"done"}) => Tells(r, Terminal)
    BY DEF Tells, Posted
  <2> QED BY <1>1, <2>1 DEF Speaks
<1>5. client[r] # "done"
  BY <1>1 DEF Speaks
<1>6. ~(r \in registered /\ Tells(r, {"done"})')
  <2>1. CASE Quiet(r)
    BY <1>4, <2>1, QuietTells
  <2>2. CASE Posts(r, {"fail"})
    <3>1. Tells(r, {"done"})' <=> Tells(r, {"done"})
      BY <2>2, PostsTells
    <3> QED BY <1>4, <3>1
  <2> QED BY <1>1, <2>1, <2>2
<1>7. r \in registered => got[r] + DataBytes(r) + 0 = bytes[r]
  BY <1>1 DEF Counts
<1>8. pc'[r] = "slice" => rem'[r] \in Nat \ {0} /\ bytes'[r] = bytes[r] + rem'[r]
  BY <1>1 DEF Reads, Goes1
<1>9. Live(r) => unacked[r] = DataBytes(r) + AckBytes(r)
  BY DEF Counts
<1>10. Counts(r)'
  <2>1. Live(r)' => unacked'[r] = DataBytes(r)' + AckBytes(r)'
    BY <1>1, <1>2, <1>3, <1>9
  <2>2. r \in registered' /\ pc'[r] # "over" => got'[r] + DataBytes(r)' + rem'[r] = bytes'[r]
    BY <1>1, <1>2, <1>7, <1>8
  <2> QED BY <1>1, <1>2, <1>5, <1>6, <1>8, <2>1, <2>2 DEF Counts
<1>11. FlowStep(r)
  <2>1. CASE Live(r)'
    BY <1>1, <1>2, <1>3, <2>1, FlowRest
  <2>2. CASE ~Live(r)'
    BY <1>1, <2>2, FlowClose
  <2> QED BY <2>1, <2>2
<1> QED BY <1>10, <1>11

LEMMA SliceCounts ==
  ASSUME TypeOK, Started, NEW r \in Req, Speaks(r), Counts(r), Moves(r), UNCHANGED engineVars,
         Slices(r)
  PROVE  Counts(r)' /\ FlowStep(r)
<1> USE DEF Before, Taking, Streaming, Terminal
<1>1. PICK n \in 1 .. Slice :
        /\ n <= rem[r] /\ Sends(r, n) /\ unacked'[r] = unacked[r] + n /\ rem'[r] = rem[r] - n
        /\ Goes1(r, {"slice"}, IF rem[r] = n THEN {"read"} ELSE {"slice"})
  BY DEF Slices
<1>2. /\ n \in Nat /\ pc[r] = "slice" /\ NoAck(r) /\ bytes'[r] = bytes[r] /\ unacked[r] < Window
      /\ (rem[r] = n /\ pc'[r] = "read") \/ (rem[r] # n /\ pc'[r] = "slice")
  BY <1>1, BridgeAssumption DEF Slices, Goes1
<1>3. /\ DataBytes(r)' = DataBytes(r) + n /\ AckBytes(r)' = AckBytes(r)
      /\ UNCHANGED <<registered, client, got>>
      /\ got[r] \in Nat /\ DataBytes(r) \in Nat /\ AckBytes(r) \in Nat
      /\ rem[r] \in Nat /\ unacked[r] \in Int /\ bytes[r] \in Nat
  BY <1>1, <1>2, SomeData, NoAckKeeps, CountsNat DEF engineVars, TypeOK, NetTypeOK, StreamTypeOK
<1>4. Live(r)' => Live(r)
  BY <1>2, MovesLive
<1>5. client[r] # "done" /\ ~(r \in registered /\ Tells(r, {"done"})')
  <2>1. Tells(r, {"done"}) => Tells(r, Terminal)
    BY DEF Tells, Posted
  <2>2. Posts(r, {"data"})
    BY <1>1, <1>2, SignalType DEF Sends, Posts, Signal
  <2>3. Tells(r, {"done"})' => Tells(r, {"done"})
    BY <2>2, PostsTells
  <2> QED BY <1>2, <2>1, <2>3 DEF Speaks
<1>6. /\ r \in registered => got[r] + DataBytes(r) + rem[r] = bytes[r]
      /\ Live(r) => unacked[r] = DataBytes(r) + AckBytes(r)
  BY <1>2 DEF Counts
<1>7. Counts(r)'
  <2>1. Live(r)' => unacked'[r] = DataBytes(r)' + AckBytes(r)'
    BY <1>1, <1>2, <1>3, <1>4, <1>6
  <2>2. r \in registered' => got'[r] + DataBytes(r)' + rem'[r] = bytes'[r]
    BY <1>1, <1>2, <1>3, <1>6
  <2>3. /\ pc'[r] \in {"slice", "credit"} => rem'[r] >= 1
        /\ pc'[r] \in Before \cup {"read"} => rem'[r] = 0
    BY <1>1, <1>2, <1>3
  <2> QED BY <1>2, <1>3, <1>5, <2>1, <2>2, <2>3 DEF Counts
<1>8. FlowStep(r)
  <2>1. CASE Live(r)'
    BY <1>1, <1>2, <1>3, <1>4, <2>1, FlowSend
  <2>2. CASE ~Live(r)'
    BY <1>2, <2>2, FlowClose
  <2> QED BY <2>1, <2>2
<1> QED BY <1>7, <1>8

LEMMA CreditCounts ==
  ASSUME TypeOK, Started, NEW r \in Req, Speaks(r), Counts(r), Moves(r), UNCHANGED engineVars,
         Credits(r)
  PROVE  Counts(r)' /\ FlowStep(r)
<1> USE DEF Before, Taking, Streaming
<1>1. PICK n \in Nat \ {0} : Acked(r, n) /\ (r \in inflight => unacked'[r] = unacked[r] - n)
  BY DEF Credits
<1>2. AckBytes(r) = n + AckBytes(r)' /\ AckBytes(r)' \in Nat
  BY <1>1, AckedTakes
<1>3. /\ DataBytes(r)' = DataBytes(r) /\ Quiet(r)
      /\ bytes'[r] = bytes[r] /\ rem'[r] = rem[r]
      /\ UNCHANGED <<registered, client, got>>
      /\ DataBytes(r) \in Nat /\ unacked[r] \in Int
  BY NoData, CountsNat DEF Credits, engineVars, TypeOK, StreamTypeOK
<1>4. pc[r] # "new"
  BY <1>2 DEF Counts
<1>5. Live(r)' => Live(r) /\ r \in inflight
  BY <1>4, MovesLive DEF Live
<1>6. Tells(r, {"done"})' <=> Tells(r, {"done"})
  BY <1>3, QuietTells
<1>7. Live(r) => unacked[r] = DataBytes(r) + AckBytes(r)
  BY DEF Counts
<1>8. \/ pc'[r] = pc[r] /\ (pc[r] = "credit" /\ r \in inflight => unacked'[r] >= Window)
      \/ pc[r] = "credit" /\ pc'[r] = "slice"
  BY DEF Credits, Goes1
<1>9. Counts(r)'
  <2>1. Live(r)' => /\ unacked'[r] = DataBytes(r)' + AckBytes(r)'
                    /\ pc'[r] = "credit" => unacked'[r] >= Window
    BY <1>1, <1>2, <1>3, <1>5, <1>7, <1>8
  <2> QED BY <1>3, <1>4, <1>6, <1>8, <2>1 DEF Counts
<1>10. FlowStep(r)
  <2>1. CASE Live(r)'
    <3>1. n \in 1 .. AckBytes(r) /\ AckBytes(r)' = AckBytes(r) - n
      BY <1>2
    <3> QED BY <1>1, <1>3, <1>5, <2>1, <3>1, FlowSettle
  <2>2. CASE ~Live(r)'
    BY <1>4, <1>8, <2>2, FlowClose
  <2> QED BY <2>1, <2>2
<1> QED BY <1>9, <1>10

\* Whatever a page or the browser does, the bytes of every request add up, and its
\* stream takes a step of the credit protocol.
LEMMA MovesCount ==
  ASSUME TypeOK, Started, NEW r \in Req, Speaks(r), Counts(r), Moves(r), UNCHANGED engineVars
  PROVE  Counts(r)' /\ FlowStep(r)
BY RestCounts, ReadCounts, SliceCounts, CreditCounts DEF Moves

-----------------------------------------------------------------------------
(* The tasks of the pages and of the browser.  Each is about one request,  *)
(* or about none.                                                          *)

\* What is on its way goes to the tab of its request; data and acks are of some
\* bytes, and only a client that was cancelled has a cancel on its way.
Told ==
  \A t \in Tab : \A i \in DOMAIN toEngine[t] : LET m == toEngine[t][i] IN
    TabOf[m.id] = t /\ (m.op = "data" => m.len >= 1)
Asked ==
  \A t \in Tab : \A i \in DOMAIN toBridge[t] : LET m == toBridge[t][i] IN
    /\ TabOf[m.id] = t
    /\ m.op = "ack" => m.len >= 1
    /\ m.op = "cancel" => client[m.id] = "cancelled"

\* The page posts m about x to the engine.
PostsAbout(x) ==
  \E m \in BridgeMsg : /\ m.id = x /\ (m.op = "data" => m.len >= 1)
                       /\ PostToEngine(TabOf[x], m)

\* A task about x alone: other requests stay where they are.
Concerns(x) ==
  /\ \A r \in Req \ {x} : pc'[r] = pc[r] /\ Same(r) /\ (r \in inflight' => r \in inflight)
  /\ UNCHANGED toEngine \/ PostsAbout(x)
  /\ UNCHANGED toBridge \/ \E op : Receives(TabOf[x], op, x)

\* A task about no request.
ConcernsNone ==
  UNCHANGED <<pc, inflight, unacked, bytes, rem, toEngine, toBridge>>

LEMMA NoneMoves ==
  ASSUME ConcernsNone
  PROVE  \A r \in Req : Moves(r)
<1> SUFFICES ASSUME NEW r \in Req PROVE Moves(r)
  OBVIOUS
<1>1. Quiet(r) /\ NoAck(r) /\ Same(r) /\ pc'[r] = pc[r] /\ inflight' = inflight
  BY DEF ConcernsNone, Quiet, NoAck, Same
<1> QED BY <1>1 DEF Moves, Rests

LEMMA OthersRest ==
  ASSUME TypeOK, NEW x \in Req, Concerns(x), Moves(x)
  PROVE  \A r \in Req : Moves(r)
<1> SUFFICES ASSUME NEW r \in Req, r # x PROVE Moves(r)
  OBVIOUS
<1>1. Quiet(r)
  <2>1. CASE UNCHANGED toEngine
    BY <2>1 DEF Quiet
  <2>2. CASE PostsAbout(x)
    <3>1. PICK m \in BridgeMsg : m.id = x /\ PostToEngine(TabOf[x], m)
      BY <2>2 DEF PostsAbout
    <3> QED BY <3>1, RequestsAssumption DEF Quiet, PostToEngine, TypeOK, NetTypeOK
  <2> QED BY <2>1, <2>2 DEF Concerns
<1>2. NoAck(r)
  <2>1. CASE UNCHANGED toBridge
    BY <2>1 DEF NoAck
  <2>2. CASE \E op : Receives(TabOf[x], op, x)
    BY <2>2, RequestsAssumption DEF NoAck, Receives, TypeOK, NetTypeOK
  <2> QED BY <2>1, <2>2 DEF Concerns
<1> QED BY <1>1, <1>2 DEF Concerns, Moves, Rests

\* What the fragments say of the request they are about.
LEMMA PostIsAbout ==
  ASSUME TypeOK, NEW x \in Req, NEW m \in BridgeMsg, m.id = x, m.op = "data" => m.len >= 1,
         PostToEngine(TabOf[x], m)
  PROVE  PostsAbout(x) /\ Posts(x, {m.op})
BY RequestsAssumption DEF PostsAbout, Posts, PostToEngine, TypeOK, NetTypeOK

LEMMA SignalIsAbout ==
  ASSUME TypeOK, NEW x \in Req, NEW op \in {"response", "done", "redirect"},
         PostToEngine(TabOf[x], Signal(op, x, 0))
  PROVE  PostsAbout(x) /\ Posts(x, {op})
<1> DEFINE m == Signal(op, x, 0)
<1>1. m \in BridgeMsg /\ m.id = x /\ m.op = op
  BY SignalType DEF Signal
<1> HIDE DEF m
<1>2. PostToEngine(TabOf[x], m)
  BY DEF m
<1> QED BY <1>1, <1>2, PostIsAbout

LEMMA FailureIsAbout ==
  ASSUME TypeOK, NEW x \in Req, NEW k \in FailKind, PostToEngine(TabOf[x], Failure(x, k))
  PROVE  PostsAbout(x) /\ Posts(x, {"fail"})
<1> DEFINE m == Failure(x, k)
<1>1. m \in BridgeMsg /\ m.id = x /\ m.op = "fail"
  BY SignalType DEF Failure
<1> HIDE DEF m
<1>2. PostToEngine(TabOf[x], m)
  BY DEF m
<1> QED BY <1>1, <1>2, PostIsAbout

LEMMA FailIsAbout ==
  ASSUME TypeOK, NEW x \in Req, NEW k \in FailKind, Fail(x, k)
  PROVE  /\ UNCHANGED toEngine \/ PostsAbout(x)
         /\ Quiet(x) \/ Posts(x, {"fail"})
         /\ inflight' \subseteq inflight
<1>1. inflight' \subseteq inflight
  BY DEF Fail, Finish
<1>2. UNCHANGED toEngine => Quiet(x)
  BY DEF Quiet
<1> QED BY <1>1, <1>2, FailureIsAbout DEF Fail

LEMMA GoesAlone ==
  ASSUME TypeOK, NEW x \in Req, NEW to, Goes(x, to)
  PROVE  pc'[x] = to /\ \A r \in Req \ {x} : pc'[r] = pc[r]
BY DEF TypeOK, ProgressTypeOK, Goes

LEMMA UntouchedNoAck ==
  ASSUME NEW x \in Req
  PROVE  /\ UNCHANGED toBridge => NoAck(x)
         /\ UNCHANGED <<unacked, bytes, rem>> => \A r \in Req : Same(r)
BY DEF NoAck, Same

LEMMA ReceivesNoAck ==
  ASSUME TypeOK, NEW x \in Req, NEW op, op # "ack", Receives(TabOf[x], op, x)
  PROVE  NoAck(x)
BY RequestsAssumption DEF NoAck, Receives, TypeOK, NetTypeOK

\* The messages of the engine are in the channel of their request's tab.
LEMMA ReceivesOwn ==
  ASSUME TypeOK, Asked, NEW t \in Tab, NEW x \in Req, NEW op, Receives(t, op, x)
  PROVE  /\ TabOf[x] = t
         /\ Head(toBridge[t]) \in EngineMsg
         /\ op = "ack" => Head(toBridge[t]).len >= 1
         /\ op = "cancel" => client[x] = "cancelled"
<1>1. toBridge[t] \in Seq(EngineMsg) /\ toBridge[t] # <<>>
  BY DEF Receives, TypeOK, NetTypeOK
<1>2. 1 \in DOMAIN toBridge[t] /\ Head(toBridge[t]) = toBridge[t][1]
      /\ toBridge[t][1] \in EngineMsg
  BY <1>1
<1> QED BY <1>2 DEF Asked, Receives

\* A request for which take() has an answer leaves, or goes on to its body.
LEMMA ResumeConcerns ==
  ASSUME TypeOK, NEW x \in Req, pc[x] \in Before, NEW resolved, NEW seen,
         ResumeTake(x, resolved, seen), UNCHANGED toBridge
  PROVE  Concerns(x) /\ Moves(x)
<1>1. /\ UNCHANGED <<unacked, bytes, rem>>
      /\ NoAck(x) /\ \A r \in Req : Same(r)
  BY UntouchedNoAck DEF ResumeTake
<1>2. CASE PostToEngine(TabOf[x], Signal("redirect", x, 0)) /\ Finish(x) /\ Goes(x, "over")
  <2>1. inflight' \subseteq inflight
    BY <1>2 DEF Finish
  <2> QED BY <1>1, <1>2, <2>1, SignalIsAbout, GoesAlone DEF Concerns, Moves, Ends, Goes1
<1>3. CASE Fail(x, "network") /\ Goes(x, "over")
  <2>1. /\ UNCHANGED toEngine \/ PostsAbout(x)
        /\ Quiet(x) \/ Posts(x, {"fail"})
        /\ inflight' \subseteq inflight
    BY <1>3, FailIsAbout DEF FailKind
  <2> QED BY <1>1, <1>3, <2>1, GoesAlone DEF Concerns, Moves, Ends, Rests, Goes1
<1>4. CASE Goes(x, "over") /\ UNCHANGED <<toEngine, inflight>>
  BY <1>1, <1>4, GoesAlone DEF Concerns, Moves, Rests, Goes1, Quiet
<1>5. CASE Respond(x)
  <2>1. PostToEngine(TabOf[x], Signal("response", x, 0)) /\ Goes(x, "read") /\ UNCHANGED inflight
    BY <1>5 DEF Respond
  <2> QED BY <1>1, <2>1, SignalIsAbout, GoesAlone DEF Concerns, Moves, Responds, Goes1
<1> QED BY <1>2, <1>3, <1>4, <1>5 DEF ResumeTake

LEMMA BeginConcerns ==
  ASSUME TypeOK, BeginsOnce, NEW t \in Tab, NEW x \in Req, Refuse(t, x) \/ Begin(t, x)
  PROVE  Concerns(x) /\ Moves(x) /\ pc[x] = "new" /\ TabOf[x] = t
<1>1. Receives(TabOf[x], "begin", x) /\ TabOf[x] = t /\ pc[x] = "new"
  BY BeginGoes, BeginIsFirst
<1>2. NoAck(x) /\ \A r \in Req : Same(r)
  BY <1>1, ReceivesNoAck DEF Refuse, Begin, streamVars, Same
<1>3. CASE Refuse(t, x)
  <2>1. \E k \in FailKind : PostToEngine(TabOf[x], Failure(x, k))
    BY <1>1, <1>3 DEF Refuse, FailKind
  <2>2. PostsAbout(x) /\ Posts(x, {"fail"})
    BY <2>1, FailureIsAbout
  <2>3. Goes(x, "over") /\ inflight' = inflight
    BY <1>3 DEF Refuse
  <2> QED BY <1>1, <1>2, <2>2, <2>3, GoesAlone DEF Concerns, Moves, Ends, Goes1, Before
<1>4. CASE Begin(t, x)
  <2>1. /\ inflight' = inflight \cup {x} /\ UNCHANGED toEngine
        /\ Goes(x, "base") \/ Goes(x, "add")
    BY <1>4 DEF Begin
  <2>2. Quiet(x) /\ pc'[x] \in {"base", "add"} /\ \A r \in Req \ {x} : pc'[r] = pc[r]
    BY <2>1, GoesAlone DEF Quiet
  <2> QED BY <1>1, <1>2, <2>1, <2>2 DEF Concerns, Moves, Rests, Goes1, Before
<1> QED BY <1>1, <1>3, <1>4

LEMMA BaseConcerns ==
  ASSUME TypeOK, NEW x \in Req, BaseInstalled(x) \/ BaseRejected(x)
  PROVE  Concerns(x) /\ Moves(x) /\ pc[x] = "base"
<1>1. pc[x] = "base" /\ UNCHANGED toBridge /\ UNCHANGED <<unacked, bytes, rem>>
  BY DEF BaseInstalled, BaseRejected, Due, channelVars, streamVars
<1>2. NoAck(x) /\ \A r \in Req : Same(r)
  BY <1>1, UntouchedNoAck
<1>3. CASE BaseInstalled(x)
  <2>1. UNCHANGED <<toEngine, inflight>> /\ (Goes(x, "add") \/ Goes(x, "fetch"))
    BY <1>3 DEF BaseInstalled, StartFetch, channelVars
  <2>2. Quiet(x) /\ pc'[x] \in {"add", "fetch"} /\ \A r \in Req \ {x} : pc'[r] = pc[r]
    BY <2>1, GoesAlone DEF Quiet
  <2> QED BY <1>1, <1>2, <2>1, <2>2 DEF Concerns, Moves, Rests, Goes1, Before
<1>4. CASE BaseRejected(x)
  <2>1. Fail(x, "protocol") /\ Goes(x, "over")
    BY <1>4 DEF BaseRejected
  <2>2. /\ UNCHANGED toEngine \/ PostsAbout(x)
        /\ Quiet(x) \/ Posts(x, {"fail"})
        /\ inflight' \subseteq inflight
    BY <2>1, FailIsAbout DEF FailKind
  <2> QED BY <1>1, <1>2, <2>1, <2>2, GoesAlone DEF Concerns, Moves, Ends, Rests, Goes1, Before
<1> QED BY <1>1, <1>3, <1>4

LEMMA BrowserMoves ==
  ASSUME TypeOK, AddsAreOwn, NEW t \in Tab, BrowserTask(t)
  PROVE  \/ ConcernsNone
         \/ \E x \in Req : Concerns(x) /\ Moves(x) /\ pc[x] \notin Taking \cup {"slice"}
<1>1. CASE DnrBase(t) \/ DnrRemove(t)
  BY <1>1 DEF DnrBase, DnrRemove, ConcernsNone, progressVars, streamVars, channelVars
<1> DEFINE x == NextOp(t).rule.req
<1>2. ASSUME DnrAdd(t) \/ DnrReject(t) PROVE x \in Req /\ TabOf[x] = t
  <2>1. dnrOps[t] \in Seq(DnrOp) /\ dnrOps[t] # <<>> /\ NextOp(t).op = "add"
    BY <1>2 DEF DnrAdd, DnrReject, Executes, TypeOK, RulesTypeOK
  <2>2. 1 \in DOMAIN dnrOps[t] /\ NextOp(t) = dnrOps[t][1]
    BY <2>1 DEF NextOp
  <2>3. x \in Req
    BY <1>2, AddedRuleType DEF DnrAdd, DnrReject, TypeOK
  <2> QED BY <2>1, <2>2, <2>3 DEF AddsAreOwn
<1>3. CASE DnrAdd(t)
  <2>1. CASE pc[x] = "add"
    <3>1. /\ Goes(x, "fetch")
          /\ UNCHANGED <<inflight, toEngine, toBridge, unacked, bytes, rem>>
      BY <1>3, <2>1 DEF DnrAdd, StartFetch, streamVars, channelVars
    <3> HIDE DEF x
    <3>2. NoAck(x) /\ Quiet(x) /\ \A r \in Req : Same(r)
      BY <3>1, <1>2, <1>3, UntouchedNoAck DEF Quiet
    <3>3. Concerns(x) /\ Moves(x)
      BY <1>2, <1>3, <2>1, <3>1, <3>2, GoesAlone DEF Concerns, Moves, Rests, Goes1, Before
    <3> QED BY <1>2, <1>3, <2>1, <3>3 DEF Taking
  <2>2. CASE pc[x] # "add"
    BY <1>3, <2>2 DEF DnrAdd, ConcernsNone, streamVars, channelVars
  <2> QED BY <2>1, <2>2
<1>4. CASE DnrReject(t)
  <2>0. UNCHANGED <<toBridge, unacked, bytes, rem>>
        /\ pc' = [pc EXCEPT ![x] = IF @ = "add" THEN "over" ELSE @]
    BY <1>4 DEF DnrReject, streamVars
  <2>1. CASE pc[x] = "add"
    <3>1. \/ inflight' = inflight \ {x} /\ PostToEngine(t, Failure(x, "protocol"))
          \/ UNCHANGED <<inflight, toEngine>>
      BY <1>4, <2>1 DEF DnrReject
    <3> HIDE DEF x
    <3>2. pc'[x] = "over" /\ \A r \in Req \ {x} : pc'[r] = pc[r]
      BY <1>2, <1>4, <2>0, <2>1 DEF TypeOK, ProgressTypeOK
    <3>3. NoAck(x) /\ \A r \in Req : Same(r)
      BY <1>2, <1>4, <2>0, UntouchedNoAck
    <3>4. \/ UNCHANGED toEngine /\ Quiet(x)
          \/ PostsAbout(x) /\ Posts(x, {"fail"})
      <4>1. CASE PostToEngine(t, Failure(x, "protocol"))
        <5>1. "protocol" \in FailKind /\ PostToEngine(TabOf[x], Failure(x, "protocol"))
          BY <1>2, <1>4, <4>1 DEF FailKind
        <5> QED BY <1>2, <1>4, <5>1, FailureIsAbout
      <4>2. CASE UNCHANGED toEngine
        BY <4>2 DEF Quiet
      <4> QED BY <3>1, <4>1, <4>2
    <3>5. Concerns(x) /\ Moves(x)
      BY <1>2, <1>4, <2>0, <2>1, <3>1, <3>2, <3>3, <3>4
         DEF Concerns, Moves, Rests, Ends, Goes1, Before
    <3> QED BY <1>2, <1>4, <2>1, <3>5 DEF Taking
  <2>2. CASE pc[x] # "add"
    <3>1. UNCHANGED <<inflight, toEngine>>
      BY <1>4, <2>2 DEF DnrReject
    <3> HIDE DEF x
    <3>2. UNCHANGED pc
      BY <1>2, <1>4, <2>0, <2>2 DEF TypeOK, ProgressTypeOK
    <3> QED BY <2>0, <3>1, <3>2 DEF ConcernsNone
  <2> QED BY <2>1, <2>2
<1> QED BY <1>1, <1>3, <1>4 DEF BrowserTask

LEMMA NetworkConcerns ==
  ASSUME NEW x \in Req, Network(x)
  PROVE  ConcernsNone
BY DEF Network, NetSend, NetAnswer, NetDrop, ConcernsNone, progressVars, streamVars, channelVars

LEMMA FetchConcerns ==
  ASSUME TypeOK, NEW x \in Req, FetchSettles(x) \/ FetchAborted(x)
  PROVE  Concerns(x) /\ Moves(x) /\ pc[x] = "fetch"
<1>1. pc[x] = "fetch" /\ UNCHANGED toBridge /\ pc[x] \in Before
  BY DEF FetchSettles, FetchAborted, channelVars, Before
<1>2. ASSUME NEW to \in {"takeOk", "takeErr", "over"}, Goes(x, to),
             UNCHANGED <<inflight, unacked, bytes, rem, toEngine>>
      PROVE  Concerns(x) /\ Moves(x)
  <2>1. NoAck(x) /\ Quiet(x) /\ \A r \in Req : Same(r)
    BY <1>1, <1>2, UntouchedNoAck DEF Quiet
  <2> QED BY <1>1, <1>2, <2>1, GoesAlone DEF Concerns, Moves, Rests, Goes1, Before, Taking
<1>3. CASE FetchAborted(x)
  BY <1>2, <1>3 DEF FetchAborted, streamVars, channelVars
<1>4. CASE FetchSettles(x)
  <2>1. CASE \E resolved, seen : ResumeTake(x, resolved, seen)
    BY <1>1, <2>1, ResumeConcerns
  <2>2. ASSUME NEW to \in {"takeOk", "takeErr"}, Goes(x, to),
               UNCHANGED <<inflight, streamVars, toEngine>>
        PROVE  Concerns(x) /\ Moves(x)
    BY <1>2, <2>2 DEF streamVars
  <2> QED BY <1>4, <2>1, <2>2 DEF FetchSettles
<1> QED BY <1>1, <1>3, <1>4

\* The oldest waiter of a URL awaits a take().
LEMMA OldestWaits ==
  ASSUME TypeOK, WaitersWait, NEW t \in Tab, NEW u \in Url, waiters[t][u] # <<>>,
         Head(waiters[t][u]) # Nobody
  PROVE  Head(waiters[t][u]) \in Req /\ pc[Head(waiters[t][u])] \in Taking
<1>1. waiters[t][u] \in Seq(Req \cup {Nobody})
  BY DEF TypeOK, CaptureTypeOK
<1>2. Head(waiters[t][u]) = waiters[t][u][1] /\ 1 \in DOMAIN waiters[t][u]
  BY <1>1
<1>3. Head(waiters[t][u]) \in Req
  BY <1>1, HeadTailProperties
<1> QED BY <1>2, <1>3 DEF WaitersWait

\* A task of the capture: the oldest waiter of some URL leaves and its request goes
\* on, or nobody does.
LEMMA CaptureMoves ==
  ASSUME TypeOK, WaitersWait, NEW t \in Tab, EntryArrives(t) \/ \E u \in Url : TakeTimesOut(t, u)
  PROVE  \/ /\ ConcernsNone
            /\ \/ UNCHANGED waiters
               \/ \E u \in Url : /\ waiters[t][u] # <<>> /\ Head(waiters[t][u]) = Nobody
                                 /\ waiters' = [waiters EXCEPT ![t][u] = Tail(@)]
         \/ \E u \in Url :
              /\ waiters[t][u] # <<>> /\ Head(waiters[t][u]) \in Req
              /\ pc[Head(waiters[t][u])] \in Taking
              /\ waiters' = [waiters EXCEPT ![t][u] = Tail(@)]
              /\ Concerns(Head(waiters[t][u])) /\ Moves(Head(waiters[t][u]))
<1>0. UNCHANGED toBridge
  BY DEF EntryArrives, TakeTimesOut
<1>1. ASSUME UNCHANGED <<progressVars, streamVars, toEngine>> PROVE ConcernsNone
  BY <1>0, <1>1 DEF ConcernsNone, progressVars, streamVars
<1>2. ASSUME NEW u \in Url, waiters[t][u] # <<>>, Head(waiters[t][u]) # Nobody,
             NEW resolved, NEW seen, ResumeTake(Head(waiters[t][u]), resolved, seen)
      PROVE  /\ Head(waiters[t][u]) \in Req /\ pc[Head(waiters[t][u])] \in Taking
             /\ Concerns(Head(waiters[t][u])) /\ Moves(Head(waiters[t][u]))
  BY <1>0, <1>2, OldestWaits, ResumeConcerns DEF Before
<1>3. CASE EntryArrives(t)
  <2> DEFINE e == Head(events[t])
             u == UrlOf[e.req]
             w == Head(waiters[t][u])
  <2>1. e \in Entry
    BY <1>3, HeadTailProperties DEF EntryArrives, TypeOK, BrowserTypeOK
  <2>2. u \in Url
    BY <2>1, RequestsAssumption DEF Entry
  <2>3. \/ waiters[t][u] # <<>> /\ waiters' = [waiters EXCEPT ![t][u] = Tail(@)]
        \/ waiters[t][u] = <<>> /\ UNCHANGED waiters
    BY <1>3 DEF EntryArrives, Push
  <2>4. IF waiters[t][u] # <<>> /\ w # Nobody
          THEN ResumeTake(w, pc[w] = "takeOk", e.redirect)
          ELSE UNCHANGED <<progressVars, streamVars, toEngine>>
    BY <1>3 DEF EntryArrives
  <2> HIDE DEF u, e
  <2> QED BY <1>1, <1>2, <2>2, <2>3, <2>4
<1>4. ASSUME NEW u \in Url, TakeTimesOut(t, u)
      PROVE  \/ /\ ConcernsNone /\ waiters[t][u] # <<>> /\ Head(waiters[t][u]) = Nobody
                /\ waiters' = [waiters EXCEPT ![t][u] = Tail(@)]
             \/ /\ waiters[t][u] # <<>> /\ Head(waiters[t][u]) \in Req
                /\ pc[Head(waiters[t][u])] \in Taking
                /\ waiters' = [waiters EXCEPT ![t][u] = Tail(@)]
                /\ Concerns(Head(waiters[t][u])) /\ Moves(Head(waiters[t][u]))
  <2> DEFINE w == Head(waiters[t][u])
  <2>1. waiters[t][u] # <<>> /\ waiters' = [waiters EXCEPT ![t][u] = Tail(@)]
    BY <1>4 DEF TakeTimesOut, GiveUp
  <2>2. IF w # Nobody THEN ResumeTake(w, pc[w] = "takeOk", FALSE)
        ELSE UNCHANGED <<progressVars, streamVars, toEngine>>
    BY <1>4 DEF TakeTimesOut
  <2> QED BY <1>1, <1>2, <2>1, <2>2
<1> QED BY <1>3, <1>4

LEMMA ReadConcerns ==
  ASSUME TypeOK, NEW x \in Req, ReadChunk(x) \/ ReadEnd(x) \/ ReadFails(x)
  PROVE  Concerns(x) /\ Moves(x) /\ pc[x] = "read"
<1>1. pc[x] = "read" /\ UNCHANGED toBridge /\ NoAck(x) /\ unacked' = unacked
      /\ x \in Req
  BY UntouchedNoAck DEF ReadChunk, ReadEnd, ReadFails
<1>2. CASE ReadEnd(x)
  <2>1. PostsAbout(x) /\ Posts(x, {"done"})
    BY <1>2, SignalIsAbout DEF ReadEnd
  <2>2. Goes(x, "over") /\ inflight' \subseteq inflight /\ \A r \in Req : Same(r)
    BY <1>2 DEF ReadEnd, Finish, Same
  <2> QED BY <1>1, <2>1, <2>2, GoesAlone DEF Concerns, Moves, Ends, Goes1
<1>3. CASE ReadFails(x)
  <2>1. \E k \in FailKind : Fail(x, k)
    BY <1>3 DEF ReadFails, FailKind
  <2>2. /\ UNCHANGED toEngine \/ PostsAbout(x)
        /\ Quiet(x) \/ Posts(x, {"fail"})
        /\ inflight' \subseteq inflight
    BY <2>1, FailIsAbout
  <2>3. Goes(x, "over") /\ \A r \in Req : Same(r)
    BY <1>3 DEF ReadFails, Same
  <2> QED BY <1>1, <2>2, <2>3, GoesAlone DEF Concerns, Moves, Ends, Rests, Goes1, Streaming
<1>4. CASE ReadChunk(x)
  <2>1. PICK n \in 1 .. MaxChunk :
          /\ bytes' = [bytes EXCEPT ![x] = @ + n]
          /\ \/ Fail(x, "too-large") /\ Goes(x, "over") /\ UNCHANGED rem
             \/ /\ rem' = [rem EXCEPT ![x] = n] /\ Goes(x, "slice")
                /\ UNCHANGED <<inflight, toEngine>>
    BY <1>4 DEF ReadChunk
  <2>2. n \in Nat \ {0} /\ bytes'[x] = bytes[x] + n
        /\ \A r \in Req \ {x} : bytes'[r] = bytes[r]
    BY <2>1, BridgeAssumption DEF TypeOK, StreamTypeOK
  <2>3. CASE Fail(x, "too-large") /\ Goes(x, "over") /\ UNCHANGED rem
    <3>1. /\ UNCHANGED toEngine \/ PostsAbout(x)
          /\ Quiet(x) \/ Posts(x, {"fail"})
          /\ inflight' \subseteq inflight
      BY <2>3, FailIsAbout DEF FailKind
    <3> QED BY <1>1, <2>2, <2>3, <3>1, GoesAlone DEF Concerns, Moves, Reads, Goes1, Same
  <2>4. CASE rem' = [rem EXCEPT ![x] = n] /\ Goes(x, "slice") /\ UNCHANGED <<inflight, toEngine>>
    <3>1. rem'[x] = n /\ \A r \in Req \ {x} : rem'[r] = rem[r]
      BY <2>4 DEF TypeOK, StreamTypeOK
    <3>2. Quiet(x)
      BY <2>4 DEF Quiet
    <3> QED BY <1>1, <2>2, <2>4, <3>1, <3>2, GoesAlone DEF Concerns, Moves, Reads, Goes1, Same
  <2> QED BY <2>1, <2>3, <2>4
<1> QED BY <1>1, <1>2, <1>3, <1>4

LEMMA IdleConcerns ==
  ASSUME NEW x \in Req, IdleTimerFires(x)
  PROVE  ConcernsNone
BY DEF IdleTimerFires, ConcernsNone, channelVars

LEMMA SliceConcerns ==
  ASSUME TypeOK, RunnersSlice, NEW x \in Req, Counts(x), DeliverSlice(x) \/ AwaitCredit(x)
  PROVE  Concerns(x) /\ Moves(x) /\ pc[x] = "slice"
<1>1. pc[x] = "slice" /\ UNCHANGED toBridge /\ NoAck(x)
  BY RequestsAssumption, UntouchedNoAck DEF DeliverSlice, AwaitCredit, RunnersSlice, channelVars
<1>2. CASE AwaitCredit(x)
  <2>1. /\ Goes(x, "credit") /\ unacked[x] >= Window
        /\ UNCHANGED <<inflight, toEngine>> /\ \A r \in Req : Same(r)
    BY <1>2 DEF AwaitCredit, channelVars, Same
  <2>2. Quiet(x)
    BY <2>1 DEF Quiet
  <2> QED BY <1>1, <2>1, <2>2, GoesAlone DEF Concerns, Moves, Rests, Goes1
<1>3. CASE DeliverSlice(x)
  <2> DEFINE n == IF rem[x] < Slice THEN rem[x] ELSE Slice
             m == Signal("data", x, n)
  <2>1. rem[x] \in Nat /\ rem[x] >= 1 /\ unacked[x] \in Int
    BY <1>1 DEF Counts, TypeOK, StreamTypeOK
  <2>2. n \in 1 .. Slice /\ n <= rem[x] /\ n \in Nat /\ n >= 1
    BY <2>1, BridgeAssumption
  <2>3. /\ PostToEngine(TabOf[x], m)
        /\ unacked[x] < Window /\ UNCHANGED <<inflight, bytes>>
        /\ unacked' = [unacked EXCEPT ![x] = @ + n] /\ rem' = [rem EXCEPT ![x] = @ - n]
        /\ Goes(x, IF rem[x] = n THEN "read" ELSE "slice")
    BY <1>3 DEF DeliverSlice
  <2>4. m \in BridgeMsg /\ m.id = x /\ m.op = "data" /\ m.len = n
    BY <2>2, SignalType DEF Signal
  <2>5. PostsAbout(x)
    <3> HIDE DEF m, n
    <3> QED BY <2>2, <2>3, <2>4, PostIsAbout
  <2>6. Sends(x, n)
    BY <2>3, RequestsAssumption DEF Sends, PostToEngine, TypeOK, NetTypeOK
  <2> HIDE DEF m, n
  <2>7. /\ unacked'[x] = unacked[x] + n /\ rem'[x] = rem[x] - n
        /\ \A r \in Req \ {x} : Same(r)
    BY <2>3 DEF Same, TypeOK, StreamTypeOK
  <2>8. pc'[x] = (IF rem[x] = n THEN "read" ELSE "slice") /\ \A r \in Req \ {x} : pc'[r] = pc[r]
    BY <2>3, GoesAlone
  <2>9. Slices(x)
    BY <1>1, <2>2, <2>3, <2>6, <2>7, <2>8 DEF Slices, Goes1
  <2> QED BY <1>1, <2>3, <2>5, <2>7, <2>8, <2>9 DEF Concerns, Moves
<1> QED BY <1>1, <1>2, <1>3

LEMMA ReceiveConcerns ==
  ASSUME TypeOK, Asked, NEW t \in Tab, NEW x \in Req, ReceiveCancel(t, x) \/ ReceiveAck(t, x)
  PROVE  Concerns(x) /\ Moves(x) /\ TabOf[x] = t /\ (pc'[x] = pc[x] \/ pc[x] = "credit")
<1>1. CASE ReceiveCancel(t, x)
  <2>1. Receives(t, "cancel", x) /\ Fail(x, "cancelled") /\ UNCHANGED <<unacked, bytes, rem>>
        /\ pc' = [pc EXCEPT ![x] = IF @ = "credit" THEN "over" ELSE @]
    BY <1>1 DEF ReceiveCancel
  <2>2. TabOf[x] = t /\ client[x] = "cancelled"
    BY <2>1, ReceivesOwn
  <2>3. /\ UNCHANGED toEngine \/ PostsAbout(x)
        /\ Quiet(x) \/ Posts(x, {"fail"})
        /\ inflight' \subseteq inflight
    BY <2>1, FailIsAbout DEF FailKind
  <2>4. Posts(x, {"fail"}) => Posts(x, {"fail", "redirect"})
    BY DEF Posts
  <2>5. NoAck(x) /\ Receives(TabOf[x], "cancel", x)
    BY <2>1, <2>2, ReceivesNoAck
  <2>6. /\ pc'[x] = (IF pc[x] = "credit" THEN "over" ELSE pc[x])
        /\ \A r \in Req \ {x} : pc'[r] = pc[r]
    BY <2>1 DEF TypeOK, ProgressTypeOK
  <2>7. \A r \in Req : Same(r)
    BY <2>1 DEF Same
  <2>8. Cancelled(x)
    BY <2>2, <2>3, <2>4, <2>5, <2>6, <2>7 DEF Cancelled
  <2> QED BY <2>2, <2>3, <2>5, <2>6, <2>7, <2>8 DEF Concerns, Moves
<1>2. CASE ReceiveAck(t, x)
  <2> DEFINE n == Head(toBridge[t]).len
             left == unacked[x] - n
             wakes == x \in inflight /\ pc[x] = "credit" /\ left < Window
  <2>1. /\ Receives(t, "ack", x) /\ UNCHANGED <<inflight, bytes, rem, toEngine>>
        /\ unacked' = [unacked EXCEPT ![x] = IF x \in inflight THEN left ELSE @]
        /\ pc' = [pc EXCEPT ![x] = IF wakes THEN "slice" ELSE @]
    BY <1>2 DEF ReceiveAck
  <2>2. TabOf[x] = t /\ n \in Nat /\ n >= 1
    BY <2>1, ReceivesOwn DEF EngineMsg
  <2>3. Acked(x, n) /\ Receives(TabOf[x], "ack", x)
    BY <2>1, <2>2 DEF Acked, Receives, TypeOK, NetTypeOK
  <2> HIDE DEF n
  <2>4. /\ x \in inflight => unacked'[x] = unacked[x] - n
        /\ unacked[x] \in Int
        /\ \A r \in Req \ {x} : unacked'[r] = unacked[r]
        /\ pc'[x] = (IF wakes THEN "slice" ELSE pc[x])
        /\ \A r \in Req \ {x} : pc'[r] = pc[r]
    BY <2>1 DEF TypeOK, ProgressTypeOK, StreamTypeOK
  <2>5. Quiet(x) /\ \A r \in Req \ {x} : Same(r)
    BY <2>1, <2>4 DEF Same, Quiet
  <2>6. Window \in Int
    BY BridgeAssumption
  <2>7. pc'[x] = pc[x] => (pc[x] = "credit" /\ x \in inflight => unacked'[x] >= Window)
    BY <2>2, <2>4, <2>6
  <2>8. pc'[x] = pc[x] \/ (pc[x] = "credit" /\ pc'[x] = "slice")
    BY <2>4
  <2>9. Credits(x)
    BY <2>1, <2>2, <2>3, <2>4, <2>5, <2>7, <2>8 DEF Credits, Goes1
  <2> QED BY <2>1, <2>2, <2>3, <2>4, <2>5, <2>8, <2>9 DEF Concerns, Moves
<1> QED BY <1>1, <1>2

LEMMA OpenConcerns ==
  ASSUME NEW t \in Tab, OpenTab(t)
  PROVE  ConcernsNone
BY DEF OpenTab, ConcernsNone, progressVars, streamVars, channelVars

-----------------------------------------------------------------------------
(* The inductive invariant of the streams, on top of TypeOK and RuleInv.   *)

\* Nothing is on its way to a client that has asked for nothing.
Unheard == \A r \in Req : client[r] = "new" => ~Tells(r, AnyOp)

StreamInv ==
  /\ WaitersWait /\ RunnersSlice /\ Told /\ Asked /\ Known /\ Unheard
  /\ \A r \in Req : Speaks(r) /\ Counts(r)

\* The steps of the pages and of the browser; the others are the engine's, and a
\* tab's end.
Task ==
  \/ \E t \in Tab : PageTask(t) \/ BrowserTask(t) \/ OpenTab(t)
  \/ \E r \in Req : RequestTask(r) \/ Network(r)

LEMMA TaskConcerns ==
  ASSUME TypeOK, BeginsOnce, AddsAreOwn, StreamInv, Task
  PROVE  /\ UNCHANGED engineVars
         /\ ConcernsNone \/ \E x \in Req : Concerns(x) /\ Moves(x)
<1>1. UNCHANGED engineVars
  <2>1. ASSUME NEW t \in Tab, PageTask(t) \/ BrowserTask(t) \/ OpenTab(t) PROVE UNCHANGED engineVars
    BY <2>1 DEF PageTask, EntryArrives, TakeTimesOut, Refuse, Begin, ReceiveCancel, ReceiveAck,
                BrowserTask, DnrBase, DnrAdd, DnrReject, DnrRemove, OpenTab
  <2>2. ASSUME NEW r \in Req, RequestTask(r) \/ Network(r) PROVE UNCHANGED engineVars
    BY <2>2 DEF RequestTask, BaseInstalled, BaseRejected, FetchSettles, FetchAborted, ReadChunk,
                ReadEnd, ReadFails, IdleTimerFires, DeliverSlice, AwaitCredit, Network, NetSend,
                NetAnswer, NetDrop
  <2> QED BY <2>1, <2>2 DEF Task
<1>2. ConcernsNone \/ \E x \in Req : Concerns(x) /\ Moves(x)
  <2>1. ASSUME NEW t \in Tab, PageTask(t)
        PROVE  ConcernsNone \/ \E x \in Req : Concerns(x) /\ Moves(x)
    BY <2>1, CaptureMoves, BeginConcerns, ReceiveConcerns DEF PageTask, StreamInv
  <2>2. ASSUME NEW t \in Tab, BrowserTask(t) \/ OpenTab(t)
        PROVE  ConcernsNone \/ \E x \in Req : Concerns(x) /\ Moves(x)
    BY <2>2, BrowserMoves, OpenConcerns
  <2>3. ASSUME NEW r \in Req, RequestTask(r) \/ Network(r)
        PROVE  ConcernsNone \/ \E x \in Req : Concerns(x) /\ Moves(x)
    BY <2>3, BaseConcerns, FetchConcerns, ReadConcerns, IdleConcerns, SliceConcerns,
       NetworkConcerns DEF RequestTask, StreamInv
  <2> QED BY <2>1, <2>2, <2>3 DEF Task
<1> QED BY <1>1, <1>2

LEMMA TaskMoves ==
  ASSUME TypeOK, RuleInv, StreamInv, Task
  PROVE  /\ UNCHANGED engineVars
         /\ \A r \in Req : Moves(r)
         /\ \A r \in Req : Speaks(r)' /\ Counts(r)' /\ FlowStep(r)
<1>1. UNCHANGED engineVars /\ \A r \in Req : Moves(r)
  BY TaskConcerns, NoneMoves, OthersRest DEF RuleInv
<1>2. ASSUME NEW r \in Req PROVE Speaks(r)' /\ Counts(r)' /\ FlowStep(r)
  BY <1>1, MovesSpeak, MovesCount DEF StreamInv, RuleInv
<1> QED BY <1>1, <1>2

\* The requests that a task leaves where they are go on waiting or slicing.
LEMMA TakersKept ==
  ASSUME NEW x \in Req, Concerns(x), pc'[x] = pc[x] \/ pc[x] \notin Taking
  PROVE  TakersStay(Nobody)
BY DEF Concerns, TakersStay

LEMMA RunnersKept ==
  ASSUME TypeOK, RunnersSlice, NEW x \in Req, Concerns(x), pc'[x] = pc[x] \/ pc[x] # "slice",
         UNCHANGED running
  PROVE  RunnersSlice'
<1>1. ASSUME NEW t \in Tab, running[t] # Nobody PROVE running[t] \in Req
  BY <1>1 DEF TypeOK, StreamTypeOK
<1> QED BY <1>1 DEF RunnersSlice, Concerns

LEMMA WaitersTask ==
  ASSUME TypeOK, RuleInv, StreamInv, Task
  PROVE  WaitersWait'
<1> USE RequestsAssumption
<1>0. WaitersWait /\ RunnersSlice /\ Asked /\ (\A r \in Req : Counts(r))
      /\ BeginsOnce /\ AddsAreOwn
  BY DEF StreamInv, RuleInv
<1>1. ASSUME ConcernsNone, UNCHANGED waiters PROVE WaitersWait'
  BY <1>0, <1>1, WaitersKept DEF ConcernsNone, TakersStay
<1>2. ASSUME NEW x \in Req, Concerns(x), pc'[x] = pc[x] \/ pc[x] \notin Taking, UNCHANGED waiters
      PROVE  WaitersWait'
  BY <1>0, <1>2, TakersKept, WaitersKept
<1>3. ASSUME NEW t \in Tab, EntryArrives(t) \/ \E u \in Url : TakeTimesOut(t, u)
      PROVE  WaitersWait'
  <2>1. ASSUME NEW u \in Url, ConcernsNone, waiters[t][u] # <<>>,
               waiters' = [waiters EXCEPT ![t][u] = Tail(@)]
        PROVE  WaitersWait'
    <3>1. TakersStay(Head(waiters[t][u]))
      BY <2>1 DEF ConcernsNone, TakersStay
    <3> QED BY <1>0, <2>1, <3>1, WaiterLeaves
  <2>2. ASSUME NEW u \in Url, waiters[t][u] # <<>>, Head(waiters[t][u]) \in Req,
               Concerns(Head(waiters[t][u])), waiters' = [waiters EXCEPT ![t][u] = Tail(@)]
        PROVE  WaitersWait'
    <3>1. TakersStay(Head(waiters[t][u]))
      BY <2>2 DEF Concerns, TakersStay
    <3> QED BY <1>0, <2>2, <3>1, WaiterLeaves
  <2> QED BY <1>0, <1>1, <1>3, <2>1, <2>2, CaptureMoves
<1>4. ASSUME NEW x \in Req, FetchSettles(x) PROVE WaitersWait'
  <2>1. Concerns(x) /\ pc[x] = "fetch"
    BY <1>4, FetchConcerns
  <2>2. CASE TakeCaptured(TabOf[x], UrlOf[x])
    BY <1>2, <2>1, <2>2 DEF TakeCaptured, Taking
  <2>3. ASSUME NEW to \in Taking, Wait(TabOf[x], UrlOf[x], x), Goes(x, to) PROVE WaitersWait'
    <3>1. pc'[x] \in Taking /\ pc[x] \notin Taking /\ TakersStay(Nobody)
      BY <2>1, <2>3, GoesAlone, TakersKept DEF Taking
    <3>2. TabOf[x] \in Tab /\ UrlOf[x] \in Url /\ x \in Req \cup {Nobody}
      OBVIOUS
    <3> QED BY <1>0, <2>3, <3>1, <3>2, WaiterJoins
  <2> QED BY <1>4, <2>2, <2>3 DEF FetchSettles, Taking
<1>5. ASSUME NEW t \in Tab, NEW x \in Req, ReceiveCancel(t, x) PROVE WaitersWait'
  <2>1. Concerns(x) /\ (pc'[x] = pc[x] \/ pc[x] \notin Taking)
    BY <1>0, <1>5, ReceiveConcerns DEF Taking
  <2>2. CASE UNCHANGED waiters
    BY <1>2, <2>1, <2>2
  <2>3. CASE Wait(t, UrlOf[x], Nobody)
    <3>1. TakersStay(Nobody) /\ UrlOf[x] \in Url
      BY <2>1, TakersKept
    <3> QED BY <1>0, <2>3, <3>1, WaiterJoins
  <2> QED BY <1>5, <2>2, <2>3 DEF ReceiveCancel, Discard, TakeCaptured, captureVars
<1>6. ASSUME NEW t \in Tab, NEW x \in Req, Refuse(t, x) \/ Begin(t, x) \/ ReceiveAck(t, x)
      PROVE WaitersWait'
  <2>1. Concerns(x) /\ (pc'[x] = pc[x] \/ pc[x] \notin Taking)
    BY <1>0, <1>6, ReceiveConcerns, BeginConcerns DEF Taking
  <2> QED BY <1>2, <1>6, <2>1 DEF Refuse, Begin, ReceiveAck, captureVars
<1>7. ASSUME NEW t \in Tab, BrowserTask(t) \/ OpenTab(t) PROVE WaitersWait'
  <2>1. UNCHANGED waiters
    BY <1>7 DEF BrowserTask, DnrBase, DnrAdd, DnrReject, DnrRemove, OpenTab, captureVars
  <2> QED BY <1>0, <1>1, <1>2, <1>7, <2>1, BrowserMoves, OpenConcerns
<1>8. ASSUME NEW x \in Req, RequestTask(x) \/ Network(x), ~FetchSettles(x) PROVE WaitersWait'
  <2>1. UNCHANGED waiters
    BY <1>8 DEF RequestTask, BaseInstalled, BaseRejected, FetchAborted, ReadChunk, ReadEnd,
                ReadFails, IdleTimerFires, DeliverSlice, AwaitCredit, Network, NetSend, NetAnswer,
                NetDrop, captureVars
  <2>2. ConcernsNone \/ (Concerns(x) /\ pc[x] \notin Taking)
    BY <1>0, <1>8, BaseConcerns, FetchConcerns, ReadConcerns, IdleConcerns, SliceConcerns,
       NetworkConcerns DEF RequestTask, Taking
  <2> QED BY <1>1, <1>2, <2>1, <2>2
<1> QED BY <1>3, <1>4, <1>5, <1>6, <1>7, <1>8 DEF Task, PageTask

LEMMA RunnersTask ==
  ASSUME TypeOK, RuleInv, StreamInv, Task
  PROVE  RunnersSlice'
<1> USE RequestsAssumption
<1>0. WaitersWait /\ RunnersSlice /\ Asked /\ (\A r \in Req : Counts(r))
      /\ BeginsOnce /\ AddsAreOwn
      /\ running \in [Tab -> Req \cup {Nobody}]
  BY DEF StreamInv, RuleInv, TypeOK, StreamTypeOK
<1>1. ASSUME ConcernsNone, UNCHANGED running PROVE RunnersSlice'
  BY <1>0, <1>1 DEF ConcernsNone, RunnersSlice
<1>2. ASSUME NEW x \in Req, Concerns(x), pc'[x] = pc[x] \/ pc[x] # "slice", UNCHANGED running
      PROVE  RunnersSlice'
  BY <1>0, <1>2, RunnersKept
\* x starts, keeps or leaves its loop, in a page where no other runs.
<1>3. ASSUME NEW x \in Req, Concerns(x), NEW w \in {x, Nobody}, w = x => pc'[x] = "slice",
             running' = [running EXCEPT ![TabOf[x]] = w],
             running[TabOf[x]] \in {Nobody, x}
      PROVE  RunnersSlice'
  <2>1. ASSUME NEW t \in Tab, running'[t] # Nobody
        PROVE  TabOf[running'[t]] = t /\ pc'[running'[t]] = "slice"
    <3>1. CASE t = TabOf[x]
      BY <1>0, <1>3, <2>1, <3>1
    <3>2. CASE t # TabOf[x]
      <4>1. running'[t] = running[t] /\ running[t] \in Req
        BY <1>0, <1>3, <2>1, <3>2
      <4>2. TabOf[running[t]] = t /\ pc[running[t]] = "slice"
        BY <1>0, <2>1, <4>1 DEF RunnersSlice
      <4> QED BY <1>3, <3>2, <4>1, <4>2 DEF Concerns
    <3> QED BY <3>1, <3>2
  <2> QED BY <2>1 DEF RunnersSlice
<1>4. ASSUME NEW t \in Tab, NEW x \in Req, ReceiveAck(t, x) PROVE RunnersSlice'
  <2>1. Concerns(x) /\ TabOf[x] = t /\ (pc'[x] = pc[x] \/ pc[x] = "credit")
    BY <1>0, <1>4, ReceiveConcerns
  <2>2. running[t] = Nobody
    BY <1>4 DEF ReceiveAck, Receives, PageIdle
  <2>3. \/ pc'[x] = "slice" /\ running' = [running EXCEPT ![t] = x]
        \/ UNCHANGED running
    BY <1>0, <1>4 DEF ReceiveAck, TypeOK, ProgressTypeOK
  <2> QED BY <1>2, <1>3, <2>1, <2>2, <2>3
<1>5. ASSUME NEW x \in Req, ReadChunk(x) PROVE RunnersSlice'
  <2>1. Concerns(x) /\ pc[x] = "read" /\ running[TabOf[x]] = Nobody
    BY <1>5, ReadConcerns DEF ReadChunk, PageIdle
  <2>2. \/ UNCHANGED running
        \/ Goes(x, "slice") /\ running' = [running EXCEPT ![TabOf[x]] = x]
    BY <1>5 DEF ReadChunk
  <2> QED BY <1>2, <1>3, <2>1, <2>2, GoesAlone
<1>6. ASSUME NEW x \in Req, DeliverSlice(x) \/ AwaitCredit(x) PROVE RunnersSlice'
  <2>1. Concerns(x) /\ running[TabOf[x]] = x
    BY <1>0, <1>6, SliceConcerns DEF DeliverSlice, AwaitCredit
  <2>2. CASE AwaitCredit(x)
    BY <1>3, <2>1, <2>2 DEF AwaitCredit
  <2>3. CASE DeliverSlice(x)
    <3> DEFINE n == IF rem[x] < Slice THEN rem[x] ELSE Slice
    <3>1. /\ Goes(x, IF rem[x] = n THEN "read" ELSE "slice")
          /\ running' = [running EXCEPT ![TabOf[x]] = IF rem[x] = n THEN Nobody ELSE x]
      BY <2>3 DEF DeliverSlice
    <3> HIDE DEF n
    <3>2. CASE rem[x] = n
      BY <1>3, <2>1, <3>1, <3>2
    <3>3. CASE rem[x] # n
      BY <1>3, <2>1, <3>1, <3>3, GoesAlone
    <3> QED BY <3>2, <3>3
  <2> QED BY <1>6, <2>2, <2>3
<1>7. ASSUME NEW t \in Tab, EntryArrives(t) \/ \E u \in Url : TakeTimesOut(t, u)
      PROVE  RunnersSlice'
  <2>1. UNCHANGED running
    BY <1>7 DEF EntryArrives, TakeTimesOut, ResumeTake, streamVars
  <2>2. ConcernsNone \/ \E x \in Req : Concerns(x) /\ pc[x] \in Taking
    BY <1>0, <1>7, CaptureMoves
  <2> QED BY <1>1, <1>2, <2>1, <2>2 DEF Taking
<1>8. ASSUME NEW t \in Tab, NEW x \in Req, Refuse(t, x) \/ Begin(t, x) \/ ReceiveCancel(t, x)
      PROVE RunnersSlice'
  <2>1. Concerns(x) /\ (pc'[x] = pc[x] \/ pc[x] # "slice")
    BY <1>0, <1>8, ReceiveConcerns, BeginConcerns
  <2> QED BY <1>2, <1>8, <2>1 DEF Refuse, Begin, ReceiveCancel, streamVars
<1>9. ASSUME NEW t \in Tab, BrowserTask(t) \/ OpenTab(t) PROVE RunnersSlice'
  <2>1. UNCHANGED running
    BY <1>9 DEF BrowserTask, DnrBase, DnrAdd, DnrReject, DnrRemove, OpenTab, streamVars
  <2> QED BY <1>0, <1>1, <1>2, <1>9, <2>1, BrowserMoves, OpenConcerns
<1>10. ASSUME NEW x \in Req, RequestTask(x) \/ Network(x), ~ReadChunk(x), ~DeliverSlice(x),
              ~AwaitCredit(x)
       PROVE RunnersSlice'
  <2>1. UNCHANGED running
    BY <1>10 DEF RequestTask, BaseInstalled, BaseRejected, FetchSettles, FetchAborted, ReadEnd,
                 ReadFails, IdleTimerFires, Network, NetSend, NetAnswer, NetDrop, ResumeTake,
                 streamVars
  <2>2. ConcernsNone \/ (Concerns(x) /\ pc[x] # "slice")
    BY <1>0, <1>10, BaseConcerns, FetchConcerns, ReadConcerns, IdleConcerns, NetworkConcerns
       DEF RequestTask
  <2> QED BY <1>1, <1>2, <2>1, <2>2
<1> QED BY <1>4, <1>5, <1>6, <1>7, <1>8, <1>9, <1>10 DEF Task, PageTask, RequestTask

LEMMA ToldTask ==
  ASSUME TypeOK, RuleInv, StreamInv, Task
  PROVE  Told'
<1>1. Told
  BY DEF StreamInv
<1>2. CASE UNCHANGED toEngine
  BY <1>1, <1>2 DEF Told
<1>3. ASSUME NEW x \in Req, PostsAbout(x) PROVE Told'
  <2>1. PICK m \in BridgeMsg : m.id = x /\ (m.op = "data" => m.len >= 1) /\ PostToEngine(TabOf[x], m)
    BY <1>3 DEF PostsAbout
  <2>2. ASSUME NEW t \in Tab, NEW i \in DOMAIN toEngine'[t]
        PROVE  TabOf[toEngine'[t][i].id] = t /\ (toEngine'[t][i].op = "data" => toEngine'[t][i].len >= 1)
    <3>1. toEngine[t] \in Seq(BridgeMsg)
      BY DEF TypeOK, NetTypeOK
    <3>2. CASE t # TabOf[x]
      <4>1. toEngine'[t] = toEngine[t]
        BY <2>1, <3>2 DEF PostToEngine, TypeOK, NetTypeOK
      <4> QED BY <1>1, <2>2, <4>1 DEF Told
    <3>3. CASE t = TabOf[x]
      <4>1. toEngine'[t] = Append(toEngine[t], m)
        BY <2>1, <3>3 DEF PostToEngine, TypeOK, NetTypeOK
      <4>2. \/ i \in DOMAIN toEngine[t] /\ toEngine'[t][i] = toEngine[t][i]
            \/ toEngine'[t][i] = m
        BY <2>2, <3>1, <4>1, AppendIndex
      <4> QED BY <1>1, <2>1, <3>3, <4>2 DEF Told
    <3> QED BY <3>2, <3>3
  <2> QED BY <2>2 DEF Told
<1> QED BY <1>2, <1>3, TaskConcerns DEF RuleInv, ConcernsNone, Concerns

LEMMA AskedTask ==
  ASSUME TypeOK, RuleInv, StreamInv, Task
  PROVE  Asked'
<1>1. Asked /\ UNCHANGED client
  BY TaskConcerns DEF StreamInv, RuleInv, engineVars
<1>2. CASE UNCHANGED toBridge
  BY <1>1, <1>2 DEF Asked
<1>3. ASSUME NEW x \in Req, NEW op, Receives(TabOf[x], op, x) PROVE Asked'
  <2>1. ASSUME NEW t \in Tab, NEW i \in DOMAIN toBridge'[t]
        PROVE  \E j \in DOMAIN toBridge[t] : toBridge'[t][i] = toBridge[t][j]
    <3>1. toBridge[t] \in Seq(EngineMsg)
      BY DEF TypeOK, NetTypeOK
    <3>2. CASE t # TabOf[x]
      <4>1. toBridge'[t] = toBridge[t]
        BY <1>3, <3>2 DEF Receives, TypeOK, NetTypeOK
      <4> QED BY <2>1, <4>1
    <3>3. CASE t = TabOf[x]
      <4>1. toBridge'[t] = Tail(toBridge[t]) /\ toBridge[t] # <<>>
        BY <1>3, <3>3 DEF Receives, TypeOK, NetTypeOK
      <4> QED BY <2>1, <3>1, <4>1, TailIndex
    <3> QED BY <3>2, <3>3
  <2> QED BY <1>1, <2>1 DEF Asked
<1> QED BY <1>2, <1>3, TaskConcerns DEF RuleInv, ConcernsNone, Concerns

LEMMA UnheardTask ==
  ASSUME TypeOK, RuleInv, StreamInv, Task, Started'
  PROVE  Unheard'
<1>1. ASSUME NEW r \in Req, client'[r] = "new" PROVE ~Tells(r, AnyOp)'
  <2>1. client[r] = "new" /\ pc'[r] = "new" /\ Moves(r) /\ ~Tells(r, AnyOp)
    BY <1>1, TaskMoves DEF Started, AskedFirst, engineVars, StreamInv, Unheard
  <2>2. Quiet(r)
    BY <2>1 DEF Moves, Rests, Ends, Responds, Cancelled, Reads, Slices, Credits, Goes1
  <2> QED BY <2>1, <2>2, QuietTells
<1> QED BY <1>1 DEF Unheard

\* Whatever a page or the browser does keeps the invariant, and every stream takes
\* a step of the credit protocol.
LEMMA TaskStep ==
  ASSUME TypeOK, RuleInv, StreamInv, Task, Started'
  PROVE  StreamInv' /\ UNCHANGED client /\ \A r \in Req : FlowStep(r)
<1>1. UNCHANGED <<registered, client>> /\ Known
  BY TaskMoves DEF engineVars, StreamInv
<1>2. Known'
  BY <1>1 DEF Known
<1> QED BY <1>1, <1>2, TaskMoves, WaitersTask, RunnersTask, ToldTask, AskedTask, UnheardTask
        DEF StreamInv

-----------------------------------------------------------------------------
(* The engine's own steps.                                                 *)

LEMMA AckPosted ==
  ASSUME TypeOK, NEW t \in Tab, NEW m \in EngineMsg, PostToBridge(t, m), NEW r \in Req,
         m.op = "ack" => TabOf[m.id] = t
  PROVE  AckBytes(r)' = AckBytes(r) + Carries(m, "ack", r)
<1> DEFINE q == toBridge[TabOf[r]]
<1>1. q \in Seq(EngineMsg) /\ AckBytes(r) \in Nat
  BY CountsNat, RequestsAssumption DEF TypeOK, NetTypeOK
<1>2. CASE TabOf[r] = t
  <2>1. toBridge'[TabOf[r]] = Append(q, m)
    BY <1>2 DEF PostToBridge, TypeOK, NetTypeOK
  <2>2. Append(q, m) \in Seq(EngineMsg)
    BY <1>1
  <2>3. Bytes(Append(q, m), "ack", r) = Bytes(q, "ack", r) + Carries(m, "ack", r)
    <3>1. Counted(Append(q, m), "ack", r)
      BY <2>2, AckCounted
    <3> QED BY <1>1, <3>1, BytesAppend
  <2> QED BY <2>1, <2>3, CountsPrime DEF AckBytes
<1>3. CASE TabOf[r] # t
  <2>1. toBridge'[TabOf[r]] = q
    BY <1>3 DEF PostToBridge, TypeOK, NetTypeOK
  <2>2. Carries(m, "ack", r) = 0
    BY <1>3 DEF Carries
  <2> QED BY <1>1, <2>1, <2>2, CountsPrime DEF AckBytes
<1> QED BY <1>2, <1>3

LEMMA Untold ==
  ASSUME NEW q \in Seq(BridgeMsg), NEW r, ~Posted(q, r, AnyOp)
  PROVE  Bytes(q, "data", r) = 0
<1>1. \A i \in DOMAIN q : ~(q[i].id = r /\ q[i].op = "data")
  BY DEF Posted, AnyOp
<1> QED BY <1>1, BytesNone

\* A request whose tab's channel to the engine stays as it is.
LEMMA ToldSame ==
  ASSUME NEW r \in Req, toEngine'[TabOf[r]] = toEngine[TabOf[r]]
  PROVE  /\ \A ops : Tells(r, ops)' <=> Tells(r, ops)
         /\ Ordered(toEngine[TabOf[r]], r)' <=> Ordered(toEngine[TabOf[r]], r)
         /\ DataBytes(r)' = DataBytes(r)
<1>1. DataBytes(r)' = DataBytes(r)
  BY CountsPrime DEF DataBytes
<1> QED BY <1>1 DEF Tells, Ordered, Posted

\* The engine takes the oldest message of its page.
LEMMA HeadGone ==
  ASSUME TypeOK, NEW r \in Req, toEngine[TabOf[r]] # <<>>,
         toEngine'[TabOf[r]] = Tail(toEngine[TabOf[r]])
  PROVE  LET m == Head(toEngine[TabOf[r]]) IN
         /\ \A ops : /\ Tells(r, ops)' => Tells(r, ops)
                     /\ Tells(r, ops) => Tells(r, ops)' \/ (m.id = r /\ m.op \in ops)
                     /\ m.id = r /\ m.op \in ops => Tells(r, ops)
         /\ Ordered(toEngine[TabOf[r]], r) =>
              /\ Ordered(toEngine[TabOf[r]], r)'
              /\ m.id = r => /\ ~Tells(r, Opening)'
                             /\ m.op \in Terminal => ~Tells(r, AnyOp)'
         /\ DataBytes(r) = Carries(m, "data", r) + DataBytes(r)'
         /\ DataBytes(r)' \in Nat
         /\ ~Tells(r, AnyOp)' => DataBytes(r)' = 0
<1> DEFINE q == toEngine[TabOf[r]]
           m == Head(q)
<1>1. q \in Seq(BridgeMsg) /\ Tail(q) \in Seq(BridgeMsg)
  BY RequestsAssumption, HeadTailProperties DEF TypeOK, NetTypeOK
<1>2. \A ops : /\ Tells(r, ops)' <=> Posted(Tail(q), r, ops)
               /\ Tells(r, ops) <=> Posted(q, r, ops)
  BY DEF Tells, Posted
<1>3. Ordered(q, r)' <=> Ordered(Tail(q), r)
  BY DEF Ordered
<1>4. DataBytes(r)' = Bytes(Tail(q), "data", r) /\ DataBytes(r) = Bytes(q, "data", r)
  BY CountsPrime DEF DataBytes
<1>5. /\ Bytes(q, "data", r) = Carries(m, "data", r) + Bytes(Tail(q), "data", r)
      /\ Bytes(Tail(q), "data", r) \in Nat
  BY <1>1, DataCounted, BytesTail, BytesNat
<1>6. ~Posted(Tail(q), r, AnyOp) => Bytes(Tail(q), "data", r) = 0
  BY <1>1, Untold
<1>7. \A ops : /\ Posted(Tail(q), r, ops) => Posted(q, r, ops)
               /\ Posted(q, r, ops) => Posted(Tail(q), r, ops) \/ (m.id = r /\ m.op \in ops)
               /\ m.id = r /\ m.op \in ops => Posted(q, r, ops)
  BY <1>1, PostedTail
<1>8. Ordered(q, r) => /\ Ordered(Tail(q), r)
                       /\ m.id = r => /\ ~Posted(Tail(q), r, Opening)
                                      /\ m.op \in Terminal => ~Posted(Tail(q), r, AnyOp)
  BY <1>1, OrderedTail
<1> QED BY <1>2, <1>3, <1>4, <1>5, <1>6, <1>7, <1>8

\* The engine's side of a request that a step is not about.
Aside(r) ==
  /\ r \in registered' <=> r \in registered
  /\ client'[r] = client[r] /\ got'[r] = got[r]

LEMMA AsideKeeps ==
  ASSUME NEW r \in Req, Speaks(r), Counts(r), Aside(r),
         UNCHANGED <<pc, inflight, unacked, bytes, rem>>,
         \A ops : Tells(r, ops)' <=> Tells(r, ops),
         Ordered(toEngine[TabOf[r]], r) => Ordered(toEngine[TabOf[r]], r)',
         DataBytes(r)' = DataBytes(r), AckBytes(r)' = AckBytes(r)
  PROVE  Speaks(r)' /\ Counts(r)' /\ FlowStep(r)
<1>1. Live(r)' <=> Live(r)
  BY DEF Live, Aside
<1>2. FlowStep(r)
  BY <1>1, FlowRest
<1>3. Counts(r)'
  BY <1>1 DEF Counts, Aside
<1> DEFINE Ord == Ordered(toEngine[TabOf[r]], r)
<1>4. Ord => Ord'
  OBVIOUS
<1> HIDE DEF Ord
<1>5. Speaks(r)'
  BY <1>4 DEF Speaks, Aside, Ord
<1> QED BY <1>2, <1>3, <1>5

\* A request is asked for: nothing is on its way to it, and it is not live yet.
LEMMA StartStep ==
  ASSUME TypeOK, Started, StreamInv, NEW x \in Req, EngineStart(x)
  PROVE  /\ \A r \in Req : Speaks(r)' /\ Counts(r)' /\ FlowStep(r)
         /\ \A r \in Req : client'[r] # client[r] => client[r] = "new" /\ client'[r] = "open"
         /\ Unheard' /\ Known'
<1>1. /\ client[x] = "new" /\ registered' = registered \cup {x}
      /\ client' = [client EXCEPT ![x] = "open"] /\ UNCHANGED <<got, toEngine>>
      /\ PostToBridge(TabOf[x], Signal("begin", x, 0))
      /\ UNCHANGED <<pc, inflight, unacked, bytes, rem>>
  BY DEF EngineStart, NetBridgeStart, progressVars, streamVars
<1>2. pc[x] = "new" /\ x \notin inflight /\ ~Tells(x, AnyOp) /\ x \notin registered
  BY <1>1 DEF Started, AskedFirst, InflightHasBegun, StreamInv, Unheard, Known
<1>3. ASSUME NEW r \in Req
      PROVE  /\ \A ops : Tells(r, ops)' <=> Tells(r, ops)
             /\ Ordered(toEngine[TabOf[r]], r)' <=> Ordered(toEngine[TabOf[r]], r)
             /\ DataBytes(r)' = DataBytes(r) /\ AckBytes(r)' = AckBytes(r)
  <2>1. Signal("begin", x, 0) \in EngineMsg
    BY SignalType
  <2>2. Carries(Signal("begin", x, 0), "ack", r) = 0 /\ Signal("begin", x, 0).op = "begin"
    BY DEF Carries, Signal
  <2>3. AckBytes(r)' = AckBytes(r) + 0
    BY <1>1, <2>1, <2>2, AckPosted, RequestsAssumption
  <2> QED BY <1>1, <2>3, ToldSame, CountsNat
<1>4. ASSUME NEW r \in Req, r # x PROVE Speaks(r)' /\ Counts(r)' /\ FlowStep(r)
  <2>1. Aside(r)
    BY <1>1, <1>4 DEF Aside, TypeOK, NetTypeOK
  <2> QED BY <1>1, <1>3, <2>1, AsideKeeps DEF StreamInv
<1>5. client'[x] = "open" /\ x \in registered' /\ \A r \in Req \ {x} : client'[r] = client[r]
  BY <1>1 DEF TypeOK, NetTypeOK
<1>6. \A ops : ops \subseteq AnyOp => ~Tells(x, ops)'
  <2>1. ASSUME NEW ops, ops \subseteq AnyOp PROVE ~Tells(x, ops)
    BY <1>2, <2>1 DEF Tells, Posted
  <2> QED BY <1>3, <2>1
<1>7. Speaks(x)'
  <2> DEFINE Ord == Ordered(toEngine[TabOf[x]], x)
  <2>1. Ord'
    BY <1>1, <1>2 DEF Ordered, Tells, Posted, Opening, Terminal, AnyOp
  <2> HIDE DEF Ord
  <2> USE DEF Opening, Terminal, AnyOp, Streaming
  <2>2. ~Tells(x, Opening)' /\ ~Tells(x, {"data", "done"})' /\ ~Tells(x, Terminal)'
        /\ ~Tells(x, AnyOp)'
    BY <1>6
  <2> QED BY <1>1, <1>2, <1>5, <2>1, <2>2 DEF Speaks, Ord
<1>8. Counts(x)'
  <2>1. /\ ~Live(x)' /\ pc'[x] = "new" /\ ~Tells(x, {"done"})'
    BY <1>1, <1>2, <1>6 DEF Live, AnyOp
  <2>2. /\ unacked[x] = 0 /\ bytes[x] = 0 /\ got[x] = 0 /\ DataBytes(x) = 0 /\ AckBytes(x) = 0
        /\ rem[x] = 0
    BY <1>2 DEF StreamInv, Counts, Before
  <2> QED BY <1>1, <1>3, <1>5, <2>1, <2>2 DEF Counts
<1>9. FlowStep(x)
  BY <1>1, <1>2, FlowRest DEF Live
<1>10. Unheard' /\ Known'
  <2>1. Unheard'
    BY <1>3, <1>5 DEF StreamInv, Unheard
  <2>2. registered' = {r \in Req : client'[r] \in {"open", "responded"}}
    BY <1>1, <1>5 DEF StreamInv, Known
  <2> QED BY <2>1, <2>2 DEF Known
<1> QED BY <1>1, <1>4, <1>5, <1>7, <1>8, <1>9, <1>10

LEMMA CancelStep ==
  ASSUME TypeOK, Started, StreamInv, NEW x \in Req, EngineCancel(x)
  PROVE  /\ \A r \in Req : Speaks(r)' /\ Counts(r)' /\ FlowStep(r)
         /\ \A r \in Req : client'[r] # client[r] =>
              client[r] \in {"open", "responded"} /\ client'[r] = "cancelled"
         /\ Unheard' /\ Known'
<1>1. /\ x \in registered /\ registered' = registered \ {x}
      /\ client' = [client EXCEPT ![x] = "cancelled"] /\ UNCHANGED <<got, toEngine>>
      /\ PostToBridge(TabOf[x], Signal("cancel", x, 0))
      /\ UNCHANGED <<pc, inflight, unacked, bytes, rem>>
  BY DEF EngineCancel, NetBridgeCancel, progressVars, streamVars
<1>2. client[x] \in {"open", "responded"}
  BY <1>1 DEF StreamInv, Known
<1>3. ASSUME NEW r \in Req
      PROVE  /\ \A ops : Tells(r, ops)' <=> Tells(r, ops)
             /\ Ordered(toEngine[TabOf[r]], r)' <=> Ordered(toEngine[TabOf[r]], r)
             /\ DataBytes(r)' = DataBytes(r) /\ AckBytes(r)' = AckBytes(r)
  <2>1. Signal("cancel", x, 0) \in EngineMsg
    BY SignalType
  <2>2. Carries(Signal("cancel", x, 0), "ack", r) = 0 /\ Signal("cancel", x, 0).op = "cancel"
    BY DEF Carries, Signal
  <2>3. AckBytes(r)' = AckBytes(r) + 0
    BY <1>1, <2>1, <2>2, AckPosted, RequestsAssumption
  <2> QED BY <1>1, <2>3, ToldSame, CountsNat
<1>4. ASSUME NEW r \in Req, r # x PROVE Speaks(r)' /\ Counts(r)' /\ FlowStep(r)
  <2>1. Aside(r)
    BY <1>1, <1>4 DEF Aside, TypeOK, NetTypeOK
  <2> QED BY <1>1, <1>3, <2>1, AsideKeeps DEF StreamInv
<1>5. /\ client'[x] = "cancelled" /\ x \notin registered'
      /\ \A r \in Req \ {x} : client'[r] = client[r]
  BY <1>1 DEF TypeOK, NetTypeOK
<1>6. Speaks(x)'
  BY <1>5 DEF Speaks
<1>7. ~Live(x)'
  BY <1>5 DEF Live
<1>8. Counts(x)'
  BY <1>1, <1>3, <1>5, <1>7 DEF StreamInv, Counts
<1>9. FlowStep(x)
  <2>1. CASE pc[x] # "new"
    BY <1>1, <1>7, <2>1, FlowClose
  <2>2. CASE pc[x] = "new"
    <3>1. ~Live(x)
      BY <2>2 DEF Started, InflightHasBegun, Live
    <3> QED BY <1>1, <1>7, <3>1, FlowRest
  <2> QED BY <2>1, <2>2
<1>10. Unheard' /\ Known'
  <2>1. Unheard'
    BY <1>3, <1>5 DEF StreamInv, Unheard
  <2>2. registered' = {r \in Req : client'[r] \in {"open", "responded"}}
    BY <1>1, <1>5 DEF StreamInv, Known
  <2> QED BY <2>1, <2>2 DEF Known
<1> QED BY <1>2, <1>4, <1>5, <1>6, <1>8, <1>9, <1>10

\* The engine runs the oldest message of its page, which is about r.
LEMMA RunFacts ==
  ASSUME TypeOK, StreamInv, NEW t \in Tab, EngineRun(t)
  PROVE  LET m == Head(toEngine[t]) IN
         /\ m \in BridgeMsg /\ m.id \in Req /\ TabOf[m.id] = t
         /\ m.op = "data" => m.len \in Nat /\ m.len >= 1
         /\ Tells(m.id, AnyOp)
         /\ toEngine[t] # <<>> /\ toEngine' = [toEngine EXCEPT ![t] = Tail(@)]
         /\ UNCHANGED <<pc, inflight, unacked, bytes, rem>>
         /\ \A r \in Req \ {m.id} : Aside(r) /\ AckBytes(r)' = AckBytes(r)
<1> DEFINE m == Head(toEngine[t])
           x == m.id
<1>1. /\ toEngine[t] # <<>> /\ toEngine' = [toEngine EXCEPT ![t] = Tail(@)]
      /\ UNCHANGED <<pc, inflight, unacked, bytes, rem>>
  BY DEF EngineRun, EngineReceive, progressVars, streamVars
<1>2. m = toEngine[t][1] /\ 1 \in DOMAIN toEngine[t] /\ m \in BridgeMsg
  BY <1>1 DEF TypeOK, NetTypeOK
<1>3. /\ x \in Req /\ m.op \in AnyOp /\ TabOf[x] = t
      /\ m.op = "data" => m.len \in Nat /\ m.len >= 1
  BY <1>2 DEF BridgeMsg, StreamInv, Told, AnyOp
<1>4. Tells(x, AnyOp)
  BY <1>2, <1>3 DEF Tells, Posted
<1>5. \/ m.op = "response" /\ NetResponse(x)
      \/ m.op = "data" /\ NetData(x, t, m.len)
      \/ \E how \in {"done", "failed", "redirected"} : NetTerminal(x, how)
  BY DEF EngineRun, EngineReceive
<1> HIDE DEF x, m
<1>6. ASSUME NEW r \in Req, r # x PROVE Aside(r) /\ AckBytes(r)' = AckBytes(r)
  <2>1. Aside(r)
    BY <1>3, <1>5, <1>6 DEF Aside, NetResponse, NetData, NetTerminal, TypeOK, NetTypeOK
  <2>2. CASE UNCHANGED toBridge
    BY <2>1, <2>2, CountsPrime DEF AckBytes
  <2>3. CASE m.op = "data" /\ PostToBridge(t, Signal("ack", x, m.len))
    <3> DEFINE a == Signal("ack", x, m.len)
    <3>1. a \in EngineMsg /\ Carries(a, "ack", r) = 0 /\ a.id = x
      BY <1>3, <1>6, <2>3, SignalType DEF Signal, Carries
    <3>2. AckBytes(r) \in Nat
      BY CountsNat
    <3> HIDE DEF a
    <3>3. PostToBridge(t, a)
      BY <2>3 DEF a
    <3>4. AckBytes(r)' = AckBytes(r) + Carries(a, "ack", r)
      BY <1>3, <3>1, <3>3, AckPosted
    <3> QED BY <2>1, <3>1, <3>2, <3>4
  <2>4. UNCHANGED toBridge \/ (m.op = "data" /\ PostToBridge(t, Signal("ack", x, m.len)))
    BY <1>5 DEF NetResponse, NetData, NetTerminal
  <2> QED BY <2>1, <2>2, <2>3, <2>4
<1> QED BY <1>1, <1>2, <1>3, <1>4, <1>6 DEF x, m

\* Requests the message is not about.
LEMMA RunOthers ==
  ASSUME TypeOK, StreamInv, NEW t \in Tab, EngineRun(t), NEW r \in Req, r # Head(toEngine[t]).id
  PROVE  /\ Speaks(r)' /\ Counts(r)' /\ FlowStep(r) /\ Aside(r)
         /\ \A ops : Tells(r, ops)' <=> Tells(r, ops)
<1> DEFINE m == Head(toEngine[t])
<1>1. /\ m \in BridgeMsg /\ toEngine[t] # <<>> /\ toEngine' = [toEngine EXCEPT ![t] = Tail(@)]
      /\ UNCHANGED <<pc, inflight, unacked, bytes, rem>>
      /\ Aside(r) /\ AckBytes(r)' = AckBytes(r)
  BY RunFacts
<1>2. /\ \A ops : Tells(r, ops)' <=> Tells(r, ops)
      /\ Ordered(toEngine[TabOf[r]], r) => Ordered(toEngine[TabOf[r]], r)'
      /\ DataBytes(r)' = DataBytes(r)
  <2>1. CASE TabOf[r] = t
    <3>1. toEngine[TabOf[r]] # <<>> /\ toEngine'[TabOf[r]] = Tail(toEngine[TabOf[r]])
      BY <1>1, <2>1 DEF TypeOK, NetTypeOK
    <3>2. Carries(m, "data", r) = 0
      BY DEF Carries
    <3> QED BY <2>1, <3>1, <3>2, HeadGone
  <2>2. CASE TabOf[r] # t
    BY <1>1, <2>2, ToldSame DEF TypeOK, NetTypeOK
  <2> QED BY <2>1, <2>2
<1> QED BY <1>1, <1>2, AsideKeeps DEF StreamInv

\* What one message tells its client: only in the order of the protocol.
Hears(r) ==
  client'[r] # client[r] =>
    \/ client[r] = "new" /\ client'[r] = "open"
    \/ client[r] = "open" /\ client'[r] \in {"responded"} \cup (Ended \ {"done"})
    \/ client[r] = "responded" /\ client'[r] \in Ended \ {"redirected"}

\* The request it is about, when no client waits for it any more.
LEMMA RunUnregistered ==
  ASSUME TypeOK, StreamInv, NEW t \in Tab, EngineRun(t), NEW r \in Req, r = Head(toEngine[t]).id,
         r \notin registered
  PROVE  /\ Speaks(r)' /\ Counts(r)' /\ FlowStep(r) /\ Hears(r)
         /\ client'[r] = client[r] /\ client[r] # "new" /\ UNCHANGED registered
<1> DEFINE m == Head(toEngine[t])
<1>1. /\ m \in BridgeMsg /\ TabOf[r] = t /\ Tells(r, AnyOp)
      /\ toEngine[TabOf[r]] # <<>> /\ toEngine'[TabOf[r]] = Tail(toEngine[TabOf[r]])
      /\ UNCHANGED <<pc, inflight, unacked, bytes, rem>>
  <2>1. /\ m \in BridgeMsg /\ TabOf[r] = t /\ Tells(r, AnyOp)
        /\ toEngine[t] # <<>> /\ toEngine' = [toEngine EXCEPT ![t] = Tail(@)]
        /\ UNCHANGED <<pc, inflight, unacked, bytes, rem>>
    BY RunFacts
  <2> QED BY <2>1 DEF TypeOK, NetTypeOK
<1>2. UNCHANGED <<registered, toBridge, client, got>>
  <2>1. \/ NetResponse(r) \/ NetData(r, t, m.len)
        \/ \E how \in {"done", "failed", "redirected"} : NetTerminal(r, how)
    BY DEF EngineRun, EngineReceive
  <2>2. registered \ {r} = registered
    OBVIOUS
  <2>3. [client EXCEPT ![r] = client[r]] = client /\ [got EXCEPT ![r] = got[r]] = got
    BY DEF TypeOK, NetTypeOK
  <2> HIDE DEF m
  <2> QED BY <2>1, <2>2, <2>3 DEF NetResponse, NetData, NetTerminal
<1>3. client[r] = "cancelled"
  <2>1. client[r] \in ClientState /\ client[r] \notin {"new", "open", "responded"}
    BY <1>1 DEF StreamInv, Unheard, Known, TypeOK, NetTypeOK
  <2>2. client[r] \notin {"done", "failed", "redirected"}
    BY <1>1 DEF StreamInv, Speaks
  <2> QED BY <2>1, <2>2 DEF ClientState
<1>4. /\ DataBytes(r) = Carries(m, "data", r) + DataBytes(r)' /\ DataBytes(r)' \in Nat
      /\ AckBytes(r)' = AckBytes(r)
  BY <1>1, <1>2, HeadGone, CountsPrime DEF AckBytes
<1>5. Carries(m, "data", r) \in Nat
  BY <1>1 DEF Carries, BridgeMsg
<1>6. ~Live(r) /\ ~Live(r)'
  BY <1>2 DEF Live
<1>7. DataBytes(r) = 0 => DataBytes(r)' = 0
  BY <1>4, <1>5
<1>8. Counts(r)'
  BY <1>1, <1>2, <1>3, <1>4, <1>6, <1>7 DEF StreamInv, Counts
<1>9. FlowStep(r)
  BY <1>1, <1>6, FlowRest
<1> QED BY <1>2, <1>3, <1>8, <1>9 DEF Speaks, Hears

\* A client that waits hears a response, some data or its end.
LEMMA RunRegistered ==
  ASSUME TypeOK, StreamInv, NEW t \in Tab, EngineRun(t), NEW r \in Req, r = Head(toEngine[t]).id,
         r \in registered
  PROVE  /\ Speaks(r)' /\ Counts(r)' /\ FlowStep(r) /\ Hears(r)
         /\ client'[r] # "new"
         /\ r \in registered' <=> client'[r] \in {"open", "responded"}
<1> DEFINE m == Head(toEngine[t])
           Ord == Ordered(toEngine[TabOf[r]], r)
<1> USE DEF Opening, Terminal, AnyOp, Before, Taking, Streaming
<1>1. /\ m \in BridgeMsg /\ TabOf[r] = t /\ Tells(r, AnyOp) /\ r = m.id
      /\ (m.op = "data" => m.len \in Nat /\ m.len >= 1)
      /\ toEngine[t] # <<>> /\ toEngine' = [toEngine EXCEPT ![t] = Tail(@)]
      /\ UNCHANGED <<pc, inflight, unacked, bytes, rem>>
  BY RunFacts
<1>2. toEngine[TabOf[r]] # <<>> /\ toEngine'[TabOf[r]] = Tail(toEngine[TabOf[r]])
  BY <1>1 DEF TypeOK, NetTypeOK
<1>3. /\ Ord /\ (Tells(r, Opening) => client[r] = "open")
      /\ Tells(r, {"data", "done"}) \/ pc[r] \in Streaming =>
           client[r] = "responded" \/ Tells(r, {"response"})
      /\ Tells(r, Terminal) => pc[r] = "over"
      /\ pc[r] \notin Before
      /\ client[r] \in {"open", "responded"} /\ client[r] \in ClientState
  BY <1>1 DEF StreamInv, Speaks, Known, TypeOK, NetTypeOK
<1>4. /\ \A ops : Tells(r, ops)' => Tells(r, ops)
      /\ \A ops : Tells(r, ops) => Tells(r, ops)' \/ m.op \in ops
      /\ \A ops : m.op \in ops => Tells(r, ops)
      /\ Ord' /\ ~Tells(r, Opening)'
      /\ m.op \in Terminal => ~Tells(r, AnyOp)'
      /\ DataBytes(r) = Carries(m, "data", r) + DataBytes(r)' /\ DataBytes(r)' \in Nat
      /\ ~Tells(r, AnyOp)' => DataBytes(r)' = 0
  BY <1>1, <1>2, <1>3, HeadGone
<1>5. AckBytes(r) \in Nat /\ got[r] \in Nat /\ unacked[r] \in Int /\ bytes[r] \in Nat /\ rem[r] \in Nat
  BY CountsNat DEF TypeOK, NetTypeOK, StreamTypeOK
<1>6. /\ Live(r) => unacked[r] = DataBytes(r) + AckBytes(r) /\ (pc[r] = "credit" => unacked[r] >= Window)
      /\ pc[r] \in {"slice", "credit"} => rem[r] >= 1
      /\ pc[r] = "read" => rem[r] = 0
      /\ pc[r] # "over" => got[r] + DataBytes(r) + rem[r] = bytes[r]
      /\ Tells(r, {"done"}) => got[r] + DataBytes(r) = bytes[r]
  BY DEF StreamInv, Counts
<1> HIDE DEF Ord, m
\* Once it has responded, nothing opens it again.
<1>7. ASSUME client'[r] = "responded", r \in registered' PROVE Speaks(r)'
  <2>1. Tells(r, Terminal)' => pc'[r] = "over"
    BY <1>1, <1>3, <1>4
  <2> QED BY <1>1, <1>3, <1>4, <1>7, <2>1 DEF Speaks, Ord
<1>8. CASE m.op = "response" /\ NetResponse(r)
  <2>1. /\ client'[r] = "responded" /\ r \in registered' /\ got' = got /\ UNCHANGED toBridge
        /\ client[r] = "open"
    BY <1>3, <1>4, <1>8 DEF NetResponse, TypeOK, NetTypeOK
  <2>2. DataBytes(r)' = DataBytes(r) /\ AckBytes(r)' = AckBytes(r)
    BY <1>4, <1>8, <2>1, CountsPrime DEF Carries, AckBytes
  <2>3. Live(r)' <=> Live(r)
    BY <1>1, <2>1 DEF Live
  <2>4. Counts(r)'
    BY <1>1, <1>3, <1>4, <1>6, <2>1, <2>2, <2>3 DEF Counts
  <2>5. FlowStep(r)
    BY <1>1, <2>2, <2>3, FlowRest
  <2> QED BY <1>7, <2>1, <2>4, <2>5 DEF Hears
<1>9. CASE m.op = "data" /\ NetData(r, t, m.len)
  <2> DEFINE n == m.len
             a == Signal("ack", r, n)
  <2>1. /\ client' = client /\ registered' = registered
        /\ got'[r] = got[r] + n /\ PostToBridge(t, a)
        /\ n \in Nat /\ n >= 1
    BY <1>1, <1>9 DEF NetData, TypeOK, NetTypeOK
  <2>2. DataBytes(r) = n + DataBytes(r)'
    BY <1>1, <1>4, <1>9 DEF Carries
  <2>3. AckBytes(r)' = AckBytes(r) + n
    <3>1. a \in EngineMsg /\ Carries(a, "ack", r) = n /\ a.id = r
      BY <2>1, SignalType DEF Signal, Carries
    <3> HIDE DEF a, n
    <3> QED BY <1>1, <2>1, <3>1, AckPosted
  <2> HIDE DEF n
  <2>4. Live(r)' <=> Live(r)
    BY <1>1, <2>1 DEF Live
  <2>5. Counts(r)'
    <3>1. Live(r)' => unacked'[r] = DataBytes(r)' + AckBytes(r)'
      BY <1>1, <1>4, <1>5, <1>6, <2>1, <2>2, <2>3, <2>4
    <3>2. pc'[r] # "over" => got'[r] + DataBytes(r)' + rem'[r] = bytes'[r]
      BY <1>1, <1>4, <1>5, <1>6, <2>1, <2>2
    <3>3. Tells(r, {"done"})' => got'[r] + DataBytes(r)' = bytes'[r]
      BY <1>1, <1>4, <1>5, <1>6, <2>1, <2>2
    <3> QED BY <1>1, <1>3, <1>6, <2>1, <2>4, <3>1, <3>2, <3>3 DEF Counts
  <2>6. FlowStep(r)
    <3>1. CASE Live(r)
      <4>1. n \in 1 .. DataBytes(r) /\ DataBytes(r)' = DataBytes(r) - n
        BY <1>4, <2>1, <2>2
      <4> QED BY <1>1, <2>3, <2>4, <3>1, <4>1, FlowConsume
    <3>2. CASE ~Live(r)
      BY <1>1, <2>4, <3>2, FlowRest
    <3> QED BY <3>1, <3>2
  <2>7. Speaks(r)'
    <3>1. CASE client[r] = "responded"
      BY <1>7, <2>1, <3>1
    <3>2. CASE client[r] = "open"
      <4>1. Tells(r, {"response"})'
        BY <1>3, <1>4, <1>9, <3>2
      <4>2. Tells(r, {"response"})' => Tells(r, Opening)'
        BY DEF Tells, Posted
      <4> QED BY <1>4, <4>1, <4>2
    <3> QED BY <1>3, <3>1, <3>2
  <2> QED BY <1>3, <2>1, <2>5, <2>6, <2>7 DEF Hears
<1>10. ASSUME NEW how \in {"done", "failed", "redirected"}, NetTerminal(r, how), m.op \in Terminal,
              m.op = "done" <=> how = "done", m.op = "redirect" <=> how = "redirected"
       PROVE  /\ Speaks(r)' /\ Counts(r)' /\ FlowStep(r) /\ Hears(r)
              /\ client'[r] = how /\ r \notin registered'
  <2>1. client'[r] = how /\ r \notin registered' /\ UNCHANGED <<got, toBridge>>
    BY <1>10 DEF NetTerminal, TypeOK, NetTypeOK
  <2>2. pc'[r] = "over" /\ ~Tells(r, AnyOp)' /\ ~Live(r)' /\ DataBytes(r)' = 0
    BY <1>1, <1>3, <1>4, <1>10, <2>1 DEF Live
  <2>3. Speaks(r)'
    BY <2>1, <2>2 DEF Speaks
  <2>4. how = "done" => got'[r] = bytes'[r]
    BY <1>1, <1>4, <1>5, <1>6, <1>10, <2>1, <2>2 DEF Carries
  <2>5. Counts(r)'
    BY <2>1, <2>2, <2>4 DEF Counts
  <2>6. FlowStep(r)
    BY <2>2, FlowClose
  <2>7. how = "done" => client[r] = "responded"
    <3>1. ASSUME Tells(r, {"response"}) PROVE Tells(r, AnyOp)' \/ m.op = "response"
      <4>1. Tells(r, {"response"})' => Tells(r, AnyOp)'
        BY DEF Tells, Posted
      <4> QED BY <1>4, <3>1, <4>1
    <3> QED BY <1>3, <1>4, <1>10, <2>2, <3>1
  <2>8. how = "redirected" => client[r] = "open"
    BY <1>3, <1>4, <1>10
  <2>9. Hears(r)
    BY <1>3, <1>10, <2>1, <2>7, <2>8 DEF Hears, Ended
  <2> QED BY <2>1, <2>3, <2>5, <2>6, <2>9
<1>11. \/ m.op = "response" /\ NetResponse(r)
       \/ m.op = "data" /\ NetData(r, t, m.len)
       \/ m.op = "done" /\ NetTerminal(r, "done")
       \/ m.op = "fail" /\ NetTerminal(r, "failed")
       \/ m.op = "redirect" /\ NetTerminal(r, "redirected")
  BY <1>1 DEF EngineRun, EngineReceive, m
<1>12. CASE (m.op = "response" /\ NetResponse(r)) \/ (m.op = "data" /\ NetData(r, t, m.len))
  <2>1. r \in registered' /\ client'[r] \in {"open", "responded"}
    BY <1>3, <1>12 DEF NetResponse, NetData, TypeOK, NetTypeOK
  <2> QED BY <1>8, <1>9, <1>12, <2>1
<1>13. CASE m.op = "done" /\ NetTerminal(r, "done")
  BY <1>10, <1>13
<1>14. CASE m.op = "fail" /\ NetTerminal(r, "failed")
  BY <1>10, <1>14
<1>15. CASE m.op = "redirect" /\ NetTerminal(r, "redirected")
  BY <1>10, <1>15
<1> QED BY <1>11, <1>12, <1>13, <1>14, <1>15

LEMMA RunStep ==
  ASSUME TypeOK, StreamInv, NEW t \in Tab, EngineRun(t)
  PROVE  /\ \A r \in Req : Speaks(r)' /\ Counts(r)' /\ FlowStep(r) /\ Hears(r)
         /\ Unheard' /\ Known'
<1>1. PICK x \in Req : x = Head(toEngine[t]).id
  BY RunFacts
<1>2. ASSUME NEW r \in Req, r # x
      PROVE  /\ Speaks(r)' /\ Counts(r)' /\ FlowStep(r)
             /\ Aside(r) /\ \A ops : Tells(r, ops)' <=> Tells(r, ops)
  BY <1>1, <1>2, RunOthers
<1>3. /\ Speaks(x)' /\ Counts(x)' /\ FlowStep(x) /\ Hears(x)
      /\ client'[x] # "new"
      /\ x \in registered' <=> client'[x] \in {"open", "responded"}
  <2>1. CASE x \in registered
    BY <1>1, <2>1, RunRegistered
  <2>2. CASE x \notin registered
    BY <1>1, <2>2, RunUnregistered DEF StreamInv, Known
  <2> QED BY <2>1, <2>2
<1>4. registered' \subseteq registered
  BY DEF EngineRun, EngineReceive, NetResponse, NetData, NetTerminal
<1>5. \A r \in Req : Hears(r)
  BY <1>2, <1>3 DEF Hears, Aside
<1>6. Unheard'
  BY <1>2, <1>3 DEF Unheard, StreamInv, Aside
<1>7. Known'
  <2>1. \A r \in Req : r \in registered' <=> client'[r] \in {"open", "responded"}
    BY <1>2, <1>3 DEF Known, StreamInv, Aside
  <2>2. registered' \subseteq Req
    BY <1>4 DEF TypeOK, NetTypeOK
  <2> QED BY <2>1, <2>2 DEF Known
<1> QED BY <1>2, <1>3, <1>5, <1>6, <1>7

\* Messages the engine posts are about requests of its tab.
LEMMA AskedMore ==
  ASSUME TypeOK, Asked, NEW t \in Tab, NEW m \in EngineMsg, PostToBridge(t, m),
         TabOf[m.id] = t, m.op = "ack" => m.len >= 1, m.op = "cancel" => client'[m.id] = "cancelled",
         \A r \in Req : client[r] = "cancelled" => client'[r] = "cancelled"
  PROVE  Asked'
<1>1. ASSUME NEW s \in Tab, NEW i \in DOMAIN toBridge'[s]
      PROVE  \/ toBridge'[s][i] = m /\ s = t
             \/ i \in DOMAIN toBridge[s] /\ toBridge'[s][i] = toBridge[s][i] /\ toBridge[s][i] \in EngineMsg
  <2>1. toBridge[s] \in Seq(EngineMsg)
    BY DEF TypeOK, NetTypeOK
  <2>2. CASE s # t
    <3>1. toBridge'[s] = toBridge[s]
      BY <2>2 DEF PostToBridge, TypeOK, NetTypeOK
    <3> QED BY <1>1, <2>1, <3>1
  <2>3. CASE s = t
    <3>1. toBridge'[s] = Append(toBridge[s], m)
      BY <2>3 DEF PostToBridge, TypeOK, NetTypeOK
    <3>2. \/ i \in DOMAIN toBridge[s] /\ toBridge'[s][i] = toBridge[s][i]
          \/ toBridge'[s][i] = m
      BY <1>1, <2>1, <3>1, AppendIndex
    <3> QED BY <2>1, <2>3, <3>2
  <2> QED BY <2>2, <2>3
<1>2. \A a \in EngineMsg : a.id \in Req
  BY DEF EngineMsg
<1> QED BY <1>1, <1>2 DEF Asked

LEMMA EngineAsks ==
  ASSUME TypeOK, StreamInv,
         \/ \E r \in Req : EngineStart(r) \/ EngineCancel(r)
         \/ \E t \in Tab : EngineRun(t)
  PROVE  Asked'
<1> USE RequestsAssumption
<1>1. Asked
  BY DEF StreamInv
<1>2. ASSUME NEW x \in Req, EngineStart(x) PROVE Asked'
  <2> DEFINE m == Signal("begin", x, 0)
  <2>1. m \in EngineMsg /\ m.id = x /\ m.op = "begin"
    BY SignalType DEF Signal
  <2> HIDE DEF m
  <2>2. PostToBridge(TabOf[x], m)
    BY <1>2 DEF EngineStart, NetBridgeStart, m
  <2>3. \A r \in Req : client[r] = "cancelled" => client'[r] = "cancelled"
    BY <1>2 DEF EngineStart, NetBridgeStart, TypeOK, NetTypeOK
  <2> QED BY <1>1, <2>1, <2>2, <2>3, AskedMore
<1>3. ASSUME NEW x \in Req, EngineCancel(x) PROVE Asked'
  <2> DEFINE m == Signal("cancel", x, 0)
  <2>1. m \in EngineMsg /\ m.id = x /\ m.op = "cancel"
    BY SignalType DEF Signal
  <2> HIDE DEF m
  <2>2. PostToBridge(TabOf[x], m)
    BY <1>3 DEF EngineCancel, NetBridgeCancel, m
  <2>3. /\ client'[x] = "cancelled"
        /\ \A r \in Req : client[r] = "cancelled" => client'[r] = "cancelled"
    BY <1>3 DEF EngineCancel, NetBridgeCancel, TypeOK, NetTypeOK
  <2> QED BY <1>1, <2>1, <2>2, <2>3, AskedMore
<1>4. ASSUME NEW t \in Tab, EngineRun(t) PROVE Asked'
  <2> DEFINE x == Head(toEngine[t]).id
             n == Head(toEngine[t]).len
             m == Signal("ack", x, n)
  <2>1. x \in Req /\ TabOf[x] = t
    BY <1>4, RunFacts
  <2>2. \A r \in Req : client[r] = "cancelled" => client'[r] = "cancelled"
    BY <1>4, RunStep DEF Hears
  <2>3. CASE UNCHANGED toBridge
    <3>1. \A s \in Tab : \A i \in DOMAIN toBridge[s] : toBridge[s][i].id \in Req
      <4>1. ASSUME NEW s \in Tab PROVE toBridge[s] \in Seq(EngineMsg)
        BY DEF TypeOK, NetTypeOK
      <4>2. \A a \in EngineMsg : a.id \in Req
        BY DEF EngineMsg
      <4> QED BY <4>1, <4>2
    <3> QED BY <1>1, <2>2, <2>3, <3>1 DEF Asked
  <2>4. CASE Head(toEngine[t]).op = "data" /\ PostToBridge(t, m)
    <3>1. n \in Nat /\ n >= 1
      BY <1>4, <2>4, RunFacts
    <3>2. m \in EngineMsg /\ m.id = x /\ m.op = "ack" /\ m.len = n
      BY <2>1, <3>1, SignalType DEF Signal
    <3> HIDE DEF m
    <3> QED BY <1>1, <2>1, <2>2, <2>4, <3>1, <3>2, AskedMore
  <2>5. UNCHANGED toBridge \/ (Head(toEngine[t]).op = "data" /\ PostToBridge(t, m))
    BY <1>4 DEF EngineRun, EngineReceive, NetResponse, NetData, NetTerminal
  <2> QED BY <2>3, <2>4, <2>5
<1> QED BY <1>2, <1>3, <1>4

\* The engine's steps leave the page where it is, and take from its channel only.
LEMMA EngineKeeps ==
  ASSUME TypeOK, StreamInv,
         \/ \E r \in Req : EngineStart(r) \/ EngineCancel(r)
         \/ \E t \in Tab : EngineRun(t)
  PROVE  WaitersWait' /\ RunnersSlice' /\ Told'
<1>1. UNCHANGED <<pc, running, waiters>>
  BY DEF EngineStart, EngineCancel, EngineRun, progressVars, streamVars, captureVars
<1>2. WaitersWait' /\ RunnersSlice'
  BY <1>1 DEF StreamInv, WaitersWait, RunnersSlice
<1>3. Told'
  <2>0. Told
    BY DEF StreamInv
  <2>1. CASE UNCHANGED toEngine
    BY <2>0, <2>1 DEF Told
  <2>2. ASSUME NEW t \in Tab, toEngine[t] # <<>>, toEngine' = [toEngine EXCEPT ![t] = Tail(@)]
        PROVE  Told'
    <3>1. ASSUME NEW s \in Tab, NEW i \in DOMAIN toEngine'[s]
          PROVE  \E j \in DOMAIN toEngine[s] : toEngine'[s][i] = toEngine[s][j]
      <4>1. toEngine[s] \in Seq(BridgeMsg)
        BY DEF TypeOK, NetTypeOK
      <4>2. toEngine'[s] = toEngine[s] \/ (toEngine[s] # <<>> /\ toEngine'[s] = Tail(toEngine[s]))
        BY <2>2 DEF TypeOK, NetTypeOK
      <4> QED BY <3>1, <4>1, <4>2, TailIndex
    <3> QED BY <2>0, <3>1 DEF Told
  <2> QED BY <2>1, <2>2 DEF EngineStart, NetBridgeStart, EngineCancel, NetBridgeCancel, EngineRun,
                            EngineReceive
<1> QED BY <1>2, <1>3

-----------------------------------------------------------------------------
(* A tab closes: its requests are over, its channels empty.                *)

LEMMA CloseStep ==
  ASSUME TypeOK, Started, StreamInv, NEW t \in Tab, CloseTab(t)
  PROVE  /\ StreamInv'
         /\ \A r \in Req : FlowStep(r) /\ Hears(r)
<1> DEFINE mine == {r \in Req : TabOf[r] = t /\ client[r] # "new"}
<1> USE RequestsAssumption
<1>1. /\ running' = [running EXCEPT ![t] = Nobody]
      /\ inflight' = inflight \ mine /\ registered' = registered \ mine
      /\ pc' = [r \in Req |-> IF r \in mine THEN "over" ELSE pc[r]]
      /\ client' = [r \in Req |-> IF r \in mine /\ client[r] \notin Ended THEN "cancelled"
                                  ELSE client[r]]
      /\ toBridge' = [toBridge EXCEPT ![t] = <<>>]
      /\ toEngine' = [toEngine EXCEPT ![t] = <<>>]
      /\ waiters' = [waiters EXCEPT ![t] = [u \in Url |-> <<>>]]
      /\ UNCHANGED <<unacked, bytes, rem, got>>
  BY DEF CloseTab, CaptureReset
<1>2. /\ waiters \in [Tab -> [Url -> Seq(Req \cup {Nobody})]]
      /\ toBridge \in [Tab -> Seq(EngineMsg)] /\ toEngine \in [Tab -> Seq(BridgeMsg)]
      /\ running \in [Tab -> Req \cup {Nobody}] /\ client \in [Req -> ClientState]
      /\ registered \subseteq Req
  BY DEF TypeOK, CaptureTypeOK, NetTypeOK, StreamTypeOK
<1>3. ASSUME NEW r \in Req, TabOf[r] # t
      PROVE  pc'[r] = pc[r] /\ Aside(r) /\ (r \in inflight' <=> r \in inflight)
  BY <1>1, <1>3 DEF Aside
<1>4. /\ \A r \in mine : /\ pc'[r] = "over" /\ r \notin registered' /\ r \notin inflight'
                         /\ client'[r] = IF client[r] \in Ended THEN client[r] ELSE "cancelled"
      /\ \A r \in Req \ mine : /\ pc'[r] = pc[r] /\ client'[r] = client[r]
                               /\ r \in registered' <=> r \in registered
                               /\ r \in inflight' <=> r \in inflight
  BY <1>1
<1>5. WaitersWait'
  <2>1. ASSUME NEW s \in Tab, NEW u \in Url, NEW i \in DOMAIN waiters'[s][u],
               waiters'[s][u][i] # Nobody
        PROVE  /\ pc'[waiters'[s][u][i]] \in Taking
               /\ TabOf[waiters'[s][u][i]] = s /\ UrlOf[waiters'[s][u][i]] = u
               /\ \A j \in DOMAIN waiters'[s][u] : waiters'[s][u][j] = waiters'[s][u][i] => j = i
    <3>1. CASE s = t
      <4>1. waiters'[s][u] = <<>>
        BY <1>1, <1>2, <3>1
      <4> QED BY <2>1, <4>1
    <3>2. CASE s # t
      <4>1. waiters'[s] = waiters[s]
        BY <1>1, <1>2, <3>2
      <4>2. waiters[s][u][i] \in Req
        BY <1>2, <2>1, <4>1
      <4> QED BY <1>3, <2>1, <3>2, <4>1, <4>2 DEF StreamInv, WaitersWait
    <3> QED BY <3>1, <3>2
  <2> QED BY <2>1 DEF WaitersWait
<1>6. RunnersSlice'
  <2>1. ASSUME NEW s \in Tab, running'[s] # Nobody
        PROVE  TabOf[running'[s]] = s /\ pc'[running'[s]] = "slice"
    <3>1. s # t /\ running'[s] = running[s] /\ running[s] \in Req
      BY <1>1, <1>2, <2>1
    <3>2. TabOf[running[s]] = s /\ pc[running[s]] = "slice"
      BY <2>1, <3>1 DEF StreamInv, RunnersSlice
    <3> QED BY <1>3, <3>1, <3>2
  <2> QED BY <2>1 DEF RunnersSlice
<1>7. Told' /\ Asked'
  <2>1. ASSUME NEW s \in Tab
        PROVE  \/ toBridge'[s] = <<>> /\ toEngine'[s] = <<>>
               \/ s # t /\ toBridge'[s] = toBridge[s] /\ toEngine'[s] = toEngine[s]
    BY <1>1, <1>2
  <2>2. Told'
    BY <2>1 DEF Told, StreamInv
  <2>3. Asked'
    <3>1. ASSUME NEW s \in Tab, NEW i \in DOMAIN toBridge'[s], s # t, toBridge'[s] = toBridge[s]
          PROVE  /\ TabOf[toBridge[s][i].id] = s
                 /\ toBridge[s][i].op = "ack" => toBridge[s][i].len >= 1
                 /\ toBridge[s][i].op = "cancel" => client'[toBridge[s][i].id] = "cancelled"
      <4>1. toBridge[s] \in Seq(EngineMsg) /\ i \in DOMAIN toBridge[s]
        BY <1>2, <3>1
      <4>2. toBridge[s][i].id \in Req
        <5>1. toBridge[s][i] \in EngineMsg
          BY <4>1
        <5> QED BY <5>1 DEF EngineMsg
      <4> QED BY <1>3, <3>1, <4>1, <4>2 DEF StreamInv, Asked, Aside
    <3>2. ASSUME NEW s \in Tab, NEW i \in DOMAIN toBridge'[s]
          PROVE  s # t /\ toBridge'[s] = toBridge[s]
      BY <2>1, <3>2
    <3> QED BY <3>1, <3>2 DEF Asked
  <2> QED BY <2>2, <2>3
<1>8. ASSUME NEW r \in Req, TabOf[r] = t
      PROVE  /\ \A ops : ~Tells(r, ops)'
             /\ Ordered(toEngine[TabOf[r]], r)'
             /\ DataBytes(r)' = 0 /\ AckBytes(r)' = 0
  <2>1. toEngine'[TabOf[r]] = <<>> /\ toBridge'[TabOf[r]] = <<>>
    BY <1>1, <1>2, <1>8
  <2>2. <<>> \in Seq(BridgeMsg) /\ <<>> \in Seq(EngineMsg) /\ DOMAIN <<>> = {}
    OBVIOUS
  <2>3. Bytes(<<>>, "data", r) = 0 /\ Bytes(<<>>, "ack", r) = 0
    BY <2>2, BytesNone
  <2> QED BY <2>1, <2>2, <2>3, CountsPrime DEF Tells, Posted, Ordered
<1>9. ASSUME NEW r \in Req PROVE Speaks(r)' /\ Counts(r)' /\ FlowStep(r)
  <2>1. CASE TabOf[r] # t
    <3>1. toEngine'[TabOf[r]] = toEngine[TabOf[r]] /\ toBridge'[TabOf[r]] = toBridge[TabOf[r]]
      BY <1>1, <1>2, <2>1
    <3>2. /\ \A ops : Tells(r, ops)' <=> Tells(r, ops)
          /\ Ordered(toEngine[TabOf[r]], r)' <=> Ordered(toEngine[TabOf[r]], r)
          /\ DataBytes(r)' = DataBytes(r) /\ AckBytes(r)' = AckBytes(r)
      BY <3>1, ToldSame, CountsPrime DEF AckBytes
    <3>3. Live(r)' <=> Live(r)
      BY <1>3, <2>1 DEF Live, Aside
    <3> DEFINE Ord == Ordered(toEngine[TabOf[r]], r)
    <3>4. Ord' <=> Ord
      BY <3>2
    <3> HIDE DEF Ord
    <3>5. Speaks(r)'
      BY <1>3, <2>1, <3>2, <3>4 DEF StreamInv, Speaks, Aside, Ord
    <3>6. Counts(r)'
      BY <1>1, <1>3, <2>1, <3>2, <3>3 DEF StreamInv, Counts, Aside
    <3>7. FlowStep(r)
      BY <1>1, <1>3, <2>1, <3>2, <3>3, FlowRest
    <3> QED BY <3>5, <3>6, <3>7
  <2>2. CASE r \in mine
    <3>1. TabOf[r] = t /\ ~Live(r)' /\ pc'[r] = "over"
      BY <1>4, <2>2 DEF Live
    <3>2. Speaks(r)'
      BY <1>4, <1>8, <2>2, <3>1 DEF Speaks
    <3>3. Counts(r)'
      BY <1>1, <1>4, <1>8, <2>2, <3>1 DEF StreamInv, Counts, Before, Taking, Ended
    <3>4. FlowStep(r)
      BY <3>1, FlowClose
    <3> QED BY <3>2, <3>3, <3>4
  <2>3. CASE TabOf[r] = t /\ client[r] = "new"
    <3>1. /\ r \notin mine /\ pc[r] = "new" /\ r \notin inflight /\ r \notin registered
      BY <2>3 DEF Started, AskedFirst, InflightHasBegun, StreamInv, Known
    <3>2. /\ pc'[r] = "new" /\ client'[r] = "new" /\ r \notin inflight' /\ r \notin registered'
      BY <1>4, <2>3, <3>1
    <3>3. ~Live(r) /\ ~Live(r)'
      BY <3>1, <3>2 DEF Live
    <3>4. Speaks(r)'
      BY <3>2 DEF Speaks
    <3>5. Counts(r)'
      BY <1>1, <1>8, <2>3, <3>1, <3>2, <3>3 DEF StreamInv, Counts
    <3>6. FlowStep(r)
      BY <3>1, <3>2, <3>3, FlowRest
    <3> QED BY <3>4, <3>5, <3>6
  <2> QED BY <2>1, <2>2, <2>3
<1>10. \A r \in Req : Hears(r)
  <2>1. \A r \in Req : client[r] \in ClientState
    BY <1>2
  <2> QED BY <1>4, <2>1 DEF Hears, Ended, ClientState
<1>11. Known'
  <2>1. \A r \in Req : r \in registered' <=> client'[r] \in {"open", "responded"}
    BY <1>4 DEF StreamInv, Known, Ended
  <2> QED BY <1>1, <1>2, <2>1 DEF Known
<1>12. Unheard'
  <2>1. ASSUME NEW r \in Req, client'[r] = "new" PROVE ~Tells(r, AnyOp)'
    <3>1. CASE TabOf[r] = t
      BY <1>8, <3>1
    <3>2. CASE TabOf[r] # t
      <4>1. toEngine'[TabOf[r]] = toEngine[TabOf[r]] /\ client[r] = "new"
        BY <1>1, <1>2, <1>3, <2>1, <3>2 DEF Aside
      <4> QED BY <4>1, ToldSame DEF StreamInv, Unheard
    <3> QED BY <3>1, <3>2
  <2> QED BY <2>1 DEF Unheard
<1> QED BY <1>5, <1>6, <1>7, <1>9, <1>10, <1>11, <1>12 DEF StreamInv

-----------------------------------------------------------------------------
(* The theorems.                                                           *)

LEMMA StreamInit == Init => StreamInv /\ \A r \in Req : Stream(r)!FlowInit
<1> SUFFICES ASSUME Init PROVE StreamInv /\ \A r \in Req : Stream(r)!FlowInit
  OBVIOUS
<1> USE RequestsAssumption
<1>1. /\ \A t \in Tab : toEngine[t] = <<>> /\ toBridge[t] = <<>> /\ running[t] = Nobody
      /\ \A t \in Tab, u \in Url : waiters[t][u] = <<>>
      /\ \A r \in Req : /\ pc[r] = "new" /\ client[r] = "new" /\ unacked[r] = 0
                        /\ bytes[r] = 0 /\ rem[r] = 0 /\ got[r] = 0
      /\ inflight = {} /\ registered = {}
  BY DEF Init, CaptureInit, NetInit
<1>2. WaitersWait /\ RunnersSlice /\ Told /\ Asked /\ Known
  BY <1>1 DEF WaitersWait, RunnersSlice, Told, Asked, Known
<1>3. ASSUME NEW r \in Req
      PROVE  /\ Speaks(r) /\ Counts(r) /\ ~Tells(r, AnyOp)
             /\ Stream(r)!FlowInit
  <2>1. toEngine[TabOf[r]] = <<>> /\ toBridge[TabOf[r]] = <<>>
    BY <1>1
  <2>2. \A ops : ~Tells(r, ops)
    BY <2>1 DEF Tells, Posted
  <2>3. Speaks(r)
    BY <1>1 DEF Speaks
  <2>4. DataBytes(r) = 0 /\ AckBytes(r) = 0
    <3>1. <<>> \in Seq(BridgeMsg) /\ <<>> \in Seq(EngineMsg) /\ DOMAIN <<>> = {}
      OBVIOUS
    <3>2. Bytes(<<>>, "data", r) = 0 /\ Bytes(<<>>, "ack", r) = 0
      BY <3>1, BytesNone
    <3> QED BY <2>1, <3>2 DEF DataBytes, AckBytes
  <2>5. ~Live(r)
    BY <1>1 DEF Live
  <2>6. Counts(r)
    BY <1>1, <2>4, <2>5 DEF Counts
  <2>7. Stream(r)!FlowInit
    BY <1>1, <2>5 DEF Stream!FlowInit
  <2> QED BY <2>2, <2>3, <2>6, <2>7
<1> QED BY <1>2, <1>3 DEF StreamInv, Unheard

LEMMA StreamNext ==
  ASSUME TypeOK, RuleInv, StreamInv, RuleInv', Next
  PROVE  StreamInv' /\ \A r \in Req : FlowStep(r) /\ Hears(r)
<1>0. Started /\ Started'
  BY DEF RuleInv
<1>1. CASE Task
  BY <1>0, <1>1, TaskStep DEF Hears
<1>2. ASSUME NEW x \in Req, EngineStart(x) PROVE StreamInv' /\ \A r \in Req : FlowStep(r) /\ Hears(r)
  BY <1>0, <1>2, StartStep, EngineAsks, EngineKeeps DEF StreamInv, Hears
<1>3. ASSUME NEW x \in Req, EngineCancel(x) PROVE StreamInv' /\ \A r \in Req : FlowStep(r) /\ Hears(r)
  BY <1>0, <1>3, CancelStep, EngineAsks, EngineKeeps DEF StreamInv, Hears, Ended
<1>4. ASSUME NEW t \in Tab, EngineRun(t) PROVE StreamInv' /\ \A r \in Req : FlowStep(r) /\ Hears(r)
  BY <1>4, RunStep, EngineAsks, EngineKeeps DEF StreamInv
<1>5. ASSUME NEW t \in Tab, CloseTab(t) PROVE StreamInv' /\ \A r \in Req : FlowStep(r) /\ Hears(r)
  BY <1>0, <1>5, CloseStep
<1> QED BY <1>1, <1>2, <1>3, <1>4, <1>5 DEF Next, Task

LEMMA StreamRest ==
  ASSUME StreamInv, UNCHANGED vars
  PROVE  StreamInv' /\ \A r \in Req : FlowStep(r) /\ Hears(r)
<1>1. UNCHANGED <<pc, inflight, running, unacked, bytes, rem, waiters, registered, client, got,
                  toBridge, toEngine>>
  BY DEF vars, progressVars, streamVars, captureVars, engineVars, channelVars
<1>2. ASSUME NEW r \in Req
      PROVE  /\ \A ops : Tells(r, ops)' <=> Tells(r, ops)
             /\ Speaks(r)' /\ Counts(r)' /\ FlowStep(r) /\ Hears(r)
  <2>1. /\ \A ops : Tells(r, ops)' <=> Tells(r, ops)
        /\ Ordered(toEngine[TabOf[r]], r)' <=> Ordered(toEngine[TabOf[r]], r)
        /\ DataBytes(r)' = DataBytes(r) /\ AckBytes(r)' = AckBytes(r)
    BY <1>1, ToldSame, CountsPrime DEF AckBytes
  <2>2. Aside(r)
    BY <1>1 DEF Aside
  <2> QED BY <1>1, <2>1, <2>2, AsideKeeps DEF StreamInv, Hears
<1>3. WaitersWait' /\ RunnersSlice' /\ Told' /\ Asked' /\ Known'
  BY <1>1 DEF StreamInv, WaitersWait, RunnersSlice, Told, Asked, Known
<1>4. Unheard'
  BY <1>1, <1>2 DEF StreamInv, Unheard
<1> QED BY <1>2, <1>3, <1>4 DEF StreamInv

LEMMA SoundStep ==
  ASSUME TypeOK, RuleInv, StreamInv, [Next]_vars
  PROVE  StreamInv' /\ \A r \in Req : FlowStep(r) /\ Hears(r)
<1>1. RuleInv'
  BY RuleStep
<1>2. CASE Next
  BY <1>1, <1>2, StreamNext
<1>3. CASE UNCHANGED vars
  BY <1>3, StreamRest
<1> QED BY <1>2, <1>3

LEMMA StreamsHear ==
  ASSUME TypeOK, RuleInv, StreamInv, [Next]_vars
  PROVE  [\A r \in Req : client'[r] # client[r] =>
            \/ client[r] = "new" /\ client'[r] = "open"
            \/ client[r] = "open" /\ client'[r] \in {"responded"} \cup (Ended \ {"done"})
            \/ client[r] = "responded" /\ client'[r] \in Ended \ {"redirected"}]_vars
<1>1. \A r \in Req : Hears(r)
  BY SoundStep
<1> QED BY <1>1 DEF Hears

LEMMA StreamsFlowOn ==
  ASSUME TypeOK, RuleInv, StreamInv, [Next]_vars
  PROVE  [\A r \in Req : [Stream(r)!FlowNext]_(Stream(r)!flowVars)]_vars
<1>1. \A r \in Req : FlowStep(r)
  BY SoundStep
<1>2. \A r \in Req : [Stream(r)!FlowNext]_(Stream(r)!flowVars)
  BY <1>1 DEF FlowStep
<1> QED BY <1>2

\* Every reachable state of the bridge keeps the account of its streams: what
\* a request's bridge task has told the engine and what the engine has still
\* to tell it are in the order #begin, #stream and the engine's client
\* wrote them, and unacked is what lies unread in the two channels.
THEOREM StreamsAreSound == Spec => [](TypeOK /\ RuleInv /\ StreamInv)
<1>1. Init => RuleInv
  BY RequestsAssumption DEF Init, CaptureInit, RulesInit, NetInit, RuleInv, Started, AskedFirst,
     InflightHasBegun, RunningHasBegun, WaitersHaveBegun, BeginsOnce, Begins, AddsAreOwn,
     RuleIdsMatch
<1>2. Init => StreamInv
  BY StreamInit
<1>3. TypeOK /\ RuleInv /\ StreamInv /\ [Next]_vars => StreamInv'
  <2> SUFFICES ASSUME TypeOK, RuleInv, StreamInv, [Next]_vars PROVE StreamInv'
    OBVIOUS
  <2> QED BY SoundStep
<1> QED BY <1>1, <1>2, <1>3, RuleStep, TypeCorrect, PTL DEF Spec

\* A client of the engine moves new, open, responded, ended and never back:
\* its body is done only after a response, and a redirect is never followed by
\* one, however the worker's tasks, the cancels and the closed tabs interleave.
THEOREM ClientsHearInOrder == Spec => ClientProtocol
<1>1. TypeOK /\ RuleInv /\ StreamInv /\ [Next]_vars =>
        [\A r \in Req : client'[r] # client[r] =>
           \/ client[r] = "new" /\ client'[r] = "open"
           \/ client[r] = "open" /\ client'[r] \in {"responded"} \cup (Ended \ {"done"})
           \/ client[r] = "responded" /\ client'[r] \in Ended \ {"redirected"}]_vars
  BY StreamsHear
<1> QED BY <1>1, StreamsAreSound, PTL DEF Spec, ClientProtocol

\* The bridge implements the credit protocol of FlowControl, stream by stream:
\* from its initial state every step of the bridge is, for each request, one
\* step of that request's window or leaves it alone (the refinement of
\* #stream, its wait for credit, #ack and the engine's acks).
THEOREM StreamsKeepCredit == Spec => StreamsFlow
<1>1. Init => \A r \in Req : Stream(r)!FlowInit
  <2> SUFFICES ASSUME Init PROVE \A r \in Req : Stream(r)!FlowInit
    OBVIOUS
  <2> QED BY StreamInit
<1>2. TypeOK /\ RuleInv /\ StreamInv /\ [Next]_vars =>
        [\A r \in Req : [Stream(r)!FlowNext]_(Stream(r)!flowVars)]_vars
  BY StreamsFlowOn
<1> QED BY <1>1, <1>2, StreamsAreSound, PTL DEF Spec, StreamsFlow

\* A client that hears its body is done has received every byte the bridge
\* read for it: #stream's "done" overtakes none of its "data".
THEOREM BodiesAreWhole == Spec => []DeliveredInFull
<1>1. StreamInv => DeliveredInFull
  BY DEF StreamInv, Counts, DeliveredInFull
<1> QED BY <1>1, StreamsAreSound, PTL

\* No stream awaits credit with nothing on the way to give it: what #stream
\* waits for is unread in one of the two channels.
THEOREM WaitingStreamsAreOwed == Spec => []CreditIsComing
<1>1. TypeOK /\ StreamInv => CreditIsComing
  <2> SUFFICES ASSUME TypeOK, StreamInv, NEW r \in Req, pc[r] = "credit", Live(r)
               PROVE  DataBytes(r) + AckBytes(r) > 0
    BY DEF CreditIsComing
  <2>1. DataBytes(r) \in Nat /\ AckBytes(r) \in Nat
    BY CountsNat
  <2>2. unacked[r] = DataBytes(r) + AckBytes(r) /\ unacked[r] >= Window
    BY DEF StreamInv, Counts
  <2>3. Window \in Nat \ {0}
    BY BridgeAssumption
  <2> QED BY <2>1, <2>2, <2>3
<1> QED BY <1>1, StreamsAreSound, PTL

\* The engine's queue holds nothing about a registered request after its
\* terminal event, and nothing at all about one whose client has ended.
THEOREM EndsComeOnce == Spec => []OneTerminalEvent
<1>1. TypeOK /\ StreamInv => OneTerminalEvent
  <2> SUFFICES ASSUME TypeOK, StreamInv PROVE OneTerminalEvent
    OBVIOUS
  <2>1. ASSUME NEW r \in Req, r \in registered,
               NEW i \in DOMAIN toEngine[TabOf[r]], NEW j \in DOMAIN toEngine[TabOf[r]],
               AboutBoth(r, i, j), toEngine[TabOf[r]][i].op \in Terminal
        PROVE  j <= i
    BY <2>1 DEF StreamInv, Speaks, Ordered, AboutBoth
  <2>2. ASSUME NEW r \in Req, client[r] \in {"done", "failed", "redirected"},
               NEW i \in DOMAIN toEngine[TabOf[r]], toEngine[TabOf[r]][i].id = r
        PROVE  FALSE
    <3>1. toEngine[TabOf[r]] \in Seq(BridgeMsg)
      BY RequestsAssumption DEF TypeOK, NetTypeOK
    <3>2. toEngine[TabOf[r]][i] \in BridgeMsg
      BY <3>1
    <3>3. toEngine[TabOf[r]][i].op \in AnyOp
      BY <3>2 DEF BridgeMsg, AnyOp
    <3> QED BY <2>2, <3>3 DEF StreamInv, Speaks, Tells, Posted
  <2> QED BY <2>1, <2>2 DEF OneTerminalEvent
<1> QED BY <1>1, StreamsAreSound, PTL
=============================================================================
