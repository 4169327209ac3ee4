--------------------------- MODULE GeminiTimelyProofs ---------------------------
(***************************************************************************)
(* Theorems about GeminiSystem on a network that is faster than the        *)
(* timeout, Late = FALSE: what the comments of gemini_comms.cpp assume of  *)
(* the FPGA's buffer and of replies does hold there.                       *)
(***************************************************************************)
EXTENDS GeminiSystemProofs

--------------------------------------------------------------------------------
(* What is under way, in the order in which it will be handled: the replies, *)
(* then the datagrams, each by the transaction that caused it.               *)

UnderWay(from, to) ==
    [i \in 1 .. Len(from) + Len(to) |->
        IF i <= Len(from) THEN from[i].re ELSE to[i - Len(from)].id]

\* b was sent after a.  Numbers grow, but a pending retry of transaction base + 1, the
\* oldest, was sent behind later ones; nothing is sent behind it.
Follows(waiting, base, a, b) ==
    IF waiting THEN a > base + 1 /\ (b = base + 1 \/ a < b) ELSE a < b

\* The first n of u are transactions up to top that are not retired, in this order.
Orderly(u, n, waiting, base, top) ==
    /\ \A i \in 1 .. n : u[i] \in Nat /\ base < u[i] /\ u[i] <= top
    /\ \A i, j \in 1 .. n : i < j => Follows(waiting, base, u[i], u[j])

\* v is u without some of its elements.
Thinned(u, n, v, m) ==
    \E g \in [1 .. m -> 1 .. n] :
        /\ \A i \in 1 .. m : v[i] = u[g[i]]
        /\ \A i, j \in 1 .. m : i < j => g[i] < g[j]

LEMMA ThinnedOrderly ==
    ASSUME NEW u, NEW n \in Nat, NEW v, NEW m \in Nat, Thinned(u, n, v, m),
           NEW waiting, NEW base \in Int, NEW top \in Int, Orderly(u, n, waiting, base, top)
    PROVE  Orderly(v, m, waiting, base, top)
<1>1. PICK g \in [1 .. m -> 1 .. n] :
            /\ \A i \in 1 .. m : v[i] = u[g[i]]
            /\ \A i, j \in 1 .. m : i < j => g[i] < g[j]
  BY DEF Thinned
<1>2. \A i \in 1 .. m : g[i] \in 1 .. n
  BY <1>1
<1>3. \A i \in 1 .. m : v[i] \in Nat /\ base < v[i] /\ v[i] <= top
  BY <1>1, <1>2 DEF Orderly
<1>4. ASSUME NEW i \in 1 .. m, NEW j \in 1 .. m, i < j
      PROVE  Follows(waiting, base, v[i], v[j])
  <2>1. g[i] < g[j] /\ v[i] = u[g[i]] /\ v[j] = u[g[j]]
    BY <1>1, <1>4
  <2> QED
    BY <1>2, <2>1 DEF Orderly
<1> QED
  BY <1>3, <1>4 DEF Orderly

\* Sending on behind the window.
LEMMA SentOnOrderly ==
    ASSUME NEW u, NEW n \in Nat, NEW v, NEW m \in Nat, n <= m,
           NEW base \in Int, NEW h \in Int, NEW top \in Int, base <= h, h <= top,
           Orderly(u, n, FALSE, base, h),
           \A i \in 1 .. n : v[i] = u[i],
           \A i \in (n + 1) .. m : v[i] \in Nat /\ h < v[i] /\ v[i] <= top,
           \A i, j \in (n + 1) .. m : i < j => v[i] < v[j]
    PROVE  Orderly(v, m, FALSE, base, top)
<1>1. ASSUME NEW i \in 1 .. m
      PROVE  v[i] \in Nat /\ base < v[i] /\ v[i] <= top /\ (i <= n => v[i] <= h)
  <2>1. CASE i \in 1 .. n
    <3>1. v[i] \in Nat /\ base < v[i] /\ v[i] <= h
      BY <2>1 DEF Orderly
    <3> QED
      BY <3>1
  <2>2. CASE i \in (n + 1) .. m
    <3>1. v[i] \in Nat /\ h < v[i] /\ v[i] <= top
      BY <2>2
    <3> QED
      BY <2>2, <3>1
  <2> QED
    BY <2>1, <2>2
<1>2. ASSUME NEW i \in 1 .. m, NEW j \in 1 .. m, i < j
      PROVE  v[i] < v[j]
  <2>1. CASE j \in 1 .. n
    <3>1. i \in 1 .. n
      BY <1>2, <2>1
    <3> QED
      BY <1>2, <2>1, <3>1 DEF Orderly, Follows
  <2>2. CASE i \in 1 .. n /\ j \in (n + 1) .. m
    <3>1. v[i] <= h /\ h < v[j] /\ v[i] \in Nat /\ v[j] \in Nat
      BY <1>1, <2>2
    <3> QED
      BY <3>1
  <2>3. CASE i \in (n + 1) .. m /\ j \in (n + 1) .. m
    BY <1>2, <2>3
  <2> QED
    BY <1>2, <2>1, <2>2, <2>3
<1> QED
  BY <1>1, <1>2 DEF Orderly, Follows

\* Going back to the oldest transaction once none of its transmissions is under way.
LEMMA SentAgainOrderly ==
    ASSUME NEW u, NEW n \in Nat, NEW v, NEW m \in Nat, n <= m,
           NEW base \in Nat, NEW h \in Int, NEW top \in Int, h <= top, base + 1 <= top,
           Orderly(u, n, FALSE, base, h),
           \A i \in 1 .. n : u[i] # base + 1,
           \A i \in 1 .. n : v[i] = u[i],
           \A i \in (n + 1) .. m : v[i] = base + 1,
           \A i, j \in (n + 1) .. m : i < j => v[i] < v[j]
    PROVE  Orderly(v, m, TRUE, base, top)
<1>1. m = n \/ m = n + 1
  <2> SUFFICES ASSUME m > n + 1 PROVE FALSE
    OBVIOUS
  <2>1. n + 1 \in (n + 1) .. m /\ n + 2 \in (n + 1) .. m /\ n + 1 < n + 2
    OBVIOUS
  <2>2. v[n + 1] = base + 1 /\ v[n + 2] = base + 1 /\ v[n + 1] < v[n + 2]
    BY <2>1
  <2> QED
    BY <2>2
<1>2. ASSUME NEW i \in 1 .. n
      PROVE  v[i] \in Nat /\ v[i] > base + 1 /\ v[i] <= top
  <2>1. v[i] \in Nat /\ base < v[i] /\ v[i] <= h /\ v[i] # base + 1
    BY DEF Orderly
  <2> QED
    BY <2>1
<1>3. \A i \in 1 .. m : v[i] \in Nat /\ base < v[i] /\ v[i] <= top
  <2> TAKE i \in 1 .. m
  <2>1. CASE i \in 1 .. n
    <3>1. v[i] \in Nat /\ v[i] > base + 1 /\ v[i] <= top
      BY <1>2, <2>1
    <3> QED
      BY <3>1
  <2>2. CASE i \in (n + 1) .. m
    <3>1. v[i] = base + 1
      BY <2>2
    <3> QED
      BY <3>1
  <2> QED
    BY <2>1, <2>2
<1>4. ASSUME NEW i \in 1 .. m, NEW j \in 1 .. m, i < j
      PROVE  v[i] > base + 1 /\ (v[j] = base + 1 \/ v[i] < v[j])
  <2>1. i \in 1 .. n
    BY <1>1, <1>4
  <2>2. v[i] > base + 1
    BY <1>2, <2>1
  <2>3. CASE j \in 1 .. n
    <3>1. v[i] < v[j]
      BY <1>4, <2>1, <2>3 DEF Orderly, Follows
    <3> QED
      BY <2>2, <3>1
  <2>4. CASE j \in (n + 1) .. m
    BY <2>2, <2>4
  <2> QED
    BY <2>3, <2>4
<1> QED
  BY <1>3, <1>4 DEF Orderly, Follows

\* The reply to the oldest transaction leaves what was sent behind it: nothing, if it
\* was a retry.
LEMMA AnsweredOrderly ==
    ASSUME NEW u, NEW n \in Nat, n >= 1, NEW v, NEW waiting, NEW base \in Int,
           NEW top \in Int, Orderly(u, n, waiting, base, top), u[1] = base + 1,
           \A i \in 1 .. (n - 1) : v[i] = u[i + 1]
    PROVE  /\ Orderly(v, n - 1, FALSE, base + 1, top)
           /\ waiting => n = 1
<1>1. ASSUME NEW i \in 1 .. (n - 1)
      PROVE  /\ i + 1 \in 1 .. n /\ v[i] = u[i + 1] /\ 1 \in 1 .. n
             /\ Follows(waiting, base, u[1], u[i + 1])
  BY DEF Orderly
<1>2. waiting => n = 1
  <2> SUFFICES ASSUME waiting, n # 1 PROVE FALSE
    OBVIOUS
  <2>1. 1 \in 1 .. (n - 1)
    OBVIOUS
  <2>2. u[1] > base + 1
    BY <1>1, <2>1 DEF Follows
  <2> QED
    BY <2>2
<1>3. Orderly(v, n - 1, FALSE, base + 1, top)
  <2>1. CASE waiting
    <3>1. \A i \in 1 .. (n - 1) : FALSE
      BY <1>2, <2>1
    <3> QED
      BY <3>1 DEF Orderly
  <2>2. CASE ~ waiting
    <3>1. ASSUME NEW i \in 1 .. (n - 1)
          PROVE  v[i] \in Nat /\ base + 1 < v[i] /\ v[i] <= top
      BY <1>1, <2>2 DEF Orderly, Follows
    <3>2. ASSUME NEW i \in 1 .. (n - 1), NEW j \in 1 .. (n - 1), i < j
          PROVE  v[i] < v[j]
      <4>1. i + 1 \in 1 .. n /\ j + 1 \in 1 .. n /\ i + 1 < j + 1
        BY <3>2
      <4>2. u[i + 1] < u[j + 1]
        BY <2>2, <4>1 DEF Orderly, Follows
      <4> QED
        BY <1>1, <4>2
    <3> QED
      BY <3>1, <3>2 DEF Orderly, Follows
  <2> QED
    BY <2>1, <2>2
<1> QED
  BY <1>2, <1>3

\* id is under way.
Has(u, n, id) == \E i \in 1 .. n : u[i] = id

\* A transmission that is not under way was lost: one at least for each transmission of
\* the retried transaction but the last, or for any gap in what was sent last.
Explained(u, n, waiting, base, sent, count, losses) ==
    IF waiting THEN count <= losses \/ (count <= losses + 1 /\ Has(u, n, base + 1))
    ELSE \A id \in (base + 1) .. (base + sent) : Has(u, n, id) \/ losses >= 1

\* A temporary refusal is for a transaction that was ahead of a gap, and still is when
\* all the acknowledgements before it have been handled.
Rejected(base, from) ==
    \A k \in 1 .. Len(from) : from[k].op = "NACKT" =>
        /\ base + 1 < from[k].re
        /\ \A j \in 1 .. (k - 1) : from[j].op = "ACK" => from[j].re + 1 < from[k].re

--------------------------------------------------------------------------------
(* What the steps do to what is under way.                                   *)

\* The first datagram becomes the last reply.
LEMMA AnsweringUnderWay ==
    ASSUME NEW from, from \in Seq(Replies), NEW to, to \in Seq(Datagrams), to # <<>>,
           NEW rep, rep \in Replies, rep.re = to[1].id
    PROVE  /\ Len(Append(from, rep)) + Len(Tail(to)) = Len(from) + Len(to)
           /\ \A i \in 1 .. (Len(from) + Len(to)) :
                UnderWay(Append(from, rep), Tail(to))[i] = UnderWay(from, to)[i]
<1> DEFINE k == Len(from)
           m == Len(to)
           from2 == Append(from, rep)
           to2 == Tail(to)
<1>1. k \in Nat /\ m \in Nat /\ m >= 1 /\ Len(to2) = m - 1
      /\ \A i \in 1 .. (m - 1) : to2[i] = to[i + 1]
  BY TailFacts, LenProperties
<1>2. Len(from2) = k + 1 /\ from2[k + 1] = rep /\ \A i \in 1 .. k : from2[i] = from[i]
  BY AppendProperties
<1> HIDE DEF k, m, from2, to2
<1>3. Len(from2) + Len(to2) = k + m
  BY <1>1, <1>2
<1>4. ASSUME NEW i \in 1 .. (k + m)
      PROVE  UnderWay(from2, to2)[i] = UnderWay(from, to)[i]
  <2>1. /\ UnderWay(from2, to2)[i] = IF i <= k + 1 THEN from2[i].re ELSE to2[i - (k + 1)].id
        /\ UnderWay(from, to)[i] = IF i <= k THEN from[i].re ELSE to[i - k].id
    BY <1>2, <1>3 DEF UnderWay, k, m
  <2>2. CASE i <= k
    <3>1. i <= k + 1 /\ i \in 1 .. k
      BY <1>1, <2>2
    <3> QED
      BY <1>2, <2>1, <2>2, <3>1
  <2>3. CASE i = k + 1
    <3>1. i <= k + 1 /\ ~(i <= k) /\ i - k = 1
      BY <1>1, <2>3
    <3> QED
      BY <1>2, <2>1, <2>3, <3>1
  <2>4. CASE i > k + 1
    <3>1. /\ ~(i <= k + 1) /\ ~(i <= k) /\ i - (k + 1) \in 1 .. (m - 1)
          /\ (i - (k + 1)) + 1 = i - k
      BY <1>1, <2>4
    <3>2. to2[i - (k + 1)] = to[i - k]
      BY <1>1, <3>1
    <3> QED
      BY <2>1, <3>1, <3>2
  <2> QED
    BY <1>1, <2>2, <2>3, <2>4
<1> QED
  BY <1>3, <1>4 DEF k, m, from2, to2

\* The first b replies are taken off and datagrams are sent behind the others.
LEMMA MovingUnderWay ==
    ASSUME NEW from, NEW to, NEW from2, NEW to2, NEW b \in Nat,
           Len(from) \in Nat, Len(to) \in Nat, Len(from2) \in Nat, Len(to2) \in Nat,
           Len(from) = Len(from2) + b, Len(to2) >= Len(to),
           \A i \in 1 .. Len(from2) : from2[i] = from[i + b],
           \A i \in 1 .. Len(to) : to2[i] = to[i]
    PROVE  /\ \A i \in 1 .. (Len(from2) + Len(to)) :
                UnderWay(from2, to2)[i] = UnderWay(from, to)[i + b]
           /\ \A i \in (Len(from2) + Len(to) + 1) .. (Len(from2) + Len(to2)) :
                /\ UnderWay(from2, to2)[i] = to2[i - Len(from2)].id
                /\ i - Len(from2) \in (Len(to) + 1) .. Len(to2)
<1> DEFINE k == Len(from2)
           m == Len(to)
           m2 == Len(to2)
<1>1. k \in Nat /\ m \in Nat /\ m2 \in Nat /\ m2 >= m /\ Len(from) = k + b
  OBVIOUS
<1>2. /\ \A i \in 1 .. (k + m2) :
            UnderWay(from2, to2)[i] = IF i <= k THEN from2[i].re ELSE to2[i - k].id
      /\ \A i \in 1 .. (k + b + m) :
            UnderWay(from, to)[i] = IF i <= k + b THEN from[i].re ELSE to[i - (k + b)].id
  BY DEF UnderWay
<1>3. /\ \A i \in 1 .. k : from2[i] = from[i + b]
      /\ \A i \in 1 .. m : to2[i] = to[i]
  OBVIOUS
<1> HIDE DEF k, m, m2
<1>4. ASSUME NEW i \in 1 .. (k + m)
      PROVE  UnderWay(from2, to2)[i] = UnderWay(from, to)[i + b]
  <2>1. i \in 1 .. (k + m2) /\ i + b \in 1 .. (k + b + m)
    BY <1>1
  <2>2. CASE i <= k
    <3>1. i \in 1 .. k /\ i + b <= k + b
      BY <1>1, <2>2
    <3>2. UnderWay(from2, to2)[i] = from2[i].re
      BY <1>2, <2>1, <2>2
    <3>3. UnderWay(from, to)[i + b] = from[i + b].re
      BY <1>2, <2>1, <3>1
    <3> QED
      BY <1>3, <3>1, <3>2, <3>3
  <2>3. CASE ~(i <= k)
    <3>1. ~(i + b <= k + b) /\ i - k \in 1 .. m /\ (i + b) - (k + b) = i - k
      BY <1>1, <2>3
    <3>2. UnderWay(from2, to2)[i] = to2[i - k].id
      BY <1>2, <2>1, <2>3
    <3>3. UnderWay(from, to)[i + b] = to[i - k].id
      BY <1>2, <2>1, <3>1
    <3> QED
      BY <1>3, <3>1, <3>2, <3>3
  <2> QED
    BY <2>2, <2>3
<1>5. ASSUME NEW i \in (k + m + 1) .. (k + m2)
      PROVE  UnderWay(from2, to2)[i] = to2[i - k].id /\ i - k \in (m + 1) .. m2
  <2>1. i \in 1 .. (k + m2) /\ ~(i <= k) /\ i - k \in (m + 1) .. m2
    BY <1>1
  <2> QED
    BY <1>2, <2>1
<1> QED
  BY <1>4, <1>5 DEF k, m, m2

\* A packet is lost.
LEMMA LosingUnderWay ==
    ASSUME NEW from, from \in Seq(Replies), NEW to, to \in Seq(Datagrams), NEW from2, NEW to2,
           \/ to # <<>> /\ to2 = Tail(to) /\ from2 = from
           \/ from # <<>> /\ from2 = Tail(from) /\ to2 = to
    PROVE  /\ Len(from2) + Len(to2) \in Nat
           /\ Thinned(UnderWay(from, to), Len(from) + Len(to),
                      UnderWay(from2, to2), Len(from2) + Len(to2))
<1> DEFINE k == Len(from)
           m == Len(to)
           u == UnderWay(from, to)
           v == UnderWay(from2, to2)
<1>1. k \in Nat /\ m \in Nat
  BY LenProperties
<1>2. \A i \in 1 .. (k + m) : u[i] = IF i <= k THEN from[i].re ELSE to[i - k].id
  BY DEF UnderWay
<1>3. CASE to # <<>> /\ to2 = Tail(to) /\ from2 = from
  <2> DEFINE g == [i \in 1 .. (k + m - 1) |-> IF i <= k THEN i ELSE i + 1]
  <2>1. m >= 1 /\ Len(to2) = m - 1 /\ \A i \in 1 .. (m - 1) : to2[i] = to[i + 1]
    BY <1>3, TailFacts
  <2>2. \A i \in 1 .. (k + m - 1) : v[i] = IF i <= k THEN from[i].re ELSE to2[i - k].id
    <3>1. Len(from2) + Len(to2) = k + m - 1
      BY <1>1, <1>3, <2>1
    <3> QED
      BY <1>3, <3>1 DEF UnderWay
  <2> HIDE DEF u, v, k, m
  <2>3. g \in [1 .. (k + m - 1) -> 1 .. (k + m)]
    BY <1>1, <2>1
  <2>4. \A i, j \in 1 .. (k + m - 1) : i < j => g[i] < g[j]
    BY <1>1, <2>1
  <2>5. ASSUME NEW i \in 1 .. (k + m - 1)
        PROVE  v[i] = u[g[i]]
    <3>1. CASE i <= k
      <4>1. g[i] = i /\ i \in 1 .. (k + m)
        BY <1>1, <2>1, <3>1
      <4> QED
        BY <1>2, <2>2, <3>1, <4>1
    <3>2. CASE ~(i <= k)
      <4>1. /\ g[i] = i + 1 /\ i + 1 \in 1 .. (k + m) /\ ~(i + 1 <= k)
            /\ i - k \in 1 .. (m - 1) /\ (i + 1) - k = (i - k) + 1
        BY <1>1, <2>1, <3>2
      <4>2. v[i] = to2[i - k].id /\ u[i + 1] = to[(i + 1) - k].id
        BY <1>2, <2>2, <3>2, <4>1
      <4> QED
        BY <2>1, <4>1, <4>2
    <3> QED
      BY <3>1, <3>2
  <2> HIDE DEF g
  <2>6. Thinned(u, k + m, v, k + m - 1)
    BY <2>3, <2>4, <2>5 DEF Thinned
  <2>7. Len(from2) + Len(to2) = k + m - 1 /\ k + m - 1 \in Nat
    BY <1>1, <1>3, <2>1 DEF k
  <2> QED
    BY <2>6, <2>7 DEF u, v, k, m
<1>4. CASE from # <<>> /\ from2 = Tail(from) /\ to2 = to
  <2> DEFINE g == [i \in 1 .. (k + m - 1) |-> i + 1]
  <2> DEFINE k2 == Len(from2)
             m2 == Len(to2)
  <2>1. k >= 1 /\ k2 = k - 1 /\ m2 = m /\ \A i \in 1 .. (k - 1) : from2[i] = from[i + 1]
    BY <1>4, TailFacts
  <2>2. \A i \in 1 .. (k2 + m) : v[i] = u[i + 1]
    <3> HIDE DEF k, m, k2, m2
    <3>1. /\ k2 \in Nat /\ m2 \in Nat /\ k = k2 + 1 /\ m2 >= m
          /\ \A i \in 1 .. k2 : from2[i] = from[i + 1]
      BY <1>1, <2>1
    <3>2. \A i \in 1 .. m : to2[i] = to[i]
      BY <1>4
    <3> USE DEF k, m, k2, m2
    <3> QED
      BY <1>1, <3>1, <3>2, MovingUnderWay
  <2>3. k2 + m2 = k + m - 1 /\ k + m - 1 \in Nat /\ k2 + m = k + m - 1
    <3> HIDE DEF k, m, k2, m2
    <3> QED
      BY <1>1, <2>1
  <2> HIDE DEF u, v, k, m
  <2>4. g \in [1 .. (k + m - 1) -> 1 .. (k + m)]
    BY <1>1, <2>1
  <2>5. \A i, j \in 1 .. (k + m - 1) : i < j => g[i] < g[j]
    BY <1>1, <2>1
  <2>6. \A i \in 1 .. (k + m - 1) : v[i] = u[g[i]]
    BY <2>2, <2>3
  <2> HIDE DEF g
  <2>7. Thinned(u, k + m, v, k2 + m2)
    BY <2>3, <2>4, <2>5, <2>6 DEF Thinned
  <2>8. k2 + m2 \in Nat
    BY <2>3
  <2> QED
    BY <2>7, <2>8 DEF u, v, k, m
<1> QED
  BY <1>3, <1>4

\* A strictly increasing enumeration of a finite set reaches all of it.
LEMMA Enumerates ==
    ASSUME NEW W, IsFiniteSet(W), NEW out \in [1 .. Cardinality(W) -> W],
           \A i, j \in 1 .. Cardinality(W) : i < j => out[i] # out[j]
    PROVE  \A d \in W : \E i \in 1 .. Cardinality(W) : out[i] = d
<1> DEFINE c == Cardinality(W)
<1>1. c \in Nat
  BY FS_CardinalityType
<1>2. IsFiniteSet(1 .. c) /\ Cardinality(1 .. c) = c
  BY <1>1, FS_Interval
<1>3. \A i, j \in 1 .. c : out[i] = out[j] => i = j
  <2> SUFFICES ASSUME NEW i \in 1 .. c, NEW j \in 1 .. c, out[i] = out[j], i # j
               PROVE  FALSE
    OBVIOUS
  <2>1. i < j \/ j < i
    BY <1>1
  <2> QED
    BY <2>1
<1> HIDE DEF c
<1>4. out \in Injection(1 .. c, W)
  BY <1>3 DEF Injection, IsInjective, c
<1>5. out \in Surjection(1 .. c, W)
  BY <1>2, <1>4, FS_Injection DEF c
<1> QED
  BY <1>5 DEF Surjection, c

--------------------------------------------------------------------------------
(* What a step of the connected client does, seen from the network.          *)

\* Nothing is sent and nothing retired.
Ignores ==
    /\ UNCHANGED <<m_isConnected, m_waitingForRetryResponse, m_numInTransit, undefined>>
    /\ Retired' = Retired
    /\ m_waitingForRetryResponse => m_transList'[1].sendCount = m_transList[1].sendCount
    /\ written' = {}

\* Behind the base retired transactions, those up to h are in flight and the next sent.
SendsOn(base, h) ==
    /\ m_isConnected' /\ ~ m_waitingForRetryResponse' /\ undefined' = undefined
    /\ Retired' = base /\ h <= base + m_numInTransit'
    /\ \A d \in written' : h < d.id /\ d.id <= base + m_numInTransit'
    /\ \A id \in (h + 1) .. (base + m_numInTransit') : \E d \in written' : d.id = id

\* The oldest transaction behind the base retired ones is sent after count times.
GoesBack(base, count) ==
    /\ m_isConnected' /\ m_waitingForRetryResponse' /\ undefined' = undefined
    /\ Retired' = base /\ count <= MaxRetries
    /\ m_transList'[1].sendCount = count + 1
    /\ \A d \in written' : d.id = base + 1
    /\ \E d \in written' : d.id = base + 1

GivesUp ==
    /\ ~ m_isConnected' /\ undefined' = undefined /\ written' = {}
    /\ UNCHANGED m_waitingForRetryResponse

\* Filling the pipeline.
LEMMA TrySendSendsOn ==
    ASSUME NEW STATE L, L \in Seq(Trans), NEW STATE n, SentOnce(L, n), n <= PipelineLen,
           m_cli_seq \in SeqNums, NEW STATE running, TrySendTransactions(L, n, running),
           m_isConnected', ~ m_waitingForRetryResponse', undefined' = undefined,
           NEW STATE base, base \in Nat, Len(owner') = base + Len(L),
           \A i \in 1 .. Len(L) : L[i].id = base + i
    PROVE  SendsOn(base, base + n)
<1> DEFINE A == AfterTrySend(L, n)
           S == ToSend(L, n)
           e == WindowEnd(L)
           x == m_numInTransit'
<1>1. /\ S = (n + 1) .. e /\ Cardinality(S) = e - n /\ e \in n .. Len(L)
  BY ToSendIsInterval
<1>2. n \in Nat /\ Len(L) \in Nat
  BY LenProperties DEF SentOnce
<1>3. /\ Len(A) = Len(L) /\ \A i \in 1 .. Len(L) : A[i].id = L[i].id
  BY AfterTrySendList
<1>4. /\ m_transList' = A /\ x = n + Cardinality(S)
      /\ written' = {Datagram(A[i]) : i \in S}
  BY DEF TrySendTransactions
<1> HIDE DEF A, S, e, x
<1>5. x = e /\ e \in Nat /\ n <= e /\ e <= Len(L)
  BY <1>1, <1>2, <1>4
<1>6. Retired' = base
  BY <1>2, <1>3, <1>4 DEF Retired
<1>7. \A i \in S : i \in 1 .. Len(L) /\ Datagram(A[i]).id = base + i /\ n < i /\ i <= e
  <2> TAKE i \in S
  <2>1. i \in 1 .. Len(L) /\ n < i /\ i <= e
    BY <1>1, <1>2, <1>5
  <2>2. A[i].id = base + i
    BY <1>3, <2>1
  <2> QED
    BY <2>1, <2>2 DEF Datagram
<1>8. ASSUME NEW d \in written'
      PROVE  base + n < d.id /\ d.id <= base + x
  <2>1. PICK i \in S : d = Datagram(A[i])
    BY <1>4
  <2>2. d.id = base + i /\ i \in Nat /\ n < i /\ i <= e
    BY <1>2, <1>7, <2>1
  <2> QED
    BY <1>2, <1>5, <2>2
<1>9. ASSUME NEW id \in (base + n + 1) .. (base + x)
      PROVE  \E d \in written' : d.id = id
  <2>1. id - base \in S /\ base + (id - base) = id
    BY <1>1, <1>2, <1>5
  <2>2. Datagram(A[id - base]) \in written' /\ Datagram(A[id - base]).id = id
    BY <1>4, <1>7, <2>1
  <2> QED
    BY <2>2
<1>10. base + n <= base + x
  BY <1>2, <1>5
<1> QED
  BY <1>6, <1>8, <1>9, <1>10 DEF SendsOn, x

\* Going back to the oldest transaction.
LEMMA ResendGoesBack ==
    ASSUME NEW STATE L, L \in Seq(Trans), L # <<>>, NEW STATE n, NEW STATE running,
           NEW STATE signalled, ResendOldestTransaction(L, n, running, signalled),
           m_isConnected, undefined' = undefined,
           NEW STATE base, base \in Nat, Len(owner') = base + Len(L), L[1].id = base + 1
    PROVE  \/ L[1].sendCount > MaxRetries /\ GivesUp
           \/ GoesBack(base, L[1].sendCount)
<1> DEFINE A == AfterResend(L)
<1>1. /\ Len(A) = Len(L) /\ Len(L) >= 1 /\ Len(L) \in Nat /\ A[1].id = L[1].id
      /\ A[1].sendCount = L[1].sendCount + 1
  BY AfterResendList, LenProperties
<1>2. L[1].sendCount \in Nat /\ MaxRetries \in Nat
  <2>1. L[1] \in Trans
    BY <1>1, ElementOfSeq
  <2> QED
    BY <2>1, RetriesAssumption DEF Trans
<1>3. CASE RetriesUsedUp(L[1])
  BY <1>3 DEF ResendOldestTransaction, CloseConnection, RetriesUsedUp, GivesUp
<1>4. CASE ~ RetriesUsedUp(L[1])
  <2>1. /\ m_transList' = A /\ m_waitingForRetryResponse' /\ m_isConnected'
        /\ written' = {Datagram(A[1])}
    BY <1>4 DEF ResendOldestTransaction
  <2>2. L[1].sendCount <= MaxRetries
    BY <1>2, <1>4 DEF RetriesUsedUp
  <2> HIDE DEF A
  <2>3. Datagram(A[1]).id = base + 1
    BY <1>1 DEF Datagram
  <2>4. Retired' = base
    BY <1>1, <2>1 DEF Retired
  <2> QED
    BY <1>1, <2>1, <2>2, <2>3, <2>4 DEF GoesBack
<1> QED
  BY <1>3, <1>4

\* What the invariant says of the whole list.
LEMMA ListFacts ==
    ASSUME IInv
    PROVE  /\ m_transList \in Seq(Trans) /\ Retired \in Nat
           /\ Len(owner) = Retired + Len(m_transList)
           /\ \A i \in 1 .. Len(m_transList) : m_transList[i].id = Retired + i
           /\ ~ m_waitingForRetryResponse =>
                /\ SentOnce(m_transList, m_numInTransit)
                /\ m_numInTransit \in Nat /\ m_numInTransit <= PipelineLen
                /\ m_numInTransit <= Len(m_transList)
                /\ m_transList # <<>> => /\ m_numInTransit >= 1
                                         /\ m_transList[1].sendCount = 1
<1>1. /\ m_transList \in Seq(Trans) /\ Len(m_transList) \in Nat /\ Len(owner) \in Nat
      /\ PipelineLen \in Nat \ {0}
  BY Facts, PipelineAssumption DEF IInv, Typed
<1>2. /\ Len(m_transList) <= Len(owner)
      /\ \A i \in 1 .. Len(m_transList) :
            m_transList[i].id = Len(owner) - Len(m_transList) + i
  BY DEF IInv, Consecutive
<1>3. /\ Retired \in Nat /\ Len(owner) = Retired + Len(m_transList)
      /\ \A i \in 1 .. Len(m_transList) : m_transList[i].id = Retired + i
  BY <1>1, <1>2 DEF Retired
<1>4. ASSUME ~ m_waitingForRetryResponse
      PROVE  /\ SentOnce(m_transList, m_numInTransit)
             /\ m_numInTransit \in Nat /\ m_numInTransit <= PipelineLen
             /\ m_numInTransit <= Len(m_transList)
             /\ m_transList # <<>> => /\ m_numInTransit >= 1
                                      /\ m_transList[1].sendCount = 1
  <2>1. SentOnce(m_transList, m_numInTransit) /\ m_numInTransit = WindowEnd(m_transList)
    BY <1>4 DEF IInv, Window
  <2>2. /\ m_numInTransit \in Nat /\ m_numInTransit <= PipelineLen
        /\ m_numInTransit <= Len(m_transList)
        /\ Len(m_transList) >= 1 => m_numInTransit >= 1
    BY <1>1, <2>1 DEF WindowEnd
  <2>3. m_transList # <<>> => Len(m_transList) >= 1
    BY <1>1, EmptySeq
  <2>4. m_transList # <<>> => m_transList[1].sendCount = 1
    BY <1>1, <2>1, <2>2, <2>3 DEF SentOnce
  <2> QED
    BY <2>1, <2>2, <2>3, <2>4
<1> QED
  BY <1>1, <1>3, <1>4

\* Requests: nothing is sent while a retry is pending.
LEMMA UserEffect ==
    ASSUME IInv, m_isConnected, UserNext
    PROVE  \/ Ignores
           \/ ~ m_waitingForRetryResponse /\ SendsOn(Retired, Retired + m_numInTransit)
<1>1. CASE OpenChannel
  BY <1>1 DEF OpenChannel, Ignores, Retired
<1>2. ASSUME NEW s \in DOMAIN m_chans, Dispose(s) PROVE Ignores
  BY <1>2 DEF Dispose, Ignores, Retired
<1>3. ASSUME NEW s \in DOMAIN m_chans, RwNotConnected(s) PROVE FALSE
  BY <1>3 DEF RwNotConnected
<1>4. ASSUME NEW s \in DOMAIN m_chans, NEW n \in RequestSizes, Rw(s, n)
      PROVE  \/ Ignores
             \/ ~ m_waitingForRetryResponse /\ SendsOn(Retired, Retired + m_numInTransit)
  <2> DEFINE p == NumPieces(n)
             L == PushBack(s, p)
             k == Len(m_transList)
             R == Retired
  <2>1. p \in Nat /\ s \in 1 .. Len(m_chans)
    BY NumPiecesType, Facts
  <2>2. /\ L \in Seq(Trans) /\ Len(L) = k + p
        /\ \A i \in 1 .. k : L[i] = m_transList[i]
        /\ \A i \in (k + 1) .. (k + p) : L[i] = Transaction(Len(owner) + (i - k), s)
    BY <2>1, RwList
  <2>3. Len(owner') = Len(owner) + p
    BY <1>4, RequestList
  <2>4. k \in Nat /\ R \in Nat /\ Len(owner) = R + k
    BY Facts, ListFacts
  <2>5. UNCHANGED <<m_isConnected, m_waitingForRetryResponse, undefined>>
    BY <1>4 DEF Rw
  <2>6. CASE m_waitingForRetryResponse
    <3>1. m_transList' = L /\ written' = {} /\ m_numInTransit' = m_numInTransit
      BY <1>4, <2>6 DEF Rw
    <3>2. k >= 1
      <4>1. m_transList # <<>>
        BY <2>6 DEF IInv, Window
      <4> QED
        BY <2>4, <4>1, EmptySeq DEF IInv, Typed
    <3> HIDE DEF L, p, k, R
    <3>3. L[1] = m_transList[1]
      BY <2>2, <2>4, <3>2
    <3>4. Retired' = Len(owner') - Len(L)
      BY <3>1 DEF Retired
    <3>5. Retired' = R
      BY <2>1, <2>2, <2>3, <2>4, <3>4
    <3> QED
      BY <2>5, <3>1, <3>3, <3>5 DEF Ignores, R
  <2>7. CASE ~ m_waitingForRetryResponse
    <3>1. TrySendTransactions(L, m_numInTransit, m_timer) /\ m_cli_seq \in SeqNums
      BY <1>4, <2>7 DEF Rw, IInv, Typed
    <3>2. /\ SentOnce(m_transList, m_numInTransit) /\ m_numInTransit \in Nat
          /\ m_numInTransit <= PipelineLen /\ m_numInTransit <= k
          /\ \A i \in 1 .. k : m_transList[i].id = R + i
      BY <2>7, ListFacts
    <3> HIDE DEF L, p, k, R
    <3>3. ASSUME NEW i \in 1 .. Len(L)
          PROVE  /\ L[i].id = R + i
                 /\ L[i].sendCount = IF i <= m_numInTransit THEN 1 ELSE 0
      <4>1. CASE i \in 1 .. k
        BY <2>2, <3>2, <4>1 DEF SentOnce, k
      <4>2. CASE i \in (k + 1) .. (k + p)
        <5>1. L[i].id = Len(owner) + (i - k) /\ L[i].sendCount = 0
          BY <2>2, <4>2, NewTransaction
        <5>2. Len(owner) + (i - k) = R + i /\ ~(i <= m_numInTransit)
          BY <2>4, <3>2, <4>2
        <5> QED
          BY <5>1, <5>2
      <4> QED
        BY <2>1, <2>2, <2>4, <4>1, <4>2
    <3>4. SentOnce(L, m_numInTransit)
      BY <2>1, <2>2, <2>4, <3>2, <3>3 DEF SentOnce
    <3>5. Len(owner') = R + Len(L)
      BY <2>1, <2>2, <2>3, <2>4
    <3>6. SendsOn(R, R + m_numInTransit)
      BY <2>2, <2>4, <2>5, <2>7, <3>1, <3>2, <3>3, <3>4, <3>5, TrySendSendsOn
    <3> QED
      BY <2>7, <3>6 DEF R
  <2> QED
    BY <2>6, <2>7
<1> QED
  BY <1>1, <1>2, <1>3, <1>4 DEF UserNext

\* The front of the whole list is sent again.
LEMMA ResendEffect ==
    ASSUME IInv, m_transList # <<>>, NEW STATE running,
           ResendOldestTransaction(m_transList, m_numInTransit, running, results),
           UNCHANGED vars1
    PROVE  \/ m_transList[1].sendCount > MaxRetries /\ GivesUp
           \/ GoesBack(Retired, m_transList[1].sendCount)
<1>1. /\ m_isConnected /\ Len(m_transList) \in Nat /\ Len(m_transList) >= 1
  BY FrontFacts
<1>2. /\ m_transList \in Seq(Trans) /\ Retired \in Nat
      /\ Len(owner) = Retired + Len(m_transList) /\ m_transList[1].id = Retired + 1
  BY <1>1, ListFacts
<1>3. owner' = owner /\ undefined' = undefined
  BY DEF vars1
<1> HIDE DEF Retired
<1> QED
  BY <1>1, <1>2, <1>3, ResendGoesBack

LEMMA TimeoutEffect ==
    ASSUME IInv, OnPktTimeout
    PROVE  /\ m_transList # <<>>
           /\ \/ m_transList[1].sendCount > MaxRetries /\ GivesUp
              \/ GoesBack(Retired, m_transList[1].sendCount)
<1>1. m_transList # <<>>
  BY DEF OnPktTimeout, IInv, Window
<1>2. /\ ResendOldestTransaction(m_transList, m_numInTransit, FALSE, results)
      /\ UNCHANGED vars1
  BY <1>1 DEF OnPktTimeout, ReadFrontOfEmptyList, vars1
<1> QED
  BY <1>1, <1>2, ResendEffect

\* The reply to the oldest transaction.  The next one is only sent again at once when
\* it was in flight, with no retry pending.
LEMMA ReplyEffect ==
    ASSUME IInv, NEW STATE pkt, NEW STATE expired, RxReply(pkt, expired)
    PROVE  \/ SendsOn(Retired + 1, Retired + 1 + InFlightAfterReply)
           \/ /\ expired /\ Len(m_transList) > 1 /\ ~ m_waitingForRetryResponse
              /\ m_numInTransit >= 2 /\ GoesBack(Retired + 1, 1)
<1> DEFINE rest == Retire(m_transList)
           nextSent == rest # <<>> /\ rest[1].sendCount > 0
           signalled == results \cup Signal(m_transList[1], pkt.op)
           n == InFlightAfterReply
           B == Retired + 1
           k == Len(m_transList)
<1>1. m_transList # <<>> /\ owner' = owner /\ undefined' = undefined
  BY DEF RxReply
<1>2. m_isConnected /\ k \in Nat /\ k >= 1
  BY <1>1, FrontFacts
<1>3. /\ rest \in Seq(Trans) /\ Len(rest) = k - 1
      /\ \A i \in 1 .. Len(rest) : rest[i] = m_transList[i + 1]
      /\ SentOnce(rest, n) /\ n \in Nat /\ n <= PipelineLen
  BY <1>1, RetireFront
<1>4. /\ Retired \in Nat /\ Len(owner) = Retired + k
      /\ \A i \in 1 .. k : m_transList[i].id = Retired + i
  BY ListFacts
<1>5. B \in Nat /\ Len(owner') = B + Len(rest) /\ B = Retired + 1
  <2> HIDE DEF rest, k
  <2>1. Len(owner) = Retired + 1 + (k - 1)
    BY <1>2, <1>4
  <2> QED
    BY <1>1, <1>3, <1>4, <2>1
<1>6. \A i \in 1 .. Len(rest) : rest[i].id = B + i
  <2> HIDE DEF rest, k
  <2> TAKE i \in 1 .. Len(rest)
  <2>1. i + 1 \in 1 .. k /\ Retired + (i + 1) = Retired + 1 + i
    BY <1>2, <1>3, <1>4
  <2>2. rest[i].id = Retired + (i + 1)
    BY <1>3, <1>4, <2>1
  <2> QED
    BY <2>1, <2>2
<1>7. \/ nextSent /\ expired /\ ResendOldestTransaction(rest, n, FALSE, signalled)
      \/ /\ ~ m_waitingForRetryResponse' /\ TrySendTransactions(rest, n, nextSent)
         /\ UNCHANGED m_isConnected
  BY DEF RxReply
<1> HIDE DEF rest, signalled, n, B, k
<1>8. CASE nextSent /\ expired /\ ResendOldestTransaction(rest, n, FALSE, signalled)
  <2>1. rest # <<>> /\ Len(rest) \in Nat /\ Len(rest) >= 1
    BY <1>3, <1>8, EmptySeq, LenProperties
  <2>2. rest[1].sendCount = 1 /\ n >= 1
    BY <1>3, <1>8, <2>1 DEF SentOnce
  <2>3. ~ m_waitingForRetryResponse /\ m_numInTransit \in Nat /\ n = m_numInTransit - 1
    <3>1. ~ m_waitingForRetryResponse
      BY <2>2 DEF n, InFlightAfterReply
    <3> QED
      BY <3>1, ListFacts DEF n, InFlightAfterReply
  <2>4. rest[1].id = B + 1
    BY <1>6, <2>1
  <2>5. \/ rest[1].sendCount > MaxRetries /\ GivesUp
        \/ GoesBack(B, rest[1].sendCount)
    BY <1>1, <1>2, <1>3, <1>5, <1>8, <2>1, <2>4, ResendGoesBack
  <2>6. GoesBack(B, 1)
    BY <2>2, <2>5, RetriesAssumption
  <2>7. Len(m_transList) > 1 /\ m_numInTransit >= 2
    BY <1>2, <1>3, <2>1, <2>2, <2>3 DEF k
  <2> QED
    BY <1>8, <2>3, <2>6, <2>7 DEF B
<1>9. CASE /\ ~ m_waitingForRetryResponse' /\ TrySendTransactions(rest, n, nextSent)
           /\ UNCHANGED m_isConnected
  <2>1. m_isConnected' /\ ~ m_waitingForRetryResponse' /\ m_cli_seq \in SeqNums
    BY <1>2, <1>9 DEF IInv, Typed
  <2> HIDE DEF nextSent
  <2>2. SendsOn(B, B + n)
    BY <1>1, <1>3, <1>5, <1>6, <1>9, <2>1, TrySendSendsOn
  <2> QED
    BY <2>2 DEF B, n
<1> QED
  BY <1>7, <1>8, <1>9

\* A packet, by whether it is the one that is waited for.
LEMMA PacketEffect ==
    ASSUME IInv, m_transList # <<>>, NEW STATE pkt, pkt.op \in {"ACK", "NACKT"},
           NEW STATE expired, OnPktRxReady(pkt, expired)
    PROVE  \/ IsMismatch(pkt) /\ m_waitingForRetryResponse /\ Ignores
           \/ IsMismatch(pkt) /\ ~ m_waitingForRetryResponse /\ GoesBack(Retired, 1)
           \/ /\ ~ IsMismatch(pkt)
              /\ \/ SendsOn(Retired + 1, Retired + 1 + InFlightAfterReply)
                 \/ /\ expired /\ Len(m_transList) > 1 /\ ~ m_waitingForRetryResponse
                    /\ m_numInTransit >= 2 /\ GoesBack(Retired + 1, 1)
<1>1. ~ RxMalformed(pkt) /\ ~ RxEmptyList(pkt)
  BY DEF RxMalformed, RxEmptyList, ReadFrontOfEmptyList
<1>2. ~ RxUnexpected(pkt)
  BY DEF RxUnexpected, IsMismatch
<1>3. CASE RxMismatch(pkt)
  <2>1. IsMismatch(pkt) /\ UNCHANGED vars1
    BY <1>3 DEF RxMismatch, vars1
  <2>2. CASE MayRetry
    <3>1. ~ m_waitingForRetryResponse
      BY <2>2 DEF MayRetry
    <3>2. ResendOldestTransaction(m_transList, m_numInTransit, m_timer, results)
      BY <1>3, <2>2 DEF RxMismatch
    <3>3. m_transList[1].sendCount = 1
      BY <3>1, ListFacts
    <3>4. GoesBack(Retired, 1)
      BY <2>1, <3>2, <3>3, ResendEffect, RetriesAssumption
    <3> QED
      BY <2>1, <3>1, <3>4
  <2>3. CASE ~ MayRetry
    <3>1. m_waitingForRetryResponse /\ Ignores
      BY <1>3, <2>3 DEF RxMismatch, MayRetry, Ignores, Retired
    <3> QED
      BY <2>1, <3>1
  <2> QED
    BY <2>2, <2>3
<1>4. CASE RxReply(pkt, expired)
  <2>1. ~ IsMismatch(pkt)
    BY <1>4 DEF RxReply
  <2> QED
    BY <1>4, <2>1, ReplyEffect
<1> QED
  BY <1>1, <1>2, <1>3, <1>4 DEF OnPktRxReady

--------------------------------------------------------------------------------
(* What that does to what is under way.                                      *)

\* Of u the first b are gone, and transmissions of all of W are behind the rest, in order.
Moved(u, n, v, m, b, W) ==
    /\ n \in Nat /\ m \in Nat /\ b \in {0, 1} /\ b <= n /\ n - b <= m
    /\ \A i \in 1 .. (n - b) : v[i] = u[i + b]
    /\ \A i \in (n - b + 1) .. m : v[i] \in W
    /\ \A i, j \in (n - b + 1) .. m : i < j => v[i] < v[j]
    /\ \A id \in W : \E i \in (n - b + 1) .. m : v[i] = id

LEMMA MovedRest ==
    ASSUME NEW u, NEW n, NEW v, NEW m, NEW b, NEW W, Moved(u, n, v, m, b, W)
    PROVE  /\ n \in Nat /\ m \in Nat /\ b \in Nat /\ n - b \in Nat /\ n - b <= m
           /\ Thinned(u, n, v, n - b)
<1>1. /\ n \in Nat /\ m \in Nat /\ b \in Nat /\ n - b \in Nat /\ n - b <= m
      /\ \A i \in 1 .. (n - b) : v[i] = u[i + b]
  BY DEF Moved
<1> DEFINE g == [i \in 1 .. (n - b) |-> i + b]
<1>2. g \in [1 .. (n - b) -> 1 .. n]
  BY <1>1
<1>3. /\ \A i \in 1 .. (n - b) : v[i] = u[g[i]]
      /\ \A i, j \in 1 .. (n - b) : i < j => g[i] < g[j]
  BY <1>1
<1> HIDE DEF g
<1> QED
  BY <1>1, <1>2, <1>3 DEF Thinned

\* What is sent is under way.
LEMMA MovedSent ==
    ASSUME NEW u, NEW n, NEW v, NEW m, NEW b, NEW W, Moved(u, n, v, m, b, W), NEW id \in W
    PROVE  Has(v, m, id)
<1>1. n - b \in Nat
  BY MovedRest
<1>2. PICK i \in (n - b + 1) .. m : v[i] = id
  BY DEF Moved
<1>3. i \in 1 .. m
  BY <1>1
<1> QED
  BY <1>2, <1>3 DEF Has

\* What is not taken stays under way.
LEMMA MovedKept ==
    ASSUME NEW u, NEW n, NEW v, NEW m, NEW b, NEW W, Moved(u, n, v, m, b, W),
           NEW id, Has(u, n, id), b = 1 => u[1] # id
    PROVE  Has(v, m, id)
<1>1. /\ n \in Nat /\ m \in Nat /\ b \in {0, 1} /\ n - b <= m
      /\ \A i \in 1 .. (n - b) : v[i] = u[i + b]
  BY DEF Moved
<1>2. PICK i \in 1 .. n : u[i] = id
  BY DEF Has
<1>3. i - b \in 1 .. (n - b) /\ (i - b) + b = i /\ i - b \in 1 .. m
  <2>1. CASE b = 0
    BY <1>1, <2>1
  <2>2. CASE b = 1
    <3>1. i # 1
      BY <1>2, <2>2
    <3> QED
      BY <1>1, <2>2, <3>1
  <2> QED
    BY <1>1, <2>1, <2>2
<1>4. v[i - b] = id
  BY <1>1, <1>2, <1>3
<1> QED
  BY <1>3, <1>4 DEF Has

\* Nothing is sent.
LEMMA IgnoredMoves ==
    ASSUME NEW u, NEW n, NEW v, NEW m, NEW b, Moved(u, n, v, m, b, {}),
           NEW waiting \in BOOLEAN, NEW base \in Nat, NEW top \in Int, NEW sent, NEW count,
           NEW losses, Orderly(u, n, waiting, base, top),
           Explained(u, n, waiting, base, sent, count, losses),
           b = 1 => waiting /\ u[1] # base + 1
    PROVE  /\ Orderly(v, m, waiting, base, top)
           /\ Explained(v, m, waiting, base, sent, count, losses)
<1>1. /\ n \in Nat /\ m \in Nat /\ n - b \in Nat /\ n - b <= m
      /\ Thinned(u, n, v, n - b)
  BY MovedRest
<1>2. m = n - b
  <2> SUFFICES ASSUME n - b < m PROVE FALSE
    BY <1>1
  <2>1. n - b + 1 \in (n - b + 1) .. m
    BY <1>1
  <2> QED
    BY <2>1 DEF Moved
<1>3. Orderly(v, m, waiting, base, top)
  <2>1. Orderly(v, n - b, waiting, base, top)
    BY <1>1, ThinnedOrderly
  <2> QED
    BY <1>2, <2>1
<1>4. \A id : (b = 1 => u[1] # id) /\ Has(u, n, id) => Has(v, m, id)
  BY MovedKept
<1>5. CASE waiting
  <2>1. Has(u, n, base + 1) => Has(v, m, base + 1)
    BY <1>4, <1>5
  <2>2. Explained(v, m, waiting, base, sent, count, losses)
    BY <1>5, <2>1 DEF Explained
  <2> QED
    BY <1>3, <2>2
<1>6. CASE ~ waiting
  <2>1. \A id : Has(u, n, id) => Has(v, m, id)
    BY <1>4, <1>6
  <2>2. Explained(v, m, waiting, base, sent, count, losses)
    BY <1>6, <2>1 DEF Explained
  <2> QED
    BY <1>3, <2>2
<1> QED
  BY <1>5, <1>6

\* The pipeline is filled, with no reply handled.
LEMMA SendingMoves ==
    ASSUME NEW u, NEW n, NEW v, NEW m, NEW W, Moved(u, n, v, m, 0, W),
           NEW base \in Nat, NEW sent \in Nat, NEW sent2 \in Nat, sent <= sent2,
           NEW count, NEW losses,
           Orderly(u, n, FALSE, base, base + sent),
           Explained(u, n, FALSE, base, sent, count, losses),
           W = (base + sent + 1) .. (base + sent2)
    PROVE  /\ Orderly(v, m, FALSE, base, base + sent2)
           /\ Explained(v, m, FALSE, base, sent2, count, losses)
<1>1. /\ n \in Nat /\ m \in Nat /\ n - 0 = n /\ n <= m
      /\ \A i \in 1 .. n : v[i] = u[i]
      /\ \A i \in (n + 1) .. m : v[i] \in W
      /\ \A i, j \in (n + 1) .. m : i < j => v[i] < v[j]
  BY DEF Moved
<1>2. \A i \in (n + 1) .. m : v[i] \in Nat /\ base + sent < v[i] /\ v[i] <= base + sent2
  <2>1. \A id \in W : id \in Nat /\ base + sent < id /\ id <= base + sent2
    OBVIOUS
  <2> QED
    BY <1>1, <2>1
<1>3. Orderly(v, m, FALSE, base, base + sent2)
  <2> DEFINE h == base + sent
             t == base + sent2
  <2>1. base <= h /\ h <= t /\ t \in Int /\ h \in Int /\ base \in Int
    OBVIOUS
  <2>2. Orderly(u, n, FALSE, base, h)
    OBVIOUS
  <2>3. \A i \in (n + 1) .. m : v[i] \in Nat /\ h < v[i] /\ v[i] <= t
    BY <1>2
  <2> HIDE DEF h, t
  <2>4. Orderly(v, m, FALSE, base, t)
    BY <1>1, <2>1, <2>2, <2>3, SentOnOrderly
  <2> QED
    BY <2>4 DEF t
<1>4. ASSUME NEW id \in (base + 1) .. (base + sent2)
      PROVE  Has(v, m, id) \/ losses >= 1
  <2>1. CASE id \in (base + 1) .. (base + sent)
    <3>1. Has(u, n, id) \/ losses >= 1
      BY <2>1 DEF Explained
    <3> QED
      BY <3>1, MovedKept
  <2>2. CASE id \in W
    BY <2>2, MovedSent
  <2> QED
    BY <2>1, <2>2
<1> QED
  BY <1>3, <1>4 DEF Explained

\* The reply to the oldest transaction, and the pipeline is filled.
LEMMA AnsweredMoves ==
    ASSUME NEW u, NEW n, NEW v, NEW m, NEW W, Moved(u, n, v, m, 1, W),
           NEW base \in Nat, NEW left \in Nat, NEW sent2 \in Nat, left <= sent2, NEW count,
           NEW losses, Orderly(v, n - 1, FALSE, base + 1, base + 1 + left),
           \A id \in (base + 1 + 1) .. (base + 1 + left) : Has(u, n, id) \/ losses >= 1,
           u[1] = base + 1,
           W = (base + 1 + left + 1) .. (base + 1 + sent2)
    PROVE  /\ Orderly(v, m, FALSE, base + 1, base + 1 + sent2)
           /\ Explained(v, m, FALSE, base + 1, sent2, count, losses)
<1>1. /\ n \in Nat /\ m \in Nat /\ n >= 1 /\ n - 1 \in Nat /\ n - 1 <= m
      /\ \A i \in 1 .. (n - 1) : v[i] = u[i + 1]
      /\ \A i \in ((n - 1) + 1) .. m : v[i] \in W
      /\ \A i, j \in ((n - 1) + 1) .. m : i < j => v[i] < v[j]
  BY DEF Moved
<1> DEFINE B == base + 1
           h == B + left
           t == B + sent2
<1>2. B \in Nat /\ h \in Int /\ t \in Int /\ B <= h /\ h <= t
  OBVIOUS
<1>3. \A i \in ((n - 1) + 1) .. m : v[i] \in Nat /\ h < v[i] /\ v[i] <= t
  <2>1. \A id \in W : id \in Nat /\ h < id /\ id <= t
    OBVIOUS
  <2> HIDE DEF h, t
  <2> QED
    BY <1>1, <2>1
<1>4. Orderly(v, m, FALSE, B, t)
  <2> DEFINE k == n - 1
  <2>1. k \in Nat /\ k <= m /\ m \in Nat /\ B \in Int
    BY <1>1, <1>2
  <2>2. /\ \A i \in 1 .. k : v[i] = v[i]
        /\ \A i \in (k + 1) .. m : v[i] \in Nat /\ h < v[i] /\ v[i] <= t
        /\ \A i, j \in (k + 1) .. m : i < j => v[i] < v[j]
        /\ Orderly(v, k, FALSE, B, h)
    BY <1>1, <1>3
  <2> HIDE DEF B, h, t, k
  <2> QED
    BY ONLY <1>2, <2>1, <2>2, SentOnOrderly
<1>5. ASSUME NEW id \in (B + 1) .. t
      PROVE  Has(v, m, id) \/ losses >= 1
  <2>1. CASE id \in W
    BY <2>1, MovedSent
  <2>2. CASE id \notin W
    <3>1. id \in (base + 1 + 1) .. (base + 1 + left) /\ u[1] # id
      BY <2>2
    <3>2. Has(u, n, id) \/ losses >= 1
      BY <3>1
    <3> QED
      BY <3>1, <3>2, MovedKept
  <2> QED
    BY <2>1, <2>2
<1> QED
  BY <1>4, <1>5 DEF Explained

\* Going back to the oldest transaction, the first base + 1 of those left under way, or
\* the only one, when none of its transmissions is among them.
LEMMA GoingBackMoves ==
    ASSUME NEW u, NEW n, NEW v, NEW m, NEW b, NEW W, Moved(u, n, v, m, b, W),
           NEW base \in Nat, NEW h \in Int, NEW top \in Int, h <= top, base + 1 <= top,
           Orderly(v, n - b, FALSE, base, h),
           \A i \in 1 .. (n - b) : v[i] # base + 1,
           NEW sent, NEW count \in Nat, NEW losses \in Nat, count <= losses,
           W = {base + 1}
    PROVE  /\ Orderly(v, m, TRUE, base, top)
           /\ Explained(v, m, TRUE, base, sent, count + 1, losses)
<1>1. /\ n \in Nat /\ m \in Nat /\ n - b \in Nat /\ n - b <= m
      /\ \A i \in ((n - b) + 1) .. m : v[i] = base + 1
      /\ \A i, j \in ((n - b) + 1) .. m : i < j => v[i] < v[j]
  BY MovedRest DEF Moved
<1> DEFINE k == n - b
<1> HIDE DEF k
<1>2. /\ k \in Nat /\ k <= m
      /\ \A i \in (k + 1) .. m : v[i] = base + 1
      /\ \A i, j \in (k + 1) .. m : i < j => v[i] < v[j]
      /\ \A i \in 1 .. k : v[i] # base + 1
      /\ \A i \in 1 .. k : v[i] = v[i]
      /\ Orderly(v, k, FALSE, base, h)
  BY <1>1 DEF k
<1>3. Orderly(v, m, TRUE, base, top)
  BY <1>1, <1>2, SentAgainOrderly
<1>4. Has(v, m, base + 1)
  BY MovedSent
<1>5. count + 1 <= losses + 1
  OBVIOUS
<1> QED
  BY <1>3, <1>4, <1>5 DEF Explained

--------------------------------------------------------------------------------
(* The invariant.                                                            *)

Way == UnderWay(fromFpga, toFpga)
Num == Len(fromFpga) + Len(toFpga)
WrittenIds == {d.id : d \in written}

\* The last transaction that may be under way.
Top == Retired + (IF m_waitingForRetryResponse THEN PipelineLen ELSE m_numInTransit)

Timely ==
    /\ ~ undefined /\ lost \in Nat
    /\ m_isConnected =>
        /\ Orderly(Way, Num, m_waitingForRetryResponse, Retired, Top)
        /\ Explained(Way, Num, m_waitingForRetryResponse, Retired, m_numInTransit,
                     m_transList[1].sendCount, lost)
        /\ Rejected(Retired, fromFpga)
    /\ ~ m_isConnected => toFpga = <<>> /\ fromFpga = <<>> /\ lost > MaxRetries

\* What a step of the client writes goes out behind what is under way.
LEMMA TransmitsWritten ==
    ASSUME IInv', Numbering', WrittenMarked', NetTypes, Transmits
    PROVE  /\ toFpga' \in Seq(Datagrams) /\ Len(toFpga') \in Nat
           /\ Len(toFpga) \in Nat /\ Len(toFpga) <= Len(toFpga')
           /\ \A i \in 1 .. Len(toFpga) : toFpga'[i] = toFpga[i]
           /\ \A i \in (Len(toFpga) + 1) .. Len(toFpga') : toFpga'[i].id \in WrittenIds'
           /\ \A i, j \in (Len(toFpga) + 1) .. Len(toFpga') :
                    i < j => toFpga'[i].id < toFpga'[j].id
           /\ \A id \in WrittenIds' :
                    \E i \in (Len(toFpga) + 1) .. Len(toFpga') : toFpga'[i].id = id
<1> DEFINE W == written'
           I == WrittenIds'
           c == Cardinality(W)
           m == Len(toFpga)
<1>1. /\ IsFiniteSet(W) /\ \A d \in W : d.id \in Nat
      /\ W \subseteq Datagrams
  <2>1. W \subseteq [id : Nat \ {0}, seq : SeqNums]
    BY DEF IInv, Typed
  <2> QED
    BY <2>1, WrittenInReach DEF Datagrams
<1>2. c \in Nat /\ toFpga \in Seq(Datagrams) /\ m \in Nat
  BY <1>1, FS_CardinalityType, NetFacts DEF NetTypes
<1>3. PICK out \in [1 .. c -> W] :
            /\ \A i, j \in DOMAIN out : i < j => out[i].id < out[j].id
            /\ toFpga' = toFpga \o out
  BY DEF Transmits
<1>4. I = {d.id : d \in W}
  BY DEF WrittenIds
<1> HIDE DEF W, I
<1>5. /\ \A i \in 1 .. c : out[i] \in W /\ out[i].id \in Nat
      /\ \A i, j \in 1 .. c : i < j => out[i].id < out[j].id
  BY <1>1, <1>3
<1>6. \A i, j \in 1 .. c : i < j => out[i] # out[j]
  BY <1>5
<1>7. \A d \in W : \E i \in 1 .. c : out[i] = d
  BY <1>1, <1>3, <1>6, Enumerates
<1> HIDE DEF c
<1>8. out \in [1 .. c -> Datagrams]
  BY <1>1, <1>3
<1>9. out \in Seq(Datagrams) /\ Len(out) = c
  BY <1>2, <1>8, SeqOfFunction
<1>10. /\ toFpga' \in Seq(Datagrams) /\ Len(toFpga') = m + c
       /\ \A i \in 1 .. m : toFpga'[i] = toFpga[i]
       /\ \A i \in 1 .. c : toFpga'[m + i] = out[i]
  <2> DEFINE T == toFpga \o out
  <2>1. /\ T \in Seq(Datagrams) /\ Len(T) = m + c
        /\ \A i \in 1 .. Len(T) : T[i] = IF i <= m THEN toFpga[i] ELSE out[i - m]
    BY <1>2, <1>9, ConcatProperties
  <2> HIDE DEF T, m
  <2>2. /\ \A i \in 1 .. m : T[i] = toFpga[i]
        /\ \A i \in 1 .. c : T[m + i] = out[i]
    BY <1>2, <2>1
  <2>3. toFpga' = T
    BY <1>3 DEF T, m
  <2> QED
    BY <2>1, <2>2, <2>3
<1> DEFINE t == Len(toFpga')
<1>11. t = m + c /\ t \in Nat /\ m <= t
  BY <1>2, <1>10
<1> HIDE DEF t, m
<1>12. \A i \in (m + 1) .. t : i - m \in 1 .. c /\ toFpga'[i] = out[i - m]
  <2> TAKE i \in (m + 1) .. t
  <2>1. i - m \in 1 .. c /\ m + (i - m) = i
    BY <1>2, <1>11
  <2> QED
    BY <1>10, <2>1
<1>13. \A i \in (m + 1) .. t : toFpga'[i].id \in I
  BY <1>4, <1>5, <1>12
<1>14. \A i, j \in (m + 1) .. t : i < j => toFpga'[i].id < toFpga'[j].id
  <2> SUFFICES ASSUME NEW i \in (m + 1) .. t, NEW j \in (m + 1) .. t, i < j
               PROVE  toFpga'[i].id < toFpga'[j].id
    OBVIOUS
  <2>1. i - m < j - m
    BY <1>2, <1>11
  <2> QED
    BY <1>5, <1>12, <2>1
<1>15. \A id \in I : \E i \in (m + 1) .. t : toFpga'[i].id = id
  <2> SUFFICES ASSUME NEW id \in I PROVE \E i \in (m + 1) .. t : toFpga'[i].id = id
    OBVIOUS
  <2>1. PICK d \in W : d.id = id
    BY <1>4
  <2>2. PICK i \in 1 .. c : out[i] = d
    BY <1>7
  <2>3. m + i \in (m + 1) .. t /\ toFpga'[m + i] = d
    BY <1>2, <1>10, <1>11, <2>2
  <2> QED
    BY <2>1, <2>3
<1> QED
  BY <1>2, <1>10, <1>11, <1>13, <1>14, <1>15 DEF t, m, I

\* A step of the client that takes b replies moves the rest up.
LEMMA ClientMoves ==
    ASSUME IInv', Numbering', WrittenMarked', NetTypes, Transmits, NEW b \in {0, 1},
           \/ b = 0 /\ fromFpga' = fromFpga
           \/ b = 1 /\ fromFpga # <<>> /\ fromFpga' = Tail(fromFpga)
    PROVE  Moved(Way, Num, Way', Num', b, WrittenIds')
<1> DEFINE k == Len(fromFpga)
           k2 == Len(fromFpga')
           m == Len(toFpga)
           m2 == Len(toFpga')
           I == WrittenIds'
<1>1. /\ m2 \in Nat /\ m \in Nat /\ m <= m2
      /\ \A i \in 1 .. m : toFpga'[i] = toFpga[i]
      /\ \A i \in (m + 1) .. m2 : toFpga'[i].id \in I
      /\ \A i, j \in (m + 1) .. m2 : i < j => toFpga'[i].id < toFpga'[j].id
      /\ \A id \in I : \E i \in (m + 1) .. m2 : toFpga'[i].id = id
  BY TransmitsWritten
<1>2. k \in Nat /\ fromFpga \in Seq(Replies)
  BY NetFacts DEF NetTypes
<1>3. /\ k2 \in Nat /\ k = k2 + b /\ b \in Nat
      /\ \A i \in 1 .. k2 : fromFpga'[i] = fromFpga[i + b]
  <2>1. CASE b = 0 /\ fromFpga' = fromFpga
    <3>1. \A i \in 1 .. k : i + 0 = i
      BY <1>2
    <3> QED
      BY <1>2, <2>1, <3>1
  <2>2. CASE b = 1 /\ fromFpga # <<>> /\ fromFpga' = Tail(fromFpga)
    <3> DEFINE T == Tail(fromFpga)
    <3>1. /\ T \in Seq(Replies) /\ Len(T) = k - 1
          /\ \A i \in 1 .. Len(T) : T[i] = fromFpga[i + 1]
      BY <1>2, <2>2, TailFacts
    <3>2. fromFpga' = T
      BY <2>2
    <3> HIDE DEF T
    <3>3. Len(T) \in Nat
      BY <3>1, LenProperties
    <3> QED
      BY <1>2, <2>2, <3>1, <3>2, <3>3
  <2> QED
    BY <2>1, <2>2
<1>4. /\ \A i \in 1 .. (k2 + m) : Way'[i] = Way[i + b]
      /\ \A i \in (k2 + m + 1) .. (k2 + m2) :
            Way'[i] = toFpga'[i - k2].id /\ i - k2 \in (m + 1) .. m2
  <2> DEFINE f2 == fromFpga'
             t2 == toFpga'
  <2>1. Way = UnderWay(fromFpga, toFpga) /\ Way' = UnderWay(f2, t2)
    BY DEF Way
  <2>2. /\ Len(fromFpga) \in Nat /\ Len(toFpga) \in Nat
        /\ Len(f2) \in Nat /\ Len(t2) \in Nat /\ b \in Nat
        /\ Len(fromFpga) = Len(f2) + b /\ Len(t2) >= Len(toFpga)
        /\ \A i \in 1 .. Len(f2) : f2[i] = fromFpga[i + b]
        /\ \A i \in 1 .. Len(toFpga) : t2[i] = toFpga[i]
    BY <1>1, <1>2, <1>3
  <2> HIDE DEF f2, t2
  <2>3. /\ \A i \in 1 .. (Len(f2) + Len(toFpga)) :
                UnderWay(f2, t2)[i] = UnderWay(fromFpga, toFpga)[i + b]
        /\ \A i \in (Len(f2) + Len(toFpga) + 1) .. (Len(f2) + Len(t2)) :
                /\ UnderWay(f2, t2)[i] = t2[i - Len(f2)].id
                /\ i - Len(f2) \in (Len(toFpga) + 1) .. Len(t2)
    BY ONLY <2>2, MovingUnderWay, ZenonT(60)
  <2> QED
    BY <2>1, <2>3 DEF f2, t2
<1>5. Num = k + m /\ Num' = k2 + m2
  BY DEF Num
<1> HIDE DEF k, k2, m, m2, I
<1> DEFINE u == Way
           v == Way'
           n == Num
           n2 == Num'
<1> HIDE DEF u, v, n, n2
<1>6. /\ n \in Nat /\ n2 \in Nat /\ b <= n /\ n - b = k2 + m /\ n - b <= n2
      /\ n2 = k2 + m2
  <2>1. /\ k \in Nat /\ k2 \in Nat /\ m \in Nat /\ m2 \in Nat /\ b \in Nat
        /\ k = k2 + b /\ m <= m2
    BY <1>1, <1>2, <1>3
  <2>2. n = k + m /\ n2 = k2 + m2
    BY <1>5 DEF n, n2
  <2> QED
    BY ONLY <2>1, <2>2
<1>7. \A i \in 1 .. (n - b) : v[i] = u[i + b]
  BY <1>4, <1>6 DEF u, v
<1>8. \A i \in (n - b + 1) .. n2 : v[i] = toFpga'[i - k2].id /\ i - k2 \in (m + 1) .. m2
  BY <1>4, <1>6 DEF v
<1>9. \A i \in (n - b + 1) .. n2 : v[i] \in I
  BY <1>1, <1>8
<1>10. ASSUME NEW i \in (n - b + 1) .. n2, NEW j \in (n - b + 1) .. n2, i < j
       PROVE  v[i] < v[j]
  <2>1. i - k2 < j - k2
    BY <1>3, <1>6, <1>10
  <2> QED
    BY <1>1, <1>8, <2>1
<1>11. ASSUME NEW id \in I
       PROVE  \E i \in (n - b + 1) .. n2 : v[i] = id
  <2>1. PICK i \in (m + 1) .. m2 : toFpga'[i].id = id
    BY <1>1
  <2>2. k2 + i \in (n - b + 1) .. n2 /\ (k2 + i) - k2 = i
    BY <1>1, <1>3, <1>6
  <2>3. v[k2 + i] = id
    BY <1>8, <2>1, <2>2
  <2> QED
    BY <2>2, <2>3
<1> QED
  BY <1>6, <1>7, <1>9, <1>10, <1>11 DEF Moved, u, v, n, n2, I

\* The invariant of the next state, in terms of what it says of that state.
LEMMA TimelyNext ==
    ASSUME ~ undefined', lost' \in Nat,
           m_isConnected' =>
                /\ Orderly(Way', Num', m_waitingForRetryResponse', Retired', Top')
                /\ Explained(Way', Num', m_waitingForRetryResponse', Retired', m_numInTransit',
                             m_transList'[1].sendCount, lost')
                /\ Rejected(Retired', fromFpga'),
           ~ m_isConnected' => toFpga' = <<>> /\ fromFpga' = <<>> /\ lost' > MaxRetries
    PROVE  Timely'
  BY DEF Timely, Orderly, Explained, Rejected, Follows, Has

\* Pointwise the same is as orderly.
LEMMA SameWay ==
    ASSUME NEW u, NEW v, NEW n, \A i \in 1 .. n : v[i] = u[i], NEW waiting, NEW base,
           NEW top, NEW sent, NEW count, NEW losses, Orderly(u, n, waiting, base, top),
           Explained(u, n, waiting, base, sent, count, losses)
    PROVE  /\ Orderly(v, n, waiting, base, top)
           /\ Explained(v, n, waiting, base, sent, count, losses)
<1>1. Orderly(v, n, waiting, base, top)
  BY DEF Orderly
<1>2. \A id : Has(u, n, id) => Has(v, n, id)
  BY DEF Has
<1>3. CASE waiting
  BY <1>1, <1>2, <1>3 DEF Explained
<1>4. CASE ~ waiting
  BY <1>1, <1>2, <1>4 DEF Explained
<1> QED
  BY <1>3, <1>4

\* Refusals among the replies that are left.
LEMMA RejectedRest ==
    ASSUME NEW base, NEW from, from \in Seq(Replies), from # <<>>, Rejected(base, from)
    PROVE  Rejected(base, Tail(from))
<1> DEFINE T == Tail(from)
<1>1. /\ Len(T) = Len(from) - 1 /\ Len(from) \in Nat
      /\ \A i \in 1 .. Len(T) : i + 1 \in 1 .. Len(from) /\ T[i] = from[i + 1]
  BY TailFacts
<1> HIDE DEF T
<1>2. ASSUME NEW k \in 1 .. Len(T), T[k].op = "NACKT"
      PROVE  /\ base + 1 < T[k].re
             /\ \A j \in 1 .. (k - 1) : T[j].op = "ACK" => T[j].re + 1 < T[k].re
  <2>1. k + 1 \in 1 .. Len(from) /\ T[k] = from[k + 1]
    BY <1>1
  <2>2. base + 1 < T[k].re
    BY <1>2, <2>1 DEF Rejected
  <2>3. ASSUME NEW j \in 1 .. (k - 1), T[j].op = "ACK"
        PROVE  T[j].re + 1 < T[k].re
    <3>1. j \in 1 .. Len(T) /\ j + 1 \in 1 .. ((k + 1) - 1)
      BY <1>1
    <3>2. T[j] = from[j + 1]
      BY <1>1, <3>1
    <3> QED
      BY <1>2, <2>1, <2>3, <3>1, <3>2 DEF Rejected
  <2> QED
    BY <2>2, <2>3
<1> QED
  BY <1>2 DEF Rejected, T

\* They are for later transactions still when an acknowledgement has been handled.
LEMMA RejectedAnswered ==
    ASSUME NEW base \in Nat, NEW from, from \in Seq(Replies), from # <<>>,
           Rejected(base, from), from[1].op = "ACK", from[1].re = base + 1
    PROVE  Rejected(base + 1, Tail(from))
<1> DEFINE T == Tail(from)
<1>1. /\ Len(T) = Len(from) - 1 /\ Len(from) \in Nat
      /\ \A i \in 1 .. Len(T) : i + 1 \in 1 .. Len(from) /\ T[i] = from[i + 1]
  BY TailFacts
<1>2. Rejected(base, T)
  BY RejectedRest
<1> HIDE DEF T
<1>3. ASSUME NEW k \in 1 .. Len(T), T[k].op = "NACKT"
      PROVE  (base + 1) + 1 < T[k].re
  <2>1. k + 1 \in 1 .. Len(from) /\ T[k] = from[k + 1] /\ 1 \in 1 .. ((k + 1) - 1)
    BY <1>1
  <2>2. from[1].re + 1 < from[k + 1].re
    BY <1>3, <2>1 DEF Rejected
  <2> QED
    BY <2>1, <2>2
<1> QED
  BY <1>2, <1>3 DEF Rejected, T

LEMMA TimelyInit ==
    ASSUME ~ Late, SysInit
    PROVE  Timely
<1>1. Init /\ toFpga = <<>> /\ lost = 0
  BY DEF SysInit
<1>2. fromFpga = [k \in 1 .. 0 |-> Reply("ACK", 1 % SeqSpace, 0)]
  <2>1. PICK n \in 0 .. RepeatedCnx : fromFpga = [k \in 1 .. n |-> Reply("ACK", 1 % SeqSpace, 0)]
    BY DEF SysInit
  <2>2. n = 0
    BY RepeatedCnxAssumption
  <2> QED
    BY <2>1, <2>2
<1>3. Len(fromFpga) = 0
  <2>1. \A i \in 1 .. 0 : FALSE
    OBVIOUS
  <2>2. fromFpga \in [1 .. 0 -> Replies]
    BY <1>2, <2>1
  <2> QED
    BY <2>2, SeqOfFunction
<1>4. Num = 0
  BY <1>1, <1>3 DEF Num
<1>5. m_isConnected /\ ~ m_waitingForRetryResponse /\ m_numInTransit = 0 /\ Retired = 0
      /\ ~ undefined
  BY <1>1 DEF Init, Retired
<1>6. \A i \in 1 .. 0 : FALSE
  OBVIOUS
<1>7. Orderly(Way, Num, m_waitingForRetryResponse, Retired, Top)
  BY <1>4, <1>6 DEF Orderly
<1>8. Rejected(Retired, fromFpga)
  BY <1>3, <1>6 DEF Rejected
<1>9. \A id \in (Retired + 1) .. (Retired + m_numInTransit) : FALSE
  BY <1>5
<1> QED
  BY <1>1, <1>5, <1>7, <1>8, <1>9 DEF Timely, Explained

\* A lost packet explains a missing transmission.
LEMMA LoseTimely ==
    ASSUME SysInv, Timely, Lose
    PROVE  Timely'
<1> DEFINE from2 == fromFpga'
           to2 == toFpga'
<1>1. /\ \/ toFpga # <<>> /\ to2 = Tail(toFpga) /\ from2 = fromFpga
         \/ fromFpga # <<>> /\ from2 = Tail(fromFpga) /\ to2 = toFpga
      /\ lost' = lost + 1 /\ UNCHANGED vars
  BY DEF Lose
<1>2. /\ m_isConnected /\ lost \in Nat /\ ~ undefined
      /\ Orderly(Way, Num, m_waitingForRetryResponse, Retired, Top)
      /\ Explained(Way, Num, m_waitingForRetryResponse, Retired, m_numInTransit,
                   m_transList[1].sendCount, lost)
      /\ Rejected(Retired, fromFpga)
  BY <1>1 DEF Timely
<1>3. /\ UNCHANGED <<m_isConnected, m_waitingForRetryResponse, m_numInTransit, m_transList,
                     undefined>>
      /\ Retired' = Retired /\ Top' = Top
  BY <1>1 DEF vars, Retired, Top
<1>4. toFpga \in Seq(Datagrams) /\ fromFpga \in Seq(Replies)
  BY DEF SysInv, NetInv, NetTypes
<1>5. Way' = UnderWay(from2, to2) /\ Num' = Len(from2) + Len(to2)
  BY DEF Way, Num
<1> HIDE DEF from2, to2
<1>6. /\ Len(from2) + Len(to2) \in Nat
      /\ Thinned(UnderWay(fromFpga, toFpga), Len(fromFpga) + Len(toFpga),
                 UnderWay(from2, to2), Len(from2) + Len(to2))
  BY <1>1, <1>4, LosingUnderWay
<1>7. Num' \in Nat /\ Thinned(Way, Num, Way', Num')
  BY <1>5, <1>6 DEF Way, Num
<1>8. Retired \in Nat /\ Top \in Int /\ Num \in Nat
  <2>1. Retired \in Nat /\ m_numInTransit \in Nat
    BY RetiredType DEF SysInv, IInv, Typed
  <2>2. Len(fromFpga) \in Nat /\ Len(toFpga) \in Nat
    BY NetFacts DEF SysInv, NetInv
  <2> QED
    BY <2>1, <2>2, Sizes DEF Top, Num
<1>9. Orderly(Way', Num', m_waitingForRetryResponse, Retired, Top)
  <2> DEFINE v == Way'
             m == Num'
  <2> HIDE DEF v, m
  <2>1. m \in Nat /\ Thinned(Way, Num, v, m) /\ Retired \in Int
    BY <1>7, <1>8 DEF v, m
  <2>2. Orderly(v, m, m_waitingForRetryResponse, Retired, Top)
    BY <1>2, <1>8, <2>1, ThinnedOrderly
  <2> QED
    BY <2>2 DEF v, m
<1>10. Explained(Way', Num', m_waitingForRetryResponse, Retired, m_numInTransit,
                 m_transList[1].sendCount, lost')
  <2>1. CASE m_waitingForRetryResponse
    <3> DEFINE c == m_transList[1].sendCount
    <3>1. m_transList # <<>>
      BY <1>2, <2>1 DEF SysInv, IInv, Window
    <3>2. c \in 1 .. (MaxRetries + 1)
      BY <3>1, FrontFacts DEF SysInv
    <3>3. c <= lost \/ c <= lost + 1
      BY <1>2, <2>1 DEF Explained
    <3> HIDE DEF c
    <3>4. c <= lost'
      BY <1>1, <1>2, <3>2, <3>3, RetriesAssumption
    <3> QED
      BY <2>1, <3>4 DEF Explained, c
  <2>2. CASE ~ m_waitingForRetryResponse
    <3>1. lost' >= 1
      BY <1>1, <1>2
    <3> QED
      BY <2>2, <3>1 DEF Explained
  <2> QED
    BY <2>1, <2>2
<1>11. Rejected(Retired, fromFpga')
  BY <1>1, <1>2, <1>4, RejectedRest DEF from2
<1> QED
  BY <1>1, <1>2, <1>3, <1>9, <1>10, <1>11, TimelyNext

\* A datagram the FPGA neither executes nor has executed is ahead of a gap.
LEMMA AheadOfGap ==
    ASSUME NetInv, toFpga # <<>>, toFpga[1].id >= 1, ~ IsNext(toFpga[1].seq),
           ~ IsRepeat(toFpga[1].seq)
    PROVE  toFpga[1].id > Len(done) + 1
<1> DEFINE x == toFpga[1].id
           D == Len(done)
<1>1. 1 \in 1 .. Len(toFpga) /\ x \in Nat /\ D \in Nat
  BY NetFacts DEF NetInv
<1>2. /\ toFpga[1].seq = NumberOf(x) /\ x <= D + PipelineLen /\ D <= x + PipelineLen - 1
      /\ lastSeq = NumberOf(D)
  BY <1>1 DEF NetInv, Asked, Before, Executed
<1>3. x >= 1
  OBVIOUS
<1> HIDE DEF x, D
<1>4. x # D + 1
  <2>1. SeqPlus(lastSeq, 1) = NumberOf(D + 1)
    BY <1>1, <1>2, NumberOfNext
  <2> QED
    BY <1>2, <2>1 DEF IsNext
<1>5. ~ (x <= D)
  <2> SUFFICES ASSUME x <= D PROVE FALSE
    OBVIOUS
  <2>1. D - x \in Nat /\ D - x \in 0 .. (PipelineLen - 1) /\ D - x < D /\ x + (D - x) = D
    BY <1>1, <1>2, <1>3, Sizes
  <2>2. SeqPlus(NumberOf(x), D - x) = NumberOf(D)
    BY <1>1, <2>1, NumberOfNext
  <2> QED
    BY <1>2, <2>1, <2>2 DEF IsRepeat, D
<1> QED
  BY <1>1, <1>4, <1>5 DEF x, D

LEMMA FpgaReceivesTimely ==
    ASSUME SysInv, Timely, FpgaReceives
    PROVE  Timely'
<1>1. toFpga # <<>> /\ toFpga' = Tail(toFpga) /\ UNCHANGED vars /\ lost' = lost
  BY DEF FpgaReceives
<1>2. toFpga \in Seq(Datagrams) /\ fromFpga \in Seq(Replies) /\ NetInv
  BY DEF SysInv, NetInv, NetTypes
<1>3. /\ m_isConnected /\ lost \in Nat /\ ~ undefined
      /\ Orderly(Way, Num, m_waitingForRetryResponse, Retired, Top)
      /\ Explained(Way, Num, m_waitingForRetryResponse, Retired, m_numInTransit,
                   m_transList[1].sendCount, lost)
      /\ Rejected(Retired, fromFpga)
  BY <1>1 DEF Timely
<1>4. /\ UNCHANGED <<m_isConnected, m_waitingForRetryResponse, m_numInTransit, m_transList,
                     undefined>>
      /\ Retired' = Retired /\ Top' = Top
  BY <1>1 DEF vars, Retired, Top
<1>5. /\ Head(toFpga) = toFpga[1] /\ toFpga[1] \in Datagrams /\ 1 \in 1 .. Len(toFpga)
      /\ toFpga[1].id \in Nat /\ toFpga[1].seq \in SeqNums
  <2>1. /\ Head(toFpga) = toFpga[1] /\ toFpga[1] \in Datagrams /\ 1 \in 1 .. Len(toFpga)
    BY <1>1, <1>2, TailFacts
  <2> QED
    BY <2>1 DEF Datagrams
<1>6. PICK rep \in Replies :
        /\ fromFpga' = Append(fromFpga, rep) /\ rep.re = toFpga[1].id
        /\ rep.op = "NACKT" => ~ IsNext(toFpga[1].seq) /\ ~ IsRepeat(toFpga[1].seq)
  <2> DEFINE ack == Reply("ACK", toFpga[1].seq, toFpga[1].id)
             nack == Reply("NACKT", lastSeq, toFpga[1].id)
  <2>1. /\ ack \in Replies /\ ack.re = toFpga[1].id /\ ack.op = "ACK"
    BY <1>5 DEF Reply, Replies
  <2>2. Len(done) \in Nat /\ lastSeq = NumberOf(Len(done))
    BY <1>2, NetFacts DEF NetInv, Executed
  <2>3. lastSeq \in SeqNums
    BY <2>2, NumberType
  <2>4. nack \in Replies /\ nack.re = toFpga[1].id
    BY <1>5, <2>3 DEF Reply, Replies
  <2>5. \/ fromFpga' = Append(fromFpga, ack)
        \/ /\ fromFpga' = Append(fromFpga, nack)
           /\ ~ IsNext(toFpga[1].seq) /\ ~ IsRepeat(toFpga[1].seq)
    BY <1>5 DEF FpgaReceives
  <2> HIDE DEF ack, nack
  <2> QED
    BY <2>1, <2>4, <2>5
<1> DEFINE from2 == Append(fromFpga, rep)
           u == Way
           n == Num
           v == UnderWay(from2, Tail(toFpga))
<1>7. /\ Len(from2) + Len(Tail(toFpga)) = Len(fromFpga) + Len(toFpga)
      /\ \A i \in 1 .. (Len(fromFpga) + Len(toFpga)) :
            UnderWay(from2, Tail(toFpga))[i] = UnderWay(fromFpga, toFpga)[i]
  BY <1>1, <1>2, <1>6, AnsweringUnderWay
<1>8. /\ Way' = v /\ Num' = n /\ \A i \in 1 .. n : v[i] = u[i]
  BY <1>1, <1>6, <1>7 DEF Way, Num
<1>9. /\ Orderly(Way', Num', m_waitingForRetryResponse, Retired, Top)
      /\ Explained(Way', Num', m_waitingForRetryResponse, Retired, m_numInTransit,
                   m_transList[1].sendCount, lost)
  <2>1. /\ Orderly(u, n, m_waitingForRetryResponse, Retired, Top)
        /\ Explained(u, n, m_waitingForRetryResponse, Retired, m_numInTransit,
                     m_transList[1].sendCount, lost)
    BY <1>3
  <2> HIDE DEF u, v, n
  <2>2. /\ Orderly(v, n, m_waitingForRetryResponse, Retired, Top)
        /\ Explained(v, n, m_waitingForRetryResponse, Retired, m_numInTransit,
                     m_transList[1].sendCount, lost)
    BY <1>8, <2>1, SameWay
  <2> QED
    BY <1>8, <2>2
<1>10. /\ Len(fromFpga) \in Nat /\ Len(toFpga) \in Nat /\ Len(done) \in Nat
       /\ \A k \in 1 .. Len(fromFpga) : fromFpga[k].re \in Nat
  BY <1>2, NetFacts DEF NetInv
<1>11. Retired \in Nat /\ Retired <= Len(done)
  BY <1>3, RetiredType DEF SysInv, NetInv, Bounded
<1>12. toFpga[1].id >= 1
  <2> DEFINE k == Len(fromFpga) + 1
  <2>1. k \in 1 .. Num /\ ~(k <= Len(fromFpga)) /\ k - Len(fromFpga) = 1
    BY <1>5, <1>10 DEF Num
  <2>2. Way[k] = toFpga[1].id
    BY <2>1 DEF Way, UnderWay, Num
  <2> HIDE DEF k
  <2>3. Retired < Way[k]
    BY <1>3, <2>1 DEF Orderly
  <2> QED
    BY <1>5, <1>11, <2>2, <2>3
<1>13. rep.op = "NACKT" => rep.re > Len(done) + 1
  BY <1>1, <1>2, <1>6, <1>12, AheadOfGap
<1>14. Rejected(Retired, from2)
  <2>1. /\ Len(from2) = Len(fromFpga) + 1 /\ from2[Len(fromFpga) + 1] = rep
        /\ \A i \in 1 .. Len(fromFpga) : from2[i] = fromFpga[i]
    BY <1>2, AppendProperties
  <2> HIDE DEF from2
  <2>2. ASSUME NEW k \in 1 .. Len(from2), from2[k].op = "NACKT"
        PROVE  /\ Retired + 1 < from2[k].re
               /\ \A j \in 1 .. (k - 1) : from2[j].op = "ACK" => from2[j].re + 1 < from2[k].re
    <3>1. CASE k \in 1 .. Len(fromFpga)
      <4>1. \A j \in 1 .. (k - 1) : j \in 1 .. Len(fromFpga)
        BY <1>10, <3>1
      <4> QED
        BY <1>3, <2>1, <2>2, <3>1, <4>1 DEF Rejected
    <3>2. CASE k = Len(fromFpga) + 1
      <4>1. from2[k] = rep /\ rep.re > Len(done) + 1 /\ rep.re \in Nat
        BY <1>5, <1>6, <1>13, <2>1, <2>2, <3>2
      <4>2. Retired + 1 < from2[k].re
        BY <1>10, <1>11, <4>1
      <4>3. ASSUME NEW j \in 1 .. (k - 1), from2[j].op = "ACK"
            PROVE  from2[j].re + 1 < from2[k].re
        <5>1. j \in 1 .. Len(fromFpga)
          BY <1>10, <3>2
        <5>2. from2[j] = fromFpga[j] /\ fromFpga[j].re <= Len(done) /\ fromFpga[j].re \in Nat
          BY <1>2, <1>10, <2>1, <4>3, <5>1 DEF NetInv, Acknowledged
        <5> QED
          BY <1>10, <4>1, <5>2
      <4> QED
        BY <4>2, <4>3
    <3> QED
      BY <1>10, <2>1, <3>1, <3>2
  <2> QED
    BY <2>2 DEF Rejected
<1> QED
  BY <1>1, <1>3, <1>4, <1>6, <1>9, <1>14, TimelyNext

--------------------------------------------------------------------------------
(* The steps of the client.                                                  *)

\* The first b replies are handled.
Takes(b) ==
    \/ b = 0 /\ fromFpga' = fromFpga
    \/ b = 1 /\ fromFpga # <<>> /\ fromFpga' = Tail(fromFpga)

LEMMA SendsOnIds ==
    ASSUME IInv', NEW STATE base, NEW STATE h, base \in Nat, h \in Nat, SendsOn(base, h)
    PROVE  WrittenIds' = (h + 1) .. (base + m_numInTransit')
<1> DEFINE x == m_numInTransit'
           top == base + x
<1>1. written' \subseteq [id : Nat \ {0}, seq : SeqNums] /\ x \in Nat
  BY DEF IInv, Typed
<1>2. \A d \in written' : d.id \in Nat
  BY <1>1
<1>3. \A d \in written' : h < d.id /\ d.id <= top
  BY DEF SendsOn
<1>4. \A id \in (h + 1) .. top : \E d \in written' : d.id = id
  BY DEF SendsOn
<1>5. top \in Nat
  <2> HIDE DEF x
  <2> QED
    BY <1>1
<1> HIDE DEF top
<1>6. \A d \in written' : d.id \in (h + 1) .. top
  BY <1>2, <1>3, <1>5
<1> QED
  BY <1>4, <1>6 DEF WrittenIds, top

LEMMA GoesBackIds ==
    ASSUME NEW STATE base, NEW STATE count, GoesBack(base, count)
    PROVE  WrittenIds' = {base + 1}
  BY DEF GoesBack, WrittenIds

\* The types of what is compared.
LEMMA TimelyTypes ==
    ASSUME SysInv, Timely, m_isConnected
    PROVE  /\ IInv /\ Numbering /\ NetInv /\ NetTypes /\ fromFpga \in Seq(Replies)
           /\ Num \in Nat /\ Retired \in Nat /\ Top \in Nat /\ m_numInTransit \in Nat
           /\ m_waitingForRetryResponse \in BOOLEAN /\ lost \in Nat /\ ~ undefined
           /\ Orderly(Way, Num, m_waitingForRetryResponse, Retired, Top)
           /\ Explained(Way, Num, m_waitingForRetryResponse, Retired, m_numInTransit,
                        m_transList[1].sendCount, lost)
           /\ Rejected(Retired, fromFpga)
<1>1. IInv /\ Numbering /\ NetInv /\ NetTypes
  BY DEF SysInv, NetInv
<1>2. /\ Retired \in Nat /\ m_numInTransit \in Nat /\ m_waitingForRetryResponse \in BOOLEAN
  BY <1>1, RetiredType DEF IInv, Typed
<1>3. Len(fromFpga) \in Nat /\ Len(toFpga) \in Nat /\ fromFpga \in Seq(Replies)
  BY <1>1, NetFacts DEF NetTypes
<1>4. Top \in Nat /\ Num \in Nat
  BY <1>2, <1>3, Sizes DEF Top, Num
<1> QED
  BY <1>1, <1>2, <1>3, <1>4 DEF Timely

\* Nothing is sent: a packet for another transaction comes while a retry is pending.
LEMMA IgnoresTimely ==
    ASSUME SysInv, SysInv', WrittenMarked', Timely, m_isConnected, Ignores, Transmits,
           lost' = lost, NEW b \in {0, 1}, Takes(b),
           b = 1 => m_waitingForRetryResponse /\ Way[1] # Retired + 1
    PROVE  Timely'
<1> DEFINE u == Way
           v == Way'
           n == Num
           m == Num'
           waiting == m_waitingForRetryResponse
           x == m_numInTransit
           c == m_transList[1].sendCount
<1>1. WrittenIds' = {}
  BY DEF Ignores, WrittenIds
<1>2. Moved(u, n, v, m, b, {})
  BY <1>1, ClientMoves, TimelyTypes DEF SysInv, Takes
<1>3. /\ waiting \in BOOLEAN /\ Retired \in Nat /\ Top \in Int /\ lost \in Nat /\ ~ undefined
      /\ Orderly(u, n, waiting, Retired, Top)
      /\ Explained(u, n, waiting, Retired, x, c, lost)
      /\ Rejected(Retired, fromFpga) /\ fromFpga \in Seq(Replies)
      /\ b = 1 => waiting /\ u[1] # Retired + 1
  BY TimelyTypes
<1> HIDE DEF u, v, n, m, waiting, x, c
<1>4. /\ Orderly(v, m, waiting, Retired, Top)
      /\ Explained(v, m, waiting, Retired, x, c, lost)
  BY <1>2, <1>3, IgnoredMoves
<1>5. /\ UNCHANGED <<m_isConnected, m_waitingForRetryResponse, m_numInTransit, undefined>>
      /\ Retired' = Retired
      /\ waiting => m_transList'[1].sendCount = c
  BY DEF Ignores, waiting, c
<1>6. Top' = Top
  BY <1>5 DEF Top
<1>7. Explained(v, m, waiting, Retired, x, m_transList'[1].sendCount, lost)
  <2>1. CASE waiting
    BY <1>4, <1>5, <2>1
  <2>2. CASE ~ waiting
    BY <1>4, <2>2 DEF Explained
  <2> QED
    BY <2>1, <2>2
<1>8. Rejected(Retired, fromFpga')
  BY <1>3, RejectedRest DEF Takes
<1> QED
  BY <1>3, <1>4, <1>5, <1>6, <1>7, <1>8, TimelyNext DEF v, m, waiting, x

\* The window is filled after a request.
LEMMA FillsTimely ==
    ASSUME SysInv, SysInv', WrittenMarked', Timely, m_isConnected, Transmits,
           ~ m_waitingForRetryResponse, SendsOn(Retired, Retired + m_numInTransit),
           lost' = lost, fromFpga' = fromFpga
    PROVE  Timely'
<1> DEFINE u == Way
           v == Way'
           n == Num
           m == Num'
           x == m_numInTransit
           x2 == m_numInTransit'
           c == m_transList[1].sendCount
           c2 == m_transList'[1].sendCount
           W == WrittenIds'
           B == Retired
<1>1. /\ B \in Nat /\ x \in Nat /\ lost \in Nat /\ ~ undefined
      /\ Orderly(u, n, m_waitingForRetryResponse, B, Top)
      /\ Explained(u, n, m_waitingForRetryResponse, B, x, c, lost)
      /\ Rejected(B, fromFpga)
  BY TimelyTypes
<1>2. Top = B + x
  BY DEF Top
<1>3. x2 \in Nat
  BY DEF SysInv, IInv, Typed
<1>4. /\ m_isConnected' /\ ~ m_waitingForRetryResponse' /\ undefined' = undefined
      /\ Retired' = B /\ B + x <= B + x2
  BY DEF SendsOn
<1>5. W = (B + x + 1) .. (B + x2)
  BY <1>1, SendsOnIds DEF SysInv
<1>6. Moved(u, n, v, m, 0, W)
  BY ClientMoves, TimelyTypes DEF SysInv
<1>7. /\ Orderly(u, n, FALSE, B, B + x)
      /\ Explained(u, n, FALSE, B, x, c, lost)
  BY <1>1, <1>2 DEF Orderly, Follows, Explained
<1> HIDE DEF u, v, n, m, x, x2, c, W, B
<1>8. x <= x2
  BY <1>1, <1>3, <1>4
<1>9. /\ Orderly(v, m, FALSE, B, B + x2)
      /\ Explained(v, m, FALSE, B, x2, c, lost)
  BY ONLY <1>1, <1>3, <1>5, <1>6, <1>7, <1>8, SendingMoves, ZenonT(60)
<1>10. Top' = B + x2
  BY <1>4 DEF Top, x2
<1>11. /\ Orderly(v, m, m_waitingForRetryResponse', B, B + x2)
       /\ Explained(v, m, m_waitingForRetryResponse', B, x2, c2, lost)
  BY <1>4, <1>9 DEF Orderly, Follows, Explained
<1> QED
  BY <1>1, <1>4, <1>10, <1>11, TimelyNext DEF v, m, x2

\* The reply to the oldest transaction is handled and the window filled.
LEMMA AnsweredTimely ==
    ASSUME SysInv, SysInv', WrittenMarked', Timely, m_isConnected, Transmits,
           SendsOn(Retired + 1, Retired + 1 + InFlightAfterReply), lost' = lost,
           Takes(1), Num >= 1, Way[1] = Retired + 1,
           fromFpga[1].op = "ACK", fromFpga[1].re = Retired + 1
    PROVE  /\ Timely'
           /\ m_waitingForRetryResponse => Num = 1
<1> DEFINE u == Way
           v == Way'
           n == Num
           m == Num'
           waiting == m_waitingForRetryResponse
           left == InFlightAfterReply
           x == m_numInTransit
           x2 == m_numInTransit'
           c == m_transList[1].sendCount
           c2 == m_transList'[1].sendCount
           W == WrittenIds'
           B == Retired
           top == Top
<1>1. /\ B \in Nat /\ x \in Nat /\ lost \in Nat /\ ~ undefined /\ n \in Nat /\ top \in Int
      /\ waiting \in BOOLEAN /\ fromFpga \in Seq(Replies)
      /\ Orderly(u, n, waiting, B, top)
      /\ Explained(u, n, waiting, B, x, c, lost)
      /\ Rejected(B, fromFpga)
  BY TimelyTypes
<1>2. /\ waiting => left = 0
      /\ ~ waiting => left = x - 1 /\ top = B + x
  BY DEF Top, InFlightAfterReply
<1>3. x2 \in Nat
  BY DEF SysInv, IInv, Typed
<1>4. /\ m_isConnected' /\ ~ m_waitingForRetryResponse' /\ undefined' = undefined
      /\ Retired' = B + 1 /\ B + 1 + left <= B + 1 + x2
  BY DEF SendsOn
<1>5. u[1] = B + 1 /\ 1 \in 1 .. n /\ B < u[1] /\ u[1] <= top
  BY <1>1 DEF Orderly
<1>6. Moved(u, n, v, m, 1, W)
  BY ClientMoves, TimelyTypes DEF SysInv, Takes
<1>7. Top' = Retired' + x2
  BY <1>4 DEF Top
<1> HIDE DEF u, v, n, m, x, x2, c, c2, W, B, left, top
<1>8. left \in Nat /\ (~ waiting => x = left + 1 /\ top = B + left + 1)
  BY <1>1, <1>2, <1>5
<1>9. left <= x2
  BY <1>1, <1>3, <1>4, <1>8
<1>10. W = (B + 1 + left + 1) .. (B + 1 + x2)
  <2>1. B + 1 \in Nat /\ B + 1 + left \in Nat
    BY <1>1, <1>8
  <2> QED
    BY <2>1, SendsOnIds DEF SysInv, W, B, left, x2
<1> HIDE DEF waiting
<1>11. /\ Orderly(v, n - 1, FALSE, B + 1, B + 1 + left)
       /\ \A id \in (B + 1 + 1) .. (B + 1 + left) : Has(u, n, id) \/ lost >= 1
       /\ waiting => n = 1
  <2>1. CASE waiting
    <3>1. n = 1
      <4> SUFFICES ASSUME n # 1 PROVE FALSE
        OBVIOUS
      <4>1. 2 \in 1 .. n /\ 1 < 2
        BY <1>1, <1>5
      <4>2. u[1] > B + 1
        BY <1>1, <1>5, <2>1, <4>1 DEF Orderly, Follows
      <4> QED
        BY <1>1, <1>5, <4>2
    <3>2. left = 0 /\ \A i \in 1 .. (n - 1) : FALSE
      BY <1>2, <2>1, <3>1
    <3>3. \A id \in (B + 1 + 1) .. (B + 1 + left) : FALSE
      BY <1>1, <3>2
    <3> QED
      BY <3>1, <3>2, <3>3 DEF Orderly
  <2>2. CASE ~ waiting
    <3>1. /\ Orderly(u, n, FALSE, B, top)
          /\ \A id \in (B + 1) .. (B + x) : Has(u, n, id) \/ lost >= 1
      BY <1>1, <2>2 DEF Orderly, Follows, Explained
    <3>2. x = left + 1 /\ top = B + 1 + left
      BY <1>1, <1>8, <2>2
    <3>3. \A id \in (B + 1 + 1) .. (B + 1 + left) : Has(u, n, id) \/ lost >= 1
      BY <1>1, <1>8, <3>1, <3>2
    <3>4. n \in Nat /\ n >= 1 /\ B \in Int /\ top \in Int
          /\ \A i \in 1 .. (n - 1) : v[i] = u[i + 1]
      BY <1>1, <1>5, <1>6 DEF Moved
    <3>5. Orderly(v, n - 1, FALSE, B + 1, top)
      BY ONLY <1>5, <3>1, <3>4, AnsweredOrderly
    <3> QED
      BY <2>2, <3>2, <3>3, <3>5
  <2> QED
    BY <2>1, <2>2
<1>12. /\ Orderly(v, m, FALSE, B + 1, B + 1 + x2)
       /\ Explained(v, m, FALSE, B + 1, x2, c, lost)
  BY ONLY <1>1, <1>3, <1>5, <1>6, <1>8, <1>9, <1>10, <1>11, AnsweredMoves
<1>13. /\ Orderly(v, m, m_waitingForRetryResponse', B + 1, B + 1 + x2)
       /\ Explained(v, m, m_waitingForRetryResponse', B + 1, x2, c2, lost)
  BY <1>4, <1>12 DEF Orderly, Follows, Explained
<1>14. Rejected(B + 1, fromFpga')
  <2>1. fromFpga # <<>> /\ fromFpga' = Tail(fromFpga)
    BY DEF Takes
  <2>2. fromFpga[1].op = "ACK" /\ fromFpga[1].re = B + 1
    BY DEF B
  <2>3. Rejected(B + 1, Tail(fromFpga))
    BY ONLY <1>1, <2>1, <2>2, RejectedAnswered
  <2> QED
    BY <2>1, <2>3
<1>15. Timely'
  BY <1>1, <1>4, <1>7, <1>13, <1>14, TimelyNext DEF v, m, x2, c2
<1> QED
  BY <1>11, <1>15 DEF waiting, n

\* The client goes back to its oldest transaction, of which nothing is under way.
LEMMA RewindsTimely ==
    ASSUME SysInv, SysInv', WrittenMarked', Timely, m_isConnected, Transmits,
           NEW STATE base, base \in Nat, NEW STATE count, count \in Nat, count <= lost,
           GoesBack(base, count), lost' = lost, NEW b \in {0, 1}, Takes(b),
           NEW STATE h, h \in Int, h <= base + PipelineLen,
           Orderly(Way', Num - b, FALSE, base, h),
           \A i \in 1 .. (Num - b) : Way'[i] # base + 1,
           Rejected(base, fromFpga')
    PROVE  Timely'
<1> DEFINE u == Way
           v == Way'
           n == Num
           m == Num'
           x2 == m_numInTransit'
           W == WrittenIds'
           top == base + PipelineLen
<1>1. lost \in Nat /\ ~ undefined
  BY TimelyTypes
<1>2. /\ m_isConnected' /\ m_waitingForRetryResponse' /\ undefined' = undefined
      /\ Retired' = base /\ m_transList'[1].sendCount = count + 1
  BY DEF GoesBack
<1>3. W = {base + 1}
  BY GoesBackIds
<1>4. Moved(u, n, v, m, b, W)
  BY ClientMoves, TimelyTypes DEF SysInv, Takes
<1>5. Top' = top
  BY <1>2 DEF Top
<1>6. top \in Int /\ h <= top /\ base + 1 <= top
  BY Sizes
<1>7. /\ Orderly(v, n - b, FALSE, base, h)
      /\ \A i \in 1 .. (n - b) : v[i] # base + 1
  OBVIOUS
<1> HIDE DEF u, v, n, m, x2, W, top
<1>8. /\ Orderly(v, m, TRUE, base, top)
      /\ Explained(v, m, TRUE, base, x2, count + 1, lost)
  <2>1. base \in Nat /\ h \in Int /\ count \in Nat /\ count <= lost
    OBVIOUS
  <2> QED
    BY ONLY <1>1, <1>3, <1>4, <1>6, <1>7, <2>1, GoingBackMoves, ZenonT(60)
<1>9. /\ Orderly(v, m, m_waitingForRetryResponse', base, top)
      /\ Explained(v, m, m_waitingForRetryResponse', base, x2, count + 1, lost)
  BY <1>2, <1>8 DEF Orderly, Follows, Explained
<1> QED
  BY <1>1, <1>2, <1>5, <1>9, TimelyNext DEF v, m, x2, top

\* What is under way is a reply or a datagram.
LEMMA WayElements ==
    ASSUME NetTypes, NEW i \in 1 .. Num
    PROVE  \/ i \in 1 .. Len(fromFpga) /\ Way[i] = fromFpga[i].re
           \/ /\ i - Len(fromFpga) \in 1 .. Len(toFpga) /\ i > Len(fromFpga)
              /\ Way[i] = toFpga[i - Len(fromFpga)].id
<1>1. Len(fromFpga) \in Nat /\ Len(toFpga) \in Nat
  BY NetFacts
<1>2. Way[i] = IF i <= Len(fromFpga) THEN fromFpga[i].re ELSE toFpga[i - Len(fromFpga)].id
  BY DEF Way, UnderWay, Num
<1>3. CASE i <= Len(fromFpga)
  <2>1. i \in 1 .. Len(fromFpga)
    BY <1>1, <1>3 DEF Num
  <2> QED
    BY <1>2, <1>3, <2>1
<1>4. CASE ~(i <= Len(fromFpga))
  <2>1. i - Len(fromFpga) \in 1 .. Len(toFpga) /\ i > Len(fromFpga)
    BY <1>1, <1>4 DEF Num
  <2> QED
    BY <1>2, <1>4, <2>1
<1> QED
  BY <1>3, <1>4

LEMMA WayHead ==
    ASSUME NetTypes, fromFpga # <<>>
    PROVE  Num \in Nat /\ Num >= 1 /\ 1 \in 1 .. Num /\ Way[1] = fromFpga[1].re
<1>1. Len(fromFpga) \in Nat /\ Len(toFpga) \in Nat /\ 1 \in 1 .. Len(fromFpga)
  BY NetFacts
<1>2. Num \in Nat /\ Num >= 1 /\ 1 \in 1 .. Num /\ 1 <= Len(fromFpga)
  BY <1>1 DEF Num
<1> QED
  BY <1>2 DEF Way, UnderWay, Num

\* A timer that may expire has nothing of its transaction under way.
LEMMA QuietWay ==
    ASSUME NetTypes, NEW STATE trans, NEW b \in {0, 1}, NEW STATE incoming,
           \/ b = 0 /\ incoming = fromFpga
           \/ b = 1 /\ fromFpga # <<>> /\ incoming = Tail(fromFpga),
           Quiet(trans, incoming), NEW i \in (b + 1) .. Num
    PROVE  ~ m_waitingForRetryResponse /\ ~(Way[i] <= trans.id)
<1>1. /\ toFpga \in Seq(Datagrams) /\ fromFpga \in Seq(Replies)
      /\ Len(fromFpga) \in Nat /\ Num \in Nat /\ DOMAIN toFpga = 1 .. Len(toFpga)
  <2>1. toFpga \in Seq(Datagrams) /\ fromFpga \in Seq(Replies)
    BY DEF NetTypes
  <2>2. Len(fromFpga) \in Nat /\ Len(toFpga) \in Nat
    BY NetFacts
  <2> QED
    BY <2>1, <2>2, LenProperties DEF Num
<1>2. /\ DOMAIN incoming = 1 .. (Len(fromFpga) - b)
      /\ \A j \in 1 .. (Len(fromFpga) - b) : incoming[j] = fromFpga[j + b]
  <2>1. CASE b = 0 /\ incoming = fromFpga
    <3>1. DOMAIN fromFpga = 1 .. Len(fromFpga)
      BY <1>1, LenProperties
    <3>2. Len(fromFpga) - b = Len(fromFpga) /\ \A j \in 1 .. Len(fromFpga) : j + b = j
      BY <1>1, <2>1
    <3> QED
      BY <2>1, <3>1, <3>2
  <2>2. CASE b = 1 /\ fromFpga # <<>> /\ incoming = Tail(fromFpga)
    <3>1. /\ incoming \in Seq(Replies) /\ Len(incoming) = Len(fromFpga) - 1
          /\ \A j \in 1 .. Len(incoming) : incoming[j] = fromFpga[j + 1]
      BY <1>1, <2>2, TailFacts
    <3>2. DOMAIN incoming = 1 .. Len(incoming)
      BY <3>1, LenProperties
    <3> QED
      BY <2>2, <3>1, <3>2
  <2> QED
    BY <2>1, <2>2
<1>3. /\ \A j \in DOMAIN toFpga : ~ m_waitingForRetryResponse /\ ~(toFpga[j].id <= trans.id)
      /\ \A j \in DOMAIN incoming : ~ m_waitingForRetryResponse /\ ~(incoming[j].re <= trans.id)
  BY DEF Quiet
<1>4. i \in 1 .. Num
  BY <1>1
<1>5. CASE i \in 1 .. Len(fromFpga) /\ Way[i] = fromFpga[i].re
  <2>1. i - b \in 1 .. (Len(fromFpga) - b) /\ (i - b) + b = i
    BY <1>1, <1>5
  <2> QED
    BY <1>2, <1>3, <1>5, <2>1
<1>6. CASE /\ i - Len(fromFpga) \in 1 .. Len(toFpga)
           /\ Way[i] = toFpga[i - Len(fromFpga)].id
  BY <1>1, <1>3, <1>6
<1> QED
  BY <1>4, <1>5, <1>6, WayElements

\* The transaction that is waited for is sent under the number of the oldest one.
LEMMA FrontNumber ==
    ASSUME IInv, Numbering, m_transList # <<>>
    PROVE  /\ m_transList[1].id = Retired + 1
           /\ m_transList[1].cli_seq = NumberOf(Retired + 1)
<1>1. /\ 1 \in 1 .. Len(m_transList) /\ m_transList[1].sendCount \in 1 .. (MaxRetries + 1)
  BY FrontFacts
<1>2. m_transList[1].id = Retired + 1
  BY <1>1, ListFacts
<1>3. m_transList[1].sendCount > 0
  BY <1>1, RetriesAssumption
<1> QED
  BY <1>1, <1>2, <1>3 DEF Numbering

\* With no reply too late, the first one is taken for the answer exactly when it is.
LEMMA MismatchIsForAnother ==
    ASSUME SysInv, Timely, m_transList # <<>>, fromFpga # <<>>,
           NEW STATE pkt, pkt.op = fromFpga[1].op, pkt.svr_seq = fromFpga[1].svr_seq
    PROVE  IsMismatch(pkt) <=> fromFpga[1].re # Retired + 1
<1> DEFINE y == fromFpga[1].re
           R == Retired
<1>1. m_isConnected
  BY FrontFacts DEF SysInv
<1>2. /\ NetTypes /\ R \in Nat /\ 1 \in 1 .. Len(fromFpga) /\ y \in Nat
      /\ fromFpga[1].op \in {"ACK", "NACKT"}
  BY <1>1, TimelyTypes, NetFacts
<1>3. /\ m_transList[1].cli_seq = NumberOf(R + 1)
  BY FrontNumber DEF SysInv
<1>4. fromFpga[1].op = "NACKT" => R + 1 < y
  BY <1>1, <1>2 DEF Timely, Rejected
<1>5. fromFpga[1].op = "ACK" => fromFpga[1].svr_seq = NumberOf(y)
  BY <1>2 DEF SysInv, NetInv, Acknowledged
<1>6. R <= y + PipelineLen - 1 /\ y <= R + PipelineLen
  BY <1>1, <1>2 DEF SysInv, NetInv, Bounded, Near, Before
<1> HIDE DEF y, R
<1>7. NumberOf(y) = NumberOf(R + 1) => y = R + 1
  <2>1. y - (R + 1) < SeqSpace /\ (R + 1) - y < SeqSpace /\ R + 1 \in Nat
    BY <1>2, <1>6, Sizes
  <2> QED
    BY <1>2, <2>1, SameNumber
<1>8. CASE fromFpga[1].op = "NACKT"
  <2>1. IsMismatch(pkt)
    BY <1>8 DEF IsMismatch
  <2>2. y # R + 1
    BY <1>2, <1>4, <1>8
  <2> QED
    BY <2>1, <2>2 DEF y, R
<1>9. CASE fromFpga[1].op = "ACK"
  <2>1. pkt.op # "NACKT" /\ pkt.svr_seq = NumberOf(y)
    BY <1>5, <1>9
  <2>2. IsMismatch(pkt) <=> NumberOf(y) # NumberOf(R + 1)
    BY <1>3, <2>1 DEF IsMismatch
  <2>3. IsMismatch(pkt) <=> y # R + 1
    BY <1>7, <2>2
  <2> QED
    BY <2>3 DEF y, R
<1> QED
  BY <1>2, <1>8, <1>9

\* Every transmission of a pending transaction of which nothing is under way was lost.
LEMMA TransmissionsLost ==
    ASSUME SysInv, Timely, m_transList # <<>>,
           \A i \in 1 .. Num : ~ m_waitingForRetryResponse /\ Way[i] # Retired + 1
    PROVE  m_transList[1].sendCount <= lost
<1> DEFINE c == m_transList[1].sendCount
           R == Retired
           x == m_numInTransit
<1>1. m_isConnected /\ c \in 1 .. (MaxRetries + 1)
  BY FrontFacts DEF SysInv
<1>2. /\ R \in Nat /\ lost \in Nat
      /\ Explained(Way, Num, m_waitingForRetryResponse, R, x, c, lost)
  BY <1>1, TimelyTypes
<1>3. ~ Has(Way, Num, R + 1)
  BY DEF Has
<1>4. CASE m_waitingForRetryResponse
  BY <1>2, <1>3, <1>4 DEF Explained
<1>5. CASE ~ m_waitingForRetryResponse
  <2>1. c = 1 /\ x \in Nat /\ x >= 1
    BY <1>5, ListFacts DEF SysInv
  <2>2. R + 1 \in (R + 1) .. (R + x)
    <3> HIDE DEF R, x
    <3> QED
      BY <1>2, <2>1
  <2>3. lost >= 1
    BY <1>2, <1>3, <1>5, <2>2 DEF Explained
  <2> HIDE DEF c
  <2>4. c <= lost
    BY <1>2, <2>1, <2>3
  <2> QED
    BY <2>4 DEF c
<1> QED
  BY <1>4, <1>5

LEMMA TimesOutTimely ==
    ASSUME SysInv, SysInv', Timely, ~ Late, ClientTimesOut
    PROVE  Timely'
<1> DEFINE c == m_transList[1].sendCount
<1>1. /\ OnPktTimeout /\ Transmits /\ fromFpga' = fromFpga /\ lost' = lost
      /\ m_transList # <<>> => MayExpire(m_transList[1], fromFpga)
  BY DEF ClientTimesOut
<1>2. /\ m_transList # <<>> /\ WrittenMarked'
      /\ \/ c > MaxRetries /\ GivesUp
         \/ GoesBack(Retired, c)
  BY <1>1, TimeoutEffect, TimeoutWrites DEF SysInv
<1>3. /\ m_isConnected /\ c \in 1 .. (MaxRetries + 1)
      /\ c > 1 => m_waitingForRetryResponse
  BY <1>2, FrontFacts DEF SysInv
<1>4. /\ NetTypes /\ Num \in Nat /\ Retired \in Nat /\ Top \in Nat /\ lost \in Nat
      /\ ~ undefined /\ Rejected(Retired, fromFpga)
      /\ Orderly(Way, Num, m_waitingForRetryResponse, Retired, Top)
  BY <1>2, FrontFacts, TimelyTypes DEF SysInv
<1>5. \A i \in 1 .. Num : ~ m_waitingForRetryResponse /\ Way[i] # Retired + 1
  <2>1. Quiet(m_transList[1], fromFpga)
    BY <1>1, <1>2 DEF MayExpire
  <2>2. m_transList[1].id = Retired + 1
    BY <1>2, FrontNumber DEF SysInv
  <2> TAKE i \in 1 .. Num
  <2>3. i \in (0 + 1) .. Num
    OBVIOUS
  <2>4. ~ m_waitingForRetryResponse /\ ~(Way[i] <= m_transList[1].id)
    BY <1>4, <2>1, <2>3, QuietWay
  <2> QED
    BY <1>4, <2>2, <2>4
<1>6. c <= lost
  BY <1>2, <1>5, TransmissionsLost
<1>7. m_isConnected
  BY <1>2, FrontFacts DEF SysInv
<1>8. CASE GoesBack(Retired, c)
  <2>1. Moved(Way, Num, Way', Num', 0, WrittenIds')
    BY <1>1, <1>2, <1>4, ClientMoves DEF SysInv
  <2>2. \A i \in 1 .. (Num - 0) : Way'[i] = Way[i + 0]
    BY <2>1 DEF Moved
  <2>3. \A i \in 1 .. Num : Way'[i] = Way[i]
    BY <1>4, <2>2
  <2>4. Orderly(Way', Num - 0, FALSE, Retired, Top)
    <3>1. Num - 0 = Num
      BY <1>4
    <3>2. CASE m_waitingForRetryResponse
      <4>1. \A i \in 1 .. Num : FALSE
        BY <1>5, <3>2
      <4> QED
        BY <3>1, <4>1 DEF Orderly
    <3>3. CASE ~ m_waitingForRetryResponse
      BY <1>4, <2>3, <3>1, <3>3 DEF Orderly, Follows
    <3> QED
      BY <3>2, <3>3
  <2>5. \A i \in 1 .. (Num - 0) : Way'[i] # Retired + 1
    BY <1>4, <1>5, <2>3
  <2>6. Top \in Int /\ Top <= Retired + PipelineLen
    <3>1. ~ m_waitingForRetryResponse => m_numInTransit \in Nat /\ m_numInTransit <= PipelineLen
      BY ListFacts DEF SysInv
    <3> QED
      BY <1>4, <3>1, Sizes DEF Top
  <2>7. Rejected(Retired, fromFpga')
    BY <1>1, <1>4
  <2>8. c \in Nat /\ Takes(0)
    BY <1>1, <1>3, RetriesAssumption DEF Takes
  <2> HIDE DEF c
  <2> QED
    BY <1>1, <1>2, <1>4, <1>6, <1>7, <1>8, <2>4, <2>5, <2>6, <2>7, <2>8, RewindsTimely
<1>9. CASE c > MaxRetries /\ GivesUp
  <2>1. m_waitingForRetryResponse /\ lost > MaxRetries
    <3> HIDE DEF c
    <3>1. c > 1 /\ lost > MaxRetries
      BY <1>3, <1>4, <1>6, <1>9, RetriesAssumption
    <3> QED
      BY <1>3, <3>1
  <2>2. Num = 0
    <3> SUFFICES ASSUME Num # 0 PROVE FALSE
      OBVIOUS
    <3>1. 1 \in 1 .. Num
      BY <1>4
    <3> QED
      BY <1>5, <2>1, <3>1
  <2>3. /\ Len(fromFpga) = 0 /\ Len(toFpga) = 0 /\ fromFpga = <<>>
    <3>1. Len(fromFpga) \in Nat /\ Len(toFpga) \in Nat
      BY <1>4, NetFacts
    <3>2. Len(fromFpga) = 0 /\ Len(toFpga) = 0
      BY <2>2, <3>1 DEF Num
    <3> QED
      BY <1>4, <3>2, EmptySeq DEF NetTypes
  <2>4. toFpga' = <<>>
    <3> DEFINE m == Len(toFpga')
    <3>1. WrittenIds' = {}
      BY <1>9 DEF GivesUp, WrittenIds
    <3>2. /\ m \in Nat /\ toFpga' \in Seq(Datagrams)
          /\ \A i \in (Len(toFpga) + 1) .. m : toFpga'[i].id \in WrittenIds'
      BY <1>1, <1>2, <1>4, TransmitsWritten DEF SysInv
    <3>3. m = 0
      <4> HIDE DEF m
      <4> SUFFICES ASSUME m # 0 PROVE FALSE
        OBVIOUS
      <4>1. 1 \in (Len(toFpga) + 1) .. m
        BY <2>3, <3>2
      <4> QED
        BY <3>1, <3>2, <4>1
    <3> QED
      BY <3>2, <3>3, EmptySeq
  <2>5. ~ m_isConnected' /\ undefined' = undefined
    BY <1>9 DEF GivesUp
  <2>6. fromFpga' = <<>>
    BY <1>1, <2>3
  <2> QED
    BY <1>1, <1>4, <2>1, <2>4, <2>5, <2>6, TimelyNext
<1> QED
  BY <1>2, <1>8, <1>9

\* The oldest transaction is pending while anything is under way.
LEMMA PendingUnderWay ==
    ASSUME SysInv, Timely, fromFpga # <<>>
    PROVE  m_isConnected /\ m_transList # <<>>
<1>1. m_isConnected
  BY DEF Timely
<1>2. m_transList # <<>>
  <2> SUFFICES ASSUME m_transList = <<>> PROVE FALSE
    OBVIOUS
  <2>1. ~ m_waitingForRetryResponse
    BY <1>1 DEF SysInv, IInv, Window
  <2>2. m_numInTransit \in Nat /\ m_numInTransit <= Len(m_transList) /\ Len(m_transList) = 0
    BY <2>1, ListFacts DEF SysInv
  <2>3. /\ NetTypes /\ Retired \in Nat
        /\ Orderly(Way, Num, m_waitingForRetryResponse, Retired, Top)
    BY <1>1, TimelyTypes
  <2>4. 1 \in 1 .. Num
    BY <2>3, WayHead
  <2>5. Retired < Way[1] /\ Way[1] <= Top /\ Way[1] \in Nat
    BY <2>3, <2>4 DEF Orderly
  <2>6. Top = Retired
    BY <2>1, <2>2, <2>3 DEF Top
  <2> QED
    BY <2>3, <2>5, <2>6
<1> QED
  BY <1>1, <1>2

\* What the client does with the first reply, on a network that is in time.
LEMMA ReceivesCases ==
    ASSUME SysInv, Timely, ~ Late, ClientReceives
    PROVE  /\ m_isConnected /\ m_transList # <<>> /\ fromFpga # <<>> /\ Takes(1)
           /\ Transmits /\ WrittenMarked' /\ lost' = lost /\ NetTypes
           /\ Num \in Nat /\ Num >= 1 /\ 1 \in 1 .. Num /\ Way[1] = fromFpga[1].re
           /\ \/ m_waitingForRetryResponse /\ Ignores /\ Way[1] # Retired + 1
              \/ ~ m_waitingForRetryResponse /\ GoesBack(Retired, 1) /\ Way[1] # Retired + 1
              \/ /\ Way[1] = Retired + 1
                 /\ SendsOn(Retired + 1, Retired + 1 + InFlightAfterReply)
              \/ /\ Way[1] = Retired + 1 /\ ~ m_waitingForRetryResponse
                 /\ m_numInTransit >= 2 /\ Len(m_transList) > 1
                 /\ GoesBack(Retired + 1, 1) /\ Quiet(m_transList[2], Tail(fromFpga))
<1> DEFINE pkt == [op |-> fromFpga[1].op, svr_seq |-> fromFpga[1].svr_seq]
<1>1. /\ fromFpga # <<>> /\ Takes(1) /\ Transmits /\ lost' = lost
  BY DEF ClientReceives, Takes
<1>2. IInv /\ Numbering /\ NetInv /\ NetTypes /\ fromFpga \in Seq(Replies)
  BY DEF SysInv, NetInv, NetTypes
<1>3. m_isConnected /\ m_transList # <<>> /\ WrittenMarked'
  BY <1>1, <1>2, PendingUnderWay, ClientSteps
<1>4. Num \in Nat /\ Num >= 1 /\ 1 \in 1 .. Num /\ Way[1] = fromFpga[1].re
  BY <1>1, <1>2, WayHead
<1>5. Head(fromFpga) = fromFpga[1] /\ fromFpga[1].op \in {"ACK", "NACKT"}
  BY <1>1, <1>2, TailFacts, NetFacts
<1>6. PICK expired \in BOOLEAN :
        /\ OnPktRxReady(pkt, expired)
        /\ expired /\ Len(m_transList) > 1 => MayExpire(m_transList[2], Tail(fromFpga))
  BY <1>5 DEF ClientReceives
<1>7. pkt.op = fromFpga[1].op /\ pkt.svr_seq = fromFpga[1].svr_seq
  OBVIOUS
<1> HIDE DEF pkt
<1>8. IsMismatch(pkt) <=> Way[1] # Retired + 1
  BY <1>1, <1>3, <1>4, <1>7, MismatchIsForAnother
<1>9. pkt.op \in {"ACK", "NACKT"}
  BY <1>5, <1>7
<1>10. \/ IsMismatch(pkt) /\ m_waitingForRetryResponse /\ Ignores
       \/ IsMismatch(pkt) /\ ~ m_waitingForRetryResponse /\ GoesBack(Retired, 1)
       \/ /\ ~ IsMismatch(pkt)
          /\ \/ SendsOn(Retired + 1, Retired + 1 + InFlightAfterReply)
             \/ /\ expired /\ Len(m_transList) > 1 /\ ~ m_waitingForRetryResponse
                /\ m_numInTransit >= 2 /\ GoesBack(Retired + 1, 1)
  BY <1>2, <1>3, <1>6, <1>9, PacketEffect
<1>11. expired /\ Len(m_transList) > 1 => Quiet(m_transList[2], Tail(fromFpga))
  BY <1>6 DEF MayExpire
<1> QED
  BY <1>1, <1>2, <1>3, <1>4, <1>8, <1>10, <1>11

LEMMA ReceivesTimely ==
    ASSUME SysInv, SysInv', Timely, ~ Late, ClientReceives
    PROVE  /\ Timely'
           /\ m_waitingForRetryResponse /\ ~ m_waitingForRetryResponse' => Num = 1
<1>1. /\ m_isConnected /\ m_transList # <<>> /\ fromFpga # <<>> /\ Takes(1)
      /\ Transmits /\ WrittenMarked' /\ lost' = lost /\ NetTypes
      /\ Num \in Nat /\ Num >= 1 /\ 1 \in 1 .. Num /\ Way[1] = fromFpga[1].re
  BY ReceivesCases
<1>2. /\ Retired \in Nat /\ Top \in Nat /\ lost \in Nat /\ fromFpga \in Seq(Replies)
      /\ m_numInTransit \in Nat /\ Rejected(Retired, fromFpga)
      /\ Orderly(Way, Num, m_waitingForRetryResponse, Retired, Top)
      /\ Explained(Way, Num, m_waitingForRetryResponse, Retired, m_numInTransit,
                   m_transList[1].sendCount, lost)
  BY <1>1, TimelyTypes
<1>3. Moved(Way, Num, Way', Num', 1, WrittenIds')
  BY <1>1, ClientMoves DEF SysInv, Takes
<1>4. /\ \A i \in 1 .. (Num - 1) : i + 1 \in 1 .. Num /\ Way'[i] = Way[i + 1]
      /\ Num - 1 \in Nat
  BY <1>1, <1>3 DEF Moved
<1>5. /\ \A i \in 1 .. Num : Way[i] \in Nat /\ Retired < Way[i] /\ Way[i] <= Top
      /\ ~ m_waitingForRetryResponse => \A i \in 2 .. Num : Way[1] < Way[i]
  BY <1>1, <1>2 DEF Orderly, Follows
<1>6. fromFpga[1].op \in {"ACK", "NACKT"} /\ 1 \in 1 .. Len(fromFpga) /\ fromFpga' = Tail(fromFpga)
  BY <1>1, NetFacts DEF Takes
<1>7. Rejected(Retired, fromFpga')
  BY <1>1, <1>2, <1>6, RejectedRest
<1>8. Way[1] = Retired + 1 => fromFpga[1].op = "ACK"
  <2> SUFFICES ASSUME Way[1] = Retired + 1, fromFpga[1].op = "NACKT" PROVE FALSE
    BY <1>6
  <2>1. Retired + 1 < fromFpga[1].re
    BY <1>2, <1>6 DEF Rejected
  <2>2. Retired + 1 < Retired + 1
    BY <1>1, <2>1
  <2> QED
    BY <1>2, <2>2
<1>9. ~ m_waitingForRetryResponse => /\ Top = Retired + m_numInTransit
                                     /\ m_numInTransit <= PipelineLen
  BY ListFacts DEF SysInv, Top
<1>10. CASE m_waitingForRetryResponse /\ Ignores /\ Way[1] # Retired + 1
  <2>1. m_waitingForRetryResponse' = m_waitingForRetryResponse
    BY <1>10 DEF Ignores
  <2>2. Timely'
    BY <1>1, <1>10, IgnoresTimely
  <2> QED
    BY <2>1, <2>2
<1>11. CASE ~ m_waitingForRetryResponse /\ GoesBack(Retired, 1) /\ Way[1] # Retired + 1
  <2>1. ASSUME NEW i \in 1 .. Num PROVE Way[i] # Retired + 1
    <3>1. Way[1] > Retired + 1 /\ Way[1] \in Nat
      BY <1>1, <1>2, <1>5, <1>11
    <3>2. i = 1 \/ i \in 2 .. Num
      BY <1>1
    <3> QED
      BY <1>2, <1>5, <1>11, <3>1, <3>2
  <2>2. 1 <= lost
    <3>1. m_transList[1].sendCount <= lost
      BY <1>1, <1>11, <2>1, TransmissionsLost
    <3>2. m_transList[1].sendCount = 1
      BY <1>1, <1>11, ListFacts DEF SysInv
    <3> QED
      BY <3>1, <3>2
  <2>3. Orderly(Way', Num - 1, FALSE, Retired, Top)
    <3>1. Thinned(Way, Num, Way', Num - 1)
      BY <1>3, MovedRest
    <3>2. Orderly(Way, Num, FALSE, Retired, Top)
      BY <1>2, <1>11 DEF Orderly, Follows
    <3> DEFINE v == Way'
               k == Num - 1
    <3>3. Thinned(Way, Num, v, k) /\ k \in Nat /\ Num \in Nat /\ Retired \in Int /\ Top \in Int
      BY <1>1, <1>2, <1>4, <3>1
    <3> HIDE DEF v, k
    <3>4. Orderly(v, k, FALSE, Retired, Top)
      BY <3>2, <3>3, ThinnedOrderly
    <3> QED
      BY <3>4 DEF v, k
  <2>4. \A i \in 1 .. (Num - 1) : Way'[i] # Retired + 1
    BY <1>4, <2>1
  <2>5. Top \in Int /\ Top <= Retired + PipelineLen
    BY <1>2, <1>9, <1>11, Sizes
  <2>6. Timely'
    BY <1>1, <1>2, <1>7, <1>11, <2>2, <2>3, <2>4, <2>5, RewindsTimely
  <2> QED
    BY <1>11, <2>6
<1>12. CASE Way[1] = Retired + 1 /\ SendsOn(Retired + 1, Retired + 1 + InFlightAfterReply)
  BY <1>1, <1>8, <1>12, AnsweredTimely
<1>13. CASE /\ Way[1] = Retired + 1 /\ ~ m_waitingForRetryResponse
            /\ m_numInTransit >= 2 /\ Len(m_transList) > 1
            /\ GoesBack(Retired + 1, 1) /\ Quiet(m_transList[2], Tail(fromFpga))
  <2>1. m_transList[2].id = Retired + 2
    <3>1. 2 \in 1 .. Len(m_transList)
      BY <1>13, ListFacts, LenProperties DEF SysInv
    <3> QED
      BY <3>1, ListFacts DEF SysInv
  <2>2. ASSUME NEW i \in 2 .. Num PROVE Way[i] # Retired + 2
    <3>1. i \in (1 + 1) .. Num /\ i \in 1 .. Num
      BY <1>1
    <3>2. ~(Way[i] <= m_transList[2].id)
      BY <1>1, <1>13, <3>1, QuietWay
    <3> QED
      BY <1>2, <2>1, <3>2
  <2>3. 1 <= lost
    <3>1. Retired + 2 \in (Retired + 1) .. (Retired + m_numInTransit)
      BY <1>2, <1>13
    <3>2. Has(Way, Num, Retired + 2) \/ lost >= 1
      BY <1>2, <1>13, <3>1 DEF Explained
    <3>3. ~ Has(Way, Num, Retired + 2)
      <4>1. \A i \in 1 .. Num : i = 1 \/ i \in 2 .. Num
        BY <1>1
      <4>2. \A i \in 1 .. Num : Way[i] # Retired + 2
        BY <1>2, <1>13, <2>2, <4>1
      <4> QED
        BY <4>2 DEF Has
    <3> QED
      BY <1>2, <3>2, <3>3
  <2>4. Orderly(Way', Num - 1, FALSE, Retired + 1, Top)
    <3>1. Orderly(Way, Num, FALSE, Retired, Top)
      BY <1>2, <1>13 DEF Orderly, Follows
    <3> DEFINE v == Way'
               n == Num
               u == Way
    <3>2. /\ n \in Nat /\ n >= 1 /\ Retired \in Int /\ Top \in Int
          /\ u[1] = Retired + 1
          /\ \A i \in 1 .. (n - 1) : v[i] = u[i + 1]
          /\ Orderly(u, n, FALSE, Retired, Top)
      <4>1. n \in Nat /\ n >= 1 /\ Retired \in Int /\ Top \in Int /\ u[1] = Retired + 1
        BY <1>1, <1>2, <1>13
      <4>2. \A i \in 1 .. (n - 1) : v[i] = u[i + 1]
        BY <1>4
      <4> QED
        BY <3>1, <4>1, <4>2
    <3> HIDE DEF v, n, u
    <3>3. Orderly(v, n - 1, FALSE, Retired + 1, Top)
      BY ONLY <3>2, AnsweredOrderly
    <3> QED
      BY <3>3 DEF v, n
  <2>5. ASSUME NEW i \in 1 .. (Num - 1) PROVE Way'[i] # (Retired + 1) + 1
    <3>1. i + 1 \in 2 .. Num /\ Way'[i] = Way[i + 1]
      BY <1>1, <1>4
    <3>2. Way[i + 1] # Retired + 2
      BY <2>2, <3>1
    <3> QED
      BY <1>2, <3>1, <3>2
  <2>6. Top \in Int /\ Top <= (Retired + 1) + PipelineLen /\ Retired + 1 \in Nat
    BY <1>2, <1>9, <1>13, Sizes
  <2>7. Rejected(Retired + 1, fromFpga')
    <3>1. Rejected(Retired + 1, Tail(fromFpga))
      <4>1. /\ fromFpga[1].op = "ACK" /\ fromFpga[1].re = Retired + 1 /\ fromFpga # <<>>
        BY <1>1, <1>8, <1>13
      <4> QED
        BY ONLY <1>2, <4>1, RejectedAnswered
    <3> QED
      BY <1>6, <3>1
  <2>8. GoesBack(Retired + 1, 1)
    BY <1>13
  <2>9. Timely'
    <3> DEFINE base == Retired + 1
    <3>1. /\ base \in Nat /\ GoesBack(base, 1) /\ Top <= base + PipelineLen
          /\ Orderly(Way', Num - 1, FALSE, base, Top)
          /\ \A i \in 1 .. (Num - 1) : Way'[i] # base + 1
          /\ Rejected(base, fromFpga')
      BY <2>4, <2>5, <2>6, <2>7, <2>8
    <3> HIDE DEF base
    <3> QED
      BY <1>1, <1>2, <2>3, <2>6, <3>1, RewindsTimely
  <2> QED
    BY <1>13, <2>9
<1> QED
  BY <1>10, <1>11, <1>12, <1>13, ReceivesCases

LEMMA RequestsTimely ==
    ASSUME SysInv, SysInv', Timely, ClientRequests
    PROVE  /\ Timely'
           /\ m_waitingForRetryResponse => m_waitingForRetryResponse'
<1>1. /\ UserNext /\ Transmits /\ fromFpga' = fromFpga /\ lost' = lost
      /\ WrittenMarked' /\ NetTypes
  BY UserWrites DEF ClientRequests, SysInv, NetInv
<1>2. CASE m_isConnected
  <2>1. CASE Ignores
    <3>1. Timely'
      BY <1>1, <1>2, <2>1, IgnoresTimely DEF Takes
    <3> QED
      BY <2>1, <3>1 DEF Ignores
  <2>2. CASE ~ m_waitingForRetryResponse /\ SendsOn(Retired, Retired + m_numInTransit)
    BY <1>1, <1>2, <2>2, FillsTimely
  <2> QED
    BY <1>1, <1>2, <2>1, <2>2, UserEffect DEF SysInv
<1>3. CASE ~ m_isConnected
  <2>1. /\ written' = {} /\ UNCHANGED <<m_isConnected, undefined, m_waitingForRetryResponse>>
    BY <1>1, <1>3 DEF UserNext, OpenChannel, Dispose, RwNotConnected, Rw
  <2>2. /\ toFpga = <<>> /\ fromFpga = <<>> /\ lost > MaxRetries /\ lost \in Nat /\ ~ undefined
    BY <1>3 DEF Timely
  <2>3. toFpga' = <<>>
    <3> DEFINE m == Len(toFpga')
    <3>1. WrittenIds' = {}
      BY <2>1 DEF WrittenIds
    <3>2. /\ m \in Nat /\ toFpga' \in Seq(Datagrams)
          /\ \A i \in (Len(toFpga) + 1) .. m : toFpga'[i].id \in WrittenIds'
      BY <1>1, TransmitsWritten DEF SysInv
    <3>3. Len(toFpga) = 0
      BY <2>2
    <3>4. m = 0
      <4> HIDE DEF m
      <4> SUFFICES ASSUME m # 0 PROVE FALSE
        OBVIOUS
      <4>1. 1 \in (Len(toFpga) + 1) .. m
        BY <3>2, <3>3
      <4> QED
        BY <3>1, <3>2, <4>1
    <3> QED
      BY <3>2, <3>4, EmptySeq
  <2>4. ~ m_isConnected' /\ undefined' = undefined /\ fromFpga' = <<>>
    BY <1>1, <1>3, <2>1, <2>2
  <2>5. Timely'
    BY <1>1, <2>2, <2>3, <2>4, TimelyNext
  <2> QED
    BY <2>1, <2>5
<1> QED
  BY <1>2, <1>3

LEMMA TimelyStep ==
    ASSUME ~ Late, SysInv, SysInv', Timely, [SysNext]_sysVars
    PROVE  Timely'
<1>1. CASE UNCHANGED sysVars
  <2>1. UNCHANGED vars /\ UNCHANGED netVars
    BY <1>1 DEF sysVars
  <2>2. /\ UNCHANGED <<undefined, lost, m_isConnected, m_waitingForRetryResponse,
                       m_numInTransit, m_transList, owner, fromFpga, toFpga>>
    BY <2>1 DEF vars, netVars
  <2>3. Way' = Way /\ Num' = Num /\ Retired' = Retired /\ Top' = Top
    BY <2>2 DEF Way, Num, Retired, Top
  <2> QED
    BY <2>2, <2>3, TimelyNext DEF Timely
<1>2. CASE ClientRequests
  BY <1>2, RequestsTimely
<1>3. CASE ClientReceives
  BY <1>3, ReceivesTimely
<1>4. CASE ClientTimesOut
  BY <1>4, TimesOutTimely
<1>5. CASE FpgaReceives
  BY <1>5, FpgaReceivesTimely
<1>6. CASE Lose
  BY <1>6, LoseTimely
<1> QED
  BY <1>1, <1>2, <1>3, <1>4, <1>5, <1>6 DEF SysNext

--------------------------------------------------------------------------------
(* The theorems.                                                             *)

\* What is under way is in order, what is missing was lost, and refusals are only for
\* transactions ahead of a gap: the invariant behind the theorems below.
THEOREM TimelyInvariant == ~ Late => (SysSpec => []Timely)
<1> SUFFICES ASSUME ~ Late PROVE SysSpec => []Timely
  OBVIOUS
<1>1. SysInit => Timely
  BY TimelyInit
<1>2. SysInv /\ SysInv' /\ Timely /\ [SysNext]_sysVars => Timely'
  BY TimelyStep
<1> QED
  BY <1>1, <1>2, SysInvariant, PTL DEF SysSpec

\* gemini_comms.cpp takes the front of the transaction list without looking whether there
\* is one: no reply can come while the list is empty.
THEOREM NeverUndefined == ~ Late => (SysSpec => []NoUndefined)
<1> SUFFICES ASSUME ~ Late PROVE SysSpec => []NoUndefined
  OBVIOUS
<1>1. Timely => NoUndefined
  BY DEF Timely, NoUndefined
<1>2. SysSpec => []Timely
  BY TimelyInvariant
<1> QED
  BY <1>1, <1>2, PTL

\* The client gives the FPGA up for dead only when more packets were lost than it may
\* send again.
THEOREM GivesUpForLosses == ~ Late => (SysSpec => []GiveUpMeansLoss)
<1> SUFFICES ASSUME ~ Late PROVE SysSpec => []GiveUpMeansLoss
  OBVIOUS
<1>1. Timely => GiveUpMeansLoss
  BY DEF Timely, GiveUpMeansLoss
<1>2. SysSpec => []Timely
  BY TimelyInvariant
<1> QED
  BY <1>1, <1>2, PTL

\* The datagrams under way are of different transactions of one window.
LEMMA DatagramsFit ==
    ASSUME SysInv, Timely
    PROVE  PipelineRespected
<1>1. CASE ~ m_isConnected
  <2>1. Len(toFpga) = 0
    BY <1>1 DEF Timely
  <2> QED
    BY <2>1, Sizes DEF PipelineRespected
<1>2. CASE m_isConnected
  <2> DEFINE m == Len(toFpga)
             k == Len(fromFpga)
             R == Retired
             T == (R + 1) .. (R + PipelineLen)
             f == [i \in 1 .. m |-> Way[k + i]]
  <2>1. /\ m \in Nat /\ k \in Nat /\ R \in Nat /\ Top \in Nat /\ Num = k + m
        /\ Orderly(Way, Num, m_waitingForRetryResponse, R, Top)
    BY <1>2, TimelyTypes, NetFacts DEF Num
  <2>2. Top <= R + PipelineLen
    <3>1. ~ m_waitingForRetryResponse => m_numInTransit \in Nat /\ m_numInTransit <= PipelineLen
      BY ListFacts DEF SysInv
    <3> QED
      BY <2>1, <3>1, Sizes DEF Top
  <2> HIDE DEF m, k, R
  <2>3. \A i \in 1 .. m : k + i \in 1 .. Num
    BY <2>1
  <2>4. f \in [1 .. m -> T]
    <3>1. ASSUME NEW i \in 1 .. m PROVE Way[k + i] \in T
      <4>1. Way[k + i] \in Nat /\ R < Way[k + i] /\ Way[k + i] <= Top
        BY <2>1, <2>3 DEF Orderly
      <4> QED
        BY <2>1, <2>2, <4>1, Sizes
    <3> QED
      BY <3>1
  <2>5. ASSUME NEW i \in 1 .. m, NEW j \in 1 .. m, i < j
        PROVE  f[i] # f[j]
    <3>1. k + i \in 1 .. Num /\ k + j \in 1 .. Num /\ k + i < k + j
      BY <2>1, <2>3, <2>5
    <3>2. /\ Follows(m_waitingForRetryResponse, R, Way[k + i], Way[k + j])
          /\ Way[k + i] \in Nat /\ Way[k + j] \in Nat
      BY <2>1, <3>1 DEF Orderly
    <3>3. Way[k + i] # Way[k + j]
      BY <2>1, <3>2 DEF Follows
    <3> QED
      BY <3>3
  <2> HIDE DEF f
  <2>6. \A i, j \in 1 .. m : f[i] = f[j] => i = j
    <3> SUFFICES ASSUME NEW i \in 1 .. m, NEW j \in 1 .. m, f[i] = f[j], i # j PROVE FALSE
      OBVIOUS
    <3>1. i < j \/ j < i
      BY <2>1
    <3> QED
      BY <2>5, <3>1
  <2>7. f \in Injection(1 .. m, T)
    BY <2>4, <2>6 DEF Injection, IsInjective
  <2>8. /\ IsFiniteSet(T) /\ Cardinality(T) = PipelineLen
    <3>1. R + 1 \in Int /\ R + PipelineLen \in Int /\ ~(R + 1 > R + PipelineLen)
          /\ (R + PipelineLen) - (R + 1) + 1 = PipelineLen
      BY <2>1, Sizes
    <3> QED
      BY <3>1, FS_Interval
  <2>9. Cardinality(1 .. m) = m
    BY <2>1, FS_Interval
  <2> HIDE DEF T
  <2>10. m <= PipelineLen
    BY <2>7, <2>8, <2>9, FS_Injection
  <2> QED
    BY <2>10 DEF PipelineRespected, m
<1> QED
  BY <1>1, <1>2

\* gemini_comms.cpp:372: the FPGA's buffer is never overrun, retries and rewound windows
\* included.
THEOREM BufferNeverOverrun == ~ Late => (SysSpec => []PipelineRespected)
<1> SUFFICES ASSUME ~ Late PROVE SysSpec => []PipelineRespected
  OBVIOUS
<1>1. SysInv /\ Timely => PipelineRespected
  BY DatagramsFit
<1>2. SysSpec => []Timely
  BY TimelyInvariant
<1> QED
  BY <1>1, <1>2, SysInvariant, PTL

\* gemini_comms.cpp:527-528: the reply to a retry is the last thing under way, so the
\* window may start again from empty.
THEOREM RetryEmptiesBuffer == ~ Late => (SysSpec => BufferEmptyAfterRetry)
<1> SUFFICES ASSUME ~ Late PROVE SysSpec => BufferEmptyAfterRetry
  OBVIOUS
<1> DEFINE A == m_waitingForRetryResponse /\ ~ m_waitingForRetryResponse' => toFpga = <<>>
<1>1. SysInv /\ SysInv' /\ Timely /\ [SysNext]_sysVars => [A]_sysVars
  <2> SUFFICES ASSUME SysInv, SysInv', Timely, SysNext,
                      m_waitingForRetryResponse, ~ m_waitingForRetryResponse'
               PROVE  toFpga = <<>>
    OBVIOUS
  <2>1. CASE ClientRequests
    BY <2>1, RequestsTimely
  <2>2. CASE ClientTimesOut
    BY <2>2, TimeoutEffect DEF ClientTimesOut, SysInv, GivesUp, GoesBack
  <2>3. CASE FpgaReceives \/ Lose
    BY <2>3 DEF FpgaReceives, Lose, vars
  <2>4. CASE ClientReceives
    <3>1. Num = 1 /\ fromFpga # <<>> /\ NetTypes
      BY <2>4, ReceivesTimely, ReceivesCases
    <3>2. Len(fromFpga) \in Nat /\ Len(toFpga) \in Nat /\ 1 \in 1 .. Len(fromFpga)
      BY <3>1, NetFacts
    <3>3. Len(toFpga) = 0
      BY <3>1, <3>2 DEF Num
    <3> QED
      BY <3>1, <3>3, EmptySeq DEF NetTypes
  <2> QED
    BY <2>1, <2>2, <2>3, <2>4 DEF SysNext
<1>2. SysSpec => []Timely
  BY TimelyInvariant
<1> QED
  BY <1>1, <1>2, SysInvariant, PTL DEF SysSpec, BufferEmptyAfterRetry

\* gemini_comms.cpp:495-498: an acknowledgement that is not for the oldest transaction is
\* for a later one, never for one that is retired already.
THEOREM RetriesOnLaterAck == ~ Late => (SysSpec => RetryOnLaterAck)
<1> SUFFICES ASSUME ~ Late PROVE SysSpec => RetryOnLaterAck
  OBVIOUS
<1> DEFINE A == \A p \in {fromFpga[i] : i \in DOMAIN fromFpga} :
                    /\ Consumed(p)
                    /\ p.op = "ACK"
                    /\ m_waitingForRetryResponse' /\ ~m_waitingForRetryResponse
                    /\ m_transList' # <<>> /\ m_transList # <<>>
                    /\ m_transList'[1].id = m_transList[1].id
                    => p.re > m_transList[1].id
<1>1. SysInv /\ SysInv' /\ Timely /\ [SysNext]_sysVars => [A]_sysVars
  <2> SUFFICES ASSUME SysInv, SysInv', Timely, SysNext, NEW p, Consumed(p),
                      m_waitingForRetryResponse', ~ m_waitingForRetryResponse,
                      m_transList' # <<>>, m_transList # <<>>,
                      m_transList'[1].id = m_transList[1].id
               PROVE  p.re > m_transList[1].id
    OBVIOUS
  <2>1. fromFpga # <<>> /\ p = Head(fromFpga) /\ fromFpga' = Tail(fromFpga)
    BY DEF Consumed
  <2>2. fromFpga \in Seq(Replies)
    BY DEF SysInv, NetInv, NetTypes
  <2>3. p = fromFpga[1] /\ fromFpga' # fromFpga
    <3>1. /\ Head(fromFpga) = fromFpga[1] /\ Len(fromFpga) \in Nat
          /\ Len(Tail(fromFpga)) = Len(fromFpga) - 1
      BY <2>1, <2>2, TailFacts
    <3>2. Tail(fromFpga) # fromFpga
      BY <3>1
    <3> QED
      BY <2>1, <3>1, <3>2
  <2>4. ClientReceives
    BY <2>3 DEF SysNext, ClientRequests, ClientTimesOut, FpgaReceives, Lose, vars
  <2>5. m_transList[1].id = Retired + 1
    BY FrontNumber DEF SysInv
  <2>6. m_transList'[1].id = Retired' + 1
    <3>1. m_transList' \in Seq(Trans)
      BY DEF SysInv, IInv, Typed
    <3>2. 1 \in 1 .. Len(m_transList')
      <4> DEFINE L == m_transList'
      <4>1. L \in Seq(Trans) /\ L # <<>>
        BY <3>1
      <4> HIDE DEF L
      <4>2. 1 \in 1 .. Len(L)
        BY <4>1, TailFacts
      <4> QED
        BY <4>2 DEF L
    <3> QED
      BY <3>2 DEF SysInv, IInv, Consecutive, Retired
  <2>7. Retired \in Nat
    BY RetiredType DEF SysInv
  <2>8. Retired' # Retired + 1
    BY <2>5, <2>6, <2>7
  <2>9. Way[1] # Retired + 1 /\ Way[1] = fromFpga[1].re /\ 1 \in 1 .. Num /\ m_isConnected
    BY <2>4, <2>8, ReceivesCases DEF SendsOn, GoesBack
  <2>10. Way[1] \in Nat /\ Retired < Way[1]
    BY <2>9, TimelyTypes DEF Orderly
  <2> QED
    BY <2>3, <2>5, <2>7, <2>9, <2>10
<1>2. SysSpec => []Timely
  BY TimelyInvariant
<1> QED
  BY <1>1, <1>2, SysInvariant, PTL DEF SysSpec, RetryOnLaterAck
================================================================================
