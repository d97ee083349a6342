----------------------------- MODULE PoolProofs -----------------------------
(***************************************************************************)
(* Proofs about InstancePool for any number of callers and instances, any  *)
(* sizes, and any number of failing creations.                             *)
(***************************************************************************)
EXTENDS InstancePool, FiniteSetTheorems, SequenceTheorems, TLAPS

-----------------------------------------------------------------------------
(* Stacks: sequences and the sets of their elements.                       *)

\* The elements come from where the sequence does.
LEMMA ToSetIn ==
    ASSUME NEW S, NEW s \in Seq(S)
    PROVE  ToSet(s) \subseteq S
<1>1. DOMAIN s = 1 .. Len(s) /\ \A k \in 1 .. Len(s) : s[k] \in S  BY LenProperties, ElementOfSeq
<1> QED BY <1>1 DEF ToSet

\* What Append does to the elements.
LEMMA AppendToSet ==
    ASSUME NEW S, NEW s \in Seq(S), NEW e \in S
    PROVE  /\ Append(s, e) \in Seq(S) /\ Len(Append(s, e)) = Len(s) + 1
           /\ ToSet(Append(s, e)) = ToSet(s) \cup {e}
           /\ IsInjective(s) /\ e \notin ToSet(s) => IsInjective(Append(s, e))
<1> DEFINE t == Append(s, e)
<1>1. t \in Seq(S) /\ Len(t) = Len(s) + 1 /\ Len(s) \in Nat /\ DOMAIN t = 1 .. Len(s) + 1
  BY AppendProperties, LenProperties
<1>2. DOMAIN s = 1 .. Len(s)  BY LenProperties
<1>3. t[Len(s) + 1] = e /\ \A k \in 1 .. Len(s) : t[k] = s[k]  BY AppendProperties
<1> HIDE DEF t
<1>4. ToSet(t) = ToSet(s) \cup {e}  BY <1>1, <1>2, <1>3 DEF ToSet
<1>5. ASSUME IsInjective(s), e \notin ToSet(s) PROVE IsInjective(t)
  BY <1>1, <1>2, <1>3, <1>5 DEF IsInjective, ToSet
<1> QED BY <1>1, <1>4, <1>5 DEF t

\* What concatenation does to them.
LEMMA ConcatToSet ==
    ASSUME NEW S, NEW s \in Seq(S), NEW r \in Seq(S)
    PROVE  /\ s \o r \in Seq(S) /\ Len(s \o r) = Len(s) + Len(r)
           /\ ToSet(s \o r) = ToSet(s) \cup ToSet(r)
           /\ IsInjective(s) /\ IsInjective(r) /\ ToSet(s) \cap ToSet(r) = {} => IsInjective(s \o r)
<1> DEFINE t == s \o r
           m == Len(s)
           n == Len(r)
<1>1. t \in Seq(S) /\ Len(t) = m + n /\ m \in Nat /\ n \in Nat /\ DOMAIN t = 1 .. m + n
  BY ConcatProperties, LenProperties
<1>2. DOMAIN s = 1 .. m /\ DOMAIN r = 1 .. n  BY LenProperties
<1>3. \A k \in 1 .. m + n : t[k] = IF k <= m THEN s[k] ELSE r[k - m]  BY ConcatProperties
<1> HIDE DEF t, m, n
<1>4. ASSUME NEW k \in 1 .. n PROVE m + k \in 1 .. m + n /\ t[m + k] = r[k]
  <2>1. m + k \in 1 .. m + n /\ ~ (m + k <= m) /\ (m + k) - m = k  BY <1>1
  <2> QED BY <2>1, <1>3
<1>5. ASSUME NEW k \in 1 .. m PROVE k \in 1 .. m + n /\ t[k] = s[k]  BY <1>1, <1>3
<1>6. ToSet(t) \subseteq ToSet(s) \cup ToSet(r)
  <2> SUFFICES ASSUME NEW k \in 1 .. m + n PROVE t[k] \in ToSet(s) \cup ToSet(r)
    BY <1>1 DEF ToSet
  <2>1. CASE k <= m
    <3>1. k \in 1 .. m /\ t[k] = s[k]  BY <2>1, <1>1, <1>3
    <3> QED BY <3>1, <1>2 DEF ToSet
  <2>2. CASE ~ (k <= m)
    <3>1. k - m \in 1 .. n /\ t[k] = r[k - m]  BY <2>2, <1>1, <1>3
    <3> QED BY <3>1, <1>2 DEF ToSet
  <2> QED BY <2>1, <2>2
<1>7. ToSet(s) \cup ToSet(r) \subseteq ToSet(t)  BY <1>1, <1>2, <1>4, <1>5 DEF ToSet
<1>8. ASSUME IsInjective(s), IsInjective(r), ToSet(s) \cap ToSet(r) = {} PROVE IsInjective(t)
  <2> SUFFICES ASSUME NEW j \in 1 .. m + n, NEW k \in 1 .. m + n, t[j] = t[k] PROVE j = k
    BY <1>1 DEF IsInjective
  <2>1. ASSUME NEW x \in 1 .. m + n PROVE IF x <= m THEN x \in DOMAIN s /\ t[x] = s[x] /\ t[x] \in ToSet(s)
                       ELSE x - m \in DOMAIN r /\ t[x] = r[x - m] /\ t[x] \in ToSet(r)
    <3>1. CASE x <= m  BY <3>1, <1>1, <1>2, <1>3 DEF ToSet
    <3>2. CASE ~ (x <= m)
      <4>1. x - m \in 1 .. n /\ t[x] = r[x - m]  BY <3>2, <1>1, <1>3
      <4> QED BY <3>2, <4>1, <1>2 DEF ToSet
    <3> QED BY <3>1, <3>2
  <2>2. CASE j <= m /\ k <= m  BY <2>1, <2>2, <1>8 DEF IsInjective
  <2>3. CASE ~ (j <= m) /\ ~ (k <= m)
    <3>1. j - m \in DOMAIN r /\ k - m \in DOMAIN r /\ r[j - m] = r[k - m]  BY <2>1, <2>3
    <3>2. j - m = k - m  BY <3>1, <1>8 DEF IsInjective
    <3> QED BY <3>2, <1>1
  <2>4. ~ (j <= m /\ ~ (k <= m)) /\ ~ (~ (j <= m) /\ k <= m)  BY <2>1, <1>8
  <2> QED BY <2>2, <2>3, <2>4
<1> QED BY <1>1, <1>6, <1>7, <1>8 DEF t, m, n

\* Taking the top off a stack.
LEMMA PopToSet ==
    ASSUME NEW S, NEW s \in Seq(S), s # <<>>
    PROVE  /\ Front(s) \in Seq(S) /\ Len(Front(s)) = Len(s) - 1 /\ Last(s) \in S
           /\ ToSet(s) = ToSet(Front(s)) \cup {Last(s)}
           /\ IsInjective(s) => IsInjective(Front(s)) /\ Last(s) \notin ToSet(Front(s))
<1> DEFINE n == Len(s)
           t == Front(s)
<1>1. n \in Nat \ {0} /\ DOMAIN s = 1 .. n /\ \A k \in 1 .. n : s[k] \in S
  BY EmptySeq, LenProperties, ElementOfSeq
<1>2. t \in Seq(S) /\ Len(t) = n - 1 /\ \A k \in 1 .. n - 1 : t[k] = s[k]
  <2>1. 1 \in 1 .. n + 1 /\ n - 1 \in (1 - 1) .. n  BY <1>1
  <2>2. SubSeq(s, 1, n - 1) \in Seq(S)  BY <1>1, SubSeqProperties
  <2>3. Len(SubSeq(s, 1, n - 1)) = n - 1  BY <1>1, SubSeqProperties
  <2>4. \A k \in 1 .. n - 1 : SubSeq(s, 1, n - 1)[k] = s[k]  BY <1>1, SubSeqProperties
  <2> QED BY <2>2, <2>3, <2>4 DEF Front
<1>3. DOMAIN t = 1 .. n - 1  BY <1>2, LenProperties
<1>4. Last(s) = s[n]  BY DEF Last
<1> HIDE DEF n, t
<1>5. ToSet(s) = ToSet(t) \cup {s[n]}  BY <1>1, <1>2, <1>3 DEF ToSet
<1>6. ASSUME IsInjective(s) PROVE IsInjective(t) /\ s[n] \notin ToSet(t)
  BY <1>1, <1>2, <1>3, <1>6 DEF IsInjective, ToSet
<1> QED BY <1>1, <1>2, <1>4, <1>5, <1>6 DEF n, t

\* A stack without repetitions is as high as it has elements.
LEMMA HeightIsSize ==
    ASSUME NEW S, NEW s \in Seq(S)
    PROVE  /\ IsFiniteSet(ToSet(s))
           /\ IsInjective(s) => Cardinality(ToSet(s)) = Len(s)
<1>1. Len(s) \in Nat /\ DOMAIN s = 1 .. Len(s) /\ s \in [1 .. Len(s) -> S]  BY LenProperties
<1>2. IsFiniteSet(1 .. Len(s)) /\ Cardinality(1 .. Len(s)) = Len(s)
  <2>1. IsFiniteSet(1 .. Len(s)) /\ Cardinality(1 .. Len(s)) = IF 1 > Len(s) THEN 0 ELSE Len(s) - 1 + 1
    BY <1>1, FS_Interval
  <2> QED BY <2>1, <1>1
<1>3. s \in Surjection(1 .. Len(s), ToSet(s))  BY <1>1 DEF Surjection, ToSet
<1>4. IsFiniteSet(ToSet(s))  BY <1>2, <1>3, FS_Surjection
<1>5. ASSUME IsInjective(s) PROVE Cardinality(ToSet(s)) = Len(s)
  <2>1. s \in Bijection(1 .. Len(s), ToSet(s))
    BY <1>1, <1>3, <1>5 DEF Bijection, Injection, Surjection, IsInjective, ToSet
  <2>2. ExistsBijection(1 .. Len(s), ToSet(s))  BY <2>1 DEF ExistsBijection
  <2> QED BY <1>2, <2>2, FS_Bijection
<1> QED BY <1>4, <1>5

\* A non-empty set of numbers has a least member.
LEMMA LeastNumber ==
    ASSUME NEW S \in SUBSET Nat, S # {}
    PROVE  \E m \in S : \A q \in S : m <= q
<1>1. PICK m \in S : \A y \in S : ~ (<<y, m>> \in OpToRel(<, Nat))
  BY NatLessThanWellFounded, WFMin
<1>2. ASSUME NEW q \in S, q < m PROVE <<q, m>> \in OpToRel(<, Nat)
  BY <1>2 DEF OpToRel
<1>3. ASSUME NEW q \in S PROVE m <= q
  <2>1. ~ (q < m)  BY <1>1, <1>2
  <2> QED BY <2>1
<1> QED BY <1>3

\* The rank of a position among the kept ones: it runs through 1 .. m without a gap.
Rank(kept, k) == Cardinality({j \in kept : j <= k})

\* The rank grows by one at a kept position and stays at the others.
LEMMA RankStep ==
    ASSUME NEW n \in Nat, NEW kept \in SUBSET (1 .. n), NEW k \in 1 .. n
    PROVE  /\ IsFiniteSet(kept) /\ Cardinality(kept) \in Nat
           /\ Rank(kept, k) \in 0 .. Cardinality(kept) /\ Rank(kept, k - 1) \in Nat
           /\ Rank(kept, k) = IF k \in kept THEN Rank(kept, k - 1) + 1 ELSE Rank(kept, k - 1)
<1> DEFINE A == {j \in kept : j <= k - 1}
           B == {j \in kept : j <= k}
<1>0. k \in Int /\ \A j \in kept : j \in Int  OBVIOUS
<1>1. IsFiniteSet(kept) /\ Cardinality(kept) \in Nat
  <2>1. IsFiniteSet(1 .. n)  BY FS_Interval
  <2>2. IsFiniteSet(kept)  BY <2>1, FS_Subset
  <2> QED BY <2>2, FS_CardinalityType
<1>2. IsFiniteSet(A) /\ Cardinality(A) \in Nat
  <2>1. A \subseteq kept  OBVIOUS
  <2>2. IsFiniteSet(A)  BY <1>1, <2>1, FS_Subset
  <2> QED BY <2>2, FS_CardinalityType
<1>3. IsFiniteSet(B) /\ Cardinality(B) \in Nat /\ Cardinality(B) <= Cardinality(kept)
  <2>1. B \subseteq kept  OBVIOUS
  <2>2. IsFiniteSet(B) /\ Cardinality(B) <= Cardinality(kept)  BY <1>1, <2>1, FS_Subset
  <2> QED BY <2>2, FS_CardinalityType
<1>4. CASE k \in kept
  <2>0. ASSUME NEW j \in kept PROVE j <= k <=> (j <= k - 1 \/ j = k)  BY <1>0
  <2>1. k \notin A  BY <1>0
  <2>3. B = A \cup {k}  BY <1>4, <2>0
  <2>2. Cardinality(B) = Cardinality(A) + 1  BY <2>1, <2>3, <1>2, FS_AddElement
  <2> QED BY <1>1, <1>2, <1>3, <1>4, <2>2 DEF Rank
<1>5. CASE k \notin kept
  <2>0. ASSUME NEW j \in kept PROVE j <= k <=> j <= k - 1
    <3>1. j # k  BY <1>5
    <3> QED BY <1>0, <3>1
  <2>1. B = A  BY <2>0
  <2> QED BY <1>1, <1>2, <1>3, <1>5, <2>1 DEF Rank
<1> QED BY <1>4, <1>5

\* No rank at zero; at the end, the number of kept positions.
LEMMA RankEnds ==
    ASSUME NEW n \in Nat, NEW kept \in SUBSET (1 .. n)
    PROVE  Rank(kept, 0) = 0 /\ Rank(kept, n) = Cardinality(kept)
<1>0. \A j \in kept : ~ (j <= 0) /\ j <= n  OBVIOUS
<1>1. {j \in kept : j <= 0} = {} /\ {j \in kept : j <= n} = kept  BY <1>0
<1> QED BY <1>1, FS_EmptySet DEF Rank

\* Every number up to there is the rank of a kept position.
LEMMA RankHits ==
    ASSUME NEW n \in Nat, NEW kept \in SUBSET (1 .. n), NEW q \in 1 .. Cardinality(kept)
    PROVE  \E k \in kept : Rank(kept, k) = q
<1> DEFINE S == {k \in 1 .. n : Rank(kept, k) >= q}
<1>0. Cardinality(kept) \in Nat
  <2>1. IsFiniteSet(1 .. n)  BY FS_Interval
  <2>2. IsFiniteSet(kept)  BY <2>1, FS_Subset
  <2> QED BY <2>2, FS_CardinalityType
<1>1. q \in Nat /\ q >= 1 /\ q <= Cardinality(kept)  BY <1>0
<1>2. n # 0  BY <1>1, RankEnds
<1>3. n \in S  BY <1>1, <1>2, <1>0, RankEnds
<1>4. PICK k \in S : \A x \in S : k <= x
  <2>1. S \in SUBSET Nat /\ S # {}  BY <1>3
  <2> HIDE DEF S
  <2> QED BY <2>1, LeastNumber
<1>5. k \in 1 .. n /\ Rank(kept, k) >= q  BY <1>4
<1>6. Rank(kept, k - 1) < q
  <2>1. CASE k = 1  BY <2>1, <1>1, RankEnds
  <2>2. CASE k # 1
    <3>1. k - 1 \in 1 .. n /\ ~ (k <= k - 1)  BY <2>2, <1>5
    <3>2. k - 1 \notin S  BY <3>1, <1>4
    <3>3. ~ (Rank(kept, k - 1) >= q)  BY <3>1, <3>2
    <3>4. Rank(kept, k - 1) \in Nat  BY <1>5, RankStep
    <3> QED BY <3>3, <3>4, <1>1
  <2> QED BY <2>1, <2>2
<1>7. /\ Rank(kept, k) = IF k \in kept THEN Rank(kept, k - 1) + 1 ELSE Rank(kept, k - 1)
      /\ Rank(kept, k - 1) \in Nat
  BY <1>5, RankStep
<1>8. k \in kept /\ Rank(kept, k) = q  BY <1>1, <1>5, <1>6, <1>7
<1> QED BY <1>8

\* Kept positions have different ranks.
LEMMA RankApart ==
    ASSUME NEW n \in Nat, NEW kept \in SUBSET (1 .. n), NEW j \in kept, NEW k \in kept, j < k
    PROVE  Rank(kept, j) < Rank(kept, k)
<1> DEFINE A == {x \in kept : x <= j}
           B == {x \in kept : x <= k - 1}
<1>1. IsFiniteSet(kept) /\ Rank(kept, j) \in Nat /\ Rank(kept, k - 1) \in Nat
      /\ Rank(kept, k) = Rank(kept, k - 1) + 1
  <2>1. Cardinality(kept) \in Nat  BY RankStep
  <2> QED BY <2>1, RankStep
<1>0. \A x \in kept : x \in Int  OBVIOUS
<1>2. A \subseteq B /\ B \subseteq kept
  <2>1. ASSUME NEW x \in kept, x <= j PROVE x <= k - 1  BY <2>1, <1>0
  <2> QED BY <2>1
<1>3. IsFiniteSet(B)  BY <1>1, <1>2, FS_Subset
<1>4. Cardinality(A) <= Cardinality(B)  BY <1>2, <1>3, FS_Subset
<1> QED BY <1>1, <1>4 DEF Rank

\* Without keeps the others, in their number and without repetitions.
LEMMA WithoutToSet ==
    ASSUME NEW S, NEW s \in Seq(S), NEW gone
    PROVE  /\ Without(s, gone) \in Seq(S)
           /\ ToSet(Without(s, gone)) = ToSet(s) \ gone
           /\ IsInjective(s) => IsInjective(Without(s, gone))
<1> DEFINE n == Len(s)
           kept == {k \in DOMAIN s : s[k] \notin gone}
           m == Cardinality(kept)
           At(q) == CHOOSE k \in kept : Rank(kept, k) = q
           t == Without(s, gone)
<1>1. n \in Nat /\ DOMAIN s = 1 .. n /\ \A k \in 1 .. n : s[k] \in S
  BY LenProperties, ElementOfSeq
<1>2. kept \in SUBSET (1 .. n) /\ \A k \in kept : s[k] \in ToSet(s) \ gone /\ k \in DOMAIN s
  BY <1>1 DEF ToSet
<1>3. \A x \in ToSet(s) \ gone : \E k \in kept : s[k] = x  BY DEF ToSet
<1>4. t = [q \in 1 .. m |-> s[At(q)]]  BY DEF Without, Rank
<1>5. m \in Nat
  <2>1. IsFiniteSet(1 .. n)  BY <1>1, FS_Interval
  <2>2. IsFiniteSet(kept)  BY <2>1, <1>2, FS_Subset
  <2> QED BY <2>2, FS_CardinalityType
<1> HIDE DEF kept, n
<1>6. ASSUME NEW q \in 1 .. m PROVE At(q) \in kept /\ Rank(kept, At(q)) = q
  <2>1. \E k \in kept : Rank(kept, k) = q  BY <1>1, <1>2, RankHits
  <2> QED BY <2>1
<1>7. ASSUME NEW k \in kept PROVE Rank(kept, k) \in 1 .. m
  <2>1. k \in 1 .. n  BY <1>2
  <2>2. Rank(kept, k) = Rank(kept, k - 1) + 1 /\ Rank(kept, k - 1) \in Nat
        /\ Rank(kept, k) \in 0 .. m
    BY <2>1, <1>1, <1>2, RankStep
  <2> QED BY <2>2, <1>5
<1>8. ASSUME NEW j \in kept, NEW k \in kept, Rank(kept, j) = Rank(kept, k) PROVE j = k
  <2>1. j \in Nat /\ k \in Nat  BY <1>1, <1>2
  <2>2. Rank(kept, j) \in Nat /\ Rank(kept, k) \in Nat  BY <1>7, <1>5
  <2>3. j < k => Rank(kept, j) < Rank(kept, k)  BY <1>1, <1>2, RankApart
  <2>4. k < j => Rank(kept, k) < Rank(kept, j)  BY <1>1, <1>2, RankApart
  <2> QED BY <2>1, <2>2, <2>3, <2>4, <1>8
<1> HIDE DEF At, m, t
<1>9. ASSUME NEW k \in kept PROVE At(Rank(kept, k)) = k
  BY <1>6, <1>7, <1>8
<1>10. t \in Seq(S) /\ DOMAIN t = 1 .. m
  <2>1. \A q \in 1 .. m : s[At(q)] \in S  BY <1>1, <1>2, <1>6
  <2>2. [q \in 1 .. m |-> s[At(q)]] \in Seq(S)  BY <2>1, <1>5, IsASeq
  <2> QED BY <2>2, <1>4
<1>11. ToSet(t) \subseteq ToSet(s) \ gone
  <2> SUFFICES ASSUME NEW q \in 1 .. m PROVE t[q] \in ToSet(s) \ gone  BY <1>10 DEF ToSet
  <2>1. t[q] = s[At(q)]  BY <1>4
  <2> QED BY <2>1, <1>2, <1>6
<1>12. ToSet(s) \ gone \subseteq ToSet(t)
  <2> SUFFICES ASSUME NEW x \in ToSet(s) \ gone PROVE x \in ToSet(t)  OBVIOUS
  <2>1. PICK k \in kept : s[k] = x  BY <1>3
  <2>2. Rank(kept, k) \in 1 .. m /\ t[Rank(kept, k)] = x  BY <2>1, <1>4, <1>7, <1>9
  <2> QED BY <2>2, <1>10 DEF ToSet
<1>13. ASSUME IsInjective(s) PROVE IsInjective(t)
  <2> SUFFICES ASSUME NEW a \in 1 .. m, NEW b \in 1 .. m, t[a] = t[b] PROVE a = b
    BY <1>10 DEF IsInjective
  <2>1. s[At(a)] = s[At(b)]  BY <1>4
  <2>2. At(a) \in kept /\ At(b) \in kept  BY <1>6
  <2>3. At(a) = At(b)  BY <2>1, <2>2, <1>2, <1>13 DEF IsInjective
  <2> QED BY <2>3, <1>6
<1> QED BY <1>10, <1>11, <1>12, <1>13 DEF t

-----------------------------------------------------------------------------
(* Callers: where they are, and how many are where.                        *)

At(q, W) == {d \in Callers : q[d] \in W}
Occupying == {"holding", "released", "restacking", "creating", "recycling"}

\* r is q after some sleepers were woken.
Wakes(q, r) ==
    /\ r \in [Callers -> CallerAt]
    /\ \A d \in Callers : r[d] = q[d] \/ (q[d] = "asleep" /\ r[d] = "trying")
\* r is q after c went to x and some sleepers were woken.
Moves(q, r, c, x) ==
    /\ r \in [Callers -> CallerAt] /\ r[c] = x
    /\ \A d \in Callers \ {c} : r[d] = q[d] \/ (q[d] = "asleep" /\ r[d] = "trying")

\* A plain move, one with a Broadcast, one with a Signal; a Broadcast alone.
LEMMA MoveAlone ==
    ASSUME NEW q \in [Callers -> CallerAt], NEW c \in Callers, NEW x \in CallerAt
    PROVE  Moves(q, [q EXCEPT ![c] = x], c, x)
BY DEF Moves

\* A Broadcast wakes every sleeper.
LEMMA BroadcastWakes ==
    ASSUME NEW q \in [Callers -> CallerAt]
    PROVE  Wakes(q, Broadcast(q)) /\ \A d \in Callers : Broadcast(q)[d] # "asleep"
BY DEF Wakes, Broadcast, CallerAt

\* A move followed by wake-ups.
LEMMA MoveThenWake ==
    ASSUME NEW q \in [Callers -> CallerAt], NEW c \in Callers, NEW x \in CallerAt,
           x # "asleep", NEW r, Wakes([q EXCEPT ![c] = x], r)
    PROVE  Moves(q, r, c, x)
BY DEF Moves, Wakes

\* A Signal wakes a sleeper if there is one.
LEMMA SignalWakes ==
    ASSUME NEW q \in [Callers -> CallerAt], NEW r \in Signal(q)
    PROVE  /\ Wakes(q, r)
           /\ (\E d \in Callers : q[d] = "asleep") => \E d \in Callers : r[d] = "trying"
<1> DEFINE sleepers == {d \in Callers : q[d] = "asleep"}
<1>1. CASE sleepers = {}
  <2>1. r = q  BY <1>1 DEF Signal
  <2> QED BY <2>1, <1>1 DEF Wakes
<1>2. CASE sleepers # {}
  <2>1. PICK d \in sleepers : r = [q EXCEPT ![d] = "trying"]  BY <1>2 DEF Signal
  <2>2. d \in Callers /\ q[d] = "asleep" /\ "trying" \in CallerAt  BY DEF CallerAt
  <2>3. r \in [Callers -> CallerAt] /\ r[d] = "trying" /\ \A e \in Callers \ {d} : r[e] = q[e]
    BY <2>1, <2>2
  <2> QED BY <2>2, <2>3 DEF Wakes
<1> QED BY <1>1, <1>2

\* Callers at given places are finitely many.
LEMMA AtFinite ==
    ASSUME NEW q, NEW W
    PROVE  IsFiniteSet(At(q, W)) /\ Cardinality(At(q, W)) \in Nat
<1>1. At(q, W) \subseteq Callers  BY DEF At
<1>2. IsFiniteSet(At(q, W))  BY <1>1, NamesAssumption, FS_Subset
<1> QED BY <1>2, FS_CardinalityType

\* Wake-ups leave callers outside the wait loop where they are.
LEMMA WakesKeepsAt ==
    ASSUME NEW q, NEW r, Wakes(q, r), NEW W, "asleep" \notin W, "trying" \notin W
    PROVE  At(r, W) = At(q, W)
BY DEF Wakes, At

\* A move changes the number of callers in W by the mover alone.
LEMMA MoveCounts ==
    ASSUME NEW q, NEW r, NEW c \in Callers, NEW x, Moves(q, r, c, x),
           NEW W, "asleep" \notin W, "trying" \notin W
    PROVE  /\ x \in W /\ q[c] \notin W => Cardinality(At(r, W)) = Cardinality(At(q, W)) + 1
           /\ x \notin W /\ q[c] \in W => Cardinality(At(r, W)) = Cardinality(At(q, W)) - 1
           /\ x \in W /\ q[c] \in W => Cardinality(At(r, W)) = Cardinality(At(q, W))
           /\ x \notin W /\ q[c] \notin W => Cardinality(At(r, W)) = Cardinality(At(q, W))
<1>1. At(r, W) \ {c} = At(q, W) \ {c}  BY DEF Moves, At
<1>2. (c \in At(r, W) <=> x \in W) /\ (c \in At(q, W) <=> q[c] \in W)  BY DEF Moves, At
<1>3. IsFiniteSet(At(q, W)) /\ IsFiniteSet(At(r, W))  BY AtFinite
<1>4. ASSUME x \in W, q[c] \notin W PROVE Cardinality(At(r, W)) = Cardinality(At(q, W)) + 1
  <2>1. At(r, W) = At(q, W) \cup {c} /\ c \notin At(q, W)  BY <1>1, <1>2, <1>4
  <2> QED BY <2>1, <1>3, FS_AddElement
<1>5. ASSUME x \notin W, q[c] \in W PROVE Cardinality(At(r, W)) = Cardinality(At(q, W)) - 1
  <2>1. At(r, W) = At(q, W) \ {c} /\ c \in At(q, W)  BY <1>1, <1>2, <1>5
  <2> QED BY <2>1, <1>3, FS_RemoveElement
<1>6. ASSUME x \in W <=> q[c] \in W PROVE At(r, W) = At(q, W)  BY <1>1, <1>2, <1>6
<1> QED BY <1>4, <1>5, <1>6

-----------------------------------------------------------------------------
(* Inductive invariants.                                                   *)

\* outstanding counts the callers that hold a lease they have not returned.
LeasesCounted == outstanding = Cardinality(At(pc, {"holding"}))

\* The reaper's and Start's working state is empty when they do not work.
Tidy ==
    /\ reaper.at \in {"resting", "gone"} => 
        reaper.evicted = {} /\ reaper.need = 0 /\ reaper.made = <<>>
    /\ reaper.at = "closing" => reaper.made = <<>>
    /\ reaper.at = "refilling" => reaper.evicted = {}
    /\ reaper.at = "gone" => closed
    /\ starter.at # "warming" => starter.made = <<>>
    /\ closer # "open" => closed

\* A caller has an instance exactly while it works with one.
Holders == \A c \in Callers : Holding(c) <=> lease[c] # None

BaseInv == TypeOK /\ LeasesCounted /\ Holders /\ Tidy

\* The places an instance can be in are apart, what can still be called is open, and
\* every open module is somewhere.
Apart(I, R, S, L, E, O) ==
    /\ I \cap R = {} /\ (I \cup R) \cap S = {}
    /\ (I \cup R \cup S) \cap L = {} /\ (I \cup R \cup S \cup L) \cap E = {}
    /\ I \cup R \cup S \cup L \subseteq O /\ O \subseteq I \cup R \cup S \cup L \cup E
Places == Apart(ToSet(idle), ToSet(reaper.made), ToSet(starter.made), Leased, reaper.evicted, open)

Unrepeated == IsInjective(idle) /\ IsInjective(reaper.made) /\ IsInjective(starter.made)
SoleLeases == \A c, d \in Callers : c # d /\ lease[c] # None => lease[c] # lease[d]

PlaceInv == Unrepeated /\ SoleLeases /\ Places

\* Garbage carries no bookkeeping, so a new instance starts without any; what is stacked
\* or about to be stacked may be used again.
Clean == \A i \in Instances \ open : uses[i] = 0 /\ i \notin trapped
Reusable(i) == (i \in trapped => i \in belated) /\ (MaxUses > 0 => uses[i] < MaxUses)
FitInv ==
    /\ Clean
    /\ \A i \in ToSet(idle) : Reusable(i)
    /\ \A i \in Leased : MaxUses > 0 => uses[i] <= MaxUses
    /\ \A i \in ToSet(reaper.made) \cup ToSet(starter.made) : uses[i] = 0 /\ i \notin trapped
    /\ \A c \in Callers : pc[c] = "restacking" => Reusable(lease[c])

\* Until Start is over nothing else runs.
Warm ==
    starter.at # "finished" =>
        /\ idle = <<>> /\ live = 0 /\ owed = 0
        /\ \A c \in Callers : pc[c] = "out"
        /\ reaper.at \in {"resting", "gone"}
        /\ starter.at = "warming" =>
            starter.need = MinInstances /\ Len(starter.made) <= starter.need

\* The arithmetic part of CapRespected: what live counts beyond the slots in use.
Slack == live + owed - Slots
Counted ==
    /\ IsFiniteSet(reaper.evicted)
    /\ closer # "closed" => Slack >= 0 /\ live <= MaxInstances
    /\ closer # "closed" /\ ~closed => Slack = 0

\* While somebody sleeps and an instance is idle, somebody else is about to look at
\* the stack or to wake a sleeper.
Alert == {"trying", "late", "holding", "released", "restacking", "recycling"}
Awake ==
    (\E c \in Callers : pc[c] = "asleep") /\ ~closed /\ idle # <<>> =>
        \E c \in Callers : pc[c] \in Alert

-----------------------------------------------------------------------------
(* Types, the count of leases and the state of idle goroutines.            *)

\* A new instance is one that nothing refers to.
LEMMA FreshIsNew ==
    ASSUME TypeOK, Referenced # Instances
    PROVE  /\ Fresh \in Instances /\ Fresh \notin open /\ Fresh \notin ToSet(idle)
           /\ Fresh \notin Leased /\ Fresh \notin reaper.evicted
           /\ Fresh \notin ToSet(reaper.made) /\ Fresh \notin ToSet(starter.made)
<1>1. /\ ToSet(idle) \subseteq Instances /\ ToSet(reaper.made) \subseteq Instances
      /\ ToSet(starter.made) \subseteq Instances
  BY ToSetIn DEF TypeOK
<1>2. Leased \subseteq Instances /\ open \subseteq Instances /\ reaper.evicted \subseteq Instances
  BY DEF Leased, TypeOK
<1>5. Referenced \subseteq Instances  BY <1>1, <1>2 DEF Referenced
<1>3. \E i \in Instances : i \notin Referenced  BY <1>5
<1>4. Fresh \in Instances /\ Fresh \notin Referenced  BY <1>3 DEF Fresh
<1> QED BY <1>4 DEF Referenced

\* Where each action takes its caller, and from where.
LEMMA CallerMoves ==
    ASSUME TypeOK, NEW c \in Callers
    PROVE  /\ Checkout(c) => pc[c] = "out" /\ Moves(pc, pc', c, "trying")
           /\ TryGivesUp(c) => Trying(c) /\ Moves(pc, pc', c, "out")
           /\ TryPops(c) => Trying(c) /\ Moves(pc, pc', c, "holding")
           /\ TryReserves(c) => Trying(c) /\ Moves(pc, pc', c, "creating")
           /\ TrySleeps(c) => pc[c] = "trying" /\ Moves(pc, pc', c, "asleep")
           /\ CreateSucceeds(c) => pc[c] = "creating" /\ Moves(pc, pc', c, "holding")
           /\ CreateFails(c) => pc[c] = "creating" /\ Moves(pc, pc', c, "out")
           /\ CtxExpires(c) => pc[c] = "asleep" /\ Moves(pc, pc', c, "late")
           /\ Return(c) => pc[c] = "holding" /\ Moves(pc, pc', c, "released")
           /\ ReturnDecides(c) => /\ pc[c] = "released"
                                  /\ \/ MustRecycle(lease[c]) /\ Moves(pc, pc', c, "recycling")
                                     \/ ~ MustRecycle(lease[c]) /\ Moves(pc, pc', c, "restacking")
           /\ ReturnRecycles(c) => pc[c] = "recycling" /\ Moves(pc, pc', c, "leaving")
           /\ ReturnRestacks(c) => pc[c] = "restacking" /\ Moves(pc, pc', c, "leaving")
           /\ ReturnEnds(c) => pc[c] = "leaving" /\ Moves(pc, pc', c, "out")
<1>1. pc \in [Callers -> CallerAt]  BY DEF TypeOK
<1>2. ASSUME NEW x \in CallerAt PROVE Moves(pc, [pc EXCEPT ![c] = x], c, x)
  BY <1>1, MoveAlone
<1>3. ASSUME NEW x \in CallerAt, x # "asleep"
      PROVE  Moves(pc, Broadcast([pc EXCEPT ![c] = x]), c, x)
  <2>1. [pc EXCEPT ![c] = x] \in [Callers -> CallerAt]  BY <1>1
  <2>2. Wakes([pc EXCEPT ![c] = x], Broadcast([pc EXCEPT ![c] = x]))  BY <2>1, BroadcastWakes
  <2> QED BY <1>1, <1>3, <2>2, MoveThenWake
<1>4. ASSUME NEW x \in CallerAt, x # "asleep", NEW r \in Signal([pc EXCEPT ![c] = x])
      PROVE  Moves(pc, r, c, x)
  <2>1. [pc EXCEPT ![c] = x] \in [Callers -> CallerAt]  BY <1>1
  <2>2. Wakes([pc EXCEPT ![c] = x], r)  BY <2>1, SignalWakes
  <2> QED BY <1>1, <1>4, <2>2, MoveThenWake
<1>5. /\ {"out", "trying", "holding", "creating", "asleep", "late", "released", "recycling",
          "restacking", "leaving"} \subseteq CallerAt
  BY DEF CallerAt
<1>6. CtxExpires(c) => pc[c] = "asleep" /\ Moves(pc, pc', c, "late")  BY <1>3, <1>5 DEF CtxExpires
<1>7. ReturnRecycles(c) => pc[c] = "recycling" /\ Moves(pc, pc', c, "leaving")
  BY <1>3, <1>5 DEF ReturnRecycles
<1>8. ReturnRestacks(c) => pc[c] = "restacking" /\ Moves(pc, pc', c, "leaving")
  BY <1>4, <1>5 DEF ReturnRestacks
<1>9. ReturnDecides(c) => /\ pc[c] = "released"
                          /\ \/ MustRecycle(lease[c]) /\ Moves(pc, pc', c, "recycling")
                             \/ ~ MustRecycle(lease[c]) /\ Moves(pc, pc', c, "restacking")
  BY <1>2, <1>5 DEF ReturnDecides
<1>10. /\ Checkout(c) => pc[c] = "out" /\ Moves(pc, pc', c, "trying")
       /\ TryGivesUp(c) => Trying(c) /\ Moves(pc, pc', c, "out")
       /\ TryPops(c) => Trying(c) /\ Moves(pc, pc', c, "holding")
       /\ TryReserves(c) => Trying(c) /\ Moves(pc, pc', c, "creating")
       /\ TrySleeps(c) => pc[c] = "trying" /\ Moves(pc, pc', c, "asleep")
  BY <1>2, <1>5 DEF Checkout, TryGivesUp, TryPops, TryReserves, TrySleeps
<1>11. /\ CreateSucceeds(c) => pc[c] = "creating" /\ Moves(pc, pc', c, "holding")
       /\ CreateFails(c) => pc[c] = "creating" /\ Moves(pc, pc', c, "out")
       /\ Return(c) => pc[c] = "holding" /\ Moves(pc, pc', c, "released")
       /\ ReturnEnds(c) => pc[c] = "leaving" /\ Moves(pc, pc', c, "out")
  BY <1>2, <1>5 DEF CreateSucceeds, CreateFails, Return, ReturnEnds
<1> QED BY <1>6, <1>7, <1>8, <1>9, <1>10, <1>11

\* The steps of the other goroutines at most wake sleepers.
LEMMA OthersWake ==
    ASSUME TypeOK, Reaper \/ Starter \/ Closer \/ (\E i \in Instances : MarkUnusable(i))
    PROVE  Wakes(pc, pc')
<1>1. pc \in [Callers -> CallerAt]  BY DEF TypeOK
<1>2. Wakes(pc, pc) /\ Wakes(pc, Broadcast(pc))  BY <1>1, BroadcastWakes DEF Wakes
<1>3. CASE \E i \in Instances : MarkUnusable(i)  BY <1>2, <1>3 DEF MarkUnusable, callVars
<1>4. CASE Reaper
  BY <1>2, <1>4 DEF Reaper, ReapEvicts, ReapCloses, RefillCreates, RefillFails, RefillEnds, callVars
<1>5. CASE Starter
  BY <1>2, <1>5 DEF Starter, StartBegins, StartCreates, StartFails, StartEnds, callVars
<1>6. CASE Closer
  BY <1>2, <1>6 DEF Closer, CloseBegins, CloseStopsReaper, CloseChecks, CloseArms, CloseDrained,
                    CloseGivesUp, CloseDrains, callVars
<1> QED BY <1>3, <1>4, <1>5, <1>6

\* The two flags are Booleans; the rest of the types.
LEMMA FlagsStep ==
    ASSUME closed \in BOOLEAN, done \in BOOLEAN, Next
    PROVE  closed' \in BOOLEAN /\ done' \in BOOLEAN
<1> USE DEF poolVars
<1>1. ASSUME NEW c \in Callers, Caller(c) PROVE closed' \in BOOLEAN /\ done' \in BOOLEAN
  BY <1>1, ZenonT(30) DEF Caller, Goes, Checkout, TryGivesUp, TryPops, TryReserves, TrySleeps, CreateSucceeds,
       CreateFails, CtxExpires, Return, ReturnDecides, ReturnRecycles, ReturnRestacks, ReturnEnds
<1>5. ASSUME NEW i \in Instances, MarkUnusable(i) PROVE closed' \in BOOLEAN /\ done' \in BOOLEAN
  BY <1>5 DEF MarkUnusable
<1>2. CASE Reaper
  BY <1>2, ZenonT(30) DEF Reaper, ReapEvicts, ReapCloses, RefillCreates, RefillFails, RefillEnds
<1>3. CASE Starter
  BY <1>3, ZenonT(30) DEF Starter, StartBegins, StartCreates, StartFails, StartEnds
<1>4. CASE Closer
  BY <1>4, ZenonT(30) DEF Closer, CloseBegins, CloseStopsReaper, CloseChecks, CloseArms, CloseDrained,
                          CloseGivesUp, CloseDrains
<1> QED BY <1>1, <1>2, <1>3, <1>4, <1>5 DEF Next

ReaperType ==
    [at : {"resting", "closing", "refilling", "gone"}, evicted : SUBSET Instances,
     need : Nat, made : Seq(Instances)]
StarterType == [at : {"new", "warming", "finished"}, need : Nat, made : Seq(Instances)]
CloserType == {"open", "flagged", "checking", "arming", "waiting", "draining", "closed", "gave up"}
RestOK ==
    /\ idle \in Seq(Instances) /\ live \in Int /\ outstanding \in Nat
    /\ open \subseteq Instances /\ trapped \subseteq Instances
    /\ uses \in [Instances -> Nat]
    /\ pc \in [Callers -> CallerAt]
    /\ lease \in [Callers -> Instances \cup {None}]
    /\ reaper \in ReaperType /\ starter \in StarterType /\ closer \in CloserType
    /\ faults \in 0 .. MaxFaults /\ owed \in Nat /\ belated \subseteq Instances

\* The fields of the reaper and of Start.
LEMMA RecordTypes ==
    ASSUME RestOK
    PROVE  /\ reaper.evicted \subseteq Instances /\ reaper.need \in Nat /\ reaper.made \in Seq(Instances)
           /\ starter.need \in Nat /\ starter.made \in Seq(Instances)
           /\ Len(reaper.made) \in Nat /\ Len(starter.made) \in Nat /\ <<>> \in Seq(Instances)
           /\ \A a \in {"resting", "closing", "refilling", "gone"}, e \in SUBSET Instances,
                 n \in Nat, m \in Seq(Instances) :
                [at |-> a, evicted |-> e, need |-> n, made |-> m] \in ReaperType
           /\ \A a \in {"new", "warming", "finished"}, n \in Nat, m \in Seq(Instances) :
                [at |-> a, need |-> n, made |-> m] \in StarterType
<1>1. /\ reaper.evicted \subseteq Instances /\ reaper.need \in Nat /\ reaper.made \in Seq(Instances)
      /\ starter.need \in Nat /\ starter.made \in Seq(Instances)
  BY DEF RestOK, ReaperType, StarterType
<1>2. Len(reaper.made) \in Nat /\ Len(starter.made) \in Nat /\ <<>> \in Seq(Instances)
  BY <1>1, LenProperties, EmptySeq
<1>3. \A a \in {"resting", "closing", "refilling", "gone"}, e \in SUBSET Instances,
         n \in Nat, m \in Seq(Instances) :
        [at |-> a, evicted |-> e, need |-> n, made |-> m] \in ReaperType
  BY DEF ReaperType
<1>4. \A a \in {"new", "warming", "finished"}, n \in Nat, m \in Seq(Instances) :
        [at |-> a, need |-> n, made |-> m] \in StarterType
  BY DEF StarterType
<1> QED BY <1>1, <1>2, <1>3, <1>4

\* What closing instances does to the marks.
LEMMA CloseKeepsTypes ==
    ASSUME RestOK, NEW S, CloseInstances(S)
    PROVE  /\ open' \subseteq Instances /\ uses' \in [Instances -> Nat]
           /\ trapped' \subseteq Instances /\ belated' \subseteq Instances
BY DEF RestOK, CloseInstances

\* Every step keeps the types; outstanding never falls below zero because a caller that
\* returns a lease is one of those counted.
LEMMA TypeStep ==
    ASSUME TypeOK, LeasesCounted, Holders, Next
    PROVE  TypeOK'
<1>0. RestOK  BY DEF TypeOK, RestOK, ReaperType, StarterType, CloserType
<1>00. closed' \in BOOLEAN /\ done' \in BOOLEAN  BY FlagsStep DEF TypeOK
<1>000. MinInstances \in Nat /\ MaxFaults \in Nat  BY SizesAssumption
<1> SUFFICES RestOK'  BY <1>00 DEF TypeOK, RestOK, ReaperType, StarterType, CloserType
<1> USE <1>0 DEF RestOK, poolVars, instVars, callVars
<1>1. pc' \in [Callers -> CallerAt]
  <2>1. ASSUME NEW c \in Callers, NEW x, Moves(pc, pc', c, x) PROVE pc' \in [Callers -> CallerAt]
    BY <2>1 DEF Moves
  <2>2. ASSUME Wakes(pc, pc') PROVE pc' \in [Callers -> CallerAt]  BY <2>2 DEF Wakes
  <2> QED BY <2>1, <2>2, CallerMoves, OthersWake DEF Next, Caller, Goes
<1>2. ASSUME LoadFails PROVE faults' \in 0 .. MaxFaults  BY <1>2, <1>000 DEF LoadFails
<1>3. ASSUME NEW c \in Callers, Checkout(c) \/ TryGivesUp(c) \/ TrySleeps(c) \/ CtxExpires(c)
      PROVE  RestOK'
  BY <1>1, <1>3 DEF Checkout, TryGivesUp, TrySleeps, CtxExpires
<1>4. ASSUME NEW c \in Callers, TryReserves(c) \/ ReturnRecycles(c) PROVE RestOK'
  BY <1>1, <1>4 DEF TryReserves, ReturnRecycles
<1>5. ASSUME NEW c \in Callers, TryPops(c) PROVE RestOK'
  <2>1. Front(idle) \in Seq(Instances) /\ Last(idle) \in Instances  BY <1>5, PopToSet DEF TryPops
  <2>2. lease' \in [Callers -> Instances \cup {None}]  BY <1>5, <2>1 DEF TryPops
  <2>3. uses' \in [Instances -> Nat]
    <3>1. uses[Last(idle)] + 1 \in Nat  BY <2>1
    <3> QED BY <1>5, <2>1, <3>1 DEF TryPops
  <2> QED BY <1>1, <1>5, <2>1, <2>2, <2>3 DEF TryPops
<1>6. ASSUME NEW c \in Callers, CreateSucceeds(c) PROVE RestOK'
  <2>1. Fresh \in Instances  BY <1>6, FreshIsNew DEF CreateSucceeds, CreateInstance
  <2>2. lease' \in [Callers -> Instances \cup {None}] /\ uses' \in [Instances -> Nat]
    BY <1>6, <2>1 DEF CreateSucceeds
  <2>3. open' \subseteq Instances  BY <1>6, <2>1 DEF CreateSucceeds, CreateInstance
  <2> QED BY <1>1, <1>6, <2>1, <2>2, <2>3 DEF CreateSucceeds
<1>7. ASSUME NEW c \in Callers, CreateFails(c) PROVE RestOK'
  BY <1>1, <1>2, <1>7 DEF CreateFails
<1>8. ASSUME NEW i \in Instances, MarkUnusable(i) PROVE RestOK'
  <2>1. trapped' \subseteq Instances /\ belated' \subseteq Instances  BY <1>8 DEF MarkUnusable
  <2> QED BY <1>1, <1>8, <2>1 DEF MarkUnusable
<1>9. ASSUME NEW c \in Callers, Return(c) PROVE RestOK'
  <2>1. c \in At(pc, {"holding"})  BY <1>9 DEF Return, At
  <2>2. Cardinality(At(pc, {"holding"})) # 0  BY <2>1, AtFinite, FS_EmptySet
  <2>3. outstanding # 0  BY <2>2 DEF LeasesCounted
  <2>4. outstanding' \in Nat  BY <1>9, <2>3 DEF Return
  <2> QED BY <1>1, <1>9, <2>4 DEF Return
<1>10. ASSUME NEW c \in Callers, ReturnDecides(c) PROVE RestOK'
  <2>1. CASE MustRecycle(lease[c])
    <3>1. /\ open' \subseteq Instances /\ uses' \in [Instances -> Nat]
          /\ trapped' \subseteq Instances /\ belated' \subseteq Instances
      BY <1>10, <2>1, CloseKeepsTypes DEF ReturnDecides
    <3> QED BY <1>1, <1>10, <2>1, <3>1 DEF ReturnDecides
  <2>2. CASE ~ MustRecycle(lease[c])  BY <1>1, <1>10, <2>2 DEF ReturnDecides
  <2> QED BY <2>1, <2>2
<1>11. ASSUME NEW c \in Callers, ReturnRestacks(c) PROVE RestOK'
  <2>1. lease[c] \in Instances  BY <1>11 DEF ReturnRestacks, Holders, Holding
  <2>2. idle' \in Seq(Instances)  BY <1>11, <2>1, AppendToSet DEF ReturnRestacks
  <2> QED BY <1>1, <1>11, <2>2 DEF ReturnRestacks
<1>12. ASSUME NEW c \in Callers, ReturnEnds(c) PROVE RestOK'  BY <1>1, <1>12 DEF ReturnEnds
<1>13. CASE ReapEvicts
  <2>1. PICK evicted \in SUBSET ToSet(idle) :
           LET left == live - Cardinality(evicted)
               need == IF left < MinInstances THEN MinInstances - left ELSE 0
           IN  /\ idle' = Without(idle, evicted)
               /\ live' = left + need
               /\ reaper' = [at |-> "closing", evicted |-> evicted, need |-> need, made |-> <<>>]
    BY <1>13 DEF ReapEvicts
  <2> DEFINE left == live - Cardinality(evicted)
             need == IF left < MinInstances THEN MinInstances - left ELSE 0
  <2>2. idle' \in Seq(Instances)  BY <2>1, WithoutToSet
  <2>3. evicted \subseteq Instances /\ Cardinality(evicted) \in Nat
    <3>1. ToSet(idle) \subseteq Instances /\ IsFiniteSet(ToSet(idle))  BY ToSetIn, HeightIsSize
    <3>2. IsFiniteSet(evicted)  BY <3>1, FS_Subset
    <3> QED BY <3>1, <3>2, FS_CardinalityType
  <2>4. left \in Int /\ need \in Nat  BY <2>3, <1>000
  <2>5. live' = left + need /\ reaper' = [at |-> "closing", evicted |-> evicted, need |-> need, made |-> <<>>]
    BY <2>1
  <2> HIDE DEF left, need
  <2>6. reaper' \in ReaperType  BY <2>3, <2>4, <2>5, RecordTypes
  <2> QED BY <1>1, <1>13, <2>2, <2>4, <2>5, <2>6 DEF ReapEvicts
<1>14. CASE ReapCloses
  <2>1. /\ open' \subseteq Instances /\ uses' \in [Instances -> Nat]
        /\ trapped' \subseteq Instances /\ belated' \subseteq Instances
    BY <1>14, CloseKeepsTypes DEF ReapCloses
  <2>2. reaper' \in ReaperType  BY <1>14, RecordTypes DEF ReapCloses
  <2> QED BY <1>1, <1>14, <2>1, <2>2 DEF ReapCloses
<1>15. CASE RefillCreates
  <2>1. Fresh \in Instances  BY <1>15, FreshIsNew DEF RefillCreates, CreateInstance
  <2>2. Append(reaper.made, Fresh) \in Seq(Instances)  BY <2>1, AppendToSet, RecordTypes
  <2>3. reaper.need - 1 \in Nat  BY <1>15, RecordTypes DEF RefillCreates
  <2>4. reaper' \in ReaperType  BY <1>15, <2>2, <2>3, RecordTypes DEF RefillCreates
  <2>5. open' \subseteq Instances  BY <1>15, <2>1 DEF RefillCreates, CreateInstance
  <2> QED BY <1>1, <1>15, <2>4, <2>5 DEF RefillCreates
<1>16. CASE RefillFails
  <2>1. reaper' \in ReaperType  BY <1>16, RecordTypes DEF RefillFails
  <2>2. live' \in Int  BY <1>16, RecordTypes DEF RefillFails
  <2> QED BY <1>1, <1>2, <1>16, <2>1, <2>2 DEF RefillFails
<1>17. CASE RefillEnds
  <2>1. idle' \in Seq(Instances)  BY <1>17, ConcatToSet, RecordTypes DEF RefillEnds
  <2>2. reaper' \in ReaperType  BY <1>17, RecordTypes DEF RefillEnds, Resting
  <2> QED BY <1>1, <1>17, <2>1, <2>2 DEF RefillEnds
<1>18. CASE StartBegins
  <2>1. MinInstances > live => MinInstances - live \in Nat  BY <1>000
  <2>2. starter' \in StarterType  BY <1>18, <2>1, RecordTypes DEF StartBegins
  <2> QED BY <1>1, <1>18, <2>2 DEF StartBegins
<1>19. CASE StartCreates
  <2>1. Fresh \in Instances  BY <1>19, FreshIsNew DEF StartCreates, CreateInstance
  <2>2. Append(starter.made, Fresh) \in Seq(Instances)  BY <2>1, AppendToSet, RecordTypes
  <2>3. starter' \in StarterType  BY <1>19, <2>2, RecordTypes DEF StartCreates
  <2>4. open' \subseteq Instances  BY <1>19, <2>1 DEF StartCreates, CreateInstance
  <2> QED BY <1>1, <1>19, <2>3, <2>4 DEF StartCreates
<1>20. CASE StartFails
  <2>1. /\ open' \subseteq Instances /\ uses' \in [Instances -> Nat]
        /\ trapped' \subseteq Instances /\ belated' \subseteq Instances
    BY <1>20, CloseKeepsTypes DEF StartFails
  <2>2. starter' \in StarterType  BY <1>20, RecordTypes DEF StartFails
  <2>3. live' \in Int /\ owed' \in Nat  BY <1>20, RecordTypes DEF StartFails
  <2> QED BY <1>1, <1>2, <1>20, <2>1, <2>2, <2>3 DEF StartFails
<1>21. CASE StartEnds
  <2>1. idle' \in Seq(Instances)  BY <1>21, ConcatToSet, RecordTypes DEF StartEnds
  <2>2. starter' \in StarterType  BY <1>21, RecordTypes DEF StartEnds
  <2>3. live' \in Int  BY <1>21, RecordTypes DEF StartEnds
  <2> QED BY <1>1, <1>21, <2>1, <2>2, <2>3 DEF StartEnds
<1>22. CASE CloseStopsReaper
  <2>1. reaper' \in ReaperType  BY <1>22, RecordTypes DEF CloseStopsReaper
  <2> QED BY <1>1, <1>22, <2>1 DEF CloseStopsReaper, CloserType
<1>23. CASE CloseBegins \/ CloseChecks \/ CloseArms \/ CloseDrained \/ CloseGivesUp
  <2>1. closer' \in CloserType
    BY <1>23 DEF CloseBegins, CloseChecks, CloseArms, CloseDrained, CloseGivesUp, CloserType
  <2> QED BY <1>1, <1>23, <2>1 DEF CloseBegins, CloseChecks, CloseArms, CloseDrained, CloseGivesUp
<1>24. CASE CloseDrains
  <2>1. /\ open' \subseteq Instances /\ uses' \in [Instances -> Nat]
        /\ trapped' \subseteq Instances /\ belated' \subseteq Instances
    BY <1>24, CloseKeepsTypes DEF CloseDrains
  <2>2. idle' \in Seq(Instances) /\ live' \in Int /\ closer' \in CloserType
    BY <1>24, RecordTypes DEF CloseDrains, CloserType
  <2> QED BY <1>1, <1>24, <2>1, <2>2 DEF CloseDrains
<1> QED
  BY <1>3, <1>4, <1>5, <1>6, <1>7, <1>8, <1>9, <1>10, <1>11, <1>12, <1>13, <1>14, <1>15, <1>16,
     <1>17, <1>18, <1>19, <1>20, <1>21, <1>22, <1>23, <1>24
  DEF Next, Caller, Goes, Reaper, Starter, Closer

\* Every step keeps outstanding equal to the number of holders.
LEMMA CountStep ==
    ASSUME TypeOK, LeasesCounted, Next
    PROVE  LeasesCounted'
<1> DEFINE W == {"holding"}
<1>1. "asleep" \notin W /\ "trying" \notin W  OBVIOUS
<1>2. outstanding \in Nat /\ outstanding = Cardinality(At(pc, W))  BY DEF TypeOK, LeasesCounted
<1> SUFFICES outstanding' = Cardinality(At(pc', W))  BY DEF LeasesCounted, At
<1>3. ASSUME NEW c \in Callers, NEW x, Moves(pc, pc', c, x)
      PROVE  /\ x \in W /\ pc[c] \notin W => Cardinality(At(pc', W)) = Cardinality(At(pc, W)) + 1
             /\ x \notin W /\ pc[c] \in W => Cardinality(At(pc', W)) = Cardinality(At(pc, W)) - 1
             /\ x \in W /\ pc[c] \in W => Cardinality(At(pc', W)) = Cardinality(At(pc, W))
             /\ x \notin W /\ pc[c] \notin W => Cardinality(At(pc', W)) = Cardinality(At(pc, W))
  <2> HIDE DEF W
  <2>1. x \in W /\ pc[c] \notin W => Cardinality(At(pc', W)) = Cardinality(At(pc, W)) + 1
    BY <1>1, <1>3, MoveCounts
  <2>2. x \notin W /\ pc[c] \in W => Cardinality(At(pc', W)) = Cardinality(At(pc, W)) - 1
    BY <1>1, <1>3, MoveCounts
  <2>3. x \in W /\ pc[c] \in W => Cardinality(At(pc', W)) = Cardinality(At(pc, W))
    BY <1>1, <1>3, MoveCounts
  <2>4. x \notin W /\ pc[c] \notin W => Cardinality(At(pc', W)) = Cardinality(At(pc, W))
    BY <1>1, <1>3, MoveCounts
  <2> QED BY <2>1, <2>2, <2>3, <2>4
<1>4. ASSUME NEW c \in Callers, TryPops(c) \/ CreateSucceeds(c)
      PROVE  outstanding' = Cardinality(At(pc', W))
  <2>1. Moves(pc, pc', c, "holding") /\ pc[c] \notin W  BY <1>4, CallerMoves DEF Trying
  <2>2. outstanding' = outstanding + 1  BY <1>4 DEF TryPops, CreateSucceeds
  <2> QED BY <1>2, <1>3, <2>1, <2>2
<1>5. ASSUME NEW c \in Callers, Return(c) PROVE outstanding' = Cardinality(At(pc', W))
  <2>1. Moves(pc, pc', c, "released") /\ pc[c] \in W  BY <1>5, CallerMoves
  <2>2. outstanding' = outstanding - 1  BY <1>5 DEF Return
  <2> QED BY <1>2, <1>3, <2>1, <2>2
<1>6. ASSUME NEW c \in Callers,
             Checkout(c) \/ TryGivesUp(c) \/ TryReserves(c) \/ TrySleeps(c) \/ CreateFails(c)
             \/ CtxExpires(c) \/ ReturnDecides(c) \/ ReturnRecycles(c) \/ ReturnRestacks(c)
             \/ ReturnEnds(c)
      PROVE  outstanding' = Cardinality(At(pc', W))
  <2>1. PICK x \in CallerAt \ W : Moves(pc, pc', c, x) /\ pc[c] \notin W
    BY <1>6, CallerMoves DEF Trying, CallerAt
  <2>2. outstanding' = outstanding
    BY <1>6 DEF Checkout, TryGivesUp, TryReserves, TrySleeps, CreateFails, CtxExpires, ReturnDecides,
                ReturnRecycles, ReturnRestacks, ReturnEnds, poolVars
  <2> QED BY <1>2, <1>3, <2>1, <2>2
<1>7. CASE Reaper \/ Starter \/ Closer \/ (\E i \in Instances : MarkUnusable(i))
  <2>1. At(pc', W) = At(pc, W)  BY <1>1, <1>7, OthersWake, WakesKeepsAt
  <2>2. outstanding' = outstanding
    BY <1>7 DEF Reaper, ReapEvicts, ReapCloses, RefillCreates, RefillFails, RefillEnds,
                Starter, StartBegins, StartCreates, StartFails, StartEnds,
                Closer, CloseBegins, CloseStopsReaper, CloseChecks, CloseArms, CloseDrained,
                CloseGivesUp, CloseDrains, MarkUnusable, poolVars
  <2> QED BY <1>2, <2>1, <2>2
<1> QED BY <1>4, <1>5, <1>6, <1>7 DEF Next, Caller, Goes

\* Holding is a matter of three program points.
Handling == {"holding", "released", "restacking"}

\* Every step keeps instances with the callers that work with them.
LEMMA HoldersStep ==
    ASSUME TypeOK, Holders, Next
    PROVE  Holders'
<1>0. pc \in [Callers -> CallerAt] /\ lease \in [Callers -> Instances \cup {None}]  BY DEF TypeOK
<1>1. \A d \in Callers : pc[d] \in Handling <=> lease[d] # None  BY DEF Holders, Holding, Handling
<1> SUFFICES \A d \in Callers : pc'[d] \in Handling <=> lease'[d] # None
  BY DEF Holders, Holding, Handling
<1>2. ASSUME NEW c \in Callers, NEW x, Moves(pc, pc', c, x), NEW v,
             lease' = [lease EXCEPT ![c] = v], x \in Handling <=> v # None
      PROVE  \A d \in Callers : pc'[d] \in Handling <=> lease'[d] # None
  BY <1>0, <1>1, <1>2 DEF Moves, Handling
<1>3. ASSUME NEW c \in Callers, NEW x, Moves(pc, pc', c, x),
             lease' = lease, x \in Handling <=> pc[c] \in Handling
      PROVE  \A d \in Callers : pc'[d] \in Handling <=> lease'[d] # None
  BY <1>0, <1>1, <1>3 DEF Moves, Handling
<1>4. ASSUME NEW c \in Callers, TryPops(c) PROVE \A d \in Callers : pc'[d] \in Handling <=> lease'[d] # None
  <2>1. idle \in Seq(Instances) /\ idle # <<>>  BY <1>4 DEF TypeOK, TryPops
  <2>2. Last(idle) \in Instances  BY <2>1, PopToSet
  <2>3. lease' = [lease EXCEPT ![c] = Last(idle)]  BY <1>4 DEF TryPops
  <2>4. Moves(pc, pc', c, "holding")  BY <1>4, CallerMoves
  <2>5. "holding" \in Handling /\ Last(idle) # None  BY <2>2, NamesAssumption DEF Handling
  <2> QED BY <1>2, <2>3, <2>4, <2>5
<1>5. ASSUME NEW c \in Callers, CreateSucceeds(c) PROVE \A d \in Callers : pc'[d] \in Handling <=> lease'[d] # None
  <2>1. Fresh \in Instances  BY <1>5, FreshIsNew DEF CreateSucceeds, CreateInstance
  <2>2. lease' = [lease EXCEPT ![c] = Fresh]  BY <1>5 DEF CreateSucceeds
  <2>3. Moves(pc, pc', c, "holding")  BY <1>5, CallerMoves
  <2>4. "holding" \in Handling /\ Fresh # None  BY <2>1, NamesAssumption DEF Handling
  <2> QED BY <1>2, <2>2, <2>3, <2>4
<1>6. ASSUME NEW c \in Callers, ReturnDecides(c) PROVE \A d \in Callers : pc'[d] \in Handling <=> lease'[d] # None
  <2>1. CASE MustRecycle(lease[c])
    <3>1. lease' = [lease EXCEPT ![c] = None]  BY <1>6, <2>1 DEF ReturnDecides
    <3>2. Moves(pc, pc', c, "recycling")  BY <1>6, <2>1, CallerMoves
    <3>3. "recycling" \notin Handling  BY DEF Handling
    <3> QED BY <1>2, <3>1, <3>2, <3>3
  <2>2. CASE ~ MustRecycle(lease[c])
    <3>1. lease' = lease  BY <1>6, <2>2 DEF ReturnDecides
    <3>2. Moves(pc, pc', c, "restacking") /\ pc[c] = "released"  BY <1>6, <2>2, CallerMoves
    <3> QED BY <1>3, <3>1, <3>2 DEF Handling
  <2> QED BY <2>1, <2>2
<1>7. ASSUME NEW c \in Callers, ReturnRestacks(c) PROVE \A d \in Callers : pc'[d] \in Handling <=> lease'[d] # None
  <2>1. lease' = [lease EXCEPT ![c] = None]  BY <1>7 DEF ReturnRestacks
  <2>2. Moves(pc, pc', c, "leaving")  BY <1>7, CallerMoves
  <2>3. "leaving" \notin Handling  BY DEF Handling
  <2> QED BY <1>2, <2>1, <2>2, <2>3
<1>8. ASSUME NEW c \in Callers, Return(c) PROVE \A d \in Callers : pc'[d] \in Handling <=> lease'[d] # None
  <2>1. Moves(pc, pc', c, "released") /\ pc[c] = "holding"  BY <1>8, CallerMoves
  <2>2. lease' = lease  BY <1>8 DEF Return
  <2> QED BY <1>3, <2>1, <2>2 DEF Handling
<1>9. ASSUME NEW c \in Callers,
             Checkout(c) \/ TryGivesUp(c) \/ TryReserves(c) \/ TrySleeps(c) \/ CreateFails(c)
             \/ CtxExpires(c) \/ ReturnRecycles(c) \/ ReturnEnds(c)
      PROVE  \A d \in Callers : pc'[d] \in Handling <=> lease'[d] # None
  <2>1. PICK x \in CallerAt \ Handling : Moves(pc, pc', c, x) /\ pc[c] \notin Handling
    BY <1>9, CallerMoves DEF Trying, CallerAt, Handling
  <2>2. lease' = lease
    BY <1>9 DEF Checkout, TryGivesUp, TryReserves, TrySleeps, CreateFails, CtxExpires,
                ReturnRecycles, ReturnEnds
  <2> QED BY <1>3, <2>1, <2>2
<1>10. CASE Reaper \/ Starter \/ Closer \/ (\E i \in Instances : MarkUnusable(i))
  <2>1. Wakes(pc, pc')  BY <1>10, OthersWake
  <2>2. lease' = lease
    BY <1>10 DEF Reaper, ReapEvicts, ReapCloses, RefillCreates, RefillFails, RefillEnds,
                Starter, StartBegins, StartCreates, StartFails, StartEnds,
                Closer, CloseBegins, CloseStopsReaper, CloseChecks, CloseArms, CloseDrained,
                CloseGivesUp, CloseDrains, MarkUnusable, callVars
  <2> QED BY <1>1, <2>1, <2>2 DEF Wakes, Handling
<1> QED BY <1>4, <1>5, <1>6, <1>7, <1>8, <1>9, <1>10 DEF Next, Caller, Goes

\* Every step leaves idle goroutines without working state.
LEMMA TidyStep ==
    ASSUME Tidy, Next
    PROVE  Tidy'
<1>1. ASSUME NEW c \in Callers, Caller(c) PROVE Tidy'
  <2>1. UNCHANGED <<reaper, starter, closed, closer>>
    BY <1>1 DEF Caller, Goes, Checkout, TryGivesUp, TryPops, TryReserves, TrySleeps, CreateSucceeds,
       CreateFails, CtxExpires, Return, ReturnDecides, ReturnRecycles,
       ReturnRestacks, ReturnEnds, poolVars
  <2> QED BY <2>1 DEF Tidy
<1>7. ASSUME NEW i \in Instances, MarkUnusable(i) PROVE Tidy'
  BY <1>7 DEF MarkUnusable, Tidy, poolVars
<1>2. CASE Reaper
  <2>1. UNCHANGED <<starter, closed, closer>>
    BY <1>2 DEF Reaper, ReapEvicts, ReapCloses, RefillCreates, RefillFails, RefillEnds, poolVars
  <2>2. CASE ReapEvicts
    <3>1. reaper'.at = "closing" /\ reaper'.made = <<>>  BY <2>2 DEF ReapEvicts
    <3> QED BY <2>1, <3>1 DEF Tidy
  <2>3. CASE ReapCloses \/ RefillCreates \/ RefillFails
    <3>1. reaper'.at = "refilling" /\ reaper'.evicted = {}
      BY <2>3 DEF ReapCloses, RefillCreates, RefillFails
    <3> QED BY <2>1, <3>1 DEF Tidy
  <2>4. CASE RefillEnds
    <3>1. reaper' = Resting  BY <2>4 DEF RefillEnds
    <3> QED BY <2>1, <3>1 DEF Tidy, Resting
  <2> QED BY <1>2, <2>2, <2>3, <2>4 DEF Reaper
<1>3. CASE Starter
  <2>1. UNCHANGED <<reaper, closed, closer>>
    BY <1>3 DEF Starter, StartBegins, StartCreates, StartFails, StartEnds, poolVars
  <2>2. starter'.at # "warming" => starter'.made = <<>>
    BY <1>3 DEF Starter, StartBegins, StartCreates, StartFails, StartEnds, Tidy
  <2> QED BY <2>1, <2>2 DEF Tidy
<1>4. CASE CloseBegins  BY <1>4 DEF CloseBegins, Tidy
<1>5. CASE CloseStopsReaper
  <2>1. reaper' = [at |-> "gone", evicted |-> {}, need |-> 0, made |-> <<>>]
        /\ starter' = starter /\ closed' = closed /\ closed
    BY <1>5 DEF CloseStopsReaper, Tidy, poolVars
  <2> QED BY <2>1 DEF Tidy
<1>6. CASE CloseChecks \/ CloseArms \/ CloseDrained \/ CloseGivesUp \/ CloseDrains
  <2>1. UNCHANGED <<reaper, starter, closed>> /\ closer # "open"
    BY <1>6 DEF CloseChecks, CloseArms, CloseDrained, CloseGivesUp, CloseDrains, poolVars
  <2> QED BY <2>1 DEF Tidy
<1> QED BY <1>1, <1>2, <1>3, <1>4, <1>5, <1>6, <1>7 DEF Next, Closer

\* The first invariant is inductive.
LEMMA BaseStep == BaseInv /\ [Next]_vars => BaseInv'
<1> SUFFICES ASSUME BaseInv, [Next]_vars PROVE BaseInv'  OBVIOUS
<1>1. CASE Next  BY <1>1, TypeStep, CountStep, HoldersStep, TidyStep DEF BaseInv
<1>2. CASE UNCHANGED vars
  <2>1. /\ UNCHANGED <<idle, live, outstanding, closed, done, open, uses, trapped, pc, lease>>
        /\ UNCHANGED <<reaper, starter, closer, faults, owed, belated>>
    BY <1>2 DEF vars, poolVars, instVars, callVars
  <2>2. TypeOK'  BY <2>1 DEF BaseInv, TypeOK
  <2>3. LeasesCounted' /\ Holders' /\ Tidy'
    BY <2>1 DEF BaseInv, LeasesCounted, Holders, Tidy, At, Holding
  <2> QED BY <2>2, <2>3 DEF BaseInv
<1> QED BY <1>1, <1>2

\* It holds at first.
LEMMA BaseInit == Init => BaseInv
<1> SUFFICES ASSUME Init PROVE BaseInv  OBVIOUS
<1> USE DEF Init
<1>1. TypeOK
  <2>1. RestOK  
    <3>1. <<>> \in Seq(Instances)  BY EmptySeq
    <3>2. 0 \in 0 .. MaxFaults  BY SizesAssumption
    <3> QED BY <3>1, <3>2 DEF RestOK, ReaperType, StarterType, CloserType, CallerAt, Resting
  <2>2. closed \in BOOLEAN /\ done \in BOOLEAN  OBVIOUS
  <2> QED BY <2>1, <2>2 DEF TypeOK, RestOK, ReaperType, StarterType, CloserType
<1>2. LeasesCounted
  <2>1. At(pc, {"holding"}) = {}  BY DEF At
  <2> QED BY <2>1, FS_EmptySet DEF LeasesCounted
<1>3. Holders  BY DEF Holders, Holding
<1>4. Tidy  BY DEF Tidy, Resting
<1> QED BY <1>1, <1>2, <1>3, <1>4 DEF BaseInv

\* The pool's variables keep their types for any number of callers, instances and failing
\* creations; in particular outstanding, which every Return decrements, never goes below
\* zero.
THEOREM TypeCorrect == Spec => []TypeOK
<1>1. BaseInv => TypeOK  BY DEF BaseInv
<1> QED BY BaseInit, BaseStep, <1>1, PTL DEF Spec

-----------------------------------------------------------------------------
(* Instances are in one place.                                             *)

\* What the leased instances are after a caller took one.
LEMMA LeaseTaken ==
    ASSUME TypeOK, SoleLeases, NEW c \in Callers, lease[c] = None,
           NEW v \in Instances, v \notin Leased, lease' = [lease EXCEPT ![c] = v]
    PROVE  Leased' = Leased \cup {v} /\ SoleLeases'
<1>0. lease \in [Callers -> Instances \cup {None}] /\ v # None  BY NamesAssumption DEF TypeOK
<1>1. lease'[c] = v /\ \A d \in Callers \ {c} : lease'[d] = lease[d]  BY <1>0
<1>2. Leased' = Leased \cup {v}  BY <1>0, <1>1 DEF Leased
<1>3. SoleLeases'  BY <1>0, <1>1 DEF SoleLeases, Leased
<1> QED BY <1>2, <1>3

\* What they are after a caller gave its own up.
LEMMA LeaseGiven ==
    ASSUME TypeOK, SoleLeases, NEW c \in Callers, lease[c] # None,
           lease' = [lease EXCEPT ![c] = None]
    PROVE  Leased' = Leased \ {lease[c]} /\ SoleLeases' /\ lease[c] \in Leased /\ lease[c] \in Instances
<1>0. lease \in [Callers -> Instances \cup {None}]  BY DEF TypeOK
<1>1. lease'[c] = None /\ \A d \in Callers \ {c} : lease'[d] = lease[d]  BY <1>0
<1>2. Leased' = Leased \ {lease[c]}  BY <1>0, <1>1 DEF Leased, SoleLeases
<1>3. SoleLeases'  BY <1>0, <1>1 DEF SoleLeases
<1>4. lease[c] \in Leased /\ lease[c] \in Instances  BY <1>0 DEF Leased
<1> QED BY <1>2, <1>3, <1>4

\* Every step keeps the places apart.
LEMMA PlaceStep ==
    ASSUME BaseInv, PlaceInv, Next
    PROVE  PlaceInv'
<1> USE DEF poolVars, instVars, callVars
<1>0. TypeOK /\ Holders /\ Tidy /\ Unrepeated /\ SoleLeases /\ Places  BY DEF BaseInv, PlaceInv
<1>1. /\ idle \in Seq(Instances) /\ reaper.made \in Seq(Instances) /\ starter.made \in Seq(Instances)
      /\ reaper.evicted \subseteq Instances /\ lease \in [Callers -> Instances \cup {None}]
  BY <1>0 DEF TypeOK
<1> DEFINE I == ToSet(idle)
           R == ToSet(reaper.made)
           S == ToSet(starter.made)
           L == Leased
           E == reaper.evicted
<1>2. Apart(I, R, S, L, E, open)  BY <1>0 DEF Places
<1>3. IsInjective(idle) /\ IsInjective(reaper.made) /\ IsInjective(starter.made)  BY <1>0 DEF Unrepeated
<1>e. ToSet(<<>>) = {} /\ IsInjective(<<>>)  BY DEF ToSet, IsInjective
<1>4. ASSUME UNCHANGED <<idle, lease, open>>, reaper'.made = reaper.made,
             reaper'.evicted = reaper.evicted, starter'.made = starter.made
      PROVE  PlaceInv'
  BY <1>0, <1>4 DEF PlaceInv, Unrepeated, SoleLeases, Places, Leased
<1>5. ASSUME NEW c \in Callers,
             Checkout(c) \/ TryGivesUp(c) \/ TryReserves(c) \/ TrySleeps(c) \/ CreateFails(c)
             \/ CtxExpires(c) \/ Return(c) \/ ReturnRecycles(c) \/ ReturnEnds(c)
      PROVE  PlaceInv'
  <2>1. UNCHANGED <<idle, lease, open, reaper, starter>>
    BY <1>5 DEF Checkout, TryGivesUp, TryReserves, TrySleeps, CreateFails, CtxExpires,
                Return, ReturnRecycles, ReturnEnds
  <2> QED BY <2>1, <1>4
<1>5m. ASSUME NEW i \in Instances, MarkUnusable(i) PROVE PlaceInv'
  <2>1. UNCHANGED <<idle, lease, open, reaper, starter>>  BY <1>5m DEF MarkUnusable
  <2> QED BY <2>1, <1>4
<1>6. ASSUME NEW c \in Callers, TryPops(c) PROVE PlaceInv'
  <2> DEFINE i == Last(idle)
  <2>1. idle # <<>> /\ idle' = Front(idle) /\ lease' = [lease EXCEPT ![c] = i]
        /\ UNCHANGED <<open, reaper, starter>>
    BY <1>6 DEF TryPops
  <2>2. i \in Instances /\ I = ToSet(idle') \cup {i} /\ IsInjective(idle') /\ i \notin ToSet(idle')
    BY <1>1, <1>3, <2>1, PopToSet
  <2>3. lease[c] = None  BY <1>0, <1>6 DEF TryPops, Trying, Holders, Holding
  <2>4. i \notin L  BY <1>2, <2>2 DEF Apart
  <2> HIDE DEF i
  <2>5. Leased' = L \cup {i} /\ SoleLeases'  BY <1>0, <2>1, <2>2, <2>3, <2>4, LeaseTaken
  <2>6. Apart(ToSet(idle'), R, S, L \cup {i}, E, open)  BY <1>2, <2>2 DEF Apart
  <2> QED BY <1>3, <2>1, <2>2, <2>5, <2>6 DEF PlaceInv, Unrepeated, Places
<1>7. ASSUME NEW c \in Callers, CreateSucceeds(c) PROVE PlaceInv'
  <2>1. Referenced # Instances /\ open' = open \cup {Fresh} /\ lease' = [lease EXCEPT ![c] = Fresh]
        /\ UNCHANGED <<idle, reaper, starter>>
    BY <1>7 DEF CreateSucceeds, CreateInstance
  <2>2. /\ Fresh \in Instances /\ Fresh \notin open /\ Fresh \notin I /\ Fresh \notin L /\ Fresh \notin E
        /\ Fresh \notin R /\ Fresh \notin S
    BY <1>0, <2>1, FreshIsNew
  <2>3. lease[c] = None  BY <1>0, <1>7 DEF CreateSucceeds, Holders, Holding
  <2>5. Leased' = L \cup {Fresh} /\ SoleLeases'  BY <1>0, <2>1, <2>2, <2>3, LeaseTaken
  <2>6. Apart(I, R, S, L \cup {Fresh}, E, open \cup {Fresh})  BY <1>2, <2>2 DEF Apart
  <2> QED BY <1>3, <2>1, <2>5, <2>6 DEF PlaceInv, Unrepeated, Places
<1>8. ASSUME NEW c \in Callers, ReturnDecides(c) PROVE PlaceInv'
  <2>1. CASE ~ MustRecycle(lease[c])
    <3>1. UNCHANGED <<idle, lease, open, reaper, starter>>  BY <1>8, <2>1 DEF ReturnDecides
    <3> QED BY <3>1, <1>4
  <2>2. CASE MustRecycle(lease[c])
    <3>1. lease' = [lease EXCEPT ![c] = None] /\ open' = open \ {lease[c]}
          /\ UNCHANGED <<idle, reaper, starter>>
      BY <1>8, <2>2 DEF ReturnDecides, CloseInstances
    <3>2. lease[c] # None  BY <1>0, <1>8 DEF ReturnDecides, Holders, Holding
    <3>3. Leased' = L \ {lease[c]} /\ SoleLeases' /\ lease[c] \in L
      BY <1>0, <3>1, <3>2, LeaseGiven
    <3>4. Apart(I, R, S, L \ {lease[c]}, E, open \ {lease[c]})  BY <1>2, <3>3 DEF Apart
    <3> QED BY <1>3, <3>1, <3>3, <3>4 DEF PlaceInv, Unrepeated, Places
  <2> QED BY <2>1, <2>2
<1>9. ASSUME NEW c \in Callers, ReturnRestacks(c) PROVE PlaceInv'
  <2>1. lease' = [lease EXCEPT ![c] = None] /\ idle' = Append(idle, lease[c])
        /\ UNCHANGED <<open, reaper, starter>>
    BY <1>9 DEF ReturnRestacks
  <2>2. lease[c] # None  BY <1>0, <1>9 DEF ReturnRestacks, Holders, Holding
  <2>3. Leased' = L \ {lease[c]} /\ SoleLeases' /\ lease[c] \in L /\ lease[c] \in Instances
    BY <1>0, <2>1, <2>2, LeaseGiven
  <2>4. lease[c] \notin I  BY <1>2, <2>3 DEF Apart
  <2>5. ToSet(idle') = I \cup {lease[c]} /\ IsInjective(idle')
    BY <1>1, <1>3, <2>1, <2>3, <2>4, AppendToSet
  <2>6. Apart(I \cup {lease[c]}, R, S, L \ {lease[c]}, E, open)  BY <1>2, <2>3 DEF Apart
  <2> QED BY <1>3, <2>1, <2>3, <2>5, <2>6 DEF PlaceInv, Unrepeated, Places
<1>10. CASE ReapEvicts
  <2>1. PICK evicted \in SUBSET I :
          idle' = Without(idle, evicted) /\ reaper'.evicted = evicted /\ reaper'.made = <<>>
    BY <1>10 DEF ReapEvicts
  <2>2. UNCHANGED <<open, lease, starter>> /\ reaper.made = <<>> /\ reaper.evicted = {}
    BY <1>0, <1>10 DEF ReapEvicts, Tidy
  <2>3. ToSet(idle') = I \ evicted /\ IsInjective(idle')  BY <1>1, <1>3, <2>1, WithoutToSet
  <2>4. Apart(I \ evicted, {}, S, L, evicted, open)  BY <1>2, <1>e, <2>1, <2>2 DEF Apart
  <2> QED BY <1>0, <1>3, <1>e, <2>1, <2>2, <2>3, <2>4 DEF PlaceInv, Unrepeated, Places, SoleLeases, Leased
<1>11. CASE ReapCloses
  <2>1. open' = open \ E /\ reaper'.evicted = {} /\ reaper'.made = reaper.made
        /\ UNCHANGED <<idle, lease, starter>>
    BY <1>11 DEF ReapCloses, CloseInstances
  <2>2. Apart(I, R, S, L, {}, open \ E)  BY <1>2 DEF Apart
  <2> QED BY <1>0, <1>3, <2>1, <2>2 DEF PlaceInv, Unrepeated, Places, SoleLeases, Leased
<1>12. CASE RefillCreates
  <2>1. Referenced # Instances /\ open' = open \cup {Fresh} /\ reaper'.evicted = {} /\ E = {}
        /\ reaper'.made = Append(reaper.made, Fresh) /\ UNCHANGED <<idle, lease, starter>>
    BY <1>0, <1>12 DEF RefillCreates, CreateInstance, Tidy
  <2>2. /\ Fresh \in Instances /\ Fresh \notin open /\ Fresh \notin I /\ Fresh \notin L
        /\ Fresh \notin R /\ Fresh \notin S
    BY <1>0, <2>1, FreshIsNew
  <2>3. ToSet(reaper'.made) = R \cup {Fresh} /\ IsInjective(reaper'.made)
    BY <1>1, <1>3, <2>1, <2>2, AppendToSet
  <2>4. Apart(I, R \cup {Fresh}, S, L, {}, open \cup {Fresh})  BY <1>2, <2>1, <2>2 DEF Apart
  <2> QED BY <1>0, <1>3, <2>1, <2>3, <2>4 DEF PlaceInv, Unrepeated, Places, SoleLeases, Leased
<1>13. CASE RefillFails
  <2>1. reaper'.made = reaper.made /\ reaper'.evicted = reaper.evicted /\ UNCHANGED <<idle, lease, open, starter>>
    BY <1>0, <1>13 DEF RefillFails, Tidy
  <2> QED BY <2>1, <1>4
<1>14. CASE RefillEnds
  <2>1. idle' = idle \o reaper.made /\ reaper'.made = <<>> /\ reaper'.evicted = {} /\ E = {}
        /\ UNCHANGED <<open, lease, starter>>
    BY <1>0, <1>14 DEF RefillEnds, Resting, Tidy
  <2>2. I \cap R = {}  BY <1>2 DEF Apart
  <2>3. ToSet(idle') = I \cup R /\ IsInjective(idle')  BY <1>1, <1>3, <2>1, <2>2, ConcatToSet
  <2>4. Apart(I \cup R, {}, S, L, {}, open)  BY <1>2, <2>1 DEF Apart
  <2> QED BY <1>0, <1>3, <1>e, <2>1, <2>3, <2>4 DEF PlaceInv, Unrepeated, Places, SoleLeases, Leased
<1>15. CASE StartBegins
  <2>1. starter'.made = starter.made /\ UNCHANGED <<idle, lease, open, reaper>>
    BY <1>0, <1>15 DEF StartBegins, Tidy
  <2> QED BY <2>1, <1>4
<1>16. CASE StartCreates
  <2>1. Referenced # Instances /\ open' = open \cup {Fresh}
        /\ starter'.made = Append(starter.made, Fresh) /\ UNCHANGED <<idle, lease, reaper>>
    BY <1>16 DEF StartCreates, CreateInstance
  <2>2. /\ Fresh \in Instances /\ Fresh \notin open /\ Fresh \notin I /\ Fresh \notin L
        /\ Fresh \notin R /\ Fresh \notin S /\ Fresh \notin E
    BY <1>0, <2>1, FreshIsNew
  <2>3. ToSet(starter'.made) = S \cup {Fresh} /\ IsInjective(starter'.made)
    BY <1>1, <1>3, <2>1, <2>2, AppendToSet
  <2>4. Apart(I, R, S \cup {Fresh}, L, E, open \cup {Fresh})  BY <1>2, <2>2 DEF Apart
  <2> QED BY <1>0, <1>3, <2>1, <2>3, <2>4 DEF PlaceInv, Unrepeated, Places, SoleLeases, Leased
<1>17. CASE StartFails
  <2>1. open' = open \ S /\ starter'.made = <<>> /\ UNCHANGED <<idle, lease, reaper>>
    BY <1>17 DEF StartFails, CloseInstances
  <2>2. Apart(I, R, {}, L, E, open \ S)  BY <1>2 DEF Apart
  <2> QED BY <1>0, <1>3, <1>e, <2>1, <2>2 DEF PlaceInv, Unrepeated, Places, SoleLeases, Leased
<1>18. CASE StartEnds
  <2>1. idle' = idle \o starter.made /\ starter'.made = <<>> /\ UNCHANGED <<open, lease, reaper>>
    BY <1>18 DEF StartEnds
  <2>2. I \cap S = {}  BY <1>2 DEF Apart
  <2>3. ToSet(idle') = I \cup S /\ IsInjective(idle')  BY <1>1, <1>3, <2>1, <2>2, ConcatToSet
  <2>4. Apart(I \cup S, R, {}, L, E, open)  BY <1>2 DEF Apart
  <2> QED BY <1>0, <1>3, <1>e, <2>1, <2>3, <2>4 DEF PlaceInv, Unrepeated, Places, SoleLeases, Leased
<1>19. CASE CloseBegins \/ CloseChecks \/ CloseArms \/ CloseDrained \/ CloseGivesUp
  <2>1. UNCHANGED <<idle, lease, open, reaper, starter>>
    BY <1>19 DEF CloseBegins, CloseChecks, CloseArms, CloseDrained, CloseGivesUp
  <2> QED BY <2>1, <1>4
<1>20. CASE CloseStopsReaper
  <2>1. reaper'.made = reaper.made /\ reaper'.evicted = reaper.evicted /\ UNCHANGED <<idle, lease, open, starter>>
    BY <1>0, <1>20 DEF CloseStopsReaper, Tidy
  <2> QED BY <2>1, <1>4
<1>21. CASE CloseDrains
  <2>1. open' = open \ I /\ idle' = <<>> /\ UNCHANGED <<lease, reaper, starter>>
    BY <1>21 DEF CloseDrains, CloseInstances
  <2>2. Apart({}, R, S, L, E, open \ I)  BY <1>2 DEF Apart
  <2> QED BY <1>0, <1>3, <1>e, <2>1, <2>2 DEF PlaceInv, Unrepeated, Places, SoleLeases, Leased
<1> QED
  BY <1>5, <1>5m, <1>6, <1>7, <1>8, <1>9, <1>10, <1>11, <1>12, <1>13, <1>14, <1>15, <1>16, <1>17,
     <1>18, <1>19, <1>20, <1>21 DEF Next, Caller, Goes, Reaper, Starter, Closer

\* The same with stuttering.
LEMMA PlaceKept == BaseInv /\ PlaceInv /\ [Next]_vars => PlaceInv'
<1> SUFFICES ASSUME BaseInv, PlaceInv, [Next]_vars PROVE PlaceInv'  OBVIOUS
<1>1. CASE UNCHANGED vars
  BY <1>1 DEF vars, poolVars, instVars, callVars, PlaceInv, Unrepeated, SoleLeases, Places, Leased
<1> QED BY <1>1, PlaceStep

\* Nothing is anywhere at first.
LEMMA PlaceInit == Init => PlaceInv
<1> SUFFICES ASSUME Init PROVE PlaceInv  OBVIOUS
<1>1. ToSet(<<>>) = {} /\ IsInjective(<<>>)  BY DEF ToSet, IsInjective
<1>2. Leased = {} /\ SoleLeases  BY DEF Init, Leased, SoleLeases
<1> QED BY <1>1, <1>2 DEF Init, PlaceInv, Unrepeated, Places, Apart, Resting

\* The invariant contains the property.
LEMMA PlaceHolds == BaseInv /\ PlaceInv => OnePlace
<1> SUFFICES ASSUME BaseInv, PlaceInv PROVE OnePlace  OBVIOUS
<1>1. \A c \in Callers : Holding(c) <=> lease[c] # None  BY DEF BaseInv, Holders
<1>2. Apart(ToSet(idle), ToSet(reaper.made), ToSet(starter.made), Leased, reaper.evicted, open)
  BY DEF PlaceInv, Places
<1> QED BY <1>1, <1>2 DEF PlaceInv, Unrepeated, SoleLeases, OnePlace, Apart

\* However Checkout, Return, the reaper, Start and Close interleave, no instance is in two
\* hands or twice on the stack, and whatever can still be called is open.
THEOREM InstancesAreInOnePlace == Spec => []OnePlace
BY BaseInit, BaseStep, PlaceInit, PlaceKept, PlaceHolds, PTL DEF Spec

-----------------------------------------------------------------------------
(* Poisoned and worn instances do not come back.                           *)

\* The steps that only take instances out of places, perhaps closing some.
LEMMA FitWhenClosing ==
    ASSUME TypeOK, FitInv, NEW S,
           open' = open \ S, trapped' = trapped \ S, belated' = belated \ S,
           uses' = [i \in Instances |-> IF i \in S THEN 0 ELSE uses[i]],
           ToSet(idle') \subseteq ToSet(idle), ToSet(idle) \subseteq Instances,
           Leased' \subseteq Leased, Leased \subseteq Instances,
           ToSet(reaper'.made) \cup ToSet(starter'.made)
               \subseteq ToSet(reaper.made) \cup ToSet(starter.made),
           ToSet(reaper.made) \cup ToSet(starter.made) \subseteq Instances,
           \A d \in Callers : pc'[d] = "restacking" =>
               pc[d] = "restacking" /\ lease'[d] = lease[d] /\ lease[d] \in Instances
    PROVE  FitInv'
<1>1. uses \in [Instances -> Nat] /\ MaxUses \in Nat  BY SizesAssumption DEF TypeOK
<1>2. ASSUME NEW i \in Instances, Reusable(i) PROVE Reusable(i)'
  <2>1. i \in trapped' => i \in belated'  BY <1>2 DEF Reusable
  <2>2. MaxUses > 0 => uses'[i] < MaxUses  BY <1>1, <1>2 DEF Reusable
  <2> QED BY <2>1, <2>2 DEF Reusable
<1>3. Clean'
  <2> SUFFICES ASSUME NEW i \in Instances \ open' PROVE uses'[i] = 0 /\ i \notin trapped'  BY DEF Clean
  <2>1. CASE i \in S  BY <2>1
  <2>2. CASE i \notin S  BY <2>2 DEF FitInv, Clean
  <2> QED BY <2>1, <2>2
<1>4. \A i \in ToSet(idle') : Reusable(i)'  BY <1>2 DEF FitInv
<1>5. \A i \in Leased' : MaxUses > 0 => uses'[i] <= MaxUses  BY <1>1 DEF FitInv
<1>6. \A i \in ToSet(reaper'.made) \cup ToSet(starter'.made) : uses'[i] = 0 /\ i \notin trapped'
  BY DEF FitInv
<1>7. \A d \in Callers : pc'[d] = "restacking" => Reusable(lease[d])'
  <2> SUFFICES ASSUME NEW d \in Callers, pc'[d] = "restacking" PROVE Reusable(lease[d])'  OBVIOUS
  <2>1. Reusable(lease[d]) /\ lease[d] \in Instances /\ lease'[d] = lease[d]  BY DEF FitInv
  <2>2. (lease[d] \in trapped' => lease[d] \in belated') /\ (MaxUses > 0 => uses'[lease[d]] < MaxUses)
    BY <1>1, <2>1 DEF Reusable
  <2> QED BY <2>1, <2>2 DEF Reusable
<1> QED BY <1>3, <1>4, <1>5, <1>6, <1>7 DEF FitInv, Leased

\* Steps that move no instance keep it fit.
LEMMA FitWhenQuiet ==
    ASSUME TypeOK, FitInv, UNCHANGED instVars,
           ToSet(idle') \subseteq ToSet(idle), ToSet(idle) \subseteq Instances,
           Leased' \subseteq Leased, Leased \subseteq Instances,
           ToSet(reaper'.made) \cup ToSet(starter'.made)
               \subseteq ToSet(reaper.made) \cup ToSet(starter.made),
           ToSet(reaper.made) \cup ToSet(starter.made) \subseteq Instances,
           \A d \in Callers : pc'[d] = "restacking" =>
               pc[d] = "restacking" /\ lease'[d] = lease[d] /\ lease[d] \in Instances
    PROVE  FitInv'
<1> DEFINE N == {}
<1>1. open' = open \ N /\ trapped' = trapped \ N /\ belated' = belated \ N  BY DEF instVars
<1>2. uses' = [i \in Instances |-> IF i \in N THEN 0 ELSE uses[i]]
  BY DEF instVars, TypeOK
<1> HIDE DEF N
<1> QED BY <1>1, <1>2, FitWhenClosing

\* Every step keeps what is stacked fit for use.
LEMMA FitStep ==
    ASSUME BaseInv, PlaceInv, FitInv, Next
    PROVE  FitInv'
<1> USE DEF poolVars, callVars
<1>0. TypeOK /\ Holders /\ Tidy /\ SoleLeases /\ Places  BY DEF BaseInv, PlaceInv
<1>1. /\ idle \in Seq(Instances) /\ reaper.made \in Seq(Instances) /\ starter.made \in Seq(Instances)
      /\ lease \in [Callers -> Instances \cup {None}] /\ uses \in [Instances -> Nat]
      /\ open \subseteq Instances /\ reaper.evicted \subseteq Instances
  BY <1>0 DEF TypeOK
<1>m. MaxUses \in Nat  BY SizesAssumption
<1> DEFINE I == ToSet(idle)
           R == ToSet(reaper.made)
           S == ToSet(starter.made)
           L == Leased
           E == reaper.evicted
<1>2. Apart(I, R, S, L, E, open)  BY <1>0 DEF Places
<1>3. I \subseteq Instances /\ R \cup S \subseteq Instances /\ L \subseteq Instances
  BY <1>1, <1>2 DEF Apart
<1>4. \A d \in Callers : pc[d] = "restacking" => lease[d] \in Instances /\ lease[d] \in L
  BY <1>0, <1>1 DEF Holders, Holding, Leased
<1>f. /\ \A i \in I : Reusable(i)
      /\ \A i \in L : MaxUses > 0 => uses[i] <= MaxUses
      /\ \A i \in R \cup S : uses[i] = 0 /\ i \notin trapped
      /\ \A d \in Callers : pc[d] = "restacking" => Reusable(lease[d])
      /\ \A i \in Instances \ open : uses[i] = 0 /\ i \notin trapped
  BY DEF FitInv, Clean
<1>e. ToSet(<<>>) = {}  BY DEF ToSet
<1>5. ASSUME NEW c \in Callers,
             Checkout(c) \/ TryGivesUp(c) \/ TryReserves(c) \/ TrySleeps(c) \/ CreateFails(c)
             \/ CtxExpires(c) \/ Return(c) \/ ReturnRecycles(c) \/ ReturnEnds(c)
      PROVE  FitInv'
  <2>1. UNCHANGED <<idle, lease, instVars, reaper, starter>>
    BY <1>5 DEF Checkout, TryGivesUp, TryReserves, TrySleeps, CreateFails, CtxExpires,
                Return, ReturnRecycles, ReturnEnds
  <2>2. PICK x \in CallerAt \ {"restacking"} : Moves(pc, pc', c, x)
    BY <1>0, <1>5, CallerMoves DEF CallerAt
  <2>3. \A d \in Callers : pc'[d] = "restacking" => pc[d] = "restacking"  BY <2>2 DEF Moves
  <2>4. Leased' = Leased  BY <2>1 DEF Leased
  <2> QED BY <1>0, <1>3, <1>4, <2>1, <2>3, <2>4, FitWhenQuiet
<1>6. ASSUME NEW c \in Callers, TryPops(c) PROVE FitInv'
  <2> DEFINE i == Last(idle)
  <2>1. /\ idle # <<>> /\ idle' = Front(idle) /\ lease' = [lease EXCEPT ![c] = i]
        /\ uses' = [uses EXCEPT ![i] = @ + 1] /\ UNCHANGED <<open, trapped, reaper, starter>>
        /\ belated' = belated \ {i}
    BY <1>6 DEF TryPops
  <2>2. i \in Instances /\ I = ToSet(idle') \cup {i} /\ i \notin ToSet(idle')
    <3>1. IsInjective(idle)  BY DEF PlaceInv, Unrepeated
    <3> QED BY <1>1, <2>1, <3>1, PopToSet
  <2>3. lease[c] = None  BY <1>0, <1>6 DEF TryPops, Trying, Holders, Holding
  <2>4. i \notin L /\ i \notin R /\ i \notin S /\ i \in open  BY <1>2, <2>2 DEF Apart
  <2>6. Moves(pc, pc', c, "holding")  BY <1>0, <1>6, CallerMoves
  <2> HIDE DEF i
  <2>5. Leased' = L \cup {i}  BY <1>0, <2>1, <2>2, <2>3, <2>4, LeaseTaken
  <2>7. uses'[i] = uses[i] + 1 /\ \A j \in Instances \ {i} : uses'[j] = uses[j]  BY <1>1, <2>1, <2>2
  <2>8. Clean'  BY <1>f, <2>1, <2>4, <2>7 DEF Clean
  <2>9. \A j \in ToSet(idle') : Reusable(j)'
    <3> SUFFICES ASSUME NEW j \in ToSet(idle') PROVE Reusable(j)'  OBVIOUS
    <3>1. j \in I /\ j # i /\ j \in Instances  BY <1>3, <2>2
    <3> QED BY <1>f, <2>1, <2>7, <3>1 DEF Reusable
  <2>10. \A j \in Leased' : MaxUses > 0 => uses'[j] <= MaxUses
    <3>1. MaxUses > 0 => uses'[i] <= MaxUses
      <4>1. MaxUses > 0 => uses[i] < MaxUses  BY <1>f, <2>2 DEF Reusable
      <4> QED BY <1>1, <1>m, <2>2, <2>7, <4>1
    <3>2. \A j \in L : MaxUses > 0 => uses'[j] <= MaxUses  BY <1>3, <1>f, <2>4, <2>7
    <3> QED BY <2>5, <3>1, <3>2
  <2>11. \A j \in R \cup S : uses'[j] = 0 /\ j \notin trapped'  BY <1>3, <1>f, <2>1, <2>4, <2>7
  <2>12. \A d \in Callers : pc'[d] = "restacking" => Reusable(lease[d])'
    <3> SUFFICES ASSUME NEW d \in Callers, pc'[d] = "restacking" PROVE Reusable(lease[d])'  OBVIOUS
    <3>1. d # c /\ pc[d] = "restacking"  BY <2>6 DEF Moves
    <3>2. lease'[d] = lease[d]  BY <1>1, <2>1, <3>1
    <3>3. lease[d] \in Instances \ {i} /\ Reusable(lease[d])  BY <1>4, <1>f, <2>4, <3>1
    <3> QED BY <2>1, <2>7, <3>2, <3>3 DEF Reusable
  <2> QED BY <2>1, <2>8, <2>9, <2>10, <2>11, <2>12 DEF FitInv
<1>7. ASSUME NEW c \in Callers, CreateSucceeds(c) PROVE FitInv'
  <2>1. /\ Referenced # Instances /\ open' = open \cup {Fresh} /\ lease' = [lease EXCEPT ![c] = Fresh]
        /\ uses' = [uses EXCEPT ![Fresh] = 1] /\ UNCHANGED <<idle, trapped, belated, reaper, starter>>
    BY <1>7 DEF CreateSucceeds, CreateInstance
  <2>2. /\ Fresh \in Instances /\ Fresh \notin open /\ Fresh \notin I /\ Fresh \notin L
        /\ Fresh \notin R /\ Fresh \notin S
    BY <1>0, <2>1, FreshIsNew
  <2>3. lease[c] = None  BY <1>0, <1>7 DEF CreateSucceeds, Holders, Holding
  <2>5. Leased' = L \cup {Fresh}  BY <1>0, <2>1, <2>2, <2>3, LeaseTaken
  <2>6. Moves(pc, pc', c, "holding")  BY <1>0, <1>7, CallerMoves
  <2>7. uses'[Fresh] = 1 /\ \A j \in Instances \ {Fresh} : uses'[j] = uses[j]  BY <1>1, <2>1, <2>2
  <2>8. Clean'  BY <1>f, <2>1, <2>7 DEF Clean
  <2>9. \A j \in I : Reusable(j)'
    <3> SUFFICES ASSUME NEW j \in I PROVE Reusable(j)'  OBVIOUS
    <3>1. j # Fresh /\ j \in Instances  BY <1>3, <2>2
    <3> QED BY <1>f, <2>1, <2>7, <3>1 DEF Reusable
  <2>10. \A j \in Leased' : MaxUses > 0 => uses'[j] <= MaxUses
    <3>1. MaxUses > 0 => uses'[Fresh] <= MaxUses  BY <1>m, <2>7
    <3>2. \A j \in L : MaxUses > 0 => uses'[j] <= MaxUses  BY <1>3, <1>f, <2>2, <2>7
    <3> QED BY <2>5, <3>1, <3>2
  <2>11. \A j \in R \cup S : uses'[j] = 0 /\ j \notin trapped'  BY <1>3, <1>f, <2>1, <2>2, <2>7
  <2>12. \A d \in Callers : pc'[d] = "restacking" => Reusable(lease[d])'
    <3> SUFFICES ASSUME NEW d \in Callers, pc'[d] = "restacking" PROVE Reusable(lease[d])'  OBVIOUS
    <3>1. d # c /\ pc[d] = "restacking"  BY <2>6 DEF Moves
    <3>2. lease'[d] = lease[d]  BY <1>1, <2>1, <3>1
    <3>3. lease[d] \in Instances \ {Fresh} /\ Reusable(lease[d])  BY <1>4, <1>f, <2>2, <3>1
    <3> QED BY <2>1, <2>7, <3>2, <3>3 DEF Reusable
  <2> QED BY <2>1, <2>8, <2>9, <2>10, <2>11, <2>12 DEF FitInv
<1>8. ASSUME NEW i \in Instances, MarkUnusable(i) PROVE FitInv'
  <2>1. /\ i \in open /\ uses[i] > 0 /\ trapped' = trapped \cup {i}
        /\ UNCHANGED <<idle, open, uses, pc, lease, reaper, starter>>
    BY <1>8 DEF MarkUnusable
  <2>2. i \notin R /\ i \notin S
    <3>1. uses[i] # 0  BY <1>1, <2>1
    <3> QED BY <1>f, <3>1
  <2>3. /\ belated \subseteq belated'
        /\ (\A c \in Callers : lease[c] = i => pc[c] \notin {"holding", "released"}) => i \in belated'
    BY <1>8 DEF MarkUnusable
  <2>4. ASSUME i \in I PROVE i \in belated'
    <3>1. i \notin L  BY <1>2, <2>4 DEF Apart
    <3>2. \A c \in Callers : lease[c] # i  BY <3>1, NamesAssumption DEF Leased
    <3> QED BY <2>3, <3>2
  <2>5. ASSUME NEW d \in Callers, pc[d] = "restacking", lease[d] = i PROVE i \in belated'
    <3>1. \A c \in Callers : lease[c] = i => c = d  BY <1>0, <2>5, NamesAssumption DEF SoleLeases
    <3> QED BY <2>3, <2>5, <3>1
  <2>6. Clean'  BY <1>f, <2>1 DEF Clean
  <2>8. \A j \in I : Reusable(j)'  BY <1>f, <2>1, <2>3, <2>4 DEF Reusable
  <2>9. \A j \in R \cup S : uses'[j] = 0 /\ j \notin trapped'  BY <1>f, <2>1, <2>2
  <2>10. \A d \in Callers : pc'[d] = "restacking" => Reusable(lease[d])'
    BY <1>f, <2>1, <2>3, <2>5 DEF Reusable
  <2> QED BY <1>f, <2>1, <2>6, <2>8, <2>9, <2>10 DEF FitInv, Leased
<1>9. ASSUME NEW c \in Callers, ReturnDecides(c) PROVE FitInv'
  <2>0. lease[c] # None /\ lease[c] \in Instances  BY <1>0, <1>1, <1>9 DEF ReturnDecides, Holders, Holding
  <2>1. CASE ~ MustRecycle(lease[c])
    <3>1. UNCHANGED <<idle, lease, open, uses, trapped, belated, reaper, starter>>
      BY <1>9, <2>1 DEF ReturnDecides, instVars
    <3>2. Moves(pc, pc', c, "restacking")  BY <1>0, <1>9, <2>1, CallerMoves
    <3>3. Reusable(lease[c])
      <4>1. lease[c] \notin trapped /\ ~ (MaxUses > 0 /\ uses[lease[c]] >= MaxUses)
        BY <2>1 DEF MustRecycle
      <4>2. MaxUses > 0 => uses[lease[c]] < MaxUses  BY <1>1, <1>m, <2>0, <4>1
      <4> QED BY <4>1, <4>2 DEF Reusable
    <3>4. \A d \in Callers : pc'[d] = "restacking" => Reusable(lease[d])
      BY <1>f, <3>2, <3>3 DEF Moves
    <3>5. \A d \in Callers : pc'[d] = "restacking" => Reusable(lease[d])'
      BY <3>1, <3>4 DEF Reusable
    <3> QED BY <1>f, <3>1, <3>5 DEF FitInv, Leased, Clean, Reusable
  <2>2. CASE MustRecycle(lease[c])
    <3>1. lease' = [lease EXCEPT ![c] = None] /\ CloseInstances({lease[c]})
          /\ UNCHANGED <<idle, reaper, starter>>
      BY <1>9, <2>2 DEF ReturnDecides
    <3>2. Leased' \subseteq L  BY <1>0, <2>0, <3>1, LeaseGiven
    <3>3. Moves(pc, pc', c, "recycling")  BY <1>0, <1>9, <2>2, CallerMoves
    <3>4. \A d \in Callers : pc'[d] = "restacking" => pc[d] = "restacking" /\ lease'[d] = lease[d]
      BY <1>1, <3>1, <3>3 DEF Moves
    <3> QED BY <1>0, <1>3, <1>4, <3>1, <3>2, <3>4, FitWhenClosing DEF CloseInstances
  <2> QED BY <2>1, <2>2
<1>10. ASSUME NEW c \in Callers, ReturnRestacks(c) PROVE FitInv'
  <2>1. /\ lease' = [lease EXCEPT ![c] = None] /\ idle' = Append(idle, lease[c])
        /\ UNCHANGED <<open, uses, trapped, belated, reaper, starter>> /\ pc[c] = "restacking"
    BY <1>10 DEF ReturnRestacks, instVars
  <2>2. lease[c] # None  BY <1>0, <2>1 DEF Holders, Holding
  <2>3. Leased' \subseteq L /\ lease[c] \in Instances  BY <1>0, <2>1, <2>2, LeaseGiven
  <2>4. ToSet(idle') = I \cup {lease[c]}  BY <1>1, <2>1, <2>3, AppendToSet
  <2>5. Moves(pc, pc', c, "leaving")  BY <1>0, <1>10, CallerMoves
  <2>6. \A j \in ToSet(idle') : Reusable(j)'  BY <1>f, <2>1, <2>4 DEF Reusable
  <2>7. \A d \in Callers : pc'[d] = "restacking" => Reusable(lease[d])'
    <3> SUFFICES ASSUME NEW d \in Callers, pc'[d] = "restacking" PROVE Reusable(lease[d])'  OBVIOUS
    <3>1. d # c /\ pc[d] = "restacking"  BY <2>5 DEF Moves
    <3>2. lease'[d] = lease[d] /\ Reusable(lease[d])  BY <1>1, <1>f, <2>1, <3>1
    <3> QED BY <2>1, <3>2 DEF Reusable
  <2> QED BY <1>f, <2>1, <2>3, <2>6, <2>7 DEF FitInv, Clean
<1>11. CASE ReapEvicts
  <2>1. PICK evicted \in SUBSET I : idle' = Without(idle, evicted) /\ reaper'.made = <<>>
    BY <1>11 DEF ReapEvicts
  <2>2. UNCHANGED <<instVars, lease, pc, starter>>  BY <1>11 DEF ReapEvicts
  <2>3. ToSet(idle') \subseteq I  BY <1>1, <2>1, WithoutToSet
  <2>4. Leased' = L  BY <2>2 DEF Leased
  <2> QED BY <1>0, <1>3, <1>4, <1>e, <2>1, <2>2, <2>3, <2>4, FitWhenQuiet
<1>12. CASE ReapCloses
  <2>1. CloseInstances(E) /\ reaper'.made = reaper.made /\ UNCHANGED <<idle, pc, lease, starter>>
    BY <1>12 DEF ReapCloses
  <2>2. Leased' = L  BY <2>1 DEF Leased
  <2> QED BY <1>0, <1>3, <1>4, <2>1, <2>2, FitWhenClosing DEF CloseInstances
<1>13. CASE RefillCreates \/ StartCreates
  <2>1. /\ Referenced # Instances /\ open' = open \cup {Fresh}
        /\ UNCHANGED <<idle, uses, trapped, belated, pc, lease>>
        /\ \/ reaper'.made = Append(reaper.made, Fresh) /\ starter' = starter
           \/ reaper' = reaper /\ starter'.made = Append(starter.made, Fresh)
    BY <1>13 DEF RefillCreates, StartCreates, CreateInstance
  <2>2. Fresh \in Instances /\ Fresh \notin open  BY <1>0, <2>1, FreshIsNew
  <2>3. uses[Fresh] = 0 /\ Fresh \notin trapped  BY <1>f, <2>2
  <2>4. ToSet(reaper'.made) \cup ToSet(starter'.made) = R \cup S \cup {Fresh}
    <3>1. ToSet(Append(reaper.made, Fresh)) = R \cup {Fresh}  BY <1>1, <2>2, AppendToSet
    <3>2. ToSet(Append(starter.made, Fresh)) = S \cup {Fresh}  BY <1>1, <2>2, AppendToSet
    <3> QED BY <2>1, <3>1, <3>2
  <2>5. \A j \in ToSet(reaper'.made) \cup ToSet(starter'.made) : uses'[j] = 0 /\ j \notin trapped'
    BY <1>f, <2>1, <2>3, <2>4
  <2> QED BY <1>f, <2>1, <2>5 DEF FitInv, Clean, Leased, Reusable
<1>14. CASE RefillEnds \/ StartEnds
  <2>1. /\ UNCHANGED <<open, uses, trapped, belated, lease>>
        /\ \/ idle' = idle \o reaper.made /\ reaper'.made = <<>> /\ starter' = starter
           \/ idle' = idle \o starter.made /\ starter'.made = <<>> /\ reaper' = reaper
    BY <1>14 DEF RefillEnds, StartEnds, Resting, instVars
  <2>2. Wakes(pc, pc')  BY <1>0, <1>14, OthersWake DEF Reaper, Starter
  <2>3. ToSet(idle') \subseteq I \cup R \cup S
    <3>1. ToSet(idle \o reaper.made) = I \cup R  BY <1>1, ConcatToSet
    <3>2. ToSet(idle \o starter.made) = I \cup S  BY <1>1, ConcatToSet
    <3> QED BY <2>1, <3>1, <3>2
  <2>4. ASSUME NEW j \in R \cup S PROVE Reusable(j)  BY <1>f, <1>m DEF Reusable
  <2>5. \A j \in ToSet(idle') : Reusable(j)'  BY <1>f, <2>1, <2>3, <2>4 DEF Reusable
  <2>6. ToSet(reaper'.made) \cup ToSet(starter'.made) \subseteq R \cup S  BY <1>e, <2>1
  <2>7. \A d \in Callers : pc'[d] = "restacking" => Reusable(lease[d])'
    BY <1>f, <2>1, <2>2 DEF Reusable, Wakes
  <2> QED BY <1>f, <2>1, <2>5, <2>6, <2>7 DEF FitInv, Clean, Leased
<1>15. CASE StartFails \/ CloseDrains
  <2>1. /\ UNCHANGED <<pc, lease, reaper>>
        /\ \/ idle' = idle /\ starter'.made = <<>> /\ CloseInstances(S)
           \/ idle' = <<>> /\ starter' = starter /\ CloseInstances(I)
    BY <1>15 DEF StartFails, CloseDrains
  <2>2. Leased' = L  BY <2>1 DEF Leased
  <2>3. ToSet(idle') \subseteq I /\ ToSet(reaper'.made) \cup ToSet(starter'.made) \subseteq R \cup S
    BY <1>e, <2>1
  <2>4. CASE CloseInstances(S)
    BY <1>0, <1>3, <1>4, <2>1, <2>2, <2>3, <2>4, FitWhenClosing DEF CloseInstances
  <2>5. CASE CloseInstances(I)
    BY <1>0, <1>3, <1>4, <2>1, <2>2, <2>3, <2>5, FitWhenClosing DEF CloseInstances
  <2> QED BY <2>1, <2>4, <2>5
<1>16. CASE RefillFails \/ StartBegins \/ CloseBegins \/ CloseStopsReaper \/ CloseChecks
            \/ CloseArms \/ CloseDrained \/ CloseGivesUp
  <2>1. /\ UNCHANGED <<idle, lease, instVars>>
        /\ reaper'.made = reaper.made /\ starter'.made = starter.made
    <3>1. CASE RefillFails  BY <3>1 DEF RefillFails
    <3>2. CASE StartBegins  BY <1>0, <3>2 DEF StartBegins, Tidy
    <3>3. CASE CloseStopsReaper  BY <1>0, <3>3 DEF CloseStopsReaper, Tidy
    <3>4. CASE CloseBegins \/ CloseChecks \/ CloseArms \/ CloseDrained \/ CloseGivesUp
      BY <3>4 DEF CloseBegins, CloseChecks, CloseArms, CloseDrained, CloseGivesUp
    <3> QED BY <1>16, <3>1, <3>2, <3>3, <3>4
  <2>2. Wakes(pc, pc')  BY <1>0, <1>16, OthersWake DEF Reaper, Starter, Closer
  <2>3. \A d \in Callers : pc'[d] = "restacking" => pc[d] = "restacking"  BY <2>2 DEF Wakes
  <2>4. Leased' = L  BY <2>1 DEF Leased
  <2> QED BY <1>0, <1>3, <1>4, <2>1, <2>3, <2>4, FitWhenQuiet
<1> QED
  BY <1>5, <1>6, <1>7, <1>8, <1>9, <1>10, <1>11, <1>12, <1>13, <1>14, <1>15, <1>16
  DEF Next, Caller, Goes, Reaper, Starter, Closer

\* There are no instances at first.
LEMMA FitInit == Init => FitInv
<1> SUFFICES ASSUME Init PROVE FitInv  OBVIOUS
<1>1. ToSet(<<>>) = {}  BY DEF ToSet
<1>2. Leased = {}  BY DEF Init, Leased
<1> QED BY <1>1, <1>2 DEF Init, FitInv, Clean, Resting

\* The invariant contains the property.
LEMMA FitHolds == FitInv => NoReuse
BY DEF FitInv, NoReuse, Reusable

\* An instance poisoned before its Return decided, or worn, never comes back, for any use cap
\* and however MarkUnusable, also the belated calls, Return, the reaper and Close interleave.
THEOREM WornInstancesRetire == Spec => []NoReuse
<1>2. BaseInv /\ PlaceInv /\ FitInv /\ [Next]_vars => FitInv'
  <2> SUFFICES ASSUME BaseInv, PlaceInv, FitInv, [Next]_vars PROVE FitInv'  OBVIOUS
  <2>1. CASE UNCHANGED vars
    BY <2>1 DEF vars, poolVars, instVars, callVars, FitInv, Clean, Leased, Reusable
  <2> QED BY <2>1, FitStep
<1> QED BY BaseInit, BaseStep, PlaceInit, PlaceKept, FitInit, FitHolds, <1>2, PTL DEF Spec

-----------------------------------------------------------------------------
(* The instance count.                                                     *)

\* With WarmFirst nothing but Start runs until it is over.
LEMMA WarmStep ==
    ASSUME WarmFirst, BaseInv, Warm, Next
    PROVE  Warm'
<1> USE DEF poolVars, callVars
<1>0. TypeOK /\ Tidy  BY DEF BaseInv
<1>1. CASE starter'.at = "finished"  BY <1>1 DEF Warm
<1>2. CASE starter'.at # "finished" /\ starter.at = "finished"
  <2>1. starter' = starter
    BY <1>2 DEF Next, Caller, Goes, Checkout, TryGivesUp, TryPops, TryReserves, TrySleeps,
       CreateSucceeds, CreateFails, CtxExpires, MarkUnusable, Return, ReturnDecides, ReturnRecycles,
       ReturnRestacks, ReturnEnds, Reaper, ReapEvicts, ReapCloses, RefillCreates, RefillFails,
       RefillEnds, Starter, StartBegins, StartCreates, StartFails, StartEnds,
       Closer, CloseBegins, CloseStopsReaper, CloseChecks, CloseArms, CloseDrained,
       CloseGivesUp, CloseDrains
  <2> QED BY <1>2, <2>1
<1>3. CASE starter'.at # "finished" /\ starter.at # "finished"
  <2>1. /\ idle = <<>> /\ live = 0 /\ owed = 0 /\ reaper.at \in {"resting", "gone"}
        /\ \A c \in Callers : pc[c] = "out"
        /\ starter.at = "warming" => starter.need = MinInstances /\ Len(starter.made) <= starter.need
    BY <1>3 DEF Warm
  <2>2. ASSUME NEW c \in Callers, Caller(c) PROVE FALSE
    BY <1>3, <2>1, <2>2 DEF Caller, Goes, Checkout, TryGivesUp, TryPops, TryReserves, TrySleeps,
       CreateSucceeds, CreateFails, CtxExpires, Return, ReturnDecides, ReturnRecycles,
       ReturnRestacks, ReturnEnds, Trying
  <2>8. ASSUME NEW i \in Instances, MarkUnusable(i) PROVE Warm'
    <3>1. UNCHANGED <<idle, live, owed, pc, reaper, starter>>  BY <2>8 DEF MarkUnusable
    <3> QED BY <2>1, <3>1 DEF Warm
  <2>3. ~ Reaper
    BY <1>3, <2>1 DEF Reaper, ReapEvicts, ReapCloses, RefillCreates, RefillFails, RefillEnds
  <2>4. CASE StartBegins
    <3>1. /\ starter'.need = MinInstances - live /\ starter'.made = <<>>
          /\ UNCHANGED <<idle, live, owed, pc, reaper>>
      BY <1>3, <2>4 DEF StartBegins
    <3>2. starter'.need = MinInstances /\ Len(starter'.made) <= starter'.need
      <4>1. MinInstances \in Nat /\ Len(<<>>) = 0  BY SizesAssumption
      <4> QED BY <2>1, <3>1, <4>1
    <3> QED BY <2>1, <3>1, <3>2 DEF Warm
  <2>5. CASE StartCreates
    <3>1. /\ starter.at = "warming" /\ Len(starter.made) < starter.need
          /\ starter' = [at |-> "warming", need |-> starter.need, made |-> Append(starter.made, Fresh)]
          /\ UNCHANGED <<idle, live, owed, pc, reaper>> /\ Fresh \in Instances
      BY <1>0, <2>5, FreshIsNew DEF StartCreates, CreateInstance
    <3>2. starter.made \in Seq(Instances) /\ starter.need \in Nat  BY <1>0 DEF TypeOK
    <3>3. Len(starter'.made) = Len(starter.made) + 1 /\ Len(starter.made) \in Nat
      BY <3>1, <3>2, AppendToSet, LenProperties
    <3>4. starter'.need = starter.need /\ Len(starter'.made) <= starter'.need
      BY <3>1, <3>2, <3>3
    <3> QED BY <2>1, <3>1, <3>4 DEF Warm
  <2>6. ~ StartFails /\ ~ StartEnds  BY <1>3 DEF StartFails, StartEnds
  <2>7. CASE Closer
    <3>1. Wakes(pc, pc')  BY <1>0, <2>7, OthersWake
    <3>2. \A c \in Callers : pc'[c] = "out"  BY <2>1, <3>1 DEF Wakes
    <3>3. starter' = starter /\ owed' = owed /\ idle' = <<>> /\ live' = 0 /\ reaper'.at \in {"resting", "gone"}
      <4>1. CASE CloseStopsReaper  BY <2>1, <4>1 DEF CloseStopsReaper
      <4>2. CASE CloseDrains  BY <2>1, <4>2 DEF CloseDrains
      <4>3. CASE CloseBegins \/ CloseChecks \/ CloseArms \/ CloseDrained \/ CloseGivesUp
        BY <2>1, <4>3 DEF CloseBegins, CloseChecks, CloseArms, CloseDrained, CloseGivesUp
      <4> QED BY <2>7, <4>1, <4>2, <4>3 DEF Closer
    <3> QED BY <2>1, <3>2, <3>3 DEF Warm
  <2> QED BY <2>2, <2>3, <2>4, <2>5, <2>6, <2>7, <2>8 DEF Next, Starter
<1> QED BY <1>1, <1>2, <1>3

\* The reaper evicts finitely many.
LEMMA EvictedFinite ==
    ASSUME TypeOK, IsFiniteSet(reaper.evicted), Next
    PROVE  IsFiniteSet(reaper'.evicted)
<1>0. IsFiniteSet({})  BY FS_EmptySet
<1>1. CASE ReapEvicts
  <2>1. PICK evicted \in SUBSET ToSet(idle) : reaper'.evicted = evicted  BY <1>1 DEF ReapEvicts
  <2>2. IsFiniteSet(ToSet(idle))  BY HeightIsSize DEF TypeOK
  <2> QED BY <2>1, <2>2, FS_Subset
<1>2. CASE ReapCloses \/ RefillCreates \/ RefillFails \/ RefillEnds \/ CloseStopsReaper
  <2>1. reaper'.evicted = {}
    BY <1>2 DEF ReapCloses, RefillCreates, RefillFails, RefillEnds, CloseStopsReaper, Resting
  <2> QED BY <1>0, <2>1
<1>3. ASSUME ~ ReapEvicts, ~ ReapCloses, ~ RefillCreates, ~ RefillFails, ~ RefillEnds, ~ CloseStopsReaper
      PROVE  reaper' = reaper
  BY <1>3 DEF Next, Caller, Goes, Checkout, TryGivesUp, TryPops, TryReserves, TrySleeps,
       CreateSucceeds, CreateFails, CtxExpires, MarkUnusable, Return, ReturnDecides, ReturnRecycles,
       ReturnRestacks, ReturnEnds, Reaper, Starter, StartBegins, StartCreates, StartFails, StartEnds,
       Closer, CloseBegins, CloseChecks, CloseArms, CloseDrained, CloseGivesUp, CloseDrains
<1> QED BY <1>1, <1>2, <1>3

\* How many slots callers occupy, before and after a step.
LEMMA OccupyMoves ==
    ASSUME NEW q, NEW r, NEW c \in Callers, NEW x, Moves(q, r, c, x)
    PROVE  LET m == Cardinality(At(q, Occupying))
               n == Cardinality(At(r, Occupying))
           IN  /\ m \in Nat /\ n \in Nat
               /\ x \in Occupying /\ q[c] \notin Occupying => n = m + 1
               /\ x \notin Occupying /\ q[c] \in Occupying => n = m - 1
               /\ x \in Occupying /\ q[c] \in Occupying => n = m
               /\ x \notin Occupying /\ q[c] \notin Occupying => n = m
<1> DEFINE W == Occupying
<1>1. "asleep" \notin W /\ "trying" \notin W  BY DEF Occupying
<1> HIDE DEF W
<1>2. Cardinality(At(q, W)) \in Nat /\ Cardinality(At(r, W)) \in Nat  BY AtFinite
<1>3. x \in W /\ q[c] \notin W => Cardinality(At(r, W)) = Cardinality(At(q, W)) + 1
  BY <1>1, MoveCounts
<1>4. x \notin W /\ q[c] \in W => Cardinality(At(r, W)) = Cardinality(At(q, W)) - 1
  BY <1>1, MoveCounts
<1>5. x \in W /\ q[c] \in W => Cardinality(At(r, W)) = Cardinality(At(q, W))
  BY <1>1, MoveCounts
<1>6. x \notin W /\ q[c] \notin W => Cardinality(At(r, W)) = Cardinality(At(q, W))
  BY <1>1, MoveCounts
<1> QED BY <1>2, <1>3, <1>4, <1>5, <1>6 DEF W

\* The slots, by where callers are.
LEMMA SlotsAre ==
    Slots = Len(idle) + Cardinality(At(pc, Occupying)) + Len(reaper.made) + reaper.need
<1>1. {c \in Callers : Holding(c) \/ pc[c] \in {"creating", "recycling"}} = At(pc, Occupying)
  BY DEF At, Occupying, Holding
<1> QED BY <1>1 DEF Slots

\* No step changes the slack, but a refill that Close cuts short and Close's own reset.
LEMMA SlackStep ==
    ASSUME TypeOK, Tidy, Unrepeated, Next
    PROVE  closer' = "closed" \/ Slack' = Slack \/ (closed /\ Slack' >= Slack)
<1> USE DEF poolVars, callVars
<1> DEFINE h == Len(idle)
           h2 == Len(idle')
           o == Cardinality(At(pc, Occupying))
           o2 == Cardinality(At(pc', Occupying))
           m == Len(reaper.made)
           m2 == Len(reaper'.made)
           n == reaper.need
           n2 == reaper'.need
<1>1. /\ idle \in Seq(Instances) /\ reaper.made \in Seq(Instances) /\ starter.made \in Seq(Instances)
      /\ live \in Int /\ owed \in Nat /\ n \in Nat /\ lease \in [Callers -> Instances \cup {None}]
  BY DEF TypeOK
<1>2. h \in Nat /\ m \in Nat /\ Len(starter.made) \in Nat /\ Len(<<>>) = 0  BY <1>1, LenProperties
<1>3. o \in Nat /\ o2 \in Nat  BY AtFinite
<1>4. Slack = live + owed - (h + o + m + n)  BY SlotsAre DEF Slack
<1>5. Slack' = live' + owed' - (h2 + o2 + m2 + n2)
  <2>1. {c \in Callers : Holding(c) \/ pc[c] \in {"creating", "recycling"}}' = At(pc', Occupying)
    BY DEF At, Occupying, Holding
  <2> QED BY <2>1 DEF Slack, Slots
<1>6. ASSUME NEW c \in Callers, NEW x, Moves(pc, pc', c, x)
      PROVE  /\ x \in Occupying /\ pc[c] \notin Occupying => o2 = o + 1
             /\ x \notin Occupying /\ pc[c] \in Occupying => o2 = o - 1
             /\ x \in Occupying /\ pc[c] \in Occupying => o2 = o
             /\ x \notin Occupying /\ pc[c] \notin Occupying => o2 = o
  BY <1>6, OccupyMoves
<1>7. ASSUME Wakes(pc, pc') PROVE o2 = o
  <2>1. "asleep" \notin Occupying /\ "trying" \notin Occupying  BY DEF Occupying
  <2> QED BY <1>7, <2>1, WakesKeepsAt
<1>t. live \in Int /\ owed \in Int /\ h \in Int /\ o \in Int /\ m \in Int /\ n \in Int
  BY <1>1, <1>2, <1>3
<1>u. ASSUME reaper' = reaper PROVE m2 = m /\ n2 = n  BY <1>u
<1>v. ASSUME idle' = idle PROVE h2 = h  BY <1>v
<1> HIDE DEF h, h2, o, o2, m, m2, n, n2
<1>8. ASSUME NEW c \in Callers,
             Checkout(c) \/ TryGivesUp(c) \/ TrySleeps(c) \/ CtxExpires(c) \/ ReturnEnds(c)
      PROVE  Slack' = Slack
  <2>1. UNCHANGED <<idle, live, owed, reaper>>
    BY <1>8 DEF Checkout, TryGivesUp, TrySleeps, CtxExpires, ReturnEnds
  <2>2. PICK x \in CallerAt \ Occupying : Moves(pc, pc', c, x) /\ pc[c] \notin Occupying
    BY <1>8, CallerMoves DEF Trying, CallerAt, Occupying
  <2>3. o2 = o  BY <1>6, <2>2
  <2> QED BY <1>4, <1>5, <1>u, <1>v, <2>1, <2>3
<1>9. ASSUME NEW c \in Callers, TryPops(c) PROVE Slack' = Slack
  <2>1. idle # <<>> /\ idle' = Front(idle) /\ UNCHANGED <<live, owed, reaper>>  BY <1>9 DEF TryPops
  <2>2. h2 = h - 1  BY <1>1, <2>1, PopToSet DEF h, h2
  <2>3. Moves(pc, pc', c, "holding") /\ pc[c] \notin Occupying /\ "holding" \in Occupying
    BY <1>9, CallerMoves DEF Trying, Occupying
  <2>4. o2 = o + 1  BY <1>6, <2>3
  <2>5. live' = live /\ owed' = owed /\ m2 = m /\ n2 = n  BY <1>u, <2>1
  <2> QED BY <1>t, <1>4, <1>5, <2>2, <2>4, <2>5
<1>10. ASSUME NEW c \in Callers, TryReserves(c) PROVE Slack' = Slack
  <2>1. live' = live + 1 /\ UNCHANGED <<idle, owed, reaper>>  BY <1>10 DEF TryReserves
  <2>2. Moves(pc, pc', c, "creating") /\ pc[c] \notin Occupying /\ "creating" \in Occupying
    BY <1>10, CallerMoves DEF Trying, Occupying
  <2>3. o2 = o + 1  BY <1>6, <2>2
  <2>4. live' = live + 1 /\ owed' = owed /\ h2 = h /\ m2 = m /\ n2 = n  BY <1>u, <1>v, <2>1
  <2> QED BY <1>t, <1>4, <1>5, <2>3, <2>4
<1>11. ASSUME NEW c \in Callers, CreateSucceeds(c) \/ Return(c) \/ ReturnDecides(c)
       PROVE  Slack' = Slack
  <2>1. UNCHANGED <<idle, live, owed, reaper>>  BY <1>11 DEF CreateSucceeds, Return, ReturnDecides
  <2>2. PICK x \in Occupying : Moves(pc, pc', c, x) /\ pc[c] \in Occupying
    BY <1>11, CallerMoves DEF Occupying
  <2>3. o2 = o  BY <1>6, <2>2
  <2> QED BY <1>4, <1>5, <1>u, <1>v, <2>1, <2>3
<1>12. ASSUME NEW c \in Callers, CreateFails(c) \/ ReturnRecycles(c) PROVE Slack' = Slack
  <2>1. live' = live - 1 /\ UNCHANGED <<idle, owed, reaper>>  BY <1>12 DEF CreateFails, ReturnRecycles
  <2>2. PICK x \in CallerAt \ Occupying : Moves(pc, pc', c, x) /\ pc[c] \in Occupying
    BY <1>12, CallerMoves DEF CallerAt, Occupying
  <2>3. o2 = o - 1  BY <1>6, <2>2
  <2>4. live' = live - 1 /\ owed' = owed /\ h2 = h /\ m2 = m /\ n2 = n  BY <1>u, <1>v, <2>1
  <2> QED BY <1>t, <1>4, <1>5, <2>3, <2>4
<1>13. ASSUME NEW c \in Callers, ReturnRestacks(c) PROVE Slack' = Slack
  <2>1. idle' = Append(idle, lease[c]) /\ UNCHANGED <<live, owed, reaper>>  BY <1>13 DEF ReturnRestacks
  <2>2. h2 = h + 1
    <3>1. idle \in Seq(Instances \cup {None}) /\ lease[c] \in Instances \cup {None}
      BY <1>1, SeqMonotonic
    <3> QED BY <2>1, <3>1, AppendToSet DEF h, h2
  <2>3. Moves(pc, pc', c, "leaving") /\ pc[c] \in Occupying /\ "leaving" \notin Occupying
    BY <1>13, CallerMoves DEF Occupying
  <2>4. o2 = o - 1  BY <1>6, <2>3
  <2>5. live' = live /\ owed' = owed /\ m2 = m /\ n2 = n  BY <1>u, <2>1
  <2> QED BY <1>t, <1>4, <1>5, <2>2, <2>4, <2>5
<1>14. CASE ReapEvicts
  <2>1. PICK evicted \in SUBSET ToSet(idle) :
          LET left == live - Cardinality(evicted)
              need == IF left < MinInstances THEN MinInstances - left ELSE 0
          IN  /\ idle' = Without(idle, evicted) /\ live' = left + need
              /\ reaper' = [at |-> "closing", evicted |-> evicted, need |-> need, made |-> <<>>]
    BY <1>14 DEF ReapEvicts
  <2> DEFINE k == Cardinality(evicted)
             need == IF live - k < MinInstances THEN MinInstances - (live - k) ELSE 0
  <2>2. live' = (live - k) + need /\ n2 = need /\ reaper'.made = <<>>  BY <2>1 DEF n2
  <2>3. reaper.made = <<>> /\ n = 0 /\ owed' = owed /\ pc' = pc  BY <1>14 DEF ReapEvicts, Tidy, n
  <2>4. o2 = o  BY <2>3 DEF o, o2
  <2>5. IsFiniteSet(ToSet(idle)) /\ Cardinality(ToSet(idle)) = h
    BY <1>1, HeightIsSize DEF Unrepeated, h
  <2>6. IsFiniteSet(evicted) /\ k \in Nat
    <3>1. IsFiniteSet(evicted)  BY <2>5, FS_Subset
    <3> QED BY <3>1, FS_CardinalityType
  <2>7. h2 = h - k
    <3>1. idle' \in Seq(Instances) /\ ToSet(idle') = ToSet(idle) \ evicted /\ IsInjective(idle')
      BY <1>1, <2>1, WithoutToSet DEF Unrepeated
    <3>2. Cardinality(ToSet(idle')) = h2  BY <3>1, HeightIsSize DEF h2
    <3>3. Cardinality(ToSet(idle) \ evicted) = Cardinality(ToSet(idle)) - Cardinality(ToSet(idle) \cap evicted)
      BY <2>5, FS_Difference
    <3>4. ToSet(idle) \cap evicted = evicted  OBVIOUS
    <3> QED BY <2>5, <3>1, <3>2, <3>3, <3>4
  <2>8. need \in Nat  BY <1>1, <2>6, SizesAssumption
  <2> HIDE DEF k, need
  <2>9. m = 0 /\ m2 = 0  BY <1>2, <2>2, <2>3 DEF m, m2
  <2>10. n = 0 /\ owed' = owed  BY <2>3
  <2>11. live' = (live - k) + need /\ n2 = need  BY <2>2
  <2>12. Slack' = Slack  BY <1>t, <1>4, <1>5, <2>4, <2>6, <2>7, <2>8, <2>9, <2>10, <2>11
  <2> QED BY <2>12
<1>15. CASE ReapCloses
  <2>1. reaper'.made = reaper.made /\ n2 = n /\ UNCHANGED <<idle, live, owed, pc>>
    BY <1>15 DEF ReapCloses, n, n2
  <2>2. o2 = o /\ h2 = h /\ m2 = m  BY <2>1 DEF o, o2, h, h2, m, m2
  <2> QED BY <1>4, <1>5, <2>1, <2>2
<1>16. CASE RefillCreates
  <2>1. /\ reaper'.made = Append(reaper.made, Fresh) /\ n2 = n - 1 /\ Referenced # Instances
        /\ UNCHANGED <<idle, live, owed, pc>>
    BY <1>16 DEF RefillCreates, CreateInstance, n, n2
  <2>2. m2 = m + 1  BY <1>1, <2>1, FreshIsNew, AppendToSet DEF m, m2
  <2>3. o2 = o  BY <2>1 DEF o, o2
  <2>4. h2 = h /\ live' = live /\ owed' = owed /\ n2 = n - 1  BY <1>v, <2>1
  <2>5. Slack' = Slack  BY <1>t, <1>4, <1>5, <2>2, <2>3, <2>4
  <2> QED BY <2>5
<1>17. CASE RefillFails
  <2>1. reaper'.made = reaper.made /\ n2 = 0 /\ live' = live - n /\ UNCHANGED <<idle, owed, pc>>
    BY <1>17 DEF RefillFails, n, n2
  <2>2. o2 = o /\ h2 = h /\ m2 = m  BY <2>1 DEF o, o2, h, h2, m, m2
  <2>3. live' = live - n /\ owed' = owed /\ n2 = 0  BY <2>1
  <2>4. Slack' = Slack  BY <1>t, <1>4, <1>5, <2>2, <2>3
  <2> QED BY <2>4
<1>18. CASE RefillEnds
  <2>1. /\ idle' = idle \o reaper.made /\ reaper'.made = <<>> /\ n2 = 0 /\ UNCHANGED <<live, owed>>
        /\ n = 0 \/ closed
    BY <1>18 DEF RefillEnds, Resting, n, n2
  <2>2. o2 = o  BY <1>7, <1>18, OthersWake DEF Reaper
  <2>3. h2 = h + m /\ m2 = 0  BY <1>1, <1>2, <2>1, ConcatToSet DEF h, h2, m, m2
  <2>8. live' = live /\ owed' = owed /\ n2 = 0 /\ n \in Nat  BY <1>1, <2>1 DEF n
  <2>4. Slack' = Slack + n  BY <1>t, <1>4, <1>5, <2>2, <2>3, <2>8
  <2>5. Slack \in Int  BY <1>t, <1>4
  <2>6. n = 0 => Slack' = Slack  BY <2>4, <2>5
  <2>7. Slack' >= Slack  BY <2>4, <2>5, <2>8
  <2> QED BY <2>1, <2>6, <2>7
<1>19. CASE StartBegins \/ StartCreates
  <2>1. UNCHANGED <<idle, live, owed, pc, reaper>>  BY <1>19 DEF StartBegins, StartCreates
  <2> QED BY <1>4, <1>5, <1>u, <1>v, <2>1 DEF o, o2
<1>20. CASE StartFails
  <2>1. /\ live' = live - Len(starter.made) /\ owed' = owed + Len(starter.made)
        /\ UNCHANGED <<idle, pc, reaper>>
    BY <1>20 DEF StartFails
  <2> DEFINE k == Len(starter.made)
  <2>2. o2 = o /\ h2 = h /\ m2 = m /\ n2 = n  BY <1>u, <1>v, <2>1 DEF o, o2
  <2>3. k \in Int /\ live' = live - k /\ owed' = owed + k  BY <1>2, <2>1
  <2> HIDE DEF k
  <2>4. Slack' = Slack  BY <1>t, <1>4, <1>5, <2>2, <2>3
  <2> QED BY <2>4
<1>21. CASE StartEnds
  <2>1. /\ idle' = idle \o starter.made /\ live' = live + Len(starter.made)
        /\ UNCHANGED <<owed, pc, reaper>>
    BY <1>21 DEF StartEnds
  <2> DEFINE k == Len(starter.made)
  <2>2. o2 = o /\ m2 = m /\ n2 = n /\ owed' = owed  BY <1>u, <2>1 DEF o, o2
  <2>3. h2 = h + k  BY <1>1, <2>1, ConcatToSet DEF h, h2
  <2>4. k \in Int /\ live' = live + k  BY <1>2, <2>1
  <2> HIDE DEF k
  <2>5. Slack' = Slack  BY <1>t, <1>4, <1>5, <2>2, <2>3, <2>4
  <2> QED BY <2>5
<1>22. CASE CloseStopsReaper
  <2>1. UNCHANGED <<idle, live, owed>> /\ reaper'.made = reaper.made /\ n2 = n
    BY <1>22 DEF CloseStopsReaper, Tidy, n, n2
  <2>2. o2 = o  BY <1>7, <1>22, OthersWake DEF Closer
  <2>3. h2 = h /\ m2 = m  BY <2>1 DEF h, h2, m, m2
  <2> QED BY <1>4, <1>5, <2>1, <2>2, <2>3
<1>23. CASE CloseBegins \/ CloseChecks \/ CloseArms \/ CloseDrained \/ CloseGivesUp
  <2>1. UNCHANGED <<idle, live, owed, pc, reaper>>
    BY <1>23 DEF CloseBegins, CloseChecks, CloseArms, CloseDrained, CloseGivesUp
  <2> QED BY <1>4, <1>5, <1>u, <1>v, <2>1 DEF o, o2
<1>24. ASSUME NEW i \in Instances, MarkUnusable(i) PROVE Slack' = Slack
  <2>1. UNCHANGED <<idle, live, owed, pc, reaper>>  BY <1>24 DEF MarkUnusable
  <2> QED BY <1>4, <1>5, <1>u, <1>v, <2>1 DEF o, o2
<1>25. CASE CloseDrains  BY <1>25 DEF CloseDrains
<1> QED
  BY <1>8, <1>9, <1>10, <1>11, <1>12, <1>13, <1>14, <1>15, <1>16, <1>17, <1>18, <1>19, <1>20,
     <1>21, <1>22, <1>23, <1>24, <1>25 DEF Next, Caller, Goes, Reaper, Starter, Closer

\* No step takes live beyond MaxInstances.
LEMMA LiveStep ==
    ASSUME TypeOK, Warm, Next, live <= MaxInstances
    PROVE  live' <= MaxInstances
<1> USE DEF poolVars
<1>0. live \in Int /\ reaper.need \in Nat  BY DEF TypeOK
<1>n. MaxInstances \in Nat /\ MinInstances \in Nat /\ MinInstances <= MaxInstances  BY SizesAssumption
<1>1. ASSUME NEW c \in Callers, TryReserves(c) PROVE live' <= MaxInstances
  <2>1. live < MaxInstances /\ live' = live + 1  BY <1>1 DEF TryReserves
  <2> QED BY <1>0, <1>n, <2>1
<1>2. ASSUME NEW c \in Callers, CreateFails(c) \/ ReturnRecycles(c) PROVE live' <= MaxInstances
  <2>1. live' = live - 1  BY <1>2 DEF CreateFails, ReturnRecycles
  <2> QED BY <1>0, <1>n, <2>1
<1>3. CASE ReapEvicts
  <2>1. PICK evicted \in SUBSET ToSet(idle) :
          LET left == live - Cardinality(evicted)
              need == IF left < MinInstances THEN MinInstances - left ELSE 0
          IN  live' = left + need
    BY <1>3 DEF ReapEvicts
  <2> DEFINE k == Cardinality(evicted)
  <2>2. k \in Nat
    <3>1. IsFiniteSet(ToSet(idle))  BY HeightIsSize DEF TypeOK
    <3>2. IsFiniteSet(evicted)  BY <3>1, FS_Subset
    <3> QED BY <3>2, FS_CardinalityType
  <2>3. live' = (live - k) + (IF live - k < MinInstances THEN MinInstances - (live - k) ELSE 0)  BY <2>1
  <2> HIDE DEF k
  <2> QED BY <1>0, <1>n, <2>2, <2>3
<1>4. CASE RefillFails
  <2>1. live' = live - reaper.need  BY <1>4 DEF RefillFails
  <2> QED BY <1>0, <1>n, <2>1
<1>5. CASE StartFails
  <2>1. live' = live - Len(starter.made)  BY <1>5 DEF StartFails
  <2>2. Len(starter.made) \in Nat  BY LenProperties DEF TypeOK
  <2> QED BY <1>0, <1>n, <2>1, <2>2
<1>6. CASE StartEnds
  <2>1. live' = live + Len(starter.made) /\ starter.at = "warming" /\ Len(starter.made) = starter.need
    BY <1>6 DEF StartEnds
  <2>2. live = 0 /\ starter.need = MinInstances  BY <2>1 DEF Warm
  <2> QED BY <1>n, <2>1, <2>2
<1>7. CASE CloseDrains
  <2>1. live' = 0  BY <1>7 DEF CloseDrains
  <2> QED BY <1>n, <2>1
<1>8. ASSUME NEW c \in Callers, Caller(c), ~ TryReserves(c), ~ CreateFails(c), ~ ReturnRecycles(c)
      PROVE  live' = live
  BY <1>8 DEF Caller, Goes, Checkout, TryGivesUp, TryPops, TrySleeps, CreateSucceeds, CtxExpires,
              Return, ReturnDecides, ReturnRestacks, ReturnEnds
<1>10. ASSUME NEW i \in Instances, MarkUnusable(i) PROVE live' = live  BY <1>10 DEF MarkUnusable
<1>9. ASSUME (Reaper /\ ~ ReapEvicts /\ ~ RefillFails) \/ (Starter /\ ~ StartFails /\ ~ StartEnds)
             \/ (Closer /\ ~ CloseDrains)
      PROVE  live' = live
  BY <1>9 DEF Reaper, ReapCloses, RefillCreates, RefillEnds, Starter, StartBegins, StartCreates,
              Closer, CloseBegins, CloseStopsReaper, CloseChecks, CloseArms, CloseDrained, CloseGivesUp
<1> QED
  BY <1>1, <1>2, <1>3, <1>4, <1>5, <1>6, <1>7, <1>8, <1>9, <1>10 DEF Next

\* A closed pool stays closed.
LEMMA ClosedStays ==
    ASSUME closed, Next
    PROVE  closed'
BY DEF Next, Caller, Goes, Checkout, TryGivesUp, TryPops, TryReserves, TrySleeps,
       CreateSucceeds, CreateFails, CtxExpires, MarkUnusable, Return, ReturnDecides, ReturnRecycles,
       ReturnRestacks, ReturnEnds, Reaper, ReapEvicts, ReapCloses, RefillCreates, RefillFails,
       RefillEnds, Starter, StartBegins, StartCreates, StartFails, StartEnds,
       Closer, CloseBegins, CloseStopsReaper, CloseChecks, CloseArms, CloseDrained,
       CloseGivesUp, CloseDrains, poolVars

\* Every step keeps the count.
LEMMA CountedStep ==
    ASSUME BaseInv, PlaceInv, Warm, Counted, Next
    PROVE  Counted'
<1>0. TypeOK /\ Tidy /\ Unrepeated  BY DEF BaseInv, PlaceInv
<1>1. IsFiniteSet(reaper'.evicted)  BY <1>0, EvictedFinite DEF Counted
<1>2. closed => closed'  BY ClosedStays
<1>3. closer = "closed" => closer' = "closed"
  BY DEF Next, Caller, Goes, Checkout, TryGivesUp, TryPops, TryReserves, TrySleeps,
       CreateSucceeds, CreateFails, CtxExpires, MarkUnusable, Return, ReturnDecides, ReturnRecycles,
       ReturnRestacks, ReturnEnds, Reaper, ReapEvicts, ReapCloses, RefillCreates, RefillFails,
       RefillEnds, Starter, StartBegins, StartCreates, StartFails, StartEnds,
       Closer, CloseBegins, CloseStopsReaper, CloseChecks, CloseArms, CloseDrained,
       CloseGivesUp, CloseDrains, poolVars
<1>4. Slack \in Int /\ Slack' \in Int
  <2>1. /\ live \in Int /\ owed \in Nat /\ Len(idle) \in Nat /\ Len(reaper.made) \in Nat /\ reaper.need \in Nat
    BY <1>0, LenProperties DEF TypeOK
  <2>2. TypeOK'  BY TypeStep DEF BaseInv
  <2>3. /\ live' \in Int /\ owed' \in Nat /\ reaper'.need \in Nat
        /\ idle' \in Seq(Instances) /\ reaper'.made \in Seq(Instances)
    BY <2>2 DEF TypeOK
  <2>4. Len(idle') \in Nat /\ Len(reaper'.made) \in Nat  BY <2>3, LenProperties
  <2> DEFINE C == {c \in Callers : Holding(c) \/ pc[c] \in {"creating", "recycling"}}
  <2>5. C = At(pc, Occupying) /\ C' = At(pc', Occupying)  BY DEF At, Occupying, Holding
  <2>6. Cardinality(C) \in Nat /\ Cardinality(C') \in Nat  BY <2>5, AtFinite
  <2>7. Slack = live + owed - (Len(idle) + Cardinality(C) + Len(reaper.made) + reaper.need)
    BY DEF Slack, Slots
  <2>8. Slack' = live' + owed' - (Len(idle') + Cardinality(C') + Len(reaper'.made) + reaper'.need)
    BY DEF Slack, Slots
  <2> HIDE DEF C
  <2>9. Slack \in Int  BY <2>1, <2>6, <2>7
  <2>10. Slack' \in Int  BY <2>3, <2>4, <2>6, <2>8
  <2> QED BY <2>9, <2>10
<1>5. ASSUME closer' # "closed" PROVE Slack' >= 0 /\ live' <= MaxInstances
  <2>1. Slack >= 0 /\ live <= MaxInstances  BY <1>3, <1>5 DEF Counted
  <2>2. live' <= MaxInstances  BY <1>0, <2>1, LiveStep
  <2>3. Slack' = Slack \/ Slack' >= Slack  BY <1>0, <1>5, SlackStep
  <2>4. Slack' >= 0  BY <1>4, <2>1, <2>3
  <2> QED BY <2>2, <2>4
<1>6. ASSUME closer' # "closed", ~ closed' PROVE Slack' = 0
  <2>1. ~ closed /\ closer # "closed"  BY <1>2, <1>3, <1>6
  <2>2. Slack = 0  BY <2>1 DEF Counted
  <2>3. Slack' = Slack  BY <1>0, <1>6, <2>1, SlackStep
  <2> QED BY <2>2, <2>3
<1> QED BY <1>1, <1>5, <1>6 DEF Counted

\* A union is no larger than the sum of its parts.
LEMMA UnionBound ==
    ASSUME NEW A, NEW B, IsFiniteSet(A), IsFiniteSet(B)
    PROVE  IsFiniteSet(A \cup B) /\ Cardinality(A \cup B) <= Cardinality(A) + Cardinality(B)
<1>1. IsFiniteSet(A \cup B)
      /\ Cardinality(A \cup B) = Cardinality(A) + Cardinality(B) - Cardinality(A \cap B)
  BY FS_Union
<1>2. A \cap B \subseteq A  OBVIOUS
<1>3. IsFiniteSet(A \cap B)  BY <1>2, FS_Subset
<1>4. Cardinality(A \cap B) \in Nat /\ Cardinality(A) \in Nat /\ Cardinality(B) \in Nat
  BY <1>3, FS_CardinalityType
<1> QED BY <1>1, <1>4

\* There are no more leased instances than callers that hold one.
LEMMA LeasedBound ==
    ASSUME TypeOK, Holders
    PROVE  IsFiniteSet(Leased) /\ Cardinality(Leased) <= Cardinality(At(pc, Occupying))
<1> DEFINE H == At(pc, Handling)
           f == [c \in H |-> lease[c]]
<1>1. IsFiniteSet(H) /\ IsFiniteSet(At(pc, Occupying)) /\ H \subseteq Callers
      /\ Cardinality(H) \in Nat /\ Cardinality(At(pc, Occupying)) \in Nat
  BY AtFinite DEF At
<1>2. H \subseteq At(pc, Occupying)  BY DEF At, Handling, Occupying
<1>3. Cardinality(H) <= Cardinality(At(pc, Occupying))  BY <1>1, <1>2, FS_Subset
<1>4. \A c \in Callers : c \in H <=> lease[c] # None  BY DEF Holders, Holding, At, Handling
<1>5. Leased = {lease[c] : c \in H}  BY <1>1, <1>4 DEF Leased
<1> HIDE DEF H
<1>6. f \in Surjection(H, Leased)  BY <1>5 DEF Surjection
<1>7. IsFiniteSet(Leased) /\ Cardinality(Leased) <= Cardinality(H)  BY <1>1, <1>6, FS_Surjection
<1>8. Cardinality(Leased) \in Nat  BY <1>7, FS_CardinalityType
<1> QED BY <1>1, <1>3, <1>7, <1>8

\* The open modules are at most the slots in use, plus what was evicted or pre-warmed.
LEMMA OpenBound ==
    ASSUME BaseInv, PlaceInv, IsFiniteSet(reaper.evicted)
    PROVE  /\ IsFiniteSet(open)
           /\ Cardinality(open) <= Slots + Cardinality(reaper.evicted) + Len(starter.made)
<1>0. TypeOK /\ Holders /\ Unrepeated /\ Places  BY DEF BaseInv, PlaceInv
<1> DEFINE I == ToSet(idle)
           R == ToSet(reaper.made)
           S == ToSet(starter.made)
           L == Leased
           E == reaper.evicted
           a == Len(idle)
           b == Len(reaper.made)
           d == Len(starter.made)
           e == Cardinality(E)
           o == Cardinality(At(pc, Occupying))
           n == reaper.need
<1>1. /\ IsFiniteSet(I) /\ Cardinality(I) = a
      /\ IsFiniteSet(R) /\ Cardinality(R) = b
      /\ IsFiniteSet(S) /\ Cardinality(S) = d
  BY <1>0, HeightIsSize DEF TypeOK, Unrepeated
<1>2. IsFiniteSet(L) /\ Cardinality(L) <= o  BY <1>0, LeasedBound
<1>3. a \in Nat /\ b \in Nat /\ d \in Nat /\ e \in Nat /\ o \in Nat /\ n \in Nat /\ Cardinality(L) \in Nat
  BY <1>0, <1>1, <1>2, AtFinite, FS_CardinalityType DEF TypeOK
<1>4. open \subseteq (I \cup R) \cup ((S \cup L) \cup E)  BY <1>0 DEF Places, Apart
<1>5. Slots = a + o + b + n  BY SlotsAre
<1> HIDE DEF I, R, S, L, E, a, b, d, o, n
<1>6. IsFiniteSet(I \cup R) /\ Cardinality(I \cup R) <= a + b
  <2>1. IsFiniteSet(I \cup R) /\ Cardinality(I \cup R) <= Cardinality(I) + Cardinality(R)
    BY <1>1, UnionBound
  <2> QED BY <1>1, <2>1
<1>7. IsFiniteSet(S \cup L) /\ Cardinality(S \cup L) <= Cardinality(S) + Cardinality(L)
  BY <1>1, <1>2, UnionBound
<1>8. IsFiniteSet((S \cup L) \cup E) /\ Cardinality((S \cup L) \cup E) <= Cardinality(S \cup L) + e
  <2>1. IsFiniteSet(E)  BY DEF E
  <2> QED BY <1>7, <2>1, UnionBound
<1> DEFINE A == I \cup R
           B == (S \cup L) \cup E
<1>9. IsFiniteSet(A \cup B) /\ Cardinality(A \cup B) <= Cardinality(A) + Cardinality(B)
  BY <1>6, <1>8, UnionBound
<1>10. IsFiniteSet(open) /\ Cardinality(open) <= Cardinality(A \cup B)  BY <1>4, <1>9, FS_Subset
<1>11. /\ Cardinality(open) \in Nat /\ Cardinality(A \cup B) \in Nat /\ Cardinality(A) \in Nat
       /\ Cardinality(B) \in Nat /\ Cardinality(S \cup L) \in Nat
  BY <1>6, <1>7, <1>8, <1>9, <1>10, FS_CardinalityType
<1>12. Cardinality(A) <= a + b /\ Cardinality(B) <= Cardinality(S \cup L) + e
       /\ Cardinality(S \cup L) <= d + Cardinality(L)
  BY <1>1, <1>6, <1>7, <1>8
<1> HIDE DEF A, B, e
<1>13. Cardinality(open) <= (a + o + b + n) + e + d  BY <1>2, <1>3, <1>9, <1>10, <1>11, <1>12
<1> QED BY <1>5, <1>10, <1>13 DEF e, E, d

-----------------------------------------------------------------------------
(* Nobody sleeps while there is something to take.                         *)

\* Every step that stacks an instance, or takes the last alert caller away, wakes somebody.
LEMMA AwakeStep ==
    ASSUME BaseInv, Warm, Awake, Next
    PROVE  Awake'
<1> USE DEF poolVars, callVars
<1>0. TypeOK  BY DEF BaseInv
<1>p. pc \in [Callers -> CallerAt]  BY <1>0 DEF TypeOK
<1> SUFFICES ASSUME NEW d \in Callers, pc'[d] = "asleep", ~ closed', idle' # <<>>
             PROVE  \E e \in Callers : pc'[e] \in Alert
  BY DEF Awake
<1>1. ~ closed  BY ClosedStays
<1>2. ASSUME pc[d] = "asleep", idle # <<>> PROVE \E e \in Callers : pc[e] \in Alert
  BY <1>1, <1>2 DEF Awake
<1>3. ASSUME NEW c \in Callers, NEW x \in Alert, Moves(pc, pc', c, x)
      PROVE  \E e \in Callers : pc'[e] \in Alert
  BY <1>3 DEF Moves
<1>4. ASSUME NEW c \in Callers,
             Checkout(c) \/ TryPops(c) \/ CreateSucceeds(c) \/ CtxExpires(c) \/ Return(c) \/ ReturnDecides(c)
      PROVE  \E e \in Callers : pc'[e] \in Alert
  <2>1. \E x \in Alert : Moves(pc, pc', c, x)  BY <1>0, <1>4, CallerMoves DEF Alert
  <2> QED BY <1>3, <2>1
<1>5. ASSUME NEW c \in Callers, TryGivesUp(c) \/ TryReserves(c) \/ TrySleeps(c) PROVE FALSE
  BY <1>1, <1>5 DEF TryGivesUp, TryReserves, TrySleeps
<1>6. ASSUME NEW c \in Callers, CreateFails(c) \/ ReturnEnds(c) PROVE \E e \in Callers : pc'[e] \in Alert
  <2>1. Moves(pc, pc', c, "out") /\ pc[c] \notin Alert  BY <1>0, <1>6, CallerMoves DEF Alert
  <2>2. idle' = idle  BY <1>6 DEF CreateFails, ReturnEnds
  <2>3. pc[d] = "asleep"  BY <2>1 DEF Moves
  <2>4. PICK e \in Callers : pc[e] \in Alert  BY <1>2, <2>2, <2>3
  <2>5. pc'[e] = pc[e]  BY <2>1, <2>4 DEF Moves, Alert
  <2> QED BY <2>4, <2>5
<1>7. ASSUME NEW c \in Callers, ReturnRecycles(c) PROVE FALSE
  <2>1. pc' = Broadcast([pc EXCEPT ![c] = "leaving"])  BY <1>7 DEF ReturnRecycles
  <2>2. [pc EXCEPT ![c] = "leaving"] \in [Callers -> CallerAt]  BY <1>p DEF CallerAt
  <2> QED BY <2>1, <2>2, BroadcastWakes
<1>8. ASSUME NEW c \in Callers, ReturnRestacks(c) PROVE \E e \in Callers : pc'[e] \in Alert
  <2> DEFINE q == [pc EXCEPT ![c] = "leaving"]
  <2>1. pc' \in Signal(q)  BY <1>8 DEF ReturnRestacks
  <2>2. q \in [Callers -> CallerAt]  BY <1>p DEF CallerAt
  <2>3. Wakes(q, pc') /\ ((\E e \in Callers : q[e] = "asleep") => \E e \in Callers : pc'[e] = "trying")
    BY <2>1, <2>2, SignalWakes
  <2>4. q[d] = "asleep"  BY <2>3 DEF Wakes
  <2> QED BY <2>3, <2>4 DEF Alert
<1>9. ASSUME NEW i \in Instances, MarkUnusable(i) PROVE \E e \in Callers : pc'[e] \in Alert
  BY <1>2, <1>9 DEF MarkUnusable
<1>10. ASSUME Reaper \/ Starter \/ Closer, idle # <<>> PROVE \E e \in Callers : pc'[e] \in Alert
  <2>1. Wakes(pc, pc')  BY <1>0, <1>10, OthersWake
  <2>2. pc[d] = "asleep"  BY <2>1 DEF Wakes
  <2>3. PICK e \in Callers : pc[e] \in Alert  BY <1>2, <1>10, <2>2
  <2>4. pc'[e] = pc[e]  BY <2>1, <2>3 DEF Wakes, Alert
  <2> QED BY <2>3, <2>4
<1>11. ASSUME ReapEvicts, idle = <<>> PROVE FALSE
  <2>1. PICK evicted : idle' = Without(idle, evicted)  BY <1>11 DEF ReapEvicts
  <2>2. idle \in Seq(Instances)  BY <1>0 DEF TypeOK
  <2>3. idle' \in Seq(Instances) /\ ToSet(idle') = ToSet(idle) \ evicted  BY <2>1, <2>2, WithoutToSet
  <2>4. ToSet(idle) = {}  BY <1>11 DEF ToSet
  <2> DEFINE t == idle'
  <2>5. t \in Seq(Instances) /\ t # <<>>  BY <2>3
  <2> HIDE DEF t
  <2>6. ToSet(t) = ToSet(Front(t)) \cup {Last(t)}  BY <2>5, PopToSet
  <2>7. ToSet(t) # {}  BY <2>6
  <2> QED BY <2>3, <2>4, <2>7 DEF t
<1>12. ASSUME RefillEnds, idle = <<>> PROVE FALSE
  <2>1. CASE reaper.made = <<>>
    <3>1. idle' = <<>> \o <<>>  BY <1>12, <2>1 DEF RefillEnds
    <3>2. idle' = <<>>
      <4>1. <<>> \in Seq(Instances)  BY EmptySeq
      <4> QED BY <3>1, <4>1, ConcatEmptySeq
    <3> QED BY <3>2
  <2>2. CASE reaper.made # <<>>
    <3>1. pc' = Broadcast(pc)  BY <1>12, <2>2 DEF RefillEnds
    <3> QED BY <1>p, <3>1, BroadcastWakes
  <2> QED BY <2>1, <2>2
<1>13. ASSUME StartEnds PROVE FALSE
  <2>1. pc' = pc /\ starter.at # "finished"  BY <1>13 DEF StartEnds
  <2> QED BY <2>1 DEF Warm
<1>14. ASSUME ReapCloses \/ RefillCreates \/ RefillFails \/ StartBegins \/ StartCreates \/ StartFails
              \/ Closer, idle = <<>>
       PROVE  FALSE
  BY <1>14 DEF ReapCloses, RefillCreates, RefillFails, StartBegins, StartCreates, StartFails,
       Closer, CloseBegins, CloseStopsReaper, CloseChecks, CloseArms, CloseDrained,
       CloseGivesUp, CloseDrains
<1> QED
  BY <1>4, <1>5, <1>6, <1>7, <1>8, <1>9, <1>10, <1>11, <1>12, <1>13, <1>14
  DEF Next, Caller, Goes, Reaper, Starter

-----------------------------------------------------------------------------
(* The two theorems about pools that are warmed before they serve.         *)

PoolInv == BaseInv /\ PlaceInv /\ (WarmFirst => Warm /\ Counted /\ Awake)

\* The whole invariant holds at first.
LEMMA PoolInit == Init => PoolInv
<1> SUFFICES ASSUME Init PROVE PoolInv  OBVIOUS
<1>1. Warm /\ Awake  BY DEF Init, Warm, Awake, Resting
<1>2. Counted
  <2>1. At(pc, Occupying) = {}  BY DEF Init, At, Occupying
  <2>2. Cardinality(At(pc, Occupying)) = 0 /\ IsFiniteSet({})  BY <2>1, FS_EmptySet
  <2>3. Len(idle) = 0 /\ Len(reaper.made) = 0 /\ reaper.need = 0 /\ reaper.evicted = {}
        /\ live = 0 /\ owed = 0
    BY DEF Init, Resting
  <2>4. Slots = 0  BY <2>2, <2>3, SlotsAre
  <2>5. Slack = 0 /\ live <= MaxInstances  BY <2>3, <2>4, SizesAssumption DEF Slack
  <2> QED BY <2>2, <2>3, <2>5 DEF Counted
<1> QED BY <1>1, <1>2, BaseInit, PlaceInit DEF PoolInv

\* It is inductive.
LEMMA PoolStep == PoolInv /\ [Next]_vars => PoolInv'
<1> SUFFICES ASSUME PoolInv, [Next]_vars PROVE PoolInv'  OBVIOUS
<1>1. BaseInv' /\ PlaceInv'  BY BaseStep, PlaceKept DEF PoolInv
<1>2. CASE Next /\ WarmFirst
  BY <1>1, <1>2, WarmStep, CountedStep, AwakeStep DEF PoolInv
<1>3. CASE UNCHANGED vars /\ WarmFirst
  <2>1. Warm /\ Counted /\ Awake  BY <1>3 DEF PoolInv
  <2>2. /\ UNCHANGED <<idle, live, outstanding, closed, done, open, uses, trapped, pc, lease>>
        /\ UNCHANGED <<reaper, starter, closer, faults, owed, belated>>
    BY <1>3 DEF vars, poolVars, instVars, callVars
  <2>3. Warm' /\ Awake'  BY <2>1, <2>2 DEF Warm, Awake
  <2>4. Slots' = Slots  BY <2>2 DEF Slots, Holding
  <2>5. Slack' = Slack  BY <2>2, <2>4 DEF Slack
  <2>6. Counted'  BY <2>1, <2>2, <2>5 DEF Counted
  <2> QED BY <1>1, <2>3, <2>6 DEF PoolInv
<1> QED BY <1>1, <1>2, <1>3 DEF PoolInv

\* With the bound on open modules it gives the cap.
LEMMA CapHolds == PoolInv /\ WarmFirst => CapRespected
<1> SUFFICES ASSUME PoolInv, WarmFirst, closer # "closed"
             PROVE  /\ live + owed = Slots \/ (closed /\ live + owed >= Slots)
                    /\ live <= MaxInstances /\ AtMostMaxOpen
  BY DEF CapRespected
<1>1. BaseInv /\ PlaceInv /\ Counted  BY DEF PoolInv
<1>2. TypeOK  BY <1>1 DEF BaseInv
<1>3. live \in Int /\ owed \in Nat  BY <1>2 DEF TypeOK
<1>4. Slots \in Nat
  <2>1. Len(idle) \in Nat /\ Len(reaper.made) \in Nat /\ reaper.need \in Nat
    BY <1>2, LenProperties DEF TypeOK
  <2>2. Cardinality(At(pc, Occupying)) \in Nat  BY AtFinite
  <2> QED BY <2>1, <2>2, SlotsAre
<1>5. Slack >= 0 /\ live <= MaxInstances /\ (~ closed => Slack = 0)  BY <1>1 DEF Counted
<1>6. live + owed >= Slots  BY <1>3, <1>4, <1>5 DEF Slack
<1>7. Slack = 0 => live + owed = Slots  BY <1>3, <1>4 DEF Slack
<1>8. live + owed = Slots \/ (closed /\ live + owed >= Slots)  BY <1>5, <1>6, <1>7
<1>9. AtMostMaxOpen
  <2> DEFINE w == Cardinality(open)
             e == Cardinality(reaper.evicted)
             d == Len(starter.made)
  <2>1. IsFiniteSet(reaper.evicted)  BY <1>1 DEF Counted
  <2>2. IsFiniteSet(open) /\ w <= Slots + e + d  BY <1>1, <2>1, OpenBound
  <2>3. w \in Nat /\ e \in Nat /\ d \in Nat
    BY <1>2, <2>1, <2>2, FS_CardinalityType, LenProperties DEF TypeOK
  <2>4. MaxInstances \in Nat  BY SizesAssumption
  <2> HIDE DEF w, e, d
  <2>5. w <= MaxInstances + owed + e + d  BY <1>3, <1>4, <1>5, <1>6, <2>2, <2>3, <2>4
  <2> QED BY <2>5 DEF AtMostMaxOpen, w, e, d
<1> QED BY <1>5, <1>8, <1>9

\* A sleeper that nobody is about to wake would face an empty pool that counts nothing.
LEMMA StrandingHolds == PoolInv /\ WarmFirst => NoStranding
<1> SUFFICES ASSUME PoolInv, WarmFirst, ~ closed,
                    NEW s \in Callers, pc[s] = "asleep",
                    \A c \in Callers : pc[c] \in {"out", "asleep", "leaving"},
                    reaper.at \notin {"closing", "refilling"}
             PROVE  live < MinInstances
  BY DEF NoStranding
<1>1. BaseInv /\ Counted /\ Awake  BY DEF PoolInv
<1>2. TypeOK /\ Tidy  BY <1>1 DEF BaseInv
<1>3. idle = <<>>  BY <1>1 DEF Awake, Alert
<1>4. reaper.need = 0 /\ reaper.made = <<>>  BY <1>2 DEF Tidy, TypeOK
<1>5. closer # "closed"  BY <1>2 DEF Tidy
<1>6. At(pc, Occupying) = {}  BY DEF At, Occupying
<1>7. Cardinality(At(pc, Occupying)) = 0  BY <1>6, FS_EmptySet
<1>8. Len(idle) = 0 /\ Len(reaper.made) = 0  BY <1>3, <1>4, EmptySeq
<1>9. Slots = 0  BY <1>4, <1>7, <1>8, SlotsAre
<1>10. Slack = 0  BY <1>1, <1>5 DEF Counted
<1>11. live \in Int /\ owed \in Nat /\ MinInstances \in Nat \ {0}
  BY <1>2, SizesAssumption DEF TypeOK
<1>12. live + owed = 0  BY <1>9, <1>10, <1>11 DEF Slack
<1> QED BY <1>11, <1>12

\* A pool that is warmed before it serves keeps its count and its cap: while Checkouts
\* reserve, fill and give back slots outside the lock, the reaper evicts and refills and
\* Close cuts in, live is the number of slots, no more than MaxInstances, and so are the
\* open modules; all of it up to what a failed Start took off live.
THEOREM CapIsRespected == Spec => [](WarmFirst => CapRespected)
<1>1. PoolInv => (WarmFirst => CapRespected)  BY CapHolds
<1> QED BY <1>1, PoolInit, PoolStep, PTL DEF Spec

\* In a warmed pool no Checkout sleeps on with nobody at work to wake it and no refill due,
\* for any sizes NewPool lets through (it turns MinInstances 0 into 1), although a failed
\* creation gives its slot back without a signal.
THEOREM NobodyIsStranded == Spec => [](WarmFirst => NoStranding)
<1>1. PoolInv => (WarmFirst => NoStranding)  BY StrandingHolds
<1> QED BY <1>1, PoolInit, PoolStep, PTL DEF Spec
=============================================================================
