------------------------------ MODULE ListProofs ------------------------------
(***************************************************************************)
(* Facts that the proofs about natsie's components share: about natural    *)
(* numbers, about loops over a slice, and about sums over finite sets.     *)
(* The provers have no induction over data, so every induction is one on   *)
(* the least counterexample.                                               *)
(***************************************************************************)
EXTENDS Lists, Integers, SequencesExt, FiniteSetTheorems, WellFoundedInduction, TLAPS

(* A non-empty set of natural numbers has a least one.                      *)
LEMMA LeastNat ==
  ASSUME NEW S \in SUBSET Nat, S # {}
  PROVE  \E n \in S : \A k \in S : n <= k
<1> DEFINE R == {p \in Nat \X Nat : p[1] < p[2]}
<1>1. R = OpToRel(<, Nat)
  BY DEF OpToRel
<1>2. IsWellFoundedOn(R, Nat)
  BY <1>1, NatLessThanWellFounded, Zenon
<1>3. PICK n \in S : \A k \in S : ~(<<k, n>> \in R)
  BY <1>2, WFMin, Zenon
<1>4. \A k \in S : ~(k < n)
  BY <1>3
<1> QED BY <1>4

(* Min and Max of some of the numbers up to a bound.                        *)
LEMMA Extremes ==
  ASSUME NEW n \in Nat, NEW S \in SUBSET (1 .. n), S # {}
  PROVE  /\ Min(S) \in S /\ \A k \in S : Min(S) <= k
         /\ Max(S) \in S /\ \A k \in S : k <= Max(S)
<1>1. S \in SUBSET Nat
  OBVIOUS
<1>2. PICK a \in S : \A k \in S : a <= k
  BY <1>1, LeastNat
<1> DEFINE T == {n - k : k \in S}
<1>3. T \in SUBSET Nat /\ T # {}
  OBVIOUS
<1>4. PICK d \in T : \A k \in T : d <= k
  <2> HIDE DEF T
  <2> QED BY <1>3, LeastNat
<1>5. PICK b \in S : d = n - b
  OBVIOUS
<1>6. \A k \in S : b >= k
  <2> TAKE k \in S
  <2>1. n - k \in T
    OBVIOUS
  <2> HIDE DEF T
  <2>2. n - b <= n - k
    BY <1>4, <1>5, <2>1
  <2>3. b \in Nat /\ k \in Nat
    BY <1>1
  <2> QED BY <2>2, <2>3
<1>7. Min(S) \in S /\ \A k \in S : Min(S) <= k
  BY <1>2 DEF Min
<1>8. Max(S) \in S /\ \A k \in S : Max(S) >= k
  BY <1>6 DEF Max
<1>9. \A k \in S : k <= Max(S)
  BY <1>1, <1>8
<1> QED BY <1>7, <1>8, <1>9

(* What holds of 0, and of n + 1 when of n, holds up to any bound: the set  *)
(* of numbers of which it holds stands for the formula.                     *)
LEMMA Counting ==
  ASSUME NEW N \in Nat, NEW G, 0 \in G, \A n \in 1 .. N : n - 1 \in G => n \in G
  PROVE  \A n \in 0 .. N : n \in G
<1> DEFINE Bad == {n \in 0 .. N : n \notin G}
<1> SUFFICES ASSUME Bad # {} PROVE FALSE
  OBVIOUS
<1>1. Bad \in SUBSET Nat
  OBVIOUS
<1>2. PICK n \in Bad : \A k \in Bad : n <= k
  BY <1>1, LeastNat
<1>3. n \in 1 .. N /\ n - 1 \in 0 .. N /\ ~(n <= n - 1)
  BY <1>2
<1>4. n - 1 \notin Bad
  <2> HIDE DEF Bad
  <2> QED BY <1>2, <1>3
<1>5. n \in G
  BY <1>3, <1>4
<1> QED BY <1>2, <1>5

(* A loop over 1 .. n that carries a value from step to step.               *)
LoopBody(F, n, A) == F \in [(1 .. n) \X A -> A]

Carries(f, n, A, b, F) ==
  f \in [0 .. n -> A] /\ f[0] = b /\ \A i \in 1 .. n : f[i] = F[<<i, f[i - 1]>>]

LEMMA Recursion ==
  ASSUME NEW n \in Nat, NEW A, NEW b \in A, NEW F, LoopBody(F, n, A)
  PROVE  \E f : Carries(f, n, A, b, F)
<1> DEFINE Solves(f, m) == /\ f \in [0 .. m -> A]
                           /\ \A i \in 0 .. m : f[i] = IF i = 0 THEN b ELSE F[<<i, f[i - 1]>>]
           G == {m \in 0 .. n : \E f : Solves(f, m)}
<1>1. 0 \in G
  <2>1. Solves([i \in 0 .. 0 |-> b], 0)
    OBVIOUS
  <2> HIDE DEF Solves
  <2> QED BY <2>1
<1>2. ASSUME NEW m \in 1 .. n, m - 1 \in G PROVE m \in G
  <2>1. PICK f : Solves(f, m - 1)
    BY <1>2
  <2> DEFINE g == [i \in 0 .. m |-> IF i = m THEN F[<<m, f[m - 1]>>] ELSE f[i]]
  <2>2. m - 1 \in 0 .. (m - 1) /\ \A i \in 0 .. m : i = m \/ i \in 0 .. (m - 1)
    OBVIOUS
  <2>3. F[<<m, f[m - 1]>>] \in A
    BY <2>1, <2>2 DEF LoopBody
  <2>4. g \in [0 .. m -> A]
    BY <2>1, <2>2, <2>3
  <2>5. \A i \in 0 .. m : i # 0 => i - 1 \in 0 .. m /\ i - 1 # m /\ g[i - 1] = f[i - 1]
    OBVIOUS
  <2>6. ASSUME NEW i \in 0 .. m PROVE g[i] = IF i = 0 THEN b ELSE F[<<i, g[i - 1]>>]
    <3>1. CASE i = m
      <4>1. m # 0 /\ g[m] = F[<<m, f[m - 1]>>] /\ g[m - 1] = f[m - 1]
        BY <2>5, <3>1
      <4> QED BY <3>1, <4>1
    <3>2. CASE i # m
      <4>1. i \in 0 .. (m - 1) /\ g[i] = f[i]
        BY <3>2
      <4> QED BY <2>1, <2>5, <4>1
    <3> QED BY <3>1, <3>2
  <2>7. Solves(g, m)
    BY <2>4, <2>6
  <2> HIDE DEF Solves, g
  <2> QED BY <2>7
<1>3. n \in G
  <2> HIDE DEF G
  <2>1. \A m \in 0 .. n : m \in G
    BY <1>1, <1>2, Counting
  <2> QED BY <2>1
<1>4. PICK f : Solves(f, n)
  BY <1>3
<1>5. 0 \in 0 .. n /\ \A i \in 1 .. n : i \in 0 .. n /\ i # 0
  OBVIOUS
<1> QED BY <1>4, <1>5 DEF Carries

-----------------------------------------------------------------------------
(* Appending under a condition.                                             *)

(* What has been kept after each step of the loop.                          *)
LEMMA KeepSteps ==
  ASSUME NEW R, NEW s \in Seq(R), NEW P
  PROVE  \E kept \in [0 .. Len(s) -> Seq(R)] :
           /\ Keep(s, P) = kept[Len(s)]
           /\ kept[0] = << >>
           /\ \A n \in 1 .. Len(s) :
                kept[n] = IF n \in P THEN Append(kept[n - 1], s[n]) ELSE kept[n - 1]
<1> DEFINE N == Len(s)
           A == Seq(R)
           F == [q \in (1 .. N) \X A |-> IF q[1] \in P THEN Append(q[2], s[q[1]]) ELSE q[2]]
           Def(f) == f = [n \in 0 .. N |->
                           IF n = 0 THEN << >>
                           ELSE IF n \in P THEN Append(f[n - 1], s[n]) ELSE f[n - 1]]
           kept == CHOOSE f : Def(f)
<1>0. N \in Nat /\ \A n \in 1 .. N : s[n] \in R
  OBVIOUS
<1>1. F \in [(1 .. N) \X A -> A] /\ << >> \in A
  BY <1>0
<1>2. PICK f : Carries(f, N, A, << >>, F)
  <2>1. LoopBody(F, N, A)
    BY <1>1 DEF LoopBody
  <2> HIDE DEF F, N, A
  <2> QED BY <1>0, <1>1, <2>1, Recursion
<1>3. \A i \in 0 .. N : f[i] = IF i = 0 THEN << >>
                               ELSE IF i \in P THEN Append(f[i - 1], s[i]) ELSE f[i - 1]
  <2> SUFFICES ASSUME NEW i \in 0 .. N, i # 0
               PROVE  f[i] = IF i \in P THEN Append(f[i - 1], s[i]) ELSE f[i - 1]
    BY <1>2 DEF Carries
  <2>1. i \in 1 .. N /\ i - 1 \in 0 .. N
    BY <1>0
  <2>2. f[i - 1] \in A
    BY <1>2, <2>1 DEF Carries
  <2>3. f[i] = F[<<i, f[i - 1]>>]
    BY <1>2, <2>1 DEF Carries
  <2> QED BY <2>1, <2>2, <2>3
<1>4. Def(f)
  <2>1. f = [i \in 0 .. N |-> f[i]]
    BY <1>2 DEF Carries
  <2> QED BY <1>3, <2>1
<1>5. Def(kept)
  <2> HIDE DEF Def
  <2> QED BY <1>4, Zenon
<1>6. Keep(s, P) = kept[N]
  BY DEF Keep
<1> HIDE DEF kept
<1>7. \A n \in 0 .. N : kept[n] = IF n = 0 THEN << >>
                           ELSE IF n \in P THEN Append(kept[n - 1], s[n]) ELSE kept[n - 1]
  BY <1>5
<1>8. kept[0] = << >>
  BY <1>0, <1>7
<1>9. \A n \in 1 .. N : kept[n] = IF n \in P THEN Append(kept[n - 1], s[n]) ELSE kept[n - 1]
  BY <1>0, <1>7
<1>10. \A n \in 0 .. N : kept[n] \in A
  <2> DEFINE G == {n \in 0 .. N : kept[n] \in A}
  <2>1. 0 \in G
    <3>1. << >> \in A
      OBVIOUS
    <3>2. kept[0] \in A
      <4> HIDE DEF A
      <4> QED BY <1>8, <3>1
    <3> QED BY <1>0, <3>2
  <2>2. ASSUME NEW n \in 1 .. N, n - 1 \in G PROVE n \in G
    <3>1. kept[n - 1] \in Seq(R) /\ s[n] \in R
      BY <1>0, <2>2
    <3>2. Append(kept[n - 1], s[n]) \in Seq(R)
      BY <3>1
    <3>3. kept[n] \in A
      BY <1>9, <3>1, <3>2
    <3> QED BY <1>0, <3>3
  <2> HIDE DEF G
  <2>3. \A n \in 0 .. N : n \in G
    BY <1>0, <2>1, <2>2, Counting
  <2> QED BY <2>3 DEF G
<1>11. kept \in [0 .. N -> A]
  <2>1. kept = [n \in 0 .. N |-> kept[n]]
    <3> DEFINE body(n) == IF n = 0 THEN << >>
                          ELSE IF n \in P THEN Append(kept[n - 1], s[n]) ELSE kept[n - 1]
    <3>1. kept = [n \in 0 .. N |-> body(n)]
      BY <1>5
    <3> HIDE DEF body
    <3> QED BY <3>1
  <2> QED BY <1>10, <2>1
<1> QED BY <1>6, <1>8, <1>9, <1>11

(* What is kept are the elements at the positions of P, each once, in their *)
(* order: h says where they come from.                                      *)
Picks(t, s, Q, h) ==
  /\ h \in [DOMAIN t -> Q]
  /\ \A i, j \in DOMAIN t : i < j => h[i] < h[j]
  /\ \A k \in Q : \E i \in DOMAIN t : h[i] = k
  /\ \A i \in DOMAIN t : t[i] = s[h[i]]

LEMMA KeepPicks ==
  ASSUME NEW R, NEW s \in Seq(R), NEW P
  PROVE  /\ Keep(s, P) \in Seq(R)
         /\ \E h : Picks(Keep(s, P), s, P \cap DOMAIN s, h)
<1> DEFINE N == Len(s)
<1>0. N \in Nat /\ DOMAIN s = 1 .. N
  OBVIOUS
<1>1. PICK kept \in [0 .. N -> Seq(R)] :
        /\ Keep(s, P) = kept[N]
        /\ kept[0] = << >>
        /\ \A n \in 1 .. N :
             kept[n] = IF n \in P THEN Append(kept[n - 1], s[n]) ELSE kept[n - 1]
  BY KeepSteps
<1> DEFINE G == {n \in 0 .. N : \E h : Picks(kept[n], s, P \cap (1 .. n), h)}
<1>2. 0 \in G
  <2>1. Picks(<< >>, s, P \cap (1 .. 0), [i \in {} |-> 0])
    BY DEF Picks
  <2> QED BY <1>0, <1>1, <2>1
<1>3. ASSUME NEW n \in 1 .. N, n - 1 \in G PROVE n \in G
  <2>1. PICK h : Picks(kept[n - 1], s, P \cap (1 .. (n - 1)), h)
    BY <1>3
  <2>2. n - 1 \in 0 .. N /\ n \in 0 .. N
    BY <1>0
  <2>3. CASE n \notin P
    <3>1. P \cap (1 .. n) = P \cap (1 .. (n - 1)) /\ kept[n] = kept[n - 1]
      <4>1. \A k \in 1 .. n : k = n \/ k \in 1 .. (n - 1)
        OBVIOUS
      <4>2. \A k \in 1 .. (n - 1) : k \in 1 .. n
        OBVIOUS
      <4> QED BY <1>1, <2>3, <4>1, <4>2
    <3> QED BY <2>1, <2>2, <3>1
  <2>4. CASE n \in P
    <3> DEFINE t == kept[n - 1]
               m == Len(t)
               g == [i \in 1 .. (m + 1) |-> IF i = m + 1 THEN n ELSE h[i]]
    <3>1. t \in Seq(R) /\ m \in Nat /\ DOMAIN t = 1 .. m
      BY <2>2
    <3>2. kept[n] = Append(t, s[n]) /\ DOMAIN kept[n] = 1 .. (m + 1)
      <4>1. kept[n] = Append(t, s[n])
        BY <1>1, <2>4
      <4>2. DOMAIN Append(t, s[n]) = 1 .. (m + 1)
        BY <3>1
      <4> QED BY <4>1, <4>2
    <3>3. \A i \in 1 .. (m + 1) : kept[n][i] = IF i = m + 1 THEN s[n] ELSE t[i]
      <4>1. \A i \in 1 .. (m + 1) : Append(t, s[n])[i] = IF i = m + 1 THEN s[n] ELSE t[i]
        BY <3>1
      <4> QED BY <3>2, <4>1
    <3> HIDE DEF t, m
    <3>4. /\ h \in [1 .. m -> P \cap (1 .. (n - 1))]
          /\ \A i, j \in 1 .. m : i < j => h[i] < h[j]
          /\ \A k \in P \cap (1 .. (n - 1)) : \E i \in 1 .. m : h[i] = k
          /\ \A i \in 1 .. m : t[i] = s[h[i]]
      BY <2>1, <3>1 DEF Picks, t
    <3>5. \A i \in 1 .. (m + 1) : i = m + 1 \/ i \in 1 .. m
      BY <3>1
    <3>6. \A k \in 1 .. (n - 1) : k < n /\ k \in 1 .. n
      OBVIOUS
    <3>7. g \in [1 .. (m + 1) -> P \cap (1 .. n)]
      BY <2>4, <3>1, <3>4, <3>5, <3>6
    <3>8. ASSUME NEW i \in 1 .. (m + 1), NEW j \in 1 .. (m + 1), i < j
          PROVE  g[i] < g[j]
      <4>1. i \in 1 .. m /\ i # m + 1
        BY <3>1, <3>8
      <4>2. CASE j = m + 1
        BY <3>4, <3>6, <4>1, <4>2
      <4>3. CASE j # m + 1
        BY <3>4, <3>5, <3>8, <4>1, <4>3
      <4> QED BY <4>2, <4>3
    <3>9. ASSUME NEW k \in P \cap (1 .. n) PROVE \E i \in 1 .. (m + 1) : g[i] = k
      <4>1. CASE k = n
        <5>1. m + 1 \in 1 .. (m + 1) /\ g[m + 1] = n
          BY <3>1
        <5> QED BY <4>1, <5>1
      <4>2. CASE k # n
        <5>1. k \in P \cap (1 .. (n - 1))
          BY <4>2
        <5>2. PICK i \in 1 .. m : h[i] = k
          BY <3>4, <5>1
        <5>3. i \in 1 .. (m + 1) /\ g[i] = k
          BY <3>1, <5>2
        <5> QED BY <5>3
      <4> QED BY <4>1, <4>2
    <3>10. \A i \in 1 .. (m + 1) : kept[n][i] = s[g[i]]
      BY <3>3, <3>4, <3>5
    <3>11. Picks(kept[n], s, P \cap (1 .. n), g)
      BY <3>2, <3>7, <3>8, <3>9, <3>10 DEF Picks
    <3> QED BY <2>2, <3>11
  <2> QED BY <2>3, <2>4
<1>4. N \in G
  <2> HIDE DEF G
  <2>1. \A n \in 0 .. N : n \in G
    BY <1>0, <1>2, <1>3, Counting
  <2> QED BY <1>0, <2>1
<1>5. kept[N] \in Seq(R)
  BY <1>0
<1> QED BY <1>0, <1>1, <1>4, <1>5

(* Keeping the end of a list.                                               *)
LEMMA KeepEnd ==
  ASSUME NEW R, NEW s \in Seq(R), NEW P, NEW m \in 0 .. Len(s),
         P \cap (1 .. m) = {}, (m + 1) .. Len(s) \subseteq P
  PROVE  /\ Len(Keep(s, P)) = Len(s) - m
         /\ \A i \in 1 .. (Len(s) - m) : Keep(s, P)[i] = s[m + i]
<1> DEFINE N == Len(s)
<1>0. N \in Nat /\ m \in Nat
  OBVIOUS
<1>1. PICK kept \in [0 .. N -> Seq(R)] :
        /\ Keep(s, P) = kept[N]
        /\ kept[0] = << >>
        /\ \A n \in 1 .. N :
             kept[n] = IF n \in P THEN Append(kept[n - 1], s[n]) ELSE kept[n - 1]
  <2>1. s \in Seq(R)
    OBVIOUS
  <2> QED BY ONLY <2>1, KeepSteps
<1> DEFINE Good(t, n) == IF n <= m THEN t = << >>
                         ELSE /\ Len(t) = n - m
                              /\ \A i \in 1 .. (n - m) : t[i] = s[m + i]
           G == {n \in 0 .. N : Good(kept[n], n)}
<1>2. 0 \in G
  BY <1>0, <1>1
<1>3. ASSUME NEW n \in 1 .. N, n - 1 \in G PROVE n \in G
  <2> DEFINE t == kept[n - 1]
  <2>1. n - 1 \in 0 .. N /\ n \in 0 .. N /\ t \in Seq(R)
    <3>1. n - 1 \in 0 .. N /\ n \in 0 .. N
      BY <1>0
    <3> QED BY <3>1
  <2>2. Good(t, n - 1)
    BY <1>3
  <2>3. kept[n] = IF n \in P THEN Append(t, s[n]) ELSE t
    BY <1>1
  <2> HIDE DEF t
  <2>4. CASE n <= m
    <3>1. n \notin P
      BY <2>4
    <3>2. n - 1 <= m
      BY <1>0, <2>4
    <3> QED BY <2>1, <2>2, <2>3, <2>4, <3>1, <3>2
  <2>5. CASE n > m
    <3>1. n \in P
      BY <1>0, <2>5
    <3>2. Len(t) = n - 1 - m /\ \A i \in 1 .. (n - 1 - m) : t[i] = s[m + i]
      <4>1. CASE n - 1 <= m
        <5>1. t = << >> /\ n - 1 = m
          BY <1>0, <2>2, <2>5, <4>1
        <5> QED BY <1>0, <5>1
      <4>2. CASE ~(n - 1 <= m)
        BY <2>2, <4>2
      <4> QED BY <4>1, <4>2
    <3>3. DOMAIN t = 1 .. (n - 1 - m)
      BY <2>1, <3>2
    <3>4. /\ Len(Append(t, s[n])) = n - m
          /\ \A i \in 1 .. (n - m) :
               Append(t, s[n])[i] = IF i = n - m THEN s[n] ELSE t[i]
      BY <1>0, <2>1, <3>2
    <3>5. \A i \in 1 .. (n - m) : (i = n - m /\ m + i = n) \/ i \in 1 .. (n - 1 - m)
      BY <1>0
    <3>6. \A i \in 1 .. (n - m) : Append(t, s[n])[i] = s[m + i]
      BY <3>2, <3>4, <3>5
    <3>7. Good(Append(t, s[n]), n)
      BY <1>0, <2>5, <3>4, <3>6
    <3> QED BY <2>1, <2>3, <3>1, <3>7
  <2> QED BY <1>0, <2>4, <2>5
<1>4. N \in G
  <2> HIDE DEF G
  <2>1. \A n \in 0 .. N : n \in G
    BY <1>0, <1>2, <1>3, Counting
  <2> QED BY <1>0, <2>1
<1>5. Good(Keep(s, P), N)
  BY <1>1, <1>4
<1>6. m = N \/ ~(N <= m)
  BY <1>0
<1> QED BY <1>0, <1>5, <1>6

(* As many are kept as there are positions to keep.                         *)
LEMMA KeepLength ==
  ASSUME NEW R, NEW s \in Seq(R), NEW P
  PROVE  Len(Keep(s, P)) = Cardinality(P \cap DOMAIN s)
<1> DEFINE t == Keep(s, P)
           Q == P \cap DOMAIN s
<1>1. PICK h : Picks(t, s, Q, h)
  BY KeepPicks
<1>2. t \in Seq(R) /\ Len(t) \in Nat /\ DOMAIN t = 1 .. Len(t)
  <2>1. t \in Seq(R)
    BY KeepPicks
  <2> HIDE DEF t
  <2> QED BY <2>1
<1> HIDE DEF t, Q
<1>3. h \in [1 .. Len(t) -> Q]
  BY <1>1, <1>2 DEF Picks
<1>4. \A i, j \in 1 .. Len(t) : h[i] = h[j] => i = j
  <2> SUFFICES ASSUME NEW i \in 1 .. Len(t), NEW j \in 1 .. Len(t), h[i] = h[j], i # j
               PROVE  FALSE
    OBVIOUS
  <2>1. DOMAIN s = 1 .. Len(s) /\ Len(s) \in Nat
    OBVIOUS
  <2>2. h[i] \in Nat /\ h[j] \in Nat
    BY <1>3, <2>1 DEF Q
  <2>3. i < j \/ j < i
    BY <1>2
  <2>4. h[i] < h[j] \/ h[j] < h[i]
    BY <1>1, <1>2, <2>3 DEF Picks
  <2> QED BY <2>2, <2>4
<1>5. h \in Bijection(1 .. Len(t), Q)
  <2>1. \A k \in Q : \E i \in 1 .. Len(t) : h[i] = k
    BY <1>1, <1>2 DEF Picks
  <2> QED BY <1>3, <1>4, <2>1 DEF Bijection, Injection, Surjection, IsInjective
<1>6. IsFiniteSet(1 .. Len(t)) /\ Cardinality(1 .. Len(t)) = Len(t)
  <2>1. 1 \in Int /\ Len(t) \in Int /\ (IF 1 > Len(t) THEN 0 ELSE Len(t) - 1 + 1) = Len(t)
    BY <1>2
  <2> QED BY <2>1, FS_Interval
<1>7. Cardinality(Q) = Cardinality(1 .. Len(t))
  <2>1. ExistsBijection(1 .. Len(t), Q)
    BY <1>5 DEF ExistsBijection
  <2> QED BY <1>6, <2>1, FS_Bijection
<1> QED BY <1>6, <1>7 DEF t, Q

-----------------------------------------------------------------------------
(* Sorting.                                                                 *)

(* Of any two elements one is before the other, and none before itself.     *)
StrictOrder(B, S) ==
  /\ \A x \in S : <<x, x>> \notin B
  /\ \A x, y, z \in S : <<x, y>> \in B /\ <<y, z>> \in B => <<x, z>> \in B
  /\ \A x, y \in S : x # y => <<x, y>> \in B \/ <<y, x>> \in B

Earlier(x, B, S) == {y \in S : <<y, x>> \in B}

(* The place of an element is told by how many are before it.               *)
LEMMA Places ==
  ASSUME NEW S, IsFiniteSet(S), NEW B, StrictOrder(B, S)
  PROVE  /\ \A x \in S : Cardinality(Earlier(x, B, S)) \in Nat
         /\ \A x, y \in S : <<x, y>> \in B =>
              Cardinality(Earlier(x, B, S)) < Cardinality(Earlier(y, B, S))
         /\ \A i \in 1 .. Cardinality(S) :
              \E x \in S : Cardinality(Earlier(x, B, S)) = i - 1
<1> DEFINE n == Cardinality(S)
           D == 1 .. n
           r == [x \in S |-> Cardinality(Earlier(x, B, S)) + 1]
<1>1. n \in Nat /\ IsFiniteSet(D) /\ Cardinality(D) = n
  <2>1. n \in Nat
    BY FS_CardinalityType
  <2>2. 1 \in Int /\ n \in Int /\ (IF 1 > n THEN 0 ELSE n - 1 + 1) = n
    BY <2>1
  <2> QED BY <2>1, <2>2, FS_Interval
<1>2. \A x \in S : IsFiniteSet(Earlier(x, B, S)) /\ Cardinality(Earlier(x, B, S)) \in Nat
  <2> TAKE x \in S
  <2>1. Earlier(x, B, S) \in SUBSET S
    BY DEF Earlier
  <2> QED BY <2>1, FS_Subset, FS_CardinalityType
<1>3. ASSUME NEW x \in S, NEW y \in S, <<x, y>> \in B
      PROVE  Cardinality(Earlier(x, B, S)) < Cardinality(Earlier(y, B, S))
  <2>1. Earlier(x, B, S) \in SUBSET Earlier(y, B, S)
    BY <1>3 DEF StrictOrder, Earlier
  <2>2. x \in Earlier(y, B, S) /\ x \notin Earlier(x, B, S)
    BY <1>3 DEF StrictOrder, Earlier
  <2>3. Earlier(x, B, S) # Earlier(y, B, S)
    BY <2>2
  <2>4. /\ Cardinality(Earlier(x, B, S)) <= Cardinality(Earlier(y, B, S))
        /\ Cardinality(Earlier(x, B, S)) # Cardinality(Earlier(y, B, S))
    BY <1>2, <2>1, <2>3, FS_Subset
  <2> QED BY <1>2, <2>4
<1>4. \A x \in S : Cardinality(Earlier(x, B, S)) + 1 \in D
  <2> TAKE x \in S
  <2>1. Earlier(x, B, S) \in SUBSET S /\ Earlier(x, B, S) # S
    BY DEF StrictOrder, Earlier
  <2>2. Cardinality(Earlier(x, B, S)) <= n /\ Cardinality(Earlier(x, B, S)) # n
    BY <2>1, FS_Subset
  <2> QED BY <1>1, <1>2, <2>2
<1>5. r \in [S -> D] /\ \A x \in S : r[x] = Cardinality(Earlier(x, B, S)) + 1
  BY <1>4
<1> HIDE DEF r, D
<1>6. \A x, y \in S : r[x] = r[y] => x = y
  <2> SUFFICES ASSUME NEW x \in S, NEW y \in S, r[x] = r[y], x # y PROVE FALSE
    OBVIOUS
  <2>1. Cardinality(Earlier(x, B, S)) = Cardinality(Earlier(y, B, S))
    BY <1>2, <1>5
  <2>2. <<x, y>> \in B \/ <<y, x>> \in B
    BY DEF StrictOrder
  <2> QED BY <1>2, <1>3, <2>1, <2>2
<1>7. r \in Surjection(S, D)
  <2>1. r \in Injection(S, D)
    BY <1>5, <1>6 DEF Injection, IsInjective
  <2> QED BY <1>1, <2>1, FS_Injection
<1>8. ASSUME NEW i \in 1 .. n PROVE \E x \in S : Cardinality(Earlier(x, B, S)) = i - 1
  <2>1. PICK x \in S : r[x] = i
    BY <1>7, <1>8 DEF Surjection, D
  <2>2. Cardinality(Earlier(x, B, S)) = i - 1
    BY <1>1, <1>2, <1>5, <2>1
  <2> QED BY <2>2
<1> QED BY <1>2, <1>3, <1>8

(* So there is a list of the elements in their order; and any list in that  *)
(* order, as long as there are elements, has each of them.                  *)
LEMMA Ordered ==
  ASSUME NEW S, IsFiniteSet(S), NEW B, StrictOrder(B, S)
  PROVE  /\ Cardinality(S) \in Nat
         /\ \E s \in [1 .. Cardinality(S) -> S] :
              \A i, j \in 1 .. Cardinality(S) : i < j => <<s[i], s[j]>> \in B
<1> DEFINE n == Cardinality(S)
<1>1. n \in Nat
  BY FS_CardinalityType
<1> DEFINE s == [i \in 1 .. n |-> CHOOSE x \in S : Cardinality(Earlier(x, B, S)) = i - 1]
<1>2. /\ \A x \in S : Cardinality(Earlier(x, B, S)) \in Nat
      /\ \A x, y \in S : <<x, y>> \in B =>
           Cardinality(Earlier(x, B, S)) < Cardinality(Earlier(y, B, S))
      /\ \A i \in 1 .. n : \E x \in S : Cardinality(Earlier(x, B, S)) = i - 1
  BY Places
<1>3. s \in [1 .. n -> S] /\ \A i \in 1 .. n : Cardinality(Earlier(s[i], B, S)) = i - 1
  BY <1>2
<1> HIDE DEF s
<1>4. ASSUME NEW i \in 1 .. n, NEW j \in 1 .. n, i < j PROVE <<s[i], s[j]>> \in B
  <2>1. s[i] \in S /\ s[j] \in S /\ i \in Nat /\ j \in Nat
    BY <1>1, <1>3
  <2>2. /\ Cardinality(Earlier(s[i], B, S)) = i - 1
        /\ Cardinality(Earlier(s[j], B, S)) = j - 1
    BY <1>3
  <2>3. s[i] # s[j]
    BY <1>4, <2>1, <2>2
  <2>4. ~(<<s[j], s[i]>> \in B)
    BY <1>2, <1>4, <2>1, <2>2
  <2> QED BY <2>1, <2>3, <2>4 DEF StrictOrder
<1> QED BY <1>1, <1>3, <1>4

LEMMA OrderedHasAll ==
  ASSUME NEW S, IsFiniteSet(S), NEW B, StrictOrder(B, S),
         NEW s \in [1 .. Cardinality(S) -> S],
         \A i, j \in 1 .. Cardinality(S) : i < j => <<s[i], s[j]>> \in B
  PROVE  /\ \A i, j \in 1 .. Cardinality(S) : s[i] = s[j] => i = j
         /\ \A x \in S : \E i \in 1 .. Cardinality(S) : s[i] = x
<1> DEFINE n == Cardinality(S)
<1>1. n \in Nat /\ IsFiniteSet(1 .. n) /\ Cardinality(1 .. n) = n
  <2>1. n \in Nat
    BY FS_CardinalityType
  <2>2. 1 \in Int /\ n \in Int /\ (IF 1 > n THEN 0 ELSE n - 1 + 1) = n
    BY <2>1
  <2> QED BY <2>1, <2>2, FS_Interval
<1> HIDE DEF n
<1>2. s \in [1 .. n -> S] /\ \A i, j \in 1 .. n : i < j => <<s[i], s[j]>> \in B
  BY DEF n
<1>3. \A i, j \in 1 .. n : s[i] = s[j] => i = j
  <2> SUFFICES ASSUME NEW i \in 1 .. n, NEW j \in 1 .. n, s[i] = s[j], i # j PROVE FALSE
    OBVIOUS
  <2>1. i < j \/ j < i
    BY <1>1
  <2> QED BY <1>2, <2>1 DEF StrictOrder
<1>4. s \in Surjection(1 .. n, S)
  <2>1. s \in Injection(1 .. n, S)
    BY <1>2, <1>3 DEF Injection, IsInjective
  <2> QED BY <1>1, <2>1, FS_Injection DEF n
<1> QED BY <1>3, <1>4 DEF Surjection, n

-----------------------------------------------------------------------------
(* Finite sets.                                                             *)

(* A list of the elements of a finite set has each of them once.            *)
LEMMA ListsEach ==
  ASSUME NEW S, IsFiniteSet(S)
  PROVE  /\ SetToSeq(S) \in Seq(S)
         /\ Len(SetToSeq(S)) = Cardinality(S) /\ Cardinality(S) \in Nat
         /\ \A i, j \in DOMAIN SetToSeq(S) : SetToSeq(S)[i] = SetToSeq(S)[j] => i = j
         /\ \A x \in S : \E i \in DOMAIN SetToSeq(S) : SetToSeq(S)[i] = x
<1> DEFINE n == Cardinality(S)
           t == SetToSeq(S)
<1>1. n \in Nat /\ ExistsBijection(1 .. n, S)
  BY FS_CardinalityType
<1>2. PICK f \in Bijection(1 .. n, S) : TRUE
  BY <1>1 DEF ExistsBijection
<1>3. f \in [1 .. n -> S] /\ IsInjective(f)
  BY <1>2 DEF Bijection, Injection
<1>4. t \in [1 .. n -> S] /\ IsInjective(t)
  <2>1. t = CHOOSE x \in [1 .. n -> S] : IsInjective(x)
    BY DEF SetToSeq
  <2> HIDE DEF t
  <2> QED BY <1>3, <2>1
<1> HIDE DEF t
<1>5. t \in Seq(S) /\ Len(t) = n /\ DOMAIN t = 1 .. n
  BY <1>1, <1>4
<1>6. \A i, j \in DOMAIN t : t[i] = t[j] => i = j
  BY <1>4 DEF IsInjective
<1>7. t \in Surjection(1 .. n, S)
  <2>1. t \in Injection(1 .. n, S)
    BY <1>4 DEF Injection
  <2>2. Cardinality(1 .. n) = Cardinality(S)
    <3>1. 1 \in Int /\ n \in Int /\ (IF 1 > n THEN 0 ELSE n - 1 + 1) = n
      BY <1>1
    <3> QED BY <3>1, FS_Interval
  <2> QED BY <2>1, <2>2, FS_Injection
<1>8. \A x \in S : \E i \in DOMAIN t : t[i] = x
  BY <1>5, <1>7 DEF Surjection
<1> QED BY <1>1, <1>5, <1>6, <1>8 DEF t

(* Of the sets of parts of a finite set, a non-empty one has a least part.  *)
LEMMA LeastPart ==
  ASSUME NEW S, IsFiniteSet(S), NEW B \in SUBSET (SUBSET S), B # {}
  PROVE  \E T \in B : \A U \in SUBSET T : U # T => U \notin B
<1>1. \A T \in SUBSET S : IsFiniteSet(T) /\ Cardinality(T) \in Nat
  BY FS_Subset, FS_CardinalityType
<1> DEFINE C == {Cardinality(T) : T \in B}
<1>2. C \in SUBSET Nat /\ C # {}
  BY <1>1
<1>3. PICK n \in C : \A k \in C : n <= k
  BY <1>2, LeastNat
<1>4. PICK T \in B : n = Cardinality(T)
  BY <1>3
<1>5. ASSUME NEW U \in SUBSET T, U # T, U \in B PROVE FALSE
  <2>1. Cardinality(U) <= Cardinality(T) /\ Cardinality(U) # Cardinality(T)
    BY <1>1, <1>5, FS_Subset
  <2>2. Cardinality(T) <= Cardinality(U)
    BY <1>3, <1>4, <1>5
  <2>3. Cardinality(T) \in Nat /\ Cardinality(U) \in Nat
    BY <1>1
  <2> QED BY <2>1, <2>2, <2>3
<1> QED BY <1>5

(* A one-to-one correspondence, said without sets of functions.             *)
LEMMA SameSize ==
  ASSUME NEW S, NEW T, IsFiniteSet(S), NEW f, f \in [S -> T],
         \A x, y \in S : f[x] = f[y] => x = y,
         \A y \in T : \E x \in S : f[x] = y
  PROVE  IsFiniteSet(T) /\ Cardinality(T) = Cardinality(S)
<1>1. f \in Bijection(S, T)
  BY DEF Bijection, Injection, Surjection, IsInjective
<1>2. ExistsBijection(S, T)
  BY <1>1 DEF ExistsBijection
<1> QED BY <1>2, FS_Bijection

-----------------------------------------------------------------------------
(* Sums, as sizes of sets of pairs: x with each element of G[x].            *)
PairsIn(s, G) == {q \in s \X UNION {G[x] : x \in s} : q[2] \in G[q[1]]}

\* The loop of MapThenSumSet, which takes the elements c chooses.
Sums(iter, S, G, c) ==
  \A s \in SUBSET S :
    iter[s] = IF s = {} THEN 0 ELSE Cardinality(G[c[s]]) + iter[s \ {c[s]}]

Chooses(c, S) == \A s \in SUBSET S : s # {} => c[s] \in s

FiniteParts(G, S) == \A x \in S : IsFiniteSet(G[x])

LEMMA FinitePairs ==
  ASSUME NEW S, IsFiniteSet(S), NEW G, FiniteParts(G, S)
  PROVE  IsFiniteSet(PairsIn(S, G)) /\ Cardinality(PairsIn(S, G)) \in Nat
<1> DEFINE All == {G[x] : x \in S}
           T == UNION All
<1>1. IsFiniteSet(All)
  <2> DEFINE f == [x \in S |-> G[x]]
  <2>1. f \in Surjection(S, All)
    BY DEF Surjection
  <2> HIDE DEF f, All
  <2> QED BY <2>1, FS_Surjection
<1>2. \A t \in All : IsFiniteSet(t)
  BY DEF FiniteParts
<1>3. IsFiniteSet(T)
  <2> HIDE DEF All
  <2> QED BY <1>1, <1>2, FS_UNION
<1>4. IsFiniteSet(S \X T)
  <2> HIDE DEF T
  <2> QED BY <1>3, FS_Product
<1>5. PairsIn(S, G) \in SUBSET (S \X T)
  BY DEF PairsIn
<1>6. IsFiniteSet(PairsIn(S, G))
  <2> HIDE DEF T
  <2> QED BY <1>4, <1>5, FS_Subset
<1> QED BY <1>6, FS_CardinalityType

LEMMA PairsMore ==
  ASSUME NEW S, IsFiniteSet(S), NEW G, FiniteParts(G, S), NEW x \in S
  PROVE  Cardinality(PairsIn(S, G)) = Cardinality(G[x]) + Cardinality(PairsIn(S \ {x}, G))
<1> DEFINE Mine == {x} \X G[x]
           Rest == PairsIn(S \ {x}, G)
<1>1. IsFiniteSet(Rest) /\ Cardinality(Rest) \in Nat
  <2>1. IsFiniteSet(S \ {x}) /\ FiniteParts(G, S \ {x})
    BY FS_Subset DEF FiniteParts
  <2> QED BY <2>1, FinitePairs
<1>2. IsFiniteSet(Mine) /\ Cardinality(Mine) = Cardinality(G[x])
  <2> DEFINE f == [y \in G[x] |-> <<x, y>>]
  <2>1. f \in [G[x] -> Mine] /\ \A y \in G[x] : f[y] = <<x, y>>
    OBVIOUS
  <2>2. IsFiniteSet(G[x])
    BY DEF FiniteParts
  <2>3. \A q \in Mine : q = <<x, q[2]>> /\ q[2] \in G[x]
    OBVIOUS
  <2> HIDE DEF f
  <2>4. \A y, z \in G[x] : f[y] = f[z] => y = z
    BY <2>1
  <2>5. \A q \in Mine : \E y \in G[x] : f[y] = q
    BY <2>1, <2>3
  <2> HIDE DEF Mine
  <2> QED BY <2>1, <2>2, <2>4, <2>5, SameSize
<1>3. PairsIn(S, G) = Mine \cup Rest
  <2>1. ASSUME NEW q \in PairsIn(S, G) PROVE q \in Mine \cup Rest
    BY <2>1 DEF PairsIn
  <2>2. ASSUME NEW q \in Mine PROVE q \in PairsIn(S, G)
    BY <2>2 DEF PairsIn
  <2>3. ASSUME NEW q \in Rest PROVE q \in PairsIn(S, G)
    BY <2>3 DEF PairsIn
  <2> HIDE DEF Mine, Rest
  <2> QED BY <2>1, <2>2, <2>3
<1>4. Mine \cap Rest = {}
  BY DEF PairsIn
<1>5. Cardinality(Mine \cup Rest) = Cardinality(Mine) + Cardinality(Rest)
  <2> HIDE DEF Mine, Rest
  <2>1. Cardinality(Mine) \in Nat
    BY <1>2, FS_CardinalityType
  <2>2. Cardinality(Mine \cup Rest) = Cardinality(Mine) + Cardinality(Rest) - Cardinality(Mine \cap Rest)
    BY <1>1, <1>2, FS_Union
  <2>3. Cardinality(Mine \cap Rest) = 0
    BY <1>4, FS_EmptySet
  <2> QED BY <1>1, <2>1, <2>2, <2>3
<1> QED BY <1>2, <1>3, <1>5

(* Whatever computes the sum by that loop counts the pairs ...              *)
LEMMA SumIsCount ==
  ASSUME NEW S, IsFiniteSet(S), NEW G, FiniteParts(G, S), NEW c, Chooses(c, S),
         NEW iter, Sums(iter, S, G, c)
  PROVE  iter[S] = Cardinality(PairsIn(S, G))
<1> DEFINE B == {s \in SUBSET S : iter[s] # Cardinality(PairsIn(s, G))}
<1> SUFFICES ASSUME B # {} PROVE FALSE
  OBVIOUS
<1>1. PICK s \in B : \A U \in SUBSET s : U # s => U \notin B
  <2>1. B \in SUBSET (SUBSET S)
    OBVIOUS
  <2> HIDE DEF B
  <2> QED BY <2>1, LeastPart
<1>2. s \in SUBSET S /\ iter[s] # Cardinality(PairsIn(s, G))
  OBVIOUS
<1>3. CASE s = {}
  <2>1. iter[s] = 0
    BY <1>2, <1>3 DEF Sums
  <2>2. PairsIn(s, G) = {}
    BY <1>3 DEF PairsIn
  <2> QED BY <1>2, <2>1, <2>2, FS_EmptySet
<1>4. CASE s # {}
  <2> DEFINE x == c[s]
             u == s \ {x}
  <2>1. x \in s /\ iter[s] = Cardinality(G[x]) + iter[u]
    BY <1>2, <1>4 DEF Sums, Chooses
  <2>2. u \in SUBSET S /\ u \in SUBSET s /\ u # s
    BY <1>2, <2>1
  <2>3. iter[u] = Cardinality(PairsIn(u, G))
    <3> HIDE DEF u
    <3> QED BY <1>1, <2>2
  <2>4. IsFiniteSet(s) /\ FiniteParts(G, s)
    BY <1>2, FS_Subset DEF FiniteParts
  <2> HIDE DEF x
  <2>5. Cardinality(PairsIn(s, G)) = Cardinality(G[x]) + Cardinality(PairsIn(u, G))
    BY <2>1, <2>4, PairsMore
  <2> QED BY <1>2, <2>1, <2>3, <2>5
<1> QED BY <1>3, <1>4

(* ... and counting them computes it: the loop has a solution.              *)
LEMMA CountSums ==
  ASSUME NEW S, IsFiniteSet(S), NEW G, FiniteParts(G, S), NEW c, Chooses(c, S)
  PROVE  Sums([s \in SUBSET S |-> Cardinality(PairsIn(s, G))], S, G, c)
<1> DEFINE iter == [s \in SUBSET S |-> Cardinality(PairsIn(s, G))]
<1> SUFFICES ASSUME NEW s \in SUBSET S
             PROVE  iter[s] = IF s = {} THEN 0 ELSE Cardinality(G[c[s]]) + iter[s \ {c[s]}]
  BY DEF Sums
<1>1. CASE s = {}
  <2>1. PairsIn(s, G) = {}
    BY <1>1 DEF PairsIn
  <2> QED BY <1>1, <2>1, FS_EmptySet
<1>2. CASE s # {}
  <2>1. c[s] \in s
    BY <1>2 DEF Chooses
  <2>2. IsFiniteSet(s) /\ FiniteParts(G, s)
    BY FS_Subset DEF FiniteParts
  <2>3. Cardinality(PairsIn(s, G)) = Cardinality(G[c[s]]) + Cardinality(PairsIn(s \ {c[s]}, G))
    BY <2>1, <2>2, PairsMore
  <2>4. s \ {c[s]} \in SUBSET S
    OBVIOUS
  <2> QED BY <1>2, <2>3, <2>4
<1> QED BY <1>1, <1>2

(* So a sum of sizes is the size of the set of pairs.                       *)
LEMMA SumOfSizes ==
  ASSUME NEW f, NEW D, D = DOMAIN f, IsFiniteSet(D), NEW G, FiniteParts(G, D),
         \A x \in D : f[x] = Cardinality(G[x])
  PROVE  SumFunction(f) = Cardinality(PairsIn(D, G))
<1> DEFINE c == [s \in SUBSET D |-> CHOOSE x \in s : TRUE]
           Def(h) == h = [s \in SUBSET D |->
                            IF s = {} THEN 0
                            ELSE f[CHOOSE x \in s : TRUE] + h[s \ {CHOOSE x \in s : TRUE}]]
           iter == CHOOSE h : Def(h)
           F == [s \in SUBSET D |-> Cardinality(PairsIn(s, G))]
<1>1. SumFunction(f) = iter[D]
  BY DEF SumFunction, SumFunctionOnSet, FoldFunctionOnSet, MapThenFoldSet
<1>2. Chooses(c, D)
  BY DEF Chooses
<1>3. \A s \in SUBSET D : s # {} => /\ c[s] = CHOOSE x \in s : TRUE
                                    /\ c[s] \in D
                                    /\ f[c[s]] = Cardinality(G[c[s]])
  OBVIOUS
<1> HIDE DEF c
<1>4. Sums(F, D, G, c)
  <2> HIDE DEF F
  <2> QED BY <1>2, CountSums DEF F
<1>5. Def(F)
  <2>1. \A s \in SUBSET D : F[s] = IF s = {} THEN 0
                            ELSE f[CHOOSE x \in s : TRUE] + F[s \ {CHOOSE x \in s : TRUE}]
    <3> HIDE DEF F
    <3>1. \A s \in SUBSET D : F[s] = IF s = {} THEN 0 ELSE Cardinality(G[c[s]]) + F[s \ {c[s]}]
      BY <1>4 DEF Sums
    <3> TAKE s \in SUBSET D
    <3>2. CASE s = {}
      BY <3>1, <3>2
    <3>3. CASE s # {}
      <4>1. F[s] = f[c[s]] + F[s \ {c[s]}]
        BY <1>3, <3>1, <3>3
      <4> QED BY <1>3, <3>3, <4>1
    <3> QED BY <3>2, <3>3
  <2>2. F = [s \in SUBSET D |-> F[s]]
    OBVIOUS
  <2> HIDE DEF F
  <2> QED BY <2>1, <2>2
<1>6. Def(iter)
  <2> HIDE DEF Def, F
  <2> QED BY <1>5
<1>7. Sums(iter, D, G, c)
  <2> HIDE DEF iter
  <2>1. \A s \in SUBSET D : iter[s] = IF s = {} THEN 0
                            ELSE f[CHOOSE x \in s : TRUE] + iter[s \ {CHOOSE x \in s : TRUE}]
    BY <1>6
  <2> HIDE DEF Def
  <2>2. \A s \in SUBSET D : iter[s] = IF s = {} THEN 0
                                      ELSE Cardinality(G[c[s]]) + iter[s \ {c[s]}]
    <3> TAKE s \in SUBSET D
    <3>1. CASE s = {}
      BY <2>1, <3>1
    <3>2. CASE s # {}
      <4>1. iter[s] = f[c[s]] + iter[s \ {c[s]}]
        BY <1>3, <2>1, <3>2
      <4> QED BY <1>3, <3>2, <4>1
    <3> QED BY <3>1, <3>2
  <2> QED BY <2>2 DEF Sums
<1> HIDE DEF iter
<1>8. iter[D] = Cardinality(PairsIn(D, G))
  BY <1>2, <1>7, SumIsCount
<1> QED BY <1>1, <1>8

-----------------------------------------------------------------------------
(* Lists of lists.                                                          *)
(* Where the elements of two lists are, one list after the other.           *)
LEMMA Concat ==
  ASSUME NEW R, NEW t \in Seq(R), NEW u \in Seq(R), NEW v, v = t \o u
  PROVE  /\ v \in Seq(R) /\ Len(v) = Len(t) + Len(u)
         /\ \A j \in 1 .. Len(t) : j \in 1 .. Len(v) /\ v[j] = t[j]
         /\ \A i \in 1 .. Len(u) : Len(t) + i \in 1 .. Len(v) /\ v[Len(t) + i] = u[i]
         /\ \A j \in 1 .. Len(v) :
              j \in 1 .. Len(t) \/ (j - Len(t) \in 1 .. Len(u) /\ v[j] = u[j - Len(t)])
<1>1. t \in Seq(R) /\ u \in Seq(R) /\ Len(t) \in Nat /\ Len(u) \in Nat
  OBVIOUS
<1>2. v \in Seq(R) /\ Len(v) = Len(t) + Len(u)
  BY <1>1
<1>3. \A j \in 1 .. Len(v) : v[j] = IF j <= Len(t) THEN t[j] ELSE u[j - Len(t)]
  BY <1>1
<1>4. \A j \in 1 .. Len(v) : \/ j \in 1 .. Len(t)
                             \/ j - Len(t) \in 1 .. Len(u) /\ ~(j <= Len(t))
  BY <1>1, <1>2
<1>5. \A i \in 1 .. Len(u) : /\ Len(t) + i \in 1 .. Len(v) /\ ~(Len(t) + i <= Len(t))
                             /\ (Len(t) + i) - Len(t) = i
  BY <1>1, <1>2
<1>6. \A j \in 1 .. Len(t) : j \in 1 .. Len(v) /\ j <= Len(t)
  BY <1>1, <1>2
<1>7. \A j \in 1 .. Len(t) : v[j] = t[j]
  BY <1>3, <1>6
<1>8. \A i \in 1 .. Len(u) : v[Len(t) + i] = u[i]
  <2> TAKE i \in 1 .. Len(u)
  <2> DEFINE j == Len(t) + i
  <2>1. j \in 1 .. Len(v) /\ ~(j <= Len(t)) /\ j - Len(t) = i
    BY <1>5
  <2> HIDE DEF j
  <2>2. v[j] = u[j - Len(t)]
    BY <1>3, <2>1
  <2> QED BY <2>1, <2>2 DEF j
<1>9. \A j \in 1 .. Len(v) : \/ j \in 1 .. Len(t)
                             \/ j - Len(t) \in 1 .. Len(u) /\ v[j] = u[j - Len(t)]
  <2> QED BY <1>3, <1>4
<1> QED BY <1>2, <1>5, <1>6, <1>7, <1>8, <1>9

Lengths(ss) == [k \in 1 .. Len(ss) |-> 1 .. Len(ss[k])]

\* t is the first n of the lists ss, one after another, as far as it matters.
Joins(t, n, ss, R) ==
  /\ t \in Seq(R)
  /\ Len(t) = Cardinality(PairsIn(1 .. n, Lengths(ss)))
  /\ \A j \in 1 .. Len(t) : \E k \in 1 .. n : \E i \in 1 .. Len(ss[k]) : t[j] = ss[k][i]
  /\ \A k \in 1 .. n : \A i \in 1 .. Len(ss[k]) : \E j \in 1 .. Len(t) : t[j] = ss[k][i]

LEMMA JoinsOneMore ==
  ASSUME NEW R, NEW ss \in Seq(Seq(R)), NEW n \in 1 .. Len(ss), NEW t, Joins(t, n - 1, ss, R)
  PROVE  Joins(t \o ss[n], n, ss, R)
<1> DEFINE u == ss[n]
           v == t \o u
           L == Lengths(ss)
<1>1. /\ Len(ss) \in Nat /\ n \in Nat /\ n - 1 \in Nat
      /\ u \in Seq(R) /\ t \in Seq(R) /\ Len(t) \in Nat /\ Len(u) \in Nat
  BY DEF Joins
<1>2. /\ \A k \in 1 .. n : k = n \/ k \in 1 .. (n - 1)
      /\ \A k \in 1 .. (n - 1) : k \in 1 .. n
      /\ n \in 1 .. n
  BY <1>1
<1>3. /\ v \in Seq(R) /\ Len(v) = Len(t) + Len(u)
      /\ \A j \in 1 .. Len(t) : j \in 1 .. Len(v) /\ v[j] = t[j]
      /\ \A i \in 1 .. Len(u) : Len(t) + i \in 1 .. Len(v) /\ v[Len(t) + i] = u[i]
      /\ \A j \in 1 .. Len(v) :
           j \in 1 .. Len(t) \/ (j - Len(t) \in 1 .. Len(u) /\ v[j] = u[j - Len(t)])
  <2> HIDE DEF u
  <2> QED BY <1>1, Concat
<1>4. Cardinality(PairsIn(1 .. n, L)) = Len(u) + Cardinality(PairsIn(1 .. (n - 1), L))
  <2>1. IsFiniteSet(1 .. n) /\ IsFiniteSet(1 .. Len(u)) /\ Cardinality(1 .. Len(u)) = Len(u)
    <3>1. 1 \in Int /\ n \in Int /\ Len(u) \in Int /\ (IF 1 > Len(u) THEN 0 ELSE Len(u) - 1 + 1) = Len(u)
      BY <1>1
    <3> QED BY <3>1, FS_Interval
  <2>2. FiniteParts(L, 1 .. n)
    <3> SUFFICES ASSUME NEW k \in 1 .. n PROVE IsFiniteSet(L[k])
      BY DEF FiniteParts
    <3>1. k \in 1 .. Len(ss) /\ Len(ss[k]) \in Nat /\ L[k] = 1 .. Len(ss[k])
      BY <1>1 DEF Lengths
    <3> QED BY <3>1, FS_Interval
  <2>3. L[n] = 1 .. Len(u)
    BY DEF Lengths
  <2>4. (1 .. n) \ {n} = 1 .. (n - 1)
    BY <1>1
  <2> HIDE DEF L, u
  <2>5. Cardinality(PairsIn(1 .. n, L)) = Cardinality(L[n]) + Cardinality(PairsIn((1 .. n) \ {n}, L))
    BY <1>2, <2>1, <2>2, PairsMore
  <2>6. Cardinality(L[n]) = Len(u)
    BY <2>1, <2>3
  <2> QED BY <2>4, <2>5, <2>6
<1>5. Len(v) = Cardinality(PairsIn(1 .. n, L))
  <2>1. Len(t) = Cardinality(PairsIn(1 .. (n - 1), L))
    BY DEF Joins
  <2> HIDE DEF v, L, u
  <2> QED BY <1>1, <1>3, <1>4, <2>1
<1>6. ASSUME NEW j \in 1 .. Len(v)
      PROVE  \E k \in 1 .. n : \E i \in 1 .. Len(ss[k]) : v[j] = ss[k][i]
  <2>1. CASE j \in 1 .. Len(t)
    <3>1. PICK k \in 1 .. (n - 1) : \E i \in 1 .. Len(ss[k]) : t[j] = ss[k][i]
      BY <2>1 DEF Joins
    <3> HIDE DEF v
    <3> QED BY <1>2, <1>3, <2>1, <3>1
  <2>2. CASE j \notin 1 .. Len(t)
    <3>1. j - Len(t) \in 1 .. Len(u) /\ v[j] = u[j - Len(t)]
      BY <1>3, <2>2
    <3> HIDE DEF v
    <3> QED BY <1>2, <3>1
  <2> QED BY <2>1, <2>2
<1>7. ASSUME NEW k \in 1 .. n, NEW i \in 1 .. Len(ss[k])
      PROVE  \E j \in 1 .. Len(v) : v[j] = ss[k][i]
  <2>1. CASE k = n
    <3> HIDE DEF v
    <3> QED BY <1>3, <2>1
  <2>2. CASE k \in 1 .. (n - 1)
    <3>1. PICK j \in 1 .. Len(t) : t[j] = ss[k][i]
      BY <2>2 DEF Joins
    <3> HIDE DEF v
    <3> QED BY <1>3, <3>1
  <2> QED BY <1>2, <2>1, <2>2
<1> HIDE DEF v
<1>8. v \in Seq(R)
  BY <1>3
<1> QED BY <1>5, <1>6, <1>7, <1>8 DEF Joins, v

LEMMA Flattened ==
  ASSUME NEW R, NEW ss \in Seq(Seq(R))
  PROVE  Joins(FlattenSeq(ss), Len(ss), ss, R)
<1> DEFINE N == Len(ss)
           A == Seq(R)
           F == [q \in (1 .. N) \X A |-> q[2] \o ss[q[1]]]
           Def(f) == f = [i \in 1 .. N |-> IF i = 1 THEN ss[i] ELSE f[i - 1] \o ss[i]]
           flat == CHOOSE f : Def(f)
<1>1. N \in Nat /\ \A i \in 1 .. N : ss[i] \in Seq(R)
  OBVIOUS
<1>2. Joins(<< >>, 0, ss, R)
  <2>1. PairsIn(1 .. 0, Lengths(ss)) = {}
    BY DEF PairsIn
  <2>2. Cardinality(PairsIn(1 .. 0, Lengths(ss))) = 0
    BY <2>1, FS_EmptySet
  <2> QED BY <2>2 DEF Joins
<1>3. CASE N = 0
  <2>1. ss = << >> /\ FlattenSeq(ss) = ss
    BY <1>3 DEF FlattenSeq
  <2> QED BY <1>2, <1>3, <2>1
<1>4. CASE N # 0
  <2>1. FlattenSeq(ss) = flat[N]
    BY <1>4 DEF FlattenSeq
  <2>2. F \in [(1 .. N) \X A -> A] /\ << >> \in A
    BY <1>1
  <2>3. PICK f : Carries(f, N, A, << >>, F)
    <3>1. LoopBody(F, N, A)
      BY <2>2 DEF LoopBody
    <3> HIDE DEF F, N, A
    <3> QED BY <1>1, <2>2, <3>1, Recursion
  <2> DEFINE g == [i \in 1 .. N |-> f[i]]
  <2>4. \A i \in 1 .. N : g[i] = IF i = 1 THEN ss[i] ELSE g[i - 1] \o ss[i]
    <3> TAKE i \in 1 .. N
    <3>1. i - 1 \in 0 .. N /\ (i # 1 => i - 1 \in 1 .. N)
      BY <1>1
    <3>2. f[i - 1] \in A /\ f[0] = << >> /\ f[i] = F[<<i, f[i - 1]>>]
      BY <2>3, <3>1 DEF Carries
    <3>3. f[i] = f[i - 1] \o ss[i]
      BY <3>2
    <3>4. CASE i = 1
      <4>1. f[i - 1] = << >> /\ ss[i] \in Seq(R)
        BY <1>1, <3>2, <3>4
      <4>2. << >> \o ss[i] = ss[i]
        BY <4>1
      <4> QED BY <3>3, <3>4, <4>1, <4>2
    <3>5. CASE i # 1
      BY <3>1, <3>3, <3>5
    <3> QED BY <3>4, <3>5
  <2> HIDE DEF g
  <2>5. Def(g)
    <3>1. g = [i \in 1 .. N |-> g[i]]
      BY DEF g
    <3> QED BY <2>4, <3>1
  <2>6. Def(flat)
    <3> HIDE DEF Def
    <3> QED BY <2>5
  <2> HIDE DEF flat
  <2>7. \A i \in 1 .. N : flat[i] = IF i = 1 THEN ss[i] ELSE flat[i - 1] \o ss[i]
    BY <2>6
  <2> HIDE DEF Def, F
  <2> DEFINE G == {n \in 0 .. N : n = 0 \/ Joins(flat[n], n, ss, R)}
  <2>8. 0 \in G
    BY <1>1
  <2>9. ASSUME NEW n \in 1 .. N, n - 1 \in G PROVE n \in G
    <3>1. n \in 0 .. N
      BY <1>1
    <3>2. CASE n = 1
      <4>0. Joins(<< >>, n - 1, ss, R)
        <5>1. n - 1 = 0
          BY <3>2
        <5> QED BY <1>2, <5>1
      <4>1. Joins(<< >> \o ss[n], n, ss, R)
        BY <4>0, JoinsOneMore
      <4>2. << >> \o ss[n] = ss[n]
        BY <1>1
      <4> QED BY <2>7, <3>1, <3>2, <4>1, <4>2
    <3>3. CASE n # 1
      <4>1. Joins(flat[n - 1], n - 1, ss, R)
        BY <1>1, <2>9, <3>3
      <4>2. Joins(flat[n - 1] \o ss[n], n, ss, R)
        BY <4>1, JoinsOneMore
      <4> QED BY <2>7, <3>1, <3>3, <4>2
    <3> QED BY <3>2, <3>3
  <2>10. N \in G
    <3> HIDE DEF G
    <3>1. \A n \in 0 .. N : n \in G
      BY <1>1, <2>8, <2>9, Counting
    <3> QED BY <1>1, <3>1
  <2> QED BY <1>4, <2>1, <2>10
<1> QED BY <1>3, <1>4
=============================================================================
