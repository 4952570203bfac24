----------------------------- MODULE Induction -----------------------------
(***************************************************************************)
(* Induction over the naturals and over sequences, for sets, and what it   *)
(* says of loops.  The theorems of the library take the formula to be      *)
(* shown as an operator; to take the set of the numbers, or sequences, for *)
(* which it holds is as good, and the well-foundedness of < gives it.      *)
(***************************************************************************)
EXTENDS Naturals, TLAPS, WellFoundedInduction, SequenceTheorems

(* A non-empty set of naturals has a least element.                        *)
LEMMA LeastNat ==
  ASSUME NEW T, T \subseteq Nat, T # {}
  PROVE  \E m \in T : \A k \in T : m <= k
<1>1. PICK m \in T : \A k \in T : ~(<<k, m>> \in OpToRel(<, Nat))
  BY WFMin, NatLessThanWellFounded
<1>2. \A k \in T : ~(k < m)
  BY <1>1 DEF OpToRel
<1>3. ASSUME NEW k \in T PROVE m <= k
  BY <1>2, <1>3, m \in Nat, k \in Nat
<1> QED BY <1>3

(* Induction up to n: what holds of 0 and passes from i to i + 1.           *)
LEMMA CountUp ==
  ASSUME NEW n \in Nat, NEW T, 0 \in T, \A i \in 0 .. n : i < n /\ i \in T => i + 1 \in T
  PROVE  \A i \in 0 .. n : i \in T
<1> SUFFICES ASSUME (0 .. n) \ T # {} PROVE FALSE
  OBVIOUS
<1>1. PICK m \in (0 .. n) \ T : \A k \in (0 .. n) \ T : m <= k
  <2>1. (0 .. n) \ T \subseteq Nat
    OBVIOUS
  <2> QED BY <2>1, LeastNat
<1>2. m # 0 /\ m - 1 \in 0 .. n /\ m - 1 < n
  BY <1>1
<1>3. m - 1 \in T
  BY <1>1, <1>2
<1>4. (m - 1) + 1 \in T
  BY <1>2, <1>3
<1> QED BY <1>1, <1>2, <1>4

(* h is what k rounds of a loop make of base.                              *)
Runs(h, k, base, step) ==
  h[0] = base /\ \A i \in 1 .. k : h[i] = step[<<h[i - 1], i>>]

(* A loop whose rounds stay within S has a run of any length in S, so that *)
(* the recursive function that defines it is what its equation says.       *)
LEMMA Iterated ==
  ASSUME NEW n \in Nat, NEW S, NEW base \in S, NEW step \in [S \X (1 .. n) -> S]
  PROVE  \E h \in [0 .. n -> S] : Runs(h, n, base, step)
<1> DEFINE T == {k \in 0 .. n : \E h \in [0 .. k -> S] : Runs(h, k, base, step)}
<1>1. 0 \in T
  <2>1. [i \in 0 .. 0 |-> base] \in [0 .. 0 -> S] /\ Runs([i \in 0 .. 0 |-> base], 0, base, step)
    BY DEF Runs
  <2>2. \E h \in [0 .. 0 -> S] : Runs(h, 0, base, step)
    BY <2>1
  <2> QED BY <2>2
<1>2. ASSUME NEW k \in 0 .. n, k < n, k \in T PROVE k + 1 \in T
  <2>1. PICK h \in [0 .. k -> S] : Runs(h, k, base, step)
    BY <1>2
  <2> DEFINE g == [i \in 0 .. k + 1 |-> IF i = k + 1 THEN step[<<h[k], k + 1>>] ELSE h[i]]
  <2>2. k + 1 \in 1 .. n /\ k \in 0 .. k
    BY <1>2
  <2>3. h[k] \in S
    BY <2>2
  <2>4. step[<<h[k], k + 1>>] \in S
    BY <2>2, <2>3
  <2>5. g \in [0 .. k + 1 -> S]
    <3>1. ASSUME NEW i \in 0 .. k + 1, i # k + 1 PROVE h[i] \in S
      <4>1. i \in 0 .. k
        BY <3>1
      <4> QED BY <4>1
    <3> QED BY <2>4, <3>1
  <2>6. g[0] = base
    BY <2>1 DEF Runs
  <2>7. ASSUME NEW i \in 1 .. k + 1 PROVE g[i] = step[<<g[i - 1], i>>]
    <3>1. CASE i = k + 1
      <4>1. g[k + 1] = step[<<h[k], k + 1>>] /\ g[k] = h[k]
        BY <2>2
      <4>2. i - 1 = k
        BY <3>1
      <4> HIDE DEF g
      <4> QED BY <3>1, <4>1, <4>2
    <3>2. CASE i # k + 1
      <4>1. /\ i \in 1 .. k /\ i - 1 \in 0 .. k /\ i - 1 # k + 1
            /\ i \in 0 .. k + 1 /\ i - 1 \in 0 .. k + 1
        BY <3>2
      <4>2. g[i] = h[i] /\ g[i - 1] = h[i - 1]
        BY <4>1, <3>2
      <4> QED BY <4>1, <4>2, <2>1 DEF Runs
    <3> QED BY <3>1, <3>2
  <2>8. Runs(g, k + 1, base, step)
    BY <2>6, <2>7 DEF Runs
  <2>9. \E f \in [0 .. k + 1 -> S] : Runs(f, k + 1, base, step)
    BY <2>5, <2>8
  <2> QED BY <2>9, <2>2
<1> HIDE DEF T
<1>3. n \in T
  BY <1>1, <1>2, CountUp
<1> QED BY <1>3 DEF T

-----------------------------------------------------------------------------
(* A sequence that is not empty is one shorter with an element after it.   *)
LEMMA Shorter ==
  ASSUME NEW X, NEW s \in Seq(X), NEW n \in 1 .. Len(s)
  PROVE  /\ SubSeq(s, 1, n - 1) \in Seq(X) /\ Len(SubSeq(s, 1, n - 1)) = n - 1
         /\ s[n] \in X
         /\ SubSeq(s, 1, n) = Append(SubSeq(s, 1, n - 1), s[n])
<1>1. n \in Nat /\ Len(s) \in Nat /\ n <= Len(s) /\ 1 <= n
  OBVIOUS
<1>2. \A i \in 1 .. Len(s) : s[i] \in X
  OBVIOUS
<1>3. \A k \in 0 .. Len(s) : SubSeq(s, 1, k) \in Seq(X) /\ Len(SubSeq(s, 1, k)) = k
  <2>1. ASSUME NEW k \in 0 .. Len(s)
        PROVE  SubSeq(s, 1, k) \in Seq(X) /\ Len(SubSeq(s, 1, k)) = k
    <3>1. k \in Int /\ 1 \in Int /\ \A i \in 1 .. k : s[i] \in X
      BY <1>1, <1>2
    <3>2. /\ SubSeq(s, 1, k) \in Seq(X)
          /\ Len(SubSeq(s, 1, k)) = IF 1 <= k THEN k - 1 + 1 ELSE 0
      BY <3>1, SubSeqProperties
    <3> QED BY <3>2
  <2> QED BY <2>1
<1>4. SubSeq(s, 1, n) = SubSeq(s, 1, n - 1) \o <<s[n]>>
  <2>1. 1 \in 1 .. Len(s) /\ n \in 1 .. Len(s)
    BY <1>1
  <2> QED BY <2>1, SubSeqRecursiveSecond
<1>5. n - 1 \in 0 .. Len(s)
  BY <1>1
<1>6. s[n] \in X
  BY <1>2
<1>7. Append(SubSeq(s, 1, n - 1), s[n]) = SubSeq(s, 1, n - 1) \o <<s[n]>>
  BY <1>3, <1>5, <1>6, AppendIsConcat
<1> QED BY <1>3, <1>4, <1>5, <1>6, <1>7

(* Induction over sequences, element by element.                           *)
LEMMA SequenceByElement ==
  ASSUME NEW X, NEW T, <<>> \in T,
         \A s \in Seq(X), x \in X : s \in T => Append(s, x) \in T
  PROVE  \A s \in Seq(X) : s \in T
<1> SUFFICES ASSUME NEW s \in Seq(X) PROVE s \in T
  OBVIOUS
<1> DEFINE P == {k \in 0 .. Len(s) : SubSeq(s, 1, k) \in T}
<1>0. Len(s) \in Nat /\ 0 \in 0 .. Len(s) /\ Len(s) \in 0 .. Len(s)
  OBVIOUS
<1>1. 0 \in P
  <2>1. SubSeq(s, 1, 0) = <<>>
    BY SubSeqEmpty
  <2> QED BY <1>0, <2>1
<1>2. ASSUME NEW k \in 0 .. Len(s), k < Len(s), k \in P PROVE k + 1 \in P
  <2>1. k + 1 \in 1 .. Len(s) /\ (k + 1) - 1 = k /\ k + 1 \in 0 .. Len(s)
    BY <1>2
  <2>2. /\ SubSeq(s, 1, k) \in Seq(X) /\ s[k + 1] \in X
        /\ SubSeq(s, 1, k + 1) = Append(SubSeq(s, 1, k), s[k + 1])
    BY <2>1, Shorter
  <2> QED BY <1>2, <2>1, <2>2
<1> HIDE DEF P
<1>3. \A k \in 0 .. Len(s) : k \in P
  BY <1>0, <1>1, <1>2, CountUp
<1>4. SubSeq(s, 1, Len(s)) = s
  BY SubSeqFull
<1>5. Len(s) \in P
  BY <1>0, <1>3
<1> QED BY <1>4, <1>5 DEF P

(* A recursive function over the prefixes of a sequence computes, at its   *)
(* end, a function of the sequence that an element more takes one step on. *)
RunsOver(f, s, base, step, S) ==
  /\ f[0] = base
  /\ \A n \in 1 .. Len(s) : f[n - 1] \in S => f[n] = step[<<f[n - 1], s[n]>>]

IsFold(F, X, S, base, step) ==
  /\ F[<<>>] = base
  /\ \A s \in Seq(X), x \in X : F[Append(s, x)] = step[<<F[s], x>>]
  /\ \A s \in Seq(X) :
       /\ \E h \in [0 .. Len(s) -> S] :
            h[0] = base /\ \A n \in 1 .. Len(s) : h[n] = step[<<h[n - 1], s[n]>>]
       /\ \A f : RunsOver(f, s, base, step, S) => f[Len(s)] = F[s]

LEMMA Folded ==
  ASSUME NEW X, NEW S, NEW base \in S, NEW step \in [S \X X -> S]
  PROVE  \E F \in [Seq(X) -> S] : IsFold(F, X, S, base, step)
<1> DEFINE IsRun(h, s) ==
             /\ h[0] = base
             /\ \A n \in 1 .. Len(s) : h[n] = step[<<h[n - 1], s[n]>>]
<1>1. ASSUME NEW s \in Seq(X) PROVE \E h \in [0 .. Len(s) -> S] : IsRun(h, s)
  <2> DEFINE m == Len(s)
             turn == [y \in S \X (1 .. m) |-> step[<<y[1], s[y[2]]>>]]
  <2>1. m \in Nat /\ \A i \in 1 .. m : s[i] \in X
    OBVIOUS
  <2> HIDE DEF m
  <2>2. turn \in [S \X (1 .. m) -> S]
    BY <2>1
  <2>3. PICK h \in [0 .. m -> S] : Runs(h, m, base, turn)
    BY <2>1, <2>2, Iterated
  <2>4. ASSUME NEW n \in 1 .. m PROVE h[n] = step[<<h[n - 1], s[n]>>]
    <3>1. n - 1 \in 0 .. m
      BY <2>1
    <3>2. h[n - 1] \in S /\ h[n] = turn[<<h[n - 1], n>>]
      BY <2>3, <3>1 DEF Runs
    <3> QED BY <3>2
  <2>5. h[0] = base
    BY <2>3 DEF Runs
  <2> QED BY <2>4, <2>5 DEF m
<1> DEFINE run == [s \in Seq(X) |-> CHOOSE h \in [0 .. Len(s) -> S] : IsRun(h, s)]
           F == [s \in Seq(X) |-> run[s][Len(s)]]
<1>2. ASSUME NEW s \in Seq(X) PROVE run[s] \in [0 .. Len(s) -> S] /\ IsRun(run[s], s)
  <2> HIDE DEF IsRun
  <2>1. run[s] = CHOOSE h \in [0 .. Len(s) -> S] : IsRun(h, s)
    OBVIOUS
  <2> QED BY <1>1, <2>1
<1> HIDE DEF run
<1>3. F \in [Seq(X) -> S]
  <2>1. ASSUME NEW s \in Seq(X) PROVE run[s][Len(s)] \in S
    <3>1. Len(s) \in 0 .. Len(s)
      OBVIOUS
    <3> QED BY <1>2, <3>1
  <2> QED BY <2>1
<1>4. F[<<>>] = base
  <2>1. <<>> \in Seq(X) /\ Len(<<>>) = 0
    BY EmptySeq
  <2> QED BY <1>2, <2>1
<1>5. ASSUME NEW s \in Seq(X), NEW f, RunsOver(f, s, base, step, S),
             NEW t \in Seq(X), Len(t) <= Len(s), \A i \in 1 .. Len(t) : t[i] = s[i]
      PROVE  f[Len(t)] = F[t]
  <2> DEFINE g == run[t]
             P == {n \in 0 .. Len(t) : f[n] = g[n]}
  <2>0. Len(s) \in Nat /\ Len(t) \in Nat /\ Len(t) <= Len(s)
    BY <1>5
  <2>1. g \in [0 .. Len(t) -> S] /\ g[0] = base
        /\ \A n \in 1 .. Len(t) : g[n] = step[<<g[n - 1], t[n]>>]
    BY <1>2
  <2>2. F[t] = g[Len(t)]
    OBVIOUS
  <2> HIDE DEF g
  <2>3. 0 \in P
    BY <1>5, <2>0, <2>1 DEF RunsOver
  <2>4. ASSUME NEW n \in 0 .. Len(t), n < Len(t), n \in P PROVE n + 1 \in P
    <3>1. /\ n + 1 \in 1 .. Len(t) /\ n + 1 \in 1 .. Len(s) /\ (n + 1) - 1 = n
          /\ n + 1 \in 0 .. Len(t)
      BY <2>0, <2>4
    <3>2. f[n] = g[n] /\ g[n] \in S
      BY <2>1, <2>4
    <3>3. f[n + 1] = step[<<f[n], s[n + 1]>>]
      BY <1>5, <3>1, <3>2 DEF RunsOver
    <3>4. g[n + 1] = step[<<g[n], t[n + 1]>>] /\ t[n + 1] = s[n + 1]
      BY <1>5, <2>1, <3>1
    <3> QED BY <3>1, <3>2, <3>3, <3>4
  <2> HIDE DEF P
  <2>5. \A n \in 0 .. Len(t) : n \in P
    BY <2>0, <2>3, <2>4, CountUp
  <2>6. Len(t) \in P
    BY <2>0, <2>5
  <2> QED BY <2>2, <2>6 DEF P
<1>6. ASSUME NEW s \in Seq(X) PROVE RunsOver(run[s], s, base, step, S)
  BY <1>2 DEF RunsOver
<1>7. ASSUME NEW s \in Seq(X), NEW x \in X PROVE F[Append(s, x)] = step[<<F[s], x>>]
  <2> DEFINE t == Append(s, x)
  <2>1. /\ t \in Seq(X) /\ Len(t) = Len(s) + 1 /\ t[Len(s) + 1] = x
        /\ \A i \in 1 .. Len(s) : s[i] = t[i]
    BY AppendProperties
  <2> HIDE DEF t
  <2>2. Len(s) \in Nat /\ Len(s) <= Len(t) /\ Len(t) \in 1 .. Len(t) /\ Len(t) - 1 = Len(s)
        /\ Len(t) \in 0 .. Len(t)
    BY <2>1
  <2>3. RunsOver(run[t], t, base, step, S)
    BY <1>6, <2>1
  <2> HIDE DEF F
  <2>4. run[t][Len(s)] = F[s]
    BY <1>5, <2>1, <2>2, <2>3
  <2>5. run[t][Len(t)] = step[<<run[t][Len(t) - 1], t[Len(t)]>>]
    BY <1>2, <2>1, <2>2
  <2>6. F[t] = run[t][Len(t)]
    BY <2>1 DEF F
  <2> QED BY <2>1, <2>2, <2>4, <2>5, <2>6 DEF t
<1>8. ASSUME NEW s \in Seq(X), NEW f, RunsOver(f, s, base, step, S) PROVE f[Len(s)] = F[s]
  <2>1. Len(s) \in Nat /\ Len(s) <= Len(s)
    OBVIOUS
  <2> HIDE DEF F
  <2> QED BY <1>5, <1>8, <2>1
<1> HIDE DEF F
<1>9. \A s \in Seq(X) :
                /\ \E h \in [0 .. Len(s) -> S] :
                     /\ h[0] = base
                     /\ \A n \in 1 .. Len(s) : h[n] = step[<<h[n - 1], s[n]>>]
                /\ \A f : RunsOver(f, s, base, step, S) => f[Len(s)] = F[s]
  BY <1>1, <1>8
<1> QED BY <1>3, <1>4, <1>7, <1>9 DEF IsFold
=============================================================================
