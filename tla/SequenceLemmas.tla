---------------------------- MODULE SequenceLemmas ----------------------------
(***************************************************************************)
(* Lemmas about the library operators the models are built from, for       *)
(* sequences of every length: FlattenSeq and what FoldLeft is defined by.  *)
(*                                                                         *)
(* The induction theorems of the library have an operator as parameter.    *)
(* Induction is stated here with the set of the numbers that have the      *)
(* property instead, and recursion with a function for the step, so that   *)
(* the lemmas can be cited like any other; they rest on the fact that the  *)
(* natural numbers are well ordered.                                       *)
(***************************************************************************)
EXTENDS Integers, SequencesExt, SequenceTheorems, WellFoundedInduction, TLAPS

-----------------------------------------------------------------------------
(* Induction and recursion                                                 *)

(* Every nonempty set of natural numbers has a least element.              *)
LEMMA Least ==
    ASSUME NEW T \in SUBSET Nat, T # {}
    PROVE  \E x \in T : \A y \in T : x <= y
<1>1. IsWellFoundedOn(OpToRel(<,Nat), Nat)
  BY NatLessThanWellFounded
<1>2. PICK x \in T : \A y \in T : ~(<<y,x>> \in OpToRel(<,Nat))
  BY <1>1, WFMin
<1>3. \A y \in T : ~(y < x)
  BY <1>2 DEF OpToRel
<1> QED BY <1>3

(* A set that has 0, and with a number the next one, has all of them.      *)
LEMMA Induction ==
    ASSUME NEW S, 0 \in S, \A n \in Nat : n \in S => n+1 \in S
    PROVE  Nat \subseteq S
<1> SUFFICES ASSUME NEW n \in Nat, n \notin S PROVE FALSE
  OBVIOUS
<1> DEFINE T == {m \in Nat : m \notin S}
<1>1. PICK x \in T : \A y \in T : x <= y
  BY Least
<1>2. x # 0
  BY DEF T
<1>3. x - 1 \in Nat /\ x - 1 \notin T
  BY <1>1, <1>2
<1> QED BY <1>3

(* The first n values of what starts with base and goes on by the steps.   *)
IsRun(g, n, V, base, step) ==
    /\ g \in [0 .. n -> V] /\ g[0] = base
    /\ \A i \in 0 .. n - 1 : g[i + 1] = step[i][g[i]]

(* The whole of it.                                                        *)
IsFold(f, V, base, step) ==
    f \in [Nat -> V] /\ f[0] = base /\ \A n \in Nat : f[n + 1] = step[n][f[n]]

(* What is defined by primitive recursion exists.                          *)
LEMMA PrimRec ==
    ASSUME NEW V, NEW base \in V, NEW step \in [Nat -> [V -> V]]
    PROVE  \E f : IsFold(f, V, base, step)
<1> DEFINE S == {n \in Nat : \E g : IsRun(g, n, V, base, step)}
<1>1. Nat \subseteq S
  <2>1. 0 \in S
    <3>1. IsRun([i \in 0 .. 0 |-> base], 0, V, base, step)
      BY DEF IsRun
    <3> QED BY <3>1
  <2>2. ASSUME NEW n \in Nat, n \in S PROVE n + 1 \in S
    <3>1. PICK g : IsRun(g, n, V, base, step)
      BY <2>2
    <3> DEFINE h == [i \in 0 .. n + 1 |-> IF i = n + 1 THEN step[n][g[n]] ELSE g[i]]
    <3>2. h \in [0 .. n + 1 -> V] /\ h[0] = base
      BY <3>1 DEF IsRun
    <3>3. ASSUME NEW i \in 0 .. n PROVE h[i + 1] = step[i][h[i]]
      BY <3>1 DEF IsRun
    <3> HIDE DEF h
    <3>4. IsRun(h, n + 1, V, base, step)
      BY <3>2, <3>3 DEF IsRun
    <3> QED BY <3>4
  <2> HIDE DEF S
  <2> QED BY <2>1, <2>2, Induction
<1>2. ASSUME NEW n \in Nat, NEW g, NEW m \in Nat, NEW h,
             IsRun(g, n, V, base, step), IsRun(h, m, V, base, step)
      PROVE  \A i \in Nat : i <= n /\ i <= m => g[i] = h[i]
  <2> DEFINE E == {i \in Nat : i <= n /\ i <= m => g[i] = h[i]}
  <2>1. 0 \in E
    BY <1>2 DEF IsRun
  <2>2. ASSUME NEW i \in Nat, i \in E PROVE i + 1 \in E
    BY <1>2, <2>2 DEF IsRun
  <2> HIDE DEF E
  <2>3. Nat \subseteq E
    BY <2>1, <2>2, Induction
  <2> QED BY <2>3 DEF E
<1> DEFINE run(n) == CHOOSE g : IsRun(g, n, V, base, step)
           f == [n \in Nat |-> run(n)[n]]
<1>3. \A n \in Nat : IsRun(run(n), n, V, base, step)
  BY <1>1
<1> HIDE DEF run
<1>4. f \in [Nat -> V] /\ f[0] = base
  BY <1>3 DEF IsRun
<1>5. ASSUME NEW n \in Nat PROVE f[n + 1] = step[n][f[n]]
  <2>1. run(n + 1)[n] = run(n)[n]
    BY <1>2, <1>3
  <2>2. run(n + 1)[n + 1] = step[n][run(n + 1)[n]]
    BY <1>3 DEF IsRun
  <2> QED BY <2>1, <2>2
<1> HIDE DEF f
<1>6. IsFold(f, V, base, step)
  BY <1>4, <1>5 DEF IsFold
<1> QED BY <1>6

-----------------------------------------------------------------------------
(* Sequences of sequences                                                  *)

(* Two sequences of one element each give the pair of the elements.        *)
LEMMA Pair ==
    ASSUME NEW T, NEW a \in T, NEW b \in T
    PROVE  <<a>> \o <<b>> = <<a, b>>
<1>1. <<a>> \in Seq(T) /\ <<b>> \in Seq(T) /\ <<a, b>> \in Seq(T)
  OBVIOUS
<1> DEFINE s == <<a>> \o <<b>>
<1>2. s \in Seq(T) /\ Len(s) = 2
  BY <1>1
<1>3. s[1] = a
  BY <1>1
<1>4. s[2] = b
  BY <1>1
<1> HIDE DEF s
<1>5. \A i \in 1 .. 2 : s[i] = <<a, b>>[i]
  BY <1>3, <1>4
<1>6. s = <<a, b>>
  BY <1>1, <1>2, <1>5, SeqEqual
<1> QED BY <1>6 DEF s

(* FlattenSeq() is its own recursive function, and gives a sequence.       *)
LEMMA FlattenIsFold ==
    ASSUME NEW T, NEW s \in Seq(Seq(T)), s # <<>>
    PROVE  \E f \in [1 .. Len(s) -> Seq(T)] :
              /\ f[1] = s[1] /\ \A i \in 2 .. Len(s) : f[i] = f[i - 1] \o s[i]
              /\ FlattenSeq(s) = f[Len(s)]
<1> DEFINE V == Seq(T)
           step == [n \in Nat |-> [v \in V |->
                      IF n + 2 \in 1 .. Len(s) THEN v \o s[n + 2] ELSE v]]
<1>1. step \in [Nat -> [V -> V]] /\ s[1] \in V
  OBVIOUS
<1>a. \A n \in Nat : \A v \in V : n + 2 <= Len(s) => step[n][v] = v \o s[n + 2]
  OBVIOUS
<1>0. Len(s) \in Nat /\ Len(s) >= 1 /\ \A i \in 1 .. Len(s) : s[i] \in Seq(T)
  OBVIOUS
<1> DEFINE base == s[1]
<1>c. base \in V
  BY <1>1
<1> HIDE DEF step, V, base
<1>d. PICK g : IsFold(g, V, base, step)
  BY <1>1, <1>c, PrimRec
<1>2. g \in [Nat -> V] /\ g[0] = s[1] /\ \A n \in Nat : g[n + 1] = step[n][g[n]]
  BY <1>d DEF base, IsFold
<1>b. \A n \in Nat : n + 2 <= Len(s) => g[n + 1] = g[n] \o s[n + 2]
  BY <1>a, <1>2
<1> DEFINE h == [i \in 1 .. Len(s) |-> g[i - 1]]
           Rec(f) == f = [i \in 1 .. Len(s) |-> IF i = 1 THEN s[i] ELSE f[i-1] \o s[i]]
           f0 == CHOOSE f : Rec(f)
<1>3. ASSUME NEW i \in 1 .. Len(s) PROVE h[i] = IF i = 1 THEN s[i] ELSE h[i-1] \o s[i]
  <2>1. CASE i = 1
    BY <1>2, <2>1
  <2>2. CASE i # 1
    <3>1. i - 2 \in Nat /\ i - 1 \in 1 .. Len(s) /\ (i - 2) + 1 = i - 1 /\ (i - 2) + 2 = i
      BY <2>2
    <3>2. (i - 2) + 2 <= Len(s)
      BY <1>0
    <3> DEFINE k == i - 2
    <3>3. g[k + 1] = g[k] \o s[k + 2]
      <4> HIDE DEF k
      <4> QED BY <1>b, <3>1, <3>2 DEF k
    <3>4. g[i - 1] = g[i - 2] \o s[i]
      BY <3>1, <3>3
    <3>5. h[i] = g[i - 1] /\ h[i - 1] = g[i - 2]
      <4>1. (i - 1) - 1 = i - 2
        OBVIOUS
      <4> QED BY <3>1, <4>1
    <3> HIDE DEF h
    <3> QED BY <2>2, <3>4, <3>5
  <2> QED BY <2>1, <2>2
<1>4. Rec(h)
  <2> h = [i \in 1 .. Len(s) |-> h[i]]
    OBVIOUS
  <2> HIDE DEF h
  <2> QED BY <1>3
<1> HIDE DEF h
<1>5. Rec(f0)
  BY <1>4
<1>6. FlattenSeq(s) = f0[Len(s)]
  BY DEF FlattenSeq
<1>7. \A i \in 1 .. Len(s) : f0[i] = IF i = 1 THEN s[i] ELSE f0[i-1] \o s[i]
  BY <1>5
<1> DEFINE E == {i \in Nat : i + 1 \in 1 .. Len(s) => f0[i + 1] \in Seq(T)}
<1> HIDE DEF f0
<1>8. 0 \in E
  BY <1>7
<1>9. ASSUME NEW i \in Nat, i \in E PROVE i + 1 \in E
  <2>1. CASE i + 2 \in 1 .. Len(s)
    <3>1. i + 1 \in 1 .. Len(s) /\ i + 2 # 1 /\ (i + 2) - 1 = i + 1 /\ (i + 1) + 1 = i + 2
      BY <2>1, <1>0
    <3>2. f0[i + 2] = f0[i + 1] \o s[i + 2]
      BY <1>7, <2>1, <3>1
    <3>3. f0[i + 1] \in Seq(T) /\ s[i + 2] \in Seq(T)
      BY <1>9, <1>0, <2>1, <3>1
    <3>4. f0[i + 2] \in Seq(T)
      BY <3>2, <3>3
    <3> QED BY <3>1, <3>4
  <2>2. CASE i + 2 \notin 1 .. Len(s)
    BY <1>0, <2>2
  <2> QED BY <2>1, <2>2
<1> HIDE DEF E
<1>10. Nat \subseteq E
  BY <1>8, <1>9, Induction
<1>11. ASSUME NEW i \in 1 .. Len(s) PROVE f0[i] \in Seq(T)
  <2>1. i - 1 \in Nat /\ (i - 1) + 1 = i
    BY <1>0
  <2>2. i - 1 \in E
    BY <1>10, <2>1
  <2> QED BY <2>1, <2>2 DEF E
<1>12. f0 = [i \in 1 .. Len(s) |-> f0[i]]
  BY <1>5
<1>13. f0 \in [1 .. Len(s) -> Seq(T)]
  BY <1>11, <1>12
<1>14. f0[1] = s[1]
  BY <1>7, <1>0
<1>15. ASSUME NEW i \in 2 .. Len(s) PROVE f0[i] = f0[i - 1] \o s[i]
  <2>1. i \in 1 .. Len(s) /\ i # 1
    BY <1>0
  <2> QED BY <1>7, <2>1
<1> QED BY <1>6, <1>13, <1>14, <1>15

(* No sequences in a row are the empty sequence.                           *)
LEMMA FlattenEmpty == FlattenSeq(<<>>) = <<>>
  BY DEF FlattenSeq

(* Sequences over a set in a row are a sequence over that set.             *)
LEMMA FlattenType ==
    ASSUME NEW T, NEW s \in Seq(Seq(T))
    PROVE  FlattenSeq(s) \in Seq(T)
<1>1. CASE s = <<>>
  <2>1. <<>> \in Seq(T)
    OBVIOUS
  <2> QED BY <1>1, <2>1, FlattenEmpty
<1>2. CASE s # <<>>
  <2>1. PICK f \in [1 .. Len(s) -> Seq(T)] : FlattenSeq(s) = f[Len(s)]
    BY <1>2, FlattenIsFold
  <2>2. Len(s) \in 1 .. Len(s)
    BY <1>2
  <2>3. f[Len(s)] \in Seq(T)
    BY <2>2
  <2> QED BY <2>1, <2>3
<1> QED BY <1>1, <1>2

(* One sequence more is one sequence more behind what there was.           *)
LEMMA FlattenAppend ==
    ASSUME NEW T, NEW s \in Seq(Seq(T)), NEW a \in Seq(T)
    PROVE  FlattenSeq(Append(s, a)) = FlattenSeq(s) \o a
<1> DEFINE r == Append(s, a)
           n == Len(s)
<1>1. /\ r \in Seq(Seq(T)) /\ r # <<>> /\ Len(r) = n + 1 /\ r[n + 1] = a /\ n \in Nat
      /\ \A i \in 1 .. n : r[i] = s[i]
  <2> DEFINE S == Seq(T)
  <2> s \in Seq(S) /\ a \in S
    OBVIOUS
  <2> HIDE DEF S
  <2>1. r \in Seq(S) /\ r # <<>> /\ Len(r) = n + 1 /\ r[n + 1] = a /\ n \in Nat
    OBVIOUS
  <2>2. \A i \in 1 .. n : r[i] = s[i]
    OBVIOUS
  <2> QED BY <2>1, <2>2 DEF S
<1> HIDE DEF r
<1>2. PICK g \in [1 .. Len(r) -> Seq(T)] :
          /\ g[1] = r[1] /\ \A i \in 2 .. Len(r) : g[i] = g[i - 1] \o r[i]
          /\ FlattenSeq(r) = g[Len(r)]
  BY <1>1, FlattenIsFold
<1>3. CASE s = <<>>
  <2>1. n = 0 /\ FlattenSeq(s) = <<>>
    BY <1>3, FlattenEmpty
  <2>2. FlattenSeq(r) = a
    BY <1>1, <1>2, <2>1
  <2> QED BY <2>1, <2>2 DEF r
<1>4. CASE s # <<>>
  <2>1. PICK f \in [1 .. Len(s) -> Seq(T)] :
            /\ f[1] = s[1] /\ \A i \in 2 .. Len(s) : f[i] = f[i - 1] \o s[i]
            /\ FlattenSeq(s) = f[Len(s)]
    BY <1>4, FlattenIsFold
  <2> DEFINE E == {k \in Nat : k + 1 <= n => g[k + 1] = f[k + 1]}
  <2>n. n >= 1
    BY <1>4
  <2>2. 0 \in E
    BY <1>1, <1>2, <2>1, <2>n
  <2>3. ASSUME NEW k \in Nat, k \in E PROVE k + 1 \in E
    <3>1. CASE k + 2 <= n
      <4>1. /\ k + 2 \in 2 .. Len(r) /\ k + 2 \in 2 .. Len(s) /\ k + 2 \in 1 .. n
            /\ (k + 2) - 1 = k + 1 /\ (k + 1) + 1 = k + 2
        BY <1>1, <3>1
      <4>2. g[k + 1] = f[k + 1]
        BY <2>3, <3>1, <1>1
      <4>3. g[k + 2] = g[k + 1] \o r[k + 2] /\ f[k + 2] = f[k + 1] \o s[k + 2]
        BY <1>2, <2>1, <4>1
      <4>4. g[k + 2] = f[k + 2]
        BY <1>1, <4>1, <4>2, <4>3
      <4> QED BY <4>1, <4>4
    <3>2. CASE ~(k + 2 <= n)
      BY <1>1, <3>2
    <3> QED BY <3>1, <3>2
  <2> HIDE DEF E
  <2>i. Nat \subseteq E
    BY <2>2, <2>3, Induction
  <2>4. n - 1 \in E
    BY <1>1, <2>i, <2>n
  <2>5. g[n] = f[n]
    BY <1>1, <2>4, <2>n DEF E
  <2>6. n + 1 \in 2 .. Len(r) /\ (n + 1) - 1 = n
    BY <1>1, <2>n
  <2>7. FlattenSeq(r) = g[n] \o a
    BY <1>1, <1>2, <2>6
  <2> QED BY <2>1, <2>5, <2>7 DEF r
<1> QED BY <1>3, <1>4

(* A sequence alone is itself.                                             *)
LEMMA FlattenOne ==
    ASSUME NEW T, NEW a \in Seq(T)
    PROVE  FlattenSeq(<<a>>) = a
<1>1. <<>> \in Seq(Seq(T)) /\ <<a>> = Append(<<>>, a) /\ <<>> \o a = a
  OBVIOUS
<1> QED BY <1>1, FlattenAppend, FlattenEmpty

(* Two sequences in a row.                                                 *)
LEMMA FlattenTwo ==
    ASSUME NEW T, NEW a \in Seq(T), NEW b \in Seq(T)
    PROVE  FlattenSeq(<<a, b>>) = a \o b
<1>1. <<a>> \in Seq(Seq(T)) /\ <<a, b>> = Append(<<a>>, b)
  OBVIOUS
<1> QED BY <1>1, FlattenAppend, FlattenOne

-----------------------------------------------------------------------------
(* Folds                                                                   *)

(* The element that a fold from the left takes off last.                   *)
LEMMA Highest ==
    ASSUME NEW n \in Nat, NEW s \in SUBSET (1 .. n), s # {}
    PROVE  Max(s) \in s /\ \A y \in s : y <= Max(s)
<1> DEFINE T == {m \in Nat : n - m \in s}
<1>1. T \in SUBSET Nat /\ \A y \in s : n - y \in T
  <2>1. ASSUME NEW y \in s PROVE n - y \in Nat /\ n - (n - y) = y
    OBVIOUS
  <2> QED BY <2>1
<1>2. T # {}
  BY <1>1
<1> HIDE DEF T
<1>3. PICK t \in T : \A y \in T : t <= y
  BY <1>1, <1>2, Least
<1>4. t \in Nat /\ n - t \in s
  BY <1>3 DEF T
<1>5. \A y \in s : n - t >= y
  BY <1>1, <1>3, <1>4
<1> QED BY <1>4, <1>5 DEF Max

(* The function that FoldLeft() defines on the sets of indices.            *)
IsSetFold(f, n, V, base, item) ==
    /\ f \in [SUBSET (1 .. n) -> V] /\ f[{}] = base
    /\ \A s \in SUBSET (1 .. n) : s # {} => f[s] = item[Max(s)][f[s \ {Max(s)}]]

(* That function exists, whatever the items do to the value.               *)
LEMMA SetFold ==
    ASSUME NEW n \in Nat, NEW V, NEW base \in V, NEW item \in [1 .. n -> [V -> V]]
    PROVE  \E f : IsSetFold(f, n, V, base, item)
<1> DEFINE W == [SUBSET (1 .. n) -> V]
           none == [s \in SUBSET (1 .. n) |-> base]
           taking(m, w) == [s \in SUBSET (1 .. n) |->
                              IF m \in s THEN item[m][w[s]] ELSE w[s]]
           step == [m \in Nat |-> [w \in W |-> taking(m + 1, w)]]
<1>1. none \in W /\ \A s \in SUBSET (1 .. n) : none[s] = base
  OBVIOUS
<1>2. ASSUME NEW m \in Nat, NEW w \in W PROVE taking(m + 1, w) \in W
  <2>1. ASSUME NEW s \in SUBSET (1 .. n)
        PROVE  (IF m + 1 \in s THEN item[m + 1][w[s]] ELSE w[s]) \in V
    <3>1. w[s] \in V
      OBVIOUS
    <3>2. m + 1 \in s => item[m + 1] \in [V -> V]
      OBVIOUS
    <3> QED BY <3>1, <3>2
  <2> QED BY <2>1
<1>3. \A m \in Nat : \A w \in W : step[m][w] = taking(m + 1, w)
  OBVIOUS
<1>4. step \in [Nat -> [W -> W]]
  <2> HIDE DEF taking, W
  <2> QED BY <1>2
<1>5. \A m \in Nat : \A w \in W : \A s \in SUBSET (1 .. n) :
          step[m][w][s] = IF m + 1 \in s THEN item[m + 1][w[s]] ELSE w[s]
  BY <1>3
<1> HIDE DEF none, step, W, taking
<1>6. PICK G : IsFold(G, W, none, step)
  BY <1>1, <1>4, PrimRec
<1>7. /\ G \in [Nat -> W] /\ \A s \in SUBSET (1 .. n) : G[0][s] = base
      /\ \A m \in Nat : \A s \in SUBSET (1 .. n) :
            G[m + 1][s] = IF m + 1 \in s THEN item[m + 1][G[m][s]] ELSE G[m][s]
  <2>1. G \in [Nat -> W] /\ G[0] = none
    BY <1>6 DEF IsFold
  <2>2. \A m \in Nat : G[m + 1] = step[m][G[m]] /\ G[m] \in W
    BY <1>6 DEF IsFold
  <2>3. \A s \in SUBSET (1 .. n) : G[0][s] = base
    BY <1>1, <2>1
  <2>4. ASSUME NEW m \in Nat, NEW s \in SUBSET (1 .. n)
        PROVE  G[m + 1][s] = IF m + 1 \in s THEN item[m + 1][G[m][s]] ELSE G[m][s]
    <3>1. step[m][G[m]][s] = IF m + 1 \in s THEN item[m + 1][G[m][s]] ELSE G[m][s]
      <4> DEFINE w == G[m]
      <4>1. w \in W
        BY <2>2
      <4> HIDE DEF w
      <4>2. step[m][w][s] = IF m + 1 \in s THEN item[m + 1][w[s]] ELSE w[s]
        BY <1>5, <4>1
      <4> QED BY <4>2 DEF w
    <3> QED BY <2>2, <3>1
  <2> QED BY <2>1, <2>3, <2>4
<1>8. ASSUME NEW m \in Nat, NEW s \in SUBSET (1 .. n), NEW r \in SUBSET (1 .. n),
             \A i \in 1 .. m : i \in s <=> i \in r
      PROVE  G[m][s] = G[m][r]
  <2> DEFINE E == {k \in Nat : k <= m => G[k][s] = G[k][r]}
  <2>1. 0 \in E
    BY <1>7
  <2>2. ASSUME NEW k \in Nat, k \in E PROVE k + 1 \in E
    <3>1. CASE k + 1 <= m
      <4>1. k + 1 \in s <=> k + 1 \in r
        BY <1>8, <3>1
      <4>2. G[k][s] = G[k][r]
        BY <2>2, <3>1
      <4>3. G[k + 1][s] = G[k + 1][r]
        BY <1>7, <4>1, <4>2
      <4> QED BY <4>3
    <3> QED BY <3>1
  <2> HIDE DEF E
  <2>3. m \in E
    BY <2>1, <2>2, Induction
  <2> QED BY <2>3 DEF E
<1>9. ASSUME NEW x \in Nat, NEW m \in Nat, x <= m, NEW s \in SUBSET (1 .. n), s \subseteq 1 .. x
      PROVE  G[m][s] = G[x][s]
  <2> DEFINE E == {k \in Nat : x <= k => G[k][s] = G[x][s]}
  <2>1. 0 \in E
    OBVIOUS
  <2>2. ASSUME NEW k \in Nat, k \in E PROVE k + 1 \in E
    <3>1. CASE x <= k
      <4>1. k + 1 \notin s
        BY <1>9, <3>1
      <4>2. G[k + 1][s] = G[k][s]
        BY <1>7, <4>1
      <4> QED BY <2>2, <3>1, <4>2
    <3>2. CASE ~(x <= k)
      BY <3>2
    <3> QED BY <3>1, <3>2
  <2> HIDE DEF E
  <2>3. m \in E
    BY <2>1, <2>2, Induction
  <2> QED BY <1>9, <2>3 DEF E
<1> DEFINE f == G[n]
<1>10. f \in [SUBSET (1 .. n) -> V] /\ f[{}] = base
  <2>1. f \in W
    BY <1>7
  <2>2. {} \in SUBSET (1 .. 0) /\ {} \in SUBSET (1 .. n)
    OBVIOUS
  <2>3. f[{}] = G[0][{}]
    BY <1>9, <2>2
  <2>4. f[{}] = base
    BY <1>7, <2>2, <2>3
  <2> QED BY <2>1, <2>4 DEF W
<1>11. ASSUME NEW s \in SUBSET (1 .. n), s # {}
       PROVE  f[s] = item[Max(s)][f[s \ {Max(s)}]]
  <2> DEFINE x == Max(s)
             r == s \ {x}
  <2>1. x \in s /\ \A y \in s : y <= x
    BY <1>11, Highest
  <2> HIDE DEF x
  <2>2. x \in 1 .. n /\ s \subseteq 1 .. x /\ r \subseteq 1 .. x - 1 /\ r \in SUBSET (1 .. n)
    BY <2>1
  <2>3. x - 1 \in Nat /\ x - 1 <= n /\ x <= n /\ x \in Nat /\ (x - 1) + 1 = x
    BY <2>2
  <2>4. f[s] = G[x][s]
    BY <1>9, <2>2, <2>3
  <2>5. G[x][s] = item[x][G[x - 1][s]]
    BY <1>7, <2>1, <2>3
  <2>6. G[x - 1][s] = G[x - 1][r]
    <3>1. \A i \in 1 .. x - 1 : i \in s <=> i \in r
      BY <2>2
    <3> HIDE DEF r
    <3> QED BY <1>8, <2>2, <2>3, <3>1
  <2>7. G[x - 1][r] = f[r]
    <3> HIDE DEF r
    <3> QED BY <1>9, <2>2, <2>3
  <2>8. f[s] = item[x][f[r]]
    BY <2>4, <2>5, <2>6, <2>7
  <2> QED BY <2>8 DEF x
<1> HIDE DEF f
<1>12. IsSetFold(f, n, V, base, item)
  BY <1>10, <1>11 DEF IsSetFold
<1> QED BY <1>12

(* What FoldLeft() has folded up to an index.                              *)
LEMMA UpTo ==
    ASSUME NEW i \in Nat \ {0}
    PROVE  (1 .. i) # {} /\ Max(1 .. i) = i /\ (1 .. i) \ {i} = 1 .. (i - 1)
<1> DEFINE s == 1 .. i
<1>1. s # {} /\ i \in s /\ s \in SUBSET (1 .. i) /\ \A y \in s : y \in Nat /\ y <= i
  OBVIOUS
<1>2. s \ {i} = 1 .. (i - 1)
  OBVIOUS
<1> HIDE DEF s
<1>3. Max(s) \in s /\ \A y \in s : y <= Max(s)
  BY <1>1, Highest
<1> DEFINE m == Max(s)
<1>4. Max(s) = i
  <2> m \in s /\ i <= m
    BY <1>1, <1>3
  <2> HIDE DEF m
  <2>1. m = i
    BY <1>1
  <2> QED BY <2>1 DEF m
<1> QED BY <1>1, <1>2, <1>4 DEF s
===============================================================================
