----------------------------- MODULE FoldProofs -----------------------------
(***************************************************************************)
(* Induction, and what folding a sequence from the left computes, for an   *)
(* operation M that is a parameter: a module that folds with an operation  *)
(* of its own instantiates this one with it.                               *)
(***************************************************************************)
EXTENDS Integers, Sequences, SequencesExt, WellFoundedInduction, TLAPS

CONSTANT M(_, _)   \* what was computed so far, the next element

Fold(base, s) == FoldLeft(M, base, s)

-----------------------------------------------------------------------------

\* Induction over the numbers of a set: no predicate is a parameter, so that
\* the lemma can be cited.
LEMMA NatInd ==
    ASSUME NEW S \in SUBSET Nat, 0 \in S, \A n \in S : n + 1 \in S
    PROVE  S = Nat
<1>. DEFINE R == OpToRel(<, Nat)
            T == Nat \ S
<1>1. IsWellFoundedOn(R, Nat)
  BY NatLessThanWellFounded
<1>2. \A x, y \in Nat : x < y => <<x, y>> \in R
  BY DEF OpToRel
<1>. HIDE DEF R
<1>. SUFFICES ASSUME T # {} PROVE FALSE
  OBVIOUS
<1>3. PICK x \in T : \A y \in T : ~(<<y, x>> \in R)
  BY <1>1, WFMin
<1>4. x # 0 /\ x - 1 \in Nat /\ x - 1 < x
  OBVIOUS
<1>5. x - 1 \in S
  BY <1>2, <1>3, <1>4
<1>6. (x - 1) + 1 \in S
  BY <1>5
<1>. QED
  BY <1>4, <1>6

\* The same up to a bound.
LEMMA UpTo ==
    ASSUME NEW n \in Nat, NEW S, 0 \in S, \A k \in 0 .. n - 1 : k \in S => k + 1 \in S
    PROVE  \A k \in 0 .. n : k \in S
<1>. DEFINE T == {k \in Nat : k <= n => k \in S}
<1>1. 0 \in T
  OBVIOUS
<1>2. ASSUME NEW k \in T PROVE k + 1 \in T
  OBVIOUS
<1>3. T = Nat
  <2>. HIDE DEF T
  <2>. QED
    BY <1>1, <1>2, NatInd DEF T
<1>. QED
  BY <1>3

-----------------------------------------------------------------------------
(* FoldLeft, as defined: a function on the sets of indices, which takes the *)
(* greatest index of a set off it.                                          *)

Iterates(f, base, s, n) ==
    f = [t \in SUBSET (1 .. n) |->
            IF t = {} THEN base ELSE M(f[t \ {Max(t)}], s[Max(t)])]

\* The definitions that FoldLeft stands on, expanded.
LEMMA FoldDef ==
    ASSUME NEW base, NEW s, NEW n \in Nat, DOMAIN s = 1 .. n
    PROVE  Fold(base, s) = (CHOOSE f : Iterates(f, base, s, n))[1 .. n]
  BY DEF Fold, FoldLeft, MapThenFoldSet, Iterates

\* A set of indices has a greatest.
LEMMA MaxIndex ==
    ASSUME NEW n \in Nat, NEW t \in SUBSET (1 .. n), t # {}
    PROVE  Max(t) \in t /\ \A k \in t : k <= Max(t)
<1>. DEFINE S == {m \in Nat : \A u \in SUBSET (1 .. m) :
                      u # {} => \E x \in u : \A y \in u : x >= y}
<1>1. 0 \in S
  <2>1. 1 .. 0 = {}
    OBVIOUS
  <2>. QED
    BY <2>1
<1>2. ASSUME NEW m \in S PROVE m + 1 \in S
  <2>. SUFFICES ASSUME NEW u \in SUBSET (1 .. m + 1), u # {}
                PROVE  \E x \in u : \A y \in u : x >= y
    OBVIOUS
  <2>1. CASE m + 1 \in u
    BY <2>1
  <2>2. CASE m + 1 \notin u
    <3>1. u \in SUBSET (1 .. m)
      BY <2>2
    <3>. QED
      BY <3>1
  <2>. QED
    BY <2>1, <2>2
<1>3. S = Nat
  <2>. HIDE DEF S
  <2>. QED
    BY <1>1, <1>2, NatInd DEF S
<1>4. \E x \in t : \A y \in t : x >= y
  BY <1>3
<1>5. Max(t) \in t /\ \A y \in t : Max(t) >= y
  BY <1>4 DEF Max
<1>. QED
  BY <1>5

\* There is such a function.
LEMMA IterationExists ==
    ASSUME NEW base, NEW s, NEW n \in Nat
    PROVE  \E f : Iterates(f, base, s, n)
<1>. DEFINE S == {m \in Nat : \E f : Iterates(f, base, s, m)}
<1>1. 0 \in S
  <2>1. Iterates([t \in SUBSET (1 .. 0) |-> base], base, s, 0)
    BY DEF Iterates
  <2>. QED
    BY <2>1
<1>2. ASSUME NEW m \in S PROVE m + 1 \in S
  <2>1. PICK f : Iterates(f, base, s, m)
    OBVIOUS
  <2>. DEFINE g == [t \in SUBSET (1 .. m + 1) |->
                       IF t \in SUBSET (1 .. m) THEN f[t]
                       ELSE M(f[t \ {m + 1}], s[m + 1])]
              Value(t) == IF t = {} THEN base ELSE M(g[t \ {Max(t)}], s[Max(t)])
  <2>2. ASSUME NEW t \in SUBSET (1 .. m + 1) PROVE g[t] = Value(t)
    <3>1. CASE t = {}
      BY <2>1, <3>1 DEF Iterates
    <3>2. CASE t # {} /\ t \in SUBSET (1 .. m)
      <4>1. t \ {Max(t)} \in SUBSET (1 .. m)
        BY <3>2
      <4>2. g[t \ {Max(t)}] = f[t \ {Max(t)}]
        BY <4>1
      <4>3. f[t] = M(f[t \ {Max(t)}], s[Max(t)])
        BY <2>1, <3>2 DEF Iterates
      <4>. QED
        BY <3>2, <4>2, <4>3
    <3>3. CASE t \notin SUBSET (1 .. m)
      <4>1. m + 1 \in t
        BY <3>3
      <4>2. Max(t) = m + 1
        <5>1. m + 1 \in Nat /\ t # {} /\ \A k \in t : k \in 1 .. m + 1
          BY <4>1
        <5>2. Max(t) \in t /\ \A k \in t : k <= Max(t)
          BY <5>1, MaxIndex
        <5>3. Max(t) \in 1 .. m + 1 /\ m + 1 <= Max(t)
          BY <4>1, <5>1, <5>2
        <5>4. \A x \in 1 .. m + 1 : m + 1 <= x => x = m + 1
          OBVIOUS
        <5>. QED
          BY <5>3, <5>4
      <4>3. t \ {m + 1} \in SUBSET (1 .. m)
        OBVIOUS
      <4>4. g[t \ {m + 1}] = f[t \ {m + 1}]
        BY <4>3
      <4>. QED
        BY <3>3, <4>1, <4>2, <4>4
    <3>. QED
      BY <3>1, <3>2, <3>3
  <2>3. Iterates(g, base, s, m + 1)
    <3>. HIDE DEF Value
    <3>1. g = [t \in SUBSET (1 .. m + 1) |-> Value(t)]
      BY <2>2
    <3>. HIDE DEF g
    <3>. QED
      BY <3>1 DEF Iterates, Value
  <2>. QED
    BY <2>3
<1>. QED
  <2>1. S = Nat
    <3>. HIDE DEF S
    <3>. QED
      BY <1>1, <1>2, NatInd DEF S
  <2>. QED
    BY <2>1

\* The results for the beginnings of a sequence, each from the one before.
Partials(p, base, s, n) ==
    p[0] = base /\ \A k \in 1 .. n : p[k] = M(p[k - 1], s[k])

\* Folding goes through the results for the beginnings.
LEMMA FoldPartials ==
    ASSUME NEW base, NEW s, NEW n \in Nat, DOMAIN s = 1 .. n
    PROVE  \E p : Partials(p, base, s, n) /\ Fold(base, s) = p[n]
<1>. DEFINE f == CHOOSE f : Iterates(f, base, s, n)
            p == [k \in 0 .. n |-> f[1 .. k]]
<1>1. Iterates(f, base, s, n)
  BY IterationExists
<1>2. Fold(base, s) = f[1 .. n]
  BY FoldDef
<1>. HIDE DEF f
<1>3. p[0] = base
  <2>1. 1 .. 0 = {} /\ {} \in SUBSET (1 .. n)
    OBVIOUS
  <2>. QED
    BY <1>1, <2>1 DEF Iterates
<1>4. ASSUME NEW k \in 1 .. n PROVE p[k] = M(p[k - 1], s[k])
  <2>1. 1 .. k \in SUBSET (1 .. n) /\ 1 .. k # {}
    <3>1. k \in 1 .. k
      OBVIOUS
    <3>2. \A j \in 1 .. k : j \in 1 .. n
      OBVIOUS
    <3>. QED
      BY <3>1, <3>2
  <2>2. Max(1 .. k) = k
    <3>1. Max(1 .. k) \in 1 .. k /\ \A j \in 1 .. k : j <= Max(1 .. k)
      BY <2>1, MaxIndex
    <3>. QED
      BY <3>1
  <2>3. (1 .. k) \ {k} = 1 .. (k - 1)
    OBVIOUS
  <2>4. f[1 .. k] = M(f[1 .. (k - 1)], s[k])
    BY <1>1, <2>1, <2>2, <2>3 DEF Iterates
  <2>. QED
    BY <2>4
<1>5. p[n] = f[1 .. n]
  OBVIOUS
<1>6. Partials(p, base, s, n)
  BY <1>3, <1>4 DEF Partials
<1>. QED
  BY <1>2, <1>5, <1>6

\* Any such results are those of the fold.
LEMMA FoldIs ==
    ASSUME NEW base, NEW s, NEW n \in Nat, DOMAIN s = 1 .. n,
           NEW p, Partials(p, base, s, n)
    PROVE  Fold(base, s) = p[n]
<1>1. PICK q : Partials(q, base, s, n) /\ Fold(base, s) = q[n]
  BY FoldPartials
<1>. DEFINE S == {k \in 0 .. n : p[k] = q[k]}
<1>2. 0 \in S
  BY <1>1 DEF Partials
<1>3. ASSUME NEW k \in 0 .. n - 1, k \in S PROVE k + 1 \in S
  <2>1. k + 1 \in 1 .. n /\ (k + 1) - 1 = k
    OBVIOUS
  <2>. QED
    BY <1>1, <1>3, <2>1 DEF Partials
<1>4. \A k \in 0 .. n : k \in S
  <2>. HIDE DEF S
  <2>. QED
    BY <1>2, <1>3, UpTo
<1>. QED
  BY <1>1, <1>4

-----------------------------------------------------------------------------

\* Nothing to fold.
THEOREM FoldEmpty ==
    ASSUME NEW base
    PROVE  Fold(base, <<>>) = base
<1>1. PICK p : Partials(p, base, <<>>, 0) /\ Fold(base, <<>>) = p[0]
  BY FoldPartials, 0 \in Nat, DOMAIN <<>> = 1 .. 0
<1>. QED
  BY <1>1 DEF Partials

\* One element more: the operation is applied to what came out without it.
THEOREM FoldStep ==
    ASSUME NEW base, NEW s, NEW t, NEW n \in Nat,
           DOMAIN s = 1 .. n + 1, DOMAIN t = 1 .. n,
           \A k \in 1 .. n : s[k] = t[k]
    PROVE  Fold(base, s) = M(Fold(base, t), s[n + 1])
<1>1. PICK p : Partials(p, base, s, n + 1) /\ Fold(base, s) = p[n + 1]
  BY FoldPartials, n + 1 \in Nat
<1>2. Partials(p, base, t, n)
  BY <1>1 DEF Partials
<1>3. Fold(base, t) = p[n]
  BY <1>2, FoldIs
<1>4. n + 1 \in 1 .. n + 1 /\ (n + 1) - 1 = n
  OBVIOUS
<1>. QED
  BY <1>1, <1>3, <1>4 DEF Partials

\* A sequence of one element: one application of the operation.
THEOREM FoldSingle ==
    ASSUME NEW base, NEW x
    PROVE  Fold(base, <<x>>) = M(base, x)
<1>1. DOMAIN <<x>> = 1 .. 0 + 1 /\ DOMAIN <<>> = 1 .. 0 /\ 0 \in Nat /\ <<x>>[0 + 1] = x
  OBVIOUS
<1>2. \A k \in 1 .. 0 : <<x>>[k] = <<>>[k]
  OBVIOUS
<1>3. Fold(base, <<x>>) = M(Fold(base, <<>>), <<x>>[0 + 1])
  BY <1>1, <1>2, FoldStep
<1>. QED
  BY <1>1, <1>3, FoldEmpty

\* A sequence in two pieces: the second is folded on top of the first.
THEOREM FoldConcat ==
    ASSUME NEW base, NEW S, NEW s \in Seq(S), NEW t \in Seq(S)
    PROVE  Fold(base, s \o t) = Fold(Fold(base, s), t)
<1>. DEFINE m == Len(s)
            n == Len(t)
<1>1. m \in Nat /\ n \in Nat /\ DOMAIN s = 1 .. m /\ DOMAIN t = 1 .. n
      /\ DOMAIN (s \o t) = 1 .. m + n
  OBVIOUS
<1>2. \A k \in 1 .. m + n : (s \o t)[k] = IF k <= m THEN s[k] ELSE t[k - m]
  OBVIOUS
<1>. HIDE DEF m, n
<1>3. PICK p : Partials(p, base, s, m) /\ Fold(base, s) = p[m]
  BY <1>1, FoldPartials
<1>4. PICK q : Partials(q, p[m], t, n) /\ Fold(p[m], t) = q[n]
  BY <1>1, FoldPartials
<1>. DEFINE r == [k \in 0 .. m + n |-> IF k <= m THEN p[k] ELSE q[k - m]]
<1>5. Partials(r, base, s \o t, m + n)
  <2>1. r[0] = base
    BY <1>1, <1>3 DEF Partials
  <2>2. ASSUME NEW k \in 1 .. m + n PROVE r[k] = M(r[k - 1], (s \o t)[k])
    <3>1. CASE k <= m
      BY <1>1, <1>2, <1>3, <3>1 DEF Partials
    <3>2. CASE k = m + 1
      <4>1. k - m = 1 /\ k - 1 = m /\ 1 \in 1 .. n /\ ~(k <= m) /\ k - 1 <= m
        BY <1>1, <3>2
      <4>2. q[1] = M(q[0], t[1]) /\ q[0] = p[m]
        BY <1>4, <4>1, 1 - 1 = 0 DEF Partials
      <4>3. r[k] = q[1] /\ r[k - 1] = p[m]
        BY <1>1, <4>1
      <4>. QED
        BY <1>2, <4>1, <4>2, <4>3
    <3>3. CASE k > m + 1
      <4>1. k - m \in 1 .. n /\ (k - m) - 1 = (k - 1) - m /\ ~(k <= m) /\ ~(k - 1 <= m)
        BY <1>1, <3>3
      <4>2. q[k - m] = M(q[(k - m) - 1], t[k - m])
        BY <1>4, <4>1 DEF Partials
      <4>3. r[k] = q[k - m] /\ r[k - 1] = q[(k - m) - 1]
        BY <1>1, <4>1
      <4>. QED
        BY <1>2, <4>1, <4>2, <4>3
    <3>. QED
      BY <1>1, <3>1, <3>2, <3>3
  <2>. QED
    BY <2>1, <2>2 DEF Partials
<1>6. r[m + n] = q[n]
  BY <1>1, <1>4 DEF Partials
<1>. HIDE DEF r
<1>7. Fold(base, s \o t) = r[m + n]
  BY <1>1, <1>5, m + n \in Nat, FoldIs
<1>. QED
  BY <1>3, <1>4, <1>6, <1>7
=============================================================================
