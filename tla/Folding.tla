------------------------------ MODULE Folding ------------------------------
(***************************************************************************)
(* What a fold over a sequence goes through, for the proofs about loops    *)
(* that are written as one.  The operator is a parameter of this module,   *)
(* and is given by INSTANCE, since a lemma cannot take one; p is what it   *)
(* gets besides the state and the element.                                 *)
(***************************************************************************)
EXTENDS Integers, Sequences, SequencesExt, TLAPS, WellFoundedInduction

CONSTANT Op(_, _, _)

\* Induction up to n: a set that has 0 and with every number the next one has
\* them all.  Else the least number it has not would have none before it.
LEMMA UpTo ==
  ASSUME NEW n \in Nat, NEW T, 0 \in T, \A i \in 0..(n - 1) : i \in T => i + 1 \in T
  PROVE  0..n \subseteq T
<1> DEFINE R == OpToRel(<, Nat)
           B == {i \in 0..n : i \notin T}
<1>1. SUFFICES ASSUME B # {} PROVE FALSE
  OBVIOUS
<1>2. IsWellFoundedOn(R, Nat)
  BY NatLessThanWellFounded
<1>3. B \subseteq Nat
  OBVIOUS
<1>4. \A x, y \in Nat : y < x => <<y, x>> \in R
  BY DEF OpToRel
<1> HIDE DEF R
<1>5. \E x \in B : \A y \in B : ~(<<y, x>> \in R)
  BY <1>1, <1>2, <1>3, WFMin
<1>6. PICK x \in B : \A y \in B : ~(<<y, x>> \in R)
  BY <1>5
<1>7. x # 0 /\ x \in Nat /\ x - 1 \in 0..(n - 1) /\ x = (x - 1) + 1
  OBVIOUS
<1>8. x - 1 \in B
  BY <1>6, <1>7
<1>9. <<x - 1, x>> \in R
  BY <1>4, <1>7
<1> QED
  BY <1>6, <1>8, <1>9

-----------------------------------------------------------------------------
(* A fold takes the elements out of the set of all indices, the highest    *)
(* first; its value is that of a function of sets, which exists.           *)

Iter(p, base, f, seq, k) ==
  f = [s \in SUBSET (1..k) |->
         IF s = {} THEN base ELSE Op(p, f[s \ {Max(s)}], seq[Max(s)])]

\* The highest of a set of numbers up to k + 1 that has k + 1.
LEMMA MaxIs ==
  ASSUME NEW k \in Nat, NEW s \in SUBSET (1..(k + 1)), k + 1 \in s
  PROVE  Max(s) = k + 1
<1>1. \A y \in s : y \in Nat /\ k + 1 >= y
  OBVIOUS
<1>2. \A x \in s : (\A y \in s : x >= y) => x = k + 1
  BY <1>1
<1> QED
  BY <1>1, <1>2 DEF Max

\* There is such a function for every n, by induction.
LEMMA IterExists ==
  ASSUME NEW p, NEW base, NEW seq, NEW n \in Nat
  PROVE  \E f : Iter(p, base, f, seq, n)
<1> DEFINE T == {k \in 0..n : \E f : Iter(p, base, f, seq, k)}
<1>1. 0 \in T
  <2> DEFINE f0 == [s \in SUBSET (1..0) |-> base]
  <2>1. \A s \in SUBSET (1..0) : s = {}
    OBVIOUS
  <2>2. Iter(p, base, f0, seq, 0)
    BY <2>1 DEF Iter
  <2> QED
    BY <2>2
<1>2. ASSUME NEW k \in 0..(n - 1), k \in T PROVE k + 1 \in T
  <2>1. PICK f : Iter(p, base, f, seq, k)
    BY <1>2
  <2> DEFINE h == [s \in SUBSET (1..(k + 1)) |->
                     IF k + 1 \in s THEN Op(p, f[s \ {k + 1}], seq[k + 1]) ELSE f[s]]
  <2>2. ASSUME NEW s \in SUBSET (1..(k + 1))
        PROVE h[s] = IF s = {} THEN base ELSE Op(p, h[s \ {Max(s)}], seq[Max(s)])
    <3>1. CASE k + 1 \in s
      <4>1. Max(s) = k + 1 /\ s # {}
        BY <3>1, MaxIs
      <4>2. s \ {k + 1} \in SUBSET (1..(k + 1)) /\ k + 1 \notin s \ {k + 1}
        OBVIOUS
      <4>3. h[s \ {k + 1}] = f[s \ {k + 1}]
        BY <4>2
      <4> QED
        BY <3>1, <4>1, <4>3
    <3>2. CASE k + 1 \notin s
      <4>1. s \in SUBSET (1..k)
        BY <3>2
      <4>2. h[s] = f[s]
        BY <3>2
      <4>3. f[s] = IF s = {} THEN base ELSE Op(p, f[s \ {Max(s)}], seq[Max(s)])
        BY <2>1, <4>1 DEF Iter
      <4>4. s \ {Max(s)} \in SUBSET (1..(k + 1)) /\ k + 1 \notin s \ {Max(s)}
        BY <3>2
      <4>5. h[s \ {Max(s)}] = f[s \ {Max(s)}]
        BY <4>4
      <4> QED
        BY <4>2, <4>3, <4>5
    <3> QED
      BY <3>1, <3>2
  <2>3. Iter(p, base, h, seq, k + 1)
    BY <2>2 DEF Iter
  <2> QED
    BY <2>3
<1>3. 0..n \subseteq T
  <2> HIDE DEF T
  <2> QED BY <1>1, <1>2, UpTo
<1> QED
  BY <1>3

-----------------------------------------------------------------------------
(* The states that a fold goes through.                                    *)

Folded(p, base, seq) == FoldLeft(LAMBDA v, x : Op(p, v, x), base, seq)

\* A fold begins with base, takes one element after the other, in order, and
\* is what it has after the last one.
THEOREM FoldSteps ==
  ASSUME NEW n \in Nat, NEW p, NEW base, NEW seq, DOMAIN seq = 1..n
  PROVE  \E g : /\ DOMAIN g = 0..n
                /\ g[0] = base
                /\ \A i \in 1..n : g[i] = Op(p, g[i - 1], seq[i])
                /\ Folded(p, base, seq) = g[n]
<1> DEFINE f == CHOOSE f : f = [s \in SUBSET (1..n) |->
                   IF s = {} THEN base ELSE Op(p, f[s \ {Max(s)}], seq[Max(s)])]
           g == [i \in 0..n |-> f[1..i]]
<1>0. \E h : Iter(p, base, h, seq, n)
  BY IterExists
<1>1. f = [s \in SUBSET (1..n) |->
                   IF s = {} THEN base ELSE Op(p, f[s \ {Max(s)}], seq[Max(s)])]
  BY <1>0 DEF Iter
<1>2. Folded(p, base, seq) = f[1..n]
  BY DEF Folded, FoldLeft, MapThenFoldSet
<1> HIDE DEF f
<1>3. g[0] = base
  <2>1. 1..0 = {} /\ {} \in SUBSET (1..n)
    OBVIOUS
  <2>2. f[{}] = base
    BY <1>1, <2>1
  <2> QED
    BY <2>1, <2>2
<1>4. ASSUME NEW i \in 1..n PROVE g[i] = Op(p, g[i - 1], seq[i])
  <2>1. 1..i \in SUBSET (1..n) /\ 1..i # {} /\ Max(1..i) = i /\ (1..i) \ {i} = 1..(i - 1)
    BY DEF Max
  <2>2. f[1..i] = Op(p, f[(1..i) \ {Max(1..i)}], seq[Max(1..i)])
    BY <1>1, <2>1
  <2>3. i \in 0..n /\ i - 1 \in 0..n
    OBVIOUS
  <2>4. g[i] = f[1..i] /\ g[i - 1] = f[1..(i - 1)]
    BY <2>3
  <2> QED
    BY <2>1, <2>2, <2>4
<1>5. DOMAIN g = 0..n /\ g[n] = f[1..n]
  OBVIOUS
<1> HIDE DEF g
<1> QED
  BY <1>2, <1>3, <1>4, <1>5
=============================================================================
