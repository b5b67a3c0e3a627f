----------------------------- MODULE LoopProofs -----------------------------
(***************************************************************************)
(* What a loop computes.  It is taken apart into the run of its            *)
(* intermediate results, one per element, so that what each step keeps is  *)
(* kept by the whole.                                                      *)
(*                                                                         *)
(* Op is the step.  It is a constant of the module, because a theorem with *)
(* an operator among its hypotheses could not be applied: instantiating    *)
(* the module gives the theorems for the step at hand.                     *)
(***************************************************************************)
EXTENDS Loops

CONSTANT Op(_, _)

\* after[i] is the result after the first i elements.
IsRun(after, base, seq) ==
  /\ after[0] = base
  /\ \A i \in 0..(Len(seq) - 1) : after[i + 1] = Op(after[i], seq[i + 1])
-----------------------------------------------------------------------------
\* Induction over the elements, which each use of these theorems provides: it rests on a
\* theorem about well-founded relations that the module leaves to the ones that use it.
Induction ==
  \A k \in Nat : \A N : 0 \in N /\ (\A i \in 0..(k - 1) : i \in N => i + 1 \in N)
                     => \A i \in 0..k : i \in N

\* h holds the intermediate results of the loop over the first n elements.
Solves(h, base, seq, n) == h = [i \in 0..n |-> IF i = 0 THEN base ELSE Op(h[i - 1], seq[i])]

\* The recursion of the loop over the first n elements has a solution.
LEMMA LoopExists ==
  ASSUME NEW base, NEW seq, NEW n \in Nat,
         Induction
  PROVE  \E h : Solves(h, base, seq, n)
<1> DEFINE T == {m \in Nat : \E h : Solves(h, base, seq, m)}
<1>1. 0 \in T
  <2> DEFINE h == [i \in 0..0 |-> base]
  <2>1. Solves(h, base, seq, 0)
    BY DEF Solves
  <2>2. QED
    BY <2>1
<1>2. ASSUME NEW m \in Nat, m \in T PROVE m + 1 \in T
  <2>1. PICK g : Solves(g, base, seq, m)
    BY <1>2
  <2>2. \A i \in 0..m : g[i] = IF i = 0 THEN base ELSE Op(g[i - 1], seq[i])
    BY <2>1 DEF Solves
  <2> DEFINE h == [i \in 0..(m + 1) |-> IF i \in 0..m THEN g[i] ELSE Op(g[m], seq[m + 1])]
  <2>3. ASSUME NEW i \in 0..(m + 1)
        PROVE  h[i] = IF i = 0 THEN base ELSE Op(h[i - 1], seq[i])
    <3>1. CASE i = 0
      BY <3>1, <2>2
    <3>2. CASE i \in 1..m
      <4>1. i - 1 \in 0..m /\ i - 1 \in 0..(m + 1) /\ i \in 0..m /\ i # 0
        BY <3>2
      <4>2. h[i - 1] = g[i - 1] /\ h[i] = g[i]
        BY <4>1
      <4>3. QED
        BY <4>1, <4>2, <2>2
    <3>3. CASE i = m + 1
      <4>1. m \in 0..m /\ m \in 0..(m + 1) /\ i - 1 = m /\ i # 0 /\ i \notin 0..m
        BY <3>3
      <4>2. h[m] = g[m] /\ h[i] = Op(g[m], seq[m + 1])
        BY <4>1
      <4>3. QED
        BY <4>1, <4>2, <3>3
    <3>4. QED
      BY <3>1, <3>2, <3>3
  <2>4. Solves(h, base, seq, m + 1)
    BY <2>3 DEF Solves
  <2>5. QED
    BY <2>4
<1>3. n \in T
  <2> HIDE DEF T
  <2>1. \A i \in 0..n : i \in T
    BY <1>1, <1>2 DEF Induction
  <2>2. QED
    BY <2>1
<1>4. QED
  BY <1>3

\* A loop is the last of its intermediate results.
LEMMA LoopRuns ==
  ASSUME NEW base, NEW S, NEW seq \in Seq(S),
         Induction
  PROVE  \E after : IsRun(after, base, seq) /\ ForEach(Op, base, seq) = after[Len(seq)]
<1> DEFINE after == CHOOSE h : Solves(h, base, seq, Len(seq))
<1>1. Len(seq) \in Nat
  OBVIOUS
<1>2. Solves(after, base, seq, Len(seq))
  BY <1>1, LoopExists
<1>3. ForEach(Op, base, seq) = after[Len(seq)]
  BY DEF ForEach, Solves
<1> HIDE DEF after
<1>4. \A i \in 0..Len(seq) : after[i] = IF i = 0 THEN base ELSE Op(after[i - 1], seq[i])
  BY <1>2 DEF Solves
<1>5. after[0] = base
  BY <1>1, <1>4
<1>6. ASSUME NEW i \in 0..(Len(seq) - 1) PROVE after[i + 1] = Op(after[i], seq[i + 1])
  <2>1. i + 1 \in 0..Len(seq) /\ i + 1 # 0 /\ (i + 1) - 1 = i
    BY <1>1
  <2>2. QED
    BY <2>1, <1>4
<1>7. IsRun(after, base, seq)
  BY <1>5, <1>6 DEF IsRun
<1>8. QED
  BY <1>3, <1>7

\* What every step keeps, the loop keeps.
LEMMA LoopKeeps ==
  ASSUME NEW T, NEW S, NEW base \in T, NEW seq \in Seq(S),
         \A s \in T, x \in S : Op(s, x) \in T,
         Induction
  PROVE  ForEach(Op, base, seq) \in T
<1>1. PICK after : IsRun(after, base, seq) /\ ForEach(Op, base, seq) = after[Len(seq)]
  BY LoopRuns
<1> DEFINE N == {i \in 0..Len(seq) : after[i] \in T}
<1>2. Len(seq) \in Nat
  OBVIOUS
<1>3. 0 \in N
  BY <1>1, <1>2 DEF IsRun
<1>4. ASSUME NEW i \in 0..(Len(seq) - 1), i \in N PROVE i + 1 \in N
  <2>1. after[i + 1] = Op(after[i], seq[i + 1])
    BY <1>1 DEF IsRun
  <2>2. i + 1 \in 1..Len(seq) /\ seq[i + 1] \in S
    BY <1>2
  <2>3. after[i] \in T
    BY <1>4
  <2>4. QED
    BY <2>1, <2>2, <2>3
<1> HIDE DEF N
<1>5. \A i \in 0..Len(seq) : i \in N
  BY <1>2, <1>3, <1>4 DEF Induction
<1>6. after[Len(seq)] \in T
  BY <1>2, <1>5 DEF N
<1>7. QED
  BY <1>1, <1>6
=============================================================================
