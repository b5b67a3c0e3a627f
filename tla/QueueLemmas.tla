---------------------------- MODULE QueueLemmas ----------------------------
(***************************************************************************)
(* What the queues of the engine and of run_checks need of sequences.      *)
(***************************************************************************)
EXTENDS Naturals, Sequences, Functions, TLAPS

\* Head and Tail take a non-empty queue apart.
LEMMA PopFront ==
  ASSUME NEW S, NEW q \in Seq(S), q # <<>>
  PROVE  /\ Head(q) \in S
         /\ Tail(q) \in Seq(S)
         /\ Range(q) = {Head(q)} \cup Range(Tail(q))
         /\ Len(Tail(q)) = Len(q) - 1
         /\ \A i \in 1..Len(Tail(q)) : Tail(q)[i] = q[i + 1]
<1>1. /\ Head(q) \in S /\ Tail(q) \in Seq(S) /\ Head(q) = q[1]
      /\ Len(q) \in Nat \ {0}
      /\ Len(Tail(q)) = Len(q) - 1
      /\ \A i \in 1..Len(Tail(q)) : Tail(q)[i] = q[i + 1]
      /\ DOMAIN q = 1..Len(q) /\ DOMAIN Tail(q) = 1..Len(Tail(q))
  OBVIOUS
<1>2. Range(q) \subseteq {Head(q)} \cup Range(Tail(q))
  <2>1. SUFFICES ASSUME NEW x \in Range(q), x # Head(q)
                 PROVE  x \in Range(Tail(q))
    OBVIOUS
  <2>2. PICK i \in 1..Len(q) : q[i] = x
    BY <1>1 DEF Range
  <2>3. i - 1 \in 1..Len(Tail(q)) /\ x = Tail(q)[i - 1]
    BY <2>1, <2>2, <1>1
  <2>4. QED
    BY <2>3, <1>1 DEF Range
<1>3. {Head(q)} \cup Range(Tail(q)) \subseteq Range(q)
  <2>1. Head(q) \in Range(q)
    BY <1>1 DEF Range
  <2>2. ASSUME NEW j \in 1..Len(Tail(q))
        PROVE  Tail(q)[j] \in Range(q)
    <3>1. j + 1 \in 1..Len(q) /\ Tail(q)[j] = q[j + 1]
      BY <1>1
    <3>2. QED
      BY <3>1, <1>1 DEF Range
  <2>3. QED
    BY <2>1, <2>2, <1>1 DEF Range
<1>4. QED
  BY <1>1, <1>2, <1>3

\* Append adds its element at the back.
LEMMA PushBack ==
  ASSUME NEW S, NEW q \in Seq(S), NEW x \in S
  PROVE  /\ Append(q, x) \in Seq(S)
         /\ Range(Append(q, x)) = Range(q) \cup {x}
         /\ Len(Append(q, x)) = Len(q) + 1
         /\ Len(q) \in Nat
         /\ \A i \in 1..Len(q) : Append(q, x)[i] = q[i]
         /\ Append(q, x)[Len(q) + 1] = x
<1>1. /\ Append(q, x) \in Seq(S)
      /\ Len(Append(q, x)) = Len(q) + 1 /\ Len(q) \in Nat
      /\ \A i \in 1..Len(q) : Append(q, x)[i] = q[i]
      /\ Append(q, x)[Len(q) + 1] = x
      /\ DOMAIN q = 1..Len(q) /\ DOMAIN Append(q, x) = 1..(Len(q) + 1)
  OBVIOUS
<1>2. Range(Append(q, x)) \subseteq Range(q) \cup {x}
  BY <1>1 DEF Range
<1>3. Range(q) \cup {x} \subseteq Range(Append(q, x))
  <2>1. x \in Range(Append(q, x))
    <3>1. Len(q) + 1 \in DOMAIN Append(q, x)
      BY <1>1
    <3>2. QED
      BY <3>1, <1>1 DEF Range
  <2>2. ASSUME NEW i \in 1..Len(q)
        PROVE  q[i] \in Range(Append(q, x))
    BY <1>1 DEF Range
  <2>3. QED
    BY <2>1, <2>2, <1>1 DEF Range
<1>4. QED
  BY <1>1, <1>2, <1>3

\* An empty queue holds nothing.
LEMMA EmptyRange == Range(<<>>) = {}
  BY DEF Range

\* A queue that holds nothing twice still does after a new element is added.
LEMMA PushNew ==
  ASSUME NEW S, NEW q \in Seq(S), NEW x \in S, x \notin Range(q),
         \A i, j \in 1..Len(q) : q[i] = q[j] => i = j
  PROVE  \A i, j \in 1..Len(Append(q, x)) : Append(q, x)[i] = Append(q, x)[j] => i = j
<1>1. /\ Len(Append(q, x)) = Len(q) + 1 /\ Len(q) \in Nat
      /\ \A i \in 1..Len(q) : Append(q, x)[i] = q[i]
      /\ Append(q, x)[Len(q) + 1] = x
  BY PushBack
<1>2. \A i \in 1..Len(q) : q[i] # x
  BY DEF Range
<1>3. QED
  BY <1>1, <1>2
=============================================================================
