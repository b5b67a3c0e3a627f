--------------------------- MODULE PipelineProofs ---------------------------
(***************************************************************************)
(* What run_checks guarantees for every crate, every analysis of one body  *)
(* and every value of its three bounds.  Nothing is assumed of Derive but  *)
(* that it reads only the entries its function mentions.                   *)
(***************************************************************************)
EXTENDS Pipeline, QueueLemmas, TLAPS

\* The state run_checks starts in has its types.
LEMMA TypeInit == Init => TypeOK
<1>1. SUFFICES ASSUME Init PROVE TypeOK
  OBVIOUS
<1>2. LocalFns(crate) \in Seq(Fn) /\ Range(LocalFns(crate)) \subseteq Fn
  BY <1>1, CrateAssumption DEF Init, Range
<1>3. /\ [f \in Fn |-> None] \in [Fn -> Summary \cup {None}]
      /\ [f \in Fn |-> None] \in [Fn -> Precond \cup {None}]
      /\ <<>> \in Seq(Fn) /\ <<>> \in Seq(Finding) /\ Len(<<>>) = 0
  OBVIOUS
<1>4. QED
  BY <1>1, <1>2, <1>3, BoundAssumption DEF Init, TypeOK, Phases

\* The entries a body looks up, and what its analysis makes of them.
LEMMA ViewFacts ==
  ASSUME TypeOK, NEW f \in Fn
  PROVE  /\ View(crate, f, summaries) \in [Mentions(crate, f) -> Summary \cup {None}]
         /\ View(crate, f, snap) \in [Mentions(crate, f) -> Summary \cup {None}]
         /\ View(crate, f, preconds) \in [Mentions(crate, f) -> Precond \cup {None}]
<1>1. Mentions(crate, f) \subseteq Fn
  BY CrateAssumption DEF TypeOK
<1>2. QED
  BY <1>1 DEF TypeOK, View, Restrict

\* The entry of a function is a summary or none.
LEMMA EntryType ==
  ASSUME TypeOK, NEW f \in Fn
  PROVE  Entry(f) \in Summary \cup {None}
<1>1. Derive(crate, f, View(crate, f, snap)) \in Summary
  BY ViewFacts, AnalysisAssumption DEF TypeOK
<1>2. QED
  BY <1>1 DEF Entry

\* Each step of the collection of external functions keeps the types.
LEMMA TypeCollect == ASSUME TypeOK, Collect PROVE TypeOK'
<1>1. CASE BeginLevel
  <2>1. depth + 1 \in 0..MAX_EXTERNAL_DEPTH \/ depth = MAX_EXTERNAL_DEPTH
    BY BoundAssumption DEF TypeOK
  <2>2. <<>> \in Seq(Fn)
    OBVIOUS
  <2>3. QED
    BY Zenon, <1>1, <2>1, <2>2 DEF BeginLevel, TypeOK, Phases, roundVars, reportVars
<1>2. CASE ScanFunction
  <2>1. Head(frontier) \in Fn /\ Tail(frontier) \in Seq(Fn)
    BY <1>2, PopFront DEF TypeOK, ScanFunction
  <2>2. CallsOf(crate, Head(frontier)) \in Seq(Fn)
    BY <2>1, CrateAssumption DEF TypeOK
  <2>3. QED
    BY <1>2, <2>1, <2>2 DEF ScanFunction, TypeOK, roundVars, reportVars
<1>3. CASE VisitCall
  <2>1. Head(calls) \in Fn /\ Tail(calls) \in Seq(Fn)
    BY <1>3, PopFront DEF TypeOK, VisitCall
  <2>2. Append(to_summarize, Head(calls)) \in Seq(Fn) /\ Append(next, Head(calls)) \in Seq(Fn)
    BY <2>1, PushBack DEF TypeOK
  <2>3. CASE Wanted(Head(calls))
    <3>1. /\ in_set' = in_set \cup {Head(calls)} /\ calls' = Tail(calls)
          /\ to_summarize' = Append(to_summarize, Head(calls))
          /\ next' = Append(next, Head(calls)) /\ ext_count' = ext_count + 1
          /\ UNCHANGED <<crate, pc, frontier, depth, roundVars, rest, preconds, reportVars>>
      BY <1>3, <2>3 DEF VisitCall
    <3>2. in_set' \subseteq Fn /\ ext_count' \in Nat
      BY <2>1, <3>1 DEF TypeOK
    <3>3. QED
      BY <2>1, <2>2, <3>1, <3>2 DEF TypeOK, roundVars, reportVars
  <2>4. CASE ~Wanted(Head(calls))
    BY <1>3, <2>1, <2>4 DEF VisitCall, TypeOK, roundVars, reportVars
  <2>5. QED
    BY <2>3, <2>4
<1>4. CASE EndLevel
  BY <1>4 DEF EndLevel, TypeOK, Phases, roundVars, reportVars
<1>5. QED
  BY <1>1, <1>2, <1>3, <1>4 DEF Collect

\* Each step of the rounds keeps the types.
LEMMA TypeSummarizeAll == ASSUME TypeOK, SummarizeAll PROVE TypeOK'
<1>1. CASE BeginRound
  <2>1. round + 1 \in 0..MAX_SUMMARY_ROUNDS \/ round = MAX_SUMMARY_ROUNDS
    BY BoundAssumption DEF TypeOK
  <2>2. QED
    BY <1>1, <2>1 DEF BeginRound, TypeOK, Phases, collectVars, reportVars
<1>2. CASE Summarize
  <2>1. Head(rest) \in Fn /\ Tail(rest) \in Seq(Fn)
    BY <1>2, PopFront DEF TypeOK, Summarize
  <2>2. Entry(Head(rest)) \in Summary \cup {None}
    BY <2>1, EntryType
  <2>3. QED
    BY <1>2, <2>1, <2>2 DEF Summarize, TypeOK, collectVars, reportVars
<1>3. CASE EndRound
  BY <1>3 DEF EndRound, TypeOK, Phases, collectVars, roundVars, reportVars
<1>4. QED
  BY <1>1, <1>2, <1>3 DEF SummarizeAll

\* Each step of the checks and of the two `retain' passes keeps the types.
\* No finding is looked at before all are reported.
LEMMA TypeReport ==
  ASSUME TypeOK, Report, pc \notin {"dedup", "backstop", "done"} => looked = 0 /\ kept = {}
  PROVE  TypeOK'
<1>1. CASE CheckCrate
  <2>1. findings' \in Seq(Finding) /\ LocalFns(crate) \in Seq(Fn)
    BY <1>1, AnalysisAssumption, CrateAssumption DEF CheckCrate, TypeOK
  <2>2. looked' = 0 /\ kept' = {} /\ Len(findings') \in Nat
    BY <1>1, <2>1 DEF CheckCrate
  <2>3. QED
    BY <1>1, <2>1, <2>2 DEF CheckCrate, TypeOK, Phases, collectVars, roundVars
<1>2. CASE FindPreconds
  <2>1. CASE rest = <<>>
    BY <1>2, <2>1, CrateAssumption DEF FindPreconds, TypeOK, Phases, collectVars, roundVars, reportVars
  <2>2. CASE rest # <<>>
    <3>1. Head(rest) \in Fn /\ Tail(rest) \in Seq(Fn)
      BY <2>2, PopFront DEF TypeOK
    <3>2. NewPreconds(Head(rest)) \in Precond \cup {None}
      BY <3>1, ViewFacts, AnalysisAssumption DEF NewPreconds, TypeOK
    <3>3. QED
      BY Zenon, <1>2, <2>2, <3>1, <3>2 DEF FindPreconds, TypeOK, collectVars, roundVars, reportVars
  <2>3. QED
    BY <2>1, <2>2
<1>3. CASE CheckBody
  <2>1. CASE rest = <<>>
    BY <1>3, <2>1 DEF CheckBody, TypeOK, Phases, collectVars, roundVars
  <2>2. CASE rest # <<>>
    <3>1. Head(rest) \in Fn /\ Tail(rest) \in Seq(Fn)
      BY <2>2, PopFront DEF TypeOK
    <3>2. PICK found \in NewFindings(Head(rest)) : findings' = findings \o found
      BY <1>3, <2>2 DEF CheckBody
    <3>3. NewFindings(Head(rest)) \subseteq Seq(Finding)
      BY Zenon, <3>1, ViewFacts, AnalysisAssumption DEF NewFindings, TypeOK
    <3>4. findings' \in Seq(Finding)
      BY <3>2, <3>3 DEF TypeOK
    <3>5. looked' = 0 /\ kept' = {} /\ Len(findings') \in Nat
      BY <1>3, <3>4 DEF CheckBody
    <3>6. looked' \in 0..Len(findings') /\ kept' \subseteq 1..looked'
      BY <3>5
    <3>7. UNCHANGED <<crate, pc, collectVars, roundVars, preconds>> /\ rest' = Tail(rest)
      BY <1>3, <2>2 DEF CheckBody
    <3>8. QED
      BY <3>1, <3>4, <3>6, <3>7 DEF TypeOK, collectVars, roundVars
  <2>3. QED
    BY <2>1, <2>2
<1>4. CASE Deduplicate
  <2>1. Len(findings) \in Nat
    BY DEF TypeOK
  <2>2. CASE looked = Len(findings)
    BY Zenon, <1>4, <2>1, <2>2 DEF Deduplicate, TypeOK, Phases, collectVars, roundVars
  <2>3. CASE looked # Len(findings)
    <3>1. /\ looked' = looked + 1
          /\ kept' = kept \/ kept' = kept \cup {looked + 1}
      BY <1>4, <2>3 DEF Deduplicate
    <3>2. looked \in 0..Len(findings) /\ kept \subseteq 1..looked
      BY DEF TypeOK
    <3>3. looked' \in 0..Len(findings)
      BY <2>1, <2>3, <3>1, <3>2
    <3>4. 1..looked \subseteq 1..looked' /\ looked + 1 \in 1..looked'
      BY <2>1, <3>1, <3>2
    <3>5. kept' \subseteq 1..looked'
      BY Zenon, <3>1, <3>2, <3>4
    <3>6. QED
      BY <1>4, <2>3, <3>3, <3>5 DEF Deduplicate, TypeOK, collectVars, roundVars
  <2>4. QED
    BY <2>2, <2>3
<1>5. CASE DropCovered
  BY Zenon, <1>5 DEF DropCovered, TypeOK, Phases, collectVars, roundVars
<1>6. QED
  BY <1>1, <1>2, <1>3, <1>4, <1>5 DEF Report
-----------------------------------------------------------------------------
(***************************************************************************)
(* The collection.  Up to the cap, a function that is neither queued nor   *)
(* newly found has had its calls read: what they name was collected, or is *)
(* among the calls at hand.                                                *)
(***************************************************************************)
Near(k) == Within(crate, k)

Callees(f) == Range(CallsOf(crate, f)) \cap Exported(crate)

ScanInv ==
  ext_count < MAX_EXTERNAL_FNS =>
    \A f \in in_set \ (Range(frontier) \cup Range(next)) : Callees(f) \subseteq in_set \cup Range(calls)

LevelInv ==
  /\ calls = <<>>
  /\ Range(next) \subseteq Range(frontier)
  /\ ext_count < MAX_EXTERNAL_FNS => in_set = Near(depth)
  /\ ScanInv

InLevelInv ==
  /\ depth > 0
  /\ Range(frontier) \subseteq Near(depth - 1)
  /\ in_set \ Range(next) \subseteq Near(depth - 1)
  /\ Range(next) \cap Near(depth - 1) = {}
  /\ Range(calls) \cap Exported(crate) \subseteq Near(depth)
  /\ ScanInv

CollectInv ==
  /\ CollectedOnce /\ BreadthFirst /\ CollectionComplete
  /\ Range(LocalFns(crate)) \subseteq in_set
  /\ Range(frontier) \cup Range(next) \subseteq in_set
  /\ pc = "level" => LevelInv
  /\ pc = "scan" => InLevelInv

\* The collection starts from the local functions.
LEMMA CollectInit == Init => CollectInv
<1>1. SUFFICES ASSUME Init PROVE CollectInv
  OBVIOUS
<1>2. crate \in Crates /\ Near(0) = Range(LocalFns(crate)) /\ Len(LocalFns(crate)) \in Nat
  BY <1>1, WithinAssumption, CrateAssumption DEF Init, Near
<1>3. CollectedOnce
  BY <1>1, <1>2, CrateAssumption, BoundAssumption DEF Init, CollectedOnce
<1>4. BreadthFirst /\ CollectionComplete
  BY <1>1, <1>2 DEF Init, BreadthFirst, CollectionComplete, Near
<1>5. LevelInv
  BY <1>1, <1>2, EmptyRange DEF Init, LevelInv, ScanInv
<1>6. QED
  BY <1>1, <1>3, <1>4, <1>5, EmptyRange DEF Init, CollectInv

\* Levels are nested, and each is one call beyond the one before.
LEMMA NearFacts ==
  ASSUME TypeOK
  PROVE  /\ \A j, k \in 0..MAX_EXTERNAL_DEPTH : j <= k => Near(j) \subseteq Near(k)
         /\ \A j, k \in 0..MAX_EXTERNAL_DEPTH :
              j < k /\ Near(j + 1) = Near(j) => Near(k) = Near(j)
         /\ \A k \in 0..MAX_EXTERNAL_DEPTH - 1 :
              /\ Near(k) \subseteq Near(k + 1)
              /\ \A f \in Near(k) : Callees(f) \subseteq Near(k + 1)
              /\ \A g \in Near(k + 1) : g \in Near(k) \/ \E f \in Near(k) : g \in Callees(f)
<1>1. crate \in Crates
  BY DEF TypeOK
<1>2. \A k \in 0..MAX_EXTERNAL_DEPTH - 1 :
        Near(k + 1) = Near(k) \cup ((UNION {Range(CallsOf(crate, f)) : f \in Near(k)}) \cap Exported(crate))
  BY <1>1, WithinAssumption DEF Near
<1>3. ASSUME NEW k \in 0..MAX_EXTERNAL_DEPTH - 1
      PROVE  /\ Near(k) \subseteq Near(k + 1)
             /\ \A f \in Near(k) : Callees(f) \subseteq Near(k + 1)
             /\ \A g \in Near(k + 1) : g \in Near(k) \/ \E f \in Near(k) : g \in Callees(f)
  BY <1>2 DEF Callees
<1>4. ASSUME NEW j \in 0..MAX_EXTERNAL_DEPTH, NEW k \in 0..MAX_EXTERNAL_DEPTH
      PROVE  /\ j <= k => Near(j) \subseteq Near(k)
             /\ j < k /\ Near(j + 1) = Near(j) => Near(k) = Near(j)
  BY <1>1, WithinAssumption DEF Near
<1>5. QED
  BY <1>3, <1>4

\* A level begins with everything nearer collected.
LEMMA CollectBeginLevel == ASSUME TypeOK, CollectInv, BeginLevel PROVE CollectInv'
<1>1. /\ pc = "level" /\ LevelInv
      /\ UNCHANGED <<crate, to_summarize, in_set, frontier, calls, ext_count>>
  BY DEF CollectInv, BeginLevel
<1>2. CollectedOnce' /\ (Range(LocalFns(crate)) \subseteq in_set)'
  BY <1>1 DEF CollectInv, CollectedOnce
<1>3. CASE depth = MAX_EXTERNAL_DEPTH \/ ext_count >= MAX_EXTERNAL_FNS
  <2>1. pc' = "round" /\ UNCHANGED <<next, depth>>
    BY <1>3 DEF BeginLevel
  <2>2. BreadthFirst' /\ (Range(frontier) \cup Range(next) \subseteq in_set)'
    BY <1>1, <2>1 DEF CollectInv, BreadthFirst
  <2>3. CollectionComplete'
    BY <1>1, <1>3, <2>1, BoundAssumption DEF CollectionComplete, LevelInv, Near, TypeOK
  <2>4. QED
    BY <1>2, <2>1, <2>2, <2>3 DEF CollectInv
<1>4. CASE ~(depth = MAX_EXTERNAL_DEPTH \/ ext_count >= MAX_EXTERNAL_FNS)
  <2>1. pc' = "scan" /\ next' = <<>> /\ depth' = depth + 1
    BY <1>4 DEF BeginLevel
  <2>2. depth \in 0..MAX_EXTERNAL_DEPTH - 1 /\ depth' - 1 = depth
    BY <1>4, <2>1, BoundAssumption DEF TypeOK
  <2>3. in_set = Near(depth) /\ Near(depth) \subseteq Near(depth + 1)
    <3>1. in_set = Near(depth)
      BY <1>1, <1>4, BoundAssumption DEF LevelInv, TypeOK
    <3>2. QED
      BY <3>1, <2>2, NearFacts
  <2>4. BreadthFirst' /\ CollectionComplete'
    BY <1>1, <2>1, <2>2, <2>3 DEF BreadthFirst, CollectionComplete, Near
  <2>5. Range(next') = {} /\ Range(calls') = {}
    BY <1>1, <2>1, EmptyRange DEF LevelInv
  <2>6. ScanInv'
    BY <1>1, <2>5 DEF LevelInv, ScanInv, Callees
  <2>7. InLevelInv'
    <3>1. depth' > 0
      BY <2>1, <2>2, BoundAssumption
    <3>2. Near(depth - 1)' = Near(depth) /\ Range(frontier') \subseteq Near(depth) /\ in_set' = Near(depth)
      BY <1>1, <2>2, <2>3 DEF Near, CollectInv
    <3>3. QED
      BY <2>5, <2>6, <3>1, <3>2 DEF InLevelInv
  <2>8. QED
    BY <1>1, <1>2, <2>1, <2>4, <2>5, <2>7 DEF CollectInv
<1>5. QED
  BY <1>3, <1>4

\* Reading the calls of the next function of the level.
LEMMA CollectScanFunction == ASSUME TypeOK, CollectInv, ScanFunction PROVE CollectInv'
<1>1. /\ pc = "scan" /\ InLevelInv /\ calls = <<>> /\ frontier # <<>>
      /\ UNCHANGED <<crate, pc, to_summarize, in_set, next, ext_count, depth>>
      /\ calls' = CallsOf(crate, Head(frontier)) /\ frontier' = Tail(frontier)
  BY DEF CollectInv, ScanFunction
<1>2. Range(frontier) = {Head(frontier)} \cup Range(frontier')
  BY <1>1, PopFront DEF TypeOK
<1>3. CollectedOnce' /\ BreadthFirst' /\ CollectionComplete' /\ (Range(LocalFns(crate)) \subseteq in_set)'
  BY <1>1 DEF CollectInv, CollectedOnce, BreadthFirst, CollectionComplete
<1>4. ScanInv'
  <2>1. Range(calls) = {} /\ Callees(Head(frontier)) \subseteq Range(calls')
    BY <1>1, EmptyRange DEF Callees
  <2>2. SUFFICES ASSUME ext_count < MAX_EXTERNAL_FNS,
                        NEW f \in in_set \ (Range(frontier') \cup Range(next))
                 PROVE  Callees(f) \subseteq in_set \cup Range(calls')
    BY <1>1 DEF ScanInv, Callees
  <2>3. CASE f = Head(frontier)
    BY <2>1, <2>3
  <2>4. CASE f # Head(frontier)
    BY <1>1, <1>2, <2>1, <2>2, <2>4 DEF InLevelInv, ScanInv
  <2>5. QED
    BY <2>3, <2>4
<1>5. InLevelInv'
  <2>1. depth - 1 \in 0..MAX_EXTERNAL_DEPTH - 1 /\ (depth - 1) + 1 = depth
    BY <1>1, BoundAssumption DEF InLevelInv, TypeOK
  <2>2. Range(calls') \cap Exported(crate) \subseteq Near(depth)
    <3>1. Head(frontier) \in Near(depth - 1)
      BY <1>1, <1>2 DEF InLevelInv
    <3>2. Callees(Head(frontier)) \subseteq Near(depth)
      BY <2>1, <3>1, NearFacts
    <3>3. QED
      BY <1>1, <3>2 DEF Callees
  <2>3. QED
    BY <1>1, <1>2, <1>4, <2>2 DEF InLevelInv, Near
<1>6. QED
  BY <1>1, <1>2, <1>3, <1>5 DEF CollectInv

\* A callee is collected at most once, at its level, and only below the cap.
LEMMA CollectVisitCall == ASSUME TypeOK, CollectInv, VisitCall PROVE CollectInv'
<1>1. /\ pc = "scan" /\ InLevelInv /\ calls # <<>>
      /\ UNCHANGED <<crate, pc, frontier, depth>> /\ calls' = Tail(calls)
  BY DEF CollectInv, VisitCall
<1>2. Head(calls) \in Fn /\ Range(calls) = {Head(calls)} \cup Range(calls')
  BY <1>1, PopFront DEF TypeOK
<1>3. CASE Wanted(Head(calls))
  <2>1. /\ in_set' = in_set \cup {Head(calls)}
        /\ to_summarize' = Append(to_summarize, Head(calls))
        /\ next' = Append(next, Head(calls)) /\ ext_count' = ext_count + 1
    BY <1>3 DEF VisitCall
  <2>2. Head(calls) \notin in_set /\ ext_count < MAX_EXTERNAL_FNS /\ Head(calls) \in Exported(crate)
    BY <1>3 DEF Wanted
  <2>3. Range(next') = Range(next) \cup {Head(calls)}
    BY <1>2, <2>1, PushBack DEF TypeOK
  <2>4. CollectedOnce'
    <3>1. /\ to_summarize \in Seq(Fn) /\ in_set = Range(to_summarize)
          /\ \A i, j \in 1..Len(to_summarize) : to_summarize[i] = to_summarize[j] => i = j
      BY DEF TypeOK, CollectInv, CollectedOnce
    <3>2. /\ Range(Append(to_summarize, Head(calls))) = Range(to_summarize) \cup {Head(calls)}
          /\ Len(Append(to_summarize, Head(calls))) = Len(to_summarize) + 1
      BY <1>2, <3>1, PushBack
    <3>3. in_set' = Range(to_summarize') /\ Len(to_summarize') = Len(to_summarize) + 1
      BY <2>1, <3>1, <3>2
    <3>4. \A i, j \in 1..Len(to_summarize') : to_summarize'[i] = to_summarize'[j] => i = j
      <4>1. \A i, j \in 1..Len(Append(to_summarize, Head(calls))) :
              Append(to_summarize, Head(calls))[i] = Append(to_summarize, Head(calls))[j] => i = j
        BY <1>2, <2>2, <3>1, PushNew
      <4>2. QED
        BY <2>1, <4>1
    <3>5. Len(to_summarize') = Len(LocalFns(crate')) + ext_count' /\ ext_count' <= MAX_EXTERNAL_FNS
      <4>1. Len(LocalFns(crate)) \in Nat
        BY CrateAssumption DEF TypeOK
      <4>2. Len(to_summarize) = Len(LocalFns(crate)) + ext_count
        BY DEF CollectInv, CollectedOnce
      <4>3. QED
        BY <1>1, <2>1, <2>2, <3>3, <4>1, <4>2, BoundAssumption DEF TypeOK
    <3>6. QED
      BY <3>3, <3>4, <3>5 DEF CollectedOnce
  <2>5. Head(calls) \in Near(depth) /\ Near(depth - 1) \subseteq in_set
    BY <1>1, <1>2, <2>2 DEF InLevelInv, CollectInv, BreadthFirst, Near
  <2>6. BreadthFirst' /\ CollectionComplete' /\ (Range(LocalFns(crate)) \subseteq in_set)'
    BY <1>1, <2>1, <2>5 DEF CollectInv, BreadthFirst, CollectionComplete, Near
  <2>7. ScanInv'
    BY <1>1, <1>2, <2>1, <2>2, <2>3 DEF InLevelInv, ScanInv, Callees
  <2>8. InLevelInv'
    BY <1>1, <1>2, <2>1, <2>2, <2>3, <2>5, <2>7 DEF InLevelInv, Near
  <2>9. QED
    BY <1>1, <2>1, <2>3, <2>4, <2>6, <2>8 DEF CollectInv
<1>4. CASE ~Wanted(Head(calls))
  <2>1. UNCHANGED <<in_set, to_summarize, next, ext_count>>
    BY <1>4 DEF VisitCall
  <2>2. CollectedOnce' /\ BreadthFirst' /\ CollectionComplete' /\ (Range(LocalFns(crate)) \subseteq in_set)'
    BY <1>1, <2>1 DEF CollectInv, CollectedOnce, BreadthFirst, CollectionComplete
  <2>3. ScanInv'
    BY <1>1, <1>2, <1>4, <2>1 DEF InLevelInv, ScanInv, Callees, Wanted
  <2>4. InLevelInv'
    BY <1>1, <1>2, <2>1, <2>3 DEF InLevelInv, Near
  <2>5. QED
    BY <1>1, <2>1, <2>2, <2>4 DEF CollectInv
<1>5. QED
  BY <1>3, <1>4

\* A level that ends below the cap has found all of the next level; one that
\* found nothing shows that no later level would.
LEMMA CollectEndLevel == ASSUME TypeOK, CollectInv, EndLevel PROVE CollectInv'
<1>1. /\ pc = "scan" /\ InLevelInv /\ calls = <<>> /\ frontier = <<>>
      /\ UNCHANGED <<crate, to_summarize, in_set, calls, next, ext_count, depth>>
      /\ frontier' = next /\ pc' = IF next = <<>> THEN "round" ELSE "level"
  BY DEF CollectInv, EndLevel
<1>2. Range(calls) = {} /\ Range(frontier) = {}
  BY <1>1, EmptyRange
<1>3. depth - 1 \in 0..MAX_EXTERNAL_DEPTH - 1 /\ (depth - 1) + 1 = depth
  BY <1>1, BoundAssumption DEF InLevelInv, TypeOK
<1>4. ASSUME ext_count < MAX_EXTERNAL_FNS
      PROVE  in_set = Near(depth)
  <2>1. in_set \subseteq Near(depth) /\ Near(depth - 1) \subseteq in_set
    BY <1>1 DEF CollectInv, BreadthFirst, Near, InLevelInv
  <2>2. \A f \in Near(depth - 1) : Callees(f) \subseteq in_set
    BY <1>1, <1>2, <1>4, <2>1 DEF InLevelInv, ScanInv
  <2>3. \A g \in Near(depth) : g \in Near(depth - 1) \/ \E f \in Near(depth - 1) : g \in Callees(f)
    BY <1>3, NearFacts
  <2>4. QED
    BY <2>1, <2>2, <2>3
<1>5. CollectedOnce' /\ BreadthFirst' /\ (Range(LocalFns(crate)) \subseteq in_set)'
  BY <1>1 DEF CollectInv, CollectedOnce, BreadthFirst
<1>6. CASE next = <<>>
  <2>1. ASSUME ext_count < MAX_EXTERNAL_FNS
        PROVE  in_set = Near(MAX_EXTERNAL_DEPTH)
    <3>1. Range(next) = {}
      BY <1>6, EmptyRange
    <3>2. Near(depth) \subseteq Near(depth - 1)
      BY <1>1, <1>4, <2>1, <3>1 DEF InLevelInv
    <3>3. Near(depth - 1) \subseteq Near(depth)
      BY <1>3, NearFacts
    <3>4. MAX_EXTERNAL_DEPTH \in 0..MAX_EXTERNAL_DEPTH /\ depth - 1 \in 0..MAX_EXTERNAL_DEPTH
          /\ depth - 1 < MAX_EXTERNAL_DEPTH
      BY <1>3, BoundAssumption
    <3>5. Near((depth - 1) + 1) = Near(depth - 1)
      BY <1>3, <3>2, <3>3
    <3>6. Near(MAX_EXTERNAL_DEPTH) = Near(depth - 1)
      BY <3>4, <3>5, NearFacts
    <3>7. in_set = Near(depth)
      BY <1>4, <2>1
    <3>8. QED
      BY <3>2, <3>3, <3>6, <3>7
  <2>2. CollectionComplete'
    BY <1>1, <2>1 DEF CollectionComplete, Near
  <2>3. QED
    BY <1>1, <1>5, <1>6, <2>2 DEF CollectInv
<1>7. CASE next # <<>>
  <2>1. LevelInv'
    BY <1>1, <1>2, <1>4, <1>7 DEF LevelInv, ScanInv, InLevelInv, Near, Callees
  <2>2. CollectionComplete'
    BY <1>1, <1>7 DEF CollectionComplete
  <2>3. QED
    BY <1>1, <1>5, <1>7, <2>1, <2>2 DEF CollectInv
<1>8. QED
  BY <1>6, <1>7
-----------------------------------------------------------------------------
(***************************************************************************)
(* The rounds.  In a round, a function that was visited has the entry its  *)
(* body gives against the snapshot; any other one still has the entry of   *)
(* the snapshot.  The snapshot solves the equations of the functions that  *)
(* are shallower than the rounds that were completed.                      *)
(***************************************************************************)
InRoundInv ==
  /\ round > 0
  /\ Range(rest) \subseteq in_set
  /\ \A f \in Fn : f \in in_set \ Range(rest) => summaries[f] = Entry(f)
  /\ \A f \in Fn : summaries[f] = snap[f] \/ (f \in in_set /\ summaries[f] = Entry(f))
  /\ \A f \in in_set \cap Ranked(crate) : Rank(crate, f) < round - 1 => SolvedAt(f, snap)

RoundInv ==
  /\ FixpointOrCap /\ ShallowExact
  /\ pc \in {"level", "scan"} => round = 0
  /\ pc = "summarize" => InRoundInv

\* What a body gives against the snapshot is what the equations ask for.
LEMMA EntrySolves == \A f \in Fn : SolvedAt(f, snap) <=> snap[f] = Entry(f)
  BY DEF SolvedAt, Entry

\* No function that is shallower than the completed rounds changes any more.
LEMMA ShallowUnchanged ==
  ASSUME TypeOK, InRoundInv, NEW f \in in_set \cap Ranked(crate), Rank(crate, f) < round - 1
  PROVE  summaries[f] = snap[f] /\ Entry(f) = snap[f]
<1>1. f \in Fn /\ SolvedAt(f, snap)
  BY DEF InRoundInv, TypeOK
<1>2. QED
  BY <1>1, EntrySolves DEF InRoundInv

\* A body that mentions only unchanged entries is analysed to the same entry.
LEMMA SameView ==
  ASSUME TypeOK, NEW f \in Fn, \A g \in Mentions(crate, f) : summaries[g] = snap[g]
  PROVE  View(crate, f, summaries) = View(crate, f, snap)
  BY DEF View, Restrict

\* The functions that are summarised lie within the depth.
LEMMA CollectedWithin ==
  ASSUME TypeOK, CollectInv
  PROVE  in_set \subseteq Within(crate, MAX_EXTERNAL_DEPTH)
<1>1. in_set \subseteq Near(depth)
  BY DEF CollectInv, BreadthFirst, Near
<1>2. MAX_EXTERNAL_DEPTH \in 0..MAX_EXTERNAL_DEPTH /\ depth <= MAX_EXTERNAL_DEPTH
      /\ depth \in 0..MAX_EXTERNAL_DEPTH
  BY BoundAssumption DEF TypeOK
<1>3. QED
  BY <1>1, <1>2, NearFacts DEF Near

\* A round is begun with the map of the round before as its snapshot.
LEMMA RoundBegin == ASSUME TypeOK, CollectInv, RoundInv, BeginRound PROVE RoundInv'
<1>1. pc = "round" /\ UNCHANGED <<crate, in_set, to_summarize, summaries>>
  BY DEF BeginRound, collectVars
<1>2. CASE round = MAX_SUMMARY_ROUNDS
  BY <1>1, <1>2 DEF BeginRound, RoundInv, FixpointOrCap, ShallowExact, SolvedAt
<1>3. CASE round # MAX_SUMMARY_ROUNDS
  <2>1. pc' = "summarize" /\ snap' = summaries /\ round' = round + 1 /\ rest' = to_summarize
    BY <1>3 DEF BeginRound
  <2>2. in_set = Range(to_summarize)
    BY DEF CollectInv, CollectedOnce
  <2>3. \A f \in in_set \cap Ranked(crate) : Rank(crate, f) < round => SolvedAt(f, summaries)
    BY <1>1 DEF RoundInv, ShallowExact
  <2>4. round' > 0 /\ round' - 1 = round
    BY <2>1, BoundAssumption DEF TypeOK
  <2>5. InRoundInv'
    BY <1>1, <2>1, <2>2, <2>3, <2>4 DEF InRoundInv, SolvedAt
  <2>6. QED
    BY <2>1, <2>5 DEF RoundInv, FixpointOrCap, ShallowExact
<1>4. QED
  BY <1>2, <1>3

\* Within a round, the functions are visited one by one.
LEMMA RoundSummarize == ASSUME TypeOK, RoundInv, Summarize PROVE RoundInv'
<1>1. /\ pc = "summarize" /\ rest # <<>> /\ InRoundInv
      /\ summaries' = [summaries EXCEPT ![Head(rest)] = Entry(Head(rest))]
      /\ rest' = Tail(rest)
      /\ UNCHANGED <<crate, pc, in_set, snap, round>>
  BY DEF Summarize, RoundInv, collectVars
<1>2. Head(rest) \in Fn /\ Range(rest) = {Head(rest)} \cup Range(rest')
  BY <1>1, PopFront DEF TypeOK
<1>3. \A f \in Fn : Entry(f)' = Entry(f) /\ (SolvedAt(f, snap)' <=> SolvedAt(f, snap))
  BY <1>1 DEF Entry, SolvedAt
<1>4. summaries'[Head(rest)] = Entry(Head(rest)) /\ \A f \in Fn \ {Head(rest)} : summaries'[f] = summaries[f]
  BY <1>1, <1>2 DEF TypeOK
<1>5. InRoundInv'
  <2>1. in_set \subseteq Fn
    BY DEF TypeOK
  <2>2. QED
    BY <1>1, <1>2, <1>3, <1>4, <2>1 DEF InRoundInv
<1>6. QED
  BY <1>1, <1>5 DEF RoundInv, FixpointOrCap, ShallowExact

\* A round that ends settles the functions that are one call deeper, and one
\* that changed nothing leaves a solution.
LEMMA RoundEnd == ASSUME TypeOK, CollectInv, RoundInv, EndRound PROVE RoundInv'
<1>1. /\ pc = "summarize" /\ rest = <<>> /\ InRoundInv
      /\ pc' = IF summaries = snap THEN "crate" ELSE "round"
      /\ UNCHANGED <<crate, in_set, summaries, snap, round>>
  BY DEF EndRound, RoundInv, collectVars, roundVars
<1>2. in_set \subseteq Fn /\ Range(rest) = {} /\ crate \in Crates
  BY <1>1, EmptyRange DEF TypeOK
<1>3. \A f \in in_set : summaries[f] = Entry(f)
  BY <1>1, <1>2 DEF InRoundInv
<1>4. FixpointOrCap'
  <2>1. ASSUME summaries = snap
        PROVE  \A f \in in_set : SolvedAt(f, summaries)
    BY <1>2, <1>3, <2>1 DEF Entry, SolvedAt
  <2>2. QED
    BY <1>1, <2>1 DEF FixpointOrCap, SolvedAt
<1>5. ASSUME NEW f \in in_set \cap Ranked(crate), Rank(crate, f) < round
      PROVE  SolvedAt(f, summaries)
  <2>1. ASSUME NEW g \in Mentions(crate, f)
        PROVE  summaries[g] = snap[g]
    <3>1. g \in Fn
      BY <1>2, CrateAssumption
    <3>2. CASE g \notin in_set
      BY <1>1, <3>1, <3>2 DEF InRoundInv
    <3>3. CASE g \in in_set
      <4>1. g \in Mentions(crate, f) \cap Within(crate, MAX_EXTERNAL_DEPTH)
        BY <2>1, <3>3, CollectedWithin
      <4>2. /\ g \in Ranked(crate) /\ Rank(crate, g) < Rank(crate, f)
            /\ Rank(crate, g) \in Nat /\ Rank(crate, f) \in Nat
        BY <1>2, <1>5, <4>1, RankAssumption
      <4>3. Rank(crate, g) < round - 1
        BY <1>5, <4>2, BoundAssumption DEF TypeOK
      <4>4. QED
        BY <1>1, <3>3, <4>2, <4>3, ShallowUnchanged
    <3>4. QED
      BY <3>2, <3>3
  <2>2. View(crate, f, summaries) = View(crate, f, snap)
    BY <1>2, <2>1, SameView
  <2>3. QED
    BY <1>3, <2>2 DEF Entry, SolvedAt
<1>6. ShallowExact'
  BY <1>1, <1>5 DEF ShallowExact, SolvedAt
<1>7. QED
  BY <1>1, <1>4, <1>6 DEF RoundInv

\* Steps that leave the map and the set of functions alone.
LEMMA RoundFrame ==
  ASSUME RoundInv, UNCHANGED <<crate, in_set, summaries, snap, round>>,
         \/ pc' = pc /\ (pc = "summarize" => UNCHANGED rest)
         \/ /\ pc \notin {"level", "scan", "round", "summarize"}
            /\ pc' \notin {"level", "scan", "round", "summarize"}
  PROVE  RoundInv'
<1>1. FixpointOrCap' /\ ShallowExact'
  BY DEF RoundInv, FixpointOrCap, ShallowExact, SolvedAt
<1>2. pc' \in {"level", "scan"} => round' = 0
  BY DEF RoundInv
<1>3. pc' = "summarize" => InRoundInv'
  BY DEF RoundInv, InRoundInv, Entry, SolvedAt
<1>4. QED
  BY <1>1, <1>2, <1>3 DEF RoundInv

\* Before the rounds nothing is claimed of the map.
LEMMA RoundCollect == ASSUME TypeOK, RoundInv, Collect PROVE RoundInv'
<1>1. /\ pc \in {"level", "scan"} /\ round' = 0 /\ pc' \in {"level", "scan", "round"}
      /\ UNCHANGED crate
  BY DEF Collect, BeginLevel, ScanFunction, VisitCall, EndLevel, RoundInv, roundVars
<1>2. \A f \in Ranked(crate) : ~(Rank(crate, f) < 0)
  <2>1. \A f \in Ranked(crate) : Rank(crate, f) \in Nat
    BY RankAssumption DEF TypeOK
  <2>2. QED
    BY <2>1
<1>3. QED
  BY <1>1, <1>2 DEF RoundInv, FixpointOrCap, ShallowExact
-----------------------------------------------------------------------------
(***************************************************************************)
(* The `retain' passes.  `seen' holds the keys of the kept findings.       *)
(***************************************************************************)
DedupInv ==
  /\ \A i \in 1..looked : \E j \in kept : SameReport(findings[i], findings[j])
  /\ \A j \in kept : FindingKey(findings[j]) \in seen
  /\ \A k \in seen : \E j \in kept : FindingKey(findings[j]) = k
  /\ \A i, j \in kept : SameReport(findings[i], findings[j]) => i = j

RetainInv ==
  /\ NothingSilenced /\ NothingRepeated
  /\ pc \notin {"dedup", "backstop", "done"} => looked = 0 /\ seen = {} /\ kept = {}
  /\ pc \in {"dedup", "backstop"} => DedupInv
  /\ pc = "backstop" => looked = Len(findings)

\* The key of a finding is its rule and its place.
LEMMA KeyFacts == \A f, g : FindingKey(f) = FindingKey(g) <=> SameReport(f, g)
  BY DEF FindingKey, SameReport

\* The first pass: a finding is kept if its key is new.
LEMMA RetainDeduplicate == ASSUME TypeOK, RetainInv, Deduplicate PROVE RetainInv'
<1>1. pc = "dedup" /\ DedupInv /\ UNCHANGED findings /\ looked \in Nat /\ kept \subseteq 1..looked
  BY DEF Deduplicate, RetainInv, TypeOK
<1>2. CASE looked = Len(findings)
  <2>1. pc' = "backstop" /\ UNCHANGED <<looked, seen, kept>>
    BY <1>2 DEF Deduplicate
  <2>2. QED
    BY <1>1, <1>2, <2>1 DEF RetainInv, DedupInv, NothingSilenced, NothingRepeated
<1>3. CASE looked # Len(findings)
  <2> DEFINE i == looked + 1
  <2>1. /\ pc' = "dedup" /\ looked' = i
        /\ seen' = seen \cup {FindingKey(findings[i])}
        /\ kept' = IF FindingKey(findings[i]) \in seen THEN kept ELSE kept \cup {i}
    BY <1>1, <1>3 DEF Deduplicate
  <2>2. \A n \in 1..looked' : n \in 1..looked \/ n = i
    BY <1>1, <2>1
  <2>3. \E j \in kept' : FindingKey(findings[i]) = FindingKey(findings[j])
    BY <1>1, <2>1 DEF DedupInv
  <2>4. \A n \in 1..looked' : \E j \in kept' : SameReport(findings[n], findings[j])
    BY <1>1, <2>1, <2>2, <2>3, KeyFacts DEF DedupInv
  <2>5. \A j \in kept' : FindingKey(findings[j]) \in seen'
    BY <1>1, <2>1 DEF DedupInv
  <2>6. \A k \in seen' : \E j \in kept' : FindingKey(findings[j]) = k
    BY <1>1, <2>1, <2>3 DEF DedupInv
  <2>7. \A m, n \in kept' : SameReport(findings[m], findings[n]) => m = n
    <3>1. ASSUME FindingKey(findings[i]) \notin seen, NEW n \in kept
          PROVE  ~SameReport(findings[i], findings[n]) /\ ~SameReport(findings[n], findings[i])
      BY <1>1, <3>1, KeyFacts DEF DedupInv
    <3>2. QED
      BY <1>1, <2>1, <3>1 DEF DedupInv
  <2>8. DedupInv'
    BY <1>1, <2>4, <2>5, <2>6, <2>7 DEF DedupInv, SameReport, FindingKey
  <2>9. QED
    BY <2>1, <2>8 DEF RetainInv, NothingSilenced, NothingRepeated
<1>4. QED
  BY <1>2, <1>3

\* The second pass: a backstop finding goes only where another rule spoke.
LEMMA RetainDropCovered == ASSUME TypeOK, RetainInv, DropCovered PROVE RetainInv'
<1>1. /\ pc = "backstop" /\ DedupInv /\ looked = Len(findings)
      /\ pc' = "done" /\ UNCHANGED findings
      /\ kept' = {i \in kept : findings[i].rule = BACKSTOP => ~Covered(i)}
  BY DEF DropCovered, RetainInv
<1>2. \A j \in kept : findings[j].rule # BACKSTOP => j \in kept'
  BY <1>1
<1>3. ASSUME NEW i \in DOMAIN findings
      PROVE  \E j \in kept' :
               \/ SameReport(findings[i], findings[j])
               \/ /\ findings[i].rule = BACKSTOP /\ findings[j].rule # BACKSTOP
                  /\ Overlap(findings[i], findings[j])
  <2>1. i \in 1..looked
    BY <1>1 DEF TypeOK
  <2>2. PICK n \in kept : SameReport(findings[i], findings[n])
    BY <1>1, <2>1 DEF DedupInv
  <2>3. CASE n \in kept'
    BY <2>2, <2>3
  <2>4. CASE n \notin kept'
    <3>1. findings[n].rule = BACKSTOP /\ Covered(n)
      BY <1>1, <2>2, <2>4
    <3>2. PICK j \in kept : findings[j].rule # BACKSTOP /\ Overlap(findings[n], findings[j])
      BY <3>1 DEF Covered
    <3>3. Overlap(findings[i], findings[j]) /\ findings[i].rule = BACKSTOP
      BY <2>2, <3>1, <3>2 DEF Overlap, SameReport
    <3>4. QED
      BY <1>2, <3>2, <3>3
  <2>5. QED
    BY <2>3, <2>4
<1>4. ASSUME NEW i \in kept', NEW j \in kept', i # j
      PROVE  /\ ~SameReport(findings[i], findings[j])
             /\ ~(findings[i].rule = BACKSTOP /\ findings[j].rule # BACKSTOP
                  /\ Overlap(findings[i], findings[j]))
  BY <1>1, <1>4 DEF DedupInv, Covered
<1>5. NothingSilenced'
  BY <1>1, <1>3 DEF NothingSilenced, SameReport, Overlap
<1>6. NothingRepeated'
  BY <1>1, <1>4 DEF NothingRepeated, SameReport, Overlap
<1>7. QED
  BY <1>1, <1>5, <1>6 DEF RetainInv

\* Nothing is looked at before all findings are there.
LEMMA RetainEarlier ==
  ASSUME RetainInv, UNCHANGED <<looked, seen, kept>>, pc \notin {"dedup", "backstop", "done"},
         pc' \notin {"backstop", "done"}
  PROVE  RetainInv'
<1>1. looked' = 0 /\ seen' = {} /\ kept' = {}
  BY DEF RetainInv
<1>2. DedupInv'
  BY <1>1 DEF DedupInv
<1>3. QED
  BY <1>1, <1>2 DEF RetainInv, NothingSilenced, NothingRepeated
-----------------------------------------------------------------------------
(***************************************************************************)
(* The inductive invariant, and the theorems.                              *)
(***************************************************************************)
IInv == TypeOK /\ CollectInv /\ RoundInv /\ RetainInv

\* The invariant holds when run_checks starts.
LEMMA InvInit == Init => IInv
<1>1. SUFFICES ASSUME Init PROVE IInv
  OBVIOUS
<1>2. \A f \in Ranked(crate) : ~(Rank(crate, f) < 0)
  <2>1. \A f \in Ranked(crate) : Rank(crate, f) \in Nat
    BY <1>1, RankAssumption DEF Init
  <2>2. QED
    BY <2>1
<1>3. RoundInv
  BY <1>1, <1>2 DEF Init, RoundInv, FixpointOrCap, ShallowExact
<1>4. RetainInv
  BY <1>1 DEF Init, RetainInv, NothingSilenced, NothingRepeated
<1>5. QED
  BY <1>1, <1>3, <1>4, TypeInit, CollectInit DEF IInv

\* The collection is over when the rounds begin.
LEMMA CollectFrame ==
  ASSUME CollectInv, UNCHANGED <<crate, collectVars>>,
         pc' = pc \/ (pc \notin {"level", "scan"} /\ pc' \notin {"level", "scan"})
  PROVE  CollectInv'
<1>1. CollectedOnce' /\ BreadthFirst' /\ CollectionComplete'
  BY DEF CollectInv, CollectedOnce, BreadthFirst, CollectionComplete, collectVars
<1>2. (pc' = "level" => LevelInv') /\ (pc' = "scan" => InLevelInv')
  BY DEF CollectInv, LevelInv, InLevelInv, ScanInv, Callees, Near, collectVars
<1>3. QED
  BY <1>1, <1>2 DEF CollectInv, collectVars

\* Every step of run_checks keeps the invariant.
LEMMA InvStep == IInv /\ [Next]_vars => IInv'
<1>1. SUFFICES ASSUME IInv, [Next]_vars PROVE IInv'
  OBVIOUS
<1>2. TypeOK /\ CollectInv /\ RoundInv /\ RetainInv
  BY <1>1 DEF IInv
<1>3. CASE Collect
  <2>1. CollectInv'
    BY <1>2, <1>3, CollectBeginLevel, CollectScanFunction, CollectVisitCall, CollectEndLevel DEF Collect
  <2>2. /\ UNCHANGED <<looked, seen, kept>>
        /\ pc \in {"level", "scan"} /\ pc' \in {"level", "scan", "round"}
    BY <1>3 DEF Collect, BeginLevel, ScanFunction, VisitCall, EndLevel, reportVars
  <2>3. RetainInv'
    BY <1>2, <2>2, RetainEarlier
  <2>4. QED
    BY <1>2, <1>3, <2>1, <2>3, TypeCollect, RoundCollect DEF IInv
<1>4. CASE SummarizeAll
  <2>1. /\ UNCHANGED <<crate, collectVars, looked, seen, kept>>
        /\ pc \in {"round", "summarize"} /\ pc' \in {"round", "summarize", "crate"}
    BY <1>4 DEF SummarizeAll, BeginRound, Summarize, EndRound, reportVars
  <2>2. CollectInv' /\ RetainInv'
    BY <1>2, <2>1, CollectFrame, RetainEarlier
  <2>3. RoundInv'
    BY <1>2, <1>4, RoundBegin, RoundSummarize, RoundEnd DEF SummarizeAll
  <2>4. QED
    BY <1>2, <1>4, <2>2, <2>3, TypeSummarizeAll DEF IInv
<1>5. CASE Report
  <2>1. /\ UNCHANGED <<crate, collectVars, in_set, summaries, snap, round>>
        /\ pc \notin {"level", "scan", "round", "summarize"}
        /\ pc' \notin {"level", "scan", "round", "summarize"}
    BY <1>5 DEF Report, CheckCrate, FindPreconds, CheckBody, Deduplicate, DropCovered, collectVars, roundVars
  <2>2. CollectInv' /\ RoundInv'
    BY <1>2, <2>1, CollectFrame, RoundFrame
  <2>3. RetainInv'
    <3>1. CASE CheckCrate \/ FindPreconds \/ CheckBody
      <4>1. /\ UNCHANGED <<looked, seen, kept>>
            /\ pc \in {"crate", "precond", "check"} /\ pc' \in {"precond", "check", "dedup"}
        BY <3>1 DEF CheckCrate, FindPreconds, CheckBody, reportVars
      <4>2. QED
        BY <1>2, <4>1, RetainEarlier
    <3>2. QED
      BY <1>2, <1>5, <3>1, RetainDeduplicate, RetainDropCovered DEF Report
  <2>4. TypeOK'
    BY <1>2, <1>5, TypeReport DEF RetainInv
  <2>5. QED
    BY <2>2, <2>3, <2>4 DEF IInv
<1>6. CASE Done \/ UNCHANGED vars
  <2>1. UNCHANGED <<crate, pc, collectVars, roundVars, rest, preconds, reportVars>>
    BY <1>6 DEF Done, vars
  <2>2. TypeOK'
    BY <1>2, <2>1 DEF TypeOK, collectVars, roundVars, reportVars
  <2>3. CollectInv' /\ RoundInv'
    BY <1>2, <2>1, CollectFrame, RoundFrame DEF collectVars, roundVars
  <2>4. RetainInv'
    BY <1>2, <2>1 DEF RetainInv, DedupInv, NothingSilenced, NothingRepeated, reportVars
  <2>5. QED
    BY <2>2, <2>3, <2>4 DEF IInv
<1>7. QED
  BY <1>1, <1>3, <1>4, <1>5, <1>6 DEF Next

\* All states of run_checks satisfy the invariant.
THEOREM Invariance == Spec => []IInv
  BY InvInit, InvStep, PTL DEF Spec

\* However many functions call each other, none is summarised twice and the
\* cap on external functions is kept.
THEOREM CollectionBounded == Spec => []CollectedOnce
<1>1. IInv => CollectedOnce
  BY DEF IInv, CollectInv
<1>2. QED
  BY <1>1, Invariance, PTL

\* The cap leaves out only functions of the last level that was begun.
THEOREM CollectionNearestFirst == Spec => []BreadthFirst
<1>1. IInv => BreadthFirst
  BY DEF IInv, CollectInv
<1>2. QED
  BY <1>1, Invariance, PTL

\* Below the cap, every exported function within the depth is summarised.
THEOREM CollectionFindsAll == Spec => []CollectionComplete
<1>1. IInv => CollectionComplete
  BY DEF IInv, CollectInv
<1>2. QED
  BY <1>1, Invariance, PTL

\* The map the checkers read solves the summary equations, or the rounds ran
\* out.
THEOREM SummariesSolve == Spec => []FixpointOrCap
<1>1. IInv => FixpointOrCap
  BY DEF IInv, RoundInv
<1>2. QED
  BY <1>1, Invariance, PTL

\* One call level is settled per round, with recursion anywhere else.
THEOREM OneLevelPerRound == Spec => []ShallowExact
<1>1. IInv => ShallowExact
  BY DEF IInv, RoundInv
<1>2. QED
  BY <1>1, Invariance, PTL

\* A settled summary is not changed by any later round.
THEOREM SettledForGood == Spec => ExactStays
<1>1. IInv /\ [Next]_vars =>
        [\A f \in Ranked(crate) \cap in_set : Rank(crate, f) < RoundsDone => summaries'[f] = summaries[f]]_vars
  <2>1. SUFFICES ASSUME IInv, Next, NEW f \in Ranked(crate) \cap in_set, Rank(crate, f) < RoundsDone
                 PROVE  summaries'[f] = summaries[f]
    OBVIOUS
  <2>2. CASE Summarize
    <3>1. /\ pc = "summarize" /\ InRoundInv /\ rest # <<>> /\ TypeOK
          /\ summaries' = [summaries EXCEPT ![Head(rest)] = Entry(Head(rest))]
      BY <2>1, <2>2 DEF Summarize, IInv, RoundInv
    <3>2. summaries[f] = snap[f] /\ Entry(f) = snap[f]
      BY <2>1, <3>1, ShallowUnchanged DEF RoundsDone
    <3>3. QED
      BY <3>1, <3>2 DEF TypeOK
  <2>3. CASE ~Summarize
    BY <2>1, <2>3 DEF Next, Collect, BeginLevel, ScanFunction, VisitCall, EndLevel,
         SummarizeAll, BeginRound, EndRound, Report, CheckCrate, FindPreconds, CheckBody,
         Deduplicate, DropCovered, Done, roundVars, vars
  <2>4. QED
    BY <2>2, <2>3
<1>2. QED
  BY <1>1, Invariance, PTL DEF Spec, ExactStays

\* No report is lost for good by the two `retain' passes.
THEOREM FindingsSurvive == Spec => []NothingSilenced
<1>1. IInv => NothingSilenced
  BY DEF IInv, RetainInv
<1>2. QED
  BY <1>1, Invariance, PTL

\* The backstop is silent where another rule speaks, and no rule repeats
\* itself.
THEOREM FindingsOnce == Spec => []NothingRepeated
<1>1. IInv => NothingRepeated
  BY DEF IInv, RetainInv
<1>2. QED
  BY <1>1, Invariance, PTL

\* The rounds of run_checks implement SummaryEquations: the order in which a
\* round visits the functions, and the unfinished map, are invisible.
THEOREM RoundsAreWhole == Spec => WholeRounds
<1>1. Init => Iteration!Init
  BY DEF Init, Iteration!Init, RoundsDone
<1>2. IInv /\ IInv' /\ [Next]_vars => [Iteration!Next]_(Iteration!vars)
  <2>1. SUFFICES ASSUME IInv, IInv', Next PROVE [Iteration!Next]_(Iteration!vars)
    BY DEF vars, collectVars, roundVars, Iteration!vars, RoundsDone
  <2>2. CASE Collect
    <3>1. /\ pc \in {"level", "scan"} /\ pc' \in {"level", "scan", "round"}
          /\ UNCHANGED <<crate, summaries, round>>
      BY <2>2 DEF Collect, BeginLevel, ScanFunction, VisitCall, EndLevel, roundVars
    <3>2. CASE pc' = "round"
      <4>1. in_set' \subseteq Fn /\ Range(LocalFns(crate)) \subseteq in_set'
        BY <2>1, <3>1 DEF IInv, TypeOK, CollectInv
      <4>2. Iteration!Begin
        BY <3>1, <3>2, <4>1 DEF Iteration!Begin, Iteration!Range, Range, RoundsDone
      <4>3. QED
        BY <4>2 DEF Iteration!Next
    <3>3. CASE pc' # "round"
      BY <3>1, <3>3 DEF Iteration!vars, RoundsDone
    <3>4. QED
      BY <3>2, <3>3
  <2>3. CASE BeginRound
    <3>1. pc = "round" /\ UNCHANGED <<crate, in_set, summaries>> /\ round \in Nat
      BY <2>1, <2>3, BoundAssumption DEF BeginRound, collectVars, IInv, TypeOK
    <3>2. CASE round = MAX_SUMMARY_ROUNDS
      <4>1. pc' = "crate" /\ round' = round
        BY <2>3, <3>2 DEF BeginRound
      <4>2. Iteration!GiveUp
        BY <3>1, <3>2, <4>1 DEF Iteration!GiveUp, RoundsDone
      <4>3. QED
        BY <4>2 DEF Iteration!Next
    <3>3. CASE round # MAX_SUMMARY_ROUNDS
      <4>1. pc' = "summarize" /\ snap' = summaries /\ round' - 1 = round
        BY <2>3, <3>1, <3>3 DEF BeginRound
      <4>2. QED
        BY <3>1, <4>1 DEF Iteration!vars, RoundsDone
    <3>4. QED
      BY <3>2, <3>3
  <2>4. CASE Summarize
    BY <2>4 DEF Summarize, collectVars, Iteration!vars, RoundsDone
  <2>5. CASE EndRound
    <3>1. /\ pc = "summarize" /\ rest = <<>> /\ InRoundInv /\ TypeOK
          /\ pc' = IF summaries = snap THEN "crate" ELSE "round"
          /\ UNCHANGED <<crate, in_set, summaries, snap, round>>
      BY <2>1, <2>5 DEF EndRound, IInv, RoundInv, collectVars, roundVars
    <3>2. /\ round - 1 < MAX_SUMMARY_ROUNDS /\ (round - 1) + 1 = round
          /\ summaries \in [Fn -> Summary \cup {None}]
      BY <3>1, BoundAssumption DEF TypeOK
    <3>3. \A f \in Fn : summaries[f] = IF f \in in_set THEN Entry(f) ELSE snap[f]
      BY <3>1, EmptyRange DEF InRoundInv
    <3>4. summaries = [f \in Fn |-> IF f \in in_set THEN Entry(f) ELSE snap[f]]
      BY <3>2, <3>3
    <3>5. \A f \in Fn : Iteration!Entry(f) = Entry(f)
      BY <3>1 DEF Iteration!Entry, Entry, View, Restrict, Iteration!Restrict
    <3>6. Iteration!Round
      BY <3>1, <3>2, <3>4, <3>5 DEF Iteration!Round, RoundsDone
    <3>7. QED
      BY <3>6 DEF Iteration!Next
  <2>6. CASE Report \/ Done
    <3>1. /\ UNCHANGED <<crate, in_set, summaries, round>>
          /\ pc \notin {"level", "scan", "round", "summarize"}
          /\ pc' \notin {"level", "scan", "round", "summarize"}
      BY <2>6 DEF Report, CheckCrate, FindPreconds, CheckBody, Deduplicate, DropCovered,
           Done, vars, collectVars, roundVars
    <3>2. QED
      BY <3>1 DEF Iteration!vars, RoundsDone
  <2>7. QED
    BY <2>1, <2>2, <2>3, <2>4, <2>5, <2>6 DEF Next, SummarizeAll
<1>3. QED
  BY <1>1, <1>2, Invariance, PTL DEF Spec, WholeRounds, Iteration!Spec
=============================================================================
