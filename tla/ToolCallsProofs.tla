-------------------------- MODULE ToolCallsProofs --------------------------
(***************************************************************************)
(* Proofs about ToolCalls, for any turns, calls, results, and window, and  *)
(* for any thresholds or (RepeatsDecide) any in the proportions of the     *)
(* defaults.                                                               *)
(***************************************************************************)
EXTENDS ToolCalls, FiniteSetTheorems, FunctionTheorems, WellFoundedInduction, TLAPS

Running == [call : Calls, verdict : Verdict]
Record  == [call : Calls, result : Outcome \cup {Nothing}, through : BOOLEAN]

TypeOK ==
    /\ history \in Seq(Record)
    /\ Len(history) <= HistorySize
    /\ running \in [Turns -> {Nothing} \cup Running]

-----------------------------------------------------------------------------
(* Windows and counts.                                                     *)

\* A set of positions that is not empty has a last one: the one from which the fewest
\* positions are left.
LEMMA LastExists ==
  ASSUME NEW n \in Nat, NEW S \in SUBSET (1..n), S # {}
  PROVE  Max(S) \in S /\ \A x \in S : x <= Max(S)
<1> DEFINE U == 1..n
           R == StrictSubsetOrdering(U)
           T == {x..n : x \in S}
<1>1. IsFiniteSet(U)
  BY FS_Interval
<1>2. IsWellFoundedOn(R, FiniteSubsetsOf(U))
  BY <1>1, FS_StrictSubsetOrderingWellFounded
<1>3. \A X \in SUBSET U : X \in FiniteSubsetsOf(U)
  BY <1>1, FS_Subset DEF FiniteSubsetsOf
<1>4. T \subseteq FiniteSubsetsOf(U) /\ T # {}
  <2>1. \A x \in S : x..n \in SUBSET U
    OBVIOUS
  <2> HIDE DEF U
  <2>2. QED
    BY <1>3, <2>1
<1> HIDE DEF T, R
<1>5. PICK X \in T : \A Y \in T : ~(<<Y, X>> \in R)
  BY <1>2, <1>4, WFMin
<1> USE DEF T, R
<1>6. PICK m \in S : X = m..n
  BY <1>5
<1>7. ASSUME NEW x \in S, x > m PROVE FALSE
  <2>1. x..n \in T /\ x..n \in SUBSET U /\ m..n \in SUBSET U
    OBVIOUS
  <2>2. x..n \subseteq m..n /\ m \in m..n /\ m \notin x..n
    BY <1>7
  <2>3. x..n # m..n
    BY <2>2
  <2>4. <<x..n, X>> \in R
    BY <1>6, <2>1, <2>2, <2>3 DEF StrictSubsetOrdering
  <2>5. QED
    BY <1>5, <2>1, <2>4
<1>8. m \in S /\ \A x \in S : m >= x
  BY <1>7
<1>9. Max(S) \in S /\ \A x \in S : Max(S) >= x
  BY <1>8 DEF Max
<1>10. QED
  BY <1>9

\* The positions of a streak are in the set it is a streak of.
LEMMA StreakInside ==
  ASSUME history \in Seq(Record), NEW S \in SUBSET (DOMAIN history)
  PROVE  /\ Streak(S) \in 0..Len(history)
         /\ \A i \in (Len(history) - Streak(S) + 1)..Len(history) : i \in S
<1> DEFINE n == Len(history)
           others == (DOMAIN history) \ S
<1>1. n \in Nat /\ DOMAIN history = 1..n
  OBVIOUS
<1>2. CASE others = {}
  BY <1>1, <1>2 DEF Streak
<1>3. CASE others # {}
  <2>1. Max(others) \in others /\ \A x \in others : x <= Max(others)
    <3>1. others \in SUBSET (1..n) /\ n \in Nat
      BY <1>1
    <3> HIDE DEF others, n
    <3>2. QED
      BY <1>3, <3>1, LastExists
  <2>2. Streak(S) = n - Max(others) /\ Max(others) \in 1..n
    BY <1>1, <1>3, <2>1 DEF Streak
  <2> DEFINE m == Max(others)
  <2>3. ASSUME NEW i \in (n - Streak(S) + 1)..n PROVE i \in S
    <3>1. m \in 1..n /\ \A x \in others : x <= m
      BY <2>1, <2>2
    <3>2. Streak(S) = n - m
      BY <2>2
    <3> HIDE DEF m
    <3>3. i \in 1..n /\ ~(i <= m)
      BY <1>1, <3>1, <3>2
    <3>4. QED
      BY <1>1, <3>1, <3>3
  <2>4. Streak(S) \in 0..n
    <3>1. m \in 1..n /\ Streak(S) = n - m
      BY <2>2
    <3> HIDE DEF m
    <3>2. QED
      BY <1>1, <3>1
  <2>5. QED
    BY <2>3, <2>4
<1>4. QED
  BY <1>2, <1>3

\* The records of a call are finitely many positions of the window.
LEMMA OfFinite ==
  ASSUME history \in Seq(Record), NEW c
  PROVE  /\ Of(c) \subseteq 1..Len(history) /\ IsFiniteSet(Of(c)) /\ Repeats(c) \in Nat
         /\ Finished(c) \subseteq Of(c)
<1>1. Len(history) \in Nat /\ DOMAIN history = 1..Len(history) /\ IsFiniteSet(1..Len(history))
  BY FS_Interval
<1>2. Of(c) \in SUBSET (1..Len(history))
  BY <1>1 DEF Of
<1>3. QED
  BY <1>1, <1>2, FS_Subset, FS_CardinalityType DEF Repeats, Finished

\* A streak without progress consists of repetitions of the call.
LEMMA NoProgressRepeats ==
  ASSUME history \in Seq(Record), NEW c
  PROVE  NoProgress(c) \in Nat /\ NoProgress(c) <= Repeats(c)
<1> DEFINE reference == history[Max(Finished(c))].result
           S == {i \in Of(c) : history[i].result \in {Nothing, reference}}
           n == Len(history)
<1>1. CASE Finished(c) = {}
  BY <1>1, OfFinite DEF NoProgress
<1>2. CASE Finished(c) # {}
  <2>1. NoProgress(c) = Streak(S)
    BY <1>2 DEF NoProgress
  <2>2. n \in Nat /\ DOMAIN history = 1..n /\ S \in SUBSET (DOMAIN history) /\ S \subseteq Of(c)
    BY OfFinite
  <2> HIDE DEF S
  <2>3. Streak(S) \in 0..n /\ \A i \in (n - Streak(S) + 1)..n : i \in S
    BY <2>2, StreakInside
  <2>4. (n - Streak(S) + 1)..n \in SUBSET Of(c)
    BY <2>2, <2>3
  <2>5. Cardinality((n - Streak(S) + 1)..n) = Streak(S)
    BY <2>2, <2>3, FS_Interval
  <2>6. Cardinality((n - Streak(S) + 1)..n) <= Repeats(c)
    BY <2>4, OfFinite, FS_Subset DEF Repeats
  <2>7. QED
    BY <2>1, <2>3, <2>5, <2>6
<1>3. QED
  BY <1>1, <1>2

-----------------------------------------------------------------------------
(* An alternation.                                                         *)

\* The streak of an alternation of c and another call is within the window.
LEMMA PingPongNat ==
  ASSUME history \in Seq(Record), NEW c
  PROVE  PingPong(c) \in Nat
<1> DEFINE n == Len(history)
           last == history[n].call
           S == {i \in 1..n : history[i].call = IF (n - i) % 2 = 0 THEN last ELSE c}
<1>1. n \in Nat /\ DOMAIN history = 1..n /\ S \in SUBSET (DOMAIN history)
  OBVIOUS
<1>2. PingPong(c) = IF n < 2 \/ c = last THEN 0 ELSE Streak(S)
  BY DEF PingPong
<1> HIDE DEF S
<1>3. Streak(S) \in 0..n
  BY <1>1, StreakInside
<1>4. QED
  BY <1>1, <1>2, <1>3

\* Every other call of an alternation is c: one of length 2 * w or more holds w calls c.
LEMMA PingPongRepeats ==
  ASSUME history \in Seq(Record), NEW c, NEW w \in Nat \ {0}, PingPong(c) >= 2 * w
  PROVE  Repeats(c) >= w
<1> DEFINE n == Len(history)
           last == history[n].call
           S == {i \in 1..n : history[i].call = IF (n - i) % 2 = 0 THEN last ELSE c}
           f == [j \in 1..w |-> n + 1 - 2 * j]
<1>1. n \in Nat /\ DOMAIN history = 1..n /\ S \in SUBSET (DOMAIN history)
  OBVIOUS
<1>2. PingPong(c) = Streak(S)
  BY <1>1 DEF PingPong
<1>3. Streak(S) \in 0..n /\ \A i \in (n - Streak(S) + 1)..n : i \in S
  <2> HIDE DEF S
  <2>1. QED
    BY <1>1, StreakInside
<1>4. ASSUME NEW j \in 1..w PROVE n + 1 - 2 * j \in Of(c)
  <2> DEFINE i == n + 1 - 2 * j
  <2>1. i \in (n - Streak(S) + 1)..n /\ n - i = 2 * j - 1
    <3> HIDE DEF S
    <3>1. QED
      BY <1>1, <1>2, <1>3
  <2>2. i \in S
    BY <1>3, <2>1
  <2>3. (n - i) % 2 # 0
    BY <2>1
  <2> HIDE DEF i
  <2>4. i \in 1..n /\ history[i].call = c
    BY <2>2, <2>3
  <2>5. i \in Of(c)
    BY <1>1, <2>4 DEF Of
  <2>6. QED
    BY <2>5 DEF i
<1>5. f \in Injection(1..w, Of(c))
  <2>1. f \in [1..w -> Of(c)]
    BY <1>4
  <2>2. \A a, b \in 1..w : f[a] = f[b] => a = b
    BY <1>1
  <2> HIDE DEF f
  <2>3. QED
    BY <2>1, <2>2, Fun_IsInj
<1>6. Cardinality(1..w) <= Cardinality(Of(c))
  <2> HIDE DEF f
  <2>1. QED
    BY <1>5, OfFinite, FS_Injection
<1>7. Cardinality(1..w) = w
  BY FS_Interval
<1>8. QED
  BY <1>6, <1>7, OfFinite DEF Repeats

-----------------------------------------------------------------------------
(* The verdict.                                                            *)

\* What detect answers, and that it lets no call through that is in the window as often
\* as the critical threshold.
LEMMA DetectVerdict ==
  ASSUME history \in Seq(Record), NEW c
  PROVE  /\ Detect(c) \in Verdict
         /\ Detect(c).level # "blocked" => Repeats(c) < CriticalThreshold
<1>1. NoProgress(c) \in Nat /\ Repeats(c) \in Nat /\ PingPong(c) \in Nat
  BY NoProgressRepeats, OfFinite, PingPongNat
<1>2. CriticalThreshold \in Nat
  BY ThresholdsAssumption
<1>3. QED
  BY <1>1, <1>2 DEF Detect, Verdict, Reasons, Blocked, Warning, Passed

\* With thresholds in the proportions of the defaults only the number of repetitions
\* blocks a call.
LEMMA DetectByRepeats ==
  ASSUME history \in Seq(Record), NEW c,
         2 * WarningThreshold <= CriticalThreshold, CriticalThreshold <= CircuitBreakerThreshold
  PROVE  Detect(c).level = "blocked" <=> Repeats(c) >= CriticalThreshold
<1>1. /\ NoProgress(c) \in Nat /\ NoProgress(c) <= Repeats(c)
      /\ Repeats(c) \in Nat /\ PingPong(c) \in Nat
  BY NoProgressRepeats, OfFinite, PingPongNat
<1>2. /\ CriticalThreshold \in Nat /\ CircuitBreakerThreshold \in Nat
      /\ WarningThreshold \in Nat \ {0}
  BY ThresholdsAssumption
<1>3. PingPong(c) >= 2 * WarningThreshold => Repeats(c) >= WarningThreshold
  BY <1>2, PingPongRepeats
<1>4. PingPong(c) >= CriticalThreshold => Repeats(c) >= WarningThreshold
  BY <1>1, <1>2, <1>3
<1>5. CASE Repeats(c) >= CriticalThreshold
  BY <1>5 DEF Detect, Blocked
<1>6. CASE ~(Repeats(c) >= CriticalThreshold)
  <2>1. ~(NoProgress(c) >= CircuitBreakerThreshold)
    BY <1>1, <1>2, <1>6
  <2>2. Detect(c).level \in {"warning", "passed"}
    BY <1>4, <1>6, <2>1 DEF Detect, Warning, Passed
  <2>3. QED
    BY <1>6, <2>2
<1>7. QED
  BY <1>5, <1>6

-----------------------------------------------------------------------------
(* The window.                                                             *)

\* Trimming a window leaves a window, of at most HistorySize records.
LEMMA TrimmedWindow ==
  ASSUME NEW h \in Seq(Record), Len(h) <= HistorySize + 1
  PROVE  /\ Trimmed(h) \in Seq(Record) /\ Len(Trimmed(h)) <= HistorySize
         /\ \E k \in Nat : /\ Len(Trimmed(h)) + k = Len(h)
                           /\ \A i \in 1..Len(Trimmed(h)) : Trimmed(h)[i] = h[i + k]
<1>1. HistorySize \in Nat \ {0} /\ Len(h) \in Nat
  BY ThresholdsAssumption
<1>2. CASE Len(h) <= HistorySize
  <2>1. Trimmed(h) = h
    BY <1>1, <1>2 DEF Trimmed
  <2>2. Len(Trimmed(h)) + 0 = Len(h) /\ \A i \in 1..Len(Trimmed(h)) : Trimmed(h)[i] = h[i + 0]
    BY <1>1, <2>1
  <2>3. QED
    BY <1>2, <2>1, <2>2
<1>3. CASE Len(h) = HistorySize + 1
  <2>1. Trimmed(h) = SubSeq(h, 2, HistorySize + 1)
    BY <1>1, <1>3 DEF Trimmed
  <2>2. /\ SubSeq(h, 2, HistorySize + 1) \in Seq(Record)
        /\ Len(SubSeq(h, 2, HistorySize + 1)) = HistorySize
        /\ \A i \in 1..HistorySize : SubSeq(h, 2, HistorySize + 1)[i] = h[i + 1]
    BY <1>1, <1>3
  <2>3. QED
    BY <1>1, <1>3, <2>1, <2>2
<1>4. Len(h) <= HistorySize \/ Len(h) = HistorySize + 1
  BY <1>1
<1>5. QED
  BY <1>2, <1>3, <1>4

\* Filing a result changes the result of at most one record.
LEMMA FiledWindow ==
  ASSUME history \in Seq(Record), NEW c, NEW r \in Outcome
  PROVE  /\ Filed(c, r) \in Seq(Record) /\ Len(Filed(c, r)) = Len(history)
         /\ \A i \in 1..Len(history) : /\ Filed(c, r)[i].call = history[i].call
                                       /\ Filed(c, r)[i].through = history[i].through
<1> DEFINE open == Of(c) \ Finished(c)
<1>1. CASE open = {}
  BY <1>1 DEF Filed
<1>2. CASE open # {}
  <2>1. open \in SUBSET (1..Len(history)) /\ Len(history) \in Nat
    BY OfFinite
  <2>2. Max(open) \in 1..Len(history)
    <3> HIDE DEF open
    <3>1. QED
      BY <1>2, <2>1, LastExists
  <2>3. PICK m \in 1..Len(history) : Filed(c, r) = [history EXCEPT ![m] = [@ EXCEPT !.result = r]]
    BY <1>2, <2>2, Zenon DEF Filed
  <2>4. [history[m] EXCEPT !.result = r] \in Record
    <3>1. history[m] \in Record
      OBVIOUS
    <3>2. QED
      BY <3>1 DEF Record
  <2>5. \A i \in 1..Len(history) : /\ Filed(c, r)[i].call = history[i].call
                                  /\ Filed(c, r)[i].through = history[i].through
    BY <2>3 DEF Record
  <2>6. QED
    BY <2>3, <2>4, <2>5
<1>3. QED
  BY <1>1, <1>2

-----------------------------------------------------------------------------
(* Types.                                                                  *)

\* A blocked call is never let through, so that its record is not among those counted.
LEMMA CallStep ==
  ASSUME TypeOK, NEW t \in Turns, NEW c \in Calls, Call(t, c)
  PROVE  /\ \E rec \in Record : /\ rec.call = c
                                /\ rec.through => Repeats(c) < CriticalThreshold
                                /\ history' = Trimmed(Append(history, rec))
         /\ running[t] = Nothing
         /\ \E call \in Running : call.call = c /\ running' = [running EXCEPT ![t] = call]
<1> DEFINE verdict == Detect(c)
           rec == [call |-> c, result |-> Nothing, through |-> verdict.level # "blocked"]
<1>1. verdict \in Verdict /\ (verdict.level # "blocked" => Repeats(c) < CriticalThreshold)
  BY DetectVerdict DEF TypeOK
<1>2. rec \in Record
  BY DEF Record
<1>3. /\ history' = Trimmed(Append(history, rec)) /\ running[t] = Nothing
      /\ running' = [running EXCEPT ![t] = [call |-> c, verdict |-> verdict]]
  BY DEF Call
<1> HIDE DEF verdict
<1>4. [call |-> c, verdict |-> verdict] \in Running
  BY <1>1 DEF Running
<1>5. rec.call = c /\ (rec.through => Repeats(c) < CriticalThreshold)
  BY <1>1
<1>6. QED
  BY <1>2, <1>3, <1>4, <1>5

\* A call returns one of its results, or the error of a hook.
LEMMA ReturnStep ==
  ASSUME TypeOK, NEW t \in Turns, Return(t)
  PROVE  /\ running[t] \in Running
         /\ \E r \in Outcome : history' = Filed(running[t].call, r)
         /\ running' = [running EXCEPT ![t] = Nothing]
<1>1. running[t] \in Running
  BY DEF TypeOK, Return
<1>2. PICK result \in Outcomes(running[t]) : history' = Filed(running[t].call, result)
  BY DEF Return
<1>3. Outcomes(running[t]) \subseteq Outcome
  <2> DEFINE call == running[t]
  <2>1. call.call \in Calls /\ call.verdict.reason \in Reasons /\ call.verdict.count \in Nat
    BY <1>1 DEF Running, Verdict
  <2> HIDE DEF call
  <2>2. /\ Results[call.call] \subseteq Outcome
        /\ <<"autonomy", call.call>> \in Outcome
        /\ <<"loop detected", call.verdict.reason, call.verdict.count>> \in Outcome
    BY <2>1 DEF Outcome
  <2>3. Outcomes(call) \subseteq Outcome
    BY <2>2, Zenon DEF Outcomes
  <2>4. QED
    BY <2>3 DEF call
<1>4. QED
  BY <1>1, <1>2, <1>3 DEF Return

\* TypeOK is inductive.
LEMMA TypeStep ==
  ASSUME TypeOK, [Next]_vars
  PROVE  TypeOK'
<1>1. CASE UNCHANGED vars
  BY <1>1 DEF TypeOK, vars
<1>2. ASSUME NEW t \in Turns, NEW c \in Calls, Call(t, c) PROVE TypeOK'
  <2>1. PICK rec \in Record : history' = Trimmed(Append(history, rec))
    BY <1>2, CallStep
  <2>2. running' \in [Turns -> {Nothing} \cup Running]
    BY <1>2, CallStep DEF TypeOK
  <2>3. Append(history, rec) \in Seq(Record) /\ Len(Append(history, rec)) <= HistorySize + 1
    BY ThresholdsAssumption DEF TypeOK
  <2>4. QED
    BY <2>1, <2>2, <2>3, TrimmedWindow DEF TypeOK
<1>3. ASSUME NEW t \in Turns, Return(t) PROVE TypeOK'
  <2>1. PICK r \in Outcome : history' = Filed(running[t].call, r)
    BY <1>3, ReturnStep
  <2>2. running' \in [Turns -> {Nothing} \cup Running]
    BY <1>3, ReturnStep DEF TypeOK
  <2>3. QED
    BY <2>1, <2>2, FiledWindow DEF TypeOK
<1>4. QED
  BY <1>1, <1>2, <1>3 DEF Next

\* The window is a sequence of at most HistorySize records, and a turn has at most one
\* call with its verdict (registry.go: ExecuteWithContext, loop_detector.go).
THEOREM TypeCorrect == Spec => []TypeOK
<1>1. Init => TypeOK
  BY ThresholdsAssumption DEF Init, TypeOK
<1>2. TypeOK /\ [Next]_vars => TypeOK'
  BY TypeStep
<1>3. QED
  BY <1>1, <1>2, PTL DEF Spec

\* Only the number of repetitions blocks a call.
OnlyRepeatsBlock ==
    \A c \in Calls : Detect(c).level = "blocked" <=> Repeats(c) >= CriticalThreshold

\* Its comment (loop_detector.go:189) has detect return the highest of the verdicts of all
\* engines; it returns the first, and so the other two engines never matter for what is
\* blocked: with the warning threshold at most half of the critical one, and the breaker's
\* at least the critical one, as the defaults are, a call is blocked exactly when the
\* window holds it as often as the critical threshold, whatever has been alternating or
\* has made no progress.
THEOREM RepeatsDecide ==
  ASSUME 2 * WarningThreshold <= CriticalThreshold, CriticalThreshold <= CircuitBreakerThreshold
  PROVE  Spec => []OnlyRepeatsBlock
<1>1. TypeOK => OnlyRepeatsBlock
  BY DetectByRepeats DEF TypeOK, OnlyRepeatsBlock
<1>2. QED
  BY <1>1, TypeCorrect, PTL

-----------------------------------------------------------------------------
(* Counting in a window.                                                   *)

\* A set of positions of a part of a window is no larger than the set of the same
\* positions in the window.
LEMMA ShiftedCount ==
  ASSUME NEW R \in SUBSET Nat, IsFiniteSet(R), NEW S, IsFiniteSet(S), NEW k \in Nat,
         \A i \in R : i + k \in S
  PROVE  Cardinality(R) <= Cardinality(S)
<1> DEFINE f == [i \in R |-> i + k]
<1>1. f \in [R -> S] /\ \A a, b \in R : f[a] = f[b] => a = b
  OBVIOUS
<1> HIDE DEF f
<1>2. f \in Injection(R, S)
  BY <1>1, Fun_IsInj
<1>3. QED
  BY <1>2, FS_Injection

-----------------------------------------------------------------------------
(* Repetitions.                                                            *)

\* The records of a window h that let call c through.
Let(h, c) == {i \in DOMAIN h : h[i].call = c /\ h[i].through}

\* No call is let through more often than the critical threshold in window h.
Limited(h) == \A c \in Calls : Cardinality(Let(h, c)) <= CriticalThreshold

LEMMA LetFinite ==
  ASSUME NEW h \in Seq(Record), NEW c
  PROVE  IsFiniteSet(Let(h, c)) /\ Let(h, c) \subseteq 1..Len(h) /\ Cardinality(Let(h, c)) \in Nat
<1>1. Len(h) \in Nat /\ IsFiniteSet(1..Len(h)) /\ Let(h, c) \in SUBSET (1..Len(h))
  BY FS_Interval DEF Let
<1>2. QED
  BY <1>1, FS_Subset, FS_CardinalityType

\* One more record keeps the limit, for it is let through only if it is below the limit.
LEMMA AppendLimited ==
  ASSUME history \in Seq(Record), Limited(history), NEW rec \in Record,
         rec.through => Repeats(rec.call) < CriticalThreshold
  PROVE  Limited(Append(history, rec))
<1> DEFINE h == Append(history, rec)
           n == Len(history)
<1>1. n \in Nat /\ h \in Seq(Record) /\ DOMAIN h = 1..(n + 1) /\ DOMAIN history = 1..n
  OBVIOUS
<1>2. h[n + 1] = rec /\ \A i \in 1..n : h[i] = history[i]
  OBVIOUS
<1> HIDE DEF h, n
<1> SUFFICES ASSUME NEW c \in Calls PROVE Cardinality(Let(h, c)) <= CriticalThreshold
  BY DEF Limited, h
<1>3. CASE rec.through /\ rec.call = c
  <2>1. Let(h, c) \subseteq Of(c) \cup {n + 1}
    BY <1>1, <1>2 DEF Let, Of
  <2>2. IsFiniteSet(Of(c)) /\ Cardinality(Of(c)) \in Nat /\ Cardinality(Of(c)) < CriticalThreshold
    BY <1>3, OfFinite DEF Repeats
  <2>3. /\ IsFiniteSet(Of(c) \cup {n + 1})
        /\ Cardinality(Of(c) \cup {n + 1}) <= Cardinality(Of(c)) + 1
    <3> DEFINE S == Of(c)
               x == n + 1
    <3> HIDE DEF S, x
    <3>1. IsFiniteSet(S) /\ Cardinality(S) \in Nat
      BY <2>2 DEF S
    <3>2. IsFiniteSet(S \cup {x})
      BY <3>1, FS_AddElement, Zenon
    <3>3. Cardinality(S \cup {x}) = IF x \in S THEN Cardinality(S) ELSE Cardinality(S) + 1
      BY <3>1, FS_AddElement, Zenon
    <3>4. Cardinality(S \cup {x}) <= Cardinality(S) + 1
      BY <3>1, <3>3
    <3>5. QED
      BY <3>2, <3>4 DEF S, x
  <2>4. Cardinality(Let(h, c)) <= Cardinality(Of(c) \cup {n + 1})
    BY <2>1, <2>3, FS_Subset
  <2>5. Cardinality(Let(h, c)) \in Nat /\ Cardinality(Of(c) \cup {n + 1}) \in Nat
    BY <1>1, <2>3, LetFinite, FS_CardinalityType
  <2>6. QED
    BY <2>2, <2>3, <2>4, <2>5, ThresholdsAssumption
<1>4. CASE ~(rec.through /\ rec.call = c)
  <2>1. Let(h, c) = Let(history, c)
    BY <1>1, <1>2, <1>4 DEF Let
  <2>2. QED
    BY <2>1 DEF Limited
<1>5. QED
  BY <1>3, <1>4

\* A part of a window lets no call through more often than the window.
LEMMA PartLimited ==
  ASSUME NEW h \in Seq(Record), NEW g \in Seq(Record), Limited(h), NEW k \in Nat,
         Len(g) + k = Len(h),
         \A i \in 1..Len(g) : g[i].call = h[i + k].call /\ g[i].through = h[i + k].through
  PROVE  Limited(g)
<1> SUFFICES ASSUME NEW c \in Calls PROVE Cardinality(Let(g, c)) <= CriticalThreshold
  BY DEF Limited
<1>1. /\ Len(g) \in Nat /\ DOMAIN g = 1..Len(g)
      /\ Len(h) \in Nat /\ DOMAIN h = 1..Len(h)
  OBVIOUS
<1>2. ASSUME NEW i \in Let(g, c) PROVE i + k \in Let(h, c)
  <2>1. i \in 1..Len(g) /\ g[i].call = c /\ g[i].through
    BY <1>1 DEF Let
  <2>2. i + k \in 1..Len(h) /\ h[i + k].call = c /\ h[i + k].through
    BY <1>1, <2>1
  <2>3. QED
    BY <1>1, <2>2 DEF Let
<1>3. Let(g, c) \in SUBSET Nat /\ IsFiniteSet(Let(g, c)) /\ IsFiniteSet(Let(h, c))
  BY <1>1, LetFinite
<1>4. Cardinality(Let(g, c)) <= Cardinality(Let(h, c))
  BY <1>2, <1>3, ShiftedCount
<1>5. Cardinality(Let(h, c)) <= CriticalThreshold
  BY DEF Limited
<1>6. QED
  BY <1>4, <1>5, LetFinite, ThresholdsAssumption

LEMMA LimitedStep ==
  ASSUME TypeOK, Limited(history), [Next]_vars
  PROVE  Limited(history')
<1>1. CASE UNCHANGED vars
  BY <1>1 DEF vars
<1>2. ASSUME NEW t \in Turns, NEW c \in Calls, Call(t, c) PROVE Limited(history')
  <2>1. PICK rec \in Record : /\ rec.through => Repeats(rec.call) < CriticalThreshold
                              /\ history' = Trimmed(Append(history, rec))
    BY <1>2, CallStep
  <2> DEFINE h == Append(history, rec)
  <2>2. h \in Seq(Record) /\ Len(h) <= HistorySize + 1
    BY ThresholdsAssumption DEF TypeOK
  <2>3. Limited(h)
    BY <2>1, AppendLimited DEF TypeOK
  <2> HIDE DEF h
  <2>4. Trimmed(h) \in Seq(Record)
    BY <2>2, TrimmedWindow
  <2>5. PICK k \in Nat : /\ Len(Trimmed(h)) + k = Len(h)
                         /\ \A i \in 1..Len(Trimmed(h)) : Trimmed(h)[i] = h[i + k]
    BY <2>2, TrimmedWindow
  <2>6. Limited(Trimmed(h))
    BY <2>2, <2>3, <2>4, <2>5, PartLimited
  <2>7. QED
    BY <2>1, <2>6 DEF h
<1>3. ASSUME NEW t \in Turns, Return(t) PROVE Limited(history')
  <2>1. PICK r \in Outcome : history' = Filed(running[t].call, r)
    BY <1>3, ReturnStep
  <2>2. history' \in Seq(Record) /\ Len(history') + 0 = Len(history)
    BY <2>1, FiledWindow DEF TypeOK
  <2>3. \A i \in 1..Len(history') : /\ history'[i].call = history[i + 0].call
                                    /\ history'[i].through = history[i + 0].through
    BY <2>1, FiledWindow DEF TypeOK
  <2>4. QED
    BY <2>2, <2>3, PartLimited DEF TypeOK
<1>4. QED
  BY <1>1, <1>2, <1>3 DEF Next

\* Whatever the thresholds, the results, and the number of turns that share the detector,
\* the window never holds more than CriticalThreshold equal calls that were let through
\* (loop_detector.go: detect, BeforeExecute).
THEOREM RepetitionsEnd == Spec => []RepeatsLimited
<1>1. TypeOK => (RepeatsLimited <=> Limited(history))
  BY DEF RepeatsLimited, Limited, Let, Of
<1>2. Init => TypeOK /\ Limited(history)
  <2>1. ASSUME Init, NEW c \in Calls PROVE Cardinality(Let(history, c)) <= CriticalThreshold
    <3>1. Let(history, c) = {}
      BY <2>1 DEF Init, Let
    <3>2. QED
      BY <3>1, FS_EmptySet, ThresholdsAssumption
  <2>2. Init => TypeOK
    BY ThresholdsAssumption DEF Init, TypeOK
  <2>3. QED
    BY <2>1, <2>2 DEF Limited
<1>3. TypeOK /\ Limited(history) /\ [Next]_vars => TypeOK' /\ Limited(history')
  BY TypeStep, LimitedStep
<1>4. QED
  <2> DEFINE I == TypeOK /\ Limited(history)
  <2>1. Init => I
    BY <1>2
  <2>2. I /\ [Next]_vars => I'
    BY <1>3
  <2>3. I => RepeatsLimited
    BY <1>1
  <2> HIDE DEF I
  <2>4. QED
    BY <2>1, <2>2, <2>3, PTL DEF Spec

-----------------------------------------------------------------------------
(* Results.                                                                *)

\* The records of window h of call c without a result, and the turns that run c.
Open(h, c) == {i \in DOMAIN h : h[i].call = c /\ h[i].result = Nothing}
Runners(c) == {t \in Turns : running[t] # Nothing /\ running[t].call = c}

Balanced == \A c \in Calls : Cardinality(Open(history, c)) <= Cardinality(Runners(c))

LEMMA OpenFinite ==
  ASSUME NEW h \in Seq(Record), NEW c
  PROVE  IsFiniteSet(Open(h, c)) /\ Open(h, c) \subseteq 1..Len(h) /\ Cardinality(Open(h, c)) \in Nat
<1>1. Len(h) \in Nat /\ IsFiniteSet(1..Len(h)) /\ Open(h, c) \in SUBSET (1..Len(h))
  BY FS_Interval DEF Open
<1>2. QED
  BY <1>1, FS_Subset, FS_CardinalityType

LEMMA RunnersFinite ==
  ASSUME NEW c
  PROVE  /\ IsFiniteSet(Runners(c)) /\ Cardinality(Runners(c)) \in Nat
         /\ IsFiniteSet(Runners(c)') /\ Cardinality(Runners(c)') \in Nat
<1>1. Runners(c) \in SUBSET Turns /\ Runners(c)' \in SUBSET Turns /\ IsFiniteSet(Turns)
  BY ThresholdsAssumption DEF Runners
<1>2. QED
  BY <1>1, FS_Subset, FS_CardinalityType

\* One more record is one more without a result, of its own call.
LEMMA AppendOpen ==
  ASSUME NEW h \in Seq(Record), NEW rec \in Record, NEW c
  PROVE  Cardinality(Open(Append(h, rec), c))
            <= Cardinality(Open(h, c)) + (IF rec.call = c THEN 1 ELSE 0)
<1> DEFINE g == Append(h, rec)
           n == Len(h)
           x == n + 1
<1>1. n \in Nat /\ g \in Seq(Record) /\ DOMAIN g = 1..(n + 1) /\ DOMAIN h = 1..n
  OBVIOUS
<1>2. g[n + 1] = rec /\ \A i \in 1..n : g[i] = h[i]
  OBVIOUS
<1> HIDE DEF g, n
<1>3. /\ IsFiniteSet(Open(h, c)) /\ Cardinality(Open(h, c)) \in Nat
      /\ Cardinality(Open(g, c)) \in Nat
  BY <1>1, OpenFinite
<1>4. CASE rec.call = c
  <2>1. Open(g, c) \in SUBSET (Open(h, c) \cup {x})
    BY <1>1, <1>2 DEF Open
  <2> HIDE DEF x
  <2>2. /\ IsFiniteSet(Open(h, c) \cup {x})
        /\ Cardinality(Open(h, c) \cup {x})
              = IF x \in Open(h, c) THEN Cardinality(Open(h, c)) ELSE Cardinality(Open(h, c)) + 1
    BY <1>3, FS_AddElement, Zenon
  <2>3. Cardinality(Open(g, c)) <= Cardinality(Open(h, c) \cup {x})
    BY <2>1, <2>2, FS_Subset
  <2>4. QED
    BY <1>3, <1>4, <2>2, <2>3 DEF g
<1>5. CASE rec.call # c
  <2>1. Open(g, c) = Open(h, c)
    BY <1>1, <1>2, <1>5 DEF Open
  <2>2. QED
    BY <1>3, <1>5, <2>1 DEF g
<1>6. QED
  BY <1>4, <1>5

\* Trimming only takes records away.
LEMMA TrimmedOpen ==
  ASSUME NEW h \in Seq(Record), Len(h) <= HistorySize + 1, NEW c
  PROVE  Cardinality(Open(Trimmed(h), c)) <= Cardinality(Open(h, c))
<1> DEFINE g == Trimmed(h)
<1>1. g \in Seq(Record)
  BY TrimmedWindow
<1>2. PICK k \in Nat : Len(g) + k = Len(h) /\ \A i \in 1..Len(g) : g[i] = h[i + k]
  BY TrimmedWindow
<1> HIDE DEF g
<1>3. /\ Len(g) \in Nat /\ DOMAIN g = 1..Len(g)
      /\ Len(h) \in Nat /\ DOMAIN h = 1..Len(h)
  BY <1>1
<1>4. \A i \in Open(g, c) : i + k \in Open(h, c)
  BY <1>2, <1>3 DEF Open
<1>5. Open(g, c) \in SUBSET Nat /\ IsFiniteSet(Open(g, c)) /\ IsFiniteSet(Open(h, c))
  BY <1>1, <1>3, OpenFinite
<1>6. QED
  BY <1>4, <1>5, ShiftedCount DEF g

\* A result closes one record of its call, if one is open, and no record of another.
LEMMA FiledOpen ==
  ASSUME history \in Seq(Record), NEW c, NEW r \in Outcome, NEW d
  PROVE  /\ d # c => Open(Filed(c, r), d) = Open(history, d)
         /\ Open(history, c) = {} => Open(Filed(c, r), c) = {}
         /\ Open(history, c) # {} =>
               Cardinality(Open(Filed(c, r), c)) = Cardinality(Open(history, c)) - 1
<1> DEFINE g == Filed(c, r)
<1>1. Of(c) \ Finished(c) = Open(history, c)
  BY DEF Of, Finished, Open
<1>2. CASE Open(history, c) = {}
  BY <1>1, <1>2 DEF Filed
<1>3. CASE Open(history, c) # {}
  <2> DEFINE m == Max(Open(history, c))
  <2>1. m \in Open(history, c)
    BY <1>3, OpenFinite, LastExists, Len(history) \in Nat
  <2>2. g = [history EXCEPT ![m] = [@ EXCEPT !.result = r]]
    BY <1>1, <1>3, Zenon DEF Filed
  <2>3. r # Nothing
    BY NothingAssumption
  <2> HIDE DEF m, g
  <2>4. m \in DOMAIN history /\ history[m].call = c /\ history[m] \in Record
    BY <2>1 DEF Open
  <2>5. /\ DOMAIN g = DOMAIN history
        /\ g[m].call = c /\ g[m].result = r
        /\ \A i \in DOMAIN history \ {m} : g[i] = history[i]
    BY <2>2, <2>4 DEF Record
  <2>6. Open(g, c) = Open(history, c) \ {m} /\ (d # c => Open(g, d) = Open(history, d))
    BY <2>3, <2>4, <2>5 DEF Open
  <2>7. Cardinality(Open(history, c) \ {m}) = Cardinality(Open(history, c)) - 1
    BY <2>1, OpenFinite, FS_RemoveElement
  <2>8. QED
    BY <1>3, <2>6, <2>7 DEF g
<1>4. QED
  BY <1>2, <1>3

LEMMA BalancedStep ==
  ASSUME TypeOK, Balanced, [Next]_vars
  PROVE  Balanced'
<1>1. CASE UNCHANGED vars
  BY <1>1 DEF vars, Balanced, Runners
<1>2. ASSUME NEW t \in Turns, NEW c \in Calls, Call(t, c), NEW d \in Calls
      PROVE  Cardinality(Open(history', d)) <= Cardinality(Runners(d)')
  <2>1. PICK rec \in Record : rec.call = c /\ history' = Trimmed(Append(history, rec))
    BY <1>2, CallStep
  <2> DEFINE h == Append(history, rec)
  <2>2. h \in Seq(Record) /\ Len(h) <= HistorySize + 1
    BY ThresholdsAssumption DEF TypeOK
  <2>3. Cardinality(Open(h, d)) <= Cardinality(Open(history, d)) + (IF c = d THEN 1 ELSE 0)
    BY <2>1, AppendOpen DEF TypeOK
  <2> HIDE DEF h
  <2>4. /\ Cardinality(Open(history', d)) <= Cardinality(Open(h, d))
        /\ Cardinality(Open(history', d)) \in Nat /\ Cardinality(Open(h, d)) \in Nat
    BY <2>1, <2>2, TrimmedOpen, TrimmedWindow, OpenFinite DEF h
  <2>5. PICK call \in Running : /\ running[t] = Nothing /\ call.call = c
                                /\ running' = [running EXCEPT ![t] = call]
    BY <1>2, CallStep
  <2>6. call # Nothing
    BY NothingAssumption DEF Running
  <2>7. /\ t \notin Runners(d)
        /\ Runners(d)' = IF c = d THEN Runners(d) \cup {t} ELSE Runners(d)
    BY <2>5, <2>6 DEF Runners, TypeOK
  <2>8. Cardinality(Runners(d) \cup {t}) = Cardinality(Runners(d)) + 1
    BY <2>7, RunnersFinite, FS_AddElement
  <2>9. /\ Cardinality(Open(history, d)) <= Cardinality(Runners(d))
        /\ Cardinality(Open(history, d)) \in Nat /\ Cardinality(Runners(d)) \in Nat
    BY OpenFinite, RunnersFinite DEF Balanced, TypeOK
  <2>10. CASE c = d
    BY <2>3, <2>4, <2>7, <2>8, <2>9, <2>10
  <2>11. CASE c # d
    BY <2>3, <2>4, <2>7, <2>9, <2>11
  <2>12. QED
    BY <2>10, <2>11
<1>3. ASSUME NEW t \in Turns, Return(t), NEW d \in Calls
      PROVE  Cardinality(Open(history', d)) <= Cardinality(Runners(d)')
  <2> DEFINE c == running[t].call
  <2>1. PICK r \in Outcome : history' = Filed(c, r)
    BY <1>3, ReturnStep
  <2>2. running[t] \in Running /\ running' = [running EXCEPT ![t] = Nothing]
    BY <1>3, ReturnStep
  <2>3. running[t] # Nothing
    BY <2>2, NothingAssumption DEF Running
  <2> HIDE DEF c
  <2>4. /\ c = d => t \in Runners(d)
        /\ Runners(d)' = IF c = d THEN Runners(d) \ {t} ELSE Runners(d)
    BY <2>2, <2>3 DEF Runners, TypeOK, c
  <2>5. c = d => Cardinality(Runners(d)') = Cardinality(Runners(d)) - 1
    BY <2>4, RunnersFinite, FS_RemoveElement
  <2>6. /\ Cardinality(Open(history, d)) <= Cardinality(Runners(d))
        /\ Cardinality(Open(history, d)) \in Nat
        /\ Cardinality(Runners(d)) \in Nat /\ Cardinality(Runners(d)') \in Nat
    BY OpenFinite, RunnersFinite DEF Balanced, TypeOK
  <2>7. CASE c # d
    <3>1. Open(history', d) = Open(history, d)
      BY <2>1, <2>7, FiledOpen DEF TypeOK
    <3>2. QED
      BY <2>4, <2>6, <2>7, <3>1
  <2>8. CASE c = d /\ Open(history, d) = {}
    <3>1. Open(history', d) = {}
      BY <2>1, <2>8, FiledOpen DEF TypeOK
    <3>2. QED
      BY <2>6, <3>1, FS_EmptySet
  <2>9. CASE c = d /\ Open(history, d) # {}
    <3>1. Cardinality(Open(history', d)) = Cardinality(Open(history, d)) - 1
      BY <2>1, <2>9, FiledOpen DEF TypeOK
    <3>2. QED
      BY <2>5, <2>6, <2>9, <3>1
  <2>10. QED
    BY <2>7, <2>8, <2>9
<1>4. QED
  <2>1. CASE UNCHANGED vars
    BY <1>1, <2>1
  <2>2. CASE Next
    <3>1. \A d \in Calls : Cardinality(Open(history', d)) <= Cardinality(Runners(d)')
      BY <1>2, <1>3, <2>2 DEF Next
    <3>2. QED
      BY <3>1 DEF Balanced, Open
  <2>3. QED
    BY <2>1, <2>2

\* Whatever the turns and the window, a record stays without a result only as long as some
\* turn is running its call: results may be filed with each other's records, but every one
\* of them is (loop_detector.go: AfterExecute; registry.go: ExecuteWithContext).
THEOREM AllFiled == Spec => []ResultsFiled
<1> DEFINE I == TypeOK /\ Balanced
<1>1. Init => I
  <2>1. ASSUME Init, NEW c \in Calls
        PROVE  Cardinality(Open(history, c)) <= Cardinality(Runners(c))
    <3>1. Open(history, c) = {} /\ Runners(c) = {}
      BY <2>1 DEF Init, Open, Runners
    <3>2. QED
      BY <3>1, FS_EmptySet
  <2>2. Init => TypeOK
    BY ThresholdsAssumption DEF Init, TypeOK
  <2>3. QED
    BY <2>1, <2>2 DEF Balanced
<1>2. I /\ [Next]_vars => I'
  BY TypeStep, BalancedStep
<1>3. I => ResultsFiled
  <2>1. \A c \in Calls : Of(c) \ Finished(c) = Open(history, c)
    BY DEF Of, Finished, Open
  <2>2. QED
    BY <2>1 DEF Balanced, ResultsFiled, Runners
<1> HIDE DEF I
<1>4. QED
  BY <1>1, <1>2, <1>3, PTL DEF Spec
=============================================================================
