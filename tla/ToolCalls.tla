------------------------------ MODULE ToolCalls ------------------------------
(***************************************************************************)
(* How a tool is called (pkg/tools/registry.go), between the two hooks     *)
(* every agent's registry has: the loop detector (loop_detector.go), which *)
(* stops a model that repeats itself, and the autonomy hook (autonomy.go). *)
(*                                                                         *)
(* The agent loop creates one detector for all agents and nothing in the   *)
(* repository gives it the key of a session (WithSessionKey) or calls      *)
(* ResetSession, so that all turns share one window, for as long as the    *)
(* program runs.  A call stands for a tool name and the hash of arguments. *)
(***************************************************************************)
EXTENDS Integers, Sequences, FiniteSets, FiniteSetsExt

CONSTANTS Turns,    \* turns that run at the same time
          Calls,
          Refused,  \* the calls of tools above the autonomy level of the agent
          Results,  \* Results[c]: what call c may return
          HistorySize, WarningThreshold, CriticalThreshold, CircuitBreakerThreshold,
          Nothing

ASSUME ThresholdsAssumption ==
    /\ HistorySize \in Nat \ {0} /\ WarningThreshold \in Nat \ {0}
    /\ CriticalThreshold \in Nat \ {0} /\ CircuitBreakerThreshold \in Nat \ {0}
    /\ Refused \subseteq Calls /\ IsFiniteSet(Turns)

\* Verdicts, and what a call may return: what its tool returns, or the error of a hook.
Reasons == {"breaker", "repeats", "ping-pong", ""}
Verdict == [level : {"blocked", "warning", "passed"}, reason : Reasons, count : Nat]
Outcome == (UNION {Results[c] : c \in Calls}) \cup ({"autonomy"} \X Calls)
               \cup ({"loop detected"} \X Reasons \X Nat)

ASSUME NothingAssumption == Nothing \notin Outcome \cup [call : Calls, verdict : Verdict]

VARIABLES
    history, \* the window: call, result, and (a history variable) whether it was let through
    running  \* running[t]: the call of turn t, with the verdict

vars == <<history, running>>

Init == history = <<>> /\ running = [t \in Turns |-> Nothing]

-----------------------------------------------------------------------------
(* The detector.                                                           *)

\* The records of call c, and those that have a result.
Of(c)       == {i \in DOMAIN history : history[i].call = c}
Finished(c) == {i \in Of(c) : history[i].result # Nothing}

\* How many of the latest records, without a gap, are in S.
Streak(S) ==
    LET others == (DOMAIN history) \ S
    IN  IF others = {} THEN Len(history) ELSE Len(history) - Max(others)

\* Mutant of Repeats: calls count once they have a result.
RepeatsFinished(c) == Cardinality(Finished(c))

\* countRepeats.
Repeats(c) == Cardinality(Of(c))

\* getPingPongStreak: the window ends with ..., c, last, c, last.
PingPong(c) ==
    LET n == Len(history)
        last == history[n].call
    IN  IF n < 2 \/ c = last THEN 0
        ELSE Streak({i \in 1..n : history[i].call = IF (n - i) % 2 = 0 THEN last ELSE c})

\* hasPingPongNoProgress: the last four calls have, two by two, equal results.
NoPingPongProgress(streak) ==
    LET n == Len(history)
        r(i) == history[n - i].result
    IN  /\ n >= 4 /\ streak >= 4
        /\ \A i \in 0..3 : r(i) # Nothing
        /\ r(3) = r(1) /\ r(2) = r(0)

\* getNoProgressStreak: the calls at the end that are c and have the result of the most
\* recent c that has one, or none yet.
NoProgress(c) ==
    LET reference == history[Max(Finished(c))].result
    IN  IF Finished(c) = {} THEN 0
        ELSE Streak({i \in Of(c) : history[i].result \in {Nothing, reference}})

Blocked(reason, count) == [level |-> "blocked", reason |-> reason, count |-> count]
Warning == [level |-> "warning", reason |-> "", count |-> 0]
Passed  == [level |-> "passed", reason |-> "", count |-> 0]

\* detect: the first engine with a verdict decides.
Detect(c) ==
    IF NoProgress(c) >= CircuitBreakerThreshold THEN Blocked("breaker", NoProgress(c))
    ELSE IF Repeats(c) >= CriticalThreshold THEN Blocked("repeats", Repeats(c))
    ELSE IF Repeats(c) >= WarningThreshold THEN Warning
    ELSE IF PingPong(c) >= CriticalThreshold /\ NoPingPongProgress(PingPong(c))
         THEN Blocked("ping-pong", PingPong(c))
    ELSE IF PingPong(c) >= WarningThreshold THEN Warning
    ELSE Passed

\* The window keeps the latest calls.
Trimmed(h) == IF Len(h) > HistorySize THEN SubSeq(h, Len(h) - HistorySize + 1, Len(h)) ELSE h

-----------------------------------------------------------------------------
(* ExecuteWithContext.                                                     *)

\* BeforeExecute of the detector: the call is judged by those before it and recorded,
\* even if it is blocked.
Call(t, c) ==
    /\ running[t] = Nothing
    /\ LET verdict == Detect(c)
           rec == [call |-> c, result |-> Nothing, through |-> verdict.level # "blocked"]
       IN  /\ history' = Trimmed(Append(history, rec))
           /\ running' = [running EXCEPT ![t] = [call |-> c, verdict |-> verdict]]

\* What a call returns: the error of the first hook that refuses it, whose text names
\* reason and count, or the result of the tool.
Outcomes(call) ==
    IF call.verdict.level = "blocked"
    THEN {<<"loop detected", call.verdict.reason, call.verdict.count>>}
    ELSE IF call.call \in Refused THEN {<<"autonomy", call.call>>}
    ELSE Results[call.call]

\* Mutant of Filed: the most recent record of the call gets the result, whether or not
\* it has one.
FiledLatest(c, result) ==
    IF Of(c) = {} THEN history ELSE [history EXCEPT ![Max(Of(c))].result = result]

\* AfterExecute of the detector: the most recent record of the call without a result
\* gets it, be it that of this call or of another turn's.
Filed(c, result) ==
    LET open == Of(c) \ Finished(c)
    IN  IF open = {} THEN history ELSE [history EXCEPT ![Max(open)].result = result]

\* The tool runs, or a hook has refused it.
Return(t) ==
    /\ running[t] # Nothing
    /\ \E result \in Outcomes(running[t]) : history' = Filed(running[t].call, result)
    /\ running' = [running EXCEPT ![t] = Nothing]

Next == \E t \in Turns : (\E c \in Calls : Call(t, c)) \/ Return(t)

Spec == Init /\ [][Next]_vars

-----------------------------------------------------------------------------
\* Of the latest calls, however many turns make them, no more than CriticalThreshold
\* equal ones are let through.
RepeatsLimited ==
    \A c \in Calls : Cardinality({i \in Of(c) : history[i].through}) <= CriticalThreshold

\* A record without a result stands for a call that still runs ("not yet completed", which
\* getNoProgressStreak counts as no progress), as many of them as turns are running it:
\* although a result may be filed with the record of another turn's call, and records fall
\* out of the window while their calls run, no finished call is left without one.
ResultsFiled ==
    \A c \in Calls :
       Cardinality(Of(c) \ Finished(c))
          <= Cardinality({t \in Turns : running[t] # Nothing /\ running[t].call = c})
=============================================================================
