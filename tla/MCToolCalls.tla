----------------------------- MODULE MCToolCalls -----------------------------
(***************************************************************************)
(* ToolCalls for TLC: a tool whose result may change and one that is       *)
(* refused.  The thresholds are a fifth of those of                        *)
(* DefaultLoopDetectorConfig.  And what the comment on detect says of its  *)
(* verdict.                                                                *)
(***************************************************************************)
EXTENDS ToolCalls, TLC

CONSTANTS t1, t2, read, exec, old, new

MCResults == read :> {old, new} @@ exec :> {}
TurnSymmetry == Permutations({t1, t2})

\* pkg/tools/loop_detector.go:189: "detect runs all detection engines and returns the
\* highest-severity verdict."
HighestSeverity(c) ==
    IF \/ NoProgress(c) >= CircuitBreakerThreshold
       \/ Repeats(c) >= CriticalThreshold
       \/ PingPong(c) >= CriticalThreshold /\ NoPingPongProgress(PingPong(c))
    THEN "blocked"
    ELSE IF Repeats(c) >= WarningThreshold \/ PingPong(c) >= WarningThreshold
         THEN "warning"
    ELSE "passed"

VerdictIsHighest == \A c \in Calls : Detect(c).level = HighestSeverity(c)
=============================================================================
