---------------------------- MODULE MCCronService ----------------------------
(* CronService for TLC: a one-shot job and one with an interval.              *)
EXTENDS CronService

CONSTANTS once, often

MCKind  == [j \in Jobs |-> IF j = once THEN "at" ELSE "every"]
MCDelay == [j \in Jobs |-> 1]
=============================================================================
