----------------------------- MODULE MCAdapters -----------------------------
(***************************************************************************)
(* Adapters for TLC, and a claim of a comment about the intake.            *)
(***************************************************************************)
EXTENDS Adapters

MCKinds == {"onebot", "qq", "wecom"}

\* "keep last 1000" (wecom/app.go:602, wecom/bot.go:327): a message among the
\* Limit latest is not handled again.  Violated: what is full is emptied.
KeepsLatest ==
    [][\A m \in Messages :
         kind = "wecom" /\ since'[m] = 0 /\ new' > new /\ since[m] # TI!Unknown
             => since[m] >= Limit]_vars
=============================================================================
