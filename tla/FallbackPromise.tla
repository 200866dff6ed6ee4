--------------------------- MODULE FallbackPromise ---------------------------
(***************************************************************************)
(* What the turns rely on when they call a model through                   *)
(* ProviderFallback, said of its state alone and of none of its steps.     *)
(***************************************************************************)
EXTENDS Naturals

CONSTANTS Candidates \* the providers of the agent's candidates, in order

VARIABLES
    entry,  \* the cooldownEntry of each provider and key
    turn,   \* the call of each turn: how far it is (pc), the candidate it tries (at),
            \* the key it calls with, how it has failed (error), whether a candidate of
            \* this Execute has timed out (slow), and how often it was retried
    burnt,  \* history: burnt[t]: providers that failed t within this minute
    passed  \* history: passed[k][j]: times that j was chosen while k was free,
            \* since k was chosen last; at most 2

\* CooldownRemaining.
Remaining(e) == IF e.cool > e.disabled THEN e.cool ELSE e.disabled

\* A provider that has failed a turn is not called again by this turn in the same
\* minute, neither for another of its models nor by a retry of the whole chain,
\* unless it has answered another turn meanwhile, which clears its cooldown.
NoHammering ==
    \A t \in DOMAIN turn :
        turn[t].pc \in {"choose", "call"} => Candidates[turn[t].at] \notin burnt[t]

\* The keys take turns: while a key is free, no other is chosen twice before it.
KeysRotate == \A k, j \in DOMAIN passed : passed[k][j] <= 1

\* A failure (errors are counted, the last of them just now) never shortens a cooldown,
\* be it of another kind than the one before, of a call that began before it, or one with
\* which the count starts anew.
NeverShortened ==
    [][\A x \in DOMAIN entry :
          entry'[x].errors > 0 /\ entry'[x].age = 0
              => Remaining(entry'[x]) >= Remaining(entry[x])]_entry
=============================================================================
