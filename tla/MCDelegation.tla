---------------------------- MODULE MCDelegation ----------------------------
(***************************************************************************)
(* Delegation for TLC: everybody may delegate to everybody, and what a     *)
(* comment of the repository says of leaf agents.                          *)
(***************************************************************************)
EXTENDS Delegation

MCAllowed == Agents \X Names
Symmetry  == Permutations(Agents)

\* pkg/multiagent/handoff.go:178: at max depth, leaf agents lose spawn, handoff
\* and list_agents to prevent further chaining.  So an agent that may not hand
\* off any more may not spawn either.
LeavesDoNotDelegate ==
    \A t \in Threads : \A i \in DOMAIN stack[t] :
       "handoff" \notin stack[t][i].tools => stack[t][i].tools \cap Delegating = {}
=============================================================================
