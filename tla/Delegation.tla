----------------------------- MODULE Delegation -----------------------------
(***************************************************************************)
(* Chains of delegations between agents: handoffs, which the caller waits  *)
(* for, and spawns, which run in goroutines of their own (pkg/multiagent,  *)
(* handoff.go, handoff_tool.go, spawn_tool.go), and the tools a delegate   *)
(* is left with (pkg/tools/policy.go).                                     *)
(*                                                                         *)
(* Each agent owns one HandoffTool, registered once (pkg/agent/loop.go),   *)
(* and that object carries the state of a chain: ExecuteHandoff writes the *)
(* depth and the agents visited into the tool of the target, which reads   *)
(* them when it hands off in turn.  Chains that run at the same time share *)
(* these fields without a lock, and so do a turn and the turns before it.  *)
(*                                                                         *)
(* A thread is a goroutine that runs agents: one that processes messages   *)
(* (the agent loop, cron, the heartbeat) or one that SpawnManager started. *)
(* What SpawnManager admits is the business of module SpawnManager.  The   *)
(* blackboard and the registration of runs for cancellation do not bear on *)
(* how chains go on and are left out.                                      *)
(***************************************************************************)
EXTENDS Naturals, Sequences, SequencesExt

CONSTANTS Agents,    \* configured agents
          Strangers, \* agent names a model may make up
          Allowed,   \* AgentRegistry.CanSpawnSubagent, as pairs
          MaxDepth,  \* DefaultMaxHandoffDepth: no caller sets another
          Turns,     \* threads that process messages
          Spawns,    \* bound: threads for spawned goroutines
          MaxFrames  \* bound: agents at work in one thread

Threads == Turns \cup Spawns
Names   == Agents \cup Strangers

ASSUME ConstantsAssumption == /\ Agents \cap Strangers = {}
                              /\ Turns \cap Spawns = {}
                              /\ Allowed \subseteq Agents \X Names
                              /\ MaxDepth \in Nat \ {0}
                              /\ MaxFrames \in Nat \ {0}

VARIABLES
    depth,   \* depth[a]: HandoffTool.depth of agent a's tool
    visited, \* visited[a]: HandoffTool.visited, the agents in it
    stack,   \* stack[t]: the agents at work in thread t, the one that runs last
    pc,      \* pc[t]: "run", or the step of Execute and ExecuteHandoff
    req,     \* req[t]: the HandoffRequest under way
    alone    \* history: threads that have met no other since they began

fields == <<depth, visited>>
vars   == <<fields, stack, pc, req, alone>>

\* The tools by which an agent puts others to work.
Delegating == {"handoff", "spawn_agent"}

\* An agent at work: those of the tools it is offered, and the number of
\* delegations that led to it from the turn.
Frame   == [agent: Agents, tools: SUBSET Delegating, level: Nat]
Request == [to: Names, depth: 0..MaxDepth, visited: SUBSET Agents, level: Nat]
NoReq   == [to |-> "nobody"]

Busy(t)  == stack[t] # <<>> \/ pc[t] # "run"
Active   == {t \in Threads : Busy(t)}
Runs(t)  == stack[t] # <<>> /\ pc[t] = "run"
Top(t)   == Last(stack[t])

\* A new thread: whoever is active has company from now on.
Joins(t) == alone' = IF Active = {} THEN {t} ELSE {}

Init == /\ depth = [a \in Agents |-> 0]
        /\ visited = [a \in Agents |-> {}]
        /\ stack = [t \in Threads |-> <<>>]
        /\ pc = [t \in Threads |-> "run"]
        /\ req = [t \in Threads |-> NoReq]
        /\ alone = {}

-----------------------------------------------------------------------------
\* A message is routed to an agent.  Of the tool's state updateToolContexts only
\* sets the session key.
Begin(t, a) ==
    /\ t \in Turns
    /\ ~Busy(t)
    /\ stack' = [stack EXCEPT ![t] = <<[agent |-> a, tools |-> Delegating, level |-> 0]>>]
    /\ Joins(t)
    /\ UNCHANGED <<fields, pc, req>>

\* The running agent answers: back to the one that called it, if any.
Return(t) ==
    /\ Runs(t)
    /\ stack' = [stack EXCEPT ![t] = Front(@)]
    /\ alone' = IF Len(stack[t]) = 1 THEN alone \ {t} ELSE alone
    /\ UNCHANGED <<fields, pc, req>>

-----------------------------------------------------------------------------
(* HandoffTool.Execute: the request is made of the tool's fields, ...      *)

Ask(t, b) ==
    LET f == Top(t) IN
    /\ Runs(t)
    /\ Len(stack[t]) < MaxFrames
    /\ "handoff" \in f.tools
    /\ <<f.agent, b>> \in Allowed
    /\ pc' = [pc EXCEPT ![t] = "depth read"]
    /\ req' = [req EXCEPT ![t] = [to |-> b, depth |-> depth[f.agent],
                                  visited |-> {}, level |-> f.level + 1]]
    /\ UNCHANGED <<fields, stack, alone>>

ReadVisited(t) ==
    /\ pc[t] = "depth read"
    /\ req' = [req EXCEPT ![t].visited = visited[Top(t).agent]]
    /\ pc' = [pc EXCEPT ![t] = "requested"]
    /\ UNCHANGED <<fields, stack, alone>>

\* SpawnTool.Execute.  Nothing ever sets the depth and visited of a SpawnTool.
Spawn(t, b, s) ==
    LET f == Top(t) IN
    /\ Runs(t)
    /\ "spawn_agent" \in f.tools
    /\ <<f.agent, b>> \in Allowed
    /\ s \in Spawns
    /\ ~Busy(s)
    /\ pc' = [pc EXCEPT ![s] = "requested"]
    /\ req' = [req EXCEPT ![s] = [to |-> b, depth |-> 0, visited |-> {}, level |-> f.level + 1]]
    /\ Joins(s)
    /\ UNCHANGED <<fields, stack>>

-----------------------------------------------------------------------------
(* ... and ExecuteHandoff looks at its guards, writes the target's fields  *)
(* and runs the target with the tools that its depth leaves it.            *)

\* Mutants of Accepted: the target may be at work already; one level too many.
AcceptedUnvisited(r) == r.to \in Agents /\ r.depth < MaxDepth
AcceptedDeeper(r)    == r.to \in Agents /\ r.depth <= MaxDepth /\ r.to \notin r.visited

Accepted(r) == /\ r.depth < MaxDepth
               /\ r.to \notin r.visited
               /\ r.to \in Agents

Refuse(t) ==
    /\ pc[t] = "requested"
    /\ ~Accepted(req[t])
    /\ pc' = [pc EXCEPT ![t] = "run"]
    /\ req' = [req EXCEPT ![t] = NoReq]
    /\ alone' = IF stack[t] = <<>> THEN alone \ {t} ELSE alone
    /\ UNCHANGED <<fields, stack>>

\* Mutant of WriteDepth: the delegate is told its caller's depth.
WriteSameDepth(t) ==
    /\ pc[t] = "requested"
    /\ Accepted(req[t])
    /\ depth' = [depth EXCEPT ![req[t].to] = req[t].depth]
    /\ pc' = [pc EXCEPT ![t] = "depth written"]
    /\ UNCHANGED <<visited, stack, req, alone>>

WriteDepth(t) ==
    /\ pc[t] = "requested"
    /\ Accepted(req[t])
    /\ depth' = [depth EXCEPT ![req[t].to] = req[t].depth + 1]
    /\ pc' = [pc EXCEPT ![t] = "depth written"]
    /\ UNCHANGED <<visited, stack, req, alone>>

\* Names of tools; the one that spawns is called spawn_agent.
DepthDenyList(d) == IF d >= MaxDepth THEN {"spawn", "handoff", "list_agents"} ELSE {}

WriteVisited(t) ==
    LET r == req[t] IN
    /\ pc[t] = "depth written"
    /\ visited' = [visited EXCEPT ![r.to] = r.visited \cup {r.to}]
    /\ stack' = [stack EXCEPT ![t] =
          Append(@, [agent |-> r.to,
                     tools |-> Delegating \ DepthDenyList(r.depth + 1),
                     level |-> r.level])]
    /\ pc' = [pc EXCEPT ![t] = "run"]
    /\ req' = [req EXCEPT ![t] = NoReq]
    /\ UNCHANGED <<depth, alone>>

-----------------------------------------------------------------------------
Handoff(t) == Refuse(t) \/ ReadVisited(t) \/ WriteDepth(t) \/ WriteVisited(t)

Next == \E t \in Threads :
           \/ \E a \in Agents : Begin(t, a)
           \/ \E b \in Names : Ask(t, b)
           \/ \E b \in Names, s \in Spawns : Spawn(t, b, s)
           \/ Handoff(t)
           \/ Return(t)

Spec == Init /\ [][Next]_vars

-----------------------------------------------------------------------------
(* Properties.                                                             *)

TypeOK == /\ depth \in [Agents -> 0..MaxDepth]
          /\ visited \in [Agents -> SUBSET Agents]
          /\ stack \in [Threads -> Seq(Frame)]
          /\ pc \in [Threads -> {"run", "depth read", "requested", "depth written"}]
          /\ req \in [Threads -> Request \cup {NoReq}]
          /\ alone \subseteq Active

\* ExecuteHandoff's guards end a chain that has the tools to itself: it is
\* never longer than the limit, whatever earlier chains left in the tools.
ChainBounded == \A t \in alone : \A i \in DOMAIN stack[t] : stack[t][i].level <= MaxDepth

\* And no agent is called while it is at work in the chain, except the one the
\* turn began with, which is not among the visited.
NoCycle == \A t \in alone : \A i, j \in DOMAIN stack[t] :
              1 < i /\ i < j => stack[t][i].agent # stack[t][j].agent
=============================================================================
