-------------------------- MODULE DelegationProofs --------------------------
(***************************************************************************)
(* Proofs about Delegation, for any agents, permissions, threads and       *)
(* limit.  A chain that has the tools to itself keeps two relations        *)
(* between the agents at work and the fields of their tools: the depth is  *)
(* at least the number of delegations (LevelInv), and the visited contain  *)
(* the chain but for its first agent (PathInv).  Both hold whatever the    *)
(* fields of the first agent's tool were left with.                        *)
(***************************************************************************)
EXTENDS Delegation, TLAPS

\* What a thread holds at each step of a delegation.
Control(t) ==
    /\ pc[t] # "run" => req[t] \in Request
    /\ pc[t] = "depth read" => stack[t] # <<>>
    /\ pc[t] = "depth written" => Accepted(req[t])

\* A thread that met nobody is the only one.
Solo == \A t \in alone : Active = {t}

TypeInv == TypeOK /\ Solo /\ \A t \in Threads : Control(t)

LevelInv(t) ==
    /\ \A i \in DOMAIN stack[t] : stack[t][i].level <= depth[stack[t][i].agent]
    /\ \A i, j \in DOMAIN stack[t] : i <= j => stack[t][i].level <= stack[t][j].level
    /\ pc[t] # "run" => /\ stack[t] # <<>>
                        /\ req[t].level = Top(t).level + 1
                        /\ Top(t).level <= req[t].depth
    /\ pc[t] = "depth written" => depth[req[t].to] = req[t].depth + 1

PathInv(t) ==
    /\ \A i, j \in DOMAIN stack[t] : 1 < j /\ j <= i => stack[t][j].agent \in visited[stack[t][i].agent]
    /\ \A i, j \in DOMAIN stack[t] : 1 < i /\ i < j => stack[t][i].agent # stack[t][j].agent
    /\ pc[t] # "run" => stack[t] # <<>>
    /\ pc[t] \in {"requested", "depth written"} =>
          \A j \in DOMAIN stack[t] : 1 < j => stack[t][j].agent \in req[t].visited

IInv == TypeInv /\ \A t \in alone : LevelInv(t) /\ PathInv(t)

-----------------------------------------------------------------------------
\* The last of a non-empty sequence is in it; the rest of it is shorter.
LEMMA FrontAndLast ==
  ASSUME NEW S, NEW s \in Seq(S), s # <<>>
  PROVE  /\ Len(s) \in Nat \ {0} /\ DOMAIN s = 1..Len(s)
         /\ Last(s) = s[Len(s)] /\ Last(s) \in S
         /\ Front(s) \in Seq(S)
         /\ Len(Front(s)) = Len(s) - 1
         /\ \A i \in DOMAIN Front(s) : i \in DOMAIN s /\ Front(s)[i] = s[i]
         /\ Front(s) = <<>> <=> Len(s) = 1
<1>1. Len(s) \in Nat \ {0} /\ DOMAIN s = 1..Len(s)
  OBVIOUS
<1>2. Last(s) = s[Len(s)] /\ Last(s) \in S
  BY <1>1 DEF Last
<1>3. /\ Front(s) \in Seq(S)
      /\ Len(Front(s)) = Len(s) - 1
      /\ \A i \in DOMAIN Front(s) : i \in DOMAIN s /\ Front(s)[i] = s[i]
  BY <1>1 DEF Front
<1>4. QED
  BY <1>1, <1>2, <1>3

\* One more at the end of a sequence.
LEMMA Appended ==
  ASSUME NEW S, NEW s \in Seq(S), NEW e \in S
  PROVE  /\ Append(s, e) \in Seq(S) /\ Append(s, e) # <<>>
         /\ Len(Append(s, e)) = Len(s) + 1
         /\ DOMAIN Append(s, e) = DOMAIN s \cup {Len(s) + 1}
         /\ \A i \in DOMAIN s : i <= Len(s) /\ Append(s, e)[i] = s[i]
         /\ Append(s, e)[Len(s) + 1] = e
  OBVIOUS

\* The running agent of a thread is one, with its tools and level.
LEMMA TopFrame ==
  ASSUME TypeOK, NEW t \in Threads, stack[t] # <<>>
  PROVE  /\ Top(t) \in Frame /\ Top(t).agent \in Agents /\ Top(t).level \in Nat
         /\ Top(t) = stack[t][Len(stack[t])] /\ Len(stack[t]) \in DOMAIN stack[t]
<1>1. stack[t] \in Seq(Frame)
  BY DEF TypeOK
<1>2. /\ Last(stack[t]) = stack[t][Len(stack[t])] /\ Last(stack[t]) \in Frame
      /\ Len(stack[t]) \in DOMAIN stack[t]
  BY <1>1, FrontAndLast
<1>3. QED
  BY <1>2 DEF Top, Frame

\* The depth in a tool is within the limit.
LEMMA DepthRange ==
  ASSUME TypeOK, NEW a \in Agents
  PROVE  depth[a] \in Nat /\ depth[a] <= MaxDepth
<1>1. depth[a] \in 0..MaxDepth
  BY DEF TypeOK
<1>2. QED
  BY <1>1, ConstantsAssumption DEF ConstantsAssumption

\* Nothing runs at first.
LEMMA InitInv == Init => IInv
<1> SUFFICES ASSUME Init PROVE IInv
  OBVIOUS
<1>1. TypeOK
  BY ConstantsAssumption DEF Init, TypeOK, ConstantsAssumption, Active, Frame
<1>2. QED
  BY <1>1 DEF Init, IInv, TypeInv, Solo, Control

-----------------------------------------------------------------------------
(* Types, control and Solo.                                                *)

\* What a step leaves to alone: nobody joins who was not there.
LEMMA SoloStep ==
  ASSUME Solo, alone' \subseteq alone, alone' \subseteq Active', Active' \subseteq Active
  PROVE  Solo'
  BY DEF Solo

\* A message begins a thread.
LEMMA BeginType ==
  ASSUME TypeInv, NEW t \in Threads, NEW a \in Agents, Begin(t, a)
  PROVE  TypeInv'
<1> DEFINE f == [agent |-> a, tools |-> Delegating, level |-> 0]
<1>1. f \in Frame /\ <<f>> \in Seq(Frame) /\ <<f>> # <<>>
  BY DEF Frame
<1>2. stack' \in [Threads -> Seq(Frame)] /\ stack'[t] # <<>>
  BY <1>1 DEF Begin, fields, TypeInv, TypeOK
<1>3. Active' = Active \cup {t}
  BY <1>2 DEF Begin, fields, Active, Busy, TypeInv, TypeOK
<1>4. TypeOK'
  BY <1>2, <1>3 DEF Begin, fields, TypeInv, TypeOK, Joins
<1>5. Solo'
  BY <1>3 DEF Begin, fields, Joins, Solo
<1>6. \A u \in Threads : Control(u)'
  BY <1>2 DEF Begin, fields, TypeInv, TypeOK, Control, Accepted
<1>7. QED
  BY <1>4, <1>5, <1>6 DEF TypeInv

\* An agent returns.
LEMMA ReturnType ==
  ASSUME TypeInv, NEW t \in Threads, Return(t)
  PROVE  TypeInv'
<1>1. /\ stack[t] \in Seq(Frame) /\ stack[t] # <<>>
      /\ Front(stack[t]) \in Seq(Frame) /\ (Front(stack[t]) = <<>> <=> Len(stack[t]) = 1)
  BY FrontAndLast DEF Return, fields, Runs, TypeInv, TypeOK
<1>2. stack' \in [Threads -> Seq(Frame)] /\ stack'[t] = Front(stack[t])
  BY <1>1 DEF Return, fields, TypeInv, TypeOK
<1>3. Active' = IF Len(stack[t]) = 1 THEN Active \ {t} ELSE Active
  BY <1>1, <1>2 DEF Return, fields, Runs, Active, Busy, TypeInv, TypeOK
<1>4. TypeOK'
  BY <1>2, <1>3 DEF Return, fields, TypeInv, TypeOK
<1>5. Solo'
  BY <1>3, <1>4, SoloStep DEF Return, fields, TypeInv, TypeOK
<1>6. \A u \in Threads : Control(u)'
  BY <1>2 DEF Return, fields, Runs, TypeInv, TypeOK, Control, Accepted
<1>7. QED
  BY <1>4, <1>5, <1>6 DEF TypeInv

\* A request is made of a HandoffTool.
LEMMA AskType ==
  ASSUME TypeInv, NEW t \in Threads, NEW b \in Names, Ask(t, b)
  PROVE  TypeInv'
<1>1. stack[t] # <<>> /\ Top(t).agent \in Agents /\ Top(t).level \in Nat
  BY TopFrame DEF Ask, fields, Runs, TypeInv
<1>2. req'[t] \in Request /\ req' \in [Threads -> Request \cup {NoReq}]
  <2> DEFINE r == [to |-> b, depth |-> depth[Top(t).agent], visited |-> {}, level |-> Top(t).level + 1]
  <2>1. r \in Request
    <3>1. depth[Top(t).agent] \in 0..MaxDepth
      BY <1>1 DEF TypeInv, TypeOK
    <3>2. QED
      BY <1>1, <3>1 DEF Request
  <2>2. req' = [req EXCEPT ![t] = r]
    BY DEF Ask
  <2>3. QED
    BY <2>1, <2>2 DEF TypeInv, TypeOK
<1>3. Active' = Active
  BY <1>1 DEF Ask, fields, Active, Busy, TypeInv, TypeOK
<1>4. TypeOK'
  BY <1>2, <1>3 DEF Ask, fields, TypeInv, TypeOK
<1>5. Solo'
  BY <1>3 DEF Ask, fields, TypeInv, Solo
<1>6. \A u \in Threads : Control(u)'
  BY <1>1, <1>2 DEF Ask, fields, TypeInv, TypeOK, Control, Accepted
<1>7. QED
  BY <1>4, <1>5, <1>6 DEF TypeInv

\* A spawned goroutine begins: nobody is alone any more.
LEMMA SpawnType ==
  ASSUME TypeInv, NEW t \in Threads, NEW b \in Names, NEW s \in Spawns, Spawn(t, b, s)
  PROVE  TypeInv' /\ alone' = {}
<1>1. stack[t] # <<>> /\ Top(t).level \in Nat /\ s \in Threads
  BY TopFrame DEF Spawn, fields, Runs, TypeInv, Threads
<1>2. req'[s] \in Request /\ req' \in [Threads -> Request \cup {NoReq}]
  <2> DEFINE r == [to |-> b, depth |-> 0, visited |-> {}, level |-> Top(t).level + 1]
  <2>1. r \in Request
    BY <1>1, ConstantsAssumption DEF Request, ConstantsAssumption
  <2>2. req' = [req EXCEPT ![s] = r]
    BY DEF Spawn
  <2>3. QED
    BY <1>1, <2>1, <2>2 DEF TypeInv, TypeOK
<1>3. alone' = {}
  BY <1>1 DEF Spawn, fields, Joins, Active, Busy
<1>4. TypeOK'
  BY <1>1, <1>2, <1>3 DEF Spawn, fields, TypeInv, TypeOK
<1>5. Solo'
  BY <1>3 DEF Solo
<1>6. \A u \in Threads : Control(u)'
  BY <1>1, <1>2 DEF Spawn, fields, TypeInv, TypeOK, Control, Accepted
<1>7. QED
  BY <1>3, <1>4, <1>5, <1>6 DEF TypeInv

\* The steps from the request to the target's run.
LEMMA HandoffType ==
  ASSUME TypeInv, NEW t \in Threads, Handoff(t)
  PROVE  TypeInv'
<1>1. CASE Refuse(t)
  <2>1. Active' = IF stack[t] = <<>> THEN Active \ {t} ELSE Active
    BY <1>1 DEF Refuse, fields, Active, Busy, TypeInv, TypeOK
  <2>2. TypeOK'
    BY <1>1, <2>1 DEF Refuse, fields, TypeInv, TypeOK
  <2>3. Solo'
    BY <1>1, <2>1, <2>2, SoloStep DEF Refuse, fields, TypeInv, TypeOK
  <2>4. \A u \in Threads : Control(u)'
    BY <1>1 DEF Refuse, fields, TypeInv, TypeOK, Control, Accepted
  <2>5. QED
    BY <2>2, <2>3, <2>4 DEF TypeInv
<1>2. CASE ReadVisited(t)
  <2>1. stack[t] # <<>> /\ Top(t).agent \in Agents /\ req[t] \in Request
    BY <1>2, TopFrame DEF ReadVisited, fields, TypeInv, Control
  <2>2. req'[t] \in Request /\ req' \in [Threads -> Request \cup {NoReq}]
    BY <1>2, <2>1 DEF ReadVisited, fields, TypeInv, TypeOK, Request
  <2>3. Active' = Active
    BY <1>2 DEF ReadVisited, fields, Active, Busy, TypeInv, TypeOK
  <2>4. TypeOK'
    BY <1>2, <2>2, <2>3 DEF ReadVisited, fields, TypeInv, TypeOK
  <2>5. Solo'
    BY <1>2, <2>3 DEF ReadVisited, fields, TypeInv, Solo
  <2>6. \A u \in Threads : Control(u)'
    BY <1>2, <2>2 DEF ReadVisited, fields, TypeInv, TypeOK, Control, Accepted
  <2>7. QED
    BY <2>4, <2>5, <2>6 DEF TypeInv
<1>3. CASE WriteDepth(t)
  <2>1. req[t] \in Request /\ Accepted(req[t])
    BY <1>3 DEF WriteDepth, fields, TypeInv, Control
  <2>2. req[t].depth + 1 \in 0..MaxDepth
    BY <2>1, ConstantsAssumption DEF Request, Accepted, ConstantsAssumption
  <2>3. Active' = Active
    BY <1>3 DEF WriteDepth, fields, Active, Busy, TypeInv, TypeOK
  <2>4. TypeOK'
    BY <1>3, <2>2, <2>3 DEF WriteDepth, fields, TypeInv, TypeOK
  <2>5. Solo'
    BY <1>3, <2>3 DEF WriteDepth, fields, TypeInv, Solo
  <2>6. \A u \in Threads : Control(u)'
    BY <1>3, <2>1 DEF WriteDepth, fields, TypeInv, TypeOK, Control, Accepted
  <2>7. QED
    BY <2>4, <2>5, <2>6 DEF TypeInv
<1>4. CASE WriteVisited(t)
  <2> DEFINE r == req[t]
             f == [agent |-> r.to, tools |-> Delegating \ DepthDenyList(r.depth + 1), level |-> r.level]
  <2>1. r \in Request /\ Accepted(r)
    BY <1>4 DEF WriteVisited, fields, TypeInv, Control
  <2>2. f \in Frame /\ r.visited \cup {r.to} \in SUBSET Agents
    BY <2>1 DEF Frame, Request, Accepted
  <2>3. stack' \in [Threads -> Seq(Frame)] /\ stack'[t] # <<>>
    <3>1. stack[t] \in Seq(Frame)
      BY DEF TypeInv, TypeOK
    <3>2. Append(stack[t], f) \in Seq(Frame) /\ Append(stack[t], f) # <<>>
      BY <2>2, <3>1, Appended
    <3>3. stack' = [stack EXCEPT ![t] = Append(@, f)]
      BY <1>4 DEF WriteVisited
    <3>4. QED
      BY <3>2, <3>3 DEF TypeInv, TypeOK
  <2>4. Active' = Active
    BY <1>4, <2>3 DEF WriteVisited, fields, Active, Busy, TypeInv, TypeOK
  <2>5. TypeOK'
    BY <1>4, <2>2, <2>3, <2>4 DEF WriteVisited, fields, TypeInv, TypeOK
  <2>6. Solo'
    BY <1>4, <2>4 DEF WriteVisited, fields, TypeInv, Solo
  <2>7. \A u \in Threads : Control(u)'
    BY <1>4 DEF WriteVisited, TypeInv, TypeOK, Control, Accepted
  <2>8. QED
    BY <2>5, <2>6, <2>7 DEF TypeInv
<1>5. QED
  BY <1>1, <1>2, <1>3, <1>4 DEF Handoff

\* Every step keeps them.
LEMMA TypeStep == TypeInv /\ [Next]_vars => TypeInv'
<1> SUFFICES ASSUME TypeInv, [Next]_vars PROVE TypeInv'
  OBVIOUS
<1>1. CASE Next
  BY <1>1, BeginType, ReturnType, AskType, SpawnType, HandoffType DEF Next
<1>2. CASE UNCHANGED vars
  BY <1>2 DEF vars, fields, TypeInv, TypeOK, Solo, Control, Accepted, Active, Busy
<1>3. QED
  BY <1>1, <1>2
-----------------------------------------------------------------------------
(* The chain of a thread that met no other.                                *)

\* A step of one thread leaves the other one that is alone as it was: there is
\* none.
LEMMA OnlyOne ==
  ASSUME TypeInv, NEW t \in Threads, Busy(t), NEW u \in alone
  PROVE  u = t
  BY DEF TypeInv, Solo, Active

\* A chain that just began satisfies both.
LEMMA BeginChain ==
  ASSUME TypeInv, NEW t \in Threads, NEW a \in Agents, Begin(t, a), NEW u \in alone'
  PROVE  LevelInv(u)' /\ PathInv(u)'
<1> DEFINE f == [agent |-> a, tools |-> Delegating, level |-> 0]
<1>1. u = t
  BY DEF Begin, Joins
<1>2. /\ stack'[t] = <<f>> /\ pc'[t] = "run"
      /\ depth' = depth /\ depth[a] \in Nat
  BY DepthRange DEF Begin, fields, Busy, TypeInv, TypeOK
<1>3. DOMAIN stack'[t] = {1} /\ stack'[t][1] = f
  BY <1>2
<1>4. LevelInv(t)'
  BY <1>2, <1>3 DEF LevelInv
<1>5. PathInv(t)'
  BY <1>2, <1>3 DEF PathInv
<1>6. QED
  BY <1>1, <1>4, <1>5

\* A return takes the last agent off the chain.
LEMMA ReturnChain ==
  ASSUME IInv, NEW t \in Threads, Return(t), NEW u \in alone'
  PROVE  LevelInv(u)' /\ PathInv(u)'
<1> USE DEF IInv
<1>1. u \in alone /\ u = t
  BY OnlyOne DEF Return, Runs, Busy
<1>2. /\ stack[t] \in Seq(Frame) /\ stack[t] # <<>>
      /\ \A i \in DOMAIN Front(stack[t]) : i \in DOMAIN stack[t] /\ Front(stack[t])[i] = stack[t][i]
  BY FrontAndLast DEF Return, Runs, TypeInv, TypeOK
<1>3. /\ stack'[t] = Front(stack[t]) /\ pc'[t] = "run"
      /\ depth' = depth /\ visited' = visited
  BY DEF Return, Runs, fields, TypeInv, TypeOK
<1>4. LevelInv(t)'
  <2>1. \A i \in DOMAIN stack'[t] : i \in DOMAIN stack[t] /\ stack'[t][i] = stack[t][i]
    BY <1>2, <1>3
  <2>2. LevelInv(t)
    BY <1>1
  <2>3. QED
    BY <1>3, <2>1, <2>2 DEF LevelInv
<1>5. PathInv(t)'
  <2>1. \A i \in DOMAIN stack'[t] : i \in DOMAIN stack[t] /\ stack'[t][i] = stack[t][i]
    BY <1>2, <1>3
  <2>2. PathInv(t)
    BY <1>1
  <2>3. QED
    BY <1>3, <2>1, <2>2 DEF PathInv
<1>6. QED
  BY <1>1, <1>4, <1>5

\* A request carries the depth of its agent's tool.
LEMMA AskChain ==
  ASSUME IInv, NEW t \in Threads, NEW b \in Names, Ask(t, b), NEW u \in alone'
  PROVE  LevelInv(u)' /\ PathInv(u)'
<1> USE DEF IInv
<1>1. u \in alone /\ u = t
  BY OnlyOne DEF Ask, Runs, Busy
<1>2. stack[t] # <<>> /\ Top(t) = stack[t][Len(stack[t])] /\ Len(stack[t]) \in DOMAIN stack[t]
  BY TopFrame DEF Ask, Runs, TypeInv
<1>3. /\ stack' = stack /\ depth' = depth /\ visited' = visited
      /\ pc'[t] = "depth read"
      /\ req'[t].depth = depth[Top(t).agent] /\ req'[t].level = Top(t).level + 1
  BY DEF Ask, fields, TypeInv, TypeOK
<1>4. Top(t).level <= depth[Top(t).agent] /\ Top(t)' = Top(t)
  BY <1>1, <1>2, <1>3 DEF LevelInv, Top
<1>5. LevelInv(t)'
  BY <1>1, <1>2, <1>3, <1>4 DEF LevelInv
<1>6. PathInv(t)'
  BY <1>1, <1>2, <1>3 DEF PathInv
<1>7. QED
  BY <1>1, <1>5, <1>6

\* ... and the visited, which hold the chain.
LEMMA ReadVisitedChain ==
  ASSUME IInv, NEW t \in Threads, ReadVisited(t), NEW u \in alone'
  PROVE  LevelInv(u)' /\ PathInv(u)'
<1> USE DEF IInv
<1>1. u \in alone /\ u = t
  BY OnlyOne DEF ReadVisited, Busy
<1>2. /\ stack[t] # <<>> /\ Top(t) = stack[t][Len(stack[t])]
      /\ Len(stack[t]) \in DOMAIN stack[t] /\ stack[t] \in Seq(Frame)
      /\ req[t] \in Request
  BY TopFrame DEF ReadVisited, TypeInv, TypeOK, Control
<1>3. /\ stack' = stack /\ depth' = depth /\ visited' = visited
      /\ pc[t] # "run" /\ pc'[t] = "requested"
      /\ req'[t] = [req[t] EXCEPT !.visited = visited[Top(t).agent]]
  BY DEF ReadVisited, fields, TypeInv, TypeOK
<1>4. /\ req'[t].visited = visited[Top(t).agent]
      /\ req'[t].depth = req[t].depth /\ req'[t].level = req[t].level
  BY <1>2, <1>3 DEF Request
<1>5. LevelInv(t)'
  <2>1. Top(t)' = Top(t)
    BY <1>3 DEF Top
  <2>2. LevelInv(t)
    BY <1>1
  <2>3. QED
    BY <1>3, <1>4, <2>1, <2>2 DEF LevelInv
<1>6. \A j \in DOMAIN stack[t] : 1 < j => stack[t][j].agent \in visited[Top(t).agent]
  <2>1. \A j \in DOMAIN stack[t] : j <= Len(stack[t])
    BY <1>2
  <2>2. PathInv(t)
    BY <1>1
  <2>3. QED
    BY <1>2, <2>1, <2>2 DEF PathInv
<1>7. PathInv(t)'
  BY <1>1, <1>3, <1>4, <1>6 DEF PathInv
<1>8. QED
  BY <1>1, <1>5, <1>7

\* A refusal changes nothing of the chain.
LEMMA RefuseChain ==
  ASSUME IInv, NEW t \in Threads, Refuse(t), NEW u \in alone'
  PROVE  LevelInv(u)' /\ PathInv(u)'
<1> USE DEF IInv
<1>1. u \in alone /\ u = t
  BY OnlyOne DEF Refuse, Busy
<1>2. /\ stack' = stack /\ depth' = depth /\ visited' = visited
      /\ pc'[t] = "run"
  BY DEF Refuse, fields, TypeInv, TypeOK
<1>3. LevelInv(t)' /\ PathInv(t)'
  BY <1>1, <1>2 DEF LevelInv, PathInv
<1>4. QED
  BY <1>1, <1>3

\* The new depth is above the level of every agent at work: one of them may be
\* the target.
LEMMA WriteDepthChain ==
  ASSUME IInv, NEW t \in Threads, WriteDepth(t), NEW u \in alone'
  PROVE  LevelInv(u)' /\ PathInv(u)'
<1> USE DEF IInv
<1> DEFINE b == req[t].to
<1>1. u \in alone /\ u = t
  BY OnlyOne DEF WriteDepth, Busy
<1>2. /\ req[t] \in Request /\ b \in Agents /\ req[t].depth \in Nat
      /\ stack[t] # <<>> /\ stack[t] \in Seq(Frame)
  <2>1. req[t] \in Request /\ b \in Agents /\ stack[t] \in Seq(Frame)
    BY DEF WriteDepth, TypeInv, TypeOK, Control, Accepted
  <2>2. req[t].depth \in Nat
    BY <2>1, ConstantsAssumption DEF Request, ConstantsAssumption
  <2>3. stack[t] # <<>>
    BY <1>1 DEF WriteDepth, LevelInv
  <2>4. QED
    BY <2>1, <2>2, <2>3
<1>3. /\ stack' = stack /\ visited' = visited /\ req' = req
      /\ pc[t] = "requested" /\ pc'[t] = "depth written"
      /\ depth' = [depth EXCEPT ![b] = req[t].depth + 1]
  BY DEF WriteDepth, TypeInv, TypeOK
<1>4. /\ \A i \in DOMAIN stack[t] : /\ stack[t][i].level \in Nat /\ stack[t][i].agent \in Agents
                                    /\ stack[t][i].level <= Top(t).level
      /\ Top(t)' = Top(t) /\ Top(t).level \in Nat
  <2>1. Top(t) = stack[t][Len(stack[t])] /\ Len(stack[t]) \in DOMAIN stack[t] /\ Top(t).level \in Nat
    BY <1>2, TopFrame DEF TypeInv
  <2>2. \A i \in DOMAIN stack[t] : i <= Len(stack[t]) /\ stack[t][i] \in Frame
    BY <1>2
  <2>3. QED
    BY <1>1, <1>3, <2>1, <2>2 DEF LevelInv, Frame, Top
<1>5. \A i \in DOMAIN stack[t] : stack[t][i].level <= depth'[stack[t][i].agent]
  <2> SUFFICES ASSUME NEW i \in DOMAIN stack[t]
               PROVE  stack[t][i].level <= depth'[stack[t][i].agent]
    OBVIOUS
  <2>1. CASE stack[t][i].agent = b
    <3>1. depth'[b] = req[t].depth + 1 /\ Top(t).level <= req[t].depth
      BY <1>1, <1>2, <1>3 DEF LevelInv, TypeInv, TypeOK
    <3>2. QED
      BY <1>2, <1>4, <2>1, <3>1
  <2>2. CASE stack[t][i].agent # b
    BY <1>1, <1>3, <1>4, <2>2 DEF LevelInv, TypeInv, TypeOK
  <2>3. QED
    BY <2>1, <2>2
<1>6. depth'[b] = req[t].depth + 1
  BY <1>2, <1>3 DEF TypeInv, TypeOK
<1>7. LevelInv(t)'
  BY <1>1, <1>3, <1>4, <1>5, <1>6 DEF LevelInv
<1>8. PathInv(t)'
  BY <1>1, <1>3 DEF PathInv
<1>9. QED
  BY <1>1, <1>7, <1>8

\* The target is not among the visited, so of the agents at work only the first
\* can be the one whose fields are written.
LEMMA WriteVisitedChain ==
  ASSUME IInv, NEW t \in Threads, WriteVisited(t), NEW u \in alone'
  PROVE  LevelInv(u)' /\ PathInv(u)'
<1> USE DEF IInv
<1> DEFINE r == req[t]
           n == Len(stack[t])
           f == [agent |-> r.to, tools |-> Delegating \ DepthDenyList(r.depth + 1), level |-> r.level]
<1>1. u \in alone /\ u = t
  BY OnlyOne DEF WriteVisited, Busy
<1>2. LevelInv(t) /\ PathInv(t)
  BY <1>1
<1>3. /\ r \in Request /\ r.to \in Agents /\ r.to \notin r.visited
      /\ stack[t] # <<>> /\ stack[t] \in Seq(Frame)
  BY <1>2 DEF WriteVisited, TypeInv, TypeOK, Control, Accepted, LevelInv
<1>4. /\ n \in Nat \ {0} /\ DOMAIN stack[t] = 1..n
      /\ Top(t) = stack[t][n] /\ Top(t).level \in Nat
      /\ \A i \in 1..n : stack[t][i].level \in Nat /\ stack[t][i].agent \in Agents
  <2>1. n \in Nat \ {0} /\ DOMAIN stack[t] = 1..n
    BY <1>3, FrontAndLast
  <2>2. Top(t) = stack[t][n] /\ Top(t).level \in Nat
    BY <1>3, TopFrame DEF TypeInv
  <2>3. \A i \in 1..n : stack[t][i] \in Frame
    BY <1>3, <2>1
  <2>4. QED
    BY <2>1, <2>2, <2>3 DEF Frame
<1>5. /\ depth' = depth /\ pc[t] = "depth written" /\ pc'[t] = "run"
      /\ visited' = [visited EXCEPT ![r.to] = r.visited \cup {r.to}]
      /\ stack'[t] = Append(stack[t], f)
  BY DEF WriteVisited, TypeInv, TypeOK
<1>6. f \in Frame /\ f.agent = r.to /\ f.level = r.level /\ r.depth \in Nat
  BY <1>3, ConstantsAssumption DEF Frame, Request, ConstantsAssumption
<1> HIDE DEF f
<1>7. /\ DOMAIN stack'[t] = 1..(n + 1)
      /\ \A i \in 1..n : stack'[t][i] = stack[t][i]
      /\ stack'[t][n + 1] = f
  <2>1. /\ DOMAIN Append(stack[t], f) = DOMAIN stack[t] \cup {n + 1}
        /\ \A i \in DOMAIN stack[t] : Append(stack[t], f)[i] = stack[t][i]
        /\ Append(stack[t], f)[n + 1] = f
    BY <1>3, <1>6, Appended
  <2>2. 1..(n + 1) = (1..n) \cup {n + 1}
    BY <1>4
  <2>3. QED
    BY <1>4, <1>5, <2>1, <2>2
<1>8. LevelInv(t)'
  <2>1. f.level = Top(t).level + 1 /\ f.level <= depth[r.to]
    <3>1. r.level = Top(t).level + 1 /\ Top(t).level <= r.depth /\ depth[r.to] = r.depth + 1
      BY <1>2, <1>5 DEF LevelInv
    <3>2. QED
      BY <1>4, <1>6, <3>1
  <2>2. \A i \in 1..n : stack[t][i].level <= Top(t).level
    <3>1. n \in 1..n /\ \A i \in 1..n : i <= n
      BY <1>4
    <3>2. QED
      BY <1>2, <1>4, <3>1 DEF LevelInv
  <2>3. \A i \in DOMAIN stack'[t] : stack'[t][i].level <= depth'[stack'[t][i].agent]
    <3> SUFFICES ASSUME NEW i \in 1..(n + 1)
                 PROVE  stack'[t][i].level <= depth[stack'[t][i].agent]
      BY <1>5, <1>7
    <3>1. CASE i \in 1..n
      <4>1. stack[t][i].level <= depth[stack[t][i].agent]
        BY <1>2, <1>4, <3>1 DEF LevelInv
      <4>2. QED
        BY <1>7, <3>1, <4>1
    <3>2. CASE i = n + 1
      BY <1>6, <1>7, <2>1, <3>2
    <3>3. QED
      BY <1>4, <3>1, <3>2
  <2>4. \A i, j \in DOMAIN stack'[t] : i <= j => stack'[t][i].level <= stack'[t][j].level
    <3> SUFFICES ASSUME NEW i \in 1..(n + 1), NEW j \in 1..(n + 1), i <= j
                 PROVE  stack'[t][i].level <= stack'[t][j].level
      BY <1>7
    <3>1. CASE j \in 1..n
      <4>1. i \in 1..n
        BY <1>4, <3>1
      <4>2. QED
        BY <1>2, <1>4, <1>7, <3>1, <4>1 DEF LevelInv
    <3>2. CASE j = n + 1 /\ i \in 1..n
      <4>1. stack'[t][i] = stack[t][i] /\ stack'[t][j] = f
        BY <1>7, <3>2
      <4>2. stack[t][i].level \in Nat /\ stack[t][i].level <= Top(t).level
        BY <1>4, <2>2, <3>2
      <4>3. stack[t][i].level <= f.level
        BY <1>4, <2>1, <4>2
      <4>4. QED
        BY <4>1, <4>3
    <3>3. CASE j = n + 1 /\ i = n + 1
      <4>1. f.level \in Nat
        BY <1>4, <2>1
      <4>2. QED
        BY <1>7, <3>3, <4>1
    <3>4. QED
      BY <1>4, <3>1, <3>2, <3>3
  <2>5. QED
    BY <1>5, <2>3, <2>4 DEF LevelInv
<1>9. PathInv(t)'
  <2>1. \A j \in 1..n : 1 < j => stack[t][j].agent \in r.visited /\ stack[t][j].agent # r.to
    BY <1>2, <1>3, <1>4, <1>5 DEF PathInv
  <2>2. /\ visited'[r.to] = r.visited \cup {r.to}
        /\ \A a \in Agents : a # r.to => visited'[a] = visited[a]
    BY <1>3, <1>5 DEF TypeInv, TypeOK
  <2>3. \A i, j \in DOMAIN stack'[t] : 1 < j /\ j <= i => stack'[t][j].agent \in visited'[stack'[t][i].agent]
    <3> SUFFICES ASSUME NEW i \in 1..(n + 1), NEW j \in 1..(n + 1), 1 < j, j <= i
                 PROVE  stack'[t][j].agent \in visited'[stack'[t][i].agent]
      BY <1>7
    <3>1. CASE i \in 1..n
      <4>1. j \in 1..n /\ 1 < i
        BY <1>4, <3>1
      <4>2. stack[t][j].agent \in visited[stack[t][i].agent]
        BY <1>2, <1>4, <3>1, <4>1 DEF PathInv
      <4>3. stack[t][i].agent # r.to
        BY <2>1, <3>1, <4>1
      <4>4. stack'[t][i].agent = stack[t][i].agent /\ stack'[t][j].agent = stack[t][j].agent
        BY <1>7, <3>1, <4>1
      <4>5. visited'[stack[t][i].agent] = visited[stack[t][i].agent]
        BY <1>4, <2>2, <3>1, <4>3
      <4>6. QED
        BY <4>2, <4>4, <4>5
    <3>2. CASE i = n + 1
      <4>1. stack'[t][i].agent = r.to /\ visited'[r.to] = r.visited \cup {r.to}
        BY <1>6, <1>7, <2>2, <3>2
      <4>2. CASE j \in 1..n
        <5>1. stack'[t][j].agent \in r.visited
          BY <1>7, <2>1, <4>2
        <5>2. QED
          BY <4>1, <5>1
      <4>3. CASE j = n + 1
        BY <3>2, <4>1, <4>3
      <4>4. QED
        BY <1>4, <4>2, <4>3
    <3>3. QED
      BY <1>4, <3>1, <3>2
  <2>4. \A i, j \in DOMAIN stack'[t] : 1 < i /\ i < j => stack'[t][i].agent # stack'[t][j].agent
    <3> SUFFICES ASSUME NEW i \in 1..(n + 1), NEW j \in 1..(n + 1), 1 < i, i < j
                 PROVE  stack'[t][i].agent # stack'[t][j].agent
      BY <1>7
    <3>1. i \in 1..n
      BY <1>4
    <3>2. CASE j \in 1..n
      <4>1. stack[t][i].agent # stack[t][j].agent
        BY <1>2, <1>4, <3>1, <3>2 DEF PathInv
      <4>2. QED
        BY <1>7, <3>1, <3>2, <4>1
    <3>3. CASE j = n + 1
      <4>1. stack'[t][i].agent = stack[t][i].agent /\ stack'[t][j].agent = r.to
        BY <1>6, <1>7, <3>1, <3>3
      <4>2. QED
        BY <2>1, <3>1, <4>1
    <3>4. QED
      BY <1>4, <3>2, <3>3
  <2>5. QED
    BY <1>5, <2>3, <2>4 DEF PathInv
<1>10. QED
  BY <1>1, <1>8, <1>9

\* All in all the invariant is inductive.
LEMMA Inductive == IInv /\ [Next]_vars => IInv'
<1> SUFFICES ASSUME IInv, [Next]_vars PROVE IInv'
  OBVIOUS
<1>1. TypeInv'
  BY TypeStep DEF IInv
<1>2. ASSUME NEW u \in alone'
      PROVE  LevelInv(u)' /\ PathInv(u)'
  <2>1. ASSUME NEW t \in Threads, Handoff(t)
        PROVE  LevelInv(u)' /\ PathInv(u)'
    BY <2>1, RefuseChain, ReadVisitedChain, WriteDepthChain, WriteVisitedChain DEF Handoff
  <2>2. ASSUME NEW t \in Threads, NEW b \in Names, NEW s \in Spawns, Spawn(t, b, s)
        PROVE  FALSE
    BY <1>2, <2>2, SpawnType DEF IInv
  <2>3. CASE Next
    BY <2>1, <2>2, <2>3, BeginChain, ReturnChain, AskChain DEF Next, IInv
  <2>4. CASE UNCHANGED vars
    BY <2>4 DEF vars, fields, IInv, LevelInv, PathInv, Top
  <2>5. QED
    BY <2>3, <2>4
<1>3. QED
  BY <1>1, <1>2 DEF IInv

-----------------------------------------------------------------------------
\* Every state of the delegations is well typed: no tool is ever told a depth
\* beyond the limit, whichever chains share it.
THEOREM TypeCorrect == Spec => []TypeOK
<1>1. Spec => []IInv
  BY InitInv, Inductive, PTL DEF Spec
<1>2. IInv => TypeOK
  BY DEF IInv, TypeInv
<1>3. QED
  BY <1>1, <1>2, PTL

\* A chain that overlaps with no other is never longer than the limit.
THEOREM DepthBounded == Spec => []ChainBounded
<1>1. Spec => []IInv
  BY InitInv, Inductive, PTL DEF Spec
<1>2. IInv => ChainBounded
  <2> SUFFICES ASSUME IInv, NEW t \in alone, NEW i \in DOMAIN stack[t]
               PROVE  stack[t][i].level <= MaxDepth
    BY DEF ChainBounded
  <2>1. t \in Threads /\ stack[t][i].agent \in Agents /\ stack[t][i].level \in Nat
    <3>1. t \in Threads /\ stack[t] \in Seq(Frame)
      BY DEF IInv, TypeInv, TypeOK, Active
    <3>2. stack[t][i] \in Frame
      BY <3>1
    <3>3. QED
      BY <3>1, <3>2 DEF Frame
  <2>2. /\ stack[t][i].level <= depth[stack[t][i].agent]
        /\ depth[stack[t][i].agent] \in Nat /\ depth[stack[t][i].agent] <= MaxDepth
    BY <2>1, DepthRange DEF IInv, TypeInv, LevelInv
  <2>3. QED
    BY <2>1, <2>2, ConstantsAssumption DEF ConstantsAssumption
<1>3. QED
  BY <1>1, <1>2, PTL

\* And in such a chain no agent but the first is called while it is at work.
THEOREM NoReentry == Spec => []NoCycle
<1>1. Spec => []IInv
  BY InitInv, Inductive, PTL DEF Spec
<1>2. IInv => NoCycle
  BY DEF IInv, PathInv, NoCycle
<1>3. QED
  BY <1>1, <1>2, PTL
=============================================================================
