------------------------------ MODULE AgentLoop ------------------------------
(***************************************************************************)
(* The agent loop (pkg/agent/loop.go): Run takes the inbound messages one  *)
(* after the other and answers each, while the cron service and the        *)
(* heartbeat process messages of their own in other goroutines.  All of    *)
(* them use the tools of the agent they are routed to, and the tools keep  *)
(* state: the message tool (pkg/tools/message.go) remembers the chat of    *)
(* the round and whether it has sent something in it, which is how Run     *)
(* knows that there is nothing left to publish.  The agents that a round   *)
(* hands off to use their own tools, for the chat of the round, and so do  *)
(* the ones it spawns, in a goroutine that outlives the round.             *)
(*                                                                         *)
(* What a round does with the session is in SessionHistory, how it calls   *)
(* the model in ProviderFallback.                                          *)
(***************************************************************************)
EXTENDS ReplyPromise

CONSTANTS Note,     \* the message that sessions_send publishes
          CronJob,  \* what ProcessDirectWithChannel makes of a cron job
          HeartbeatChat, \* the chat of heartbeats
          Configs,  \* the configurations
          Cap,      \* capacity of the inbound queue
          MaxCalls, \* bound: MaxCalls[r], tool calls of a round (max_tool_iterations)
          MaxArrivals, \* bound: messages from channels
          MaxOthers \* bound: rounds of cron and heartbeat, and spawns

Rounds == {"run", "cron", "heartbeat", "spawn"}

ASSUME ConstantsAssumption ==
    /\ Note \notin Messages /\ Cap \in Nat \ {0}
    /\ MaxCalls \in [Rounds -> Nat]
    /\ MaxOthers \in Nat /\ MaxArrivals \in Nat
    /\ \A c \in Configs : c.agents # <<>> /\ "" \notin ToSet(c.agents)

Inbound == Messages \cup {Note}
Chats   == {Input[m].chat : m \in Inbound \cup {CronJob}} \cup {HeartbeatChat}

VARIABLES
    inbound, \* the inbound queue of the bus
    arrived, \* messages that were ever in it
    round,   \* what each of the goroutines is processing; by: whose message tool it calls
    tool,    \* tool[a]: the message tool of agent a: chat and sentInRound
    others,  \* number of rounds of cron and heartbeat, and of spawns
    disturbed \* history: another round has used the message tool of Run's agent

vars == <<config, inbound, arrived, round, tool, others, done, latest, disturbed>>

Agents == ToSet(config.agents)

\* GetDefaultAgent: main, or any agent if there is no main.
DefaultAgents == IF "main" \in Agents THEN {"main"} ELSE Agents

Idle == [pc |-> "idle", msg |-> Nothing, agent |-> "", chat |-> Nothing, key |-> <<>>,
         calls |-> 0, by |-> "", last |-> "none", told |-> {}]

Init == /\ config \in Configs
        /\ inbound = <<>>
        /\ arrived = {}
        /\ round = [r \in Rounds |-> Idle]
        /\ tool = [a \in Agents |-> [chat |-> Nothing, sent |-> FALSE]]
        /\ others = 0
        /\ done = <<>>
        /\ latest = Nothing
        /\ disturbed = FALSE

\* Round r uses the message tool of agent a.
Disturbs(r, a) ==
    disturbed' = (disturbed \/ (r # "run" /\ round["run"].pc # "idle" /\ round["run"].agent = a))

-----------------------------------------------------------------------------
(* The bus.                                                                *)

\* A channel publishes a message.
Arrive(m) ==
    /\ m \notin arrived /\ Len(inbound) < Cap
    /\ Cardinality(arrived \ {Note}) < MaxArrivals
    /\ inbound' = Append(inbound, m)
    /\ arrived' = arrived \cup {m}
    /\ UNCHANGED <<config, round, tool, others, done, latest, disturbed>>

\* Run takes the next message.
Take ==
    /\ round["run"].pc = "idle" /\ inbound # <<>>
    /\ inbound' = Tail(inbound)
    /\ round' = [round EXCEPT !["run"] = [Idle EXCEPT !.pc = "taken", !.msg = Head(inbound),
                                                      !.chat = Input[Head(inbound)].chat]]
    /\ latest' = Nothing
    /\ UNCHANGED <<config, arrived, tool, others, done, disturbed>>

-----------------------------------------------------------------------------
(* processMessage and runAgentLoop.                                        *)

\* A command is answered before the message tool is reset.
Command ==
    /\ round["run"].pc = "taken" /\ Input[round["run"].msg].command
    /\ round' = [round EXCEPT !["run"].pc = "replying"]
    /\ UNCHANGED <<config, inbound, arrived, tool, others, done, latest, disturbed>>

\* Mutant of Begin: the message tool keeps the state of the round before.
BeginStale(r, a, m) ==
    /\ \E key \in SessionKeys(config, a, Input[m]) :
           round' = [round EXCEPT ![r] = [Idle EXCEPT !.pc = "thinking", !.msg = m, !.agent = a,
                                                      !.chat = Input[m].chat, !.key = key]]
    /\ tool' = [tool EXCEPT ![a].chat = Input[m].chat]
    /\ Disturbs(r, a)

\* Agent a begins with m: SetContext.
Begin(r, a, m) ==
    /\ \E key \in SessionKeys(config, a, Input[m]) :
           round' = [round EXCEPT ![r] = [Idle EXCEPT !.pc = "thinking", !.msg = m, !.agent = a,
                                                      !.chat = Input[m].chat, !.key = key]]
    /\ tool' = [tool EXCEPT ![a] = [chat |-> Input[m].chat, sent |-> FALSE]]
    /\ Disturbs(r, a)

Start ==
    /\ round["run"].pc = "taken" /\ ~Input[round["run"].msg].command
    /\ Begin("run", RoutedTo(config, Input[round["run"].msg]), round["run"].msg)
    /\ UNCHANGED <<config, inbound, arrived, others, done, latest>>

\* ProcessDirectWithChannel, for a cron job.
StartCron ==
    /\ round["cron"].pc = "idle" /\ others < MaxOthers
    /\ others' = others + 1
    /\ Begin("cron", RoutedTo(config, Input[CronJob]), CronJob)
    /\ UNCHANGED <<config, inbound, arrived, done, latest>>

\* ProcessHeartbeat: the default agent, in a session of its own.
StartHeartbeat ==
    /\ round["heartbeat"].pc = "idle" /\ others < MaxOthers
    /\ others' = others + 1
    /\ \E a \in DefaultAgents :
          /\ round' = [round EXCEPT !["heartbeat"] =
                          [Idle EXCEPT !.pc = "thinking", !.agent = a, !.chat = HeartbeatChat,
                                       !.key = <<"heartbeat">>]]
          /\ tool' = [tool EXCEPT ![a] = [chat |-> HeartbeatChat, sent |-> FALSE]]
          /\ Disturbs("heartbeat", a)
    /\ UNCHANGED <<config, inbound, arrived, done, latest>>

\* AsyncSpawn, called by round r: the child runs for the chat that the spawn tool
\* remembers, of this round or of another that uses the tool.  Its tools are not reset.
StartSpawn(r) ==
    /\ round[r].pc = "thinking" /\ round[r].calls < MaxCalls[r]
    /\ round["spawn"].pc = "idle" /\ others < MaxOthers
    /\ others' = others + 1
    /\ \E q \in Rounds :
          /\ round[q].pc \in {"thinking", "calling", "sending"}
          /\ round' = [round EXCEPT ![r].calls = @ + 1,
                                    !["spawn"] = [Idle EXCEPT !.pc = "thinking",
                                                              !.chat = round[q].chat]]
    /\ UNCHANGED <<config, inbound, arrived, tool, done, latest, disturbed>>

-----------------------------------------------------------------------------
(* The tool calls of a round.                                              *)

\* ExecuteWithContext of the message tool, of the round's agent or of one that it has
\* handed off to: SetContext, and then Execute.
CallMessage(r) ==
    /\ round[r].pc = "thinking" /\ round[r].calls < MaxCalls[r]
    /\ \E a \in Agents :
          /\ round' = [round EXCEPT ![r].pc = "calling", ![r].calls = @ + 1, ![r].by = a]
          /\ tool' = [tool EXCEPT ![a] = [chat |-> round[r].chat, sent |-> FALSE]]
          /\ Disturbs(r, a)
    /\ UNCHANGED <<config, inbound, arrived, others, done, latest>>

\* The call of the message tool ends, having sent to chats: what Run has told its sender
\* here or others elsewhere, and the outcome if it was the tool of Run's agent.
Ends(r, outcome, chats) ==
    LET R == round[r]
        told == {IF c = R.chat THEN "here" ELSE "elsewhere" : c \in chats}
    IN  round' = [round EXCEPT ![r] =
                     [R EXCEPT !.pc = "thinking", !.by = "",
                               !.told = IF r = "run" THEN @ \cup told ELSE @,
                               !.last = IF r = "run" /\ R.by = R.agent THEN outcome ELSE @]]

\* It sends to the chat that the tool remembers, or to one that the call names.
Deliver(r) ==
    LET R == round[r]
    IN  /\ R.pc = "calling"
        /\ \/ Ends(r, "sent", {tool[R.by].chat})
           \/ \E c \in Chats : Ends(r, "named", {c})
        /\ tool' = [tool EXCEPT ![R.by].sent = TRUE]
        /\ Disturbs(r, R.by)
        /\ UNCHANGED <<config, inbound, arrived, others, done, latest>>

\* A hook refuses it, it has no content, or the outbound queue stays full.
DeliverFails(r) ==
    /\ round[r].pc = "calling"
    /\ Ends(r, "failed", {})
    /\ UNCHANGED <<config, inbound, arrived, tool, others, done, latest, disturbed>>

\* sessions_send publishes to the inbound queue, with a context that is never cancelled
\* (bound: one note).
Send(r) ==
    /\ round[r].pc = "thinking" /\ round[r].calls < MaxCalls[r] /\ Note \notin arrived
    /\ \A q \in Rounds : round[q].pc # "sending"
    /\ round' = [round EXCEPT ![r].pc = "sending", ![r].calls = @ + 1]
    /\ UNCHANGED <<config, inbound, arrived, tool, others, done, latest, disturbed>>

Sent(r) ==
    /\ round[r].pc = "sending" /\ Len(inbound) < Cap
    /\ round' = [round EXCEPT ![r].pc = "thinking"]
    /\ inbound' = Append(inbound, Note)
    /\ arrived' = arrived \cup {Note}
    /\ UNCHANGED <<config, tool, others, done, latest, disturbed>>

-----------------------------------------------------------------------------
(* The end of a round.                                                     *)

\* Run has a response or the text of an error; the others drop theirs.
Answer(r) ==
    /\ round[r].pc = "thinking"
    /\ round' = IF r = "run" THEN [round EXCEPT ![r].pc = "replying"]
                ELSE [round EXCEPT ![r] = Idle]
    /\ UNCHANGED <<config, inbound, arrived, tool, others, done, latest, disturbed>>

\* The response is published unless agent d's message tool says that it has sent one.
Judged(d) ==
    LET R == round["run"] IN
    /\ done' = [m \in Done \cup {R.msg} |-> IF m = R.msg THEN [agent |-> R.agent, key |-> R.key]
                                                         ELSE done[m]]
    /\ latest' = [reply |-> ~tool[d].sent, told |-> R.told, last |-> R.last,
                  sound |-> ~disturbed /\ DefaultAgents = {R.agent}]

\* Mutant of Reply: Run returns when a response was already sent.
ReplyReturns ==
    /\ round["run"].pc = "replying"
    /\ \E d \in DefaultAgents : ~tool[d].sent /\ Judged(d)
    /\ round' = [round EXCEPT !["run"] = Idle]
    /\ disturbed' = FALSE
    /\ UNCHANGED <<config, inbound, arrived, tool, others>>

\* Run asks the message tool of the default agent whether it has sent a response.
Reply ==
    /\ round["run"].pc = "replying"
    /\ \E d \in DefaultAgents : Judged(d)
    /\ round' = [round EXCEPT !["run"] = Idle]
    /\ disturbed' = FALSE
    /\ UNCHANGED <<config, inbound, arrived, tool, others>>

Tools(r) == CallMessage(r) \/ Deliver(r) \/ DeliverFails(r) \/ Send(r) \/ Sent(r) \/ StartSpawn(r)

Run == Take \/ Command \/ Start \/ Tools("run") \/ Answer("run") \/ Reply

Other(r) == Tools(r) \/ Answer(r)

Next == \/ \E m \in Messages : Arrive(m)
        \/ Run
        \/ StartCron \/ StartHeartbeat
        \/ Other("cron") \/ Other("heartbeat") \/ Other("spawn")

Spec == Init /\ [][Next]_vars

\* Run goes on with what it can do; its calls of the model and of tools end.
FairSpec == Spec /\ WF_vars(Run)

-----------------------------------------------------------------------------
Round == [pc |-> {"idle", "taken", "thinking", "calling", "sending", "replying"},
          msg |-> Inbound \cup {CronJob, Nothing}, agent |-> Agents \cup {""},
          chat |-> Chats \cup {Nothing}, calls |-> Nat, by |-> Agents \cup {""},
          last |-> {"none", "sent", "named", "failed"}, told |-> SUBSET {"here", "elsewhere"}]

TypeOK ==
    /\ config \in Configs
    /\ inbound \in Seq(Inbound) /\ Len(inbound) <= Cap
    /\ arrived \subseteq Inbound /\ ToSet(inbound) \cup Done \subseteq arrived
    /\ DOMAIN round = Rounds /\ \A r \in Rounds : \A f \in DOMAIN Round : round[r][f] \in Round[f]
    /\ \A r \in Rounds : /\ round[r].pc \in {"thinking", "calling", "sending"} /\ r # "spawn"
                               => round[r].agent \in Agents
                         /\ round[r].pc = "calling" <=> round[r].by \in Agents
    /\ DOMAIN tool = Agents /\ \A a \in Agents : tool[a].sent \in BOOLEAN
    /\ others \in 0..MaxOthers
    /\ disturbed \in BOOLEAN

\* Run waits for room in the queue that it alone empties.
Stuck == round["run"].pc = "sending" /\ Len(inbound) = Cap

\* Run always catches up with what arrives, however the rounds of cron and heartbeat
\* and the spawns get in between, unless it is itself stuck in sessions_send.
Served == []<>(arrived = Done \/ Stuck)
=============================================================================
