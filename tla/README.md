# A TLA+ model of AetherClaw

AetherClaw is a personal AI agent written in Go. A gateway process connects chat
platforms (Telegram, Discord, Slack, ...) with agents that call language models
and tools. This directory holds TLA+ modules for the parts of it where several
goroutines meet, TLC configurations that check them on small instances, and
proofs that hold for every instance. All paths below are relative to `src/`.

To check a module: `tlc -config Outbound_order.cfg MCOutboundPath`. To check the
proofs: `tlapm OutboundPathProofs.tla`, and so on for the modules named `...Proofs`.
`PROJECT.json` lists the runs with their
properties, maps every definition to the lines it models, and names for every
property a mutant of the model (a definition that a plausible bug would give)
that breaks it.

## 1. Inventory

How the parts meet: an adapter's goroutine hands an inbound message to
`BaseChannel.HandleMessage`, which shows signs of life in the chat and puts the
message on the **bus**. The **agent loop** takes it off, routes it to an agent,
reads the **session history**, calls a **provider** (with fallback) and the
**tools** the model asks for, some of which **hand off** to or **spawn** other
agents, and publishes replies on the bus. The **channel manager's** dispatchers
pass a reply to the worker of its channel, which takes the signs of life back
and sends it. **Cron** and **heartbeat** feed the same loop from timers.

| component | state | operations | what is hard | what makes it correct |
|---|---|---|---|---|
| message bus `pkg/bus` | three bounded Go channels, `closed`, `done` | publish, subscribe, close | close against blocked publishers and subscribers | FIFO; nobody blocks for ever; nothing lost before close |
| channel manager `pkg/channels/manager.go` | channels, workers with two queues, dispatchers | dispatch, split, retry, start, stop | full queues, retries, stopping while sending | order per channel; bounded tries; no send after stop; the stop ends |
| presence `base.go`, `manager.go` | three maps by chat | start and record, preSend, janitor | no lock across steps; several messages of one chat | placeholder edited once; every indicator is stopped; maps do not grow |
| gateway `cmd/aetherclaw/internal/gateway` | how far start and stop have got | run, shut down | the order of cancel, close, stop | the shutdown reaches its end |
| spawns `pkg/multiagent` (spawn, dedup, cascade, announce) | semaphores, cache of keys, registry, result channels | spawn, finish, deliver, drain, stop | deferred calls, full result channel, expiry | limits hold; results announced once; permits return |
| handoffs and tool policy `pkg/multiagent`, `pkg/tools/policy.go` | depth, visited agents, held by shared tool objects | handoff, spawn, deny | state of one chain left in a tool that another chain uses | chains end; leaf agents do not delegate |
| agent loop `pkg/agent` | the round, the tools' state, summarising flags | take, route, call tools, reply | state of tools shared by rounds and agents | each message is answered once |
| session history `pkg/session` | messages and summary per key, files | append, truncate, replace, save | summary in the background; save outside the lock; crash | no message dropped unsummarised; file as new as memory |
| cron `pkg/cron` | jobs, next run, file | add, update, run due, load | jobs changed while they run; crash between claim and run | a job runs once per due time; disabled jobs do not run |
| providers `pkg/providers` | cooldowns, profiles, error counts | choose, mark, fall back | marks of overlapping calls | a provider in cooldown is not called; a success clears only its own past |
| tools: registry, loop detector, autonomy, approval | call history, pending approvals | hooks, record, check | one window for all turns, results filed late | loops found at the threshold and not before |
| media store `pkg/media` | references, scopes, files | store, resolve, release, clean up | files deleted outside the lock | a live reference has its file |
| routing `pkg/routing` | none | route, session key | seven levels of bindings, links between identities | one talk, one session; groups apart |
| heartbeat, state, pairing, blackboard, skills, usage, memory | small maps and files | - | expiry, atomic file replacement, stale copies | section 13 |
| adapters with connections of their own: OneBot, native WhatsApp, Pico | connection, listener, requests, slots | connect, read, ask, reconnect, stop | stop against dialling, reading, reconnecting | a lost connection comes back; stop ends and leaves nothing open |
| intake of OneBot, QQ, WeCom | ids seen before | recognise, forget, publish | bounded memory, callbacks at the same time | a message delivered again is not handled again |
| other adapters, provider APIs, file and web tools, configuration, user interfaces | - | - | input and output | not modelled |

The hazards of `PROJECT.json` list, line by line, what can go wrong in these
parts and a test would hardly reach, and which property covers it.

## 2. Modules

In the order in which they were written, the most important behaviour first.

1. `Delivery`, `OutboundPath`, `OutboundPathProofs` (section 3): the path of a
   reply from the bus to the platform with the gateway's shutdown. Everything the
   program says goes through it, and it holds most of the concurrency. `Delivery`
   is the abstract promise; `OutboundPath` composes bus, dispatchers, workers, and
   the gateway's main goroutine.
2. `Presence`, `PresenceProofs` (4): typing, reaction and placeholder of a chat.
3. `SpawnManager`, `SpawnManagerProofs` (5): asynchronous spawns.
4. `Delegation`, `DelegationProofs` (6): depth and cycle guards of handoffs, the tool
   state shared by chains, the tools denied to leaf agents.
5. `SessionHistory` (7): turns, summarising in the background, forced compression,
   saving, crash and reload.
6. `CronService`, `CronServiceProofs` (8): the run loop, the operations of the tool
   and of the command line, crash and restart.
7. `ProviderFallback` (9): the chain of providers, cooldowns and rotation of keys
   under overlapping calls. What turns rely on is stated in `FallbackPromise`, which it
   extends.
8. `Routing`, `AgentLoop` (10): which agent and session a message goes to; the
   loop, cron and heartbeat with the tool state they share. `ReplyPromise`, between
   the two, states what the sender of a message relies on.
9. `ToolCalls`, `ToolCallsProofs` (11): the loop detector around tool calls.
10. `OneBot`, `WhatsAppNative`, `Pico`, `Intake`, put together in `Adapters`, with
    `AdaptersProofs` (12): connections of channel adapters, and messages delivered
    more than once.

`TurnProofs` holds the proofs about the three modules a turn is made of, `SessionHistory`
(7.3), `ProviderFallback` (9.3) and `AgentLoop` (10.3). It extends the first and the two
promises, and makes an instance of each of the others. An assumption about constants does not come with an
instance, so the theorems about those two have `ConstantsAssumption` as their
hypothesis; TLC evaluates it in the runs of the modules themselves.

`AgentLoop` composes `Routing` with the inbound lane of the bus; its rounds are
what `SessionHistory` calls a turn, whose call of the model is `ProviderFallback`
and whose tools are called as in `ToolCalls` or put other agents to work as in
`Delegation` and `SpawnManager`; its replies enter `OutboundPath`. The modules are
not conjoined: what one knows of the other is a choice left open (which tools a
model calls, whether a call fails), so each holds for whatever the others do.

The runs are those of `PROJECT.json`. Nine more configurations each show one
disagreement between a document and the code, by a counterexample that can be had
with the command given: `Outbound_drain.cfg`, `Outbound_panic.cfg`, `Presence_leak.cfg`,
`Spawn_duplicate.cfg`, `Spawn_handoff.cfg`, `Delegation_leaf.cfg`, `Agent_elsewhere.cfg`,
`Tool_verdict.cfg`, `Adapters_latest.cfg` (sections 3.2, 4, 5, 6.2, 10.2, 11, 12.2).

Every module that keeps state has a `TypeOK`. It is checked where it says more than the
shape of the state (bounds of queues, attempts and depths, a counter that counts
goroutines), and proved for every module but `AgentLoop`, of which the proofs need
less (`Shapes`); there it tells the reader what the variables hold.

## 3. The outbound path

### 3.1 Modules

`OutboundPath` models `pkg/bus/bus.go` (outbound and media lanes, `Close`),
`pkg/channels/manager.go` (`StartAll`, the two dispatchers, the two kinds of
workers, `sendWithRetry`, `sendMediaWithRetry`, `StopAll`) and the shutdown
sequence in `gateway/helpers.go`. The two lanes have the same code twice, so
they are one set of actions with the lane as a parameter; where they differ
(only text is split and has a `preSend`; media is skipped for channels without
`MediaSender`) the action says so.

| variable | code |
|---|---|
| `main` | the gateway's main goroutine: before and after `StartAll`, `cancel()`, the steps of `bus.Close()`, the steps of `StopAll`, exit. `CtxDone`, `BusClosed`, `BusDone`, `QueueClosed` and `StopAllHoldsLock` are read off it |
| `served` | channels whose `Start` succeeded, which get workers |
| `pub` | publishers inside the select of `PublishOutbound(Media)` |
| `busq`, `next` | the buffered channels of the bus; the number of the next reply |
| `dpc`, `dmsg` | a dispatcher: subscribing, about to look up, in its select |
| `queue` | `channelWorker.queue` and `mediaQueue` |
| `wpc`, `wmsg`, `part`, `attempt` | a worker: receiving, waiting for the limiter, in `preSend`, in `Send`, in the delay before a retry |
| `tried` | history: what the worker last handed to its platform |

A step ends wherever the code releases a lock, blocks, or calls out of the
process. So the closed check of a publish and its select are two steps, the
dispatcher's lookup under the lock and its send are two, `Close` is one step
per message it drains, and `StopAll` is three. Which of several ready cases a
Go `select` takes is left open, as it is in Go.

`Attached` publishers use a context derived from the gateway's. The others bring
their own with a timeout. A reply is its number, lane, channel and the number of
chunks `SplitMessage` makes of it: content is never looked at.

`Delivery` is what a publisher may rely on, with no queue or goroutine in it: a
set of pending replies per route, handed over oldest first, part by part, each
part at most `MaxRetries + 2` times (the edit of the placeholder and
`maxRetries + 1` sends), let go only after each part was handed over or when
nobody serves the route, and lost only after the shutdown has begun.
`OutboundPath!Promise` instantiates it: `pending` is everything in the bus, in
dispatchers, queues and workers.

`MCOutboundPath` adds two claims of the documentation as properties.

### 3.2 Runs

| run | checks | instance and why it is enough |
|---|---|---|
| `outbound_order` | `TypeOK`, `PipelineOrder`, `NoSendAfterStop`, `ImplementsDelivery` | one publisher, one channel, three replies in both lanes, two chunks, one retry, capacities of one. With capacities of one, the third reply already meets a full bus, a full queue, a busy worker; the order of two lanes is independent, and channels share only the dispatcher, which the lock and the lane already order |
| `outbound_settles` | `RepliesSettle`, `ShutdownCompletes`, `PublishReturns` | an attached and a detached publisher, an internal and an unknown name, a channel that may not have started and that cannot send media, two replies |

`PipelineOrder` says that along bus, dispatcher, queue, worker and platform the
numbers of the replies of one route only decrease: no retry, split, or
cancelled wait lets a reply overtake. `NoSendAfterStop` says that
`Channel.Stop` is called when no worker can be inside `Send` any more.

**Findings.** (1) `pkg/channels/README.md:1007` promises that `StopAll` waits for
the queues to drain. A worker's select also listens to the context, which is
cancelled before the queues are closed, so it may leave with replies queued:
`tlc -config Outbound_drain.cfg MCOutboundPath` shows `QueuesDrainOnStop`
violated. (2) `pkg/channels/README.md:1165` calls the worker queue concurrent-safe. The dispatcher
reads the worker under a lock and sends after releasing it; `StopAll` closes the
queue in between; a send case on a closed channel panics when the select picks
it: `tlc -config Outbound_panic.cfg MCOutboundPath` shows `ConcurrentUseIsSafe`
violated. `TypeOK` and the rest of the properties count the crashed process as gone.

### 3.3 Fairness and deadlock

Goroutines that can run are scheduled (weak fairness of each dispatcher, worker,
the main goroutine); a call to a platform returns and a delay elapses, because
the HTTP clients have timeouts; a detached publisher's own timeout elapses.
Weak fairness of a whole worker is enough: in each of its states something is
enabled or the worker waits for a reply. Nothing is assumed about anyone
publishing or interrupting the gateway. Deadlock is checked; a process that has
exited or crashed stutters (`Gone`).

### 3.4 Proofs

`OutboundPathProofs` proves, for any finite set of publishers, any channels and
any positive bounds (`ConstantsAssumption`, which TLC evaluates on its runs):

- `TypeCorrect`: `Spec => []TypeOK`, which includes that no queue exceeds its
  capacity and no attempt exceeds `MaxRetries`;
- `OrderKept`: `Spec => []PipelineOrder`;
- `StoppedForGood`: `Spec => []NoSendAfterStop`;
- `Refinement`: `Spec => ImplementsDelivery`, the promise of `Delivery`.

`TypeOK` is not inductive: that `part` stays below the number of chunks, that a
dispatcher at its lookup holds a reply, that a worker in its delay has attempts
left needs `Control`, which relates the control points to what is held; and
that the reply numbers stay within `MaxMsgs` needs `Budget`: every publisher
that waits has a number in reserve. `TypeInv == TypeOK /\ Control /\ Budget` is
inductive; `PublisherType`, `DispatcherType`, `WorkerType` and `MainType` prove
one group of actions each. `PipelineOrder` is then inductive relative to
`TypeInv` (`IInv` is the conjunction): each of its clauses compares neighbours
on the route, and an action moves the one reply it touches by one place;
`TailOrdered`, `AppendOrdered` and `Numbers` say what that does to a sequence.
`NoSendAfterStop` needs `StopOrder`: once `StopAll` has waited for a lane, the
workers of the lane have exited, and by `WorkerMoves` an exited worker takes no
step.

`Refinement` shows that each step maps to one step of `Delivery` or to none, under
`RefinementInv`, which adds two more conjuncts. `Addressed`: a reply is where its lane and
channel put it, and only served channels have any, so that the reply a worker
holds is the pending one with the least number of its route (with
`PipelineOrder`). `HandOvers`: at each control point of a worker, whether the last thing handed to the
platform was the chunk before the present one or this chunk, and how often, at most; the
count of tries that `Delivery` limits is read off `attempt` this way. There is one lemma
per group of actions, `PublisherKeeps` and its like; a step of a publisher is an acceptance,
of a worker a hand-over, a release or nothing, of the shutdown a loss or nothing.

Only model-checked are the liveness properties: they are out of the prover's reach, as is
`ENABLED`.

## 4. Presence

`Presence` models one chat (chats have different keys and share nothing): the
goroutines of `HandleMessage` for its messages, `preSend` in the worker, the TTL
janitor. `entry[k]` is what the map of kind `k` holds, `shown[k]` the
messages whose indicator is on. Start and `Record` are two steps, so are the
`LoadAndDelete` and the call of the function taken out, and the janitor's read
in `Range`, its delete by key and its call of the function it *read*.

What a stop function stops depends on the adapter. On some there is one typing
loop per chat, and a new one replaces the old (Discord); on others each message
starts a loop of its own (Telegram). `PerChat` tells which indicators are of the
first kind. The clock is the age of an entry up to one past its TTL; no property
depends on more. The janitor, the worker and the clock are weakly fair, and a
`HandleMessage` that has begun goes on; the agent need not answer, which is why
the janitor is there. (The platform calls in it have timeouts.)

- `presence_chat`: two messages, a loop per chat. `EditedOnce` (a placeholder
  becomes one reply), `LostToAnother` (a stop function is lost only to another
  message of the chat, never to the race of janitor and worker alone),
  `MapsEmptyOut`, `TypingStops`. Two messages are the least that can overwrite
  each other, and with the worker and the janitor every pair of parties meets.
  TTLs are as short as the model allows and differ, so that either kind expires first.

With a loop per message (`tlc -config Presence_leak.cfg Presence`) `TypingStops` is
violated: recording the second message drops the stop function of the first
(`manager.go:106`), though `pkg/channels/README.md:1049` has `RecordTypingStop`
keep it for the manager to call. On Telegram the loop of
the first message then goes on until the channel stops (`telegram.go:199`).

Bounds: `MaxReplies` replies wait for the worker. While the gateway shuts down
the maps are not touched any more, so `Presence` runs while it is up.

`PresenceProofs` proves, for any messages, adapters and TTLs: `TypeCorrect`, `OneReplyEach`
(`EditedOnce`) and `NotLostAlone` (`LostToAnother`). What the proofs need is where things
are. `OnePlace`: a placeholder that is not edited yet is with its message's
goroutine, in the map or with the worker, never in two of them, because
`LoadAndDelete` moves it and the janitor never calls anything for this kind.
`Owners`: what the map, the worker and the janitor hold was recorded by its message, so
that nothing is recorded twice. `Started`: only what was started is shown. The
race that `LostToAnother` excludes, a janitor that deletes an entry that it did not
read, needs a second message to have stored that entry, by `Owners`. `MapsEmptyOut` and `TypingStops` are
liveness and only model-checked.

## 5. Spawns

`SpawnManager` models `AsyncSpawn` up to the goroutine it starts, the goroutine
with its deferred calls in their order, `DedupCache`, `RunRegistry` and
`Announcer`. `spc[r]` is how far request `r` has got. `Check` is one step,
under the cache's mutex; `Deliver` is three, each a non-blocking select; `Drain`
is one step per result. What the child does is only that it ends (its context
has a timeout). Time is the age of cache entries.

Handoffs are in the same registry under the same parent: `HandoffTool.Execute`
registers its child, without a permit, and waits for it (`handoff_tool.go:171`). A member of
`Handoffs` is one that may be under way at once, with one call after the other; what the
handoff does to depth and visited is in `Delegation`.

- `spawn_limits`: one task asked for three times, a window after which the cache forgets
  it, at most two children, a result channel of one, and handoffs one after the other.
  `ChildrenLimited` counts registered runs, at every point between the deferred calls:
  spawns never exceed the limit, and all active children together (`ActiveChildCount`) exceed it by
  no more than the handoffs the parent is waiting for. `AnnouncedOnce` accounts for every result:
  in the channel, drained or dropped, exactly one of them. `OncePerWindow` ties
  the cache with its two notions of expiry and its sweeper to the time since
  the key last passed. `PermitsComeBack` needs that delivering never blocks;
  nobody is assumed to drain, sweep or stop. With three requests, which pass the cache one
  window apart, there can be one more than the limit and two deliveries that meet at a full channel.

`SpawnManager` is to limit "concurrent children per session" (`spawn.go:67`), and
`ActiveChildCount` returns "the number of active children" (`spawn.go:265`). With one child at most
(`tlc -config Spawn_handoff.cfg MCSpawnManager`) `ActiveWithinLimit`, that the second never exceeds the
first, is violated: a handoff beside a running spawn counts, and nothing limits it.

With one child at most (`tlc -config Spawn_duplicate.cfg MCSpawnManager`)
`DuplicateOfSpawn` is violated: the key is registered before the semaphore is
tried (`spawn.go:139` and `158`), so a request rejected because the parent has too
many children blocks its own retry, though by `pkg/multiagent/dedup.go:52` `Check`
returns true if the key "has already been processed".

Deadlock is not checked here: there are finitely many requests, and the system
stops when all have been dealt with.

`CascadeStop`, `CheckWithResult` and `Cleanup` are left out: only tests call them.

`SpawnManagerProofs` proves, for any requests, handoffs, parents, keys and limits: `TypeCorrect`, `Limited`
(`ChildrenLimited`), `Once` (`AnnouncedOnce`) and `Windowed` (`OncePerWindow`).
`ChildrenLimited` is not inductive: registering does not look at the registry but at the
semaphore. `Permits` says that the semaphore of a parent counts exactly the requests between taking and giving
back a permit, that every registered spawn is among them, and that a registered handoff is one its parent
waits for; the order of the deferred calls (out of the registry first, then the permit) keeps this. `AnnouncedOnce` is inductive
with the types. `OncePerWindow` needs `Windows`: the cache
agrees with the time since the key last passed, or the key was swept after its window.
`PermitsComeBack` is liveness and only model-checked.

## 6. Delegation

### 6.1 Module

`Delegation` models how one agent puts another to work: `HandoffTool.Execute`,
`SpawnTool.Execute`, `ExecuteHandoff` and `DepthDenyList`. Each agent has one
`HandoffTool`, registered at start-up, and that object carries the state of a
chain: `ExecuteHandoff` writes `depth` and `visited` into the tool of the target,
whose own handoff reads them. Nobody resets them, and nobody locks them.

| variable | code |
|---|---|
| `depth`, `visited` | the fields of each agent's `HandoffTool` |
| `stack` | per thread, the nested calls of `ExecuteHandoff` (and below them the turn), each with the tools offered to its agent |
| `pc`, `req` | how far a thread is in `Execute` and `ExecuteHandoff`, and the `HandoffRequest` |
| `alone` | history: threads that have met no other since they began |

A thread is a goroutine that processes messages (`Turns`) or one started by
`AsyncSpawn` (`Spawns`). Tool calls of one turn run one after the other, so a
thread is a stack. Reads and writes of the two fields are steps of their own. A
spawn starts at depth 0 with nothing visited, because nothing sets these fields
of a `SpawnTool`; whether `AsyncSpawn` admits it is the business of
`SpawnManager`. An agent of a frame may hand off and spawn any number of times
before it returns; `MaxFrames` bounds the stack, above the length the guards allow.

### 6.2 Runs

- `delegation_chain`: `TypeOK`, `ChainBounded`, `NoCycle` with three agents who
  may all call each other (and themselves), a turn, a spawned thread, a limit
  of two. `level` counts the delegations below an agent independently of
  `depth`. The properties are about threads that are `alone`: overlapping chains
  write each other's fields and may exceed the limit or meet an agent twice.
  But the fields a chain starts from are whatever *any* earlier chains left,
  overlapping ones too. That is the interesting part: a leftover may end a chain
  too early, and never too late. With a limit of two a chain has a beginning, a
  middle and a leaf, three agents are enough to fill it without a cycle, and
  `MaxFrames` of four leaves room for the violation. The agents are symmetric
  (`MCAllowed` treats them alike, and the properties are invariants).

`tlc -config Delegation_leaf.cfg MCDelegation` shows `LeavesDoNotDelegate` violated.
The deny list (`pkg/tools/policy.go:41`) names `spawn`, the tool is called
`spawn_agent`: a leaf agent keeps it, and what it spawns starts at depth 0 again,
although by `pkg/multiagent/handoff.go:178` "leaf agents lose spawn".

What a leftover does to the start of a chain is seen in the model too, though no
run is made of it: an agent that was a leaf once is refused its own first handoff
later, though `handoff_tool.go:19` calls its depth top-level.

### 6.3 Proofs

`DelegationProofs` proves `TypeCorrect`, `DepthBounded` and `NoReentry` for any
agents, permissions, threads and limit. None of the properties is
inductive. `TypeInv` adds what a thread holds at each step, and `Solo`: a thread
that is alone is the only active one, so that no other step can touch what it
relies on (`OnlyOne`). For such a thread

- `LevelInv`: levels grow along the stack, each is at most the depth in its
  agent's tool, and a request's depth is at least its caller's level. Writing
  the target's depth keeps this even if the target is at work already: the new
  depth exceeds every level of the stack;
- `PathInv`: of the agents at work, all but the first are among the visited of
  each agent that is at or above them. A target is not in the visited of the
  request, so the write of its `visited` disturbs no agent of the stack but
  possibly the first, of which nothing is claimed.

With `depth` at most `MaxDepth` (`TypeOK`), `LevelInv` gives `ChainBounded`.
`ReturnChain` to `WriteVisitedChain` are one lemma per action. A spawn needs
none: after it two threads are active and nobody is alone.

The registration of handoffs is in `SpawnManager`. Left out: the blackboard and the
cancellation of contexts (a delegate's nested spawns end with its handoff).

## 7. Session history

### 7.1 Module

`SessionHistory` models one session of `pkg/session/manager.go` and those who
change it in `pkg/agent/loop.go`: turns (`runAgentLoop`, `runLLMIteration`),
`forceCompression`, `summarizeSession` with `maybeSummarize`, and the part of
`BuildMessages` that drops from a prompt what a provider would refuse. Sessions
share nothing but the lock, so one is enough. Each method of `SessionManager` is
one step; a turn is a sequence of them. `Save` is two steps, since the snapshot
is taken under the lock and the file replaced (atomically, by a rename) after it.

| variable | code |
|---|---|
| `hist`, `covered` | `Session.Messages`, `Session.Summary`: a message is its number, role and number of calls; a summary is the set of messages it tells of |
| `disk` | the session's file; a crash leaves it, and the next start loads it |
| `pc`, `copy`, `old` | how far a turn or the summariser is, and what `GetHistory` and `GetSummary` returned to it |
| `retry`, `todo` | retries of the call of the model; tool calls not executed yet |
| `seen`, `appended`, `gone`, `raced`, `saving`, `answered`, `mixed` | history variables of the properties |

The thresholds that start a summary depend on the length of texts and are left
open: a turn that was saved may start a summariser whenever none is at work on the
session. Whether the model answers, calls tools, complains of the context, times
out or fails is open too. `Compressed` and `Truncate` are translated literally,
`Summaries` says what the two strategies (one batch, two batches and a merge) keep
if calls fail.

### 7.2 Run

`session_history`: two turns, the summariser, one crash, five messages.

- `PromptSeesAll`: a prompt misses no message, although history and summary are read
  one after the other while a summariser moves messages between them. It holds
  because the summariser sets the summary first and readers read the history first;
  the mutant swaps the reads.
- `CallsAnswered`: wherever truncating and compressing cut, the sanitised prompt has
  every call followed by all its results.
- `Durable`: an answer whose save overlapped with no other survives a crash.
- `SummaryKeepsAll`: a summary made in one batch of a history nobody changed meanwhile
  forgets nothing.

With `KeepLast` 1, `OneBatch` 2, `CompressAbove` 2 (4, 10 and 4 in the code) five
messages are enough for a history that is compressed, truncated and summarised in
either way, a call with two results among them. Turns overlap only while fewer than
`MaxOverlap` messages were appended, to keep the state space small. No liveness is
claimed and deadlock is not checked: messages run out.

What the properties exclude is what the code does not guarantee, and the model shows it:

- with two turns at once (cron uses the chat's session when the scope merges them, from
  a goroutine of its own) a stale `forceCompression` puts back messages that a summary
  has replaced, and drops what the other turn appended: `PromptSeesAll` and
  `CallsAnswered` speak of turns that do not overlap (`mixed`);
- a message appended while a summary is made may be truncated unsummarised
  (`summarizeSession` truncates the history there is by then): `raced`;
- more than ten messages are summarised in two batches *without* the summary there
  was, which is lost; if all calls fail the summary is a blank and the history is
  truncated all the same;
- after a crash between a call and its results the file, if the summariser saved it
  meanwhile, has a call without results;
- overlapping saves may rename in either order: the file may be older than memory until
  the next save;
- a turn whose model fails returns before `Save`.

### 7.3 Proofs

`TurnProofs` proves, for any turns, messages, thresholds and crashes: `HistoryTypes`,
`PromptsMissNothing` (`PromptSeesAll`), `PromptsWellFormed` (`CallsAnswered`), `AnswersSurvive`
(`Durable`) and `SummariesLoseNothing` (`SummaryKeepsAll`). None but the types is inductive.
`HistoryInv` adds to them

- `Counts`: what a turn still has to do at each step;
- `Safe`, `Renaming`, `Answering`: an answer that was saved is in memory too, or marked as gone, and in whatever
  is about to be renamed over the file. So neither a crash (memory becomes the file)
  nor the next save (the file becomes a snapshot) loses it. A turn that is saving carries its
  answer from memory through its snapshot; saves that overlap give no claim, since
  `answered` takes only those alone in `saving`;
- `Alone`: turns that are not `mixed` exclude each other;
- `Reading`: between the two reads of a prompt, what the copy of the history lacks is in the
  summary by now, and the copy has all that is in the history. The summariser keeps this with either step: it
  extends the summary first, and truncation only removes;
- `Summarising`: if nobody raced it, the history is what the summariser read, the
  summary is what it read until it sets one, and after that the summary tells of all that `Truncate` will cut.

`Keeps`, `Stirs`, `Snaps`, `Writes` and their lemmas say what a step does to memory, file and the process
that takes it, so that each part of the invariant is shown from them and not from twenty actions.

`PromptsWellFormed` rests on `HistoryInv` and on `Complete`, which says how the history is built as long as turns
have not overlapped and no crash has cut one short (`Orderly`, the condition of `CallsAnswered`):

- `Shaped(h, due)`: after a call come its results, one for each of its tool calls and nothing else, except
  that `due` of them are still missing at the end. Nothing is said of the first message, nor of
  results that come before any call: truncation takes a beginning away, compression keeps the
  oldest message and takes away what followed it, and that is all they can break (`ShapedCut`,
  `ShapedTruncate`, `ShapedCompress`);
- `Complete`: the history is `Shaped` with what the turn at work has still to execute, and so is the
  copy that a turn has read, with nothing due.

What `Sanitised` makes of a shaped history is shown by an induction over its length. `Sanitised` is
a recursive function, so it first has to be shown to exist (`SanitisedSteps`). The library's induction
theorems cannot be used (their hypothesis is an operator), so `Steps` states induction for a
set of numbers, and is proved from the least element of its complement. `Sound` is the claim
carried along: what was kept so far is well formed, and if results of its last call are due,
these are just the ones that come next (`KeepsSound`).

### 7.4 Not modelled

Session names (`:` and `_` share a file, `manager.go:154`; names with a
`/` are never saved), messages too long to be summarised, and that
`forceCompression` takes `history[0]` for the system prompt, which is never there:
it keeps the oldest message instead.

## 8. Cron

### 8.1 Module

`CronService` models `pkg/cron/service.go`, `addJob` of `pkg/tools/cron.go`, and the
commands `cmd/aetherclaw/internal/cron`, which are processes of their own and work
on the same file. Each method is a step, under the service's lock; `checkJobs`
claims all due jobs in one step and then executes them one by one, each in a step up
to the callback and one after it. `AddJob` returns a copy that `UpdateJob` stores
later, whole, over what the job has become.

`store` is the jobs in memory, `disk` the file, `due` and `current` the round of the
loop, `held` the copies, `cli` what a command has loaded. Time is relative: a next
run is the number of ticks until then. Next runs are not in `disk`, because nobody
uses them from there. The gateway starts, stops (the loop still executes what is
due) and ends, at any moment.

### 8.2 Run

`cron_service`: a one-shot and a recurring job, one operation of the tool, one
command, one crash.

- `NoJobStuck`: a job whose next run was taken away by the claim gets one again, or
  its schedule has none left;
- `OffStaysOff`: a job switched off or removed is not executed again, not by the run it
  is in (which stores the job afterwards), nor after a restart; only what was claimed
  already runs once more;
- `AtMostOnce`: no one-shot runs twice, whatever crashes or is enabled in between;
- `DueJobsRun`: a scheduled job runs, unless it is switched off or the service stops.

One operation and one command are enough for each race of two parties over a job:
claim and removal, run and disabling, copy and removal, load and save.  Weak fairness of
the loop assumes that callbacks return: calls of models and commands have timeouts.
Deadlock is not checked as ids run out; `Tick` is always possible anyway.

Observations: a one-shot whose time passed while the gateway was down never runs and
stays listed as enabled; a crash between claim and run loses a one-shot; a one-shot
enabled again in the second it is due has no run left (`DueJobsRun` says so); a job with
a command may run once before `UpdateJob` gives it the command (`tools/cron.go`), and
`UpdateJob` enables the job again if it was disabled meanwhile; what the command line changes while the
gateway runs is overwritten within a second, as the gateway never reads the file
again. The gateway creates two services on two files (`loop.go:104` and
`gateway/helpers.go`); they share nothing, so one is modelled.

### 8.3 Proofs

`CronServiceProofs` proves, for any jobs, kinds of schedule, delays and bounds:
`TypeCorrect`, `NothingStuck` (`NoJobStuck`), `StaysOff` (`OffStaysOff`) and
`OneShotOnce` (`AtMostOnce`). None of the four is inductive, because a job lives in several
places at once: in memory, in the file, in a copy that a tool holds, in what a command has loaded.
`IInv` adds what each property needs of the others:

- `Control`: a process that is down holds nothing; memory, file and commands only know
  jobs whose id was drawn;
- `OffInv`: what was switched off is off in memory *and* in the file. It is kept because
  the operations that switch off also save, and what switches on again takes the job out of `off`;
- `OnceInv`: a one-shot that has run is not due, its time has passed, and it is in execution,
  removed, or without a next run in memory, with no copy left that would give it one.
  (The file may still show it as enabled: a start computes next runs anew, and its time
  has passed.)
- `StuckInv`: a copy without a next run that may be stored later has a schedule that
  has ended.

The `...Effect` lemmas say what a step does to a single job, so that the four parts of
the invariant need not look into the functions of jobs. `DueJobsRun` is liveness and
only model-checked.

## 9. Providers

### 9.1 Module

`ProviderFallback` models three nested loops and the state that all turns share:
the retries of `runLLMIteration`, `FallbackChain.Execute`
(`pkg/providers/fallback.go`), `AuthRotatingProvider` and `AuthRotator`
(`auth_rotation.go`), `CooldownTracker` (`cooldown.go`), and what
`error_classifier.go` makes of an error. `entry` is the cooldown of each provider and
key, `order` the keys by last use, `turn` how far each call is. Choosing a provider,
choosing a key, the call, and the two marks after it are separate steps, as they are
under separate locks. `Failed` and `Succeeded` are the tracker's two operations on an
entry. Time is minutes, relative: `age` is the time since the last failure, up to past
the window.

### 9.2 Run

`provider_fallback`: two turns; three candidates, two of them models of one provider;
two keys; back-offs of 1 and 2, of 3 for billing, a window of 3; one retry; two
failures.

- `NoHammering`: a provider that failed a turn is not called by it again within the
  minute, neither for another of its models nor by a retry of the chain, unless it
  answered someone else meanwhile;
- `KeysRotate`: no key is chosen twice while another is free all the time;
- `NeverShortened`: no failure (a step that leaves an entry with errors, the last of them
  just now) shortens a cooldown, although there are two kinds and the count may start anew. It holds since each kind has a field of its own
  (the mutant shares one) and the window is longer than any cooldown.

Candidates of one provider and of another, keys that run out, both kinds of
cooldown and their overlap occur; two failures are the least that give a second
entry of the back-off. The back-off sequences are constants: that the code's formulas
are increasing and capped is what `ConstantsAssumption` asks of them.

Observations: "all auth profiles in cooldown" is an error the classifier does not
know, so the chain gives up at once although other providers are left; the chain's
candidates are all called through the agent's one provider object, so they share its
keys; `MarkSuccess` does not reset `LastFailure`; a slow success clears the cooldown that a
later failure has set (`cooldown.go:69`), hence the exception in `NoHammering`;
`extractHTTPStatus` looks for `HTTP` in a text in lower case.

Left out: image calls (`ExecuteImage` has the same chain without cooldowns).

### 9.3 Proofs

`TurnProofs` proves, for any candidates, keys, turns and growing back-off sequences
no longer than the window: `FallbackTypes`, `SparesTheFailed` (`NoHammering`), `RoundRobin` (`KeysRotate`) and
`CooldownsStand` (`NeverShortened`). The invariant `FallbackInv` has

- `Ladder`: what is left of a cooldown and the time since the last failure add up to no
  more than the cooldown's length. So a failure within the window, whose count
  grows, gives a cooldown at least as long as the one it replaces, and one after the window, whose count starts
  anew, finds nothing left to shorten. `CooldownsStand` is this argument;
- `Burnt`: a provider that failed a turn within the minute is in cooldown, unless it was cleared by a
  success; a turn that chooses sees the cooldown, and one that has chosen calls at once;
- `InTurn`, `Passes`: the keys are always in some order, without repetition, and a key that
  has passed another one since stands behind it. Since the first available key is
  chosen, and moves to the end, none passes twice.

## 10. Agent loop and routing

### 10.1 Modules

`Routing` has no state: bindings, agents and identities are a configuration, and
`RoutedTo` and `SessionKeys` are what `ResolveRoute` and
`BuildAgentPeerSessionKey` compute. An id is a sequence of its parts between colons, so
that two keys are the same sequence exactly if the code's strings are the same.

`AgentLoop` models `Run`, `processMessage`, `ProcessDirectWithChannel` (cron),
`ProcessHeartbeat`, the inbound lane of the bus, the message tool
(`pkg/tools/message.go`) and `sessions_send`. A round may hand off to other agents, which call
their own message tools for the chat of the round, and spawn one, whose goroutine is a round of its own
that nobody answers.

| variable | code |
|---|---|
| `config` | bindings, agents, scope and links: chosen in `Init`, never changed |
| `inbound`, `arrived` | the inbound queue, and what was ever put into it |
| `round` | what `Run`, cron, heartbeat and a spawned child are processing: message, agent, chat, session, how often tools were called, whose message tool is being called |
| `tool` | each agent's message tool: chat and `sentInRound`, which rounds of all these goroutines set |
| `done`, `latest`, `disturbed` | history |

A call of the message tool is two steps, `SetContext` (which clears `sentInRound`) and
`Execute`. It sends to the chat remembered, or to one that its arguments `channel` and `chat_id` name
(`Chats`), and sets `sentInRound` either way (`message.go:71` and `97`). What Run's round has sent
is history: `told`, to the chat of the message (`here`) or another (`elsewhere`), and `last`, how the latest
call of its agent's own tool ended. `Run` is one goroutine, so its rounds do not overlap with each
other, but with those of cron and heartbeat and with spawned children.

### 10.2 Runs

- `agent_loop`: four messages, two of which arrive; a group whose id differs from a
  peer's only in kind, a person on two platforms, a command; three configurations
  (no bindings with the scopes `main` and `per-peer`; bindings of which one names a
  peer, one all accounts, one a guild and an agent that is gone, with
  `per-channel-peer`). `Answered`: for the default agent, in a round nobody disturbs,
  the response is published exactly if the last call of its message tool in *this*
  round has not sent anything; and if that call named no chat, what it has sent has gone to the chat of
  the message. `SessionsApart`: two messages share a session exactly if they are for one
  agent and of one talk, as scope and links define it, by a definition that knows
  nothing of how keys are built. `Served`: `Run` always catches up, unless it is stuck.
- `agent_reply`: `NoReplyLost`, that a response is published unless a message tool has sent
  something, anywhere, in the round, is violated (finding).

Two arriving messages are a pair, which is what `SessionsApart` needs, and a second
round after a first, which is what a flag left over needs. A capacity of one makes
`sessions_send` meet a full queue. Fairness is only that `Run` continues (calls of models and tools have
timeouts). One round of cron or heartbeat or one spawn (`MaxOthers`) is enough to disturb a round of
`Run`, and two tool calls (`MaxCalls`) let one send and another fail after it. A heartbeat goes to the
last active chat and a cron job to the one it was made in; here both are the person's first.
Deadlock is not checked: messages run out, and `Run` may get stuck.

`Run` skips the response as "the message tool already sent a response during this round"
(`loop.go:480`), and the tool is silent as "user already received the message directly"
(`message.go:98`). By `tlc -config Agent_elsewhere.cfg MCAgentLoop` `AnsweredInChat` is violated, without
any other round: the call names another chat, and the user who wrote gets neither that nor
the response.

**Finding.** `Run` asks the *default* agent's message tool whether the round has already
sent a response (`loop.go:483`). If another agent was routed to, the answer is about some earlier
round: a reply is dropped, or sent twice. A command, which is answered without resetting
the tool, is lost the same way after a round that used the tool.

Observations: rounds of cron and heartbeat and spawned children use the same tool object, and may send a
message to the wrong chat or suppress a reply; a failed call after a successful one
clears the flag, and the reply is sent twice; `sessions_send`, "fire-and-forget" by its
description, blocks `Run` for ever if the inbound queue is full (`Stuck`), as `Run` alone
empties it; `GetDefaultAgent` without an agent `main` picks at random, and
need not agree with the router's default; a binding with peer and guild matches at the guild's level for
other peers too; a peer in two identity links gets either's session, at
random; `account_id` is never set by a channel.

### 10.3 Proofs

`TurnProofs` proves `RepliesOnce` (`Answered`), for any messages, bindings, agents, chats and capacity. `AnswerInv` says
what the message tool of the agent of `Run`'s round is like (`Tells`): while the round calls it, it has the
round's chat and has sent nothing, so that a call which names no chat reaches the round's; otherwise
`sentInRound` is set exactly if the last call of this round has sent something. Calls of other agents' tools, after a
handoff, leave it alone. This holds while the round is not `disturbed`, by cron,
heartbeat or a spawned child that uses the same tool. A round without
an agent yet has the agent `""`, which no configuration lists, as `NormalizeAgentID`
(`pkg/routing/agent_id.go:25`) never returns it.

`SessionsKeptApart` (`SessionsApart`) holds for any messages, bindings, scopes and links under two
hypotheses, which are stated in `ReplyPromise` and which nothing in the code sees to:

- `Unambiguous`, of every configuration, unless all direct messages share a session: a peer is
  in at most one identity link, no two names of links are the same in lower case, and no
  name is the id of a peer in no link. Without it the claim is false: a peer in two
  links gets either's session (10.2), and a link called like someone's id shares that one's.
- `Named`, of the messages that have a session: the channel names the peer, no channel is
  called `direct`, and no account like a kind of peer. With an account `group`, say, a direct
  message under the scope `per-account-channel-peer` may have the key of a group's.

TLC evaluates both on what the run configures (`SessionsAssumption`), so it is one of the
theorem's cases. The invariant `Sessions` says that the session of `Run`'s round, and of every message
it is done with, is among the `SessionKeys` of that message and its agent. The rest is about
keys (`KeysApart`): two direct messages, or two to groups, have keys of a scope's fixed length before
the id, so that equal keys have equal parts and equal ids (`Prefixed`); a direct message and one to a
group differ in the third or the fourth part. `Served` is liveness and only model-checked.

## 11. Tool calls

`ToolCalls` models `ToolRegistry.ExecuteWithContext` with the two hooks each agent has:
the loop detector (`loop_detector.go`), all four engines of it, and the autonomy hook.
`history` is the detector's window, `running` the calls under way. All turns and
agents share one window, as nothing gives the detector the key of a session. A call is
recorded before it runs and its result filed later, so calls of two turns interleave.

`tool_calls`: two turns, one call whose result varies and one that is refused;
thresholds of 2, 4, 6 and a window of 6, which have the defaults' proportions (10, 20,
30, 30).

- `RepeatsLimited`: of the calls in the window at most `CriticalThreshold` equal ones were
  let through, however many turns make them and whatever they return;
- `ResultsFiled`: a record without a result stands for a call that still runs, as many of
  them as turns are running it. Equal calls may overlap, and `AfterExecute` files a result with the most recent
  record that has none, which may be another turn's; records fall out of the window meanwhile. A record
  left without a result would count as a call without progress for as long as it is in the window.

`detect` "returns the highest-severity verdict" by its comment (`loop_detector.go:189`). It returns
the first: `tlc -config Tool_verdict.cfg MCToolCalls` shows `VerdictIsHighest` violated by two calls
in alternation without progress, whose repetitions make a warning before the ping-pong engine is asked,
which would block.

The window of six can hold a streak that reaches the breaker, one past the critical
threshold, and an alternation that reaches it; with two turns two equal calls overlap, the second
may end first, and the first record may be trimmed before its call ends. The type invariant is in
the proofs.

Observations: a blocked call is recorded too, so a call that is repeated stays blocked; the
message tool's `SetContext` runs before the hooks, so a blocked call resets `sentInRound`;
`ToolRegistry.Clone` copies no hooks, so an agent that gets a clone by a handoff at the
depth limit (`handoff.go:182`) runs without loop detection and autonomy; the autonomy
hook's approver is always nil (`loop.go:389`), so that what needs approval is refused.

`ToolCallsProofs` proves, for any turns, calls, results and window:

- `RepetitionsEnd`: `RepeatsLimited`, whatever the thresholds. The invariant is the
  property with the type of the window (`TypeOK`): a call that is let through
  was in the window less often than the threshold (`DetectVerdict`), a trimmed window
  is a part of a window (`PartLimited`, by an injection of positions), and filing a
  result changes neither calls nor verdicts;
- `AllFiled`: `ResultsFiled`. The property and the types are the invariant: a call adds a record and a turn that
  runs it, trimming only takes records away (`ShiftedCount`), and a turn that ends fills an open record of its
  call if there is one;
- `RepeatsDecide`: what the order of the engines amounts to, against the comment above
  (`OnlyRepeatsBlock`): the number of repetitions alone decides what is blocked, and breaker and ping-pong
  engine block nothing that repetition would not, for all thresholds of which the critical one is at least
  twice that of warnings and at most that of the breaker. It follows from the type
  invariant alone: a streak without progress consists of repetitions
  (`NoProgressRepeats`), and an alternation of length `2 * w` holds `w` of them
  (`PingPongRepeats`). The defaults satisfy it; other configured values need not.

## 12. Channel adapters

### 12.1 Modules

| module | code | state |
|---|---|---|
| `OneBot` | `onebot/onebot.go`: `Start`, `reconnectLoop`, `listen`, `sendAPIRequest`, `Stop` | the sockets and which of them `c.conn` is; listeners; the process that dials (`boss`: `Start`, then the loop); requests that wait, `pending` and their channels |
| `WhatsAppNative` | `whatsapp_native/whatsapp_native.go`: `Start`, `eventHandler`, `reconnectWithBackoff`, `Stop` | the link, `runCtx`, `stopping`, `reconnecting`, the WaitGroup and the goroutines it counts, events under way |
| `Pico` | `pico/pico.go`: `handleWebSocket`, `readLoop`, `Stop` | where each client's handler or loop is, `connections`, `connCount`, who has hung up or was closed |
| `Intake` | `isDuplicate` of OneBot and QQ; `handleMessageCallback` and `processMessage` of WeCom (app and bot have the same code) | the ids seen, OneBot's ring, WeCom's callbacks and the contexts of their requests |

A step ends where the code releases a lock, blocks, or calls the network. The libraries
(websocket, WhatsApp client, QQ) are external: a dial succeeds or fails, a link breaks at
most `MaxBreaks` or `MaxDrops` times, a break raises its event at any later time. The
WhatsApp library's own reconnecting is not modelled; with it, `Connect` of the adapter's
loop fails for as long as the library is connected.

`Adapters` puts the four side by side. They share nothing and would only multiply each
other's states, so `subject`, chosen in `Init`, says which one runs; the properties are about
that one.

### 12.2 Run

`adapters`: three sockets, one request beside the login request, two breaks each; three clients for two
slots; four messages, two callbacks, two ids remembered, five taken for new.

- `ComesBack`: a lost connection is replaced unless the adapter is stopped. OneBot's loop
  itself waits for the answer to a request, which its listener, gone again perhaps,
  would bring; the mutant takes the timeout away. WhatsApp's loop is started by events only.
- `StopCloses`: `Stop` ends, and leaves nothing open but what a dial under way brings later.
- `WaitIsSafe`: the claim of the comments in `Stop` and `eventHandler`, that no `wg.Add`
  meets `wg.Wait`.
- `SlotsComeBack`: whoever closes a connection first, the slot is given back once.
- `NotTwice`: a message is not handled again before the adapter may have forgotten it: OneBot
  after `Limit` others, the others when more than `Limit` messages came.

Three sockets are one more than two breaks need; a request may hold an old one while a new
one is up. Three clients are one more than there are slots. With five messages for a memory of two
a map overflows twice and the ring goes round twice.

Fairness: goroutines that can run do, requests have their timeout, a handler that has begun
goes on, Pico's pings end with its context so that a silent client meets its deadline. A
server that is dialled again and again answers at last (strong fairness of `Reached`): without it
nothing could come back. Nobody need stop an adapter, and the wait of WhatsApp's `Stop` need not
time out. Deadlock is not checked: a stopped adapter rests.

`tlc -config Adapters_latest.cfg MCAdapters` shows `KeepsLatest` violated: "keep last 1000"
(`wecom/app.go:602`) drops *all* ids when there are more, the one just recorded included,
so that a message may be handled twice in a row.

Observations:

- WeCom's handlers give `r.Context()` to a goroutine and return; the server then cancels it, and
  `PublishInbound` may refuse a message that was acknowledged. Its id is recorded by
  then, so that a redelivery does not help (`Respond`, `Publish`);
- a WhatsApp `Disconnected` event between the success of `Connect` and the reset of `reconnecting` is
  ignored: the link stays down (`missed`, the exception in `ComesBack`);
- a dial of OneBot or a `Connect` of WhatsApp that `Stop` overtakes leaves a connection open (`late`);
- Pico checks `MaxConnections` before the handshake and counts after it, so that clients that
  come at the same time exceed it; a connection stored after `Stop`'s `Range` is closed
  only when its loop sees the context;
- OneBot's `Send` does not register its echo, so that a reply the server rejects counts as sent.

### 12.3 Proofs

`AdaptersProofs` proves for any connections, clients, messages and limits
(`SizesAssumption`):

- `TypeCorrect`: `TypeOK`, of all four modules. For WhatsApp this is more than a shape: `wg` is
  the number of goroutines. `Goroutines` adds that each Disconnected event is
  in `events`, at work as a loop, or leaving, which bounds them by `MaxDrops`, and `Connecting` that
  `reconnecting` is set exactly while a loop runs, so that there are never two;
- `WaitSafe`: `WaitIsSafe`. The invariant is that once `Stop` has begun `stopping` is set and no
  `Start` is at work that would reset it;
- `SlotsFree`: `SlotsComeBack`. `connCount` is the number of clients between being counted and
  leaving (`PInv`), by the theorems on finite sets;
- `TakenOnce`: `NotTwice`. For OneBot the ring holds each of the last `Limit` messages in the place that its
  age tells (`RingInv`), and no id twice, or else dropping the oldest would forget
  a newer one. For the others nothing is forgotten while no more than `Limit` messages came, because a map has
  no more ids than that (`MapInv`); a WeCom callback that found the map full implies
  that more have come.

`ComesBack` and `StopCloses` are liveness and only model-checked.

## 13. Not modelled

- The other adapters, and of those in section 12 sending, media, access tokens and the parsing
  of messages; the WhatsApp bridge (which never reconnects); provider APIs, file, shell, web
  and device tools, MCP, configuration, migration, authentication and the user
  interfaces: input, output and formats. They are most of the code; their state is a
  connection, a parser or a form.
- Heartbeat and last-channel state (`pkg/heartbeat`, `pkg/state`): the heartbeat's round is
  in `AgentLoop`. Reading shows that three `state.Manager`s load `state.json` once each, so that heartbeats
  and device notices go to the last channel as of the start (`heartbeat/service.go:29`).
- Media store (`pkg/media`), blackboard, pairing, skills registry and cache, usage
  tracker, memory store: maps under one lock, or files replaced atomically, whose
  operations are one step each; there is little for interleavings to break.
- Approval (`pkg/tools/approval.go`): never connected (the approver is nil).
- `RegisterChannel`, `UnregisterChannel`, `SendToChannel`, `CascadeStop`,
  `CheckWithResult`, `Cleanup`: no callers outside tests.
- After the agent loop's bus has been closed without a cancelled context it would spin
  (`pkg/agent/loop.go:453`); the gateway always cancels first.
- The length of texts: when a summary starts, how a long reply is split, what is too
  long for a context are left open where they matter.
