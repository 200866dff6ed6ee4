---------------------------- MODULE OutboundPath ----------------------------
(***************************************************************************)
(* The outbound path of the gateway: the bus that replies are published on *)
(* (pkg/bus/bus.go), the two dispatchers that take them off it, the worker *)
(* of each started channel with its queue, splitting and retries           *)
(* (pkg/channels/manager.go), and the gateway's shutdown sequence          *)
(* (cmd/aetherclaw/internal/gateway/helpers.go).  Text and media travel in *)
(* separate lanes with the same structure.                                 *)
(*                                                                         *)
(* Every goroutine is a process: a publisher p, a dispatcher per lane, a   *)
(* worker per lane and channel, and the gateway's main goroutine, whose    *)
(* program counter `main' tells how far the start and the shutdown have    *)
(* got.  A reply is what the properties need of it: the order in which the *)
(* bus accepted it, its lane, its channel and the number of chunks that    *)
(* SplitMessage makes of it.                                               *)
(***************************************************************************)
EXTENDS Naturals, Sequences, FiniteSets

CONSTANTS Publishers, \* goroutines that publish replies
          Attached,   \* those that publish under the gateway's context
          Channels,   \* configured channels
          MediaSenders, \* those that implement the MediaSender capability
          Internal,   \* internal channel names ("cli", "system", "subagent")
          Strangers,  \* names that no channel was created for
          BusCap,     \* defaultBusBufferSize
          QueueCap,   \* defaultChannelQueueSize
          MaxRetries, \* maxRetries
          MaxParts,   \* bound: chunks of one reply
          MaxMsgs     \* bound: replies published in a behaviour

Lanes   == {"text", "media"}
Targets == Channels \cup Internal \cup Strangers
Workers == Lanes \X Channels
Message == [id: 1..MaxMsgs, lane: Lanes, chan: Targets, parts: 1..MaxParts]
Request == [lane: Lanes, chan: Targets, parts: 1..MaxParts]
NoMsg   == [id |-> 0]

ASSUME ConstantsAssumption ==
    /\ Attached \subseteq Publishers
    /\ Channels # {}
    /\ MediaSenders \subseteq Channels
    /\ Channels \cap (Internal \cup Strangers) = {}
    /\ Internal \cap Strangers = {}
    /\ IsFiniteSet(Publishers)
    /\ BusCap \in Nat \ {0}
    /\ QueueCap \in Nat \ {0}
    /\ MaxRetries \in Nat
    /\ MaxParts \in Nat \ {0}
    /\ MaxMsgs \in Nat \ {0}

VARIABLES
    main,    \* how far the gateway's main goroutine has got
    served,  \* channels whose Start succeeded: those that have workers
    next,    \* number of the next reply the bus accepts
    pub,     \* pub[p]: the request p waits to put on the bus, or NoMsg
    busq,    \* busq[l]: MessageBus.outbound and MessageBus.outboundMedia
    dpc,     \* dpc[l]: control of the lane's dispatcher
    dmsg,    \* dmsg[l]: the reply it holds, or NoMsg
    queue,   \* queue[w]: channelWorker.queue and channelWorker.mediaQueue
    wpc,     \* wpc[w]: control of the worker
    wmsg,    \* wmsg[w]: the reply it is sending, or NoMsg
    part,    \* part[w]: the chunk of it
    attempt, \* attempt[w]: the attempt of sendWithRetry's loop
    tried    \* history: the last hand-over of the worker to its platform

busVars  == <<next, pub, busq>>
dispVars == <<dpc, dmsg>>
workVars == <<wpc, wmsg, part, attempt, tried>>
vars == <<main, served, busVars, dispVars, queue, workVars>>

-----------------------------------------------------------------------------
(* How far the shutdown has got: helpers.go runs cancel(), bus.Close() and *)
(* StopAll() in this order.                                                *)

Phases == {"boot", "up", "cancelled", "flagged", "drainText", "drainMedia",
           "drained", "textClosed", "mediaClosed", "stopped", "exited", "crashed"}

Running    == main \notin {"exited", "crashed"}
CtxDone    == main \notin {"boot", "up"}
BusClosed  == main \notin {"boot", "up", "cancelled"}
BusDone    == BusClosed /\ main # "flagged"
StopAllHoldsLock == main \in {"textClosed", "mediaClosed"}
QueueClosed(l) == \/ main \in {"mediaClosed", "stopped"}
                  \/ l = "text" /\ main = "textClosed"

Init == /\ main = "boot"
        /\ served = {}
        /\ next = 1
        /\ pub = [p \in Publishers |-> NoMsg]
        /\ busq = [l \in Lanes |-> <<>>]
        /\ dpc = [l \in Lanes |-> "off"]
        /\ dmsg = [l \in Lanes |-> NoMsg]
        /\ queue = [w \in Workers |-> <<>>]
        /\ wpc = [w \in Workers |-> "off"]
        /\ wmsg = [w \in Workers |-> NoMsg]
        /\ part = [w \in Workers |-> 0]
        /\ attempt = [w \in Workers |-> 0]
        /\ tried = [w \in Workers |-> [id |-> 0, part |-> 0, n |-> 0]]

-----------------------------------------------------------------------------
(* Publishing: PublishOutbound and PublishOutboundMedia.                   *)

\* The two early returns do not change anything.
PublishCheck(p, l, c, k) ==
    /\ pub[p] = NoMsg
    /\ ~BusClosed
    /\ p \in Attached => ~CtxDone
    /\ next + Cardinality({q \in Publishers : pub[q] # NoMsg}) <= MaxMsgs
    /\ l = "media" => k = 1
    /\ pub' = [pub EXCEPT ![p] = [lane |-> l, chan |-> c, parts |-> k]]
    /\ UNCHANGED <<main, served, next, busq, dispVars, queue, workVars>>

PublishAccept(p) ==
    /\ pub[p] # NoMsg
    /\ Len(busq[pub[p].lane]) < BusCap
    /\ busq' = [busq EXCEPT ![pub[p].lane] =
                  Append(@, [id |-> next, lane |-> pub[p].lane,
                             chan |-> pub[p].chan, parts |-> pub[p].parts])]
    /\ next' = next + 1
    /\ pub' = [pub EXCEPT ![p] = NoMsg]
    /\ UNCHANGED <<main, served, dispVars, queue, workVars>>

\* ErrBusClosed, or the publisher's context: cancelled with the gateway's, or,
\* for those that bring their own, timed out on a full bus.
PublishRefused(p) ==
    /\ pub[p] # NoMsg
    /\ \/ BusDone
       \/ p \in Attached /\ CtxDone
       \/ p \notin Attached /\ Len(busq[pub[p].lane]) = BusCap
    /\ pub' = [pub EXCEPT ![p] = NoMsg]
    /\ UNCHANGED <<main, served, next, busq, dispVars, queue, workVars>>

-----------------------------------------------------------------------------
(* Dispatching: dispatchOutbound and dispatchOutboundMedia.                *)

Take(l) ==
    /\ dpc[l] = "subscribe"
    /\ busq[l] # <<>>
    /\ busq' = [busq EXCEPT ![l] = Tail(@)]
    /\ IF Head(busq[l]).chan \in Internal
       THEN UNCHANGED dispVars
       ELSE /\ dpc' = [dpc EXCEPT ![l] = "lookup"]
            /\ dmsg' = [dmsg EXCEPT ![l] = Head(busq[l])]
    /\ UNCHANGED <<main, served, next, pub, queue, workVars>>

\* SubscribeOutbound gives up: the bus is done or the context cancelled.
SubscribeEnds(l) ==
    /\ dpc[l] = "subscribe"
    /\ BusDone \/ CtxDone
    /\ dpc' = [dpc EXCEPT ![l] = "stopped"]
    /\ UNCHANGED <<main, served, busVars, dmsg, queue, workVars>>

\* Mutant of Lookup: the dispatcher returns on an unknown channel.
LookupGivesUp(l) ==
    /\ dpc[l] = "lookup"
    /\ ~StopAllHoldsLock
    /\ IF dmsg[l].chan \in Channels /\ dmsg[l].chan \in served
       THEN dpc' = [dpc EXCEPT ![l] = "enqueue"] /\ UNCHANGED dmsg
       ELSE dpc' = [dpc EXCEPT ![l] = "stopped"] /\ dmsg' = [dmsg EXCEPT ![l] = NoMsg]
    /\ UNCHANGED <<main, served, busVars, queue, workVars>>

\* The maps are read under m.mu, which StopAll keeps until it returns.
Lookup(l) ==
    /\ dpc[l] = "lookup"
    /\ ~StopAllHoldsLock
    /\ IF dmsg[l].chan \in Channels /\ dmsg[l].chan \in served
       THEN dpc' = [dpc EXCEPT ![l] = "enqueue"] /\ UNCHANGED dmsg
       ELSE dpc' = [dpc EXCEPT ![l] = "subscribe"] /\ dmsg' = [dmsg EXCEPT ![l] = NoMsg]
    /\ UNCHANGED <<main, served, busVars, queue, workVars>>

Enqueue(l) ==
    LET w == <<l, dmsg[l].chan>> IN
    /\ dpc[l] = "enqueue"
    /\ ~QueueClosed(l)
    /\ Len(queue[w]) < QueueCap
    /\ queue' = [queue EXCEPT ![w] = Append(@, dmsg[l])]
    /\ dpc' = [dpc EXCEPT ![l] = "subscribe"]
    /\ dmsg' = [dmsg EXCEPT ![l] = NoMsg]
    /\ UNCHANGED <<main, served, busVars, workVars>>

EnqueueCancelled(l) ==
    /\ dpc[l] = "enqueue"
    /\ CtxDone
    /\ dpc' = [dpc EXCEPT ![l] = "stopped"]
    /\ dmsg' = [dmsg EXCEPT ![l] = NoMsg]
    /\ UNCHANGED <<main, served, busVars, queue, workVars>>

\* A select whose send case is on a closed channel may pick it: the runtime
\* panics and the process dies.
EnqueuePanics(l) ==
    /\ dpc[l] = "enqueue"
    /\ QueueClosed(l)
    /\ main' = "crashed"
    /\ UNCHANGED <<served, busVars, dispVars, queue, workVars>>

-----------------------------------------------------------------------------
(* The workers: runWorker with sendWithRetry, runMediaWorker with          *)
(* sendMediaWithRetry.                                                     *)

\* Mutant of NextChunk: the chunk was the last, whatever follows it.
NextChunkAbandonsRest(w) ==
    /\ wpc' = [wpc EXCEPT ![w] = "recv"]
    /\ part' = [part EXCEPT ![w] = 0]
    /\ attempt' = [attempt EXCEPT ![w] = 0]
    /\ wmsg' = [wmsg EXCEPT ![w] = NoMsg]

\* The worker is through with the current chunk: on to the next chunk of the
\* reply, each a sendWithRetry of its own whatever became of the one before,
\* or back to the queue.
NextChunk(w) ==
    IF part[w] < wmsg[w].parts
    THEN /\ wpc' = [wpc EXCEPT ![w] = "limit"]
         /\ part' = [part EXCEPT ![w] = @ + 1]
         /\ attempt' = [attempt EXCEPT ![w] = 0]
         /\ UNCHANGED wmsg
    ELSE /\ wpc' = [wpc EXCEPT ![w] = "recv"]
         /\ part' = [part EXCEPT ![w] = 0]
         /\ attempt' = [attempt EXCEPT ![w] = 0]
         /\ wmsg' = [wmsg EXCEPT ![w] = NoMsg]

\* The chunk is handed to the platform, by Send, SendMedia or EditMessage.
HandedOver(w) ==
    tried' = [tried EXCEPT ![w] =
        [id   |-> wmsg[w].id,
         part |-> part[w],
         n    |-> IF @.id = wmsg[w].id /\ @.part = part[w] THEN @.n + 1 ELSE 1]]

Receive(w) ==
    /\ wpc[w] = "recv"
    /\ queue[w] # <<>>
    /\ queue' = [queue EXCEPT ![w] = Tail(@)]
    /\ IF w[1] = "media" /\ w[2] \notin MediaSenders
       THEN UNCHANGED workVars
       ELSE /\ wpc' = [wpc EXCEPT ![w] = "limit"]
            /\ wmsg' = [wmsg EXCEPT ![w] = Head(queue[w])]
            /\ part' = [part EXCEPT ![w] = 1]
            /\ attempt' = [attempt EXCEPT ![w] = 0]
            /\ UNCHANGED tried
    /\ UNCHANGED <<main, served, busVars, dispVars>>

\* With the context cancelled the select may leave although replies are queued.
WorkerExits(w) ==
    /\ wpc[w] = "recv"
    /\ CtxDone \/ (QueueClosed(w[1]) /\ queue[w] = <<>>)
    /\ wpc' = [wpc EXCEPT ![w] = "exited"]
    /\ UNCHANGED <<main, served, busVars, dispVars, queue, wmsg, part, attempt, tried>>

\* limiter.Wait: a token, or an error once the context is cancelled.
LimiterWait(w) ==
    /\ wpc[w] = "limit"
    /\ IF CtxDone
       THEN NextChunk(w)
       ELSE /\ wpc' = [wpc EXCEPT ![w] = IF w[1] = "text" THEN "presend" ELSE "send"]
            /\ UNCHANGED <<wmsg, part, attempt>>
    /\ UNCHANGED <<main, served, busVars, dispVars, queue, tried>>

\* preSend, as far as this path is concerned: no placeholder to edit, ...
NoPlaceholder(w) ==
    /\ wpc[w] = "presend"
    /\ wpc' = [wpc EXCEPT ![w] = "send"]
    /\ UNCHANGED <<main, served, busVars, dispVars, queue, wmsg, part, attempt, tried>>

\* ... the placeholder edited into the reply, or the edit failed.
EditPlaceholder(w) ==
    /\ wpc[w] = "presend"
    /\ HandedOver(w)
    /\ \/ NextChunk(w)
       \/ wpc' = [wpc EXCEPT ![w] = "send"] /\ UNCHANGED <<wmsg, part, attempt>>
    /\ UNCHANGED <<main, served, busVars, dispVars, queue>>

\* Mutants of Send: one retry too many, and a retry by way of the queue.
SendOnceMore(w) ==
    /\ wpc[w] = "send"
    /\ HandedOver(w)
    /\ \/ NextChunk(w)
       \/ /\ attempt[w] <= MaxRetries
          /\ wpc' = [wpc EXCEPT ![w] = "wait"]
          /\ UNCHANGED <<wmsg, part, attempt>>
    /\ UNCHANGED <<main, served, busVars, dispVars, queue>>
SendRequeues(w) ==
    /\ wpc[w] = "send"
    /\ HandedOver(w)
    /\ \/ NextChunk(w) /\ UNCHANGED queue
       \/ /\ Len(queue[w]) < QueueCap
          /\ queue' = [queue EXCEPT ![w] = Append(@, wmsg[w])]
          /\ NextChunkAbandonsRest(w)
    /\ UNCHANGED <<main, served, busVars, dispVars>>

\* One attempt: it succeeds or fails for good, and the chunk is over; or it
\* fails for now, and the chunk is over only if the attempt was the last.
Send(w) ==
    /\ wpc[w] = "send"
    /\ HandedOver(w)
    /\ \/ NextChunk(w)
       \/ /\ attempt[w] < MaxRetries
          /\ wpc' = [wpc EXCEPT ![w] = "wait"]
          /\ UNCHANGED <<wmsg, part, attempt>>
    /\ UNCHANGED <<main, served, busVars, dispVars, queue>>

RetryAfterDelay(w) ==
    /\ wpc[w] = "wait"
    /\ wpc' = [wpc EXCEPT ![w] = "send"]
    /\ attempt' = [attempt EXCEPT ![w] = @ + 1]
    /\ UNCHANGED <<main, served, busVars, dispVars, queue, wmsg, part, tried>>

RetryCancelled(w) ==
    /\ wpc[w] = "wait"
    /\ CtxDone
    /\ NextChunk(w)
    /\ UNCHANGED <<main, served, busVars, dispVars, queue, tried>>

-----------------------------------------------------------------------------
(* The gateway's main goroutine.                                           *)

\* Mutant of StartAll: no dispatcher for media.
StartAllTextOnly ==
    /\ main = "boot"
    /\ main' = "up"
    /\ served' \in SUBSET Channels
    /\ dpc' = [l \in Lanes |-> IF l = "text" THEN "subscribe" ELSE "off"]
    /\ wpc' = [w \in Workers |-> IF w[2] \in served' THEN "recv" ELSE "off"]
    /\ UNCHANGED <<busVars, dmsg, queue, wmsg, part, attempt, tried>>

\* A channel whose Start fails gets no worker.
StartAll ==
    /\ main = "boot"
    /\ main' = "up"
    /\ served' \in SUBSET Channels
    /\ dpc' = [l \in Lanes |-> "subscribe"]
    /\ wpc' = [w \in Workers |-> IF w[2] \in served' THEN "recv" ELSE "off"]
    /\ UNCHANGED <<busVars, dmsg, queue, wmsg, part, attempt, tried>>

CancelContext ==
    /\ main = "up"
    /\ main' = "cancelled"
    /\ UNCHANGED <<served, busVars, dispVars, queue, workVars>>

\* MessageBus.Close: closed.CompareAndSwap, close(done), then each channel is
\* emptied until a receive would block.
CloseSetsFlag ==
    /\ main = "cancelled"
    /\ main' = "flagged"
    /\ UNCHANGED <<served, busVars, dispVars, queue, workVars>>

CloseDone ==
    /\ main = "flagged"
    /\ main' = "drainText"
    /\ UNCHANGED <<served, busVars, dispVars, queue, workVars>>

Drain(l, here, then) ==
    /\ main = here
    /\ IF busq[l] # <<>>
       THEN busq' = [busq EXCEPT ![l] = Tail(@)] /\ UNCHANGED main
       ELSE main' = then /\ UNCHANGED busq
    /\ UNCHANGED <<served, next, pub, dispVars, queue, workVars>>

CloseDrains == \/ Drain("text", "drainText", "drainMedia")
               \/ Drain("media", "drainMedia", "drained")

\* StopAll: the text queues closed and their workers awaited, then the media
\* queues and theirs, then the channels stopped.
StopAllClosesText ==
    /\ main = "drained"
    /\ main' = "textClosed"
    /\ UNCHANGED <<served, busVars, dispVars, queue, workVars>>

\* Mutants of WorkersExited: StopAll waits for the channels that never started
\* too, and does not wait for the text workers.
AllWorkersExited(l)   == \A c \in Channels : wpc[<<l, c>>] = "exited"
MediaWorkersExited(l) == \A c \in served : l = "media" => wpc[<<l, c>>] = "exited"

WorkersExited(l) == \A c \in served : wpc[<<l, c>>] = "exited"

StopAllClosesMedia ==
    /\ main = "textClosed"
    /\ WorkersExited("text")
    /\ main' = "mediaClosed"
    /\ UNCHANGED <<served, busVars, dispVars, queue, workVars>>

StopAllStopsChannels ==
    /\ main = "mediaClosed"
    /\ WorkersExited("media")
    /\ main' = "stopped"
    /\ UNCHANGED <<served, busVars, dispVars, queue, workVars>>

ProcessExits ==
    /\ main = "stopped"
    /\ main' = "exited"
    /\ UNCHANGED <<served, busVars, dispVars, queue, workVars>>

-----------------------------------------------------------------------------
Publisher(p)  == \/ \E l \in Lanes, c \in Targets, k \in 1..MaxParts : PublishCheck(p, l, c, k)
                 \/ PublishAccept(p)
                 \/ PublishRefused(p)
Dispatcher(l) == \/ Take(l)
                 \/ SubscribeEnds(l)
                 \/ Lookup(l)
                 \/ Enqueue(l)
                 \/ EnqueueCancelled(l)
                 \/ EnqueuePanics(l)
Worker(w)     == \/ Receive(w)
                 \/ WorkerExits(w)
                 \/ LimiterWait(w)
                 \/ NoPlaceholder(w)
                 \/ EditPlaceholder(w)
                 \/ Send(w)
                 \/ RetryAfterDelay(w)
                 \/ RetryCancelled(w)
Shutdown      == \/ CloseSetsFlag
                 \/ CloseDone
                 \/ CloseDrains
                 \/ StopAllClosesText
                 \/ StopAllClosesMedia
                 \/ StopAllStopsChannels
                 \/ ProcessExits

\* The process is gone.
Gone == ~Running /\ UNCHANGED vars

Next == \/ /\ Running
           /\ \/ \E p \in Publishers : Publisher(p)
              \/ \E l \in Lanes : Dispatcher(l)
              \/ \E w \in Workers : Worker(w)
              \/ StartAll
              \/ CancelContext
              \/ Shutdown
        \/ Gone

Spec == Init /\ [][Next]_vars

\* Runnable goroutines are scheduled, a Send returns, a delay elapses, and a
\* publisher's own timeout elapses.  Nobody has to publish, and nobody has to
\* interrupt the gateway.
Fairness == /\ WF_vars(Running /\ StartAll)
            /\ WF_vars(Running /\ Shutdown)
            /\ \A p \in Publishers : WF_vars(Running /\ (PublishAccept(p) \/ PublishRefused(p)))
            /\ \A l \in Lanes : WF_vars(Running /\ Dispatcher(l))
            /\ \A w \in Workers : WF_vars(Running /\ Worker(w))
FairSpec == Spec /\ Fairness

-----------------------------------------------------------------------------
(* Properties.                                                             *)

TypeOK ==
    /\ main \in Phases
    /\ served \in SUBSET Channels
    /\ next \in 1..MaxMsgs + 1
    /\ pub \in [Publishers -> Request \cup {NoMsg}]
    /\ busq \in [Lanes -> Seq(Message)]
    /\ dpc \in [Lanes -> {"off", "subscribe", "lookup", "enqueue", "stopped"}]
    /\ dmsg \in [Lanes -> Message \cup {NoMsg}]
    /\ queue \in [Workers -> Seq(Message)]
    /\ wpc \in [Workers -> {"off", "recv", "limit", "presend", "send", "wait", "exited"}]
    /\ wmsg \in [Workers -> Message \cup {NoMsg}]
    /\ part \in [Workers -> 0..MaxParts]
    /\ attempt \in [Workers -> 0..MaxRetries]
    /\ tried \in [Workers -> [id: 0..MaxMsgs, part: 0..MaxParts, n: Nat]]
    /\ \A l \in Lanes : Len(busq[l]) <= BusCap
    /\ \A w \in Workers : Len(queue[w]) <= QueueCap

Increasing(s) == \A i, j \in DOMAIN s : i < j => s[i].id < s[j].id

\* The bus holds replies in the order it accepted them, all of them younger
\* than the one its dispatcher took last.
BusOrder(l) ==
    /\ Increasing(busq[l])
    /\ dmsg[l].id < next
    /\ \A i \in DOMAIN busq[l] : dmsg[l].id < busq[l][i].id /\ busq[l][i].id < next

\* What the platform was given last is not younger than what the worker holds,
\* that is older than everything in its queue, and so on to the bus.
RouteOrder(w) ==
    /\ Increasing(queue[w])
    /\ tried[w].id < next /\ wmsg[w].id < next
    /\ wmsg[w] # NoMsg => tried[w].id <= wmsg[w].id
    /\ \A i \in DOMAIN queue[w] :
          /\ wmsg[w].id < queue[w][i].id
          /\ tried[w].id < queue[w][i].id
          /\ queue[w][i].id < next
    /\ dmsg[w[1]] # NoMsg =>
          /\ wmsg[w].id < dmsg[w[1]].id
          /\ tried[w].id < dmsg[w[1]].id
          /\ \A i \in DOMAIN queue[w] : queue[w][i].id < dmsg[w[1]].id
    /\ \A j \in DOMAIN busq[w[1]] :
          /\ wmsg[w].id < busq[w[1]][j].id
          /\ tried[w].id < busq[w[1]][j].id
          /\ \A i \in DOMAIN queue[w] : queue[w][i].id < busq[w[1]][j].id

\* A reply never overtakes an earlier one of its lane and channel on the way
\* from the bus to the platform.
PipelineOrder == /\ \A l \in Lanes : BusOrder(l)
                 /\ \A w \in Workers : RouteOrder(w)

\* The replies held somewhere between Publish and the end of sendWithRetry.
Entries(q) == {q[i] : i \in DOMAIN q}
Held == (UNION ({Entries(busq[l]) \cup {dmsg[l]} : l \in Lanes}
                \cup {Entries(queue[w]) \cup {wmsg[w]} : w \in Workers})) \ {NoMsg}

\* The routes with a worker that sends what it receives.
ServedRoutes == {w \in Workers : w[2] \in served /\ (w[1] = "media" => w[2] \in MediaSenders)}

Promise == INSTANCE Delivery
           WITH MaxTries <- MaxRetries + 2,
                pending  <- Held,
                tried    <- [r \in Lanes \X Targets |->
                               IF r \in Workers THEN tried[r] ELSE [id |-> 0, part |-> 0, n |-> 0]],
                served   <- ServedRoutes,
                down     <- CtxDone

\* The path keeps the promise of module Delivery: per route oldest first, part
\* by part, a bounded number of tries, nothing let go untried, nothing lost
\* before the shutdown.
ImplementsDelivery == Promise!Spec

\* Channel.Stop is only called when no worker can be inside Send of the
\* channel, or call it later: StopAll has waited for all of them.
NoSendAfterStop ==
    main \in {"stopped", "exited"} => \A w \in Workers : wpc[w] \in {"off", "exited"}

\* Unless the gateway shuts down first, a reply the bus accepted does not stay
\* on its way for ever: full queues, unknown or unstarted channels and failing
\* sends only delay it.
RepliesSettle ==
    \A n \in 1..MaxMsgs :
       (\E m \in Held : m.id = n) ~> (CtxDone \/ ~\E m \in Held : m.id = n)

\* The shutdown gets to its end, unless the process dies on the way: StopAll
\* waits for workers, and dispatchers wait for the lock it holds.
ShutdownCompletes == (main = "cancelled") ~> ~Running

\* No publisher is blocked for ever, whatever the bus, the dispatchers and the
\* shutdown do.
PublishReturns == \A p \in Publishers : (pub[p] # NoMsg) ~> (pub[p] = NoMsg \/ ~Running)
=============================================================================
