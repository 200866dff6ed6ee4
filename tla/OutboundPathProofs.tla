------------------------- MODULE OutboundPathProofs -------------------------
(***************************************************************************)
(* Proofs about OutboundPath, for any number of publishers, channels and   *)
(* replies and any capacities.  The inductive invariant IInv adds to the   *)
(* type invariant and PipelineOrder what the control points say about the  *)
(* replies held (Control) and the budget that bounds the reply numbers.    *)
(* RefinementInv adds to it what relates the route of a reply to the state *)
(* of Delivery, the abstract promise.                                      *)
(***************************************************************************)
EXTENDS OutboundPath, FiniteSetTheorems, TLAPS

\* What the dispatchers and workers hold at each control point.
DispatcherControl(l) ==
    /\ dpc[l] \in {"lookup", "enqueue"} => dmsg[l] \in Message
    /\ dpc[l] \notin {"lookup", "enqueue"} => dmsg[l] = NoMsg
    /\ dpc[l] = "enqueue" => dmsg[l].chan \in Channels

WorkerControl(w) ==
    /\ wpc[w] \in {"limit", "presend", "send", "wait"} =>
          wmsg[w] \in Message /\ part[w] \in 1..wmsg[w].parts
    /\ wpc[w] \notin {"limit", "presend", "send", "wait"} => wmsg[w] = NoMsg
    /\ wpc[w] = "wait" => attempt[w] < MaxRetries

\* Nothing runs before StartAll.
BootControl == main = "boot" => /\ \A l \in Lanes : dpc[l] = "off"
                                /\ \A w \in Workers : wpc[w] = "off"

Control == /\ BootControl
           /\ \A l \in Lanes : DispatcherControl(l)
           /\ \A w \in Workers : WorkerControl(w)

Waiting == {q \in Publishers : pub[q] # NoMsg}

\* Every waiting publisher has a reply number in reserve.
Budget == next + Cardinality(Waiting) <= MaxMsgs + 1

IInv == TypeOK /\ Control /\ Budget /\ PipelineOrder

-----------------------------------------------------------------------------
\* The value that stands for no reply is not a reply, and has no number.
LEMMA NoMsgFacts == NoMsg \notin Message /\ NoMsg \notin Request /\ NoMsg.id = 0
  BY DEF NoMsg, Message, Request

\* Only finitely many publishers wait on the bus.
LEMMA WaitingFinite == IsFiniteSet(Waiting) /\ Cardinality(Waiting) \in Nat
<1>1. IsFiniteSet(Waiting)
  BY FS_Subset, ConstantsAssumption DEF Waiting, ConstantsAssumption
<1>2. QED
  BY <1>1, FS_CardinalityType

\* A request taken off the waiting publishers frees one unit of the budget,
\* a new one costs one.
LEMMA WaitingShrinks ==
  ASSUME NEW p \in Publishers, pub[p] # NoMsg, TypeOK,
         pub' = [pub EXCEPT ![p] = NoMsg]
  PROVE  /\ Cardinality(Waiting') = Cardinality(Waiting) - 1
         /\ Cardinality(Waiting) >= 1
<1>1. Waiting' = Waiting \ {p} /\ p \in Waiting
  BY DEF Waiting, TypeOK
<1>2. Cardinality(Waiting \ {p}) = Cardinality(Waiting) - 1
  BY <1>1, WaitingFinite, FS_RemoveElement
<1>3. Cardinality(Waiting \ {p}) \in Nat
  BY WaitingFinite, FS_Subset, FS_CardinalityType
<1>4. QED
  BY <1>1, <1>2, <1>3, WaitingFinite

\* A publisher that begins to wait adds one to those that do.
LEMMA WaitingGrows ==
  ASSUME NEW p \in Publishers, pub[p] = NoMsg, TypeOK,
         NEW r \in Request, pub' = [pub EXCEPT ![p] = r]
  PROVE  Cardinality(Waiting') = Cardinality(Waiting) + 1
<1>1. Waiting' = Waiting \cup {p} /\ p \notin Waiting
  BY NoMsgFacts DEF Waiting, TypeOK
<1>2. QED
  BY <1>1, WaitingFinite, FS_AddElement

-----------------------------------------------------------------------------
(* The type invariant with the control facts and the budget it needs.      *)

TypeInv == TypeOK /\ Control /\ Budget

\* Init establishes the types, the control facts and the budget.
LEMMA TypeInit == Init => TypeInv
<1> SUFFICES ASSUME Init PROVE TypeInv
  OBVIOUS
<1>1. TypeOK
  BY ConstantsAssumption DEF Init, TypeOK, ConstantsAssumption, Phases, Workers
<1>2. Control
  BY DEF Init, Control, BootControl, DispatcherControl, WorkerControl, Workers
<1>3. Budget
  <2>1. Waiting = {}
    BY DEF Init, Waiting
  <2>2. Cardinality(Waiting) = 0
    BY <2>1, FS_EmptySet
  <2>3. QED
    BY <2>2, ConstantsAssumption DEF Init, Budget, ConstantsAssumption
<1>4. QED
  BY <1>1, <1>2, <1>3 DEF TypeInv

\* They are kept by every step of a publisher, ...
LEMMA PublisherType ==
  ASSUME TypeInv, NEW p \in Publishers, Publisher(p)
  PROVE  TypeInv'
<1> USE ConstantsAssumption DEF ConstantsAssumption, TypeInv
<1>1. ASSUME NEW l \in Lanes, NEW c \in Targets, NEW k \in 1..MaxParts, PublishCheck(p, l, c, k)
      PROVE  TypeInv'
  <2>1. TypeOK' /\ Control'
    BY <1>1 DEF PublishCheck, TypeOK, Control, BootControl, DispatcherControl, WorkerControl, Request,
                dispVars, workVars
  <2>2. Budget'
    <3>1. [lane |-> l, chan |-> c, parts |-> k] \in Request
      BY DEF Request
    <3>2. Cardinality(Waiting') = Cardinality(Waiting) + 1
      BY <1>1, <3>1, WaitingGrows DEF PublishCheck
    <3>3. next' = next /\ next + Cardinality(Waiting) <= MaxMsgs
      BY <1>1 DEF PublishCheck, Waiting
    <3>4. QED
      BY <3>2, <3>3, WaitingFinite DEF Budget, TypeOK
  <2>3. QED
    BY <2>1, <2>2
<1>2. CASE PublishAccept(p)
  <2>1. /\ Cardinality(Waiting') = Cardinality(Waiting) - 1
        /\ Cardinality(Waiting) >= 1
    BY <1>2, WaitingShrinks DEF PublishAccept
  <2>2. next <= MaxMsgs
    BY <2>1, WaitingFinite DEF Budget, TypeOK
  <2>3. pub[p] \in Request
    BY <1>2 DEF PublishAccept, TypeOK
  <2>4. [id |-> next, lane |-> pub[p].lane, chan |-> pub[p].chan, parts |-> pub[p].parts] \in Message
    BY <2>2, <2>3 DEF Message, Request, TypeOK
  <2>5. TypeOK' /\ Control'
    BY <1>2, <2>2, <2>3, <2>4
       DEF PublishAccept, TypeOK, Control, BootControl, DispatcherControl, WorkerControl, dispVars, workVars, Request
  <2>6. Budget'
    BY <1>2, <2>1, WaitingFinite DEF Budget, PublishAccept, TypeOK
  <2>7. QED
    BY <2>5, <2>6
<1>3. CASE PublishRefused(p)
  <2>1. TypeOK' /\ Control'
    BY <1>3 DEF PublishRefused, TypeOK, Control, BootControl, DispatcherControl, WorkerControl, dispVars, workVars
  <2>2. Cardinality(Waiting') = Cardinality(Waiting) - 1
    BY <1>3, WaitingShrinks DEF PublishRefused
  <2>3. QED
    BY <1>3, <2>1, <2>2, WaitingFinite DEF Budget, PublishRefused, TypeOK
<1>4. QED
  BY <1>1, <1>2, <1>3 DEF Publisher

\* ... by every step of a dispatcher, ...
LEMMA DispatcherType ==
  ASSUME TypeInv, NEW l \in Lanes, Dispatcher(l)
  PROVE  TypeInv'
<1> USE ConstantsAssumption, NoMsgFacts DEF ConstantsAssumption, TypeInv
<1>0. UNCHANGED <<next, pub>> /\ Budget'
  BY DEF Dispatcher, Take, SubscribeEnds, Lookup, Enqueue, EnqueueCancelled, EnqueuePanics,
         busVars, Budget, Waiting
<1>01. BootControl'
  BY DEF Dispatcher, Take, SubscribeEnds, Lookup, Enqueue, EnqueueCancelled, EnqueuePanics,
         workVars, dispVars, Control, BootControl
<1>1. CASE Take(l)
  <2>1. Head(busq[l]) \in Message /\ Tail(busq[l]) \in Seq(Message)
    BY <1>1 DEF Take, TypeOK
  <2>2. Len(Tail(busq[l])) <= BusCap
    BY <1>1 DEF Take, TypeOK
  <2>3. busq' \in [Lanes -> Seq(Message)] /\ \A k \in Lanes : Len(busq'[k]) <= BusCap
    BY <1>1, <2>1, <2>2 DEF Take, TypeOK
  <2>4. \A k \in Lanes : DispatcherControl(k)'
    BY <1>1, <2>1 DEF Take, TypeOK, Control, DispatcherControl, dispVars
  <2>5. /\ dpc' \in [Lanes -> {"off", "subscribe", "lookup", "enqueue", "stopped"}]
        /\ dmsg' \in [Lanes -> Message \cup {NoMsg}]
    BY <1>1, <2>1 DEF Take, TypeOK, dispVars
  <2>6. UNCHANGED <<main, served, queue, wpc, wmsg, part, attempt, tried>>
    BY <1>1 DEF Take, workVars
  <2>7. TypeOK'
    BY <1>0, <2>3, <2>5, <2>6 DEF TypeOK
  <2>8. \A w \in Workers : WorkerControl(w)'
    BY <2>6 DEF Control, WorkerControl
  <2>9. QED
    BY <1>0, <1>01, <2>4, <2>7, <2>8 DEF Control
<1>2. CASE SubscribeEnds(l)
  BY <1>0, <1>2 DEF SubscribeEnds, TypeOK, Control, BootControl, DispatcherControl, WorkerControl, busVars, workVars
<1>3. CASE Lookup(l)
  <2>1. \A k \in Lanes : DispatcherControl(k)'
    BY <1>3 DEF Lookup, TypeOK, Control, DispatcherControl
  <2>2. TypeOK'
    BY <1>0, <1>3 DEF Lookup, TypeOK, busVars, workVars
  <2>3. \A w \in Workers : WorkerControl(w)'
    BY <1>3 DEF Lookup, Control, WorkerControl, workVars
  <2>4. QED
    BY <1>0, <1>01, <2>1, <2>2, <2>3 DEF Control
<1>4. CASE Enqueue(l)
  <2>1. dmsg[l] \in Message /\ <<l, dmsg[l].chan>> \in Workers
    BY <1>4 DEF Enqueue, Control, DispatcherControl, Workers
  <2>5. /\ queue' \in [Workers -> Seq(Message)]
        /\ \A w \in Workers : Len(queue'[w]) <= QueueCap
    <3> DEFINE v == <<l, dmsg[l].chan>>
    <3>1. Append(queue[v], dmsg[l]) \in Seq(Message) /\ Len(Append(queue[v], dmsg[l])) <= QueueCap
      BY <1>4, <2>1 DEF Enqueue, TypeOK
    <3>2. queue' = [queue EXCEPT ![v] = Append(queue[v], dmsg[l])]
      BY <1>4 DEF Enqueue
    <3> HIDE DEF v
    <3>3. QED
      BY <3>1, <3>2 DEF TypeOK
  <2>2. TypeOK'
    BY <1>0, <1>4, <2>5 DEF Enqueue, TypeOK, busVars, workVars
  <2>3. Control'
    BY <1>0, <1>4, <2>1 DEF Enqueue, TypeOK, Control, BootControl, DispatcherControl, WorkerControl, busVars, workVars
  <2>4. QED
    BY <1>0, <2>2, <2>3
<1>5. CASE EnqueueCancelled(l)
  BY <1>0, <1>5 DEF EnqueueCancelled, TypeOK, Control, BootControl, DispatcherControl, WorkerControl, busVars, workVars
<1>6. CASE EnqueuePanics(l)
  BY <1>0, <1>6 DEF EnqueuePanics, TypeOK, Control, BootControl, DispatcherControl, WorkerControl, busVars, dispVars,
                    workVars, Phases
<1>7. QED
  BY <1>1, <1>2, <1>3, <1>4, <1>5, <1>6 DEF Dispatcher

\* NextChunk and HandedOver keep the types of the worker's variables.
LEMMA NextChunkType ==
  ASSUME TypeOK, Control, NEW w \in Workers, NextChunk(w),
         wpc[w] \in {"limit", "presend", "send", "wait"}
  PROVE  /\ wpc' \in [Workers -> {"off", "recv", "limit", "presend", "send", "wait", "exited"}]
         /\ wmsg' \in [Workers -> Message \cup {NoMsg}]
         /\ part' \in [Workers -> 0..MaxParts]
         /\ attempt' \in [Workers -> 0..MaxRetries]
         /\ \A v \in Workers : WorkerControl(v)'
<1> USE ConstantsAssumption, NoMsgFacts DEF ConstantsAssumption
<1>1. wmsg[w] \in Message /\ part[w] \in 1..wmsg[w].parts /\ wmsg[w].parts \in 1..MaxParts
  BY DEF Control, WorkerControl, Message
<1>2. CASE part[w] < wmsg[w].parts
  <2>1. /\ wpc' = [wpc EXCEPT ![w] = "limit"]
        /\ part' = [part EXCEPT ![w] = part[w] + 1]
        /\ attempt' = [attempt EXCEPT ![w] = 0]
        /\ wmsg' = wmsg
    BY <1>2 DEF NextChunk
  <2>2. part[w] + 1 \in 1..wmsg[w].parts /\ part[w] + 1 \in 0..MaxParts
    BY <1>1, <1>2
  <2>3. \A v \in Workers : WorkerControl(v)'
    BY <1>1, <2>1, <2>2 DEF TypeOK, Control, WorkerControl
  <2>4. QED
    BY <2>1, <2>2, <2>3 DEF TypeOK
<1>3. CASE ~(part[w] < wmsg[w].parts)
  <2>1. /\ wpc' = [wpc EXCEPT ![w] = "recv"]
        /\ part' = [part EXCEPT ![w] = 0]
        /\ attempt' = [attempt EXCEPT ![w] = 0]
        /\ wmsg' = [wmsg EXCEPT ![w] = NoMsg]
    BY <1>3 DEF NextChunk
  <2>2. \A v \in Workers : WorkerControl(v)'
    BY <1>1, <2>1 DEF TypeOK, Control, WorkerControl
  <2>3. QED
    BY <2>1, <2>2 DEF TypeOK
<1>4. QED
  BY <1>2, <1>3

\* A hand-over keeps the type of the history variable.
LEMMA HandedOverType ==
  ASSUME TypeOK, Control, NEW w \in Workers, HandedOver(w), wmsg[w] \in Message
  PROVE  tried' \in [Workers -> [id: 0..MaxMsgs, part: 0..MaxParts, n: Nat]]
BY ConstantsAssumption DEF ConstantsAssumption, HandedOver, TypeOK, Message

\* ... by every step of a worker, ...
LEMMA WorkerType ==
  ASSUME TypeInv, NEW w \in Workers, Worker(w)
  PROVE  TypeInv'
<1> USE ConstantsAssumption, NoMsgFacts DEF ConstantsAssumption, TypeInv
<1>0. UNCHANGED <<main, served, next, pub, busq, dpc, dmsg>> /\ Budget'
  BY DEF Worker, Receive, WorkerExits, LimiterWait, NoPlaceholder, EditPlaceholder, Send,
         RetryAfterDelay, RetryCancelled, busVars, dispVars, Budget, Waiting
<1>1. BootControl' /\ \A l \in Lanes : DispatcherControl(l)'
  BY <1>0 DEF Control, BootControl, DispatcherControl, Worker, Receive, WorkerExits, LimiterWait,
              NoPlaceholder, EditPlaceholder, Send, RetryAfterDelay, RetryCancelled
<1>2. CASE Receive(w)
  <2>1. /\ Head(queue[w]) \in Message
        /\ Tail(queue[w]) \in Seq(Message)
        /\ Len(Tail(queue[w])) <= QueueCap
    BY <1>2 DEF Receive, TypeOK
  <2>2. 1 \in 1..Head(queue[w]).parts /\ 1 \in 1..MaxParts
    BY <2>1 DEF Message
  <2>6. /\ queue' \in [Workers -> Seq(Message)]
        /\ \A v \in Workers : Len(queue'[v]) <= QueueCap
    BY <1>2, <2>1 DEF Receive, TypeOK
  <2>7. CASE UNCHANGED workVars
    BY <1>0, <1>1, <2>6, <2>7 DEF TypeOK, Control, WorkerControl, workVars
  <2>8. CASE /\ wpc' = [wpc EXCEPT ![w] = "limit"]
             /\ wmsg' = [wmsg EXCEPT ![w] = Head(queue[w])]
             /\ part' = [part EXCEPT ![w] = 1]
             /\ attempt' = [attempt EXCEPT ![w] = 0]
             /\ UNCHANGED tried
    <3> DEFINE m == Head(queue[w])
    <3> HIDE DEF m
    <3>1. TypeOK'
      <4>1. /\ wpc' \in [Workers -> {"off", "recv", "limit", "presend", "send", "wait", "exited"}]
            /\ part' \in [Workers -> 0..MaxParts]
            /\ attempt' \in [Workers -> 0..MaxRetries]
        BY <2>2, <2>8 DEF TypeOK
      <4>2. wmsg' \in [Workers -> Message \cup {NoMsg}]
        BY <2>1, <2>8 DEF TypeOK, m
      <4>3. QED
        BY <1>0, <2>6, <2>8, <4>1, <4>2 DEF TypeOK
    <3>2. \A v \in Workers : WorkerControl(v)'
      BY <2>1, <2>2, <2>8 DEF TypeOK, Control, WorkerControl, m
    <3>3. QED
      BY <1>0, <1>1, <3>1, <3>2 DEF Control
  <2>5. QED
    BY <1>2, <2>7, <2>8 DEF Receive
<1>3. CASE WorkerExits(w)
  <2>1. TypeOK'
    BY <1>0, <1>3 DEF WorkerExits, TypeOK
  <2>2. \A v \in Workers : WorkerControl(v)'
    BY <1>3 DEF WorkerExits, TypeOK, Control, WorkerControl
  <2>3. QED
    BY <1>0, <1>1, <2>1, <2>2 DEF Control
<1>4. CASE LimiterWait(w)
  <2>1. CASE CtxDone
    BY <1>0, <1>1, <1>4, <2>1, NextChunkType DEF LimiterWait, TypeOK, Control
  <2>2. CASE ~CtxDone
    <3>1. TypeOK'
      BY <1>0, <1>4, <2>2 DEF LimiterWait, TypeOK
    <3>2. \A v \in Workers : WorkerControl(v)'
      BY <1>4, <2>2 DEF LimiterWait, TypeOK, Control, WorkerControl
    <3>3. QED
      BY <1>0, <1>1, <3>1, <3>2 DEF Control
  <2>3. QED
    BY <2>1, <2>2
<1>5. CASE NoPlaceholder(w)
  <2>1. TypeOK'
    BY <1>0, <1>5 DEF NoPlaceholder, TypeOK
  <2>2. \A v \in Workers : WorkerControl(v)'
    BY <1>5 DEF NoPlaceholder, TypeOK, Control, WorkerControl
  <2>3. QED
    BY <1>0, <1>1, <2>1, <2>2 DEF Control
<1>6. CASE EditPlaceholder(w)
  <2>1. wmsg[w] \in Message
    BY <1>6 DEF EditPlaceholder, Control, WorkerControl
  <2>2. tried' \in [Workers -> [id: 0..MaxMsgs, part: 0..MaxParts, n: Nat]]
    BY <1>6, <2>1, HandedOverType DEF EditPlaceholder
  <2>3. CASE NextChunk(w)
    BY <1>0, <1>1, <1>6, <2>2, <2>3, NextChunkType DEF EditPlaceholder, TypeOK, Control
  <2>4. CASE wpc' = [wpc EXCEPT ![w] = "send"] /\ UNCHANGED <<wmsg, part, attempt>>
    <3>1. TypeOK'
      BY <1>0, <1>6, <2>2, <2>4 DEF EditPlaceholder, TypeOK
    <3>2. \A v \in Workers : WorkerControl(v)'
      BY <1>6, <2>2, <2>4 DEF EditPlaceholder, TypeOK, Control, WorkerControl
    <3>3. QED
      BY <1>0, <1>1, <3>1, <3>2 DEF Control
  <2>5. QED
    BY <1>6, <2>3, <2>4 DEF EditPlaceholder
<1>7. CASE Send(w)
  <2>1. wmsg[w] \in Message
    BY <1>7 DEF Send, Control, WorkerControl
  <2>2. tried' \in [Workers -> [id: 0..MaxMsgs, part: 0..MaxParts, n: Nat]]
    BY <1>7, <2>1, HandedOverType DEF Send
  <2>3. CASE NextChunk(w)
    BY <1>0, <1>1, <1>7, <2>2, <2>3, NextChunkType DEF Send, TypeOK, Control
  <2>4. CASE /\ attempt[w] < MaxRetries
             /\ wpc' = [wpc EXCEPT ![w] = "wait"]
             /\ UNCHANGED <<wmsg, part, attempt>>
    <3>1. TypeOK'
      BY <1>0, <1>7, <2>2, <2>4 DEF Send, TypeOK
    <3>2. \A v \in Workers : WorkerControl(v)'
      BY <1>7, <2>2, <2>4 DEF Send, TypeOK, Control, WorkerControl
    <3>3. QED
      BY <1>0, <1>1, <3>1, <3>2 DEF Control
  <2>5. QED
    BY <1>7, <2>3, <2>4 DEF Send
<1>8. CASE RetryAfterDelay(w)
  <2>1. attempt[w] + 1 \in 0..MaxRetries
    BY <1>8 DEF RetryAfterDelay, TypeOK, Control, WorkerControl
  <2>2. attempt' = [attempt EXCEPT ![w] = attempt[w] + 1]
    BY <1>8 DEF RetryAfterDelay
  <2>3. TypeOK'
    <3>1. wpc' \in [Workers -> {"off", "recv", "limit", "presend", "send", "wait", "exited"}]
      BY <1>8 DEF RetryAfterDelay, TypeOK
    <3>2. attempt' \in [Workers -> 0..MaxRetries]
      BY <2>1, <2>2 DEF TypeOK
    <3>3. QED
      BY <1>0, <1>8, <3>1, <3>2 DEF RetryAfterDelay, TypeOK
  <2>4. \A v \in Workers : WorkerControl(v)'
    BY <1>8 DEF RetryAfterDelay, TypeOK, Control, WorkerControl
  <2>5. QED
    BY <1>0, <1>1, <2>3, <2>4 DEF Control
<1>9. CASE RetryCancelled(w)
  BY <1>0, <1>1, <1>9, NextChunkType DEF RetryCancelled, TypeOK, Control
<1>10. QED
  BY <1>2, <1>3, <1>4, <1>5, <1>6, <1>7, <1>8, <1>9 DEF Worker

\* ... by the start and by every step of the shutdown, ...
LEMMA MainType ==
  ASSUME TypeInv, StartAll \/ CancelContext \/ Shutdown
  PROVE  TypeInv'
<1> USE ConstantsAssumption, NoMsgFacts DEF ConstantsAssumption, TypeInv
<1>1. UNCHANGED <<next, pub>> /\ Budget'
  BY DEF StartAll, CancelContext, Shutdown, CloseSetsFlag, CloseDone, CloseDrains, Drain, StopAllClosesText,
         StopAllClosesMedia, StopAllStopsChannels, ProcessExits, busVars, Budget, Waiting
<1>2. CASE StartAll
  <2>1. TypeOK'
    BY <1>1, <1>2 DEF StartAll, TypeOK, Phases, busVars
  <2>2. /\ \A l \in Lanes : dpc[l] = "off" /\ dmsg[l] = NoMsg
        /\ \A w \in Workers : wpc[w] = "off" /\ wmsg[w] = NoMsg
    BY <1>2 DEF StartAll, Control, BootControl, BootControl, DispatcherControl, WorkerControl
  <2>3. BootControl' /\ \A l \in Lanes : DispatcherControl(l)'
    BY <1>2, <2>2 DEF StartAll, BootControl, DispatcherControl
  <2>4. \A w \in Workers : WorkerControl(w)'
    BY <1>2, <2>2 DEF StartAll, WorkerControl
  <2>5. QED
    BY <1>1, <2>1, <2>3, <2>4 DEF Control
<1>3. ASSUME NEW l \in Lanes, NEW here, NEW then \in Phases \ {"boot"}, Drain(l, here, then)
      PROVE  TypeInv'
  <2>1. busq[l] # <<>> => Tail(busq[l]) \in Seq(Message) /\ Len(Tail(busq[l])) <= BusCap
    BY DEF TypeOK
  <2>2. TypeOK'
    BY <1>1, <1>3, <2>1 DEF Drain, TypeOK, dispVars, workVars
  <2>3. Control'
    BY <1>3 DEF Drain, Control, BootControl, DispatcherControl, WorkerControl, dispVars, workVars
  <2>4. QED
    BY <1>1, <2>2, <2>3
<1>4. CASE CloseDrains
  BY <1>3, <1>4 DEF CloseDrains, Lanes, Phases
<1>5. ASSUME main' \in Phases \ {"boot"}, UNCHANGED <<served, busVars, dispVars, queue, workVars>>
      PROVE  TypeInv'
  <2>1. TypeOK'
    BY <1>5 DEF TypeOK, busVars, dispVars, workVars
  <2>2. Control'
    BY <1>5 DEF Control, BootControl, DispatcherControl, WorkerControl, dispVars, workVars
  <2>3. QED
    BY <1>1, <2>1, <2>2
<1>6. QED
  BY <1>2, <1>4, <1>5
     DEF CancelContext, Shutdown, CloseSetsFlag, CloseDone, StopAllClosesText,
         StopAllClosesMedia, StopAllStopsChannels, ProcessExits, Phases

\* ... and so by every step of the path.
LEMMA TypeStep == TypeInv /\ [Next]_vars => TypeInv'
<1> SUFFICES ASSUME TypeInv, [Next]_vars PROVE TypeInv'
  OBVIOUS
<1>1. CASE UNCHANGED vars
  BY <1>1 DEF TypeInv, TypeOK, Control, BootControl, DispatcherControl, WorkerControl, Budget, Waiting,
              vars, busVars, dispVars, workVars
<1>2. CASE Next
  BY <1>1, <1>2, PublisherType, DispatcherType, WorkerType, MainType DEF Next, Gone
<1>3. QED
  BY <1>1, <1>2

\* Every state of the outbound path is well typed; in particular no queue is
\* ever longer than its capacity and no attempt goes beyond maxRetries.
THEOREM TypeCorrect == Spec => []TypeOK
<1>1. TypeInv => TypeOK
  BY DEF TypeInv
<1>2. QED
  BY <1>1, TypeInit, TypeStep, PTL DEF Spec

-----------------------------------------------------------------------------
(* The order of the replies in the pipeline.                               *)

\* Taking the head off an ordered queue leaves it ordered.
LEMMA TailOrdered ==
  ASSUME NEW s \in Seq(Message), s # <<>>, Increasing(s)
  PROVE  /\ Increasing(Tail(s))
         /\ DOMAIN Tail(s) = 1..Len(s) - 1
         /\ \A i \in DOMAIN Tail(s) :
               i + 1 \in DOMAIN s /\ Tail(s)[i] = s[i + 1] /\ Head(s).id < Tail(s)[i].id
         /\ 1 \in DOMAIN s /\ Head(s) = s[1]
<1>1. /\ Len(s) \in Nat /\ Len(s) > 0 /\ DOMAIN s = 1..Len(s)
      /\ Tail(s) \in Seq(Message) /\ Len(Tail(s)) = Len(s) - 1
      /\ DOMAIN Tail(s) = 1..Len(s) - 1
      /\ Head(s) = s[1]
  OBVIOUS
<1>2. \A i \in DOMAIN Tail(s) : i + 1 \in DOMAIN s /\ Tail(s)[i] = s[i + 1]
  BY <1>1
<1>3. \A i \in DOMAIN Tail(s) : Head(s).id < Tail(s)[i].id
  BY <1>1, <1>2 DEF Increasing
<1>4. ASSUME NEW i \in DOMAIN Tail(s), NEW j \in DOMAIN Tail(s), i < j
      PROVE  Tail(s)[i].id < Tail(s)[j].id
  <2>1. i + 1 \in DOMAIN s /\ j + 1 \in DOMAIN s /\ i + 1 < j + 1
    BY <1>1, <1>2, <1>4
  <2>2. QED
    BY <1>2, <1>4, <2>1 DEF Increasing
<1>5. QED
  BY <1>1, <1>2, <1>3, <1>4 DEF Increasing

\* Appending a younger reply to an ordered queue leaves it ordered.
LEMMA AppendOrdered ==
  ASSUME NEW s \in Seq(Message), NEW m \in Message, Increasing(s),
         \A i \in DOMAIN s : s[i].id < m.id
  PROVE  /\ Increasing(Append(s, m))
         /\ \A i \in DOMAIN Append(s, m) :
               \/ i \in DOMAIN s /\ Append(s, m)[i] = s[i]
               \/ Append(s, m)[i] = m
<1>1. /\ Len(s) \in Nat /\ DOMAIN s = 1..Len(s)
      /\ DOMAIN Append(s, m) = 1..Len(s) + 1
      /\ Append(s, m)[Len(s) + 1] = m
      /\ \A i \in 1..Len(s) : Append(s, m)[i] = s[i]
  OBVIOUS
<1>2. QED
  BY <1>1 DEF Increasing

\* Reply numbers are positive; NoMsg has number 0.
LEMMA Numbers ==
  ASSUME TypeOK
  PROVE  /\ next \in Nat /\ 0 < next
         /\ \A k \in Lanes :
               /\ dmsg[k].id \in Nat
               /\ dmsg[k] # NoMsg => 0 < dmsg[k].id
               /\ \A i \in DOMAIN busq[k] : busq[k][i].id \in Nat /\ 0 < busq[k][i].id
         /\ \A v \in Workers :
               /\ wmsg[v].id \in Nat
               /\ tried[v].id \in Nat
               /\ \A i \in DOMAIN queue[v] : queue[v][i].id \in Nat /\ 0 < queue[v][i].id
<1>1. \A m \in Message : m.id \in Nat /\ 0 < m.id
  BY ConstantsAssumption DEF Message, ConstantsAssumption
<1>2. \A s \in Seq(Message) : \A i \in DOMAIN s : s[i] \in Message
  OBVIOUS
<1>3. next \in Nat /\ 0 < next
  BY ConstantsAssumption DEF TypeOK, ConstantsAssumption
<1>4. \A k \in Lanes : dmsg[k].id \in Nat /\ (dmsg[k] # NoMsg => 0 < dmsg[k].id)
  BY <1>1, NoMsgFacts DEF TypeOK
<1>5. \A k \in Lanes : \A i \in DOMAIN busq[k] : busq[k][i].id \in Nat /\ 0 < busq[k][i].id
  <2>1. \A k \in Lanes : busq[k] \in Seq(Message)
    BY DEF TypeOK
  <2>2. QED
    BY <1>1, <1>2, <2>1
<1>6. \A v \in Workers : \A i \in DOMAIN queue[v] : queue[v][i].id \in Nat /\ 0 < queue[v][i].id
  <2>1. \A v \in Workers : queue[v] \in Seq(Message)
    BY DEF TypeOK
  <2>2. QED
    BY <1>1, <1>2, <2>1
<1>7. \A v \in Workers : wmsg[v].id \in Nat /\ tried[v].id \in Nat
  BY <1>1, NoMsgFacts DEF TypeOK
<1>8. QED
  BY <1>3, <1>4, <1>5, <1>6, <1>7

\* The empty pipeline is in order.
LEMMA OrderInit == Init => PipelineOrder
BY NoMsgFacts, ConstantsAssumption DEF ConstantsAssumption, Init, PipelineOrder, BusOrder, RouteOrder, Increasing, Workers

\* Publishing keeps the order: the bus numbers what it accepts, ...
LEMMA PublisherOrder ==
  ASSUME IInv, NEW p \in Publishers, Publisher(p)
  PROVE  PipelineOrder'
<1> USE DEF IInv
<1>1. CASE UNCHANGED <<next, busq, dispVars, queue, workVars>>
  BY <1>1 DEF PipelineOrder, BusOrder, RouteOrder, dispVars, workVars
<1>2. CASE PublishAccept(p)
  <2> DEFINE l == pub[p].lane
             m == [id |-> next, lane |-> l, chan |-> pub[p].chan, parts |-> pub[p].parts]
  <2>1. next <= MaxMsgs
    <3>1. TypeOK /\ next \in Nat /\ MaxMsgs \in Nat
      BY ConstantsAssumption DEF TypeOK, ConstantsAssumption
    <3>2. Cardinality(Waiting) >= 1
      BY <1>2, <3>1, WaitingShrinks DEF PublishAccept
    <3>3. QED
      BY <3>1, <3>2, WaitingFinite DEF Budget
  <2>2. l \in Lanes /\ m \in Message /\ m.id = next
    BY <1>2, <2>1 DEF PublishAccept, TypeOK, Message, Request
  <2>3. busq[l] \in Seq(Message) /\ Increasing(busq[l]) /\ \A i \in DOMAIN busq[l] : busq[l][i].id < next
    BY <2>2 DEF TypeOK, PipelineOrder, BusOrder
  <2> HIDE DEF m
  <2>4. /\ Increasing(Append(busq[l], m))
        /\ \A i \in DOMAIN Append(busq[l], m) :
              \/ i \in DOMAIN busq[l] /\ Append(busq[l], m)[i] = busq[l][i]
              \/ Append(busq[l], m)[i] = m
    BY <2>2, <2>3, AppendOrdered
  <2>5. /\ busq' = [busq EXCEPT ![l] = Append(busq[l], m)]
        /\ next' = next + 1
        /\ UNCHANGED <<dmsg, queue, wmsg, tried>>
    BY <1>2 DEF PublishAccept, m, dispVars, workVars
  <2> HIDE DEF l
  <2>6. ASSUME NEW k \in Lanes PROVE BusOrder(k)'
    <3>1. dmsg[k].id \in Nat /\ dmsg[k].id < next /\ next \in Nat
      BY NoMsgFacts, <2>6 DEF TypeOK, Message, PipelineOrder, BusOrder
    <3>2. \A i \in DOMAIN busq[k] : busq[k][i].id \in Nat
      BY <2>6, Numbers
    <3>3. CASE k = l
      BY <2>2, <2>4, <2>5, <3>1, <3>2, <3>3, <2>6 DEF PipelineOrder, BusOrder, TypeOK
    <3>4. CASE k # l
      BY <2>5, <3>1, <3>2, <3>4, <2>6 DEF PipelineOrder, BusOrder, TypeOK
    <3>5. QED
      BY <3>3, <3>4
  <2>7. ASSUME NEW w \in Workers PROVE RouteOrder(w)'
    <3>1. w[1] \in Lanes /\ RouteOrder(w) /\ next \in Nat
      BY <2>7 DEF Workers, TypeOK, PipelineOrder
    <3>2. /\ wmsg[w].id \in Nat /\ tried[w].id \in Nat
          /\ \A i \in DOMAIN queue[w] : queue[w][i].id \in Nat
      BY <2>7, Numbers
    <3>3. \A j \in DOMAIN busq'[w[1]] : \/ j \in DOMAIN busq[w[1]] /\ busq'[w[1]][j] = busq[w[1]][j]
                                       \/ busq'[w[1]][j].id = next
      BY <2>2, <2>4, <2>5, <3>1 DEF TypeOK
    <3>4. QED
      BY <2>5, <3>1, <3>2, <3>3 DEF RouteOrder
  <2>8. QED
    BY <2>6, <2>7 DEF PipelineOrder
<1>3. QED
  BY <1>1, <1>2 DEF Publisher, PublishCheck, PublishRefused, busVars

\* ... so does dispatching, which moves the head of one queue to the tail of another, ...
LEMMA DispatcherOrder ==
  ASSUME IInv, NEW l \in Lanes, Dispatcher(l)
  PROVE  PipelineOrder'
<1> USE NoMsgFacts DEF IInv
<1>0. /\ next \in Nat
      /\ \A k \in Lanes : dmsg[k].id \in Nat /\ \A i \in DOMAIN busq[k] : busq[k][i].id \in Nat
      /\ \A w \in Workers : /\ wmsg[w].id \in Nat /\ tried[w].id \in Nat
                            /\ \A i \in DOMAIN queue[w] : queue[w][i].id \in Nat
  BY Numbers
<1>1. ASSUME next' = next, busq' = busq, queue' = queue, wmsg' = wmsg, tried' = tried,
             \/ dmsg' = dmsg
             \/ dmsg' = [dmsg EXCEPT ![l] = NoMsg]
      PROVE  PipelineOrder'
  <2>1. \A k \in Lanes : dmsg'[k] = dmsg[k] \/ dmsg'[k] = NoMsg
    BY <1>1 DEF TypeOK
  <2>2. ASSUME NEW k \in Lanes PROVE BusOrder(k)'
    <3>1. BusOrder(k) /\ (\A i \in DOMAIN busq[k] : busq[k][i].id \in Nat /\ 0 < busq[k][i].id) /\ 0 < next
      BY <2>2, Numbers DEF PipelineOrder
    <3>2. QED
      BY <1>0, <1>1, <2>1, <2>2, <3>1 DEF BusOrder
  <2>3. ASSUME NEW w \in Workers PROVE RouteOrder(w)'
    <3>1. RouteOrder(w) /\ w[1] \in Lanes
      BY <2>3 DEF PipelineOrder, Workers
    <3>2. QED
      BY <1>0, <1>1, <2>1, <2>3, <3>1 DEF RouteOrder
  <2>4. QED
    BY <2>2, <2>3 DEF PipelineOrder
<1>2. CASE Take(l)
  <2> DEFINE b == busq[l]
  <2>1. b \in Seq(Message) /\ b # <<>> /\ Increasing(b)
    BY <1>2 DEF Take, TypeOK, PipelineOrder, BusOrder
  <2>2. /\ Increasing(Tail(b))
        /\ \A i \in DOMAIN Tail(b) :
              i + 1 \in DOMAIN b /\ Tail(b)[i] = b[i + 1] /\ Head(b).id < Tail(b)[i].id
        /\ 1 \in DOMAIN b /\ Head(b) = b[1]
    BY <2>1, TailOrdered
  <2>3. /\ busq' = [busq EXCEPT ![l] = Tail(b)]
        /\ UNCHANGED <<next, queue, wmsg, tried>>
        /\ dmsg' = dmsg \/ dmsg' = [dmsg EXCEPT ![l] = b[1]]
    BY <1>2, <2>2 DEF Take, dispVars, workVars
  <2> HIDE DEF b
  <2>4. \A k \in Lanes \ {l} : busq'[k] = busq[k] /\ dmsg'[k] = dmsg[k]
    BY <2>3 DEF TypeOK
  <2>5. busq'[l] = Tail(b) /\ (dmsg'[l] = dmsg[l] \/ dmsg'[l] = b[1])
    BY <2>3 DEF TypeOK
  <2>6. BusOrder(l) /\ b = busq[l]
    BY DEF PipelineOrder, b
  <2>7. \A i \in DOMAIN busq'[l] : i + 1 \in DOMAIN busq[l] /\ busq'[l][i] = busq[l][i + 1] /\ b[1].id < busq'[l][i].id
    BY <2>2, <2>5, <2>6
  <2>8. ASSUME NEW k \in Lanes PROVE BusOrder(k)'
    <3>1. CASE k = l
      <4>1. Increasing(busq'[l])
        BY <2>2, <2>5
      <4>2. dmsg'[l].id < next'
        BY <2>2, <2>3, <2>5, <2>6 DEF BusOrder
      <4>3. \A i \in DOMAIN busq'[l] : dmsg'[l].id < busq'[l][i].id /\ busq'[l][i].id < next'
        BY <2>3, <2>5, <2>6, <2>7 DEF BusOrder
      <4>4. QED
        BY <3>1, <4>1, <4>2, <4>3 DEF BusOrder
    <3>2. CASE k # l
      BY <2>3, <2>4, <2>8, <3>2 DEF PipelineOrder, BusOrder
    <3>3. QED
      BY <3>1, <3>2
  <2>9. ASSUME NEW w \in Workers PROVE RouteOrder(w)'
    <3>1. RouteOrder(w) /\ w[1] \in Lanes
      BY <2>9 DEF PipelineOrder, Workers
    <3>2. CASE w[1] = l
      BY <2>2, <2>3, <2>5, <2>6, <2>7, <3>1, <3>2 DEF RouteOrder
    <3>3. CASE w[1] # l
      BY <2>3, <2>4, <3>1, <3>3 DEF RouteOrder
    <3>4. QED
      BY <3>2, <3>3
  <2>10. QED
    BY <2>8, <2>9 DEF PipelineOrder
<1>3. CASE Enqueue(l)
  <2> DEFINE v == <<l, dmsg[l].chan>>
  <2>1. dmsg[l] \in Message /\ v \in Workers /\ v[1] = l /\ dmsg[l] # NoMsg
    BY <1>3 DEF Enqueue, Control, DispatcherControl, Workers
  <2>2. /\ queue' = [queue EXCEPT ![v] = Append(queue[v], dmsg[l])]
        /\ dmsg' = [dmsg EXCEPT ![l] = NoMsg]
        /\ UNCHANGED <<next, busq, wmsg, tried>>
    BY <1>3 DEF Enqueue, busVars, workVars
  <2> HIDE DEF v
  <2>3. /\ RouteOrder(v) /\ queue[v] \in Seq(Message)
        /\ \A i \in DOMAIN queue[v] : queue[v][i].id < dmsg[l].id
    BY <2>1 DEF PipelineOrder, RouteOrder, TypeOK
  <2>4. /\ Increasing(Append(queue[v], dmsg[l]))
        /\ \A i \in DOMAIN Append(queue[v], dmsg[l]) :
              \/ i \in DOMAIN queue[v] /\ Append(queue[v], dmsg[l])[i] = queue[v][i]
              \/ Append(queue[v], dmsg[l])[i] = dmsg[l]
    BY <2>1, <2>3, AppendOrdered DEF RouteOrder
  <2>5. dmsg'[l] = NoMsg /\ \A k \in Lanes \ {l} : dmsg'[k] = dmsg[k]
    BY <2>2 DEF TypeOK
  <2>6. ASSUME NEW k \in Lanes PROVE BusOrder(k)'
    <3>1. BusOrder(k) /\ (\A i \in DOMAIN busq[k] : 0 < busq[k][i].id) /\ 0 < next
      BY <2>6, Numbers DEF PipelineOrder
    <3>2. QED
      BY <2>2, <2>5, <2>6, <3>1 DEF BusOrder
  <2>7. ASSUME NEW w \in Workers PROVE RouteOrder(w)'
    <3>1. RouteOrder(w) /\ w[1] \in Lanes
      BY <2>7 DEF PipelineOrder, Workers
    <3>2. CASE w = v
      <4>1. queue'[v] = Append(queue[v], dmsg[l])
        BY <2>1, <2>2 DEF TypeOK
      <4>2. \A j \in DOMAIN busq[l] : dmsg[l].id < busq[l][j].id
        BY DEF PipelineOrder, BusOrder
      <4>3. dmsg[l].id < next
        BY DEF PipelineOrder, BusOrder
      <4>4. QED
        BY <2>1, <2>2, <2>4, <2>5, <3>1, <3>2, <4>1, <4>2, <4>3 DEF RouteOrder
    <3>3. CASE w # v
      <4>1. queue'[w] = queue[w]
        BY <2>2, <2>7, <3>3 DEF TypeOK
      <4>2. dmsg'[w[1]] = NoMsg \/ dmsg'[w[1]] = dmsg[w[1]]
        BY <2>5, <3>1
      <4>3. QED
        BY <2>2, <3>1, <4>1, <4>2 DEF RouteOrder
    <3>4. QED
      BY <3>2, <3>3
  <2>8. QED
    BY <2>6, <2>7 DEF PipelineOrder
<1>4. QED
  BY <1>1, <1>2, <1>3
     DEF Dispatcher, SubscribeEnds, Lookup, EnqueueCancelled, EnqueuePanics, busVars, dispVars, workVars

\* ... so does sending, with its retries and its chunks, ...
LEMMA WorkerOrder ==
  ASSUME IInv, NEW w \in Workers, Worker(w)
  PROVE  PipelineOrder'
<1> USE NoMsgFacts DEF IInv
<1>0. /\ next \in Nat
      /\ \A k \in Lanes : dmsg[k].id \in Nat /\ \A i \in DOMAIN busq[k] : busq[k][i].id \in Nat /\ 0 < busq[k][i].id
      /\ \A v \in Workers : /\ wmsg[v].id \in Nat /\ tried[v].id \in Nat
                            /\ \A i \in DOMAIN queue[v] : queue[v][i].id \in Nat /\ 0 < queue[v][i].id
      /\ \A k \in Lanes : dmsg[k] # NoMsg => 0 < dmsg[k].id
  BY Numbers
<1>1. UNCHANGED <<next, busq, dmsg>>
  BY DEF Worker, Receive, WorkerExits, LimiterWait, NoPlaceholder, EditPlaceholder, Send,
         RetryAfterDelay, RetryCancelled, busVars, dispVars
<1>2. \A k \in Lanes : BusOrder(k)'
  BY <1>1 DEF PipelineOrder, BusOrder
<1>3. ASSUME NEW v \in Workers \ {w} PROVE RouteOrder(v)'
  <2>1. queue'[v] = queue[v] /\ wmsg'[v] = wmsg[v] /\ tried'[v] = tried[v]
    BY <1>3 DEF Worker, Receive, WorkerExits, LimiterWait, NoPlaceholder, EditPlaceholder, Send, NextChunk,
           HandedOver, RetryAfterDelay, RetryCancelled, TypeOK, workVars
  <2>2. QED
    BY <1>1, <1>3, <2>1 DEF PipelineOrder, RouteOrder
<1>4. RouteOrder(w)'
  <2>1. RouteOrder(w) /\ w[1] \in Lanes
    BY DEF PipelineOrder, Workers
  <2>2. CASE Receive(w)
    <3>1. /\ Increasing(Tail(queue[w]))
          /\ \A i \in DOMAIN Tail(queue[w]) :
                /\ i + 1 \in DOMAIN queue[w] /\ Tail(queue[w])[i] = queue[w][i + 1]
                /\ Head(queue[w]).id < Tail(queue[w])[i].id
          /\ 1 \in DOMAIN queue[w] /\ Head(queue[w]) = queue[w][1]
      BY <2>1, <2>2, TailOrdered DEF Receive, RouteOrder, TypeOK
    <3>2. /\ queue'[w] = Tail(queue[w])
          /\ tried'[w] = tried[w]
          /\ wmsg'[w] = wmsg[w] \/ wmsg'[w] = queue[w][1]
      BY <2>2, <3>1 DEF Receive, TypeOK, workVars
    <3>3. \A i \in DOMAIN queue'[w] : /\ i + 1 \in DOMAIN queue[w] /\ queue'[w][i] = queue[w][i + 1]
                                     /\ queue[w][1].id < queue'[w][i].id
      BY <3>1, <3>2
    <3>4. QED
      BY <1>0, <1>1, <2>1, <3>1, <3>2, <3>3 DEF RouteOrder
  <2>3. ASSUME queue' = queue, tried'[w] = tried[w], wmsg'[w] = wmsg[w] \/ wmsg'[w] = NoMsg
        PROVE  RouteOrder(w)'
    <3>1. 0 < next
      BY DEF TypeOK
    <3>2. QED
      BY <1>0, <1>1, <2>1, <2>3, <3>1 DEF RouteOrder
  <2>4. ASSUME queue' = queue, wmsg[w] \in Message, tried'[w].id = wmsg[w].id,
               wmsg'[w] = wmsg[w] \/ wmsg'[w] = NoMsg
        PROVE  RouteOrder(w)'
    <3>1. 0 < next
      BY DEF TypeOK
    <3>2. QED
      BY <1>0, <1>1, <2>1, <2>4, <3>1 DEF RouteOrder
  <2>5. ASSUME HandedOver(w) PROVE tried'[w].id = wmsg[w].id
    BY <2>5 DEF HandedOver, TypeOK
  <2>6. ASSUME NextChunk(w) PROVE wmsg'[w] = wmsg[w] \/ wmsg'[w] = NoMsg
    BY <2>6 DEF NextChunk, TypeOK
  <2>7. CASE Send(w) \/ EditPlaceholder(w)
    <3>1. wmsg[w] \in Message
      BY <2>7 DEF Send, EditPlaceholder, Control, WorkerControl
    <3>2. QED
      BY <2>4, <2>5, <2>6, <2>7, <3>1 DEF Send, EditPlaceholder
  <2>8. QED
    BY <2>2, <2>3, <2>6, <2>7 DEF Worker, WorkerExits, LimiterWait, NoPlaceholder, RetryAfterDelay, RetryCancelled
<1>5. QED
  BY <1>2, <1>3, <1>4 DEF PipelineOrder

\* ... so does the shutdown, which only takes replies out, ...
LEMMA MainOrder ==
  ASSUME IInv, StartAll \/ CancelContext \/ Shutdown
  PROVE  PipelineOrder'
<1> USE DEF IInv
<1>1. CASE UNCHANGED <<next, busq, dmsg, queue, wmsg, tried>>
  BY <1>1 DEF PipelineOrder, BusOrder, RouteOrder
<1>2. ASSUME NEW l \in Lanes, busq[l] # <<>>, busq' = [busq EXCEPT ![l] = Tail(busq[l])],
             UNCHANGED <<next, dmsg, queue, wmsg, tried>>
      PROVE  PipelineOrder'
  <2>1. /\ Increasing(Tail(busq[l]))
        /\ \A i \in DOMAIN Tail(busq[l]) : i + 1 \in DOMAIN busq[l] /\ Tail(busq[l])[i] = busq[l][i + 1]
    BY <1>2, TailOrdered DEF TypeOK, PipelineOrder, BusOrder
  <2>2. \A k \in Lanes : Increasing(busq'[k])
    BY <1>2, <2>1 DEF TypeOK, PipelineOrder, BusOrder
  <2>3. \A k \in Lanes : \A i \in DOMAIN busq'[k] : \E j \in DOMAIN busq[k] : busq'[k][i] = busq[k][j]
    BY <1>2, <2>1 DEF TypeOK
  <2>4. \A k \in Lanes : BusOrder(k)'
    BY <1>2, <2>2, <2>3 DEF PipelineOrder, BusOrder
  <2>5. ASSUME NEW w \in Workers PROVE RouteOrder(w)'
    <3>1. w[1] \in Lanes
      BY <2>5 DEF Workers
    <3>2. QED
      <4>1. RouteOrder(w)
        BY <2>5 DEF PipelineOrder
      <4>2. \A i \in DOMAIN busq'[w[1]] : \E j \in DOMAIN busq[w[1]] : busq'[w[1]][i] = busq[w[1]][j]
        BY <2>3, <3>1
      <4>3. QED
        BY <1>2, <4>1, <4>2 DEF RouteOrder
  <2>6. QED
    BY <2>4, <2>5 DEF PipelineOrder
<1>3. CASE CloseDrains
  BY <1>1, <1>2, <1>3 DEF CloseDrains, Drain, dispVars, workVars, Lanes
<1>4. QED
  BY <1>1, <1>3 DEF StartAll, CancelContext, Shutdown, CloseSetsFlag, CloseDone, StopAllClosesText,
     StopAllClosesMedia, StopAllStopsChannels, ProcessExits, busVars, dispVars, workVars

\* ... and so does every step of the path.
LEMMA OrderStep == IInv /\ [Next]_vars => PipelineOrder'
<1> SUFFICES ASSUME IInv, [Next]_vars PROVE PipelineOrder'
  OBVIOUS
<1>1. CASE UNCHANGED vars
  BY <1>1 DEF IInv, PipelineOrder, BusOrder, RouteOrder, vars, busVars, dispVars, workVars
<1>2. CASE Next
  BY <1>1, <1>2, PublisherOrder, DispatcherOrder, WorkerOrder, MainOrder DEF Next, Gone
<1>3. QED
  BY <1>1, <1>2

\* The inductive invariant holds in every state.
LEMMA Inductive == Spec => []IInv
<1>1. Init => IInv
  BY TypeInit, OrderInit DEF IInv, TypeInv
<1>2. IInv /\ [Next]_vars => IInv'
  BY TypeStep, OrderStep DEF IInv, TypeInv
<1>3. QED
  BY <1>1, <1>2, PTL DEF Spec

\* No reply overtakes an earlier one of its lane and channel between the bus
\* and the platform, whatever fails, is retried or is cancelled on the way.
THEOREM OrderKept == Spec => []PipelineOrder
<1>1. IInv => PipelineOrder
  BY DEF IInv
<1>2. QED
  BY <1>1, Inductive, PTL
-----------------------------------------------------------------------------
(* The order of the shutdown: StopAll stops a channel only after every     *)
(* worker of its lane has exited, and no worker comes back.                *)

StopOrder ==
    /\ \A w \in Workers : w[2] \notin served => wpc[w] = "off"
    /\ main \in {"mediaClosed", "stopped", "exited"} =>
          \A w \in Workers : w[1] = "text" => wpc[w] \in {"off", "exited"}
    /\ main \in {"stopped", "exited"} =>
          \A w \in Workers : w[1] = "media" => wpc[w] \in {"off", "exited"}

\* A worker's step is the step of a worker that runs, and leaves the others,
\* the started channels and the shutdown alone.
LEMMA WorkerMoves ==
  ASSUME TypeOK, NEW w \in Workers, Worker(w)
  PROVE  /\ wpc[w] \notin {"off", "exited"}
         /\ \A v \in Workers \ {w} : wpc'[v] = wpc[v]
         /\ UNCHANGED <<main, served>>
  BY DEF TypeOK, Worker, Receive, WorkerExits, LimiterWait, NoPlaceholder, EditPlaceholder, Send,
         RetryAfterDelay, RetryCancelled, NextChunk, workVars

\* StopOrder is kept by every step.
LEMMA StopOrderStep == TypeInv /\ StopOrder /\ [Next]_vars => StopOrder'
<1> SUFFICES ASSUME TypeInv, StopOrder, [Next]_vars PROVE StopOrder'
  OBVIOUS
<1> USE DEF StopOrder
<1>1. CASE UNCHANGED <<main, served, wpc>>
  BY <1>1
<1>2. ASSUME NEW w \in Workers, Worker(w) PROVE StopOrder'
  <2>1. /\ wpc[w] \notin {"off", "exited"}
        /\ \A v \in Workers \ {w} : wpc'[v] = wpc[v]
        /\ UNCHANGED <<main, served>>
    BY <1>2, WorkerMoves DEF TypeInv
  <2>2. w[1] \in {"text", "media"}
    BY DEF Workers, Lanes
  <2>3. QED
    BY <2>1, <2>2
<1>3. CASE StartAll
  BY <1>3 DEF StartAll, TypeInv, TypeOK
<1>4. CASE StopAllClosesMedia
  <2>1. \A w \in Workers : w[1] = "text" => w = <<"text", w[2]>>
    BY DEF Workers
  <2>2. \A w \in Workers : w[1] = "text" => wpc[w] \in {"off", "exited"}
    BY <1>4, <2>1 DEF StopAllClosesMedia, WorkersExited
  <2>3. QED
    BY <1>4, <2>2 DEF StopAllClosesMedia, workVars
<1>5. CASE StopAllStopsChannels
  <2>1. \A w \in Workers : w[1] = "media" => w = <<"media", w[2]>>
    BY DEF Workers
  <2>2. \A w \in Workers : w[1] = "media" => wpc[w] \in {"off", "exited"}
    BY <1>5, <2>1 DEF StopAllStopsChannels, WorkersExited
  <2>3. QED
    BY <1>5, <2>2 DEF StopAllStopsChannels, workVars
<1>6. CASE \/ CancelContext \/ CloseSetsFlag \/ CloseDone \/ CloseDrains
           \/ StopAllClosesText \/ ProcessExits
  BY <1>6 DEF CancelContext, CloseSetsFlag, CloseDone, CloseDrains, Drain, StopAllClosesText,
              ProcessExits, workVars
<1>7. ASSUME NEW p \in Publishers, Publisher(p) PROVE StopOrder'
  BY <1>7 DEF Publisher, PublishCheck, PublishAccept, PublishRefused, workVars
<1>8. ASSUME NEW l \in Lanes, Dispatcher(l) PROVE StopOrder'
  BY <1>8 DEF Dispatcher, Take, SubscribeEnds, Lookup, Enqueue, EnqueueCancelled, EnqueuePanics, workVars
<1>9. QED
  BY <1>1, <1>2, <1>3, <1>4, <1>5, <1>6, <1>7, <1>8 DEF Next, Shutdown, Gone, vars, workVars

\* Channel.Stop is called only after every worker of the channel has exited:
\* no Send can still be running in it, or start later.
THEOREM StoppedForGood == Spec => []NoSendAfterStop
<1>1. Init => StopOrder
  BY DEF Init, StopOrder, Workers
<1>2. TypeInv /\ StopOrder => NoSendAfterStop
  <2> SUFFICES ASSUME TypeInv, StopOrder, main \in {"stopped", "exited"}, NEW w \in Workers
               PROVE  wpc[w] \in {"off", "exited"}
    BY DEF NoSendAfterStop
  <2>1. w[1] \in {"text", "media"}
    BY DEF Workers, Lanes
  <2>2. QED
    BY <2>1 DEF StopOrder
<1>3. QED
  BY <1>1, <1>2, TypeInit, TypeStep, StopOrderStep, PTL DEF Spec

-----------------------------------------------------------------------------
(* The path implements Delivery.  The mapping needs to know where a reply  *)
(* can be (Addressed), and how the last hand-over of a worker relates to   *)
(* the chunk it is at (HandOvers).                                         *)

\* Replies are where their lane and channel put them; only started channels have replies
\* in their queues.
AddressedLane(l) ==
    /\ \A m \in Entries(busq[l]) : m.lane = l
    /\ dmsg[l] # NoMsg => dmsg[l].lane = l
    /\ dpc[l] = "enqueue" => dmsg[l].chan \in served

AddressedWorker(w) ==
    /\ \A m \in Entries(queue[w]) : m.lane = w[1] /\ m.chan = w[2]
    /\ wmsg[w] # NoMsg => wmsg[w].lane = w[1] /\ wmsg[w].chan = w[2] /\ w \in ServedRoutes
    /\ w[2] \notin served => Entries(queue[w]) = {}

Addressed == /\ main = "boot" => served = {}
             /\ \A l \in Lanes : AddressedLane(l)
             /\ \A w \in Workers : AddressedWorker(w)

\* How the last hand-over of a worker relates to the chunk it is at: the chunk was not
\* handed over yet, and follows the one that was; or it was, at most k times.
Fresh(w)    == \/ tried[w].id < wmsg[w].id /\ part[w] = 1
               \/ tried[w].id = wmsg[w].id /\ tried[w].part + 1 = part[w]
Again(w, k) == tried[w].id = wmsg[w].id /\ tried[w].part = part[w] /\ tried[w].n \in 1..k

HandedControl(w) ==
    /\ wpc[w] = "limit" /\ ~CtxDone => Fresh(w)
    /\ wpc[w] = "presend" => Fresh(w)
    /\ wpc[w] = "send" => Fresh(w) \/ Again(w, attempt[w] + 1)
    /\ wpc[w] = "wait" => Again(w, attempt[w] + 2)
HandOvers == \A w \in Workers : HandedControl(w)

-----------------------------------------------------------------------------
\* What taking the head off a queue and appending to it do to the set of its entries.
LEMMA EntriesFacts ==
  /\ Entries(<<>>) = {}
  /\ \A s \in Seq(Message) : Entries(s) \subseteq Message
  /\ \A s \in Seq(Message) : s # <<>> => /\ Entries(s) = Entries(Tail(s)) \cup {Head(s)}
                                         /\ Head(s) \in Message
  /\ \A s \in Seq(Message), m \in Message : Entries(Append(s, m)) = Entries(s) \cup {m}
<1>1. Entries(<<>>) = {}
  BY DEF Entries
<1>2. ASSUME NEW s \in Seq(Message) PROVE Entries(s) \subseteq Message
  BY DEF Entries
<1>3. ASSUME NEW s \in Seq(Message), s # <<>>
      PROVE  Entries(s) = Entries(Tail(s)) \cup {Head(s)} /\ Head(s) \in Message
  <2>1. /\ Len(s) \in Nat /\ Len(s) > 0 /\ DOMAIN s = 1..Len(s)
        /\ DOMAIN Tail(s) = 1..Len(s) - 1
        /\ \A i \in DOMAIN Tail(s) : Tail(s)[i] = s[i + 1]
        /\ Head(s) = s[1] /\ Head(s) \in Message
    BY <1>3
  <2>2. ASSUME NEW i \in DOMAIN s PROVE s[i] \in Entries(Tail(s)) \cup {Head(s)}
    <3>1. CASE i = 1
      BY <2>1, <3>1
    <3>2. CASE i # 1
      <4>1. i - 1 \in DOMAIN Tail(s) /\ Tail(s)[i - 1] = s[i]
        BY <2>1, <3>2
      <4>2. QED
        BY <4>1 DEF Entries
    <3>3. QED
      BY <3>1, <3>2
  <2>3. ASSUME NEW i \in DOMAIN Tail(s) PROVE Tail(s)[i] \in Entries(s)
    <3>1. i + 1 \in DOMAIN s /\ Tail(s)[i] = s[i + 1]
      BY <2>1
    <3>2. QED
      BY <3>1 DEF Entries
  <2>4. Head(s) \in Entries(s)
    BY <2>1 DEF Entries
  <2>5. QED
    BY <2>1, <2>2, <2>3, <2>4 DEF Entries
<1>4. ASSUME NEW s \in Seq(Message), NEW m \in Message
      PROVE  Entries(Append(s, m)) = Entries(s) \cup {m}
  <2>1. /\ Len(s) \in Nat /\ DOMAIN s = 1..Len(s)
        /\ DOMAIN Append(s, m) = 1..Len(s) + 1
        /\ Append(s, m)[Len(s) + 1] = m
        /\ \A i \in 1..Len(s) : Append(s, m)[i] = s[i]
    OBVIOUS
  <2>2. \A i \in DOMAIN Append(s, m) : Append(s, m)[i] \in Entries(s) \cup {m}
    BY <2>1 DEF Entries
  <2>3. \A i \in DOMAIN s : i \in DOMAIN Append(s, m) /\ s[i] = Append(s, m)[i]
    BY <2>1
  <2>4. Len(s) + 1 \in DOMAIN Append(s, m)
    BY <2>1
  <2>5. QED
    BY <2>1, <2>2, <2>3, <2>4 DEF Entries
<1>5. QED
  BY <1>1, <1>2, <1>3, <1>4

\* The queues are sequences of replies.
LEMMA QueuesType ==
  ASSUME TypeInv
  PROVE  /\ \A l \in Lanes : busq[l] \in Seq(Message) /\ Entries(busq[l]) \subseteq Message
         /\ \A w \in Workers : queue[w] \in Seq(Message) /\ Entries(queue[w]) \subseteq Message
BY EntriesFacts DEF TypeInv, TypeOK

\* The bus accepts the reply of a waiting publisher: it is a reply, and is in its lane.
LEMMA AcceptEntries ==
  ASSUME TypeInv, NEW p \in Publishers, PublishAccept(p)
  PROVE  /\ pub[p].lane \in Lanes /\ next \in 1..MaxMsgs
         /\ [id |-> next, lane |-> pub[p].lane, chan |-> pub[p].chan, parts |-> pub[p].parts] \in Message
         /\ \A l \in Lanes : Entries(busq'[l]) = Entries(busq[l]) \cup
               (IF l = pub[p].lane
                THEN {[id |-> next, lane |-> pub[p].lane, chan |-> pub[p].chan, parts |-> pub[p].parts]}
                ELSE {})
<1> DEFINE m == [id |-> next, lane |-> pub[p].lane, chan |-> pub[p].chan, parts |-> pub[p].parts]
<1>1. /\ Cardinality(Waiting') = Cardinality(Waiting) - 1
      /\ Cardinality(Waiting) >= 1
  BY WaitingShrinks DEF PublishAccept, TypeInv
<1>2. next \in 1..MaxMsgs
  BY <1>1, WaitingFinite, ConstantsAssumption DEF Budget, TypeOK, TypeInv, ConstantsAssumption
<1>3. pub[p] \in Request
  BY DEF PublishAccept, TypeOK, TypeInv
<1>4. m \in Message /\ pub[p].lane \in Lanes
  BY <1>2, <1>3 DEF Message, Request
<1>5. busq' = [busq EXCEPT ![pub[p].lane] = Append(busq[pub[p].lane], m)]
  BY DEF PublishAccept
<1> HIDE DEF m
<1>6. \A l \in Lanes : Entries(busq'[l]) = Entries(busq[l]) \cup (IF l = pub[p].lane THEN {m} ELSE {})
  <2>1. \A l \in Lanes : busq'[l] = IF l = pub[p].lane THEN Append(busq[l], m) ELSE busq[l]
    BY <1>4, <1>5 DEF TypeInv, TypeOK
  <2>2. \A l \in Lanes : Entries(Append(busq[l], m)) = Entries(busq[l]) \cup {m}
    BY <1>4, QueuesType, EntriesFacts
  <2>3. QED
    BY <2>1, <2>2
<1>7. QED
  BY <1>2, <1>4, <1>6 DEF m

\* The head leaves the queue of a lane of the bus.
LEMMA BusTail ==
  ASSUME TypeInv, NEW l \in Lanes, busq[l] # <<>>, busq' = [busq EXCEPT ![l] = Tail(@)]
  PROVE  /\ Head(busq[l]) \in Message
         /\ Entries(busq[l]) = Entries(busq'[l]) \cup {Head(busq[l])}
         /\ \A k \in Lanes \ {l} : busq'[k] = busq[k]
BY QueuesType, EntriesFacts DEF TypeInv, TypeOK

\* The head leaves the queue of a worker.
LEMMA QueueTail ==
  ASSUME TypeInv, NEW w \in Workers, Receive(w)
  PROVE  /\ Head(queue[w]) \in Message
         /\ Entries(queue[w]) = Entries(queue'[w]) \cup {Head(queue[w])}
         /\ \A v \in Workers \ {w} : queue'[v] = queue[v]
BY QueuesType, EntriesFacts DEF Receive, TypeInv, TypeOK

\* A dispatcher puts the reply it holds into the queue of its lane and channel.
LEMMA EnqueueEntries ==
  ASSUME TypeInv, NEW l \in Lanes, Enqueue(l)
  PROVE  /\ dmsg[l] \in Message /\ <<l, dmsg[l].chan>> \in Workers
         /\ \A w \in Workers : Entries(queue'[w]) = Entries(queue[w]) \cup
               (IF w = <<l, dmsg[l].chan>> THEN {dmsg[l]} ELSE {})
<1> DEFINE v == <<l, dmsg[l].chan>>
<1>1. dmsg[l] \in Message /\ v \in Workers
  BY DEF Enqueue, TypeInv, Control, DispatcherControl, Workers
<1>2. queue' = [queue EXCEPT ![v] = Append(queue[v], dmsg[l])]
  BY DEF Enqueue
<1> HIDE DEF v
<1>3. \A w \in Workers : queue'[w] = IF w = v THEN Append(queue[w], dmsg[l]) ELSE queue[w]
  BY <1>1, <1>2 DEF TypeInv, TypeOK
<1>4. \A w \in Workers : Entries(Append(queue[w], dmsg[l])) = Entries(queue[w]) \cup {dmsg[l]}
  BY <1>1, QueuesType, EntriesFacts
<1>5. \A w \in Workers : Entries(queue'[w]) = Entries(queue[w]) \cup (IF w = v THEN {dmsg[l]} ELSE {})
  BY <1>3, <1>4
<1>6. QED
  BY <1>1, <1>5 DEF v

-----------------------------------------------------------------------------
\* Every step keeps the replies where they belong.
LEMMA AddressedStep == TypeInv /\ StopOrder /\ Addressed /\ [Next]_vars => Addressed'
<1> SUFFICES ASSUME TypeInv, StopOrder, Addressed, [Next]_vars PROVE Addressed'
  OBVIOUS
<1> USE NoMsgFacts
<1>1. CASE UNCHANGED <<main, served, busq, dpc, dmsg, queue, wmsg>>
  BY <1>1 DEF Addressed, AddressedLane, AddressedWorker, ServedRoutes
<1>2. ASSUME NEW p \in Publishers, PublishAccept(p) PROVE Addressed'
  <2>1. UNCHANGED <<main, served, dpc, dmsg, queue, wmsg>>
    BY <1>2 DEF PublishAccept, dispVars, workVars
  <2>2. ASSUME NEW l \in Lanes, NEW m \in Entries(busq'[l]) PROVE m.lane = l
    <3> DEFINE new == [id |-> next, lane |-> pub[p].lane, chan |-> pub[p].chan, parts |-> pub[p].parts]
    <3>1. new.lane = pub[p].lane
      OBVIOUS
    <3>2. Entries(busq'[l]) = Entries(busq[l]) \cup (IF l = pub[p].lane THEN {new} ELSE {})
      BY <1>2, AcceptEntries
    <3> HIDE DEF new
    <3>3. QED
      BY <3>1, <3>2 DEF Addressed, AddressedLane
  <2>3. QED
    BY <2>1, <2>2 DEF Addressed, AddressedLane, AddressedWorker, ServedRoutes
<1>3. ASSUME NEW l \in Lanes, Take(l) PROVE Addressed'
  <2>1. UNCHANGED <<main, served, queue, wmsg>>
    BY <1>3 DEF Take, workVars
  <2>2. /\ Head(busq[l]) \in Message
        /\ Entries(busq[l]) = Entries(busq'[l]) \cup {Head(busq[l])}
        /\ \A k \in Lanes \ {l} : busq'[k] = busq[k]
    BY <1>3, BusTail DEF Take
  <2>3. \A k \in Lanes : /\ dmsg'[k] = dmsg[k] \/ (k = l /\ dmsg'[k] = Head(busq[k]))
                         /\ dpc'[k] = "enqueue" => dpc[k] = "enqueue" /\ dmsg'[k] = dmsg[k]
    BY <1>3 DEF Take, dispVars, TypeInv, TypeOK
  <2>4. \A k \in Lanes : AddressedLane(k)'
    BY <2>1, <2>2, <2>3 DEF Addressed, AddressedLane
  <2>5. QED
    BY <2>1, <2>4 DEF Addressed, AddressedWorker, ServedRoutes
<1>4. ASSUME NEW l \in Lanes, Lookup(l) \/ EnqueueCancelled(l) \/ SubscribeEnds(l) PROVE Addressed'
  <2>1. UNCHANGED <<main, served, busq, queue, wmsg>>
    BY <1>4 DEF Lookup, EnqueueCancelled, SubscribeEnds, busVars, workVars
  <2>2. \A k \in Lanes : /\ dmsg'[k] = dmsg[k] \/ dmsg'[k] = NoMsg
                         /\ dpc'[k] = "enqueue" => /\ dmsg'[k] = dmsg[k]
                                                   /\ dpc[k] = "enqueue" \/ dmsg[k].chan \in served
    BY <1>4 DEF Lookup, EnqueueCancelled, SubscribeEnds, TypeInv, TypeOK
  <2>3. \A k \in Lanes : AddressedLane(k)'
    BY <2>1, <2>2 DEF Addressed, AddressedLane
  <2>4. QED
    BY <2>1, <2>3 DEF Addressed, AddressedWorker, ServedRoutes
<1>5. ASSUME NEW l \in Lanes, Enqueue(l) PROVE Addressed'
  <2>1. UNCHANGED <<main, served, busq, wmsg>>
    BY <1>5 DEF Enqueue, busVars, workVars
  <2>2. \A k \in Lanes : /\ dmsg'[k] = dmsg[k] \/ dmsg'[k] = NoMsg
                         /\ dpc'[k] = "enqueue" => dpc[k] = "enqueue" /\ dmsg'[k] = dmsg[k]
    BY <1>5 DEF Enqueue, TypeInv, TypeOK
  <2>3. \A k \in Lanes : AddressedLane(k)'
    BY <2>1, <2>2 DEF Addressed, AddressedLane
  <2>4. dmsg[l].lane = l /\ dmsg[l].chan \in served
    BY <1>5, EnqueueEntries DEF Addressed, AddressedLane, Enqueue
  <2>5. ASSUME NEW w \in Workers PROVE AddressedWorker(w)'
    <3>1. CASE w = <<l, dmsg[l].chan>>
      <4>1. w[1] = l /\ w[2] = dmsg[l].chan
        BY <3>1
      <4>2. Entries(queue'[w]) = Entries(queue[w]) \cup {dmsg[l]}
        BY <1>5, <3>1, EnqueueEntries
      <4>3. QED
        BY <2>1, <2>4, <4>1, <4>2 DEF Addressed, AddressedWorker, ServedRoutes
    <3>2. CASE w # <<l, dmsg[l].chan>>
      <4>1. Entries(queue'[w]) = Entries(queue[w])
        BY <1>5, <3>2, EnqueueEntries
      <4>2. QED
        BY <2>1, <4>1 DEF Addressed, AddressedWorker, ServedRoutes
    <3>3. QED
      BY <3>1, <3>2
  <2>6. QED
    BY <2>1, <2>3, <2>5 DEF Addressed
<1>6. ASSUME NEW w \in Workers, Receive(w) PROVE Addressed'
  <2>1. UNCHANGED <<main, served, busq, dpc, dmsg>>
    BY <1>6 DEF Receive, busVars, dispVars
  <2>2. /\ Head(queue[w]) \in Message
        /\ Entries(queue[w]) = Entries(queue'[w]) \cup {Head(queue[w])}
        /\ \A v \in Workers \ {w} : queue'[v] = queue[v]
    BY <1>6, QueueTail
  <2>3. w[2] \in served
    BY <1>6 DEF Receive, StopOrder
  <2>4. \A v \in Workers : \/ wmsg'[v] = wmsg[v]
                           \/ v = w /\ wmsg'[v] = Head(queue[v]) /\ v \in ServedRoutes
    BY <1>6, <2>3 DEF Receive, workVars, ServedRoutes, TypeInv, TypeOK
  <2>5. \A v \in Workers : AddressedWorker(v)'
    BY <2>1, <2>2, <2>3, <2>4 DEF Addressed, AddressedWorker, ServedRoutes
  <2>6. QED
    BY <2>1, <2>5 DEF Addressed, AddressedLane
<1>7. ASSUME NEW w \in Workers, Worker(w), ~Receive(w) PROVE Addressed'
  <2>1. UNCHANGED <<main, served, busq, dpc, dmsg, queue>>
    BY <1>7 DEF Worker, WorkerExits, LimiterWait, NoPlaceholder, EditPlaceholder, Send,
                RetryAfterDelay, RetryCancelled, busVars, dispVars
  <2>2. \A v \in Workers : wmsg'[v] = wmsg[v] \/ wmsg'[v] = NoMsg
    BY <1>7 DEF Worker, WorkerExits, LimiterWait, NoPlaceholder, EditPlaceholder, Send,
                RetryAfterDelay, RetryCancelled, NextChunk, TypeInv, TypeOK
  <2>3. QED
    BY <2>1, <2>2 DEF Addressed, AddressedLane, AddressedWorker, ServedRoutes
<1>8. CASE StartAll
  <2>1. /\ UNCHANGED <<busq, dmsg, queue, wmsg>> /\ main' = "up" /\ served = {}
        /\ \A k \in Lanes : dpc'[k] # "enqueue"
    BY <1>8 DEF StartAll, busVars, Addressed
  <2>2. \A w \in Workers : wmsg[w] = NoMsg /\ Entries(queue[w]) = {}
    BY <1>8, <2>1 DEF StartAll, TypeInv, Control, BootControl, WorkerControl, Addressed, AddressedWorker
  <2>3. QED
    BY <2>1, <2>2 DEF Addressed, AddressedLane, AddressedWorker, ServedRoutes
<1>9. ASSUME NEW l \in Lanes, NEW here, NEW then \in Phases \ {"boot"}, Drain(l, here, then)
      PROVE  Addressed'
  <2>1. UNCHANGED <<served, dpc, dmsg, queue, wmsg>> /\ (main' = main \/ main' # "boot")
    BY <1>9 DEF Drain, dispVars, workVars
  <2>2. \A k \in Lanes : Entries(busq'[k]) \subseteq Entries(busq[k])
    BY <1>9, BusTail DEF Drain
  <2>3. QED
    BY <2>1, <2>2 DEF Addressed, AddressedLane, AddressedWorker, ServedRoutes
<1>10. CASE CloseDrains
  BY <1>9, <1>10 DEF CloseDrains, Lanes, Phases
<1>11. ASSUME UNCHANGED <<served, busq, dpc, dmsg, queue, wmsg>>, main' # "boot" PROVE Addressed'
  BY <1>11 DEF Addressed, AddressedLane, AddressedWorker, ServedRoutes
<1>12. ASSUME NEW l \in Lanes, EnqueuePanics(l) PROVE Addressed'
  BY <1>11, <1>12 DEF EnqueuePanics, busVars, dispVars, workVars
<1>13. CASE CancelContext \/ (Shutdown /\ ~CloseDrains)
  BY <1>11, <1>13 DEF CancelContext, Shutdown, CloseSetsFlag, CloseDone, StopAllClosesText,
       StopAllClosesMedia, StopAllStopsChannels, ProcessExits, busVars, dispVars, workVars
<1>14. ASSUME NEW p \in Publishers, Publisher(p) PROVE Addressed'
  BY <1>1, <1>2, <1>14 DEF Publisher, PublishCheck, PublishRefused, dispVars, workVars
<1>15. QED
  BY <1>1, <1>3, <1>4, <1>5, <1>6, <1>7, <1>8, <1>10, <1>12, <1>13, <1>14
     DEF Next, Dispatcher, Gone, vars, busVars, dispVars, workVars

\* The worker of a chunk moves on: the next one follows a chunk that was handed over, unless
\* the context is cancelled.
LEMMA HandOversStep == TypeInv /\ PipelineOrder /\ HandOvers /\ [Next]_vars => HandOvers'
<1> SUFFICES ASSUME TypeInv, PipelineOrder, HandOvers, [Next]_vars, NEW w \in Workers
             PROVE  HandedControl(w)'
  BY DEF HandOvers
<1> USE DEF HandedControl
<1>1. HandedControl(w) /\ WorkerControl(w) /\ RouteOrder(w)
  BY DEF HandOvers, TypeInv, Control, PipelineOrder
<1>2. CtxDone => CtxDone'
  BY DEF Next, CtxDone, Publisher, PublishCheck, PublishAccept, PublishRefused, Dispatcher, Take,
         SubscribeEnds, Lookup, Enqueue, EnqueueCancelled, EnqueuePanics, Worker, Receive, WorkerExits,
         LimiterWait, NoPlaceholder, EditPlaceholder, Send, RetryAfterDelay, RetryCancelled,
         StartAll, CancelContext, Shutdown, CloseSetsFlag, CloseDone, CloseDrains, Drain,
         StopAllClosesText, StopAllClosesMedia, StopAllStopsChannels, ProcessExits, Gone, vars
<1>3. CASE wpc'[w] = wpc[w] /\ wmsg'[w] = wmsg[w] /\ part'[w] = part[w] /\ attempt'[w] = attempt[w]
           /\ tried'[w] = tried[w]
  BY <1>1, <1>2, <1>3 DEF Fresh, Again
<1>4. CASE wpc'[w] \in {"off", "recv", "exited"}
  BY <1>4
<1>5. /\ part[w] \in Nat /\ attempt[w] \in Nat /\ wmsg[w] \in Message \cup {NoMsg}
      /\ tried[w] \in [id : 0..MaxMsgs, part : 0..MaxParts, n : Nat]
      /\ wpc \in [Workers -> {"off", "recv", "limit", "presend", "send", "wait", "exited"}]
      /\ wmsg \in [Workers -> Message \cup {NoMsg}]
      /\ part \in [Workers -> 0..MaxParts]
      /\ attempt \in [Workers -> 0..MaxRetries]
      /\ tried \in [Workers -> [id: 0..MaxMsgs, part: 0..MaxParts, n: Nat]]
  BY ConstantsAssumption DEF TypeInv, TypeOK, ConstantsAssumption
<1>6. ASSUME NextChunk(w)
      PROVE  \/ wpc'[w] = "recv"
             \/ wpc'[w] = "limit" /\ part'[w] = part[w] + 1 /\ wmsg'[w] = wmsg[w]
  BY <1>5, <1>6 DEF NextChunk
<1>7. ASSUME HandedOver(w), wpc[w] \in {"presend", "send"}
      PROVE  /\ tried'[w].id = wmsg[w].id /\ tried'[w].part = part[w]
             /\ tried'[w].n \in 1..attempt[w] + 2
             /\ wpc[w] = "presend" => tried'[w].n = 1
  <2>1. /\ tried'[w].id = wmsg[w].id /\ tried'[w].part = part[w]
        /\ tried'[w].n = IF tried[w].id = wmsg[w].id /\ tried[w].part = part[w]
                         THEN tried[w].n + 1 ELSE 1
    BY <1>5, <1>7 DEF HandedOver
  <2>2. Fresh(w) => ~(tried[w].id = wmsg[w].id /\ tried[w].part = part[w])
    BY <1>5, NoMsgFacts DEF Fresh, Message
  <2>3. QED
    BY <1>1, <1>5, <1>7, <2>1, <2>2 DEF Again
<1>8. CASE Receive(w)
  <2>1. CASE UNCHANGED workVars
    BY <1>3, <2>1 DEF workVars
  <2>2. CASE ~UNCHANGED workVars
    <3>1. wpc'[w] = "limit" /\ wmsg'[w] = Head(queue[w]) /\ part'[w] = 1 /\ tried'[w] = tried[w]
      BY <1>5, <1>8, <2>2 DEF Receive
    <3>2. Head(queue[w]) = queue[w][1] /\ 1 \in DOMAIN queue[w]
      BY <1>8 DEF Receive, TypeInv, TypeOK
    <3>3. QED
      BY <1>1, <3>1, <3>2 DEF RouteOrder, Fresh
  <2>3. QED
    BY <2>1, <2>2
<1>9. CASE WorkerExits(w)
  BY <1>4, <1>5, <1>9 DEF WorkerExits
<1>10. CASE LimiterWait(w)
  <2>1. CASE CtxDone
    BY <1>2, <1>6, <1>10, <2>1 DEF LimiterWait
  <2>2. CASE ~CtxDone
    <3>1. /\ wpc[w] = "limit" /\ wpc'[w] \in {"presend", "send"}
          /\ wmsg'[w] = wmsg[w] /\ part'[w] = part[w] /\ tried'[w] = tried[w]
      BY <1>5, <1>10, <2>2 DEF LimiterWait
    <3>2. QED
      BY <1>1, <2>2, <3>1 DEF Fresh
  <2>3. QED
    BY <2>1, <2>2
<1>11. CASE NoPlaceholder(w)
  <2>1. /\ wpc[w] = "presend" /\ wpc'[w] = "send"
        /\ wmsg'[w] = wmsg[w] /\ part'[w] = part[w] /\ tried'[w] = tried[w]
    BY <1>5, <1>11 DEF NoPlaceholder
  <2>2. QED
    BY <1>1, <2>1 DEF Fresh
<1>12. CASE EditPlaceholder(w)
  <2>1. /\ wpc[w] = "presend"
        /\ tried'[w].id = wmsg[w].id /\ tried'[w].part = part[w] /\ tried'[w].n = 1
    BY <1>7, <1>12 DEF EditPlaceholder
  <2>2. CASE NextChunk(w)
    BY <1>4, <1>6, <2>1, <2>2 DEF Fresh
  <2>3. CASE wpc' = [wpc EXCEPT ![w] = "send"] /\ UNCHANGED <<wmsg, part, attempt>>
    BY <1>5, <2>1, <2>3 DEF Again
  <2>4. QED
    BY <1>12, <2>2, <2>3 DEF EditPlaceholder
<1>13. CASE Send(w)
  <2>1. /\ wpc[w] = "send" /\ tried'[w].id = wmsg[w].id /\ tried'[w].part = part[w]
        /\ tried'[w].n \in 1..attempt[w] + 2
    BY <1>7, <1>13 DEF Send
  <2>2. CASE NextChunk(w)
    BY <1>4, <1>6, <2>1, <2>2 DEF Fresh
  <2>3. CASE wpc' = [wpc EXCEPT ![w] = "wait"] /\ UNCHANGED <<wmsg, part, attempt>>
    BY <1>5, <2>1, <2>3 DEF Again
  <2>4. QED
    BY <1>13, <2>2, <2>3 DEF Send
<1>14. CASE RetryAfterDelay(w)
  <2>1. /\ wpc[w] = "wait" /\ wpc'[w] = "send" /\ attempt'[w] = attempt[w] + 1
        /\ wmsg'[w] = wmsg[w] /\ part'[w] = part[w] /\ tried'[w] = tried[w]
    BY <1>5, <1>14 DEF RetryAfterDelay
  <2>2. attempt[w] + 2 = attempt'[w] + 1
    BY <1>5, <2>1
  <2>3. Again(w, attempt[w] + 2)
    BY <1>1, <2>1
  <2>4. QED
    BY <2>1, <2>2, <2>3 DEF Again
<1>15. CASE RetryCancelled(w)
  BY <1>2, <1>6, <1>15 DEF RetryCancelled
<1>16. ASSUME NEW v \in Workers \ {w}, Worker(v) PROVE HandedControl(w)'
  <2>1. /\ wpc'[w] = wpc[w] /\ wmsg'[w] = wmsg[w] /\ part'[w] = part[w]
        /\ attempt'[w] = attempt[w] /\ tried'[w] = tried[w]
    BY <1>5, <1>16 DEF Worker, Receive, WorkerExits, LimiterWait, NoPlaceholder, EditPlaceholder, Send,
                RetryAfterDelay, RetryCancelled, NextChunk, HandedOver, workVars
  <2>2. QED
    BY <1>3, <2>1
<1>17. CASE StartAll
  BY <1>4, <1>17 DEF StartAll
<1>18. CASE UNCHANGED workVars
  BY <1>3, <1>18 DEF workVars
<1>19. ASSUME NEW p \in Publishers, Publisher(p) PROVE HandedControl(w)'
  BY <1>18, <1>19 DEF Publisher, PublishCheck, PublishAccept, PublishRefused
<1>20. ASSUME NEW l \in Lanes, Dispatcher(l) PROVE HandedControl(w)'
  BY <1>18, <1>20 DEF Dispatcher, Take, SubscribeEnds, Lookup, Enqueue, EnqueueCancelled, EnqueuePanics
<1>21. CASE CancelContext \/ Shutdown
  BY <1>18, <1>21 DEF CancelContext, Shutdown, CloseSetsFlag, CloseDone, CloseDrains, Drain,
        StopAllClosesText, StopAllClosesMedia, StopAllStopsChannels, ProcessExits
<1>22. ASSUME Worker(w) PROVE HandedControl(w)'
  BY <1>8, <1>9, <1>10, <1>11, <1>12, <1>13, <1>14, <1>15, <1>22 DEF Worker
<1>23. QED
  BY <1>16, <1>17, <1>18, <1>19, <1>20, <1>21, <1>22 DEF Next, Gone, vars

-----------------------------------------------------------------------------
(* The steps of the promise.                                               *)

\* The last hand-over of each route, those without a worker included.
LastTried == [r \in Lanes \X Targets |->
                IF r \in Workers THEN tried[r] ELSE [id |-> 0, part |-> 0, n |-> 0]]

\* Where a reply that is held can be: on the bus, with a dispatcher, in a worker's queue or
\* with the worker.
Places(B, D, Q, W) == (UNION ({Entries(B[l]) \cup {D[l]} : l \in Lanes}
                              \cup {Entries(Q[w]) \cup {W[w]} : w \in Workers})) \ {NoMsg}

\* Membership in Places, spelled out.
LEMMA InPlaces ==
  ASSUME NEW B, NEW D, NEW Q, NEW W, NEW m
  PROVE  m \in Places(B, D, Q, W)
         <=> /\ m # NoMsg
             /\ \/ \E l \in Lanes : m \in Entries(B[l]) \/ m = D[l]
                \/ \E w \in Workers : m \in Entries(Q[w]) \/ m = W[w]
<1> DEFINE L == {Entries(B[l]) \cup {D[l]} : l \in Lanes}
           R == {Entries(Q[w]) \cup {W[w]} : w \in Workers}
<1>1. m \in UNION L <=> \E l \in Lanes : m \in Entries(B[l]) \/ m = D[l]
  OBVIOUS
<1>2. m \in UNION R <=> \E w \in Workers : m \in Entries(Q[w]) \/ m = W[w]
  OBVIOUS
<1>3. m \in UNION (L \cup R) <=> m \in UNION L \/ m \in UNION R
  OBVIOUS
<1>4. QED
  BY <1>1, <1>2, <1>3 DEF Places

\* The same of the replies held now ...
LEMMA HeldPlaces ==
  \A m : m \in Held <=> /\ m # NoMsg
                        /\ \/ \E l \in Lanes : m \in Entries(busq[l]) \/ m = dmsg[l]
                           \/ \E w \in Workers : m \in Entries(queue[w]) \/ m = wmsg[w]
<1>1. Held = Places(busq, dmsg, queue, wmsg)
  BY DEF Held, Places
<1>2. QED
  BY <1>1, InPlaces

\* ... and after a step.
LEMMA HeldPlacesNext ==
  \A m : m \in Held' <=> /\ m # NoMsg
                         /\ \/ \E l \in Lanes : m \in Entries(busq'[l]) \/ m = dmsg'[l]
                            \/ \E w \in Workers : m \in Entries(queue'[w]) \/ m = wmsg'[w]
<1>1. Held' = Places(busq', dmsg', queue', wmsg')
  BY DEF Held, Places
<1>2. QED
  BY <1>1, InPlaces

\* At most one reply leaves, from one of the places where it was.
LEMMA HeldShrinks ==
  ASSUME NEW h,
         \A l \in Lanes : /\ Entries(busq'[l]) \subseteq Entries(busq[l])
                          /\ Entries(busq[l]) \subseteq Entries(busq'[l]) \cup {h}
                          /\ dmsg'[l] = dmsg[l] \/ (dmsg'[l] = NoMsg /\ dmsg[l] = h),
         \A w \in Workers : /\ Entries(queue'[w]) \subseteq Entries(queue[w])
                            /\ Entries(queue[w]) \subseteq Entries(queue'[w]) \cup {h}
                            /\ wmsg'[w] = wmsg[w] \/ (wmsg'[w] = NoMsg /\ wmsg[w] = h)
  PROVE  Held' \in {Held, Held \ {h}}
<1>1. ASSUME NEW m \in Held' PROVE m \in Held
  BY HeldPlaces, HeldPlacesNext
<1>2. ASSUME NEW m \in Held, m # h PROVE m \in Held'
  <2>1. CASE \E l \in Lanes : m \in Entries(busq[l]) \/ m = dmsg[l]
    BY <1>2, <2>1, HeldPlaces, HeldPlacesNext
  <2>2. CASE \E w \in Workers : m \in Entries(queue[w]) \/ m = wmsg[w]
    BY <1>2, <2>2, HeldPlaces, HeldPlacesNext
  <2>3. QED
    BY <2>1, <2>2, HeldPlaces
<1>3. QED
  BY <1>1, <1>2

\* The initial states map to the initial state of the promise.
LEMMA PromiseInit == Init => Promise!Init
<1> SUFFICES ASSUME Init PROVE Promise!Init
  OBVIOUS
<1>1. Held = {}
  BY HeldPlaces, EntriesFacts DEF Init
<1>2. ServedRoutes = {} /\ CtxDone = FALSE
  BY DEF Init, ServedRoutes, CtxDone
<1>3. LastTried = [r \in Lanes \X Targets |-> [id |-> 0, part |-> 0, n |-> 0]]
  BY DEF Init, LastTried
<1>4. QED
  BY <1>1, <1>2, <1>3 DEF Promise!Init, Promise!Route, LastTried, Init

\* A step that changes nothing of what the promise is about.
LEMMA Quiet ==
  ASSUME UNCHANGED <<tried, next, served, CtxDone>>, Held' = Held
  PROVE  UNCHANGED Promise!vars
BY DEF Promise!vars, ServedRoutes

\* A step that lets one reply disappear after the context was cancelled.
LEMMA Loses ==
  ASSUME UNCHANGED <<tried, next, served, CtxDone>>, CtxDone, NEW m, Held' \in {Held, Held \ {m}}
  PROVE  [Promise!Next]_(Promise!vars)
<1>1. CASE Held' = Held
  BY <1>1, Quiet
<1>2. CASE m \in Held /\ Held' = Held \ {m}
  BY <1>2 DEF Promise!Next, Promise!Lose, ServedRoutes
<1>3. QED
  BY <1>1, <1>2

\* A step that lets go of the oldest reply of a route without a worker.
LEMMA LetsGo ==
  ASSUME UNCHANGED <<tried, next, served, CtxDone>>, NEW m, Promise!Oldest(m),
         <<m.lane, m.chan>> \notin ServedRoutes, Held' \in {Held, Held \ {m}}
  PROVE  [Promise!Next]_(Promise!vars)
<1>1. CASE Held' = Held
  BY <1>1, Quiet
<1>2. CASE m \in Held /\ Held' = Held \ {m}
  <2>1. Promise!LetGo(m)
    BY <1>2 DEF Promise!LetGo, Promise!RouteOf, ServedRoutes
  <2>2. QED
    BY <1>2, <2>1 DEF Promise!Next
<1>3. QED
  BY <1>1, <1>2

\* A step in which a worker hands a chunk over, and may let go of the reply after its last.
LEMMA HandsOver ==
  ASSUME TypeInv, Addressed, NEW w \in Workers, NEW m \in Message, m = wmsg[w], Promise!Oldest(m),
         NEW t \in [id : {m.id}, part : 1..m.parts, n : 1..MaxRetries + 2],
         Promise!Follows(m, tried[w], t), tried' = [tried EXCEPT ![w] = t],
         UNCHANGED <<next, served, CtxDone>>,
         Held' = Held \/ (t.part = m.parts /\ Held' = Held \ {m})
  PROVE  Promise!Next
<1>1. /\ m # NoMsg /\ m.lane = w[1] /\ m.chan = w[2] /\ w \in ServedRoutes
  BY NoMsgFacts DEF Addressed, AddressedWorker
<1>2. Promise!RouteOf(m) = w /\ w \in Lanes \X Targets
  BY <1>1 DEF Promise!RouteOf, Workers, Targets
<1>3. LastTried[w] = tried[w]
  BY <1>2 DEF LastTried
<1>4. LastTried' = [LastTried EXCEPT ![w] = t]
  BY <1>2 DEF LastTried, TypeInv, TypeOK
<1>5. Promise!Complete(m, t) <=> t.part = m.parts
  BY DEF Promise!Complete
<1>6. /\ UNCHANGED <<next, ServedRoutes, CtxDone>>
      /\ Held' \in {Held} \cup (IF Promise!Complete(m, t) THEN {Held \ {m}} ELSE {})
  BY <1>5 DEF ServedRoutes
<1>7. Promise!HandOver(m)
  BY <1>1, <1>2, <1>3, <1>4, <1>6 DEF Promise!HandOver, LastTried
<1>8. m \in Held
  BY DEF Promise!Oldest
<1>9. QED
  BY <1>7, <1>8 DEF Promise!Next

-----------------------------------------------------------------------------
(* What is oldest on its route.                                            *)

\* A reply held is on the bus lane, with the dispatcher or with the worker of its route.
LEMMA HeldOnRoute ==
  ASSUME TypeInv, Addressed, NEW o \in Held
  PROVE  /\ o \in Message /\ o.lane \in Lanes
         /\ \/ o \in Entries(busq[o.lane])
            \/ o = dmsg[o.lane]
            \/ /\ <<o.lane, o.chan>> \in Workers
               /\ o \in Entries(queue[<<o.lane, o.chan>>]) \/ o = wmsg[<<o.lane, o.chan>>]
<1>1. o # NoMsg
  BY HeldPlaces
<1>2. ASSUME NEW l \in Lanes, o \in Entries(busq[l]) \/ o = dmsg[l]
      PROVE  o \in Message /\ o.lane = l
  BY <1>1, <1>2, QueuesType DEF Addressed, AddressedLane, TypeInv, TypeOK
<1>3. ASSUME NEW w \in Workers, o \in Entries(queue[w]) \/ o = wmsg[w]
      PROVE  o \in Message /\ <<o.lane, o.chan>> = w
  <2>1. o \in Message /\ o.lane = w[1] /\ o.chan = w[2]
    BY <1>1, <1>3, QueuesType DEF Addressed, AddressedWorker, TypeInv, TypeOK
  <2>2. QED
    BY <2>1 DEF Workers
<1>4. o \in Message => o.lane \in Lanes
  BY DEF Message
<1>5. CASE \E l \in Lanes : o \in Entries(busq[l]) \/ o = dmsg[l]
  BY <1>2, <1>5
<1>6. CASE \E w \in Workers : o \in Entries(queue[w]) \/ o = wmsg[w]
  BY <1>3, <1>4, <1>6
<1>7. QED
  BY <1>5, <1>6, HeldPlaces

\* The head of an ordered queue is its oldest entry.
LEMMA HeadFirst ==
  ASSUME NEW s \in Seq(Message), s # <<>>, Increasing(s), NEW o \in Entries(s)
  PROVE  Head(s).id <= o.id
<1>1. PICK i \in DOMAIN s : o = s[i]
  BY DEF Entries
<1>2. 1 \in DOMAIN s /\ Head(s) = s[1] /\ i \in Nat /\ i >= 1 /\ s[1] \in Message /\ s[i] \in Message
  OBVIOUS
<1>3. CASE i = 1
  BY <1>1, <1>2, <1>3 DEF Message
<1>4. CASE i > 1
  BY <1>1, <1>2, <1>4 DEF Message, Increasing
<1>5. QED
  BY <1>2, <1>3, <1>4

\* What PipelineOrder says of the entries of a lane of the bus ...
LEMMA BusInOrder ==
  ASSUME TypeInv, PipelineOrder, NEW l \in Lanes, NEW o \in Entries(busq[l])
  PROVE  dmsg[l].id < o.id /\ Head(busq[l]).id <= o.id
<1>1. busq[l] \in Seq(Message) /\ busq[l] # <<>>
  BY EntriesFacts DEF TypeInv, TypeOK
<1>2. QED
  BY <1>1, HeadFirst DEF PipelineOrder, BusOrder, Entries

\* ... and of those of a route.
LEMMA RouteInOrder ==
  ASSUME TypeInv, PipelineOrder, NEW w \in Workers
  PROVE  /\ \A o \in Entries(queue[w]) : wmsg[w].id < o.id /\ Head(queue[w]).id <= o.id
         /\ dmsg[w[1]] # NoMsg => /\ wmsg[w].id < dmsg[w[1]].id
                                  /\ \A o \in Entries(queue[w]) : o.id < dmsg[w[1]].id
         /\ \A o \in Entries(busq[w[1]]) : /\ wmsg[w].id < o.id
                                           /\ \A q \in Entries(queue[w]) : q.id < o.id
<1>1. RouteOrder(w) /\ queue[w] \in Seq(Message)
  BY DEF PipelineOrder, TypeInv, TypeOK
<1>2. ASSUME NEW o \in Entries(queue[w]) PROVE wmsg[w].id < o.id /\ Head(queue[w]).id <= o.id
  <2>1. queue[w] # <<>>
    BY EntriesFacts
  <2>2. Head(queue[w]).id <= o.id
    BY <1>1, <2>1, HeadFirst DEF RouteOrder
  <2>3. QED
    BY <1>1, <2>2 DEF RouteOrder, Entries
<1>3. QED
  BY <1>1, <1>2 DEF RouteOrder, Entries

\* The reply a worker is sending is older than the others of its route.
LEMMA SendingIsOldest ==
  ASSUME TypeInv, PipelineOrder, Addressed, NEW w \in Workers, wmsg[w] \in Message
  PROVE  Promise!Oldest(wmsg[w])
<1>1. wmsg[w] # NoMsg /\ wmsg[w].lane = w[1] /\ wmsg[w].chan = w[2] /\ w = <<w[1], w[2]>>
  BY NoMsgFacts DEF Addressed, AddressedWorker, Workers
<1>2. wmsg[w] \in Held
  BY <1>1, HeldPlaces
<1>3. ASSUME NEW o \in Held, <<o.lane, o.chan>> = w PROVE wmsg[w].id <= o.id
  <2>1. /\ o \in Message /\ o.lane = w[1] /\ o # NoMsg
        /\ \/ o \in Entries(busq[w[1]]) \/ o = dmsg[w[1]]
           \/ o \in Entries(queue[w]) \/ o = wmsg[w]
    BY <1>1, <1>3, HeldOnRoute, NoMsgFacts
  <2>2. wmsg[w].id < o.id \/ o = wmsg[w]
    BY <2>1, RouteInOrder
  <2>3. QED
    BY <2>1, <2>2 DEF Message
<1>4. QED
  BY <1>1, <1>2, <1>3 DEF Promise!Oldest, Promise!RouteOf

\* So is the head of a worker's queue while the worker sends nothing, ...
LEMMA HeadIsOldest ==
  ASSUME TypeInv, PipelineOrder, Addressed, NEW w \in Workers, queue[w] # <<>>, wmsg[w] = NoMsg
  PROVE  Promise!Oldest(Head(queue[w])) /\ <<Head(queue[w]).lane, Head(queue[w]).chan>> = w
<1> DEFINE h == Head(queue[w])
<1>1. h \in Message /\ h \in Entries(queue[w])
  BY QueuesType, EntriesFacts
<1> HIDE DEF h
<1>2. h # NoMsg /\ h.lane = w[1] /\ h.chan = w[2] /\ w = <<w[1], w[2]>>
  BY <1>1, NoMsgFacts DEF Addressed, AddressedWorker, Workers
<1>3. h \in Held
  BY <1>1, <1>2, HeldPlaces
<1>4. ASSUME NEW o \in Held, <<o.lane, o.chan>> = w PROVE h.id <= o.id
  <2>1. /\ o \in Message /\ o.lane = w[1] /\ o # NoMsg
        /\ \/ o \in Entries(busq[w[1]]) \/ o = dmsg[w[1]] \/ o \in Entries(queue[w])
    BY <1>2, <1>4, HeldOnRoute, NoMsgFacts
  <2>2. h.id <= o.id \/ h.id < o.id
    BY <1>1, <2>1, RouteInOrder DEF h
  <2>3. QED
    BY <1>1, <2>1, <2>2 DEF Message
<1>5. QED
  BY <1>2, <1>3, <1>4 DEF Promise!Oldest, Promise!RouteOf, h

\* ... what a dispatcher holds for a channel that was not started, ...
LEMMA UnservedIsOldest ==
  ASSUME TypeInv, PipelineOrder, Addressed, NEW l \in Lanes, dmsg[l] \in Message,
         dmsg[l].chan \notin served
  PROVE  /\ Promise!Oldest(dmsg[l])
         /\ <<dmsg[l].lane, dmsg[l].chan>> \notin ServedRoutes
<1>1. dmsg[l] # NoMsg /\ dmsg[l].lane = l
  BY NoMsgFacts DEF Addressed, AddressedLane
<1>2. dmsg[l] \in Held
  BY <1>1, HeldPlaces
<1>3. <<l, dmsg[l].chan>> \notin ServedRoutes
  BY DEF ServedRoutes
<1>4. ASSUME NEW o \in Held, o.lane = l, o.chan = dmsg[l].chan PROVE dmsg[l].id <= o.id
  <2>1. ASSUME <<l, o.chan>> \in Workers
        PROVE  Entries(queue[<<l, o.chan>>]) = {} /\ wmsg[<<l, o.chan>>] = NoMsg
    BY <1>3, <1>4, <2>1 DEF Addressed, AddressedWorker
  <2>2. o \in Message /\ (o \in Entries(busq[l]) \/ o = dmsg[l])
    BY <1>4, <2>1, HeldOnRoute, NoMsgFacts
  <2>3. dmsg[l].id < o.id \/ o = dmsg[l]
    BY <2>2, BusInOrder
  <2>4. QED
    BY <2>2, <2>3 DEF Message
<1>5. QED
  BY <1>1, <1>2, <1>3, <1>4 DEF Promise!Oldest, Promise!RouteOf

\* ... and the head of the bus, if it is for an internal channel and the dispatcher is free.
LEMMA InternalIsOldest ==
  ASSUME TypeInv, PipelineOrder, Addressed, NEW l \in Lanes, busq[l] # <<>>, dmsg[l] = NoMsg,
         Head(busq[l]).chan \in Internal
  PROVE  /\ Promise!Oldest(Head(busq[l]))
         /\ <<Head(busq[l]).lane, Head(busq[l]).chan>> \notin ServedRoutes
<1> DEFINE h == Head(busq[l])
<1>1. h \in Message /\ h \in Entries(busq[l]) /\ h.chan \notin Channels
  BY QueuesType, EntriesFacts, ConstantsAssumption DEF ConstantsAssumption
<1> HIDE DEF h
<1>2. h # NoMsg /\ h.lane = l
  BY <1>1, NoMsgFacts DEF Addressed, AddressedLane
<1>3. h \in Held
  BY <1>1, <1>2, HeldPlaces
<1>4. <<l, h.chan>> \notin Workers
  BY <1>1 DEF Workers
<1>5. ASSUME NEW o \in Held, o.lane = l, o.chan = h.chan PROVE h.id <= o.id
  <2>1. o \in Entries(busq[l])
    BY <1>4, <1>5, HeldOnRoute, NoMsgFacts
  <2>2. QED
    BY <2>1, BusInOrder DEF h
<1>6. QED
  BY <1>2, <1>3, <1>4, <1>5 DEF Promise!Oldest, Promise!RouteOf, ServedRoutes, h

-----------------------------------------------------------------------------
(* Every step keeps the promise.                                           *)

KeepsPromise == [Promise!Next]_(Promise!vars)

\* The context depends only on how far the main goroutine has got.
LEMMA CtxStays == ASSUME main' = main PROVE CtxDone' = CtxDone
BY DEF CtxDone

\* Publishing a reply is accepting it.
LEMMA PublisherKeeps ==
  ASSUME TypeInv, NEW p \in Publishers, Publisher(p)
  PROVE  KeepsPromise
<1>1. UNCHANGED <<tried, served, CtxDone>>
  BY CtxStays DEF Publisher, PublishCheck, PublishAccept, PublishRefused, workVars
<1>2. CASE PublishAccept(p)
  <2> DEFINE new == [id |-> next, lane |-> pub[p].lane, chan |-> pub[p].chan, parts |-> pub[p].parts]
  <2>1. /\ pub[p].lane \in Lanes /\ next \in 1..MaxMsgs /\ new \in Message /\ new.id = next
        /\ \A l \in Lanes : Entries(busq'[l]) = Entries(busq[l]) \cup
                               (IF l = pub[p].lane THEN {new} ELSE {})
    BY <1>2, AcceptEntries
  <2> HIDE DEF new
  <2>2. UNCHANGED <<dmsg, queue, wmsg>> /\ next' = next + 1
    BY <1>2 DEF PublishAccept, dispVars, workVars
  <2>3. Held' = Held \cup {new}
    BY <2>1, <2>2, HeldPlaces, HeldPlacesNext, NoMsgFacts
  <2>4. new \in Promise!Message
    BY <2>1 DEF Message, Promise!Message
  <2>5. next <= MaxMsgs
    BY <2>1
  <2>6. Promise!Accept
    BY <1>1, <2>1, <2>2, <2>3, <2>4, <2>5 DEF Promise!Accept, ServedRoutes
  <2>7. QED
    BY <2>6 DEF KeepsPromise, Promise!Next
<1>3. CASE ~PublishAccept(p)
  <2>1. UNCHANGED <<next, Held>>
    BY <1>3 DEF Publisher, PublishCheck, PublishRefused, workVars, dispVars, Held
  <2>2. QED
    BY <1>1, <2>1, Quiet DEF KeepsPromise
<1>4. QED
  BY <1>2, <1>3

\* A dispatcher takes a reply on, or lets go of one without a worker; when cancelled, it may
\* lose one.
LEMMA DispatcherKeeps ==
  ASSUME TypeInv, PipelineOrder, Addressed, NEW l \in Lanes, Dispatcher(l)
  PROVE  KeepsPromise
<1> USE DEF KeepsPromise
<1>1. UNCHANGED <<tried, served, next>>
  BY DEF Dispatcher, Take, SubscribeEnds, Lookup, Enqueue, EnqueueCancelled, EnqueuePanics, busVars, workVars
<1>2. CASE Take(l)
  <2> DEFINE h == Head(busq[l])
  <2>1. UNCHANGED <<CtxDone, queue, wmsg>> /\ dmsg[l] = NoMsg
    BY <1>2, CtxStays DEF Take, workVars, TypeInv, Control, DispatcherControl
  <2>2. /\ h \in Message
        /\ Entries(busq[l]) = Entries(busq'[l]) \cup {h}
        /\ \A k \in Lanes \ {l} : busq'[k] = busq[k]
    BY <1>2, BusTail DEF Take
  <2>3. CASE h.chan \in Internal
    <3>1. dmsg' = dmsg
      BY <1>2, <2>3 DEF Take, dispVars
    <3>2. Promise!Oldest(h) /\ <<h.lane, h.chan>> \notin ServedRoutes
      BY <1>2, <2>1, <2>3, InternalIsOldest DEF Take
    <3> HIDE DEF h
    <3>3. \A k \in Lanes : /\ Entries(busq'[k]) \subseteq Entries(busq[k])
                           /\ Entries(busq[k]) \subseteq Entries(busq'[k]) \cup {h}
      BY <2>2
    <3>4. Held' \in {Held, Held \ {h}}
      BY <2>1, <3>1, <3>3, HeldShrinks
    <3>5. PICK m : m = h
      OBVIOUS
    <3>6. QED
      BY <1>1, <2>1, <3>2, <3>4, <3>5, LetsGo
  <2>4. CASE h.chan \notin Internal
    <3>1. dmsg'[l] = h /\ \A k \in Lanes \ {l} : dmsg'[k] = dmsg[k]
      BY <1>2, <2>4 DEF Take, TypeInv, TypeOK
    <3> HIDE DEF h
    <3>2. ASSUME NEW m \in Held PROVE m \in Held'
      <4>1. CASE m = h
        BY <2>2, <3>1, <4>1, HeldPlacesNext, NoMsgFacts
      <4>2. CASE m # h
        BY <2>1, <2>2, <3>1, <4>2, HeldPlaces, HeldPlacesNext
      <4>3. QED
        BY <4>1, <4>2
    <3>3. ASSUME NEW m \in Held' PROVE m \in Held
      BY <2>1, <2>2, <3>1, HeldPlaces, HeldPlacesNext
    <3>4. Held' = Held
      BY <3>2, <3>3
    <3>5. QED
      BY <1>1, <2>1, <3>4, Quiet
  <2>5. QED
    BY <2>3, <2>4
<1>3. CASE Lookup(l) \/ EnqueueCancelled(l)
  <2>1. UNCHANGED <<CtxDone, busq, queue, wmsg>> /\ dmsg[l] \in Message
    BY <1>3, CtxStays DEF Lookup, EnqueueCancelled, busVars, workVars, TypeInv, Control, DispatcherControl
  <2>2. CASE dmsg' = dmsg
    <3>1. Held' = Held
      BY <2>1, <2>2 DEF Held
    <3>2. QED
      BY <1>1, <2>1, <3>1, Quiet
  <2>3. CASE dmsg' # dmsg
    <3>1. PICK m \in Message : m = dmsg[l]
      BY <2>1
    <3>2. dmsg'[l] = NoMsg /\ \A k \in Lanes \ {l} : dmsg'[k] = dmsg[k]
      BY <1>3, <2>3 DEF Lookup, EnqueueCancelled, TypeInv, TypeOK
    <3>3. Held' \in {Held, Held \ {m}}
      BY <2>1, <3>1, <3>2, HeldShrinks
    <3>4. CASE Lookup(l)
      <4>1. dmsg[l].chan \notin served
        BY <2>3, <3>4 DEF Lookup, TypeInv, TypeOK
      <4>2. Promise!Oldest(m) /\ <<m.lane, m.chan>> \notin ServedRoutes
        BY <2>1, <3>1, <4>1, UnservedIsOldest
      <4>3. QED
        BY <1>1, <2>1, <3>3, <4>2, LetsGo
    <3>5. CASE EnqueueCancelled(l)
      <4>1. CtxDone
        BY <3>5 DEF EnqueueCancelled
      <4>2. QED
        BY <1>1, <2>1, <3>3, <4>1, Loses
    <3>6. QED
      BY <1>3, <3>4, <3>5
  <2>4. QED
    BY <2>2, <2>3
<1>4. CASE Enqueue(l)
  <2>1. UNCHANGED <<CtxDone, busq, wmsg>>
    BY <1>4, CtxStays DEF Enqueue, busVars, workVars
  <2>2. /\ dmsg[l] \in Message /\ <<l, dmsg[l].chan>> \in Workers
        /\ \A w \in Workers : Entries(queue'[w]) = Entries(queue[w]) \cup
              (IF w = <<l, dmsg[l].chan>> THEN {dmsg[l]} ELSE {})
    BY <1>4, EnqueueEntries
  <2>3. dmsg'[l] = NoMsg /\ \A k \in Lanes \ {l} : dmsg'[k] = dmsg[k]
    BY <1>4 DEF Enqueue, TypeInv, TypeOK
  <2>4. Held' = Held
    <3>1. ASSUME NEW m \in Held PROVE m \in Held'
      <4>1. CASE m = dmsg[l]
        <5>1. m \in Entries(queue'[<<l, dmsg[l].chan>>])
          BY <2>2, <4>1
        <5>2. QED
          BY <2>2, <5>1, HeldPlaces, HeldPlacesNext
      <4>2. CASE m # dmsg[l]
        BY <2>1, <2>2, <2>3, <4>2, HeldPlaces, HeldPlacesNext
      <4>3. QED
        BY <4>1, <4>2
    <3>2. ASSUME NEW m \in Held' PROVE m \in Held
      BY <2>1, <2>2, <2>3, HeldPlaces, HeldPlacesNext
    <3>3. QED
      BY <3>1, <3>2
  <2>5. QED
    BY <1>1, <2>1, <2>4, Quiet
<1>5. CASE SubscribeEnds(l) \/ EnqueuePanics(l)
  <2>1. UNCHANGED <<busq, dmsg, queue, wmsg>>
    BY <1>5 DEF SubscribeEnds, EnqueuePanics, busVars, dispVars, workVars
  <2>2. CtxDone' = CtxDone
    BY <1>5, CtxStays DEF SubscribeEnds, EnqueuePanics, QueueClosed, CtxDone
  <2>3. Held' = Held
    BY <2>1 DEF Held
  <2>4. QED
    BY <1>1, <2>2, <2>3, Quiet
<1>6. QED
  BY <1>2, <1>3, <1>4, <1>5 DEF Dispatcher

\* The end of a chunk is the end of its reply if the chunk was the last.
LEMMA NextChunkHeld ==
  ASSUME TypeInv, NEW w \in Workers, NextChunk(w), NEW m \in Message, m = wmsg[w],
         part[w] \in 1..m.parts, UNCHANGED <<busq, dmsg, queue>>
  PROVE  /\ Held' \in {Held, Held \ {m}}
         /\ part[w] # m.parts => Held' = Held
<1>1. CASE part[w] < m.parts
  <2>1. wmsg' = wmsg
    BY <1>1 DEF NextChunk
  <2>2. QED
    BY <2>1 DEF Held
<1>2. CASE ~(part[w] < m.parts)
  <2>1. wmsg'[w] = NoMsg /\ \A v \in Workers \ {w} : wmsg'[v] = wmsg[v]
    BY <1>2 DEF NextChunk, TypeInv, TypeOK
  <2>2. Held' \in {Held, Held \ {m}}
    BY <2>1, HeldShrinks
  <2>3. part[w] = m.parts
    BY <1>2 DEF Message
  <2>4. QED
    BY <2>2, <2>3
<1>3. QED
  BY <1>1, <1>2

\* A worker hands over the chunk it is at, lets go of a reply when its last chunk was handed
\* over, and loses one only when the context is cancelled.
LEMMA WorkerKeeps ==
  ASSUME TypeInv, PipelineOrder, Addressed, HandOvers, NEW w \in Workers, Worker(w)
  PROVE  KeepsPromise
<1> USE DEF KeepsPromise
<1>1. UNCHANGED <<main, served, next, busq, dmsg, CtxDone>>
  BY CtxStays DEF Worker, Receive, WorkerExits, LimiterWait, NoPlaceholder, EditPlaceholder, Send,
         RetryAfterDelay, RetryCancelled, busVars, dispVars
<1>2. WorkerControl(w) /\ HandedControl(w) /\ RouteOrder(w)
  BY DEF TypeInv, Control, HandOvers, PipelineOrder
<1>3. CASE Receive(w)
  <2> DEFINE h == Head(queue[w])
  <2>1. /\ h \in Message
        /\ Entries(queue[w]) = Entries(queue'[w]) \cup {h}
        /\ \A v \in Workers \ {w} : queue'[v] = queue[v]
    BY <1>3, QueueTail
  <2>2. wmsg[w] = NoMsg /\ queue[w] # <<>>
    BY <1>2, <1>3 DEF Receive, WorkerControl
  <2>3. UNCHANGED tried
    BY <1>3 DEF Receive, workVars
  <2>4. CASE w[1] = "media" /\ w[2] \notin MediaSenders
    <3>1. Promise!Oldest(h) /\ <<h.lane, h.chan>> \notin ServedRoutes
      BY <2>2, <2>4, HeadIsOldest DEF ServedRoutes
    <3>2. wmsg' = wmsg
      BY <1>3, <2>4 DEF Receive, workVars
    <3> HIDE DEF h
    <3>3. \A v \in Workers : /\ Entries(queue'[v]) \subseteq Entries(queue[v])
                             /\ Entries(queue[v]) \subseteq Entries(queue'[v]) \cup {h}
      BY <2>1
    <3>4. Held' \in {Held, Held \ {h}}
      BY <1>1, <3>2, <3>3, HeldShrinks
    <3>5. PICK m : m = h
      OBVIOUS
    <3>6. QED
      BY <1>1, <2>3, <3>1, <3>4, <3>5, LetsGo
  <2>5. CASE ~(w[1] = "media" /\ w[2] \notin MediaSenders)
    <3>1. wmsg'[w] = h /\ \A v \in Workers \ {w} : wmsg'[v] = wmsg[v]
      BY <1>3, <2>5 DEF Receive, TypeInv, TypeOK
    <3> HIDE DEF h
    <3>2. ASSUME NEW m \in Held PROVE m \in Held'
      <4>1. CASE m = h
        BY <2>1, <3>1, <4>1, HeldPlacesNext, NoMsgFacts
      <4>2. CASE m # h
        BY <1>1, <2>1, <2>2, <3>1, <4>2, HeldPlaces, HeldPlacesNext
      <4>3. QED
        BY <4>1, <4>2
    <3>3. ASSUME NEW m \in Held' PROVE m \in Held
      BY <1>1, <2>1, <3>1, HeldPlaces, HeldPlacesNext
    <3>4. Held' = Held
      BY <3>2, <3>3
    <3>5. QED
      BY <1>1, <2>3, <3>4, Quiet
  <2>6. QED
    BY <2>4, <2>5
<1>4. CASE UNCHANGED <<queue, wmsg, tried>>
  <2>1. Held' = Held
    BY <1>1, <1>4 DEF Held
  <2>2. QED
    BY <1>1, <1>4, <2>1, Quiet
<1>5. ASSUME NextChunk(w), wpc[w] \in {"limit", "wait"}, CtxDone, UNCHANGED <<queue, tried>>
      PROVE  KeepsPromise
  <2>1. PICK m \in Message : m = wmsg[w]
    BY <1>2, <1>5 DEF WorkerControl
  <2>2. Held' \in {Held, Held \ {m}}
    BY <1>1, <1>2, <1>5, <2>1, NextChunkHeld DEF WorkerControl
  <2>3. QED
    BY <1>1, <1>5, <2>2, Loses
<1>6. CASE LimiterWait(w)
  BY <1>4, <1>5, <1>6 DEF LimiterWait
<1>7. CASE RetryCancelled(w)
  BY <1>5, <1>7 DEF RetryCancelled
<1>8. CASE EditPlaceholder(w) \/ Send(w)
  <2>1. /\ wpc[w] \in {"presend", "send"} /\ HandedOver(w) /\ UNCHANGED queue
        /\ NextChunk(w) \/ UNCHANGED wmsg
    BY <1>8 DEF EditPlaceholder, Send
  <2>2. PICK m \in Message : m = wmsg[w] /\ part[w] \in 1..m.parts
    BY <1>2, <2>1 DEF WorkerControl
  <2>3. /\ tried[w] \in [id : 0..MaxMsgs, part : 0..MaxParts, n : Nat]
        /\ attempt[w] \in 0..MaxRetries /\ m.id \in 1..MaxMsgs /\ m.parts \in 1..MaxParts
    BY DEF TypeInv, TypeOK, Message
  <2>4. Fresh(w) \/ Again(w, attempt[w] + 1)
    BY <1>2, <2>1 DEF HandedControl
  <2> DEFINE t == [id |-> m.id, part |-> part[w],
                   n |-> IF tried[w].id = m.id /\ tried[w].part = part[w] THEN tried[w].n + 1 ELSE 1]
  <2>5. tried' = [tried EXCEPT ![w] = t]
    BY <2>1, <2>2 DEF HandedOver
  <2>6. t.n \in 1..MaxRetries + 2 /\ Promise!Follows(m, tried[w], t)
    <3>1. CASE Again(w, attempt[w] + 1)
      <4>1. /\ tried[w].id = m.id /\ tried[w].part = part[w]
            /\ tried[w].n \in 1..attempt[w] + 1 /\ t.n = tried[w].n + 1
        BY <2>2, <3>1 DEF Again
      <4>2. t.n \in 1..MaxRetries + 2
        BY <2>3, <4>1, ConstantsAssumption DEF ConstantsAssumption
      <4>3. QED
        BY <2>2, <4>1, <4>2 DEF Promise!Follows
    <3>2. CASE Fresh(w)
      <4>1. /\ t.n = 1
            /\ \/ tried[w].id < m.id /\ part[w] = 1
               \/ tried[w].id = m.id /\ part[w] = tried[w].part + 1
        BY <2>2, <2>3, <3>2 DEF Fresh
      <4>2. t.n \in 1..MaxRetries + 2
        BY <4>1, ConstantsAssumption DEF ConstantsAssumption
      <4>3. QED
        BY <2>2, <4>1, <4>2 DEF Promise!Follows
    <3>3. QED
      BY <2>4, <3>1, <3>2
  <2>7. t \in [id : {m.id}, part : 1..m.parts, n : 1..MaxRetries + 2] /\ t.part = part[w]
    BY <2>2, <2>6
  <2>8. Promise!Oldest(m)
    BY <2>2, SendingIsOldest
  <2>9. Held' = Held \/ (part[w] = m.parts /\ Held' = Held \ {m})
    <3>1. CASE NextChunk(w)
      BY <1>1, <2>1, <2>2, <3>1, NextChunkHeld
    <3>2. CASE UNCHANGED wmsg
      BY <1>1, <2>1, <3>2 DEF Held
    <3>3. QED
      BY <2>1, <3>1, <3>2
  <2> HIDE DEF t
  <2>10. PICK s : s = t
    OBVIOUS
  <2>11. Promise!Next
    BY <1>1, <2>2, <2>5, <2>6, <2>7, <2>8, <2>9, <2>10, HandsOver
  <2>12. QED
    BY <2>11
<1>9. CASE WorkerExits(w) \/ NoPlaceholder(w) \/ RetryAfterDelay(w)
  BY <1>4, <1>9 DEF WorkerExits, NoPlaceholder, RetryAfterDelay
<1>10. QED
  BY <1>3, <1>6, <1>7, <1>8, <1>9 DEF Worker

\* The start serves routes, the cancelled context is the shutdown, and Close loses what it
\* drains.
LEMMA MainKeeps ==
  ASSUME TypeInv, Addressed, StartAll \/ CancelContext \/ Shutdown
  PROVE  KeepsPromise
<1> USE DEF KeepsPromise
<1>1. UNCHANGED <<next, dmsg, queue, wmsg, tried>>
  BY DEF StartAll, CancelContext, Shutdown, CloseSetsFlag, CloseDone, CloseDrains, Drain, StopAllClosesText,
         StopAllClosesMedia, StopAllStopsChannels, ProcessExits, busVars, dispVars, workVars
<1>2. CASE StartAll
  <2>1. served = {} /\ CtxDone = FALSE /\ CtxDone' = FALSE /\ busq' = busq
    BY <1>2 DEF StartAll, Addressed, CtxDone, busVars
  <2>2. ServedRoutes = {} /\ ServedRoutes' \in SUBSET Promise!Route /\ Held' = Held
    BY <1>1, <2>1 DEF ServedRoutes, Promise!Route, Workers, Targets, Held
  <2>3. Promise!Serve
    BY <1>1, <2>1, <2>2 DEF Promise!Serve
  <2>4. QED
    BY <2>3 DEF Promise!Next
<1>3. CASE CancelContext
  <2>1. CtxDone' = TRUE /\ UNCHANGED <<served, busq>>
    BY <1>3 DEF CancelContext, CtxDone, busVars
  <2>2. UNCHANGED <<ServedRoutes, Held>>
    BY <1>1, <2>1 DEF ServedRoutes, Held
  <2>3. Promise!ShutDown
    BY <1>1, <2>1, <2>2 DEF Promise!ShutDown
  <2>4. QED
    BY <2>3 DEF Promise!Next
<1>4. CASE Shutdown
  <2>1. CtxDone /\ CtxDone' /\ UNCHANGED served
    BY <1>4 DEF Shutdown, CloseSetsFlag, CloseDone, CloseDrains, Drain, StopAllClosesText,
         StopAllClosesMedia, StopAllStopsChannels, ProcessExits, CtxDone
  <2>2. CtxDone' = CtxDone
    BY <2>1 DEF CtxDone
  <2>3. CASE busq' = busq
    <3>1. Held' = Held
      BY <1>1, <2>3 DEF Held
    <3>2. QED
      BY <1>1, <2>1, <2>2, <3>1, Quiet
  <2>4. CASE busq' # busq
    <3>1. PICK l \in Lanes : busq[l] # <<>> /\ busq' = [busq EXCEPT ![l] = Tail(@)]
      BY <1>4, <2>4 DEF Shutdown, CloseSetsFlag, CloseDone, CloseDrains, Drain, StopAllClosesText,
           StopAllClosesMedia, StopAllStopsChannels, ProcessExits, busVars, Lanes
    <3>2. PICK m \in Message : m = Head(busq[l])
      BY <3>1, BusTail
    <3>3. /\ Entries(busq[l]) = Entries(busq'[l]) \cup {m}
          /\ \A k \in Lanes \ {l} : busq'[k] = busq[k]
      BY <3>1, <3>2, BusTail
    <3>4. Held' \in {Held, Held \ {m}}
      BY <1>1, <3>3, HeldShrinks
    <3>5. QED
      BY <1>1, <2>1, <2>2, <3>4, Loses
  <2>5. QED
    BY <2>3, <2>4
<1>5. QED
  BY <1>2, <1>3, <1>4

\* The invariant under which the steps map.
RefinementInv == IInv /\ StopOrder /\ Addressed /\ HandOvers

\* Every step of the path is a step of the promise, or none.
LEMMA StepKeeps == RefinementInv /\ [Next]_vars => [Promise!Next]_(Promise!vars)
<1> SUFFICES ASSUME RefinementInv, [Next]_vars PROVE KeepsPromise
  BY DEF KeepsPromise
<1> USE DEF RefinementInv, IInv, TypeInv
<1>1. CASE UNCHANGED vars
  <2>1. Held' = Held /\ CtxDone' = CtxDone /\ UNCHANGED <<tried, next, served>>
    BY <1>1 DEF vars, busVars, dispVars, workVars, Held, CtxDone
  <2>2. QED
    BY <2>1, Quiet DEF KeepsPromise
<1>2. CASE Next
  BY <1>1, <1>2, PublisherKeeps, DispatcherKeeps, WorkerKeeps, MainKeeps DEF Next, Gone
<1>3. QED
  BY <1>1, <1>2

\* The outbound path keeps the promise of Delivery, whatever its capacities, publishers and
\* channels: per lane and channel oldest first, part by part, a bounded number of tries,
\* nothing let go untried and nothing lost before the shutdown.
THEOREM Refinement == Spec => ImplementsDelivery
<1>1. Init => StopOrder /\ Addressed /\ HandOvers
  BY EntriesFacts DEF Init, StopOrder, Addressed, AddressedLane, AddressedWorker, HandOvers,
                      HandedControl, Workers
<1>2. IInv /\ StopOrder /\ Addressed /\ HandOvers /\ [Next]_vars
         => (StopOrder /\ Addressed /\ HandOvers)'
  BY StopOrderStep, AddressedStep, HandOversStep DEF IInv, TypeInv
<1>3. Spec => []RefinementInv
  BY <1>1, <1>2, Inductive, PTL DEF Spec, RefinementInv
<1>4. QED
  BY <1>3, PromiseInit, StepKeeps, PTL DEF Spec, ImplementsDelivery, Promise!Spec
=============================================================================
