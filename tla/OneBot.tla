------------------------------- MODULE OneBot -------------------------------
(***************************************************************************)
(* The connection of the OneBot adapter (pkg/channels/onebot/onebot.go):   *)
(* Start and reconnectLoop dial, one after the other, as one process, the  *)
(* boss; each connection gets a listener of its own; API requests wait for *)
(* the answer that carries their echo; Stop takes it all down.  What a     *)
(* message does once it is read is in module Intake.                       *)
(*                                                                         *)
(* The manager stops a channel after its Start returned, and starts it     *)
(* once.  ReconnectInterval is positive (its default is 5 seconds).        *)
(***************************************************************************)
EXTENDS Naturals, FiniteSets

CONSTANTS Conns,     \* connections that may exist at a time
          Reactions, \* setMsgEmojiLike calls at work
          Hello,     \* the get_login_info request of fetchSelfID
          MaxBreaks, \* bound: how often the network breaks a connection
          Nil

VARIABLES
    sock,    \* sock[c]: "none", "open", "dead" (the peer is gone) or "closed"
    conn,    \* c.conn
    lst,     \* lst[c]: the listener started for connection c
    boss,    \* Start and reconnectLoop
    ctx,     \* c.ctx: "live" or "cancelled"
    stop,    \* Stop
    req,     \* req[r]: where request r is, and the connection it took
    pending, \* the requests in c.pending
    box,     \* box[r]: what is in the channel of r
    late,    \* connections whose dial returned after Stop had cancelled ctx
    breaks

Requests == Reactions \cup {Hello}
connVars == <<sock, conn, lst, late, breaks>>
reqVars  == <<req, pending, box>>
vars     == <<connVars, boss, ctx, stop, reqVars>>

Idle == [at |-> "idle", conn |-> Nil]

Init == /\ sock = [c \in Conns |-> "none"] /\ conn = Nil
        /\ lst = [c \in Conns |-> "none"]
        /\ boss = "start" /\ ctx = "live" /\ stop = "no"
        /\ req = [r \in Requests |-> Idle]
        /\ pending = {} /\ box = [r \in Requests |-> "empty"]
        /\ late = {} /\ breaks = 0

-----------------------------------------------------------------------------
(* Start and reconnectLoop.                                                *)

\* A dial makes a connection nobody knows yet.
Fresh(c) == /\ sock[c] \in {"none", "closed"} /\ lst[c] = "none"
            /\ \A r \in Requests : req[r].conn # c

\* connect returns no error: the listener starts, and fetchSelfID asks.
DialSucceeds ==
    /\ boss \in {"start", "dial"}
    /\ \E c \in Conns :
        /\ Fresh(c)
        /\ sock' = [sock EXCEPT ![c] = "open"]
        /\ conn' = c
        /\ lst' = [lst EXCEPT ![c] = "spawned"]
        /\ late' = IF ctx = "live" THEN late \ {c} ELSE late \cup {c}
    /\ boss' = IF boss = "start" THEN "first hello" ELSE "hello"
    /\ req' = [req EXCEPT ![Hello].at = "called"]
    /\ UNCHANGED <<ctx, stop, pending, box, breaks>>

\* connect returns an error: the next try is reconnectLoop's.
DialFails ==
    /\ boss \in {"start", "dial"}
    /\ boss' = "wait"
    /\ UNCHANGED <<connVars, ctx, stop, reqVars>>

\* fetchSelfID returns, with or without an answer.
HelloReturns ==
    /\ boss \in {"first hello", "hello"} /\ req[Hello] = Idle
    /\ boss' = "wait"
    /\ UNCHANGED <<connVars, ctx, stop, reqVars>>

\* The interval is over: dial if there is no connection.
Interval ==
    /\ boss = "wait"
    /\ boss' = IF conn = Nil THEN "dial" ELSE "wait"
    /\ UNCHANGED <<connVars, ctx, stop, reqVars>>

LoopEnds ==
    /\ boss = "wait" /\ ctx = "cancelled"
    /\ boss' = "over"
    /\ UNCHANGED <<connVars, ctx, stop, reqVars>>

-----------------------------------------------------------------------------
(* listen.                                                                 *)

\* The listener takes c.conn, which is its connection or, after Stop, nothing.
ListenStarts(c) ==
    /\ lst[c] = "spawned"
    /\ lst' = IF conn = Nil \/ ctx = "cancelled"
              THEN [lst EXCEPT ![c] = "none"]
              ELSE [lst EXCEPT ![c] = "none", ![conn] = "reading"]
    /\ UNCHANGED <<sock, conn, late, breaks, boss, ctx, stop, reqVars>>

\* ReadMessage fails: the peer is gone, silent for 60 seconds, or Stop has
\* closed the connection.
ReadFails(c) ==
    /\ lst[c] = "reading" /\ sock[c] # "open"
    /\ lst' = [lst EXCEPT ![c] = "none"]
    /\ IF conn = c
       THEN conn' = Nil /\ sock' = [sock EXCEPT ![c] = "closed"]
       ELSE UNCHANGED <<conn, sock>>
    /\ UNCHANGED <<late, breaks, boss, ctx, stop, reqVars>>

\* Between two messages the listener sees that it is to stop.
ListenStops(c) ==
    /\ lst[c] = "reading" /\ ctx = "cancelled"
    /\ lst' = [lst EXCEPT ![c] = "none"]
    /\ UNCHANGED <<sock, conn, late, breaks, boss, ctx, stop, reqVars>>

\* A message with an echo goes to the request that waits for it.
AnswerArrives(r) ==
    /\ req[r].at = "waiting" /\ lst[req[r].conn] = "reading" /\ sock[req[r].conn] = "open"
    /\ r \in pending /\ box[r] = "empty"
    /\ box' = [box EXCEPT ![r] = "answer"]
    /\ UNCHANGED <<connVars, boss, ctx, stop, req, pending>>

-----------------------------------------------------------------------------
(* sendAPIRequest.                                                         *)

\* setMsgEmojiLike starts a goroutine that asks.
React(r) ==
    /\ boss # "start" /\ req[r] = Idle
    /\ req' = [req EXCEPT ![r].at = "called"]
    /\ UNCHANGED <<connVars, boss, ctx, stop, pending, box>>

\* Leaves sendAPIRequest, with its deferred delete.
Leave(r) == req' = [req EXCEPT ![r] = Idle] /\ pending' = pending \ {r} /\ UNCHANGED box

\* Takes c.conn and registers the echo.
Register(r) ==
    /\ req[r].at = "called"
    /\ IF conn = Nil
       THEN Leave(r)
       ELSE /\ req' = [req EXCEPT ![r] = [at |-> "writing", conn |-> conn]]
            /\ pending' = pending \cup {r}
            /\ box' = [box EXCEPT ![r] = "empty"]
    /\ UNCHANGED <<connVars, boss, ctx, stop>>

\* A write to a connection whose peer is gone may still succeed.
Write(r) ==
    /\ req[r].at = "writing"
    /\ \/ /\ sock[req[r].conn] \in {"open", "dead"}
          /\ req' = [req EXCEPT ![r].at = "waiting"]
          /\ UNCHANGED <<pending, box>>
       \/ sock[req[r].conn] \in {"dead", "closed"} /\ Leave(r)
    /\ UNCHANGED <<connVars, boss, ctx, stop>>

\* Mutant of Return: no timeout.
ReturnAnswered(r) ==
    /\ req[r].at = "waiting" /\ (box[r] # "empty" \/ ctx = "cancelled")
    /\ Leave(r)
    /\ UNCHANGED <<connVars, boss, ctx, stop>>

\* The select: an answer, Stop's nil, the end of ctx, or else the timeout.
Return(r) ==
    /\ req[r].at = "waiting"
    /\ Leave(r)
    /\ UNCHANGED <<connVars, boss, ctx, stop>>

-----------------------------------------------------------------------------
(* Stop, and the network.                                                  *)

StopCancels ==
    /\ stop = "no" /\ boss \notin {"start", "first hello"}
    /\ stop' = "cancelled" /\ ctx' = "cancelled"
    /\ UNCHANGED <<connVars, boss, reqVars>>

StopSweeps ==
    /\ stop = "cancelled"
    /\ stop' = "swept"
    /\ box' = [r \in Requests |-> IF r \in pending /\ box[r] = "empty" THEN "nil" ELSE box[r]]
    /\ pending' = {}
    /\ UNCHANGED <<connVars, boss, ctx, req>>

\* Mutant of StopDisconnects: c.conn is cleared, and not closed.
StopForgets ==
    /\ stop = "swept"
    /\ stop' = "done" /\ conn' = Nil
    /\ UNCHANGED <<sock, lst, late, breaks, boss, ctx, reqVars>>

StopDisconnects ==
    /\ stop = "swept"
    /\ stop' = "done"
    /\ conn' = Nil
    /\ sock' = IF conn = Nil THEN sock ELSE [sock EXCEPT ![conn] = "closed"]
    /\ UNCHANGED <<lst, late, breaks, boss, ctx, reqVars>>

\* The server, or the network, drops a connection.
Break(c) ==
    /\ sock[c] = "open" /\ breaks < MaxBreaks
    /\ sock' = [sock EXCEPT ![c] = "dead"]
    /\ breaks' = breaks + 1
    /\ UNCHANGED <<conn, lst, late, boss, ctx, stop, reqVars>>

-----------------------------------------------------------------------------
LoopRuns == DialFails \/ HelloReturns \/ Interval
Listener(c) == ListenStarts(c) \/ ReadFails(c)
Asking(r) == Register(r) \/ Write(r) \/ Return(r)
Stopping == StopSweeps \/ StopDisconnects

Next == \/ DialSucceeds \/ LoopRuns \/ LoopEnds \/ StopCancels \/ Stopping
        \/ \E c \in Conns : Listener(c) \/ ListenStops(c) \/ Break(c)
        \/ \E r \in Requests : Asking(r) \/ AnswerArrives(r)
        \/ \E r \in Reactions : React(r)

\* The connection is up and someone reads it.
Connected == conn # Nil /\ sock[conn] = "open" /\ lst[conn] = "reading"

\* Nothing is left open but what a dial under way brought after Stop.
Closed == stop = "done" /\ \A c \in Conns : sock[c] = "open" => c \in late

TypeOK ==
    /\ sock \in [Conns -> {"none", "open", "dead", "closed"}]
    /\ conn \in Conns \cup {Nil} /\ late \subseteq Conns
    /\ lst \in [Conns -> {"none", "spawned", "reading"}]
    /\ boss \in {"start", "first hello", "hello", "wait", "dial", "over"}
    /\ ctx \in {"live", "cancelled"}
    /\ stop \in {"no", "cancelled", "swept", "done"}
    /\ req \in [Requests -> [at : {"idle", "called", "writing", "waiting"},
                             conn : Conns \cup {Nil}]]
    /\ pending \subseteq Requests
    /\ box \in [Requests -> {"empty", "answer", "nil"}]
    /\ breaks \in 0..MaxBreaks
=============================================================================
