-------------------------------- MODULE Pico --------------------------------
(***************************************************************************)
(* The connections of the Pico adapter (pkg/channels/pico/pico.go): the    *)
(* handler that upgrades a request and registers the connection, its       *)
(* readLoop, and Stop.  A client may come again after it has left.         *)
(***************************************************************************)
EXTENDS Naturals, FiniteSets

CONSTANTS Clients, MaxConnections

VARIABLES
    at,        \* at[k]: where the handler, then the readLoop, of client k is
    table,     \* c.connections
    connCount, \* c.connCount
    closed,    \* connections closed by the adapter
    gone,      \* clients that have hung up, or are silent beyond the read timeout
    running,   \* c.IsRunning()
    ctx,       \* "live" or "cancelled"
    stop       \* Stop

vars == <<at, table, connCount, closed, gone, running, ctx, stop>>

Init == /\ at = [k \in Clients |-> "out"]
        /\ table = {} /\ connCount = 0 /\ closed = {} /\ gone = {}
        /\ running = TRUE /\ ctx = "live" /\ stop = "no"

Move(k, to) == at' = [at EXCEPT ![k] = to]

-----------------------------------------------------------------------------
(* handleWebSocket: the limit is checked before the handshake, the         *)
(* connection is counted after it.                                         *)

Check(k) ==
    /\ at[k] = "out" /\ running /\ connCount < MaxConnections
    /\ Move(k, "admitted")
    /\ UNCHANGED <<table, connCount, closed, gone, running, ctx, stop>>

\* The handshake fails, or the connection is stored ...
Upgrade(k) ==
    /\ at[k] = "admitted"
    /\ \/ Move(k, "out") /\ UNCHANGED <<table, closed, gone>>
       \/ /\ Move(k, "stored")
          /\ table' = table \cup {k} /\ closed' = closed \ {k} /\ gone' = gone \ {k}
    /\ UNCHANGED <<connCount, running, ctx, stop>>

\* ... then counted, and readLoop started.
Count(k) ==
    /\ at[k] = "stored"
    /\ Move(k, "loop") /\ connCount' = connCount + 1
    /\ UNCHANGED <<table, closed, gone, running, ctx, stop>>

-----------------------------------------------------------------------------
(* readLoop.                                                               *)

\* The top of the loop: leave if the context is done, else read.
LoopChecks(k) ==
    /\ at[k] = "loop"
    /\ Move(k, IF ctx = "cancelled" THEN "leaving" ELSE "reading")
    /\ UNCHANGED <<table, connCount, closed, gone, running, ctx, stop>>

\* A message (handleMessage keeps no state of its own).
Reads(k) ==
    /\ at[k] = "reading" /\ k \notin closed \cup gone
    /\ Move(k, "loop")
    /\ UNCHANGED <<table, connCount, closed, gone, running, ctx, stop>>

ReadFails(k) ==
    /\ at[k] = "reading" /\ k \in closed \cup gone
    /\ Move(k, "leaving")
    /\ UNCHANGED <<table, connCount, closed, gone, running, ctx, stop>>

\* Mutant of Leaves: the connection is uncounted if it is still registered.
LeavesOnce(k) ==
    /\ at[k] = "leaving"
    /\ Move(k, "out")
    /\ closed' = closed \cup {k} /\ table' = table \ {k}
    /\ connCount' = IF k \in table THEN connCount - 1 ELSE connCount
    /\ UNCHANGED <<gone, running, ctx, stop>>

\* The deferred call.
Leaves(k) ==
    /\ at[k] = "leaving"
    /\ Move(k, "out")
    /\ closed' = closed \cup {k} /\ table' = table \ {k}
    /\ connCount' = connCount - 1
    /\ UNCHANGED <<gone, running, ctx, stop>>

\* The client hangs up, or is silent until the read deadline.
HangsUp(k) ==
    /\ at[k] \in {"stored", "loop", "reading"} /\ k \notin gone
    /\ gone' = gone \cup {k}
    /\ UNCHANGED <<at, table, connCount, closed, running, ctx, stop>>

-----------------------------------------------------------------------------
(* Stop.  What a handler stores after Range has passed stays registered.   *)

StopMarks ==
    /\ stop = "no"
    /\ stop' = "marked" /\ running' = FALSE
    /\ UNCHANGED <<at, table, connCount, closed, gone, ctx>>

\* Range closes and deletes what it finds.
StopRanges ==
    /\ stop = "marked"
    /\ stop' = "ranged"
    /\ closed' = closed \cup table /\ table' = {}
    /\ UNCHANGED <<at, connCount, gone, running, ctx>>

StopCancels ==
    /\ stop = "ranged"
    /\ stop' = "done" /\ ctx' = "cancelled"
    /\ UNCHANGED <<at, table, connCount, closed, gone, running>>

-----------------------------------------------------------------------------
Serving(k) == Upgrade(k) \/ Count(k) \/ LoopChecks(k) \/ ReadFails(k) \/ Leaves(k)
Stopping   == StopRanges \/ StopCancels

Next == \/ \E k \in Clients : Check(k) \/ Serving(k) \/ Reads(k) \/ HangsUp(k)
        \/ StopMarks \/ Stopping

Closed == stop = "done" /\ \A k \in Clients : at[k] = "out"

TypeOK ==
    /\ at \in [Clients -> {"out", "admitted", "stored", "loop", "reading", "leaving"}]
    /\ table \subseteq Clients /\ closed \subseteq Clients /\ gone \subseteq Clients
    /\ connCount \in 0..Cardinality(Clients)
    /\ running \in BOOLEAN /\ ctx \in {"live", "cancelled"}
    /\ stop \in {"no", "marked", "ranged", "done"}
=============================================================================
