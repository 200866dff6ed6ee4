--------------------------- MODULE WhatsAppNative ---------------------------
(***************************************************************************)
(* The connection of the native WhatsApp adapter                           *)
(* (pkg/channels/whatsapp_native/whatsapp_native.go): Start, the goroutine *)
(* that shows login codes, the reconnect loop that the Disconnected event  *)
(* starts, and Stop, which waits for the goroutines with a WaitGroup.      *)
(*                                                                         *)
(* The client library is external and modelled from its use: Connect may   *)
(* succeed, unless it is connected, or fail; a link that breaks raises     *)
(* Disconnected, at any later time; Disconnect raises nothing.  Nothing is *)
(* assumed of a Connect under way when Disconnect is called.               *)
(***************************************************************************)
EXTENDS Naturals

CONSTANTS MaxDrops  \* bound: how often the link breaks

VARIABLES
    start,        \* Start
    stop,         \* Stop
    client,       \* c.client is set
    link,         \* the client's connection: "up" or "down"
    runCtx,       \* "live" or "cancelled"
    stopping, reconnecting,
    wg,           \* the counter of c.wg
    qr,           \* the goroutine of the login codes
    loop,         \* reconnectWithBackoff: where the goroutine is
    leaving,      \* goroutines that have only wg.Done left
    events,       \* Disconnected events not handled yet
    missed,       \* an event found reconnecting set after Connect had succeeded
    late,         \* a Connect succeeded after Stop had cancelled runCtx
    drops

linkVars == <<client, link, late, drops>>
flags    == <<runCtx, stopping, reconnecting>>
tasks    == <<wg, qr, loop, leaving, events, missed>>
vars     == <<start, stop, linkVars, flags, tasks>>

Init == /\ start = "begin" /\ stop = "no"
        /\ client = FALSE /\ link = "down" /\ late = FALSE /\ drops = 0
        /\ runCtx = "none" /\ stopping = FALSE /\ reconnecting = FALSE
        /\ wg = 0 /\ qr = "none" /\ loop = "none" /\ leaving = 0
        /\ events = 0 /\ missed = FALSE

-----------------------------------------------------------------------------
(* Start.                                                                  *)

StartOpens ==
    /\ start = "begin"
    /\ stopping' = FALSE /\ reconnecting' = FALSE
    /\ \/ /\ start' = "connect" /\ client' = TRUE /\ runCtx' = "live"
       \/ start' = "failed" /\ UNCHANGED <<client, runCtx>>  \* the store does not open
    /\ UNCHANGED <<stop, link, late, drops, tasks>>

\* cleanupOnError.
CleanUp == start' = "failed" /\ runCtx' = "cancelled" /\ link' = "down" /\ client' = FALSE

StartConnects ==
    /\ start = "connect"
    /\ \/ /\ link' = "up"
          /\ start' \in {"login", "started"}  \* not paired, or paired before
          /\ UNCHANGED <<client, runCtx>>
       \/ CleanUp
    /\ UNCHANGED <<stop, late, drops, stopping, reconnecting, tasks>>

StartLogin ==
    /\ start = "login"
    /\ IF stopping
       THEN CleanUp /\ UNCHANGED <<wg, qr>>
       ELSE /\ start' = "started" /\ wg' = wg + 1 /\ qr' = "running"
            /\ UNCHANGED <<link, runCtx, client>>
    /\ UNCHANGED <<stop, late, drops, stopping, reconnecting, loop, leaving, events, missed>>

\* The channel of the codes is closed, or the context is done.
LoginEnds ==
    /\ qr = "running"
    /\ qr' = "over" /\ leaving' = leaving + 1
    /\ UNCHANGED <<start, stop, linkVars, flags, wg, loop, events, missed>>

-----------------------------------------------------------------------------
(* eventHandler and reconnectWithBackoff.                                  *)

LinkBreaks ==
    /\ link = "up" /\ drops < MaxDrops
    /\ link' = "down" /\ drops' = drops + 1 /\ events' = events + 1
    /\ UNCHANGED <<start, stop, client, late, flags, wg, qr, loop, leaving, missed>>

\* Mutant of Spawn: the goroutine is not counted.
SpawnUncounted == reconnecting' = TRUE /\ loop' = "check" /\ UNCHANGED <<wg, missed>>

\* Starts the reconnect loop.
Spawn == reconnecting' = TRUE /\ wg' = wg + 1 /\ loop' = "check" /\ UNCHANGED missed

\* Mutant of OnDisconnected: it does not look at stopping.
OnDisconnectedAlways ==
    /\ events > 0 /\ events' = events - 1
    /\ IF reconnecting
       THEN missed' = (missed \/ loop = "connected") /\ UNCHANGED <<reconnecting, wg, loop>>
       ELSE Spawn
    /\ UNCHANGED <<start, stop, linkVars, runCtx, stopping, qr, leaving>>

\* All under reconnectMu.
OnDisconnected ==
    /\ events > 0 /\ events' = events - 1
    /\ IF reconnecting \/ stopping
       THEN /\ missed' = (missed \/ (reconnecting /\ loop = "connected"))
            /\ UNCHANGED <<reconnecting, wg, loop>>
       ELSE Spawn
    /\ UNCHANGED <<start, stop, linkVars, runCtx, stopping, qr, leaving>>

\* The top of the loop: the context, then the client.
LoopChecks ==
    /\ loop = "check"
    /\ loop' = IF runCtx = "cancelled" \/ ~client THEN "return" ELSE "connect"
    /\ UNCHANGED <<start, stop, linkVars, flags, wg, qr, leaving, events, missed>>

LoopSucceeds ==
    /\ loop = "connect" /\ link = "down"
    /\ loop' = "connected" /\ link' = "up"
    /\ late' = (late \/ runCtx = "cancelled")
    /\ UNCHANGED <<start, stop, client, drops, flags, wg, qr, leaving, events, missed>>

LoopFails ==
    /\ loop = "connect" /\ loop' = "backoff"
    /\ UNCHANGED <<start, stop, linkVars, flags, wg, qr, leaving, events, missed>>

\* The pause, 5 seconds doubled up to 5 minutes, or the end of the context.
LoopBacksOff ==
    /\ loop = "backoff"
    /\ loop' = IF runCtx = "cancelled" THEN "return" ELSE "check"
    /\ UNCHANGED <<start, stop, linkVars, flags, wg, qr, leaving, events, missed>>

\* The deferred call clears reconnecting; wg.Done is a step of its own.
LoopReturns ==
    /\ loop \in {"connected", "return"}
    /\ loop' = "none" /\ reconnecting' = FALSE /\ leaving' = leaving + 1
    /\ UNCHANGED <<start, stop, linkVars, runCtx, stopping, wg, qr, events, missed>>

Done == /\ leaving > 0
        /\ leaving' = leaving - 1 /\ wg' = wg - 1
        /\ UNCHANGED <<start, stop, linkVars, flags, qr, loop, events, missed>>

-----------------------------------------------------------------------------
(* Stop.                                                                   *)

StopMarks ==
    /\ stop = "no" /\ start \in {"started", "failed"}
    /\ stop' = "marked" /\ stopping' = TRUE
    /\ UNCHANGED <<start, linkVars, runCtx, reconnecting, tasks>>

StopCancels ==
    /\ stop = "marked"
    /\ stop' = "cancelled"
    /\ runCtx' = IF runCtx = "live" THEN "cancelled" ELSE runCtx
    /\ UNCHANGED <<start, linkVars, stopping, reconnecting, tasks>>

StopDisconnects ==
    /\ stop = "cancelled"
    /\ stop' = "waiting"
    /\ link' = IF client THEN "down" ELSE link
    /\ UNCHANGED <<start, client, late, drops, flags, tasks>>

\* wg.Wait returned, or the context of Stop ran out first.
StopClears ==
    /\ stop = "waiting"
    /\ stop' = "done" /\ client' = FALSE
    /\ UNCHANGED <<start, link, late, drops, flags, tasks>>

StopWaited == wg = 0 /\ StopClears

-----------------------------------------------------------------------------
Starting  == StartOpens \/ StartConnects \/ StartLogin
Loop      == LoopChecks \/ LoopFails \/ LoopBacksOff \/ LoopReturns
Stopping  == StopCancels \/ StopDisconnects \/ StopWaited

Next == Starting \/ LoginEnds \/ LinkBreaks \/ OnDisconnected \/ Loop \/ LoopSucceeds \/ Done
        \/ StopMarks \/ Stopping \/ StopClears

\* Nothing is left open but what a Connect under way brought after Stop.
Closed == stop = "done" /\ (link = "up" => late)

TypeOK ==
    /\ start \in {"begin", "connect", "login", "started", "failed"}
    /\ stop \in {"no", "marked", "cancelled", "waiting", "done"}
    /\ runCtx \in {"none", "live", "cancelled"} /\ link \in {"up", "down"}
    /\ {client, stopping, reconnecting, missed, late} \subseteq BOOLEAN
    /\ qr \in {"none", "running", "over"}
    /\ loop \in {"none", "check", "connect", "connected", "backoff", "return"}
    /\ {leaving, events, drops} \subseteq 0..(MaxDrops + 1)
    /\ wg = leaving + (IF qr = "running" THEN 1 ELSE 0) + (IF loop = "none" THEN 0 ELSE 1)
=============================================================================
