------------------------------ MODULE Adapters ------------------------------
(***************************************************************************)
(* Channel adapters side by side: the connections of OneBot, of native     *)
(* WhatsApp and of Pico, and how messages are taken in.  They share        *)
(* nothing, and every property is about one of them; subject, chosen at    *)
(* the start, is the part that runs, and the others rest.                  *)
(***************************************************************************)
EXTENDS Naturals, FiniteSets, Sequences

CONSTANTS Conns, Reactions, Hello, MaxBreaks, Nil,        \* OneBot
          MaxDrops,                                       \* WhatsAppNative
          Clients, MaxConnections,                        \* Pico
          Kinds, Messages, Deliveries, Limit, MaxNew, NoMsg  \* Intake

ASSUME SizesAssumption ==
    /\ IsFiniteSet(Clients) /\ MaxConnections \in Nat \ {0}
    /\ MaxBreaks \in Nat /\ MaxDrops \in Nat
    /\ Limit \in Nat \ {0} /\ MaxNew \in Nat /\ NoMsg \notin Messages

VARIABLES subject,
          sock, conn, lst, boss, obCtx, obStop, req, pending, box, obLate, breaks,
          start, waStop, client, link, runCtx, stopping, reconnecting, wg, qr, loop, leaving,
          events, missed, waLate, drops,
          at, table, connCount, closed, gone, running, piCtx, piStop,
          kind, seen, ring, idx, call, request, new, since

OB == INSTANCE OneBot WITH ctx <- obCtx, stop <- obStop, late <- obLate
WA == INSTANCE WhatsAppNative WITH stop <- waStop, late <- waLate
PI == INSTANCE Pico WITH ctx <- piCtx, stop <- piStop
TI == INSTANCE Intake

obVars == <<sock, conn, lst, boss, obCtx, obStop, req, pending, box, obLate, breaks>>
waVars == <<start, waStop, client, link, runCtx, stopping, reconnecting, wg, qr, loop, leaving,
            events, missed, waLate, drops>>
piVars == <<at, table, connCount, closed, gone, running, piCtx, piStop>>
tiVars == <<kind, seen, ring, idx, call, request, new, since>>
vars   == <<subject, obVars, waVars, piVars, tiVars>>

Init == /\ subject \in {"onebot", "whatsapp", "pico", "intake"}
        /\ OB!Init /\ WA!Init /\ PI!Init /\ TI!Init
        /\ subject # "intake" => kind = CHOOSE k \in Kinds : TRUE

Next == /\ UNCHANGED subject
        /\ \/ subject = "onebot"   /\ OB!Next  /\ UNCHANGED <<waVars, piVars, tiVars>>
           \/ subject = "whatsapp" /\ WA!Next  /\ UNCHANGED <<obVars, piVars, tiVars>>
           \/ subject = "pico"     /\ PI!Next  /\ UNCHANGED <<obVars, waVars, tiVars>>
           \/ subject = "intake"   /\ TI!Next /\ UNCHANGED <<obVars, waVars, piVars>>

Spec == Init /\ [][Next]_vars

\* OneBot and WhatsApp: the goroutines run on, and every API request has a
\* timeout.  Nothing makes a Stop begin or the context of WhatsApp's Stop end;
\* only the end of runCtx is sure to end the wait for a login.
OneBotRuns ==
    /\ WF_obVars(subject = "onebot" /\ OB!LoopRuns) /\ WF_obVars(subject = "onebot" /\ OB!LoopEnds)
    /\ \A c \in Conns : WF_obVars(subject = "onebot" /\ OB!Listener(c))
    /\ \A r \in OB!Requests : WF_obVars(subject = "onebot" /\ OB!Asking(r))
    /\ WF_obVars(subject = "onebot" /\ OB!Stopping)

WhatsAppRuns ==
    /\ WF_waVars(subject = "whatsapp" /\ WA!Loop) /\ WF_waVars(subject = "whatsapp" /\ WA!OnDisconnected)
    /\ WF_waVars(subject = "whatsapp" /\ WA!Done) /\ WF_waVars(subject = "whatsapp" /\ WA!Stopping)
    /\ WF_waVars(subject = "whatsapp" /\ runCtx = "cancelled" /\ WA!LoginEnds)

\* Pico: the same.  Pings end with the context, so that a client which says
\* nothing more runs into the read deadline.
PicoRuns ==
    /\ \A k \in Clients : /\ WF_piVars(subject = "pico" /\ PI!Serving(k))
                           /\ WF_piVars(subject = "pico" /\ piCtx = "cancelled"
                                          /\ (PI!HangsUp(k) \/ PI!Reads(k)))
    /\ WF_piVars(subject = "pico" /\ PI!Stopping)

\* A server that is dialled again and again is reached at last.
Reached == \/ subject = "onebot" /\ OB!DialSucceeds /\ UNCHANGED waVars
           \/ subject = "whatsapp" /\ WA!LoopSucceeds /\ UNCHANGED obVars

FairSpec == Spec /\ OneBotRuns /\ WhatsAppRuns /\ PicoRuns /\ SF_<<obVars, waVars>>(Reached)

-----------------------------------------------------------------------------
(* Properties.                                                             *)

\* The variables hold what the code puts there, and wg counts the goroutines.
TypeOK == OB!TypeOK /\ WA!TypeOK /\ PI!TypeOK /\ TI!TypeOK

\* A lost connection is replaced, unless the adapter is stopped: OneBot's
\* listener, its reconnect loop and the request the loop makes each time never
\* wait for each other for ever; WhatsApp's loop runs whenever the link is down,
\* but for one case: a Disconnected event that arrives between the success of
\* Connect and the reset of reconnecting is dropped, and nobody reconnects.
ComesBack ==
    (\/ subject = "onebot" /\ ~OB!Connected
     \/ subject = "whatsapp" /\ start = "started" /\ link = "down")
        ~> (\/ subject = "onebot" /\ (OB!Connected \/ obStop # "no")
            \/ subject = "whatsapp" /\ (link = "up" \/ waStop # "no" \/ missed))

\* Stop of every adapter comes to an end, and no connection outlives it, but one
\* that a dial or a Connect already under way brings when Stop has passed by.
StopCloses ==
    (obStop # "no" \/ waStop # "no" \/ piStop # "no") ~> (OB!Closed \/ WA!Closed \/ PI!Closed)

\* WhatsApp: no goroutine is added to the WaitGroup once Stop may wait on it (the
\* comments of Stop and eventHandler: wg.Add during wg.Wait would panic).
WaitIsSafe == [][wg' > wg => waStop \in {"no", "marked"}]_vars

\* Pico: when all clients have left, whoever closed their connections, every
\* slot has been given back, once, and none is registered.
SlotsComeBack == (\A k \in Clients : at[k] = "out") => connCount = 0 /\ table = {}

\* A message delivered again is not handled again, by callbacks at the same time
\* or later: OneBot forgets it after Limit other messages, the others not before
\* more messages have come than they keep.
NotTwice ==
    [][\A m \in Messages :
         since'[m] = 0 /\ new' > new /\ since[m] # TI!Unknown
             => IF kind = "onebot" THEN since[m] >= Limit ELSE new' > Limit + 1]_vars
=============================================================================
