------------------------------ MODULE Presence ------------------------------
(***************************************************************************)
(* The signs of life a chat shows while its message is being answered: the *)
(* typing indicator, the reaction on the inbound message and the           *)
(* placeholder ("Thinking...").  BaseChannel.HandleMessage (pkg/channels/  *)
(* base.go) starts them and records them in three maps of the Manager      *)
(* (pkg/channels/manager.go) under the key of the chat; preSend, called by *)
(* the channel's worker before a reply is sent, takes them out again and   *)
(* stops them; a janitor evicts what has outlived its TTL.  Nothing holds  *)
(* a lock across two steps.                                                *)
(*                                                                         *)
(* One chat is modelled: chats have different keys and share nothing.      *)
(* Time is the age of the entries, counted up to just past the TTL.        *)
(***************************************************************************)
EXTENDS Naturals

CONSTANTS Messages,   \* inbound messages of the chat, each handled in its goroutine
          PerChat,    \* indicators whose stop function acts on the chat, not on one message
          TypingTTL,  \* typingStopTTL, for typing and reactions
          PlaceholderTTL, \* placeholderTTL
          MaxReplies  \* bound: replies waiting for the worker

Indicators == {"typing", "reaction"}
Kinds      == Indicators \cup {"placeholder"}
None       == [owner |-> "none"]
TTL(k)     == IF k = "placeholder" THEN PlaceholderTTL ELSE TypingTTL
Entry(k)   == [owner: Messages, age: 0..TTL(k) + 1]

ASSUME ConstantsAssumption == /\ PerChat \subseteq Indicators
                              /\ TypingTTL \in Nat
                              /\ PlaceholderTTL \in Nat
                              /\ MaxReplies \in Nat \ {0}

VARIABLES
    entry,   \* entry[k]: what the map of kind k holds for the chat, or None
    shown,   \* shown[k]: messages whose indicator is on, or whose placeholder still waits
    edits,   \* edits[m]: how often the placeholder of m was edited into a reply
    hpc,     \* hpc[m]: the step of HandleMessage and the kind it is about
    inbox,   \* messages on the inbound bus
    replies, \* replies in the worker's queue
    wpc,     \* the step of the worker in preSend and the kind it is about
    wheld,   \* the entry it took out
    jpc,     \* the step of the janitor and the kind it is about
    jheld    \* the entry that Range showed it

handlerVars == <<hpc, inbox>>
workerVars  == <<replies, wpc, wheld>>
janitorVars == <<jpc, jheld>>
vars == <<entry, shown, edits, handlerVars, workerVars, janitorVars>>

At(step, k) == [step |-> step, kind |-> k]

Init == /\ entry = [k \in Kinds |-> None]
        /\ shown = [k \in Kinds |-> {}]
        /\ edits = [m \in Messages |-> 0]
        /\ hpc = [m \in Messages |-> At("start", "typing")]
        /\ inbox = {}
        /\ replies = 0
        /\ wpc = At("recv", "typing")
        /\ wheld = None
        /\ jpc = At("scan", "typing")
        /\ jheld = None

\* The order in which all three parties go through the maps.
Following(k) == CASE k = "typing" -> "reaction" [] k = "reaction" -> "placeholder"

-----------------------------------------------------------------------------
(* HandleMessage.                                                          *)

HandlerMoves(m, k) ==
    hpc' = [hpc EXCEPT ![m] = IF k = "placeholder" THEN At("publish", k)
                                                   ELSE At("start", Following(k))]

\* A loop per chat replaces the loop that runs for it; others add up.
Start(m) ==
    LET k == hpc[m].kind IN
    /\ hpc[m].step = "start"
    /\ hpc' = [hpc EXCEPT ![m] = At("record", k)]
    /\ shown' = [shown EXCEPT ![k] = IF k \in PerChat THEN {m} ELSE @ \cup {m}]
    /\ UNCHANGED <<entry, edits, inbox, workerVars, janitorVars>>

\* The channel cannot do it, or tried and got an error.
StartFails(m) ==
    /\ hpc[m].step = "start"
    /\ HandlerMoves(m, hpc[m].kind)
    /\ UNCHANGED <<entry, shown, edits, inbox, workerVars, janitorVars>>

\* RecordTypingStop, RecordReactionUndo, RecordPlaceholder: a plain Store.
Record(m) ==
    LET k == hpc[m].kind IN
    /\ hpc[m].step = "record"
    /\ entry' = [entry EXCEPT ![k] = [owner |-> m, age |-> 0]]
    /\ HandlerMoves(m, k)
    /\ UNCHANGED <<shown, edits, inbox, workerVars, janitorVars>>

PublishInbound(m) ==
    /\ hpc[m].step = "publish"
    /\ hpc' = [hpc EXCEPT ![m] = At("done", "placeholder")]
    /\ inbox' \in {inbox, inbox \cup {m}}
    /\ UNCHANGED <<entry, shown, edits, workerVars, janitorVars>>

\* The agent takes a message and answers it with any number of replies.
Answer(m) ==
    /\ m \in inbox
    /\ inbox' = inbox \ {m}
    /\ replies' \in replies..MaxReplies
    /\ UNCHANGED <<entry, shown, edits, hpc, wpc, wheld, janitorVars>>

-----------------------------------------------------------------------------
(* preSend, in the channel's worker.                                       *)

\* What the stop function recorded for message m does.
Off(k, m) == [shown EXCEPT ![k] = IF k \in PerChat THEN {} ELSE @ \ {m}]

TakeReply ==
    /\ wpc.step = "recv"
    /\ replies > 0
    /\ replies' = replies - 1
    /\ wpc' = At("take", "typing")
    /\ UNCHANGED <<entry, shown, edits, handlerVars, wheld, janitorVars>>

\* Mutant of LoadAndDelete: the entry stays in the map.
LoadAndKeep ==
    LET k == wpc.kind IN
    /\ wpc.step = "take"
    /\ UNCHANGED entry
    /\ IF entry[k] # None
       THEN wheld' = entry[k] /\ wpc' = At("call", k)
       ELSE /\ UNCHANGED wheld
            /\ wpc' = IF k = "placeholder" THEN At("recv", k) ELSE At("take", Following(k))
    /\ UNCHANGED <<shown, edits, handlerVars, replies, janitorVars>>

LoadAndDelete ==
    LET k == wpc.kind IN
    /\ wpc.step = "take"
    /\ entry' = [entry EXCEPT ![k] = None]
    /\ IF entry[k] # None
       THEN wheld' = entry[k] /\ wpc' = At("call", k)
       ELSE /\ UNCHANGED wheld
            /\ wpc' = IF k = "placeholder" THEN At("recv", k) ELSE At("take", Following(k))
    /\ UNCHANGED <<shown, edits, handlerVars, replies, janitorVars>>

\* Mutant of StopRecorded: the entry is dropped without the call.
DropRecorded ==
    LET k == wpc.kind IN
    /\ wpc.step = "call"
    /\ k \in Indicators
    /\ UNCHANGED shown
    /\ wheld' = None
    /\ wpc' = At("take", Following(k))
    /\ UNCHANGED <<entry, edits, handlerVars, replies, janitorVars>>

StopRecorded ==
    LET k == wpc.kind IN
    /\ wpc.step = "call"
    /\ k \in Indicators
    /\ shown' = Off(k, wheld.owner)
    /\ wheld' = None
    /\ wpc' = At("take", Following(k))
    /\ UNCHANGED <<entry, edits, handlerVars, replies, janitorVars>>

\* EditMessage succeeds, or the reply goes the normal way.
EditPlaceholder ==
    /\ wpc = At("call", "placeholder")
    /\ \/ /\ shown' = [shown EXCEPT !["placeholder"] = @ \ {wheld.owner}]
          /\ edits' = [edits EXCEPT ![wheld.owner] = @ + 1]
       \/ UNCHANGED <<shown, edits>>
    /\ wheld' = None
    /\ wpc' = At("recv", "typing")
    /\ UNCHANGED <<entry, handlerVars, replies, janitorVars>>

-----------------------------------------------------------------------------
(* runTTLJanitor.                                                          *)

\* Mutant of JanitorMoves: the placeholders are not scanned.
JanitorSkipsPlaceholders ==
    jpc' = IF jpc.kind = "typing" THEN At("scan", "reaction") ELSE At("scan", "typing")

JanitorMoves ==
    jpc' = IF jpc.kind = "placeholder" THEN At("scan", "typing") ELSE At("scan", Following(jpc.kind))

\* Range hands out the entry as it is now, if there is one.
JanitorScans ==
    LET e == entry[jpc.kind] IN
    /\ jpc.step = "scan"
    /\ IF e # None /\ e.age > TTL(jpc.kind)
       THEN jheld' = e /\ jpc' = At("evict", jpc.kind)
       ELSE JanitorMoves /\ UNCHANGED jheld
    /\ UNCHANGED <<entry, shown, edits, handlerVars, workerVars>>

\* Mutant of JanitorEvicts: indicators are only deleted, like placeholders.
JanitorForgets ==
    /\ jpc.step = "evict"
    /\ entry' = [entry EXCEPT ![jpc.kind] = None]
    /\ jheld' = None
    /\ JanitorMoves
    /\ UNCHANGED <<shown, edits, handlerVars, workerVars>>

\* LoadAndDelete or Delete by key: what is under the key by now may be another
\* entry than the one that had expired.
JanitorEvicts ==
    LET k == jpc.kind IN
    /\ jpc.step = "evict"
    /\ entry' = [entry EXCEPT ![k] = None]
    /\ IF entry[k] # None /\ k \in Indicators
       THEN jpc' = At("call", k) /\ UNCHANGED jheld
       ELSE JanitorMoves /\ jheld' = None
    /\ UNCHANGED <<shown, edits, handlerVars, workerVars>>

\* The stop function called is that of the expired entry.
JanitorStops ==
    /\ jpc.step = "call"
    /\ shown' = Off(jpc.kind, jheld.owner)
    /\ jheld' = None
    /\ JanitorMoves
    /\ UNCHANGED <<entry, edits, handlerVars, workerVars>>

Older(e, k) == IF e = None \/ e.age > TTL(k) THEN e ELSE [e EXCEPT !.age = @ + 1]

Tick == /\ \E k \in Kinds : entry[k] # None /\ entry[k].age <= TTL(k)
        /\ entry' = [k \in Kinds |-> Older(entry[k], k)]
        /\ UNCHANGED <<shown, edits, handlerVars, workerVars, janitorVars>>

-----------------------------------------------------------------------------
Handler(m) == Start(m) \/ StartFails(m) \/ Record(m) \/ PublishInbound(m)
Worker     == TakeReply \/ LoadAndDelete \/ StopRecorded \/ EditPlaceholder
Janitor    == JanitorScans \/ JanitorEvicts \/ JanitorStops

Next == \/ \E m \in Messages : Handler(m) \/ Answer(m)
        \/ Worker
        \/ Janitor
        \/ Tick

Spec == Init /\ [][Next]_vars

\* Time passes, the janitor and the worker run, and a HandleMessage that has
\* begun goes on.  The agent need not answer.
Arrived(m) == hpc[m] # At("start", "typing")
FairSpec == /\ Spec
            /\ WF_vars(Tick)
            /\ WF_vars(Janitor)
            /\ WF_vars(Worker)
            /\ \A m \in Messages : WF_vars(Arrived(m) /\ Handler(m))

-----------------------------------------------------------------------------
(* Properties.                                                             *)

\* The types; and no stop function is called that was not loaded from a map.
TypeOK ==
    /\ DOMAIN entry = Kinds /\ \A k \in Kinds : entry[k] \in Entry(k) \cup {None}
    /\ shown \in [Kinds -> SUBSET Messages]
    /\ edits \in [Messages -> Nat]
    /\ hpc \in [Messages -> [step: {"start", "record", "publish", "done"}, kind: Kinds]]
    /\ inbox \subseteq Messages
    /\ replies \in 0..MaxReplies
    /\ wpc \in [step: {"recv", "take", "call"}, kind: Kinds]
    /\ jpc \in [step: {"scan", "evict", "call"}, kind: Kinds]
    /\ wpc.step = "call" => wheld \in Entry(wpc.kind)
    /\ wpc.step # "call" => wheld = None
    /\ jpc.step # "scan" => jheld \in Entry(jpc.kind)
    /\ jpc.step = "scan" => jheld = None

\* A placeholder becomes one reply: no two replies edit the same message, one
\* overwriting the other.
EditedOnce == \A m \in Messages : edits[m] <= 1

Recorded(m, k) == \/ hpc[m].step \in {"publish", "done"}
                  \/ k = "typing" /\ hpc[m].kind # "typing"
                  \/ k = "reaction" /\ hpc[m].kind = "placeholder"

\* Somebody still has the stop function of message m.
Stoppable(m, k) == \/ entry[k] # None /\ entry[k].owner = m
                   \/ wpc = At("call", k) /\ wheld.owner = m
                   \/ jpc = At("call", k) /\ jheld.owner = m

\* The indicator of a message can only be left on for good because another
\* message of the chat was recorded: neither the janitor nor the worker alone
\* loses a stop function.
LostToAnother ==
    \A k \in Indicators : \A m \in shown[k] :
       Recorded(m, k) => \/ Stoppable(m, k)
                         \/ \E o \in Messages \ {m} : Recorded(o, k)

\* The maps do not accumulate entries, whether or not replies are sent: every
\* entry is taken out by a reply or by the janitor.
MapsEmptyOut == <>[](\A k \in Kinds : entry[k] = None)

\* A typing indicator does not stay on for ever, even if no reply comes.
TypingStops == \A m \in Messages : m \in shown["typing"] ~> m \notin shown["typing"]
=============================================================================
