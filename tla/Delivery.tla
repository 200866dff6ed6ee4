------------------------------ MODULE Delivery ------------------------------
(***************************************************************************)
(* What the outbound path of the gateway promises to whoever publishes a   *)
(* reply, without its queues, dispatchers and workers: replies of one      *)
(* route (a lane, text or media, of one chat channel) are handed to the    *)
(* platform oldest first, part by part, each part a bounded number of      *)
(* times; a reply of a served route is let go only when each of its parts  *)
(* was handed over at least once; and none disappears before the shutdown. *)
(* OutboundPath implements it.                                             *)
(***************************************************************************)
EXTENDS Naturals

CONSTANTS Lanes,    \* kinds of outbound traffic
          Targets,  \* names a reply can be addressed to
          MaxParts, \* parts a reply is split into, at most
          MaxTries, \* times one part is handed over, at most
          MaxMsgs   \* replies accepted in a behaviour, at most

Message == [id: 1..MaxMsgs, lane: Lanes, chan: Targets, parts: 1..MaxParts]
Route   == Lanes \X Targets

VARIABLES pending, \* replies accepted and not yet let go
          tried,   \* the last hand-over of each route: which part of which reply, for the n-th time
          next,    \* number of the next reply
          served,  \* routes that some worker serves
          down     \* the shutdown has begun
vars == <<pending, tried, next, served, down>>

RouteOf(m) == <<m.lane, m.chan>>

Oldest(m) == /\ m \in pending
             /\ \A o \in pending : RouteOf(o) = RouteOf(m) => m.id <= o.id

\* Every part of m has been handed over, the last one most recently.
Complete(m, t) == t.id = m.id /\ t.part = m.parts

\* Hand-over t may follow hand-over s when it is about reply m: the same part
\* once more, the part after it, or the first part of a later reply.
Follows(m, s, t) ==
    /\ t.id = m.id
    /\ t.part \in 1..m.parts
    /\ t.n \in 1..MaxTries
    /\ \/ s.id = m.id /\ t.part = s.part /\ t.n = s.n + 1
       \/ s.id = m.id /\ t.part = s.part + 1 /\ t.n = 1
       \/ s.id < m.id /\ t.part = 1 /\ t.n = 1

Init == /\ pending = {}
        /\ tried = [r \in Route |-> [id |-> 0, part |-> 0, n |-> 0]]
        /\ next = 1
        /\ served = {}
        /\ down = FALSE

Serve == /\ served' \in SUBSET Route
         /\ served = {}
         /\ UNCHANGED <<pending, tried, next, down>>

Accept == /\ next <= MaxMsgs
          /\ \E m \in Message : m.id = next /\ pending' = pending \cup {m}
          /\ next' = next + 1
          /\ UNCHANGED <<tried, served, down>>

HandOver(m) ==
    /\ Oldest(m)
    /\ RouteOf(m) \in served
    /\ \E t \in [id: {m.id}, part: 1..m.parts, n: 1..MaxTries] :
          /\ Follows(m, tried[RouteOf(m)], t)
          /\ tried' = [tried EXCEPT ![RouteOf(m)] = t]
          /\ pending' \in {pending} \cup (IF Complete(m, t) THEN {pending \ {m}} ELSE {})
    /\ UNCHANGED <<next, served, down>>

LetGo(m) == /\ Oldest(m)
            /\ RouteOf(m) \notin served
            /\ pending' = pending \ {m}
            /\ UNCHANGED <<tried, next, served, down>>

ShutDown == /\ down' = TRUE
            /\ UNCHANGED <<pending, tried, next, served>>

Lose == /\ down
        /\ \E m \in pending : pending' = pending \ {m}
        /\ UNCHANGED <<tried, next, served, down>>

Next == \/ Serve
        \/ Accept
        \/ \E m \in pending : HandOver(m) \/ LetGo(m)
        \/ ShutDown
        \/ Lose

Spec == Init /\ [][Next]_vars
=============================================================================
