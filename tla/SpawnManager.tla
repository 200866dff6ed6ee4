---------------------------- MODULE SpawnManager ----------------------------
(***************************************************************************)
(* Asynchronous agent spawns (pkg/multiagent): AsyncSpawn with its         *)
(* deduplication cache (dedup.go), the semaphore per parent session        *)
(* (spawn.go), the registry of active runs (cascade.go) and the announcer  *)
(* that brings results back to the parent (announce.go).                   *)
(*                                                                         *)
(* A request is one call of AsyncSpawn, made by the goroutine that runs    *)
(* the parent's tools; an accepted one goes on in a goroutine of its own.  *)
(* What the child agent does is left out: it comes to an end, at the       *)
(* latest when its context times out.  A handoff is a call of              *)
(* HandoffTool.Execute: the parent waits for the child, which is put into  *)
(* the same registry under the same parent, without a permit.  Time is the *)
(* age of the entries of the deduplication cache.                          *)
(***************************************************************************)
EXTENDS Naturals, Sequences, FiniteSets

CONSTANTS Requests,    \* calls of AsyncSpawn
          Handoffs,    \* handoffs that may be under way at once, each one call after the other
          Keys,        \* deduplication keys: from, to and hash of the task
          KeyOf,       \* KeyOf[r]: the key BuildSpawnKey gives request r
          Sessions,    \* parent sessions
          MaxChildren, \* SpawnManager.maxChildren
          BufSize,     \* Announcer.bufSize
          DedupTTL     \* DedupCache.ttl

Runs == Requests \cup Handoffs

Absent == [expired |-> TRUE]
Entry  == [age: 0..DedupTTL + 1]

ASSUME ConstantsAssumption == /\ IsFiniteSet(Requests)
                              /\ IsFiniteSet(Handoffs)
                              /\ Requests \cap Handoffs = {}
                              /\ KeyOf \in [Requests -> Keys]
                              /\ MaxChildren \in Nat \ {0}
                              /\ BufSize \in Nat \ {0}
                              /\ DedupTTL \in Nat \ {0}

VARIABLES
    spc,      \* spc[r]: how far request or handoff r has got
    parent,   \* parent[r]: the session it was made for
    dedup,    \* DedupCache.entries
    since,    \* history: since[k] is the age of the last request that passed with key k
    sem,      \* sem[p]: permits taken from the semaphore of p
    registry, \* RunRegistry.runs: requests and handoffs registered
    box,      \* box[p]: the announcer's channel of session p
    drained,  \* drained[p]: what Drain has returned to p so far
    lost,     \* announcements that were dropped
    todo,     \* runs that StopAll has still to visit
    stop      \* "no", "running" or "done": AgentLoop.Stop's RunRegistry.StopAll

admission == <<parent, dedup, since>>
announcer == <<box, drained, lost>>
stopper   == <<todo, stop>>
vars == <<spc, admission, sem, registry, announcer, stopper>>

Init == /\ spc = [r \in Runs |-> "idle"]
        /\ parent \in [Runs -> Sessions]
        /\ dedup = [k \in Keys |-> Absent]
        /\ since = [k \in Keys |-> Absent]
        /\ sem = [p \in Sessions |-> 0]
        /\ registry = {}
        /\ box = [p \in Sessions |-> <<>>]
        /\ drained = [p \in Sessions |-> <<>>]
        /\ lost = {}
        /\ todo = {}
        /\ stop = "no"

Goes(r, from, to) == spc[r] = from /\ spc' = [spc EXCEPT ![r] = to]

-----------------------------------------------------------------------------
(* AsyncSpawn.                                                             *)

\* The allowlist says no.
Deny(r) == /\ Goes(r, "idle", "denied")
           /\ UNCHANGED <<admission, sem, registry, announcer, stopper>>

Duplicate(k) == dedup[k] # Absent /\ dedup[k].age < DedupTTL

\* DedupCache.Check, under its mutex: a key that is new or has expired is
\* registered.
Check(r) ==
    LET k == KeyOf[r] IN
    /\ IF Duplicate(k)
       THEN Goes(r, "idle", "duplicate") /\ UNCHANGED admission
       ELSE /\ Goes(r, "idle", "checked")
            /\ dedup' = [dedup EXCEPT ![k] = [age |-> 0]]
            /\ since' = [since EXCEPT ![k] = [age |-> 0]]
            /\ UNCHANGED parent
    /\ UNCHANGED <<sem, registry, announcer, stopper>>

\* The permit is taken or not; nobody waits for one.
Acquire(r) ==
    LET p == parent[r] IN
    /\ IF sem[p] < MaxChildren
       THEN Goes(r, "checked", "acquired") /\ sem' = [sem EXCEPT ![p] = @ + 1]
       ELSE Goes(r, "checked", "full") /\ UNCHANGED sem
    /\ UNCHANGED <<admission, registry, announcer, stopper>>

Register(r) == /\ Goes(r, "acquired", "running")
               /\ registry' = registry \cup {r}
               /\ UNCHANGED <<admission, sem, announcer, stopper>>

-----------------------------------------------------------------------------
(* The spawned goroutine, its deferred calls last: Deregister, release.    *)

\* ExecuteHandoff returns: a result, an error, the timeout or the cancellation.
Finish(r) == /\ Goes(r, "running", "finished")
             /\ UNCHANGED <<admission, sem, registry, announcer, stopper>>

\* Mutant of Deliver: a full channel is left alone.
DeliverOrGiveUp(r) ==
    LET p == parent[r] IN
    /\ Goes(r, "finished", "delivered")
    /\ box' = [box EXCEPT ![p] = IF Len(@) < BufSize THEN Append(@, r) ELSE @]
    /\ UNCHANGED <<admission, sem, registry, drained, lost, stopper>>

\* Announcer.Deliver is three non-blocking selects: send, ...
Deliver(r) ==
    LET p == parent[r] IN
    /\ IF Len(box[p]) < BufSize
       THEN Goes(r, "finished", "delivered") /\ box' = [box EXCEPT ![p] = Append(@, r)]
       ELSE Goes(r, "finished", "making room") /\ UNCHANGED box
    /\ UNCHANGED <<admission, sem, registry, drained, lost, stopper>>

\* ... take the oldest out if there still is one, ...
DropOldest(r) ==
    LET p == parent[r] IN
    /\ Goes(r, "making room", "retrying")
    /\ IF box[p] # <<>>
       THEN box' = [box EXCEPT ![p] = Tail(@)] /\ lost' = lost \cup {Head(box[p])}
       ELSE UNCHANGED <<box, lost>>
    /\ UNCHANGED <<admission, sem, registry, drained, stopper>>

\* ... and send once more, or give up.
DeliverAgain(r) ==
    LET p == parent[r] IN
    /\ Goes(r, "retrying", "delivered")
    /\ IF Len(box[p]) < BufSize
       THEN box' = [box EXCEPT ![p] = Append(@, r)] /\ UNCHANGED lost
       ELSE lost' = lost \cup {r} /\ UNCHANGED box
    /\ UNCHANGED <<admission, sem, registry, drained, stopper>>

Deregister(r) == /\ Goes(r, "delivered", "deregistered")
                 /\ registry' = registry \ {r}
                 /\ UNCHANGED <<admission, sem, announcer, stopper>>

\* Mutant of Release: the deferred call is missing.
ReleaseForgotten(r) ==
    /\ Goes(r, "deregistered", "done")
    /\ UNCHANGED <<admission, sem, registry, announcer, stopper>>

\* A receive: it would block on an empty semaphore.
Release(r) == LET p == parent[r] IN
              /\ sem[p] > 0
              /\ Goes(r, "deregistered", "done")
              /\ sem' = [sem EXCEPT ![p] = @ - 1]
              /\ UNCHANGED <<admission, registry, announcer, stopper>>

-----------------------------------------------------------------------------
(* HandoffTool.Execute, in the goroutine that runs the parent's tools.     *)

\* No permit is asked for: the limit is one of spawns.
HandoffBegins(h) == /\ Goes(h, "idle", "running")
                    /\ registry' = registry \cup {h}
                    /\ UNCHANGED <<admission, sem, announcer, stopper>>

\* ExecuteHandoff has returned; the deferred call deregisters.
HandoffReturns(h) == /\ Goes(h, "running", "idle")
                     /\ registry' = registry \ {h}
                     /\ UNCHANGED <<admission, sem, announcer, stopper>>

-----------------------------------------------------------------------------
\* Announcer.Drain, one receive of its loop: the parent's agent loop calls it
\* after the tools of an iteration, if there is another iteration.
Drain(p) == /\ box[p] # <<>>
            /\ drained' = [drained EXCEPT ![p] = Append(@, Head(box[p]))]
            /\ box' = [box EXCEPT ![p] = Tail(@)]
            /\ UNCHANGED <<spc, admission, sem, registry, lost, stopper>>

\* RunRegistry.StopAll.  Range shows what was there when it began, unless it is
\* deregistered first; what is registered meanwhile it need not show.
StopBegins == /\ stop = "no"
              /\ stop' = "running"
              /\ todo' = registry
              /\ UNCHANGED <<spc, admission, sem, registry, announcer>>

StopVisits(r) == /\ r \in todo
                 /\ todo' = todo \ {r}
                 /\ registry' = registry \ {r}
                 /\ UNCHANGED <<spc, admission, sem, announcer, stop>>

StopEnds == /\ stop = "running"
            /\ todo = {}
            /\ stop' = "done"
            /\ UNCHANGED <<spc, admission, sem, registry, announcer, todo>>

-----------------------------------------------------------------------------
Aged(e, now) == IF e = Absent \/ e.age > DedupTTL THEN e ELSE [age |-> e.age + 1]

Tick == /\ \E k \in Keys : Aged(since[k], 0) # since[k]
        /\ dedup' = [k \in Keys |-> Aged(dedup[k], 0)]
        /\ since' = [k \in Keys |-> Aged(since[k], 0)]
        /\ UNCHANGED <<spc, parent, sem, registry, announcer, stopper>>

\* Mutant of Sweep: an entry that expires in one more tick goes too.
SweepEarly == /\ dedup' = [k \in Keys |-> IF dedup[k] # Absent /\ dedup[k].age + 1 >= DedupTTL
                                          THEN Absent ELSE dedup[k]]
              /\ dedup' # dedup
              /\ UNCHANGED <<spc, parent, since, sem, registry, announcer, stopper>>

\* DedupCache.sweep.
Sweep == /\ dedup' = [k \in Keys |-> IF dedup[k] # Absent /\ dedup[k].age > DedupTTL
                                     THEN Absent ELSE dedup[k]]
         /\ dedup' # dedup
         /\ UNCHANGED <<spc, parent, since, sem, registry, announcer, stopper>>

Caller(r)    == Deny(r) \/ Check(r) \/ Acquire(r) \/ Register(r)

\* Mutant of Goroutine: the deferred calls in the other order.
GoroutineReleasesFirst(r) ==
    \/ Finish(r) \/ Deliver(r) \/ DropOldest(r) \/ DeliverAgain(r)
    \/ /\ Goes(r, "delivered", "deregistered")
       /\ sem' = [sem EXCEPT ![parent[r]] = @ - 1]
       /\ UNCHANGED <<admission, registry, announcer, stopper>>
    \/ /\ Goes(r, "deregistered", "done")
       /\ registry' = registry \ {r}
       /\ UNCHANGED <<admission, sem, announcer, stopper>>

Goroutine(r) == \/ Finish(r)
                \/ Deliver(r)
                \/ DropOldest(r)
                \/ DeliverAgain(r)
                \/ Deregister(r)
                \/ Release(r)

Next == \/ \E r \in Requests : Caller(r) \/ Goroutine(r)
        \/ \E h \in Handoffs : HandoffBegins(h) \/ HandoffReturns(h)
        \/ \E x \in Runs : StopVisits(x)
        \/ \E p \in Sessions : Drain(p)
        \/ StopBegins
        \/ StopEnds
        \/ Tick
        \/ Sweep

Spec == Init /\ [][Next]_vars

\* A call that has begun returns, and a goroutine runs to its end: the child's
\* context has a timeout.  Nobody has to hand off, to drain, to sweep or to stop, and
\* no handoff has to return.
FairSpec == /\ Spec
            /\ \A r \in Requests : /\ WF_vars(Acquire(r) \/ Register(r))
                                   /\ WF_vars(Goroutine(r))

-----------------------------------------------------------------------------
(* Properties.                                                             *)

Steps == {"idle", "denied", "duplicate", "full", "checked", "acquired", "running", "finished",
          "making room", "retrying", "delivered", "deregistered", "done"}

TypeOK == /\ spc \in [Runs -> Steps]
          /\ parent \in [Runs -> Sessions]
          /\ dedup \in [Keys -> Entry \cup {Absent}]
          /\ since \in [Keys -> Entry \cup {Absent}]
          /\ sem \in [Sessions -> 0..MaxChildren]
          /\ registry \subseteq Runs
          /\ box \in [Sessions -> Seq(Requests)]
          /\ \A p \in Sessions : Len(box[p]) <= BufSize
          /\ drained \in [Sessions -> Seq(Requests)]
          /\ lost \subseteq Requests
          /\ todo \subseteq Runs
          /\ stop \in {"no", "running", "done"}

\* RunRegistry.GetChildren and SpawnManager.ActiveChildCount, which tell no spawn from
\* a handoff.
Children(p) == {x \in registry : parent[x] = p}
ActiveChildCount(p) == Cardinality(Children(p))

\* The handoffs that session p waits for.
AwaitedBy(p) == {h \in Handoffs : spc[h] = "running" /\ parent[h] = p}

\* A parent never has more spawned children in the registry than the limit, at whatever
\* point of their deferred calls the goroutines are: every one of them still holds its
\* permit.  ActiveChildCount may go above the limit, by the handoffs the parent waits
\* for and by nothing else.
ChildrenLimited ==
    \A p \in Sessions :
       /\ Cardinality(Children(p) \cap Requests) <= MaxChildren
       /\ ActiveChildCount(p) <= MaxChildren + Cardinality(AwaitedBy(p))

Past == {"delivered", "deregistered", "done"}
Received(q, r) == Cardinality({i \in DOMAIN q : q[i] = r})

\* The result of a run is announced to its own parent once: it is in the
\* parent's channel, was drained by the parent or was dropped, one of the three
\* and only once, however deliveries and drains interleave.
AnnouncedOnce ==
    \A r \in Requests, p \in Sessions :
       Received(box[p], r) + Received(drained[p], r) + (IF r \in lost /\ parent[r] = p THEN 1 ELSE 0)
          = IF spc[r] \in Past /\ parent[r] = p THEN 1 ELSE 0

\* Idempotent within the window: two requests with one key do not both get
\* past the cache unless DedupTTL has gone by in between, sweeps or not.
OncePerWindow ==
    [][\A r \in Requests : spc[r] = "idle" /\ spc'[r] = "checked" =>
          since[KeyOf[r]] = Absent \/ since[KeyOf[r]].age >= DedupTTL]_vars

\* Every accepted spawn gives its permit back, whether or not anybody drains:
\* delivering never blocks.  (There are only so many requests, so now and then
\* no permit is taken.)
PermitsComeBack == \A p \in Sessions : []<>(sem[p] = 0)
=============================================================================
