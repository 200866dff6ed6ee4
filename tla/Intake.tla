------------------------------- MODULE Intake -------------------------------
(***************************************************************************)
(* How adapters take a message in: it is looked up among the messages seen *)
(* before, and published on the bus.  Three ways to remember:              *)
(*   onebot  a ring of the latest ids, one message at a time               *)
(*           (pkg/channels/onebot/onebot.go)                               *)
(*   qq      a map that loses half of its ids, any half, when it is full;  *)
(*           check and cleaning under one lock (pkg/channels/qq/qq.go)     *)
(*   wecom   a map that is emptied when it is full, in a section of its    *)
(*           own; every callback is a goroutine, which gets the context of *)
(*           a request that is over when the handler returns               *)
(*           (pkg/channels/wecom/app.go and bot.go)                        *)
(* A platform may deliver a message any number of times.  A message stands *)
(* for its id, of a supported type, with text, from an allowed sender; in  *)
(* a group the trigger decides.                                            *)
(***************************************************************************)
EXTENDS Naturals, FiniteSets, Sequences

CONSTANTS Kinds,       \* the ways to remember that are looked at
          Messages,
          Deliveries,  \* wecom: callbacks at work at a time
          Limit,       \* ids remembered: 1024, 10000 and 1000 in the code
          MaxNew,      \* bound: how many messages are taken for new
          NoMsg

VARIABLES
    kind,
    seen,     \* c.dedup, c.processedIDs, c.processedMsgs
    ring, idx,\* onebot: c.dedupRing, c.dedupIdx (from 1)
    call,     \* call[d]: wecom: the message of callback d and where it is
    request,  \* request[d]: the context of its request is "live" or "cancelled"
    new,      \* how many messages have been taken for new
    since     \* since[m]: how many others since m was (a history variable)

vars == <<kind, seen, ring, idx, call, request, new, since>>

Free == [at |-> "free", msg |-> NoMsg]

\* m has never been taken for new.
Unknown == MaxNew + 1

Init == /\ kind \in Kinds
        /\ seen = {} /\ ring = [i \in 1..Limit |-> NoMsg] /\ idx = 1
        /\ call = [d \in Deliveries |-> Free]
        /\ request = [d \in Deliveries |-> "cancelled"]
        /\ new = 0 /\ since = [m \in Messages |-> Unknown]

\* m is taken for new.
Take(m) ==
    /\ new < MaxNew /\ new' = new + 1
    /\ since' = [x \in Messages |-> IF x = m THEN 0
                                    ELSE IF since[x] = Unknown THEN Unknown ELSE since[x] + 1]

-----------------------------------------------------------------------------
(* OneBot's isDuplicate.  A duplicate changes nothing.                     *)

\* Mutant of TakeRing: the index moves on before the old id is dropped.
TakeRingAhead(m) ==
    LET next == (idx % Limit) + 1
    IN  /\ kind = "onebot" /\ m \notin seen
        /\ seen' = (seen \ {ring[next]}) \cup {m}
        /\ ring' = [ring EXCEPT ![idx] = m]
        /\ idx' = next
        /\ Take(m)
        /\ UNCHANGED <<kind, call, request>>

TakeRing(m) ==
    /\ kind = "onebot" /\ m \notin seen
    /\ seen' = (seen \ {ring[idx]}) \cup {m}
    /\ ring' = [ring EXCEPT ![idx] = m]
    /\ idx' = (idx % Limit) + 1
    /\ Take(m)
    /\ UNCHANGED <<kind, call, request>>

-----------------------------------------------------------------------------
(* QQ's isDuplicate: when the map is full any half of it goes, the message *)
(* just recorded perhaps with it.                                          *)

TakeHalving(m) ==
    /\ kind = "qq" /\ m \notin seen
    /\ LET all == seen \cup {m}
       IN  IF Cardinality(all) <= Limit
           THEN seen' = all
           ELSE \E half \in SUBSET all : /\ Cardinality(half) = Limit \div 2
                                         /\ seen' = all \ half
    /\ Take(m)
    /\ UNCHANGED <<kind, ring, idx, call, request>>

-----------------------------------------------------------------------------
(* WeCom: handleMessageCallback and the goroutines of processMessage.      *)

\* A callback is accepted: its goroutine is on the way.
Accept(d, m) ==
    /\ kind = "wecom" /\ call[d] = Free /\ request[d] = "cancelled"
    /\ call' = [call EXCEPT ![d] = [at |-> "called", msg |-> m]]
    /\ request' = [request EXCEPT ![d] = "live"]
    /\ UNCHANGED <<kind, seen, ring, idx, new, since>>

\* The handler has written "success" and returns: its context is cancelled.
Respond(d) ==
    /\ request[d] = "live"
    /\ request' = [request EXCEPT ![d] = "cancelled"]
    /\ UNCHANGED <<kind, seen, ring, idx, call, new, since>>

\* The check for a duplicate and the record, under the lock.
Record(d) ==
    LET m == call[d].msg
    IN  /\ call[d].at = "called"
        /\ IF m \in seen
           THEN call' = [call EXCEPT ![d] = Free] /\ UNCHANGED <<seen, new, since>>
           ELSE /\ call' = [call EXCEPT ![d].at = "recorded"]
                /\ seen' = seen \cup {m} /\ Take(m)
        /\ UNCHANGED <<kind, ring, idx, request>>

\* The size, read without the lock.
Measure(d) ==
    /\ call[d].at = "recorded"
    /\ call' = [call EXCEPT ![d].at = IF Cardinality(seen) > Limit THEN "full" ELSE "ready"]
    /\ UNCHANGED <<kind, seen, ring, idx, request, new, since>>

\* The lock again: a new map.
Clear(d) ==
    /\ call[d].at = "full"
    /\ call' = [call EXCEPT ![d].at = "ready"]
    /\ seen' = {}
    /\ UNCHANGED <<kind, ring, idx, request, new, since>>

\* The group trigger ignores the message, or PublishInbound puts it on the bus;
\* it returns an error, and the message is lost, when the context is cancelled.
Publish(d) ==
    /\ call[d].at = "ready"
    /\ call' = [call EXCEPT ![d] = Free]
    /\ UNCHANGED <<kind, seen, ring, idx, request, new, since>>

-----------------------------------------------------------------------------
Callback(d) == Respond(d) \/ Record(d) \/ Measure(d) \/ Clear(d) \/ Publish(d)

Next == \/ \E m \in Messages : TakeRing(m) \/ TakeHalving(m) \/ \E d \in Deliveries : Accept(d, m)
        \/ \E d \in Deliveries : Callback(d)

TypeOK ==
    /\ kind \in Kinds /\ seen \subseteq Messages
    /\ ring \in [1..Limit -> Messages \cup {NoMsg}] /\ idx \in 1..Limit
    /\ call \in [Deliveries -> [at : {"free", "called", "recorded", "full", "ready"},
                                msg : Messages \cup {NoMsg}]]
    /\ request \in [Deliveries -> {"live", "cancelled"}]
    /\ new \in 0..MaxNew /\ since \in [Messages -> 0..Unknown]
=============================================================================
