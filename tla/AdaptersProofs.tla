--------------------------- MODULE AdaptersProofs ---------------------------
(***************************************************************************)
(* Proofs about Adapters, for any number of connections, clients and       *)
(* messages, and for any limits.                                           *)
(***************************************************************************)
EXTENDS Adapters, FiniteSetTheorems, TLAPS

-----------------------------------------------------------------------------
(* WhatsApp's WaitGroup.                                                   *)

\* Once Stop has begun, stopping is set, and no Start is at work that would
\* reset it or add the goroutine of the login codes.
WInv == /\ wg \in Int
        /\ waStop # "no" => stopping /\ start \in {"started", "failed"}

LEMMA WaitStep ==
  ASSUME WInv, [Next]_vars
  PROVE  WInv' /\ (wg' > wg => waStop = "no")
<1>1. CASE UNCHANGED waVars
  BY <1>1 DEF WInv, waVars
<1>2. CASE WA!StartOpens \/ WA!StartConnects \/ WA!StartLogin
  BY <1>2 DEF WInv, WA!StartOpens, WA!StartConnects, WA!StartLogin, WA!CleanUp, WA!tasks
<1>3. CASE WA!LoginEnds \/ WA!LinkBreaks
  BY <1>3 DEF WInv, WA!LoginEnds, WA!LinkBreaks, WA!flags
<1>4. CASE WA!OnDisconnected
  BY <1>4 DEF WInv, WA!OnDisconnected, WA!Spawn
<1>5. CASE WA!Loop \/ WA!LoopSucceeds \/ WA!Done
  BY <1>5 DEF WInv, WA!Loop, WA!LoopChecks, WA!LoopFails, WA!LoopBacksOff, WA!LoopReturns,
              WA!LoopSucceeds, WA!Done, WA!flags
<1>6. CASE WA!StopMarks \/ WA!Stopping \/ WA!StopClears
  BY <1>6 DEF WInv, WA!StopMarks, WA!Stopping, WA!StopCancels, WA!StopDisconnects,
              WA!StopWaited, WA!StopClears, WA!flags, WA!tasks
<1>7. UNCHANGED waVars \/ WA!Next
  BY DEF Next, vars
<1>8. QED
  BY <1>1, <1>2, <1>3, <1>4, <1>5, <1>6, <1>7 DEF WA!Next, WA!Starting

\* No goroutine is added to the WaitGroup once Stop may wait on it, however often
\* the link breaks and however long its events are under way.
THEOREM WaitSafe == Spec => WaitIsSafe
<1>1. Init => WInv
  BY DEF Init, WA!Init, WInv
<1>2. WInv /\ [Next]_vars => WInv'
  BY WaitStep
<1>3. WInv /\ [Next]_vars => [wg' > wg => waStop \in {"no", "marked"}]_vars
  BY WaitStep
<1>4. QED
  BY <1>1, <1>2, <1>3, PTL DEF Spec, WaitIsSafe

-----------------------------------------------------------------------------
(* Pico's slots.                                                           *)

\* The clients that are counted.
Held == {k \in Clients : at[k] \in {"loop", "reading", "leaving"}}

\* What is registered is at least stored; connCount counts what is held.
PInv == /\ at \in [Clients -> {"out", "admitted", "stored", "loop", "reading", "leaving"}]
        /\ \A k \in table : k \in Clients /\ at[k] \in {"stored", "loop", "reading", "leaving"}
        /\ connCount = Cardinality(Held)

LEMMA HeldFinite == IsFiniteSet(Held)
<1>1. Held \subseteq Clients
  BY DEF Held
<1>2. QED
  BY <1>1, FS_Subset, SizesAssumption

\* A step of a client that neither takes nor gives back a slot.
LEMMA SlotKept ==
  ASSUME PInv, NEW k \in Clients, Held' = Held, connCount' = connCount,
         at' \in [Clients -> {"out", "admitted", "stored", "loop", "reading", "leaving"}],
         \A j \in table' : j \in Clients
                             /\ at'[j] \in {"stored", "loop", "reading", "leaving"}
  PROVE  PInv'
BY DEF PInv

LEMMA SlotStep ==
  ASSUME PInv, [Next]_vars
  PROVE  PInv'
<1> USE DEF PI!Move
<1>1. CASE UNCHANGED piVars
  BY <1>1 DEF PInv, Held, piVars
<1>2. ASSUME NEW k \in Clients, PI!Check(k) \/ PI!LoopChecks(k) \/ PI!Reads(k) \/ PI!ReadFails(k)
      PROVE  PInv'
  <2>1. Held' = Held
    BY <1>2 DEF PInv, Held, PI!Check, PI!LoopChecks, PI!Reads, PI!ReadFails
  <2>2. QED
    BY <1>2, <2>1 DEF PInv, PI!Check, PI!LoopChecks, PI!Reads, PI!ReadFails
<1>3. ASSUME NEW k \in Clients, PI!Upgrade(k) PROVE PInv'
  <2>1. Held' = Held
    BY <1>3 DEF PInv, Held, PI!Upgrade
  <2>2. QED
    BY <1>3, <2>1 DEF PInv, PI!Upgrade
<1>4. ASSUME NEW k \in Clients, PI!Count(k) PROVE PInv'
  <2>1. Held' = Held \cup {k} /\ k \notin Held
    BY <1>4 DEF PInv, Held, PI!Count
  <2>2. Cardinality(Held \cup {k}) = Cardinality(Held) + 1
    BY <2>1, HeldFinite, FS_AddElement
  <2>3. QED
    BY <1>4, <2>1, <2>2 DEF PInv, PI!Count
<1>5. ASSUME NEW k \in Clients, PI!Leaves(k) PROVE PInv'
  <2>1. Held' = Held \ {k} /\ k \in Held
    BY <1>5 DEF PInv, Held, PI!Leaves
  <2>2. Cardinality(Held \ {k}) = Cardinality(Held) - 1
    BY <2>1, HeldFinite, FS_RemoveElement
  <2>3. QED
    BY <1>5, <2>1, <2>2 DEF PInv, PI!Leaves
<1>6. ASSUME NEW k \in Clients, PI!HangsUp(k) PROVE PInv'
  BY <1>6 DEF PInv, Held, PI!HangsUp
<1>7. CASE PI!StopMarks \/ PI!Stopping
  BY <1>7 DEF PInv, Held, PI!StopMarks, PI!Stopping, PI!StopRanges, PI!StopCancels
<1>8. UNCHANGED piVars \/ PI!Next
  BY DEF Next, vars
<1>9. QED
  BY <1>1, <1>2, <1>3, <1>4, <1>5, <1>6, <1>7, <1>8 DEF PI!Next, PI!Serving

LEMMA SlotsInit == Init => PInv
<1>1. SUFFICES ASSUME Init PROVE PInv
  OBVIOUS
<1>2. Held = {}
  BY <1>1 DEF Init, PI!Init, Held
<1>3. QED
  BY <1>1, <1>2, FS_EmptySet DEF Init, PI!Init, PInv

\* However clients come and leave, and whoever closes their connections: when all
\* are out every slot is free.
THEOREM SlotsFree == Spec => []SlotsComeBack
<1>1. Init => PInv
  BY SlotsInit
<1>2. PInv /\ [Next]_vars => PInv'
  BY SlotStep
<1>3. PInv => SlotsComeBack
  <2>1. SUFFICES ASSUME PInv, \A k \in Clients : at[k] = "out"
                 PROVE  connCount = 0 /\ table = {}
    BY DEF SlotsComeBack
  <2>2. Held = {}
    BY <2>1 DEF Held
  <2>3. QED
    BY <2>1, <2>2, FS_EmptySet DEF PInv
<1>4. QED
  BY <1>1, <1>2, <1>3, PTL DEF Spec
-----------------------------------------------------------------------------
(* Messages delivered again.                                               *)

Known(m) == m \in Messages /\ since[m] # TI!Unknown

\* Where the ring holds the message that came before s others.
Place(s) == IF idx - 1 - s >= 1 THEN idx - 1 - s ELSE idx - 1 - s + Limit

TInv == /\ new \in 0..MaxNew
        /\ since \in [Messages -> Nat]
        /\ \A m \in Messages : Known(m) => since[m] < new
        /\ call \in [Deliveries -> [at : {"free", "called", "recorded", "full", "ready"},
                                    msg : Messages \cup {NoMsg}]]
        /\ kind = "onebot" => \A d \in Deliveries : call[d].at = "free"

\* OneBot: the ring holds the Limit latest messages, each in its place and no
\* message twice, and what the ring holds is remembered.
RingInv == /\ idx \in 1..Limit
           /\ ring \in [1..Limit -> Messages \cup {NoMsg}]
           /\ \A i \in 1..Limit : ring[i] # NoMsg => ring[i] \in seen
           /\ \A i, j \in 1..Limit : ring[i] = ring[j] /\ ring[i] # NoMsg => i = j
           /\ \A m \in Messages :
                Known(m) /\ since[m] < Limit => ring[Place(since[m])] = m

\* The others: nothing was forgotten yet while no more than Limit messages came.
MapInv == /\ IsFiniteSet(seen) /\ Cardinality(seen) <= new
          /\ new <= Limit => /\ \A m \in Messages : Known(m) => m \in seen
                             /\ \A d \in Deliveries : call[d].at # "full"

IInv == TInv /\ (IF kind = "onebot" THEN RingInv ELSE MapInv)

\* What taking a message for new does to the history.
LEMMA TakeEffect ==
  ASSUME TInv, NEW m, TI!Take(m), kind' = kind
  PROVE  /\ new' \in 0..MaxNew /\ new' = new + 1 /\ new \in Nat
         /\ since' \in [Messages -> Nat]
         /\ \A x \in Messages : Known(x)' => since'[x] < new'
         /\ \A x \in Messages : Known(x)' /\ x # m => Known(x) /\ since'[x] = since[x] + 1
         /\ m \in Messages => since'[m] = 0
         /\ \A x \in Messages : since'[x] = 0 /\ Known(x) => x = m
<1>1. MaxNew \in Nat /\ TI!Unknown = MaxNew + 1
  BY SizesAssumption DEF TI!Unknown
<1>2. new \in 0..MaxNew /\ new < MaxNew /\ new' = new + 1
  BY DEF TInv, TI!Take
<1>3. since \in [Messages -> Nat]
  BY DEF TInv
<1>4. since' = [x \in Messages |-> IF x = m THEN 0
                 ELSE IF since[x] = TI!Unknown THEN TI!Unknown ELSE since[x] + 1]
  BY DEF TI!Take
<1>5. since' \in [Messages -> Nat]
  BY <1>1, <1>3, <1>4
<1>6. \A x \in Messages : Known(x) => since[x] < new
  BY DEF TInv
<1>7. TI!Unknown' = MaxNew + 1
  BY SizesAssumption DEF TI!Unknown
<1>8. ASSUME NEW x \in Messages
      PROVE  /\ Known(x)' => since'[x] < new'
             /\ Known(x)' /\ x # m => Known(x) /\ since'[x] = since[x] + 1
             /\ since'[x] = 0 /\ Known(x) => x = m
  <2>1. since'[x] = IF x = m THEN 0
                    ELSE IF since[x] = TI!Unknown THEN TI!Unknown ELSE since[x] + 1
    BY <1>4
  <2>2. since[x] \in Nat
    BY <1>3
  <2>3. Known(x)' <=> since'[x] # MaxNew + 1
    BY <1>7 DEF Known
  <2>4. Known(x) <=> since[x] # MaxNew + 1
    BY <1>1 DEF Known
  <2>5. Known(x) => since[x] < new
    BY <1>6
  <2>6. QED
    BY <1>1, <1>2, <2>1, <2>2, <2>3, <2>4, <2>5
<1>9. m \in Messages => since'[m] = 0
  BY <1>4
<1>10. QED
  BY <1>1, <1>2, <1>5, <1>8, <1>9

\* A message that will be remembered still is not in the place that is next.
LEMMA PlaceKept ==
  ASSUME idx \in 1..Limit, NEW s \in Nat, s + 1 < Limit
  PROVE  Place(s) \in 1..Limit /\ Place(s) # idx
BY SizesAssumption DEF Place

LEMMA RingStep ==
  ASSUME IInv, NEW m \in Messages, TI!TakeRing(m)
  PROVE  IInv' /\ m \notin seen
<1>1. TI!Take(m) /\ kind = "onebot" /\ kind' = kind /\ call' = call /\ m \notin seen
  BY DEF TI!TakeRing
<1>2. TInv /\ RingInv
  BY <1>1 DEF IInv
<1>3. TInv'
  BY <1>1, <1>2, TakeEffect DEF TInv
<1>4. Limit \in Nat \ {0} /\ NoMsg \notin Messages
  BY SizesAssumption
<1>5. /\ idx \in 1..Limit /\ ring \in [1..Limit -> Messages \cup {NoMsg}]
      /\ idx' = (idx % Limit) + 1 /\ ring' = [ring EXCEPT ![idx] = m]
      /\ seen' = (seen \ {ring[idx]}) \cup {m}
  BY <1>2 DEF RingInv, TI!TakeRing
<1>6. idx' \in 1..Limit
  BY <1>4, <1>5
<1>7. ring' \in [1..Limit -> Messages \cup {NoMsg}]
  BY <1>5
<1>8. \A i \in 1..Limit : ring'[i] = IF i = idx THEN m ELSE ring[i]
  BY <1>5
<1>9. ASSUME NEW i \in 1..Limit, ring'[i] # NoMsg PROVE ring'[i] \in seen'
  <2>1. CASE i = idx
    BY <2>1, <1>5, <1>8
  <2>2. CASE i # idx
    <3>1. ring'[i] = ring[i] /\ ring[i] \in seen
      BY <2>2, <1>2, <1>8, <1>9 DEF RingInv
    <3>2. ring[i] # ring[idx]
      BY <2>2, <3>1, <1>2, <1>5, <1>9 DEF RingInv
    <3>3. QED
      BY <3>1, <3>2, <1>5
  <2>3. QED
    BY <2>1, <2>2
<1>10. ASSUME NEW i \in 1..Limit, NEW j \in 1..Limit, ring'[i] = ring'[j], ring'[i] # NoMsg
       PROVE  i = j
  <2>1. \A n \in 1..Limit : ring[n] # m
    BY <1>1, <1>2, <1>4 DEF RingInv
  <2>2. QED
    BY <2>1, <1>2, <1>8, <1>10 DEF RingInv
<1>11. ASSUME NEW x \in Messages, Known(x)', since'[x] < Limit
       PROVE  ring'[Place(since[x])'] = x
  <2>1. CASE x = m
    <3>1. since'[x] = 0
      BY <2>1, <1>1, <1>2, TakeEffect
    <3>2. Place(since[x])' = IF idx' - 1 - 0 >= 1 THEN idx' - 1 - 0 ELSE idx' - 1 - 0 + Limit
      BY <3>1 DEF Place
    <3>3. Place(since[x])' = idx
      BY <3>2, <1>4, <1>5
    <3>4. QED
      BY <2>1, <3>3, <1>5, <1>8
  <2>2. CASE x # m
    <3>1. Known(x) /\ since'[x] = since[x] + 1 /\ since[x] \in Nat
      BY <2>2, <1>1, <1>2, <1>11, TakeEffect DEF TInv
    <3>2. since[x] + 1 < Limit
      BY <3>1, <1>11
    <3>3. Place(since[x]) \in 1..Limit /\ Place(since[x]) # idx
      BY <3>1, <3>2, <1>5, PlaceKept
    <3>4. Place(since[x])' = Place(since[x])
      <4>1. idx' = IF idx = Limit THEN 1 ELSE idx + 1
        BY <1>4, <1>5
      <4>2. Place(since[x])' = IF idx' - 1 - (since[x] + 1) >= 1 THEN idx' - 1 - (since[x] + 1)
                               ELSE idx' - 1 - (since[x] + 1) + Limit
        BY <3>1 DEF Place
      <4>3. QED
        BY <4>1, <4>2, <3>1, <3>2, <1>4, <1>5 DEF Place
    <3>5. ring[Place(since[x])] = x
      BY <3>1, <3>2, <1>2, <1>4 DEF RingInv
    <3>6. QED
      BY <3>3, <3>4, <3>5, <1>8
  <2>3. QED
    BY <2>1, <2>2
<1>12. RingInv'
  BY <1>6, <1>7, <1>9, <1>10, <1>11 DEF RingInv
<1>13. QED
  BY <1>1, <1>3, <1>12 DEF IInv
\* Module Intake has its own instance of FiniteSets.
LEMMA SameCardinality == ASSUME NEW S PROVE TI!Cardinality(S) = Cardinality(S)
BY DEF TI!Cardinality, Cardinality

LEMMA HalvingStep ==
  ASSUME IInv, NEW m \in Messages, TI!TakeHalving(m)
  PROVE  IInv' /\ m \notin seen
<1>1. TI!Take(m) /\ kind = "qq" /\ kind' = kind /\ call' = call /\ m \notin seen
  BY DEF TI!TakeHalving
<1>2. TInv /\ MapInv
  BY <1>1 DEF IInv
<1>3. TInv'
  BY <1>1, <1>2, TakeEffect DEF TInv
<1>4. new \in Nat /\ new' = new + 1
  BY <1>1, <1>2, TakeEffect
<1> DEFINE all == seen \cup {m}
<1>5. IsFiniteSet(all) /\ Cardinality(all) = Cardinality(seen) + 1 /\ Cardinality(seen) \in Nat
  BY <1>1, <1>2, FS_AddElement, FS_CardinalityType DEF MapInv
<1>6. seen' \subseteq all /\ (Cardinality(all) <= Limit => seen' = all)
  BY <1>1, SameCardinality DEF TI!TakeHalving
<1>7. IsFiniteSet(seen') /\ Cardinality(seen') <= Cardinality(all) /\ Cardinality(seen') \in Nat
  BY <1>5, <1>6, FS_Subset, FS_CardinalityType
<1>8. Cardinality(seen') <= new'
  BY <1>2, <1>4, <1>5, <1>7 DEF MapInv
<1>9. ASSUME new' <= Limit
      PROVE  /\ \A x \in Messages : Known(x)' => x \in seen'
             /\ \A d \in Deliveries : call'[d].at # "full"
  <2>1. seen' = all /\ new <= Limit
    BY <1>2, <1>4, <1>5, <1>6, <1>9, SizesAssumption DEF MapInv
  <2>2. \A x \in Messages : Known(x)' /\ x # m => Known(x)
    BY <1>1, <1>2, TakeEffect
  <2>3. QED
    BY <1>1, <1>2, <2>1, <2>2 DEF MapInv
<1>10. QED
  BY <1>1, <1>3, <1>7, <1>8, <1>9 DEF IInv, MapInv

LEMMA RecordStep ==
  ASSUME IInv, NEW d \in Deliveries, TI!Record(d)
  PROVE  /\ IInv'
         /\ new' > new => TI!Take(call[d].msg) /\ kind' = kind /\ call[d].msg \notin seen
<1> DEFINE m == call[d].msg
<1>1. call[d].at = "called" /\ kind' = kind /\ TInv
  BY DEF TI!Record, IInv
<1>2. kind # "onebot" /\ MapInv
  BY <1>1 DEF IInv, TInv
<1>3. CASE m \in seen
  <2>1. call' = [call EXCEPT ![d] = TI!Free] /\ UNCHANGED <<seen, new, since>>
    BY <1>3 DEF TI!Record
  <2>2. TInv'
    BY <1>1, <2>1 DEF TInv, TI!Free, Known, TI!Unknown
  <2>3. MapInv'
    BY <1>1, <1>2, <2>1 DEF MapInv, TInv, TI!Free, Known, TI!Unknown
  <2>4. new \in Nat
    BY <1>1 DEF TInv
  <2>5. QED
    BY <1>1, <1>2, <2>1, <2>2, <2>3, <2>4 DEF IInv
<1>4. CASE m \notin seen
  <2>1. /\ call' = [call EXCEPT ![d].at = "recorded"]
        /\ seen' = seen \cup {m} /\ TI!Take(m)
    BY <1>4 DEF TI!Record
  <2>2. /\ call' \in [Deliveries -> [at : {"free", "called", "recorded", "full", "ready"},
                                     msg : Messages \cup {NoMsg}]]
        /\ \A c \in Deliveries : call'[c].at = "full" => call[c].at = "full"
    BY <1>1, <2>1 DEF TInv
  <2>3. TInv'
    BY <1>1, <1>2, <2>1, <2>2, TakeEffect DEF TInv
  <2>4. new \in Nat /\ new' = new + 1
    BY <1>1, <2>1, TakeEffect
  <2>5. IsFiniteSet(seen') /\ Cardinality(seen') = Cardinality(seen) + 1
        /\ Cardinality(seen) \in Nat
    BY <1>2, <1>4, <2>1, FS_AddElement, FS_CardinalityType DEF MapInv
  <2>6. \A x \in Messages : Known(x)' /\ x # m => Known(x)
    BY <1>1, <2>1, TakeEffect
  <2>7. new' <= Limit => new <= Limit
    BY <2>4, SizesAssumption
  <2>8. MapInv'
    BY <1>2, <2>1, <2>2, <2>4, <2>5, <2>6, <2>7 DEF MapInv
  <2>9. QED
    BY <1>1, <1>2, <1>4, <2>1, <2>3, <2>8 DEF IInv
<1>5. QED
  BY <1>3, <1>4

\* The steps that take nothing for new.
LEMMA OtherStep ==
  ASSUME IInv, UNCHANGED <<kind, ring, idx, new, since>>,
         call' \in [Deliveries -> [at : {"free", "called", "recorded", "full", "ready"},
                                   msg : Messages \cup {NoMsg}]],
         kind = "onebot" => \A d \in Deliveries : call'[d].at = "free",
         new <= Limit => seen' = seen /\ \A d \in Deliveries :
                           call'[d].at = "full" => call[d].at = "full",
         seen' = seen \/ (kind # "onebot" /\ seen' = {})
  PROVE  IInv'
<1>1. TInv'
  BY DEF IInv, TInv, Known, TI!Unknown
<1>2. CASE kind = "onebot"
  BY <1>1, <1>2 DEF IInv, RingInv, Known, TI!Unknown, Place
<1>3. CASE kind # "onebot"
  <2>1. new \in Nat
    BY DEF IInv, TInv
  <2>2. IsFiniteSet(seen') /\ Cardinality(seen') <= new'
    BY <1>3, <2>1, FS_EmptySet DEF IInv, MapInv
  <2>3. QED
    BY <1>1, <1>3, <2>2 DEF IInv, MapInv, Known, TI!Unknown
<1>4. QED
  BY <1>2, <1>3

\* What is taken for new was not remembered.
LEMMA IntakeStep ==
  ASSUME IInv, [Next]_vars
  PROVE  /\ IInv'
         /\ new' > new => \E m : TI!Take(m) /\ kind' = kind /\ m \notin seen
<1>1. TInv /\ new \in Nat
  BY DEF IInv, TInv
<1>2. CASE UNCHANGED tiVars
  <2>1. UNCHANGED <<kind, seen, ring, idx, call, new, since>>
    BY <1>2 DEF tiVars
  <2>2. QED
    BY <1>1, <2>1, OtherStep DEF TInv
<1>3. CASE \E m \in Messages : TI!TakeRing(m)
  BY <1>3, RingStep DEF TI!TakeRing
<1>4. CASE \E m \in Messages : TI!TakeHalving(m)
  BY <1>4, HalvingStep DEF TI!TakeHalving
<1>5. CASE \E d \in Deliveries : TI!Record(d)
  BY <1>5, RecordStep
<1>6. ASSUME NEW m \in Messages, NEW d \in Deliveries, TI!Accept(d, m)
      PROVE  IInv' /\ new' = new
  <2>1. /\ kind = "wecom" /\ UNCHANGED <<kind, seen, ring, idx, new, since>>
        /\ call' = [call EXCEPT ![d] = [at |-> "called", msg |-> m]]
    BY <1>6 DEF TI!Accept
  <2>2. QED
    BY <1>1, <2>1, OtherStep DEF TInv
<1>7. ASSUME NEW d \in Deliveries, TI!Respond(d) \/ TI!Publish(d)
      PROVE  IInv' /\ new' = new
  <2>1. /\ UNCHANGED <<kind, seen, ring, idx, new, since>>
        /\ call' = call \/ call' = [call EXCEPT ![d] = TI!Free]
    BY <1>7 DEF TI!Respond, TI!Publish
  <2>2. QED
    BY <1>1, <2>1, OtherStep DEF TInv, TI!Free
<1>8. ASSUME NEW d \in Deliveries, TI!Measure(d) PROVE IInv' /\ new' = new
  <2>1. /\ UNCHANGED <<kind, seen, ring, idx, new, since>> /\ call[d].at = "recorded"
        /\ call' = [call EXCEPT ![d].at = IF Cardinality(seen) > Limit THEN "full" ELSE "ready"]
    BY <1>8, SameCardinality DEF TI!Measure
  <2>2. kind # "onebot" /\ Cardinality(seen) <= new /\ Cardinality(seen) \in Nat
    BY <1>1, <2>1, FS_CardinalityType DEF IInv, TInv, MapInv
  <2>3. new <= Limit => ~(Cardinality(seen) > Limit)
    BY <1>1, <2>2, SizesAssumption
  <2>4. QED
    BY <1>1, <2>1, <2>2, <2>3, OtherStep DEF TInv
<1>9. ASSUME NEW d \in Deliveries, TI!Clear(d) PROVE IInv' /\ new' = new
  <2>1. /\ UNCHANGED <<kind, ring, idx, new, since>> /\ call[d].at = "full" /\ seen' = {}
        /\ call' = [call EXCEPT ![d].at = "ready"]
    BY <1>9 DEF TI!Clear
  <2>2. kind # "onebot" /\ ~(new <= Limit)
    BY <1>1, <2>1 DEF IInv, TInv, MapInv
  <2>3. QED
    BY <1>1, <2>1, <2>2, OtherStep DEF TInv
<1>10. UNCHANGED tiVars \/ TI!Next
  BY DEF Next, vars
<1>11. QED
  BY <1>1, <1>2, <1>3, <1>4, <1>5, <1>6, <1>7, <1>8, <1>9, <1>10 DEF TI!Next, TI!Callback

LEMMA IntakeInit == Init => IInv
<1>1. SUFFICES ASSUME Init PROVE IInv
  OBVIOUS
<1>2. /\ seen = {} /\ ring = [i \in 1..Limit |-> NoMsg] /\ idx = 1 /\ new = 0
      /\ call = [d \in Deliveries |-> TI!Free]
      /\ since = [m \in Messages |-> TI!Unknown]
  BY <1>1 DEF Init, TI!Init
<1>3. TI!Unknown \in Nat /\ \A m \in Messages : ~Known(m)
  BY <1>2, SizesAssumption DEF Known, TI!Unknown
<1>4. TInv
  BY <1>2, <1>3, SizesAssumption DEF TInv, TI!Free
<1>5. RingInv
  BY <1>2, <1>3, SizesAssumption DEF RingInv
<1>6. MapInv
  BY <1>2, <1>3, FS_EmptySet DEF MapInv, TI!Free
<1>7. QED
  BY <1>4, <1>5, <1>6 DEF IInv

\* However often and by however many callbacks a message is delivered, and however
\* many ids are kept: it is handled again only when it may have been forgotten.
THEOREM TakenOnce == Spec => NotTwice
<1>1. Init => IInv
  BY IntakeInit
<1>2. IInv /\ [Next]_vars => IInv'
  BY IntakeStep
<1>3. ASSUME IInv, [Next]_vars, NEW m \in Messages,
             since'[m] = 0, new' > new, since[m] # TI!Unknown
      PROVE  IF kind = "onebot" THEN since[m] >= Limit ELSE new' > Limit + 1
  <2>1. PICK x : TI!Take(x) /\ kind' = kind /\ x \notin seen
    BY <1>3, IntakeStep
  <2>2. TInv
    BY <1>3 DEF IInv
  <2>3. m \notin seen /\ Known(m) /\ new' = new + 1 /\ new \in Nat
    BY <1>3, <2>1, <2>2, TakeEffect DEF Known
  <2>4. Limit \in Nat \ {0} /\ NoMsg \notin Messages /\ since[m] \in Nat
    BY <2>2, SizesAssumption DEF TInv
  <2>5. CASE kind = "onebot"
    <3>1. RingInv
      BY <1>3, <2>5 DEF IInv
    <3>2. CASE since[m] < Limit
      <4>1. Place(since[m]) \in 1..Limit
        BY <2>4, <3>1, <3>2 DEF Place, RingInv
      <4>2. QED
        BY <2>3, <2>4, <3>1, <3>2, <4>1 DEF RingInv
    <3>3. QED
      BY <2>4, <2>5, <3>2
  <2>6. CASE kind # "onebot"
    BY <1>3, <2>3, <2>4, <2>6 DEF IInv, MapInv
  <2>7. QED
    BY <2>5, <2>6
<1>4. IInv /\ [Next]_vars =>
        [\A m \in Messages :
           since'[m] = 0 /\ new' > new /\ since[m] # TI!Unknown
             => IF kind = "onebot" THEN since[m] >= Limit ELSE new' > Limit + 1]_vars
  BY <1>3
<1>5. QED
  BY <1>1, <1>2, <1>4, PTL DEF Spec, NotTwice

-----------------------------------------------------------------------------
(* The types.                                                              *)

LEMMA LeaveTypes ==
  ASSUME OB!TypeOK, NEW r \in OB!Requests, OB!Leave(r)
  PROVE  /\ req' \in [OB!Requests -> [at : {"idle", "called", "writing", "waiting"},
                                      conn : Conns \cup {Nil}]]
         /\ pending' \subseteq OB!Requests /\ box' = box
<1>1. req' = [req EXCEPT ![r] = [at |-> "idle", conn |-> Nil]] /\ pending' = pending \ {r}
      /\ box' = box
  BY DEF OB!Leave, OB!Idle
<1>2. req' \in [OB!Requests -> [at : {"idle", "called", "writing", "waiting"},
                                conn : Conns \cup {Nil}]]
  BY <1>1 DEF OB!TypeOK
<1>3. QED
  BY <1>1, <1>2 DEF OB!TypeOK

LEMMA OneBotTypes ==
  ASSUME OB!TypeOK, [Next]_vars
  PROVE  OB!TypeOK'
<1> USE DEF OB!TypeOK
<1>0. Hello \in OB!Requests /\ Reactions \subseteq OB!Requests
  BY DEF OB!Requests
<1>1. CASE UNCHANGED obVars
  BY <1>1 DEF obVars
<1>2. CASE OB!DialSucceeds
  <2>1. PICK c \in Conns : /\ sock' = [sock EXCEPT ![c] = "open"]
                            /\ conn' = c
                            /\ lst' = [lst EXCEPT ![c] = "spawned"]
                            /\ obLate' = IF obCtx = "live" THEN obLate \ {c} ELSE obLate \cup {c}
    BY <1>2 DEF OB!DialSucceeds
  <2>2. req' = [req EXCEPT ![Hello].at = "called"]
        /\ boss' \in {"first hello", "hello"}
        /\ UNCHANGED <<obCtx, obStop, pending, box, breaks>>
    BY <1>2 DEF OB!DialSucceeds
  <2>3. req' \in [OB!Requests -> [at : {"idle", "called", "writing", "waiting"},
                                  conn : Conns \cup {Nil}]]
    BY <2>2
  <2>4. sock' \in [Conns -> {"none", "open", "dead", "closed"}]
        /\ lst' \in [Conns -> {"none", "spawned", "reading"}] /\ obLate' \subseteq Conns
    BY <2>1
  <2>5. QED
    BY <2>1, <2>2, <2>3, <2>4
<1>3. CASE OB!LoopRuns \/ OB!LoopEnds
  BY <1>3 DEF OB!LoopRuns, OB!DialFails, OB!HelloReturns, OB!Interval, OB!LoopEnds,
              OB!connVars, OB!reqVars
<1>4. CASE OB!StopCancels \/ OB!Stopping
  BY <1>4 DEF OB!StopCancels, OB!Stopping, OB!StopSweeps, OB!StopDisconnects, OB!connVars,
              OB!reqVars
<1>5. ASSUME NEW c \in Conns, OB!Listener(c) \/ OB!ListenStops(c) PROVE OB!TypeOK'
  BY <1>5 DEF OB!Listener, OB!ListenStarts, OB!ReadFails, OB!ListenStops, OB!reqVars
<1>6. ASSUME NEW c \in Conns, OB!Break(c) PROVE OB!TypeOK'
  <2>1. /\ sock' = [sock EXCEPT ![c] = "dead"] /\ breaks < MaxBreaks /\ breaks' = breaks + 1
        /\ UNCHANGED <<conn, lst, obLate, boss, obCtx, obStop, req, pending, box>>
    BY <1>6 DEF OB!Break, OB!reqVars
  <2>2. breaks' \in 0..MaxBreaks
    <3>1. breaks \in 0..MaxBreaks /\ breaks < MaxBreaks /\ breaks' = breaks + 1
      BY <2>1
    <3> HIDE DEF OB!TypeOK
    <3>2. QED
      BY ONLY <3>1, SizesAssumption
  <2>3. sock' \in [Conns -> {"none", "open", "dead", "closed"}]
    BY <2>1
  <2>4. QED
    BY <2>1, <2>2, <2>3
<1>7. ASSUME NEW r \in OB!Requests, OB!Register(r) PROVE OB!TypeOK'
  <2>1. CASE conn = Nil
    BY <1>7, <2>1, LeaveTypes DEF OB!Register, OB!connVars
  <2>2. CASE conn # Nil
    <3>1. /\ req' = [req EXCEPT ![r] = [at |-> "writing", conn |-> conn]]
          /\ pending' = pending \cup {r} /\ box' = [box EXCEPT ![r] = "empty"]
          /\ UNCHANGED <<sock, conn, lst, obLate, breaks, boss, obCtx, obStop>>
      BY <1>7, <2>2 DEF OB!Register, OB!connVars
    <3>2. req' \in [OB!Requests -> [at : {"idle", "called", "writing", "waiting"},
                                    conn : Conns \cup {Nil}]]
      BY <2>2, <3>1
    <3>3. pending' \subseteq OB!Requests /\ box' \in [OB!Requests -> {"empty", "answer", "nil"}]
      BY <3>1
    <3>4. QED
      BY <3>1, <3>2, <3>3
  <2>3. QED
    BY <2>1, <2>2
<1>8. ASSUME NEW r \in OB!Requests, OB!Write(r) PROVE OB!TypeOK'
  <2>1. CASE req' = [req EXCEPT ![r].at = "waiting"] /\ UNCHANGED <<pending, box>>
    <3>1. req' \in [OB!Requests -> [at : {"idle", "called", "writing", "waiting"},
                                    conn : Conns \cup {Nil}]]
      BY <2>1
    <3>2. QED
      BY <1>8, <2>1, <3>1 DEF OB!Write, OB!connVars
  <2>2. CASE OB!Leave(r)
    BY <1>8, <2>2, LeaveTypes DEF OB!Write, OB!connVars
  <2>3. QED
    BY <1>8, <2>1, <2>2 DEF OB!Write
<1>9. ASSUME NEW r \in OB!Requests, OB!Return(r) PROVE OB!TypeOK'
  BY <1>9, LeaveTypes DEF OB!Return, OB!connVars
<1>10. ASSUME NEW r \in OB!Requests, OB!AnswerArrives(r) PROVE OB!TypeOK'
  BY <1>10 DEF OB!AnswerArrives, OB!connVars
<1>11. ASSUME NEW r \in Reactions, OB!React(r) PROVE OB!TypeOK'
  BY <1>11 DEF OB!React, OB!connVars
<1>12. UNCHANGED obVars \/ OB!Next
  BY DEF Next, vars
<1>13. QED
  BY <1>1, <1>2, <1>3, <1>4, <1>5, <1>6, <1>7, <1>8, <1>9, <1>10, <1>11, <1>12
     DEF OB!Next, OB!Asking

\* One if the goroutine is counted.
QRCounted   == IF qr = "running" THEN 1 ELSE 0
LoopCounted == IF loop = "none" THEN 0 ELSE 1

\* A Disconnected event is handled once, and becomes at most one loop; the codes are
\* shown by at most one goroutine.
Goroutines ==
    /\ leaving \in Nat /\ events \in Nat /\ drops \in 0..MaxDrops
    /\ wg = leaving + QRCounted + LoopCounted
    /\ leaving + events + QRCounted + LoopCounted <= drops + (IF qr = "none" THEN 0 ELSE 1)

\* There is a loop exactly while reconnecting is set, none before Start has reset it,
\* and no goroutine for the codes before the last step of Start.
Connecting ==
    /\ reconnecting <=> loop # "none"
    /\ start \in {"begin", "connect", "login"} => qr = "none"
    /\ start = "begin" => loop = "none" /\ link = "down" /\ events = 0

Controls ==
    /\ start \in {"begin", "connect", "login", "started", "failed"}
    /\ waStop \in {"no", "marked", "cancelled", "waiting", "done"}
    /\ runCtx \in {"none", "live", "cancelled"} /\ link \in {"up", "down"}
    /\ qr \in {"none", "running", "over"}
    /\ loop \in {"none", "check", "connect", "connected", "backoff", "return"}

Flags == /\ client \in BOOLEAN /\ stopping \in BOOLEAN /\ reconnecting \in BOOLEAN
         /\ missed \in BOOLEAN /\ waLate \in BOOLEAN

WTypes == Controls /\ Flags /\ Connecting /\ Goroutines

LEMMA WhatsAppTypes ==
  ASSUME WTypes, [Next]_vars
  PROVE  WTypes'
<1> USE DEF WTypes
<1>1. CASE UNCHANGED waVars
  BY <1>1 DEF waVars, Controls, Flags, Connecting, Goroutines, QRCounted, LoopCounted
<1>2. CASE WA!Next
  <2> USE <1>2 DEF WA!Next, WA!Starting, WA!StartOpens, WA!StartConnects, WA!StartLogin, WA!CleanUp,
              WA!LoginEnds, WA!LinkBreaks, WA!OnDisconnected, WA!Spawn, WA!Loop, WA!LoopChecks,
              WA!LoopFails, WA!LoopBacksOff, WA!LoopReturns, WA!LoopSucceeds, WA!Done,
              WA!StopMarks, WA!Stopping, WA!StopCancels, WA!StopDisconnects, WA!StopWaited,
              WA!StopClears, WA!linkVars, WA!flags, WA!tasks
  <2>1. Controls'
    BY DEF Controls
  <2>2. Flags'
    BY Zenon DEF Flags
  <2>3. Connecting'
    <3>1. CASE WA!Starting
      BY <3>1 DEF Connecting
    <3>2. CASE WA!OnDisconnected
      <4>1. start # "begin" /\ start' = start
        BY <3>2 DEF Connecting, Goroutines
      <4>2. QED
        BY <3>2, <4>1 DEF Connecting
    <3>3. CASE WA!Loop \/ WA!LoopSucceeds
      BY <3>3 DEF Connecting
    <3>4. CASE WA!LoginEnds \/ WA!LinkBreaks \/ WA!Done \/ WA!StopMarks \/ WA!Stopping \/ WA!StopClears
      BY <3>4 DEF Connecting
    <3>5. QED
      BY <1>2, <3>1, <3>2, <3>3, <3>4 DEF WA!Next
  <2>4. Goroutines'
    BY SizesAssumption DEF Goroutines, QRCounted, LoopCounted, Connecting, Controls
  <2>5. QED
    BY <2>1, <2>2, <2>3, <2>4
<1>3. UNCHANGED waVars \/ WA!Next
  BY DEF Next, vars
<1>4. QED
  BY <1>1, <1>2, <1>3

\* What is registered, hung up or closed are clients.
PTypes == /\ PInv
          /\ closed \subseteq Clients /\ gone \subseteq Clients
          /\ running \in BOOLEAN /\ piCtx \in {"live", "cancelled"}
          /\ piStop \in {"no", "marked", "ranged", "done"}

LEMMA PicoTypes ==
  ASSUME PTypes, [Next]_vars
  PROVE  PTypes'
<1>1. PInv'
  BY SlotStep DEF PTypes
<1>2. \A k \in table : k \in Clients
  BY DEF PTypes, PInv
<1>3. UNCHANGED piVars \/ PI!Next
  BY DEF Next, vars
<1>4. CASE UNCHANGED piVars
  BY <1>1, <1>4 DEF PTypes, piVars
<1>5. CASE PI!Next
  <2>1. /\ closed' \subseteq Clients /\ gone' \subseteq Clients
        /\ piCtx' \in {"live", "cancelled"} /\ piStop' \in {"no", "marked", "ranged", "done"}
    BY <1>2, <1>5 DEF PTypes, PI!Next, PI!Serving, PI!Check, PI!Upgrade, PI!Count, PI!LoopChecks,
       PI!Reads, PI!ReadFails, PI!Leaves, PI!HangsUp, PI!StopMarks, PI!Stopping, PI!StopRanges,
       PI!StopCancels
  <2>2. running' \in BOOLEAN
    BY <1>5 DEF PTypes, PI!Next, PI!Serving, PI!Check, PI!Upgrade, PI!Count, PI!LoopChecks,
       PI!Reads, PI!ReadFails, PI!Leaves, PI!HangsUp, PI!StopMarks, PI!Stopping, PI!StopRanges,
       PI!StopCancels
  <2>3. QED
    BY <1>1, <2>1, <2>2 DEF PTypes
<1>6. QED
  BY <1>3, <1>4, <1>5

\* No more clients are counted than there are.
LEMMA PicoTyped == PTypes => PI!TypeOK
<1>1. SUFFICES ASSUME PTypes PROVE PI!TypeOK
  OBVIOUS
<1>2. Held \subseteq Clients
  BY DEF Held
<1>3. /\ Cardinality(Held) <= Cardinality(Clients) /\ Cardinality(Held) \in Nat
      /\ Cardinality(Clients) \in Nat
  BY <1>2, HeldFinite, FS_Subset, FS_CardinalityType, SizesAssumption
<1>4. PI!Cardinality(Clients) = Cardinality(Clients)
  BY DEF PI!Cardinality, Cardinality
<1>5. connCount \in 0..PI!Cardinality(Clients)
  BY <1>1, <1>3, <1>4 DEF PTypes, PInv
<1>6. QED
  BY <1>1, <1>5 DEF PTypes, PInv, PI!TypeOK

\* What is remembered, in the map or the ring, and what callbacks bring are messages.
Remembered == /\ seen \subseteq Messages
              /\ ring \in [1..Limit -> Messages \cup {NoMsg}] /\ idx \in 1..Limit
              /\ \A d \in Deliveries : call[d].at # "free" => call[d].msg \in Messages

ITypes == /\ IInv
          /\ kind \in Kinds /\ Remembered
          /\ request \in [Deliveries -> {"live", "cancelled"}]
          /\ \A m \in Messages : since[m] <= TI!Unknown

LEMMA IntakeTypes ==
  ASSUME ITypes, [Next]_vars
  PROVE  ITypes'
<1>1. IInv'
  BY IntakeStep DEF ITypes
<1>2. Limit \in Nat \ {0} /\ MaxNew \in Nat /\ TI!Unknown = MaxNew + 1 /\ TI!Unknown' = MaxNew + 1
  BY SizesAssumption DEF TI!Unknown
<1>3. /\ TInv /\ new \in 0..MaxNew
      /\ call \in [Deliveries -> [at : {"free", "called", "recorded", "full", "ready"},
                                  msg : Messages \cup {NoMsg}]]
  BY DEF ITypes, IInv, TInv
<1>4. UNCHANGED tiVars \/ TI!Next
  BY DEF Next, vars
<1>5. \A m \in Messages : since'[m] <= MaxNew + 1
  <2>1. TInv'
    BY <1>1 DEF IInv
  <2>2. SUFFICES ASSUME NEW m \in Messages PROVE since'[m] <= MaxNew + 1
    OBVIOUS
  <2>3. since'[m] \in Nat /\ new' \in 0..MaxNew
        /\ (since'[m] # MaxNew + 1 => since'[m] < new')
    BY <1>2, <2>1 DEF TInv, Known
  <2>4. QED
    BY <1>2, <2>3
<1>6. /\ kind' \in Kinds
      /\ request' \in [Deliveries -> {"live", "cancelled"}]
  <2>1. CASE UNCHANGED tiVars
    BY <2>1 DEF ITypes, tiVars
  <2>2. CASE TI!Next
    BY <2>2 DEF ITypes, TI!Next, TI!TakeRing, TI!TakeHalving, TI!Callback, TI!Accept, TI!Respond,
                TI!Record, TI!Measure, TI!Clear, TI!Publish
  <2>3. QED
    BY <1>4, <2>1, <2>2
<1>7. Remembered'
  <2> USE DEF Remembered
  <2>1. CASE UNCHANGED tiVars
    BY <2>1 DEF ITypes, tiVars
  <2>2. ASSUME NEW m \in Messages, TI!TakeRing(m) PROVE Remembered'
    <3>1. idx' \in 1..Limit
      BY <1>2, <2>2 DEF ITypes, TI!TakeRing
    <3>2. QED
      BY <2>2, <3>1 DEF ITypes, TI!TakeRing
  <2>3. ASSUME NEW m \in Messages, TI!TakeHalving(m) PROVE Remembered'
    BY <2>3 DEF ITypes, TI!TakeHalving
  <2>4. ASSUME NEW d \in Deliveries, NEW m \in Messages, TI!Accept(d, m) PROVE Remembered'
    BY <1>3, <2>4 DEF ITypes, TI!Accept
  <2>5. ASSUME NEW d \in Deliveries, TI!Record(d) PROVE Remembered'
    BY <1>3, <2>5 DEF ITypes, TI!Record, TI!Free
  <2>6. ASSUME NEW d \in Deliveries, TI!Respond(d) \/ TI!Measure(d) \/ TI!Clear(d) \/ TI!Publish(d)
        PROVE Remembered'
    BY <1>3, <2>6 DEF ITypes, TI!Respond, TI!Measure, TI!Clear, TI!Publish, TI!Free
  <2>7. QED
    BY <1>4, <2>1, <2>2, <2>3, <2>4, <2>5, <2>6 DEF TI!Next, TI!Callback
<1>8. QED
  BY <1>1, <1>2, <1>5, <1>6, <1>7 DEF ITypes

LEMMA IntakeTyped == ITypes => TI!TypeOK
<1>1. SUFFICES ASSUME ITypes PROVE TI!TypeOK
  OBVIOUS
<1>2. MaxNew \in Nat /\ TI!Unknown = MaxNew + 1
  BY SizesAssumption DEF TI!Unknown
<1>3. since \in [Messages -> 0..TI!Unknown]
  BY <1>1, <1>2 DEF ITypes, IInv, TInv
<1>4. QED
  BY <1>1, <1>3 DEF ITypes, IInv, TInv, Remembered, TI!TypeOK

\* No more goroutines than MaxDrops events and the login codes give.
LEMMA WhatsAppTyped == WTypes => WA!TypeOK
<1>1. SUFFICES ASSUME WTypes PROVE WA!TypeOK
  OBVIOUS
<1>2. {client, stopping, reconnecting, missed, waLate} \subseteq BOOLEAN
  BY <1>1 DEF WTypes, Flags
<1>3. {leaving, events, drops} \subseteq 0..(MaxDrops + 1)
  <2>1. QRCounted \in Nat /\ LoopCounted \in Nat
    BY DEF QRCounted, LoopCounted
  <2>2. leaving \in Nat /\ events \in Nat /\ drops \in 0..MaxDrops
        /\ leaving + events + QRCounted + LoopCounted <= MaxDrops + 1
    BY <1>1, <2>1, SizesAssumption DEF WTypes, Goroutines
  <2>3. QED
    BY <2>1, <2>2, SizesAssumption
<1>4. QED
  BY <1>1, <1>2, <1>3 DEF WTypes, Controls, Goroutines, QRCounted, LoopCounted, WA!TypeOK

\* All parts of all adapters are well typed, for any numbers of connections, clients
\* and messages: WhatsApp's WaitGroup counts its goroutines, of which an event starts at
\* most one, and Pico never counts more connections than clients.
THEOREM TypeCorrect == Spec => []TypeOK
<1> DEFINE AllTypes == OB!TypeOK /\ WTypes /\ PTypes /\ ITypes
<1>1. Init => AllTypes
  <2>1. SUFFICES ASSUME Init PROVE AllTypes
    OBVIOUS
  <2>2. OB!TypeOK
    BY <2>1, SizesAssumption DEF Init, OB!Init, OB!TypeOK, OB!Idle
  <2>3. WTypes
    <3>1. Flags
      BY <2>1 DEF Init, WA!Init, Flags
    <3>2. Controls /\ Connecting
      BY <2>1 DEF Init, WA!Init, Controls, Connecting
    <3>3. Goroutines
      BY <2>1, SizesAssumption DEF Init, WA!Init, Goroutines, QRCounted, LoopCounted
    <3>4. QED
      BY <3>1, <3>2, <3>3 DEF WTypes
  <2>4. PTypes
    BY <2>1, SlotsInit DEF Init, PI!Init, PTypes
  <2>5. ITypes
    BY <2>1, IntakeInit, SizesAssumption DEF Init, TI!Init, ITypes, Remembered, TI!Free, TI!Unknown
  <2>6. QED
    BY <2>2, <2>3, <2>4, <2>5
<1>2. AllTypes /\ [Next]_vars => AllTypes'
  BY OneBotTypes, WhatsAppTypes, PicoTypes, IntakeTypes
<1>3. AllTypes => TypeOK
  BY WhatsAppTyped, PicoTyped, IntakeTyped DEF TypeOK
<1>4. QED
  BY <1>1, <1>2, <1>3, PTL DEF Spec
=============================================================================
