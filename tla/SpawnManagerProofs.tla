------------------------- MODULE SpawnManagerProofs -------------------------
(***************************************************************************)
(* Proofs about SpawnManager, for any requests, handoffs, sessions, keys   *)
(* and limits.                                                             *)
(***************************************************************************)
EXTENDS SpawnManager, FiniteSetTheorems, SequenceTheorems, TLAPS

USE DEF Runs

\* The requests of session p between taking their permit and giving it back, ...
Holding    == {"acquired", "running", "finished", "making room", "retrying", "delivered",
               "deregistered"}
Holders(p) == {r \in Requests : spc[r] \in Holding /\ parent[r] = p}

\* ... and the steps at which a run can be in the registry.
Registered == {"running", "finished", "making room", "retrying", "delivered"}

\* The semaphore counts those who hold a permit, and who is registered is one of them,
\* or is a handoff that somebody waits for.
Permits == /\ \A p \in Sessions : sem[p] = Cardinality(Holders(p))
           /\ \A r \in registry \cap Requests : spc[r] \in Registered
           /\ \A h \in registry \cap Handoffs : spc[h] = "running"

\* Sweeping takes out only what has expired: the cache knows of every request that
\* passed it within the window.
Windows == \A k \in Keys : \/ dedup[k] = since[k]
                           \/ dedup[k] = Absent /\ since[k].age > DedupTTL

IInv == TypeOK /\ Permits /\ AnnouncedOnce /\ Windows

-----------------------------------------------------------------------------
(* The deduplication cache.                                                *)

\* An entry is never mistaken for its absence.
LEMMA EntryNotAbsent == Absent \notin Entry
<1>1. "age" \in DOMAIN Absent => FALSE
  BY DEF Absent
<1>2. \A e \in Entry : "age" \in DOMAIN e
  BY DEF Entry
<1>3. QED
  BY <1>1, <1>2

LEMMA NewEntry == [age |-> 0] \in Entry
BY ConstantsAssumption DEF ConstantsAssumption, Entry

LEMMA AgedType ==
  ASSUME NEW e \in Entry \cup {Absent}
  PROVE  /\ Aged(e, 0) \in Entry \cup {Absent}
         /\ Aged(e, 0) = Absent <=> e = Absent
         /\ e # Absent /\ e.age > DedupTTL => Aged(e, 0).age > DedupTTL
<1>1. CASE e = Absent
  BY <1>1 DEF Aged
<1>2. CASE e # Absent /\ e.age > DedupTTL
  BY <1>2, EntryNotAbsent DEF Aged
<1>3. CASE e # Absent /\ ~(e.age > DedupTTL)
  <2>1. e \in Entry /\ e.age \in Nat /\ e.age + 1 \in 0..DedupTTL + 1
    BY <1>3, ConstantsAssumption DEF ConstantsAssumption, Entry
  <2>2. Aged(e, 0) = [age |-> e.age + 1]
    BY <1>3 DEF Aged
  <2>3. Aged(e, 0) \in Entry
    BY <2>1, <2>2 DEF Entry
  <2>4. QED
    BY <1>3, <2>3, EntryNotAbsent
<1>4. QED
  BY <1>1, <1>2, <1>3

-----------------------------------------------------------------------------
(* Counting.                                                               *)

LEMMA HoldersFinite ==
  ASSUME NEW p
  PROVE  IsFiniteSet(Holders(p)) /\ Cardinality(Holders(p)) \in Nat
<1>1. Holders(p) \subseteq Requests
  BY DEF Holders
<1>2. QED
  BY <1>1, FS_Subset, FS_CardinalityType, ConstantsAssumption DEF ConstantsAssumption

\* Where q has r.
Places(q, r) == {i \in DOMAIN q : q[i] = r}

LEMMA ReceivedPlaces ==
  ASSUME NEW S, NEW q \in Seq(S), NEW r
  PROVE  /\ IsFiniteSet(Places(q, r))
         /\ Received(q, r) = Cardinality(Places(q, r))
         /\ Received(q, r) \in Nat
<1>1. DOMAIN q = 1..Len(q) /\ Len(q) \in Nat
  OBVIOUS
<1>2. IsFiniteSet(DOMAIN q) /\ Places(q, r) \subseteq DOMAIN q
  BY <1>1, FS_Interval DEF Places
<1>3. IsFiniteSet(Places(q, r))
  BY <1>2, FS_Subset
<1>4. Received(q, r) = Cardinality(Places(q, r))
  BY DEF Received, Places
<1>5. QED
  BY <1>3, <1>4, FS_CardinalityType

LEMMA ReceivedEmpty == ASSUME NEW r PROVE Received(<<>>, r) = 0
<1>1. {i \in DOMAIN <<>> : <<>>[i] = r} = {}
  OBVIOUS
<1>2. QED
  BY <1>1, FS_EmptySet DEF Received

\* What is appended is received once more, and nothing else is.
LEMMA ReceivedAppend ==
  ASSUME NEW S, NEW q \in Seq(S), NEW x \in S, NEW r
  PROVE  Received(Append(q, x), r) = Received(q, r) + (IF x = r THEN 1 ELSE 0)
<1> DEFINE longer == Append(q, x)
<1>1. /\ DOMAIN q = 1..Len(q) /\ Len(q) \in Nat
      /\ longer \in Seq(S) /\ DOMAIN longer = 1..(Len(q) + 1)
      /\ longer[Len(q) + 1] = x
      /\ \A i \in 1..Len(q) : longer[i] = q[i]
  BY AppendProperties
<1> HIDE DEF longer
<1>2. /\ IsFiniteSet(Places(q, r))
      /\ Received(q, r) = Cardinality(Places(q, r)) /\ Received(q, r) \in Nat
      /\ Received(longer, r) = Cardinality(Places(longer, r))
  BY <1>1, ReceivedPlaces
<1>3. CASE x = r
  <2>1. Places(longer, r) = Places(q, r) \cup {Len(q) + 1} /\ Len(q) + 1 \notin Places(q, r)
    BY <1>1, <1>3 DEF Places
  <2>2. Cardinality(Places(longer, r)) = Cardinality(Places(q, r)) + 1
    BY <1>2, <2>1, FS_AddElement
  <2>3. QED
    BY <1>2, <1>3, <2>2 DEF longer
<1>4. CASE x # r
  <2>1. Places(longer, r) = Places(q, r)
    BY <1>1, <1>4 DEF Places
  <2>2. QED
    BY <1>2, <1>4, <2>1 DEF longer
<1>5. QED
  BY <1>3, <1>4

\* The head that is taken off is received once less, and nothing else is.
LEMMA ReceivedTail ==
  ASSUME NEW S, NEW q \in Seq(S), q # <<>>, NEW r
  PROVE  Received(q, r) = Received(Tail(q), r) + (IF Head(q) = r THEN 1 ELSE 0)
<1> DEFINE shorter == Tail(q)
           rest    == Places(q, r) \ {1}
           shift   == [i \in rest |-> i - 1]
<1>1. /\ DOMAIN q = 1..Len(q) /\ Len(q) \in Nat /\ Len(q) > 0
      /\ shorter \in Seq(S) /\ DOMAIN shorter = 1..(Len(q) - 1)
      /\ \A i \in 1..(Len(q) - 1) : shorter[i] = q[i + 1]
      /\ Head(q) = q[1]
  BY HeadTailProperties, EmptySeq
<1> HIDE DEF shorter
<1>2. /\ IsFiniteSet(Places(q, r))
      /\ Received(q, r) = Cardinality(Places(q, r)) /\ Received(q, r) \in Nat
      /\ Received(shorter, r) = Cardinality(Places(shorter, r)) /\ Received(shorter, r) \in Nat
  BY <1>1, ReceivedPlaces
<1>3. shift \in Bijection(rest, Places(shorter, r))
  <2>1. \A i \in rest : i - 1 \in Places(shorter, r)
    BY <1>1 DEF Places
  <2>2. \A i, j \in rest : shift[i] = shift[j] => i = j
    BY <1>1 DEF Places
  <2>3. \A j \in Places(shorter, r) : j + 1 \in rest /\ shift[j + 1] = j
    BY <1>1 DEF Places
  <2>4. QED
    BY <2>1, <2>2, <2>3 DEF Bijection, Injection, Surjection, IsInjective
<1>4. IsFiniteSet(rest) /\ Cardinality(rest) = Cardinality(Places(shorter, r))
  <2>1. IsFiniteSet(rest)
    BY <1>2, FS_Subset
  <2>2. QED
    BY <1>3, <2>1, FS_Bijection DEF ExistsBijection
<1>5. CASE Head(q) = r
  <2>1. Places(q, r) = rest \cup {1} /\ 1 \notin rest
    BY <1>1, <1>5 DEF Places
  <2>2. Cardinality(Places(q, r)) = Cardinality(rest) + 1
    <3> HIDE DEF rest
    <3>1. QED
      BY <1>4, <2>1, FS_AddElement
  <2>3. QED
    BY <1>2, <1>4, <1>5, <2>2 DEF shorter
<1>6. CASE Head(q) # r
  <2>1. Places(q, r) = rest
    BY <1>1, <1>6 DEF Places
  <2>2. Received(q, r) = Received(shorter, r)
    BY <1>2, <1>4, <2>1
  <2>3. QED
    BY <1>2, <1>6, <2>2 DEF shorter
<1>7. QED
  BY <1>5, <1>6
-----------------------------------------------------------------------------
LEMMA InitInv == Init => IInv
<1> SUFFICES ASSUME Init PROVE IInv
  OBVIOUS
<1>1. TypeOK
  BY ConstantsAssumption DEF ConstantsAssumption, Init, TypeOK, Steps
<1>2. Permits
  <2>1. \A p \in Sessions : Holders(p) = {}
    BY DEF Init, Holders, Holding
  <2>2. QED
    BY <2>1, FS_EmptySet DEF Init, Permits
<1>3. AnnouncedOnce
  <2>1. SUFFICES ASSUME NEW r \in Requests, NEW p \in Sessions
        PROVE  Received(box[p], r) + Received(drained[p], r) + (IF r \in lost /\ parent[r] = p THEN 1 ELSE 0)
                  = IF spc[r] \in Past /\ parent[r] = p THEN 1 ELSE 0
    BY DEF AnnouncedOnce
  <2>2. box[p] = <<>> /\ drained[p] = <<>> /\ lost = {} /\ spc[r] \notin Past
    BY DEF Init, Past
  <2>3. QED
    BY <2>2, ReceivedEmpty
<1>4. Windows
  BY DEF Init, Windows
<1>5. QED
  BY <1>1, <1>2, <1>3, <1>4 DEF IInv

\* A request moves on: nothing else is known of the others.
LEMMA GoesType ==
  ASSUME TypeOK, NEW r \in Runs, NEW from, NEW to \in Steps, Goes(r, from, to)
  PROVE  /\ spc' \in [Runs -> Steps]
         /\ spc[r] = from /\ spc'[r] = to
         /\ \A o \in Runs \ {r} : spc'[o] = spc[o]
BY DEF Goes, TypeOK

\* A result goes into a channel that has room, or the oldest is taken out.
LEMMA BoxAppend ==
  ASSUME TypeOK, NEW p \in Sessions, NEW r \in Requests, Len(box[p]) < BufSize,
         box' = [box EXCEPT ![p] = Append(@, r)]
  PROVE  /\ box' \in [Sessions -> Seq(Requests)]
         /\ \A q \in Sessions : Len(box'[q]) <= BufSize
<1>1. box \in [Sessions -> Seq(Requests)] /\ \A q \in Sessions : Len(box[q]) <= BufSize
  BY DEF TypeOK
<1>2. Append(box[p], r) \in Seq(Requests) /\ Len(Append(box[p], r)) = Len(box[p]) + 1
  BY <1>1, AppendProperties
<1>3. BufSize \in Nat /\ Len(box[p]) \in Nat
  BY <1>1, ConstantsAssumption DEF ConstantsAssumption
<1>4. Len(Append(box[p], r)) <= BufSize
  BY <1>2, <1>3
<1>5. QED
  BY <1>1, <1>2, <1>4

LEMMA BoxTail ==
  ASSUME TypeOK, NEW p \in Sessions, box[p] # <<>>, box' = [box EXCEPT ![p] = Tail(@)]
  PROVE  /\ box' \in [Sessions -> Seq(Requests)]
         /\ \A q \in Sessions : Len(box'[q]) <= BufSize
         /\ Head(box[p]) \in Requests
<1>1. box \in [Sessions -> Seq(Requests)] /\ \A q \in Sessions : Len(box[q]) <= BufSize
  BY DEF TypeOK
<1>2. /\ Head(box[p]) \in Requests /\ Tail(box[p]) \in Seq(Requests)
      /\ Len(Tail(box[p])) = Len(box[p]) - 1 /\ Len(box[p]) \in Nat
  BY <1>1, HeadTailProperties
<1>3. BufSize \in Nat
  BY ConstantsAssumption DEF ConstantsAssumption
<1>4. Len(Tail(box[p])) <= BufSize
  BY <1>1, <1>2, <1>3
<1>5. QED
  BY <1>1, <1>2, <1>4

LEMMA CallerType ==
  ASSUME TypeOK, NEW r \in Requests, Caller(r)
  PROVE  TypeOK'
<1> USE DEF Steps, admission, announcer, stopper
<1>1. CASE Deny(r)
  BY <1>1, GoesType DEF Deny, TypeOK
<1>2. CASE Check(r)
  <2>1. /\ dedup' \in [Keys -> Entry \cup {Absent}]
        /\ since' \in [Keys -> Entry \cup {Absent}]
        /\ UNCHANGED <<parent, sem, registry, box, drained, lost, todo, stop>>
    BY <1>2, NewEntry DEF Check, TypeOK
  <2>2. spc' \in [Runs -> Steps]
    BY <1>2, GoesType DEF Check
  <2>3. QED
    BY <2>1, <2>2 DEF TypeOK
<1>3. CASE Acquire(r)
  <2>1. spc' \in [Runs -> Steps]
    BY <1>3, GoesType DEF Acquire
  <2>2. sem' \in [Sessions -> 0..MaxChildren]
    <3>1. /\ parent[r] \in Sessions /\ sem \in [Sessions -> 0..MaxChildren]
          /\ MaxChildren \in Nat /\ sem[parent[r]] \in 0..MaxChildren
      BY ConstantsAssumption DEF ConstantsAssumption, TypeOK
    <3>2. CASE sem[parent[r]] < MaxChildren
      <4>1. sem[parent[r]] + 1 \in 0..MaxChildren
        BY <3>1, <3>2
      <4>2. QED
        BY <1>3, <3>1, <3>2, <4>1 DEF Acquire
    <3>3. CASE ~(sem[parent[r]] < MaxChildren)
      BY <1>3, <3>1, <3>3 DEF Acquire
    <3>4. QED
      BY <3>2, <3>3
  <2>3. QED
    BY <1>3, <2>1, <2>2 DEF Acquire, TypeOK
<1>4. CASE Register(r)
  BY <1>4, GoesType DEF Register, TypeOK
<1>5. QED
  BY <1>1, <1>2, <1>3, <1>4 DEF Caller

LEMMA GoroutineType ==
  ASSUME TypeOK, NEW r \in Requests, Goroutine(r)
  PROVE  TypeOK'
<1> USE DEF Steps, admission, announcer, stopper
<1>1. CASE Finish(r)
  BY <1>1, GoesType DEF Finish, TypeOK
<1>2. CASE Deliver(r)
  <2>1. spc' \in [Runs -> Steps]
    BY <1>2, GoesType DEF Deliver
  <2>2. CASE Len(box[parent[r]]) < BufSize
    <3>1. parent[r] \in Sessions
      BY DEF TypeOK
    <3>2. /\ box' \in [Sessions -> Seq(Requests)]
          /\ \A q \in Sessions : Len(box'[q]) <= BufSize
      BY <1>2, <2>2, <3>1, BoxAppend DEF Deliver
    <3>3. QED
      BY <1>2, <2>1, <2>2, <3>2 DEF Deliver, TypeOK
  <2>3. CASE ~(Len(box[parent[r]]) < BufSize)
    BY <1>2, <2>1, <2>3 DEF Deliver, TypeOK
  <2>4. QED
    BY <2>2, <2>3
<1>3. CASE DropOldest(r)
  <2>1. spc' \in [Runs -> Steps]
    BY <1>3, GoesType DEF DropOldest
  <2>2. CASE box[parent[r]] # <<>>
    <3>1. parent[r] \in Sessions
      BY DEF TypeOK
    <3>2. /\ box' \in [Sessions -> Seq(Requests)]
          /\ \A q \in Sessions : Len(box'[q]) <= BufSize
          /\ Head(box[parent[r]]) \in Requests
      BY <1>3, <2>2, <3>1, BoxTail DEF DropOldest
    <3>3. lost' \subseteq Requests
      BY <1>3, <2>2, <3>2 DEF DropOldest, TypeOK
    <3>4. QED
      BY <1>3, <2>1, <3>2, <3>3 DEF DropOldest, TypeOK
  <2>3. CASE box[parent[r]] = <<>>
    BY <1>3, <2>1, <2>3 DEF DropOldest, TypeOK
  <2>4. QED
    BY <2>2, <2>3
<1>4. CASE DeliverAgain(r)
  <2>1. spc' \in [Runs -> Steps]
    BY <1>4, GoesType DEF DeliverAgain
  <2>2. CASE Len(box[parent[r]]) < BufSize
    <3>1. parent[r] \in Sessions
      BY DEF TypeOK
    <3>2. /\ box' \in [Sessions -> Seq(Requests)]
          /\ \A q \in Sessions : Len(box'[q]) <= BufSize
      BY <1>4, <2>2, <3>1, BoxAppend DEF DeliverAgain
    <3>3. QED
      BY <1>4, <2>1, <2>2, <3>2 DEF DeliverAgain, TypeOK
  <2>3. CASE ~(Len(box[parent[r]]) < BufSize)
    BY <1>4, <2>1, <2>3 DEF DeliverAgain, TypeOK
  <2>4. QED
    BY <2>2, <2>3
<1>5. CASE Deregister(r)
  BY <1>5, GoesType DEF Deregister, TypeOK
<1>6. CASE Release(r)
  <2>1. spc' \in [Runs -> Steps]
    BY <1>6, GoesType DEF Release
  <2>2. sem' \in [Sessions -> 0..MaxChildren]
    <3>1. /\ parent[r] \in Sessions /\ sem \in [Sessions -> 0..MaxChildren]
          /\ MaxChildren \in Nat /\ sem[parent[r]] \in 0..MaxChildren
      BY ConstantsAssumption DEF ConstantsAssumption, TypeOK
    <3>2. sem[parent[r]] - 1 \in 0..MaxChildren
      BY <1>6, <3>1 DEF Release
    <3>3. QED
      BY <1>6, <3>1, <3>2 DEF Release
  <2>3. QED
    BY <1>6, <2>1, <2>2 DEF Release, TypeOK
<1>7. QED
  BY <1>1, <1>2, <1>3, <1>4, <1>5, <1>6 DEF Goroutine

LEMMA TypeStep == TypeOK /\ [Next]_vars => TypeOK'
<1> SUFFICES ASSUME TypeOK, [Next]_vars PROVE TypeOK'
  OBVIOUS
<1> USE DEF admission, announcer, stopper
<1>1. ASSUME NEW r \in Requests, Caller(r) PROVE TypeOK'
  BY <1>1, CallerType
<1>2. ASSUME NEW r \in Requests, Goroutine(r) PROVE TypeOK'
  BY <1>2, GoroutineType
<1>3. ASSUME NEW r \in Runs, StopVisits(r) PROVE TypeOK'
  BY <1>3 DEF StopVisits, TypeOK
<1>4. ASSUME NEW p \in Sessions, Drain(p) PROVE TypeOK'
  <2>1. /\ box' \in [Sessions -> Seq(Requests)]
        /\ \A q \in Sessions : Len(box'[q]) <= BufSize
        /\ Head(box[p]) \in Requests
    BY <1>4, BoxTail DEF Drain
  <2>2. drained' \in [Sessions -> Seq(Requests)]
    BY <1>4, <2>1 DEF Drain, TypeOK
  <2>3. QED
    BY <1>4, <2>1, <2>2 DEF Drain, TypeOK
<1>5. CASE StopBegins \/ StopEnds
  BY <1>5 DEF StopBegins, StopEnds, TypeOK
<1>6. CASE Tick
  <2>1. /\ dedup' \in [Keys -> Entry \cup {Absent}]
        /\ since' \in [Keys -> Entry \cup {Absent}]
    BY <1>6, AgedType DEF Tick, TypeOK
  <2>2. QED
    BY <1>6, <2>1 DEF Tick, TypeOK
<1>7. CASE Sweep
  BY <1>7 DEF Sweep, TypeOK
<1>8. CASE UNCHANGED vars
  BY <1>8 DEF vars, TypeOK
<1>9. ASSUME NEW h \in Handoffs, HandoffBegins(h) \/ HandoffReturns(h) PROVE TypeOK'
  <2>1. spc' \in [Runs -> Steps]
    BY <1>9, GoesType DEF HandoffBegins, HandoffReturns, Steps
  <2>2. QED
    BY <1>9, <2>1 DEF HandoffBegins, HandoffReturns, TypeOK
<1>10. QED
  BY <1>1, <1>2, <1>3, <1>4, <1>5, <1>6, <1>7, <1>8, <1>9 DEF Next
-----------------------------------------------------------------------------
(* Permits.                                                                *)

\* A step in which nobody takes or gives back a permit.
LEMMA PermitsStay ==
  ASSUME Permits, UNCHANGED <<parent, sem>>,
         \A r \in Requests : spc'[r] \in Holding <=> spc[r] \in Holding,
         \A r \in registry' \cap Requests : spc'[r] \in Registered,
         \A h \in registry' \cap Handoffs : spc'[h] = "running"
  PROVE  Permits'
<1>1. \A p : Holders(p)' = Holders(p)
  BY DEF Holders
<1>2. QED
  BY <1>1 DEF Permits

\* A request moves on without taking or giving back a permit.
LEMMA PermitsGo ==
  ASSUME TypeOK, Permits, UNCHANGED <<parent, sem>>, NEW r \in Requests,
         NEW from, NEW to \in Steps, Goes(r, from, to), from \in Holding <=> to \in Holding,
         from \in Registered => to \in Registered, registry' \subseteq registry
  PROVE  Permits'
<1>1. /\ spc[r] = from /\ spc'[r] = to /\ registry \subseteq Runs
      /\ \A o \in Runs \ {r} : spc'[o] = spc[o]
  BY GoesType DEF TypeOK
<1>2. /\ \A o \in registry' \cap Requests : spc'[o] \in Registered
      /\ \A h \in registry' \cap Handoffs : spc'[h] = "running"
  BY <1>1, ConstantsAssumption DEF ConstantsAssumption, Permits
<1>3. QED
  BY <1>1, <1>2, PermitsStay

LEMMA PermitsStep == TypeOK /\ Permits /\ [Next]_vars => Permits'
<1> SUFFICES ASSUME TypeOK, Permits, [Next]_vars PROVE Permits'
  OBVIOUS
<1> USE DEF admission, announcer, stopper
<1>1. ASSUME NEW r \in Requests, Deny(r) PROVE Permits'
  BY <1>1, PermitsGo DEF Deny, Steps, Holding, Registered
<1>2. ASSUME NEW r \in Requests, Check(r) PROVE Permits'
  BY <1>2, PermitsGo DEF Check, Steps, Holding, Registered
<1>3. ASSUME NEW r \in Requests, Acquire(r) PROVE Permits'
  <2>1. CASE ~(sem[parent[r]] < MaxChildren)
    BY <1>3, <2>1, PermitsGo DEF Acquire, Steps, Holding, Registered
  <2>2. CASE sem[parent[r]] < MaxChildren
    <3>1. /\ parent[r] \in Sessions /\ sem \in [Sessions -> 0..MaxChildren]
          /\ registry \subseteq Runs
      BY DEF TypeOK
    <3>2. /\ spc[r] = "checked" /\ spc'[r] = "acquired"
          /\ \A o \in Runs \ {r} : spc'[o] = spc[o]
          /\ sem' = [sem EXCEPT ![parent[r]] = @ + 1] /\ UNCHANGED <<parent, registry>>
      BY <1>3, <2>2, GoesType DEF Acquire, Steps
    <3>3. /\ Holders(parent[r])' = Holders(parent[r]) \cup {r}
          /\ r \notin Holders(parent[r])
          /\ \A p : p # parent[r] => Holders(p)' = Holders(p)
      BY <3>2 DEF Holders, Holding
    <3>4. Cardinality(Holders(parent[r]))' = Cardinality(Holders(parent[r])) + 1
      BY <3>3, HoldersFinite, FS_AddElement
    <3>5. \A p \in Sessions : sem'[p] = Cardinality(Holders(p))'
      BY <3>1, <3>2, <3>3, <3>4 DEF Permits
    <3>6. /\ \A o \in registry' \cap Requests : spc'[o] \in Registered
          /\ \A h \in registry' \cap Handoffs : spc'[h] = "running"
      BY <3>1, <3>2, ConstantsAssumption DEF ConstantsAssumption, Permits, Registered
    <3>7. QED
      BY <3>5, <3>6 DEF Permits
  <2>3. QED
    BY <2>1, <2>2
<1>4. ASSUME NEW r \in Requests, Register(r) PROVE Permits'
  <2>1. /\ spc[r] = "acquired" /\ spc'[r] = "running" /\ registry \subseteq Runs
        /\ \A o \in Runs \ {r} : spc'[o] = spc[o]
    BY <1>4, GoesType DEF Register, Steps, TypeOK
  <2>2. /\ \A o \in registry' \cap Requests : spc'[o] \in Registered
        /\ \A h \in registry' \cap Handoffs : spc'[h] = "running"
    BY <1>4, <2>1, ConstantsAssumption DEF ConstantsAssumption, Register, Permits, Registered
  <2>3. QED
    BY <1>4, <2>1, <2>2, PermitsStay DEF Register, Holding
<1>5. ASSUME NEW r \in Requests, Finish(r) \/ Deliver(r) \/ DropOldest(r) \/ DeliverAgain(r)
      PROVE  Permits'
  BY <1>5, PermitsGo DEF Finish, Deliver, DropOldest, DeliverAgain, Steps, Holding, Registered
<1>6. ASSUME NEW r \in Requests, Deregister(r) PROVE Permits'
  <2>1. /\ spc[r] = "delivered" /\ spc'[r] = "deregistered" /\ registry \subseteq Runs
        /\ \A o \in Runs \ {r} : spc'[o] = spc[o]
    BY <1>6, GoesType DEF Deregister, Steps, TypeOK
  <2>2. /\ \A o \in registry' \cap Requests : spc'[o] \in Registered
        /\ \A h \in registry' \cap Handoffs : spc'[h] = "running"
    BY <1>6, <2>1, ConstantsAssumption DEF ConstantsAssumption, Deregister, Permits
  <2>3. QED
    BY <1>6, <2>1, <2>2, PermitsStay DEF Deregister, Holding
<1>7. ASSUME NEW r \in Requests, Release(r) PROVE Permits'
  <2>1. /\ parent[r] \in Sessions /\ sem \in [Sessions -> 0..MaxChildren]
        /\ registry \subseteq Runs
    BY DEF TypeOK
  <2>2. /\ spc[r] = "deregistered" /\ spc'[r] = "done"
        /\ \A o \in Runs \ {r} : spc'[o] = spc[o]
        /\ sem' = [sem EXCEPT ![parent[r]] = @ - 1] /\ UNCHANGED <<parent, registry>>
    BY <1>7, GoesType DEF Release, Steps
  <2>3. /\ Holders(parent[r])' = Holders(parent[r]) \ {r}
        /\ r \in Holders(parent[r])
        /\ \A p : p # parent[r] => Holders(p)' = Holders(p)
    BY <2>2 DEF Holders, Holding
  <2>4. Cardinality(Holders(parent[r]))' = Cardinality(Holders(parent[r])) - 1
    BY <2>3, HoldersFinite, FS_RemoveElement
  <2>5. \A p \in Sessions : sem'[p] = Cardinality(Holders(p))'
    BY <2>1, <2>2, <2>3, <2>4 DEF Permits
  <2>6. /\ \A o \in registry' \cap Requests : spc'[o] \in Registered
        /\ \A h \in registry' \cap Handoffs : spc'[h] = "running"
    BY <2>1, <2>2, ConstantsAssumption DEF ConstantsAssumption, Permits, Registered
  <2>7. QED
    BY <2>5, <2>6 DEF Permits
<1>8. ASSUME NEW r \in Runs, StopVisits(r) PROVE Permits'
  BY <1>8, PermitsStay DEF StopVisits, Permits
<1>9. ASSUME NEW p \in Sessions, Drain(p) PROVE Permits'
  BY <1>9, PermitsStay DEF Drain, Permits
<1>10. CASE StopBegins \/ StopEnds \/ Tick \/ Sweep
  BY <1>10, PermitsStay DEF StopBegins, StopEnds, Tick, Sweep, Permits
<1>11. CASE UNCHANGED vars
  BY <1>11, PermitsStay DEF vars, Permits
<1>12. ASSUME NEW h \in Handoffs, HandoffBegins(h) \/ HandoffReturns(h) PROVE Permits'
  <2>1. /\ h \notin Requests
        /\ \A o \in Runs \ {h} : spc'[o] = spc[o]
        /\ HandoffBegins(h) => spc'[h] = "running" /\ registry' = registry \cup {h}
        /\ HandoffReturns(h) => registry' = registry \ {h}
        /\ UNCHANGED <<parent, sem>>
    BY <1>12, GoesType, ConstantsAssumption
       DEF ConstantsAssumption, HandoffBegins, HandoffReturns, Steps
  <2>2. /\ \A o \in registry' \cap Requests : spc'[o] \in Registered
        /\ \A g \in registry' \cap Handoffs : spc'[g] = "running"
    BY <1>12, <2>1 DEF Permits
  <2>3. QED
    BY <2>1, <2>2, PermitsStay
<1>13. QED
  BY <1>1, <1>2, <1>3, <1>4, <1>5, <1>6, <1>7, <1>8, <1>9, <1>10, <1>11, <1>12
     DEF Next, Caller, Goroutine
-----------------------------------------------------------------------------
(* Announcements.                                                          *)

Dropped(r, p) == IF r \in lost /\ parent[r] = p THEN 1 ELSE 0
Announced(r, p) == IF spc[r] \in Past /\ parent[r] = p THEN 1 ELSE 0

\* AnnouncedOnce in these terms, and what can be told from it of single places.
LEMMA AnnouncedSum ==
  ASSUME TypeOK, AnnouncedOnce, NEW r \in Requests, NEW p \in Sessions
  PROVE  /\ Received(box[p], r) \in Nat /\ Received(drained[p], r) \in Nat
         /\ Received(box[p], r) + Received(drained[p], r) + Dropped(r, p) = Announced(r, p)
<1>1. box[p] \in Seq(Requests) /\ drained[p] \in Seq(Requests)
  BY DEF TypeOK
<1>2. Received(box[p], r) \in Nat /\ Received(drained[p], r) \in Nat
  BY <1>1, ReceivedPlaces
<1>3. QED
  BY <1>2 DEF AnnouncedOnce, Dropped, Announced

\* What it takes to show AnnouncedOnce of the next state.
LEMMA AnnouncedNext ==
  ASSUME \A r \in Requests, p \in Sessions :
            Received(box'[p], r) + Received(drained'[p], r) + Dropped(r, p)' = Announced(r, p)'
  PROVE  AnnouncedOnce'
BY DEF AnnouncedOnce, Dropped, Announced

LEMMA AnnouncedStay ==
  ASSUME TypeOK, AnnouncedOnce, UNCHANGED <<parent, box, drained, lost>>,
         \A r \in Requests : spc'[r] \in Past <=> spc[r] \in Past
  PROVE  AnnouncedOnce'
BY DEF AnnouncedOnce

\* A request moves on without being announced.
LEMMA AnnouncedGo ==
  ASSUME TypeOK, AnnouncedOnce, UNCHANGED <<parent, box, drained, lost>>, NEW r \in Requests,
         NEW from, NEW to \in Steps, Goes(r, from, to), from \in Past <=> to \in Past
  PROVE  AnnouncedOnce'
BY GoesType, AnnouncedStay

\* A result goes into the channel of its parent.
LEMMA AnnouncedSend ==
  ASSUME TypeOK, AnnouncedOnce, NEW r \in Requests, NEW from, from \notin Past,
         Goes(r, from, "delivered"), UNCHANGED <<parent, drained, lost>>,
         box' = [box EXCEPT ![parent[r]] = Append(@, r)]
  PROVE  AnnouncedOnce'
<1>1. /\ parent[r] \in Sessions /\ box \in [Sessions -> Seq(Requests)]
      /\ box[parent[r]] \in Seq(Requests)
  BY DEF TypeOK
<1>2. /\ spc[r] \notin Past /\ spc'[r] \in Past
      /\ \A o \in Requests \ {r} : spc'[o] = spc[o]
  BY GoesType DEF Steps, Past
<1>3. ASSUME NEW o \in Requests, NEW p \in Sessions
      PROVE  Received(box'[p], o) + Received(drained'[p], o) + Dropped(o, p)' = Announced(o, p)'
  <2>1. /\ Received(box[p], o) \in Nat /\ Received(drained[p], o) \in Nat
        /\ Received(box[p], o) + Received(drained[p], o) + Dropped(o, p) = Announced(o, p)
    BY AnnouncedSum
  <2>2. drained'[p] = drained[p] /\ Dropped(o, p)' = Dropped(o, p)
    BY DEF Dropped
  <2>3. CASE p # parent[r]
    <3>1. box'[p] = box[p] /\ Announced(o, p)' = Announced(o, p)
      BY <1>1, <1>2, <2>3 DEF Announced
    <3>2. QED
      BY <2>1, <2>2, <3>1
  <2>4. CASE p = parent[r]
    <3>1. box'[p] = Append(box[p], r)
      BY <1>1, <2>4
    <3>2. Received(box'[p], o) = Received(box[p], o) + (IF r = o THEN 1 ELSE 0)
      BY <1>1, <2>4, <3>1, ReceivedAppend
    <3>3. Announced(o, p)' = Announced(o, p) + (IF r = o THEN 1 ELSE 0)
      BY <1>2, <2>4 DEF Announced
    <3>4. Dropped(o, p) \in Nat /\ Announced(o, p) \in Nat
      BY DEF Dropped, Announced
    <3>5. CASE r = o
      BY <2>1, <2>2, <3>2, <3>3, <3>4, <3>5
    <3>6. CASE r # o
      BY <2>1, <2>2, <3>2, <3>3, <3>4, <3>6
    <3>7. QED
      BY <3>5, <3>6
  <2>5. QED
    BY <2>3, <2>4
<1>4. QED
  BY <1>3, AnnouncedNext

\* A result that finds no room twice is dropped.
LEMMA AnnouncedLost ==
  ASSUME TypeOK, AnnouncedOnce, NEW r \in Requests, NEW from, from \notin Past,
         Goes(r, from, "delivered"), UNCHANGED <<parent, drained, box>>,
         lost' = lost \cup {r}
  PROVE  AnnouncedOnce'
<1>1. /\ spc[r] \notin Past /\ spc'[r] \in Past
      /\ \A o \in Requests \ {r} : spc'[o] = spc[o]
  BY GoesType DEF Steps, Past
<1>2. ASSUME NEW o \in Requests, NEW p \in Sessions
      PROVE  Received(box'[p], o) + Received(drained'[p], o) + Dropped(o, p)' = Announced(o, p)'
  <2>1. /\ Received(box[p], o) \in Nat /\ Received(drained[p], o) \in Nat
        /\ Received(box[p], o) + Received(drained[p], o) + Dropped(o, p) = Announced(o, p)
    BY AnnouncedSum
  <2>2. CASE o # r
    BY <1>1, <2>1, <2>2 DEF Dropped, Announced
  <2>3. CASE o = r
    BY <1>1, <2>1, <2>3 DEF Dropped, Announced
  <2>4. QED
    BY <2>2, <2>3
<1>3. QED
  BY <1>2, AnnouncedNext

\* The oldest result is taken out of a channel; it was announced to the channel's session
\* and is in no other place, so that it may be dropped or drained.
LEMMA OldestAnnounced ==
  ASSUME TypeOK, AnnouncedOnce, NEW p \in Sessions, box[p] # <<>>
  PROVE  LET x == Head(box[p]) IN
         /\ x \in Requests /\ x \notin lost /\ parent[x] = p
         /\ \A o \in Requests : Received(box[p], o) =
                Received(Tail(box[p]), o) + (IF x = o THEN 1 ELSE 0)
         /\ \A o \in Requests : Received(Tail(box[p]), o) \in Nat
<1> DEFINE x == Head(box[p])
<1>1. box[p] \in Seq(Requests)
  BY DEF TypeOK
<1>2. x \in Requests /\ Tail(box[p]) \in Seq(Requests)
  BY <1>1, HeadTailProperties
<1>3. \A o \in Requests : Received(Tail(box[p]), o) \in Nat
  BY <1>2, ReceivedPlaces
<1>4. \A o \in Requests : Received(box[p], o) =
          Received(Tail(box[p]), o) + (IF x = o THEN 1 ELSE 0)
  BY <1>1, ReceivedTail
<1> HIDE DEF x
<1>5. /\ Received(box[p], x) >= 1 /\ Received(box[p], x) \in Nat
      /\ Received(drained[p], x) \in Nat
      /\ Received(box[p], x) + Received(drained[p], x) + Dropped(x, p) = Announced(x, p)
  BY <1>2, <1>3, <1>4, AnnouncedSum
<1>6. Announced(x, p) = 1 /\ Dropped(x, p) = 0
  BY <1>5 DEF Announced, Dropped
<1>7. parent[x] = p /\ x \notin lost
  BY <1>6 DEF Announced, Dropped
<1>8. QED
  BY <1>2, <1>3, <1>4, <1>7 DEF x

LEMMA AnnouncedStep == TypeOK /\ AnnouncedOnce /\ [Next]_vars => AnnouncedOnce'
<1> SUFFICES ASSUME TypeOK, AnnouncedOnce, [Next]_vars PROVE AnnouncedOnce'
  OBVIOUS
<1> USE DEF admission, announcer, stopper
<1>1. ASSUME NEW r \in Requests, Caller(r) PROVE AnnouncedOnce'
  <2>1. CASE Deny(r) \/ Acquire(r) \/ Register(r)
    BY <2>1, AnnouncedGo DEF Deny, Acquire, Register, Steps, Past
  <2>2. CASE Check(r)
    BY <2>2, AnnouncedGo DEF Check, Steps, Past
  <2>3. QED
    BY <1>1, <2>1, <2>2 DEF Caller
<1>2. ASSUME NEW r \in Requests, Finish(r) \/ Deregister(r) \/ Release(r) PROVE AnnouncedOnce'
  BY <1>2, AnnouncedGo DEF Finish, Deregister, Release, Steps, Past
<1>3. ASSUME NEW r \in Requests, Deliver(r) PROVE AnnouncedOnce'
  <2>1. CASE Len(box[parent[r]]) < BufSize
    BY <1>3, <2>1, AnnouncedSend DEF Deliver, Past
  <2>2. CASE ~(Len(box[parent[r]]) < BufSize)
    BY <1>3, <2>2, AnnouncedGo DEF Deliver, Steps, Past
  <2>3. QED
    BY <2>1, <2>2
<1>4. ASSUME NEW r \in Requests, DropOldest(r) PROVE AnnouncedOnce'
  <2> DEFINE p == parent[r]
             x == Head(box[p])
  <2>1. CASE box[p] = <<>>
    BY <1>4, <2>1, AnnouncedGo DEF DropOldest, Steps, Past
  <2>2. CASE box[p] # <<>>
    <3>1. p \in Sessions /\ box \in [Sessions -> Seq(Requests)]
      BY DEF TypeOK
    <3>2. /\ x \in Requests /\ x \notin lost /\ parent[x] = p
          /\ \A o \in Requests : Received(box[p], o) =
                 Received(Tail(box[p]), o) + (IF x = o THEN 1 ELSE 0)
          /\ \A o \in Requests : Received(Tail(box[p]), o) \in Nat
      BY <2>2, <3>1, OldestAnnounced
    <3>3. /\ box' = [box EXCEPT ![p] = Tail(@)] /\ lost' = lost \cup {x}
          /\ UNCHANGED <<parent, drained>>
          /\ Goes(r, "making room", "retrying")
      BY <1>4, <2>2 DEF DropOldest
    <3>4. \A o \in Requests : spc'[o] \in Past <=> spc[o] \in Past
      <4>1. /\ spc[r] = "making room" /\ spc'[r] = "retrying"
            /\ \A o \in Runs \ {r} : spc'[o] = spc[o]
        BY <3>3, GoesType DEF Steps
      <4>2. QED
        BY <4>1 DEF Past
    <3> HIDE DEF p, x
    <3>5. ASSUME NEW o \in Requests, NEW q \in Sessions
          PROVE  Received(box'[q], o) + Received(drained'[q], o) + Dropped(o, q)' = Announced(o, q)'
      <4>1. /\ Received(box[q], o) \in Nat /\ Received(drained[q], o) \in Nat
            /\ Received(box[q], o) + Received(drained[q], o) + Dropped(o, q) = Announced(o, q)
        BY AnnouncedSum
      <4>2. drained'[q] = drained[q] /\ Announced(o, q)' = Announced(o, q)
        BY <3>3, <3>4 DEF Announced
      <4>3. CASE q # p
        <5>1. box'[q] = box[q] /\ Dropped(o, q)' = Dropped(o, q)
          BY <3>1, <3>2, <3>3, <4>3 DEF Dropped
        <5>2. QED
          BY <4>1, <4>2, <5>1
      <4>4. CASE q = p /\ o = x
        <5>1. box'[q] = Tail(box[p]) /\ Dropped(o, q) = 0 /\ Dropped(o, q)' = 1
          BY <3>1, <3>2, <3>3, <4>4 DEF Dropped
        <5>2. Received(box[q], o) = Received(box'[q], o) + 1 /\ Received(box'[q], o) \in Nat
          BY <3>2, <4>4, <5>1
        <5>3. QED
          BY <4>1, <4>2, <5>1, <5>2
      <4>5. CASE q = p /\ o # x
        <5>1. box'[q] = Tail(box[p]) /\ Dropped(o, q)' = Dropped(o, q)
          BY <3>1, <3>3, <4>5 DEF Dropped
        <5>2. Received(box[q], o) = Received(box'[q], o)
          BY <3>2, <4>5, <5>1
        <5>3. QED
          BY <4>1, <4>2, <5>1, <5>2
      <4>6. QED
        BY <4>3, <4>4, <4>5
    <3>6. QED
      BY <3>5, AnnouncedNext
  <2>3. QED
    BY <2>1, <2>2
<1>5. ASSUME NEW r \in Requests, DeliverAgain(r) PROVE AnnouncedOnce'
  <2>1. CASE Len(box[parent[r]]) < BufSize
    BY <1>5, <2>1, AnnouncedSend DEF DeliverAgain, Past
  <2>2. CASE ~(Len(box[parent[r]]) < BufSize)
    BY <1>5, <2>2, AnnouncedLost DEF DeliverAgain, Past
  <2>3. QED
    BY <2>1, <2>2
<1>6. ASSUME NEW p \in Sessions, Drain(p) PROVE AnnouncedOnce'
  <2> DEFINE x == Head(box[p])
  <2>1. /\ box \in [Sessions -> Seq(Requests)] /\ drained \in [Sessions -> Seq(Requests)]
        /\ drained[p] \in Seq(Requests)
    BY DEF TypeOK
  <2>2. /\ x \in Requests
        /\ \A o \in Requests : Received(box[p], o) =
               Received(Tail(box[p]), o) + (IF x = o THEN 1 ELSE 0)
        /\ \A o \in Requests : Received(Tail(box[p]), o) \in Nat
    BY <1>6, OldestAnnounced DEF Drain
  <2>3. /\ box' = [box EXCEPT ![p] = Tail(@)] /\ drained' = [drained EXCEPT ![p] = Append(@, x)]
        /\ UNCHANGED <<spc, parent, lost>>
    BY <1>6 DEF Drain
  <2>4. \A o \in Requests : Received(Append(drained[p], x), o) =
            Received(drained[p], o) + (IF x = o THEN 1 ELSE 0)
    BY <2>1, <2>2, ReceivedAppend
  <2> HIDE DEF x
  <2>5. ASSUME NEW o \in Requests, NEW q \in Sessions
        PROVE  Received(box'[q], o) + Received(drained'[q], o) + Dropped(o, q)' = Announced(o, q)'
    <3>1. /\ Received(box[q], o) \in Nat /\ Received(drained[q], o) \in Nat
          /\ Received(box[q], o) + Received(drained[q], o) + Dropped(o, q) = Announced(o, q)
      BY AnnouncedSum
    <3>2. Dropped(o, q)' = Dropped(o, q) /\ Announced(o, q)' = Announced(o, q)
      BY <2>3 DEF Dropped, Announced
    <3>3. Dropped(o, q) \in Nat
      BY DEF Dropped
    <3>4. CASE q # p
      <4>1. box'[q] = box[q] /\ drained'[q] = drained[q]
        BY <2>1, <2>3, <3>4
      <4>2. QED
        BY <3>1, <3>2, <4>1
    <3>5. CASE q = p
      <4>1. box'[q] = Tail(box[p]) /\ drained'[q] = Append(drained[p], x)
        BY <2>1, <2>3, <3>5
      <4>2. Received(box[q], o) + Received(drained[q], o)
                = Received(box'[q], o) + Received(drained'[q], o)
        <5>1. CASE x = o
          BY <2>2, <2>4, <3>1, <3>5, <4>1, <5>1
        <5>2. CASE x # o
          BY <2>2, <2>4, <3>1, <3>5, <4>1, <5>2
        <5>3. QED
          BY <5>1, <5>2
      <4>3. QED
        BY <3>1, <3>2, <4>2
    <3>6. QED
      BY <3>4, <3>5
  <2>6. QED
    BY <2>5, AnnouncedNext
<1>7. ASSUME NEW r \in Runs, StopVisits(r) PROVE AnnouncedOnce'
  BY <1>7, AnnouncedStay DEF StopVisits
<1>8. CASE StopBegins \/ StopEnds \/ Tick \/ Sweep
  BY <1>8, AnnouncedStay DEF StopBegins, StopEnds, Tick, Sweep
<1>9. CASE UNCHANGED vars
  BY <1>9, AnnouncedStay DEF vars
<1>10. ASSUME NEW h \in Handoffs, HandoffBegins(h) \/ HandoffReturns(h) PROVE AnnouncedOnce'
  <2>1. h \notin Requests /\ \A o \in Runs \ {h} : spc'[o] = spc[o]
    BY <1>10, GoesType, ConstantsAssumption
       DEF ConstantsAssumption, HandoffBegins, HandoffReturns, Steps
  <2>2. QED
    BY <1>10, <2>1, AnnouncedStay DEF HandoffBegins, HandoffReturns
<1>11. QED
  BY <1>1, <1>2, <1>3, <1>4, <1>5, <1>6, <1>7, <1>8, <1>9, <1>10 DEF Next, Goroutine

-----------------------------------------------------------------------------
LEMMA WindowsStep == TypeOK /\ Windows /\ [Next]_vars => Windows'
<1> SUFFICES ASSUME TypeOK, Windows, [Next]_vars PROVE Windows'
  OBVIOUS
<1> USE DEF admission, announcer, stopper
<1>1. CASE UNCHANGED <<dedup, since>>
  BY <1>1 DEF Windows
<1>2. ASSUME NEW r \in Requests, Check(r) PROVE Windows'
  BY <1>2 DEF Check, Windows, TypeOK
<1>3. CASE Tick
  <2>1. SUFFICES ASSUME NEW k \in Keys
                 PROVE  dedup'[k] = since'[k] \/ (dedup'[k] = Absent /\ since'[k].age > DedupTTL)
    BY DEF Windows
  <2>2. dedup'[k] = Aged(dedup[k], 0) /\ since'[k] = Aged(since[k], 0)
    BY <1>3 DEF Tick
  <2>3. CASE dedup[k] = since[k]
    BY <2>2, <2>3
  <2>4. CASE dedup[k] = Absent /\ since[k] # Absent /\ since[k].age > DedupTTL
    BY <2>2, <2>4, AgedType DEF TypeOK
  <2>5. QED
    BY <2>3, <2>4 DEF Windows
<1>4. CASE Sweep
  BY <1>4 DEF Sweep, Windows
<1>5. QED
  BY <1>1, <1>2, <1>3, <1>4
     DEF Next, Caller, Deny, Acquire, Register, Goroutine, Finish, Deliver, DropOldest,
         DeliverAgain, Deregister, Release, HandoffBegins, HandoffReturns, StopVisits, Drain, StopBegins, StopEnds, vars

-----------------------------------------------------------------------------
LEMMA Inductive == Spec => []IInv
<1>1. Init => IInv
  BY InitInv
<1>2. IInv /\ [Next]_vars => IInv'
  BY TypeStep, PermitsStep, AnnouncedStep, WindowsStep DEF IInv
<1>3. QED
  BY <1>1, <1>2, PTL DEF Spec

\* The channels of the announcer and the semaphores stay within their capacities.
THEOREM TypeCorrect == Spec => []TypeOK
<1>1. IInv => TypeOK
  BY DEF IInv
<1>2. QED
  BY <1>1, Inductive, PTL

\* No parent has more spawned runs in the registry than the limit: each of them still
\* holds the permit it took, since the deferred calls deregister before they release.
\* What else the count of its active children counts are the handoffs it waits for.
THEOREM Limited == Spec => []ChildrenLimited
<1>1. IInv => ChildrenLimited
  <2>1. SUFFICES ASSUME IInv, NEW p \in Sessions
                 PROVE  /\ Cardinality(Children(p) \cap Requests) <= MaxChildren
                        /\ ActiveChildCount(p) <= MaxChildren + Cardinality(AwaitedBy(p))
    BY DEF ChildrenLimited
  <2> DEFINE spawned == Children(p) \cap Requests
             handed  == Children(p) \cap Handoffs
  <2>2. /\ spawned \subseteq Holders(p) /\ handed \subseteq AwaitedBy(p)
        /\ Children(p) = spawned \cup handed
    BY <2>1 DEF IInv, Permits, TypeOK, Children, Holders, Registered, Holding, AwaitedBy
  <2>3. /\ IsFiniteSet(Holders(p)) /\ Cardinality(Holders(p)) \in Nat
        /\ Cardinality(Holders(p)) <= MaxChildren
    BY <2>1, HoldersFinite, ConstantsAssumption DEF ConstantsAssumption, IInv, Permits, TypeOK
  <2>4. IsFiniteSet(AwaitedBy(p))
    <3>1. AwaitedBy(p) \subseteq Handoffs
      BY DEF AwaitedBy
    <3>2. QED
      BY <3>1, FS_Subset, ConstantsAssumption DEF ConstantsAssumption
  <2> HIDE DEF spawned, handed
  <2>5. /\ IsFiniteSet(spawned) /\ Cardinality(spawned) \in Nat
        /\ Cardinality(spawned) <= Cardinality(Holders(p))
    BY <2>2, <2>3, FS_Subset, FS_CardinalityType
  <2>6. /\ IsFiniteSet(handed) /\ Cardinality(handed) \in Nat
        /\ Cardinality(AwaitedBy(p)) \in Nat
        /\ Cardinality(handed) <= Cardinality(AwaitedBy(p))
    BY <2>2, <2>4, FS_Subset, FS_CardinalityType
  <2>7. /\ Cardinality(Children(p)) \in Nat
        /\ Cardinality(Children(p)) <= Cardinality(spawned) + Cardinality(handed)
    <3>1. /\ IsFiniteSet(spawned \cup handed)
          /\ Cardinality(spawned \cup handed) =
                Cardinality(spawned) + Cardinality(handed) - Cardinality(spawned \cap handed)
      BY <2>5, <2>6, FS_Union
    <3>2. Cardinality(spawned \cap handed) \in Nat
      BY <2>5, FS_Subset, FS_CardinalityType, spawned \cap handed \subseteq spawned
    <3>3. Cardinality(spawned \cup handed) \in Nat
      BY <3>1, FS_CardinalityType
    <3>4. QED
      BY <2>2, <2>5, <2>6, <3>1, <3>2, <3>3
  <2>8. MaxChildren \in Nat
    BY ConstantsAssumption DEF ConstantsAssumption
  <2>9. Cardinality(Children(p) \cap Requests) <= MaxChildren
    BY <2>3, <2>5, <2>8 DEF spawned
  <2>10. ActiveChildCount(p) <= MaxChildren + Cardinality(AwaitedBy(p))
    BY <2>3, <2>5, <2>6, <2>7, <2>8 DEF ActiveChildCount
  <2>11. QED
    BY <2>9, <2>10
<1>2. QED
  BY <1>1, Inductive, PTL

\* However the three steps of a delivery interleave with other deliveries and with the
\* parent's drains, the result of a run is in one place, once.
THEOREM Once == Spec => []AnnouncedOnce
<1>1. IInv => AnnouncedOnce
  BY DEF IInv
<1>2. QED
  BY <1>1, Inductive, PTL

\* Whenever sweeps come, two requests with one key pass only a window apart.
THEOREM Windowed == Spec => OncePerWindow
<1> DEFINE Apart == \A r \in Requests : spc[r] = "idle" /\ spc'[r] = "checked" =>
                       since[KeyOf[r]] = Absent \/ since[KeyOf[r]].age >= DedupTTL
<1>1. IInv /\ [Next]_vars => [Apart]_vars
  <2>1. SUFFICES ASSUME IInv, [Next]_vars, NEW r \in Requests,
                        spc[r] = "idle", spc'[r] = "checked", since[KeyOf[r]] # Absent
                 PROVE  since[KeyOf[r]].age >= DedupTTL
    BY Zenon
  <2>2. Check(r)
    <3>1. ASSUME NEW o \in Runs, NEW from, NEW to \in Steps, Goes(o, from, to)
          PROVE  o = r /\ from = "idle" /\ to = "checked"
      BY <2>1, <3>1, GoesType DEF IInv
    <3>2. ASSUME NEW o \in Requests, Caller(o) \/ Goroutine(o)
          PROVE  Check(r)
      <4>1. Check(o)
        BY <3>1, <3>2 DEF Caller, Deny, Acquire, Register, Goroutine, Finish, Deliver,
                          DropOldest, DeliverAgain, Deregister, Release, Steps
      <4>2. o = r
        BY <3>1, <4>1 DEF Check, Steps
      <4>3. QED
        BY <4>1, <4>2
    <3>3. ~UNCHANGED spc
      BY <2>1
    <3>4. ~\E h \in Handoffs : HandoffBegins(h) \/ HandoffReturns(h)
      BY <3>1 DEF HandoffBegins, HandoffReturns, Steps
    <3>5. QED
      BY <2>1, <3>2, <3>3, <3>4
         DEF Next, StopVisits, Drain, StopBegins, StopEnds, Tick, Sweep, vars
  <2>3. ~Duplicate(KeyOf[r])
    BY <2>1, <2>2, GoesType DEF Check, IInv, Steps
  <2>4. KeyOf[r] \in Keys
    BY ConstantsAssumption DEF ConstantsAssumption
  <2>5. since[KeyOf[r]].age \in Nat /\ DedupTTL \in Nat
    BY <2>1, <2>4, ConstantsAssumption DEF ConstantsAssumption, IInv, TypeOK, Entry
  <2>6. QED
    BY <2>1, <2>3, <2>4, <2>5 DEF Duplicate, IInv, Windows, TypeOK
<1>2. QED
  BY <1>1, Inductive, PTL DEF Spec, OncePerWindow
=============================================================================
