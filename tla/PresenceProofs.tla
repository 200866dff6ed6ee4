--------------------------- MODULE PresenceProofs ---------------------------
(***************************************************************************)
(* Proofs about Presence, for any messages of a chat, any adapter and any  *)
(* TTLs.                                                                   *)
(***************************************************************************)
EXTENDS Presence, TLAPS

\* The map of entries is a function, on which a Store changes one place.
TypeInv == TypeOK /\ entry = [k \in Kinds |-> entry[k]]

\* The messages whose goroutines are through with kind k.
Past(k) == {m \in Messages : Recorded(m, k)}

\* What the maps, the worker and the janitor hold was recorded by its message.
Owners ==
    \A k \in Kinds : /\ entry[k] # None => entry[k].owner \in Past(k)
                     /\ wpc = At("call", k) => wheld.owner \in Past(k)
                     /\ jpc.step # "scan" /\ jpc.kind = k => jheld.owner \in Past(k)

\* A placeholder is in one place: with its message's goroutine, which has not recorded it
\* yet, in the map, with the worker, or it has been edited.
InMap(m)      == entry["placeholder"] # None /\ entry["placeholder"].owner = m
WithWorker(m) == wpc = At("call", "placeholder") /\ wheld.owner = m
OnePlace ==
    \A m \in Messages :
       /\ ~(InMap(m) /\ WithWorker(m))
       /\ edits[m] # 0 => edits[m] = 1 /\ Recorded(m, "placeholder") /\ ~InMap(m) /\ ~WithWorker(m)

\* An indicator that is on was started.
Started == \A k \in Indicators : \A m \in shown[k] : hpc[m] = At("record", k) \/ Recorded(m, k)

IInv == TypeInv /\ Owners /\ OnePlace /\ Started /\ LostToAnother

-----------------------------------------------------------------------------
\* An entry is never mistaken for its absence.
LEMMA EntryNotNone == ASSUME NEW k PROVE None \notin Entry(k)
<1>1. "age" \in DOMAIN None => FALSE
  BY DEF None
<1>2. \A e \in Entry(k) : "age" \in DOMAIN e
  BY DEF Entry
<1>3. QED
  BY <1>1, <1>2

LEMMA KindsFacts ==
  /\ Kinds = {"typing", "reaction", "placeholder"}
  /\ Indicators = {"typing", "reaction"}
  /\ Following("typing") = "reaction" /\ Following("reaction") = "placeholder"
  /\ \A k \in Kinds : TTL(k) \in Nat
BY ConstantsAssumption DEF ConstantsAssumption, Kinds, Indicators, Following, TTL

LEMMA FreshEntry ==
  ASSUME NEW k \in Kinds, NEW m \in Messages
  PROVE  [owner |-> m, age |-> 0] \in Entry(k)
BY KindsFacts DEF Entry

\* An entry gets older and keeps its owner.
LEMMA OlderEntry ==
  ASSUME NEW k \in Kinds, NEW e \in Entry(k) \cup {None}
  PROVE  /\ Older(e, k) \in Entry(k) \cup {None}
         /\ Older(e, k) # None <=> e # None
         /\ Older(e, k).owner = e.owner
<1>1. CASE e = None \/ e.age > TTL(k)
  BY <1>1 DEF Older
<1>2. CASE ~(e = None \/ e.age > TTL(k))
  <2>1. e \in Entry(k) /\ e.age \in Nat /\ e.age + 1 \in 0..TTL(k) + 1
    BY <1>2, KindsFacts DEF Entry
  <2>2. Older(e, k) = [e EXCEPT !.age = @ + 1]
    BY <1>2 DEF Older
  <2>3. Older(e, k) \in Entry(k) /\ Older(e, k).owner = e.owner
    BY <2>1, <2>2 DEF Entry
  <2>4. QED
    BY <1>2, <2>3, EntryNotNone
<1>3. QED
  BY <1>1, <1>2

-----------------------------------------------------------------------------
(* Types.                                                                  *)

LEMMA InitType == Init => TypeInv
BY KindsFacts, ConstantsAssumption DEF ConstantsAssumption, Init, TypeInv, TypeOK, At

LEMMA HandlerType ==
  ASSUME TypeInv, NEW m \in Messages, Handler(m) \/ Answer(m)
  PROVE  TypeInv'
<1> USE KindsFacts DEF At, handlerVars, workerVars, janitorVars
<1>1. hpc[m] \in [step : {"start", "record", "publish", "done"}, kind : Kinds]
  BY DEF TypeInv, TypeOK
<1>2. CASE Start(m)
  BY <1>1, <1>2 DEF Start, TypeInv, TypeOK
<1>3. CASE StartFails(m)
  BY <1>1, <1>3 DEF StartFails, HandlerMoves, TypeInv, TypeOK
<1>4. CASE Record(m)
  <2>1. \A k \in Kinds : entry'[k] \in Entry(k) \cup {None}
    BY <1>1, <1>4, FreshEntry DEF Record, TypeInv, TypeOK
  <2>2. entry' = [k \in Kinds |-> entry'[k]]
    BY <1>4 DEF Record, TypeInv, TypeOK
  <2>3. hpc' \in [Messages -> [step : {"start", "record", "publish", "done"}, kind : Kinds]]
    BY <1>1, <1>4 DEF Record, HandlerMoves, TypeInv, TypeOK
  <2>4. QED
    BY <1>4, <2>1, <2>2, <2>3 DEF Record, TypeInv, TypeOK
<1>5. CASE PublishInbound(m)
  BY <1>5 DEF PublishInbound, TypeInv, TypeOK
<1>6. CASE Answer(m)
  BY <1>6, ConstantsAssumption DEF ConstantsAssumption, Answer, TypeInv, TypeOK
<1>7. QED
  BY <1>2, <1>3, <1>4, <1>5, <1>6 DEF Handler

\* An entry taken out leaves the others.
LEMMA EntryOut ==
  ASSUME TypeInv, NEW k \in Kinds, entry' = [entry EXCEPT ![k] = None]
  PROVE  /\ DOMAIN entry' = Kinds /\ \A i \in Kinds : entry'[i] \in Entry(i) \cup {None}
         /\ entry' = [i \in Kinds |-> entry'[i]]
BY DEF TypeInv, TypeOK

LEMMA OffType ==
  ASSUME TypeInv, NEW k \in Kinds, NEW m
  PROVE  Off(k, m) \in [Kinds -> SUBSET Messages]
BY DEF Off, TypeInv, TypeOK

LEMMA WorkerType ==
  ASSUME TypeInv, Worker
  PROVE  TypeInv'
<1> USE KindsFacts DEF At, handlerVars, workerVars, janitorVars
<1>1. wpc \in [step : {"recv", "take", "call"}, kind : Kinds]
  BY DEF TypeInv, TypeOK
<1>2. CASE TakeReply
  BY <1>2, ConstantsAssumption DEF ConstantsAssumption, TakeReply, TypeInv, TypeOK
<1>3. CASE LoadAndDelete
  <2>1. /\ DOMAIN entry' = Kinds /\ \A i \in Kinds : entry'[i] \in Entry(i) \cup {None}
        /\ entry' = [i \in Kinds |-> entry'[i]]
    BY <1>1, <1>3, EntryOut DEF LoadAndDelete
  <2>2. /\ wpc' \in [step : {"recv", "take", "call"}, kind : Kinds]
        /\ wpc'.step = "call" => wheld' \in Entry(wpc'.kind)
        /\ wpc'.step # "call" => wheld' = None
    BY <1>1, <1>3 DEF LoadAndDelete, TypeInv, TypeOK
  <2>3. QED
    BY <1>3, <2>1, <2>2 DEF LoadAndDelete, TypeInv, TypeOK
<1>4. CASE StopRecorded
  BY <1>1, <1>4, OffType DEF StopRecorded, TypeInv, TypeOK
<1>5. CASE EditPlaceholder
  <2>1. wheld.owner \in Messages
    BY <1>5 DEF EditPlaceholder, TypeInv, TypeOK, Entry
  <2>2. edits' \in [Messages -> Nat] /\ shown' \in [Kinds -> SUBSET Messages]
    BY <1>5, <2>1 DEF EditPlaceholder, TypeInv, TypeOK
  <2>3. QED
    BY <1>5, <2>2 DEF EditPlaceholder, TypeInv, TypeOK
<1>6. QED
  BY <1>2, <1>3, <1>4, <1>5 DEF Worker

LEMMA JanitorType ==
  ASSUME TypeInv, Janitor
  PROVE  TypeInv'
<1> USE KindsFacts DEF At, handlerVars, workerVars, janitorVars, JanitorMoves
<1>1. jpc \in [step : {"scan", "evict", "call"}, kind : Kinds]
  BY DEF TypeInv, TypeOK
<1>2. CASE JanitorScans
  <2>1. /\ jpc' \in [step : {"scan", "evict", "call"}, kind : Kinds]
        /\ jpc'.step # "scan" => jheld' \in Entry(jpc'.kind)
        /\ jpc'.step = "scan" => jheld' = None
    BY <1>1, <1>2 DEF JanitorScans, TypeInv, TypeOK
  <2>2. QED
    BY <1>2, <2>1 DEF JanitorScans, TypeInv, TypeOK
<1>3. CASE JanitorEvicts
  <2>1. /\ DOMAIN entry' = Kinds /\ \A i \in Kinds : entry'[i] \in Entry(i) \cup {None}
        /\ entry' = [i \in Kinds |-> entry'[i]]
    BY <1>1, <1>3, EntryOut DEF JanitorEvicts
  <2>2. /\ jpc' \in [step : {"scan", "evict", "call"}, kind : Kinds]
        /\ jpc'.step # "scan" => jheld' \in Entry(jpc'.kind)
        /\ jpc'.step = "scan" => jheld' = None
    BY <1>1, <1>3 DEF JanitorEvicts, TypeInv, TypeOK
  <2>3. QED
    BY <1>3, <2>1, <2>2 DEF JanitorEvicts, TypeInv, TypeOK
<1>4. CASE JanitorStops
  BY <1>1, <1>4, OffType DEF JanitorStops, TypeInv, TypeOK
<1>5. QED
  BY <1>2, <1>3, <1>4 DEF Janitor

LEMMA TypeStep == TypeInv /\ [Next]_vars => TypeInv'
<1> SUFFICES ASSUME TypeInv, [Next]_vars PROVE TypeInv'
  OBVIOUS
<1>1. CASE Tick
  <2>1. \A k \in Kinds : entry'[k] \in Entry(k) \cup {None}
    BY <1>1, OlderEntry DEF Tick, TypeInv, TypeOK
  <2>2. entry' = [k \in Kinds |-> entry'[k]]
    BY <1>1 DEF Tick
  <2>3. QED
    BY <1>1, <2>1, <2>2 DEF Tick, TypeInv, TypeOK, handlerVars, workerVars, janitorVars
<1>2. CASE UNCHANGED vars
  BY <1>2 DEF vars, TypeInv, TypeOK, handlerVars, workerVars, janitorVars
<1>3. QED
  BY <1>1, <1>2, HandlerType, WorkerType, JanitorType DEF Next
-----------------------------------------------------------------------------
(* What single steps do.                                                   *)

\* What was recorded stays so.
LEMMA RecordedStays ==
  ASSUME TypeInv, [Next]_vars, NEW o \in Messages, NEW k \in Kinds, Recorded(o, k)
  PROVE  Recorded(o, k)'
<1> USE KindsFacts DEF At, Recorded
<1>1. ASSUME NEW m \in Messages, Start(m) \/ StartFails(m) \/ Record(m) \/ PublishInbound(m)
      PROVE  Recorded(o, k)'
  <2>1. hpc \in [Messages -> [step : {"start", "record", "publish", "done"}, kind : Kinds]]
    BY DEF TypeInv, TypeOK
  <2>2. CASE Start(m)
    BY <2>1, <2>2 DEF Start
  <2>3. CASE StartFails(m) \/ Record(m)
    BY <2>1, <2>3 DEF StartFails, Record, HandlerMoves
  <2>4. CASE PublishInbound(m)
    BY <2>1, <2>4 DEF PublishInbound
  <2>5. QED
    BY <1>1, <2>2, <2>3, <2>4
<1>2. CASE UNCHANGED hpc
  BY <1>2
<1>3. QED
  BY <1>1, <1>2
     DEF Next, Handler, Answer, Worker, TakeReply, LoadAndDelete, StopRecorded, EditPlaceholder,
         Janitor, JanitorScans, JanitorEvicts, JanitorStops, Tick, vars, handlerVars

\* Recording puts the message into the map and leaves the other kinds alone.
LEMMA RecordEffect ==
  ASSUME TypeInv, NEW m \in Messages, Record(m)
  PROVE  /\ hpc[m].kind \in Kinds /\ hpc[m] = At("record", hpc[m].kind)
         /\ \A k \in Kinds : k = hpc[m].kind => Recorded(m, k)'
         /\ \A k \in Kinds : entry'[k] = IF k = hpc[m].kind THEN [owner |-> m, age |-> 0]
                                         ELSE entry[k]
         /\ [owner |-> m, age |-> 0] # None
         /\ \A o \in Messages, k \in Kinds : Recorded(o, k)' =>
               Recorded(o, k) \/ (o = m /\ k = hpc[m].kind)
<1> USE KindsFacts DEF At, Recorded
<1>1. hpc[m] \in [step : {"start", "record", "publish", "done"}, kind : Kinds]
  BY DEF TypeInv, TypeOK
<1>2. hpc[m].step = "record" /\ hpc[m] = At("record", hpc[m].kind)
  BY <1>1 DEF Record
<1>3. hpc' = [hpc EXCEPT ![m] = IF hpc[m].kind = "placeholder" THEN At("publish", "placeholder")
                                ELSE At("start", Following(hpc[m].kind))]
  BY DEF Record, HandlerMoves
<1>4. \A k \in Kinds : k = hpc[m].kind => Recorded(m, k)'
  BY <1>1, <1>3 DEF TypeInv, TypeOK
<1>5. \A k \in Kinds : entry'[k] = IF k = hpc[m].kind THEN [owner |-> m, age |-> 0] ELSE entry[k]
  BY DEF Record, TypeInv, TypeOK
<1>6. \A o \in Messages, k \in Kinds : Recorded(o, k)' =>
         Recorded(o, k) \/ (o = m /\ k = hpc[m].kind)
  BY <1>1, <1>2, <1>3 DEF TypeInv, TypeOK
<1>7. QED
  BY <1>1, <1>2, <1>4, <1>5, <1>6, FreshEntry, EntryNotNone

\* Older entries have the owners they had.
LEMMA TickEffect ==
  ASSUME TypeInv, Tick
  PROVE  \A k \in Kinds : /\ entry'[k] # None <=> entry[k] # None
                          /\ entry'[k].owner = entry[k].owner
<1>1. \A k \in Kinds : entry'[k] = Older(entry[k], k) /\ entry[k] \in Entry(k) \cup {None}
  BY DEF Tick, TypeInv, TypeOK
<1>2. QED
  BY <1>1, OlderEntry

-----------------------------------------------------------------------------
LEMMA InitInv == Init => IInv
<1> SUFFICES ASSUME Init PROVE IInv
  OBVIOUS
<1>1. TypeInv
  BY InitType
<1>2. Owners /\ OnePlace /\ Started /\ LostToAnother
  BY KindsFacts DEF Init, At, Owners, OnePlace, InMap, WithWorker, Started, LostToAnother
<1>3. QED
  BY <1>1, <1>2 DEF IInv

LEMMA OwnersStep == TypeInv /\ Owners /\ [Next]_vars => Owners'
<1> SUFFICES ASSUME TypeInv, Owners, [Next]_vars, NEW k \in Kinds
             PROVE  (/\ entry[k] # None => entry[k].owner \in Past(k)
                     /\ wpc = At("call", k) => wheld.owner \in Past(k)
                     /\ jpc.step # "scan" /\ jpc.kind = k => jheld.owner \in Past(k))'
  BY DEF Owners
<1> USE DEF handlerVars, workerVars, janitorVars
<1>1. /\ entry[k] # None => entry[k].owner \in Past(k)
      /\ wpc = At("call", k) => wheld.owner \in Past(k)
      /\ jpc.step # "scan" /\ jpc.kind = k => jheld.owner \in Past(k)
  BY DEF Owners
<1>2. Past(k) \subseteq Past(k)'
  BY RecordedStays DEF Past
<1>3. CASE UNCHANGED <<entry, wpc, wheld, jpc, jheld>>
  BY <1>1, <1>2, <1>3
<1>4. ASSUME NEW m \in Messages, Record(m)
      PROVE  (/\ entry[k] # None => entry[k].owner \in Past(k)
              /\ wpc = At("call", k) => wheld.owner \in Past(k)
              /\ jpc.step # "scan" /\ jpc.kind = k => jheld.owner \in Past(k))'
  <2>1. UNCHANGED <<wpc, wheld, jpc, jheld>>
    BY <1>4 DEF Record
  <2>2. CASE k = hpc[m].kind
    <3>1. entry'[k] = [owner |-> m, age |-> 0]
      BY <1>4, <2>2, RecordEffect
    <3>2. Recorded(m, k)'
      BY <1>4, <2>2, RecordEffect DEF Recorded
    <3>3. entry'[k].owner = m
      BY <3>1
    <3>4. QED
      BY <1>1, <1>2, <2>1, <3>2, <3>3 DEF Past
  <2>3. CASE k # hpc[m].kind
    <3>1. entry'[k] = entry[k]
      BY <1>4, <2>3, RecordEffect
    <3>2. QED
      BY <1>1, <1>2, <2>1, <3>1
  <2>4. QED
    BY <2>2, <2>3
<1>5. CASE TakeReply \/ StopRecorded \/ EditPlaceholder
  BY <1>1, <1>2, <1>5 DEF TakeReply, StopRecorded, EditPlaceholder, At
<1>6. CASE LoadAndDelete
  <2>1. entry'[k] # None => entry'[k] = entry[k]
    BY <1>6 DEF LoadAndDelete, TypeInv, TypeOK
  <2>2. wpc' = At("call", k) => wheld' = entry[k] /\ entry[k] # None
    BY <1>6 DEF LoadAndDelete, At
  <2>3. UNCHANGED <<jpc, jheld>>
    BY <1>6 DEF LoadAndDelete
  <2>4. QED
    BY <1>1, <1>2, <2>1, <2>2, <2>3
<1>7. CASE Janitor
  <2>1. entry'[k] # None => entry'[k] = entry[k]
    BY <1>7 DEF Janitor, JanitorScans, JanitorEvicts, JanitorStops, TypeInv, TypeOK
  <2>2. jpc'.step # "scan" => /\ jpc'.kind = jpc.kind
                              /\ \/ jheld' = entry[jpc.kind] /\ entry[jpc.kind] # None
                                 \/ jheld' = jheld /\ jpc.step # "scan"
    BY <1>7 DEF Janitor, JanitorScans, JanitorEvicts, JanitorStops, JanitorMoves, At
  <2>3. UNCHANGED <<wpc, wheld>>
    BY <1>7 DEF Janitor, JanitorScans, JanitorEvicts, JanitorStops
  <2>4. QED
    BY <1>1, <1>2, <2>1, <2>2, <2>3
<1>8. CASE Tick
  <2>1. UNCHANGED <<wpc, wheld, jpc, jheld>>
    BY <1>8 DEF Tick
  <2>2. QED
    BY <1>1, <1>2, <1>8, <2>1, TickEffect
<1>9. QED
  BY <1>3, <1>4, <1>5, <1>6, <1>7, <1>8
     DEF Next, Handler, Start, StartFails, PublishInbound, Answer, Worker, vars
-----------------------------------------------------------------------------
(* Placeholders.                                                           *)

\* What a worker takes out of the map of placeholders is no longer in it; what the janitor
\* takes out is nowhere.
LEMMA OnePlaceStep == TypeInv /\ Owners /\ OnePlace /\ [Next]_vars => OnePlace'
<1> SUFFICES ASSUME TypeInv, Owners, OnePlace, [Next]_vars, NEW m \in Messages
             PROVE  (/\ ~(InMap(m) /\ WithWorker(m))
                     /\ edits[m] # 0 => /\ edits[m] = 1 /\ Recorded(m, "placeholder")
                                        /\ ~InMap(m) /\ ~WithWorker(m))'
  BY DEF OnePlace
<1> DEFINE Sound == /\ ~(InMap(m) /\ WithWorker(m))
                    /\ edits[m] # 0 => /\ edits[m] = 1 /\ Recorded(m, "placeholder")
                                       /\ ~InMap(m) /\ ~WithWorker(m)
<1> USE KindsFacts DEF handlerVars, workerVars, janitorVars
<1>1. Sound
  BY DEF OnePlace
<1>2. Recorded(m, "placeholder") => Recorded(m, "placeholder")'
  BY RecordedStays
<1>3. InMap(m) \/ WithWorker(m) => Recorded(m, "placeholder")
  BY DEF Owners, Past, InMap, WithWorker
<1>4. CASE UNCHANGED edits /\ (InMap(m)' => InMap(m)) /\ (WithWorker(m)' => WithWorker(m))
  BY <1>1, <1>2, <1>4
<1>5. CASE UNCHANGED <<entry, wpc, wheld, edits>>
  BY <1>4, <1>5 DEF InMap, WithWorker
<1>6. ASSUME NEW o \in Messages, Record(o) PROVE Sound'
  <2>1. UNCHANGED <<wpc, wheld, edits>>
    BY <1>6 DEF Record
  <2>2. WithWorker(m)' <=> WithWorker(m)
    BY <2>1 DEF WithWorker
  <2>3. CASE o = m /\ hpc[o].kind = "placeholder"
    <3>1. ~Recorded(m, "placeholder")
      BY <1>6, <2>3 DEF Recorded, Record
    <3>2. edits[m] = 0 /\ ~WithWorker(m)
      BY <1>1, <1>3, <3>1
    <3>3. QED
      BY <2>1, <2>2, <3>2
  <2>4. CASE o # m \/ hpc[o].kind # "placeholder"
    <3>1. /\ hpc[o].kind = "placeholder" => entry'["placeholder"] = [owner |-> o, age |-> 0]
          /\ hpc[o].kind # "placeholder" => entry'["placeholder"] = entry["placeholder"]
      BY <1>6, RecordEffect
    <3>2. InMap(m)' => InMap(m)
      BY <2>4, <3>1 DEF InMap
    <3>3. QED
      BY <1>4, <2>1, <2>2, <3>2
  <2>5. QED
    BY <2>3, <2>4
<1>7. CASE LoadAndDelete
  <2>1. UNCHANGED <<edits, hpc>>
    BY <1>7 DEF LoadAndDelete
  <2>2. CASE wpc.kind = "placeholder"
    <3>1. ~InMap(m)'
      BY <1>7, <2>2 DEF LoadAndDelete, InMap, TypeInv, TypeOK
    <3>2. WithWorker(m)' => InMap(m)
      BY <1>7, <2>2 DEF LoadAndDelete, InMap, WithWorker, At
    <3>3. QED
      BY <1>1, <1>2, <2>1, <3>1, <3>2
  <2>3. CASE wpc.kind # "placeholder"
    <3>1. InMap(m)' <=> InMap(m)
      BY <1>7, <2>3 DEF LoadAndDelete, InMap, TypeInv, TypeOK
    <3>2. ~WithWorker(m)'
      BY <1>7, <2>3 DEF LoadAndDelete, WithWorker, At
    <3>3. QED
      BY <1>1, <1>2, <2>1, <3>1, <3>2
  <2>4. QED
    BY <2>2, <2>3
<1>8. CASE TakeReply \/ StopRecorded
  <2>1. ~WithWorker(m)' /\ UNCHANGED <<entry, edits>>
    BY <1>8 DEF TakeReply, StopRecorded, WithWorker, At
  <2>2. QED
    BY <1>4, <2>1 DEF InMap
<1>9. CASE EditPlaceholder
  <2>1. wpc = At("call", "placeholder") /\ wheld.owner \in Messages
    BY <1>9 DEF EditPlaceholder, TypeInv, TypeOK, Entry, At
  <2>2. ~WithWorker(m)' /\ UNCHANGED <<entry, hpc>>
    BY <1>9 DEF EditPlaceholder, WithWorker, At
  <2>3. InMap(m)' <=> InMap(m)
    BY <2>2 DEF InMap
  <2>4. CASE WithWorker(m)
    <3>1. edits[m] = 0 /\ ~InMap(m) /\ Recorded(m, "placeholder")'
      BY <1>1, <1>2, <1>3, <2>4
    <3>2. edits'[m] \in {0, 1}
      BY <1>9, <2>1, <3>1 DEF EditPlaceholder, TypeInv, TypeOK
    <3>3. QED
      BY <2>2, <2>3, <3>1, <3>2
  <2>5. CASE ~WithWorker(m)
    <3>1. edits'[m] = edits[m]
      BY <1>9, <2>1, <2>5 DEF EditPlaceholder, WithWorker, TypeInv, TypeOK
    <3>2. QED
      BY <1>1, <1>2, <2>2, <2>3, <3>1
  <2>6. QED
    BY <2>4, <2>5
<1>10. CASE Janitor
  <2>1. UNCHANGED <<wpc, wheld, edits>>
    BY <1>10 DEF Janitor, JanitorScans, JanitorEvicts, JanitorStops
  <2>2. InMap(m)' => InMap(m)
    BY <1>10 DEF Janitor, JanitorScans, JanitorEvicts, JanitorStops, InMap, TypeInv, TypeOK
  <2>3. QED
    BY <1>4, <2>1, <2>2 DEF WithWorker
<1>11. CASE Tick
  <2>1. UNCHANGED <<wpc, wheld, edits>>
    BY <1>11 DEF Tick
  <2>2. InMap(m)' <=> InMap(m)
    BY <1>11, TickEffect DEF InMap
  <2>3. QED
    BY <1>4, <2>1, <2>2 DEF WithWorker
<1>12. QED
  BY <1>5, <1>6, <1>7, <1>8, <1>9, <1>10, <1>11
     DEF Next, Handler, Start, StartFails, PublishInbound, Answer, Worker, vars

-----------------------------------------------------------------------------
(* Indicators.                                                             *)

LEMMA StartedStep == TypeInv /\ Started /\ [Next]_vars => Started'
<1> SUFFICES ASSUME TypeInv, Started, [Next]_vars, NEW k \in Indicators, NEW m \in shown'[k]
             PROVE  (hpc[m] = At("record", k) \/ Recorded(m, k))'
  BY DEF Started
<1> USE KindsFacts DEF handlerVars, workerVars, janitorVars
<1>1. /\ hpc \in [Messages -> [step : {"start", "record", "publish", "done"}, kind : Kinds]]
      /\ shown \in [Kinds -> SUBSET Messages]
  BY DEF TypeInv, TypeOK
<1>2. m \in Messages
  BY TypeStep DEF TypeInv, TypeOK
<1>3. m \in shown[k] => hpc[m] = At("record", k) \/ Recorded(m, k)
  BY DEF Started
<1>4. Recorded(m, k) => Recorded(m, k)'
  BY <1>2, RecordedStays
<1>5. CASE m \in shown[k] /\ hpc'[m] = hpc[m]
  BY <1>3, <1>5 DEF Recorded
<1>6. ASSUME NEW o \in Messages, Start(o)
      PROVE  (hpc[m] = At("record", k) \/ Recorded(m, k))'
  <2>1. CASE o = m
    <3>1. hpc[m].step = "start" /\ hpc'[m] = At("record", hpc[m].kind)
      BY <1>1, <1>2, <1>6, <2>1 DEF Start
    <3>2. CASE hpc[m].kind = k
      BY <3>1, <3>2
    <3>3. CASE hpc[m].kind # k
      <4>1. m \in shown[k]
        BY <1>1, <1>6, <2>1, <3>3 DEF Start
      <4>2. Recorded(m, k)
        BY <1>3, <3>1, <4>1 DEF At
      <4>3. QED
        BY <1>4, <4>2
    <3>4. QED
      BY <3>2, <3>3
  <2>2. CASE o # m
    <3>1. m \in shown[k] /\ hpc'[m] = hpc[m]
      BY <1>1, <1>2, <1>6, <2>2 DEF Start
    <3>2. QED
      BY <1>5, <3>1
  <2>3. QED
    BY <2>1, <2>2
<1>7. ASSUME NEW o \in Messages, StartFails(o) \/ Record(o) \/ PublishInbound(o)
      PROVE  (hpc[m] = At("record", k) \/ Recorded(m, k))'
  <2>1. m \in shown[k]
    BY <1>7 DEF StartFails, Record, PublishInbound
  <2>2. CASE Recorded(m, k)
    BY <1>4, <2>2
  <2>3. CASE hpc[m] = At("record", k) /\ o = m
    <3>1. Record(m)
      BY <1>7, <2>3 DEF StartFails, PublishInbound, At
    <3>2. hpc[m].kind = k
      BY <2>3 DEF At
    <3>3. QED
      BY <1>2, <3>1, <3>2, RecordEffect
  <2>4. CASE hpc[m] = At("record", k) /\ o # m
    <3>1. hpc'[m] = hpc[m]
      BY <1>1, <1>2, <1>7, <2>4 DEF StartFails, Record, PublishInbound, HandlerMoves
    <3>2. QED
      BY <1>5, <2>1, <3>1
  <2>5. QED
    BY <1>3, <2>1, <2>2, <2>3, <2>4
<1>8. CASE UNCHANGED hpc /\ m \in shown[k]
  BY <1>5, <1>8
<1>9. CASE StopRecorded \/ EditPlaceholder \/ JanitorStops
  <2>1. m \in shown[k]
    BY <1>1, <1>9 DEF StopRecorded, EditPlaceholder, JanitorStops, Off
  <2>2. QED
    BY <1>8, <1>9, <2>1 DEF StopRecorded, EditPlaceholder, JanitorStops
<1>10. QED
  BY <1>6, <1>7, <1>8, <1>9
     DEF Next, Handler, Answer, Worker, TakeReply, LoadAndDelete,
         Janitor, JanitorScans, JanitorEvicts, Tick, vars

\* A message comes to be recorded and shown by the call that records its stop function.
LEMMA BecomesRecorded ==
  ASSUME TypeInv, Started, [Next]_vars, NEW k \in Indicators, NEW m \in shown'[k], Recorded(m, k)'
  PROVE  /\ m \in Messages /\ m \in shown[k]
         /\ Recorded(m, k) \/ (Record(m) /\ hpc[m].kind = k)
<1> USE KindsFacts DEF handlerVars, workerVars, janitorVars
<1>1. /\ hpc \in [Messages -> [step : {"start", "record", "publish", "done"}, kind : Kinds]]
      /\ shown \in [Kinds -> SUBSET Messages]
  BY DEF TypeInv, TypeOK
<1>2. m \in Messages
  BY TypeStep DEF TypeInv, TypeOK
<1>3. m \in shown[k] => hpc[m] = At("record", k) \/ Recorded(m, k)
  BY DEF Started
<1>4. CASE UNCHANGED hpc /\ m \in shown[k]
  BY <1>2, <1>4 DEF Recorded
<1>5. ASSUME NEW o \in Messages, Start(o) PROVE m \in shown[k] /\ Recorded(m, k)
  <2>1. CASE o = m
    <3>1. hpc[m].step = "start" /\ hpc'[m] = At("record", hpc[m].kind)
      BY <1>1, <1>2, <1>5, <2>1 DEF Start
    <3>2. hpc[m].kind # k /\ Recorded(m, k)
      BY <3>1 DEF Recorded, At
    <3>3. m \in shown[k]
      BY <1>1, <1>5, <2>1, <3>2 DEF Start
    <3>4. QED
      BY <3>2, <3>3
  <2>2. CASE o # m
    BY <1>1, <1>2, <1>5, <2>2 DEF Start, Recorded
  <2>3. QED
    BY <2>1, <2>2
<1>6. ASSUME NEW o \in Messages, StartFails(o) \/ Record(o) \/ PublishInbound(o)
      PROVE  m \in shown[k] /\ (Recorded(m, k) \/ (Record(m) /\ hpc[m].kind = k))
  <2>1. m \in shown[k]
    BY <1>6 DEF StartFails, Record, PublishInbound
  <2>2. CASE hpc[m] = At("record", k) /\ o = m
    BY <1>6, <2>1, <2>2 DEF StartFails, PublishInbound, At
  <2>3. CASE hpc[m] = At("record", k) /\ o # m
    <3>1. hpc'[m] = hpc[m]
      BY <1>1, <1>2, <1>6, <2>3 DEF StartFails, Record, PublishInbound, HandlerMoves
    <3>2. QED
      BY <2>1, <3>1 DEF Recorded
  <2>4. QED
    BY <1>3, <2>1, <2>2, <2>3
<1>7. CASE StopRecorded \/ EditPlaceholder \/ JanitorStops
  <2>1. m \in shown[k]
    BY <1>1, <1>7 DEF StopRecorded, EditPlaceholder, JanitorStops, Off
  <2>2. QED
    BY <1>4, <1>7, <2>1 DEF StopRecorded, EditPlaceholder, JanitorStops
<1>8. QED
  BY <1>2, <1>4, <1>5, <1>6, <1>7
     DEF Next, Handler, Answer, Worker, TakeReply, LoadAndDelete,
         Janitor, JanitorScans, JanitorEvicts, Tick, vars

\* Whoever holds a stop function, a step hands it on, calls it, or has overwritten it with
\* that of another message.
LEMMA StoppableStep ==
  ASSUME TypeInv, Owners, [Next]_vars, NEW k \in Indicators, NEW m \in shown'[k], m \in Messages,
         Recorded(m, k), Stoppable(m, k)
  PROVE  Stoppable(m, k)' \/ Past(k)' \ {m} # {}
<1> USE KindsFacts DEF handlerVars, workerVars, janitorVars
<1>1. entry = [i \in Kinds |-> entry[i]] /\ shown \in [Kinds -> SUBSET Messages]
  BY DEF TypeInv, TypeOK
<1>2. CASE UNCHANGED <<entry, wpc, wheld, jpc, jheld>>
  BY <1>2 DEF Stoppable
<1>3. ASSUME NEW o \in Messages, Record(o) PROVE Stoppable(m, k)' \/ Past(k)' \ {m} # {}
  <2>1. UNCHANGED <<wpc, wheld, jpc, jheld>>
    BY <1>3 DEF Record
  <2>2. CASE hpc[o].kind = k
    <3>1. o # m
      BY <1>3, <2>2 DEF Recorded, Record
    <3>2. o \in Past(k)'
      BY <1>3, <2>2, RecordEffect DEF Past, Recorded
    <3>3. QED
      BY <3>1, <3>2
  <2>3. CASE hpc[o].kind # k
    <3>1. entry'[k] = entry[k]
      BY <1>3, <2>3, RecordEffect
    <3>2. QED
      BY <2>1, <3>1 DEF Stoppable
  <2>4. QED
    BY <2>2, <2>3
<1>4. CASE TakeReply
  BY <1>4 DEF TakeReply, Stoppable, At
<1>5. CASE LoadAndDelete
  BY <1>1, <1>5 DEF LoadAndDelete, Stoppable, At
<1>6. CASE StopRecorded
  <2>1. ~(wpc = At("call", k) /\ wheld.owner = m)
    BY <1>1, <1>6 DEF StopRecorded, Off, At
  <2>2. QED
    BY <1>6, <2>1 DEF StopRecorded, Stoppable
<1>7. CASE EditPlaceholder
  BY <1>7 DEF EditPlaceholder, Stoppable, At
<1>8. CASE JanitorScans
  BY <1>8 DEF JanitorScans, JanitorMoves, Stoppable, At
<1>9. CASE JanitorEvicts
  <2>1. UNCHANGED <<wpc, wheld>> /\ jpc # At("call", k)
    BY <1>9 DEF JanitorEvicts, At
  <2>2. CASE entry[k] # None /\ entry[k].owner = m /\ jpc.kind = k
    <3>1. jpc' = At("call", k) /\ jheld' = jheld
      BY <1>9, <2>2 DEF JanitorEvicts
    <3>2. jheld.owner \in Past(k)'
      BY <1>9, <2>2, RecordedStays DEF Owners, JanitorEvicts, Past
    <3>3. QED
      BY <3>1, <3>2 DEF Stoppable
  <2>3. CASE jpc.kind # k
    BY <1>1, <1>9, <2>1, <2>3 DEF JanitorEvicts, Stoppable
  <2>4. CASE wpc = At("call", k) /\ wheld.owner = m
    BY <2>1, <2>4 DEF Stoppable
  <2>5. QED
    BY <2>1, <2>2, <2>3, <2>4 DEF Stoppable
<1>10. CASE JanitorStops
  <2>1. ~(jpc = At("call", k) /\ jheld.owner = m)
    BY <1>1, <1>10 DEF JanitorStops, Off, At
  <2>2. QED
    BY <1>10, <2>1 DEF JanitorStops, Stoppable
<1>11. CASE Tick
  <2>1. UNCHANGED <<wpc, wheld, jpc, jheld>>
    BY <1>11 DEF Tick
  <2>2. QED
    BY <1>11, <2>1, TickEffect DEF Stoppable
<1>12. QED
  BY <1>2, <1>3, <1>4, <1>5, <1>6, <1>7, <1>8, <1>9, <1>10, <1>11
     DEF Next, Handler, Start, StartFails, PublishInbound, Answer, Worker, Janitor, vars

LEMMA LostStep ==
  TypeInv /\ Owners /\ Started /\ LostToAnother /\ [Next]_vars => LostToAnother'
<1> SUFFICES ASSUME TypeInv, Owners, Started, LostToAnother, [Next]_vars,
                    NEW k \in Indicators, NEW m \in shown'[k], Recorded(m, k)'
             PROVE  (Stoppable(m, k) \/ \E o \in Messages \ {m} : Recorded(o, k))'
  BY DEF LostToAnother
<1> USE KindsFacts
<1>1. /\ m \in Messages /\ m \in shown[k]
      /\ Recorded(m, k) \/ (Record(m) /\ hpc[m].kind = k)
  BY BecomesRecorded
<1>2. CASE Record(m) /\ hpc[m].kind = k
  <2>1. entry'[k] = [owner |-> m, age |-> 0] /\ entry'[k] # None
    BY <1>1, <1>2, RecordEffect
  <2>2. entry'[k].owner = m
    BY <2>1
  <2>3. QED
    BY <2>1, <2>2 DEF Stoppable
<1>3. ASSUME NEW o \in Messages \ {m}, Recorded(o, k)
      PROVE  (\E p \in Messages \ {m} : Recorded(p, k))'
  BY <1>3, RecordedStays DEF Recorded
<1>4. CASE Recorded(m, k) /\ Stoppable(m, k)
  <2>1. Stoppable(m, k)' \/ Past(k)' \ {m} # {}
    BY <1>1, <1>4, StoppableStep
  <2>2. Past(k)' \ {m} # {} => (\E o \in Messages \ {m} : Recorded(o, k))'
    BY DEF Past, Recorded
  <2>3. QED
    BY <2>1, <2>2
<1>5. QED
  BY <1>1, <1>2, <1>3, <1>4 DEF LostToAnother

-----------------------------------------------------------------------------
(* The theorems.                                                           *)

LEMMA Inductive == Spec => []IInv
<1>1. IInv /\ [Next]_vars => IInv'
  BY TypeStep, OwnersStep, OnePlaceStep, StartedStep, LostStep DEF IInv
<1>2. QED
  BY <1>1, InitInv, PTL DEF Spec

\* The types; and every stop function that is called was loaded from a map.
THEOREM TypeCorrect == Spec => []TypeOK
<1>1. IInv => TypeOK
  BY DEF IInv, TypeInv
<1>2. QED
  BY <1>1, Inductive, PTL

\* No placeholder is edited into two replies, however the worker, the janitor and the
\* goroutines of the messages interleave.
THEOREM OneReplyEach == Spec => []EditedOnce
<1>1. ASSUME IInv, NEW m \in Messages PROVE edits[m] <= 1
  <2>1. edits[m] \in Nat /\ (edits[m] # 0 => edits[m] = 1)
    BY <1>1 DEF IInv, TypeInv, TypeOK, OnePlace
  <2>2. QED
    BY <2>1
<1>2. IInv => EditedOnce
  BY <1>1 DEF EditedOnce
<1>3. QED
  BY <1>2, Inductive, PTL

\* As long as only one message of a chat is recorded, its stop function is not lost.
THEOREM NotLostAlone == Spec => []LostToAnother
<1>1. IInv => LostToAnother
  BY DEF IInv
<1>2. QED
  BY <1>1, Inductive, PTL
=============================================================================
