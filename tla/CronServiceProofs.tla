------------------------- MODULE CronServiceProofs -------------------------
(***************************************************************************)
(* Proofs about CronService, for any jobs, schedules and bounds.  Each of  *)
(* the three safety properties is strengthened by what it says of the      *)
(* copies that AddJob returned, of the file, and of a process that is      *)
(* down (OffInv, OnceInv, StuckInv), and is then kept by every step.  The  *)
(* ...Effect lemmas say what a step does to single jobs.                   *)
(***************************************************************************)
EXTENDS CronService, TLAPS

\* The command line works on one of the jobs.
TypeInv == TypeOK /\ (cli # NoCommand => cli.job \in Jobs)

\* A process that is down holds nothing, and nobody knows of a job before its id is drawn.
Control ==
    /\ gateway = "down" => /\ DOMAIN store = {} /\ due = {} /\ current = NoJob
                           /\ \A j \in Jobs : held[j] = NoCopy
    /\ DOMAIN store \cup DOMAIN disk \cup Claimed \cup off \subseteq drawn
    /\ \A j \in Jobs : held[j] # NoCopy => j \in drawn
    /\ cli # NoCommand => cli.job \in drawn /\ DOMAIN cli.jobs \subseteq drawn

\* What is switched off is off in memory and in the file.
OffInv == OffStaysOff /\ \A j \in off : ~On(store, j) /\ ~On(disk, j)

\* A one-shot job that has run is not due, and nothing can make it due again: its time
\* has passed, and no copy with its next run is left that could be stored.
OnceInv ==
    \A j \in Jobs : Kind[j] = "at" =>
        /\ j \in DOMAIN store /\ store[j].next # Never => store[j].next = left[j]
        /\ held[j].next # Never => held[j].next = left[j]
        /\ j \in Claimed => left[j] = 0
        /\ runs[j] <= 1
        /\ runs[j] # 0 => /\ j \in drawn /\ left[j] = 0 /\ j \notin due
                         /\ \/ j = current
                            \/ j \notin DOMAIN store
                            \/ store[j].next = Never /\ held[j] = NoCopy

\* Nor does a copy that AddJob returned get a job stuck.
StuckInv ==
    /\ NoJobStuck
    /\ \A j \in Jobs : held[j].enabled /\ held[j].next = Never => NextRuns(j, left) = {Never}

-----------------------------------------------------------------------------
\* What the helpers return.
LEMMA NextRunsType ==
  ASSUME NEW j \in Jobs, NEW l \in [Jobs -> Nat]
  PROVE  NextRuns(j, l) \subseteq Moments /\ (Never \in NextRuns(j, l) => NextRuns(j, l) = {Never})
<1>1. Kind[j] \in {"at", "every", "cron"} /\ Delay[j] \in Nat /\ l[j] \in Nat /\ Never \notin Nat
  BY ConstantsAssumption DEF ConstantsAssumption
<1>2. CASE Kind[j] = "at"
  BY <1>1, <1>2 DEF NextRuns, Moments
<1>3. CASE Kind[j] = "every"
  BY <1>1, <1>3 DEF NextRuns, Moments
<1>4. CASE Kind[j] = "cron"
  BY <1>1, <1>4 DEF NextRuns, Moments
<1>5. QED
  BY <1>1, <1>2, <1>3, <1>4

\* A time comes nearer, and is never one only if it was never one before.
LEMMA EarlierType ==
  ASSUME NEW m \in Moments
  PROVE  /\ Earlier(m) \in Moments
         /\ Earlier(m) = Never <=> m = Never
         /\ m \in Nat => Earlier(m) \in Nat
         /\ m = 0 => Earlier(m) = 0
BY ConstantsAssumption DEF ConstantsAssumption, Earlier, Moments

\* A store of jobs is well typed, and so is its file, when it is stored.
LEMMA StoresType ==
  ASSUME NEW s, DOMAIN s \subseteq Jobs, \A j \in DOMAIN s : s[j] \in Job, Stores(s)
  PROVE  /\ DOMAIN store' \subseteq Jobs /\ \A j \in DOMAIN store' : store'[j] \in Job
         /\ DOMAIN disk' \subseteq Jobs /\ \A j \in DOMAIN disk' : disk'[j] \in [enabled : BOOLEAN]
<1>1. store' = s /\ disk' = [j \in DOMAIN s |-> [enabled |-> s[j].enabled]]
  BY DEF Stores, Saved
<1>2. \A j \in DOMAIN s : s[j].enabled \in BOOLEAN
  BY DEF Job
<1>3. QED
  BY <1>1, <1>2

-----------------------------------------------------------------------------
LEMMA InitType == Init => TypeInv
BY ConstantsAssumption DEF ConstantsAssumption, Init, TypeInv, TypeOK, NoJobs, NoCopy, NoCommand, Job, Moments

\* The gateway starts, stops and ends.
LEMMA GatewayType ==
  ASSUME TypeInv, Start \/ Stop \/ Ends
  PROVE  TypeInv'
<1>1. CASE Start
  <2>1. PICK n \in [DOMAIN disk -> UNION {NextRuns(j, left) : j \in DOMAIN disk}] :
            Stores([j \in DOMAIN disk |-> [enabled |-> disk[j].enabled, next |-> n[j]]])
    BY <1>1 DEF Start
  <2>2. \A j \in DOMAIN disk : n[j] \in Moments /\ disk[j].enabled \in BOOLEAN /\ j \in Jobs
    BY <2>1, NextRunsType DEF TypeInv, TypeOK
  <2>3. \A j \in DOMAIN disk : [enabled |-> disk[j].enabled, next |-> n[j]] \in Job
    BY <2>2 DEF Job
  <2>4. /\ DOMAIN store' \subseteq Jobs /\ \A j \in DOMAIN store' : store'[j] \in Job
        /\ DOMAIN disk' \subseteq Jobs /\ \A j \in DOMAIN disk' : disk'[j] \in [enabled : BOOLEAN]
    BY <2>1, <2>2, <2>3, StoresType
  <2>5. QED
    BY <1>1, <2>4 DEF Start, TypeInv, TypeOK, loop, history, counts
<1>2. CASE Stop
  BY <1>2 DEF Stop, TypeInv, TypeOK, loop, history, counts
<1>3. CASE Ends
  BY <1>3, ConstantsAssumption DEF ConstantsAssumption, Ends, TypeInv, TypeOK, NoJobs, NoCopy, Job, Moments
<1>4. QED
  BY <1>1, <1>2, <1>3

\* The run loop.
LEMMA LoopType ==
  ASSUME TypeInv, Loop
  PROVE  TypeInv'
<1>1. CASE CheckJobs
  <2> DEFINE s == [j \in DOMAIN store |->
                      IF j \in due' THEN [store[j] EXCEPT !.next = Never] ELSE store[j]]
  <2>1. Stores(s) /\ DOMAIN s = DOMAIN store
    BY <1>1 DEF CheckJobs
  <2>2. \A j \in DOMAIN s : s[j] \in Job
    BY DEF TypeInv, TypeOK, Job, Moments
  <2>3. due' \subseteq Jobs /\ current' = NoJob
    BY <1>1, <2>1, ConstantsAssumption DEF ConstantsAssumption, CheckJobs, Claimed, TypeInv, TypeOK, loop
  <2>4. /\ DOMAIN store' \subseteq Jobs /\ \A j \in DOMAIN store' : store'[j] \in Job
        /\ DOMAIN disk' \subseteq Jobs /\ \A j \in DOMAIN disk' : disk'[j] \in [enabled : BOOLEAN]
    BY <2>1, <2>2, StoresType DEF TypeInv, TypeOK
  <2>5. QED
    BY <1>1, <2>3, <2>4, ConstantsAssumption
       DEF ConstantsAssumption, CheckJobs, TypeInv, TypeOK, loop, history, counts
<1>2. ASSUME NEW j \in Jobs, Execute(j)
      PROVE  TypeInv'
  BY <1>2 DEF Execute, TypeInv, TypeOK, counts
<1>3. CASE Finish
  <2>1. /\ DOMAIN store' \subseteq Jobs /\ \A j \in DOMAIN store' : store'[j] \in Job
        /\ DOMAIN disk' \subseteq Jobs /\ \A j \in DOMAIN disk' : disk'[j] \in [enabled : BOOLEAN]
    <3>1. CASE UNCHANGED <<store, disk>>
      BY <3>1 DEF TypeInv, TypeOK
    <3>2. CASE Stores(Without(store, current))
      BY <3>2, StoresType DEF Without, TypeInv, TypeOK
    <3>3. CASE /\ current \in DOMAIN store
               /\ \E n \in NextRuns(current, left) : Stores([store EXCEPT ![current].next = n])
      <4>1. PICK n \in NextRuns(current, left) : Stores([store EXCEPT ![current].next = n])
        BY <3>3
      <4>2. n \in Moments /\ \A j \in DOMAIN store : store[j] \in Job
        BY <3>3, <4>1, NextRunsType DEF TypeInv, TypeOK
      <4>3. \A j \in DOMAIN store : [store EXCEPT ![current].next = n][j] \in Job
        BY <4>2 DEF Job
      <4>4. QED
        BY <4>1, <4>3, StoresType DEF TypeInv, TypeOK
    <3>4. QED
      BY <1>3, <3>1, <3>2, <3>3, Zenon DEF Finish
  <2>2. /\ current' = NoJob /\ late' = late \ {current}
        /\ UNCHANGED <<gateway, left, held, due, cli, drawn, runs, off, counts>>
    BY <1>3, Zenon DEF Finish
  <2>3. QED
    BY <2>1, <2>2, ConstantsAssumption DEF ConstantsAssumption, TypeInv, TypeOK, counts
<1>4. QED
  BY <1>1, <1>2, <1>3 DEF Loop

\* The tool's operations.
LEMMA ToolType ==
  ASSUME TypeInv, Tool
  PROVE  TypeInv'
<1>1. ASSUME NEW j \in Jobs, NEW command \in BOOLEAN, Add(j, command)
      PROVE  TypeInv'
  <2>1. /\ left' \in [Jobs -> Nat] /\ drawn' \subseteq Jobs
        /\ UNCHANGED <<gateway, loop, cli, runs, off, late, counts>>
    BY <1>1, ConstantsAssumption DEF ConstantsAssumption, Add, Draw, TypeInv, TypeOK
  <2>2. PICK n \in NextRuns(j, left') :
            /\ Stores(With(store, j, [enabled |-> TRUE, next |-> n]))
            /\ held' = IF command THEN [held EXCEPT ![j] = [enabled |-> TRUE, next |-> n]] ELSE held
    BY <1>1, Zenon DEF Add
  <2>3. [enabled |-> TRUE, next |-> n] \in Job
    BY <2>1, <2>2, NextRunsType DEF Job
  <2>4. held' \in [Jobs -> Job]
    BY <2>2, <2>3 DEF TypeInv, TypeOK
  <2>5. /\ DOMAIN store' \subseteq Jobs /\ \A k \in DOMAIN store' : store'[k] \in Job
        /\ DOMAIN disk' \subseteq Jobs /\ \A k \in DOMAIN disk' : disk'[k] \in [enabled : BOOLEAN]
    BY <2>2, <2>3, StoresType DEF With, TypeInv, TypeOK
  <2>6. QED
    BY <2>1, <2>4, <2>5 DEF TypeInv, TypeOK, loop, counts
<1>2. ASSUME NEW j \in Jobs, Update(j)
      PROVE  TypeInv'
  <2>1. /\ DOMAIN store' \subseteq Jobs /\ \A k \in DOMAIN store' : store'[k] \in Job
        /\ DOMAIN disk' \subseteq Jobs /\ \A k \in DOMAIN disk' : disk'[k] \in [enabled : BOOLEAN]
    <3>1. CASE UNCHANGED <<store, disk>>
      BY <3>1 DEF TypeInv, TypeOK
    <3>2. CASE Stores(With(store, j, held[j]))
      BY <3>2, StoresType DEF With, TypeInv, TypeOK
    <3>3. QED
      BY <1>2, <3>1, <3>2 DEF Update
  <2>2. /\ held' \in [Jobs -> Job] /\ off' \subseteq Jobs /\ late' \subseteq Jobs
        /\ UNCHANGED <<gateway, left, loop, cli, drawn, runs, counts>>
    BY <1>2, ConstantsAssumption
       DEF ConstantsAssumption, Update, SwitchOn, NoCopy, Job, Moments, TypeInv, TypeOK
  <2>3. QED
    BY <2>1, <2>2 DEF TypeInv, TypeOK, loop, counts
<1>3. ASSUME NEW j \in Jobs, NEW n \in Moments, NEW b \in BOOLEAN, ops < MaxOps, ops' = ops + 1,
             \/ Stores(Without(store, j))
             \/ Stores([store EXCEPT ![j] = [enabled |-> b, next |-> n]]),
             SwitchOff(j) \/ SwitchOn(j),
             UNCHANGED <<gateway, left, held, loop, cli, drawn, runs, commands, crashes>>
      PROVE  TypeInv'
  <2>1. /\ DOMAIN store' \subseteq Jobs /\ \A k \in DOMAIN store' : store'[k] \in Job
        /\ DOMAIN disk' \subseteq Jobs /\ \A k \in DOMAIN disk' : disk'[k] \in [enabled : BOOLEAN]
    <3>1. CASE Stores(Without(store, j))
      BY <3>1, StoresType DEF Without, TypeInv, TypeOK
    <3>2. CASE Stores([store EXCEPT ![j] = [enabled |-> b, next |-> n]])
      BY <1>3, <3>2, StoresType DEF Job, TypeInv, TypeOK
    <3>3. QED
      BY <1>3, <3>1, <3>2
  <2>2. off' \subseteq Jobs /\ late' \subseteq Jobs
    BY <1>3 DEF SwitchOff, SwitchOn, TypeInv, TypeOK
  <2>3. ops' \in 0..MaxOps
    BY <1>3, ConstantsAssumption DEF ConstantsAssumption, TypeInv, TypeOK
  <2>4. QED
    BY <1>3, <2>1, <2>2, <2>3 DEF TypeInv, TypeOK, loop
<1>4. ASSUME NEW j \in Jobs, Remove(j) \/ Enable(j) \/ Disable(j)
      PROVE  TypeInv'
  <2>1. Never \in Moments /\ NextRuns(j, left) \subseteq Moments
    BY NextRunsType DEF Moments, TypeInv, TypeOK
  <2>2. CASE Remove(j)
    BY <1>3, <2>1, <2>2 DEF Remove
  <2>3. CASE Enable(j)
    BY <1>3, <2>1, <2>3 DEF Enable
  <2>4. CASE Disable(j)
    BY <1>3, <2>1, <2>4 DEF Disable
  <2>5. QED
    BY <1>4, <2>2, <2>3, <2>4
<1>5. QED
  BY <1>1, <1>2, <1>4 DEF Tool

\* The command line, and time.
LEMMA CommandType ==
  ASSUME TypeInv, CommandLine
  PROVE  TypeInv'
<1>1. ASSUME NEW op \in Commands, NEW j \in Jobs, CommandLoads(op, j)
      PROVE  TypeInv'
  BY <1>1, ConstantsAssumption
     DEF ConstantsAssumption, CommandLoads, Draw, TypeInv, TypeOK, loop, Commands
<1>2. CASE CommandSaves
  <2>1. /\ DOMAIN disk' \subseteq Jobs
        /\ \A k \in DOMAIN disk' : disk'[k] \in [enabled : BOOLEAN]
    BY <1>2 DEF CommandSaves, Changed, With, Without, TypeInv, TypeOK
  <2>2. off' \subseteq Jobs
    BY <1>2 DEF CommandSaves, TypeInv, TypeOK
  <2>3. cli' = NoCommand
    BY <1>2 DEF CommandSaves
  <2>4. QED
    BY <1>2, <2>1, <2>2, <2>3 DEF CommandSaves, NoCommand, NoJobs, TypeInv, TypeOK, loop, counts
<1>3. QED
  BY <1>1, <1>2 DEF CommandLine

LEMMA TickType ==
  ASSUME TypeInv, Tick
  PROVE  TypeInv'
<1>1. left' \in [Jobs -> Nat]
  BY EarlierType DEF Tick, Moments, TypeInv, TypeOK
<1>2. held' \in [Jobs -> Job]
  BY EarlierType DEF Tick, Job, TypeInv, TypeOK
<1>3. DOMAIN store' \subseteq Jobs /\ \A j \in DOMAIN store' : store'[j] \in Job
  BY EarlierType DEF Tick, Job, TypeInv, TypeOK
<1>4. QED
  BY <1>1, <1>2, <1>3 DEF Tick, TypeInv, TypeOK, loop, history, counts

\* Every step keeps the types.
LEMMA NextType == TypeInv /\ [Next]_vars => TypeInv'
<1>1. TypeInv /\ UNCHANGED vars => TypeInv'
  BY DEF vars, loop, history, counts, TypeInv, TypeOK
<1>2. QED
  BY <1>1, GatewayType, LoopType, ToolType, CommandType, TickType DEF Next

-----------------------------------------------------------------------------
(* What the steps do to single jobs.                                       *)

LEMMA StoresEffect ==
  ASSUME NEW s, Stores(s)
  PROVE  /\ store' = s /\ DOMAIN disk' = DOMAIN s
         /\ \A j \in DOMAIN s : disk'[j].enabled = s[j].enabled
BY DEF Stores, Saved

LEMMA WithEffect ==
  ASSUME NEW s, NEW j, NEW r
  PROVE  /\ DOMAIN With(s, j, r) = DOMAIN s \cup {j}
         /\ With(s, j, r)[j] = r
         /\ \A k \in DOMAIN s \ {j} : With(s, j, r)[k] = s[k]
BY DEF With

LEMMA WithNow ==
  ASSUME NEW j, NEW r, Stores(With(store, j, r))
  PROVE  /\ DOMAIN store' = DOMAIN store \cup {j} /\ store'[j] = r
         /\ \A k \in DOMAIN store \ {j} : store'[k] = store[k]
<1>1. store' = [k \in DOMAIN store \cup {j} |-> IF k = j THEN r ELSE store[k]]
  BY DEF Stores, With
<1>2. QED
  BY <1>1

LEMMA WithoutNow ==
  ASSUME NEW j, Stores(Without(store, j))
  PROVE  /\ DOMAIN store' = DOMAIN store \ {j}
         /\ \A k \in DOMAIN store' : store'[k] = store[k]
<1>1. store' = [k \in DOMAIN store \ {j} |-> store[k]]
  BY DEF Stores, Without
<1>2. QED
  BY <1>1

LEMMA CheckEffect ==
  ASSUME TypeInv, CheckJobs
  PROVE  /\ gateway = "up" /\ due = {} /\ current = NoJob /\ Claimed = {}
         /\ due' = {j \in DOMAIN store : store[j].enabled /\ store[j].next = 0}
         /\ Claimed' = due'
         /\ DOMAIN store' = DOMAIN store /\ DOMAIN disk' = DOMAIN store
         /\ \A j \in DOMAIN store : /\ store'[j].enabled = store[j].enabled
                                  /\ disk'[j].enabled = store[j].enabled
                                  /\ store'[j].next = IF j \in due' THEN Never ELSE store[j].next
         /\ UNCHANGED <<gateway, left, held, current, cli, history, counts>>
<1> DEFINE s == [j \in DOMAIN store |->
                    IF j \in due' THEN [store[j] EXCEPT !.next = Never] ELSE store[j]]
<1>1. Stores(s) /\ DOMAIN s = DOMAIN store
  BY DEF CheckJobs
<1>2. \A j \in DOMAIN store : store[j] \in Job
  BY DEF TypeInv, TypeOK
<1>3. \A j \in DOMAIN store : /\ s[j].enabled = store[j].enabled
                            /\ s[j].next = IF j \in due' THEN Never ELSE store[j].next
  BY <1>2 DEF Job
<1>4. /\ store' = s /\ DOMAIN disk' = DOMAIN store
      /\ \A j \in DOMAIN store : disk'[j].enabled = s[j].enabled
  BY <1>1, StoresEffect
<1>5. /\ gateway = "up" /\ due = {} /\ current = NoJob /\ Claimed = {}
      /\ due' = {j \in DOMAIN store : store[j].enabled /\ store[j].next = 0}
      /\ UNCHANGED <<gateway, left, held, current, cli, history, counts>>
  BY ConstantsAssumption DEF CheckJobs, Claimed
<1>6. Claimed' = due'
  BY <1>5 DEF Claimed
<1>7. QED
  BY <1>1, <1>3, <1>4, <1>5, <1>6

LEMMA FinishEffect ==
  ASSUME TypeInv, Finish
  PROVE  /\ current # NoJob /\ current' = NoJob /\ late' = late \ {current}
         /\ Claimed = due \cup {current} /\ Claimed' = due /\ current \notin due
         /\ UNCHANGED <<gateway, left, held, due, cli, drawn, runs, off, counts>>
         /\ DOMAIN store' \subseteq DOMAIN store
         /\ \A j \in DOMAIN store' : store'[j].enabled = store[j].enabled
         /\ DOMAIN disk' = DOMAIN store' \/ UNCHANGED disk
         /\ ~UNCHANGED disk => \A j \in DOMAIN disk' : disk'[j].enabled = store'[j].enabled
         /\ \A j \in DOMAIN store' \ {current} : store'[j] = store[j]
         /\ current \in DOMAIN store' =>
                Kind[current] # "at" /\ store'[current].next \in NextRuns(current, left)
<1>1. /\ current # NoJob /\ current' = NoJob /\ late' = late \ {current}
      /\ UNCHANGED <<gateway, left, held, due, cli, drawn, runs, off, counts>>
  BY Zenon DEF Finish
<1>2. Claimed = due \cup {current} /\ Claimed' = due /\ current \notin due
  BY <1>1, ConstantsAssumption DEF ConstantsAssumption, Claimed, TypeInv, TypeOK
<1>3. CASE current \notin DOMAIN store /\ UNCHANGED <<store, disk>>
  BY <1>1, <1>2, <1>3
<1>4. CASE Stores(Without(store, current))
  BY <1>1, <1>2, <1>4, StoresEffect DEF Without
<1>5. CASE /\ current \in DOMAIN store /\ Kind[current] # "at"
           /\ \E n \in NextRuns(current, left) : Stores([store EXCEPT ![current].next = n])
  <2>1. PICK n \in NextRuns(current, left) : Stores([store EXCEPT ![current].next = n])
    BY <1>5
  <2> DEFINE s == [store EXCEPT ![current].next = n]
  <2>2. DOMAIN s = DOMAIN store /\ \A j \in DOMAIN store \ {current} : s[j] = store[j]
    OBVIOUS
  <2>3. store[current] \in Job
    BY <1>5 DEF TypeInv, TypeOK
  <2>4. s[current].next = n /\ s[current].enabled = store[current].enabled
    BY <1>5, <2>3 DEF Job
  <2>5. /\ store' = s /\ DOMAIN disk' = DOMAIN s
        /\ \A j \in DOMAIN s : disk'[j].enabled = s[j].enabled
    BY <2>1, StoresEffect
  <2> HIDE DEF s
  <2>6. QED
    BY <1>1, <1>2, <1>5, <2>1, <2>2, <2>4, <2>5
<1>6. QED
  BY <1>3, <1>4, <1>5, Zenon DEF Finish

LEMMA UpdateEffect ==
  ASSUME TypeInv, NEW j \in Jobs, Update(j)
  PROVE  /\ held[j] # NoCopy /\ held' = [held EXCEPT ![j] = NoCopy]
         /\ DOMAIN store' = DOMAIN store
         /\ \A k \in DOMAIN store : store'[k] = IF k = j THEN held[j] ELSE store[k]
         /\ \/ /\ DOMAIN disk' = DOMAIN store
               /\ \A k \in DOMAIN store : disk'[k].enabled = store'[k].enabled
               /\ off' = off \ {j} /\ late' = late \ {j}
            \/ j \notin DOMAIN store /\ UNCHANGED <<store, disk, off, late>>
<1>1. CASE j \in DOMAIN store
  <2>1. Stores(With(store, j, held[j])) /\ off' = off \ {j} /\ late' = late \ {j}
    BY <1>1 DEF Update, SwitchOn
  <2>2. DOMAIN With(store, j, held[j]) = DOMAIN store
    BY <1>1 DEF With
  <2>3. \A k \in DOMAIN store : With(store, j, held[j])[k] = IF k = j THEN held[j] ELSE store[k]
    BY DEF With
  <2>4. QED
    BY <2>1, <2>2, <2>3, StoresEffect DEF Update
<1>2. CASE j \notin DOMAIN store
  BY <1>2 DEF Update
<1>3. QED
  BY <1>1, <1>2

\* Claimed changes as due and current do.
LEMMA ExecuteEffect ==
  ASSUME TypeInv, NEW j \in Jobs, Execute(j)
  PROVE  /\ j \in Claimed /\ Claimed = due
         /\ Claimed' = IF j \in DOMAIN store THEN due ELSE due \ {j}
BY ConstantsAssumption DEF ConstantsAssumption, Execute, Claimed, TypeInv, TypeOK

-----------------------------------------------------------------------------
LEMMA InitControl == Init => Control
BY DEF Init, Control, Claimed, NoJobs, NoCommand

LEMMA ControlKept == TypeInv /\ Control /\ [Next]_vars => Control'
<1> SUFFICES ASSUME TypeInv, Control, [Next]_vars
             PROVE  Control'
  OBVIOUS
<1>1. CASE Start
  <2>1. DOMAIN store' = DOMAIN disk /\ DOMAIN disk' = DOMAIN disk
    BY <1>1, StoresEffect DEF Start
  <2>2. QED
    BY <1>1, <2>1 DEF Start, Control, Claimed, loop, history, counts
<1>2. CASE Stop
  BY <1>2 DEF Stop, Control, Claimed, loop, history, counts
<1>3. CASE Ends
  BY <1>3 DEF Ends, Control, Claimed, NoJobs
<1>4. CASE CheckJobs
  BY <1>4, CheckEffect DEF Control, history
<1>5. ASSUME NEW j \in Jobs, Execute(j)
      PROVE  Control'
  BY <1>5, ExecuteEffect DEF Execute, Control
<1>6. CASE Finish
  BY <1>6, FinishEffect DEF Control
<1>7. ASSUME NEW j \in Jobs, NEW command \in BOOLEAN, Add(j, command)
      PROVE  Control'
  <2>1. PICK n : Stores(With(store, j, [enabled |-> TRUE, next |-> n]))
    BY <1>7, Zenon DEF Add
  <2>2. DOMAIN store' = DOMAIN store \cup {j} /\ DOMAIN disk' = DOMAIN store'
    BY <2>1, StoresEffect, WithEffect
  <2>3. \A k \in Jobs \ {j} : held'[k] = held[k]
    BY <1>7 DEF Add, TypeInv, TypeOK
  <2>4. QED
    BY <1>7, <2>2, <2>3 DEF Add, Draw, Control, Claimed, loop
<1>8. ASSUME NEW j \in Jobs, Update(j)
      PROVE  Control'
  <2>1. /\ DOMAIN store' = DOMAIN store
        /\ DOMAIN disk' \subseteq DOMAIN store \cup DOMAIN disk
    BY <1>8, UpdateEffect
  <2>2. held' = [held EXCEPT ![j] = NoCopy] /\ held \in [Jobs -> Job]
    BY <1>8, UpdateEffect DEF TypeInv, TypeOK
  <2>3. off' \subseteq off /\ UNCHANGED <<gateway, loop, cli, drawn>>
    BY <1>8 DEF Update, SwitchOn
  <2>4. QED
    BY <2>1, <2>2, <2>3 DEF Control, Claimed, loop
<1>9. ASSUME NEW j \in Jobs, Remove(j)
      PROVE  Control'
  <2>1. DOMAIN store' = DOMAIN store \ {j} /\ DOMAIN disk' = DOMAIN store'
    BY <1>9, StoresEffect DEF Remove, Without
  <2>2. QED
    BY <1>9, <2>1 DEF Remove, SwitchOff, Control, Claimed, loop
<1>10. ASSUME NEW j \in Jobs, Enable(j)
       PROVE  Control'
  <2>1. DOMAIN store' = DOMAIN store /\ DOMAIN disk' = DOMAIN store'
    BY <1>10, StoresEffect DEF Enable
  <2>2. QED
    BY <1>10, <2>1 DEF Enable, SwitchOn, Control, Claimed, loop
<1>11. ASSUME NEW j \in Jobs, Disable(j)
       PROVE  Control'
  <2>1. DOMAIN store' = DOMAIN store /\ DOMAIN disk' = DOMAIN store'
    BY <1>11, StoresEffect DEF Disable
  <2>2. QED
    BY <1>11, <2>1 DEF Disable, SwitchOff, Control, Claimed, loop
<1>12. ASSUME NEW op \in Commands, NEW j \in Jobs, CommandLoads(op, j)
       PROVE  Control'
  BY <1>12 DEF CommandLoads, Draw, Control, Claimed, loop
<1>13. CASE CommandSaves
  <2>1. DOMAIN disk' \subseteq DOMAIN cli.jobs \cup {cli.job} /\ off' \subseteq off \cup {cli.job}
    BY <1>13 DEF CommandSaves, Changed, With, Without
  <2>2. QED
    BY <1>13, <2>1 DEF CommandSaves, Control, Claimed, loop
<1>14. CASE Tick
  <2>1. DOMAIN store' = DOMAIN store
    BY <1>14 DEF Tick
  <2>2. \A j \in Jobs : held[j] = NoCopy => held'[j] = NoCopy
    BY <1>14, ConstantsAssumption DEF ConstantsAssumption, Tick, NoCopy, Earlier
  <2>3. \A j \in Jobs : held'[j] # NoCopy => held[j] # NoCopy
    BY <2>2
  <2>4. QED
    BY <1>14, <2>1, <2>2, <2>3 DEF Tick, Control, Claimed, loop, history
<1>15. CASE UNCHANGED vars
  BY <1>15 DEF vars, loop, history, Control, Claimed
<1>16. QED
  BY <1>1, <1>2, <1>3, <1>4, <1>5, <1>6, <1>7, <1>8, <1>9, <1>10, <1>11, <1>12, <1>13, <1>14,
     <1>15 DEF Next, Loop, Tool, CommandLine

-----------------------------------------------------------------------------
LEMMA InitOff == Init => OffInv
BY DEF Init, OffInv, OffStaysOff, On, Claimed, NoJobs

LEMMA OffKept == TypeInv /\ Control /\ OffInv /\ [Next]_vars => OffInv'
<1> SUFFICES ASSUME TypeInv, Control, OffInv, [Next]_vars
             PROVE  OffInv'
  OBVIOUS
<1> USE DEF OffInv, OffStaysOff
<1>1. CASE Start
  <2>1. PICK n : Stores([j \in DOMAIN disk |-> [enabled |-> disk[j].enabled, next |-> n[j]]])
    BY <1>1, Zenon DEF Start
  <2>2. \A j \in Jobs : (On(store, j)' <=> On(disk, j)) /\ (On(disk, j)' <=> On(disk, j))
    BY <2>1, StoresEffect DEF On
  <2>3. QED
    BY <1>1, <2>2 DEF Start, TypeInv, TypeOK, Control, Claimed, loop, history
<1>2. CASE Stop
  BY <1>2 DEF Stop, On, Claimed, loop, history
<1>3. CASE Ends
  BY <1>3 DEF Ends, On, Claimed, NoJobs
<1>4. CASE CheckJobs
  <2>1. /\ \A j \in Jobs : (On(store, j)' <=> On(store, j)) /\ (On(disk, j)' <=> On(store, j))
        /\ \A j \in Claimed' : On(store, j)
        /\ off' = off
    BY <1>4, CheckEffect DEF On, history
  <2>2. QED
    BY <2>1 DEF TypeInv, TypeOK
<1>5. ASSUME NEW j \in Jobs, Execute(j)
      PROVE  OffInv'
  BY <1>5, ExecuteEffect DEF Execute, On
<1>6. CASE Finish
  <2>1. \A j : On(store, j)' => On(store, j)
    BY <1>6, FinishEffect DEF On
  <2>2. \A j : On(disk, j)' => On(disk, j) \/ On(store, j)
    BY <1>6, FinishEffect DEF On
  <2>3. QED
    BY <1>6, <2>1, <2>2, FinishEffect
<1>7. ASSUME NEW j \in Jobs, NEW command \in BOOLEAN, Add(j, command)
      PROVE  OffInv'
  <2>1. PICK n : Stores(With(store, j, [enabled |-> TRUE, next |-> n]))
    BY <1>7, Zenon DEF Add
  <2>2. \A k : k # j => (On(store, k)' => On(store, k)) /\ (On(disk, k)' => On(store, k))
    BY <2>1, StoresEffect DEF On, With
  <2>3. j \notin off
    BY <1>7 DEF Add, Draw, Control
  <2>4. QED
    BY <1>7, <2>2, <2>3 DEF Add, Claimed, loop
<1>8. ASSUME NEW j \in Jobs, Update(j)
      PROVE  OffInv'
  <2>1. CASE off' = off \ {j} /\ late' = late \ {j}
    <3>1. \A k : k # j => (On(store, k)' => On(store, k)) /\ (On(disk, k)' => On(store, k) \/ On(disk, k))
      BY <1>8, UpdateEffect DEF On
    <3>2. QED
      BY <1>8, <2>1, <3>1 DEF Update, Claimed, loop
  <2>2. CASE UNCHANGED <<store, disk, off, late>>
    BY <1>8, <2>2 DEF Update, Claimed, On, loop
  <2>3. QED
    BY <1>8, <2>1, <2>2, UpdateEffect
<1>9. ASSUME NEW j \in Jobs, Remove(j)
      PROVE  OffInv'
  <2>1. /\ \A k : (On(store, k)' => On(store, k) /\ k # j) /\ (On(disk, k)' => On(store, k) /\ k # j)
    BY <1>9, StoresEffect DEF Remove, Without, On
  <2>2. QED
    BY <1>9, <2>1 DEF Remove, SwitchOff, Claimed, loop
<1>10. ASSUME NEW j \in Jobs, Enable(j)
       PROVE  OffInv'
  <2>1. \A k : k # j => (On(store, k)' => On(store, k)) /\ (On(disk, k)' => On(store, k))
    BY <1>10, StoresEffect DEF Enable, On
  <2>2. QED
    BY <1>10, <2>1 DEF Enable, SwitchOn, Claimed, loop
<1>11. ASSUME NEW j \in Jobs, Disable(j)
       PROVE  OffInv'
  <2>1. /\ \A k : (On(store, k)' => On(store, k) /\ k # j) /\ (On(disk, k)' => On(store, k) /\ k # j)
    BY <1>11, StoresEffect DEF Disable, On
  <2>2. QED
    BY <1>11, <2>1 DEF Disable, SwitchOff, Claimed, loop
<1>12. ASSUME NEW op \in Commands, NEW j \in Jobs, CommandLoads(op, j)
       PROVE  OffInv'
  BY <1>12 DEF CommandLoads, On, Claimed, loop
<1>13. CASE CommandSaves
  <2>1. CASE gateway = "down"
    BY <1>13, <2>1 DEF CommandSaves, Control, On, Claimed, loop
  <2>2. CASE gateway # "down"
    BY <1>13, <2>2 DEF CommandSaves, On, Claimed, loop
  <2>3. QED
    BY <2>1, <2>2
<1>14. CASE Tick
  <2>1. \A j \in DOMAIN store : store'[j].enabled = store[j].enabled
    BY <1>14 DEF Tick, Job, TypeInv, TypeOK
  <2>2. QED
    BY <1>14, <2>1 DEF Tick, On, Claimed, loop, history
<1>15. CASE UNCHANGED vars
  BY <1>15 DEF vars, loop, history, On, Claimed
<1>16. QED
  BY <1>1, <1>2, <1>3, <1>4, <1>5, <1>6, <1>7, <1>8, <1>9, <1>10, <1>11, <1>12, <1>13, <1>14,
     <1>15 DEF Next, Loop, Tool, CommandLine

-----------------------------------------------------------------------------
\* The next run of a one-shot job is its time, or never once that has passed.
LEMMA OneShotNext ==
  ASSUME NEW j \in Jobs, Kind[j] = "at", NEW l \in [Jobs -> Nat], NEW n \in NextRuns(j, l)
  PROVE  n = IF l[j] > 0 THEN l[j] ELSE Never
BY DEF NextRuns

LEMMA InitOnce == Init => OnceInv
BY DEF Init, OnceInv, Claimed, NoJobs, NoCopy

LEMMA OnceKept == TypeInv /\ Control /\ OnceInv /\ [Next]_vars => OnceInv'
<1> SUFFICES ASSUME TypeInv, Control, OnceInv, [Next]_vars, NEW k \in Jobs, Kind[k] = "at"
             PROVE  /\ k \in DOMAIN store' /\ store'[k].next # Never => store'[k].next = left'[k]
                    /\ held'[k].next # Never => held'[k].next = left'[k]
                    /\ k \in Claimed' => left'[k] = 0
                    /\ runs'[k] <= 1
                    /\ runs'[k] # 0 => /\ k \in drawn' /\ left'[k] = 0 /\ k \notin due'
                                      /\ \/ k = current'
                                         \/ k \notin DOMAIN store'
                                         \/ store'[k].next = Never /\ held'[k] = NoCopy
  BY DEF OnceInv
<1> DEFINE Once == /\ k \in DOMAIN store /\ store[k].next # Never => store[k].next = left[k]
                   /\ held[k].next # Never => held[k].next = left[k]
                   /\ k \in Claimed => left[k] = 0
                   /\ runs[k] <= 1
                   /\ runs[k] # 0 => /\ k \in drawn /\ left[k] = 0 /\ k \notin due
                                    /\ \/ k = current
                                       \/ k \notin DOMAIN store
                                       \/ store[k].next = Never /\ held[k] = NoCopy
<1>1. Once /\ left \in [Jobs -> Nat] /\ runs[k] \in 0..2 /\ Never \notin Nat
  BY ConstantsAssumption DEF ConstantsAssumption, OnceInv, TypeInv, TypeOK
<1>2. CASE Start
  <2>1. PICK n \in [DOMAIN disk -> UNION {NextRuns(j, left) : j \in DOMAIN disk}] :
            /\ \A j \in DOMAIN disk : n[j] \in IF disk[j].enabled THEN NextRuns(j, left) ELSE {Never}
            /\ Stores([j \in DOMAIN disk |-> [enabled |-> disk[j].enabled, next |-> n[j]]])
    BY <1>2 DEF Start
  <2>2. DOMAIN store' = DOMAIN disk /\ \A j \in DOMAIN disk : store'[j].next = n[j]
    BY <2>1, StoresEffect
  <2>3. k \in DOMAIN disk => store'[k].next \in {Never, IF left[k] > 0 THEN left[k] ELSE Never}
    BY <1>1, <2>1, <2>2, OneShotNext
  <2>4. held[k] = NoCopy /\ Claimed = {}
    BY <1>2 DEF Start, Control, Claimed
  <2>5. UNCHANGED <<left, held, due, current, runs, drawn>> /\ Claimed' = Claimed
    BY <1>2 DEF Start, Claimed, loop, history
  <2>6. runs[k] # 0 => k \notin DOMAIN store' \/ store'[k].next = Never
    BY <1>1, <2>2, <2>3
  <2>7. QED
    BY <1>1, <2>2, <2>3, <2>4, <2>5, <2>6
<1>3. CASE Stop
  BY <1>1, <1>3 DEF Stop, Claimed, loop, history
<1>4. CASE Ends
  BY <1>1, <1>4 DEF Ends, Claimed, NoJobs, NoCopy
<1>5. CASE CheckJobs
  <2>1. UNCHANGED <<left, held, current, runs, drawn>> /\ current = NoJob /\ k # current
    BY <1>5, CheckEffect, ConstantsAssumption DEF ConstantsAssumption, history
  <2>2. k \in due' => k \in DOMAIN store /\ store[k].next = 0
    BY <1>5, CheckEffect
  <2>3. /\ DOMAIN store' = DOMAIN store /\ Claimed' = due'
        /\ k \in DOMAIN store => store'[k].next = IF k \in due' THEN Never ELSE store[k].next
    BY <1>5, CheckEffect
  <2>4. k \in due' => left[k] = 0 /\ runs[k] = 0
    BY <1>1, <2>1, <2>2
  <2>5. QED
    BY <1>1, <2>1, <2>2, <2>3, <2>4
<1>6. ASSUME NEW j \in Jobs, Execute(j)
      PROVE  Once'
  <2>1. CASE k = j /\ j \in DOMAIN store
    <3>1. k \in due /\ k \in Claimed /\ runs[k] = 0
      BY <1>1, <1>6, <2>1, ExecuteEffect DEF Execute
    <3>2. runs'[k] = 1 /\ due' = due \ {k} /\ current' = k /\ UNCHANGED <<store, left, held, drawn>>
      BY <1>6, <2>1, <3>1 DEF Execute, TypeInv, TypeOK
    <3>3. k \in drawn
      BY <3>1 DEF Control
    <3>4. QED
      BY <1>1, <3>1, <3>2, <3>3
  <2>2. CASE k # j \/ j \notin DOMAIN store
    <3>1. runs'[k] = runs[k] /\ due' = due \ {j} /\ UNCHANGED <<store, left, held, drawn>>
      BY <1>6, <2>2 DEF Execute, TypeInv, TypeOK
    <3>2. k # current
      BY <1>6, ConstantsAssumption DEF ConstantsAssumption, Execute
    <3>3. QED
      BY <1>1, <1>6, <3>1, <3>2, ExecuteEffect
  <2>3. QED
    BY <2>1, <2>2
<1>7. CASE Finish
  <2>1. CASE k = current
    BY <1>1, <1>7, <2>1, FinishEffect
  <2>2. CASE k # current
    BY <1>1, <1>7, <2>2, FinishEffect
  <2>3. QED
    BY <2>1, <2>2
<1>8. ASSUME NEW j \in Jobs, NEW command \in BOOLEAN, Add(j, command)
      PROVE  Once'
  <2>1. PICK n \in NextRuns(j, left') :
            /\ Stores(With(store, j, [enabled |-> TRUE, next |-> n]))
            /\ held' = IF command THEN [held EXCEPT ![j] = [enabled |-> TRUE, next |-> n]] ELSE held
    BY <1>8, Zenon DEF Add
  <2>2. /\ \A i \in DOMAIN store \ {j} : store'[i] = store[i]
        /\ store'[j] = [enabled |-> TRUE, next |-> n]
        /\ DOMAIN store' = DOMAIN store \cup {j}
    BY <2>1, WithNow
  <2>3. /\ left' \in [Jobs -> Nat] /\ \A i \in Jobs \ {j} : left'[i] = left[i]
        /\ j \notin drawn /\ drawn' = drawn \cup {j} /\ UNCHANGED <<loop, runs>>
    BY <1>8, ConstantsAssumption DEF ConstantsAssumption, Add, Draw, TypeInv, TypeOK
  <2>4. Claimed' = Claimed
    BY <2>3 DEF Claimed, loop
  <2>5. CASE k = j
    <3>1. runs[k] = 0 /\ k \notin Claimed /\ held[k] = NoCopy
      BY <1>1, <2>3, <2>5 DEF Control
    <3>2. n = Never \/ n = left'[k]
      BY <2>1, <2>3, <2>5, OneShotNext
    <3>3. held'[k] = NoCopy \/ held'[k] = [enabled |-> TRUE, next |-> n]
      BY <2>1, <2>5, <3>1 DEF TypeInv, TypeOK
    <3>4. store'[k].next = n
      BY <2>2, <2>5
    <3>5. held'[k].next = Never \/ held'[k].next = n
      BY <3>3 DEF NoCopy
    <3>6. QED
      BY <1>1, <2>3, <2>4, <3>1, <3>2, <3>4, <3>5
  <2>6. CASE k # j
    <3>1. held'[k] = held[k]
      BY <2>1, <2>6 DEF TypeInv, TypeOK
    <3>2. QED
      BY <1>1, <2>2, <2>3, <2>4, <2>6, <3>1 DEF loop
  <2>7. QED
    BY <2>5, <2>6
<1>9. ASSUME NEW j \in Jobs, Update(j)
      PROVE  Once'
  <2>1. Claimed' = Claimed /\ UNCHANGED <<left, loop, drawn, runs>>
    BY <1>9 DEF Update, Claimed, loop
  <2>2. held'[k] = IF k = j THEN NoCopy ELSE held[k]
    BY <1>9, UpdateEffect DEF TypeInv, TypeOK
  <2>3. NoCopy.next = Never
    BY DEF NoCopy
  <2>4. QED
    BY <1>1, <1>9, <2>1, <2>2, <2>3, UpdateEffect DEF loop
<1>10. ASSUME NEW j \in Jobs, Remove(j)
       PROVE  Once'
  <2>1. DOMAIN store' = DOMAIN store \ {j} /\ \A i \in DOMAIN store' : store'[i] = store[i]
    BY <1>10, WithoutNow DEF Remove
  <2>2. QED
    BY <1>1, <1>10, <2>1 DEF Remove, Claimed, loop
<1>11. ASSUME NEW j \in Jobs, Enable(j)
       PROVE  Once'
  <2>1. PICK n \in NextRuns(j, left) : Stores([store EXCEPT ![j] = [enabled |-> TRUE, next |-> n]])
    BY <1>11 DEF Enable
  <2>2. /\ DOMAIN store' = DOMAIN store
        /\ \A i \in DOMAIN store \ {j} : store'[i] = store[i]
        /\ j \in DOMAIN store => store'[j].next = n
    BY <2>1, StoresEffect
  <2>3. k = j => n = IF left[k] > 0 THEN left[k] ELSE Never
    BY <1>1, <2>1, OneShotNext
  <2>4. QED
    BY <1>1, <1>11, <2>2, <2>3 DEF Enable, Claimed, loop
<1>12. ASSUME NEW j \in Jobs, Disable(j)
       PROVE  Once'
  <2>1. /\ DOMAIN store' = DOMAIN store
        /\ \A i \in DOMAIN store \ {j} : store'[i] = store[i]
        /\ j \in DOMAIN store => store'[j].next = Never
    BY <1>12, StoresEffect DEF Disable
  <2>2. QED
    BY <1>1, <1>12, <2>1 DEF Disable, Claimed, loop
<1>13. ASSUME NEW op \in Commands, NEW j \in Jobs, CommandLoads(op, j)
       PROVE  Once'
  BY <1>1, <1>13 DEF CommandLoads, Draw, Claimed, loop
<1>14. CASE CommandSaves
  BY <1>1, <1>14 DEF CommandSaves, Claimed, loop
<1>15. CASE Tick
  <2>1. left'[k] = Earlier(left[k])
    BY <1>15 DEF Tick
  <2>2. /\ DOMAIN store' = DOMAIN store
        /\ k \in DOMAIN store => store'[k].next = Earlier(store[k].next) /\ store[k].next \in Moments
    BY <1>15 DEF Tick, Job, TypeInv, TypeOK
  <2>3. held'[k] = [held[k] EXCEPT !.next = Earlier(held[k].next)] /\ held[k] \in Job
    BY <1>15 DEF Tick, TypeInv, TypeOK
  <2>4. /\ held'[k].next = Earlier(held[k].next) /\ held[k].next \in Moments
        /\ held'[k].enabled = held[k].enabled /\ held'[k].next \in Moments
        /\ held'[k] = [enabled |-> held'[k].enabled, next |-> held'[k].next]
    BY <2>3, EarlierType DEF Job
  <2>5. held[k] = NoCopy => held'[k] = NoCopy
    BY <2>4 DEF NoCopy, Earlier
  <2>6. left[k] \in Moments /\ (left[k] = 0 => left'[k] = 0)
    BY <1>1, <2>1 DEF Earlier, Moments
  <2>7. Claimed' = Claimed /\ UNCHANGED <<loop, runs, drawn>>
    BY <1>15 DEF Tick, Claimed, loop, history
  <2>8. QED
    BY <1>1, <2>1, <2>2, <2>4, <2>5, <2>6, <2>7, EarlierType DEF loop
<1>16. CASE UNCHANGED vars
  BY <1>1, <1>16 DEF vars, loop, history, Claimed
<1>17. QED
  BY <1>2, <1>3, <1>4, <1>5, <1>6, <1>7, <1>8, <1>9, <1>10, <1>11, <1>12, <1>13, <1>14, <1>15,
     <1>16 DEF Next, Loop, Tool, CommandLine

-----------------------------------------------------------------------------
\* A schedule that has ended stays so while time goes by; others do not look at it.
LEMMA NextRunsTick ==
  ASSUME NEW j \in Jobs, NEW l \in [Jobs -> Nat], NEW m \in [Jobs -> Nat],
         m[j] = l[j] \/ m[j] = Earlier(l[j]), NextRuns(j, l) = {Never}
  PROVE  NextRuns(j, m) = {Never}
<1>1. Kind[j] \in {"at", "every", "cron"} /\ Delay[j] \in Nat /\ l[j] \in Nat /\ m[j] \in Nat
      /\ Never \notin Nat
  BY ConstantsAssumption DEF ConstantsAssumption
<1>2. CASE Kind[j] = "at"
  <2>1. l[j] = 0
    BY <1>1, <1>2 DEF NextRuns
  <2>2. m[j] = 0
    BY <2>1, <1>1 DEF Earlier
  <2>3. QED
    BY <1>1, <1>2, <2>2 DEF NextRuns
<1>3. CASE Kind[j] = "every"
  BY <1>1, <1>3 DEF NextRuns
<1>4. CASE Kind[j] = "cron"
  BY <1>1, <1>4 DEF NextRuns
<1>5. QED
  BY <1>1, <1>2, <1>3, <1>4

LEMMA InitStuck == Init => StuckInv
BY DEF Init, StuckInv, NoJobStuck, NoJobs, NoCopy

LEMMA StuckKept == TypeInv /\ Control /\ StuckInv /\ [Next]_vars => StuckInv'
<1> SUFFICES ASSUME TypeInv, Control, StuckInv, [Next]_vars
             PROVE  StuckInv'
  OBVIOUS
<1>0. DOMAIN store' \subseteq Jobs
  BY NextType DEF TypeInv, TypeOK
<1> SUFFICES ASSUME NEW k \in Jobs
             PROVE  /\ k \in DOMAIN store' /\ store'[k].enabled /\ store'[k].next = Never
                          /\ k \notin Claimed' => NextRuns(k, left') = {Never}
                    /\ held'[k].enabled /\ held'[k].next = Never => NextRuns(k, left') = {Never}
  BY <1>0 DEF StuckInv, NoJobStuck, Idle
<1> DEFINE Free == /\ k \in DOMAIN store /\ store[k].enabled /\ store[k].next = Never
                         /\ k \notin Claimed => NextRuns(k, left) = {Never}
                   /\ held[k].enabled /\ held[k].next = Never => NextRuns(k, left) = {Never}
<1>1. Free /\ left \in [Jobs -> Nat]
  BY DEF StuckInv, NoJobStuck, Idle, TypeInv, TypeOK
<1>2. left' = left => NextRuns(k, left') = NextRuns(k, left)
  OBVIOUS
<1>3. NoCopy.enabled = FALSE
  BY DEF NoCopy
<1>4. CASE Start
  <2>1. PICK n \in [DOMAIN disk -> UNION {NextRuns(j, left) : j \in DOMAIN disk}] :
            /\ \A j \in DOMAIN disk : n[j] \in IF disk[j].enabled THEN NextRuns(j, left) ELSE {Never}
            /\ Stores([j \in DOMAIN disk |-> [enabled |-> disk[j].enabled, next |-> n[j]]])
    BY <1>4 DEF Start
  <2>2. /\ DOMAIN store' = DOMAIN disk
        /\ \A j \in DOMAIN disk : store'[j].next = n[j] /\ store'[j].enabled = disk[j].enabled
    BY <2>1, StoresEffect
  <2>3. UNCHANGED <<left, held>>
    BY <1>4 DEF Start
  <2>4. k \in DOMAIN store' /\ store'[k].enabled => store'[k].next \in NextRuns(k, left)
    BY <2>1, <2>2
  <2>5. QED
    BY <1>1, <1>2, <2>3, <2>4, NextRunsType
<1>5. CASE Stop
  BY <1>1, <1>2, <1>5 DEF Stop, Claimed, loop
<1>6. CASE Ends
  BY <1>1, <1>2, <1>3, <1>6 DEF Ends, NoJobs
<1>7. CASE CheckJobs
  BY <1>1, <1>2, <1>7, CheckEffect
<1>8. ASSUME NEW j \in Jobs, Execute(j)
      PROVE  Free'
  BY <1>1, <1>2, <1>8, ExecuteEffect DEF Execute
<1>9. CASE Finish
  <2>1. UNCHANGED <<left, held>>
    BY <1>9, FinishEffect
  <2>2. CASE k = current
    BY <1>1, <1>2, <1>9, <2>1, <2>2, FinishEffect, NextRunsType
  <2>3. CASE k # current
    BY <1>1, <1>2, <1>9, <2>1, <2>3, FinishEffect
  <2>4. QED
    BY <2>2, <2>3
<1>10. ASSUME NEW j \in Jobs, NEW command \in BOOLEAN, Add(j, command)
       PROVE  Free'
  <2>1. PICK n \in NextRuns(j, left') :
            /\ Stores(With(store, j, [enabled |-> TRUE, next |-> n]))
            /\ held' = IF command THEN [held EXCEPT ![j] = [enabled |-> TRUE, next |-> n]] ELSE held
    BY <1>10, Zenon DEF Add
  <2>2. /\ left' \in [Jobs -> Nat] /\ \A i \in Jobs \ {j} : left'[i] = left[i]
        /\ j \notin drawn /\ UNCHANGED loop
    BY <1>10, ConstantsAssumption DEF ConstantsAssumption, Add, Draw, TypeInv, TypeOK
  <2>3. Claimed' = Claimed
    BY <2>2 DEF Claimed, loop
  <2> DEFINE r == [enabled |-> TRUE, next |-> n]
  <2>4. /\ DOMAIN store' = DOMAIN store \cup {j} /\ store'[j].next = n
        /\ \A i \in DOMAIN store \ {j} : store'[i] = store[i]
    <3>1. Stores(With(store, j, r)) /\ r.next = n
      BY <2>1
    <3> HIDE DEF r
    <3>2. QED
      BY <3>1, WithNow
  <2>5. CASE k = j
    <3>1. held[k] = NoCopy
      BY <2>2, <2>5 DEF Control
    <3>2. held'[k] = NoCopy \/ held'[k] = [enabled |-> TRUE, next |-> n]
      BY <2>1, <2>5, <3>1 DEF TypeInv, TypeOK
    <3>3. store'[k].next = n
      BY <2>5, <2>4
    <3>4. held'[k].enabled => held'[k].next = n
      BY <3>2, <1>3
    <3>5. n = Never => NextRuns(k, left') = {Never}
      BY <2>1, <2>2, <2>5, NextRunsType
    <3>6. QED
      BY <3>3, <3>4, <3>5
  <2>6. CASE k # j
    <3>1. held'[k] = held[k] /\ left'[k] = left[k]
      BY <2>1, <2>2, <2>6 DEF TypeInv, TypeOK
    <3>2. k \in DOMAIN store' => k \in DOMAIN store /\ store'[k] = store[k]
      BY <2>6, <2>4
    <3>3. NextRuns(k, left) = {Never} => NextRuns(k, left') = {Never}
      BY <1>1, <2>2, <3>1, NextRunsTick
    <3>4. QED
      BY <1>1, <2>3, <3>1, <3>2, <3>3
  <2>7. QED
    BY <2>5, <2>6
<1>11. ASSUME NEW j \in Jobs, Update(j)
       PROVE  Free'
  <2>1. Claimed' = Claimed /\ UNCHANGED left
    BY <1>11 DEF Update, Claimed, loop
  <2>2. held'[k] = IF k = j THEN NoCopy ELSE held[k]
    BY <1>11, UpdateEffect DEF TypeInv, TypeOK
  <2>3. QED
    BY <1>1, <1>2, <1>3, <1>11, <2>1, <2>2, UpdateEffect
<1>12. ASSUME NEW j \in Jobs, Remove(j)
       PROVE  Free'
  <2>1. DOMAIN store' = DOMAIN store \ {j} /\ \A i \in DOMAIN store' : store'[i] = store[i]
    BY <1>12, WithoutNow DEF Remove
  <2>2. QED
    BY <1>1, <1>2, <1>12, <2>1 DEF Remove, Claimed, loop
<1>13. ASSUME NEW j \in Jobs, Enable(j)
       PROVE  Free'
  <2>1. PICK n \in NextRuns(j, left) : Stores([store EXCEPT ![j] = [enabled |-> TRUE, next |-> n]])
    BY <1>13 DEF Enable
  <2>2. /\ DOMAIN store' = DOMAIN store
        /\ \A i \in DOMAIN store \ {j} : store'[i] = store[i]
        /\ j \in DOMAIN store => store'[j].next = n
    BY <2>1, StoresEffect
  <2>3. n = Never => NextRuns(j, left) = {Never}
    BY <1>1, <2>1, NextRunsType
  <2>4. QED
    BY <1>1, <1>2, <1>13, <2>2, <2>3 DEF Enable, Claimed, loop
<1>14. ASSUME NEW j \in Jobs, Disable(j)
       PROVE  Free'
  <2>1. /\ DOMAIN store' = DOMAIN store
        /\ \A i \in DOMAIN store \ {j} : store'[i] = store[i]
        /\ j \in DOMAIN store => store'[j].enabled = FALSE
    BY <1>14, StoresEffect DEF Disable
  <2>2. QED
    BY <1>1, <1>2, <1>14, <2>1 DEF Disable, Claimed, loop
<1>15. ASSUME NEW op \in Commands, NEW j \in Jobs, CommandLoads(op, j)
       PROVE  Free'
  BY <1>1, <1>2, <1>15 DEF CommandLoads, Claimed, loop
<1>16. CASE CommandSaves
  BY <1>1, <1>2, <1>16 DEF CommandSaves, Claimed, loop
<1>17. CASE Tick
  <2>1. left' \in [Jobs -> Nat] /\ left'[k] = Earlier(left[k])
    BY <1>17, NextType DEF Tick, TypeInv, TypeOK
  <2>2. NextRuns(k, left) = {Never} => NextRuns(k, left') = {Never}
    BY <1>1, <2>1, NextRunsTick
  <2>3. /\ DOMAIN store' = DOMAIN store
        /\ k \in DOMAIN store => /\ store'[k].next = Earlier(store[k].next)
                                 /\ store'[k].enabled = store[k].enabled
                                 /\ store[k].next \in Moments
    BY <1>17 DEF Tick, Job, TypeInv, TypeOK
  <2>4. held'[k] = [held[k] EXCEPT !.next = Earlier(held[k].next)] /\ held[k] \in Job
    BY <1>17 DEF Tick, TypeInv, TypeOK
  <2>5. /\ held'[k].next = Earlier(held[k].next) /\ held[k].next \in Moments
        /\ held'[k].enabled = held[k].enabled
    BY <2>4 DEF Job
  <2>6. Claimed' = Claimed
    BY <1>17 DEF Tick, Claimed, loop
  <2>7. QED
    BY <1>1, <2>2, <2>3, <2>5, <2>6, EarlierType
<1>18. CASE UNCHANGED vars
  BY <1>1, <1>2, <1>18 DEF vars, loop, Claimed
<1>19. QED
  BY <1>4, <1>5, <1>6, <1>7, <1>8, <1>9, <1>10, <1>11, <1>12, <1>13, <1>14, <1>15, <1>16, <1>17,
     <1>18 DEF Next, Loop, Tool, CommandLine

-----------------------------------------------------------------------------
IInv == TypeInv /\ Control /\ OffInv /\ OnceInv /\ StuckInv

LEMMA Inductive == Spec => []IInv
<1>1. Init => IInv
  BY InitType, InitControl, InitOff, InitOnce, InitStuck DEF IInv
<1>2. IInv /\ [Next]_vars => IInv'
  BY NextType, ControlKept, OffKept, OnceKept, StuckKept DEF IInv
<1>3. QED
  BY <1>1, <1>2, PTL DEF Spec

\* Every state of the cron service, its file, and a command at work is well typed.
THEOREM TypeCorrect == Spec => []TypeOK
<1>1. IInv => TypeOK
  BY DEF IInv, TypeInv
<1>2. QED
  BY <1>1, Inductive, PTL

\* Whatever is changed while jobs run, and whenever the process ends, no enabled job is
\* left without a next run that its schedule still has.
THEOREM NothingStuck == Spec => []NoJobStuck
<1>1. IInv => NoJobStuck
  BY DEF IInv, StuckInv
<1>2. QED
  BY <1>1, Inductive, PTL

\* A job that was switched off or removed is not claimed again.
THEOREM StaysOff == Spec => []OffStaysOff
<1>1. IInv => OffStaysOff
  BY DEF IInv, OffInv
<1>2. QED
  BY <1>1, Inductive, PTL

\* No crash, copy, or command gets a one-shot job executed twice.
THEOREM OneShotOnce == Spec => []AtMostOnce
<1>1. IInv => AtMostOnce
  BY DEF IInv, OnceInv, AtMostOnce
<1>2. QED
  BY <1>1, Inductive, PTL
=============================================================================
