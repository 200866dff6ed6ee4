----------------------------- MODULE CronService -----------------------------
(***************************************************************************)
(* Scheduled jobs: the service with its run loop (pkg/cron/service.go),    *)
(* the tool by which agents change them (pkg/tools/cron.go), and the       *)
(* command line, another process that works on the same file               *)
(* (cmd/aetherclaw/internal/cron).                                         *)
(*                                                                         *)
(* Time is relative: a moment in the future is the number of ticks until   *)
(* then, and zero when it is past.  What a job says and does is left out,  *)
(* and so are its name and its last status.                                *)
(***************************************************************************)
EXTENDS Naturals, FiniteSets

CONSTANTS Jobs,       \* the ids that will be drawn
          Kind,       \* Kind[j]: "at", "every" or "cron"
          Delay,      \* Delay[j]: seconds until "at", or between runs; at most, for "cron"
          NoJob,      \* the loop executes nothing
          Never,      \* a NextRunAtMS of nil
          MaxOps,     \* bound: enabling, disabling, removing by the tool
          MaxCommands,\* bound: commands of the command line
          MaxCrashes  \* bound: times that the gateway ends

ASSUME ConstantsAssumption ==
    /\ Kind \in [Jobs -> {"at", "every", "cron"}]
    /\ Delay \in [Jobs -> Nat]
    /\ NoJob \notin Jobs /\ Never \notin Nat
    /\ MaxOps \in Nat /\ MaxCommands \in Nat /\ MaxCrashes \in Nat

Moments == Nat \cup {Never}
Job     == [enabled : BOOLEAN, next : Moments]
Commands == {"add", "remove", "enable", "disable"}

VARIABLES
    gateway,  \* "down", "up", or "stopped": Stop was called, the process not gone yet
    store,    \* the service's jobs: a function from their ids
    disk,     \* the file: which jobs there are, and whether they are enabled
    left,     \* left[j]: time until a one-shot job's AtMS
    held,     \* held[j]: the copy that AddJob returned, until UpdateJob stores it
    due,      \* dueJobIDs not executed yet
    current,  \* the job whose callback runs
    cli,      \* what the command line has read, while it is at work
    drawn,    \* the ids that generateID has returned
    runs,     \* history: runs[j]: callbacks begun, at most 2
    off,      \* history: jobs switched off or removed
    late,     \* history: those of them that were claimed by then
    ops, commands, crashes  \* numbers of what the bounds bound

loop    == <<due, current>>
history == <<drawn, runs, off, late>>
counts  == <<ops, commands, crashes>>
vars    == <<gateway, store, disk, left, held, loop, cli, history, counts>>

On(s, j) == j \in DOMAIN s /\ s[j].enabled
Claimed  == due \cup ({current} \ {NoJob})

\* The file keeps the next run too; nobody uses it from there, since Start computes
\* it anew for jobs that are enabled, and EnableJob for those that are not.
Saved(s)      == [j \in DOMAIN s |-> [enabled |-> s[j].enabled]]
Without(s, j) == [k \in DOMAIN s \ {j} |-> s[k]]
With(s, j, r) == [k \in DOMAIN s \cup {j} |-> IF k = j THEN r ELSE s[k]]
NoJobs        == [j \in {} |-> NoJob]
NoCommand     == [op |-> "none", job |-> NoJob, jobs |-> NoJobs]
NoCopy        == [enabled |-> FALSE, next |-> Never]

Init == /\ gateway = "down"
        /\ store = NoJobs /\ disk = NoJobs
        /\ left = [j \in Jobs |-> 0]
        /\ held = [j \in Jobs |-> NoCopy]
        /\ due = {} /\ current = NoJob
        /\ cli = NoCommand
        /\ drawn = {}
        /\ runs = [j \in Jobs |-> 0]
        /\ off = {} /\ late = {}
        /\ ops = 0 /\ commands = 0 /\ crashes = 0

\* generateID: 64 random bits.
Draw(j) == j \notin drawn /\ drawn' = drawn \cup {j}

\* Mutant of NextRuns: a one-shot job whose time has passed is due.
NextRunsPassed(j, l) ==
    CASE Kind[j] = "at"    -> {l[j]}
      [] Kind[j] = "every" -> IF Delay[j] > 0 THEN {Delay[j]} ELSE {Never}
      [] Kind[j] = "cron"  -> IF Delay[j] > 0 THEN 1..Delay[j] ELSE {Never}

\* computeNextRun, with l[j] the time until the job's AtMS.  When a cron expression
\* comes next depends on the date; one of delay zero is not valid.
NextRuns(j, l) ==
    CASE Kind[j] = "at"    -> IF l[j] > 0 THEN {l[j]} ELSE {Never}
      [] Kind[j] = "every" -> IF Delay[j] > 0 THEN {Delay[j]} ELSE {Never}
      [] Kind[j] = "cron"  -> IF Delay[j] > 0 THEN 1..Delay[j] ELSE {Never}

\* Every operation of the service ends with a save.
Stores(s) == store' = s /\ disk' = Saved(s)

SwitchOff(j) == /\ off' = off \cup {j}
                /\ late' = IF j \in Claimed THEN late \cup {j} ELSE late
SwitchOn(j)  == off' = off \ {j} /\ late' = late \ {j}

-----------------------------------------------------------------------------
(* The service starts and stops with the gateway.                          *)

\* Mutant of Start: the store is loaded, but next runs are not computed.
StartOnlyLoads ==
    /\ gateway = "down"
    /\ gateway' = "up"
    /\ Stores([j \in DOMAIN disk |-> [enabled |-> disk[j].enabled, next |-> Never]])
    /\ UNCHANGED <<left, held, loop, cli, history, counts>>

\* Start: loadStore, recomputeNextRuns, save, and the run loop.
Start ==
    /\ gateway = "down"
    /\ gateway' = "up"
    /\ \E n \in [DOMAIN disk -> UNION {NextRuns(j, left) : j \in DOMAIN disk}] :
          /\ \A j \in DOMAIN disk :
                n[j] \in IF disk[j].enabled THEN NextRuns(j, left) ELSE {Never}
          /\ Stores([j \in DOMAIN disk |-> [enabled |-> disk[j].enabled, next |-> n[j]]])
    /\ UNCHANGED <<left, held, loop, cli, history, counts>>

\* Stop: jobs that were due are still executed while the process lives.
Stop ==
    /\ gateway = "up"
    /\ gateway' = "stopped"
    /\ UNCHANGED <<store, disk, left, held, loop, cli, history, counts>>

\* The process ends, after Stop or by a crash.
Ends ==
    /\ gateway # "down"
    /\ crashes < MaxCrashes
    /\ gateway' = "down"
    /\ store' = NoJobs
    /\ held' = [j \in Jobs |-> NoCopy]
    /\ due' = {} /\ current' = NoJob
    /\ late' = {}
    /\ crashes' = crashes + 1
    /\ UNCHANGED <<disk, left, cli, drawn, runs, off, ops, commands>>

-----------------------------------------------------------------------------
(* The run loop, once a second.                                            *)

\* checkJobs: takes the due jobs' next runs away and saves, even if none is due.
CheckJobs ==
    /\ gateway = "up"
    /\ Claimed = {}
    /\ due' = {j \in DOMAIN store : store[j].enabled /\ store[j].next = 0}
    /\ Stores([j \in DOMAIN store |->
                  IF j \in due' THEN [store[j] EXCEPT !.next = Never] ELSE store[j]])
    /\ UNCHANGED <<gateway, left, held, current, cli, history, counts>>

\* Mutant of Execute: a job that is gone ends the round.
ExecuteOrReturn(j) ==
    /\ current = NoJob
    /\ j \in due
    /\ due' = IF j \in DOMAIN store THEN due \ {j} ELSE {}
    /\ current' = IF j \in DOMAIN store THEN j ELSE NoJob
    /\ runs' = IF j \in DOMAIN store /\ runs[j] < 2 THEN [runs EXCEPT ![j] = @ + 1] ELSE runs
    /\ late' = IF j \in DOMAIN store THEN late ELSE late \ {j}
    /\ UNCHANGED <<gateway, store, disk, left, held, cli, drawn, off, counts>>

\* executeJobByID up to the callback, for a copy of the job; it may be gone.
Execute(j) ==
    /\ current = NoJob
    /\ j \in due
    /\ due' = due \ {j}
    /\ current' = IF j \in DOMAIN store THEN j ELSE NoJob
    /\ runs' = IF j \in DOMAIN store /\ runs[j] < 2 THEN [runs EXCEPT ![j] = @ + 1] ELSE runs
    /\ late' = IF j \in DOMAIN store THEN late ELSE late \ {j}
    /\ UNCHANGED <<gateway, store, disk, left, held, cli, drawn, off, counts>>

\* Mutant of Finish: the copy made before the callback is stored.
FinishStale ==
    /\ current # NoJob
    /\ IF Kind[current] = "at"
       THEN Stores(Without(store, current))
       ELSE \E n \in NextRuns(current, left) :
               Stores(With(store, current, [enabled |-> TRUE, next |-> n]))
    /\ current' = NoJob
    /\ late' = late \ {current}
    /\ UNCHANGED <<gateway, left, held, due, cli, drawn, runs, off, counts>>

\* The callback returns, and executeJobByID updates the job if there still is one.
\* A one-shot job is removed: AddJob marked it as DeleteAfterRun.
Finish ==
    /\ current # NoJob
    /\ \/ /\ current \notin DOMAIN store
          /\ UNCHANGED <<store, disk>>
       \/ /\ current \in DOMAIN store
          /\ Kind[current] = "at"
          /\ Stores(Without(store, current))
       \/ /\ current \in DOMAIN store
          /\ Kind[current] # "at"
          /\ \E n \in NextRuns(current, left) :
                Stores([store EXCEPT ![current].next = n])
    /\ current' = NoJob
    /\ late' = late \ {current}
    /\ UNCHANGED <<gateway, left, held, due, cli, drawn, runs, off, counts>>

-----------------------------------------------------------------------------
(* The tool's operations; each is atomic under the service's lock.         *)

\* addJob: a job with a command is added without it first, and AddJob's copy updated.
Add(j, command) ==
    /\ gateway # "down"
    /\ Draw(j)
    /\ left' = [left EXCEPT ![j] = IF Kind[j] = "at" THEN Delay[j] ELSE 0]
    /\ \E n \in NextRuns(j, left') :
          LET job == [enabled |-> TRUE, next |-> n] IN
          /\ Stores(With(store, j, job))
          /\ held' = IF command THEN [held EXCEPT ![j] = job] ELSE held
    /\ UNCHANGED <<gateway, loop, cli, runs, off, late, counts>>

\* UpdateJob stores the whole copy, over whatever the job has become.
Update(j) ==
    /\ held[j] # NoCopy
    /\ IF j \in DOMAIN store THEN Stores(With(store, j, held[j])) ELSE UNCHANGED <<store, disk>>
    /\ held' = [held EXCEPT ![j] = NoCopy]
    /\ IF j \in DOMAIN store THEN SwitchOn(j) ELSE UNCHANGED <<off, late>>
    /\ UNCHANGED <<gateway, left, loop, cli, drawn, runs, counts>>

\* RemoveJob.
Remove(j) ==
    /\ j \in DOMAIN store
    /\ ops < MaxOps /\ ops' = ops + 1
    /\ Stores(Without(store, j))
    /\ SwitchOff(j)
    /\ UNCHANGED <<gateway, left, held, loop, cli, drawn, runs, commands, crashes>>

\* EnableJob.
Enable(j) ==
    /\ j \in DOMAIN store
    /\ ops < MaxOps /\ ops' = ops + 1
    /\ \E n \in NextRuns(j, left) : Stores([store EXCEPT ![j] = [enabled |-> TRUE, next |-> n]])
    /\ SwitchOn(j)
    /\ UNCHANGED <<gateway, left, held, loop, cli, drawn, runs, commands, crashes>>

Disable(j) ==
    /\ j \in DOMAIN store
    /\ ops < MaxOps /\ ops' = ops + 1
    /\ Stores([store EXCEPT ![j] = [enabled |-> FALSE, next |-> Never]])
    /\ SwitchOff(j)
    /\ UNCHANGED <<gateway, left, held, loop, cli, drawn, runs, commands, crashes>>

-----------------------------------------------------------------------------
(* The command line: a process that loads the file, changes it, saves it.  *)

\* NewCronService.  It can add recurring jobs only.
CommandLoads(op, j) ==
    /\ cli = NoCommand
    /\ commands < MaxCommands /\ commands' = commands + 1
    /\ IF op = "add" THEN Kind[j] # "at" /\ Draw(j)
       ELSE j \in DOMAIN disk /\ UNCHANGED drawn
    /\ cli' = [op |-> op, job |-> j, jobs |-> disk]
    /\ UNCHANGED <<gateway, store, disk, left, held, loop, runs, off, late, ops, crashes>>

\* AddJob, RemoveJob or EnableJob on what was loaded.
Changed(c) ==
    IF c.op = "remove" THEN Without(c.jobs, c.job)
    ELSE With(c.jobs, c.job, [enabled |-> c.op # "disable"])

\* The save.  If the gateway runs it knows nothing of it and will save its own jobs.
\* Until then the file may have jobs switched on that the gateway switched off.
CommandSaves ==
    /\ cli # NoCommand
    /\ disk' = Changed(cli)
    /\ cli' = NoCommand
    /\ off' = {j \in off \cup (IF gateway = "down" THEN {cli.job} ELSE {}) : ~On(disk', j)}
    /\ UNCHANGED <<gateway, store, left, held, loop, drawn, runs, late, counts>>

-----------------------------------------------------------------------------
Earlier(m) == IF m = Never \/ m = 0 THEN m ELSE m - 1

\* A second goes by, for the process and without it.
Tick ==
    /\ left' = [j \in Jobs |-> Earlier(left[j])]
    /\ store' = [j \in DOMAIN store |-> [store[j] EXCEPT !.next = Earlier(@)]]
    /\ held' = [j \in Jobs |-> [held[j] EXCEPT !.next = Earlier(@)]]
    /\ UNCHANGED <<gateway, disk, loop, cli, history, counts>>

Loop == CheckJobs \/ Finish \/ \E j \in Jobs : Execute(j)

Tool == \E j \in Jobs : \/ Update(j) \/ Remove(j) \/ Enable(j) \/ Disable(j)
                        \/ \E command \in BOOLEAN : Add(j, command)

CommandLine == CommandSaves \/ \E op \in Commands, j \in Jobs : CommandLoads(op, j)

Next == Start \/ Stop \/ Ends \/ Loop \/ Tool \/ CommandLine \/ Tick

Spec == Init /\ [][Next]_vars

\* Callbacks return: requests to models and commands have timeouts.
Fairness == WF_vars(Loop) /\ WF_vars(Tick)

FairSpec == Spec /\ Fairness

-----------------------------------------------------------------------------
TypeOK ==
    /\ gateway \in {"down", "up", "stopped"}
    /\ DOMAIN store \subseteq Jobs /\ \A j \in DOMAIN store : store[j] \in Job
    /\ DOMAIN disk \subseteq Jobs /\ \A j \in DOMAIN disk : disk[j] \in [enabled : BOOLEAN]
    /\ left \in [Jobs -> Nat]
    /\ held \in [Jobs -> Job]
    /\ due \subseteq Jobs /\ current \in Jobs \cup {NoJob} /\ current \notin due
    /\ cli.op \in Commands \cup {"none"} /\ cli.job \in Jobs \cup {NoJob}
    /\ DOMAIN cli.jobs \subseteq Jobs /\ \A j \in DOMAIN cli.jobs : cli.jobs[j] \in [enabled : BOOLEAN]
    /\ runs \in [Jobs -> 0..2]
    /\ drawn \subseteq Jobs /\ off \subseteq Jobs /\ late \subseteq Jobs
    /\ ops \in 0..MaxOps /\ commands \in 0..MaxCommands /\ crashes \in 0..MaxCrashes

\* Nobody will execute job j: it has no next run and is not claimed.
Idle(j) == store[j].next = Never /\ j \notin Claimed

\* No job gets stuck: in a running service an enabled job has a next run, or its
\* present run will give it one, although a job's next run is taken away when it
\* is claimed, and the process may end or the job change before the run is over.
\* Except a job whose schedule has no next run any more.
NoJobStuck ==
    \A j \in DOMAIN store :
        store[j].enabled /\ Idle(j) => NextRuns(j, left) = {Never}

\* A job that was disabled or removed is not executed any more: not by the run it
\* was in, which ends later, nor after a restart.  Only what was claimed by then runs
\* once more.
OffStaysOff == Claimed \cap off \subseteq late

\* A one-shot job is executed at most once, even if the process dies between claim,
\* run, and removal, if it is enabled again, or if a stale copy is stored over it.
AtMostOnce == \A j \in Jobs : Kind[j] = "at" => runs[j] <= 1

\* A job that is scheduled runs in the end, if nobody switches it off and the
\* service stays up, whatever happens to the jobs that are due with it.  Except that
\* enabling a one-shot job once more when its time has come leaves it without a run.
DueJobsRun ==
    \A j \in Jobs :
        gateway = "up" /\ On(store, j) /\ store[j].next # Never
        ~> \/ current = j
           \/ gateway # "up" \/ ~On(store, j)
           \/ Idle(j) /\ NextRuns(j, left) = {Never}
=============================================================================
