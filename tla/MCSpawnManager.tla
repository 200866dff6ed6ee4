--------------------------- MODULE MCSpawnManager ---------------------------
(***************************************************************************)
(* SpawnManager for TLC: three requests of one task or of two, a handoff,  *)
(* and what comments of the repository say of the deduplication and of the *)
(* limit.                                                                  *)
(***************************************************************************)
EXTENDS SpawnManager

CONSTANTS r1, r2, r3, h1, first, other

OneTask  == [r \in Requests |-> first]
TwoTasks == [r \in Requests |-> IF r = r3 THEN other ELSE first]

\* pkg/multiagent/dedup.go:52: Check returns true if the key has already been
\* processed.  So a request is turned away as a duplicate only if an earlier one
\* with its key was accepted, or is about to be.
DuplicateOfSpawn ==
    \A r \in Requests : spc[r] = "duplicate" =>
       \E o \in Requests \ {r} : /\ KeyOf[o] = KeyOf[r]
                                 /\ spc[o] \notin {"idle", "denied", "duplicate", "full"}

\* pkg/multiagent/spawn.go:67: the semaphore "limits concurrent children per session".
\* Spawned children only: a handoff is one more in the count of active children.
ActiveWithinLimit == \A p \in Sessions : ActiveChildCount(p) <= MaxChildren
=============================================================================
