--------------------------- MODULE SessionHistory ---------------------------
(***************************************************************************)
(* The history of one session (pkg/session/manager.go) and those who       *)
(* change it: the turns of the agent loop, which append to it, compress    *)
(* it by force when the model's context is exceeded, and save it, and the  *)
(* summariser that runs beside them (pkg/agent/loop.go).  Each method of   *)
(* SessionManager is atomic under its lock; nothing spans two of them.     *)
(*                                                                         *)
(* A turn is a goroutine that processes messages of the session: the agent *)
(* loop, and cron, which calls it from a goroutine of its own.  What       *)
(* messages say is left out: a message is its number and its role, and a   *)
(* summary is the set of messages it tells of.                             *)
(***************************************************************************)
EXTENDS Naturals, Sequences, SequencesExt, FiniteSets

CONSTANTS Turns,          \* goroutines that process messages of the session
          KeepLast,       \* summarizeSession's 4 messages
          OneBatch,       \* summarizeSession's 10 messages
          CompressAbove,  \* forceCompression's 4 messages
          MaxRetries,     \* runLLMIteration's maxRetries
          MaxCalls,       \* bound: tool calls in one answer of the model
          MaxMsgs,        \* bound: messages ever appended
          MaxOverlap,     \* bound: while fewer were appended, turns may overlap
          MaxCrashes      \* bound: crashes

ASSUME ConstantsAssumption ==
    /\ KeepLast \in Nat \ {0} /\ OneBatch \in Nat
    /\ CompressAbove \in Nat \ {0, 1} /\ MaxRetries \in Nat
    /\ MaxCalls \in Nat /\ MaxMsgs \in Nat /\ MaxOverlap \in 0..MaxMsgs /\ MaxCrashes \in Nat
    /\ "summariser" \notin Turns

Savers == Turns \cup {"summariser"}

\* Roles: an assistant's message with tool calls is a "call", with their number.
Dialogue == {"user", "assistant", "call"}
Message  == [id: 1..MaxMsgs, role: Dialogue \cup {"tool"}, calls: 0..MaxCalls]
Said(h)  == {h[i].id : i \in {j \in DOMAIN h : h[j].role \in Dialogue}}

VARIABLES
    hist,     \* Session.Messages
    covered,  \* Session.Summary: the messages it tells of
    disk,     \* the session's file
    pc,       \* pc[p]: how far a turn or the summariser is
    copy,     \* copy[p]: what GetHistory returned to p, or p's snapshot while it saves
    old,      \* old[p]: the summary that goes with it
    retry,    \* retry[t]: retries of the current call of the model
    todo,     \* todo[t]: tool calls not executed yet; while t saves, its answer
    seen,     \* history: seen[t]: messages that t's prompt was made of
    appended, \* history: how many messages were ever appended
    gone,     \* history: messages dropped from memory, and not summarised
    raced,    \* history: the history was changed under the summariser
    saving,   \* history: saves that overlap, while any goes on
    answered, \* history: answers whose save overlapped with no other
    mixed,    \* history: two turns overlapped
    crashes   \* number of crashes

session  == <<hist, covered>>
local    == <<pc, copy, old, retry, todo>>
observed == <<seen, appended, gone, raced, saving, answered, mixed>>
vars     == <<session, disk, local, observed, crashes>>

Known    == Said(hist) \cup covered
Memory   == [hist |-> hist, covered |-> covered]
Latest   == appended + 1
Running  == {t \in Turns : pc[t] # "idle"}

Init == /\ hist = <<>> /\ covered = {}
        /\ disk = [hist |-> <<>>, covered |-> {}]
        /\ pc = [p \in Savers |-> "idle"]
        /\ copy = [p \in Savers |-> <<>>]
        /\ old = [p \in Savers |-> {}]
        /\ retry = [t \in Turns |-> 0]
        /\ todo = [t \in Turns |-> 0]
        /\ seen = [t \in Turns |-> {}]
        /\ appended = 0
        /\ gone = {}
        /\ raced = FALSE
        /\ saving = {}
        /\ answered = {}
        /\ mixed = FALSE
        /\ crashes = 0

\* Process p moves on in its program.
Goes(p, from, to) == pc[p] = from /\ pc' = [pc EXCEPT ![p] = to]

\* AddFullMessage, and what remembers that the history has changed.
Append1(role, calls) ==
    /\ appended < MaxMsgs
    /\ hist' = Append(hist, [id |-> Latest, role |-> role, calls |-> calls])
    /\ appended' = Latest
    /\ raced' = (raced \/ pc["summariser"] # "idle")

\* What a change of history or summary drops for good.
Forgets == gone' = gone \cup (Known \ (Said(hist') \cup covered'))

-----------------------------------------------------------------------------
(* SessionManager.Save: a snapshot under the lock, the file later.         *)

\* Mutant of Snapshot: the file gets the messages without the summary.
SnapshotMessages(p, from, to) ==
    /\ Goes(p, from, to)
    /\ copy' = [copy EXCEPT ![p] = hist]
    /\ old' = [old EXCEPT ![p] = {}]
    /\ saving' = saving \cup {p}

Snapshot(p, from, to) ==
    /\ Goes(p, from, to)
    /\ copy' = [copy EXCEPT ![p] = hist]
    /\ old' = [old EXCEPT ![p] = covered]
    /\ saving' = saving \cup {p}

\* os.Rename of the temporary file.  Saves that overlap may come to it in any
\* order; they count as overlapping until the last of them is through.
Rename(p, from, to) ==
    /\ Goes(p, from, to)
    /\ disk' = [hist |-> copy[p], covered |-> old[p]]
    /\ saving' = IF \E q \in Savers \ {p} : pc'[q] \in {"rename", "compress rename"}
                 THEN saving ELSE {}
    /\ copy' = [copy EXCEPT ![p] = <<>>]
    /\ old' = [old EXCEPT ![p] = {}]

-----------------------------------------------------------------------------
(* A turn.  runAgentLoop makes the prompt of the history and the summary,  *)
(* which it reads in this order, and appends the user's message.           *)

\* Mutant of Read: the summary first, then the history.
ReadSwapped(t) ==
    \/ /\ appended < IF Running = {} THEN MaxMsgs ELSE MaxOverlap
       /\ Goes(t, "idle", "read")
       /\ old' = [old EXCEPT ![t] = covered]
       /\ seen' = [seen EXCEPT ![t] = Known \ gone]
       /\ mixed' = (mixed \/ Running # {})
       /\ UNCHANGED <<session, disk, copy, retry, todo, appended, gone, raced, saving, answered, crashes>>
    \/ /\ Goes(t, "read", "prompt")
       /\ copy' = [copy EXCEPT ![t] = hist]
       /\ UNCHANGED <<session, disk, old, retry, todo, observed, crashes>>

\* GetHistory, then GetSummary.
Read(t) ==
    \/ /\ appended < IF Running = {} THEN MaxMsgs ELSE MaxOverlap
       /\ Goes(t, "idle", "read")
       /\ copy' = [copy EXCEPT ![t] = hist]
       /\ seen' = [seen EXCEPT ![t] = Known \ gone]
       /\ mixed' = (mixed \/ Running # {})
       /\ UNCHANGED <<session, disk, old, retry, todo, appended, gone, raced, saving, answered, crashes>>
    \/ /\ Goes(t, "read", "prompt")
       /\ old' = [old EXCEPT ![t] = covered]
       /\ UNCHANGED <<session, disk, copy, retry, todo, observed, crashes>>

\* AddMessage of the user's message.
AddUser(t) ==
    /\ Goes(t, "prompt", "model")
    /\ Append1("user", 0)
    /\ retry' = [retry EXCEPT ![t] = 0]
    /\ copy' = [copy EXCEPT ![t] = <<>>]
    /\ old' = [old EXCEPT ![t] = {}]
    /\ seen' = [seen EXCEPT ![t] = {}]
    /\ UNCHANGED <<covered, disk, todo, gone, saving, answered, mixed, crashes>>

\* The model answers, or the iterations are used up: the answer is appended.
Answer(t) ==
    /\ Goes(t, "model", "save")
    /\ Append1("assistant", 0)
    /\ todo' = [todo EXCEPT ![t] = Latest]
    /\ UNCHANGED <<covered, disk, copy, old, retry, seen, gone, saving, answered, mixed, crashes>>

\* The model calls n tools.
CallTools(t, n) ==
    /\ Goes(t, "model", "tools")
    /\ Append1("call", n)
    /\ todo' = [todo EXCEPT ![t] = n]
    /\ UNCHANGED <<covered, disk, copy, old, retry, seen, gone, saving, answered, mixed, crashes>>

\* One tool has run; after the last one the model is called again.
ToolResult(t) ==
    /\ Goes(t, "tools", IF todo[t] = 1 THEN "model" ELSE "tools")
    /\ Append1("tool", 0)
    /\ todo' = [todo EXCEPT ![t] = @ - 1]
    /\ retry' = [retry EXCEPT ![t] = IF todo[t] = 1 THEN 0 ELSE @]
    /\ UNCHANGED <<covered, disk, copy, old, seen, gone, saving, answered, mixed, crashes>>

\* The call of the model times out and is made again.
Timeout(t) ==
    /\ pc[t] = "model"
    /\ retry[t] < MaxRetries
    /\ retry' = [retry EXCEPT ![t] = @ + 1]
    /\ UNCHANGED <<session, disk, pc, copy, old, todo, observed, crashes>>

\* It fails for good: the turn ends and saves nothing.
Fail(t) ==
    /\ Goes(t, "model", "idle")
    /\ UNCHANGED <<session, disk, copy, old, retry, todo, observed, crashes>>

-----------------------------------------------------------------------------
(* forceCompression, when the model complains of the context.              *)

\* GetHistory.
CompressRead(t) ==
    /\ retry[t] < MaxRetries
    /\ Goes(t, "model", IF Len(hist) <= CompressAbove THEN "compressed" ELSE "compress")
    /\ copy' = [copy EXCEPT ![t] = hist]
    /\ UNCHANGED <<session, disk, old, retry, todo, observed, crashes>>

\* The first message, the second half of the conversation, the last message.
Compressed(h) ==
    LET conversation == SubSeq(h, 2, Len(h) - 1)
        mid          == Len(conversation) \div 2
    IN  <<h[1]>> \o SubSeq(conversation, mid + 1, Len(conversation)) \o <<h[Len(h)]>>

\* SetHistory.
CompressSet(t) ==
    /\ Goes(t, "compress", "compress save")
    /\ hist' = Compressed(copy[t])
    /\ raced' = (raced \/ pc["summariser"] # "idle")
    /\ UNCHANGED covered
    /\ Forgets
    /\ UNCHANGED <<disk, copy, old, retry, todo, seen, appended, saving, answered, mixed, crashes>>

CompressSave(t) ==
    /\ \/ Snapshot(t, "compress save", "compress rename") /\ UNCHANGED disk
       \/ Rename(t, "compress rename", "compressed")
    /\ UNCHANGED <<session, retry, todo, seen, appended, gone, raced, answered, mixed, crashes>>

\* The prompt is made anew and the model called again.
Rebuild(t) ==
    /\ Goes(t, "compressed", "model")
    /\ retry' = [retry EXCEPT ![t] = @ + 1]
    /\ copy' = [copy EXCEPT ![t] = <<>>]
    /\ UNCHANGED <<session, disk, old, todo, observed, crashes>>

-----------------------------------------------------------------------------
(* The end of a turn: Save and maybeSummarize.                             *)

SaveTurn(t) ==
    \/ /\ Snapshot(t, "save", "rename")
       /\ UNCHANGED <<session, disk, retry, todo, seen, appended, gone, raced, answered, mixed, crashes>>
    \/ /\ Rename(t, "rename", "saved")
       /\ answered' = IF saving = {t} THEN answered \cup {todo[t]} ELSE answered
       /\ todo' = [todo EXCEPT ![t] = 0]
       /\ UNCHANGED <<session, retry, seen, appended, gone, raced, mixed, crashes>>

\* A summariser is started when the messages are many or long, unless one is at
\* work on the session.  How long they are is left open, and so is the condition.
MaybeSummarise(t) ==
    /\ pc[t] = "saved"
    /\ \/ pc' = [pc EXCEPT ![t] = "idle"]
       \/ /\ pc["summariser"] = "idle"
          /\ pc' = [pc EXCEPT ![t] = "idle", !["summariser"] = "read"]
    /\ UNCHANGED <<session, disk, copy, old, retry, todo, observed, crashes>>

-----------------------------------------------------------------------------
(* summarizeSession.  Nobody but the summariser sets the summary, so its   *)
(* two reads are one step.                                                 *)

SummariserReads ==
    /\ Goes("summariser", "read", IF Len(hist) <= KeepLast THEN "idle" ELSE "ask")
    /\ copy' = [copy EXCEPT !["summariser"] = IF Len(hist) <= KeepLast THEN <<>> ELSE hist]
    /\ old' = [old EXCEPT !["summariser"] = covered]
    /\ raced' = FALSE
    /\ UNCHANGED <<session, disk, retry, todo, seen, appended, gone, saving, answered, mixed, crashes>>

ToSummarise == LET h == copy["summariser"] IN SubSeq(h, 1, Len(h) - KeepLast)

\* The messages of h that a summary is made of, in halves.
Halves(h) == LET valid == {i \in DOMAIN h : h[i].role \in Dialogue}
                 first == {i \in valid : Cardinality({j \in valid : j <= i}) <= Cardinality(valid) \div 2}
             IN  {{h[i].id : i \in first}, {h[i].id : i \in valid \ first}}

\* What the summary may tell of.  A few messages are summarised together with
\* the summary there was.  Many are summarised in two batches without it, and
\* a batch that fails is an empty string.
Summaries == LET valid == Said(ToSummarise) IN
             IF Cardinality(valid) > OneBatch
             THEN {UNION s : s \in SUBSET Halves(ToSummarise)}
             ELSE {old["summariser"] \cup valid}

\* The model answers: a summary that is not empty is set, ...
SetSummary ==
    /\ Said(ToSummarise) # {}
    /\ Goes("summariser", "ask", "truncate")
    /\ covered' \in Summaries
    /\ UNCHANGED hist
    /\ Forgets
    /\ UNCHANGED <<disk, copy, old, retry, todo, seen, appended, raced, saving, answered, mixed, crashes>>

\* ... or there is nothing to summarise, or what came back is empty.
NoSummary ==
    /\ Goes("summariser", "ask", "idle")
    /\ copy' = [copy EXCEPT !["summariser"] = <<>>]
    /\ UNCHANGED <<session, disk, old, retry, todo, observed, crashes>>

\* Mutant of Truncate: one message fewer is kept than was left out of the summary.
TruncateMore ==
    /\ Goes("summariser", "truncate", "save")
    /\ hist' = IF Len(hist) <= KeepLast - 1 THEN hist
               ELSE SubSeq(hist, Len(hist) - KeepLast + 2, Len(hist))
    /\ UNCHANGED covered
    /\ Forgets
    /\ UNCHANGED <<disk, copy, old, retry, todo, seen, appended, raced, saving, answered, mixed, crashes>>

\* TruncateHistory of the history there is by now.
Truncate ==
    /\ Goes("summariser", "truncate", "save")
    /\ hist' = IF Len(hist) <= KeepLast THEN hist
               ELSE SubSeq(hist, Len(hist) - KeepLast + 1, Len(hist))
    /\ UNCHANGED covered
    /\ Forgets
    /\ UNCHANGED <<disk, copy, old, retry, todo, seen, appended, raced, saving, answered, mixed, crashes>>

SummariserSaves ==
    /\ \/ Snapshot("summariser", "save", "rename") /\ UNCHANGED disk
       \/ Rename("summariser", "rename", "idle")
    /\ UNCHANGED <<session, retry, todo, seen, appended, gone, raced, answered, mixed, crashes>>

-----------------------------------------------------------------------------
\* The process dies and is started again: loadSessions reads the file.
Crash ==
    /\ crashes < MaxCrashes
    /\ crashes' = crashes + 1
    /\ hist' = disk.hist
    /\ covered' = disk.covered
    /\ pc' = [p \in Savers |-> "idle"]
    /\ copy' = [p \in Savers |-> <<>>]
    /\ old' = [p \in Savers |-> {}]
    /\ retry' = [t \in Turns |-> 0]
    /\ todo' = [t \in Turns |-> 0]
    /\ seen' = [t \in Turns |-> {}]
    /\ raced' = FALSE
    /\ saving' = {}
    /\ UNCHANGED <<disk, appended, gone, answered, mixed>>

Turn(t) == \/ Read(t) \/ AddUser(t)
           \/ Answer(t) \/ ToolResult(t) \/ Timeout(t) \/ Fail(t)
           \/ \E n \in 1..MaxCalls : CallTools(t, n)
           \/ CompressRead(t) \/ CompressSet(t) \/ CompressSave(t) \/ Rebuild(t)
           \/ SaveTurn(t) \/ MaybeSummarise(t)

Summariser == \/ SummariserReads \/ SetSummary \/ NoSummary \/ Truncate \/ SummariserSaves

Next == Summariser \/ Crash \/ \E t \in Turns : Turn(t)

Spec == Init /\ [][Next]_vars

-----------------------------------------------------------------------------
(* What a prompt is made of: BuildMessages drops from the history what     *)
(* would make a provider refuse it.                                        *)

\* Mutant of Kept: a result is dropped only where it leads.
KeptTool(s, m) ==
    \/ m.role \in {"user", "assistant"}
    \/ m.role = "call" /\ s # <<>> /\ Last(s).role \in {"user", "tool"}
    \/ m.role = "tool" /\ s # <<>>

\* Whether message m is kept behind what was kept so far.
Kept(s, m) ==
    \/ m.role \in {"user", "assistant"}
    \/ m.role = "call" /\ s # <<>> /\ Last(s).role \in {"user", "tool"}
    \/ /\ m.role = "tool"
       /\ \E i \in DOMAIN s : s[i].role = "call" /\ \A j \in (i + 1)..Len(s) : s[j].role = "tool"

\* The history is gone through once; kept[n] is what is kept of its first n messages.
Sanitised(h) ==
    LET kept[n \in 0..Len(h)] ==
            IF n = 0 THEN <<>>
            ELSE LET s == kept[n - 1] IN IF Kept(s, h[n]) THEN Append(s, h[n]) ELSE s
    IN  kept[Len(h)]

\* Each call is followed by all its results, and no result stands elsewhere.
WellFormed(h) ==
    /\ \A i \in DOMAIN h : h[i].role = "call" =>
           \A k \in 1..h[i].calls : i + k \in DOMAIN h /\ h[i + k].role = "tool"
    /\ \A i \in DOMAIN h : h[i].role = "tool" =>
           \E j \in 1..(i - 1) : h[j].role = "call" /\ i <= j + h[j].calls

-----------------------------------------------------------------------------
TurnStates == {"idle", "read", "prompt", "model", "tools", "compress", "compress save",
               "compress rename", "compressed", "save", "rename", "saved"}
SummariserStates == {"idle", "read", "ask", "truncate", "save", "rename"}

TypeOK ==
    /\ hist \in Seq(Message)
    /\ covered \subseteq 1..MaxMsgs
    /\ disk \in [hist : Seq(Message), covered : SUBSET (1..MaxMsgs)]
    /\ pc \in [Savers -> TurnStates \cup SummariserStates]
    /\ (\A t \in Turns : pc[t] \in TurnStates) /\ pc["summariser"] \in SummariserStates
    /\ copy \in [Savers -> Seq(Message)]
    /\ old \in [Savers -> SUBSET (1..MaxMsgs)]
    /\ retry \in [Turns -> 0..MaxRetries]
    /\ todo \in [Turns -> 0..(MaxMsgs + MaxCalls)]
    /\ seen \in [Turns -> SUBSET (1..MaxMsgs)]
    /\ appended \in 0..MaxMsgs
    /\ gone \subseteq 1..MaxMsgs /\ answered \subseteq 1..MaxMsgs
    /\ saving \subseteq Savers
    /\ raced \in BOOLEAN /\ mixed \in BOOLEAN
    /\ crashes \in 0..MaxCrashes

\* A prompt misses nothing of what was known when it was begun, although the
\* history and the summary are read one after the other and a summariser moves
\* messages from one to the other meanwhile: it sets the summary before it
\* truncates, and readers look at the history first.  (Not so with two turns at
\* once: a compression may put back messages that a summary has replaced.)
PromptSeesAll ==
    ~mixed => \A t \in Turns : pc[t] = "prompt" =>
        seen[t] \ gone \subseteq Said(copy[t]) \cup old[t]

\* What the provider gets is well-formed: wherever truncating and compressing have
\* cut the history, no call in the prompt lacks its results, no result its call.
\* (Not so after a crash between a call and its results, or with two turns at once.)
CallsAnswered ==
    ~mixed /\ crashes = 0 /\ (\A t \in Turns : pc[t] # "tools") => WellFormed(Sanitised(hist))

\* An answer whose turn was saved survives a crash, unless it was dropped on
\* purpose; saves that overlap may write an older file over a newer one.
Durable == answered \subseteq Said(disk.hist) \cup disk.covered \cup gone

\* When all messages went into one batch and nobody changed the history meanwhile,
\* summarising forgets nothing: not the earlier summary, nor a message between
\* those that were summarised and those that are kept.
SummaryKeepsAll ==
    [][ (SetSummary \/ Truncate) /\ ~raced /\ Cardinality(Said(ToSummarise)) <= OneBatch
        => gone' = gone ]_vars
=============================================================================
