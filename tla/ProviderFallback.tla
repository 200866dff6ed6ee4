-------------------------- MODULE ProviderFallback --------------------------
(***************************************************************************)
(* How a turn calls a language model: the retries of runLLMIteration       *)
(* (pkg/agent/loop.go), around the chain of candidates                     *)
(* (pkg/providers/fallback.go), around the rotation of API keys            *)
(* (auth_rotation.go), with the cooldowns of providers and of keys         *)
(* (cooldown.go).  Turns of different sessions share all of it.            *)
(*                                                                         *)
(* An error is what error_classifier.go makes of its text.  Time is        *)
(* relative, in minutes, and the two trackers are one function, since      *)
(* providers and keys have different names.                                *)
(***************************************************************************)
EXTENDS FallbackPromise, Sequences, SequencesExt, FiniteSets

CONSTANTS Turns,      \* goroutines that process messages
          Keys,       \* the API keys, in the order of the configuration
          Standard,   \* calculateStandardCooldown of 1, 2, ... errors, up to the cap
          Billing,    \* calculateBillingCooldown likewise
          Window,     \* failureWindow
          MaxRetries, \* maxRetries of runLLMIteration
          NoKey,
          MaxFailures \* bound: failed calls

Providers == ToSet(Candidates)
Profiles  == ToSet(Keys)
Tracked   == Providers \cup Profiles
LongestOf(s) == s[Len(s)]
Longest   == IF LongestOf(Standard) > LongestOf(Billing) THEN LongestOf(Standard)
             ELSE LongestOf(Billing)

ASSUME ConstantsAssumption ==
    /\ Candidates \in Seq(Providers) /\ Len(Candidates) > 1
    /\ Keys \in Seq(Profiles) /\ Len(Keys) > 1 /\ NoKey \notin Profiles
    /\ \A m, n \in DOMAIN Keys : Keys[m] = Keys[n] => m = n
    /\ Providers \cap Profiles = {}
    /\ \A s \in {Standard, Billing} :
          /\ s \in Seq(Nat \ {0}) /\ s # <<>>
          /\ \A m, n \in DOMAIN s : m <= n => s[m] <= s[n]
    /\ Window \in Nat /\ Longest <= Window
    /\ MaxRetries \in Nat /\ MaxFailures \in Nat

\* FailoverReason, and "other" for an error that is not classified.  A context error
\* is of the format kind or not classified: for the chain it is no reason to go on.
Retriable == {"rate_limit", "billing", "timeout"}
Errors    == Retriable \cup {"context", "other"}

VARIABLES
    order,   \* lastUsed: the keys, the one used longest ago first
    failures \* number of failed calls

vars == <<entry, order, turn, failures, burnt, passed>>

Idle == [pc |-> "idle", at |-> 1, key |-> NoKey, error |-> "none", slow |-> FALSE, retry |-> 0]

\* errors and bills are counted no further than makes a difference; age is the time
\* since LastFailure, up to past the window; cool and disabled are what is left until
\* CooldownEnd and DisabledUntil.
Fresh == [errors |-> 0, bills |-> 0, age |-> Window + 1, cool |-> 0, disabled |-> 0]

\* IsAvailable.
Available(x) == entry[x].cool = 0 /\ entry[x].disabled = 0

Init == /\ entry = [x \in Tracked |-> Fresh]
        /\ order = Keys
        /\ turn = [t \in Turns |-> Idle]
        /\ failures = 0
        /\ burnt = [t \in Turns |-> {}]
        /\ passed = [k \in Profiles |-> [j \in Profiles |-> 0]]

-----------------------------------------------------------------------------
(* CooldownTracker.                                                        *)

Counted(n, s) == IF n < Len(s) THEN n + 1 ELSE n

\* Mutant of Failed: one field for both cooldowns, so that the later one overwrites.
FailedOverwrites(e, reason) ==
    LET errors == Counted(e.errors, Standard)
        bills  == IF reason = "billing" THEN Counted(e.bills, Billing) ELSE e.bills
    IN  [errors   |-> errors,
         bills    |-> bills,
         age      |-> 0,
         cool     |-> IF reason = "billing" THEN 0 ELSE Standard[errors],
         disabled |-> IF reason = "billing" THEN Billing[bills] ELSE 0]

\* MarkFailure: counts, from zero if the last failure is too long ago, and cools down.
Failed(e, reason) ==
    LET forgets == e.age > Window
        errors  == Counted(IF forgets THEN 0 ELSE e.errors, Standard)
        billed  == IF forgets THEN 0 ELSE e.bills
        bills   == IF reason = "billing" THEN Counted(billed, Billing) ELSE billed
    IN  [errors   |-> errors,
         bills    |-> bills,
         age      |-> 0,
         cool     |-> IF reason = "billing" THEN e.cool ELSE Standard[errors],
         disabled |-> IF reason = "billing" THEN Billing[bills] ELSE e.disabled]

\* MarkSuccess: clears all but LastFailure.
Succeeded(e) == [Fresh EXCEPT !.age = e.age]

Left(n) == IF n = 0 THEN 0 ELSE n - 1

\* A minute goes by.
Tick ==
    /\ entry' = [x \in Tracked |->
                    [entry[x] EXCEPT !.age = IF @ > Window THEN @ ELSE @ + 1,
                                     !.cool = Left(@), !.disabled = Left(@)]]
    /\ burnt' = [t \in Turns |-> {}]
    /\ UNCHANGED <<order, turn, failures, passed>>

-----------------------------------------------------------------------------
(* FallbackChain.Execute.                                                  *)

Provider(t) == Candidates[turn[t].at]
AtLast(t)     == turn[t].at = Len(Candidates)

\* The call of t is on to the next candidate, or out of them; timedOut says whether
\* this one has timed out.
ToNext(t, timedOut) ==
    turn' = [turn EXCEPT ![t].pc = IF AtLast(t) THEN "exhausted" ELSE "candidate",
                         ![t].at = IF AtLast(t) THEN @ ELSE @ + 1,
                         ![t].error = "none",
                         ![t].slow = @ \/ timedOut]

\* A turn calls the model.
Begin(t) ==
    /\ turn[t].pc = "idle"
    /\ turn' = [turn EXCEPT ![t].pc = "candidate"]
    /\ UNCHANGED <<entry, order, failures, burnt, passed>>

\* A candidate in cooldown is skipped.
Skip(t) ==
    /\ turn[t].pc = "candidate" /\ ~Available(Provider(t))
    /\ ToNext(t, FALSE)
    /\ UNCHANGED <<entry, order, failures, burnt, passed>>

\* Mutant of Try: the cooldown of the first candidate is not looked at.
TryFirst(t) ==
    /\ turn[t].pc = "candidate" /\ (turn[t].at = 1 \/ Available(Provider(t)))
    /\ turn' = [turn EXCEPT ![t].pc = "choose"]
    /\ UNCHANGED <<entry, order, failures, burnt, passed>>

Try(t) ==
    /\ turn[t].pc = "candidate" /\ Available(Provider(t))
    /\ turn' = [turn EXCEPT ![t].pc = "choose"]
    /\ UNCHANGED <<entry, order, failures, burnt, passed>>

\* AuthRotator.NextAvailable chooses k: of the keys out of cooldown, the one that was
\* used longest ago.
Chosen(k) ==
    /\ Available(k)
    /\ \A j \in Profiles : Available(j) =>
           j = k \/ \E m, n \in DOMAIN order : m < n /\ order[m] = k /\ order[n] = j

\* Key k is chosen: one more passes each other key that is free.
Pass(k) ==
    passed' = [j \in Profiles |->
                  IF j = k THEN [i \in Profiles |-> 0]
                  ELSE IF Available(j) /\ passed[j][k] < 2 THEN [passed[j] EXCEPT ![k] = @ + 1]
                  ELSE passed[j]]

\* Mutant of Choose: the time of use is not kept.
ChooseFirst(t, k) ==
    /\ turn[t].pc = "choose" /\ Chosen(k)
    /\ turn' = [turn EXCEPT ![t].pc = "call", ![t].key = k]
    /\ Pass(k)
    /\ UNCHANGED <<entry, order, failures, burnt>>

\* AuthRotatingProvider.Chat calls with key k.
Choose(t, k) ==
    /\ turn[t].pc = "choose" /\ Chosen(k)
    /\ turn' = [turn EXCEPT ![t].pc = "call", ![t].key = k]
    /\ \E i \in DOMAIN order : order[i] = k /\ order' = Append(RemoveAt(order, i), k)
    /\ Pass(k)
    /\ UNCHANGED <<entry, failures, burnt>>

\* All keys are in cooldown: an error that the classifier does not know.
NoKeyLeft(t) ==
    /\ turn[t].pc = "choose" /\ \A k \in Profiles : ~Available(k)
    /\ turn' = [turn EXCEPT ![t].pc = "failed", ![t].error = "other"]
    /\ UNCHANGED <<entry, order, failures, burnt, passed>>

\* The call fails: the key is marked, and later the provider.
CallFails(t, e) ==
    /\ failures < MaxFailures
    /\ failures' = failures + 1
    /\ turn[t].pc = "call"
    /\ turn' = [turn EXCEPT ![t].pc = "failed", ![t].error = e, ![t].key = NoKey]
    /\ entry' = IF e \in Retriable THEN [entry EXCEPT ![turn[t].key] = Failed(@, e)] ELSE entry
    /\ UNCHANGED <<order, burnt, passed>>

FallBack(t) ==
    /\ turn[t].pc = "failed" /\ turn[t].error \in Retriable
    /\ ToNext(t, turn[t].error = "timeout")
    /\ entry' = [entry EXCEPT ![Provider(t)] = Failed(@, turn[t].error)]
    /\ burnt' = [burnt EXCEPT ![t] = @ \cup {Provider(t)}]
    /\ UNCHANGED <<order, failures, passed>>

\* Any other error ends Execute.
GiveUp(t) ==
    /\ turn[t].pc = "failed" /\ turn[t].error \notin Retriable
    /\ turn' = [turn EXCEPT ![t].pc = "error"]
    /\ UNCHANGED <<entry, order, failures, burnt, passed>>

\* The call succeeds: the key is cleared, and then the provider, for all turns.
CallSucceeds(t) ==
    /\ turn[t].pc = "call"
    /\ turn' = [turn EXCEPT ![t].pc = "answered", ![t].key = NoKey]
    /\ entry' = [entry EXCEPT ![turn[t].key] = Succeeded(@)]
    /\ UNCHANGED <<order, failures, burnt, passed>>

Answered(t) ==
    /\ turn[t].pc = "answered"
    /\ turn' = [turn EXCEPT ![t] = Idle]
    /\ entry' = [entry EXCEPT ![Provider(t)] = Succeeded(@)]
    /\ burnt' = [u \in Turns |-> IF u = t THEN {} ELSE burnt[u] \ {Provider(t)}]
    /\ UNCHANGED <<order, failures, passed>>

-----------------------------------------------------------------------------
(* runLLMIteration: the whole Execute once more after a timeout, which it  *)
(* finds in the text of the aggregate error, or after compressing.         *)

Again(t) ==
    \/ turn[t].pc = "exhausted" /\ turn[t].slow
    \/ turn[t].pc = "error" /\ turn[t].error = "context"

Retry(t) ==
    /\ Again(t) /\ turn[t].retry < MaxRetries
    /\ turn' = [turn EXCEPT ![t] = [Idle EXCEPT !.pc = "candidate", !.retry = turn[t].retry + 1]]
    /\ UNCHANGED <<entry, order, failures, burnt, passed>>

Stops(t) == /\ turn' = [turn EXCEPT ![t] = Idle]
            /\ burnt' = [burnt EXCEPT ![t] = {}]
            /\ UNCHANGED <<entry, order, failures, passed>>

\* The turn fails.
TurnFails(t) ==
    /\ turn[t].pc \in {"exhausted", "error"}
    /\ Again(t) => turn[t].retry = MaxRetries
    /\ Stops(t)

\* The context is cancelled: Execute returns at once, and marks nothing more.
Cancel(t) ==
    /\ turn[t].pc \in {"candidate", "failed"}
    /\ Stops(t)

Turn(t) == \/ Begin(t) \/ Skip(t) \/ Try(t) \/ NoKeyLeft(t) \/ FallBack(t) \/ GiveUp(t)
           \/ CallSucceeds(t) \/ Answered(t) \/ Retry(t) \/ TurnFails(t) \/ Cancel(t)
           \/ \E k \in Profiles : Choose(t, k)
           \/ \E e \in Errors : CallFails(t, e)

Next == Tick \/ \E t \in Turns : Turn(t)

Spec == Init /\ [][Next]_vars

-----------------------------------------------------------------------------
Entry == [errors : 0..Len(Standard), bills : 0..Len(Billing), age : 0..(Window + 1),
          cool : 0..Longest, disabled : 0..Longest]

Call == [pc : {"idle", "candidate", "choose", "call", "failed", "answered", "exhausted", "error"},
         at : DOMAIN Candidates, key : Profiles \cup {NoKey}, error : Errors \cup {"none"},
         slow : BOOLEAN, retry : 0..MaxRetries]

TypeOK ==
    /\ entry \in [Tracked -> Entry]
    /\ Len(order) = Len(Keys) /\ ToSet(order) = Profiles
    /\ turn \in [Turns -> Call]
    /\ \A t \in Turns : turn[t].pc = "call" <=> turn[t].key # NoKey
    /\ failures \in 0..MaxFailures
    /\ burnt \in [Turns -> SUBSET Providers]
    /\ passed \in [Profiles -> [Profiles -> 0..2]]
=============================================================================
