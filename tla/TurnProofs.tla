----------------------------- MODULE TurnProofs -----------------------------
(***************************************************************************)
(* What is proved of the turns of the agent loop: how their calls of the   *)
(* model spare keys and providers that failed (ProviderFallback, here the  *)
(* instance F), what becomes of the history of their session               *)
(* (SessionHistory), and how they are answered (AgentLoop, the instance A).*)
(* Each part has an invariant of its own, FallbackInv, HistoryInv (with    *)
(* Complete, which adds how a history is built) and AnswerInv (with        *)
(* Sessions, which adds what keys a message may have), and none uses       *)
(* another's.  What the proofs show is stated in SessionHistory and in the *)
(* two promises.                                                           *)
(*                                                                         *)
(* An assumption of an instance is not one of the module that makes it:    *)
(* the theorems of F and A have it as their hypothesis.                    *)
(***************************************************************************)
EXTENDS SessionHistory, FallbackPromise, ReplyPromise, FiniteSetTheorems, SequenceTheorems,
        WellFoundedInduction, TLAPS

CONSTANTS Keys, Standard, Billing, Window, NoKey, MaxFailures
VARIABLES order, failures
F == INSTANCE ProviderFallback

\* RoundCalls is AgentLoop's MaxCalls, a bound for each of the three rounds.
CONSTANTS Note, CronJob, HeartbeatChat, Configs, Cap, RoundCalls, MaxArrivals, MaxOthers
VARIABLES inbound, arrived, round, tool, others, disturbed
A == INSTANCE AgentLoop WITH MaxCalls <- RoundCalls

-----------------------------------------------------------------------------
(* ProviderFallback: its invariant.                                        *)

\* What is left of a cooldown is what its length was, less the time since.
Capped(left, age, s, n) == left > 0 => n > 0 /\ left + age <= s[n]

Ladder ==
    \A x \in F!Tracked :
        /\ Capped(entry[x].cool, entry[x].age, Standard, entry[x].errors)
        /\ Capped(entry[x].disabled, entry[x].age, Billing, entry[x].bills)

\* A provider that has failed a turn this minute is in cooldown.
Burnt == \A t \in Turns : \A x \in burnt[t] : ~F!Available(x)

Distinct(s) == \A m, n \in DOMAIN s : s[m] = s[n] => m = n

InTurn == order \in Seq(F!Profiles) /\ Distinct(order)

Before(s, k, j) == \E m, n \in DOMAIN s : m < n /\ s[m] = k /\ s[n] = j

\* A key that has passed another stands behind it.
Passes == \A k, j \in F!Profiles : passed[k][j] > 0 => Before(order, k, j)

\* The promises, by turns and keys.
Spared   == \A t \in Turns : turn[t].pc \in {"choose", "call"} => F!Provider(t) \notin burnt[t]
Rotating == \A k, j \in F!Profiles : passed[k][j] <= 1

FallbackInv == F!TypeOK /\ Ladder /\ Burnt /\ Spared /\ InTurn /\ Passes /\ Rotating

-----------------------------------------------------------------------------
(* Numbers and sequences.                                                  *)

\* Induction up to a number, for a set of numbers.
LEMMA Steps ==
    ASSUME NEW N \in Nat, NEW S, 0 \in S, \A n \in 0..(N - 1) : n \in S => n + 1 \in S
    PROVE  \A n \in 0..N : n \in S
<1> DEFINE T == {n \in Nat : n <= N /\ n \notin S}
<1> SUFFICES ASSUME T # {} PROVE FALSE
  OBVIOUS
<1>1. PICK x \in T : \A y \in T : <<y, x>> \notin OpToRel(<, Nat)
  BY NatLessThanWellFounded, WFMin
<1>2. x \in Nat /\ x <= N /\ x \notin S /\ x # 0
  BY <1>1
<1>3. x - 1 \in 0..(N - 1) /\ x - 1 \in Nat /\ x - 1 + 1 = x /\ x - 1 < x
  BY <1>2
<1>4. x - 1 \notin S
  BY <1>2, <1>3
<1>5. x - 1 \in T
  BY <1>2, <1>3, <1>4
<1>6. <<x - 1, x>> \in OpToRel(<, Nat)
  BY <1>2, <1>3 DEF OpToRel
<1> QED
  BY <1>1, <1>5, <1>6

\* The first n elements, and the others.
LEMMA Parts ==
    ASSUME NEW S, NEW h \in Seq(S), NEW n \in 0..Len(h)
    PROVE  LET a == SubSeq(h, 1, n)  b == SubSeq(h, n + 1, Len(h)) IN
           /\ a \in Seq(S) /\ Len(a) = n /\ \A i \in 1..n : a[i] = h[i]
           /\ b \in Seq(S) /\ Len(b) = Len(h) - n /\ \A i \in 1..(Len(h) - n) : b[i] = h[n + i]
<1> DEFINE a == SubSeq(h, 1, n)
           b == SubSeq(h, n + 1, Len(h))
<1>1. Len(h) \in Nat /\ n \in Nat /\ n <= Len(h) /\ \A i \in 1..Len(h) : h[i] \in S
  <2>1. Len(h) \in Nat
    BY LenProperties
  <2>2. \A i \in 1..Len(h) : h[i] \in S
    BY ElementOfSeq
  <2> QED
    BY <2>1, <2>2
<1>2. a \in Seq(S) /\ Len(a) = n /\ \A i \in 1..n : a[i] = h[i]
  <2>1. 1 \in Int /\ n \in Int /\ \A i \in 1..n : h[i] \in S
    BY <1>1
  <2>2. /\ a \in Seq(S) /\ Len(a) = IF 1 <= n THEN n - 1 + 1 ELSE 0
        /\ \A i \in 1..(n - 1 + 1) : a[i] = h[1 + i - 1]
    BY <2>1, SubSeqProperties
  <2> HIDE DEF a
  <2>3. Len(a) = n
    BY <2>2, <1>1
  <2>4. ASSUME NEW i \in 1..n PROVE a[i] = h[i]
    <3>1. i \in 1..(n - 1 + 1) /\ 1 + i - 1 = i
      BY <1>1
    <3> QED
      BY <2>2, <3>1
  <2> QED
    BY <2>2, <2>3, <2>4
<1>3. b \in Seq(S) /\ Len(b) = Len(h) - n /\ \A i \in 1..(Len(h) - n) : b[i] = h[n + i]
  <2>1. n + 1 \in Int /\ Len(h) \in Int /\ \A i \in (n + 1)..Len(h) : h[i] \in S
    BY <1>1
  <2>2. /\ b \in Seq(S) /\ Len(b) = IF n + 1 <= Len(h) THEN Len(h) - (n + 1) + 1 ELSE 0
        /\ \A i \in 1..(Len(h) - (n + 1) + 1) : b[i] = h[n + 1 + i - 1]
    BY <2>1, SubSeqProperties
  <2> HIDE DEF b
  <2>3. Len(b) = Len(h) - n
    BY <1>1, <2>2
  <2>4. ASSUME NEW i \in 1..(Len(h) - n) PROVE b[i] = h[n + i]
    <3>1. i \in 1..(Len(h) - (n + 1) + 1) /\ n + 1 + i - 1 = n + i
      BY <1>1
    <3> QED
      BY <2>2, <3>1
  <2> QED
    BY <2>2, <2>3, <2>4
<1> QED
  BY <1>2, <1>3

\* Sequences that begin with as many elements are the same if both parts are.
LEMMA Prefixed ==
    ASSUME NEW S, NEW p \in Seq(S), NEW q \in Seq(S), Len(p) = Len(q), NEW u \in Seq(S), NEW v \in Seq(S),
           p \o u = q \o v
    PROVE  p = q /\ u = v
<1>1. Len(u) = Len(v)
  BY LenProperties, ConcatProperties
<1>2. ASSUME NEW i \in 1..Len(p) PROVE p[i] = q[i]
  <2>1. (p \o u)[i] = p[i] /\ (q \o v)[i] = q[i]
    BY ConcatProperties, LenProperties
  <2> QED
    BY <2>1
<1>3. ASSUME NEW i \in 1..Len(u) PROVE u[i] = v[i]
  <2>1. /\ Len(p) + i \in (Len(p) + 1)..(Len(p) + Len(u))
        /\ (p \o u)[Len(p) + i] = u[i]
    BY ConcatProperties, LenProperties
  <2>2. (q \o v)[Len(q) + i] = v[i]
    BY <1>1, ConcatProperties, LenProperties
  <2> QED
    BY <2>1, <2>2
<1>4. p = q
  BY <1>2, SeqEqual
<1>5. u = v
  BY <1>1, <1>3, SeqEqual
<1> QED
  BY <1>4, <1>5

-----------------------------------------------------------------------------
LEMMA Constants ==
    ASSUME F!ConstantsAssumption
    PROVE  /\ F!Longest \in Nat /\ F!Longest <= Window /\ Window \in Nat
           /\ Len(Standard) \in Nat \ {0} /\ DOMAIN Standard = 1..Len(Standard)
           /\ Len(Billing) \in Nat \ {0} /\ DOMAIN Billing = 1..Len(Billing)
           /\ \A n \in 1..Len(Standard) : Standard[n] \in 1..F!Longest
           /\ \A n \in 1..Len(Billing) : Billing[n] \in 1..F!Longest
           /\ \A m, n \in 1..Len(Standard) : m <= n => Standard[m] <= Standard[n]
           /\ \A m, n \in 1..Len(Billing) : m <= n => Billing[m] <= Billing[n]
<1>1. /\ Standard \in Seq(Nat \ {0}) /\ Standard # <<>>
      /\ Billing \in Seq(Nat \ {0}) /\ Billing # <<>>
      /\ \A m, n \in DOMAIN Standard : m <= n => Standard[m] <= Standard[n]
      /\ \A m, n \in DOMAIN Billing : m <= n => Billing[m] <= Billing[n]
      /\ F!Longest <= Window /\ Window \in Nat
  BY DEF F!ConstantsAssumption
<1>2. /\ Len(Standard) \in Nat \ {0} /\ DOMAIN Standard = 1..Len(Standard)
      /\ Len(Billing) \in Nat \ {0} /\ DOMAIN Billing = 1..Len(Billing)
  BY <1>1, EmptySeq, LenProperties
<1>3. /\ \A n \in 1..Len(Standard) : Standard[n] \in Nat \ {0}
      /\ \A n \in 1..Len(Billing) : Billing[n] \in Nat \ {0}
  <2>1. \A n \in 1..Len(Standard) : Standard[n] \in Nat \ {0}
    BY <1>1, ElementOfSeq
  <2>2. \A n \in 1..Len(Billing) : Billing[n] \in Nat \ {0}
    BY <1>1, ElementOfSeq
  <2> QED
    BY <2>1, <2>2
<1>4. /\ \A m, n \in 1..Len(Standard) : m <= n => Standard[m] <= Standard[n]
      /\ \A m, n \in 1..Len(Billing) : m <= n => Billing[m] <= Billing[n]
  BY <1>1, <1>2
<1>5. /\ Standard[Len(Standard)] \in Nat /\ Billing[Len(Billing)] \in Nat
  BY <1>2, <1>3
<1>6. /\ \A n \in 1..Len(Standard) : Standard[n] <= Standard[Len(Standard)]
      /\ \A n \in 1..Len(Billing) : Billing[n] <= Billing[Len(Billing)]
  BY <1>2, <1>4
<1>7. /\ F!Longest \in Nat
      /\ Standard[Len(Standard)] <= F!Longest /\ Billing[Len(Billing)] <= F!Longest
  BY <1>5 DEF F!Longest, F!LongestOf
<1>8. \A n \in 1..Len(Standard) : Standard[n] \in 1..F!Longest
  BY <1>3, <1>5, <1>6, <1>7
<1>9. \A n \in 1..Len(Billing) : Billing[n] \in 1..F!Longest
  BY <1>3, <1>5, <1>6, <1>7
<1> QED
  BY <1>1, <1>2, <1>4, <1>7, <1>8, <1>9

LEMMA CountedFacts ==
    ASSUME F!ConstantsAssumption
    PROVE  /\ \A n \in 0..Len(Standard) :
                  LET c == F!Counted(n, Standard) IN c \in 1..Len(Standard) /\ n <= c
           /\ \A n \in 0..Len(Billing) :
                  LET c == F!Counted(n, Billing) IN c \in 1..Len(Billing) /\ n <= c
BY Constants DEF F!Counted

\* What is left of a cooldown is not above what any later count of errors gives.
LEMMA Ascends ==
    ASSUME NEW s, NEW L \in Nat, NEW W \in Nat, L <= W, NEW N \in Nat,
           \A n \in 1..N : s[n] \in 1..L,
           \A m, n \in 1..N : m <= n => s[m] <= s[n],
           NEW left \in 0..L, NEW age \in 0..(W + 1), NEW n \in 0..N, Capped(left, age, s, n),
           NEW m \in 0..N, age <= W => n <= m
    PROVE  left > 0 => m > 0 /\ left <= s[m]
<1> SUFFICES ASSUME left > 0 PROVE m > 0 /\ left <= s[m]
  OBVIOUS
<1>1. n \in 1..N /\ left + age <= s[n]
  BY DEF Capped
<1>2. s[n] \in 1..L
  BY <1>1
<1>3. age <= W /\ n <= m
  BY <1>1, <1>2
<1>4. m \in 1..N
  BY <1>1, <1>3
<1>5. s[n] <= s[m] /\ s[m] \in 1..L
  BY <1>1, <1>3, <1>4
<1> QED
  BY <1>1, <1>2, <1>4, <1>5

\* MarkFailure: the entry is in cooldown afterwards, for no shorter than before.
LEMMA FailureCools ==
    ASSUME F!ConstantsAssumption, NEW e \in F!Entry, NEW r \in F!Retriable,
           Capped(e.cool, e.age, Standard, e.errors), Capped(e.disabled, e.age, Billing, e.bills)
    PROVE  LET f == F!Failed(e, r) IN
           /\ f \in F!Entry
           /\ Capped(f.cool, f.age, Standard, f.errors) /\ Capped(f.disabled, f.age, Billing, f.bills)
           /\ f.cool > 0 \/ f.disabled > 0
           /\ F!Remaining(f) >= F!Remaining(e)
<1> DEFINE forgets == e.age > Window
           counted == IF forgets THEN 0 ELSE e.errors
           errors  == F!Counted(counted, Standard)
           billed  == IF forgets THEN 0 ELSE e.bills
           bills   == IF r = "billing" THEN F!Counted(billed, Billing) ELSE billed
           f       == F!Failed(e, r)
<1>1. /\ e.errors \in 0..Len(Standard) /\ e.bills \in 0..Len(Billing) /\ e.age \in 0..(Window + 1)
      /\ e.cool \in 0..F!Longest /\ e.disabled \in 0..F!Longest
  BY DEF F!Entry
<1>2. /\ f.errors = errors /\ f.bills = bills /\ f.age = 0
      /\ f.cool = IF r = "billing" THEN e.cool ELSE Standard[errors]
      /\ f.disabled = IF r = "billing" THEN Billing[bills] ELSE e.disabled
      /\ f = [errors |-> f.errors, bills |-> f.bills, age |-> f.age, cool |-> f.cool,
              disabled |-> f.disabled]
  BY DEF F!Failed
<1>3. /\ F!Longest \in Nat /\ F!Longest <= Window /\ Window \in Nat
      /\ Len(Standard) \in Nat \ {0} /\ Len(Billing) \in Nat \ {0}
  BY Constants
<1>4. /\ counted \in 0..Len(Standard) /\ (e.age <= Window => counted = e.errors)
      /\ billed \in 0..Len(Billing) /\ (e.age <= Window => billed = e.bills)
  <2>1. e.age \in Nat /\ 0 \in 0..Len(Standard) /\ 0 \in 0..Len(Billing)
    BY <1>1, <1>3
  <2>2. e.age <= Window => ~forgets
    BY <2>1, <1>3
  <2> HIDE DEF forgets
  <2> QED
    BY <2>1, <2>2, <1>1
<1> HIDE DEF f, counted, billed
<1>5. errors \in 1..Len(Standard) /\ (e.age <= Window => e.errors <= errors)
  BY <1>4, CountedFacts
<1>6. F!Counted(billed, Billing) \in 1..Len(Billing) /\ billed <= F!Counted(billed, Billing)
  BY <1>4, CountedFacts
<1>7. /\ bills \in 0..Len(Billing) /\ (e.age <= Window => e.bills <= bills)
      /\ r = "billing" => bills \in 1..Len(Billing)
  <2> DEFINE more == F!Counted(billed, Billing)
  <2>1. /\ more \in 1..Len(Billing) /\ billed <= more
        /\ bills = IF r = "billing" THEN more ELSE billed
    BY <1>6
  <2> HIDE DEF more, bills
  <2> QED
    BY <1>1, <1>3, <1>4, <2>1
<1> HIDE DEF errors, bills
<1>8. /\ Standard[errors] \in 1..F!Longest
      /\ r = "billing" => Billing[bills] \in 1..F!Longest
  BY <1>5, <1>7, Constants
<1>9. e.cool > 0 => e.cool <= Standard[errors]
  <2>1. errors \in 0..Len(Standard) /\ Len(Standard) \in Nat
    BY <1>3, <1>5
  <2>2. /\ \A n \in 1..Len(Standard) : Standard[n] \in 1..F!Longest
        /\ \A m, n \in 1..Len(Standard) : m <= n => Standard[m] <= Standard[n]
    BY Constants
  <2> QED
    BY <1>1, <1>3, <1>5, <2>1, <2>2, Ascends
<1>10. e.disabled > 0 => bills > 0 /\ e.disabled <= Billing[bills]
  <2>1. Len(Billing) \in Nat
    BY <1>3
  <2>2. /\ \A n \in 1..Len(Billing) : Billing[n] \in 1..F!Longest
        /\ \A m, n \in 1..Len(Billing) : m <= n => Billing[m] <= Billing[n]
    BY Constants
  <2> QED
    BY <1>1, <1>3, <1>7, <2>1, <2>2, Ascends
<1>11. /\ f.cool \in 0..F!Longest /\ f.disabled \in 0..F!Longest
       /\ f.cool >= e.cool /\ f.disabled >= e.disabled
       /\ f.cool <= Standard[errors]
       /\ f.disabled > 0 => bills > 0 /\ f.disabled <= Billing[bills]
       /\ f.cool > 0 \/ f.disabled > 0
       /\ (IF f.cool > f.disabled THEN f.cool ELSE f.disabled)
             >= (IF e.cool > e.disabled THEN e.cool ELSE e.disabled)
  <2>1. \/ f.cool = e.cool /\ f.disabled = Billing[bills] /\ r = "billing"
        \/ f.cool = Standard[errors] /\ f.disabled = e.disabled
    BY <1>2
  <2>2. r = "billing" => bills > 0
    BY <1>3, <1>7
  <2>3. PICK L, c, d, c2, d2, s, b :
            /\ L = F!Longest /\ c = e.cool /\ d = e.disabled /\ c2 = f.cool /\ d2 = f.disabled
            /\ s = Standard[errors] /\ b = Billing[bills]
    OBVIOUS
  <2>4. /\ L \in Nat /\ c \in 0..L /\ d \in 0..L /\ s \in 1..L
        /\ c > 0 => c <= s
        /\ d > 0 => bills > 0 /\ d <= b
    BY <2>3, <1>1, <1>3, <1>8, <1>9, <1>10
  <2>5. (c2 = c /\ d2 = b /\ b \in 1..L /\ bills > 0) \/ (c2 = s /\ d2 = d)
    BY <2>1, <2>2, <2>3, <1>8
  <2>6. /\ c2 \in 0..L /\ d2 \in 0..L /\ c2 >= c /\ d2 >= d /\ c2 <= s
        /\ d2 > 0 => bills > 0 /\ d2 <= b
        /\ c2 > 0 \/ d2 > 0
        /\ (IF c2 > d2 THEN c2 ELSE d2) >= (IF c > d THEN c ELSE d)
    <3>1. CASE c2 = c /\ d2 = b /\ b \in 1..L /\ bills > 0
      BY <2>4, <3>1
    <3>2. CASE c2 = s /\ d2 = d
      BY <2>4, <3>2
    <3> QED
      BY <2>5, <3>1, <3>2
  <2> QED
    BY <2>3, <2>6
<1>12. f \in F!Entry
  <2>1. f.errors \in 0..Len(Standard) /\ f.bills \in 0..Len(Billing) /\ f.age \in 0..(Window + 1)
    BY <1>2, <1>3, <1>5, <1>7
  <2> QED
    BY <2>1, <1>2, <1>11 DEF F!Entry
<1>13. Capped(f.cool, f.age, Standard, f.errors)
  <2>1. f.cool + 0 <= Standard[errors]
    BY <1>3, <1>8, <1>11
  <2> QED
    BY <2>1, <1>2, <1>5 DEF Capped
<1>14. Capped(f.disabled, f.age, Billing, f.bills)
  <2>1. \A d \in Nat : d + 0 = d
    OBVIOUS
  <2>2. f.disabled + 0 = f.disabled
    <3>1. f.disabled \in Nat
      BY <1>3, <1>11
    <3> QED
      BY <2>1, <3>1
  <2> QED
    BY <2>2, <1>2, <1>11 DEF Capped
<1>15. f.cool > 0 \/ f.disabled > 0
  BY <1>11
<1>16. F!Remaining(f) >= F!Remaining(e)
  BY <1>11 DEF F!Remaining
<1> QED
  BY <1>12, <1>13, <1>14, <1>15, <1>16 DEF f

\* MarkSuccess: nothing is left of a cooldown.
LEMMA SuccessClears ==
    ASSUME F!ConstantsAssumption, NEW e \in F!Entry
    PROVE  LET f == F!Succeeded(e) IN f \in F!Entry /\ f.cool = 0 /\ f.disabled = 0
<1>1. Window \in Nat /\ F!Longest \in Nat /\ Len(Standard) \in Nat /\ Len(Billing) \in Nat
  BY Constants
<1>2. e.age \in 0..(Window + 1)
  BY DEF F!Entry
<1>3. F!Fresh \in F!Entry /\ F!Fresh.cool = 0 /\ F!Fresh.disabled = 0
  BY <1>1 DEF F!Fresh, F!Entry
<1> DEFINE r == F!Fresh
<1> HIDE DEF r
<1>4. LET f == [r EXCEPT !.age = e.age] IN f \in F!Entry /\ f.cool = r.cool /\ f.disabled = r.disabled
  BY <1>2, <1>3 DEF F!Entry, r
<1> QED
  BY <1>3, <1>4 DEF F!Succeeded, r

\* A key that is used goes to the end, and the others stay as they were.
Moved(s, i, r) ==
    /\ Len(r) = Len(s)
    /\ \A j \in 1..Len(s) : r[j] = IF j < i THEN s[j] ELSE IF j < Len(s) THEN s[j + 1] ELSE s[i]

LEMMA MovedToEnd ==
    ASSUME NEW S, NEW s \in Seq(S), NEW i \in DOMAIN s
    PROVE  /\ Append(F!RemoveAt(s, i), s[i]) \in Seq(S)
           /\ Moved(s, i, Append(F!RemoveAt(s, i), s[i]))
<1> DEFINE a == SubSeq(s, 1, i - 1)
           b == SubSeq(s, i + 1, Len(s))
<1>1. Len(s) \in Nat /\ DOMAIN s = 1..Len(s) /\ i \in 1..Len(s) /\ \A j \in 1..Len(s) : s[j] \in S
  BY LenProperties, ElementOfSeq
<1>2. a \in Seq(S) /\ Len(a) = i - 1 /\ \A j \in 1..(i - 1) : a[j] = s[j]
  <2>1. i - 1 \in 0..Len(s)
    BY <1>1
  <2> QED
    BY <2>1, Parts
<1>3. b \in Seq(S) /\ Len(b) = Len(s) - i /\ \A j \in 1..(Len(s) - i) : b[j] = s[i + j]
  <2>1. i \in 0..Len(s)
    BY <1>1
  <2> QED
    BY <2>1, Parts
<1>4. F!RemoveAt(s, i) = a \o b
  BY DEF F!RemoveAt
<1> HIDE DEF a, b
<1>5. /\ a \o b \in Seq(S) /\ Len(a \o b) = Len(s) - 1
      /\ \A j \in 1..(Len(s) - 1) : (a \o b)[j] = IF j < i THEN s[j] ELSE s[j + 1]
  <2>1. /\ a \o b \in Seq(S) /\ Len(a \o b) = Len(a) + Len(b)
        /\ \A j \in 1..(Len(a) + Len(b)) : (a \o b)[j] = IF j <= Len(a) THEN a[j] ELSE b[j - Len(a)]
    BY <1>2, <1>3, ConcatProperties
  <2>2. Len(a) + Len(b) = Len(s) - 1
    BY <1>1, <1>2, <1>3
  <2>3. ASSUME NEW j \in 1..(Len(s) - 1) PROVE (a \o b)[j] = IF j < i THEN s[j] ELSE s[j + 1]
    <3>1. CASE j < i
      BY <3>1, <1>1, <1>2, <2>1, <2>2
    <3>2. CASE ~(j < i)
      <4>1. (a \o b)[j] = b[j - Len(a)]
        BY <3>2, <1>1, <1>2, <2>1, <2>2
      <4>2. j - Len(a) \in 1..(Len(s) - i) /\ i + (j - Len(a)) = j + 1
        BY <3>2, <1>1, <1>2
      <4> QED
        BY <3>2, <4>1, <4>2, <1>3
    <3> QED
      BY <3>1, <3>2
  <2> QED
    BY <2>1, <2>2, <2>3
<1> DEFINE c == a \o b
<1> HIDE DEF c
<1>6. /\ Append(c, s[i]) \in Seq(S) /\ Len(Append(c, s[i])) = Len(c) + 1
      /\ \A j \in 1..Len(c) : Append(c, s[i])[j] = c[j]
      /\ Append(c, s[i])[Len(c) + 1] = s[i]
  <2>1. c \in Seq(S) /\ s[i] \in S
    BY <1>1, <1>5 DEF c
  <2> QED
    BY <2>1, AppendProperties
<1> QED
  BY <1>1, <1>4, <1>5, <1>6 DEF c, Moved

-----------------------------------------------------------------------------
LEMMA FallbackInit ==
    ASSUME F!ConstantsAssumption
    PROVE  F!Init => FallbackInv
<1> SUFFICES ASSUME F!Init PROVE FallbackInv
  OBVIOUS
<1>0. /\ Candidates \in Seq(F!Providers) /\ Len(Candidates) > 1 /\ Keys \in Seq(F!Profiles)
      /\ Distinct(Keys) /\ MaxRetries \in Nat /\ MaxFailures \in Nat
  BY DEF F!ConstantsAssumption, Distinct
<1>1. /\ Window \in Nat /\ F!Longest \in Nat /\ Len(Standard) \in Nat /\ Len(Billing) \in Nat
  BY Constants
<1>2. F!Fresh \in F!Entry /\ F!Fresh.cool = 0 /\ F!Fresh.disabled = 0
  BY <1>1 DEF F!Fresh, F!Entry
<1>3. 1 \in DOMAIN Candidates
  BY <1>0, LenProperties
<1>4. F!Idle \in F!Call /\ F!Idle.pc = "idle" /\ F!Idle.key = NoKey
  BY <1>0, <1>3 DEF F!Idle, F!Call
<1>5. /\ entry = [x \in F!Tracked |-> F!Fresh] /\ order = Keys
      /\ turn = [t \in Turns |-> F!Idle] /\ failures = 0
      /\ burnt = [t \in Turns |-> {}]
      /\ passed = [k \in F!Profiles |-> [j \in F!Profiles |-> 0]]
  BY DEF F!Init
<1>6. F!TypeOK
  <2>1. entry \in [F!Tracked -> F!Entry]
    BY <1>2, <1>5
  <2>2. Len(order) = Len(Keys) /\ F!ToSet(order) = F!Profiles
    BY <1>5 DEF F!Profiles, F!ToSet
  <2>3. turn \in [Turns -> F!Call] /\ \A t \in Turns : turn[t].pc = "call" <=> turn[t].key # NoKey
    BY <1>4, <1>5
  <2>4. failures \in 0..MaxFailures /\ burnt \in [Turns -> SUBSET F!Providers]
    BY <1>0, <1>5
  <2>5. passed \in [F!Profiles -> [F!Profiles -> 0..2]]
    BY <1>5
  <2> QED
    BY <2>1, <2>2, <2>3, <2>4, <2>5 DEF F!TypeOK
<1>7. Ladder
  <2>1. \A x \in F!Tracked : entry[x].cool = 0 /\ entry[x].disabled = 0
    BY <1>2, <1>5
  <2> QED
    BY <2>1 DEF Ladder, Capped
<1>8. Burnt /\ Spared
  BY <1>4, <1>5 DEF Burnt, Spared
<1>9. InTurn
  BY <1>0, <1>5 DEF InTurn
<1>10. Passes /\ Rotating
  BY <1>5 DEF Passes, Rotating
<1> QED
  BY <1>6, <1>7, <1>8, <1>9, <1>10 DEF FallbackInv

\* What an action does to the entries: those of x become f.
LEMMA EntriesStep ==
    ASSUME entry \in [F!Tracked -> F!Entry], Ladder, NEW x \in F!Tracked, NEW f \in F!Entry,
           Capped(f.cool, f.age, Standard, f.errors), Capped(f.disabled, f.age, Billing, f.bills),
           entry' = [entry EXCEPT ![x] = f]
    PROVE  entry' \in [F!Tracked -> F!Entry] /\ Ladder'
<1>1. entry' \in [F!Tracked -> F!Entry] /\ \A y \in F!Tracked : entry'[y] = IF y = x THEN f ELSE entry[y]
  OBVIOUS
<1>2. ASSUME NEW y \in F!Tracked
      PROVE  /\ Capped(entry'[y].cool, entry'[y].age, Standard, entry'[y].errors)
             /\ Capped(entry'[y].disabled, entry'[y].age, Billing, entry'[y].bills)
  BY <1>1 DEF Ladder
<1> QED
  BY <1>1, <1>2 DEF Ladder

\* What a turn does to its own call: it becomes c.
LEMMA CallStep ==
    ASSUME turn \in [Turns -> F!Call], \A u \in Turns : turn[u].pc = "call" <=> turn[u].key # NoKey,
           NEW t \in Turns, NEW c \in F!Call, c.pc = "call" <=> c.key # NoKey,
           turn' = [turn EXCEPT ![t] = c]
    PROVE  /\ turn' \in [Turns -> F!Call]
           /\ \A u \in Turns : turn'[u].pc = "call" <=> turn'[u].key # NoKey
           /\ \A u \in Turns : turn'[u] = IF u = t THEN c ELSE turn[u]
<1>1. turn' \in [Turns -> F!Call] /\ \A u \in Turns : turn'[u] = IF u = t THEN c ELSE turn[u]
  OBVIOUS
<1> QED
  BY <1>1

LEMMA HammerStep ==
    ASSUME Spared, NEW t \in Turns,
           \A u \in Turns \ {t} : turn'[u] = turn[u] /\ burnt'[u] \subseteq burnt[u],
           turn'[t].pc \in {"choose", "call"} => Candidates[turn'[t].at] \notin burnt'[t]
    PROVE  Spared'
BY DEF Spared, F!Provider

LEMMA OrderFacts ==
    ASSUME F!TypeOK, InTurn
    PROVE  /\ Len(order) \in Nat /\ DOMAIN order = 1..Len(order)
           /\ \A i \in 1..Len(order) : order[i] \in F!Profiles
           /\ \A k \in F!Profiles : \E i \in 1..Len(order) : order[i] = k
           /\ \A m, n \in 1..Len(order) : order[m] = order[n] => m = n
<1>1. order \in Seq(F!Profiles) /\ Distinct(order) /\ F!ToSet(order) = F!Profiles
  BY DEF F!TypeOK, InTurn
<1>2. Len(order) \in Nat /\ DOMAIN order = 1..Len(order)
  BY <1>1, LenProperties
<1>3. \A i \in 1..Len(order) : order[i] \in F!Profiles
  BY <1>1, ElementOfSeq
<1> QED
  BY <1>1, <1>2, <1>3 DEF Distinct, F!ToSet

\* An action that changes but the call of its turn.
LEMMA OnlyCall ==
    ASSUME FallbackInv, NEW t \in Turns, NEW c \in F!Call, c.pc = "call" <=> c.key # NoKey,
           turn' = [turn EXCEPT ![t] = c], UNCHANGED <<entry, order, failures, burnt, passed>>,
           c.pc \in {"choose", "call"} => Candidates[c.at] \notin burnt[t]
    PROVE  FallbackInv'
<1>1. F!TypeOK'
  BY CallStep DEF FallbackInv, F!TypeOK
<1>2. \A u \in Turns : turn'[u] = IF u = t THEN c ELSE turn[u]
  BY CallStep DEF FallbackInv, F!TypeOK
<1>3. Spared'
  BY <1>2, HammerStep DEF FallbackInv
<1>4. Ladder' /\ Burnt' /\ InTurn' /\ Passes' /\ Rotating'
  BY DEF FallbackInv, Ladder, Burnt, InTurn, Passes, Rotating, F!Available
<1> QED
  BY <1>1, <1>3, <1>4 DEF FallbackInv

\* The next candidate is one, and the call has no key.
LEMMA NextFacts ==
    ASSUME F!ConstantsAssumption, F!TypeOK, NEW t \in Turns, NEW b \in BOOLEAN, turn[t].key = NoKey,
           F!ToNext(t, b)
    PROVE  \E c \in F!Call : /\ c.pc \in {"exhausted", "candidate"} /\ c.key = NoKey
                             /\ turn' = [turn EXCEPT ![t] = c]
<1>1. turn \in [Turns -> F!Call] /\ turn[t] \in F!Call
  BY DEF F!TypeOK
<1>2. Candidates \in Seq(F!Providers) /\ Len(Candidates) \in Nat /\ DOMAIN Candidates = 1..Len(Candidates)
  BY LenProperties DEF F!ConstantsAssumption
<1>3. turn[t].at \in 1..Len(Candidates) /\ turn[t].slow \in BOOLEAN
  BY <1>1, <1>2 DEF F!Call
<1>4. ~F!AtLast(t) => turn[t].at + 1 \in DOMAIN Candidates
  <2>1. ~F!AtLast(t) => turn[t].at # Len(Candidates)
    BY DEF F!AtLast
  <2>2. \A N \in Nat : \A at \in 1..N : at # N => at + 1 \in 1..N
    OBVIOUS
  <2> QED
    BY <1>2, <1>3, <2>1, <2>2
<1> DEFINE p  == IF F!AtLast(t) THEN "exhausted" ELSE "candidate"
           a  == IF F!AtLast(t) THEN turn[t].at ELSE turn[t].at + 1
           sl == turn[t].slow \/ b
           c  == [turn[t] EXCEPT !.pc = p, !.at = a, !.error = "none", !.slow = sl]
<1>5. p \in {"exhausted", "candidate"} /\ a \in DOMAIN Candidates /\ sl \in BOOLEAN
  BY <1>2, <1>3, <1>4
<1>6. turn' = [turn EXCEPT ![t] = c]
  BY <1>1 DEF F!ToNext, F!Call
<1> HIDE DEF p, a, sl
<1>7. c \in F!Call /\ c.pc = p /\ c.key = NoKey
  BY <1>1, <1>5 DEF F!Call
<1> QED
  BY <1>5, <1>6, <1>7

LEMMA TurnMoves ==
    ASSUME F!ConstantsAssumption, FallbackInv, NEW t \in Turns,
           F!Begin(t) \/ F!Skip(t) \/ F!Try(t) \/ F!NoKeyLeft(t) \/ F!GiveUp(t) \/ F!Retry(t)
    PROVE  FallbackInv'
<1>1. turn \in [Turns -> F!Call] /\ turn[t] \in F!Call /\ (turn[t].pc = "call" <=> turn[t].key # NoKey)
  BY DEF FallbackInv, F!TypeOK
<1>2. CASE F!Begin(t)
  <2> DEFINE c == [turn[t] EXCEPT !.pc = "candidate"]
  <2>1. c \in F!Call /\ c.pc = "candidate" /\ c.key = NoKey
    BY <1>1, <1>2 DEF F!Begin, F!Call
  <2>2. turn' = [turn EXCEPT ![t] = c] /\ UNCHANGED <<entry, order, failures, burnt, passed>>
    BY <1>1, <1>2 DEF F!Begin
  <2> QED
    BY <2>1, <2>2, OnlyCall
<1>3. CASE F!Skip(t)
  <2>1. turn[t].key = NoKey /\ F!ToNext(t, FALSE) /\ UNCHANGED <<entry, order, failures, burnt, passed>>
    BY <1>1, <1>3 DEF F!Skip
  <2>2. PICK c \in F!Call : /\ c.pc \in {"exhausted", "candidate"} /\ c.key = NoKey
                            /\ turn' = [turn EXCEPT ![t] = c]
    BY <2>1, NextFacts DEF FallbackInv
  <2> QED
    BY <2>1, <2>2, OnlyCall
<1>4. CASE F!Try(t)
  <2> DEFINE c == [turn[t] EXCEPT !.pc = "choose"]
  <2>1. c \in F!Call /\ c.pc = "choose" /\ c.key = NoKey /\ c.at = turn[t].at
    BY <1>1, <1>4 DEF F!Try, F!Call
  <2>2. turn' = [turn EXCEPT ![t] = c] /\ UNCHANGED <<entry, order, failures, burnt, passed>>
    BY <1>1, <1>4 DEF F!Try
  <2>3. Candidates[c.at] \notin burnt[t]
    BY <1>4, <2>1 DEF F!Try, F!Provider, FallbackInv, Burnt
  <2> QED
    BY <2>1, <2>2, <2>3, OnlyCall
<1>5. CASE F!NoKeyLeft(t)
  <2> DEFINE c == [turn[t] EXCEPT !.pc = "failed", !.error = "other"]
  <2>1. c \in F!Call /\ c.pc = "failed" /\ c.key = NoKey
    BY <1>1, <1>5 DEF F!NoKeyLeft, F!Call, F!Errors
  <2>2. turn' = [turn EXCEPT ![t] = c] /\ UNCHANGED <<entry, order, failures, burnt, passed>>
    BY <1>1, <1>5 DEF F!NoKeyLeft
  <2> QED
    BY <2>1, <2>2, OnlyCall
<1>6. CASE F!GiveUp(t)
  <2> DEFINE c == [turn[t] EXCEPT !.pc = "error"]
  <2>1. c \in F!Call /\ c.pc = "error" /\ c.key = NoKey
    BY <1>1, <1>6 DEF F!GiveUp, F!Call
  <2>2. turn' = [turn EXCEPT ![t] = c] /\ UNCHANGED <<entry, order, failures, burnt, passed>>
    BY <1>1, <1>6 DEF F!GiveUp
  <2> QED
    BY <2>1, <2>2, OnlyCall
<1>7. CASE F!Retry(t)
  <2> DEFINE c == [F!Idle EXCEPT !.pc = "candidate", !.retry = turn[t].retry + 1]
  <2>1. turn[t].retry + 1 \in 0..MaxRetries
    BY <1>1, <1>7 DEF F!Retry, F!Call, F!ConstantsAssumption
  <2>2. 1 \in DOMAIN Candidates
    BY LenProperties DEF F!ConstantsAssumption
  <2>3. c \in F!Call /\ c.pc = "candidate" /\ c.key = NoKey
    BY <2>1, <2>2 DEF F!Idle, F!Call
  <2>4. turn' = [turn EXCEPT ![t] = c] /\ UNCHANGED <<entry, order, failures, burnt, passed>>
    BY <1>7 DEF F!Retry
  <2> QED
    BY <2>3, <2>4, OnlyCall
<1> QED
  BY <1>2, <1>3, <1>4, <1>5, <1>6, <1>7

LEMMA TurnStops ==
    ASSUME F!ConstantsAssumption, FallbackInv, NEW t \in Turns, F!TurnFails(t) \/ F!Cancel(t)
    PROVE  FallbackInv'
<1>1. /\ turn' = [turn EXCEPT ![t] = F!Idle] /\ burnt' = [burnt EXCEPT ![t] = {}]
      /\ UNCHANGED <<entry, order, failures, passed>>
  BY DEF F!TurnFails, F!Cancel, F!Stops
<1>2. 1 \in DOMAIN Candidates /\ MaxRetries \in Nat
  BY LenProperties DEF F!ConstantsAssumption
<1>3. F!Idle \in F!Call /\ F!Idle.pc = "idle" /\ F!Idle.key = NoKey
  BY <1>2 DEF F!Idle, F!Call
<1>4. PICK c \in F!Call : c = F!Idle
  BY <1>3
<1>5. /\ turn' \in [Turns -> F!Call]
      /\ \A u \in Turns : turn'[u].pc = "call" <=> turn'[u].key # NoKey
      /\ \A u \in Turns : turn'[u] = IF u = t THEN c ELSE turn[u]
  BY <1>1, <1>3, <1>4, CallStep DEF FallbackInv, F!TypeOK
<1>6. /\ burnt' \in [Turns -> SUBSET F!Providers]
      /\ \A u \in Turns : burnt'[u] = IF u = t THEN {} ELSE burnt[u]
  BY <1>1 DEF FallbackInv, F!TypeOK
<1>7. F!TypeOK'
  BY <1>1, <1>5, <1>6 DEF FallbackInv, F!TypeOK
<1>8. Spared'
  BY <1>3, <1>4, <1>5, <1>6, HammerStep DEF FallbackInv
<1>9. Burnt'
  BY <1>1, <1>6 DEF FallbackInv, Burnt, F!Available
<1>10. Ladder' /\ InTurn' /\ Passes' /\ Rotating'
  BY <1>1 DEF FallbackInv, Ladder, InTurn, Passes, Rotating
<1> QED
  BY <1>7, <1>8, <1>9, <1>10 DEF FallbackInv

\* The entry of a key changes: the providers' stay as they are.
LEMMA KeyMarked ==
    ASSUME F!ConstantsAssumption, FallbackInv, NEW t \in Turns, turn[t].pc = "call",
           NEW f \in F!Entry,
           Capped(f.cool, f.age, Standard, f.errors), Capped(f.disabled, f.age, Billing, f.bills),
           entry' = [entry EXCEPT ![turn[t].key] = f] \/ entry' = entry,
           NEW c \in F!Call, c.pc \notin {"choose", "call"}, c.key = NoKey,
           turn' = [turn EXCEPT ![t] = c], failures' \in 0..MaxFailures,
           UNCHANGED <<order, burnt, passed>>
    PROVE  FallbackInv'
<1>1. turn[t].key \in F!Profiles /\ turn[t].key \notin F!Providers
  BY DEF FallbackInv, F!TypeOK, F!Call, F!ConstantsAssumption
<1>2. turn[t].key \in F!Tracked /\ F!Providers \subseteq F!Tracked
  BY <1>1 DEF F!Tracked
<1>3. entry' \in [F!Tracked -> F!Entry] /\ Ladder'
  <2>1. CASE entry' = entry
    BY <2>1 DEF FallbackInv, F!TypeOK, Ladder
  <2>2. CASE entry' = [entry EXCEPT ![turn[t].key] = f]
    <3>1. PICK x \in F!Tracked : x = turn[t].key
      BY <1>2
    <3>2. entry' = [entry EXCEPT ![x] = f]
      BY <2>2, <3>1
    <3> QED
      BY <3>2, EntriesStep DEF FallbackInv, F!TypeOK
  <2> QED
    BY <2>1, <2>2
<1>4. /\ turn' \in [Turns -> F!Call]
      /\ \A u \in Turns : turn'[u].pc = "call" <=> turn'[u].key # NoKey
      /\ \A u \in Turns : turn'[u] = IF u = t THEN c ELSE turn[u]
  BY CallStep DEF FallbackInv, F!TypeOK
<1>5. F!TypeOK'
  BY <1>3, <1>4 DEF FallbackInv, F!TypeOK
<1>6. Spared'
  BY <1>4, HammerStep DEF FallbackInv
<1>7. \A x \in F!Providers : entry'[x] = entry[x]
  BY <1>1, <1>2 DEF FallbackInv, F!TypeOK
<1>8. Burnt'
  <2>1. \A u \in Turns : burnt'[u] = burnt[u] /\ burnt[u] \subseteq F!Providers
    BY DEF FallbackInv, F!TypeOK
  <2> QED
    BY <1>7, <2>1 DEF FallbackInv, Burnt, F!Available
<1>9. InTurn' /\ Passes' /\ Rotating'
  BY DEF FallbackInv, InTurn, Passes, Rotating
<1> QED
  BY <1>3, <1>5, <1>6, <1>8, <1>9 DEF FallbackInv

LEMMA CallEnds ==
    ASSUME F!ConstantsAssumption, FallbackInv, NEW t \in Turns,
           (\E e \in F!Errors : F!CallFails(t, e)) \/ F!CallSucceeds(t)
    PROVE  FallbackInv'
<1>1. turn[t].pc = "call"
  BY DEF F!CallFails, F!CallSucceeds
<1>2. turn[t] \in F!Call /\ turn[t].key \in F!Tracked /\ turn \in [Turns -> F!Call]
  BY <1>1 DEF FallbackInv, F!TypeOK, F!Call, F!Tracked
<1>3. PICK e \in F!Entry : e = entry[turn[t].key]
  BY <1>2 DEF FallbackInv, F!TypeOK
<1>4. Capped(e.cool, e.age, Standard, e.errors) /\ Capped(e.disabled, e.age, Billing, e.bills)
  BY <1>2, <1>3 DEF FallbackInv, Ladder
<1>5. CASE F!CallSucceeds(t)
  <2>1. PICK f \in F!Entry : f = F!Succeeded(e) /\ f.cool = 0 /\ f.disabled = 0
    BY SuccessClears
  <2>2. Capped(f.cool, f.age, Standard, f.errors) /\ Capped(f.disabled, f.age, Billing, f.bills)
    BY <2>1 DEF Capped
  <2>3. PICK c \in F!Call : c = [turn[t] EXCEPT !.pc = "answered", !.key = NoKey]
    BY <1>2 DEF F!Call
  <2>4. c.pc = "answered" /\ c.key = NoKey
    BY <1>2, <2>3 DEF F!Call
  <2>5. /\ turn' = [turn EXCEPT ![t] = c] /\ entry' = [entry EXCEPT ![turn[t].key] = f]
        /\ UNCHANGED <<order, failures, burnt, passed>>
    BY <1>2, <1>3, <1>5, <2>1, <2>3 DEF F!CallSucceeds
  <2>6. failures' \in 0..MaxFailures
    BY <2>5 DEF FallbackInv, F!TypeOK
  <2> QED
    BY <1>1, <2>2, <2>4, <2>5, <2>6, KeyMarked
<1>6. CASE \E x \in F!Errors : F!CallFails(t, x)
  <2>1. PICK x \in F!Errors : F!CallFails(t, x)
    BY <1>6
  <2>2. PICK r \in F!Retriable : x \in F!Retriable => r = x
    BY DEF F!Retriable
  <2>3. PICK f \in F!Entry : /\ f = F!Failed(e, r)
                             /\ Capped(f.cool, f.age, Standard, f.errors)
                             /\ Capped(f.disabled, f.age, Billing, f.bills)
    BY <1>4, FailureCools
  <2>4. PICK c \in F!Call : c = [turn[t] EXCEPT !.pc = "failed", !.error = x, !.key = NoKey]
    BY <1>2 DEF F!Call
  <2>5. c.pc = "failed" /\ c.key = NoKey
    BY <1>2, <2>4 DEF F!Call
  <2>6. /\ turn' = [turn EXCEPT ![t] = c] /\ UNCHANGED <<order, burnt, passed>>
    BY <1>2, <2>1, <2>4 DEF F!CallFails
  <2>7. entry' = [entry EXCEPT ![turn[t].key] = f] \/ entry' = entry
    BY <1>3, <2>1, <2>2, <2>3 DEF F!CallFails
  <2>8. failures' \in 0..MaxFailures
    <3>1. failures < MaxFailures /\ failures' = failures + 1
      BY <2>1 DEF F!CallFails
    <3>2. failures \in 0..MaxFailures /\ MaxFailures \in Nat
      BY DEF FallbackInv, F!TypeOK, F!ConstantsAssumption
    <3> QED
      BY <3>1, <3>2
  <2> QED
    BY <1>1, <2>3, <2>5, <2>6, <2>7, <2>8, KeyMarked
<1> QED
  BY <1>5, <1>6

\* The entry of the provider that t has called changes, and its call ends.
LEMMA ProviderFacts ==
    ASSUME F!ConstantsAssumption, F!TypeOK, NEW t \in Turns
    PROVE  F!Provider(t) \in F!Providers /\ F!Provider(t) \in F!Tracked
<1>1. turn[t] \in F!Call
  BY DEF F!TypeOK
<1>2. turn[t].at \in DOMAIN Candidates
  BY <1>1 DEF F!Call
<1>3. Candidates[turn[t].at] \in F!Providers
  BY <1>2 DEF F!Providers, F!ToSet
<1> QED
  BY <1>3 DEF F!Provider, F!Tracked

LEMMA FallsBack ==
    ASSUME F!ConstantsAssumption, FallbackInv, NEW t \in Turns, F!FallBack(t)
    PROVE  FallbackInv'
<1>1. PICK x \in F!Tracked : x = F!Provider(t) /\ x \in F!Providers
  BY ProviderFacts DEF FallbackInv
<1>2. PICK r \in F!Retriable : r = turn[t].error
  BY DEF F!FallBack
<1>3. PICK e \in F!Entry : e = entry[x]
  BY <1>1 DEF FallbackInv, F!TypeOK
<1>4. Capped(e.cool, e.age, Standard, e.errors) /\ Capped(e.disabled, e.age, Billing, e.bills)
  BY <1>1, <1>3 DEF FallbackInv, Ladder
<1>5. PICK f \in F!Entry : /\ f = F!Failed(e, r)
                           /\ Capped(f.cool, f.age, Standard, f.errors)
                           /\ Capped(f.disabled, f.age, Billing, f.bills)
                           /\ f.cool > 0 \/ f.disabled > 0
  BY <1>4, FailureCools
<1>6. /\ entry' = [entry EXCEPT ![x] = f] /\ burnt' = [burnt EXCEPT ![t] = @ \cup {x}]
      /\ UNCHANGED <<order, failures, passed>> /\ turn[t].pc = "failed"
  BY <1>1, <1>2, <1>3, <1>5 DEF F!FallBack
<1>7. entry' \in [F!Tracked -> F!Entry] /\ Ladder'
  BY <1>5, <1>6, EntriesStep DEF FallbackInv, F!TypeOK
<1>8. PICK c \in F!Call : /\ c.pc \in {"exhausted", "candidate"} /\ c.key = NoKey
                          /\ turn' = [turn EXCEPT ![t] = c]
  <2>1. turn[t].key = NoKey
    BY <1>6 DEF FallbackInv, F!TypeOK
  <2>2. (turn[t].error = "timeout") \in BOOLEAN /\ F!ToNext(t, turn[t].error = "timeout")
    BY DEF F!FallBack
  <2>3. PICK b \in BOOLEAN : F!ToNext(t, b)
    BY <2>2
  <2> QED
    BY <2>1, <2>3, NextFacts DEF FallbackInv
<1>9. /\ turn' \in [Turns -> F!Call]
      /\ \A u \in Turns : turn'[u].pc = "call" <=> turn'[u].key # NoKey
      /\ \A u \in Turns : turn'[u] = IF u = t THEN c ELSE turn[u]
  BY <1>8, CallStep DEF FallbackInv, F!TypeOK
<1>10. /\ burnt' \in [Turns -> SUBSET F!Providers]
       /\ \A u \in Turns : burnt'[u] = IF u = t THEN burnt[t] \cup {x} ELSE burnt[u]
  BY <1>1, <1>6 DEF FallbackInv, F!TypeOK
<1>11. F!TypeOK'
  BY <1>6, <1>7, <1>9, <1>10 DEF FallbackInv, F!TypeOK
<1>12. Spared'
  BY <1>8, <1>9, <1>10, HammerStep DEF FallbackInv
<1>13. Burnt'
  <2> SUFFICES ASSUME NEW u \in Turns, NEW y \in burnt'[u]
               PROVE  ~(entry'[y].cool = 0 /\ entry'[y].disabled = 0)
    BY DEF Burnt, F!Available
  <2>1. CASE y = x
    BY <1>5, <1>6, <2>1 DEF FallbackInv, F!TypeOK
  <2>2. CASE y # x
    <3>1. y \in burnt[u] /\ entry'[y] = entry[y]
      BY <1>6, <1>10, <2>2 DEF FallbackInv, F!TypeOK, F!Tracked
    <3> QED
      BY <3>1 DEF FallbackInv, Burnt, F!Available
  <2> QED
    BY <2>1, <2>2
<1>14. InTurn' /\ Passes' /\ Rotating'
  BY <1>6 DEF FallbackInv, InTurn, Passes, Rotating
<1> QED
  BY <1>7, <1>11, <1>12, <1>13, <1>14 DEF FallbackInv

LEMMA CallAnswered ==
    ASSUME F!ConstantsAssumption, FallbackInv, NEW t \in Turns, F!Answered(t)
    PROVE  FallbackInv'
<1>1. PICK x \in F!Tracked : x = F!Provider(t) /\ x \in F!Providers
  BY ProviderFacts DEF FallbackInv
<1>2. PICK e \in F!Entry : e = entry[x]
  BY <1>1 DEF FallbackInv, F!TypeOK
<1>3. PICK f \in F!Entry : f = F!Succeeded(e) /\ f.cool = 0 /\ f.disabled = 0
  BY SuccessClears
<1>4. /\ entry' = [entry EXCEPT ![x] = f]
      /\ burnt' = [u \in Turns |-> IF u = t THEN {} ELSE burnt[u] \ {x}]
      /\ turn' = [turn EXCEPT ![t] = F!Idle] /\ UNCHANGED <<order, failures, passed>>
  BY <1>1, <1>2, <1>3 DEF F!Answered
<1>5. Capped(f.cool, f.age, Standard, f.errors) /\ Capped(f.disabled, f.age, Billing, f.bills)
  BY <1>3 DEF Capped
<1>6. entry' \in [F!Tracked -> F!Entry] /\ Ladder'
  BY <1>4, <1>5, EntriesStep DEF FallbackInv, F!TypeOK
<1>7. 1 \in DOMAIN Candidates /\ MaxRetries \in Nat
  BY LenProperties DEF F!ConstantsAssumption
<1>8. F!Idle \in F!Call /\ F!Idle.pc = "idle" /\ F!Idle.key = NoKey
  BY <1>7 DEF F!Idle, F!Call
<1>9. PICK c \in F!Call : c = F!Idle
  BY <1>8
<1>10. /\ turn' \in [Turns -> F!Call]
       /\ \A u \in Turns : turn'[u].pc = "call" <=> turn'[u].key # NoKey
       /\ \A u \in Turns : turn'[u] = IF u = t THEN c ELSE turn[u]
  BY <1>4, <1>8, <1>9, CallStep DEF FallbackInv, F!TypeOK
<1>11. burnt' \in [Turns -> SUBSET F!Providers]
  BY <1>4 DEF FallbackInv, F!TypeOK
<1>12. F!TypeOK'
  BY <1>4, <1>6, <1>10, <1>11 DEF FallbackInv, F!TypeOK
<1>13. Spared'
  BY <1>4, <1>8, <1>9, <1>10, HammerStep DEF FallbackInv
<1>14. Burnt'
  <2> SUFFICES ASSUME NEW u \in Turns, NEW y \in burnt'[u]
               PROVE  ~(entry'[y].cool = 0 /\ entry'[y].disabled = 0)
    BY DEF Burnt, F!Available
  <2>1. y \in burnt[u] /\ y # x /\ y \in F!Providers
    BY <1>4 DEF FallbackInv, F!TypeOK
  <2>2. entry'[y] = entry[y]
    BY <1>4, <2>1 DEF FallbackInv, F!TypeOK, F!Tracked
  <2> QED
    BY <2>1, <2>2 DEF FallbackInv, Burnt, F!Available
<1>15. InTurn' /\ Passes' /\ Rotating'
  BY <1>4 DEF FallbackInv, InTurn, Passes, Rotating
<1> QED
  BY <1>6, <1>12, <1>13, <1>14, <1>15 DEF FallbackInv

\* A minute takes from what is left what it adds to the time since.
LEMMA Ages ==
    ASSUME NEW L \in Nat, NEW W \in Nat, NEW N \in Nat, NEW s, \A n \in 1..N : s[n] \in 1..L,
           NEW left \in 0..L, NEW age \in 0..(W + 1), NEW n \in 0..N, Capped(left, age, s, n)
    PROVE  LET b == IF age > W THEN age ELSE age + 1 IN
           /\ b \in 0..(W + 1) /\ F!Left(left) \in 0..L
           /\ Capped(F!Left(left), b, s, n)
<1> DEFINE b == IF age > W THEN age ELSE age + 1
           l == F!Left(left)
<1>1. b \in 0..(W + 1) /\ b <= age + 1
  OBVIOUS
<1>2. l \in 0..L /\ (l > 0 => left > 0 /\ l = left - 1)
  BY DEF F!Left
<1> HIDE DEF b, l
<1>3. ASSUME l > 0 PROVE n > 0 /\ l + b <= s[n]
  <2>1. n \in 1..N /\ left + age <= s[n]
    BY <1>2, <1>3 DEF Capped
  <2>2. s[n] \in 1..L
    BY <2>1
  <2> QED
    BY <1>1, <1>2, <1>3, <2>1, <2>2
<1>4. Capped(l, b, s, n)
  BY <1>3 DEF Capped
<1> QED
  BY <1>1, <1>2, <1>4 DEF b, l

LEMMA MinuteGoesBy ==
    ASSUME F!ConstantsAssumption, FallbackInv, F!Tick
    PROVE  FallbackInv'
<1>1. /\ burnt' = [t \in Turns |-> {}] /\ UNCHANGED <<order, turn, failures, passed>>
      /\ entry \in [F!Tracked -> F!Entry]
  BY DEF F!Tick, FallbackInv, F!TypeOK
<1>2. F!Longest \in Nat /\ Window \in Nat
  BY Constants
<1>3. ASSUME NEW x \in F!Tracked
      PROVE  /\ entry'[x] \in F!Entry
             /\ Capped(entry'[x].cool, entry'[x].age, Standard, entry'[x].errors)
             /\ Capped(entry'[x].disabled, entry'[x].age, Billing, entry'[x].bills)
  <2>1. PICK e \in F!Entry : e = entry[x]
    BY <1>1
  <2> DEFINE age      == IF e.age > Window THEN e.age ELSE e.age + 1
             cool     == F!Left(e.cool)
             disabled == F!Left(e.disabled)
             f        == [e EXCEPT !.age = age, !.cool = cool, !.disabled = disabled]
  <2>2. entry'[x] = f
    BY <1>1, <2>1 DEF F!Tick
  <2>3. /\ e.age \in 0..(Window + 1) /\ e.cool \in 0..F!Longest /\ e.disabled \in 0..F!Longest
        /\ e.errors \in 0..Len(Standard) /\ e.bills \in 0..Len(Billing)
    BY DEF F!Entry
  <2>4. Capped(e.cool, e.age, Standard, e.errors) /\ Capped(e.disabled, e.age, Billing, e.bills)
    BY <2>1 DEF FallbackInv, Ladder
  <2> HIDE DEF f
  <2>5. age \in 0..(Window + 1) /\ cool \in 0..F!Longest /\ Capped(cool, age, Standard, e.errors)
    <3>1. Len(Standard) \in Nat /\ \A n \in 1..Len(Standard) : Standard[n] \in 1..F!Longest
      BY Constants
    <3> QED
      BY <1>2, <2>3, <2>4, <3>1, Ages
  <2>6. disabled \in 0..F!Longest /\ Capped(disabled, age, Billing, e.bills)
    <3>1. Len(Billing) \in Nat /\ \A n \in 1..Len(Billing) : Billing[n] \in 1..F!Longest
      BY Constants
    <3> QED
      BY <1>2, <2>3, <2>4, <3>1, Ages
  <2> HIDE DEF age, cool, disabled
  <2>7. /\ f \in F!Entry /\ f.age = age /\ f.cool = cool /\ f.disabled = disabled
        /\ f.errors = e.errors /\ f.bills = e.bills
    BY <2>3, <2>5, <2>6 DEF F!Entry, f
  <2> QED
    BY <2>2, <2>5, <2>6, <2>7
<1>4. entry' \in [F!Tracked -> F!Entry]
  <2>1. entry' = [x \in F!Tracked |-> entry'[x]]
    BY DEF F!Tick
  <2> QED
    BY <1>3, <2>1
<1>5. F!TypeOK'
  BY <1>1, <1>4 DEF FallbackInv, F!TypeOK
<1>6. Ladder'
  BY <1>3 DEF Ladder
<1>7. Burnt' /\ Spared'
  BY <1>1 DEF Burnt, Spared
<1>8. InTurn' /\ Passes' /\ Rotating'
  BY <1>1 DEF FallbackInv, InTurn, Passes, Rotating
<1> QED
  BY <1>5, <1>6, <1>7, <1>8 DEF FallbackInv

LEMMA EndFacts ==
    ASSUME NEW S, NEW s \in Seq(S), NEW i \in 1..Len(s), Distinct(s), NEW r \in Seq(S), Moved(s, i, r)
    PROVE  /\ Distinct(r)
           /\ \A m \in 1..Len(s) : \E l \in 1..Len(s) : r[l] = s[m]
           /\ \A m, n \in 1..Len(s) : m < n /\ m # i /\ n # i => Before(r, s[m], s[n])
           /\ \A m \in 1..Len(s) : m # i => Before(r, s[m], s[i])
<1> DEFINE N == Len(s)
           place(m) == IF m < i THEN m ELSE IF m = i THEN N ELSE m - 1
           back(j)  == IF j < i THEN j ELSE IF j < N THEN j + 1 ELSE i
<1>1. N \in Nat /\ DOMAIN s = 1..N /\ DOMAIN r = 1..N /\ i \in 1..N
  BY LenProperties DEF Moved
<1>2. \A j \in 1..N : r[j] = s[back(j)]
  BY <1>1 DEF Moved
<1> HIDE DEF N
<1>3. \A j \in 1..N : back(j) \in 1..N
  BY <1>1
<1>4. \A m \in 1..N : place(m) \in 1..N
  BY <1>1
<1>5. \A j, l \in 1..N : back(j) = back(l) => j = l
  BY <1>1
<1>6. \A m, n \in 1..N : m < n /\ m # i /\ n # i => place(m) < place(n)
  BY <1>1
<1>7. \A m \in 1..N : m # i => place(m) < place(i)
  BY <1>1
<1>8. ASSUME NEW m \in 1..N PROVE r[place(m)] = s[m]
  <2>1. CASE m < i
    <3>1. place(m) = m /\ back(m) = m
      BY <2>1, <1>1
    <3> QED
      BY <1>2, <3>1
  <2>2. CASE m = i
    <3>1. place(m) = N /\ back(N) = m /\ N \in 1..N
      BY <2>2, <1>1
    <3> QED
      BY <1>2, <3>1
  <2>3. CASE m > i
    <3>1. place(m) = m - 1 /\ back(m - 1) = m /\ m - 1 \in 1..N
      BY <2>3, <1>1
    <3> QED
      BY <1>2, <3>1
  <2> QED
    BY <1>1, <2>1, <2>2, <2>3
<1> HIDE DEF place, back
<1>9. Distinct(r)
  <2>1. ASSUME NEW j \in 1..N, NEW l \in 1..N, r[j] = r[l] PROVE j = l
    <3>1. s[back(j)] = s[back(l)] /\ back(j) \in 1..N /\ back(l) \in 1..N
      BY <1>2, <1>3, <2>1
    <3>2. back(j) = back(l)
      BY <1>1, <3>1 DEF Distinct
    <3> QED
      BY <1>5, <3>2
  <2> QED
    BY <1>1, <2>1 DEF Distinct
<1>10. \A m, n \in 1..N : m < n /\ m # i /\ n # i => Before(r, s[m], s[n])
  BY <1>1, <1>4, <1>6, <1>8 DEF Before
<1>11. \A m \in 1..N : m # i => Before(r, s[m], s[i])
  BY <1>1, <1>4, <1>7, <1>8 DEF Before
<1>12. \A m \in 1..N : \E l \in 1..N : r[l] = s[m]
  BY <1>4, <1>8
<1> QED
  BY <1>9, <1>10, <1>11, <1>12 DEF N

LEMMA KeyChosen ==
    ASSUME F!ConstantsAssumption, FallbackInv, NEW t \in Turns, NEW k \in F!Profiles, F!Choose(t, k)
    PROVE  FallbackInv'
<1>1. /\ turn[t].pc = "choose" /\ F!Chosen(k) /\ F!Pass(k)
      /\ turn' = [turn EXCEPT ![t].pc = "call", ![t].key = k]
      /\ \E i \in DOMAIN order : order[i] = k /\ order' = Append(F!RemoveAt(order, i), k)
      /\ UNCHANGED <<entry, failures, burnt>>
  BY DEF F!Choose
<1>2. turn \in [Turns -> F!Call] /\ turn[t] \in F!Call
  BY DEF FallbackInv, F!TypeOK
<1>3. PICK c \in F!Call : c = [turn[t] EXCEPT !.pc = "call", !.key = k]
  BY <1>2 DEF F!Call
<1>4. c.pc = "call" /\ c.key = k /\ k # NoKey /\ c.at = turn[t].at
  BY <1>2, <1>3 DEF F!Call, F!ConstantsAssumption
<1>5. turn' = [turn EXCEPT ![t] = c]
  BY <1>1, <1>2, <1>3
<1>6. /\ turn' \in [Turns -> F!Call]
      /\ \A u \in Turns : turn'[u].pc = "call" <=> turn'[u].key # NoKey
      /\ \A u \in Turns : turn'[u] = IF u = t THEN c ELSE turn[u]
  BY <1>4, <1>5, CallStep DEF FallbackInv, F!TypeOK
<1>7. Spared'
  <2>1. Candidates[c.at] \notin burnt[t]
    BY <1>1, <1>4 DEF FallbackInv, Spared, F!Provider
  <2> QED
    BY <1>1, <1>6, <2>1, HammerStep DEF FallbackInv
<1>8. PICK s \in Seq(F!Profiles) : s = order
  BY DEF FallbackInv, InTurn
<1> DEFINE N == Len(s)
<1>9. /\ N \in Nat /\ DOMAIN s = 1..N /\ Distinct(s)
      /\ \A j \in F!Profiles : \E m \in 1..N : s[m] = j
      /\ \A m, n \in 1..N : s[m] = s[n] => m = n
  BY <1>8, OrderFacts DEF FallbackInv, InTurn
<1>10. PICK i \in 1..N : s[i] = k /\ order' = Append(F!RemoveAt(s, i), s[i])
  <2>1. PICK m \in DOMAIN order : order[m] = k /\ order' = Append(F!RemoveAt(order, m), k)
    BY <1>1
  <2>2. m \in 1..N /\ s[m] = k
    BY <1>8, <1>9, <2>1
  <2>3. order' = Append(F!RemoveAt(s, m), k)
    BY <1>8, <2>1
  <2> QED
    BY <2>2, <2>3
<1> DEFINE r == Append(F!RemoveAt(s, i), s[i])
<1>11. r \in Seq(F!Profiles) /\ Moved(s, i, r)
  <2>1. i \in DOMAIN s
    BY <1>9
  <2> QED
    BY <2>1, MovedToEnd
<1> HIDE DEF r
<1>12. /\ Distinct(r)
       /\ \A m \in 1..N : \E l \in 1..N : r[l] = s[m]
       /\ \A m, n \in 1..N : m < n /\ m # i /\ n # i => Before(r, s[m], s[n])
       /\ \A m \in 1..N : m # i => Before(r, s[m], s[i])
  BY <1>9, <1>11, EndFacts
<1>13. order' = r
  BY <1>10 DEF r
<1> HIDE DEF N
<1>14. InTurn'
  BY <1>11, <1>12, <1>13 DEF InTurn
<1>15. F!ToSet(order') = F!Profiles /\ Len(order') = Len(Keys)
  <2>1. DOMAIN r = 1..N /\ \A l \in 1..N : r[l] \in F!Profiles
    <3>1. DOMAIN r = 1..Len(r) /\ \A l \in 1..Len(r) : r[l] \in F!Profiles
      BY <1>11, LenProperties, ElementOfSeq
    <3>2. Len(r) = N
      BY <1>11 DEF Moved, N
    <3> QED
      BY <3>1, <3>2
  <2>2. \A j \in F!Profiles : \E l \in 1..N : r[l] = j
    BY <1>9, <1>12
  <2>3. F!ToSet(r) \subseteq F!Profiles
    BY <2>1 DEF F!ToSet
  <2>4. F!Profiles \subseteq F!ToSet(r)
    BY <2>1, <2>2 DEF F!ToSet
  <2>5. Len(order) = Len(Keys)
    BY DEF FallbackInv, F!TypeOK
  <2> QED
    BY <1>8, <1>11, <1>13, <2>3, <2>4, <2>5 DEF N, Moved
<1>16. ASSUME NEW j \in F!Profiles \ {k}, NEW l \in F!Profiles \ {k}, Before(order, j, l)
       PROVE  Before(order', j, l)
  <2>1. PICK m, n \in 1..N : m < n /\ s[m] = j /\ s[n] = l
    BY <1>8, <1>9, <1>16 DEF Before
  <2>2. m # i /\ n # i
    BY <1>10, <2>1
  <2> QED
    BY <1>12, <1>13, <2>1, <2>2
<1>17. ASSUME NEW j \in F!Profiles \ {k} PROVE Before(order', j, k)
  <2>1. PICK m \in 1..N : s[m] = j
    BY <1>9
  <2>2. m # i
    BY <1>10, <2>1
  <2> QED
    BY <1>10, <1>12, <1>13, <2>1, <2>2
<1>18. passed \in [F!Profiles -> [F!Profiles -> 0..2]]
  BY DEF FallbackInv, F!TypeOK
<1>19. \A j \in F!Profiles \ {k} : F!Available(j) => passed[j][k] = 0
  <2> SUFFICES ASSUME NEW j \in F!Profiles \ {k}, F!Available(j), passed[j][k] # 0 PROVE FALSE
    OBVIOUS
  <2>0. passed[j][k] \in 0..2
    BY <1>18
  <2>1. passed[j][k] > 0
    BY <2>0
  <2>2. PICK m, n \in 1..N : m < n /\ s[m] = j /\ s[n] = k
    BY <1>8, <1>9, <2>1 DEF FallbackInv, Passes, Before
  <2>3. PICK m2, n2 \in 1..N : m2 < n2 /\ s[m2] = k /\ s[n2] = j
    BY <1>1, <1>8, <1>9 DEF F!Chosen
  <2>4. m2 = n /\ n2 = m
    BY <1>9, <2>2, <2>3
  <2> QED
    BY <2>2, <2>3, <2>4
<1>20. ASSUME NEW j \in F!Profiles
       PROVE  /\ passed'[j] \in [F!Profiles -> 0..2]
              /\ \A l \in F!Profiles : passed'[j][l] <= 1
              /\ \A l \in F!Profiles : passed'[j][l] > 0 => Before(order', j, l)
  <2>0. /\ passed[j] \in [F!Profiles -> 0..2] /\ \A l \in F!Profiles : passed[j][l] <= 1
        /\ \A l \in F!Profiles : passed[j][l] > 0 => Before(order, j, l)
    BY <1>18 DEF FallbackInv, Rotating, Passes
  <2>1. CASE j = k
    <3>1. passed'[j] = [l \in F!Profiles |-> 0]
      BY <1>1, <2>1 DEF F!Pass
    <3> QED
      BY <3>1
  <2>2. CASE j # k /\ F!Available(j) /\ passed[j][k] < 2
    <3>1. passed'[j] = [passed[j] EXCEPT ![k] = @ + 1]
      BY <1>1, <2>2 DEF F!Pass
    <3>2. passed'[j] \in [F!Profiles -> 0..2] /\ \A l \in F!Profiles : passed'[j][l] = IF l = k THEN 1 ELSE passed[j][l]
      BY <1>19, <2>0, <2>2, <3>1
    <3>3. ASSUME NEW l \in F!Profiles, passed'[j][l] > 0 PROVE Before(order', j, l)
      BY <1>16, <1>17, <2>0, <2>2, <3>2, <3>3
    <3>4. ASSUME NEW l \in F!Profiles PROVE passed'[j][l] <= 1
      <4>1. passed[j][l] <= 1 /\ passed'[j][l] = IF l = k THEN 1 ELSE passed[j][l]
        BY <2>0, <3>2
      <4>2. CASE l = k
        BY <4>1, <4>2
      <4>3. CASE l # k
        BY <4>1, <4>3
      <4> QED
        BY <4>2, <4>3
    <3> QED
      BY <3>2, <3>3, <3>4
  <2>3. CASE j # k /\ ~(F!Available(j) /\ passed[j][k] < 2)
    <3>1. passed'[j] = passed[j]
      BY <1>1, <2>3 DEF F!Pass
    <3> QED
      BY <1>16, <1>17, <2>0, <2>3, <3>1
  <2> QED
    BY <2>1, <2>2, <2>3
<1>21. passed' \in [F!Profiles -> [F!Profiles -> 0..2]]
  <2>1. passed' = [j \in F!Profiles |-> passed'[j]]
    BY <1>1 DEF F!Pass
  <2> QED
    BY <1>20, <2>1
<1>22. Passes' /\ Rotating'
  BY <1>20 DEF Passes, Rotating
<1>23. F!TypeOK'
  BY <1>1, <1>6, <1>15, <1>21 DEF FallbackInv, F!TypeOK
<1>24. Ladder' /\ Burnt'
  BY <1>1 DEF FallbackInv, Ladder, Burnt, F!Available
<1> QED
  BY <1>7, <1>14, <1>22, <1>23, <1>24 DEF FallbackInv

LEMMA FallbackStep ==
    ASSUME F!ConstantsAssumption
    PROVE  FallbackInv /\ [F!Next]_F!vars => FallbackInv'
<1> SUFFICES ASSUME FallbackInv, [F!Next]_F!vars PROVE FallbackInv'
  OBVIOUS
<1>1. CASE F!Tick
  BY <1>1, MinuteGoesBy
<1>2. CASE \E t \in Turns : F!Turn(t)
  <2> PICK t \in Turns : F!Turn(t)
    BY <1>2
  <2>1. CASE F!Begin(t) \/ F!Skip(t) \/ F!Try(t) \/ F!NoKeyLeft(t) \/ F!GiveUp(t) \/ F!Retry(t)
    BY <2>1, TurnMoves
  <2>2. CASE F!FallBack(t)
    BY <2>2, FallsBack
  <2>3. CASE F!CallSucceeds(t) \/ \E e \in F!Errors : F!CallFails(t, e)
    BY <2>3, CallEnds
  <2>4. CASE F!Answered(t)
    BY <2>4, CallAnswered
  <2>5. CASE F!TurnFails(t) \/ F!Cancel(t)
    BY <2>5, TurnStops
  <2>6. CASE \E k \in F!Profiles : F!Choose(t, k)
    BY <2>6, KeyChosen
  <2> QED
    BY <2>1, <2>2, <2>3, <2>4, <2>5, <2>6 DEF F!Turn
<1>3. CASE UNCHANGED F!vars
  BY <1>3 DEF F!vars, FallbackInv, F!TypeOK, Ladder, Burnt, Spared, InTurn, Passes,
              Rotating, F!Available, F!Provider
<1> QED
  BY <1>1, <1>2, <1>3 DEF F!Next

\* A failure changes one entry, if any, and that one cools for no shorter than before.
LEMMA NothingShortened ==
    ASSUME F!ConstantsAssumption, FallbackInv, NEW t \in Turns,
           (\E e \in F!Errors : F!CallFails(t, e)) \/ F!FallBack(t), NEW x \in F!Tracked
    PROVE  F!Remaining(entry'[x]) >= F!Remaining(entry[x])
<1>1. PICK e \in F!Entry : e = entry[x]
  BY DEF FallbackInv, F!TypeOK
<1>2. Capped(e.cool, e.age, Standard, e.errors) /\ Capped(e.disabled, e.age, Billing, e.bills)
  BY <1>1 DEF FallbackInv, Ladder
<1>3. F!Remaining(e) >= F!Remaining(e)
  <2>1. e.cool \in Nat /\ e.disabled \in Nat
    BY Constants DEF F!Entry
  <2> QED
    BY <2>1 DEF F!Remaining
<1>4. entry'[x] = e \/ \E r \in F!Retriable : entry'[x] = F!Failed(e, r)
  <2>1. ASSUME NEW r \in F!Errors, F!CallFails(t, r)
        PROVE  entry'[x] = e \/ \E q \in F!Retriable : entry'[x] = F!Failed(e, q)
    <3>1. CASE r \in F!Retriable
      <4>1. entry' = [entry EXCEPT ![turn[t].key] = F!Failed(entry[turn[t].key], r)]
        BY <2>1, <3>1 DEF F!CallFails
      <4> QED
        BY <1>1, <3>1, <4>1 DEF FallbackInv, F!TypeOK
    <3>2. CASE r \notin F!Retriable
      BY <1>1, <2>1, <3>2 DEF F!CallFails
    <3> QED
      BY <3>1, <3>2
  <2>2. CASE F!FallBack(t)
    <3>1. /\ entry' = [entry EXCEPT ![F!Provider(t)] = F!Failed(entry[F!Provider(t)], turn[t].error)]
          /\ turn[t].error \in F!Retriable
      BY <2>2 DEF F!FallBack
    <3> QED
      BY <1>1, <3>1 DEF FallbackInv, F!TypeOK
  <2> QED
    BY <2>1, <2>2
<1> QED
  BY <1>1, <1>2, <1>3, <1>4, FailureCools

\* The entries, calls and histories of ProviderFallback are of their types, whatever
\* the candidates, the keys and the lengths of the cooldowns: NextAvailable keeps each
\* key in the order exactly once, and no cooldown is longer than the longest there is.
THEOREM FallbackTypes ==
    ASSUME F!ConstantsAssumption
    PROVE  F!Spec => []F!TypeOK
<1>1. F!Init => FallbackInv
  BY FallbackInit
<1>2. FallbackInv /\ [F!Next]_F!vars => FallbackInv'
  BY FallbackStep
<1>3. FallbackInv => F!TypeOK
  BY DEF FallbackInv
<1> QED
  BY <1>1, <1>2, <1>3, PTL DEF F!Spec

\* Execute and the retries around it never call a provider again that has failed the
\* turn in this minute, unless it has answered another turn since.
THEOREM SparesTheFailed ==
    ASSUME F!ConstantsAssumption
    PROVE  F!Spec => []NoHammering
<1>1. F!Init => FallbackInv
  BY FallbackInit
<1>2. FallbackInv /\ [F!Next]_F!vars => FallbackInv'
  BY FallbackStep
<1>3. FallbackInv => NoHammering
  BY DEF FallbackInv, F!TypeOK, Spared, F!Provider, NoHammering
<1> QED
  BY <1>1, <1>2, <1>3, PTL DEF F!Spec

\* NextAvailable never chooses a key twice while another one is free all the time.
THEOREM RoundRobin ==
    ASSUME F!ConstantsAssumption
    PROVE  F!Spec => []KeysRotate
<1>1. F!Init => FallbackInv
  BY FallbackInit
<1>2. FallbackInv /\ [F!Next]_F!vars => FallbackInv'
  BY FallbackStep
<1>3. FallbackInv => KeysRotate
  BY DEF FallbackInv, F!TypeOK, Rotating, KeysRotate
<1> QED
  BY <1>1, <1>2, <1>3, PTL DEF F!Spec

\* Time that goes by makes no failure a failure of this minute.
LEMMA TickAges ==
    ASSUME F!ConstantsAssumption, FallbackInv, F!Tick, NEW x \in F!Tracked
    PROVE  entry'[x].age # 0
<1>1. entry[x] \in F!Entry /\ entry[x].age \in 0..(Window + 1) /\ Window \in Nat
  BY Constants DEF FallbackInv, F!TypeOK, F!Entry
<1>2. entry'[x] = [entry[x] EXCEPT !.age = IF @ > Window THEN @ ELSE @ + 1,
                                   !.cool = F!Left(@), !.disabled = F!Left(@)]
  BY DEF F!Tick
<1>3. entry'[x].age = IF entry[x].age > Window THEN entry[x].age ELSE entry[x].age + 1
  BY <1>1, <1>2 DEF F!Entry
<1> QED
  BY <1>1, <1>3

\* After a success no error is counted.
LEMMA SuccessForgets ==
    ASSUME F!ConstantsAssumption, FallbackInv, NEW t \in Turns,
           F!CallSucceeds(t) \/ F!Answered(t), NEW x \in F!Tracked
    PROVE  entry'[x] = entry[x] \/ entry'[x].errors = 0
<1>1. PICK y : entry' = [entry EXCEPT ![y] = F!Succeeded(entry[y])]
  BY DEF F!CallSucceeds, F!Answered
<1>2. \A e : F!Succeeded(e).errors = 0
  BY DEF F!Succeeded, F!Fresh
<1> QED
  BY <1>1, <1>2 DEF FallbackInv, F!TypeOK

\* MarkFailure never brings the end of a cooldown nearer.
THEOREM CooldownsStand ==
    ASSUME F!ConstantsAssumption
    PROVE  F!Spec => NeverShortened
<1> DEFINE Cools == \A x \in DOMAIN entry :
                        entry'[x].errors > 0 /\ entry'[x].age = 0
                            => Remaining(entry'[x]) >= Remaining(entry[x])
<1>1. F!Init => FallbackInv
  BY FallbackInit
<1>2. FallbackInv /\ [F!Next]_F!vars => FallbackInv'
  BY FallbackStep
<1>3. FallbackInv /\ [F!Next]_F!vars => [Cools]_entry
  <2>1. SUFFICES ASSUME FallbackInv, F!Next, NEW x \in F!Tracked,
                        entry'[x].errors > 0, entry'[x].age = 0
                 PROVE  Remaining(entry'[x]) >= Remaining(entry[x])
    BY DEF F!vars, FallbackInv, F!TypeOK
  <2>2. entry[x].cool \in Nat /\ entry[x].disabled \in Nat
    <3>1. entry[x] \in F!Entry
      BY <2>1 DEF FallbackInv, F!TypeOK
    <3> QED
      BY <3>1, Constants DEF F!Entry
  <2>3. entry'[x] = entry[x] => Remaining(entry'[x]) >= Remaining(entry[x])
    BY <2>2 DEF Remaining
  <2>4. ~F!Tick
    BY <2>1, TickAges
  <2>5. PICK t \in Turns : F!Turn(t)
    BY <2>1, <2>4 DEF F!Next
  <2>6. CASE (\E e \in F!Errors : F!CallFails(t, e)) \/ F!FallBack(t)
    BY <2>1, <2>6, NothingShortened DEF Remaining, F!Remaining
  <2>7. CASE F!CallSucceeds(t) \/ F!Answered(t)
    BY <2>1, <2>3, <2>7, SuccessForgets
  <2>8. CASE entry' = entry
    BY <2>3, <2>8
  <2> QED
    BY <2>5, <2>6, <2>7, <2>8 DEF F!Turn, F!Begin, F!Skip, F!Try, F!NoKeyLeft, F!GiveUp, F!Retry,
                                  F!TurnFails, F!Stops, F!Cancel, F!Choose
<1>4. NeverShortened <=> [][Cools]_entry
  BY DEF NeverShortened
<1> HIDE DEF Cools
<1> QED
  BY <1>1, <1>2, <1>3, <1>4, PTL DEF F!Spec

-----------------------------------------------------------------------------
(* SessionHistory: sequences of messages.                                  *)

LEMMA MessagesOf ==
    ASSUME NEW h \in Seq(Message)
    PROVE  /\ Len(h) \in Nat /\ DOMAIN h = 1..Len(h)
           /\ \A i \in 1..Len(h) : h[i] \in Message
           /\ Said(h) \subseteq 1..MaxMsgs
<1>1. Len(h) \in Nat /\ DOMAIN h = 1..Len(h)
  BY LenProperties
<1>2. \A i \in 1..Len(h) : h[i] \in Message
  BY ElementOfSeq
<1>3. \A i \in 1..Len(h) : h[i].id \in 1..MaxMsgs
  BY <1>2 DEF Message
<1> QED
  BY <1>1, <1>2, <1>3 DEF Said

\* A message that is appended is said, and nothing is unsaid.
LEMMA SaidAppend ==
    ASSUME NEW h \in Seq(Message), NEW m \in Message
    PROVE  /\ Append(h, m) \in Seq(Message)
           /\ Said(h) \subseteq Said(Append(h, m))
           /\ m.role \in Dialogue => m.id \in Said(Append(h, m))
<1> DEFINE a == Append(h, m)
<1>1. /\ a \in Seq(Message) /\ Len(a) = Len(h) + 1
      /\ \A i \in 1..Len(h) : a[i] = h[i]
      /\ a[Len(h) + 1] = m
  BY AppendProperties
<1> HIDE DEF a
<1>2. /\ Len(h) \in Nat /\ DOMAIN h = 1..Len(h) /\ DOMAIN a = 1..Len(a)
  BY <1>1, MessagesOf
<1>3. Said(h) \subseteq Said(a)
  BY <1>1, <1>2 DEF Said
<1>4. m.role \in Dialogue => m.id \in Said(a)
  <2>1. Len(h) + 1 \in DOMAIN a
    BY <1>1, <1>2
  <2> QED
    BY <1>1, <2>1 DEF Said
<1> QED
  BY <1>1, <1>3, <1>4 DEF a

\* What a sequence says, its first and its last part say between them.
LEMMA SaidParts ==
    ASSUME NEW h \in Seq(Message), NEW n \in 0..Len(h)
    PROVE  /\ SubSeq(h, 1, n) \in Seq(Message) /\ SubSeq(h, n + 1, Len(h)) \in Seq(Message)
           /\ Said(SubSeq(h, n + 1, Len(h))) \subseteq Said(h)
           /\ Said(h) \subseteq Said(SubSeq(h, 1, n)) \cup Said(SubSeq(h, n + 1, Len(h)))
<1> DEFINE a == SubSeq(h, 1, n)
           b == SubSeq(h, n + 1, Len(h))
<1>1. Len(h) \in Nat /\ DOMAIN h = 1..Len(h) /\ \A i \in 1..Len(h) : h[i] \in Message
  BY MessagesOf
<1>2. a \in Seq(Message) /\ Len(a) = n /\ \A i \in 1..n : a[i] = h[i]
  BY Parts
<1>3. b \in Seq(Message) /\ Len(b) = Len(h) - n /\ \A i \in 1..(Len(h) - n) : b[i] = h[n + i]
  BY Parts
<1> HIDE DEF a, b
<1>4. DOMAIN a = 1..n /\ DOMAIN b = 1..(Len(h) - n)
  BY <1>2, <1>3, LenProperties
<1>5. Said(b) \subseteq Said(h)
  <2>1. ASSUME NEW i \in DOMAIN b, b[i].role \in Dialogue PROVE b[i].id \in Said(h)
    <3>1. n + i \in DOMAIN h /\ b[i] = h[n + i]
      BY <1>1, <1>3, <1>4
    <3> QED
      BY <2>1, <3>1 DEF Said
  <2> QED
    BY <2>1 DEF Said
<1>6. Said(h) \subseteq Said(a) \cup Said(b)
  <2>1. ASSUME NEW i \in DOMAIN h, h[i].role \in Dialogue PROVE h[i].id \in Said(a) \cup Said(b)
    <3>1. CASE i <= n
      <4>1. i \in DOMAIN a /\ a[i] = h[i]
        BY <1>1, <1>2, <1>4, <3>1
      <4> QED
        BY <2>1, <4>1 DEF Said
    <3>2. CASE i > n
      <4>0. i - n \in 1..(Len(h) - n) /\ n + (i - n) = i
        BY <1>1, <3>2
      <4>1. i - n \in DOMAIN b /\ b[i - n] = h[i]
        BY <1>3, <1>4, <4>0
      <4> QED
        BY <2>1, <4>1 DEF Said
    <3> QED
      BY <1>1, <3>1, <3>2
  <2> QED
    BY <2>1 DEF Said
<1> QED
  BY <1>2, <1>3, <1>5, <1>6 DEF a, b

LEMMA ToSummariseType ==
    ASSUME copy["summariser"] \in Seq(Message)
    PROVE  ToSummarise \in Seq(Message)
<1> DEFINE h == copy["summariser"]
<1>1. Len(h) \in Nat /\ KeepLast \in Nat /\ \A i \in 1..Len(h) : h[i] \in Message
  BY MessagesOf, ConstantsAssumption
<1>2. 1 \in Int /\ Len(h) - KeepLast \in Int /\ \A i \in 1..(Len(h) - KeepLast) : h[i] \in Message
  BY <1>1
<1>3. SubSeq(h, 1, Len(h) - KeepLast) \in Seq(Message)
  BY <1>2, SubSeqProperties
<1> QED
  BY <1>3 DEF ToSummarise

LEMMA KeptLast ==
    ASSUME NEW h \in Seq(Message), Len(h) > KeepLast
    PROVE  /\ SubSeq(h, Len(h) - KeepLast + 1, Len(h)) \in Seq(Message)
           /\ Said(SubSeq(h, Len(h) - KeepLast + 1, Len(h))) \subseteq Said(h)
           /\ Said(h) \subseteq Said(SubSeq(h, 1, Len(h) - KeepLast))
                                \cup Said(SubSeq(h, Len(h) - KeepLast + 1, Len(h)))
<1>1. Len(h) \in Nat /\ KeepLast \in Nat
  BY MessagesOf, ConstantsAssumption
<1>2. PICK n \in 0..Len(h) : n = Len(h) - KeepLast
  BY <1>1
<1> QED
  BY <1>2, SaidParts

LEMMA CompressedType ==
    ASSUME NEW h \in Seq(Message), Len(h) > CompressAbove
    PROVE  Compressed(h) \in Seq(Message)
<1>1. Len(h) \in Nat /\ \A i \in 1..Len(h) : h[i] \in Message
  BY MessagesOf
<1>2. Len(h) > 2 /\ CompressAbove \in Nat
  BY <1>1, ConstantsAssumption
<1> DEFINE c == SubSeq(h, 2, Len(h) - 1)
           d == SubSeq(c, Len(c) \div 2 + 1, Len(c))
<1>3. c \in Seq(Message)
  <2>1. 2 \in Int /\ Len(h) - 1 \in Int /\ \A i \in 2..(Len(h) - 1) : h[i] \in Message
    BY <1>1
  <2> QED
    BY <2>1, SubSeqProperties
<1> HIDE DEF c
<1>4. d \in Seq(Message)
  <2>1. Len(c) \in Nat /\ Len(c) \div 2 \in 0..Len(c)
    BY <1>3, MessagesOf
  <2>2. PICK n \in 0..Len(c) : n = Len(c) \div 2
    BY <2>1
  <2>3. SubSeq(c, n + 1, Len(c)) \in Seq(Message)
    BY <1>3, SaidParts
  <2> QED
    BY <2>2, <2>3
<1> HIDE DEF d
<1>5. <<h[1]>> \in Seq(Message) /\ <<h[Len(h)]>> \in Seq(Message)
  BY <1>1, <1>2
<1>6. <<h[1]>> \o d \in Seq(Message)
  BY <1>4, <1>5, ConcatProperties
<1>7. <<h[1]>> \o d \o <<h[Len(h)]>> \in Seq(Message)
  BY <1>5, <1>6, ConcatProperties
<1> QED
  BY <1>7 DEF Compressed, c, d

LEMMA HalvesType ==
    ASSUME NEW h \in Seq(Message)
    PROVE  \A s \in SUBSET Halves(h) : UNION s \subseteq 1..MaxMsgs
<1>1. \A i \in DOMAIN h : h[i].id \in 1..MaxMsgs
  BY MessagesOf DEF Message
<1>2. \A x \in Halves(h) : x \subseteq 1..MaxMsgs
  <2> DEFINE valid == {i \in DOMAIN h : h[i].role \in Dialogue}
             first == {i \in valid : Cardinality({j \in valid : j <= i}) <= Cardinality(valid) \div 2}
  <2>1. Halves(h) = {{h[i].id : i \in first}, {h[i].id : i \in valid \ first}}
    BY DEF Halves
  <2>2. first \subseteq DOMAIN h /\ valid \subseteq DOMAIN h
    OBVIOUS
  <2> HIDE DEF first, valid
  <2>3. {h[i].id : i \in first} \subseteq 1..MaxMsgs /\ {h[i].id : i \in valid \ first} \subseteq 1..MaxMsgs
    BY <1>1, <2>2
  <2> QED
    BY <2>1, <2>3
<1> QED
  BY <1>2

-----------------------------------------------------------------------------
(* Types.                                                                  *)

Counted(t) ==
    /\ pc[t] = "tools" => todo[t] > 0
    /\ pc[t] = "compress" => Len(copy[t]) > CompressAbove
    /\ pc[t] \in {"compress", "compress save", "compress rename", "compressed"} => retry[t] < MaxRetries
    /\ pc[t] \in {"save", "rename"} => todo[t] \in 1..MaxMsgs

Counts == \A t \in Turns : Counted(t)

HistoryTypesInv == TypeOK /\ Counts

LEMMA NewMessage ==
    ASSUME appended \in 0..MaxMsgs, hist \in Seq(Message),
           NEW role \in {"user", "assistant", "call", "tool"}, NEW n \in 0..MaxCalls, Append1(role, n)
    PROVE  /\ hist' \in Seq(Message) /\ appended' \in 1..MaxMsgs /\ appended' = Latest
           /\ Said(hist) \subseteq Said(hist')
           /\ role # "tool" => Latest \in Said(hist')
<1>1. /\ appended < MaxMsgs /\ appended' = Latest /\ Latest = appended + 1 /\ MaxMsgs \in Nat
      /\ hist' = Append(hist, [id |-> Latest, role |-> role, calls |-> n])
  BY ConstantsAssumption DEF Append1, Latest
<1>2. Latest \in 1..MaxMsgs
  BY <1>1
<1>3. PICK m \in Message : m = [id |-> Latest, role |-> role, calls |-> n]
  BY <1>2 DEF Message, Dialogue
<1>4. hist' = Append(hist, m)
  BY <1>1, <1>3
<1>5. m.id = Latest /\ m.role = role
  BY <1>3
<1> QED
  BY <1>1, <1>2, <1>4, <1>5, SaidAppend DEF Dialogue

Places == /\ pc \in [Savers -> TurnStates \cup SummariserStates]
          /\ \A t \in Turns : pc[t] \in TurnStates
          /\ pc["summariser"] \in SummariserStates

Data == /\ disk \in [hist : Seq(Message), covered : SUBSET (1..MaxMsgs)]
        /\ copy \in [Savers -> Seq(Message)]
        /\ old \in [Savers -> SUBSET (1..MaxMsgs)]
        /\ seen \in [Turns -> SUBSET (1..MaxMsgs)]

Numbers == /\ retry \in [Turns -> 0..MaxRetries]
           /\ todo \in [Turns -> 0..(MaxMsgs + MaxCalls)]
           /\ appended \in 0..MaxMsgs
           /\ crashes \in 0..MaxCrashes

Sets == /\ hist \in Seq(Message) /\ covered \subseteq 1..MaxMsgs
        /\ gone \subseteq 1..MaxMsgs /\ answered \subseteq 1..MaxMsgs
        /\ saving \subseteq Savers
        /\ raced \in BOOLEAN /\ mixed \in BOOLEAN

LEMMA TypeParts == TypeOK <=> Places /\ Data /\ Numbers /\ Sets
BY DEF TypeOK, Places, Data, Numbers, Sets

LEMMA TypePartsNext == TypeOK' <=> Places' /\ Data' /\ Numbers' /\ Sets'
BY DEF TypeOK, Places, Data, Numbers, Sets

LEMMA People ==
    /\ "summariser" \in Savers /\ "summariser" \notin Turns
    /\ \A t \in Turns : t \in Savers /\ t # "summariser"
    /\ \A p \in Savers : p = "summariser" \/ p \in Turns
BY ConstantsAssumption DEF Savers

Elsewhere(p) == \A q \in Savers \ {p} : pc'[q] = pc[q]

LEMMA GoesTurn ==
    ASSUME Places, NEW t \in Turns, NEW from \in TurnStates, NEW to \in TurnStates, Goes(t, from, to)
    PROVE  Places' /\ pc[t] = from /\ pc'[t] = to /\ Elsewhere(t)
<1>1. t \in Savers /\ t # "summariser" /\ pc \in [Savers -> TurnStates \cup SummariserStates]
  BY People DEF Places
<1>2. pc[t] = from /\ pc'[t] = to /\ Elsewhere(t) /\ pc' \in [Savers -> TurnStates \cup SummariserStates]
  BY <1>1 DEF Goes, Elsewhere
<1>3. \A u \in Turns : pc'[u] \in TurnStates
  BY <1>2, People DEF Elsewhere, Places
<1>4. pc'["summariser"] \in SummariserStates
  BY <1>1, <1>2, People DEF Elsewhere, Places
<1> QED
  BY <1>2, <1>3, <1>4 DEF Places

LEMMA GoesSummariser ==
    ASSUME Places, NEW from \in SummariserStates, NEW to \in SummariserStates, Goes("summariser", from, to)
    PROVE  Places' /\ pc["summariser"] = from /\ pc'["summariser"] = to /\ Elsewhere("summariser")
<1>1. "summariser" \in Savers /\ pc \in [Savers -> TurnStates \cup SummariserStates]
  BY People DEF Places
<1>2. pc["summariser"] = from /\ pc'["summariser"] = to /\ Elsewhere("summariser") /\ pc' \in [Savers -> TurnStates \cup SummariserStates]
  BY <1>1 DEF Goes, Elsewhere
<1>3. \A u \in Turns : pc'[u] \in TurnStates
  BY <1>2, People DEF Elsewhere, Places
<1> QED
  BY <1>2, <1>3 DEF Places

\* What a turn leaves alone of the others.
Others(t) ==
    /\ \A p \in Savers \ {t} : copy'[p] = copy[p] /\ old'[p] = old[p]
    /\ \A u \in Turns \ {t} : pc'[u] = pc[u] /\ retry'[u] = retry[u] /\ todo'[u] = todo[u] /\ seen'[u] = seen[u]

LEMMA CountsNext ==
    ASSUME Counts, NEW t \in Turns, Others(t), Counted(t)'
    PROVE  Counts'
<1>1. ASSUME NEW u \in Turns, u # t PROVE Counted(u)'
  <2>1. /\ pc'[u] = pc[u] /\ copy'[u] = copy[u] /\ retry'[u] = retry[u] /\ todo'[u] = todo[u]
        /\ Counted(u)
    BY <1>1, People DEF Others, Counts
  <2> QED
    BY <2>1 DEF Counted
<1> QED
  BY <1>1 DEF Counts

LEMMA KnownType ==
    ASSUME TypeOK
    PROVE  Known \subseteq 1..MaxMsgs /\ \A p \in Savers : Said(copy[p]) \subseteq 1..MaxMsgs
BY MessagesOf DEF Known, TypeOK

LEMMA TypesTurn ==
    ASSUME HistoryTypesInv, NEW t \in Turns, Turn(t)
    PROVE  HistoryTypesInv' /\ Others(t)
<1>0. /\ t # "summariser" /\ t \in Savers /\ MaxRetries \in Nat /\ MaxMsgs \in Nat
      /\ MaxCalls \in Nat /\ MaxOverlap \in Nat /\ CompressAbove \in Nat
  BY ConstantsAssumption, People
<1>t. Places /\ Data /\ Numbers /\ Sets /\ Counts
  BY TypeParts DEF HistoryTypesInv
<1>k. Known \subseteq 1..MaxMsgs
  BY KnownType DEF HistoryTypesInv
<1>s. Turns \subseteq Savers
  BY People
<1>f. /\ t \in Savers /\ pc[t] \in TurnStates
      /\ pc \in [Savers -> TurnStates \cup SummariserStates] /\ copy \in [Savers -> Seq(Message)]
      /\ old \in [Savers -> SUBSET (1..MaxMsgs)] /\ seen \in [Turns -> SUBSET (1..MaxMsgs)]
      /\ retry \in [Turns -> 0..MaxRetries] /\ todo \in [Turns -> 0..(MaxMsgs + MaxCalls)]
      /\ Counted(t)
  BY <1>0, <1>t DEF Places, Data, Numbers, Counts
<1>q. SUFFICES Places' /\ Data' /\ Numbers' /\ Sets' /\ Others(t) /\ Counted(t)'
  BY <1>t, TypePartsNext, CountsNext DEF HistoryTypesInv
<1>1. CASE Read(t)
  <2>1. CASE Goes(t, "idle", "read")
    <3>1. Places' /\ pc'[t] = "read" /\ Elsewhere(t)
      BY <1>t, <2>1, GoesTurn DEF TurnStates
    <3>2. UNCHANGED <<session, disk, retry, todo, appended, gone, raced, saving, answered, crashes, old>>
          /\ copy' = [copy EXCEPT ![t] = hist] /\ seen' = [seen EXCEPT ![t] = Known \ gone]
          /\ mixed' = (mixed \/ Running # {})
      BY <1>1, <2>1, <3>1 DEF Read, Goes
    <3>3. Data'
      BY <1>t, <1>0, <1>k, <3>2 DEF Data, Sets
    <3>4. Numbers' /\ Sets'
      BY <1>t, <3>2 DEF Numbers, Sets, session
    <3>5. Others(t) /\ Counted(t)'
      BY <1>f, <1>s, <3>1, <3>2 DEF Elsewhere, Counted, Others, observed
    <3> QED
      BY <3>1, <3>3, <3>4, <3>5
  <2>2. CASE Goes(t, "read", "prompt")
    <3>1. Places' /\ pc'[t] = "prompt" /\ Elsewhere(t)
      BY <1>t, <2>2, GoesTurn DEF TurnStates
    <3>2. UNCHANGED <<session, disk, copy, retry, todo, observed, crashes>>
          /\ old' = [old EXCEPT ![t] = covered]
      BY <1>1, <2>2, <3>1 DEF Read, Goes
    <3>3. Data' /\ Numbers' /\ Sets'
      BY <1>t, <1>0, <3>2 DEF Data, Numbers, Sets, session, observed
    <3>5. Others(t) /\ Counted(t)'
      BY <1>f, <1>s, <3>1, <3>2 DEF Elsewhere, Counted, Others, observed
    <3> QED
      BY <3>1, <3>3, <3>5
  <2> QED
    BY <1>1, <2>1, <2>2 DEF Read
<1>2. CASE AddUser(t)
  <2>1. Places' /\ pc'[t] = "model" /\ Elsewhere(t)
    BY <1>t, <1>2, GoesTurn DEF AddUser, TurnStates
  <2>2. hist' \in Seq(Message) /\ appended' \in 1..MaxMsgs
    BY <1>0, <1>t, <1>2, NewMessage DEF AddUser, Numbers, Sets
  <2>3. raced' \in BOOLEAN
    BY <1>2 DEF AddUser, Append1
  <2>4. Data'
    BY <1>t, <1>0, <1>2 DEF AddUser, Data
  <2>5. Numbers' /\ Sets'
    BY <1>t, <1>0, <1>2, <2>2, <2>3 DEF AddUser, Numbers, Sets
  <2>6. Others(t) /\ Counted(t)'
    BY <1>f, <1>s, <1>2, <2>1 DEF AddUser, Elsewhere, Counted, Others, observed
  <2> QED
    BY <2>1, <2>4, <2>5, <2>6
<1>3. CASE Answer(t)
  <2>1. Places' /\ pc'[t] = "save" /\ Elsewhere(t)
    BY <1>t, <1>3, GoesTurn DEF Answer, TurnStates
  <2>2. hist' \in Seq(Message) /\ appended' \in 1..MaxMsgs /\ Latest = appended'
    BY <1>0, <1>t, <1>3, NewMessage DEF Answer, Numbers, Sets
  <2>3. raced' \in BOOLEAN
    BY <1>3 DEF Answer, Append1
  <2>4. Data'
    BY <1>t, <1>3 DEF Answer, Data
  <2>5. Numbers' /\ Sets'
    BY <1>t, <1>0, <1>3, <2>2, <2>3 DEF Answer, Numbers, Sets
  <2>6. Others(t) /\ Counted(t)'
    BY <1>f, <1>s, <1>3, <2>1, <2>2 DEF Answer, Elsewhere, Counted, Others, observed
  <2> QED
    BY <2>1, <2>4, <2>5, <2>6
<1>4. ASSUME NEW n \in 1..MaxCalls, CallTools(t, n) PROVE Places' /\ Data' /\ Numbers' /\ Sets' /\ Others(t) /\ Counted(t)'
  <2>1. Places' /\ pc'[t] = "tools" /\ Elsewhere(t)
    BY <1>t, <1>4, GoesTurn DEF CallTools, TurnStates
  <2>2. hist' \in Seq(Message) /\ appended' \in 1..MaxMsgs
    BY <1>0, <1>t, <1>4, NewMessage DEF CallTools, Numbers, Sets
  <2>3. raced' \in BOOLEAN
    BY <1>4 DEF CallTools, Append1
  <2>4. Data'
    BY <1>t, <1>4 DEF CallTools, Data
  <2>5. Numbers' /\ Sets'
    BY <1>t, <1>0, <1>4, <2>2, <2>3 DEF CallTools, Numbers, Sets
  <2>6. Others(t) /\ Counted(t)'
    <3>1. todo'[t] = n /\ n > 0
      BY <1>0, <1>f, <1>4 DEF CallTools
    <3> QED
      BY <1>f, <1>s, <1>4, <2>1, <3>1 DEF CallTools, Elsewhere, Counted, Others
  <2> QED
    BY <2>1, <2>4, <2>5, <2>6
<1>5. CASE ToolResult(t)
  <2>1. pc[t] = "tools" /\ todo[t] > 0
    BY <1>f, <1>5 DEF ToolResult, Goes, Counted
  <2>2. PICK to \in {"model", "tools"} : to = (IF todo[t] = 1 THEN "model" ELSE "tools")
    OBVIOUS
  <2>3. Goes(t, "tools", to)
    BY <1>5, <2>2 DEF ToolResult
  <2>4. Places' /\ pc'[t] = to /\ Elsewhere(t)
    BY <1>t, <2>3, GoesTurn DEF TurnStates
  <2>5. hist' \in Seq(Message) /\ appended' \in 1..MaxMsgs
    BY <1>0, <1>t, <1>5, NewMessage DEF ToolResult, Numbers, Sets
  <2>6. raced' \in BOOLEAN
    BY <1>5 DEF ToolResult, Append1
  <2>7. Data'
    BY <1>t, <1>5 DEF ToolResult, Data
  <2>8. Numbers' /\ Sets'
    BY <1>t, <1>0, <1>5, <2>1, <2>5, <2>6 DEF ToolResult, Numbers, Sets
  <2>9. Others(t) /\ Counted(t)'
    <3>1. todo[t] \in Nat
      BY <1>0, <1>f
    <3>2. pc'[t] = "tools" => todo'[t] > 0
      BY <1>f, <1>5, <2>1, <2>2, <2>4, <3>1 DEF ToolResult
    <3> QED
      BY <1>f, <1>s, <1>5, <2>2, <2>4, <3>2 DEF ToolResult, Counted, Others, Elsewhere
  <2> QED
    BY <2>4, <2>7, <2>8, <2>9
<1>6. CASE Timeout(t)
  <2>1. UNCHANGED <<session, disk, pc, copy, old, todo, observed, crashes>>
        /\ pc[t] = "model" /\ retry[t] < MaxRetries /\ retry' = [retry EXCEPT ![t] = @ + 1]
    BY <1>6 DEF Timeout
  <2>2. Places' /\ Data' /\ Sets'
    BY <1>t, <2>1 DEF Places, Data, Sets, session, observed
  <2>3. Numbers'
    BY <1>t, <1>0, <2>1 DEF Numbers, observed
  <2>4. Others(t) /\ Counted(t)'
    BY <1>f, <1>s, <2>1 DEF Counted, Others, observed
  <2> QED
    BY <2>2, <2>3, <2>4
<1>7. CASE Fail(t)
  <2>1. Places' /\ pc'[t] = "idle" /\ Elsewhere(t)
    BY <1>t, <1>7, GoesTurn DEF Fail, TurnStates
  <2>2. Data' /\ Numbers' /\ Sets'
    BY <1>t, <1>7 DEF Fail, Data, Numbers, Sets, session, observed
  <2>3. Others(t) /\ Counted(t)'
    BY <1>f, <1>s, <1>7, <2>1 DEF Fail, Elsewhere, Counted, Others, observed
  <2> QED
    BY <2>1, <2>2, <2>3
<1>8. CASE CompressRead(t)
  <2>0. Len(hist) \in Nat
    BY <1>t, MessagesOf DEF Sets
  <2>1. PICK to \in {"compressed", "compress"} : to = (IF Len(hist) <= CompressAbove THEN "compressed" ELSE "compress")
    OBVIOUS
  <2>2. Goes(t, "model", to)
    BY <1>8, <2>1 DEF CompressRead
  <2>3. Places' /\ pc'[t] = to /\ Elsewhere(t)
    BY <1>t, <2>2, GoesTurn DEF TurnStates
  <2>4. /\ retry[t] < MaxRetries /\ copy' = [copy EXCEPT ![t] = hist]
        /\ UNCHANGED <<session, disk, old, retry, todo, observed, crashes>>
    BY <1>8 DEF CompressRead
  <2>5. Data'
    BY <1>t, <2>4 DEF Data, Sets, observed
  <2>6. Numbers' /\ Sets'
    BY <1>t, <2>4 DEF Numbers, Sets, session, observed
  <2>7. Others(t) /\ Counted(t)'
    <3>1. copy'[t] = hist /\ \A u \in Turns \ {t} : copy'[u] = copy[u] /\ pc'[u] = pc[u]
      BY <1>t, <1>s, <2>3, <2>4 DEF Data, Elsewhere
    <3>2. to = "compress" => Len(hist) > CompressAbove
      BY <1>0, <2>0, <2>1
    <3> QED
      BY <1>f, <1>s, <2>3, <2>4, <3>1, <3>2 DEF Counted, Others, Elsewhere, observed
  <2> QED
    BY <2>3, <2>5, <2>6, <2>7
<1>9. CASE CompressSet(t)
  <2>1. Places' /\ pc[t] = "compress" /\ pc'[t] = "compress save" /\ Elsewhere(t)
    BY <1>t, <1>9, GoesTurn DEF CompressSet, TurnStates
  <2>2. hist' \in Seq(Message)
    <3>1. copy[t] \in Seq(Message) /\ Len(copy[t]) > CompressAbove
      BY <1>f, <2>1 DEF Counted
    <3> QED
      BY <1>9, <3>1, CompressedType DEF CompressSet
  <2>3. gone' \subseteq 1..MaxMsgs
    BY <1>9, <1>t, <1>k DEF CompressSet, Forgets, Sets
  <2>4. raced' \in BOOLEAN
    BY <1>9 DEF CompressSet
  <2>5. Data' /\ Numbers'
    BY <1>t, <1>9 DEF CompressSet, Data, Numbers
  <2>6. Sets'
    BY <1>t, <1>9, <2>2, <2>3, <2>4 DEF CompressSet, Sets
  <2>7. Others(t) /\ Counted(t)'
    BY <1>f, <1>s, <1>9, <2>1 DEF CompressSet, Elsewhere, Counted, Others, observed
  <2> QED
    BY <2>1, <2>5, <2>6, <2>7
<1>10. CASE CompressSave(t)
  <2>0. UNCHANGED <<session, retry, todo, seen, appended, gone, raced, answered, mixed, crashes>>
    BY <1>10 DEF CompressSave
  <2>1. CASE Snapshot(t, "compress save", "compress rename") /\ UNCHANGED disk
    <3>1. Places' /\ pc[t] = "compress save" /\ pc'[t] = "compress rename" /\ Elsewhere(t)
      BY <1>t, <2>1, GoesTurn DEF Snapshot, TurnStates
    <3>2. Data'
      BY <1>t, <2>0, <2>1 DEF Snapshot, Data, Sets
    <3>3. Numbers' /\ Sets'
      BY <1>t, <1>0, <2>0, <2>1 DEF Snapshot, Numbers, Sets, session
    <3>4. Others(t) /\ Counted(t)'
      BY <1>f, <1>s, <2>0, <2>1, <3>1 DEF Snapshot, Elsewhere, Counted, Others, observed
    <3> QED
      BY <3>1, <3>2, <3>3, <3>4
  <2>2. CASE Rename(t, "compress rename", "compressed")
    <3>1. Places' /\ pc[t] = "compress rename" /\ pc'[t] = "compressed" /\ Elsewhere(t)
      BY <1>t, <2>2, GoesTurn DEF Rename, TurnStates
    <3>2. Data'
      <4>1. disk' \in [hist : Seq(Message), covered : SUBSET (1..MaxMsgs)]
        BY <1>f, <2>2 DEF Rename
      <4>2. copy' \in [Savers -> Seq(Message)] /\ old' \in [Savers -> SUBSET (1..MaxMsgs)]
        BY <1>f, <2>2, EmptySeq DEF Rename
      <4> QED
        BY <1>f, <2>0, <4>1, <4>2 DEF Data
    <3>3. Numbers' /\ Sets'
      BY <1>t, <2>0, <2>2 DEF Rename, Numbers, Sets, session
    <3>4. Others(t) /\ Counted(t)'
      BY <1>f, <1>s, <2>0, <2>2, <3>1 DEF Rename, Elsewhere, Counted, Others, observed
    <3> QED
      BY <3>1, <3>2, <3>3, <3>4
  <2> QED
    BY <1>10, <2>1, <2>2 DEF CompressSave
<1>11. CASE Rebuild(t)
  <2>1. Places' /\ pc[t] = "compressed" /\ pc'[t] = "model" /\ Elsewhere(t)
    BY <1>t, <1>11, GoesTurn DEF Rebuild, TurnStates
  <2>2. Data' /\ Sets'
    BY <1>t, <1>11, EmptySeq DEF Rebuild, Data, Sets, session, observed
  <2>3. retry[t] < MaxRetries
    BY <1>f, <2>1 DEF Counted
  <2>4. Numbers'
    BY <1>t, <1>0, <1>11, <2>3 DEF Rebuild, Numbers, observed
  <2>5. Others(t) /\ Counted(t)'
    BY <1>f, <1>s, <1>11, <2>1 DEF Rebuild, Elsewhere, Counted, Others, observed
  <2> QED
    BY <2>1, <2>2, <2>4, <2>5
<1>12. CASE SaveTurn(t)
  <2>0. UNCHANGED <<session, retry, seen, appended, gone, raced, mixed, crashes>>
    BY <1>12 DEF SaveTurn
  <2>1. CASE Snapshot(t, "save", "rename")
    <3>1. Places' /\ pc[t] = "save" /\ pc'[t] = "rename" /\ Elsewhere(t)
      BY <1>t, <2>1, GoesTurn DEF Snapshot, TurnStates
    <3>0. disk' = disk /\ answered' = answered /\ todo' = todo
      BY <1>12, <2>1, <3>1 DEF SaveTurn, Snapshot, Rename, Goes
    <3>2. Data'
      BY <1>t, <2>0, <2>1, <3>0 DEF Snapshot, Data, Sets
    <3>3. Numbers' /\ Sets'
      BY <1>t, <1>0, <2>0, <2>1, <3>0 DEF Snapshot, Numbers, Sets, session
    <3>4. Others(t) /\ Counted(t)'
      BY <1>f, <1>s, <2>0, <2>1, <3>0, <3>1 DEF Snapshot, Elsewhere, Counted, Others, observed
    <3> QED
      BY <3>1, <3>2, <3>3, <3>4
  <2>2. CASE Rename(t, "rename", "saved")
    <3>1. Places' /\ pc[t] = "rename" /\ pc'[t] = "saved" /\ Elsewhere(t)
      BY <1>t, <2>2, GoesTurn DEF Rename, TurnStates
    <3>0. /\ answered' = (IF saving = {t} THEN answered \cup {todo[t]} ELSE answered)
          /\ todo' = [todo EXCEPT ![t] = 0]
      BY <1>12, <2>2, <3>1 DEF SaveTurn, Snapshot, Rename, Goes
    <3>2. Data'
      <4>1. disk' \in [hist : Seq(Message), covered : SUBSET (1..MaxMsgs)]
        BY <1>f, <2>2 DEF Rename
      <4>2. copy' \in [Savers -> Seq(Message)] /\ old' \in [Savers -> SUBSET (1..MaxMsgs)]
        BY <1>f, <2>2, EmptySeq DEF Rename
      <4> QED
        BY <1>f, <2>0, <4>1, <4>2 DEF Data
    <3>3. Numbers'
      BY <1>t, <1>0, <2>0, <3>0 DEF Numbers
    <3>4. Others(t) /\ Counted(t)'
      BY <1>f, <1>s, <2>0, <2>2, <3>0, <3>1 DEF Rename, Elsewhere, Counted, Others, observed
    <3>5. Sets'
      <4>1. todo[t] \in 1..MaxMsgs
        BY <1>f, <3>1 DEF Counted
      <4> QED
        BY <1>t, <2>0, <2>2, <3>0, <4>1 DEF Rename, Sets, session
    <3> QED
      BY <3>1, <3>2, <3>3, <3>4, <3>5
  <2> QED
    BY <1>12, <2>1, <2>2 DEF SaveTurn
<1>13. CASE MaybeSummarise(t)
  <2>1. Places'
    <3>0. "idle" \in TurnStates /\ "read" \in SummariserStates
      BY DEF TurnStates, SummariserStates
    <3>1. CASE pc' = [pc EXCEPT ![t] = "idle"]
      BY <1>t, <1>f, <1>0, <3>0, <3>1, People DEF Places
    <3>2. CASE pc' = [pc EXCEPT ![t] = "idle", !["summariser"] = "read"]
      BY <1>t, <1>f, <1>0, <3>0, <3>2, People DEF Places
    <3> QED
      BY <1>13, <3>1, <3>2 DEF MaybeSummarise
  <2>2. Data' /\ Numbers' /\ Sets'
    BY <1>t, <1>13 DEF MaybeSummarise, Data, Numbers, Sets, session, observed
  <2>3. pc'[t] = "idle" /\ \A u \in Turns \ {t} : pc'[u] = pc[u]
    BY <1>t, <1>0, <1>s, <1>13, People DEF MaybeSummarise, Places
  <2>4. Others(t) /\ Counted(t)'
    BY <1>f, <1>s, <1>13, <2>3 DEF MaybeSummarise, Counted, Others, observed
  <2> QED
    BY <2>1, <2>2, <2>4
<1> QED
  BY <1>1, <1>2, <1>3, <1>4, <1>5, <1>6, <1>7, <1>8, <1>9, <1>10, <1>11, <1>12, <1>13 DEF Turn

\* What the summariser leaves alone of the turns.
Beside ==
    /\ \A t \in Turns : pc'[t] = pc[t] /\ copy'[t] = copy[t] /\ old'[t] = old[t]
    /\ UNCHANGED <<retry, todo, seen, appended, answered, mixed, crashes>>

LEMMA TypesSummariser ==
    ASSUME HistoryTypesInv, Summariser
    PROVE  HistoryTypesInv' /\ Beside
<1> DEFINE s == "summariser"
<1>0. /\ s \in Savers /\ \A t \in Turns : t \in Savers /\ t # s
      /\ KeepLast \in Nat /\ "idle" \in SummariserStates /\ "ask" \in SummariserStates
  BY ConstantsAssumption, People DEF SummariserStates
<1>t. Places /\ Data /\ Numbers /\ Sets /\ Counts
  BY TypeParts DEF HistoryTypesInv
<1>f. /\ copy \in [Savers -> Seq(Message)] /\ old \in [Savers -> SUBSET (1..MaxMsgs)]
      /\ copy[s] \in Seq(Message) /\ old[s] \subseteq 1..MaxMsgs
      /\ hist \in Seq(Message) /\ covered \subseteq 1..MaxMsgs /\ Len(hist) \in Nat
  BY <1>0, <1>t, MessagesOf DEF Data, Sets
<1>k. Known \subseteq 1..MaxMsgs
  BY KnownType DEF HistoryTypesInv
<1>q. SUFFICES Places' /\ Data' /\ Numbers' /\ Sets' /\ Beside
  <2>1. Beside /\ Counts => Counts'
    BY DEF Beside, Counts, Counted
  <2> QED
    BY <1>t, <2>1, TypePartsNext DEF HistoryTypesInv
<1>1. CASE SummariserReads
  <2>1. PICK to \in {"idle", "ask"} : to = (IF Len(hist) <= KeepLast THEN "idle" ELSE "ask")
    OBVIOUS
  <2>2. Goes(s, "read", to)
    BY <1>1, <2>1 DEF SummariserReads
  <2>3. Places' /\ Elsewhere(s)
    BY <1>0, <1>t, <2>2, GoesSummariser DEF SummariserStates
  <2>4. PICK c \in Seq(Message) : c = (IF Len(hist) <= KeepLast THEN <<>> ELSE hist)
    BY <1>f, EmptySeq
  <2>5. copy' = [copy EXCEPT ![s] = c] /\ old' = [old EXCEPT ![s] = covered]
    BY <1>1, <2>4 DEF SummariserReads
  <2>6. Data' /\ Numbers' /\ Sets'
    BY <1>1, <1>t, <1>f, <2>5 DEF SummariserReads, Data, Numbers, Sets, session
  <2>7. Beside
    BY <1>0, <1>1, <1>f, <2>3, <2>5 DEF SummariserReads, Beside, Elsewhere
  <2> QED
    BY <2>3, <2>6, <2>7
<1>2. CASE SetSummary
  <2>1. Places' /\ Elsewhere(s)
    BY <1>2, <1>t, GoesSummariser DEF SetSummary, SummariserStates
  <2>2. covered' \subseteq 1..MaxMsgs
    <3>1. ToSummarise \in Seq(Message)
      BY <1>f, <1>0, ToSummariseType
    <3>2. \A x \in Summaries : x \subseteq 1..MaxMsgs
      BY <1>f, <3>1, HalvesType, MessagesOf DEF Summaries
    <3> QED
      BY <1>2, <3>2 DEF SetSummary
  <2>3. gone' \subseteq 1..MaxMsgs
    BY <1>2, <1>t, <1>k DEF SetSummary, Forgets, Sets
  <2>4. Data' /\ Numbers' /\ Sets'
    BY <1>2, <1>t, <2>2, <2>3 DEF SetSummary, Data, Numbers, Sets
  <2>5. Beside
    BY <1>0, <1>2, <2>1 DEF SetSummary, Beside, Elsewhere
  <2> QED
    BY <2>1, <2>4, <2>5
<1>3. CASE NoSummary
  <2>1. Places' /\ Elsewhere(s)
    BY <1>3, <1>t, GoesSummariser DEF NoSummary, SummariserStates
  <2>2. Data' /\ Numbers' /\ Sets'
    BY <1>3, <1>t, EmptySeq DEF NoSummary, Data, Numbers, Sets, session, observed
  <2>3. Beside
    BY <1>0, <1>3, <1>f, <2>1 DEF NoSummary, Beside, Elsewhere, observed
  <2> QED
    BY <2>1, <2>2, <2>3
<1>4. CASE Truncate
  <2>1. Places' /\ Elsewhere(s)
    BY <1>4, <1>t, GoesSummariser DEF Truncate, SummariserStates
  <2>2. hist' \in Seq(Message)
    <3>1. Len(hist) <= KeepLast \/ Len(hist) > KeepLast
      BY <1>0, <1>f
    <3>2. Len(hist) > KeepLast => hist' = SubSeq(hist, Len(hist) - KeepLast + 1, Len(hist))
      BY <1>0, <1>4, <1>f DEF Truncate
    <3>3. Len(hist) <= KeepLast => hist' = hist
      BY <1>4 DEF Truncate
    <3> QED
      BY <1>f, <3>1, <3>2, <3>3, KeptLast
  <2>3. gone' \subseteq 1..MaxMsgs
    BY <1>4, <1>t, <1>k DEF Truncate, Forgets, Sets
  <2>4. Data' /\ Numbers' /\ Sets'
    BY <1>4, <1>t, <2>2, <2>3 DEF Truncate, Data, Numbers, Sets
  <2>5. Beside
    BY <1>0, <1>4, <2>1 DEF Truncate, Beside, Elsewhere
  <2> QED
    BY <2>1, <2>4, <2>5
<1>5. CASE SummariserSaves
  <2>0. UNCHANGED <<session, retry, todo, seen, appended, gone, raced, answered, mixed, crashes>>
    BY <1>5 DEF SummariserSaves
  <2>1. CASE Snapshot(s, "save", "rename") /\ UNCHANGED disk
    <3>1. Places' /\ Elsewhere(s)
      BY <2>1, <1>t, GoesSummariser DEF Snapshot, SummariserStates
    <3>2. Data' /\ Numbers' /\ Sets'
      BY <1>0, <1>t, <2>0, <2>1 DEF Snapshot, Data, Numbers, Sets, session
    <3>3. Beside
      BY <1>0, <1>f, <2>0, <2>1, <3>1 DEF Snapshot, Beside, Elsewhere
    <3> QED
      BY <3>1, <3>2, <3>3
  <2>2. CASE Rename(s, "rename", "idle")
    <3>1. Places' /\ Elsewhere(s)
      BY <2>2, <1>t, GoesSummariser DEF Rename, SummariserStates
    <3>2. disk' \in [hist : Seq(Message), covered : SUBSET (1..MaxMsgs)]
      BY <1>f, <2>2 DEF Rename
    <3>3. copy' \in [Savers -> Seq(Message)] /\ old' \in [Savers -> SUBSET (1..MaxMsgs)]
      BY <1>f, <2>2, EmptySeq DEF Rename
    <3>4. Data'
      BY <1>t, <2>0, <3>2, <3>3 DEF Data
    <3>5. Numbers' /\ Sets'
      BY <1>t, <2>0, <2>2 DEF Rename, Numbers, Sets, session
    <3>6. Beside
      BY <1>0, <1>f, <2>0, <2>2, <3>1 DEF Rename, Beside, Elsewhere
    <3> QED
      BY <3>1, <3>4, <3>5, <3>6
  <2> QED
    BY <1>5, <2>1, <2>2 DEF SummariserSaves
<1> QED
  BY <1>1, <1>2, <1>3, <1>4, <1>5 DEF Summariser

LEMMA TypesCrash ==
    ASSUME HistoryTypesInv, Crash
    PROVE  HistoryTypesInv'
<1>t. Places /\ Data /\ Numbers /\ Sets /\ Counts
  BY TypeParts DEF HistoryTypesInv
<1>1. MaxRetries \in Nat /\ MaxMsgs \in Nat /\ MaxCalls \in Nat /\ MaxCrashes \in Nat
  BY ConstantsAssumption
<1>2. Places'
  BY People DEF Crash, Places, TurnStates, SummariserStates
<1>3. Data' /\ Counts'
  BY <1>t, People, EmptySeq DEF Crash, Data, Counts, Counted
<1>4. Numbers'
  BY <1>t, <1>1 DEF Crash, Numbers
<1>5. disk.hist \in Seq(Message) /\ disk.covered \subseteq 1..MaxMsgs
  BY <1>t DEF Data
<1>6. Sets'
  BY <1>t, <1>5 DEF Crash, Sets
<1> QED
  BY <1>2, <1>3, <1>4, <1>6, TypePartsNext DEF HistoryTypesInv

LEMMA TypesInit == Init => HistoryTypesInv
<1> SUFFICES ASSUME Init PROVE HistoryTypesInv
  OBVIOUS
<1>1. MaxRetries \in Nat /\ MaxMsgs \in Nat /\ MaxCalls \in Nat /\ MaxCrashes \in Nat
  BY ConstantsAssumption
<1>2. Places
  BY People DEF Init, Places, TurnStates, SummariserStates
<1>3. Data /\ Counts
  BY People, EmptySeq DEF Init, Data, Counts, Counted
<1>4. Numbers
  <2>1. 0 \in 0..MaxRetries /\ 0 \in 0..(MaxMsgs + MaxCalls) /\ 0 \in 0..MaxMsgs /\ 0 \in 0..MaxCrashes
    BY <1>1
  <2> QED
    BY <2>1 DEF Init, Numbers
<1>5. Sets
  BY EmptySeq DEF Init, Sets
<1> QED
  BY <1>2, <1>3, <1>4, <1>5, TypeParts DEF HistoryTypesInv

LEMMA TypesStays ==
    ASSUME HistoryTypesInv, UNCHANGED vars
    PROVE  HistoryTypesInv'
BY DEF HistoryTypesInv, TypeOK, Counts, Counted, vars, session, local, observed

\* The histories are sequences of messages, the counters stay in their bounds,
\* and each process is where its program can be.
THEOREM HistoryTypes == Spec => []TypeOK
<1>1. HistoryTypesInv /\ [Next]_vars => HistoryTypesInv'
  BY TypesTurn, TypesSummariser, TypesCrash, TypesStays DEF Next
<1>2. HistoryTypesInv => TypeOK
  BY DEF HistoryTypesInv
<1> QED
  BY <1>1, <1>2, TypesInit, PTL DEF Spec

-----------------------------------------------------------------------------
(* What a step does to memory, to the file and to the turn that takes it.  *)

Renamings == {"rename", "compress rename"}

\* What was known is known still, or marked as gone.
Keeps == Known \subseteq Said(hist') \cup covered' \cup gone' /\ gone \subseteq gone'

\* A turn leaves the summary alone, and a summariser at work hears of a change.
Stirs == /\ covered' = covered
         /\ \/ hist' = hist /\ raced' = raced
            \/ raced'
            \/ pc["summariser"] = "idle"

\* A step that neither begins nor ends a save of p, ...
NoSave(p) == UNCHANGED <<disk, saving, answered>> /\ pc'[p] \notin Renamings

\* ... the snapshot of one, ...
Snaps(p) == /\ UNCHANGED <<disk, answered, hist, covered, gone>>
            /\ saving' = saving \cup {p} /\ copy'[p] = hist /\ old'[p] = covered

\* ... and its end.
Writes(p) ==
    /\ UNCHANGED <<hist, covered, gone>>
    /\ pc[p] \in Renamings /\ pc'[p] \notin Renamings
    /\ disk' = [hist |-> copy[p], covered |-> old[p]]
    /\ saving' = saving \/ \A q \in Savers \ {p} : pc'[q] \notin Renamings
    /\ \/ answered' = answered
       \/ p \in Turns /\ pc[p] = "rename" /\ saving = {p} /\ answered' = answered \cup {todo[p]}

\* A turn begins, or one goes on that had begun.
Begins(t) == /\ UNCHANGED <<hist, covered, gone>>
             /\ copy'[t] = hist /\ seen'[t] = Known \ gone
             /\ mixed' = (mixed \/ Running # {})

GoesOn(t) == pc[t] # "idle" /\ pc'[t] # "read" /\ mixed' = mixed

Prompts(t) == pc'[t] = "prompt" => /\ pc[t] = "read" /\ gone' = gone
                                   /\ copy'[t] = copy[t] /\ old'[t] = covered /\ seen'[t] = seen[t]

\* While a turn saves, todo holds its answer.
Answers(t) ==
    /\ pc'[t] = "save" => todo'[t] \in Said(hist')
    /\ pc'[t] = "rename" => /\ pc[t] = "save" /\ todo'[t] = todo[t] /\ Snaps(t)

\* Nobody else moves, but that a summariser may be started.
Alongside(t) ==
    \A p \in Savers \ {t} :
        \/ pc'[p] = pc[p]
        \/ p = "summariser" /\ pc[p] = "idle" /\ pc'[p] = "read"

TurnStep(t) == /\ Keeps /\ Stirs
               /\ NoSave(t) \/ Snaps(t) \/ Writes(t)
               /\ Begins(t) \/ GoesOn(t)
               /\ Prompts(t) /\ Answers(t)
               /\ Alongside(t)

LEMMA ForgetsKeeps == ASSUME Forgets PROVE Keeps
BY DEF Forgets, Keeps

LEMMA StillKeeps == ASSUME UNCHANGED <<hist, covered, gone>> PROVE Keeps
BY DEF Keeps, Known

LEMMA TurnSteps ==
    ASSUME HistoryTypesInv, NEW t \in Turns, Turn(t)
    PROVE  TurnStep(t)
<1>0. t # "summariser" /\ t \in Savers
  BY People
<1>f. /\ pc \in [Savers -> TurnStates \cup SummariserStates]
      /\ copy \in [Savers -> Seq(Message)]
      /\ old \in [Savers -> SUBSET (1..MaxMsgs)] /\ seen \in [Turns -> SUBSET (1..MaxMsgs)]
      /\ todo \in [Turns -> 0..(MaxMsgs + MaxCalls)]
      /\ hist \in Seq(Message) /\ appended \in 0..MaxMsgs
  BY DEF HistoryTypesInv, TypeOK
<1> DEFINE Moves(from, to) == /\ pc[t] = from /\ pc'[t] = to
                              /\ Alongside(t)
<1>g. ASSUME NEW from, NEW to, Goes(t, from, to) PROVE Moves(from, to)
  BY <1>0, <1>f, <1>g DEF Goes, Alongside
<1>1. CASE Read(t)
  <2>1. CASE Goes(t, "idle", "read")
    <3>1. Moves("idle", "read")
      BY <1>g, <2>1
    <3>2. /\ UNCHANGED <<session, disk, gone, raced, saving, answered>>
          /\ copy' = [copy EXCEPT ![t] = hist] /\ seen' = [seen EXCEPT ![t] = Known \ gone]
          /\ mixed' = (mixed \/ Running # {})
      BY <1>1, <3>1 DEF Read, Goes
    <3>3. Keeps /\ Stirs /\ NoSave(t)
      BY <3>1, <3>2, StillKeeps DEF Stirs, NoSave, Renamings, session
    <3>4. Begins(t)
      BY <1>0, <1>f, <3>2 DEF Begins, session
    <3> QED
      BY <3>1, <3>3, <3>4 DEF TurnStep, Prompts, Answers
  <2>2. CASE Goes(t, "read", "prompt")
    <3>1. Moves("read", "prompt")
      BY <1>g, <2>2
    <3>2. UNCHANGED <<session, disk, copy, retry, todo, observed, crashes>>
          /\ old' = [old EXCEPT ![t] = covered]
      BY <1>1, <3>1 DEF Read, Goes
    <3>3. Keeps /\ Stirs /\ NoSave(t) /\ GoesOn(t)
      BY <3>1, <3>2, StillKeeps DEF Stirs, NoSave, Renamings, GoesOn, session, observed
    <3>4. Prompts(t)
      BY <1>0, <1>f, <3>1, <3>2 DEF Prompts, observed
    <3> QED
      BY <3>1, <3>3, <3>4 DEF TurnStep, Answers
  <2> QED
    BY <1>1, <2>1, <2>2 DEF Read
<1>a. ASSUME NEW role \in {"user", "assistant", "call", "tool"}, NEW n \in 0..MaxCalls, Append1(role, n),
             UNCHANGED <<covered, gone>>
      PROVE  Keeps /\ Stirs
  <2>1. Said(hist) \subseteq Said(hist')
    BY <1>a, <1>f, NewMessage
  <2>2. Keeps
    BY <1>a, <2>1 DEF Keeps, Known
  <2>3. Stirs
    BY <1>a DEF Append1, Stirs
  <2> QED
    BY <2>2, <2>3
<1>z. 0 \in 0..MaxCalls /\ \A n \in 1..MaxCalls : n \in 0..MaxCalls
  BY ConstantsAssumption
<1>2. CASE AddUser(t)
  <2>1. Moves("prompt", "model") /\ Append1("user", 0)
        /\ UNCHANGED <<covered, gone, disk, saving, answered, mixed>>
    BY <1>2, <1>g DEF AddUser
  <2>2. Keeps /\ Stirs
    BY <1>a, <1>z, <2>1
  <2> QED
    BY <2>1, <2>2 DEF TurnStep, NoSave, Renamings, GoesOn, Prompts, Answers
<1>3. CASE Answer(t)
  <2>1. Moves("model", "save") /\ Append1("assistant", 0) /\ todo' = [todo EXCEPT ![t] = Latest]
        /\ UNCHANGED <<covered, gone, disk, saving, answered, mixed>>
    BY <1>3, <1>g DEF Answer
  <2>2. Keeps /\ Stirs
    BY <1>a, <1>z, <2>1
  <2>3. todo'[t] \in Said(hist')
    BY <1>f, <1>z, <2>1, NewMessage
  <2> QED
    BY <2>1, <2>2, <2>3 DEF TurnStep, NoSave, Renamings, GoesOn, Prompts, Answers
<1>4. ASSUME NEW n \in 1..MaxCalls, CallTools(t, n) PROVE TurnStep(t)
  <2>1. Moves("model", "tools") /\ Append1("call", n)
        /\ UNCHANGED <<covered, gone, disk, saving, answered, mixed>>
    BY <1>4, <1>g DEF CallTools
  <2>2. Keeps /\ Stirs
    BY <1>a, <1>z, <2>1
  <2> QED
    BY <2>1, <2>2 DEF TurnStep, NoSave, Renamings, GoesOn, Prompts, Answers
<1>5. CASE ToolResult(t)
  <2>0. PICK to \in {"model", "tools"} : to = (IF todo[t] = 1 THEN "model" ELSE "tools")
    OBVIOUS
  <2>1. Moves("tools", to) /\ Append1("tool", 0)
        /\ UNCHANGED <<covered, gone, disk, saving, answered, mixed>>
    BY <1>5, <1>g, <2>0 DEF ToolResult
  <2>2. Keeps /\ Stirs
    BY <1>a, <1>z, <2>1
  <2> QED
    BY <2>1, <2>2 DEF TurnStep, NoSave, Renamings, GoesOn, Prompts, Answers
<1>6. CASE Timeout(t)
  <2>1. pc[t] = "model" /\ UNCHANGED <<hist, covered, gone, raced, disk, saving, answered, mixed, pc>>
    BY <1>6 DEF Timeout, session, observed
  <2> QED
    BY <2>1, StillKeeps DEF TurnStep, Alongside, Stirs, NoSave, Renamings, GoesOn, Prompts, Answers
<1>7. CASE Fail(t)
  <2>1. Moves("model", "idle") /\ UNCHANGED <<hist, covered, gone, raced, disk, saving, answered, mixed>>
    BY <1>7, <1>g DEF Fail, session, observed
  <2> QED
    BY <2>1, StillKeeps DEF TurnStep, Stirs, NoSave, Renamings, GoesOn, Prompts, Answers
<1>8. CASE CompressRead(t)
  <2>0. PICK to \in {"compressed", "compress"} : to = (IF Len(hist) <= CompressAbove THEN "compressed" ELSE "compress")
    OBVIOUS
  <2>1. Moves("model", to) /\ UNCHANGED <<hist, covered, gone, raced, disk, saving, answered, mixed>>
    BY <1>8, <1>g, <2>0 DEF CompressRead, session, observed
  <2> QED
    BY <2>1, StillKeeps DEF TurnStep, Stirs, NoSave, Renamings, GoesOn, Prompts, Answers
<1>9. CASE CompressSet(t)
  <2>1. Moves("compress", "compress save") /\ UNCHANGED <<covered, disk, saving, answered, mixed>>
        /\ Forgets /\ raced' = (raced \/ pc["summariser"] # "idle")
    BY <1>9, <1>g DEF CompressSet
  <2>2. Keeps /\ Stirs
    BY <2>1, ForgetsKeeps DEF Stirs
  <2> QED
    BY <2>1, <2>2 DEF TurnStep, NoSave, Renamings, GoesOn, Prompts, Answers
<1>b. ASSUME NEW from, NEW to, Snapshot(t, from, to), UNCHANGED <<disk, answered, session, gone>> PROVE Snaps(t)
  BY <1>b, <1>0, <1>f DEF Snapshot, Snaps, session
<1>c. ASSUME NEW from \in Renamings, NEW to, to \notin Renamings, Rename(t, from, to), UNCHANGED <<session, gone>>,
             answered' = (IF from = "rename" /\ saving = {t} THEN answered \cup {todo[t]} ELSE answered)
      PROVE  Writes(t)
  <2>1. Moves(from, to)
    BY <1>c, <1>g DEF Rename
  <2>2. saving' = saving \/ \A q \in Savers \ {t} : pc'[q] \notin Renamings
    BY <1>c DEF Rename, Renamings
  <2> QED
    BY <1>c, <2>1, <2>2 DEF Rename, Writes, session
<1>10. CASE CompressSave(t)
  <2>0. UNCHANGED <<session, gone, raced, answered, mixed>>
    BY <1>10 DEF CompressSave
  <2>1. Keeps /\ Stirs
    BY <2>0, StillKeeps DEF Stirs, session
  <2>2. CASE Snapshot(t, "compress save", "compress rename") /\ UNCHANGED disk
    <3>1. Moves("compress save", "compress rename") /\ Snaps(t)
      BY <1>b, <1>g, <2>0, <2>2 DEF Snapshot
    <3> QED
      BY <2>0, <2>1, <3>1 DEF TurnStep, GoesOn, Prompts, Answers
  <2>3. CASE Rename(t, "compress rename", "compressed")
    <3>1. Moves("compress rename", "compressed") /\ Writes(t)
      BY <1>c, <1>g, <2>0, <2>3 DEF Rename, Renamings
    <3> QED
      BY <2>0, <2>1, <3>1 DEF TurnStep, GoesOn, Prompts, Answers
  <2> QED
    BY <1>10, <2>2, <2>3 DEF CompressSave
<1>11. CASE Rebuild(t)
  <2>1. Moves("compressed", "model") /\ UNCHANGED <<hist, covered, gone, raced, disk, saving, answered, mixed>>
    BY <1>11, <1>g DEF Rebuild, session, observed
  <2> QED
    BY <2>1, StillKeeps DEF TurnStep, Stirs, NoSave, Renamings, GoesOn, Prompts, Answers
<1>12. CASE SaveTurn(t)
  <2>0. UNCHANGED <<session, gone, raced, mixed>>
    BY <1>12 DEF SaveTurn
  <2>1. Keeps /\ Stirs
    BY <2>0, StillKeeps DEF Stirs, session
  <2>2. CASE Snapshot(t, "save", "rename")
    <3>1. Moves("save", "rename")
      BY <1>g, <2>2 DEF Snapshot
    <3>2. UNCHANGED <<disk, answered, todo>>
      BY <1>12, <3>1 DEF SaveTurn, Rename, Goes
    <3>3. Snaps(t)
      BY <1>b, <2>0, <2>2, <3>2
    <3> QED
      BY <2>0, <2>1, <3>1, <3>2, <3>3 DEF TurnStep, GoesOn, Prompts, Answers
  <2>3. CASE Rename(t, "rename", "saved")
    <3>1. Moves("rename", "saved")
      BY <1>g, <2>3 DEF Rename
    <3>2. answered' = (IF saving = {t} THEN answered \cup {todo[t]} ELSE answered)
      BY <1>12, <3>1 DEF SaveTurn, Snapshot, Goes
    <3>3. Writes(t)
      BY <1>c, <2>0, <2>3, <3>2 DEF Renamings
    <3> QED
      BY <2>0, <2>1, <3>1, <3>3 DEF TurnStep, GoesOn, Prompts, Answers
  <2> QED
    BY <1>12, <2>2, <2>3 DEF SaveTurn
<1>13. CASE MaybeSummarise(t)
  <2>1. /\ pc[t] = "saved" /\ pc'[t] = "idle"
        /\ Alongside(t)
    BY <1>13, <1>0, <1>f, People DEF MaybeSummarise, Alongside
  <2>2. UNCHANGED <<hist, covered, gone, raced, disk, saving, answered, mixed>>
    BY <1>13 DEF MaybeSummarise, session, observed
  <2> QED
    BY <2>1, <2>2, StillKeeps DEF TurnStep, Stirs, NoSave, Renamings, GoesOn, Prompts, Answers
<1> QED
  BY <1>1, <1>2, <1>3, <1>4, <1>5, <1>6, <1>7, <1>8, <1>9, <1>10, <1>11, <1>12, <1>13 DEF Turn

\* What the summariser has at hand when it asks, and when it truncates.
Works ==
    /\ pc'["summariser"] = "ask" =>
           /\ Len(hist) > KeepLast /\ UNCHANGED <<hist, covered>>
           /\ copy'["summariser"] = hist /\ old'["summariser"] = covered
    /\ pc'["summariser"] = "truncate" =>
           /\ pc["summariser"] = "ask" /\ UNCHANGED <<hist, raced>>
           /\ copy'["summariser"] = copy["summariser"] /\ old'["summariser"] = old["summariser"]
           /\ Cardinality(Said(ToSummarise)) <= OneBatch =>
                  covered' = old["summariser"] \cup Said(ToSummarise)

SummariserStep == /\ Keeps /\ Said(hist') \subseteq Said(hist)
                  /\ NoSave("summariser") \/ Snaps("summariser") \/ Writes("summariser")
                  /\ Works

LEMMA CountSaid ==
    ASSUME NEW h \in Seq(Message)
    PROVE  Cardinality(Said(h)) \in Nat
<1>1. Said(h) \subseteq 1..MaxMsgs /\ 1 \in Int /\ MaxMsgs \in Int
  BY MessagesOf, ConstantsAssumption
<1>2. IsFiniteSet(1..MaxMsgs)
  BY <1>1, FS_Interval
<1>3. IsFiniteSet(Said(h))
  BY <1>1, <1>2, FS_Subset
<1> QED
  BY <1>3, FS_CardinalityType

LEMMA SummariserSteps ==
    ASSUME HistoryTypesInv, Summariser
    PROVE  SummariserStep
<1> DEFINE s == "summariser"
<1>0. s \in Savers /\ s \notin Turns /\ KeepLast \in Nat /\ OneBatch \in Nat
  BY People, ConstantsAssumption
<1>f. /\ pc \in [Savers -> TurnStates \cup SummariserStates]
      /\ copy \in [Savers -> Seq(Message)] /\ copy[s] \in Seq(Message)
      /\ old \in [Savers -> SUBSET (1..MaxMsgs)]
      /\ hist \in Seq(Message) /\ Len(hist) \in Nat
  BY <1>0, MessagesOf DEF HistoryTypesInv, TypeOK
<1>g. ASSUME NEW from, NEW to, Goes(s, from, to) PROVE pc[s] = from /\ pc'[s] = to
  BY <1>0, <1>f, <1>g DEF Goes
<1>1. CASE SummariserReads
  <2>1. PICK to \in {"idle", "ask"} : to = (IF Len(hist) <= KeepLast THEN "idle" ELSE "ask")
    OBVIOUS
  <2>2. pc'[s] = to /\ UNCHANGED <<hist, covered, gone, disk, saving, answered>>
    BY <1>1, <1>g, <2>1 DEF SummariserReads, session
  <2>3. to = "ask" => Len(hist) > KeepLast
    BY <1>0, <1>f, <2>1
  <2>4. to = "ask" => copy'[s] = hist /\ old'[s] = covered
    BY <1>0, <1>1, <1>f, <2>1 DEF SummariserReads
  <2> QED
    BY <2>2, <2>3, <2>4, StillKeeps DEF SummariserStep, NoSave, Renamings, Works
<1>2. CASE SetSummary
  <2>1. /\ pc[s] = "ask" /\ pc'[s] = "truncate" /\ UNCHANGED <<hist, disk, copy, old, raced, saving, answered>>
        /\ covered' \in Summaries /\ Forgets
    BY <1>2, <1>g DEF SetSummary
  <2>2. Cardinality(Said(ToSummarise)) \in Nat
    BY <1>f, ToSummariseType, CountSaid
  <2>3. Cardinality(Said(ToSummarise)) <= OneBatch => covered' = old[s] \cup Said(ToSummarise)
    BY <1>0, <2>1, <2>2 DEF Summaries
  <2> QED
    BY <2>1, <2>3, ForgetsKeeps DEF SummariserStep, NoSave, Renamings, Works
<1>3. CASE NoSummary
  <2>1. pc'[s] = "idle" /\ UNCHANGED <<hist, covered, gone, disk, saving, answered>>
    BY <1>3, <1>g DEF NoSummary, session, observed
  <2> QED
    BY <2>1, StillKeeps DEF SummariserStep, NoSave, Renamings, Works
<1>4. CASE Truncate
  <2>1. pc'[s] = "save" /\ UNCHANGED <<disk, saving, answered>> /\ Forgets
    BY <1>4, <1>g DEF Truncate
  <2>2. Said(hist') \subseteq Said(hist)
    <3>1. Len(hist) <= KeepLast \/ Len(hist) > KeepLast
      BY <1>0, <1>f
    <3>2. Len(hist) > KeepLast => hist' = SubSeq(hist, Len(hist) - KeepLast + 1, Len(hist))
      BY <1>0, <1>4, <1>f DEF Truncate
    <3>3. Len(hist) <= KeepLast => hist' = hist
      BY <1>4 DEF Truncate
    <3> QED
      BY <1>f, <3>1, <3>2, <3>3, KeptLast
  <2> QED
    BY <2>1, <2>2, ForgetsKeeps DEF SummariserStep, NoSave, Renamings, Works
<1>5. CASE SummariserSaves
  <2>0. UNCHANGED <<hist, covered, gone, answered>>
    BY <1>5 DEF SummariserSaves, session
  <2>1. CASE Snapshot(s, "save", "rename") /\ UNCHANGED disk
    <3>1. pc'[s] = "rename" /\ Snaps(s)
      BY <1>0, <1>f, <1>g, <2>0, <2>1 DEF Snapshot, Snaps
    <3> QED
      BY <2>0, <3>1, StillKeeps DEF SummariserStep, Works
  <2>2. CASE Rename(s, "rename", "idle")
    <3>1. pc[s] = "rename" /\ pc'[s] = "idle"
      BY <1>g, <2>2 DEF Rename
    <3>2. saving' = saving \/ \A q \in Savers \ {s} : pc'[q] \notin Renamings
      BY <2>2 DEF Rename, Renamings
    <3>3. Writes(s)
      BY <2>0, <2>2, <3>1, <3>2 DEF Rename, Writes, Renamings
    <3> QED
      BY <2>0, <3>1, <3>3, StillKeeps DEF SummariserStep, Works
  <2> QED
    BY <1>5, <2>1, <2>2 DEF SummariserSaves
<1> QED
  BY <1>1, <1>2, <1>3, <1>4, <1>5 DEF Summariser

-----------------------------------------------------------------------------
(* The invariant.                                                          *)

\* Every answer that was saved is known still, or is marked as gone.
Safe == answered \subseteq Known \cup gone

\* What is about to be written to the file tells of them too.
Renaming ==
    \A p \in Savers : pc[p] \in Renamings =>
        p \in saving /\ answered \subseteq Said(copy[p]) \cup old[p] \cup gone

\* A turn that saves has its answer in memory, and then in what it writes.
Answering ==
    \A t \in Turns :
        /\ pc[t] \in {"save", "rename"} => todo[t] \in Known \cup gone
        /\ pc[t] = "rename" => todo[t] \in Said(copy[t]) \cup old[t] \cup gone

Alone == ~mixed => \A t, u \in Turns : pc[t] # "idle" /\ pc[u] # "idle" => t = u

\* Between the two reads of a prompt, what it misses is in the summary by now.
Reading ==
    ~mixed => \A t \in Turns : pc[t] = "read" =>
        /\ seen[t] \ gone \subseteq Said(copy[t]) \cup covered
        /\ Said(hist) \subseteq Said(copy[t])

\* What the summariser has read is there still, unless it was raced.
Summarising ==
    /\ pc["summariser"] \in {"ask", "truncate"} =>
           /\ Len(copy["summariser"]) > KeepLast
           /\ ~raced => hist = copy["summariser"]
    /\ pc["summariser"] = "ask" => old["summariser"] = covered
    /\ pc["summariser"] = "truncate" /\ Cardinality(Said(ToSummarise)) <= OneBatch =>
           Said(ToSummarise) \subseteq covered

HistoryInv == /\ HistoryTypesInv /\ Safe /\ Durable /\ Renaming /\ Answering
              /\ Alone /\ Reading /\ PromptSeesAll /\ Summarising

\* A step by p keeps what the file, memory and pending writes tell of.
LEMMA FileKept ==
    ASSUME HistoryInv, NEW p \in Savers, Keeps,
           NoSave(p) \/ Snaps(p) \/ Writes(p),
           \A q \in Savers \ {p} : /\ copy'[q] = copy[q] /\ old'[q] = old[q]
                                   /\ pc'[q] = pc[q] \/ pc'[q] \notin Renamings
    PROVE  Safe' /\ Durable' /\ Renaming'
<1>0. Safe /\ Durable /\ Renaming /\ Answering
  BY DEF HistoryInv
<1>k. Known \subseteq Known' \cup gone' /\ gone \subseteq gone'
  BY DEF Keeps, Known
<1>1. CASE NoSave(p)
  <2>1. Safe' /\ Durable'
    BY <1>0, <1>1, <1>k DEF NoSave, Safe, Durable
  <2>2. ASSUME NEW q \in Savers, pc'[q] \in Renamings
        PROVE  q \in saving' /\ answered' \subseteq Said(copy'[q]) \cup old'[q] \cup gone'
    <3>1. q # p /\ pc[q] \in Renamings /\ copy'[q] = copy[q] /\ old'[q] = old[q]
      BY <1>1, <2>2 DEF NoSave
    <3> QED
      BY <1>0, <1>1, <1>k, <3>1 DEF NoSave, Renaming
  <2> QED
    BY <2>1, <2>2 DEF Renaming
<1>2. CASE Snaps(p)
  <2>1. Safe' /\ Durable'
    BY <1>0, <1>2, <1>k DEF Snaps, Safe, Durable
  <2>2. ASSUME NEW q \in Savers, pc'[q] \in Renamings
        PROVE  q \in saving' /\ answered' \subseteq Said(copy'[q]) \cup old'[q] \cup gone'
    <3>1. CASE q = p
      BY <1>0, <1>2, <3>1 DEF Snaps, Safe, Known
    <3>2. CASE q # p
      <4>1. pc[q] \in Renamings /\ copy'[q] = copy[q] /\ old'[q] = old[q]
        BY <2>2, <3>2
      <4> QED
        BY <1>0, <1>2, <4>1 DEF Snaps, Renaming
    <3> QED
      BY <3>1, <3>2
  <2> QED
    BY <2>1, <2>2 DEF Renaming
<1>3. CASE Writes(p)
  <2>0. /\ UNCHANGED <<hist, covered, gone>> /\ Known' = Known
        /\ disk'.hist = copy[p] /\ disk'.covered = old[p]
        /\ pc[p] \in Renamings /\ pc'[p] \notin Renamings
    BY <1>3 DEF Writes, Known
  <2>1. answered \subseteq Said(disk'.hist) \cup disk'.covered \cup gone
    BY <1>0, <2>0 DEF Renaming
  <2>2. CASE answered' = answered
    <3>1. Safe' /\ Durable'
      BY <1>0, <2>0, <2>1, <2>2 DEF Safe, Durable
    <3>2. ASSUME NEW q \in Savers, pc'[q] \in Renamings
          PROVE  q \in saving' /\ answered' \subseteq Said(copy'[q]) \cup old'[q] \cup gone'
      <4>1. q # p /\ pc[q] \in Renamings /\ copy'[q] = copy[q] /\ old'[q] = old[q]
        BY <2>0, <3>2
      <4>2. saving' = saving
        BY <1>3, <3>2, <4>1 DEF Writes
      <4> QED
        BY <1>0, <2>0, <2>2, <4>1, <4>2 DEF Renaming
    <3> QED
      BY <3>1, <3>2 DEF Renaming
  <2>3. CASE p \in Turns /\ pc[p] = "rename" /\ saving = {p} /\ answered' = answered \cup {todo[p]}
    <3>1. todo[p] \in Said(copy[p]) \cup old[p] \cup gone /\ todo[p] \in Known \cup gone
      BY <1>0, <2>3 DEF Answering
    <3>2. Safe' /\ Durable'
      BY <1>0, <2>0, <2>1, <2>3, <3>1 DEF Safe, Durable
    <3>3. ASSUME NEW q \in Savers, pc'[q] \in Renamings PROVE FALSE
      <4>1. q # p /\ pc[q] \in Renamings
        BY <2>0, <3>3
      <4> QED
        BY <1>0, <2>3, <4>1 DEF Renaming
    <3> QED
      BY <3>2, <3>3 DEF Renaming
  <2> QED
    BY <1>3, <2>2, <2>3 DEF Writes
<1> QED
  BY <1>1, <1>2, <1>3

LEMMA StepTurn ==
    ASSUME HistoryInv, NEW t \in Turns, Turn(t)
    PROVE  HistoryInv'
<1>0. /\ TurnStep(t) /\ Others(t) /\ HistoryTypesInv /\ HistoryTypesInv' /\ t \in Savers /\ t # "summariser"
      /\ "summariser" \in Savers \ {t} /\ \A u \in Turns : u \in Savers /\ u # "summariser"
  BY TurnSteps, TypesTurn, People DEF HistoryInv
<1>k. /\ gone \subseteq gone' /\ Known \subseteq Known' \cup gone' /\ covered' = covered
      /\ Begins(t) \/ GoesOn(t)
  BY <1>0 DEF TurnStep, Stirs, Keeps, Known
<1>m. mixed \in BOOLEAN /\ mixed' \in BOOLEAN /\ (mixed => mixed')
  BY <1>0, <1>k DEF HistoryTypesInv, TypeOK, Begins, GoesOn
<1>u. ASSUME NEW u \in Turns \ {t}
      PROVE  /\ pc'[u] = pc[u] /\ copy'[u] = copy[u] /\ old'[u] = old[u]
             /\ seen'[u] = seen[u] /\ todo'[u] = todo[u]
  BY <1>0 DEF Others
<1>1. Safe' /\ Durable' /\ Renaming'
  <2>1. ASSUME NEW q \in Savers \ {t}
        PROVE  copy'[q] = copy[q] /\ old'[q] = old[q] /\ (pc'[q] = pc[q] \/ pc'[q] \notin Renamings)
    BY <1>0 DEF TurnStep, Alongside, Others, Renamings
  <2> QED
    BY <1>0, <2>1, FileKept DEF TurnStep
<1>2. Answering'
  <2>1. ASSUME NEW u \in Turns, u # t
        PROVE  /\ pc'[u] \in {"save", "rename"} => todo'[u] \in Known' \cup gone'
               /\ pc'[u] = "rename" => todo'[u] \in Said(copy'[u]) \cup old'[u] \cup gone'
    BY <1>k, <1>u, <2>1 DEF HistoryInv, Answering
  <2>2. pc'[t] = "save" => todo'[t] \in Known'
    BY <1>0 DEF TurnStep, Answers, Known
  <2>3. pc'[t] = "rename" => /\ todo'[t] \in Known' \cup gone'
                             /\ todo'[t] \in Said(copy'[t]) \cup old'[t] \cup gone'
    <3>1. SUFFICES ASSUME pc'[t] = "rename"
                   PROVE  /\ todo'[t] \in Known' \cup gone'
                          /\ todo'[t] \in Said(copy'[t]) \cup old'[t] \cup gone'
      OBVIOUS
    <3>2. pc[t] = "save" /\ todo'[t] = todo[t] /\ Snaps(t)
      BY <1>0, <3>1 DEF TurnStep, Answers
    <3>3. todo[t] \in Known \cup gone
      BY <3>2 DEF HistoryInv, Answering
    <3> QED
      BY <3>2, <3>3 DEF Snaps, Known
  <2> QED
    BY <2>1, <2>2, <2>3 DEF Answering
<1>3. Alone'
  <2>1. SUFFICES ASSUME ~mixed', NEW u \in Turns, NEW v \in Turns, pc'[u] # "idle", pc'[v] # "idle"
                 PROVE  u = v
    BY DEF Alone
  <2>2. ~mixed
    BY <1>m, <2>1
  <2>3. CASE Begins(t)
    <3>1. Running = {}
      BY <2>1, <2>3 DEF Begins
    <3> QED
      BY <1>u, <2>1, <3>1 DEF Running
  <2>4. CASE GoesOn(t)
    BY <1>u, <2>1, <2>2, <2>4 DEF GoesOn, HistoryInv, Alone
  <2> QED
    BY <1>k, <2>3, <2>4
<1>4. Reading'
  <2>1. SUFFICES ASSUME ~mixed', NEW u \in Turns, pc'[u] = "read"
                 PROVE  /\ seen'[u] \ gone' \subseteq Said(copy'[u]) \cup covered'
                        /\ Said(hist') \subseteq Said(copy'[u])
    BY DEF Reading
  <2>2. ~mixed
    BY <1>m, <2>1
  <2>3. CASE Begins(t)
    <3>1. Running = {}
      BY <2>1, <2>3 DEF Begins
    <3>2. u = t
      BY <1>u, <2>1, <3>1 DEF Running
    <3> QED
      BY <2>3, <3>2 DEF Begins, Known
  <2>4. CASE GoesOn(t)
    BY <1>u, <2>1, <2>2, <2>4 DEF GoesOn, HistoryInv, Alone
  <2> QED
    BY <1>k, <2>3, <2>4
<1>5. PromptSeesAll'
  <2>1. SUFFICES ASSUME ~mixed', NEW u \in Turns, pc'[u] = "prompt"
                 PROVE  seen'[u] \ gone' \subseteq Said(copy'[u]) \cup old'[u]
    BY DEF PromptSeesAll
  <2>2. ~mixed
    BY <1>m, <2>1
  <2>3. CASE u = t
    <3>1. /\ pc[t] = "read" /\ gone' = gone
          /\ copy'[t] = copy[t] /\ old'[t] = covered /\ seen'[t] = seen[t]
      BY <1>0, <2>1, <2>3 DEF TurnStep, Prompts
    <3> QED
      BY <2>2, <2>3, <3>1 DEF HistoryInv, Reading
  <2>4. CASE u # t
    BY <1>k, <1>u, <2>1, <2>2, <2>4 DEF HistoryInv, PromptSeesAll
  <2> QED
    BY <2>3, <2>4
<1>6. Summarising'
  <2>1. copy'["summariser"] = copy["summariser"] /\ old'["summariser"] = old["summariser"]
    BY <1>0 DEF Others
  <2>2. ToSummarise' = ToSummarise
    BY <2>1 DEF ToSummarise
  <2>3. pc'["summariser"] \in {"ask", "truncate"} => pc'["summariser"] = pc["summariser"]
    BY <1>0 DEF TurnStep, Alongside
  <2>4. pc["summariser"] \in {"ask", "truncate"} => \/ hist' = hist /\ raced' = raced
                                                  \/ raced'
    BY <1>0 DEF TurnStep, Stirs
  <2> QED
    BY <1>k, <2>1, <2>2, <2>3, <2>4 DEF HistoryInv, Summarising
<1> QED
  BY <1>0, <1>1, <1>2, <1>3, <1>4, <1>5, <1>6 DEF HistoryInv

LEMMA StepSummariser ==
    ASSUME HistoryInv, Summariser
    PROVE  HistoryInv'
<1>0. SummariserStep /\ Beside /\ HistoryTypesInv /\ HistoryTypesInv'
  BY SummariserSteps, TypesSummariser DEF HistoryInv
<1>k. gone \subseteq gone' /\ Known \subseteq Known' \cup gone' /\ Said(hist') \subseteq Said(hist)
  BY <1>0 DEF SummariserStep, Keeps, Known
<1>u. /\ \A u \in Turns : pc'[u] = pc[u] /\ copy'[u] = copy[u] /\ old'[u] = old[u]
      /\ UNCHANGED <<todo, seen, mixed>>
  BY <1>0 DEF Beside
<1>1. Safe' /\ Durable' /\ Renaming'
  <2>1. ASSUME NEW q \in Savers \ {"summariser"}
        PROVE  copy'[q] = copy[q] /\ old'[q] = old[q] /\ (pc'[q] = pc[q] \/ pc'[q] \notin Renamings)
    BY <1>u, People
  <2> QED
    BY <1>0, <2>1, FileKept, People DEF SummariserStep
<1>2. Answering'
  BY <1>k, <1>u DEF HistoryInv, Answering
<1>3. Alone'
  BY <1>u DEF HistoryInv, Alone
<1>4. Reading'
  <2>1. SUFFICES ASSUME ~mixed', NEW u \in Turns, pc'[u] = "read"
                 PROVE  /\ seen'[u] \ gone' \subseteq Said(copy'[u]) \cup covered'
                        /\ Said(hist') \subseteq Said(copy'[u])
    BY DEF Reading
  <2>2. seen[u] \ gone \subseteq Said(copy[u]) \cup covered /\ Said(hist) \subseteq Said(copy[u])
    BY <1>u, <2>1 DEF HistoryInv, Reading
  <2>3. covered \subseteq Said(hist') \cup covered' \cup gone'
    BY <1>k DEF Known
  <2> QED
    BY <1>k, <1>u, <2>2, <2>3
<1>5. PromptSeesAll'
  BY <1>k, <1>u DEF HistoryInv, PromptSeesAll
<1>6. Summarising'
  <2>1. CASE pc'["summariser"] = "ask"
    <3>1. Len(hist) > KeepLast /\ hist' = hist /\ covered' = covered
          /\ copy'["summariser"] = hist /\ old'["summariser"] = covered
      BY <1>0, <2>1 DEF SummariserStep, Works
    <3> QED
      BY <2>1, <3>1 DEF Summarising
  <2>2. CASE pc'["summariser"] = "truncate"
    <3>1. /\ pc["summariser"] = "ask" /\ hist' = hist /\ raced' = raced
          /\ copy'["summariser"] = copy["summariser"] /\ old'["summariser"] = old["summariser"]
          /\ Cardinality(Said(ToSummarise)) <= OneBatch =>
                 covered' = old["summariser"] \cup Said(ToSummarise)
      BY <1>0, <2>2 DEF SummariserStep, Works
    <3>2. ToSummarise' = ToSummarise
      BY <3>1 DEF ToSummarise
    <3> QED
      BY <2>2, <3>1, <3>2 DEF HistoryInv, Summarising
  <2> QED
    BY <2>1, <2>2 DEF Summarising
<1> QED
  BY <1>0, <1>1, <1>2, <1>3, <1>4, <1>5, <1>6 DEF HistoryInv

LEMMA StepCrash ==
    ASSUME HistoryInv, Crash
    PROVE  HistoryInv'
<1>1. /\ HistoryTypesInv' /\ "summariser" \in Savers /\ \A t \in Turns : t \in Savers
      /\ \A p \in Savers : pc'[p] = "idle"
      /\ hist' = disk.hist /\ covered' = disk.covered /\ UNCHANGED <<disk, gone, answered>>
  BY TypesCrash, People DEF HistoryInv, Crash
<1>2. Safe' /\ Durable'
  BY <1>1 DEF HistoryInv, Durable, Safe, Known
<1>3. Renaming' /\ Answering' /\ Alone' /\ Reading' /\ PromptSeesAll' /\ Summarising'
  BY <1>1 DEF Renaming, Renamings, Answering, Alone, Reading, PromptSeesAll, Summarising
<1> QED
  BY <1>1, <1>2, <1>3 DEF HistoryInv

LEMMA InitHistory == Init => HistoryInv
<1> SUFFICES ASSUME Init PROVE HistoryInv
  OBVIOUS
<1>1. /\ HistoryTypesInv /\ "summariser" \in Savers /\ \A t \in Turns : t \in Savers
      /\ answered = {} /\ \A p \in Savers : pc[p] = "idle"
  BY TypesInit, People DEF Init
<1> QED
  BY <1>1 DEF HistoryInv, Durable, Safe, Renaming, Renamings, Answering, Alone, Reading, PromptSeesAll, Summarising

LEMMA StepHistory == HistoryInv /\ [Next]_vars => HistoryInv'
<1>1. ASSUME HistoryInv, UNCHANGED vars PROVE HistoryInv'
  <2>1. HistoryTypesInv'
    BY <1>1, TypesStays DEF HistoryInv
  <2>2. UNCHANGED <<hist, covered, disk, pc, copy, old, todo, seen, gone, raced, saving, answered, mixed>>
    BY <1>1 DEF vars, session, local, observed
  <2>3. Known' = Known /\ ToSummarise' = ToSummarise
    BY <2>2 DEF Known, ToSummarise
  <2> QED
    BY <1>1, <2>1, <2>2, <2>3 DEF HistoryInv, Durable, Safe, Renaming, Answering, Alone, Reading, PromptSeesAll, Summarising
<1> QED
  BY <1>1, StepTurn, StepSummariser, StepCrash DEF Next

\* An answer whose turn was saved survives every crash, unless it was dropped
\* on purpose (SessionManager.Save: a snapshot under the lock, the file later).
THEOREM AnswersSurvive == Spec => []Durable
<1>1. HistoryInv => Durable
  BY DEF HistoryInv
<1> QED
  BY <1>1, InitHistory, StepHistory, PTL DEF Spec

\* A prompt misses nothing of what was known when it was begun, although
\* runAgentLoop reads history and summary one after the other.
THEOREM PromptsMissNothing == Spec => []PromptSeesAll
<1>1. HistoryInv => PromptSeesAll
  BY DEF HistoryInv
<1> QED
  BY <1>1, InitHistory, StepHistory, PTL DEF Spec

\* Summarising forgets nothing, when all messages went into one batch and the
\* history stayed what summarizeSession has read.
THEOREM SummariesLoseNothing == Spec => SummaryKeepsAll
<1> DEFINE Loses == (SetSummary \/ Truncate) /\ ~raced /\ Cardinality(Said(ToSummarise)) <= OneBatch
<1>1. ASSUME HistoryInv, Loses PROVE gone' = gone
  <2>0. /\ Forgets /\ Summarising /\ copy["summariser"] \in Seq(Message)
        /\ hist \in Seq(Message) /\ Len(hist) \in Nat /\ KeepLast \in Nat /\ OneBatch \in Nat
        /\ "summariser" \in Savers /\ pc \in [Savers -> TurnStates \cup SummariserStates]
    BY <1>1, People, MessagesOf, ConstantsAssumption DEF HistoryInv, HistoryTypesInv, TypeOK, SetSummary, Truncate
  <2>1. SUFFICES Known \subseteq Said(hist') \cup covered'
    BY <2>0 DEF Forgets
  <2>2. CASE SetSummary
    <3>1. pc["summariser"] = "ask" /\ hist' = hist /\ covered' \in Summaries
      BY <2>2 DEF SetSummary, Goes
    <3>2. old["summariser"] = covered
      BY <2>0, <3>1 DEF Summarising
    <3>3. Cardinality(Said(ToSummarise)) \in Nat
      BY <2>0, ToSummariseType, CountSaid
    <3>4. covered' = covered \cup Said(ToSummarise)
      BY <1>1, <2>0, <3>1, <3>2, <3>3 DEF Summaries
    <3> QED
      BY <3>1, <3>4 DEF Known
  <2>3. CASE Truncate
    <3>1. /\ pc["summariser"] = "truncate" /\ covered' = covered
          /\ hist' = IF Len(hist) <= KeepLast THEN hist
                     ELSE SubSeq(hist, Len(hist) - KeepLast + 1, Len(hist))
      BY <2>3 DEF Truncate, Goes
    <3>2. hist = copy["summariser"] /\ Len(hist) > KeepLast /\ Said(ToSummarise) \subseteq covered
      BY <1>1, <2>0, <3>1 DEF Summarising
    <3>3. ToSummarise = SubSeq(hist, 1, Len(hist) - KeepLast)
      BY <3>2 DEF ToSummarise
    <3>4. hist' = SubSeq(hist, Len(hist) - KeepLast + 1, Len(hist))
      BY <2>0, <3>1, <3>2
    <3>5. Said(hist) \subseteq Said(ToSummarise) \cup Said(hist')
      BY <2>0, <3>2, <3>3, <3>4, KeptLast
    <3> QED
      BY <3>1, <3>2, <3>5 DEF Known
  <2> QED
    BY <1>1, <2>2, <2>3
<1>2. HistoryInv /\ [Next]_vars => [Loses => gone' = gone]_vars
  BY <1>1
<1> QED
  BY <1>2, InitHistory, StepHistory, PTL DEF Spec, SummaryKeepsAll

-----------------------------------------------------------------------------
(* SessionHistory: the shape of a history, and what Sanitised makes of it. *)

\* Every call but one at the head is followed by its results, of which `due` are yet to
\* come, and a result belongs to such a call or stands in front of all.
Shaped(h, due) ==
    /\ \A i \in 2..Len(h) : h[i].role = "call" =>
           /\ h[i].calls > 0
           /\ \A k \in 1..h[i].calls :
                 i + k <= Len(h) + due /\ (i + k <= Len(h) => h[i + k].role = "tool")
    /\ \A i \in 2..(Len(h) + due) : (i <= Len(h) => h[i].role = "tool") =>
           \/ \A k \in 2..i : k <= Len(h) => h[k].role = "tool"
           \/ \E j \in 2..(i - 1) :
                 j <= Len(h) /\ h[j].role = "call" /\ i <= j + h[j].calls

LEMMA CallsNat == \A m \in Message : m.calls \in Nat
BY ConstantsAssumption DEF Message

\* Dropping what comes after the first message, or the first ones, keeps the shape.
LEMMA ShapedCut ==
    ASSUME NEW h \in Seq(Message), NEW due \in Nat, Shaped(h, due), NEW g \in Seq(Message), NEW d \in Nat,
           Len(g) = Len(h) - d, \A i \in 2..Len(g) : g[i] = h[d + i]
    PROVE  Shaped(g, due)
<1>1. Len(h) \in Nat /\ Len(g) \in Nat /\ \A i \in 1..Len(h) : h[i] \in Message /\ h[i].calls \in Nat
  BY MessagesOf, CallsNat
<1>2. ASSUME NEW i \in 2..Len(g), g[i].role = "call"
      PROVE  /\ g[i].calls > 0
             /\ \A k \in 1..g[i].calls :
                   i + k <= Len(g) + due /\ (i + k <= Len(g) => g[i + k].role = "tool")
  <2>1. d + i \in 2..Len(h) /\ g[i] = h[d + i]
    BY <1>1
  <2>2. /\ g[i].calls > 0 /\ g[i].calls \in Nat
        /\ \A k \in 1..g[i].calls :
              d + i + k <= Len(h) + due /\ (d + i + k <= Len(h) => h[d + i + k].role = "tool")
    BY <1>1, <1>2, <2>1 DEF Shaped
  <2>3. ASSUME NEW k \in 1..g[i].calls
        PROVE  i + k <= Len(g) + due /\ (i + k <= Len(g) => g[i + k].role = "tool")
    <3>1. d + i + k <= Len(h) + due /\ (d + i + k <= Len(h) => h[d + i + k].role = "tool")
      BY <2>2
    <3>2. i + k <= Len(g) + due
      BY <1>1, <2>2, <3>1
    <3>3. i + k <= Len(g) => g[i + k] = h[d + i + k] /\ d + i + k <= Len(h)
      <4>1. SUFFICES ASSUME i + k <= Len(g) PROVE g[i + k] = h[d + i + k] /\ d + i + k <= Len(h)
        OBVIOUS
      <4>2. i + k \in 2..Len(g) /\ d + (i + k) = d + i + k /\ d + i + k <= Len(h)
        BY <1>1, <2>2, <4>1
      <4> QED
        BY <4>2
    <3> QED
      BY <3>1, <3>2, <3>3
  <2> QED
    BY <2>2, <2>3
<1>3. ASSUME NEW i \in 2..(Len(g) + due), i <= Len(g) => g[i].role = "tool"
      PROVE  \/ \A k \in 2..i : k <= Len(g) => g[k].role = "tool"
             \/ \E j \in 2..(i - 1) :
                   j <= Len(g) /\ g[j].role = "call" /\ i <= j + g[j].calls
  <2>1. d + i \in 2..(Len(h) + due) /\ (d + i <= Len(h) => h[d + i].role = "tool")
    <3>1. d + i <= Len(h) => i \in 2..Len(g) /\ g[i] = h[d + i]
      BY <1>1
    <3> QED
      BY <1>1, <1>3, <3>1
  <2>2. \A k \in 2..i : k <= Len(g) => g[k] = h[d + k] /\ d + k <= Len(h) /\ d + k \in 2..(d + i)
    BY <1>1
  <2>3. \/ \A k \in 2..(d + i) : k <= Len(h) => h[k].role = "tool"
        \/ \E j \in 2..(d + i - 1) :
              j <= Len(h) /\ h[j].role = "call" /\ d + i <= j + h[j].calls
    BY <2>1 DEF Shaped
  <2>4. CASE \A k \in 2..(d + i) : k <= Len(h) => h[k].role = "tool"
    BY <2>2, <2>4
  <2>n. i \in Nat /\ i >= 2 /\ d \in Nat /\ Len(g) \in Nat /\ Len(h) \in Nat /\ Len(h) = Len(g) + d
    BY <1>1
  <2>5. ASSUME NEW j \in 2..(d + i - 1), j <= Len(h), h[j].role = "call", d + i <= j + h[j].calls
        PROVE  \/ \A k \in 2..i : k <= Len(g) => g[k].role = "tool"
               \/ \E o \in 2..(i - 1) :
                     o <= Len(g) /\ g[o].role = "call" /\ i <= o + g[o].calls
    <3>0. j \in 2..Len(h) /\ j \in Nat /\ j >= 2 /\ j <= d + i - 1 /\ j <= Len(g) + d
      BY <2>n, <2>5
    <3>n. PICK n \in Nat : n = h[j].calls /\ d + i <= j + n
      BY <1>1, <2>5, <3>0
    <3>1. CASE j >= d + 2
      <4>1. j - d \in 2..(i - 1) /\ j - d <= Len(g) /\ d + (j - d) = j
        BY <2>n, <3>0, <3>1
      <4>2. g[j - d] = h[j]
        <5>1. j - d \in 2..Len(g)
          BY <4>1, <2>n
        <5> QED
          BY <4>1, <5>1
      <4>3. i <= (j - d) + h[j].calls
        BY <2>n, <3>0, <3>n
      <4> QED
        BY <2>5, <4>1, <4>2, <4>3
    <3>2. CASE ~(j >= d + 2)
      <4>1. ASSUME NEW k \in 2..i, k <= Len(g) PROVE g[k].role = "tool"
        <5> DEFINE c == d + k - j
        <5>0. k \in Nat /\ k >= 2 /\ k <= i /\ k <= Len(g)
          BY <2>n, <4>1
        <5>n. c \in 1..n /\ j + c = d + k /\ d + k <= Len(h)
          BY <2>n, <3>0, <3>n, <3>2, <5>0
        <5>1. c \in 1..h[j].calls /\ j + c = d + k /\ d + k <= Len(h)
          BY <3>n, <5>n
        <5>2. j + c <= Len(h) => h[j + c].role = "tool"
          BY <2>5, <3>0, <5>1 DEF Shaped
        <5> QED
          BY <2>2, <4>1, <5>1, <5>2
      <4> QED
        BY <4>1
    <3> QED
      BY <3>1, <3>2
  <2> QED
    BY <2>3, <2>4, <2>5
<1> QED
  BY <1>2, <1>3 DEF Shaped

\* TruncateHistory.
LEMMA ShapedTruncate ==
    ASSUME NEW h \in Seq(Message), NEW due \in Nat, Shaped(h, due), Len(h) > KeepLast
    PROVE  Shaped(SubSeq(h, Len(h) - KeepLast + 1, Len(h)), due)
<1>1. Len(h) \in Nat /\ KeepLast \in Nat
  BY MessagesOf, ConstantsAssumption
<1>k. Len(h) - KeepLast \in 0..Len(h)
  BY <1>1
<1>2. PICK n \in 0..Len(h) : n = Len(h) - KeepLast
  BY <1>k
<1> DEFINE b == SubSeq(h, n + 1, Len(h))
<1>3. b \in Seq(Message) /\ Len(b) = Len(h) - n /\ \A i \in 1..(Len(h) - n) : b[i] = h[n + i]
  BY Parts
<1> HIDE DEF b
<1>4. n \in Nat /\ \A i \in 2..Len(b) : b[i] = h[n + i]
  BY <1>1, <1>3
<1>5. Shaped(b, due)
  BY <1>3, <1>4, ShapedCut
<1> QED
  BY <1>2, <1>5 DEF b

\* forceCompression.
LEMMA ShapedCompress ==
    ASSUME NEW h \in Seq(Message), Shaped(h, 0), Len(h) > CompressAbove
    PROVE  Shaped(Compressed(h), 0)
<1>1. Len(h) \in Nat /\ CompressAbove \in Nat /\ CompressAbove > 1
  BY MessagesOf, ConstantsAssumption
<1> DEFINE c   == SubSeq(h, 2, Len(h) - 1)
           mid == Len(c) \div 2
           e   == SubSeq(c, mid + 1, Len(c))
           g   == Compressed(h)
<1>2. c \in Seq(Message) /\ Len(c) = Len(h) - 2 /\ \A i \in 1..(Len(h) - 2) : c[i] = h[i + 1]
  <2>1. 2 \in Int /\ Len(h) - 1 \in Int /\ \A i \in 2..(Len(h) - 1) : h[i] \in Message
    BY <1>1, MessagesOf
  <2>2. /\ c \in Seq(Message) /\ Len(c) = IF 2 <= Len(h) - 1 THEN Len(h) - 1 - 2 + 1 ELSE 0
        /\ \A i \in 1..(Len(h) - 1 - 2 + 1) : c[i] = h[2 + i - 1]
    BY <2>1, SubSeqProperties
  <2> HIDE DEF c
  <2>3. Len(c) = Len(h) - 2
    BY <1>1, <2>2
  <2>4. ASSUME NEW i \in 1..(Len(h) - 2) PROVE c[i] = h[i + 1]
    <3>1. i \in 1..(Len(h) - 1 - 2 + 1) /\ 2 + i - 1 = i + 1
      BY <1>1
    <3> QED
      BY <2>2, <3>1
  <2> QED
    BY <2>2, <2>3, <2>4
<1>3. g = <<h[1]>> \o e \o <<h[Len(h)]>>
  BY DEF Compressed
<1> HIDE DEF c, g
<1>4. mid \in 0..Len(c)
  BY <1>1, <1>2
<1> HIDE DEF mid
<1>5. e \in Seq(Message) /\ Len(e) = Len(c) - mid /\ \A i \in 1..(Len(c) - mid) : e[i] = c[mid + i]
  BY <1>2, <1>4, Parts
<1> HIDE DEF e
<1>6. <<h[1]>> \in Seq(Message) /\ <<h[Len(h)]>> \in Seq(Message)
      /\ Len(<<h[1]>>) = 1 /\ Len(<<h[Len(h)]>>) = 1 /\ <<h[Len(h)]>>[1] = h[Len(h)]
  BY <1>1, MessagesOf
<1> DEFINE f == <<h[1]>> \o e
<1>7. f \in Seq(Message) /\ Len(f) = 1 + Len(e) /\ \A i \in 2..(1 + Len(e)) : f[i] = e[i - 1]
  <2>1. /\ f \in Seq(Message) /\ Len(f) = Len(<<h[1]>>) + Len(e)
        /\ \A i \in 1..(Len(<<h[1]>>) + Len(e)) :
              f[i] = IF i <= Len(<<h[1]>>) THEN <<h[1]>>[i] ELSE e[i - Len(<<h[1]>>)]
    BY <1>5, <1>6, ConcatProperties
  <2> HIDE DEF f
  <2>2. Len(e) \in Nat
    BY <1>5, MessagesOf
  <2>3. ASSUME NEW i \in 2..(1 + Len(e)) PROVE f[i] = e[i - 1]
    <3>1. i \in 1..(Len(<<h[1]>>) + Len(e)) /\ ~(i <= Len(<<h[1]>>)) /\ i - Len(<<h[1]>>) = i - 1
      BY <1>6, <2>2
    <3> QED
      BY <2>1, <3>1
  <2> QED
    BY <1>6, <2>1, <2>3
<1>8. g = f \o <<h[Len(h)]>>
  BY <1>3
<1> HIDE DEF f
<1>9. /\ g \in Seq(Message) /\ Len(g) = Len(f) + 1
      /\ \A i \in 1..Len(f) : g[i] = f[i]
      /\ g[Len(f) + 1] = h[Len(h)]
  <2> DEFINE z == <<h[Len(h)]>>
  <2>1. z \in Seq(Message) /\ Len(z) = 1 /\ z[1] = h[Len(h)]
    BY <1>6
  <2> HIDE DEF z
  <2>2. g = f \o z
    BY <1>8 DEF z
  <2>3. /\ g \in Seq(Message) /\ Len(g) = Len(f) + Len(z)
        /\ \A i \in 1..(Len(f) + Len(z)) : g[i] = IF i <= Len(f) THEN f[i] ELSE z[i - Len(f)]
    BY <1>7, <2>1, <2>2, ConcatProperties
  <2>4. Len(f) \in Nat
    BY <1>7, MessagesOf
  <2>5. \A i \in 1..Len(f) : i \in 1..(Len(f) + 1) /\ i <= Len(f)
    BY <2>4
  <2>6. Len(f) + 1 \in 1..(Len(f) + 1) /\ ~(Len(f) + 1 <= Len(f)) /\ Len(f) + 1 - Len(f) = 1
    BY <2>4
  <2> QED
    BY <2>1, <2>3, <2>5, <2>6
<1>10. Len(g) = Len(h) - mid /\ Len(f) = Len(h) - 1 - mid /\ mid \in Nat /\ mid <= Len(h) - 2
  BY <1>1, <1>2, <1>4, <1>5, <1>7, <1>9
<1>n. Len(e) = Len(h) - 2 - mid /\ Len(c) = Len(h) - 2
  BY <1>1, <1>2, <1>5, <1>10
<1>11. ASSUME NEW i \in 2..Len(g) PROVE g[i] = h[mid + i]
  <2>1. CASE i = Len(g)
    <3>1. i = Len(f) + 1 /\ mid + i = Len(h)
      BY <1>1, <1>10, <2>1
    <3> QED
      BY <1>9, <3>1
  <2>2. CASE i # Len(g)
    <3>1. i \in 1..Len(f) /\ i \in 2..(1 + Len(e)) /\ i - 1 \in 1..(Len(c) - mid)
      <4>1. /\ i \in Nat /\ i >= 2 /\ i <= Len(g) /\ i # Len(g)
            /\ Len(h) \in Nat /\ Len(e) = Len(h) - 2 - mid /\ Len(c) = Len(h) - 2
            /\ Len(g) = Len(h) - mid /\ Len(f) = Len(h) - 1 - mid /\ mid \in Nat
        BY <1>1, <1>10, <1>n, <2>2
      <4> QED
        BY <4>1
    <3>2. g[i] = c[mid + (i - 1)]
      BY <1>5, <1>7, <1>9, <3>1
    <3>3. mid + (i - 1) \in 1..(Len(h) - 2) /\ mid + (i - 1) + 1 = mid + i
      BY <1>1, <1>2, <1>10, <3>1
    <3> QED
      BY <1>2, <3>2, <3>3
  <2> QED
    BY <2>1, <2>2
<1>12. Shaped(g, 0)
  BY <1>9, <1>10, <1>11, ShapedCut
<1> QED
  BY <1>12 DEF g

\* What the turn says behind a complete history, or calls.
LEMMA ShapedSays ==
    ASSUME NEW h \in Seq(Message), Shaped(h, 0), NEW m \in Message, m.role # "tool",
           NEW due \in Nat, m.role = "call" => due = m.calls /\ due > 0, m.role # "call" => due = 0
    PROVE  Shaped(Append(h, m), due)
<1> DEFINE a == Append(h, m)
<1>1. /\ a \in Seq(Message) /\ Len(a) = Len(h) + 1
      /\ \A i \in 1..Len(h) : a[i] = h[i]
      /\ a[Len(h) + 1] = m
  BY AppendProperties
<1> HIDE DEF a
<1>2. Len(h) \in Nat /\ \A i \in 1..Len(h) : h[i].calls \in Nat
  BY MessagesOf, CallsNat
<1>3. ASSUME NEW i \in 2..Len(a), a[i].role = "call"
      PROVE  /\ a[i].calls > 0
             /\ \A k \in 1..a[i].calls :
                   i + k <= Len(a) + due /\ (i + k <= Len(a) => a[i + k].role = "tool")
  <2>1. CASE i <= Len(h)
    <3>1. i \in 2..Len(h) /\ a[i] = h[i] /\ h[i].calls \in Nat
      BY <1>1, <1>2, <2>1
    <3>2. /\ h[i].calls > 0
          /\ \A k \in 1..h[i].calls : i + k <= Len(h) /\ h[i + k].role = "tool"
      BY <1>2, <1>3, <3>1 DEF Shaped
    <3>3. ASSUME NEW k \in 1..h[i].calls
          PROVE  i + k <= Len(a) + due /\ (i + k <= Len(a) => a[i + k].role = "tool")
      <4>1. i + k \in 1..Len(h) /\ i + k <= Len(h) /\ h[i + k].role = "tool"
        <5>1. i + k \in Nat /\ i + k >= 1
          BY <3>1
        <5> QED
          BY <1>2, <3>2, <5>1
      <4> QED
        BY <1>1, <1>2, <4>1
    <3> QED
      BY <3>1, <3>2, <3>3
  <2>2. CASE ~(i <= Len(h))
    <3>1. i = Len(h) + 1 /\ Len(a) = i /\ a[i] = m /\ i \in Nat
      BY <1>1, <1>2, <2>2
    <3>2. due = a[i].calls /\ due > 0
      BY <1>3, <3>1
    <3>3. \A k \in 1..due : i + k <= Len(a) + due /\ ~(i + k <= Len(a))
      BY <3>1
    <3> QED
      BY <3>2, <3>3
  <2> QED
    BY <2>1, <2>2
<1>4. ASSUME NEW i \in 2..(Len(a) + due), i <= Len(a) => a[i].role = "tool"
      PROVE  \/ \A k \in 2..i : k <= Len(a) => a[k].role = "tool"
             \/ \E j \in 2..(i - 1) :
                   j <= Len(a) /\ a[j].role = "call" /\ i <= j + a[j].calls
  <2>1. CASE i <= Len(h)
    <3>1. i \in 2..(Len(h) + 0) /\ h[i].role = "tool"
      BY <1>1, <1>2, <1>4, <2>1
    <3>2. \/ \A k \in 2..i : k <= Len(h) => h[k].role = "tool"
          \/ \E j \in 2..(i - 1) : j <= Len(h) /\ h[j].role = "call" /\ i <= j + h[j].calls
      BY <3>1 DEF Shaped
    <3>3. \A k \in 2..i : a[k] = h[k] /\ k <= Len(h) /\ k <= Len(a)
      BY <1>1, <1>2, <2>1
    <3>4. \A j \in 2..(i - 1) : j \in 2..i
      BY <1>2
    <3> QED
      BY <3>2, <3>3, <3>4
  <2>2. CASE ~(i <= Len(h))
    <3>1. i # Len(h) + 1
      BY <1>1, <1>2, <1>4
    <3>2. due > 0 /\ m.role = "call" /\ due = m.calls
      BY <1>1, <1>2, <1>4, <2>2, <3>1
    <3> DEFINE j == Len(h) + 1
    <3>3. j <= Len(a) /\ a[j] = m /\ j \in Nat /\ i <= j + due /\ j <= i - 1
      BY <1>1, <1>2, <2>2, <3>1
    <3>4. CASE j >= 2
      <4>1. j \in 2..(i - 1)
        BY <1>2, <3>3, <3>4
      <4> QED
        BY <3>2, <3>3, <4>1
    <3>5. CASE ~(j >= 2)
      <4>1. \A k \in 2..i : ~(k <= Len(a))
        BY <1>1, <1>2, <3>5
      <4> QED
        BY <4>1
    <3> QED
      BY <3>4, <3>5
  <2> QED
    BY <2>1, <2>2
<1>5. Shaped(a, due)
  BY <1>3, <1>4 DEF Shaped
<1> QED
  BY <1>5 DEF a

\* A result that was due.
LEMMA ShapedResult ==
    ASSUME NEW h \in Seq(Message), NEW due \in Nat \ {0}, Shaped(h, due), NEW m \in Message, m.role = "tool"
    PROVE  Shaped(Append(h, m), due - 1)
<1> DEFINE a == Append(h, m)
<1>1. /\ a \in Seq(Message) /\ Len(a) = Len(h) + 1
      /\ \A i \in 1..Len(h) : a[i] = h[i]
      /\ a[Len(h) + 1] = m
  BY AppendProperties
<1> HIDE DEF a
<1>2. Len(h) \in Nat /\ (\A i \in 1..Len(h) : h[i].calls \in Nat) /\ Len(a) + (due - 1) = Len(h) + due
  BY <1>1, MessagesOf, CallsNat
<1>3. \A i \in 1..Len(a) : a[i].role # "tool" => i <= Len(h) /\ a[i] = h[i]
  BY <1>1, <1>2
<1>4. ASSUME NEW i \in 2..Len(a), a[i].role = "call"
      PROVE  /\ a[i].calls > 0
             /\ \A k \in 1..a[i].calls :
                   i + k <= Len(a) + (due - 1) /\ (i + k <= Len(a) => a[i + k].role = "tool")
  <2>1. i \in 2..Len(h) /\ a[i] = h[i] /\ h[i].calls \in Nat
    BY <1>2, <1>3, <1>4
  <2>2. /\ h[i].calls > 0
        /\ \A k \in 1..h[i].calls :
              i + k <= Len(h) + due /\ (i + k <= Len(h) => h[i + k].role = "tool")
    BY <1>4, <2>1 DEF Shaped
  <2>3. ASSUME NEW k \in 1..h[i].calls PROVE i + k <= Len(a) => a[i + k].role = "tool"
    <3>1. i + k \in Nat /\ i + k >= 1
      BY <2>1
    <3>2. CASE i + k <= Len(h)
      <4>1. i + k \in 1..Len(h)
        BY <1>2, <3>1, <3>2
      <4> QED
        BY <1>1, <2>2, <3>2, <4>1
    <3>3. CASE i + k = Len(h) + 1
      BY <1>1, <3>3
    <3> QED
      BY <1>1, <1>2, <3>1, <3>2, <3>3
  <2> QED
    BY <1>2, <2>1, <2>2, <2>3
<1>5. ASSUME NEW i \in 2..(Len(a) + (due - 1)), i <= Len(a) => a[i].role = "tool"
      PROVE  \/ \A k \in 2..i : k <= Len(a) => a[k].role = "tool"
             \/ \E j \in 2..(i - 1) :
                   j <= Len(a) /\ a[j].role = "call" /\ i <= j + a[j].calls
  <2>1. i \in 2..(Len(h) + due) /\ (i <= Len(h) => h[i].role = "tool")
    BY <1>1, <1>2, <1>5
  <2>2. \/ \A k \in 2..i : k <= Len(h) => h[k].role = "tool"
        \/ \E j \in 2..(i - 1) : j <= Len(h) /\ h[j].role = "call" /\ i <= j + h[j].calls
    BY <2>1 DEF Shaped
  <2>3. CASE \A k \in 2..i : k <= Len(h) => h[k].role = "tool"
    <3>1. ASSUME NEW k \in 2..i, k <= Len(a) PROVE a[k].role = "tool"
      <4>1. k \in 1..Len(a)
        BY <1>1, <1>2, <3>1
      <4> QED
        BY <1>1, <1>3, <2>3, <3>1, <4>1
    <3> QED
      BY <3>1
  <2>4. ASSUME NEW j \in 2..(i - 1), j <= Len(h), h[j].role = "call", i <= j + h[j].calls
        PROVE  j <= Len(a) /\ a[j].role = "call" /\ i <= j + a[j].calls
    <3>1. j \in 1..Len(h) /\ j <= Len(a)
      BY <1>1, <1>2, <2>4
    <3> QED
      BY <1>1, <2>4, <3>1
  <2> QED
    BY <2>2, <2>3, <2>4
<1>6. Shaped(a, due - 1)
  BY <1>4, <1>5 DEF Shaped
<1> QED
  BY <1>6 DEF a

\* What is kept of one message more.
WithNext(s, m) == IF Kept(s, m) THEN Append(s, m) ELSE s

\* Sanitised keeps message by message.
LEMMA SanitisedSteps ==
    ASSUME NEW h, Len(h) \in Nat
    PROVE  \E f : /\ f[0] = <<>>
                  /\ \A n \in 1..Len(h) : f[n] = WithNext(f[n - 1], h[n])
                  /\ Sanitised(h) = f[Len(h)]
<1> DEFINE Follows(f, N) == f = [n \in 0..N |-> IF n = 0 THEN <<>> ELSE WithNext(f[n - 1], h[n])]
           S == {N \in Nat : \E f : Follows(f, N)}
<1>1. 0 \in S
  <2> DEFINE f == [n \in 0..0 |-> <<>>]
  <2>1. f = [n \in 0..0 |-> IF n = 0 THEN <<>> ELSE WithNext(f[n - 1], h[n])]
    <3>1. \A n \in 0..0 : n = 0
      OBVIOUS
    <3> QED
      BY <3>1
  <2> QED
    BY <2>1
<1>2. ASSUME NEW N \in 0..(Len(h) - 1), N \in S PROVE N + 1 \in S
  <2>1. PICK f : Follows(f, N)
    BY <1>2
  <2> DEFINE g == [n \in 0..(N + 1) |-> IF n = 0 THEN <<>> ELSE WithNext(f[n - 1], h[n])]
  <2>2. \A n \in 0..N : g[n] = f[n]
    <3>1. \A n \in 0..N : f[n] = IF n = 0 THEN <<>> ELSE WithNext(f[n - 1], h[n])
      <4> DEFINE e(n) == IF n = 0 THEN <<>> ELSE WithNext(f[n - 1], h[n])
      <4>1. f = [n \in 0..N |-> e(n)]
        BY <2>1
      <4> HIDE DEF e
      <4>2. \A n \in 0..N : f[n] = e(n)
        BY <4>1
      <4> QED
        BY <4>2 DEF e
    <3>2. \A n \in 0..N : n \in 0..(N + 1)
      OBVIOUS
    <3> QED
      BY <3>1, <3>2
  <2>3. \A n \in 0..(N + 1) : n # 0 => n - 1 \in 0..N
    OBVIOUS
  <2>4. Follows(g, N + 1)
    <3> DEFINE e(n) == IF n = 0 THEN <<>> ELSE WithNext(f[n - 1], h[n])
               d(n) == IF n = 0 THEN <<>> ELSE WithNext(g[n - 1], h[n])
    <3>1. \A n \in 0..(N + 1) : e(n) = d(n)
      BY <2>2, <2>3
    <3>2. g = [n \in 0..(N + 1) |-> e(n)]
      OBVIOUS
    <3> HIDE DEF e, g
    <3>3. g = [n \in 0..(N + 1) |-> d(n)]
      <4> HIDE DEF d
      <4> QED
        BY <3>1, <3>2
    <3> QED
      BY <3>3
  <2> HIDE DEF g
  <2> QED
    BY <1>2, <2>4
<1>3. Len(h) \in S
  <2> HIDE DEF S
  <2>1. \A N \in 0..(Len(h) - 1) : N \in S => N + 1 \in S
    BY <1>2
  <2>2. \A N \in 0..Len(h) : N \in S
    BY <1>1, <2>1, Steps
  <2> QED
    BY <2>2
<1> DEFINE f == CHOOSE f : Follows(f, Len(h))
<1>4. Follows(f, Len(h))
  BY <1>3
<1>5. Sanitised(h) = f[Len(h)]
  BY DEF Sanitised, WithNext
<1> HIDE DEF f
<1>6. \A n \in 0..Len(h) : f[n] = IF n = 0 THEN <<>> ELSE WithNext(f[n - 1], h[n])
  <2> DEFINE e(n) == IF n = 0 THEN <<>> ELSE WithNext(f[n - 1], h[n])
  <2>1. f = [n \in 0..Len(h) |-> e(n)]
    BY <1>4
  <2> HIDE DEF e
  <2>2. \A n \in 0..Len(h) : f[n] = e(n)
    BY <2>1
  <2> QED
    BY <2>2 DEF e
<1>7. f[0] = <<>> /\ \A n \in 1..Len(h) : f[n] = WithNext(f[n - 1], h[n])
  BY <1>6
<1> QED
  BY <1>5, <1>7

\* The call at i has nothing but results behind it.
Live(s, i) == s[i].role = "call" /\ \A j \in (i + 1)..Len(s) : s[j].role = "tool"

\* What s is that was kept of the first n messages of h.
Sound(h, n, s) ==
    /\ s \in Seq(Message) /\ Len(s) <= n
    /\ \A i \in 1..Len(s) : s[i].role = "call" =>
           Live(s, i) \/ \A k \in 1..s[i].calls : i + k <= Len(s) /\ s[i + k].role = "tool"
    /\ \A i \in 1..Len(s) : s[i].role = "tool" =>
           \E j \in 1..(i - 1) : s[j].role = "call" /\ i <= j + s[j].calls
    /\ \A i \in 1..Len(s) : Live(s, i) =>
           LET p == n - (Len(s) - i) IN
           p >= 2 /\ h[p] = s[i] /\ \A q \in (p + 1)..n : h[q].role = "tool"

\* What a live call lacks is what comes next.
LEMMA LiveCalls ==
    ASSUME NEW h \in Seq(Message), Shaped(h, 0), NEW n \in 0..Len(h), NEW s, Sound(h, n, s),
           NEW i \in 1..Len(s), Live(s, i), n = Len(h) \/ h[n + 1].role # "tool"
    PROVE  \A k \in 1..s[i].calls : i + k <= Len(s) /\ s[i + k].role = "tool"
<1> DEFINE p == n - (Len(s) - i)
<1>1. /\ Len(h) \in Nat /\ Len(s) \in Nat
      /\ p >= 2 /\ p <= n /\ p \in Int /\ h[p] = s[i] /\ s[i].role = "call"
      /\ \A j \in (i + 1)..Len(s) : s[j].role = "tool"
  BY MessagesOf DEF Sound, Live
<1>2. s[i].calls \in Nat
  <2>1. s[i] \in Message
    BY MessagesOf DEF Sound
  <2> QED
    BY <2>1, ConstantsAssumption DEF Message
<1>3. \A k \in 1..s[i].calls : p + k <= Len(h) /\ h[p + k].role = "tool"
  <2>1. p \in 2..Len(h)
    BY <1>1
  <2>2. ASSUME NEW k \in 1..s[i].calls PROVE p + k <= Len(h) /\ h[p + k].role = "tool"
    <3>1. k \in 1..h[p].calls /\ h[p].role = "call"
      BY <1>1
    <3>2. p + k <= Len(h) + 0 /\ (p + k <= Len(h) => h[p + k].role = "tool")
      BY <2>1, <3>1 DEF Shaped
    <3>3. p + k \in Int
      BY <1>1, <1>2
    <3> QED
      BY <1>1, <3>2, <3>3
  <2> QED
    BY <2>2
<1> SUFFICES ASSUME NEW k \in 1..s[i].calls, i + k > Len(s) PROVE FALSE
  BY <1>1, <1>2
<1> DEFINE d == Len(s) - i + 1
<1>4. d \in 1..s[i].calls /\ p + d = n + 1
  BY <1>1, <1>2
<1>5. n + 1 <= Len(h) /\ h[n + 1].role = "tool"
  BY <1>3, <1>4
<1> QED
  BY <1>1, <1>5

\* A message that is no result may be kept behind what was kept before.
LEMMA KeepsOther ==
    ASSUME NEW h \in Seq(Message), Shaped(h, 0), NEW n \in 0..(Len(h) - 1), NEW s, Sound(h, n, s),
           h[n + 1].role # "tool", h[n + 1].role = "call" => s # <<>>
    PROVE  Sound(h, n + 1, Append(s, h[n + 1]))
<1> DEFINE m == h[n + 1]
           a == Append(s, m)
<1>1. /\ Len(h) \in Nat /\ Len(s) \in Nat /\ m \in Message /\ s \in Seq(Message) /\ n \in Nat
      /\ Len(s) <= n
  BY MessagesOf DEF Sound
<1>2. /\ a \in Seq(Message) /\ Len(a) = Len(s) + 1
      /\ \A i \in 1..Len(s) : a[i] = s[i]
      /\ a[Len(s) + 1] = m
  BY <1>1, AppendProperties
<1> HIDE DEF a
<1>3. \A i \in 1..Len(s) : ~Live(a, i)
  BY <1>1, <1>2 DEF Live
<1>4. ASSUME NEW i \in 1..Len(a), a[i].role = "call", ~Live(a, i)
      PROVE  \A k \in 1..a[i].calls : i + k <= Len(a) /\ a[i + k].role = "tool"
  <2>1. i # Len(s) + 1
    <3>1. SUFFICES ASSUME i = Len(s) + 1 PROVE FALSE
      OBVIOUS
    <3>2. \A j \in (i + 1)..Len(a) : FALSE
      BY <1>1, <1>2, <3>1
    <3> QED
      BY <1>4, <3>2 DEF Live
  <2>2. i \in 1..Len(s) /\ a[i] = s[i]
    BY <1>1, <1>2, <2>1
  <2>3. \A k \in 1..s[i].calls : i + k <= Len(s) /\ s[i + k].role = "tool"
    <3>1. CASE Live(s, i)
      <4>1. n \in 0..Len(h)
        BY <1>1
      <4> QED
        BY <2>2, <3>1, <4>1, LiveCalls
    <3>2. CASE ~Live(s, i)
      BY <1>4, <2>2, <3>2 DEF Sound
    <3> QED
      BY <3>1, <3>2
  <2>4. s[i].calls \in Nat
    <3>1. s[i] \in Message
      BY <1>1, <2>2, MessagesOf
    <3> QED
      BY <3>1, ConstantsAssumption DEF Message
  <2>5. ASSUME NEW k \in 1..a[i].calls PROVE i + k <= Len(a) /\ a[i + k].role = "tool"
    <3>1. k \in 1..s[i].calls /\ i + k <= Len(s) /\ s[i + k].role = "tool"
      BY <2>2, <2>3
    <3>2. i + k \in 1..Len(s)
      BY <1>1, <2>2, <2>4, <3>1
    <3> QED
      BY <1>1, <1>2, <3>1, <3>2
  <2> QED
    BY <2>5
<1>5. ASSUME NEW i \in 1..Len(a), a[i].role = "tool"
      PROVE  \E j \in 1..(i - 1) : a[j].role = "call" /\ i <= j + a[j].calls
  <2>1. i \in 1..Len(s) /\ s[i].role = "tool"
    BY <1>1, <1>2, <1>5
  <2>2. PICK j \in 1..(i - 1) : s[j].role = "call" /\ i <= j + s[j].calls
    BY <2>1 DEF Sound
  <2>3. j \in 1..Len(s)
    BY <1>1, <2>1
  <2> QED
    BY <1>2, <2>2, <2>3
<1>6. ASSUME NEW i \in 1..Len(a), Live(a, i)
      PROVE  LET p == n + 1 - (Len(a) - i) IN
             p >= 2 /\ h[p] = a[i] /\ \A q \in (p + 1)..(n + 1) : h[q].role = "tool"
  <2>1. i = Len(s) + 1
    BY <1>1, <1>2, <1>3, <1>6
  <2>2. n + 1 - (Len(a) - i) = n + 1
    BY <1>1, <1>2, <2>1
  <2>3. n + 1 >= 2
    <3>1. m.role = "call"
      BY <1>2, <1>6, <2>1 DEF Live
    <3>2. Len(s) # 0
      BY <1>1, <3>1, EmptySeq
    <3> QED
      BY <1>1, <3>2
  <2>4. a[i] = m /\ \A q \in (n + 1 + 1)..(n + 1) : FALSE
    BY <1>1, <1>2, <2>1
  <2> QED
    BY <2>2, <2>3, <2>4
<1>7. Len(a) <= n + 1
  BY <1>1, <1>2
<1> HIDE DEF m
<1>8. Sound(h, n + 1, a)
  BY <1>2, <1>4, <1>5, <1>6, <1>7 DEF Sound
<1> QED
  BY <1>8 DEF a, m

\* A result that is kept belongs to the call that is live.
LEMMA KeepsResult ==
    ASSUME NEW h \in Seq(Message), Shaped(h, 0), NEW n \in 0..(Len(h) - 1), NEW s, Sound(h, n, s),
           h[n + 1].role = "tool", NEW c \in 1..Len(s), Live(s, c)
    PROVE  Sound(h, n + 1, Append(s, h[n + 1]))
<1> DEFINE m == h[n + 1]
           a == Append(s, m)
           p == n - (Len(s) - c)
<1>1. /\ Len(h) \in Nat /\ Len(s) \in Nat /\ m \in Message /\ s \in Seq(Message) /\ n \in Nat
      /\ Len(s) <= n
  BY MessagesOf DEF Sound
<1>2. /\ a \in Seq(Message) /\ Len(a) = Len(s) + 1
      /\ \A i \in 1..Len(s) : a[i] = s[i]
      /\ a[Len(s) + 1] = m /\ m.role = "tool"
  BY <1>1, AppendProperties
<1>n. Len(h) \in Nat /\ Len(s) \in Nat /\ n \in Nat /\ n < Len(h) /\ Len(a) = Len(s) + 1
  BY <1>1, <1>2
<1> HIDE DEF a, m
<1>3. \A i \in 1..Len(s) : Live(a, i) <=> Live(s, i)
  <2>1. ASSUME NEW i \in 1..Len(s) PROVE Live(a, i) <=> Live(s, i)
    <3>1. a[i] = s[i] /\ \A j \in (i + 1)..Len(s) : a[j] = s[j]
      <4>1. i \in Nat /\ i >= 1
        BY <1>n
      <4>2. \A j \in (i + 1)..Len(s) : j \in 1..Len(s)
        BY <1>n, <4>1
      <4> QED
        BY <1>2, <4>2
    <3>2. \A j \in (i + 1)..Len(a) : j \in (i + 1)..Len(s) \/ a[j].role = "tool"
      <4>1. Len(s) \in Nat /\ i \in Nat /\ Len(a) = Len(s) + 1
        BY <1>n
      <4>2. \A j \in (i + 1)..Len(a) : j \in (i + 1)..Len(s) \/ j = Len(s) + 1
        BY <4>1
      <4> QED
        BY <1>2, <4>2
    <3>3. \A j \in (i + 1)..Len(s) : j \in (i + 1)..Len(a) /\ a[j] = s[j]
      <4>1. \A j \in (i + 1)..Len(s) : j \in (i + 1)..Len(a) /\ j \in 1..Len(s)
        BY <1>n
      <4> QED
        BY <4>1, <1>2
    <3>4. (\A j \in (i + 1)..Len(a) : a[j].role = "tool") <=> (\A j \in (i + 1)..Len(s) : s[j].role = "tool")
      BY <3>2, <3>3, Zenon
    <3> QED
      BY <3>1, <3>4 DEF Live
  <2> QED
    BY <2>1
<1>4. ASSUME NEW i \in 1..Len(a), a[i].role = "call", ~Live(a, i)
      PROVE  \A k \in 1..a[i].calls : i + k <= Len(a) /\ a[i + k].role = "tool"
  <2>1. i \in 1..Len(s) /\ a[i] = s[i]
    BY <1>1, <1>2, <1>4
  <2>2. \A k \in 1..s[i].calls : i + k <= Len(s) /\ s[i + k].role = "tool"
    BY <1>3, <1>4, <2>1 DEF Sound
  <2>3. s[i].calls \in Nat
    <3>1. s[i] \in Message
      BY <1>1, <2>1, MessagesOf
    <3> QED
      BY <3>1, ConstantsAssumption DEF Message
  <2>4. ASSUME NEW k \in 1..a[i].calls PROVE i + k <= Len(a) /\ a[i + k].role = "tool"
    <3>1. k \in 1..s[i].calls /\ i + k <= Len(s) /\ s[i + k].role = "tool"
      BY <2>1, <2>2
    <3>2. i + k \in 1..Len(s)
      BY <1>1, <2>1, <2>3, <3>1
    <3> QED
      BY <1>1, <1>2, <3>1, <3>2
  <2> QED
    BY <2>4
<1>5. /\ p \in Int /\ p >= 2 /\ p <= n /\ h[p] = s[c] /\ s[c].role = "call"
      /\ p = n - (Len(s) - c) /\ \A q \in (p + 1)..n : h[q].role = "tool"
  BY <1>1 DEF Sound, Live
<1> HIDE DEF p
<1>6. Len(s) + 1 <= c + s[c].calls
  <2>n. /\ p \in Int /\ p >= 2 /\ p <= n /\ p = n - (Len(s) - c) /\ c \in Nat
    BY <1>n, <1>5
  <2>1. n + 1 \in 2..(Len(h) + 0) /\ h[n + 1].role = "tool"
    BY <1>n, <2>n
  <2>2. \/ \A k \in 2..(n + 1) : k <= Len(h) => h[k].role = "tool"
        \/ \E j \in 2..(n + 1 - 1) : j <= Len(h) /\ h[j].role = "call" /\ n + 1 <= j + h[j].calls
    <3> DEFINE i == n + 1
    <3>1. i \in 2..(Len(h) + 0) /\ (i <= Len(h) => h[i].role = "tool")
      BY <2>1
    <3> HIDE DEF i
    <3>2. \/ \A k \in 2..i : k <= Len(h) => h[k].role = "tool"
          \/ \E j \in 2..(i - 1) : j <= Len(h) /\ h[j].role = "call" /\ i <= j + h[j].calls
      BY <3>1 DEF Shaped
    <3> QED
      BY <3>2 DEF i
  <2>3. p \in 2..(n + 1) /\ p <= Len(h) /\ h[p].role # "tool"
    <3>1. p \in 2..(n + 1) /\ p <= Len(h)
      BY <1>n, <2>n
    <3> QED
      BY <1>5, <3>1
  <2>4. PICK j \in 2..(n + 1 - 1) : h[j].role = "call" /\ n + 1 <= j + h[j].calls
    BY <2>2, <2>3
  <2>j. j \in Nat /\ j >= 2 /\ j <= n /\ j \in 1..Len(h) /\ j \in 2..Len(h)
    BY <1>n
  <2>5. j <= p
    <3>1. j \notin (p + 1)..n
      BY <1>5, <2>4
    <3> QED
      BY <1>n, <2>n, <2>j, <3>1
  <2>6. h[j].calls \in Nat
    <3>1. h[j] \in Message
      BY <2>j, MessagesOf
    <3> QED
      BY <3>1, CallsNat
  <2>7. j = p
    <3>1. SUFFICES ASSUME j < p PROVE FALSE
      BY <2>n, <2>j, <2>5
    <3> DEFINE d == p - j
    <3>2. d \in 1..h[j].calls /\ j + d = p
      <4>1. PICK k \in Nat : k = h[j].calls /\ n + 1 <= j + k
        BY <2>4, <2>6
      <4>2. d \in 1..k /\ j + d = p
        <5>1. /\ n \in Nat /\ p \in Nat /\ j \in Nat /\ j < p /\ p <= n
          BY <1>n, <2>n, <2>j, <3>1
        <5> QED
          BY <5>1, <4>1
      <4> QED
        BY <4>1, <4>2
    <3>3. j \in 2..Len(h) /\ h[j].role = "call"
      BY <2>4, <2>j
    <3>4. j + d <= Len(h) => h[j + d].role = "tool"
      BY <3>2, <3>3 DEF Shaped
    <3> QED
      BY <2>3, <3>2, <3>4
  <2>8. PICK k \in Nat : k = s[c].calls /\ n + 1 <= p + k
    BY <1>5, <2>4, <2>6, <2>7
  <2>9. Len(s) + 1 <= c + k
    BY <1>n, <2>n, <2>8
  <2> QED
    BY <2>8, <2>9
<1>7. ASSUME NEW i \in 1..Len(a), a[i].role = "tool"
      PROVE  \E j \in 1..(i - 1) : a[j].role = "call" /\ i <= j + a[j].calls
  <2>1. CASE i = Len(s) + 1
    <3>0. c \in 1..(i - 1)
      BY <1>n, <2>1
    <3>1. c \in 1..(i - 1) /\ a[c] = s[c] /\ s[c].role = "call"
      BY <1>2, <1>5, <3>0
    <3> QED
      BY <1>6, <2>1, <3>1
  <2>2. CASE i # Len(s) + 1
    <3>0. i \in 1..Len(s)
      BY <1>n, <2>2
    <3>1. i \in 1..Len(s) /\ s[i].role = "tool"
      BY <1>2, <1>7, <3>0
    <3>2. PICK j \in 1..(i - 1) : s[j].role = "call" /\ i <= j + s[j].calls
      BY <3>1 DEF Sound
    <3>3. j \in 1..Len(s)
      BY <1>n, <3>0
    <3> QED
      BY <1>2, <3>2, <3>3
  <2> QED
    BY <2>1, <2>2
<1>8. ASSUME NEW i \in 1..Len(a), Live(a, i)
      PROVE  LET r == n + 1 - (Len(a) - i) IN
             r >= 2 /\ h[r] = a[i] /\ \A q \in (r + 1)..(n + 1) : h[q].role = "tool"
  <2>1. i \in 1..Len(s) /\ a[i] = s[i] /\ Live(s, i)
    <3>1. i # Len(s) + 1
      BY <1>2, <1>8 DEF Live
    <3> QED
      BY <1>1, <1>2, <1>3, <1>8, <3>1
  <2> DEFINE r == n - (Len(s) - i)
  <2>2. r >= 2 /\ h[r] = s[i] /\ \A q \in (r + 1)..n : h[q].role = "tool"
    BY <2>1 DEF Sound
  <2>3. n + 1 - (Len(a) - i) = r
    BY <1>1, <1>2, <2>1
  <2>4. \A q \in (r + 1)..(n + 1) : q \in (r + 1)..n \/ q = n + 1
    BY <1>1, <2>1
  <2> QED
    BY <1>2, <2>1, <2>2, <2>3, <2>4 DEF m
<1>9. Len(a) <= n + 1
  BY <1>1, <1>2
<1>10. Sound(h, n + 1, a)
  BY <1>2, <1>4, <1>7, <1>8, <1>9 DEF Sound
<1> QED
  BY <1>10 DEF a, m

\* Message by message, what is kept is sound.
LEMMA KeepsSound ==
    ASSUME NEW h \in Seq(Message), Shaped(h, 0), NEW n \in 0..(Len(h) - 1), NEW s, Sound(h, n, s)
    PROVE  Sound(h, n + 1, WithNext(s, h[n + 1]))
<1> DEFINE m == h[n + 1]
<1>1. /\ Len(h) \in Nat /\ Len(s) \in Nat /\ m \in Message /\ s \in Seq(Message) /\ n \in Nat
      /\ Len(s) <= n /\ DOMAIN s = 1..Len(s)
  BY MessagesOf DEF Sound
<1>2. CASE Kept(s, m) /\ m.role # "tool"
  <2>1. m.role = "call" => s # <<>>
    BY <1>2 DEF Kept
  <2> QED
    BY <1>2, <2>1, KeepsOther DEF WithNext
<1>3. CASE Kept(s, m) /\ m.role = "tool"
  <2>1. PICK c \in DOMAIN s : s[c].role = "call" /\ \A j \in (c + 1)..Len(s) : s[j].role = "tool"
    BY <1>3 DEF Kept
  <2>2. c \in 1..Len(s) /\ Live(s, c)
    BY <1>1, <2>1 DEF Live
  <2> QED
    BY <1>3, <2>2, KeepsResult DEF WithNext
<1>4. CASE ~Kept(s, m)
  <2>1. \A i \in 1..Len(s) : ~Live(s, i)
    <3>1. SUFFICES ASSUME NEW i \in 1..Len(s), Live(s, i) PROVE FALSE
      OBVIOUS
    <3>2. CASE m.role = "tool"
      BY <1>1, <1>4, <3>1, <3>2 DEF Kept, Live
    <3>3. CASE m.role # "tool"
      <4>1. m.role = "call"
        BY <1>1, <1>4, <3>3 DEF Kept, Message, Dialogue
      <4>2. Len(s) > 0 /\ s # <<>> /\ Last(s) = s[Len(s)]
        BY <1>1, <3>1, EmptySeq DEF Last
      <4>3. s[Len(s)].role \notin {"user", "tool"}
        BY <1>4, <4>1, <4>2 DEF Kept
      <4>4. i = Len(s)
        <5>1. SUFFICES ASSUME i # Len(s) PROVE FALSE
          OBVIOUS
        <5>2. Len(s) \in (i + 1)..Len(s)
          <6>1. Len(s) \in Nat /\ i \in 1..Len(s)
            BY <1>1
          <6> QED
            BY <5>1, <6>1
        <5> QED
          BY <3>1, <4>3, <5>2 DEF Live
      <4>5. n - (Len(s) - i) = n /\ n >= 2 /\ h[n] = s[i] /\ s[i].role = "call"
        <5>1. n - (Len(s) - i) = n
          BY <1>1, <4>4
        <5> QED
          BY <3>1, <5>1 DEF Sound, Live
      <4>6. n \in 2..Len(h)
        BY <1>1, <4>5
      <4>7. h[n].calls > 0 /\ h[n].calls \in Nat
        <5>1. h[n] \in Message
          BY <4>6, MessagesOf
        <5> QED
          BY <4>5, <4>6, <5>1, CallsNat DEF Shaped
      <4>8. 1 \in 1..h[n].calls
        BY <4>7
      <4>9. n + 1 <= Len(h) => h[n + 1].role = "tool"
        BY <4>5, <4>6, <4>8 DEF Shaped
      <4> QED
        BY <1>1, <4>1, <4>9
    <3> QED
      BY <3>2, <3>3
  <2>2. WithNext(s, m) = s
    BY <1>4 DEF WithNext
  <2>3. Len(s) <= n + 1
    BY <1>1
  <2> HIDE DEF m
  <2>4. Sound(h, n + 1, s)
    BY <2>1, <2>3 DEF Sound
  <2> QED
    BY <2>2, <2>4 DEF m
<1> QED
  BY <1>2, <1>3, <1>4

LEMMA SanitisedWell ==
    ASSUME NEW h \in Seq(Message), Shaped(h, 0)
    PROVE  WellFormed(Sanitised(h))
<1>1. Len(h) \in Nat
  BY MessagesOf
<1>2. PICK f : /\ f[0] = <<>>
               /\ \A n \in 1..Len(h) : f[n] = WithNext(f[n - 1], h[n])
               /\ Sanitised(h) = f[Len(h)]
  BY <1>1, SanitisedSteps
<1> DEFINE S == {n \in Nat : Sound(h, n, f[n])}
<1>3. 0 \in S
  <2>1. Len(<<>>) = 0 /\ <<>> \in Seq(Message)
    BY EmptySeq
  <2>2. \A i \in 1..Len(<<>>) : FALSE
    BY <2>1
  <2>3. Sound(h, 0, <<>>)
    BY <2>1, <2>2 DEF Sound
  <2> QED
    BY <1>2, <2>3
<1>4. \A n \in 0..(Len(h) - 1) : n \in S => n + 1 \in S
  <2>1. ASSUME NEW n \in 0..(Len(h) - 1), n \in S PROVE n + 1 \in S
    <3>1. Sound(h, n, f[n])
      BY <2>1
    <3>2. n + 1 \in 1..Len(h) /\ n + 1 - 1 = n
      BY <1>1
    <3>3. f[n + 1] = WithNext(f[n], h[n + 1])
      BY <1>2, <3>2
    <3>4. Sound(h, n + 1, f[n + 1])
      BY <3>1, <3>3, KeepsSound
    <3> QED
      BY <3>2, <3>4
  <2> QED
    BY <2>1
<1>5. Sound(h, Len(h), f[Len(h)])
  <2> HIDE DEF S
  <2>1. \A n \in 0..Len(h) : n \in S
    BY <1>1, <1>3, <1>4, Steps
  <2>2. Len(h) \in S
    BY <1>1, <2>1
  <2> QED
    BY <2>2 DEF S
<1> DEFINE s == Sanitised(h)
<1>6. s \in Seq(Message) /\ Len(s) \in Nat /\ DOMAIN s = 1..Len(s) /\ Sound(h, Len(h), s)
  <2>1. Sound(h, Len(h), s)
    BY <1>2, <1>5
  <2> HIDE DEF s
  <2>2. s \in Seq(Message)
    BY <2>1 DEF Sound
  <2> QED
    BY <2>1, <2>2, MessagesOf
<1> HIDE DEF s
<1>7. ASSUME NEW i \in 1..Len(s), s[i].role = "call", NEW k \in 1..s[i].calls
      PROVE  i + k \in 1..Len(s) /\ s[i + k].role = "tool"
  <2>1. i + k <= Len(s) /\ s[i + k].role = "tool"
    <3>1. CASE Live(s, i)
      <4>1. Len(h) \in 0..Len(h)
        BY <1>1
      <4> QED
        BY <1>6, <3>1, <4>1, LiveCalls
    <3>2. CASE ~Live(s, i)
      BY <1>6, <1>7, <3>2 DEF Sound
    <3> QED
      BY <3>1, <3>2
  <2>2. s[i] \in Message
    BY <1>6, MessagesOf
  <2>3. s[i].calls \in Nat
    BY <2>2, ConstantsAssumption DEF Message
  <2> QED
    BY <1>6, <2>1, <2>3
<1>8. \A i \in 1..Len(s) : s[i].role = "tool" =>
          \E j \in 1..(i - 1) : s[j].role = "call" /\ i <= j + s[j].calls
  BY <1>6 DEF Sound
<1> QED
  BY <1>6, <1>7, <1>8 DEF WellFormed, s

-----------------------------------------------------------------------------
(* SessionHistory: every call in a prompt has its results.                 *)

Orderly == ~mixed /\ crashes = 0

\* While a turn calls tools, as many results are due as it has yet to append; when no
\* turn does, the history is complete, and so is the copy that a turn will compress.
Complete ==
    Orderly =>
        /\ \A t \in Turns : /\ pc[t] = "tools" => Shaped(hist, todo[t])
                            /\ pc[t] = "compress" => Shaped(copy[t], 0)
        /\ (\A t \in Turns : pc[t] # "tools") => Shaped(hist, 0)

LEMMA NewCompletes ==
    ASSUME TypeOK, NEW role \in {"user", "assistant", "call", "tool"}, NEW n \in 0..MaxCalls,
           Append1(role, n)
    PROVE  \E m \in Message : m.role = role /\ m.calls = n /\ hist' = Append(hist, m)
<1>1. Latest \in 1..MaxMsgs
  BY ConstantsAssumption DEF Append1, Latest, TypeOK
<1>2. [id |-> Latest, role |-> role, calls |-> n] \in Message
  BY <1>1 DEF Message, Dialogue
<1>3. hist' = Append(hist, [id |-> Latest, role |-> role, calls |-> n])
  BY DEF Append1
<1> QED
  BY <1>2, <1>3

LEMMA CompleteTurn ==
    ASSUME HistoryInv, Complete, NEW t \in Turns, Turn(t)
    PROVE  Complete'
<1>0. /\ HistoryTypesInv /\ TypeOK /\ TypeOK' /\ Others(t) /\ TurnStep(t) /\ t \in Savers
      /\ hist \in Seq(Message) /\ Alone /\ Counted(t)
  BY TypesTurn, TurnSteps, People DEF HistoryInv, HistoryTypesInv, TypeOK, Counts
<1>f. /\ pc \in [Savers -> TurnStates \cup SummariserStates] /\ copy \in [Savers -> Seq(Message)]
      /\ todo \in [Turns -> 0..(MaxMsgs + MaxCalls)]
  BY <1>0 DEF TypeOK
<1>o. Orderly' => Orderly
  <2>1. crashes' = crashes
    BY DEF Turn, Read, AddUser, Answer, CallTools, ToolResult, Timeout, Fail, CompressRead, CompressSet,
           CompressSave, Rebuild, SaveTurn, MaybeSummarise
  <2>2. mixed' = mixed \/ mixed' = (mixed \/ Running # {})
    BY <1>0 DEF TurnStep, Begins, GoesOn
  <2> QED
    BY <2>1, <2>2 DEF Orderly
<1> SUFFICES ASSUME Orderly, Orderly'
             PROVE  /\ \A u \in Turns : /\ pc'[u] = "tools" => Shaped(hist', todo'[u])
                                        /\ pc'[u] = "compress" => Shaped(copy'[u], 0)
                    /\ (\A u \in Turns : pc'[u] # "tools") => Shaped(hist', 0)
  BY <1>o DEF Complete
<1>c. /\ \A u \in Turns : /\ pc[u] = "tools" => Shaped(hist, todo[u])
                          /\ pc[u] = "compress" => Shaped(copy[u], 0)
      /\ (\A u \in Turns : pc[u] # "tools") => Shaped(hist, 0)
  BY DEF Complete
<1>u. ASSUME NEW u \in Turns, u # t
      PROVE  pc'[u] = pc[u] /\ todo'[u] = todo[u] /\ copy'[u] = copy[u] /\ (pc[t] # "idle" => pc[u] = "idle")
  BY <1>0, <1>u, People DEF Others, Alone, Orderly
<1>a. pc[t] \notin {"idle", "tools"} => Shaped(hist, 0)
  BY <1>c, <1>u
\* A step that leaves the history alone, ...
<1>1. ASSUME hist' = hist, pc[t] # "tools", pc'[t] # "tools",
             pc'[t] = "compress" => Shaped(copy'[t], 0)
      PROVE  /\ \A u \in Turns : /\ pc'[u] = "tools" => Shaped(hist', todo'[u])
                                 /\ pc'[u] = "compress" => Shaped(copy'[u], 0)
             /\ (\A u \in Turns : pc'[u] # "tools") => Shaped(hist', 0)
  <2>1. \A u \in Turns : u # t => pc'[u] = pc[u] /\ todo'[u] = todo[u] /\ copy'[u] = copy[u]
    BY <1>u
  <2> QED
    BY <1>1, <1>c, <2>1
\* ... and one that completes it.
<1>2. ASSUME pc[t] # "idle", Shaped(hist', 0), pc'[t] \notin {"tools", "compress"}
      PROVE  /\ \A u \in Turns : /\ pc'[u] = "tools" => Shaped(hist', todo'[u])
                                 /\ pc'[u] = "compress" => Shaped(copy'[u], 0)
             /\ (\A u \in Turns : pc'[u] # "tools") => Shaped(hist', 0)
  <2>1. \A u \in Turns : u # t => pc'[u] = "idle"
    BY <1>2, <1>u
  <2> QED
    BY <1>2, <2>1
\* ... and one after which results are due.
<1>3. ASSUME pc[t] # "idle", pc'[t] = "tools", Shaped(hist', todo'[t])
      PROVE  /\ \A u \in Turns : /\ pc'[u] = "tools" => Shaped(hist', todo'[u])
                                 /\ pc'[u] = "compress" => Shaped(copy'[u], 0)
             /\ (\A u \in Turns : pc'[u] # "tools") => Shaped(hist', 0)
  <2>1. \A u \in Turns : u # t => pc'[u] = "idle"
    BY <1>3, <1>u
  <2> QED
    BY <1>3, <2>1
<1>g. ASSUME NEW from, NEW to, Goes(t, from, to) PROVE pc[t] = from /\ pc'[t] = to
  BY <1>0, <1>f, <1>g DEF Goes
<1>z. 0 \in 0..MaxCalls /\ \A n \in 1..MaxCalls : n \in 0..MaxCalls /\ n \in Nat /\ n > 0
  BY ConstantsAssumption
<1>4. CASE Read(t) \/ Timeout(t) \/ Fail(t) \/ CompressSave(t) \/ Rebuild(t) \/ SaveTurn(t) \/ MaybeSummarise(t)
  <2>1. hist' = hist
    BY <1>4 DEF Read, Timeout, Fail, CompressSave, Rebuild, SaveTurn, MaybeSummarise, session
  <2>2. pc[t] # "tools" /\ pc'[t] \notin {"tools", "compress"}
    <3>1. CASE Read(t)
      BY <1>g, <3>1 DEF Read
    <3>2. CASE Timeout(t)
      BY <3>2 DEF Timeout
    <3>3. CASE Fail(t) \/ Rebuild(t)
      <4>1. \/ pc[t] = "model" /\ pc'[t] = "idle"
            \/ pc[t] = "compressed" /\ pc'[t] = "model"
        BY <1>g, <3>3 DEF Fail, Rebuild
      <4> QED
        BY <4>1
    <3>s. ASSUME NEW from, NEW to, Snapshot(t, from, to) \/ Rename(t, from, to)
          PROVE  pc[t] = from /\ pc'[t] = to
      <4>1. Goes(t, from, to)
        BY <3>s DEF Snapshot, Rename
      <4> QED
        BY <1>g, <4>1
    <3>4. CASE CompressSave(t)
      <4>1. \/ pc[t] = "compress save" /\ pc'[t] = "compress rename"
            \/ pc[t] = "compress rename" /\ pc'[t] = "compressed"
        BY <3>s, <3>4 DEF CompressSave
      <4> QED
        BY <4>1
    <3>5. CASE SaveTurn(t)
      <4>1. \/ pc[t] = "save" /\ pc'[t] = "rename"
            \/ pc[t] = "rename" /\ pc'[t] = "saved"
        BY <3>s, <3>5 DEF SaveTurn
      <4> QED
        BY <4>1
    <3>6. CASE MaybeSummarise(t)
      BY <1>0, <1>f, <3>6, People DEF MaybeSummarise
    <3> QED
      BY <1>4, <3>1, <3>2, <3>3, <3>4, <3>5, <3>6
  <2> QED
    BY <1>1, <2>1, <2>2
<1>5. CASE CompressRead(t)
  <2>1. /\ pc[t] = "model" /\ pc'[t] \in {"compressed", "compress"}
        /\ hist' = hist /\ copy' = [copy EXCEPT ![t] = hist]
    BY <1>5, <1>g DEF CompressRead, session
  <2>2. copy'[t] = hist
    BY <1>0, <1>f, <2>1
  <2>3. Shaped(copy'[t], 0)
    BY <1>a, <2>1, <2>2
  <2> QED
    BY <1>1, <2>1, <2>3
<1>6. CASE AddUser(t) \/ Answer(t)
  <2>1. PICK role \in {"user", "assistant"} :
            Append1(role, 0) /\ pc[t] \in {"prompt", "model"} /\ pc'[t] \in {"model", "save"}
    BY <1>6, <1>g DEF AddUser, Answer
  <2>2. PICK m \in Message : m.role = role /\ hist' = Append(hist, m)
    BY <1>0, <1>z, <2>1, NewCompletes
  <2>3. Shaped(hist, 0)
    BY <1>a, <2>1
  <2>4. m.role \notin {"tool", "call"}
    BY <2>1, <2>2
  <2>5. Shaped(hist', 0)
    BY <1>0, <2>2, <2>3, <2>4, ShapedSays
  <2> QED
    BY <1>2, <2>1, <2>5
<1>7. ASSUME NEW n \in 1..MaxCalls, CallTools(t, n) PROVE Shaped(hist', n) /\ pc[t] = "model" /\ pc'[t] = "tools" /\ todo'[t] = n
  <2>1. Append1("call", n) /\ pc[t] = "model" /\ pc'[t] = "tools" /\ todo'[t] = n
    BY <1>7, <1>f, <1>g DEF CallTools
  <2>2. PICK m \in Message : m.role = "call" /\ m.calls = n /\ hist' = Append(hist, m)
    BY <1>0, <1>z, <2>1, NewCompletes
  <2>3. Shaped(hist, 0)
    BY <1>a, <2>1
  <2>4. Shaped(hist', n)
    BY <1>0, <1>z, <2>2, <2>3, ShapedSays
  <2> QED
    BY <2>1, <2>4
<1>8. CASE ToolResult(t)
  <2>1. /\ Append1("tool", 0) /\ pc[t] = "tools" /\ todo' = [todo EXCEPT ![t] = @ - 1]
        /\ pc'[t] = IF todo[t] = 1 THEN "model" ELSE "tools"
    BY <1>8, <1>g DEF ToolResult
  <2>2. todo[t] \in Nat \ {0} /\ todo'[t] = todo[t] - 1
    <3>1. todo[t] \in 0..(MaxMsgs + MaxCalls) /\ todo[t] > 0
      BY <1>0, <1>f, <2>1 DEF Counted
    <3>2. todo'[t] = todo[t] - 1
      BY <1>f, <2>1
    <3> QED
      BY <3>1, <3>2
  <2>3. PICK m \in Message : m.role = "tool" /\ hist' = Append(hist, m)
    BY <1>0, <1>z, <2>1, NewCompletes
  <2>4. Shaped(hist, todo[t])
    BY <1>c, <2>1
  <2>5. Shaped(hist', todo[t] - 1)
    BY <1>0, <2>2, <2>3, <2>4, ShapedResult
  <2>6. CASE todo[t] = 1
    <3>1. Shaped(hist', 0) /\ pc'[t] = "model"
      BY <2>1, <2>5, <2>6
    <3> QED
      BY <1>2, <2>1, <3>1
  <2>7. CASE todo[t] # 1
    BY <1>3, <2>1, <2>2, <2>5, <2>7
  <2> QED
    BY <2>6, <2>7
<1>9. CASE CompressSet(t)
  <2>1. pc[t] = "compress" /\ pc'[t] = "compress save" /\ hist' = Compressed(copy[t])
    BY <1>9, <1>g DEF CompressSet
  <2>2. copy[t] \in Seq(Message) /\ Len(copy[t]) > CompressAbove /\ Shaped(copy[t], 0)
    BY <1>0, <1>c, <1>f, <2>1 DEF Counted
  <2>3. Shaped(hist', 0)
    BY <2>1, <2>2, ShapedCompress
  <2> QED
    BY <1>2, <2>1, <2>3
<1>10. CASE \E n \in 1..MaxCalls : CallTools(t, n)
  <2>1. PICK n \in 1..MaxCalls : CallTools(t, n)
    BY <1>10
  <2>2. Shaped(hist', todo'[t]) /\ pc[t] # "idle" /\ pc'[t] = "tools"
    BY <1>7, <2>1
  <2> QED
    BY <1>3, <2>2
<1> QED
  BY <1>4, <1>5, <1>6, <1>8, <1>9, <1>10 DEF Turn

LEMMA CompleteSummariser ==
    ASSUME HistoryInv, Complete, Summariser
    PROVE  Complete'
<1>1. Beside /\ TypeOK
  BY TypesSummariser DEF HistoryInv, HistoryTypesInv
<1>2. /\ hist \in Seq(Message) /\ Len(hist) \in Nat /\ KeepLast \in Nat
      /\ \A t \in Turns : todo[t] \in Nat
  BY <1>1, MessagesOf, ConstantsAssumption DEF TypeOK
<1>3. \/ hist' = hist
      \/ Len(hist) > KeepLast /\ hist' = SubSeq(hist, Len(hist) - KeepLast + 1, Len(hist))
  <2>1. CASE Truncate
    BY <1>2, <2>1 DEF Truncate
  <2>2. CASE SummariserReads \/ SetSummary \/ NoSummary \/ SummariserSaves
    BY <2>2 DEF SummariserReads, SetSummary, NoSummary, SummariserSaves, session
  <2> QED
    BY <2>1, <2>2 DEF Summariser
<1>4. ASSUME NEW due \in Nat, Shaped(hist, due) PROVE Shaped(hist', due)
  BY <1>2, <1>3, <1>4, ShapedTruncate
<1>5. /\ \A t \in Turns : pc'[t] = pc[t] /\ copy'[t] = copy[t] /\ todo'[t] = todo[t]
      /\ Orderly' = Orderly
  BY <1>1 DEF Beside, Orderly
<1>6. ASSUME Orderly PROVE Complete'
  <2>1. ASSUME NEW t \in Turns
        PROVE  /\ pc'[t] = "tools" => Shaped(hist', todo'[t])
               /\ pc'[t] = "compress" => Shaped(copy'[t], 0)
    BY <1>2, <1>4, <1>5, <1>6 DEF Complete
  <2>2. (\A t \in Turns : pc'[t] # "tools") => Shaped(hist', 0)
    BY <1>4, <1>5, <1>6 DEF Complete
  <2> QED
    BY <2>1, <2>2 DEF Complete
<1> QED
  BY <1>5, <1>6 DEF Complete

LEMMA CompleteInit == Init => Complete
<1> SUFFICES ASSUME Init PROVE Complete
  OBVIOUS
<1>1. hist = <<>> /\ Len(hist) = 0 /\ \A t \in Turns : pc[t] = "idle"
  BY People DEF Init
<1>2. Shaped(hist, 0)
  BY <1>1 DEF Shaped
<1> QED
  BY <1>1, <1>2 DEF Complete

LEMMA CompleteStep == HistoryInv /\ Complete /\ [Next]_vars => Complete'
<1>1. ASSUME Complete, UNCHANGED vars PROVE Complete'
  <2>1. UNCHANGED <<hist, pc, copy, todo, mixed, crashes>>
    BY <1>1 DEF vars, session, local, observed
  <2> QED
    BY <1>1, <2>1 DEF Complete, Orderly
<1>2. ASSUME HistoryInv, Crash PROVE Complete'
  <2>1. crashes \in 0..MaxCrashes /\ MaxCrashes \in Nat /\ crashes' = crashes + 1
    BY <1>2, ConstantsAssumption DEF HistoryInv, HistoryTypesInv, TypeOK, Crash
  <2>2. crashes' # 0
    BY <2>1
  <2> QED
    BY <2>2 DEF Complete, Orderly
<1> QED
  BY <1>1, <1>2, CompleteTurn, CompleteSummariser DEF Next

\* What BuildMessages sends is well-formed, wherever TruncateHistory and forceCompression
\* have cut: sanitizeHistoryForProvider leaves no call without its results and no result
\* without its call, of a history that one turn at a time has written.
THEOREM PromptsWellFormed == Spec => []CallsAnswered
<1>1. HistoryInv /\ Complete => CallsAnswered
  <2> SUFFICES ASSUME HistoryInv, Complete, Orderly, \A t \in Turns : pc[t] # "tools"
               PROVE  WellFormed(Sanitised(hist))
    BY DEF CallsAnswered, Orderly
  <2>1. hist \in Seq(Message) /\ Shaped(hist, 0)
    BY DEF HistoryInv, HistoryTypesInv, TypeOK, Complete
  <2> QED
    BY <2>1, SanitisedWell
<1> QED
  BY <1>1, InitHistory, StepHistory, CompleteInit, CompleteStep, PTL DEF Spec

-----------------------------------------------------------------------------
(* AgentLoop: the message tool tells what the round has sent.              *)

\* The records of a round and of a message tool.
RoundLike(x) ==
    x = [pc |-> x.pc, msg |-> x.msg, agent |-> x.agent, chat |-> x.chat, key |-> x.key,
         calls |-> x.calls, by |-> x.by, last |-> x.last, told |-> x.told]

ToolLike(x) == x = [chat |-> x.chat, sent |-> x.sent] /\ x.sent \in BOOLEAN

Shapes ==
    /\ config \in Configs
    /\ round = [r \in A!Rounds |-> round[r]] /\ \A r \in A!Rounds : RoundLike(round[r])
    /\ tool = [a \in A!Agents |-> tool[a]] /\ \A a \in A!Agents : ToolLike(tool[a])

\* Run has no agent before the round begins.
NoAgentYet == round["run"].pc \in {"idle", "taken"} => round["run"].agent = ""

\* Round R is calling the message tool of its own agent.
Calling(R) == R.pc = "calling" /\ R.by = R.agent

\* x is what the message tool of an undisturbed round R is like.
Tells(R, x) ==
    /\ Calling(R) => x = [chat |-> R.chat, sent |-> FALSE]
    /\ ~Calling(R) => (x.sent <=> R.last \in {"sent", "named"})
    /\ R.last = "sent" => "here" \in R.told

Undisturbed ==
    round["run"].agent \in A!Agents /\ ~disturbed => Tells(round["run"], tool[round["run"].agent])

AnswerInv == Shapes /\ NoAgentYet /\ Undisturbed /\ Answered

LEMMA NobodyUnnamed ==
    ASSUME A!ConstantsAssumption, Shapes
    PROVE  "" \notin A!Agents
BY DEF A!ConstantsAssumption, Shapes, A!Agents

LEMMA RoundNames ==
    /\ {"run", "cron", "heartbeat", "spawn"} \subseteq A!Rounds
    /\ \A r \in A!Rounds : r # "run" => r \in {"cron", "heartbeat", "spawn"}
BY DEF A!Rounds

\* Round r becomes y, the others stay.
RoundBecomes(r, y) ==
    /\ round' = [q \in A!Rounds |-> round'[q]]
    /\ round'[r] = y /\ \A q \in A!Rounds \ {r} : round'[q] = round[q]

\* The message tool of agent a, if there is one, becomes z.
ToolBecomes(a, z) ==
    /\ tool' = [b \in A!Agents |-> tool'[b]]
    /\ a \in A!Agents => tool'[a] = z
    /\ \A b \in A!Agents \ {a} : tool'[b] = tool[b]

LEMMA ToolSet ==
    ASSUME Shapes, NEW a, NEW z, tool' = [tool EXCEPT ![a] = z]
    PROVE  ToolBecomes(a, z)
BY DEF Shapes, ToolBecomes

LEMMA RoundSet ==
    ASSUME Shapes, NEW r \in A!Rounds, NEW y, round' = [round EXCEPT ![r] = y]
    PROVE  RoundBecomes(r, y)
BY DEF Shapes, RoundBecomes

LEMMA ShapesNext ==
    ASSUME Shapes, config' = config, NEW r \in A!Rounds, NEW y, RoundLike(y), RoundBecomes(r, y),
           tool' = tool \/ \E a : \E z : ToolLike(z) /\ ToolBecomes(a, z)
    PROVE  Shapes'
<1>1. round' = [q \in A!Rounds |-> round'[q]] /\ \A q \in A!Rounds : RoundLike(round'[q])
  BY DEF Shapes, RoundBecomes
<1>2. A!Agents' = A!Agents
  BY DEF A!Agents
<1>3. tool' = [a \in A!Agents |-> tool'[a]] /\ \A a \in A!Agents : ToolLike(tool'[a])
  BY DEF Shapes, ToolBecomes
<1> QED
  BY <1>1, <1>2, <1>3 DEF Shapes

LEMMA UndisturbedNext ==
    ASSUME NEW y, round'["run"] = y, A!Agents' = A!Agents,
           y.agent \in A!Agents /\ ~disturbed' => Tells(y, tool'[y.agent])
    PROVE  Undisturbed'
BY DEF Undisturbed

\* What another round does to the message tools does not matter to Run's, or disturbs.
LEMMA Aside ==
    ASSUME A!ConstantsAssumption, AnswerInv, config' = config, latest' = latest,
           round'["run"] = round["run"], NEW r \in A!Rounds \ {"run"},
           \/ tool' = tool /\ (disturbed => disturbed')
           \/ \E a : \E z : ToolBecomes(a, z) /\ A!Disturbs(r, a)
    PROVE  NoAgentYet' /\ Undisturbed' /\ Answered'
<1>1. NoAgentYet' /\ Answered' /\ A!Agents' = A!Agents
  BY DEF AnswerInv, NoAgentYet, Answered, A!Agents
<1>2. ASSUME round["run"].agent \in A!Agents, ~disturbed'
      PROVE  Tells(round["run"], tool'[round["run"].agent])
  <2>0. ~disturbed
    BY <1>2 DEF A!Disturbs
  <2>1. Tells(round["run"], tool[round["run"].agent])
    BY <1>2, <2>0 DEF AnswerInv, Undisturbed
  <2>2. round["run"].pc # "idle"
    BY <1>2, NobodyUnnamed DEF AnswerInv, NoAgentYet
  <2>3. tool'[round["run"].agent] = tool[round["run"].agent]
    BY <1>2, <2>2 DEF A!Disturbs, ToolBecomes
  <2> QED
    BY <2>1, <2>3
<1> QED
  BY <1>1, <1>2, UndisturbedNext

\* A step of round r that makes its record y, and sets the message tool of agent a to z.
LEMMA StepOf ==
    ASSUME A!ConstantsAssumption, AnswerInv, config' = config, latest' = latest,
           NEW r \in A!Rounds, NEW y, RoundLike(y), RoundBecomes(r, y), NEW a, NEW z,
           \/ tool' = tool /\ (disturbed => disturbed')
           \/ ToolLike(z) /\ ToolBecomes(a, z) /\ A!Disturbs(r, a),
           r = "run" => /\ y.pc \in {"idle", "taken"} => y.agent = ""
                        /\ y.agent \in A!Agents /\ ~disturbed' => Tells(y, tool'[y.agent])
    PROVE  AnswerInv'
<1>1. Shapes'
  BY ShapesNext DEF AnswerInv
<1>2. CASE r = "run"
  <2>1. A!Agents' = A!Agents /\ Answered' /\ round'["run"] = y
    BY <1>2 DEF A!Agents, AnswerInv, Answered, RoundBecomes
  <2>2. NoAgentYet'
    BY <1>2, <2>1 DEF NoAgentYet
  <2>3. Undisturbed'
    <3>1. y.agent \in A!Agents /\ ~disturbed' => Tells(y, tool'[y.agent])
      BY <1>2
    <3> QED
      BY <2>1, <3>1, UndisturbedNext
  <2> QED
    BY <1>1, <2>1, <2>2, <2>3 DEF AnswerInv
<1>3. CASE r # "run"
  <2>1. round'["run"] = round["run"]
    BY <1>3, RoundNames DEF RoundBecomes
  <2>2. \/ tool' = tool /\ (disturbed => disturbed')
        \/ \E b : \E w : ToolBecomes(b, w) /\ A!Disturbs(r, b)
    OBVIOUS
  <2>3. NoAgentYet' /\ Undisturbed' /\ Answered'
    BY <1>3, <2>1, <2>2, Aside
  <2> QED
    BY <1>1, <2>3 DEF AnswerInv
<1> QED
  BY <1>2, <1>3

LEMMA BeginStep ==
    ASSUME A!ConstantsAssumption, AnswerInv, config' = config, latest' = latest,
           NEW r \in A!Rounds, NEW a, NEW m, NEW chat, NEW key,
           round' = [round EXCEPT ![r] = [A!Idle EXCEPT !.pc = "thinking", !.msg = m, !.agent = a,
                                                        !.chat = chat, !.key = key]],
           tool' = [tool EXCEPT ![a] = [chat |-> chat, sent |-> FALSE]],
           A!Disturbs(r, a)
    PROVE  AnswerInv'
<1>1. PICK y : y = [A!Idle EXCEPT !.pc = "thinking", !.msg = m, !.agent = a, !.chat = chat, !.key = key]
  OBVIOUS
<1>2. RoundLike(y) /\ y.pc = "thinking" /\ y.agent = a /\ y.last = "none"
  BY <1>1 DEF A!Idle, RoundLike
<1>3. PICK z : z = [chat |-> chat, sent |-> FALSE]
  OBVIOUS
<1>4. ToolLike(z) /\ z.sent = FALSE
  BY <1>3 DEF ToolLike
<1>5. RoundBecomes(r, y) /\ ToolBecomes(a, z)
  BY <1>1, <1>3, RoundSet, ToolSet DEF AnswerInv
<1>6. a \in A!Agents => Tells(y, tool'[a])
  BY <1>2, <1>4, <1>5 DEF Tells, Calling, ToolBecomes
<1> QED
  BY <1>2, <1>4, <1>5, <1>6, StepOf

LEMMA SentSet ==
    ASSUME NEW c, NEW b, NEW v
    PROVE  [[chat |-> c, sent |-> b] EXCEPT !.sent = v] = [chat |-> c, sent |-> v]
OBVIOUS

\* The records x and y tell the same of the message tool, which y is not calling.
Same(x, y) ==
    /\ y.agent = x.agent /\ y.last = x.last /\ y.told = x.told
    /\ y.pc \notin {"calling", "idle", "taken"}

LEMMA SameTells ==
    ASSUME NEW x, NEW y, Same(x, y), x.pc # "calling", NEW z, Tells(x, z)
    PROVE  Tells(y, z)
BY DEF Same, Tells, Calling

\* A spawn begins: the calls of round r are one more, and a round of the child is new.
LEMMA SpawnStep ==
    ASSUME A!ConstantsAssumption, AnswerInv, NEW r \in A!Rounds, A!StartSpawn(r)
    PROVE  AnswerInv'
<1>1. UNCHANGED <<config, tool, latest, disturbed>>
  BY DEF A!StartSpawn
<1>2. PICK x, w, q : /\ x = round[r] /\ x.pc = "thinking" /\ r # "spawn"
                     /\ w = [A!Idle EXCEPT !.pc = "thinking", !.chat = round[q].chat]
                     /\ round' = [round EXCEPT ![r].calls = @ + 1, !["spawn"] = w]
  BY DEF A!StartSpawn
<1>3. RoundLike(x) /\ round = [p \in A!Rounds |-> round[p]] /\ "spawn" \in A!Rounds
  BY <1>2, RoundNames DEF AnswerInv, Shapes
<1>4. PICK y : y = [x EXCEPT !.calls = @ + 1]
  OBVIOUS
<1>5. RoundLike(y) /\ Same(x, y)
  BY <1>2, <1>3, <1>4 DEF RoundLike, Same
<1>6. RoundLike(w)
  BY <1>2 DEF A!Idle, RoundLike
<1>7. /\ round' = [p \in A!Rounds |-> round'[p]] /\ round'[r] = y /\ round'["spawn"] = w
      /\ \A p \in A!Rounds \ {r, "spawn"} : round'[p] = round[p]
  BY <1>2, <1>3, <1>4
<1>8. \A p \in A!Rounds : RoundLike(round'[p])
  BY <1>5, <1>6, <1>7 DEF AnswerInv, Shapes
<1>9. Shapes' /\ A!Agents' = A!Agents /\ Answered'
  BY <1>1, <1>7, <1>8 DEF AnswerInv, Shapes, Answered, A!Agents
<1>10. CASE r = "run"
  <2>1. NoAgentYet'
    BY <1>5, <1>7, <1>10 DEF NoAgentYet, Same
  <2>2. y.agent \in A!Agents /\ ~disturbed' => Tells(y, tool'[y.agent])
    <3>1. SUFFICES ASSUME x.agent \in A!Agents, ~disturbed PROVE Tells(y, tool[x.agent])
      BY <1>1, <1>5 DEF Same
    <3>2. Tells(x, tool[x.agent])
      BY <1>2, <1>10, <3>1 DEF AnswerInv, Undisturbed
    <3> QED
      BY <1>2, <1>5, <3>2, SameTells
  <2>3. Undisturbed'
    BY <1>7, <1>9, <1>10, <2>2, UndisturbedNext
  <2> QED
    BY <1>9, <2>1, <2>3 DEF AnswerInv
<1>11. CASE r # "run"
  <2>1. round'["run"] = round["run"]
    BY <1>7, <1>11, RoundNames
  <2>2. NoAgentYet' /\ Undisturbed' /\ Answered'
    BY <1>1, <1>11, <2>1, Aside
  <2> QED
    BY <1>9, <2>2 DEF AnswerInv
<1> QED
  BY <1>10, <1>11

\* x becomes y when its call of a message tool ends; if it is Run's, it keeps what it has
\* told, and knows what it tells.
Told(r, x, outcome, chats, y) ==
    /\ y.pc = "thinking" /\ y.agent = x.agent
    /\ r = "run" => /\ y.last = IF x.by = x.agent THEN outcome ELSE x.last
                    /\ "here" \in x.told => "here" \in y.told
                    /\ x.chat \in chats => "here" \in y.told

LEMMA EndsBecomes ==
    ASSUME Shapes, NEW r \in A!Rounds, NEW outcome, NEW chats, A!Ends(r, outcome, chats),
           NEW x, x = round[r]
    PROVE  \E y : RoundLike(y) /\ RoundBecomes(r, y) /\ Told(r, x, outcome, chats, y)
<1>1. RoundLike(x) /\ round = [q \in A!Rounds |-> round[q]]
  BY DEF Shapes
<1>2. PICK new : new = {IF c = x.chat THEN "here" ELSE "elsewhere" : c \in chats}
  OBVIOUS
<1>3. PICK told : told = (IF r = "run" THEN x.told \cup new ELSE x.told)
  OBVIOUS
<1>4. PICK last : last = (IF r = "run" /\ x.by = x.agent THEN outcome ELSE x.last)
  OBVIOUS
<1>5. PICK y : y = [x EXCEPT !.pc = "thinking", !.by = "", !.told = told, !.last = last]
  OBVIOUS
<1>6. round' = [round EXCEPT ![r] = y]
  BY <1>2, <1>3, <1>4, <1>5 DEF A!Ends
<1>7. /\ RoundLike(y) /\ y.pc = "thinking" /\ y.agent = x.agent
      /\ y.last = last /\ y.told = told
  BY <1>1, <1>5 DEF RoundLike
<1>8. RoundBecomes(r, y)
  BY <1>6, RoundSet
<1>9. x.chat \in chats => "here" \in new
  BY <1>2
<1> QED
  BY <1>3, <1>4, <1>7, <1>8, <1>9 DEF Told

LEMMA ToolsStep ==
    ASSUME A!ConstantsAssumption, AnswerInv, NEW r \in A!Rounds, A!Tools(r) \/ A!Answer(r)
    PROVE  AnswerInv'
<1>1. PICK x : x = round[r]
  OBVIOUS
<1>2. RoundLike(x) /\ round = [q \in A!Rounds |-> round[q]] /\ Shapes
  BY <1>1 DEF AnswerInv, Shapes, RoundLike
<1>f. config' = config /\ latest' = latest
  BY DEF A!Tools, A!CallMessage, A!Deliver, A!DeliverFails, A!Send, A!Sent, A!StartSpawn, A!Answer
<1>3. r = "run" /\ x.agent \in A!Agents /\ ~disturbed => Tells(x, tool[x.agent])
  BY <1>1 DEF AnswerInv, Undisturbed
<1>4. CASE A!CallMessage(r)
  <2>1. PICK a \in A!Agents :
          /\ round' = [round EXCEPT ![r].pc = "calling", ![r].calls = @ + 1, ![r].by = a]
          /\ tool' = [tool EXCEPT ![a] = [chat |-> x.chat, sent |-> FALSE]]
          /\ A!Disturbs(r, a)
    BY <1>1, <1>4 DEF A!CallMessage
  <2>2. PICK y : y = [x EXCEPT !.pc = "calling", !.calls = @ + 1, !.by = a]
    OBVIOUS
  <2>3. /\ RoundLike(y) /\ y.pc = "calling" /\ y.agent = x.agent /\ y.by = a
        /\ y.chat = x.chat /\ y.last = x.last /\ y.told = x.told
    BY <1>2, <2>2 DEF RoundLike
  <2>4. round'[r] = y /\ \A q \in A!Rounds \ {r} : round'[q] = round[q]
    BY <1>1, <1>2, <2>1, <2>2
  <2>5. RoundBecomes(r, y)
    BY <1>2, <2>1, <2>4 DEF RoundBecomes
  <2>6. PICK z : z = [chat |-> x.chat, sent |-> FALSE]
    OBVIOUS
  <2>7. ToolLike(z) /\ ToolBecomes(a, z)
    BY <1>2, <2>1, <2>6, ToolSet DEF ToolLike
  <2>8. r = "run" => (y.agent \in A!Agents /\ ~disturbed' => Tells(y, tool'[y.agent]))
    <3>1. SUFFICES ASSUME r = "run", x.agent \in A!Agents, ~disturbed'
                   PROVE  Tells(y, tool'[x.agent])
      BY <2>3
    <3>2. Tells(x, tool[x.agent]) /\ x.pc = "thinking"
      BY <1>1, <1>3, <1>4, <2>1, <3>1 DEF A!Disturbs, A!CallMessage
    <3>3. CASE a = x.agent
      <4>1. tool'[x.agent] = z
        BY <2>7, <3>3 DEF ToolBecomes
      <4> QED
        BY <2>3, <2>6, <3>2, <3>3, <4>1 DEF Tells, Calling
    <3>4. CASE a # x.agent
      <4>1. tool'[x.agent] = tool[x.agent]
        BY <2>7, <3>1, <3>4 DEF ToolBecomes
      <4> QED
        BY <2>3, <3>2, <3>4, <4>1 DEF Tells, Calling
    <3> QED
      BY <3>3, <3>4
  <2> QED
    BY <1>f, <2>1, <2>3, <2>5, <2>7, <2>8, StepOf
<1>5. CASE A!Deliver(r)
  <2>1. PICK outcome, chats : /\ A!Ends(r, outcome, chats) /\ outcome \in {"sent", "named"}
                              /\ outcome = "sent" => chats = {tool[x.by].chat}
    BY <1>1, <1>5 DEF A!Deliver
  <2>2. tool' = [tool EXCEPT ![x.by].sent = TRUE] /\ A!Disturbs(r, x.by) /\ x.pc = "calling"
    BY <1>1, <1>5 DEF A!Deliver
  <2>p. PICK y : RoundLike(y) /\ RoundBecomes(r, y) /\ Told(r, x, outcome, chats, y)
    BY <1>1, <1>2, <2>1, EndsBecomes
  <2>3. /\ RoundLike(y) /\ RoundBecomes(r, y)
        /\ y.pc = "thinking" /\ y.agent = x.agent
        /\ r = "run" => /\ y.last = IF x.by = x.agent THEN outcome ELSE x.last
                        /\ "here" \in x.told => "here" \in y.told
                        /\ x.chat \in chats => "here" \in y.told
    BY <2>p DEF Told
  <2>4. PICK z : z = [chat |-> tool[x.by].chat, sent |-> TRUE]
    OBVIOUS
  <2>5. ToolLike(z) /\ z.sent = TRUE
    BY <2>4 DEF ToolLike
  <2>6. ToolBecomes(x.by, z)
    <3>1. PICK w : w = tool[x.by]
      OBVIOUS
    <3>2. x.by \in A!Agents => w = [chat |-> w.chat, sent |-> w.sent]
      BY <1>2, <3>1 DEF Shapes, ToolLike
    <3>3. x.by \in A!Agents => [w EXCEPT !.sent = TRUE] = z
      <4>1. SUFFICES ASSUME x.by \in A!Agents PROVE [w EXCEPT !.sent = TRUE] = z
        OBVIOUS
      <4>2. PICK c, b : w = [chat |-> c, sent |-> b]
        BY <3>2, <4>1
      <4>3. z = [chat |-> c, sent |-> TRUE]
        <5>1. w.chat = c
          BY <4>2
        <5> QED
          BY <2>4, <3>1, <5>1
      <4> QED
        BY <4>2, <4>3, SentSet
    <3>4. x.by \in A!Agents => tool'[x.by] = [w EXCEPT !.sent = TRUE]
      BY <1>2, <2>2, <3>1 DEF Shapes
    <3>5. /\ tool' = [b \in A!Agents |-> tool'[b]]
          /\ \A b \in A!Agents \ {x.by} : tool'[b] = tool[b]
      BY <1>2, <2>2 DEF Shapes
    <3> QED
      BY <3>3, <3>4, <3>5 DEF ToolBecomes
  <2>7. r = "run" => (y.agent \in A!Agents /\ ~disturbed' => Tells(y, tool'[y.agent]))
    <3>1. SUFFICES ASSUME r = "run", x.agent \in A!Agents, ~disturbed'
                   PROVE  Tells(y, tool'[x.agent])
      BY <2>3
    <3>2. Tells(x, tool[x.agent])
      BY <1>3, <2>2, <3>1 DEF A!Disturbs
    <3>3. CASE x.by = x.agent
      <4>1. tool'[x.agent] = z
        BY <2>6, <3>1, <3>3 DEF ToolBecomes
      <4>2. tool[x.agent].chat = x.chat
        <5>1. PICK w : w = tool[x.agent]
          OBVIOUS
        <5>2. w = [chat |-> x.chat, sent |-> FALSE]
          BY <2>2, <3>2, <3>3, <5>1 DEF Tells, Calling
        <5>3. w.chat = x.chat
          BY <5>2
        <5> QED
          BY <5>1, <5>3
      <4>3. y.last = outcome /\ (outcome = "sent" => "here" \in y.told)
        BY <2>1, <2>3, <3>1, <3>3, <4>2
      <4> QED
        BY <2>1, <2>3, <2>5, <4>1, <4>3 DEF Tells, Calling
    <3>4. CASE x.by # x.agent
      <4>1. tool'[x.agent] = tool[x.agent] /\ y.last = x.last
        BY <2>3, <2>6, <3>1, <3>4 DEF ToolBecomes
      <4> QED
        BY <2>3, <3>1, <3>2, <3>4, <4>1 DEF Tells, Calling
    <3> QED
      BY <3>3, <3>4
  <2> QED
    BY <1>f, <2>2, <2>3, <2>5, <2>6, <2>7, StepOf
<1>6. CASE A!DeliverFails(r)
  <2>1. A!Ends(r, "failed", {}) /\ tool' = tool /\ disturbed' = disturbed /\ x.pc = "calling"
    BY <1>1, <1>6 DEF A!DeliverFails
  <2>p. PICK y : RoundLike(y) /\ RoundBecomes(r, y) /\ Told(r, x, "failed", {}, y)
    BY <1>1, <1>2, <2>1, EndsBecomes
  <2>2. /\ RoundLike(y) /\ RoundBecomes(r, y)
        /\ y.pc = "thinking" /\ y.agent = x.agent
        /\ r = "run" => /\ y.last = IF x.by = x.agent THEN "failed" ELSE x.last
                        /\ "here" \in x.told => "here" \in y.told
    BY <2>p DEF Told
  <2>3. r = "run" => (y.agent \in A!Agents /\ ~disturbed' => Tells(y, tool'[y.agent]))
    <3>1. PICK w : w = tool[x.agent]
      OBVIOUS
    <3>2. SUFFICES ASSUME r = "run", x.agent \in A!Agents, ~disturbed PROVE Tells(y, w)
      BY <2>1, <2>2, <3>1
    <3>3. Tells(x, w)
      BY <1>3, <3>1, <3>2
    <3>4. CASE x.by = x.agent
      <4>1. w = [chat |-> x.chat, sent |-> FALSE]
        BY <2>1, <3>3, <3>4 DEF Tells, Calling
      <4>2. w.sent = FALSE /\ y.last = "failed"
        BY <2>2, <3>2, <3>4, <4>1
      <4> QED
        BY <2>2, <4>2 DEF Tells, Calling
    <3>5. CASE x.by # x.agent
      BY <2>2, <3>2, <3>3, <3>5 DEF Tells, Calling
    <3> QED
      BY <3>4, <3>5
  <2> QED
    BY <1>f, <2>1, <2>2, <2>3, StepOf
<1>a. ASSUME NEW y, RoundLike(y), round' = [round EXCEPT ![r] = y], tool' = tool, disturbed' = disturbed,
             Same(x, y), x.pc # "calling"
      PROVE  AnswerInv'
  <2>1. RoundBecomes(r, y)
    BY <1>a, <1>2, RoundSet
  <2>2. r = "run" => (y.agent \in A!Agents /\ ~disturbed' => Tells(y, tool'[y.agent]))
    <3>1. SUFFICES ASSUME r = "run", x.agent \in A!Agents, ~disturbed PROVE Tells(y, tool[x.agent])
      BY <1>a DEF Same
    <3>2. Tells(x, tool[x.agent])
      BY <1>3, <3>1
    <3> QED
      BY <1>a, <3>2, SameTells
  <2>3. y.pc \notin {"idle", "taken"}
    BY <1>a DEF Same
  <2> QED
    BY <1>f, <1>a, <2>1, <2>2, <2>3, StepOf
<1>7. CASE A!Send(r)
  <2>1. PICK y : y = [x EXCEPT !.pc = "sending", !.calls = @ + 1]
    OBVIOUS
  <2>2. RoundLike(y) /\ y.pc = "sending" /\ Same(x, y)
    BY <1>2, <2>1 DEF RoundLike, Same
  <2>3. round' = [round EXCEPT ![r] = y]
    BY <1>1, <1>2, <1>7, <2>1 DEF A!Send
  <2>4. tool' = tool /\ disturbed' = disturbed /\ x.pc = "thinking"
    BY <1>1, <1>7 DEF A!Send
  <2> QED
    BY <1>a, <2>2, <2>3, <2>4
<1>8. CASE A!Sent(r)
  <2>1. PICK y : y = [x EXCEPT !.pc = "thinking"]
    OBVIOUS
  <2>2. RoundLike(y) /\ y.pc = "thinking" /\ Same(x, y)
    BY <1>2, <2>1 DEF RoundLike, Same
  <2>3. round' = [round EXCEPT ![r] = y]
    BY <1>1, <1>2, <1>8, <2>1 DEF A!Sent
  <2>4. tool' = tool /\ disturbed' = disturbed /\ x.pc = "sending"
    BY <1>1, <1>8 DEF A!Sent
  <2> QED
    BY <1>a, <2>2, <2>3, <2>4
<1>9. CASE A!Answer(r)
  <2>4. tool' = tool /\ disturbed' = disturbed /\ x.pc = "thinking"
    BY <1>1, <1>9 DEF A!Answer
  <2>5. CASE r = "run"
    <3>1. PICK y : y = [x EXCEPT !.pc = "replying"]
      OBVIOUS
    <3>2. RoundLike(y) /\ y.pc = "replying" /\ Same(x, y)
      BY <1>2, <3>1 DEF RoundLike, Same
    <3>3. round' = [round EXCEPT ![r] = y]
      BY <1>1, <1>2, <1>9, <2>5, <3>1 DEF A!Answer
    <3> QED
      BY <1>a, <2>4, <3>2, <3>3
  <2>6. CASE r # "run"
    <3>1. PICK y : y = A!Idle
      OBVIOUS
    <3>2. RoundLike(y)
      BY <3>1 DEF A!Idle, RoundLike
    <3>3. RoundBecomes(r, y)
      BY <1>2, <1>9, <2>6, <3>1, RoundSet DEF A!Answer
    <3> QED
      BY <1>f, <2>4, <2>6, <3>2, <3>3, StepOf
  <2> QED
    BY <2>5, <2>6
<1>s. CASE A!StartSpawn(r)
  BY <1>s, SpawnStep
<1> QED
  BY <1>4, <1>5, <1>6, <1>7, <1>8, <1>9, <1>s DEF A!Tools

LEMMA RunStep ==
    ASSUME A!ConstantsAssumption, AnswerInv, A!Run
    PROVE  AnswerInv'
<1>r. "run" \in A!Rounds
  BY RoundNames
<1>1. PICK x : x = round["run"]
  OBVIOUS
<1>2. RoundLike(x) /\ round = [q \in A!Rounds |-> round[q]] /\ Shapes
  BY <1>1, <1>r DEF AnswerInv, Shapes, RoundLike
<1>3. CASE A!Take
  <2>1. PICK y : y = [A!Idle EXCEPT !.pc = "taken", !.msg = Head(inbound), !.chat = Input[Head(inbound)].chat]
    OBVIOUS
  <2>2. RoundLike(y) /\ y.agent = "" /\ round' = [round EXCEPT !["run"] = y] /\ UNCHANGED <<config, tool>>
    BY <1>3, <2>1 DEF A!Take, A!Idle, RoundLike
  <2>3. RoundBecomes("run", y)
    BY <1>2, <1>r, <2>2, RoundSet
  <2>4. Shapes' /\ A!Agents' = A!Agents
    BY <1>2, <1>r, <2>2, <2>3, ShapesNext DEF A!Agents
  <2>5. round'["run"].agent = "" /\ "" \notin A!Agents
    BY <1>2, <2>2, <2>3, NobodyUnnamed DEF RoundBecomes
  <2>6. NoAgentYet' /\ Undisturbed'
    BY <2>4, <2>5 DEF NoAgentYet, Undisturbed
  <2>7. Answered'
    BY <1>3 DEF A!Take, Answered
  <2> QED
    BY <2>4, <2>6, <2>7 DEF AnswerInv
<1>4. CASE A!Command
  <2>1. PICK y : y = [x EXCEPT !.pc = "replying"]
    OBVIOUS
  <2>2. RoundLike(y) /\ y.pc = "replying" /\ y.agent = x.agent
    BY <1>2, <2>1 DEF RoundLike
  <2>3. /\ round' = [round EXCEPT !["run"] = y] /\ x.pc = "taken"
        /\ UNCHANGED <<config, tool, latest, disturbed>>
    BY <1>1, <1>2, <1>4, <1>r, <2>1 DEF A!Command
  <2>4. RoundBecomes("run", y)
    BY <1>2, <1>r, <2>3, RoundSet
  <2>5. y.agent \notin A!Agents
    BY <1>1, <1>2, <2>2, <2>3, NobodyUnnamed DEF AnswerInv, NoAgentYet
  <2> QED
    BY <1>r, <2>2, <2>3, <2>4, <2>5, StepOf
<1>5. CASE A!Start
  <2>1. PICK a : a = A!RoutedTo(config, Input[x.msg])
    OBVIOUS
  <2>2. UNCHANGED <<config, latest>> /\ A!Begin("run", a, x.msg)
    BY <1>1, <1>5, <2>1 DEF A!Start
  <2> QED
    BY <1>r, <2>2, BeginStep DEF A!Begin
<1>6. CASE A!Reply
  <2>1. PICK d \in A!DefaultAgents : A!Judged(d)
    BY <1>6 DEF A!Reply
  <2>2. PICK y : y = A!Idle
    OBVIOUS
  <2>3. RoundLike(y) /\ y.agent = "" /\ round' = [round EXCEPT !["run"] = y] /\ UNCHANGED <<config, tool>>
    BY <1>6, <2>2 DEF A!Reply, A!Idle, RoundLike
  <2>4. RoundBecomes("run", y)
    BY <1>2, <1>r, <2>3, RoundSet
  <2>5. Shapes' /\ A!Agents' = A!Agents
    BY <1>2, <1>r, <2>3, <2>4, ShapesNext DEF A!Agents
  <2>6. round'["run"].agent = "" /\ "" \notin A!Agents
    BY <1>2, <2>3, <2>4, NobodyUnnamed DEF RoundBecomes
  <2>7. NoAgentYet' /\ Undisturbed'
    BY <2>5, <2>6 DEF NoAgentYet, Undisturbed
  <2>8. Answered'
    <3>1. latest' = [reply |-> ~tool[d].sent, told |-> x.told, last |-> x.last,
                     sound |-> ~disturbed /\ A!DefaultAgents = {x.agent}]
      BY <1>1, <2>1 DEF A!Judged
    <3>2. SUFFICES ASSUME latest'.sound
                   PROVE  /\ latest'.reply <=> latest'.last \notin {"sent", "named"}
                          /\ latest'.last = "sent" => "here" \in latest'.told
      BY DEF Answered
    <3>3. ~disturbed /\ A!DefaultAgents = {x.agent}
      BY <3>1, <3>2
    <3>4. x.agent = d /\ x.agent \in A!Agents
      BY <2>1, <3>3 DEF A!DefaultAgents
    <3>5. Tells(x, tool[d]) /\ x.pc = "replying"
      BY <1>1, <1>6, <3>3, <3>4 DEF AnswerInv, Undisturbed, A!Reply
    <3>6. /\ tool[d].sent <=> x.last \in {"sent", "named"}
          /\ x.last = "sent" => "here" \in x.told
      BY <3>5 DEF Tells, Calling
    <3> QED
      BY <3>1, <3>6
  <2> QED
    BY <2>5, <2>7, <2>8 DEF AnswerInv
<1> QED
  BY <1>3, <1>4, <1>5, <1>6, <1>r, ToolsStep DEF A!Run

LEMMA AnswerStep == ASSUME A!ConstantsAssumption PROVE AnswerInv /\ [A!Next]_A!vars => AnswerInv'
<1> SUFFICES ASSUME AnswerInv, [A!Next]_A!vars PROVE AnswerInv'
  OBVIOUS
<1>1. CASE UNCHANGED <<config, round, tool, latest, disturbed>>
  BY <1>1 DEF AnswerInv, Shapes, NoAgentYet, Undisturbed, Tells, Calling, Answered, A!Agents
<1>2. ASSUME NEW m \in Messages, A!Arrive(m) PROVE AnswerInv'
  BY <1>1, <1>2 DEF A!Arrive
<1>3. CASE A!StartCron
  <2>1. PICK a : a = A!RoutedTo(config, Input[CronJob])
    OBVIOUS
  <2>2. UNCHANGED <<config, latest>> /\ A!Begin("cron", a, CronJob)
    BY <1>3, <2>1 DEF A!StartCron
  <2> QED
    BY <2>2, BeginStep, RoundNames DEF A!Begin
<1>4. CASE A!StartHeartbeat
  <2>1. UNCHANGED <<config, latest>>
    BY <1>4 DEF A!StartHeartbeat
  <2>2. PICK a \in A!DefaultAgents :
          /\ round' = [round EXCEPT !["heartbeat"] =
                          [A!Idle EXCEPT !.pc = "thinking", !.agent = a, !.chat = HeartbeatChat,
                                         !.key = <<"heartbeat">>]]
          /\ tool' = [tool EXCEPT ![a] = [chat |-> HeartbeatChat, sent |-> FALSE]]
          /\ A!Disturbs("heartbeat", a)
    BY <1>4 DEF A!StartHeartbeat
  <2>3. PICK y : y = [A!Idle EXCEPT !.pc = "thinking", !.agent = a, !.chat = HeartbeatChat,
                                    !.key = <<"heartbeat">>]
    OBVIOUS
  <2>4. PICK z : z = [chat |-> HeartbeatChat, sent |-> FALSE]
    OBVIOUS
  <2>5. RoundLike(y) /\ ToolLike(z)
    BY <2>3, <2>4 DEF A!Idle, RoundLike, ToolLike
  <2>6. RoundBecomes("heartbeat", y) /\ ToolBecomes(a, z)
    BY <2>2, <2>3, <2>4, RoundSet, ToolSet, RoundNames DEF AnswerInv
  <2> QED
    BY <2>1, <2>2, <2>5, <2>6, StepOf, RoundNames
<1>5. CASE A!Other("cron") \/ A!Other("heartbeat") \/ A!Other("spawn")
  BY <1>5, ToolsStep, RoundNames DEF A!Other
<1>6. CASE UNCHANGED A!vars
  BY <1>1, <1>6 DEF A!vars
<1> QED
  BY <1>2, <1>3, <1>4, <1>5, <1>6, RunStep DEF A!Next

LEMMA AnswerInit == A!Init => AnswerInv
<1> SUFFICES ASSUME A!Init PROVE AnswerInv
  OBVIOUS
<1>1. PICK y : y = A!Idle
  OBVIOUS
<1>2. RoundLike(y) /\ y.agent = "" /\ y.last = "none" /\ y.pc = "idle"
  BY <1>1 DEF A!Idle, RoundLike
<1>3. round = [r \in A!Rounds |-> y]
  BY <1>1 DEF A!Init
<1>4. PICK z : z = [chat |-> Nothing, sent |-> FALSE]
  OBVIOUS
<1>5. ToolLike(z) /\ z.sent = FALSE /\ tool = [a \in A!Agents |-> z]
  BY <1>4 DEF A!Init, ToolLike
<1>6. Shapes
  BY <1>2, <1>3, <1>5 DEF A!Init, Shapes
<1>7. round["run"] = y
  BY <1>3, RoundNames
<1>8. NoAgentYet /\ Undisturbed
  BY <1>2, <1>5, <1>7 DEF NoAgentYet, Undisturbed, Tells, Calling
<1> QED
  BY <1>6, <1>8 DEF AnswerInv, A!Init, Answered

\* Run publishes a response to a message for the default agent that nothing else disturbs
\* exactly if the last call of its message tool in this very round has not sent anything,
\* whatever the rounds before it did, however the agents, their configuration, the rounds
\* of cron and heartbeat and the spawns come about, and whoever it hands off to; and what
\* that call has sent went to the message's own chat, unless it named another.
THEOREM RepliesOnce ==
    ASSUME A!ConstantsAssumption
    PROVE  A!Spec => []Answered
<1>1. AnswerInv => Answered
  BY DEF AnswerInv
<1> QED
  BY <1>1, AnswerInit, AnswerStep, PTL DEF A!Spec

-----------------------------------------------------------------------------
(* Routing: which keys are the same.                                       *)

\* What keys are made of.
Alphabet(S, a, b) ==
    /\ a \in S /\ b \in S /\ "agent" \in S /\ "direct" \in S
    /\ \A z \in STRING : z \in S
    /\ \A id \in Seq(STRING) : id \in Seq(S)

LEMMA AlphabetIs ==
    ASSUME NEW a, NEW b
    PROVE  \E S : Alphabet(S, a, b)
<1> DEFINE S == STRING \cup {a, b, "agent", "direct"}
<1>1. \A z : z \in S <=> z \in STRING \/ z = a \/ z = b \/ z = "agent" \/ z = "direct"
  BY Zenon DEF S
<1> HIDE DEF S
<1>2. STRING \subseteq S
  BY <1>1, Zenon
<1>3. \A id \in Seq(STRING) : id \in Seq(S)
  BY <1>2, SeqMonotonic, Zenon
<1> QED
  BY <1>1, <1>3, Zenon DEF Alphabet

LEMMA Tuples ==
    ASSUME NEW S, NEW c \in S, NEW d \in S, NEW e \in S, NEW f \in S, NEW g \in S
    PROVE  /\ <<c, d, e>> \in Seq(S) /\ Len(<<c, d, e>>) = 3 /\ <<c, d, e>>[3] = e
           /\ <<c, d, e, f>> \in Seq(S) /\ Len(<<c, d, e, f>>) = 4
           /\ <<c, d, e, f>>[3] = e /\ <<c, d, e, f>>[4] = f
           /\ <<c, d, e, f, g>> \in Seq(S) /\ Len(<<c, d, e, f, g>>) = 5
           /\ <<c, d, e, f, g>>[4] = f
OBVIOUS

LEMMA LoweredNames ==
    ASSUME Named
    PROVE  /\ \A x \in STRING : Lowered(x) \in STRING
           /\ \A id \in Seq(STRING) : LoweredId(id) \in Seq(STRING) /\ Len(LoweredId(id)) = Len(id)
<1>1. \A x \in STRING : Lowered(x) \in STRING
  BY DEF Named, Lowered
<1>2. ASSUME NEW id \in Seq(STRING)
      PROVE  LoweredId(id) \in Seq(STRING) /\ Len(LoweredId(id)) = Len(id)
  <2>1. Len(id) \in Nat /\ DOMAIN id = 1..Len(id) /\ \A i \in 1..Len(id) : Lowered(id[i]) \in STRING
    BY <1>1, LenProperties, ElementOfSeq
  <2> QED
    BY <2>1, IsASeq DEF LoweredId
<1> QED
  BY <1>1, <1>2

\* The id in the key of a direct message.
Who(m, id) ==
    LET names == LinkedTo(config, m.channel, m.peer.id)
    IN  IF names = {} THEN id = LoweredId(m.peer.id) ELSE \E n \in names : id = <<Lowered(n)>>

\* The keys of a message x for agent a and of y for b are the same just when they should.
ToldApart(x, y, a, b, kx, ky) == kx = ky <=> a = b /\ SameTalk(Input[x], Input[y])

LEMMA DirectKeys ==
    ASSUME Named, NEW x \in Talks, Input[x].peer.kind = "direct", config.scope # "main",
           DOMAIN config.links \subseteq STRING, NEW a, NEW key \in SessionKeys(config, a, Input[x])
    PROVE  \E id \in Seq(STRING) \ {<<>>} : Who(Input[x], id) /\ key = DirectKey(config, a, Input[x], id)
<1> DEFINE names == LinkedTo(config, Input[x].channel, Input[x].peer.id)
           own   == LoweredId(Input[x].peer.id)
<1>1. Input[x].peer # NoPeer /\ Input[x].peer.id \in Seq(STRING) \ {<<>>}
  BY DEF Named
<1>2. PICK id \in IF names = {} THEN {own} ELSE {<<Lowered(n)>> : n \in names} :
         key = DirectKey(config, a, Input[x], id)
  BY <1>1 DEF SessionKeys
<1>3. Who(Input[x], id)
  BY <1>2 DEF Who
<1>4. own \in Seq(STRING) \ {<<>>}
  BY <1>1, LoweredNames
<1>5. \A n \in names : <<Lowered(n)>> \in Seq(STRING) \ {<<>>}
  <2>1. \A n \in names : Lowered(n) \in STRING
    BY LoweredNames DEF LinkedTo
  <2> QED
    BY <2>1
<1> QED
  BY <1>2, <1>3, <1>4, <1>5

LEMMA PersonsApart ==
    ASSUME Unambiguous(config), config.scope # "main",
           NEW x \in Talks, NEW y \in Talks, Input[x].peer.kind = "direct", Input[y].peer.kind = "direct",
           NEW i, NEW j, Who(Input[x], i), Who(Input[y], j)
    PROVE  SamePerson(Input[x], Input[y]) <=> i = j
<1> DEFINE names(m) == LinkedTo(config, Input[m].channel, Input[m].peer.id)
<1>1. /\ \A n1, n2 \in DOMAIN config.links : Lowered(n1) = Lowered(n2) => n1 = n2
      /\ \A m \in {x, y} : /\ \A n1, n2 \in names(m) : n1 = n2
                           /\ names(m) = {} =>
                                 \A n \in DOMAIN config.links : LoweredId(Input[m].peer.id) # <<Lowered(n)>>
  BY DEF Unambiguous
<1>2. \A m \in {x, y} : names(m) \subseteq DOMAIN config.links
  BY DEF LinkedTo
<1>3. SamePerson(Input[x], Input[y]) <=>
         \/ names(x) \cap names(y) # {}
         \/ names(x) = {} /\ names(y) = {} /\ LoweredId(Input[x].peer.id) = LoweredId(Input[y].peer.id)
  BY DEF SamePerson
<1>4. /\ names(x) = {} => i = LoweredId(Input[x].peer.id)
      /\ names(x) # {} => \E n \in names(x) : i = <<Lowered(n)>>
      /\ names(y) = {} => j = LoweredId(Input[y].peer.id)
      /\ names(y) # {} => \E n \in names(y) : j = <<Lowered(n)>>
  BY DEF Who
<1> HIDE DEF names
<1>5. CASE names(x) = {} \/ names(y) = {}
  BY <1>1, <1>2, <1>3, <1>4, <1>5
<1>6. CASE names(x) # {} /\ names(y) # {}
  <2>1. PICK n1 \in names(x) : i = <<Lowered(n1)>>
    BY <1>4, <1>6
  <2>2. PICK n2 \in names(y) : j = <<Lowered(n2)>>
    BY <1>4, <1>6
  <2>3. i = j <=> Lowered(n1) = Lowered(n2)
    BY <2>1, <2>2
  <2>4. i = j <=> n1 = n2
    BY <1>1, <1>2, <2>1, <2>2, <2>3
  <2> QED
    BY <1>1, <1>3, <1>6, <2>1, <2>2, <2>4
<1> QED
  BY <1>5, <1>6

\* The keys of a direct message, ...
LEMMA DirectKeysApart ==
    ASSUME Named, Unambiguous(config), NEW x \in Talks, NEW y \in Talks,
           Input[x].peer.kind = "direct", Input[y].peer.kind = "direct", NEW a, NEW b,
           NEW kx \in SessionKeys(config, a, Input[x]), NEW ky \in SessionKeys(config, b, Input[y])
    PROVE  ToldApart(x, y, a, b, kx, ky)
<1>0. \A m \in Talks : /\ Input[m].peer # NoPeer /\ Input[m].channel \in STRING
                       /\ Input[m].account \in STRING /\ Input[m].peer.id # <<>>
  BY DEF Named
<1>1. CASE config.scope = "main"
  <2>1. kx = MainKey(a) /\ ky = MainKey(b)
    BY <1>0, <1>1 DEF SessionKeys, DirectKey
  <2>2. SameTalk(Input[x], Input[y])
    BY <1>1 DEF SameTalk
  <2> QED
    BY <2>1, <2>2 DEF MainKey, ToldApart
<1>2. CASE config.scope # "main"
  <2>S. PICK S : Alphabet(S, a, b)
    BY AlphabetIs
  <2>s. /\ "agent" \in S /\ "direct" \in S /\ a \in S /\ b \in S
        /\ \A m \in {x, y} : Input[m].channel \in S /\ Input[m].account \in S
    BY <1>0, <2>S, Zenon DEF Alphabet
  <2>1. DOMAIN config.links \subseteq STRING
    BY <1>2 DEF Unambiguous
  <2>2. PICK i \in Seq(STRING) \ {<<>>} : Who(Input[x], i) /\ kx = DirectKey(config, a, Input[x], i)
    BY <1>2, <2>1, DirectKeys
  <2>3. PICK j \in Seq(STRING) \ {<<>>} : Who(Input[y], j) /\ ky = DirectKey(config, b, Input[y], j)
    BY <1>2, <2>1, DirectKeys
  <2>4. SamePerson(Input[x], Input[y]) <=> i = j
    BY <1>2, <2>2, <2>3, PersonsApart
  <2>5. i \in Seq(S) /\ j \in Seq(S)
    BY <2>S, Zenon DEF Alphabet
  <2>p. ASSUME NEW p \in Seq(S), NEW q \in Seq(S), Len(p) = Len(q), kx = p \o i, ky = q \o j
        PROVE  kx = ky <=> p = q /\ i = j
    <3>1. kx = ky => p = q /\ i = j
      BY <2>5, <2>p, Prefixed
    <3> QED
      BY <2>p, <3>1
  <2>6. CASE config.scope = "per-peer"
    <3>1. kx = <<"agent", a, "direct">> \o i /\ ky = <<"agent", b, "direct">> \o j
      BY <2>2, <2>3, <2>6 DEF DirectKey
    <3>2. /\ <<"agent", a, "direct">> \in Seq(S) /\ <<"agent", b, "direct">> \in Seq(S)
          /\ Len(<<"agent", a, "direct">>) = Len(<<"agent", b, "direct">>)
      BY <2>s, Tuples
    <3>3. kx = ky <=> <<"agent", a, "direct">> = <<"agent", b, "direct">> /\ i = j
      BY <2>p, <3>1, <3>2
    <3>4. SameTalk(Input[x], Input[y]) <=> SamePerson(Input[x], Input[y])
      BY <2>6 DEF SameTalk
    <3> QED
      BY <2>4, <3>3, <3>4 DEF ToldApart
  <2>7. CASE config.scope = "per-channel-peer"
    <3> DEFINE p == <<"agent", a, Input[x].channel, "direct">>
               q == <<"agent", b, Input[y].channel, "direct">>
    <3>1. kx = p \o i /\ ky = q \o j
      BY <2>2, <2>3, <2>7 DEF DirectKey
    <3>2. p \in Seq(S) /\ q \in Seq(S) /\ Len(p) = Len(q)
      BY <2>s, Tuples
    <3>3. kx = ky <=> p = q /\ i = j
      BY <2>p, <3>1, <3>2
    <3>4. SameTalk(Input[x], Input[y]) <=>
              SamePerson(Input[x], Input[y]) /\ Input[x].channel = Input[y].channel
      BY <2>7 DEF SameTalk
    <3> QED
      BY <2>4, <3>3, <3>4 DEF ToldApart
  <2>8. CASE config.scope = "per-account-channel-peer"
    <3> DEFINE p == <<"agent", a, Input[x].channel, Input[x].account, "direct">>
               q == <<"agent", b, Input[y].channel, Input[y].account, "direct">>
    <3>1. kx = p \o i /\ ky = q \o j
      BY <2>2, <2>3, <2>8 DEF DirectKey
    <3>2. p \in Seq(S) /\ q \in Seq(S) /\ Len(p) = Len(q)
      BY <2>s, Tuples
    <3>3. kx = ky <=> p = q /\ i = j
      BY <2>p, <3>1, <3>2
    <3>4. SameTalk(Input[x], Input[y]) <=>
              /\ SamePerson(Input[x], Input[y]) /\ Input[x].channel = Input[y].channel
              /\ Input[x].account = Input[y].account
      BY <2>8 DEF SameTalk
    <3> QED
      BY <2>4, <3>3, <3>4 DEF ToldApart
  <2> QED
    BY <1>2, <2>6, <2>7, <2>8 DEF Unambiguous
<1> QED
  BY <1>1, <1>2

LEMMA GroupKey ==
    ASSUME Named, NEW x \in Talks, Input[x].peer.kind # "direct", NEW a, NEW key \in SessionKeys(config, a, Input[x])
    PROVE  /\ LoweredId(Input[x].peer.id) \in Seq(STRING) \ {<<>>}
           /\ key = <<"agent", a, Input[x].channel, Input[x].peer.kind>> \o LoweredId(Input[x].peer.id)
<1>1. Input[x].peer # NoPeer /\ Input[x].peer.id \in Seq(STRING) \ {<<>>}
  BY DEF Named
<1>2. LoweredId(Input[x].peer.id) \in Seq(STRING) \ {<<>>}
  BY <1>1, LoweredNames
<1> QED
  BY <1>1, <1>2 DEF SessionKeys

\* ... of a message to a group, ...
LEMMA GroupKeysApart ==
    ASSUME Named, NEW x \in Talks, NEW y \in Talks,
           Input[x].peer.kind # "direct", Input[y].peer.kind # "direct", NEW a, NEW b,
           NEW kx \in SessionKeys(config, a, Input[x]), NEW ky \in SessionKeys(config, b, Input[y])
    PROVE  ToldApart(x, y, a, b, kx, ky)
<1>S. PICK S : Alphabet(S, a, b)
  BY AlphabetIs
<1> DEFINE p == <<"agent", a, Input[x].channel, Input[x].peer.kind>>
           q == <<"agent", b, Input[y].channel, Input[y].peer.kind>>
           i == LoweredId(Input[x].peer.id)
           j == LoweredId(Input[y].peer.id)
<1>1. kx = p \o i /\ ky = q \o j /\ i \in Seq(STRING) /\ j \in Seq(STRING)
  BY GroupKey
<1>2. SameTalk(Input[x], Input[y]) <=>
          Input[x].peer.kind = Input[y].peer.kind /\ Input[x].channel = Input[y].channel /\ i = j
  BY DEF SameTalk
<1>3. p \in Seq(S) /\ q \in Seq(S) /\ Len(p) = Len(q)
  <2>0. \A m \in {x, y} : Input[m].channel \in STRING /\ Input[m].peer.kind \in STRING
    BY DEF Named
  <2>1. /\ "agent" \in S /\ a \in S /\ b \in S
        /\ \A m \in {x, y} : Input[m].channel \in S /\ Input[m].peer.kind \in S
    BY <1>S, <2>0, Zenon DEF Alphabet
  <2> QED
    BY <2>1, Tuples
<1> HIDE DEF i, j
<1>4. i \in Seq(S) /\ j \in Seq(S)
  BY <1>S, <1>1, Zenon DEF Alphabet
<1>5. kx = ky <=> p = q /\ i = j
  <2> HIDE DEF p, q
  <2>1. kx = ky => p = q /\ i = j
    BY <1>1, <1>3, <1>4, Prefixed
  <2> QED
    BY <1>1, <2>1
<1> QED
  BY <1>2, <1>5 DEF ToldApart

\* ... and of one of each.
LEMMA OneOfEach ==
    ASSUME Named, Unambiguous(config), NEW x \in Talks, NEW y \in Talks,
           Input[x].peer.kind = "direct", Input[y].peer.kind # "direct", NEW a, NEW b,
           NEW kx \in SessionKeys(config, a, Input[x]), NEW ky \in SessionKeys(config, b, Input[y])
    PROVE  kx # ky
<1>S. PICK S : Alphabet(S, a, b)
  BY AlphabetIs
<1> DEFINE q == <<"agent", b, Input[y].channel, Input[y].peer.kind>>
           j == LoweredId(Input[y].peer.id)
<1>0. /\ Input[x].peer # NoPeer /\ Input[x].peer.id # <<>>
      /\ {Input[x].channel, Input[x].account, Input[y].channel, Input[y].peer.kind} \subseteq STRING
      /\ Input[y].channel # "direct" /\ Input[x].account # Input[y].peer.kind
  BY DEF Named
<1>1. ky = q \o j /\ j \in Seq(STRING) \ {<<>>}
  BY GroupKey
<1>s. /\ "agent" \in S /\ "direct" \in S /\ a \in S /\ b \in S /\ Input[x].channel \in S
      /\ Input[x].account \in S /\ Input[y].channel \in S /\ Input[y].peer.kind \in S
  <2>1. /\ Input[x].channel \in STRING /\ Input[x].account \in STRING
        /\ Input[y].channel \in STRING /\ Input[y].peer.kind \in STRING
    BY <1>0
  <2> QED
    BY <1>S, <2>1, Zenon DEF Alphabet
<1>2. q \in Seq(S) /\ Len(q) = 4 /\ q[3] = Input[y].channel /\ q[4] = Input[y].peer.kind
  BY <1>s, Tuples
<1>3. j \in Seq(S) /\ Len(j) \in Nat \ {0}
  <2>1. j \in Seq(S) /\ j # <<>>
    BY <1>S, <1>1, Zenon DEF Alphabet
  <2> QED
    BY <2>1, EmptySeq, LenProperties
<1>4. Len(ky) >= 5 /\ ky[3] = Input[y].channel /\ ky[4] = Input[y].peer.kind
  BY <1>1, <1>2, <1>3, ConcatProperties
<1> HIDE DEF q, j
<1>5. CASE config.scope = "main"
  <2>1. kx = <<"agent", a, "main">>
    BY <1>0, <1>5 DEF SessionKeys, DirectKey, MainKey
  <2>2. Len(kx) = 3
    BY <2>1
  <2> QED
    BY <1>4, <2>2
<1>6. CASE config.scope # "main"
  <2>1. DOMAIN config.links \subseteq STRING
    BY <1>6 DEF Unambiguous
  <2>2. PICK i \in Seq(STRING) \ {<<>>} : kx = DirectKey(config, a, Input[x], i)
    BY <1>6, <2>1, DirectKeys
  <2>3. ASSUME NEW p \in Seq(S), NEW n \in 1..Len(p), kx = p \o i
        PROVE  kx[n] = p[n]
    <3>1. i \in Seq(S)
      BY <1>S, Zenon DEF Alphabet
    <3>2. Len(p) \in Nat /\ Len(i) \in Nat
      BY <3>1, LenProperties
    <3> QED
      BY <2>3, <3>1, <3>2, ConcatProperties
  <2>4. CASE config.scope = "per-peer"
    <3> DEFINE p == <<"agent", a, "direct">>
    <3>1. kx = p \o i
      BY <2>2, <2>4 DEF DirectKey
    <3>2. p \in Seq(S) /\ Len(p) = 3 /\ p[3] = "direct"
      BY <1>s, Tuples
    <3>3. kx[3] = "direct"
      BY <2>3, <3>1, <3>2
    <3> QED
      BY <1>0, <1>4, <3>3
  <2>5. CASE config.scope = "per-channel-peer"
    <3> DEFINE p == <<"agent", a, Input[x].channel, "direct">>
    <3>1. kx = p \o i
      BY <2>2, <2>5 DEF DirectKey
    <3>2. p \in Seq(S) /\ Len(p) = 4 /\ p[4] = "direct"
      BY <1>s, Tuples
    <3>3. kx[4] = "direct"
      BY <2>3, <3>1, <3>2
    <3> QED
      BY <1>4, <3>3
  <2>6. CASE config.scope = "per-account-channel-peer"
    <3> DEFINE p == <<"agent", a, Input[x].channel, Input[x].account, "direct">>
    <3>1. kx = p \o i
      BY <2>2, <2>6 DEF DirectKey
    <3>2. p \in Seq(S) /\ Len(p) = 5 /\ p[4] = Input[x].account
      BY <1>s, Tuples
    <3>3. kx[4] = Input[x].account
      BY <2>3, <3>1, <3>2
    <3> QED
      BY <1>0, <1>4, <3>3
  <2> QED
    BY <1>6, <2>4, <2>5, <2>6 DEF Unambiguous
<1> QED
  BY <1>5, <1>6

LEMMA KeysApart ==
    ASSUME Named, Unambiguous(config), NEW x \in Talks, NEW y \in Talks, NEW a, NEW b,
           NEW kx \in SessionKeys(config, a, Input[x]), NEW ky \in SessionKeys(config, b, Input[y])
    PROVE  ToldApart(x, y, a, b, kx, ky)
<1>1. ASSUME Input[x].peer.kind = "direct", Input[y].peer.kind # "direct"
      PROVE  ~SameTalk(Input[x], Input[y]) /\ kx # ky
  <2>1. ~SameTalk(Input[x], Input[y])
    BY <1>1, Zenon DEF SameTalk
  <2>2. kx # ky
    BY <1>1, OneOfEach, Zenon
  <2> QED
    BY <2>1, <2>2
<1>2. ASSUME Input[x].peer.kind # "direct", Input[y].peer.kind = "direct"
      PROVE  ~SameTalk(Input[x], Input[y]) /\ kx # ky
  <2>1. ~SameTalk(Input[x], Input[y])
    BY <1>2, Zenon DEF SameTalk
  <2>2. ky # kx
    BY <1>2, OneOfEach, Zenon
  <2> QED
    BY <2>1, <2>2
<1>3. ASSUME Input[x].peer.kind = "direct", Input[y].peer.kind = "direct"
      PROVE  ToldApart(x, y, a, b, kx, ky)
  BY <1>3, DirectKeysApart, Zenon
<1>4. ASSUME Input[x].peer.kind # "direct", Input[y].peer.kind # "direct"
      PROVE  ToldApart(x, y, a, b, kx, ky)
  BY <1>4, GroupKeysApart, Zenon
<1> QED
  BY <1>1, <1>2, <1>3, <1>4, Zenon DEF ToldApart

-----------------------------------------------------------------------------
(* AgentLoop: the sessions of Run.                                         *)

LEMMA SameKeys ==
    ASSUME NEW c, NEW a, NEW m
    PROVE  A!SessionKeys(c, a, m) = SessionKeys(c, a, m)
BY DEF A!SessionKeys, SessionKeys, A!LinkedTo, LinkedTo, A!LoweredId, LoweredId, A!Lowered, Lowered,
       A!DirectKey, DirectKey, A!MainKey, MainKey

\* The key of m for an agent is one that it may have.
KeyIs(agent, m, key) == m \in Talks => key \in SessionKeys(config, agent, Input[m])

Sessions ==
    /\ round["run"].pc \notin {"idle", "taken"} =>
          KeyIs(round["run"].agent, round["run"].msg, round["run"].key)
    /\ \A m \in Done : KeyIs(done[m].agent, m, done[m].key)

\* A call of a tool and the end of a round leave the session of Run's round alone.
LEMMA ToolsKeep ==
    ASSUME Shapes, NEW r \in A!Rounds, A!Tools(r) \/ A!Answer(r)
    PROVE  /\ UNCHANGED <<config, done>>
           /\ \/ round'["run"] = round["run"]
              \/ /\ round["run"].pc \notin {"idle", "taken"}
                 /\ round'["run"].agent = round["run"].agent /\ round'["run"].msg = round["run"].msg
                 /\ round'["run"].key = round["run"].key
<1>1. UNCHANGED <<config, done>>
  BY DEF A!Tools, A!CallMessage, A!Deliver, A!DeliverFails, A!Send, A!Sent, A!StartSpawn, A!Answer
<1>2. PICK x : x = round[r]
  OBVIOUS
<1>3. RoundLike(x) /\ round = [q \in A!Rounds |-> round[q]] /\ "run" \in A!Rounds
  BY <1>2, RoundNames DEF Shapes
<1>4. x.pc \notin {"idle", "taken"}
  BY <1>2 DEF A!Tools, A!CallMessage, A!Deliver, A!DeliverFails, A!Send, A!Sent, A!StartSpawn, A!Answer
<1>5. CASE r # "run"
  BY <1>1, <1>3, <1>5 DEF A!Tools, A!CallMessage, A!Deliver, A!DeliverFails, A!Ends, A!Send, A!Sent,
                          A!StartSpawn, A!Answer
<1>6. CASE r = "run"
  <2>1. ASSUME \/ A!CallMessage(r) \/ A!Deliver(r) \/ A!DeliverFails(r)
               \/ A!Send(r) \/ A!Sent(r) \/ A!StartSpawn(r) \/ A!Answer(r)
        PROVE  /\ round'[r].agent = x.agent /\ round'[r].msg = x.msg /\ round'[r].key = x.key
    <3>1. CASE A!CallMessage(r)
      BY <1>2, <1>3, <3>1 DEF A!CallMessage, RoundLike
    <3>2. CASE A!Send(r)
      BY <1>2, <1>3, <3>2 DEF A!Send, RoundLike
    <3>3. CASE A!Sent(r)
      BY <1>2, <1>3, <3>3 DEF A!Sent, RoundLike
    <3>4. CASE A!Answer(r)
      BY <1>2, <1>3, <1>6, <3>4 DEF A!Answer, RoundLike
    <3>5. CASE A!Deliver(r)
      <4>1. PICK outcome, chats : A!Ends(r, outcome, chats)
        BY <3>5 DEF A!Deliver
      <4> QED
        BY <1>2, <1>3, <4>1 DEF A!Ends, RoundLike
    <3>6. CASE A!DeliverFails(r)
      BY <1>2, <1>3, <3>6 DEF A!DeliverFails, A!Ends, RoundLike
    <3>7. CASE A!StartSpawn(r)
      BY <1>2, <1>3, <1>6, <3>7 DEF A!StartSpawn, RoundLike
    <3> QED
      BY <2>1, <3>1, <3>2, <3>3, <3>4, <3>5, <3>6, <3>7
  <2> QED
    BY <1>1, <1>2, <1>4, <1>6, <2>1 DEF A!Tools
<1> QED
  BY <1>5, <1>6

LEMMA SessionsStep == ASSUME A!ConstantsAssumption PROVE AnswerInv /\ Sessions /\ [A!Next]_A!vars => Sessions'
<1> SUFFICES ASSUME AnswerInv, Sessions, [A!Next]_A!vars PROVE Sessions'
  OBVIOUS
<1>r. /\ Shapes /\ round = [q \in A!Rounds |-> round[q]]
      /\ {"run", "cron", "heartbeat", "spawn"} \subseteq A!Rounds
  BY RoundNames DEF AnswerInv, Shapes
<1>1. CASE UNCHANGED <<config, done>> /\ round'["run"] = round["run"]
  BY <1>1 DEF Sessions, KeyIs, Done
<1>2. ASSUME NEW r \in A!Rounds, A!Tools(r) \/ A!Answer(r) PROVE Sessions'
  BY <1>1, <1>2, <1>r, ToolsKeep DEF Sessions, KeyIs, Done
<1>3. CASE A!Take \/ A!Command
  <2>1. UNCHANGED <<config, done>>
    BY <1>3 DEF A!Take, A!Command
  <2>2. PICK x : x = round["run"]
    OBVIOUS
  <2>3. RoundLike(x)
    BY <1>r, <2>2 DEF Shapes
  <2>4. round'["run"].pc \notin {"idle", "taken"} => round'["run"].msg \notin Talks
    <3>1. CASE A!Take
      BY <1>r, <3>1 DEF A!Take, A!Idle
    <3>2. CASE A!Command
      <4>1. round'["run"].msg = x.msg /\ Input[x.msg].command
        BY <1>r, <2>2, <2>3, <3>2 DEF A!Command, RoundLike
      <4> QED
        BY <4>1 DEF Talks
    <3> QED
      BY <1>3, <3>1, <3>2
  <2> QED
    BY <2>1, <2>4 DEF Sessions, KeyIs, Done
<1>4. CASE A!Start
  <2>1. PICK a, m : a = A!RoutedTo(config, Input[round["run"].msg]) /\ m = round["run"].msg
    OBVIOUS
  <2>2. UNCHANGED <<config, done>> /\ A!Begin("run", a, m)
    BY <1>4, <2>1 DEF A!Start
  <2>3. PICK key \in SessionKeys(config, a, Input[m]) :
           round' = [round EXCEPT !["run"] = [A!Idle EXCEPT !.pc = "thinking", !.msg = m, !.agent = a,
                                                            !.chat = Input[m].chat, !.key = key]]
    BY <2>2, SameKeys DEF A!Begin
  <2>4. round'["run"].msg = m /\ round'["run"].agent = a /\ round'["run"].key = key
    BY <1>r, <2>3 DEF A!Idle
  <2> QED
    BY <2>2, <2>4 DEF Sessions, KeyIs, Done
<1>5. CASE A!StartCron \/ A!StartHeartbeat
  BY <1>1, <1>5, <1>r DEF A!StartCron, A!StartHeartbeat, A!Begin
<1>6. CASE A!Reply
  <2>1. PICK x : x = round["run"]
    OBVIOUS
  <2>2. /\ config' = config /\ x.pc = "replying" /\ round' = [round EXCEPT !["run"] = A!Idle]
        /\ done' = [m \in Done \cup {x.msg} |-> IF m = x.msg THEN [agent |-> x.agent, key |-> x.key]
                                                ELSE done[m]]
    BY <1>6, <2>1 DEF A!Reply, A!Judged, A!Done, Done
  <2>3. round'["run"].pc = "idle"
    BY <1>r, <2>2 DEF A!Idle
  <2>4. KeyIs(x.agent, x.msg, x.key)
    BY <2>1, <2>2 DEF Sessions
  <2>5. ASSUME NEW m \in DOMAIN done'
        PROVE  KeyIs(done[m].agent, m, done[m].key)'
    <3>1. CASE m = x.msg
      <4>1. done'[m].agent = x.agent /\ done'[m].key = x.key
        BY <2>2, <3>1
      <4> QED
        BY <2>2, <2>4, <3>1, <4>1 DEF KeyIs
    <3>2. CASE m # x.msg
      <4>1. m \in Done /\ done'[m] = done[m]
        BY <2>2, <2>5, <3>2
      <4> QED
        BY <2>2, <4>1 DEF Sessions, KeyIs
    <3> QED
      BY <3>1, <3>2
  <2> QED
    BY <2>3, <2>5 DEF Sessions, Done
<1>7. ASSUME NEW m \in Messages, A!Arrive(m) PROVE Sessions'
  BY <1>1, <1>7 DEF A!Arrive
<1>8. CASE UNCHANGED A!vars
  BY <1>1, <1>8 DEF A!vars
<1> QED
  BY <1>2, <1>3, <1>4, <1>5, <1>6, <1>7, <1>8, <1>r DEF A!Next, A!Run, A!Other

LEMMA SessionsInit == A!Init => Sessions
<1> SUFFICES ASSUME A!Init PROVE Sessions
  OBVIOUS
<1>1. round["run"].pc = "idle"
  BY RoundNames DEF A!Init, A!Idle
<1>2. Done = {}
  BY DEF A!Init, Done
<1> QED
  BY <1>1, <1>2 DEF Sessions

\* Two messages are processed in one session exactly if they are for one agent and of one
\* talk, whatever is bound, linked and scoped, as long as the links say who is who and
\* the channels name the peer of each message.
THEOREM SessionsKeptApart ==
    ASSUME A!ConstantsAssumption, Named, \A c \in Configs : Unambiguous(c)
    PROVE  A!Spec => []SessionsApart
<1>1. AnswerInv /\ Sessions => SessionsApart
  <2> SUFFICES ASSUME AnswerInv, Sessions, NEW x \in Done \cap Talks, NEW y \in Done \cap Talks
               PROVE  ToldApart(x, y, done[x].agent, done[y].agent, done[x].key, done[y].key)
    BY DEF SessionsApart, ToldApart
  <2>1. Unambiguous(config)
    BY DEF AnswerInv, Shapes
  <2>2. /\ done[x].key \in SessionKeys(config, done[x].agent, Input[x])
        /\ done[y].key \in SessionKeys(config, done[y].agent, Input[y])
    BY DEF Sessions, KeyIs
  <2> QED
    BY <2>1, <2>2, KeysApart, Zenon
<1>2. AnswerInv /\ Sessions /\ [A!Next]_A!vars => Sessions'
  BY SessionsStep
<1>3. AnswerInv /\ [A!Next]_A!vars => AnswerInv'
  BY AnswerStep
<1> QED
  BY <1>1, <1>2, <1>3, AnswerInit, SessionsInit, PTL DEF A!Spec
=============================================================================
