--------------------------- MODULE WindowLimiters ---------------------------
(***************************************************************************)
(* The two window limiters of backend/common/ratelimit on one key each:    *)
(* FixedWindowLimiter (one request per window; registration, resend,       *)
(* password reset, invitation) and CountingWindowLimiter (Limit requests   *)
(* per window; e-mail verification), whose Lua scripts are atomic in       *)
(* Redis, and the Retry-After header that the HTTP handlers make of the    *)
(* remaining TTL.  Lockout models the third limiter.                       *)
(*                                                                         *)
(* FailModeLimiter around both admits a request when Redis gives no        *)
(* answer: the key is then untouched, or the script ran and the admission  *)
(* is recorded like any other; so only recorded admissions count here.     *)
(***************************************************************************)
EXTENDS Naturals, FiniteSets

CONSTANTS
    Window,     \* the length of a window, in ticks (both limiters)
    Limit,      \* admissions per counting window
    Second      \* ticks of a second, the unit of Retry-After

ASSUME WindowAssumption == Window \in Nat \ {0}

ASSUME LimitAssumption == Limit \in Nat \ {0}

ASSUME SecondAssumption == Second \in Nat \ {0}

VARIABLES
    fixed,      \* TTL of the fixed-window key; 0 if it does not exist
    counter,    \* value and TTL of the counting-window key
    told,       \* of each limiter: the Retry-After answers of this window, as
                \* the ticks that their clients have left to wait
    lastFixed,  \* history: ticks since the last fixed-window admission
    recent,     \* history: the counting admissions younger than Window; of each,
                \* which of its window it was and its age
    stripped    \* limiters whose key an operator made persistent (bound: once)

vars == <<fixed, counter, told, lastFixed, recent, stripped>>

-----------------------------------------------------------------------------
Limiters == {"fixed", "counting"}

\* The TTL of a key without one; PTTL then returns -1.
Forever == Window + 1

TTLs == 0..Forever

TTL(l) == IF l = "fixed" THEN fixed ELSE counter.ttl

\* The handlers round the remaining TTL up to whole seconds.
RetryAfter(ttl) == ((ttl + Second - 1) \div Second) * Second

Answer(l, ttl) == told' = [told EXCEPT ![l] = @ \cup {RetryAfter(ttl)}]

-----------------------------------------------------------------------------
\* SET NX PX finds no key.
FixedAdmit_InSeconds ==
    /\ fixed = 0
    /\ fixed' = Window \div Second
    /\ lastFixed' = 0
    /\ UNCHANGED <<counter, told, recent, stripped>>

FixedAdmit ==
    /\ fixed = 0
    /\ fixed' = Window
    /\ lastFixed' = 0
    /\ UNCHANGED <<counter, told, recent, stripped>>

\* SET NX PX finds the key and leaves it alone; without a TTL the answer is
\* 429 with a Retry-After of zero.
FixedRefuse ==
    /\ fixed # 0
    /\ Answer("fixed", IF fixed = Forever THEN 0 ELSE fixed)
    /\ UNCHANGED <<fixed, counter, lastFixed, recent, stripped>>

Healed_OnlyHeals(ttl) == IF ttl = Forever THEN Window ELSE ttl

Healed_Not(ttl) == IF ttl = 0 THEN Window ELSE ttl

\* PEXPIRE for the first request of a window and for a key without a TTL.
Healed(ttl) == IF ttl \in {0, Forever} THEN Window ELSE ttl

CountAdmit_OneMore ==
    /\ counter.value <= Limit
    /\ counter' = [value |-> counter.value + 1, ttl |-> Healed(counter.ttl)]
    /\ recent' = recent \cup {<<counter.value + 1, 0>>}
    /\ UNCHANGED <<fixed, told, lastFixed, stripped>>

\* Below the limit the script counts.
CountAdmit ==
    /\ counter.value < Limit
    /\ counter' = [value |-> counter.value + 1, ttl |-> Healed(counter.ttl)]
    /\ recent' = recent \cup {<<counter.value + 1, 0>>}
    /\ UNCHANGED <<fixed, told, lastFixed, stripped>>

CountRefuse_Extends ==
    /\ counter.value >= Limit
    /\ counter' = [counter EXCEPT !.ttl = Window]
    /\ Answer("counting", Healed(counter.ttl))
    /\ UNCHANGED <<fixed, lastFixed, recent, stripped>>

\* At the limit it leaves value and TTL alone, unless the TTL is missing.
CountRefuse ==
    /\ counter.value >= Limit
    /\ counter' = [counter EXCEPT !.ttl = Healed(@)]
    /\ Answer("counting", counter'.ttl)
    /\ UNCHANGED <<fixed, lastFixed, recent, stripped>>

CountAsk == CountAdmit \/ CountRefuse

-----------------------------------------------------------------------------
Later(ttl) == IF ttl \in 1..Window THEN ttl - 1 ELSE ttl

\* Redis removes a key whose TTL is over; a client whose window is over has
\* got what it was told.
Tick ==
    /\ fixed' = Later(fixed)
    /\ counter' = IF counter.ttl = 1 THEN [value |-> 0, ttl |-> 0]
                  ELSE [counter EXCEPT !.ttl = Later(@)]
    /\ told' = [l \in Limiters |->
                  IF TTL(l) = 1 THEN {} ELSE {IF w = 0 THEN 0 ELSE w - 1 : w \in told[l]}]
    /\ lastFixed' = IF lastFixed < Window THEN lastFixed + 1 ELSE Window
    /\ recent' = {<<a[1], a[2] + 1>> : a \in {b \in recent : b[2] + 1 < Window}}
    /\ UNCHANGED stripped

\* An operator makes a key persistent, the mistake that the comments of both
\* limiters speak of.
StripTTL(l) ==
    /\ l \notin stripped
    /\ TTL(l) \in 1..Window
    /\ stripped' = stripped \cup {l}
    /\ IF l = "fixed"
       THEN fixed' = Forever /\ UNCHANGED counter
       ELSE counter' = [counter EXCEPT !.ttl = Forever] /\ UNCHANGED fixed
    /\ UNCHANGED <<told, lastFixed, recent>>

Init ==
    /\ fixed = 0
    /\ counter = [value |-> 0, ttl |-> 0]
    /\ told = [l \in Limiters |-> {}]
    /\ lastFixed = Window
    /\ recent = {}
    /\ stripped = {}

Next ==
    \/ FixedAdmit
    \/ FixedRefuse
    \/ CountAsk
    \/ Tick
    \/ \E l \in Limiters : StripTTL(l)

Spec == Init /\ [][Next]_vars

\* Time passes, and the address of the counting key keeps asking: the limiter
\* heals a key when it is used, not by itself.
FairSpec == Spec /\ WF_vars(Tick) /\ WF_vars(CountAsk)

-----------------------------------------------------------------------------
\* Types of the keys, the answers and the histories; no two admissions are
\* the same one in recent.
TypeOK ==
    /\ fixed \in TTLs
    /\ counter \in [value : 0..Limit, ttl : TTLs]
    /\ counter.value = 0 <=> counter.ttl = 0
    /\ told \in [Limiters -> SUBSET (0..(Window + Second))]
    /\ lastFixed \in 0..Window
    /\ recent \subseteq (1..Limit) \X (0..(Window - 1))
    /\ <<counter.value + 1, 0>> \notin recent
    /\ stripped \subseteq Limiters

\* VAR-12, 13, 14, 16: "once in five minutes".  Two admissions that the fixed
\* window decided are a whole window apart, whatever was refused in between
\* and whatever happened to the TTL.
AdmissionsApart == [][FixedAdmit => lastFixed = Window]_vars

\* VAR-17: "ten a minute" holds of each window, not of each minute.  Over any
\* span of a window's length the counting limiter admits fewer than twice the
\* limit: what is left of one window and all of the next.
BurstBounded == Cardinality(recent) < 2 * Limit

\* VAR-16, VAR-17: the Retry-After of a refusal is honest to the second.  Until
\* the window is over, a client has at least as long to wait as the window
\* lasts, and less than a second more; later refusals do not move its end.
RetryAfterHonest ==
    \A l \in Limiters \ stripped : \A w \in told[l] : TTL(l) <= w /\ w < TTL(l) + Second

\* A counting key that lost its TTL does not refuse for ever.
CountingHeals == counter.ttl = Forever ~> counter.value = 0
=============================================================================
