------------------------------ MODULE Lockout ------------------------------
(***************************************************************************)
(* The login lockout: the two Redis keys that LockoutLimiter               *)
(* (backend/common/ratelimit/lockout.go) keeps for one e-mail address, and *)
(* the calls that concurrent Login requests make on them                   *)
(* (backend/auth/app/command/login.go).  The keys of different addresses   *)
(* never meet, so one address is enough.                                   *)
(*                                                                         *)
(* A login looks at the lock before it verifies the password and records   *)
(* the outcome afterwards; what other requests do to the keys in between   *)
(* it does not see.  Redis runs each command and each Lua script           *)
(* atomically.  Time passes in ticks; a PTTL is a number of ticks, with    *)
(* NoKey for -2 and NoTTL for -1.                                          *)
(***************************************************************************)
EXTENDS Integers, FiniteSets

CONSTANTS
    Requests,       \* login requests for the address (bound: at once)
    Threshold,      \* failures that lock (10 in domain/login.go)
    Window,         \* life of the count key, in ticks (15 minutes)
    LockTTL,        \* life of the lock key, in ticks (15 minutes)
    MaxMistakes,    \* bound: how often an operator strips a key of its TTL
    MaxCount        \* bound: failures counted after such a mistake

\* A server runs finitely many requests at once.
ASSUME RequestsAssumption == IsFiniteSet(Requests)

\* domain/login.go gives the window and the lock the same length.
ASSUME LockoutAssumption ==
    /\ Threshold \in Nat \ {0}
    /\ Window \in Nat \ {0}
    /\ LockTTL \in Nat \ {0}
    /\ Window <= LockTTL
    /\ MaxMistakes \in Nat
    /\ MaxCount \in Nat

VARIABLES
    count,      \* value of the count key, 0 when it does not exist
    countPTTL,  \* its remaining life
    lockPTTL,   \* remaining life of the lock key
    healing,    \* requests that read a lock without a TTL and will give it one
    checked,    \* requests between Check and the recording of their outcome
    mistakes    \* keys stripped of their TTL so far

vars == <<count, countPTTL, lockPTTL, healing, checked, mistakes>>

NoKey == 0      \* as a remaining life: the key has expired
NoTTL == -1

Locked == lockPTTL # NoKey

Init ==
    /\ count = 0
    /\ countPTTL = NoKey
    /\ lockPTTL = NoKey
    /\ healing = {}
    /\ checked = {}
    /\ mistakes = 0

-----------------------------------------------------------------------------
Check_IgnoresLock(p) ==
    /\ p \notin checked
    /\ checked' = checked \cup {p}
    /\ UNCHANGED <<count, countPTTL, lockPTTL, healing, mistakes>>

Check_NoHeal(p) ==
    /\ p \notin checked
    /\ checked' = IF Locked THEN checked ELSE checked \cup {p}
    /\ UNCHANGED <<count, countPTTL, lockPTTL, healing, mistakes>>

\* Check reads the TTL of the lock: a locked address is rejected with 429, but
\* a lock without a TTL is given one first, by a second command.
Check(p) ==
    /\ p \notin checked \cup healing
    /\ healing' = IF lockPTTL = NoTTL THEN healing \cup {p} ELSE healing
    /\ checked' = IF Locked THEN checked ELSE checked \cup {p}
    /\ UNCHANGED <<count, countPTTL, lockPTTL, mistakes>>

\* PEXPIRE sets the TTL of the lock as it finds it, which another request may
\* have healed meanwhile, and does nothing if there is none; then 429.
Heal(p) ==
    /\ p \in healing
    /\ healing' = healing \ {p}
    /\ lockPTTL' = IF Locked THEN LockTTL ELSE lockPTTL
    /\ UNCHANGED <<count, countPTTL, checked, mistakes>>

\* A Redis error or the timeout instead of PEXPIRE: 500.
HealFails(p) ==
    /\ p \in healing
    /\ healing' = healing \ {p}
    /\ UNCHANGED <<count, countPTTL, lockPTTL, checked, mistakes>>

RecordFailure_OffByOne(p) ==
    /\ p \in checked
    /\ mistakes > 0 => count < MaxCount
    /\ checked' = checked \ {p}
    /\ count' = count + 1
    /\ countPTTL' = IF countPTTL <= 0 THEN Window ELSE countPTTL
    /\ lockPTTL' = IF count' = Threshold + 1 THEN LockTTL ELSE lockPTTL
    /\ UNCHANGED <<healing, mistakes>>

\* Unknown address or wrong password: the script of RecordFailure.  INCR makes
\* or bumps the count key, PEXPIRE gives it a TTL if it has none, and the lock
\* is SET when the count is exactly the threshold.
RecordFailure(p) ==
    /\ p \in checked
    /\ mistakes > 0 => count < MaxCount
    /\ checked' = checked \ {p}
    /\ count' = count + 1
    /\ countPTTL' = IF countPTTL <= 0 THEN Window ELSE countPTTL
    /\ lockPTTL' = IF count' = Threshold THEN LockTTL ELSE lockPTTL
    /\ UNCHANGED <<healing, mistakes>>

Reset_UnlocksToo(p) ==
    /\ p \in checked
    /\ checked' = checked \ {p}
    /\ count' = 0
    /\ countPTTL' = NoKey
    /\ lockPTTL' = NoKey
    /\ UNCHANGED <<healing, mistakes>>

\* Right password and loginable status: Reset deletes the count key, not the
\* lock key.
Reset(p) ==
    /\ p \in checked
    /\ checked' = checked \ {p}
    /\ count' = 0
    /\ countPTTL' = NoKey
    /\ UNCHANGED <<lockPTTL, healing, mistakes>>

\* Right password but a status that may not log in (403), or a database or
\* Redis error or timeout (500): neither key changes.
Leave(p) ==
    /\ p \in checked
    /\ checked' = checked \ {p}
    /\ UNCHANGED <<count, countPTTL, lockPTTL, healing, mistakes>>

-----------------------------------------------------------------------------
Older_Blind(pttl) == pttl - 1

Older(pttl) == IF pttl > 0 THEN pttl - 1 ELSE pttl

\* Redis: time passes, and a key whose TTL runs out is gone.
Tick ==
    /\ countPTTL > 0 \/ lockPTTL > 0
    /\ countPTTL' = Older(countPTTL)
    /\ count' = IF countPTTL' = NoKey THEN 0 ELSE count
    /\ lockPTTL' = Older(lockPTTL)
    /\ UNCHANGED <<healing, checked, mistakes>>

\* The operational mistake that the limiter heals: a key loses its TTL.
StripTTL ==
    /\ mistakes < MaxMistakes
    /\ mistakes' = mistakes + 1
    /\ \/ countPTTL > 0 /\ countPTTL' = NoTTL /\ UNCHANGED lockPTTL
       \/ lockPTTL > 0 /\ lockPTTL' = NoTTL /\ UNCHANGED countPTTL
    /\ UNCHANGED <<count, healing, checked>>

Finish(p) == RecordFailure(p) \/ Reset(p) \/ Leave(p)

Next ==
    \/ \E p \in Requests : Check(p) \/ Heal(p) \/ HealFails(p) \/ Finish(p)
    \/ Tick
    \/ StripTTL

Spec == Init /\ [][Next]_vars

\* Time passes, requests end (ten second timeout), and, as an assumption on
\* the clients, somebody goes on trying to log in: without that, no one would
\* heal or notice a lock that has lost its TTL. Redis does not fail every
\* attempt to heal.
Fairness ==
    /\ WF_vars(Tick)
    /\ \A p \in Requests : WF_vars(Finish(p))
    /\ WF_vars(\E p \in Requests : Check(p))
    /\ SF_vars(\E p \in Requests : Heal(p))

FairSpec == Spec /\ Fairness

-----------------------------------------------------------------------------
\* Types of the two keys and of the sets of requests in flight.
TypeOK ==
    /\ count \in Nat
    /\ countPTTL \in NoTTL .. Window
    /\ lockPTTL \in NoTTL .. LockTTL
    /\ healing \subseteq Requests
    /\ checked \subseteq Requests
    /\ mistakes \in 0 .. MaxMistakes

\* NFR-03 and the test `count == threshold': as long as no key lost its TTL,
\* an address with Threshold or more failures in the window is locked, and
\* stays so at least until the window closes.  A lock set only once per window
\* is therefore enough.
ThresholdLocks ==
    mistakes = 0 /\ count >= Threshold =>
        /\ Locked
        /\ lockPTTL >= countPTTL

\* NFR-03: the requests that passed Check before the lock was set are the only
\* ones that can still try a password, so that a window counts fewer than
\* Threshold failures plus one for each request in flight.
OvershootBounded ==
    mistakes = 0 /\ count >= Threshold =>
        count + Cardinality(checked) < Threshold + Cardinality(Requests)

\* Nothing but time lifts a lock: neither a login that was in flight when the
\* lock was set and then succeeds, nor the end of the count window.
OnlyTimeUnlocks ==
    [][Locked /\ lockPTTL # 1 =>
         Locked' /\ (lockPTTL' = NoTTL \/ lockPTTL' >= lockPTTL - 1)]_vars

\* NFR-03: a lock is released without an operator's help, even if it lost its TTL.
LockReleases == Locked ~> ~Locked

-----------------------------------------------------------------------------
\* lockout.go, RecordFailure: the life of a lock is never prolonged.
LockNotProlonged ==
    [][Locked /\ lockPTTL # NoTTL /\ lockPTTL' # NoTTL => lockPTTL' <= lockPTTL]_vars
=============================================================================
