--------------------------- MODULE LockoutProofs ---------------------------
(***************************************************************************)
(* Proofs about the login lockout, for any number of requests, any         *)
(* threshold, and any window that is no longer than the lock.              *)
(***************************************************************************)
EXTENDS Lockout, FiniteSetTheorems, TLAPS

-----------------------------------------------------------------------------
\* The life of a key that grows older: it stays in its range, it does not
\* lose more than a tick, and a key without a TTL keeps to be one.
LEMMA OlderRange ==
    ASSUME NEW limit \in Nat, NEW pttl \in NoTTL .. limit
    PROVE  /\ Older(pttl) \in NoTTL .. limit
           /\ Older(pttl) >= pttl - 1
           /\ pttl > 0 => Older(pttl) = pttl - 1
           /\ pttl <= 0 => Older(pttl) = pttl
BY DEF Older, NoTTL

\* The keys and the set of requests keep their types.
LEMMA TypeInductive == TypeOK /\ [Next]_vars => TypeOK'
<1> SUFFICES ASSUME TypeOK, [Next]_vars PROVE TypeOK'
  OBVIOUS
<1> USE LockoutAssumption DEF TypeOK, NoKey, NoTTL
<1>1. ASSUME NEW p \in Requests, Check(p) \/ Heal(p) \/ HealFails(p) PROVE TypeOK'
  BY <1>1 DEF Check, Heal, HealFails, Locked
<1>2. ASSUME NEW p \in Requests, RecordFailure(p) PROVE TypeOK'
  BY <1>2 DEF RecordFailure
<1>3. ASSUME NEW p \in Requests, Reset(p) PROVE TypeOK'
  BY <1>3 DEF Reset
<1>4. ASSUME NEW p \in Requests, Leave(p) PROVE TypeOK'
  BY <1>4 DEF Leave
<1>5. ASSUME Tick PROVE TypeOK'
  BY <1>5, OlderRange DEF Tick
<1>6. ASSUME StripTTL PROVE TypeOK'
  BY <1>6 DEF StripTTL
<1>7. ASSUME UNCHANGED vars PROVE TypeOK'
  BY <1>7 DEF vars
<1> QED
  BY <1>1, <1>2, <1>3, <1>4, <1>5, <1>6, <1>7 DEF Next, Finish

\* Type correctness of the keys and of the requests in flight, for all values
\* of the constants.
THEOREM TypeCorrect == Spec => []TypeOK
<1>1. Init => TypeOK
  BY LockoutAssumption DEF Init, TypeOK, NoKey, NoTTL
<1> QED
  BY <1>1, TypeInductive, PTL DEF Spec

-----------------------------------------------------------------------------
(* While no key lost its TTL, the count key exists exactly as long as it   *)
(* counts something, both lives are those of running keys, and nobody has  *)
(* anything to heal.                                                       *)

KeysRun == mistakes = 0 =>
    /\ countPTTL >= 0 /\ lockPTTL >= 0
    /\ count > 0 <=> countPTTL > 0
    /\ healing = {}

LockInv == TypeOK /\ KeysRun /\ ThresholdLocks

\* Every step keeps an address at the threshold locked until its window ends.
LEMMA LockInductive == LockInv /\ [Next]_vars => LockInv'
<1> SUFFICES ASSUME LockInv, [Next]_vars PROVE KeysRun' /\ ThresholdLocks'
  BY TypeInductive DEF LockInv
<1> USE LockoutAssumption DEF LockInv, TypeOK, KeysRun, ThresholdLocks, Locked, NoKey, NoTTL
<1>1. ASSUME NEW p \in Requests, Check(p) \/ Heal(p) \/ HealFails(p)
      PROVE  KeysRun' /\ ThresholdLocks'
  BY <1>1 DEF Check, Heal, HealFails
<1>2. ASSUME NEW p \in Requests, RecordFailure(p) PROVE KeysRun' /\ ThresholdLocks'
  BY <1>2 DEF RecordFailure
<1>3. ASSUME NEW p \in Requests, Reset(p) PROVE KeysRun' /\ ThresholdLocks'
  BY <1>3 DEF Reset
<1>4. ASSUME NEW p \in Requests, Leave(p) PROVE KeysRun' /\ ThresholdLocks'
  BY <1>4 DEF Leave
<1>5. ASSUME Tick PROVE KeysRun' /\ ThresholdLocks'
  BY <1>5, OlderRange DEF Tick
<1>6. ASSUME StripTTL PROVE KeysRun' /\ ThresholdLocks'
  BY <1>6 DEF StripTTL
<1>7. ASSUME UNCHANGED vars PROVE KeysRun' /\ ThresholdLocks'
  BY <1>7 DEF vars
<1> QED
  BY <1>1, <1>2, <1>3, <1>4, <1>5, <1>6, <1>7 DEF Next, Finish

\* At the start there are no keys.
LEMMA LockInit == Init => LockInv
BY LockoutAssumption
   DEF Init, LockInv, TypeOK, KeysRun, ThresholdLocks, Locked, NoKey, NoTTL

\* NFR-03: the lock that RecordFailure sets only at count == threshold covers
\* the rest of the window, for every threshold and every window.
THEOREM ThresholdAlwaysLocks == Spec => []ThresholdLocks
<1>1. LockInv => ThresholdLocks
  BY DEF LockInv
<1> QED
  BY LockInit, LockInductive, <1>1, PTL DEF Spec

-----------------------------------------------------------------------------
\* Requests that leave the set of those in flight make it smaller by one.
LEMMA OneLess ==
    ASSUME NEW S \in SUBSET Requests, NEW p \in S
    PROVE  /\ Cardinality(S) \in Nat
           /\ Cardinality(Requests) \in Nat
           /\ Cardinality(S \ {p}) = Cardinality(S) - 1
           /\ Cardinality(S) <= Cardinality(Requests)
<1>1. IsFiniteSet(S) /\ Cardinality(S) <= Cardinality(Requests)
  BY RequestsAssumption, FS_Subset
<1>2. Cardinality(S \ {p}) = Cardinality(S) - 1
  BY <1>1, FS_RemoveElement
<1> QED
  BY <1>1, <1>2, RequestsAssumption, FS_CardinalityType

OvershootInv == LockInv /\ OvershootBounded

\* A failure beyond the threshold costs one of the requests that were in
\* flight when the lock was set; nobody joins them while it holds.
LEMMA OvershootInductive == OvershootInv /\ [Next]_vars => OvershootInv'
<1> SUFFICES ASSUME OvershootInv, [Next]_vars, mistakes' = 0, count' >= Threshold
             PROVE  count' + Cardinality(checked') < Threshold + Cardinality(Requests)
  BY LockInductive DEF OvershootInv, OvershootBounded
<1> DEFINE Goal == count' + Cardinality(checked') < Threshold + Cardinality(Requests)
<1> USE LockoutAssumption DEF OvershootInv, OvershootBounded
<1>0. /\ count \in Nat /\ mistakes \in Nat /\ Threshold \in Nat \ {0}
      /\ checked \in SUBSET Requests
      /\ Cardinality(checked) \in Nat /\ Cardinality(Requests) \in Nat
  <2>1. count \in Nat /\ mistakes \in Nat /\ checked \in SUBSET Requests
    BY DEF LockInv, TypeOK
  <2>2. IsFiniteSet(checked)
    BY <2>1, RequestsAssumption, FS_Subset
  <2> QED
    BY <2>1, <2>2, RequestsAssumption, FS_CardinalityType
<1>1. ASSUME NEW p \in Requests, Check(p) \/ Heal(p) \/ HealFails(p) PROVE Goal
  <2>1. mistakes = 0 /\ count >= Threshold
    BY <1>1 DEF Check, Heal, HealFails
  <2>2. Locked
    BY <2>1 DEF LockInv, ThresholdLocks
  <2> QED
    BY <1>0, <1>1, <2>1, <2>2 DEF Check, Heal, HealFails
<1>2. ASSUME NEW p \in Requests, RecordFailure(p) PROVE Goal
  <2>1. /\ Cardinality(checked') = Cardinality(checked) - 1
        /\ Cardinality(checked) <= Cardinality(Requests)
    BY <1>0, <1>2, OneLess DEF RecordFailure
  <2>2. mistakes = 0 /\ count' = count + 1
    BY <1>2 DEF RecordFailure
  <2>3. CASE count >= Threshold
    BY <1>0, <2>1, <2>2, <2>3
  <2>4. CASE count < Threshold
    BY <1>0, <2>1, <2>2, <2>4
  <2> QED
    BY <1>0, <2>3, <2>4
<1>3. ASSUME NEW p \in Requests, Reset(p) PROVE Goal
  BY <1>0, <1>3 DEF Reset
<1>4. ASSUME NEW p \in Requests, Leave(p) PROVE Goal
  <2>1. Cardinality(checked') = Cardinality(checked) - 1
    BY <1>0, <1>4, OneLess DEF Leave
  <2> QED
    BY <1>0, <1>4, <2>1 DEF Leave
<1>5. ASSUME Tick PROVE Goal
  BY <1>0, <1>5 DEF Tick
<1>6. ASSUME StripTTL PROVE Goal
  BY <1>0, <1>6 DEF StripTTL
<1>7. ASSUME UNCHANGED vars PROVE Goal
  BY <1>0, <1>7 DEF vars
<1> QED
  BY <1>1, <1>2, <1>3, <1>4, <1>5, <1>6, <1>7 DEF Next, Finish

\* NFR-03: concurrent logins get past the threshold by less than their number,
\* however many there are.
THEOREM OvershootAlwaysBounded == Spec => []OvershootBounded
<1>1. Init => OvershootInv
  BY LockInit, LockoutAssumption DEF Init, OvershootInv, OvershootBounded
<1>2. OvershootInv => OvershootBounded
  BY DEF OvershootInv
<1> QED
  BY <1>1, OvershootInductive, <1>2, PTL DEF Spec

-----------------------------------------------------------------------------
\* Nothing but time lifts a lock, whatever logins were in flight when it was
\* set: Reset leaves the lock key alone, and Tick takes one tick at a time.
THEOREM OnlyTimeEverUnlocks == Spec => OnlyTimeUnlocks
<1> DEFINE A == Locked /\ lockPTTL # 1 =>
                  Locked' /\ (lockPTTL' = NoTTL \/ lockPTTL' >= lockPTTL - 1)
<1>1. TypeOK /\ [Next]_vars => [A]_vars
  <2> SUFFICES ASSUME TypeOK, [Next]_vars, Locked, lockPTTL # 1
               PROVE  Locked' /\ (lockPTTL' = NoTTL \/ lockPTTL' >= lockPTTL - 1)
    OBVIOUS
  <2> USE LockoutAssumption DEF TypeOK, Locked, NoKey, NoTTL
  <2>1. ASSUME NEW p \in Requests, Check(p) \/ Heal(p) \/ HealFails(p) \/ Finish(p)
        PROVE  Locked' /\ (lockPTTL' = NoTTL \/ lockPTTL' >= lockPTTL - 1)
    BY <2>1 DEF Check, Heal, HealFails, Finish, RecordFailure, Reset, Leave
  <2>2. ASSUME Tick
        PROVE  Locked' /\ (lockPTTL' = NoTTL \/ lockPTTL' >= lockPTTL - 1)
    BY <2>2 DEF Tick, Older
  <2>3. ASSUME StripTTL
        PROVE  Locked' /\ (lockPTTL' = NoTTL \/ lockPTTL' >= lockPTTL - 1)
    BY <2>3 DEF StripTTL
  <2>4. CASE UNCHANGED vars
    BY <2>4 DEF vars
  <2> QED
    BY <2>1, <2>2, <2>3, <2>4 DEF Next
<1> QED
  BY <1>1, TypeCorrect, PTL DEF Spec, OnlyTimeUnlocks
=============================================================================
