------------------------ MODULE WindowLimitersProofs ------------------------
(***************************************************************************)
(* Proofs about the window limiters, for every window, limit and length of *)
(* a second.                                                               *)
(***************************************************************************)
EXTENDS WindowLimiters, FiniteSetTheorems, TLAPS

-----------------------------------------------------------------------------
\* Rounding up to whole seconds adds less than a second.
LEMMA RoundedUp ==
    ASSUME NEW ttl \in Nat
    PROVE  /\ RetryAfter(ttl) \in Nat
           /\ ttl <= RetryAfter(ttl)
           /\ RetryAfter(ttl) < ttl + Second
<1> DEFINE n == ttl + Second - 1
           q == n \div Second
           r == n % Second
<1>1. Second \in Nat /\ Second > 0 /\ n \in Nat
  BY SecondAssumption
<1>2. q \in Nat /\ r \in 0..(Second - 1) /\ n = Second * q + r
  BY <1>1, SMT
<1>3. RetryAfter(ttl) = Second * q
  BY <1>1, <1>2, SMT DEF RetryAfter
<1>4. Second * q \in Nat
  BY <1>1, <1>2, SMT
<1> HIDE DEF q, r
<1> QED
  BY <1>1, <1>2, <1>3, <1>4, SMT
-----------------------------------------------------------------------------
(* The inductive invariant.  The admissions need the fixed-window key to   *)
(* remember the last one; the answers need a key that is gone to have none *)
(* outstanding, or the next window would break their promise.              *)

Types ==
    /\ fixed \in TTLs
    /\ counter \in [value : 0..Limit, ttl : TTLs]
    /\ told \in [Limiters -> SUBSET (0..(Window + Second))]
    /\ lastFixed \in 0..Window
    /\ stripped \subseteq Limiters

CountedWhileAlive == counter.value = 0 <=> counter.ttl = 0

KeyRemembers == lastFixed < Window => fixed = Forever \/ fixed = Window - lastFixed

\* What a limiter owes: a key persists only by an operator's hand, no answer
\* outlives the key, and the answers of a key that expires are honest.
Owes(l) ==
    /\ TTL(l) = Forever => l \in stripped
    /\ TTL(l) = 0 => told[l] = {}
    /\ l \notin stripped =>
         \A w \in told[l] : TTL(l) <= w /\ w < TTL(l) + Second

\* Admissions of one window: no two are the same one of it.
Distinct(A) == \A a, b \in A : a[1] = b[1] => a = b

\* f is the age of the first admission of the window that runs: its admissions
\* are those since, and the key stays until that first one is a window old.
\* Of the window before, which was over by then, the first is not young.
WindowSince(f) ==
    /\ f + counter.ttl >= Window
    /\ \A a \in recent : a[2] <= f => a[1] <= counter.value
    /\ \A a \in recent : a[1] = 1 => a[2] = f
    /\ Distinct({a \in recent : a[2] <= f})
    /\ Distinct({a \in recent : a[2] > f})

Recorded ==
    /\ recent \subseteq (1..Limit) \X (0..(Window - 1))
    /\ counter.ttl # 0 => \E f \in Nat : WindowSince(f)
    /\ counter.ttl = 0 => Distinct(recent) /\ \A a \in recent : a[1] # 1 /\ a[2] # 0

IInv ==
    /\ Types
    /\ CountedWhileAlive
    /\ KeyRemembers
    /\ Recorded
    /\ \A l \in Limiters : Owes(l)

\* An admission of now is none of those recorded.
LEMMA AdmissionIsNew ==
    ASSUME Types, CountedWhileAlive, Recorded
    PROVE  <<counter.value + 1, 0>> \notin recent
<1> SUFFICES ASSUME NEW a \in recent, a = <<counter.value + 1, 0>> PROVE FALSE
  OBVIOUS
<1>1. a[1] = counter.value + 1 /\ a[2] = 0 /\ counter.value \in Nat
  BY DEF Types
<1>2. CASE counter.ttl = 0
  BY <1>1, <1>2 DEF Recorded
<1>3. CASE counter.ttl # 0
  <2>1. PICK f \in Nat : WindowSince(f)
    BY <1>3 DEF Recorded
  <2> QED
    BY <1>1, <2>1 DEF WindowSince
<1> QED
  BY <1>2, <1>3

\* A key that is left alone, or runs for a whole window from now on, keeps
\* what is recorded of its window.
LEMMA RecordedKept ==
    ASSUME Types, Recorded, recent' = recent, counter'.value = counter.value,
           \/ counter'.ttl = counter.ttl
           \/ counter.ttl # 0 /\ counter'.ttl \in {Window, Forever}
    PROVE  Recorded'
<1>1. counter.ttl \in Nat /\ counter'.ttl \in Nat /\ (counter'.ttl = 0 <=> counter.ttl = 0)
  BY WindowAssumption DEF Types, TTLs, Forever
<1>2. ASSUME NEW f \in Nat, WindowSince(f) PROVE WindowSince(f)'
  <2>1. f + counter'.ttl >= Window
    BY <1>1, <1>2, WindowAssumption DEF WindowSince, Forever
  <2> QED
    BY <1>2, <2>1 DEF WindowSince, Distinct
<1> QED
  BY <1>1, <1>2 DEF Recorded, Distinct

\* The first admission of a window, and each after it, is recorded apart.
LEMMA RecordedAdmit ==
    ASSUME Types, CountedWhileAlive, Recorded, counter.value < Limit,
           counter'.value = counter.value + 1, counter'.ttl = Healed(counter.ttl),
           recent' = recent \cup {<<counter.value + 1, 0>>}
    PROVE  Recorded'
<1> USE WindowAssumption, LimitAssumption
<1>1. PICK new : new = <<counter.value + 1, 0>>
  OBVIOUS
<1>2. /\ recent' = recent \cup {new} /\ new[1] = counter.value + 1 /\ new[2] = 0
      /\ counter.value \in Nat /\ counter.ttl \in TTLs
  BY <1>1 DEF Types
<1>3. counter'.ttl \in 1..Window /\ (counter.ttl \in {0, Forever} => counter'.ttl = Window)
  BY <1>2 DEF Healed, TTLs, Forever
<1>4. new \in (1..Limit) \X (0..(Window - 1))
  BY <1>1, <1>2
<1>5. \A a \in recent : a[1] \in Nat /\ a[2] \in Nat /\ a[1] # 0
  BY DEF Recorded
<1>6. CASE counter.ttl = 0
  <2>1. counter.value = 0
    BY <1>6 DEF CountedWhileAlive
  <2>2. {a \in recent' : a[2] <= 0} = {new} /\ {a \in recent' : a[2] > 0} = recent
    BY <1>2, <1>5, <1>6 DEF Recorded
  <2>3. WindowSince(0)'
    BY <1>2, <1>3, <1>5, <1>6, <2>1, <2>2 DEF WindowSince, Recorded, Distinct
  <2> QED
    BY <1>2, <1>3, <1>4, <2>3 DEF Recorded
<1>7. CASE counter.ttl # 0
  <2>1. PICK f \in Nat : WindowSince(f)
    BY <1>7 DEF Recorded
  <2>2. /\ {a \in recent' : a[2] <= f} = {a \in recent : a[2] <= f} \cup {new}
        /\ {a \in recent' : a[2] > f} = {a \in recent : a[2] > f}
    BY <1>2, <1>5
  <2>3. Distinct({a \in recent' : a[2] <= f})
    BY <1>2, <1>5, <2>1, <2>2 DEF WindowSince, Distinct
  <2>4. f + counter'.ttl >= Window
    BY <1>2, <1>3, <1>7, <2>1 DEF WindowSince, Healed, TTLs, Forever
  <2>5. counter.value # 0
    BY <1>7 DEF CountedWhileAlive
  <2>6. \A a \in recent' : (a[2] <= f => a[1] <= counter'.value) /\ (a[1] = 1 => a[2] = f)
    BY <1>2, <1>5, <2>1, <2>5 DEF WindowSince
  <2>7. WindowSince(f)'
    BY <2>1, <2>2, <2>3, <2>4, <2>6 DEF WindowSince
  <2> QED
    BY <1>2, <1>3, <1>4, <2>7 DEF Recorded
<1> QED
  BY <1>6, <1>7

\* When a window is over its first admission is no longer young, nor is any of
\* the window before.
LEMMA RecordedTick ==
    ASSUME Types, Recorded, Tick
    PROVE  Recorded'
<1> USE WindowAssumption, LimitAssumption
<1>1. /\ \A a \in recent : a[1] \in 1..Limit /\ a[2] \in 0..(Window - 1) /\ a = <<a[1], a[2]>>
      /\ counter.ttl \in TTLs
  BY DEF Recorded, Types
<1>2. recent' = {<<a[1], a[2] + 1>> : a \in {b \in recent : b[2] + 1 < Window}}
  BY DEF Tick
<1>3. ASSUME NEW c \in recent'
      PROVE  \E a \in recent : c = <<a[1], a[2] + 1>> /\ c[1] = a[1] /\ c[2] = a[2] + 1 /\ a[2] + 1 < Window
  BY <1>2
<1>4. recent' \subseteq (1..Limit) \X (0..(Window - 1))
  BY <1>1, <1>3
<1>5. ASSUME NEW A, NEW B, A \subseteq recent, B \subseteq recent', Distinct(A),
             \A a \in recent : <<a[1], a[2] + 1>> \in B => a \in A
      PROVE  Distinct(B)
  <2> SUFFICES ASSUME NEW b \in B, NEW c \in B, b[1] = c[1] PROVE b = c
    BY DEF Distinct
  <2>1. PICK x \in recent : b = <<x[1], x[2] + 1>> /\ b[1] = x[1]
    BY <1>3, <1>5
  <2>2. PICK y \in recent : c = <<y[1], y[2] + 1>> /\ c[1] = y[1]
    BY <1>3, <1>5
  <2>3. x \in A /\ y \in A /\ x[1] = y[1]
    BY <1>5, <2>1, <2>2
  <2>4. x = y
    BY <2>3, <1>5 DEF Distinct
  <2> QED
    BY <2>1, <2>2, <2>4
<1>6. CASE counter.ttl = 0
  <2>1. counter'.ttl = 0
    BY <1>6 DEF Tick, Later
  <2>2. Distinct(recent')
    BY <1>5, <1>6 DEF Recorded
  <2>3. \A a \in recent' : a[1] # 1 /\ a[2] # 0
    BY <1>1, <1>3, <1>6 DEF Recorded
  <2> QED
    BY <1>4, <2>1, <2>2, <2>3 DEF Recorded
<1>7. CASE counter.ttl = 1
  <2>1. counter'.ttl = 0
    BY <1>7 DEF Tick
  <2>2. PICK f \in Nat : WindowSince(f)
    BY <1>7 DEF Recorded
  <2>3. f + 1 >= Window
    BY <1>7, <2>2 DEF WindowSince
  <2>4. Distinct(recent')
    <3>1. \A a \in recent : <<a[1], a[2] + 1>> \in recent' => a \in {b \in recent : b[2] <= f}
      <4> SUFFICES ASSUME NEW a \in recent, <<a[1], a[2] + 1>> \in recent' PROVE a[2] <= f
        OBVIOUS
      <4>1. a[2] + 1 <= Window - 1
        BY <1>4
      <4> QED
        BY <1>1, <2>3, <4>1
    <3>2. Distinct({b \in recent : b[2] <= f})
      BY <2>2 DEF WindowSince
    <3> QED
      BY <1>5, <3>1, <3>2
  <2>5. ASSUME NEW c \in recent' PROVE c[1] # 1 /\ c[2] # 0
    <3>1. PICK a \in recent : c[1] = a[1] /\ c[2] = a[2] + 1 /\ a[2] + 1 < Window
      BY <1>3
    <3> QED
      BY <1>1, <2>2, <2>3, <3>1 DEF WindowSince
  <2> QED
    BY <1>4, <2>1, <2>4, <2>5 DEF Recorded
<1>8. CASE counter.ttl \notin {0, 1}
  <2>1. /\ counter'.value = counter.value /\ counter'.ttl # 0
        /\ counter'.ttl = Forever \/ counter'.ttl = counter.ttl - 1
    BY <1>1, <1>8 DEF Tick, Later, Types, TTLs, Forever
  <2>2. PICK f \in Nat : WindowSince(f)
    BY <1>8 DEF Recorded
  <2>3. f + 1 \in Nat /\ f + 1 + counter'.ttl >= Window
    BY <1>1, <1>8, <2>1, <2>2 DEF WindowSince, TTLs, Forever
  <2>4. \A c \in recent' : (c[2] <= f + 1 => c[1] <= counter'.value) /\ (c[1] = 1 => c[2] = f + 1)
    BY <1>1, <1>3, <2>1, <2>2 DEF WindowSince
  <2>5. Distinct({c \in recent' : c[2] <= f + 1})
    <3>1. \A a \in recent : <<a[1], a[2] + 1>> \in {c \in recent' : c[2] <= f + 1}
                            => a \in {b \in recent : b[2] <= f}
      BY <1>1
    <3>2. Distinct({b \in recent : b[2] <= f})
      BY <2>2 DEF WindowSince
    <3> QED
      BY <1>5, <3>1, <3>2
  <2>6. Distinct({c \in recent' : c[2] > f + 1})
    <3>1. \A a \in recent : <<a[1], a[2] + 1>> \in {c \in recent' : c[2] > f + 1}
                            => a \in {b \in recent : b[2] > f}
      BY <1>1
    <3>2. Distinct({b \in recent : b[2] > f})
      BY <2>2 DEF WindowSince
    <3> QED
      BY <1>5, <3>1, <3>2
  <2>7. WindowSince(f + 1)'
    BY <2>3, <2>4, <2>5, <2>6 DEF WindowSince
  <2> QED
    BY <1>4, <2>1, <2>3, <2>7 DEF Recorded
<1> QED
  BY <1>6, <1>7, <1>8

\* At the start there is no key, no answer and no admission.
LEMMA InitIInv == Init => IInv
<1> SUFFICES ASSUME Init PROVE IInv
  OBVIOUS
<1> USE WindowAssumption, LimitAssumption DEF Init
<1>1. Types
  BY DEF Types, TTLs, Forever
<1>2. CountedWhileAlive /\ KeyRemembers
  BY DEF CountedWhileAlive, KeyRemembers
<1>3. ASSUME NEW l \in Limiters PROVE Owes(l)
  BY DEF Owes, TTL, Forever
<1>4. Recorded
  BY DEF Recorded, Distinct
<1> QED
  BY <1>1, <1>2, <1>3, <1>4 DEF IInv

\* A limiter whose key and answers stay as they are owes what it owed.
LEMMA OwesUnchanged ==
    ASSUME NEW l \in Limiters, Owes(l), TTL(l)' = TTL(l), told'[l] = told[l],
           stripped' = stripped
    PROVE  Owes(l)'
BY DEF Owes

\* A refusal that reports the TTL from which the key runs on keeps what was
\* promised, if the key ran before.
LEMMA AnswerOwes ==
    ASSUME NEW l \in Limiters, NEW ttl \in 1..Window, Types, Owes(l),
           TTL(l) = ttl \/ l \in stripped, TTL(l)' = ttl, stripped' = stripped,
           Answer(l, ttl)
    PROVE  Owes(l)' /\ told' \in [Limiters -> SUBSET (0..(Window + Second))]
<1>1. ttl \in Nat /\ ttl # 0 /\ ttl # Forever
  BY WindowAssumption DEF Forever
<1>2. /\ RetryAfter(ttl) \in Nat
      /\ ttl <= RetryAfter(ttl)
      /\ RetryAfter(ttl) < ttl + Second
  BY <1>1, RoundedUp
<1>3. told'[l] = told[l] \cup {RetryAfter(ttl)}
  BY DEF Answer, Types
<1>4. told' \in [Limiters -> SUBSET (0..(Window + Second))]
  <2>1. RetryAfter(ttl) \in 0..(Window + Second)
    BY <1>1, <1>2, WindowAssumption, SecondAssumption
  <2> QED
    BY <2>1 DEF Answer, Types
<1> QED
  BY <1>1, <1>2, <1>3, <1>4 DEF Owes

-----------------------------------------------------------------------------
\* A fixed-window admission finds no key, so nobody is waiting.
LEMMA FixedAdmitIInv == IInv /\ FixedAdmit => IInv'
<1> SUFFICES ASSUME IInv, FixedAdmit PROVE IInv'
  OBVIOUS
<1> USE WindowAssumption, LimitAssumption DEF FixedAdmit
<1>1. Types'
  BY DEF IInv, Types, TTLs, Forever
<1>2. CountedWhileAlive' /\ KeyRemembers'
  BY DEF IInv, CountedWhileAlive, KeyRemembers
<1>3. ASSUME NEW l \in Limiters PROVE Owes(l)'
  <2>1. CASE l = "fixed"
    BY <2>1 DEF IInv, Owes, TTL, Forever
  <2>2. CASE l = "counting"
    BY <2>2, OwesUnchanged DEF IInv, TTL
  <2> QED
    BY <2>1, <2>2 DEF Limiters
<1>4. Recorded'
  BY RecordedKept DEF IInv
<1> QED
  BY <1>1, <1>2, <1>3, <1>4 DEF IInv

\* A fixed-window refusal leaves the key alone.
LEMMA FixedRefuseIInv == IInv /\ FixedRefuse => IInv'
<1> SUFFICES ASSUME IInv, FixedRefuse PROVE IInv'
  OBVIOUS
<1> USE WindowAssumption, LimitAssumption DEF FixedRefuse
<1>1. fixed = Forever \/ fixed \in 1..Window
  BY DEF IInv, Types, TTLs, Forever
<1>2. Owes("fixed")' /\ told' \in [Limiters -> SUBSET (0..(Window + Second))]
  <2>1. CASE fixed = Forever
    <3>1. RetryAfter(0) \in 0..(Window + Second)
      BY RoundedUp, SecondAssumption
    <3>2. Answer("fixed", 0)
      BY <2>1
    <3>3. told' \in [Limiters -> SUBSET (0..(Window + Second))]
      BY <3>1, <3>2 DEF Answer, IInv, Types
    <3>4. Owes("fixed")'
      BY <2>1 DEF IInv, Owes, TTL, Forever, Limiters
    <3> QED
      BY <3>3, <3>4
  <2>2. CASE fixed \in 1..Window
    <3>1. Answer("fixed", fixed)
      BY <2>2 DEF Forever
    <3> QED
      BY <2>2, <3>1, AnswerOwes DEF IInv, TTL, Limiters
  <2> QED
    BY <1>1, <2>1, <2>2
<1>3. Owes("counting")'
  <2>1. told'["counting"] = told["counting"]
    BY DEF Answer, IInv, Types, Limiters
  <2> QED
    BY <2>1, OwesUnchanged DEF IInv, TTL, Limiters
<1>4. Types' /\ CountedWhileAlive' /\ KeyRemembers'
  BY <1>2 DEF IInv, Types, TTLs, Forever, CountedWhileAlive, KeyRemembers
<1>5. Recorded'
  BY RecordedKept DEF IInv
<1> QED
  BY <1>2, <1>3, <1>4, <1>5 DEF IInv, Limiters

\* Counting starts the window of a key that is new or persistent.
LEMMA CountAdmitIInv == IInv /\ CountAdmit => IInv'
<1> SUFFICES ASSUME IInv, CountAdmit PROVE IInv'
  OBVIOUS
<1> USE WindowAssumption, LimitAssumption DEF CountAdmit
<1>1. /\ counter'.value = counter.value + 1 /\ counter'.ttl = Healed(counter.ttl)
      /\ counter.value \in 0..Limit /\ counter.ttl \in TTLs
      /\ Healed(counter.ttl) \in 1..Window
  BY DEF IInv, Types, TTLs, Forever, Healed
<1>2. Types'
  BY <1>1 DEF IInv, Types, TTLs, Forever
<1>3. CountedWhileAlive' /\ KeyRemembers'
  BY <1>1 DEF IInv, CountedWhileAlive, KeyRemembers
<1>4. ASSUME NEW l \in Limiters PROVE Owes(l)'
  <2>1. CASE l = "fixed"
    BY <2>1, OwesUnchanged DEF IInv, TTL
  <2>2. CASE l = "counting"
    <3>1. TTL(l)' \in 1..Window
      BY <1>1, <2>2 DEF TTL
    <3>2. CASE counter.ttl \in {0, Forever}
      BY <2>2, <3>1, <3>2 DEF IInv, Owes, TTL, Forever
    <3>3. CASE counter.ttl \notin {0, Forever}
      BY <1>1, <2>2, <3>3, OwesUnchanged DEF IInv, TTL, Healed
    <3> QED
      BY <3>2, <3>3
  <2> QED
    BY <2>1, <2>2 DEF Limiters
<1>5. Recorded'
  BY <1>1, RecordedAdmit DEF IInv
<1> QED
  BY <1>2, <1>3, <1>4, <1>5 DEF IInv

\* At the limit nothing moves but a missing TTL.
LEMMA CountRefuseIInv == IInv /\ CountRefuse => IInv'
<1> SUFFICES ASSUME IInv, CountRefuse PROVE IInv'
  OBVIOUS
<1> USE WindowAssumption, LimitAssumption DEF CountRefuse
<1>1. /\ counter'.value = counter.value /\ counter'.ttl = Healed(counter.ttl)
      /\ counter.value = Limit /\ counter.ttl \in TTLs \ {0}
      /\ Healed(counter.ttl) \in 1..Window
      /\ counter' \in [value : 0..Limit, ttl : TTLs]
  BY DEF IInv, Types, CountedWhileAlive, TTLs, Forever, Healed
<1>2. Owes("counting")' /\ told' \in [Limiters -> SUBSET (0..(Window + Second))]
  <2>1. TTL("counting") = Healed(counter.ttl) \/ "counting" \in stripped
    BY <1>1 DEF IInv, Owes, TTL, Healed, Limiters
  <2>2. Answer("counting", Healed(counter.ttl)) /\ TTL("counting")' = Healed(counter.ttl)
    BY <1>1 DEF TTL
  <2> QED
    BY <1>1, <2>1, <2>2, AnswerOwes DEF IInv, Limiters
<1>3. Owes("fixed")'
  <2>1. told'["fixed"] = told["fixed"]
    BY DEF Answer, IInv, Types, Limiters
  <2> QED
    BY <2>1, OwesUnchanged DEF IInv, TTL, Limiters
<1>4. Types'
  BY <1>1, <1>2 DEF IInv, Types
<1>5. CountedWhileAlive' /\ KeyRemembers'
  BY <1>1 DEF IInv, CountedWhileAlive, KeyRemembers, TTLs
<1>6. Recorded'
  BY <1>1, RecordedKept DEF IInv, Healed
<1> QED
  BY <1>2, <1>3, <1>4, <1>5, <1>6 DEF IInv, Limiters

-----------------------------------------------------------------------------
\* A tick shortens key and answers alike, and ends them together.
LEMMA TickIInv == IInv /\ Tick => IInv'
<1> SUFFICES ASSUME IInv, Tick PROVE IInv'
  OBVIOUS
<1> USE WindowAssumption, LimitAssumption, SecondAssumption DEF Tick
<1>1. ASSUME NEW l \in Limiters
      PROVE  /\ TTL(l) \in TTLs
             /\ TTL(l)' = Later(TTL(l))
             /\ TTL(l)' \in TTLs
  <2>1. CASE l = "fixed"
    BY <2>1 DEF IInv, Types, TTL, TTLs, Forever, Later
  <2>2. CASE l = "counting"
    BY <2>2 DEF IInv, Types, TTL, TTLs, Forever, Later
  <2> QED
    BY <2>1, <2>2 DEF Limiters
<1>2. Types'
  <2>1. counter' \in [value : 0..Limit, ttl : TTLs]
    BY DEF IInv, Types, TTLs, Forever, Later
  <2>2. told' \in [Limiters -> SUBSET (0..(Window + Second))]
    BY DEF IInv, Types
  <2> QED
    BY <2>1, <2>2 DEF IInv, Types, TTLs, Forever, Later
<1>3. CountedWhileAlive'
  BY DEF IInv, Types, CountedWhileAlive, TTLs, Forever, Later
<1>4. KeyRemembers'
  BY DEF IInv, Types, KeyRemembers, TTLs, Forever, Later
<1>5. ASSUME NEW l \in Limiters PROVE Owes(l)'
  <2>1. /\ TTL(l) \in Nat /\ TTL(l) <= Forever
        /\ told[l] \subseteq Nat
        /\ Owes(l)
    BY <1>1 DEF IInv, Types, TTLs, Forever
  <2>2. CASE TTL(l) = 1
    BY <1>1, <2>2 DEF Owes, Later, Forever
  <2>3. CASE TTL(l) = 0
    BY <1>1, <2>1, <2>3 DEF Owes, Later, Forever
  <2>4. CASE TTL(l) = Forever
    BY <1>1, <2>1, <2>4 DEF Owes, Later, Forever
  <2>5. CASE TTL(l) \in 2..Window
    <3>1. TTL(l)' = TTL(l) - 1 /\ TTL(l)' # 0 /\ TTL(l)' # Forever
      BY <1>1, <2>1, <2>5 DEF Later, Forever
    <3>2. told'[l] = {IF w = 0 THEN 0 ELSE w - 1 : w \in told[l]}
      BY <2>5
    <3>3. ASSUME l \notin stripped, NEW v \in told'[l]
          PROVE  TTL(l)' <= v /\ v < TTL(l)' + Second
      <4>1. PICK w \in told[l] : v = IF w = 0 THEN 0 ELSE w - 1
        BY <3>2, <3>3
      <4>2. w \in Nat /\ TTL(l) <= w /\ w < TTL(l) + Second
        BY <2>1, <3>3 DEF Owes
      <4> QED
        BY <2>1, <2>5, <3>1, <4>1, <4>2
    <3> QED
      BY <3>1, <3>3 DEF Owes
  <2> QED
    BY <2>1, <2>2, <2>3, <2>4, <2>5 DEF Forever
<1>6. Recorded'
  BY RecordedTick DEF IInv
<1> QED
  BY <1>2, <1>3, <1>4, <1>5, <1>6 DEF IInv

\* A persistent key is the operator's doing, and its promises are off.
LEMMA StripTTLIInv ==
    ASSUME NEW k \in Limiters, IInv, StripTTL(k)
    PROVE  IInv'
<1> USE WindowAssumption, LimitAssumption DEF StripTTL
<1>1. Types'
  BY DEF IInv, Types, TTLs, Forever
<1>2. CountedWhileAlive' /\ KeyRemembers'
  BY DEF IInv, Types, CountedWhileAlive, KeyRemembers, TTL, Forever, Limiters
<1>3. ASSUME NEW l \in Limiters PROVE Owes(l)'
  <2>1. CASE l = k
    <3>1. l \in stripped' /\ TTL(l)' = Forever /\ Forever # 0
      BY <2>1 DEF IInv, Types, TTL, Forever, Limiters
    <3> QED
      BY <3>1 DEF Owes
  <2>2. CASE l # k
    <3>1. TTL(l)' = TTL(l) /\ told' = told /\ (l \in stripped' <=> l \in stripped)
      BY <2>2 DEF TTL, Limiters
    <3> QED
      BY <3>1 DEF IInv, Owes
  <2> QED
    BY <2>1, <2>2
<1>4. Recorded'
  <2>1. /\ recent' = recent /\ counter'.value = counter.value
        /\ \/ counter'.ttl = counter.ttl
           \/ counter.ttl # 0 /\ counter'.ttl = Forever
    BY DEF IInv, Types, TTL
  <2> QED
    BY <2>1, RecordedKept DEF IInv
<1> QED
  BY <1>1, <1>2, <1>3, <1>4 DEF IInv

\* Every step of the limiters, of the clock and of the operator.
LEMMA NextIInv == IInv /\ [Next]_vars => IInv'
<1> SUFFICES ASSUME IInv, [Next]_vars PROVE IInv'
  OBVIOUS
<1>1. CASE UNCHANGED vars
  <2>1. \A l \in Limiters : TTL(l)' = TTL(l)
    BY <1>1 DEF vars, TTL
  <2>2. Recorded'
    BY <1>1, RecordedKept DEF IInv, vars
  <2> QED
    BY <1>1, <2>1, <2>2 DEF vars, IInv, Types, CountedWhileAlive, KeyRemembers, Owes
<1> QED
  BY <1>1, FixedAdmitIInv, FixedRefuseIInv, CountAdmitIInv, CountRefuseIInv, TickIInv,
     StripTTLIInv DEF Next, CountAsk

\* The invariant holds throughout.
LEMMA Invariant == Spec => []IInv
BY InitIInv, NextIInv, PTL DEF Spec

-----------------------------------------------------------------------------
\* Of the admissions of one window there are no more than the numbers that
\* they have in it.
LEMMA NumberedApart ==
    ASSUME NEW A, Distinct(A), NEW n \in Nat, NEW m \in Nat, n <= m + 1,
           \A a \in A : a[1] \in n..m
    PROVE  IsFiniteSet(A) /\ Cardinality(A) <= m - n + 1
<1> DEFINE number == [a \in A |-> a[1]]
<1>1. number \in Injection(A, n..m)
  BY DEF Injection, IsInjective, Distinct
<1>2. IsFiniteSet(n..m) /\ Cardinality(n..m) = IF n > m THEN 0 ELSE m - n + 1
  BY FS_Interval
<1>3. IsFiniteSet(A) /\ Cardinality(A) <= Cardinality(n..m)
  BY <1>1, <1>2, FS_Injection
<1>4. Cardinality(A) \in Nat /\ Cardinality(n..m) \in Nat
  BY <1>2, <1>3, FS_CardinalityType
<1> QED
  BY <1>2, <1>3, <1>4

\* What is left of one window lacks its first admission, which is too old; of
\* the next there are at most Limit.
LEMMA FewRecorded ==
    ASSUME Types, Recorded
    PROVE  BurstBounded
<1> USE LimitAssumption
<1>1. \A a \in recent : a[1] \in 1..Limit /\ a[2] \in Nat
  BY DEF Recorded
<1>2. CASE counter.ttl = 0
  <2>1. Distinct(recent) /\ \A a \in recent : a[1] \in 2..Limit
    BY <1>1, <1>2 DEF Recorded
  <2>2. IsFiniteSet(recent) /\ Cardinality(recent) <= Limit - 2 + 1
    BY <2>1, NumberedApart
  <2>3. Cardinality(recent) \in Nat
    BY <2>2, FS_CardinalityType
  <2> QED
    BY <2>2, <2>3 DEF BurstBounded
<1>3. CASE counter.ttl # 0
  <2>1. PICK f \in Nat : WindowSince(f)
    BY <1>3 DEF Recorded
  <2>2. PICK new : new = {a \in recent : a[2] <= f}
    OBVIOUS
  <2>3. PICK old : old = {a \in recent : a[2] > f}
    OBVIOUS
  <2>4. IsFiniteSet(new) /\ Cardinality(new) <= Limit - 1 + 1
    <3>1. Distinct(new) /\ \A a \in new : a[1] \in 1..Limit
      BY <1>1, <2>1, <2>2 DEF WindowSince
    <3> QED
      BY <3>1, NumberedApart
  <2>5. IsFiniteSet(old) /\ Cardinality(old) <= Limit - 2 + 1
    <3>1. Distinct(old) /\ \A a \in old : a[1] \in 2..Limit
      BY <1>1, <2>1, <2>3 DEF WindowSince
    <3> QED
      BY <3>1, NumberedApart
  <2>6. recent = new \cup old /\ new \cap old = {}
    BY <1>1, <2>2, <2>3
  <2>7. Cardinality(recent) = Cardinality(new) + Cardinality(old) - Cardinality(new \cap old)
    BY <2>4, <2>5, <2>6, FS_Union
  <2>8. Cardinality(new \cap old) = 0
    BY <2>6, FS_EmptySet
  <2>9. Cardinality(new) \in Nat /\ Cardinality(old) \in Nat
    BY <2>4, <2>5, FS_CardinalityType
  <2> QED
    BY <2>4, <2>5, <2>7, <2>8, <2>9 DEF BurstBounded
<1> QED
  BY <1>2, <1>3

-----------------------------------------------------------------------------
\* The keys, the answers and the histories have their types, and each
\* admission of the counting limiter is recorded as one of its own.
THEOREM TypeCorrect == Spec => []TypeOK
<1>1. IInv => TypeOK
  BY AdmissionIsNew DEF IInv, Types, CountedWhileAlive, Recorded, TypeOK
<1> QED
  BY <1>1, Invariant, PTL

\* CountingWindowLimiter admits fewer than twice the limit in any span of a
\* window's length, whenever that span begins, whatever was refused in it and
\* though a key may lose its TTL and be healed.
THEOREM BurstsAlwaysBounded == Spec => []BurstBounded
<1>1. IInv => BurstBounded
  BY FewRecorded DEF IInv
<1> QED
  BY <1>1, Invariant, PTL

\* The Retry-After of a 429 is honest to the second for every length of the
\* window and of a second: FixedWindowLimiter and CountingWindowLimiter never
\* move the end of a window that they have announced.
THEOREM RetryAfterAlwaysHonest == Spec => []RetryAfterHonest
<1>1. IInv => RetryAfterHonest
  BY DEF IInv, Owes, RetryAfterHonest
<1> QED
  BY <1>1, Invariant, PTL

\* FixedWindowLimiter admits at most one request in any span of a window.
THEOREM AdmissionsAlwaysApart == Spec => AdmissionsApart
<1>1. IInv /\ [Next]_vars => [FixedAdmit => lastFixed = Window]_vars
  BY WindowAssumption DEF IInv, Types, KeyRemembers, FixedAdmit, Forever
<1> QED
  BY <1>1, Invariant, PTL DEF Spec, AdmissionsApart
=============================================================================
