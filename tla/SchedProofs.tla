---------------------------- MODULE SchedProofs ----------------------------
(***************************************************************************)
(* sleep and the seconds are right for every width of the tick counter,    *)
(* every length of a second and every time to wait, with the counter       *)
(* wrapping at any moment, whatever the scheduler does; and the tasks form *)
(* one ring, however many are made.                                        *)
(***************************************************************************)
EXTENDS Sched, TLAPS, FiniteSetTheorems, WellFoundedInduction

-----------------------------------------------------------------------------
(* Remainders                                                               *)

\* Quotient and remainder are unique.
LEMMA RemainderIs ==
    ASSUME NEW n \in Nat \ {0}, NEW x \in Int, NEW q \in Int, NEW r \in 0 .. (n - 1),
           x = n * q + r
    PROVE  x % n = r
<1> DEFINE p == x \div n
           s == x % n
<1>1. p \in Int /\ s \in 0 .. (n - 1) /\ x = n * p + s
  OBVIOUS
<1> HIDE DEF p, s
<1>2. n * (p - q) = r - s
  BY <1>1
<1>3. r - s < n /\ r - s > -n
  BY <1>1
<1>4. p - q < 1
  <2> SUFFICES ASSUME p - q >= 1 PROVE FALSE
    BY <1>1
  <2>1. n * (p - q) >= n
    BY <1>1
  <2>2. QED
    BY <1>1, <1>2, <1>3, <2>1
<1>5. p - q > -1
  <2> SUFFICES ASSUME p - q <= -1 PROVE FALSE
    BY <1>1
  <2>1. n * (p - q) <= -n
    BY <1>1
  <2>2. QED
    BY <1>1, <1>2, <1>3, <2>1
<1>6. p = q
  BY <1>1, <1>4, <1>5
<1>7. QED
  BY <1>1, <1>6 DEF s

\* The remainder of a sum with 1, also n less.
LEMMA RemainderNext ==
    ASSUME NEW n \in Nat \ {0}, NEW x \in Int, NEW r \in Nat, x % n = r, r + 1 < n
    PROVE  (x + 1) % n = r + 1 /\ (x + 1 - n) % n = r + 1
<1> DEFINE q == x \div n
<1>1. q \in Int /\ x = n * q + r
  OBVIOUS
<1> HIDE DEF q
<1>2. x + 1 = n * q + (r + 1) /\ x + 1 - n = n * (q - 1) + (r + 1)
  BY <1>1
<1>3. r + 1 \in 0 .. (n - 1) /\ q - 1 \in Int /\ x + 1 \in Int /\ x + 1 - n \in Int
  BY <1>1
<1>4. (x + 1) % n = r + 1
  BY <1>1, <1>2, <1>3, RemainderIs
<1>5. (x + 1 - n) % n = r + 1
  BY <1>1, <1>2, <1>3, RemainderIs
<1>6. QED
  BY <1>4, <1>5

\* One more than the largest remainder is none.
LEMMA RemainderWraps ==
    ASSUME NEW n \in Nat \ {0}, NEW x \in Int, x % n = n - 1
    PROVE  (x + 1) % n = 0
<1> DEFINE q == x \div n
<1>1. q \in Int /\ x = n * q + (n - 1)
  OBVIOUS
<1> HIDE DEF q
<1>2. n * (q + 1) = n * q + n
  BY <1>1
<1>3. x + 1 = n * (q + 1) + 0
  BY <1>1, <1>2
<1>4. q + 1 \in Int /\ 0 \in 0 .. (n - 1) /\ x + 1 \in Int
  BY <1>1
<1>5. QED
  BY <1>3, <1>4, RemainderIs

\* A value below the modulus is its own remainder, and the modulus leaves none.
LEMMA RemainderSelf ==
    ASSUME NEW n \in Nat \ {0}
    PROVE  (\A r \in 0 .. (n - 1) : r % n = r) /\ n % n = 0
<1>1. ASSUME NEW r \in 0 .. (n - 1) PROVE r % n = r
  <2>1. r = n * 0 + r
    OBVIOUS
  <2>2. QED
    BY <2>1, RemainderIs
<1>2. n % n = 0
  <2>1. n = n * 1 + 0 /\ 0 \in 0 .. (n - 1)
    OBVIOUS
  <2>2. QED
    BY <2>1, RemainderIs
<1>3. QED
  BY <1>1, <1>2

-----------------------------------------------------------------------------
(* The invariant                                                            *)

\* The counters of time.c and the locals of sleep: what sleep compares is the
\* time that has passed, which grows by at most one between two of its steps.
TimeInv ==
    /\ ticks \in 0 .. (Word - 1) /\ start \in 0 .. (Word - 1)
    /\ wait \in Nat /\ elapsed \in Nat
    /\ pc \in {"run", "test", "before_hlt", "hlt"}
    /\ since = ticks % HZ
    /\ pc # "run" => wait <= Word - 3 /\ (ticks - start) % Word = elapsed
    /\ pc = "run" => elapsed >= wait /\ elapsed <= wait + 1
    /\ pc = "test" => elapsed <= wait + 1 /\ (stepped => elapsed <= wait)
    /\ pc = "before_hlt" => elapsed <= wait /\ (stepped => elapsed < wait)
    /\ pc = "hlt" => elapsed <= wait

LEMMA InitTime == Init => TimeInv
<1> SUFFICES ASSUME Init PROVE TimeInv
  OBVIOUS
<1>1. HZ \in Nat \ {0} /\ Word \in Nat \ {0}
  BY SchedConstants
<1>2. 0 % HZ = 0
  BY <1>1, RemainderSelf
<1>3. QED
  BY <1>1, <1>2 DEF Init, TimeInv

\* The tick: both counters go on, or wrap.
LEMMA TickCounts ==
    ASSUME TimeInv, ticks' = (ticks + 1) % Word
    PROVE  /\ ticks' \in 0 .. (Word - 1)
           /\ ticks' = ticks + 1 \/ ticks' = ticks + 1 - Word
           /\ ticks' # ticks + 1 => ticks' = 0
<1>1. Word \in Nat \ {0} /\ ticks \in 0 .. (Word - 1)
  BY SchedConstants DEF TimeInv
<1>2. CASE ticks + 1 < Word
  <2>1. (ticks + 1) % Word = ticks + 1
    BY <1>1, <1>2, RemainderSelf
  <2>2. QED
    BY <1>1, <1>2, <2>1
<1>3. CASE ticks + 1 = Word
  BY <1>1, <1>3, RemainderSelf
<1>4. QED
  BY <1>1, <1>2, <1>3

\* timer_tick: since is what the ticks leave over whole seconds, also when they wrap.
LEMMA TickSince ==
    ASSUME TimeInv, TimerIRQ
    PROVE  since' = ticks' % HZ
<1>1. HZ \in Nat \ {0} /\ Word \in Nat /\ ticks \in 0 .. (Word - 1) /\ since = ticks % HZ
  BY SchedConstants DEF TimeInv
<1>2. /\ ticks' = (ticks + 1) % Word
      /\ ticks' % HZ = 0 => since' = 0
      /\ ticks' % HZ # 0 => since' = since + 1
  BY DEF TimerIRQ, SecondOver
<1>3. CASE ticks' % HZ = 0
  BY <1>2, <1>3
<1>4. CASE ticks' % HZ # 0
  <2>1. ticks' = ticks + 1
    <3>1. ticks' # ticks + 1 => ticks' = 0
      BY <1>2, TickCounts
    <3>2. 0 % HZ = 0
      BY <1>1, RemainderSelf
    <3>3. QED
      BY <1>4, <3>1, <3>2
  <2>2. ticks % HZ \in 0 .. (HZ - 1)
    BY <1>1
  <2>3. ticks % HZ # HZ - 1
    <3>1. ticks \in Int
      BY <1>1
    <3>2. ticks % HZ = HZ - 1 => (ticks + 1) % HZ = 0
      BY <1>1, <3>1, RemainderWraps
    <3>3. QED
      BY <1>4, <2>1, <3>2
  <2>4. (ticks + 1) % HZ = (ticks % HZ) + 1
    <3> DEFINE r == ticks % HZ
    <3>1. r \in Nat /\ r + 1 < HZ
      BY <1>1, <2>2, <2>3
    <3>2. ticks \in Int /\ ticks % HZ = r
      BY <1>1
    <3> HIDE DEF r
    <3>3. (ticks + 1) % HZ = r + 1
      BY <1>1, <3>1, <3>2, RemainderNext
    <3>4. QED
      BY <3>3 DEF r
  <2>5. QED
    BY <1>1, <1>2, <1>4, <2>1, <2>4
<1>5. QED
  BY <1>3, <1>4

LEMMA TimerStep == ASSUME TimeInv, TimerIRQ PROVE TimeInv'
<1>1. /\ ticks' = (ticks + 1) % Word
      /\ pc \in {"run", "hlt"} \/ stepped
      /\ elapsed' = IF pc # "run" /\ elapsed < Word THEN elapsed + 1 ELSE elapsed
      /\ stepped' = FALSE
      /\ pc' = IF pc = "hlt" THEN "test" ELSE pc
      /\ start' = start /\ wait' = wait
  BY DEF TimerIRQ, Interrupt
<1>2. Word \in Nat \ {0}
  BY SchedConstants
<1>3. /\ ticks' \in 0 .. (Word - 1)
      /\ ticks' = ticks + 1 \/ ticks' = ticks + 1 - Word
  BY <1>1, TickCounts
<1>4. since' = ticks' % HZ
  BY TickSince
<1>5. CASE pc = "run"
  BY <1>1, <1>3, <1>4, <1>5 DEF TimeInv
<1>6. CASE pc # "run"
  <2>1. elapsed <= wait /\ wait <= Word - 3 /\ elapsed \in Nat /\ (ticks - start) % Word = elapsed
    BY <1>1, <1>6 DEF TimeInv
  <2>2. elapsed + 1 < Word /\ ticks - start \in Int
    BY <1>2, <2>1 DEF TimeInv
  <2>3. (ticks - start + 1) % Word = elapsed + 1 /\ (ticks - start + 1 - Word) % Word = elapsed + 1
    BY <1>2, <2>1, <2>2, RemainderNext
  <2>4. ticks' - start' = ticks - start + 1 \/ ticks' - start' = ticks - start + 1 - Word
    BY <1>1, <1>2, <1>3 DEF TimeInv
  <2>5. (ticks' - start') % Word = elapsed + 1
    BY <2>3, <2>4
  <2>6. elapsed' = elapsed + 1 /\ pc' # "run"
    BY <1>1, <1>2, <1>6, <2>2
  <2>7. QED
    BY <1>1, <1>3, <1>4, <1>6, <2>1, <2>5, <2>6 DEF TimeInv
<1>7. QED
  BY <1>5, <1>6

LEMMA OtherStep == ASSUME TimeInv, OtherIRQ PROVE TimeInv'
<1>1. /\ UNCHANGED <<ticks, since, stepped, elapsed, start, wait>>
      /\ pc' = IF pc = "hlt" THEN "test" ELSE pc
  BY DEF OtherIRQ, Interrupt, clock
<1>2. QED
  BY <1>1 DEF TimeInv

LEMMA SleepStep == ASSUME TimeInv, sleep PROVE TimeInv'
<1>1. /\ start' = ticks /\ wait' \in Waits /\ elapsed' = 0 /\ pc' = "test"
      /\ ticks' = ticks /\ since' = since
  BY DEF sleep, clock
<1>2. Word \in Nat \ {0} /\ wait' \in Nat /\ wait' <= Word - 3
  BY <1>1, SchedConstants
<1>3. (ticks' - start') % Word = 0
  <2>1. ticks' - start' = 0
    BY <1>1 DEF TimeInv
  <2>2. 0 % Word = 0
    BY <1>2, RemainderSelf
  <2>3. QED
    BY <2>1, <2>2
<1>4. /\ ticks' \in 0 .. (Word - 1) /\ start' \in 0 .. (Word - 1) /\ since' = ticks' % HZ
      /\ (ticks' - start') % Word = elapsed'
  <2>1. ticks \in 0 .. (Word - 1) /\ since = ticks % HZ
    BY DEF TimeInv
  <2>2. (ticks' - start') % Word = elapsed'
    BY <1>1, <1>3, Zenon
  <2>3. since' = ticks' % HZ
    BY <1>1, <2>1, Zenon
  <2>4. QED
    BY <1>1, <2>1, <2>2, <2>3, Zenon
<1>5. elapsed' \in Nat /\ elapsed' <= wait' /\ elapsed' <= wait' + 1
  <2>1. elapsed' = 0 /\ wait' \in Nat
    BY <1>1, <1>2, Zenon
  <2>2. \A w \in Nat : 0 \in Nat /\ 0 <= w /\ 0 <= w + 1
    OBVIOUS
  <2>3. QED
    BY <2>1, <2>2, Zenon
<1>6. pc' = "test"
  BY <1>1
<1>7. QED
  BY <1>2, <1>4, <1>5, <1>6 DEF TimeInv

LEMMA TestStep == ASSUME TimeInv, SleepTest PROVE TimeInv'
<1>1. /\ pc = "test" /\ pc' = IF (ticks - start) % Word < wait THEN "before_hlt" ELSE "run"
      /\ UNCHANGED <<ticks, since, start, wait, elapsed>>
  BY DEF SleepTest, StillEarly, clock
<1>2. QED
  BY <1>1 DEF TimeInv

LEMMA HltStep == ASSUME TimeInv, SleepHlt PROVE TimeInv'
<1>1. /\ pc = "before_hlt" /\ pc' = "hlt"
      /\ UNCHANGED <<ticks, since, start, wait, elapsed>>
  BY DEF SleepHlt, clock
<1>2. QED
  BY <1>1 DEF TimeInv

LEMMA StepTime == TimeInv /\ [Next]_vars => TimeInv'
<1> SUFFICES ASSUME TimeInv, [Next]_vars PROVE TimeInv'
  OBVIOUS
<1>1. CASE task_create_kernel \/ sti \/ FirstSwitch \/ Lost \/ UNCHANGED vars
  <2>1. UNCHANGED <<ticks, since, start, wait, elapsed, stepped, pc>>
    BY <1>1 DEF task_create_kernel, sti, FirstSwitch, Lost, vars, clock, sleeping
  <2>2. QED
    BY <2>1 DEF TimeInv
<1>2. CASE sleep \/ SleepTest \/ SleepHlt
  BY <1>2, SleepStep, TestStep, HltStep
<1>3. CASE TimerIRQ \/ OtherIRQ
  BY <1>3, TimerStep, OtherStep
<1>4. QED
  BY <1>1, <1>2, <1>3 DEF Next

\* The invariant of the clock and of sleep.
THEOREM SchedTime == Spec => []TimeInv
<1>1. QED
  BY InitTime, StepTime, PTL DEF Spec

\* sleep waits for the ticks it was asked for and at most one more, wherever
\* the counter wraps and the interrupts fall.
THEOREM SchedSleep == Spec => []SleepInTime
<1>1. TimeInv => SleepInTime
  BY DEF TimeInv, SleepInTime
<1>2. QED
  BY <1>1, SchedTime, PTL

\* seconds never falls behind the ticks.
THEOREM SchedSeconds == Spec => []SecondsInTime
<1>1. TimeInv => SecondsInTime
  BY SchedConstants DEF TimeInv, SecondsInTime
<1>2. QED
  BY <1>1, SchedTime, PTL

-----------------------------------------------------------------------------
(* Least members, for induction                                             *)

\* A nonempty set of numbers has a least one.
LEMMA LowestOf ==
    ASSUME NEW S, S \subseteq Nat, S # {}
    PROVE  \E f \in S : \A g \in S : f <= g
<1>1. IsWellFoundedOn(OpToRel(<, Nat), Nat)
  BY NatLessThanWellFounded
<1>2. PICK f \in S : \A g \in S : ~ (<<g, f>> \in OpToRel(<, Nat))
  BY <1>1, WFMin
<1>3. ASSUME NEW g \in S PROVE f <= g
  <2>1. f \in Nat /\ g \in Nat
    OBVIOUS
  <2>2. <<g, f>> \in Nat \X Nat /\ <<g, f>>[1] = g /\ <<g, f>>[2] = f
    BY <2>1
  <2>3. ~ (<<g, f>>[1] < <<g, f>>[2])
    BY <1>2, <2>2, Zenon DEF OpToRel
  <2>4. QED
    BY <2>1, <2>3
<1>4. QED
  BY <1>2, <1>3

-----------------------------------------------------------------------------
(* The ring of tasks                                                        *)

Made == next_pid - 1
\* The tasks in the order of their creation, and the first again.
RingLink ==
    /\ next_pid \in 1 .. (created + 1) /\ created \in 0 .. Creations
    /\ next = [t \in 1 .. Made |-> IF t = Made THEN 1 ELSE t + 1]

Mod(k) == (ready_queue - 1 + k) % Made
Visit == [k \in 0 .. Creations |-> Mod(k) + 1]
NthDef(f) == f = [k \in 0 .. Creations |-> IF k = 0 THEN ready_queue ELSE next[f[k - 1]]]

LEMMA VisitSolves ==
    ASSUME RingLink, ready_queue \in 1 .. Made
    PROVE  NthDef(Visit)
<1>0. Made \in Nat \ {0} /\ ready_queue \in Nat
  BY SchedConstants DEF RingLink, Made
<1> HIDE DEF Made
<1>1. Mod(0) + 1 = ready_queue
  <2>1. (ready_queue - 1) % Made = ready_queue - 1
    BY <1>0, RemainderSelf
  <2>2. QED
    BY <1>0, <2>1 DEF Mod
<1>2. ASSUME NEW k \in 1 .. Creations
      PROVE  Mod(k) + 1 = next[Mod(k - 1) + 1]
  <2> DEFINE x == ready_queue - 1 + (k - 1)
             r == x % Made
  <2>1. x \in Int /\ r \in 0 .. (Made - 1)
    BY <1>0, SchedConstants
  <2>2. Mod(k - 1) = r /\ Mod(k) = (x + 1) % Made
    BY <1>0, SchedConstants DEF Mod
  <2>3. next[r + 1] = IF r + 1 = Made THEN 1 ELSE r + 2
    BY <1>0, <2>1 DEF RingLink
  <2>r. x % Made = r
    OBVIOUS
  <2> HIDE DEF x, r
  <2>4. CASE r + 1 = Made
    <3>0. x % Made = Made - 1
      BY <1>0, <2>1, <2>r, <2>4
    <3>1. (x + 1) % Made = 0
      BY <1>0, <2>1, <3>0, RemainderWraps
    <3>2. QED
      BY <2>2, <2>3, <2>4, <3>1
  <2>5. CASE r + 1 # Made
    <3>0. r \in Nat /\ r + 1 < Made
      BY <1>0, <2>1, <2>5
    <3>1. (x + 1) % Made = r + 1
      BY <1>0, <2>1, <2>r, <3>0, RemainderNext
    <3>2. QED
      BY <2>1, <2>2, <2>3, <2>5, <3>1
  <2>6. QED
    BY <2>4, <2>5
<1>3. ASSUME NEW k \in 0 .. Creations
      PROVE  Visit[k] = IF k = 0 THEN ready_queue ELSE next[Visit[k - 1]]
  <2>1. CASE k = 0
    BY <1>1, <2>1 DEF Visit
  <2>2. CASE k # 0
    <3>1. k \in 1 .. Creations /\ k - 1 \in 0 .. Creations
      BY <2>2, SchedConstants
    <3>2. QED
      BY <1>2, <2>2, <3>1 DEF Visit
  <2>3. QED
    BY <2>1, <2>2
<1>4. Visit = [k \in 0 .. Creations |-> Visit[k]]
  BY DEF Visit
<1>5. QED
  BY <1>3, <1>4, Zenon DEF NthDef

\* The recursive definition has one solution only.
LEMMA NthIs ==
    ASSUME RingLink, ready_queue \in 1 .. Made
    PROVE  \A k \in 0 .. Creations : Nth[k] = Mod(k) + 1
<1>1. NthDef(Nth)
  <2>1. \E f : NthDef(f)
    BY VisitSolves
  <2>2. Nth = CHOOSE f : NthDef(f)
    BY Zenon DEF Nth, NthDef
  <2>3. QED
    BY <2>1, <2>2, Zenon
<1>2. NthDef(Visit)
  BY VisitSolves
<1> DEFINE D == {k \in 0 .. Creations : Nth[k] # Visit[k]}
<1>3. ASSUME D # {} PROVE FALSE
  <2>1. D \subseteq Nat
    BY SchedConstants
  <2>2. PICK k \in D : \A j \in D : k <= j
    BY <1>3, <2>1, LowestOf
  <2>3. k \in 0 .. Creations /\ Nth[k] # Visit[k]
    BY <2>2
  <2>a. \A j \in 0 .. Creations : j < k => Nth[j] = Visit[j]
    BY <2>2, <2>3, SchedConstants
  <2> HIDE DEF D
  <2>4. CASE k = 0
    BY <1>1, <1>2, <2>3, <2>4 DEF NthDef
  <2>5. CASE k # 0
    <3>1. k - 1 \in 0 .. Creations /\ k - 1 < k
      BY <2>3, <2>5, SchedConstants
    <3>2. Nth[k - 1] = Visit[k - 1]
      BY <2>a, <3>1
    <3>3. Nth[k] = next[Nth[k - 1]] /\ Visit[k] = next[Visit[k - 1]]
      BY <1>1, <1>2, <2>3, <2>5 DEF NthDef
    <3>4. QED
      BY <2>3, <3>2, <3>3
  <2>6. QED
    BY <2>4, <2>5
<1>4. QED
  BY <1>3 DEF Visit

\* Where k steps from ready_queue lead, in less than a round.
LEMMA Round ==
    ASSUME RingLink, ready_queue \in 1 .. Made
    PROVE  /\ \A k \in 0 .. Creations : Nth[k] \in 1 .. Made
           /\ \A k \in 0 .. (Made - 1) :
                 Nth[k] = IF ready_queue + k <= Made THEN ready_queue + k ELSE ready_queue + k - Made
<1>0. Made \in Nat \ {0} /\ ready_queue \in Nat /\ Made <= Creations
  BY SchedConstants DEF RingLink, Made
<1>1. ASSUME NEW k \in 0 .. Creations PROVE Nth[k] \in 1 .. Made
  <2>1. Nth[k] = Mod(k) + 1
    BY NthIs
  <2>2. Mod(k) \in 0 .. (Made - 1)
    BY <1>0, SchedConstants DEF Mod
  <2>3. QED
    BY <1>0, <2>1, <2>2
<1>2. ASSUME NEW k \in 0 .. (Made - 1)
      PROVE  Nth[k] = IF ready_queue + k <= Made THEN ready_queue + k ELSE ready_queue + k - Made
  <2>1. Nth[k] = ((ready_queue - 1 + k) % Made) + 1
    BY <1>0, NthIs, SchedConstants DEF Mod
  <2>2. CASE ready_queue + k <= Made
    <3>1. ready_queue - 1 + k \in 0 .. (Made - 1)
      BY <1>0, <2>2
    <3>2. (ready_queue - 1 + k) % Made = ready_queue - 1 + k
      BY <1>0, <3>1, RemainderSelf
    <3>3. QED
      BY <1>0, <2>1, <2>2, <3>2
  <2>3. CASE ready_queue + k > Made
    <3> DEFINE x == ready_queue - 1 + k
               r == x - Made
    <3>1. x \in Int /\ r \in 0 .. (Made - 1) /\ x = Made * 1 + r
      BY <1>0, <2>3
    <3>2. r = ready_queue - 1 + k - Made
      BY <1>0
    <3>3. Nth[k] = (x % Made) + 1
      BY <2>1
    <3> HIDE DEF x, r
    <3>4. x % Made = r
      BY <1>0, <3>1, RemainderIs
    <3>5. QED
      BY <1>0, <2>3, <3>2, <3>3, <3>4
  <2>4. QED
    BY <1>0, <2>2, <2>3
<1>3. QED
  BY <1>1, <1>2

\* The ring of sched.c: the tasks in the order of their creation; the place
\* where scheduler_pick_next goes on is the first one until interrupts come.
RInv ==
    /\ TypeOK
    /\ RingLink
    /\ ~enabled /\ cpu = None /\ Made # 0 => ready_queue = 1

LEMMA CountTasks == ASSUME RInv PROVE Made \in Nat /\ Tasks = 1 .. Made /\ Cardinality(Tasks) = Made
<1>1. Made \in Nat /\ Tasks = 1 .. Made
  BY SchedConstants DEF RInv, TypeOK, RingLink, Made
<1>2. Cardinality(1 .. Made) = Made
  BY <1>1, FS_Interval
<1>3. QED
  BY <1>1, <1>2

LEMMA RingOne == RInv => OneRing
<1> SUFFICES ASSUME RInv, Tasks # {}
             PROVE  /\ {Nth[k] : k \in 0 .. (Cardinality(Tasks) - 1)} = Tasks
                    /\ next[Nth[Cardinality(Tasks) - 1]] = ready_queue
  BY DEF RInv, OneRing
<1>1. Made \in Nat /\ Tasks = 1 .. Made /\ Cardinality(Tasks) = Made
  BY CountTasks
<1>2. RingLink /\ ready_queue \in 1 .. Made
  BY <1>1 DEF RInv, TypeOK, None
<1>3. /\ \A k \in 0 .. Creations : Nth[k] \in 1 .. Made
      /\ \A k \in 0 .. (Made - 1) :
             Nth[k] = IF ready_queue + k <= Made THEN ready_queue + k ELSE ready_queue + k - Made
  BY <1>2, Round
<1>4. Made \in Nat \ {0} /\ Made <= Creations
  BY <1>1, SchedConstants DEF RInv, RingLink, Made
<1> HIDE DEF Made
<1>5. ASSUME NEW t \in 1 .. Made PROVE \E k \in 0 .. (Made - 1) : Nth[k] = t
  <2>1. CASE t >= ready_queue
    <3>1. t - ready_queue \in 0 .. (Made - 1) /\ ready_queue + (t - ready_queue) = t
      BY <1>2, <1>4, <2>1
    <3>2. Nth[t - ready_queue] = t
      BY <1>2, <1>3, <1>4, <3>1
    <3>3. QED
      BY <3>1, <3>2
  <2>2. CASE t < ready_queue
    <3> DEFINE k == t - ready_queue + Made
    <3>1. k \in 0 .. (Made - 1) /\ ready_queue + k > Made /\ ready_queue + k - Made = t
      BY <1>2, <1>4, <2>2
    <3>2. Nth[k] = t
      BY <1>2, <1>3, <1>4, <3>1
    <3>3. QED
      BY <3>1, <3>2
  <2>3. QED
    BY <1>2, <1>4, <2>1, <2>2
<1>6. {Nth[k] : k \in 0 .. (Made - 1)} = 1 .. Made
  <2>1. \A k \in 0 .. (Made - 1) : k \in 0 .. Creations
    BY <1>4, SchedConstants
  <2>2. \A k \in 0 .. (Made - 1) : Nth[k] \in 1 .. Made
    BY <1>3, <2>1, Zenon
  <2>3. QED
    BY <1>5, <2>2, Zenon
<1>7. next[Nth[Made - 1]] = ready_queue
  <2>1. Made - 1 \in 0 .. (Made - 1)
    BY <1>4
  <2>2. Nth[Made - 1] = IF ready_queue + (Made - 1) <= Made THEN ready_queue + (Made - 1) ELSE ready_queue + (Made - 1) - Made
    BY <1>3, <2>1
  <2>3. next = [t \in 1 .. Made |-> IF t = Made THEN 1 ELSE t + 1]
    BY <1>2 DEF RingLink
  <2>4. QED
    BY <1>2, <1>4, <2>2, <2>3
<1>8. QED
  BY <1>1, <1>6, <1>7

LEMMA InitRing == Init => RInv
<1> SUFFICES ASSUME Init PROVE RInv
  OBVIOUS
<1>1. Made = 0 /\ 1 .. Made = {} /\ DOMAIN next = {} /\ DOMAIN state = {} /\ next_pid = 1
  BY DEF Init, Made
<1>2. next = [t \in 1 .. Made |-> IF t = Made THEN 1 ELSE t + 1]
  BY <1>1 DEF Init
<1>3. next \in [Tasks -> Tasks] /\ state \in [Tasks -> {"READY", "RUNNING"}]
  BY <1>1 DEF Init, Tasks
<1>4. RingLink
  BY <1>1, <1>2, SchedConstants DEF Init, RingLink
<1>5. Tasks = 1 .. (next_pid - 1) /\ Tasks = {}
  BY <1>1 DEF Tasks
<1>6. TypeOK
  <2>1. /\ ready_queue = None /\ current_task = None /\ cpu = None /\ enabled \in BOOLEAN
        /\ pc \in {"run", "test", "before_hlt", "hlt"} /\ stepped \in BOOLEAN /\ wait = 0
    BY DEF Init
  <2>2. ticks \in 0 .. (Word - 1) /\ seconds \in 0 .. (Word - 1) /\ start \in 0 .. (Word - 1)
    BY SchedConstants DEF Init
  <2>3. next_pid \in 1 .. (created + 1) /\ created \in 0 .. Creations
    BY <1>4 DEF RingLink
  <2>4. wait \in Waits \cup {0}
    BY <2>1
  <2>5. QED
    BY <1>3, <1>5, <2>1, <2>2, <2>3, <2>4, Zenon DEF TypeOK
<1>7. QED
  BY <1>1, <1>4, <1>6 DEF RInv

\* task_create_kernel with memory: the new task between the last and the first.
LEMMA AddLinks ==
    ASSUME RInv, ~enabled, cpu = None, created < Creations, scheduler_add_task(next_pid),
           created' = created + 1, next_pid' = next_pid + 1
    PROVE  /\ RingLink' /\ ready_queue' = 1
           /\ DOMAIN next' = 1 .. next_pid /\ next' \in [1 .. next_pid -> 1 .. next_pid]
<1>1. Made \in Nat /\ Tasks = 1 .. Made /\ next_pid = Made + 1 /\ Made' = Made + 1
  BY CountTasks, SchedConstants DEF Made, RInv, RingLink
<1>2. next = [t \in 1 .. Made |-> IF t = Made THEN 1 ELSE t + 1]
  BY DEF RInv, RingLink
<1>3. /\ next_pid' \in 1 .. (created' + 1) /\ created' \in 0 .. Creations
  BY SchedConstants DEF RInv, RingLink
<1>a. ready_queue = None <=> Made = 0
  <2>1. ready_queue = None <=> 1 .. Made = {}
    BY <1>1 DEF RInv, TypeOK
  <2>2. 1 .. Made = {} <=> Made = 0
    BY <1>1
  <2>3. QED
    BY <2>1, <2>2
<1> HIDE DEF Made
<1>4. /\ ready_queue' = 1
      /\ next' = [t \in 1 .. (Made + 1) |-> IF t = Made + 1 THEN 1 ELSE t + 1]
  <2>1. CASE Made = 0
    <3>1. ready_queue' = 1 /\ next' = Extend(next, 1, 1)
      BY <1>1, <1>a, <2>1 DEF scheduler_add_task
    <3>2. QED
      BY <1>1, <1>2, <2>1, <3>1 DEF Extend
  <2>2. CASE Made # 0
    <3>1. ready_queue = 1 /\ ready_queue # None
      BY <1>1, <1>a, <2>2 DEF RInv, None
    <3> DEFINE tail == CHOOSE t \in Tasks : next[t] = ready_queue
    <3>2. tail = Made
      <4>1. Made \in Tasks /\ next[Made] = 1
        BY <1>1, <1>2, <2>2
      <4>2. \A t \in Tasks : next[t] = 1 => t = Made
        BY <1>1, <1>2, <2>2
      <4>3. tail \in Tasks /\ next[tail] = ready_queue
        BY <3>1, <4>1
      <4>4. QED
        BY <3>1, <4>2, <4>3
    <3>3. ready_queue' = ready_queue /\ next' = [Extend(next, next_pid, ready_queue) EXCEPT ![tail] = next_pid]
      BY <3>1 DEF scheduler_add_task
    <3> HIDE DEF tail
    <3>4. next' = [Extend(next, Made + 1, 1) EXCEPT ![Made] = Made + 1]
      BY <1>1, <3>1, <3>2, <3>3
    <3>5. Extend(next, Made + 1, 1) = [t \in 1 .. (Made + 1) |-> IF t = Made + 1 THEN 1 ELSE IF t = Made THEN 1 ELSE t + 1]
      BY <1>1, <1>2 DEF Extend
    <3>6. QED
      BY <1>1, <2>2, <3>1, <3>3, <3>4, <3>5
  <2>3. QED
    BY <2>1, <2>2
<1>5. RingLink'
  BY <1>1, <1>3, <1>4 DEF RingLink
<1>6. QED
  BY <1>1, <1>4, <1>5

LEMMA CreateRing == ASSUME RInv, task_create_kernel PROVE RInv'
<1>1. /\ created < Creations /\ ~enabled /\ cpu = None /\ created' = created + 1
      /\ UNCHANGED <<current_task, enabled, cpu, ticks, seconds, pc, start, wait, stepped>>
  BY DEF task_create_kernel, clock, sleeping
<1>2. CASE UNCHANGED <<next, state, ready_queue, next_pid>>
  <2>1. Made' = Made
    BY <1>2 DEF Made
  <2>2. RingLink'
    BY <1>1, <1>2, <2>1, SchedConstants DEF RInv, RingLink
  <2>3. Tasks' = Tasks
    BY <1>2 DEF Tasks
  <2>4. TypeOK'
    BY <1>1, <1>2, <2>2, <2>3 DEF RInv, RingLink, TypeOK
  <2>5. QED
    BY <1>1, <1>2, <2>1, <2>2, <2>4 DEF RInv
<1>3. CASE /\ state' = Extend(state, next_pid, "READY")
           /\ scheduler_add_task(next_pid)
           /\ next_pid' = next_pid + 1
  <2>1. /\ RingLink' /\ ready_queue' = 1
        /\ DOMAIN next' = 1 .. next_pid /\ next' \in [1 .. next_pid -> 1 .. next_pid]
    BY <1>1, <1>3, AddLinks
  <2>2. next_pid \in Nat \ {0} /\ Tasks = 1 .. (next_pid - 1)
    BY SchedConstants DEF RInv, TypeOK
  <2>3. /\ state' \in [1 .. next_pid -> {"READY", "RUNNING"}]
        /\ \A t \in 1 .. next_pid : state'[t] = "RUNNING" => t = current_task
    <3>1. DOMAIN state = 1 .. (next_pid - 1) /\ \A t \in 1 .. (next_pid - 1) : state[t] \in {"READY", "RUNNING"}
      BY <2>2 DEF RInv, TypeOK
    <3>2. 1 .. (next_pid - 1) \cup {next_pid} = 1 .. next_pid
      BY <2>2
    <3>3. state' = [t \in 1 .. next_pid |-> IF t = next_pid THEN "READY" ELSE state[t]]
      BY <1>3, <3>1, <3>2 DEF Extend
    <3>4. \A t \in 1 .. (next_pid - 1) : state[t] = "RUNNING" => t = current_task
      BY <2>2 DEF RInv, TypeOK
    <3>5. \A t \in 1 .. next_pid : t # next_pid => t \in 1 .. (next_pid - 1)
      BY <2>2
    <3>6. QED
      BY <3>1, <3>3, <3>4, <3>5
  <2>4. Tasks' = 1 .. next_pid /\ Tasks' = 1 .. (next_pid' - 1)
    BY <1>3, <2>1, <2>2 DEF Tasks
  <2>5. next_pid' \in 1 .. (created' + 1) /\ created' \in 0 .. Creations /\ Tasks' # {} /\ 1 \in Tasks'
    <3>1. next_pid' \in 1 .. (created' + 1) /\ created' \in 0 .. Creations
      BY <2>1 DEF RingLink
    <3>2. 1 \in 1 .. next_pid
      BY <2>2
    <3>3. QED
      BY <2>4, <3>1, <3>2, Zenon
  <2>6. current_task' \in Tasks' \cup {None}
    BY <1>1, <2>2, <2>4 DEF RInv, TypeOK
  <2>7. TypeOK'
    <3>1. /\ Tasks' = 1 .. (next_pid' - 1) /\ next' \in [Tasks' -> Tasks']
          /\ state' \in [Tasks' -> {"READY", "RUNNING"}]
          /\ \A t \in Tasks' : state'[t] = "RUNNING" => t = current_task'
      BY <1>1, <2>1, <2>3, <2>4
    <3>2. ready_queue' \in Tasks' \cup {None} /\ (ready_queue' = None <=> Tasks' = {})
      BY <2>1, <2>5 DEF None
    <3>3. /\ cpu' = current_task' /\ enabled' \in BOOLEAN
          /\ ticks' \in 0 .. (Word - 1) /\ seconds' \in 0 .. (Word - 1)
          /\ pc' \in {"run", "test", "before_hlt", "hlt"}
          /\ start' \in 0 .. (Word - 1) /\ wait' \in Waits \cup {0} /\ stepped' \in BOOLEAN
      BY <1>1 DEF RInv, TypeOK
    <3>4. QED
      BY <2>5, <2>6, <3>1, <3>2, <3>3, Zenon DEF TypeOK
  <2>8. QED
    BY <2>1, <2>7 DEF RInv
<1>4. QED
  BY <1>2, <1>3 DEF task_create_kernel

\* scheduler_pick_next returns a task of the ring.
LEMMA PickedTask ==
    ASSUME RInv, NEW st, Picks(st)
    PROVE  Picked(st) \in Tasks /\ next[Picked(st)] \in Tasks
<1>1. Made \in Nat /\ Tasks = 1 .. Made /\ Cardinality(Tasks) = Made /\ Made <= Creations
  BY CountTasks, SchedConstants DEF RInv, RingLink, Made
<1>2. RingLink /\ ready_queue \in 1 .. Made
  BY <1>1 DEF RInv, TypeOK, Picks
<1>3. \A k \in 0 .. Creations : Nth[k] \in 1 .. Made
  BY <1>2, Round
<1>4. ReadyAt(st) \subseteq 0 .. (Made - 1) /\ ReadyAt(st) # {}
  BY <1>1 DEF ReadyAt, Picks
<1>5. ReadyAt(st) \subseteq Nat /\ ReadyAt(st) \subseteq 0 .. Creations
  BY <1>1, <1>4, SchedConstants
<1>6. \E k \in ReadyAt(st) : \A j \in ReadyAt(st) : k <= j
  BY <1>4, <1>5, LowestOf
<1>7. (CHOOSE k \in ReadyAt(st) : \A j \in ReadyAt(st) : k <= j) \in ReadyAt(st)
  BY <1>6
<1>8. Picked(st) \in Tasks
  BY <1>1, <1>3, <1>5, <1>7 DEF Picked
<1>9. QED
  BY <1>8 DEF RInv, TypeOK

\* A switch or none: the ring keeps its links.
LEMMA TurnRing ==
    ASSUME RInv, UNCHANGED <<next, next_pid, created>>, enabled' = TRUE \/ cpu' # None,
           enabled' \in BOOLEAN,
           ready_queue' \in Tasks \cup {None}, ready_queue' = None <=> Tasks = {},
           current_task' \in Tasks \cup {None}, cpu' = current_task',
           state' \in [Tasks -> {"READY", "RUNNING"}],
           \A t \in Tasks : state'[t] = "RUNNING" => t = current_task',
           ticks' \in 0 .. (Word - 1), seconds' \in 0 .. (Word - 1),
           pc' \in {"run", "test", "before_hlt", "hlt"},
           start' \in 0 .. (Word - 1), wait' \in Waits \cup {0}, stepped' \in BOOLEAN
    PROVE  RInv'
<1>1. Made' = Made /\ Tasks' = Tasks
  BY DEF Made, Tasks
<1>2. QED
  BY <1>1 DEF RInv, RingLink, TypeOK, None

LEMMA SwitchRing ==
    ASSUME RInv, NEW st \in [Tasks -> {"READY", "RUNNING"}], NEW task \in Tasks,
           \A t \in Tasks : st[t] = "READY",
           scheduler_switch_to(task, st)
    PROVE  /\ state' \in [Tasks -> {"READY", "RUNNING"}]
           /\ \A t \in Tasks : state'[t] = "RUNNING" => t = current_task'
           /\ current_task' = task /\ cpu' = task
  BY DEF scheduler_switch_to, task_switch_asm

LEMMA YieldRing ==
    ASSUME RInv, scheduler_yield
    PROVE  /\ ready_queue' \in Tasks \cup {None} /\ (ready_queue' = None <=> Tasks = {})
           /\ current_task' \in Tasks \cup {None} /\ cpu' = current_task'
           /\ state' \in [Tasks -> {"READY", "RUNNING"}]
           /\ \A t \in Tasks : state'[t] = "RUNNING" => t = current_task'
           /\ cpu' # cpu => cpu' # None
<1>0. None \notin Tasks
  BY SchedConstants DEF RInv, TypeOK, None
<1>1. CASE current_task = None
  <2>1. state' = state /\ ready_queue' = ready_queue /\ current_task' = current_task /\ cpu' = cpu
    BY <1>1 DEF scheduler_yield
  <2>2. /\ ready_queue \in Tasks \cup {None} /\ (ready_queue = None <=> Tasks = {})
        /\ current_task \in Tasks \cup {None} /\ cpu = current_task
        /\ state \in [Tasks -> {"READY", "RUNNING"}]
        /\ \A t \in Tasks : state[t] = "RUNNING" => t = current_task
    BY DEF RInv, TypeOK
  <2>3. QED
    BY <2>1, <2>2, Zenon
<1>2. CASE current_task # None
  <2> DEFINE st == [state EXCEPT ![current_task] = "READY"]
  <2>1. st \in [Tasks -> {"READY", "RUNNING"}] /\ \A t \in Tasks : st[t] = "READY"
    BY <1>2 DEF RInv, TypeOK
  <2>2. /\ ready_queue' = IF Picks(st) THEN next[Picked(st)] ELSE ready_queue
        /\ IF Picks(st) /\ Picked(st) # current_task THEN scheduler_switch_to(Picked(st), st)
           ELSE state' = st /\ UNCHANGED <<current_task, cpu>>
    BY <1>2 DEF scheduler_yield
  <2> HIDE DEF st
  <2>3. Picks(st) => Picked(st) \in Tasks /\ next[Picked(st)] \in Tasks
    BY PickedTask
  <2>4. ready_queue' \in Tasks \cup {None} /\ (ready_queue' = None <=> Tasks = {})
    BY <1>0, <2>2, <2>3 DEF RInv, TypeOK
  <2>5. CASE Picks(st) /\ Picked(st) # current_task
    <3>1. scheduler_switch_to(Picked(st), st) /\ Picked(st) \in Tasks
      BY <2>2, <2>3, <2>5
    <3>2. /\ state' \in [Tasks -> {"READY", "RUNNING"}]
          /\ \A t \in Tasks : state'[t] = "RUNNING" => t = current_task'
          /\ current_task' = Picked(st) /\ cpu' = Picked(st)
      BY <2>1, <3>1, SwitchRing
    <3>3. QED
      BY <1>0, <2>4, <3>1, <3>2
  <2>6. CASE ~(Picks(st) /\ Picked(st) # current_task)
    BY <2>1, <2>2, <2>4, <2>6 DEF RInv, TypeOK
  <2>7. QED
    BY <2>5, <2>6
<1>3. QED
  BY <1>1, <1>2

LEMMA StepRing == RInv /\ [Next]_vars => RInv'
<1> SUFFICES ASSUME RInv, [Next]_vars PROVE RInv'
  OBVIOUS
<1>1. CASE task_create_kernel
  BY <1>1, CreateRing
<1>2. CASE sti
  BY <1>2, TurnRing DEF sti, queue, clock, sleeping, RInv, TypeOK
<1>3. CASE Lost \/ UNCHANGED vars
  <2>1. UNCHANGED <<next, state, ready_queue, current_task, next_pid, created, enabled, cpu,
                    ticks, seconds, pc, start, wait, stepped>>
    BY <1>3 DEF Lost, vars, queue, clock, sleeping
  <2>2. Made' = Made /\ Tasks' = Tasks
    BY <2>1 DEF Made, Tasks
  <2>3. QED
    BY <2>1, <2>2 DEF RInv, RingLink, TypeOK
<1>4. CASE sleep \/ SleepTest \/ SleepHlt
  <2>1. /\ UNCHANGED <<next, state, ready_queue, current_task, next_pid, created, enabled, cpu,
                       ticks, seconds>>
        /\ pc' \in {"run", "test", "before_hlt", "hlt"} /\ stepped' = TRUE
        /\ start' \in {start, ticks} /\ wait' \in Waits \cup {wait}
    BY <1>4 DEF sleep, SleepTest, SleepHlt, queue, clock
  <2>2. Made' = Made /\ Tasks' = Tasks
    BY <2>1 DEF Made, Tasks
  <2>3. QED
    BY <2>1, <2>2 DEF RInv, RingLink, TypeOK
<1>5. CASE FirstSwitch
  <2>1. /\ Picks(state) /\ ready_queue' = next[Picked(state)]
        /\ scheduler_switch_to(Picked(state), state)
        /\ enabled /\ cpu = None
        /\ UNCHANGED <<next, next_pid, created, enabled, ticks, seconds, pc, start, wait, stepped>>
    BY <1>5 DEF FirstSwitch, clock, sleeping
  <2>2. Picked(state) \in Tasks /\ next[Picked(state)] \in Tasks
    BY <2>1, PickedTask
  <2>3. None \notin Tasks
    BY SchedConstants DEF RInv, TypeOK, None
  <2>4. /\ state \in [Tasks -> {"READY", "RUNNING"}] /\ \A t \in Tasks : state[t] = "READY"
    BY <2>1, <2>3 DEF RInv, TypeOK
  <2>5. /\ state' \in [Tasks -> {"READY", "RUNNING"}]
        /\ \A t \in Tasks : state'[t] = "RUNNING" => t = current_task'
        /\ current_task' = Picked(state) /\ cpu' = Picked(state)
    BY <2>1, <2>2, <2>4, SwitchRing
  <2>6. QED
    BY <2>1, <2>2, <2>3, <2>5, TurnRing DEF RInv, TypeOK
<1>6. CASE TimerIRQ \/ OtherIRQ
  <2>1. /\ scheduler_yield /\ enabled /\ enabled' = (cpu' = cpu)
        /\ pc' = IF pc = "hlt" THEN "test" ELSE pc
        /\ UNCHANGED <<next, next_pid, created, start, wait>>
    BY <1>6 DEF TimerIRQ, OtherIRQ, Interrupt
  <2>2. ticks' \in 0 .. (Word - 1) /\ seconds' \in 0 .. (Word - 1) /\ stepped' \in BOOLEAN
    <3>1. Word \in Nat \ {0} /\ ticks \in Int /\ seconds \in Int
      BY SchedConstants DEF RInv, TypeOK
    <3>2. (ticks + 1) % Word \in 0 .. (Word - 1) /\ (seconds + 1) % Word \in 0 .. (Word - 1)
      BY <3>1
    <3>3. QED
      BY <1>6, <3>2 DEF TimerIRQ, OtherIRQ, clock, RInv, TypeOK
  <2>3. /\ ready_queue' \in Tasks \cup {None} /\ (ready_queue' = None <=> Tasks = {})
        /\ current_task' \in Tasks \cup {None} /\ cpu' = current_task'
        /\ state' \in [Tasks -> {"READY", "RUNNING"}]
        /\ \A t \in Tasks : state'[t] = "RUNNING" => t = current_task'
        /\ cpu' # cpu => cpu' # None
    BY <2>1, YieldRing
  <2>4. enabled' \in BOOLEAN /\ (enabled' = TRUE \/ cpu' # None)
    BY <2>1, <2>3
  <2>5. pc' \in {"run", "test", "before_hlt", "hlt"} /\ start' \in 0 .. (Word - 1) /\ wait' \in Waits \cup {0}
    BY <2>1 DEF RInv, TypeOK
  <2>6. QED
    BY <2>1, <2>2, <2>3, <2>4, <2>5, TurnRing
<1>7. QED
  BY <1>1, <1>2, <1>3, <1>4, <1>5, <1>6 DEF Next

\* However many tasks are made, and whatever interrupts come: one ring.
THEOREM SchedOneRing == Spec => []OneRing
<1>1. QED
  BY InitRing, StepRing, RingOne, PTL DEF Spec
=============================================================================
