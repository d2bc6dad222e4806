------------------------------- MODULE Sched -------------------------------
(***************************************************************************)
(* Time and tasks: the scheduler (kernel/sched/sched.c, boot/task_switch.s *)
(* and the test tasks), the counters of kernel/core/time.c with sleep, and *)
(* the branch of isr_handler (kernel/core/idt.c) for hardware interrupts.  *)
(*                                                                         *)
(* A handler runs with interrupts disabled: one step.  A switch to a task  *)
(* never returns, so that the main loop is left for good and a handler     *)
(* that switches neither acknowledges its interrupt nor enables interrupts *)
(* again.  What runs after a switch is not modelled: task_switch_asm takes *)
(* kernel_stack for esp and esp for eip, and jumps into the stack.         *)
(***************************************************************************)
EXTENDS Integers, FiniteSets

CONSTANTS
    Creations,      \* calls of task_create_kernel at boot (2)
    Word,           \* counters are modulo Word (2^32)
    HZ,             \* ticks of a second (100)
    Waits,          \* what sleep is asked for, in ticks: ms / 10
    Starts          \* some code switches to a first task: sched.h offers the
                    \* calls, nothing makes them yet

ASSUME SchedConstants ==
    /\ Creations \in Nat
    /\ HZ \in Nat \ {0} /\ Word \in Nat /\ HZ < Word
    /\ Waits \subseteq 0 .. (Word - 3)
    /\ Starts \in BOOLEAN

Pids == 1 .. Creations
None == 0                   \* NULL; as the owner of the processor, the main loop

VARIABLES
    next, state,            \* fields of the tasks: pid -> ...
    ready_queue, current_task, next_pid,
    created,                \* calls of task_create_kernel so far
    enabled,                \* the processor accepts interrupts
    cpu,                    \* what it executes: the main loop, or a task
    ticks, seconds,
    pc, start, wait,        \* sleep in the main loop
    stepped,                \* sleep has taken a step since the last tick
    elapsed,                \* ticks since sleep was called (history)
    since                   \* ticks since seconds was last changed (history)

queue == <<next, state, ready_queue, current_task, next_pid, created>>
clock == <<ticks, seconds, since>>
sleeping == <<pc, start, wait, stepped, elapsed>>
vars == <<queue, enabled, cpu, clock, sleeping>>

Tasks == DOMAIN next

-----------------------------------------------------------------------------
(* The task ring                                                            *)

\* The k-th task of the ring, counted from ready_queue.
Nth[k \in 0 .. Creations] == IF k = 0 THEN ready_queue ELSE next[Nth[k - 1]]

Extend(f, x, v) == [y \in DOMAIN f \cup {x} |-> IF y = x THEN v ELSE f[y]]

\* Faulty variant: the old tail is not linked to the new task.
scheduler_add_task_unlinked(task) ==
    /\ ready_queue' = IF ready_queue = None THEN task ELSE ready_queue
    /\ next' = Extend(next, task, IF ready_queue = None THEN task ELSE ready_queue)

scheduler_add_task(task) ==
    IF ready_queue = None
    THEN /\ ready_queue' = task
         /\ next' = Extend(next, task, task)
    ELSE LET tail == CHOOSE t \in Tasks : next[t] = ready_queue
         IN  /\ next' = [Extend(next, task, ready_queue) EXCEPT ![tail] = task]
             /\ UNCHANGED ready_queue

\* task_create_kernel; kmalloc may fail for the stack or for the task.
task_create_kernel ==
    /\ created < Creations /\ ~enabled /\ cpu = None
    /\ created' = created + 1
    /\ \/ /\ state' = Extend(state, next_pid, "READY")
          /\ scheduler_add_task(next_pid)
          /\ next_pid' = next_pid + 1
       \/ UNCHANGED <<next, state, ready_queue, next_pid>>
    /\ UNCHANGED <<current_task, enabled, cpu, clock, sleeping>>

\* The places of ready tasks in the ring, given the states st.
ReadyAt(st) == {k \in 0 .. (Cardinality(Tasks) - 1) : st[Nth[k]] = "READY"}
Picks(st) == ready_queue # None /\ ReadyAt(st) # {}

Picked(st) == Nth[CHOOSE k \in ReadyAt(st) : \A j \in ReadyAt(st) : k <= j]

\* The stack of the main loop is given up.
task_switch_asm(task) == cpu' = task

scheduler_switch_to(task, st) ==
    /\ current_task' = task
    /\ state' = [st EXCEPT ![task] = "RUNNING"]
    /\ task_switch_asm(task)

\* scheduler_yield: a task that is picked again goes on, and stays ready.
scheduler_yield ==
    IF current_task = None THEN UNCHANGED <<state, ready_queue, current_task, cpu>>
    ELSE LET st == [state EXCEPT ![current_task] = "READY"] IN
         /\ ready_queue' = IF Picks(st) THEN next[Picked(st)] ELSE ready_queue
         /\ IF Picks(st) /\ Picked(st) # current_task THEN scheduler_switch_to(Picked(st), st)
            ELSE state' = st /\ UNCHANGED <<current_task, cpu>>

FirstSwitch ==
    /\ Starts /\ enabled /\ cpu = None /\ pc = "run"
    /\ Picks(state)
    /\ ready_queue' = next[Picked(state)]
    /\ scheduler_switch_to(Picked(state), state)
    /\ UNCHANGED <<next, next_pid, created, enabled, clock, sleeping>>

\* Nothing of the kernel is left that could act.
Lost == cpu # None /\ ~enabled /\ UNCHANGED vars

-----------------------------------------------------------------------------
(* Interrupts                                                               *)

\* What every interrupt does: scheduler_tick, and the end of a hlt.
Interrupt ==
    /\ enabled
    /\ scheduler_yield
    /\ enabled' = (cpu' = cpu)
    /\ pc' = IF pc = "hlt" THEN "test" ELSE pc
    /\ UNCHANGED <<next, next_pid, created, start, wait>>

\* Faulty variant: a second is one tick too long.
SecondOverLate(t) == t % (HZ + 1) = 0

SecondOver(t) == t % HZ = 0

\* The timer.  Ten milliseconds are enough for a step of sleep.
TimerIRQ ==
    /\ pc \in {"run", "hlt"} \/ stepped
    /\ ticks' = (ticks + 1) % Word
    /\ IF SecondOver(ticks') THEN seconds' = (seconds + 1) % Word /\ since' = 0
       ELSE since' = since + 1 /\ UNCHANGED seconds
    /\ elapsed' = IF pc # "run" /\ elapsed < Word THEN elapsed + 1 ELSE elapsed
    /\ stepped' = FALSE
    /\ Interrupt

\* Keyboard, mouse and the rest.
OtherIRQ ==
    /\ Interrupt
    /\ UNCHANGED <<clock, stepped, elapsed>>

-----------------------------------------------------------------------------
(* The main loop                                                            *)

sti ==
    /\ created = Creations /\ ~enabled /\ cpu = None
    /\ enabled' = TRUE
    /\ UNCHANGED <<queue, cpu, clock, sleeping>>

sleep ==
    /\ enabled /\ cpu = None /\ pc = "run"
    /\ start' = ticks
    /\ wait' \in Waits
    /\ elapsed' = 0
    /\ pc' = "test" /\ stepped' = TRUE
    /\ UNCHANGED <<queue, enabled, cpu, clock>>

\* Faulty variant: the time to wake up is met exactly or missed.
StillEarlyExact == (ticks - start) % Word # wait

\* Faulty variant: the time to wake up at does not wrap.
StillEarlyAbsolute == ticks < start + wait

StillEarly == (ticks - start) % Word < wait

SleepTest ==
    /\ cpu = None /\ pc = "test"
    /\ pc' = IF StillEarly THEN "before_hlt" ELSE "run"
    /\ stepped' = TRUE
    /\ UNCHANGED <<queue, enabled, cpu, clock, start, wait, elapsed>>

SleepHlt ==
    /\ cpu = None /\ pc = "before_hlt"
    /\ pc' = "hlt"
    /\ stepped' = TRUE
    /\ UNCHANGED <<queue, enabled, cpu, clock, start, wait, elapsed>>

Init ==
    /\ next = <<>> /\ state = <<>>
    /\ ready_queue = None /\ current_task = None /\ next_pid = 1 /\ created = 0
    /\ enabled = FALSE /\ cpu = None
    /\ ticks = 0 /\ seconds = 0 /\ since = 0
    /\ pc = "run" /\ start = 0 /\ wait = 0 /\ stepped = FALSE /\ elapsed = 0

Next ==
    \/ task_create_kernel \/ sti
    \/ sleep \/ SleepTest \/ SleepHlt
    \/ TimerIRQ \/ OtherIRQ
    \/ FirstSwitch \/ Lost

Spec == Init /\ [][Next]_vars

\* The processor executes the main loop, and the timer ticks.
FairSpec ==
    /\ Spec
    /\ WF_vars(SleepTest) /\ WF_vars(SleepHlt)
    /\ WF_vars(TimerIRQ)

-----------------------------------------------------------------------------
(* Properties                                                               *)

\* Types of the statics of sched.c and time.c.  The ring is empty exactly when
\* no task was created, and the processor executes a task exactly when there
\* is a current one; no other task is marked as running.
TypeOK ==
    /\ Tasks = 1 .. (next_pid - 1) /\ next_pid \in 1 .. (created + 1)
    /\ next \in [Tasks -> Tasks] /\ state \in [Tasks -> {"READY", "RUNNING"}]
    /\ ready_queue \in Tasks \cup {None} /\ (ready_queue = None <=> Tasks = {})
    /\ current_task \in Tasks \cup {None} /\ cpu = current_task
    /\ \A t \in Tasks : state[t] = "RUNNING" => t = current_task
    /\ created \in 0 .. Creations /\ enabled \in BOOLEAN
    /\ ticks \in 0 .. (Word - 1) /\ seconds \in 0 .. (Word - 1)
    /\ pc \in {"run", "test", "before_hlt", "hlt"}
    /\ start \in 0 .. (Word - 1) /\ wait \in Waits \cup {0}
    /\ stepped \in BOOLEAN

\* The state is well formed, and the list that scheduler_add_task builds and
\* scheduler_pick_next turns is one ring of all tasks: |Tasks| steps from
\* ready_queue visit each of them and come back.
OneRing ==
    /\ TypeOK
    /\ Tasks # {} =>
        /\ {Nth[k] : k \in 0 .. (Cardinality(Tasks) - 1)} = Tasks
        /\ next[Nth[Cardinality(Tasks) - 1]] = ready_queue

\* sleep waits for the ticks it was asked for, also when the counter wraps,
\* and for one more at most: the tick that comes between test and hlt.
SleepInTime ==
    /\ elapsed <= wait + 1
    /\ pc = "run" /\ cpu = None => elapsed >= wait

\* The seconds never fall behind the ticks, also when the counter wraps.
SecondsInTime == since < HZ

\* Sleep returns: the tick that comes before the hlt is not the last one, and
\* the wrap of the counter does not hide the time to wake up.
SleepReturns == pc # "run" ~> pc = "run"
=============================================================================
