------------------------------ MODULE ThreadOs ------------------------------
(***************************************************************************)
(* The thread kernel am-kernels/kernels/thread-os on the native port of    *)
(* the Abstract Machine, where a processor is a forked process (mpe.c) and *)
(* an interrupt is a signal (cte.c).  All processors share the tasks, the  *)
(* table currents and the spin lock; each schedules the tasks whose number *)
(* is its own modulo the number of processors, preempted by its timer.     *)
(*                                                                         *)
(* A task takes the lock, prints, releases it, for ever.  Its context is   *)
(* where it is in that loop: at the exchange of lock(), or in the critical *)
(* section.  A signal handler runs with signals blocked on its processor,  *)
(* interleaved with the other processors.  An interrupt that arrives while *)
(* shared library code runs is dropped (setup_stack returns), which is the *)
(* same as one that does not arrive.                                       *)
(***************************************************************************)
EXTENDS Integers, FiniteSets

CONSTANTS
  NCPU,             \* cpu_count(): the environment variable smp
  NTASK,            \* LENGTH(tasks)
  MAX_CPU,          \* entries of currents
  has_ioe           \* __am_has_ioe: the kernel has called ioe_init

ASSUME ThreadOsAssumption ==
  /\ NCPU \in Nat \ {0} /\ NTASK \in Nat \ {0} /\ MAX_CPU \in Nat
  /\ NCPU <= MAX_CPU
  /\ has_ioe \in BOOLEAN

VARIABLES
  at,               \* control point of each processor
  i,                \* the counter of mpe_init's loops
  pipe,             \* bytes in sync_pipe
  ioe_init_done,
  currents,         \* the task each processor runs, NULL before the first
  context,          \* the saved context of each task
  running,          \* the context a processor runs, or has interrupted
  locked

mpeVars == <<i, pipe, ioe_init_done>>
taskVars == <<context, locked>>
vars == <<at, mpeVars, currents, running, taskVars>>

Cpus == 0 .. NCPU - 1
Tasks == 0 .. NTASK - 1
NULL == -1

\* "lock": about to exchange.  "crit": between lock() and unlock().
TaskContext == {"lock", "crit"}

\* The processes before they enter the kernel: not forked yet; mpe_init's child
\* before read; its parent in the loop of forks, before __am_ioe_init, and in the
\* loop of writes.
Booting == {"off", "read", "fork", "ioe", "write"}

\* mp_entry before iset(true) and before yield().
Entry == {"iset", "yield"}

\* on_interrupt: storing ctx, at current = current->next, at the loop's test.
Handler == {"store", "next", "test"}

Init ==
  /\ at = [c \in Cpus |-> IF c = 0 THEN "fork" ELSE "off"]
  /\ i = 1
  /\ pipe = 0
  /\ ioe_init_done = FALSE
  /\ currents = [c \in Cpus |-> NULL]
  /\ context = [t \in Tasks |-> "lock"]          \* kcontext
  /\ running = [c \in Cpus |-> "boot"]
  /\ locked = 0

Goto(c, p) == at' = [at EXCEPT ![c] = p]

-----------------------------------------------------------------------------
(* mpe_init                                                                *)

\* One turn of the loop of forks, by processor 0.
fork ==
  /\ at[0] = "fork"
  /\ IF i < NCPU THEN at' = [at EXCEPT ![i] = "read"] /\ i' = i + 1
                 ELSE Goto(0, "ioe") /\ i' = 1
  /\ UNCHANGED <<pipe, ioe_init_done, currents, running, taskVars>>

init_ioe ==
  /\ at[0] = "ioe"
  /\ ioe_init_done' = has_ioe
  /\ Goto(0, "write")
  /\ UNCHANGED <<i, pipe, currents, running, taskVars>>

\* One turn of the loop of writes.
write ==
  /\ at[0] = "write"
  /\ IF i < NCPU THEN pipe' = pipe + 1 /\ i' = i + 1 /\ UNCHANGED at
                 ELSE Goto(0, "iset") /\ UNCHANGED <<i, pipe>>
  /\ UNCHANGED <<ioe_init_done, currents, running, taskVars>>

\* Mutant of arrived: a child does not wait for its byte.
arrived_at_once == TRUE

\* read blocks until a byte is there.
arrived == pipe > 0

\* The read of a child, up to entry().
read(c) ==
  /\ at[c] = "read"
  /\ arrived
  /\ pipe' = pipe - 1
  /\ Goto(c, "iset")
  /\ UNCHANGED <<i, ioe_init_done, currents, running, taskVars>>

-----------------------------------------------------------------------------
(* Interrupts and the scheduler                                            *)

iset(c) ==
  /\ at[c] = "iset"
  /\ Goto(c, "yield")
  /\ UNCHANGED <<mpeVars, currents, running, taskVars>>

\* A signal that is not dropped: the timer's or the keyboard's at any time once
\* signals are enabled, or the one yield() raises.
interrupt(c) ==
  /\ at[c] \in {"yield", "task"}
  /\ Goto(c, "store")
  /\ UNCHANGED <<mpeVars, currents, running, taskVars>>

\* Mutant of saved: the interrupted context is not stored.
not_saved(c) == context

\* current->context = ctx
saved(c) == [context EXCEPT ![currents[c]] = running[c]]

\* The first lines of on_interrupt; the context of mp_entry is dropped.
store(c) ==
  /\ at[c] = "store"
  /\ IF currents[c] = NULL
       THEN currents' = [currents EXCEPT ![c] = 0] /\ UNCHANGED context
       ELSE context' = saved(c) /\ UNCHANGED currents
  /\ Goto(c, "next")
  /\ UNCHANGED <<mpeVars, running, locked>>

\* task->next, as main links them
next_task(t) == IF t + 1 = NTASK THEN 0 ELSE t + 1

\* current = current->next
next(c) ==
  /\ at[c] = "next"
  /\ currents' = [currents EXCEPT ![c] = next_task(@)]
  /\ Goto(c, "test")
  /\ UNCHANGED <<mpeVars, running, taskVars>>

\* Mutant of cpu_of: tasks are numbered for one processor more.
cpu_of_off_by_one(t) == t % (NCPU + 1)

\* (current - tasks) % cpu_count()
cpu_of(t) == t % NCPU

\* Mutant of Mine: every task will do.
Mine_any(c) == TRUE

\* The loop has found a task of this processor.
Mine(c) == cpu_of(currents[c]) = c

\* The test of the scheduler's loop; when it ends, iret restores the context.
test(c) ==
  /\ at[c] = "test"
  /\ IF Mine(c) THEN running' = [running EXCEPT ![c] = context[currents[c]]] /\ Goto(c, "task")
                ELSE UNCHANGED running /\ Goto(c, "next")
  /\ UNCHANGED <<mpeVars, currents, taskVars>>

-----------------------------------------------------------------------------
(* The tasks                                                               *)

Move(c, p) == running' = [running EXCEPT ![c] = p]

\* Mutant of released: unlock() leaves the lock taken.
released_not == locked

\* What unlock() stores.
released == 0

\* atomic_xchg(&locked, 1) and the test of its result.
lock(c) ==
  /\ at[c] = "task" /\ running[c] = "lock"
  /\ IF locked = 0 THEN Move(c, "crit") ELSE UNCHANGED running
  /\ locked' = 1
  /\ UNCHANGED <<at, mpeVars, currents, context>>

\* printf and unlock().
unlock(c) ==
  /\ at[c] = "task" /\ running[c] = "crit"
  /\ locked' = released
  /\ Move(c, "lock")
  /\ UNCHANGED <<at, mpeVars, currents, context>>

Kernel(c) == read(c) \/ iset(c) \/ store(c) \/ next(c) \/ test(c)

Next ==
  \/ fork \/ init_ioe \/ write
  \/ \E c \in Cpus : Kernel(c) \/ interrupt(c) \/ lock(c) \/ unlock(c)

Spec == Init /\ [][Next]_vars

\* Processes run.  A timer interrupt returns again and again, and is not dropped
\* for ever while a task spins or waits in its own code.  Between two ticks, 10 ms
\* of its processor's time apart, the task that was resumed gets to run.
Fairness ==
  /\ WF_vars(fork \/ init_ioe \/ write)
  /\ \A c \in Cpus :
       /\ WF_vars(Kernel(c))
       /\ WF_vars(at[c] = "yield" /\ interrupt(c))
       /\ SF_vars(running[c] = "lock" /\ interrupt(c))
       /\ \A t \in Tasks : SF_vars(currents[c] = t /\ (lock(c) \/ unlock(c)))

FairSpec == Spec /\ Fairness

-----------------------------------------------------------------------------
(* Properties                                                              *)

\* The type invariant.
TypeOK ==
  /\ at \in [Cpus -> Booting \cup Entry \cup Handler \cup {"task"}]
  /\ i \in 1 .. NCPU
  /\ pipe \in Nat
  /\ ioe_init_done \in BOOLEAN
  /\ currents \in [Cpus -> Tasks \cup {NULL}]
  /\ context \in [Tasks -> TaskContext]
  /\ running \in [Cpus -> TaskContext \cup {"boot"}]
  /\ locked \in {0, 1}

\* c runs a task, or has interrupted it and not stored its context yet.
Runs(c, t) == at[c] \in {"task", "store"} /\ currents[c] = t

\* No task runs on two processors, where both would use its one stack.
TaskOnOneCpu ==
  \A c, d \in Cpus, t \in Tasks : Runs(c, t) /\ Runs(d, t) => c = d

\* The task is between lock() and unlock(), running or preempted.
InCrit(t) ==
  \/ \E c \in Cpus : Runs(c, t) /\ running[c] = "crit"
  \/ (\A c \in Cpus : ~Runs(c, t)) /\ context[t] = "crit"

\* However the tasks are preempted on their processors, one of them at most is
\* between lock() and unlock(), and the lock is taken exactly then.
MutualExclusion ==
  /\ \A s, t \in Tasks : InCrit(s) /\ InCrit(t) => s = t
  /\ locked = 1 <=> \E t \in Tasks : InCrit(t)

\* No processor enters the kernel before the parent has initialised the devices
\* they share.
EntersAfterIoe ==
  has_ioe => \A c \in Cpus : at[c] \notin Booting => ioe_init_done

\* The lock is taken and released for ever: a task preempted while it holds the
\* lock comes back, though tasks spin on it on its own processor.
LockMoves == []<>(locked = 1) /\ []<>(locked = 0)

\* Every task is resumed again and again, on processors that have one: a task
\* number below the number of processors.
EveryTaskRuns ==
  \A t \in Tasks : []<>(\E c \in Cpus : at[c] = "task" /\ currents[c] = t)
=============================================================================
