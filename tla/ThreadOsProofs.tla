--------------------------- MODULE ThreadOsProofs ---------------------------
(***************************************************************************)
(* Proofs about ThreadOs for every number of processors and tasks.         *)
(***************************************************************************)
EXTENDS ThreadOs, TLAPS

\* The processors leave mpe_init in the order the pipe imposes.
BootInv ==
  /\ at[0] \notin {"off", "read"}
  /\ at[0] \in {"fork", "ioe"} => pipe = 0 /\ \A c \in Cpus \ {0} : at[c] \in {"off", "read"}
  /\ has_ioe /\ at[0] \notin {"fork", "ioe"} => ioe_init_done

\* What processor c runs, by where it is.
SchedOK(c) ==
  /\ at[c] \in Booting \cup Entry => currents[c] = NULL /\ running[c] = "boot"
  /\ at[c] = "store" =>
       \/ currents[c] = NULL /\ running[c] = "boot"
       \/ currents[c] \in Tasks /\ cpu_of(currents[c]) = c /\ running[c] \in TaskContext
  /\ at[c] \in {"next", "test"} => currents[c] \in Tasks
  /\ at[c] = "task" => currents[c] \in Tasks /\ cpu_of(currents[c]) = c /\ running[c] \in TaskContext

SchedInv == \A c \in Cpus : SchedOK(c)

\* The context of a task: what its processor runs of it, or what is saved.
Cur(t) == IF Runs(cpu_of(t), t) THEN running[cpu_of(t)] ELSE context[t]

LockInv ==
  /\ \A s, t \in Tasks : Cur(s) = "crit" /\ Cur(t) = "crit" => s = t
  /\ locked = 1 <=> \E t \in Tasks : Cur(t) = "crit"

IInv == TypeOK /\ BootInv /\ SchedInv /\ LockInv

-----------------------------------------------------------------------------
\* The processors are numbered from 0, and a task belongs to one of them.
LEMMA CpuOf == 0 \in Cpus /\ \A t \in Tasks : cpu_of(t) \in Cpus
  BY ThreadOsAssumption DEF Cpus, Tasks, cpu_of

LEMMA NullIsNoTask == NULL \notin Tasks
  BY DEF NULL, Tasks

LEMMA NextTask == \A t \in Tasks : next_task(t) \in Tasks /\ 0 \in Tasks
  BY ThreadOsAssumption DEF Tasks, next_task

LEMMA InitInv == Init => IInv
<1> SUFFICES ASSUME Init PROVE IInv
  OBVIOUS
<1>1. TypeOK
  <2>1. at \in [Cpus -> Booting \cup Entry \cup Handler \cup {"task"}]
    BY DEF Init, Booting
  <2>2. i \in 1 .. NCPU
    BY ThreadOsAssumption DEF Init
  <2> QED
    BY <2>1, <2>2 DEF Init, TypeOK, TaskContext
<1>2. BootInv
  BY CpuOf DEF Init, BootInv
<1>3. SchedInv
  BY DEF Init, SchedInv, SchedOK, Booting, Entry
<1>4. LockInv
  BY CpuOf DEF Init, LockInv, Cur, Runs
<1> QED
  BY <1>1, <1>2, <1>3, <1>4 DEF IInv

-----------------------------------------------------------------------------
LEMMA TypeStep == IInv /\ [Next]_vars => TypeOK'
<1> SUFFICES ASSUME IInv, [Next]_vars PROVE TypeOK'
  OBVIOUS
<1> USE CpuOf DEF TypeOK, mpeVars, taskVars, Goto
<1>0. TypeOK /\ SchedInv
  BY DEF IInv
<1>1. CASE fork
  BY <1>0, <1>1, ThreadOsAssumption DEF fork, Booting, Cpus
<1>2. CASE init_ioe
  BY <1>0, <1>2, ThreadOsAssumption DEF init_ioe, Booting
<1>3. CASE write
  BY <1>0, <1>3, ThreadOsAssumption DEF write, Entry
<1>4. ASSUME NEW c \in Cpus, read(c) PROVE TypeOK'
  BY <1>0, <1>4 DEF read, arrived, Entry
<1>5. ASSUME NEW c \in Cpus, iset(c) PROVE TypeOK'
  BY <1>0, <1>5 DEF iset, Entry
<1>6. ASSUME NEW c \in Cpus, interrupt(c) PROVE TypeOK'
  BY <1>0, <1>6 DEF interrupt, Handler
<1>7. ASSUME NEW c \in Cpus, store(c) PROVE TypeOK'
  <2>1. at' \in [Cpus -> Booting \cup Entry \cup Handler \cup {"task"}]
    BY <1>0, <1>7 DEF store, Handler
  <2>2. context' \in [Tasks -> TaskContext]
    <3>1. CASE currents[c] = NULL
      BY <1>0, <1>7, <3>1 DEF store
    <3>2. CASE currents[c] # NULL
      <4>1. running[c] \in TaskContext
        BY <1>0, <1>7, <3>2 DEF store, SchedInv, SchedOK
      <4> QED
        BY <1>0, <1>7, <3>2, <4>1 DEF store, saved
    <3> QED
      BY <3>1, <3>2
  <2>3. currents' \in [Cpus -> Tasks \cup {NULL}]
    BY <1>0, <1>7, NextTask, ThreadOsAssumption DEF store, Tasks
  <2> QED
    BY <1>0, <1>7, <2>1, <2>2, <2>3 DEF store
<1>8. ASSUME NEW c \in Cpus, next(c) PROVE TypeOK'
  <2>1. currents[c] \in Tasks
    BY <1>0, <1>8 DEF next, SchedInv, SchedOK
  <2> QED
    BY <1>0, <1>8, <2>1, NextTask DEF next, Handler
<1>9. ASSUME NEW c \in Cpus, test(c) PROVE TypeOK'
  <2>1. currents[c] \in Tasks
    BY <1>0, <1>9 DEF test, SchedInv, SchedOK
  <2> QED
    BY <1>0, <1>9, <2>1 DEF test, Handler
<1>10. ASSUME NEW c \in Cpus, lock(c) PROVE TypeOK'
  BY <1>0, <1>10 DEF lock, Move, TaskContext
<1>11. ASSUME NEW c \in Cpus, unlock(c) PROVE TypeOK'
  BY <1>0, <1>11 DEF unlock, Move, TaskContext, released
<1>12. CASE UNCHANGED vars
  BY <1>0, <1>12 DEF vars
<1> QED
  BY <1>1, <1>2, <1>3, <1>4, <1>5, <1>6, <1>7, <1>8, <1>9, <1>10, <1>11, <1>12
  DEF Next, Kernel

LEMMA BootStep == IInv /\ [Next]_vars => BootInv'
<1> SUFFICES ASSUME IInv, [Next]_vars PROVE BootInv'
  OBVIOUS
<1> USE CpuOf DEF BootInv, mpeVars, taskVars, Goto
<1>0. BootInv /\ at \in [Cpus -> Booting \cup Entry \cup Handler \cup {"task"}]
        /\ pipe \in Nat /\ i \in 1 .. NCPU
  BY DEF IInv, TypeOK
<1>1. CASE fork
  <2>1. CASE i < NCPU
    <3>1. i \in Cpus \ {0}
      BY <1>0, <2>1, ThreadOsAssumption DEF Cpus
    <3> QED
      BY <1>0, <1>1, <2>1, <3>1 DEF fork
  <2>2. CASE ~(i < NCPU)
    BY <1>0, <1>1, <2>2 DEF fork
  <2> QED
    BY <2>1, <2>2
<1>2. CASE init_ioe
  BY <1>0, <1>2 DEF init_ioe
<1>3. CASE write
  BY <1>0, <1>3 DEF write
<1>4. ASSUME NEW c \in Cpus, read(c) PROVE BootInv'
  BY <1>0, <1>4 DEF read, arrived
<1>5. ASSUME NEW c \in Cpus, at[c] \notin Booting, at'[c] \notin Booting,
             at' = [at EXCEPT ![c] = at'[c]], UNCHANGED mpeVars
      PROVE BootInv'
  BY <1>0, <1>5 DEF Booting
<1>6. ASSUME NEW c \in Cpus, iset(c) \/ interrupt(c) \/ store(c) \/ next(c) \/ test(c)
                              \/ lock(c) \/ unlock(c)
      PROVE BootInv'
  <2>1. at[c] \notin Booting /\ at'[c] \notin Booting /\ at' = [at EXCEPT ![c] = at'[c]]
    BY <1>0, <1>6 DEF iset, interrupt, store, next, test, lock, unlock, Booting, Entry, Handler
  <2>2. UNCHANGED mpeVars
    BY <1>6 DEF iset, interrupt, store, next, test, lock, unlock
  <2> QED
    BY <1>5, <2>1, <2>2
<1>7. CASE UNCHANGED vars
  BY <1>0, <1>7 DEF vars
<1> QED
  BY <1>1, <1>2, <1>3, <1>4, <1>6, <1>7 DEF Next, Kernel

-----------------------------------------------------------------------------
\* A step of processor c leaves the others as they are.
LEMMA Others ==
  ASSUME TypeOK, NEW c \in Cpus, NEW p, SchedInv,
         at' = [at EXCEPT ![c] = p],
         \A d \in Cpus \ {c} : currents'[d] = currents[d] /\ running'[d] = running[d]
  PROVE  \A d \in Cpus \ {c} : SchedOK(d)'
<1> TAKE d \in Cpus \ {c}
<1>1. at'[d] = at[d]
  BY DEF TypeOK
<1> QED
  BY <1>1 DEF SchedInv, SchedOK

LEMMA SchedStep == IInv /\ [Next]_vars => SchedInv'
<1> SUFFICES ASSUME IInv, [Next]_vars PROVE SchedInv'
  OBVIOUS
<1> USE CpuOf DEF mpeVars, taskVars, Goto
<1>0. TypeOK /\ SchedInv /\ BootInv
  BY DEF IInv
<1>a. /\ at \in [Cpus -> Booting \cup Entry \cup Handler \cup {"task"}]
      /\ currents \in [Cpus -> Tasks \cup {NULL}]
      /\ running \in [Cpus -> TaskContext \cup {"boot"}]
      /\ context \in [Tasks -> TaskContext]
  BY <1>0 DEF TypeOK
<1>1. CASE fork
  <2> SUFFICES ASSUME NEW c \in Cpus PROVE SchedOK(c)'
    BY DEF SchedInv
  <2>1. at'[c] = at[c] \/ (at[c] \in Booting /\ at'[c] \in Booting)
    <3>1. CASE i < NCPU
      <4>1. i \in Cpus \ {0}
        BY <1>0, <3>1, ThreadOsAssumption DEF Cpus, TypeOK
      <4> QED
        BY <1>0, <1>a, <1>1, <3>1, <4>1 DEF fork, BootInv, Booting
    <3>2. CASE ~(i < NCPU)
      BY <1>a, <1>1, <3>2 DEF fork, Booting
    <3> QED
      BY <3>1, <3>2
  <2>2. currents'[c] = currents[c] /\ running'[c] = running[c]
    BY <1>1 DEF fork
  <2> QED
    BY <1>0, <2>1, <2>2 DEF SchedInv, SchedOK, Booting, Entry
<1>2. CASE init_ioe
  BY <1>0, <1>a, <1>2 DEF init_ioe, SchedInv, SchedOK, Booting, Entry
<1>3. CASE write
  BY <1>0, <1>a, <1>3 DEF write, SchedInv, SchedOK, Booting, Entry
<1>4. ASSUME NEW c \in Cpus, read(c) PROVE SchedInv'
  BY <1>0, <1>a, <1>4 DEF read, SchedInv, SchedOK, Booting, Entry
<1>5. ASSUME NEW c \in Cpus, iset(c) PROVE SchedInv'
  BY <1>0, <1>a, <1>5 DEF iset, SchedInv, SchedOK, Booting, Entry
<1>6. ASSUME NEW c \in Cpus, interrupt(c) PROVE SchedInv'
  BY <1>0, <1>a, <1>6 DEF interrupt, SchedInv, SchedOK, Booting, Entry
<1>7. ASSUME NEW c \in Cpus, store(c) PROVE SchedInv'
  <2>0. currents[c] = NULL \/ currents[c] \in Tasks
    BY <1>a
  <2>1. SchedOK(c)'
    <3>1. currents'[c] \in Tasks
      BY <1>a, <1>7, <2>0, NextTask, ThreadOsAssumption DEF store, Tasks
    <3>2. at'[c] = "next"
      BY <1>a, <1>7 DEF store
    <3> QED
      BY <3>1, <3>2 DEF SchedOK, Booting, Entry
  <2>2. \A d \in Cpus \ {c} : SchedOK(d)'
    BY <1>0, <1>a, <1>7, Others DEF store
  <2> QED
    BY <2>1, <2>2 DEF SchedInv
<1>8. ASSUME NEW c \in Cpus, next(c) PROVE SchedInv'
  <2>1. SchedOK(c)'
    BY <1>0, <1>a, <1>8, NextTask DEF next, SchedInv, SchedOK, Booting, Entry
  <2>2. \A d \in Cpus \ {c} : SchedOK(d)'
    BY <1>0, <1>a, <1>8, Others DEF next
  <2> QED
    BY <2>1, <2>2 DEF SchedInv
<1>9. ASSUME NEW c \in Cpus, test(c) PROVE SchedInv'
  <2>0. currents[c] \in Tasks
    BY <1>0, <1>9 DEF test, SchedInv, SchedOK
  <2>1. SchedOK(c)'
    BY <1>0, <1>a, <1>9, <2>0 DEF test, Mine, SchedInv, SchedOK, Booting, Entry
  <2>2. \A d \in Cpus \ {c} : SchedOK(d)'
    BY <1>0, <1>a, <1>9, Others DEF test
  <2> QED
    BY <2>1, <2>2 DEF SchedInv
<1>10. ASSUME NEW c \in Cpus, lock(c) \/ unlock(c) PROVE SchedInv'
  BY <1>0, <1>a, <1>10 DEF lock, unlock, Move, SchedInv, SchedOK, Booting, Entry, TaskContext
<1>12. CASE UNCHANGED vars
  BY <1>0, <1>12 DEF vars, SchedInv, SchedOK
<1> QED
  BY <1>1, <1>2, <1>3, <1>4, <1>5, <1>6, <1>7, <1>8, <1>9, <1>10, <1>12
  DEF Next, Kernel

-----------------------------------------------------------------------------
\* A step that changes neither a context nor the lock.
LEMMA SameLock ==
  ASSUME LockInv, UNCHANGED locked, \A t \in Tasks : Cur(t)' = Cur(t)
  PROVE  LockInv'
  BY DEF LockInv

\* The task a processor runs belongs to it.
LEMMA CurRuns ==
  ASSUME SchedInv, NEW c \in Cpus, NEW t \in Tasks, Runs(c, t)
  PROVE  cpu_of(t) = c /\ Cur(t) = running[c]
  BY NullIsNoTask DEF SchedInv, SchedOK, Runs, Cur

LEMMA LockStep == IInv /\ [Next]_vars => LockInv'
<1> SUFFICES ASSUME IInv, [Next]_vars PROVE LockInv'
  OBVIOUS
<1> USE CpuOf DEF mpeVars, taskVars, Goto
<1>0. TypeOK /\ SchedInv /\ BootInv /\ LockInv
  BY DEF IInv
<1>a. /\ at \in [Cpus -> Booting \cup Entry \cup Handler \cup {"task"}]
      /\ currents \in [Cpus -> Tasks \cup {NULL}]
      /\ running \in [Cpus -> TaskContext \cup {"boot"}]
      /\ context \in [Tasks -> TaskContext]
      /\ locked \in {0, 1}
  BY <1>0 DEF TypeOK
<1>b. ASSUME \A c \in Cpus, t \in Tasks : Runs(c, t)' = Runs(c, t), UNCHANGED <<running, taskVars>>
      PROVE LockInv'
  <2>1. \A t \in Tasks : Cur(t)' = Cur(t)
    BY <1>b DEF Cur
  <2> QED
    BY <1>0, <1>b, <2>1, SameLock
<1>1. CASE fork \/ init_ioe \/ write
  <2>1. \A c \in Cpus : at'[c] = at[c] \/ (at[c] \in Booting \cup Entry /\ at'[c] \in Booting \cup Entry)
    <3>1. CASE fork /\ i < NCPU
      <4>1. i \in Cpus \ {0}
        BY <1>0, <3>1, ThreadOsAssumption DEF Cpus, TypeOK
      <4> QED
        BY <1>0, <1>a, <3>1, <4>1 DEF fork, BootInv, Booting
    <3>2. CASE (fork /\ ~(i < NCPU)) \/ init_ioe \/ write
      BY <1>a, <3>2 DEF fork, init_ioe, write, Booting, Entry
    <3> QED
      BY <1>1, <3>1, <3>2
  <2>2. UNCHANGED <<currents, running, taskVars>>
    BY <1>1 DEF fork, init_ioe, write
  <2>3. \A c \in Cpus, t \in Tasks : Runs(c, t)' = Runs(c, t)
    BY <2>1, <2>2 DEF Runs, Booting, Entry
  <2> QED
    BY <1>b, <2>2, <2>3
<1>2. ASSUME NEW c \in Cpus, read(c) \/ iset(c) \/ interrupt(c) \/ next(c) PROVE LockInv'
  <2>1. UNCHANGED <<running, taskVars>>
    BY <1>2 DEF read, iset, interrupt, next
  <2>2. \A d \in Cpus, t \in Tasks : Runs(d, t)' = Runs(d, t)
    <3>1. CASE interrupt(c)
      BY <1>0, <1>a, <3>1, NullIsNoTask DEF interrupt, Runs, SchedInv, SchedOK, Entry
    <3>2. CASE read(c) \/ iset(c) \/ next(c)
      BY <1>a, <3>2 DEF read, iset, next, Runs
    <3> QED
      BY <1>2, <3>1, <3>2
  <2> QED
    BY <1>b, <2>1, <2>2
<1>3. ASSUME NEW c \in Cpus, store(c) PROVE LockInv'
  <2>1. CASE currents[c] = NULL
    <3>1. \A d \in Cpus, t \in Tasks : Runs(d, t)' = Runs(d, t)
      BY <1>a, <1>3, <2>1, NullIsNoTask DEF store, Runs
    <3> QED
      BY <1>b, <1>3, <2>1, <3>1 DEF store
  <2>2. CASE currents[c] # NULL
    <3>1. currents[c] \in Tasks /\ Runs(c, currents[c])
      BY <1>a, <1>3, <2>2 DEF store, Runs
    <3>2. Cur(currents[c]) = running[c] /\ cpu_of(currents[c]) = c
      BY <1>0, <3>1, CurRuns
    <3>3. \A t \in Tasks : Cur(t)' = Cur(t)
      <4> TAKE t \in Tasks
      <4>1. CASE t = currents[c]
        BY <1>a, <1>3, <2>2, <3>1, <3>2, <4>1 DEF store, saved, Cur, Runs
      <4>2. CASE t # currents[c]
        BY <1>a, <1>3, <2>2, <3>1, <4>2 DEF store, saved, Cur, Runs
      <4> QED
        BY <4>1, <4>2
    <3> QED
      BY <1>0, <1>3, <3>3, SameLock DEF store
  <2> QED
    BY <2>1, <2>2
<1>4. ASSUME NEW c \in Cpus, test(c) PROVE LockInv'
  <2>0. currents[c] \in Tasks
    BY <1>0, <1>4 DEF test, SchedInv, SchedOK
  <2>1. \A t \in Tasks : Cur(t)' = Cur(t)
    <3> TAKE t \in Tasks
    <3>1. CASE Mine(c)
      <4>1. CASE t = currents[c]
        BY <1>a, <1>4, <2>0, <3>1, <4>1 DEF test, Mine, Cur, Runs
      <4>2. CASE t # currents[c]
        BY <1>a, <1>4, <2>0, <3>1, <4>2 DEF test, Cur, Runs
      <4> QED
        BY <4>1, <4>2
    <3>2. CASE ~Mine(c)
      BY <1>a, <1>4, <3>2 DEF test, Cur, Runs
    <3> QED
      BY <3>1, <3>2
  <2> QED
    BY <1>0, <1>4, <2>1, SameLock DEF test
<1>5. ASSUME NEW c \in Cpus, lock(c) \/ unlock(c) PROVE LockInv'
  <2>0. currents[c] \in Tasks /\ at[c] = "task"
    BY <1>0, <1>5 DEF lock, unlock, SchedInv, SchedOK
  <2> PICK t0 \in Tasks : t0 = currents[c]
    BY <2>0
  <2>1. t0 \in Tasks /\ Runs(c, t0)
    BY <2>0 DEF Runs
  <2>2. Cur(t0) = running[c] /\ cpu_of(t0) = c
    BY <1>0, <2>1, CurRuns
  <2>3. Cur(t0)' = running'[c]
    BY <1>a, <1>5, <2>1, <2>2 DEF lock, unlock, Move, Cur, Runs
  <2>4. \A t \in Tasks : t # t0 => Cur(t)' = Cur(t)
    <3> TAKE t \in Tasks
    <3> HAVE t # t0
    <3>1. UNCHANGED <<at, currents, context>> /\ \A d \in Cpus \ {c} : running'[d] = running[d]
      BY <1>a, <1>5 DEF lock, unlock, Move
    <3>2. Runs(cpu_of(t), t) => cpu_of(t) # c
      BY DEF Runs
    <3> QED
      BY <3>1, <3>2 DEF Cur, Runs
  <2>5. CASE lock(c) /\ locked = 0
    <3>1. Cur(t0)' = "crit" /\ locked' = 1
      BY <1>a, <2>3, <2>5 DEF lock, Move
    <3>2. \A t \in Tasks : Cur(t) # "crit"
      BY <1>0, <2>5 DEF LockInv
    <3> QED
      BY <2>1, <2>4, <3>1, <3>2 DEF LockInv
  <2>6. CASE lock(c) /\ locked # 0
    <3>1. UNCHANGED <<locked, running>>
      BY <1>a, <2>6 DEF lock
    <3> QED
      BY <1>0, <2>2, <2>3, <2>4, <3>1, SameLock
  <2>7. CASE unlock(c)
    <3>1. Cur(t0) = "crit" /\ Cur(t0)' = "lock" /\ locked' = 0
      BY <1>a, <2>2, <2>3, <2>7 DEF unlock, Move, released
    <3>2. \A t \in Tasks : t # t0 => Cur(t) # "crit"
      BY <1>0, <2>1, <3>1 DEF LockInv
    <3> QED
      BY <2>1, <2>4, <3>1, <3>2 DEF LockInv
  <2> QED
    BY <1>5, <2>5, <2>6, <2>7
<1>6. CASE UNCHANGED vars
  <2>1. \A c \in Cpus, t \in Tasks : Runs(c, t)' = Runs(c, t)
    BY <1>6 DEF vars, Runs
  <2> QED
    BY <1>b, <1>6, <2>1 DEF vars
<1> QED
  BY <1>1, <1>2, <1>3, <1>4, <1>5, <1>6 DEF Next, Kernel

-----------------------------------------------------------------------------
\* The invariant the theorems rest on: where the boot of the processors is, what
\* each of them runs by its control point, and who holds the lock.
THEOREM ThreadOsInvariant == Spec => []IInv
<1>1. IInv /\ [Next]_vars => IInv'
  BY TypeStep, BootStep, SchedStep, LockStep DEF IInv
<1> QED
  BY InitInv, <1>1, PTL DEF Spec

\* The tables and contexts of thread-os.c always hold what they are declared to,
\* for every number of processors and tasks.
THEOREM ThreadOsTypeCorrect == Spec => []TypeOK
<1>1. IInv => TypeOK
  BY DEF IInv
<1> QED
  BY <1>1, ThreadOsInvariant, PTL

\* However many processors and tasks there are, the scheduler of thread-os.c
\* never runs one task on two processors.
THEOREM ThreadOsTaskOnOneCpu == Spec => []TaskOnOneCpu
<1>1. IInv => TaskOnOneCpu
  BY CurRuns DEF IInv, TaskOnOneCpu
<1> QED
  BY <1>1, ThreadOsInvariant, PTL

\* The spin lock excludes, with tasks preempted at any point on any processor.
THEOREM ThreadOsMutualExclusion == Spec => []MutualExclusion
<1>1. IInv => MutualExclusion
  <2> SUFFICES ASSUME IInv PROVE MutualExclusion
    OBVIOUS
  <2>1. \A t \in Tasks : InCrit(t) <=> Cur(t) = "crit"
    <3> TAKE t \in Tasks
    <3>1. \A c \in Cpus : Runs(c, t) => cpu_of(t) = c
      BY CurRuns DEF IInv
    <3> QED
      BY <3>1, CpuOf DEF InCrit, Cur
  <2> QED
    BY <2>1 DEF IInv, LockInv, MutualExclusion
<1> QED
  BY <1>1, ThreadOsInvariant, PTL

\* The handshake of mpe_init: no processor enters the kernel before the devices
\* are initialised.
THEOREM ThreadOsEntersAfterIoe == Spec => []EntersAfterIoe
<1>1. IInv => EntersAfterIoe
  BY DEF IInv, BootInv, EntersAfterIoe, Booting
<1> QED
  BY <1>1, ThreadOsInvariant, PTL
=============================================================================
