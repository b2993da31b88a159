--------------------------- MODULE DifftestProofs ---------------------------
(***************************************************************************)
(* What differential testing guarantees, for every program, register width *)
(* and amount by which the reference runs ahead; and, from "QEMU as a      *)
(* reference" on, what its connection to a reference that is a GDB stub    *)
(* guarantees, whatever the line damages.                                  *)
(***************************************************************************)
EXTENDS Difftest, GdbConn, FiniteSetTheorems, TLAPS

\* Only what the proofs need of the types: the two registers are numbers, as
\* wide as the machine's, while the machines are compared.
DutInv ==
  /\ dut \in [pc : Nat, x : 0 .. RegVals - 1]
  /\ skip_dut_nr_inst \in Nat
  /\ is_skip_ref \in BOOLEAN

IInv == DutInv /\ InSync

\* NEMU's registers stay in their width.
LEMMA DutStepType ==
  ASSUME DutInv, NEW err \in Errs, NEW io \in 0 .. RegVals - 1
  PROVE  DutStep(err, io) \in [pc : Nat, x : 0 .. RegVals - 1]
<1>1. (dut.x + 1 + err) % RegVals \in 0 .. RegVals - 1
  BY DifftestAssumption, SMT DEF DutInv, Errs
<1> QED
  BY <1>1 DEF DutInv, DutStep

\* difftest_step leaves the machines equal, or says that checking is paused, or
\* ends the run; the hypothesis is what its callers have just done.
LEMMA StepSync ==
  ASSUME NEW skip_ref \in BOOLEAN, NEW skip \in Nat, NEW r, NEW s,
         NEW d \in [pc : Nat, x : 0 .. RegVals - 1],
         difftest_step(skip_ref, skip, r, d, s),
         skip = 0 \/ ~skip_ref
  PROVE  IInv'
<1>1. dut' = d /\ skip_dut_nr_inst' \in Nat /\ is_skip_ref' \in BOOLEAN
  <2>1. is_skip_ref' = skip_ref \/ is_skip_ref' = FALSE
    BY DEF difftest_step, clears_skip_ref
  <2>2. is_skip_ref' \in BOOLEAN
    BY <2>1
  <2>3. skip_dut_nr_inst' \in {0, skip} \/ (skip > 0 /\ skip_dut_nr_inst' = skip - 1)
    BY DEF difftest_step
  <2>4. skip_dut_nr_inst' \in Nat
    BY <2>3
  <2>5. dut' = d
    BY DEF difftest_step
  <2> QED
    BY <2>2, <2>4, <2>5
<1>2. CASE skip > 0
  <2>1. CASE caught_up(r, d)
    <3>1. ref' = r /\ ~is_skip_ref' /\ state' = checkregs(r, d, s)
      BY <1>2, <2>1 DEF difftest_step
    <3>2. state' = "RUNNING" => r = d
      BY <3>1 DEF checkregs, isa_difftest_checkregs
    <3> QED
      BY <1>1, <3>1, <3>2 DEF IInv, DutInv, InSync
  <2>2. CASE ~caught_up(r, d)
    <3>1. ~is_skip_ref' /\ (state' = "RUNNING" => skip_dut_nr_inst' # 0)
      BY <1>2, <2>2 DEF difftest_step
    <3> QED
      BY <1>1, <3>1 DEF IInv, DutInv, InSync
  <2> QED
    BY <2>1, <2>2
<1>3. CASE ~(skip > 0) /\ skip_ref
  <2>1. ref' = d /\ ~is_skip_ref'
    BY <1>3 DEF difftest_step, regcpy_to_ref, clears_skip_ref
  <2> QED
    BY <1>1, <2>1 DEF IInv, DutInv, InSync
<1>4. CASE ~(skip > 0) /\ ~skip_ref
  <2>1. ref' = RefStep(r) /\ ~is_skip_ref' /\ state' = checkregs(RefStep(r), d, s)
    BY <1>4 DEF difftest_step
  <2>2. state' = "RUNNING" => ref' = d
    BY <2>1 DEF checkregs, isa_difftest_checkregs
  <2> QED
    BY <1>1, <2>1, <2>2 DEF IInv, DutInv, InSync
<1> QED
  BY <1>2, <1>3, <1>4

LEMMA IInvInit == Init => IInv
<1> SUFFICES ASSUME Init PROVE IInv
  OBVIOUS
<1>1. is_skip_ref \in BOOLEAN /\ InSync
  BY DEF Init, InSync
<1>2. dut \in [pc : Nat, x : 0 .. RegVals - 1] /\ skip_dut_nr_inst \in Nat
  BY DifftestAssumption DEF Init
<1> QED
  BY <1>1, <1>2 DEF IInv, DutInv

LEMMA IInvNext == IInv /\ [Next]_vars => IInv'
<1> SUFFICES ASSUME IInv, [Next]_vars PROVE IInv'
  OBVIOUS
<1>0. 0 \in 0 .. RegVals - 1 /\ 0 \in Errs /\ DutInv /\ skip_dut_nr_inst \in Nat
  BY DifftestAssumption DEF Errs, IInv, DutInv
<1>1. ASSUME NEW err \in Errs, exec_alu(err) PROVE IInv'
  <2>1. ~is_skip_ref
    BY <1>1 DEF exec_alu, Running, IInv, InSync
  <2>2. difftest_step(FALSE, skip_dut_nr_inst, ref, DutStep(err, 0), state)
    <3>1. is_skip_ref = FALSE \/ is_skip_ref # FALSE
      OBVIOUS
    <3> QED
      BY <1>1, <2>1 DEF exec_alu, difftest_step
  <2> QED
    BY <1>0, <2>2, DutStepType, StepSync
<1>2. ASSUME NEW io \in 0 .. RegVals - 1, exec_mmio(io) PROVE IInv'
  <2>1. difftest_step(TRUE, 0, ref, DutStep(0, io), state)
    BY <1>2 DEF exec_mmio, catch_up_skips
  <2>2. DutStep(0, io) \in [pc : Nat, x : 0 .. RegVals - 1] /\ 0 \in Nat /\ TRUE \in BOOLEAN
    BY <1>0, DutStepType
  <2> QED
    BY <2>1, <2>2, StepSync
<1>3. ASSUME exec_trap PROVE IInv'
  <2>1. difftest_step(TRUE, 0, ref, DutStep(0, 0), "END")
    BY <1>3 DEF exec_trap, catch_up_skips, trap_skips_ref
  <2>2. DutStep(0, 0) \in [pc : Nat, x : 0 .. RegVals - 1] /\ 0 \in Nat /\ TRUE \in BOOLEAN
    BY <1>0, DutStepType
  <2> QED
    BY <2>1, <2>2, StepSync
<1>4. ASSUME NEW err \in Errs, NEW nr_ref \in 1 .. MaxPack, NEW slack \in 0 .. Margin,
             exec_pack(err, nr_ref, nr_ref + slack)
      PROVE  IInv'
  <2>1. ~is_skip_ref
    BY <1>4 DEF exec_pack, Running, IInv, InSync
  <2>2. skip_dut_nr_inst + (nr_ref + slack) \in Nat
    BY <1>0, DifftestAssumption
  <2> DEFINE skip == skip_dut_nr_inst + (nr_ref + slack)
             r == RefRun[nr_ref]
             d == DutStep(err, 0)
  <2>3. difftest_step(is_skip_ref, skip, r, d, state)
    BY <1>4 DEF exec_pack
  <2>4. d \in [pc : Nat, x : 0 .. RegVals - 1] /\ is_skip_ref \in BOOLEAN
    BY <1>0, DutStepType DEF DutInv
  <2> HIDE DEF skip, r, d
  <2>5. skip \in Nat
    BY <2>2 DEF skip
  <2> QED
    BY <2>1, <2>3, <2>4, <2>5, StepSync
<1>5. CASE UNCHANGED vars
  BY <1>5 DEF vars, IInv, DutInv, InSync
<1> QED
  BY <1>1, <1>2, <1>3, <1>4, <1>5 DEF Next

-----------------------------------------------------------------------------
LEMMA IInvAlways == Spec => []IInv
BY IInvInit, IInvNext, PTL DEF Spec

\* Skipping never hides the next instruction: outside a catching up the two
\* machines agree before every instruction.
THEOREM DifftestInSync == Spec => []InSync
<1>1. IInv => InSync
  BY DEF IInv
<1> QED
  BY <1>1, IInvAlways, PTL

\* A miscomputed ordinary instruction is reported by the step that executes it.
THEOREM DifftestDetectsAtOnce == Spec => DetectsAtOnce
<1>1. IInv /\ [Next]_vars =>
        [skip_dut_nr_inst = 0 /\ last'.kind = "alu" /\ last'.err # 0 => state' = "ABORT"]_vars
  <2> SUFFICES ASSUME IInv, Next, skip_dut_nr_inst = 0, last'.kind = "alu", last'.err # 0
               PROVE  state' = "ABORT"
    BY DEF vars
  <2>1. PICK err \in Errs : exec_alu(err)
    <3>1. ~\E io \in 0 .. RegVals - 1 : exec_mmio(io)
      <4>1. Record("mmio", 0) => last' = [kind |-> "mmio", err |-> 0]
        BY Zenon DEF Record
      <4> QED
        <5>1. ASSUME NEW io \in 0 .. RegVals - 1, exec_mmio(io) PROVE FALSE
          <6>1. last' = [kind |-> "mmio", err |-> 0]
            BY <4>1, <5>1 DEF exec_mmio
          <6> QED
            BY <6>1
        <5> QED
          BY <5>1
    <3>2. ~exec_trap
      <4>1. Record("trap", 0) => last' = [kind |-> "trap", err |-> 0]
        BY Zenon DEF Record
      <4> QED
        BY <4>1 DEF exec_trap
    <3>3. ~\E err \in Errs, nr_ref \in 1 .. MaxPack, slack \in 0 .. Margin :
              exec_pack(err, nr_ref, nr_ref + slack)
      BY DEF exec_pack, Record
    <3> QED
      BY <3>1, <3>2, <3>3 DEF Next
  <2>2. err = 1
    BY <2>1 DEF exec_alu, Record, Errs
  <2>3. /\ state = "RUNNING" /\ prog[dut.pc] = "alu" /\ ref = dut /\ ~is_skip_ref
    BY <2>1 DEF exec_alu, Running, IInv, InSync
  <2>4. state' = checkregs(RefStep(ref), DutStep(err, 0), state)
    BY <2>1, <2>3 DEF exec_alu, difftest_step
  <2>5. RefStep(ref).x = (dut.x + 1) % RegVals /\ DutStep(err, 0).x = (dut.x + 1 + 1) % RegVals
    BY <2>2, <2>3 DEF RefStep, DutStep
  <2>6. (dut.x + 1) % RegVals # (dut.x + 1 + 1) % RegVals
    <3>1. dut.x \in 0 .. RegVals - 1 /\ RegVals \in Nat /\ RegVals >= 2
      BY DifftestAssumption DEF IInv, DutInv
    <3> QED
      BY <3>1, SMT
  <2>7. RefStep(ref) # DutStep(err, 0)
    BY <2>5, <2>6
  <2> QED
    BY <2>4, <2>7 DEF checkregs, isa_difftest_checkregs
<1> QED
  BY <1>1, IInvAlways, PTL DEF Spec, DetectsAtOnce

\* The comparison never turns a trap into an abort.
THEOREM DifftestTrapReported == Spec => []TrapReported
<1> DEFINE TInv == last.kind = "trap" => state = "END"
<1>1. Init => TInv
  BY DEF Init
<1>2. TInv /\ IInv /\ [Next]_vars => TInv'
  <2> SUFFICES ASSUME TInv, IInv, [Next]_vars PROVE TInv'
    OBVIOUS
  <2>1. CASE exec_trap
    BY <2>1 DEF exec_trap, trap_skips_ref, catch_up_skips, difftest_step
  <2>2. CASE \E err \in Errs : exec_alu(err)
    BY <2>2 DEF exec_alu, Record
  <2>3. CASE \E io \in 0 .. RegVals - 1 : exec_mmio(io)
    BY <2>3 DEF exec_mmio, Record
  <2>4. CASE \E err \in Errs, nr_ref \in 1 .. MaxPack, slack \in 0 .. Margin :
               exec_pack(err, nr_ref, nr_ref + slack)
    BY <2>4 DEF exec_pack, Record
  <2>5. CASE UNCHANGED vars
    BY <2>5 DEF vars
  <2> QED
    BY <2>1, <2>2, <2>3, <2>4, <2>5 DEF Next
<1>3. TInv => TrapReported
  BY DEF TrapReported
<1> QED
  BY <1>1, <1>2, <1>3, IInvAlways, PTL DEF Spec

-----------------------------------------------------------------------------
(* Running ahead.  RefRun is a recursive function; that it is one, and what it *)
(* computes, is shown by induction, in the form of sets of numbers closed under *)
(* successor.                                                                  *)

\* A set of numbers has a least one: the sets of the numbers below them are
\* finite, and strict inclusion of finite sets is well founded.
LEMMA LeastNat ==
  ASSUME NEW S \in SUBSET Nat, S # {}
  PROVE  \E m \in S : \A k \in S : m <= k
<1> DEFINE Below(k) == 0 .. (k - 1)
           T == {Below(k) : k \in S}
<1>1. T \subseteq FiniteSubsetsOf(Nat) /\ T # {}
  <2>1. ASSUME NEW k \in S PROVE Below(k) \in SUBSET Nat /\ IsFiniteSet(Below(k))
    BY FS_Interval
  <2> QED
    BY <2>1 DEF FiniteSubsetsOf
<1>2. PICK x \in T : \A y \in T : ~(<<y, x>> \in StrictSubsetOrdering(Nat))
  <2> HIDE DEF T
  <2> QED
    BY <1>1, FS_StrictSubsetOrderingWellFounded, WFMin, Zenon
<1>3. PICK m \in S : x = Below(m)
  OBVIOUS
<1>4. ASSUME NEW k \in S, k < m PROVE FALSE
  <2>1. Below(k) \in T /\ ~(<<Below(k), Below(m)>> \in StrictSubsetOrdering(Nat))
    BY <1>2, <1>3
  <2>2. Below(k) \subseteq Below(m) /\ k \in Below(m) /\ ~(k \in Below(k))
    BY <1>4
  <2>3. Below(k) \in SUBSET Nat /\ Below(m) \in SUBSET Nat
    OBVIOUS
  <2> HIDE DEF Below, T
  <2> QED
    BY <2>1, <2>2, <2>3 DEF StrictSubsetOrdering
<1> QED
  BY <1>4

\* Induction on the natural numbers.
LEMMA InductNat ==
  ASSUME NEW S \in SUBSET Nat, 0 \in S, \A k \in S : k + 1 \in S
  PROVE  S = Nat
<1> SUFFICES ASSUME Nat \ S # {} PROVE FALSE
  OBVIOUS
<1>1. PICK m \in Nat \ S : \A k \in Nat \ S : m <= k
  <2>1. Nat \ S \in SUBSET Nat
    OBVIOUS
  <2> QED
    BY <2>1, LeastNat
<1>2. m # 0 /\ m - 1 \in Nat
  BY <1>1
<1>3. m - 1 \in S
  BY <1>1, <1>2
<1> QED
  BY <1>1, <1>2, <1>3

\* g is REF's course over its next n instructions.
Course(g, n) == g[0] = ref /\ \A k \in 1 .. n : g[k] = RefStep(g[k - 1])

LEMMA CourseUnique ==
  ASSUME NEW g, NEW h, NEW n \in Nat, NEW m \in Nat, m <= n, Course(g, n), Course(h, m)
  PROVE  \A k \in 0 .. m : g[k] = h[k]
<1> DEFINE S == {k \in Nat : k <= m => g[k] = h[k]}
<1>1. 0 \in S
  BY DEF Course
<1>2. ASSUME NEW k \in S PROVE k + 1 \in S
  <2> SUFFICES ASSUME k + 1 <= m PROVE g[k + 1] = h[k + 1]
    OBVIOUS
  <2>1. k \in Nat /\ k <= m /\ g[k] = h[k]
    OBVIOUS
  <2>2. k + 1 \in 1 .. m /\ k + 1 \in 1 .. n /\ (k + 1) - 1 = k
    BY <2>1
  <2>3. g[k + 1] = RefStep(g[k]) /\ h[k + 1] = RefStep(h[k])
    BY <2>2 DEF Course
  <2> QED
    BY <2>1, <2>3
<1>3. S = Nat
  <2> HIDE DEF S
  <2>1. S \in SUBSET Nat
    BY DEF S
  <2> QED
    BY <1>1, <1>2, <2>1, InductNat
<1> QED
  BY <1>3

LEMMA CourseExists == \A n \in Nat : \E g : Course(g, n)
<1> DEFINE S == {n \in Nat : \E g : Course(g, n)}
<1>1. 0 \in S
  <2> DEFINE g == [k \in Nat |-> ref]
  <2>1. Course(g, 0)
    BY DEF Course
  <2> QED
    BY <2>1
<1>2. ASSUME NEW n \in S PROVE n + 1 \in S
  <2>1. PICK g : Course(g, n)
    OBVIOUS
  <2> DEFINE h == [k \in Nat |-> IF k = n + 1 THEN RefStep(g[n]) ELSE g[k]]
  <2>2. h[0] = ref
    BY <2>1 DEF Course
  <2>3. ASSUME NEW k \in 1 .. n + 1 PROVE h[k] = RefStep(h[k - 1])
    <3>1. CASE k = n + 1
      <4>1. h[k] = RefStep(g[n]) /\ h[n] = g[n] /\ k - 1 = n
        BY <3>1
      <4> QED
        BY <4>1
    <3>2. CASE k # n + 1
      <4>1. k \in 1 .. n /\ k \in Nat /\ k - 1 \in Nat /\ k - 1 # n + 1
        BY <3>2
      <4>2. h[k] = g[k] /\ h[k - 1] = g[k - 1]
        BY <3>2, <4>1
      <4> HIDE DEF h
      <4> QED
        BY <2>1, <4>1, <4>2 DEF Course
    <3> QED
      BY <3>1, <3>2
  <2>4. Course(h, n + 1)
    <3> HIDE DEF h
    <3> QED
      BY <2>2, <2>3 DEF Course
  <2> QED
    BY <2>4
<1>3. S = Nat
  <2> HIDE DEF S
  <2>1. S \in SUBSET Nat
    BY DEF S
  <2> QED
    BY <1>1, <1>2, <2>1, InductNat
<1> QED
  BY <1>3

\* RefRun is what its definition says.
LEMMA RefRunStep ==
  /\ RefRun[0] = ref
  /\ \A k \in Nat : RefRun[k + 1] = RefStep(RefRun[k])
<1> DEFINE G(n) == CHOOSE g : Course(g, n)
           F == [n \in Nat |-> G(n)[n]]
<1>1. ASSUME NEW n \in Nat PROVE Course(G(n), n)
  BY CourseExists
<1>2. F[0] = ref
  BY <1>1 DEF Course
<1>3. ASSUME NEW n \in Nat, n # 0 PROVE F[n] = RefStep(F[n - 1])
  <2>1. n - 1 \in Nat /\ n - 1 <= n /\ n \in 1 .. n /\ n - 1 \in 0 .. n - 1
    BY <1>3
  <2>2. Course(G(n), n) /\ Course(G(n - 1), n - 1)
    BY <1>1, <2>1
  <2> HIDE DEF G
  <2>3. G(n)[n - 1] = G(n - 1)[n - 1]
    BY <2>1, <2>2, CourseUnique
  <2>4. G(n)[n] = RefStep(G(n)[n - 1])
    BY <2>1, <2>2 DEF Course
  <2>5. F[n] = G(n)[n] /\ F[n - 1] = G(n - 1)[n - 1]
    BY <2>1
  <2> QED
    BY <2>3, <2>4, <2>5
<1>4. F = [k \in Nat |-> IF k = 0 THEN ref ELSE RefStep(F[k - 1])]
  <2> DEFINE E == [k \in Nat |-> IF k = 0 THEN ref ELSE RefStep(F[k - 1])]
  <2>1. ASSUME NEW k \in Nat PROVE F[k] = E[k]
    <3> HIDE DEF F
    <3> QED
      BY <1>2, <1>3
  <2>2. F = [k \in Nat |-> F[k]] /\ E = [k \in Nat |-> E[k]]
    OBVIOUS
  <2> HIDE DEF E
  <2>3. F = E
    BY <2>1, <2>2, Zenon
  <2> QED
    BY <2>3 DEF E
<1>5. RefRun = [k \in Nat |-> IF k = 0 THEN ref ELSE RefStep(RefRun[k - 1])]
  <2> HIDE DEF F
  <2> QED
    BY <1>4, Zenon DEF RefRun
<1>6. RefRun[0] = ref
  BY <1>5
<1>7. ASSUME NEW k \in Nat PROVE RefRun[k + 1] = RefStep(RefRun[k])
  <2>1. k + 1 \in Nat /\ k + 1 # 0 /\ (k + 1) - 1 = k
    OBVIOUS
  <2> QED
    BY <1>5, <2>1
<1> QED
  BY <1>6, <1>7

-----------------------------------------------------------------------------
(* Catching up.                                                               *)

InProgram(m) == m \in [pc : 0 .. ProgLen - 1, x : 0 .. RegVals - 1]

ProgramOK ==
  /\ prog \in [0 .. ProgLen - 1 -> Kind]
  /\ prog[ProgLen - 1] = "trap"

\* A correct machine in state d gets to r, one instruction after the other and
\* past no trap; tr is its course.
Leads(tr, d, r) ==
  /\ d.pc <= r.pc
  /\ tr[0] = d /\ tr[r.pc - d.pc] = r
  /\ \A k \in 0 .. r.pc - d.pc - 1 : tr[k + 1] = RefStep(tr[k]) /\ tr[k].pc = d.pc + k

Path(d, r) == \E tr : Leads(tr, d, r)

\* One instruction of REF in the program: it stays at the trap, and is still in the
\* program after any other, since the program ends in the trap.
LEMMA RefStepEffect ==
  ASSUME ProgramOK, NEW r, InProgram(r)
  PROVE  /\ InProgram(RefStep(r))
         /\ prog[r.pc] = "trap" => RefStep(r) = r
         /\ prog[r.pc] # "trap" => RefStep(r).pc = r.pc + 1
<1>1. r.pc \in 0 .. ProgLen - 1 /\ r.x \in 0 .. RegVals - 1 /\ ProgLen \in Nat /\ RegVals \in Nat /\ RegVals >= 2
  BY DifftestAssumption DEF InProgram
<1>2. prog[r.pc] = "trap" => RefStep(r) = r
  BY DEF RefStep
<1>3. (r.x + 1) % RegVals \in 0 .. RegVals - 1 /\ 0 \in 0 .. RegVals - 1
  BY <1>1
<1>4. ASSUME prog[r.pc] # "trap" PROVE InProgram(RefStep(r)) /\ RefStep(r).pc = r.pc + 1
  <2>1. r.pc # ProgLen - 1
    BY <1>4 DEF ProgramOK
  <2>2. r.pc + 1 \in 0 .. ProgLen - 1
    BY <1>1, <2>1
  <2>3. \E v \in 0 .. RegVals - 1 : RefStep(r) = [pc |-> r.pc + 1, x |-> v]
    BY <1>3, <1>4 DEF RefStep
  <2> QED
    BY <2>2, <2>3 DEF InProgram
<1> QED
  BY <1>2, <1>4

LEMMA PathHere ==
  ASSUME NEW d, d.pc \in Nat
  PROVE  Path(d, d)
<1> DEFINE tr == [k \in Nat |-> d]
<1>1. Leads(tr, d, d)
  BY DEF Leads
<1> QED
  BY <1>1 DEF Path

LEMMA PathEnd ==
  ASSUME NEW d, NEW r, d.pc \in Nat, r.pc = d.pc, Path(d, r)
  PROVE  d = r
<1>1. PICK tr : Leads(tr, d, r)
  BY DEF Path
<1>2. r.pc - d.pc = 0
  OBVIOUS
<1> QED
  BY <1>1, <1>2 DEF Leads

\* REF executes one more instruction.
LEMMA PathAhead ==
  ASSUME ProgramOK, NEW d, NEW r, d.pc \in Nat, InProgram(r), Path(d, r)
  PROVE  Path(d, RefStep(r))
<1>1. PICK tr : Leads(tr, d, r)
  BY DEF Path
<1>2. CASE prog[r.pc] = "trap"
  BY <1>2, RefStepEffect
<1>3. CASE prog[r.pc] # "trap"
  <2> DEFINE n == r.pc - d.pc
             up == [k \in Nat |-> IF k = n + 1 THEN RefStep(r) ELSE tr[k]]
  <2>1. RefStep(r).pc = r.pc + 1 /\ r.pc \in Nat /\ d.pc <= r.pc
    BY <1>1, <1>3, RefStepEffect, DifftestAssumption DEF InProgram, Leads
  <2>2. n \in Nat /\ RefStep(r).pc - d.pc = n + 1 /\ d.pc <= RefStep(r).pc /\ r.pc = d.pc + n
    BY <2>1
  <2>3. tr[0] = d /\ tr[n] = r
    BY <1>1 DEF Leads
  <2> HIDE DEF n
  <2>4. up[0] = d /\ up[n + 1] = RefStep(r)
    BY <2>2, <2>3
  <2>5. ASSUME NEW k \in 0 .. n PROVE up[k + 1] = RefStep(up[k]) /\ up[k].pc = d.pc + k
    <3>1. k \in Nat /\ k + 1 \in Nat /\ k # n + 1
      BY <2>2
    <3>2. up[k] = tr[k]
      BY <3>1
    <3>3. CASE k = n
      <4>1. up[k + 1] = RefStep(r)
        BY <3>1, <3>3
      <4> HIDE DEF up
      <4> QED
        BY <2>2, <2>3, <3>2, <3>3, <4>1
    <3>4. CASE k # n
      <4>1. k \in 0 .. n - 1 /\ k + 1 # n + 1
        BY <2>2, <3>4
      <4>2. up[k + 1] = tr[k + 1]
        BY <3>1, <4>1
      <4>3. tr[k + 1] = RefStep(tr[k]) /\ tr[k].pc = d.pc + k
        BY <1>1, <4>1 DEF Leads, n
      <4> HIDE DEF up
      <4> QED
        BY <3>2, <4>2, <4>3
    <3> QED
      BY <3>3, <3>4
  <2>6. Leads(up, d, RefStep(r))
    <3> HIDE DEF up
    <3>1. RefStep(r).pc - d.pc - 1 = n
      BY <2>2
    <3> QED
      BY <2>2, <2>4, <2>5, <3>1 DEF Leads
  <2> QED
    BY <2>6 DEF Path
<1> QED
  BY <1>2, <1>3

\* NEMU executes one instruction towards REF.
LEMMA PathBehind ==
  ASSUME NEW d, NEW r, d.pc \in Nat, r.pc \in Nat, d.pc < r.pc, Path(d, r),
         RefStep(d).pc = d.pc + 1
  PROVE  Path(RefStep(d), r)
<1>1. PICK tr : Leads(tr, d, r)
  BY DEF Path
<1> DEFINE down == [k \in Nat |-> tr[k + 1]]
           n == r.pc - d.pc
<1>2. n \in Nat /\ n > 0 /\ r.pc - RefStep(d).pc = n - 1
  OBVIOUS
<1> HIDE DEF n
<1>3. tr[0] = d /\ tr[n] = r /\ \A k \in 0 .. n - 1 : tr[k + 1] = RefStep(tr[k]) /\ tr[k].pc = d.pc + k
  BY <1>1 DEF Leads, n
<1>4. down[0] = RefStep(d)
  <2>1. 0 \in 0 .. n - 1 /\ 0 + 1 = 1
    BY <1>2
  <2>2. tr[1] = RefStep(d)
    BY <1>3, <2>1
  <2> QED
    BY <2>2
<1>5. down[n - 1] = r
  <2>1. n - 1 \in Nat /\ (n - 1) + 1 = n
    BY <1>2
  <2>2. down[n - 1] = tr[(n - 1) + 1]
    BY <2>1
  <2> QED
    BY <1>3, <2>1, <2>2
<1>6. ASSUME NEW k \in 0 .. n - 1 - 1
      PROVE  down[k + 1] = RefStep(down[k]) /\ down[k].pc = RefStep(d).pc + k
  <2>1. k \in Nat /\ k + 1 \in Nat /\ k + 1 \in 0 .. n - 1
    BY <1>2
  <2>2. down[k] = tr[k + 1] /\ down[k + 1] = tr[(k + 1) + 1]
    BY <2>1
  <2>3. tr[(k + 1) + 1] = RefStep(tr[k + 1]) /\ tr[k + 1].pc = d.pc + (k + 1)
    BY <1>3, <2>1
  <2> HIDE DEF down
  <2> QED
    BY <2>1, <2>2, <2>3
<1>7. Leads(down, RefStep(d), r)
  <2> HIDE DEF down
  <2>1. RefStep(d).pc <= r.pc
    OBVIOUS
  <2> QED
    BY <1>2, <1>4, <1>5, <1>6, <2>1 DEF Leads
<1> QED
  BY <1>7 DEF Path

\* Where REF is after it ran n instructions ahead.
LEMMA RefRunEffect ==
  ASSUME ProgramOK, InProgram(ref), NEW n \in Nat
  PROVE  /\ InProgram(RefRun[n])
         /\ ref.pc <= RefRun[n].pc /\ RefRun[n].pc <= ref.pc + n
         /\ n # 0 /\ prog[ref.pc] # "trap" => ref.pc < RefRun[n].pc
         /\ \A d : d.pc \in Nat /\ Path(d, ref) => Path(d, RefRun[n])
<1> DEFINE Ahead(k) ==
             /\ InProgram(RefRun[k])
             /\ ref.pc <= RefRun[k].pc /\ RefRun[k].pc <= ref.pc + k
             /\ k # 0 /\ prog[ref.pc] # "trap" => ref.pc < RefRun[k].pc
             /\ \A d : d.pc \in Nat /\ Path(d, ref) => Path(d, RefRun[k])
           S == {k \in Nat : Ahead(k)}
<1>0. ref.pc \in Nat
  BY DifftestAssumption DEF InProgram
<1>1. 0 \in S
  BY <1>0, RefRunStep
<1>2. ASSUME NEW k \in S PROVE k + 1 \in S
  <2>1. k \in Nat /\ Ahead(k)
    OBVIOUS
  <2> DEFINE r == RefRun[k]
  <2>2. RefRun[k + 1] = RefStep(r)
    BY <2>1, RefRunStep
  <2>3. /\ InProgram(r)
        /\ ref.pc <= r.pc /\ r.pc <= ref.pc + k
        /\ k # 0 /\ prog[ref.pc] # "trap" => ref.pc < r.pc
        /\ \A d : d.pc \in Nat /\ Path(d, ref) => Path(d, r)
    BY <2>1
  <2>4. k = 0 => r = ref
    BY RefRunStep
  <2> HIDE DEF r, Ahead, S
  <2>5. r.pc \in Nat
    BY <2>3, DifftestAssumption DEF InProgram
  <2>6. /\ InProgram(RefStep(r))
        /\ prog[r.pc] = "trap" => RefStep(r) = r
        /\ prog[r.pc] # "trap" => RefStep(r).pc = r.pc + 1
    BY <2>3, RefStepEffect
  <2>7. ref.pc <= RefStep(r).pc /\ RefStep(r).pc <= ref.pc + (k + 1)
    BY <1>0, <2>1, <2>3, <2>5, <2>6
  <2>8. prog[ref.pc] # "trap" => ref.pc < RefStep(r).pc
    BY <1>0, <2>1, <2>3, <2>4, <2>5, <2>6
  <2>9. \A d : d.pc \in Nat /\ Path(d, ref) => Path(d, RefStep(r))
    BY <2>3, PathAhead
  <2>10. Ahead(k + 1)
    BY <2>2, <2>6, <2>7, <2>8, <2>9 DEF Ahead
  <2> QED
    BY <2>1, <2>10 DEF S
<1>3. S = Nat
  <2> HIDE DEF S
  <2>1. S \in SUBSET Nat
    BY DEF S
  <2> QED
    BY <1>1, <1>2, <2>1, InductNat
<1>4. n \in S
  BY <1>3
<1>5. Ahead(n)
  <2> HIDE DEF Ahead
  <2> QED
    BY <1>4
<1> QED
  BY <1>5

-----------------------------------------------------------------------------
\* Both machines are in the program while the guest runs; REF is ahead of NEMU by
\* no more than is left to catch up, and, unless NEMU miscomputed something since
\* the registers were last copied, where a correct machine gets from NEMU's state.
CatchingUp ==
  state = "RUNNING" =>
    /\ InProgram(dut) /\ InProgram(ref)
    /\ skip_dut_nr_inst > 0 => dut.pc < ref.pc /\ ref.pc <= dut.pc + skip_dut_nr_inst
    /\ ~wrong => Path(dut, ref)

AInv == NoFalseAlarm /\ InSync /\ prog[ProgLen - 1] = "trap" /\ CatchingUp

LEMMA AInvInit == Init => AInv
<1> SUFFICES ASSUME Init PROVE AInv
  OBVIOUS
<1>1. ProgLen \in Nat /\ ProgLen > 0 /\ RegVals \in Nat /\ RegVals >= 2
  BY DifftestAssumption
<1>2. prog \in [0 .. ProgLen - 1 -> Kind] /\ prog[ProgLen - 1] = "trap"
  BY DEF Init
<1>3. dut \in Machine /\ InProgram(dut) /\ ref = dut /\ dut.pc = 0
  BY <1>1 DEF Init, Machine, InProgram
<1>4. is_skip_ref = FALSE /\ skip_dut_nr_inst = 0 /\ state = "RUNNING" /\ wrong = FALSE
  BY DEF Init
<1>5. last \in [kind : Kind \cup {"none"}, err : Errs]
  BY DEF Init, Errs
<1>6. Path(dut, ref)
  BY <1>3, PathHere
<1>7. InSync /\ CatchingUp
  BY <1>3, <1>4, <1>6 DEF InSync, CatchingUp
<1>8. NoFalseAlarm
  BY <1>2, <1>3, <1>4, <1>5 DEF NoFalseAlarm, TypeOK
<1> QED
  BY <1>2, <1>7, <1>8 DEF AInv

\* A path is a matter of the program, which does not change.
LEMMA PathStable ==
  ASSUME prog' = prog, Path(dut', ref')
  PROVE  Path(dut, ref)'
<1>1. PICK tr : Leads(tr, dut', ref')
  BY DEF Path
<1>2. \A k : RefStep(tr[k])' = RefStep(tr[k])
  BY DEF RefStep
<1>3. Leads(tr, dut, ref)'
  BY <1>1, <1>2 DEF Leads
<1> QED
  BY <1>3 DEF Path

\* What every instruction leaves in order, whatever the comparison says.
LEMMA AInvParts ==
  ASSUME prog \in [0 .. ProgLen - 1 -> Kind], prog[ProgLen - 1] = "trap", prog' = prog,
         wrong' \in BOOLEAN, last' \in [kind : Kind \cup {"none"}, err : Errs],
         dut' \in Machine, ref' \in Machine, is_skip_ref' = FALSE, skip_dut_nr_inst' \in Nat,
         state' \in {"RUNNING", "END", "ABORT"},
         state' = "ABORT" /\ ChecksRegs => wrong',
         state' = "RUNNING" =>
           /\ InProgram(dut') /\ InProgram(ref')
           /\ skip_dut_nr_inst' = 0 => ref' = dut'
           /\ skip_dut_nr_inst' > 0 => dut'.pc < ref'.pc /\ ref'.pc <= dut'.pc + skip_dut_nr_inst'
           /\ ~wrong' => Path(dut', ref')
  PROVE  AInv'
<1>1. TypeOK'
  BY DEF TypeOK
<1>2. NoFalseAlarm'
  BY <1>1 DEF NoFalseAlarm
<1>3. InSync'
  BY DEF InSync
<1>4. CatchingUp'
  <2>1. ~wrong' /\ state' = "RUNNING" => Path(dut, ref)'
    BY PathStable
  <2> QED
    BY <2>1 DEF CatchingUp, InProgram
<1> QED
  BY <1>2, <1>3, <1>4 DEF AInv

\* What is common to the instructions, of which nothing but the step of the
\* comparison differs.
Recorded ==
  /\ prog \in [0 .. ProgLen - 1 -> Kind] /\ prog[ProgLen - 1] = "trap" /\ prog' = prog
  /\ wrong' \in BOOLEAN /\ last' \in [kind : Kind \cup {"none"}, err : Errs]

LEMMA InProgramMachine ==
  ASSUME NEW m, InProgram(m)
  PROVE  m \in Machine /\ m.pc \in Nat /\ m.pc < ProgLen
BY DifftestAssumption DEF InProgram, Machine

\* REF gets NEMU's registers.
LEMMA CopyStep ==
  ASSUME Recorded, NEW r, NEW d \in Machine, NEW s \in {"RUNNING", "END"},
         difftest_step(TRUE, 0, r, d, s), s = "RUNNING" => InProgram(d)
  PROVE  AInv'
<1>1. dut' = d /\ ref' = d /\ is_skip_ref' = FALSE /\ skip_dut_nr_inst' = 0 /\ state' = s
  BY DEF difftest_step, regcpy_to_ref, clears_skip_ref
<1>2. d.pc \in Nat
  BY DifftestAssumption DEF Machine
<1>3. Path(dut', ref') /\ ~(skip_dut_nr_inst' > 0) /\ skip_dut_nr_inst' \in Nat
  BY <1>1, <1>2, PathHere
<1>4. /\ state' \in {"RUNNING", "END", "ABORT"} /\ ~(state' = "ABORT")
      /\ dut' \in Machine /\ ref' \in Machine
      /\ state' = "RUNNING" => InProgram(dut') /\ InProgram(ref')
  BY <1>1
<1> QED
  BY <1>1, <1>3, <1>4, AInvParts DEF Recorded

\* REF executes the same instruction and the registers are compared.
LEMMA CompareStep ==
  ASSUME Recorded, NEW r, NEW d, InProgram(d), InProgram(RefStep(r)),
         difftest_step(FALSE, 0, r, d, "RUNNING"), ~wrong' => RefStep(r) = d
  PROVE  AInv'
<1>1. /\ dut' = d /\ ref' = RefStep(r) /\ is_skip_ref' = FALSE /\ skip_dut_nr_inst' = 0
      /\ state' = checkregs(RefStep(r), d, "RUNNING")
  BY DEF difftest_step
<1>2. d \in Machine /\ d.pc \in Nat /\ RefStep(r) \in Machine
  BY InProgramMachine
<1>3. state' \in {"RUNNING", "ABORT"} /\ (state' = "RUNNING" => RefStep(r) = d)
      /\ (state' = "ABORT" /\ ChecksRegs => RefStep(r) # d)
  BY <1>1 DEF checkregs, isa_difftest_checkregs
<1>4. /\ state' \in {"RUNNING", "END", "ABORT"} /\ ~(skip_dut_nr_inst' > 0) /\ skip_dut_nr_inst' \in Nat
      /\ dut' \in Machine /\ ref' \in Machine /\ InProgram(dut') /\ InProgram(ref')
  BY <1>1, <1>2, <1>3
<1>5. state' = "RUNNING" => ref' = dut' /\ Path(dut', ref')
  BY <1>1, <1>2, <1>3, PathHere
<1>6. state' = "ABORT" /\ ChecksRegs => wrong'
  BY <1>3
<1> QED
  BY <1>1, <1>4, <1>5, <1>6, AInvParts DEF Recorded

\* NEMU catches up: when it is where REF is, and has made no mistake, it is in the
\* state that REF is in; and it gets there before the promise is used up.
LEMMA CatchUpStep ==
  ASSUME Recorded, NEW r, NEW d, InProgram(d), InProgram(r),
         NEW skip \in Nat, skip > 0, d.pc <= r.pc, r.pc < d.pc + skip,
         difftest_step(FALSE, skip, r, d, "RUNNING"), ~wrong' => Path(d, r)
  PROVE  AInv'
<1>1. dut' = d /\ ref' = r /\ is_skip_ref' = FALSE
  BY DEF difftest_step
<1>2. d \in Machine /\ d.pc \in Nat /\ r \in Machine /\ r.pc \in Nat
  BY InProgramMachine
<1>3. CASE r.pc = d.pc
  <2>1. skip_dut_nr_inst' = 0 /\ state' = checkregs(r, d, "RUNNING")
    BY <1>3 DEF difftest_step, caught_up
  <2>2. ~wrong' => d = r
    BY <1>2, <1>3, PathEnd
  <2>3. state' \in {"RUNNING", "ABORT"} /\ (state' = "RUNNING" => r = d)
        /\ (state' = "ABORT" /\ ChecksRegs => r # d)
    BY <2>1 DEF checkregs, isa_difftest_checkregs
  <2>4. /\ state' \in {"RUNNING", "END", "ABORT"} /\ ~(skip_dut_nr_inst' > 0) /\ skip_dut_nr_inst' \in Nat
        /\ dut' \in Machine /\ ref' \in Machine /\ InProgram(dut') /\ InProgram(ref')
    BY <1>1, <1>2, <2>1, <2>3
  <2>5. state' = "RUNNING" => ref' = dut' /\ Path(dut', ref')
    BY <1>1, <1>2, <2>3, PathHere
  <2>6. state' = "ABORT" /\ ChecksRegs => wrong'
    BY <2>2, <2>3
  <2> QED
    BY <1>1, <2>4, <2>5, <2>6, AInvParts DEF Recorded
<1>4. CASE r.pc # d.pc
  <2>1. skip # 1 /\ d.pc < r.pc
    BY <1>2, <1>4
  <2>2. skip_dut_nr_inst' = skip - 1 /\ state' = "RUNNING"
    BY <1>4, <2>1 DEF difftest_step, caught_up
  <2>3. skip - 1 \in Nat /\ skip - 1 > 0 /\ r.pc <= d.pc + (skip - 1)
    BY <1>2, <2>1
  <2>4. /\ state' \in {"RUNNING", "END", "ABORT"} /\ ~(state' = "ABORT")
        /\ skip_dut_nr_inst' \in Nat /\ ~(skip_dut_nr_inst' = 0)
        /\ dut'.pc < ref'.pc /\ ref'.pc <= dut'.pc + skip_dut_nr_inst'
    BY <1>1, <2>1, <2>2, <2>3
  <2>5. dut' \in Machine /\ ref' \in Machine /\ InProgram(dut') /\ InProgram(ref')
    BY <1>1, <1>2
  <2>6. ~wrong' => Path(dut', ref')
    BY <1>1
  <2> QED
    BY <1>1, <2>4, <2>5, <2>6, AInvParts DEF Recorded
<1> QED
  BY <1>3, <1>4

\* What NEMU does with one instruction other than the trap: it stays in the program,
\* and does what REF would do unless it errs or uses a device.
LEMMA DutStepEffect ==
  ASSUME ProgramOK, InProgram(dut), NEW err \in Errs, NEW io \in 0 .. RegVals - 1
  PROVE  /\ DutStep(err, io) \in Machine /\ DutStep(err, io).pc = dut.pc + 1
         /\ prog[dut.pc] # "trap" => InProgram(DutStep(err, io))
         /\ err = 0 /\ prog[dut.pc] \notin {"trap", "mmio"} => DutStep(err, io) = RefStep(dut)
<1>1. /\ dut.pc \in 0 .. ProgLen - 1 /\ dut.x \in 0 .. RegVals - 1 /\ ProgLen \in Nat
      /\ RegVals \in Nat /\ RegVals >= 2 /\ io \in 0 .. RegVals - 1 /\ err \in {0, 1}
  BY DifftestAssumption DEF InProgram, Errs
<1>2. (dut.x + 1 + err) % RegVals \in 0 .. RegVals - 1
  BY <1>1
<1>3. \E v \in 0 .. RegVals - 1 : DutStep(err, io) = [pc |-> dut.pc + 1, x |-> v]
  BY <1>1, <1>2 DEF DutStep
<1>4. dut.pc + 1 \in 0 .. ProgLen
  BY <1>1
<1>5. DutStep(err, io) \in Machine /\ DutStep(err, io).pc = dut.pc + 1
  BY <1>3, <1>4 DEF Machine
<1>6. ASSUME prog[dut.pc] # "trap" PROVE InProgram(DutStep(err, io))
  <2>1. dut.pc # ProgLen - 1
    BY <1>6 DEF ProgramOK
  <2>2. dut.pc + 1 \in 0 .. ProgLen - 1
    BY <1>1, <2>1
  <2> QED
    BY <1>3, <2>2 DEF InProgram
<1>7. ASSUME err = 0, prog[dut.pc] \notin {"trap", "mmio"} PROVE DutStep(err, io) = RefStep(dut)
  <2>1. dut.x + 1 + err = dut.x + 1
    BY <1>1, <1>7
  <2>2. DutStep(err, io) = [pc |-> dut.pc + 1, x |-> (dut.x + 1) % RegVals]
    BY <1>7, <2>1 DEF DutStep
  <2>3. RefStep(dut) = [pc |-> dut.pc + 1, x |-> (dut.x + 1) % RegVals]
    BY <1>7 DEF RefStep
  <2> QED
    BY <2>2, <2>3
<1> QED
  BY <1>5, <1>6, <1>7

\* While the guest runs.
LEMMA AInvRunning ==
  ASSUME AInv, state = "RUNNING"
  PROVE  /\ ProgramOK /\ InProgram(dut) /\ InProgram(ref) /\ dut.pc \in Nat /\ ref.pc \in Nat
         /\ skip_dut_nr_inst \in Nat /\ is_skip_ref = FALSE
         /\ skip_dut_nr_inst = 0 => ref = dut
         /\ skip_dut_nr_inst > 0 => dut.pc < ref.pc /\ ref.pc <= dut.pc + skip_dut_nr_inst
         /\ ~wrong => Path(dut, ref)
<1>1. TypeOK /\ InSync /\ CatchingUp /\ prog[ProgLen - 1] = "trap"
  BY DEF AInv, NoFalseAlarm
<1>2. prog \in [0 .. ProgLen - 1 -> Kind] /\ skip_dut_nr_inst \in Nat /\ is_skip_ref \in BOOLEAN
  BY <1>1 DEF TypeOK
<1>3. InProgram(dut) /\ InProgram(ref)
  BY <1>1 DEF CatchingUp
<1>4. dut.pc \in Nat /\ ref.pc \in Nat
  BY <1>3, InProgramMachine
<1> QED
  BY <1>1, <1>2, <1>3, <1>4 DEF ProgramOK, InSync, CatchingUp

\* What the history records.
LEMMA RecordEffect ==
  ASSUME AInv, state = "RUNNING", NEW kind \in Kind, NEW err \in Errs, Record(kind, err)
  PROVE  /\ Recorded
         /\ kind \notin {"mmio", "trap"} => (~wrong' => ~wrong /\ err = 0)
<1>1. wrong \in BOOLEAN /\ ProgramOK
  BY AInvRunning DEF AInv, NoFalseAlarm, TypeOK
<1>2. last' = [kind |-> kind, err |-> err] /\ prog' = prog
  BY DEF Record
<1>3. last' \in [kind : Kind \cup {"none"}, err : Errs]
  BY <1>2
<1>4. wrong' = IF kind \in {"mmio", "trap"} THEN FALSE ELSE wrong \/ err # 0
  BY DEF Record
<1>5. wrong' \in BOOLEAN /\ (kind \notin {"mmio", "trap"} => (~wrong' => ~wrong /\ err = 0))
  BY <1>1, <1>4
<1> QED
  BY <1>1, <1>2, <1>3, <1>5 DEF Recorded, ProgramOK

LEMMA AInvNext == AInv /\ [Next]_vars => AInv'
<1> SUFFICES ASSUME AInv, [Next]_vars PROVE AInv'
  OBVIOUS
<1>0. 0 \in 0 .. RegVals - 1 /\ 0 \in Errs /\ {"alu", "mmio", "pack", "trap"} = Kind
  BY DifftestAssumption DEF Errs, Kind
<1>1. ASSUME NEW err \in Errs, exec_alu(err) PROVE AInv'
  <2> DEFINE d == DutStep(err, 0)
  <2>1. state = "RUNNING" /\ prog[dut.pc] = "alu"
    BY <1>1 DEF exec_alu, Running
  <2>2. Recorded /\ (~wrong' => ~wrong /\ err = 0)
    BY <1>0, <1>1, <2>1, RecordEffect DEF exec_alu
  <2>3. /\ ProgramOK /\ InProgram(dut) /\ InProgram(ref) /\ dut.pc \in Nat /\ ref.pc \in Nat
        /\ skip_dut_nr_inst \in Nat /\ is_skip_ref = FALSE
    BY <2>1, AInvRunning
  <2>4. d.pc = dut.pc + 1 /\ InProgram(d) /\ (err = 0 => d = RefStep(dut))
    BY <1>0, <2>1, <2>3, DutStepEffect
  <2>5. difftest_step(FALSE, skip_dut_nr_inst, ref, d, "RUNNING")
    BY <1>1, <2>1, <2>3 DEF exec_alu
  <2> HIDE DEF d
  <2>6. CASE skip_dut_nr_inst = 0
    <3>1. ref = dut
      BY <2>1, <2>6, AInvRunning
    <3>2. InProgram(RefStep(ref)) /\ (~wrong' => RefStep(ref) = d)
      BY <2>2, <2>3, <2>4, <3>1, RefStepEffect
    <3>3. difftest_step(FALSE, 0, ref, d, "RUNNING")
      BY <2>5, <2>6
    <3> QED
      BY <2>2, <2>4, <3>2, <3>3, CompareStep
  <2>7. CASE skip_dut_nr_inst # 0
    <3>1. skip_dut_nr_inst > 0 /\ dut.pc < ref.pc /\ ref.pc <= dut.pc + skip_dut_nr_inst
      BY <2>1, <2>3, <2>7, AInvRunning
    <3>2. d.pc <= ref.pc /\ ref.pc < d.pc + skip_dut_nr_inst
      BY <2>3, <2>4, <3>1
    <3>3. ASSUME ~wrong' PROVE Path(d, ref)
      <4>1. Path(dut, ref) /\ d = RefStep(dut)
        BY <2>1, <2>2, <2>4, <3>3, AInvRunning
      <4>2. RefStep(dut).pc = dut.pc + 1
        BY <2>4, <4>1
      <4> QED
        BY <2>3, <3>1, <4>1, <4>2, PathBehind
    <3> QED
      BY <2>2, <2>3, <2>4, <2>5, <3>1, <3>2, <3>3, CatchUpStep
  <2> QED
    BY <2>6, <2>7
<1>2. ASSUME NEW io \in 0 .. RegVals - 1, exec_mmio(io) PROVE AInv'
  <2> DEFINE d == DutStep(0, io)
  <2>1. state = "RUNNING" /\ prog[dut.pc] = "mmio"
    BY <1>2 DEF exec_mmio, Running
  <2>2. Recorded
    BY <1>0, <1>2, <2>1, RecordEffect DEF exec_mmio
  <2>3. InProgram(d) /\ d \in Machine
    BY <1>0, <2>1, AInvRunning, DutStepEffect
  <2>4. difftest_step(TRUE, 0, ref, d, "RUNNING")
    BY <1>2, <2>1 DEF exec_mmio, catch_up_skips
  <2> HIDE DEF d
  <2> QED
    BY <2>2, <2>3, <2>4, CopyStep
<1>3. ASSUME exec_trap PROVE AInv'
  <2> DEFINE d == DutStep(0, 0)
  <2>1. state = "RUNNING" /\ prog[dut.pc] = "trap"
    BY <1>3 DEF exec_trap, Running
  <2>2. Recorded
    BY <1>0, <1>3, <2>1, RecordEffect DEF exec_trap
  <2>3. d \in Machine
    BY <1>0, <2>1, AInvRunning, DutStepEffect
  <2>4. difftest_step(TRUE, 0, ref, d, "END")
    BY <1>3, <2>1 DEF exec_trap, catch_up_skips, trap_skips_ref
  <2> HIDE DEF d
  <2> QED
    BY <2>2, <2>3, <2>4, CopyStep
<1>4. ASSUME NEW err \in Errs, NEW nr_ref \in 1 .. MaxPack, NEW slack \in 0 .. Margin,
             exec_pack(err, nr_ref, nr_ref + slack)
      PROVE  AInv'
  <2> DEFINE d == DutStep(err, 0)
             r == RefRun[nr_ref]
             skip == skip_dut_nr_inst + (nr_ref + slack)
  <2>1. state = "RUNNING" /\ prog[dut.pc] = "pack"
    BY <1>4 DEF exec_pack, Running
  <2>2. Recorded /\ (~wrong' => ~wrong /\ err = 0)
    BY <1>0, <1>4, <2>1, RecordEffect DEF exec_pack
  <2>3. /\ ProgramOK /\ InProgram(dut) /\ InProgram(ref) /\ dut.pc \in Nat /\ ref.pc \in Nat
        /\ skip_dut_nr_inst \in Nat /\ is_skip_ref = FALSE
        /\ nr_ref \in Nat /\ nr_ref > 0 /\ slack \in Nat
    BY <2>1, AInvRunning, DifftestAssumption
  <2>4. d.pc = dut.pc + 1 /\ InProgram(d) /\ (err = 0 => d = RefStep(dut))
    BY <1>0, <2>1, <2>3, DutStepEffect
  <2>5. /\ InProgram(r) /\ ref.pc <= r.pc /\ r.pc <= ref.pc + nr_ref
        /\ prog[ref.pc] # "trap" => ref.pc < r.pc
        /\ Path(dut, ref) => Path(dut, r)
    <3>1. nr_ref # 0
      BY <2>3
    <3> QED
      BY <2>3, <3>1, RefRunEffect
  <2>6. difftest_step(FALSE, skip, r, d, "RUNNING")
    BY <1>4, <2>1, <2>3 DEF exec_pack
  <2>7. r.pc \in Nat
    BY <2>5, InProgramMachine
  <2> HIDE DEF d, r
  <2>8. skip \in Nat /\ skip > 0
    BY <2>3
  <2>9. dut.pc < r.pc /\ d.pc <= r.pc /\ r.pc < d.pc + skip
    <3>1. CASE skip_dut_nr_inst = 0
      <4>1. ref = dut
        BY <2>1, <3>1, AInvRunning
      <4>2. dut.pc < r.pc /\ r.pc <= dut.pc + nr_ref
        BY <2>1, <2>5, <4>1
      <4> QED
        BY <2>3, <2>4, <2>7, <3>1, <4>2
    <3>2. CASE skip_dut_nr_inst # 0
      <4>1. dut.pc < ref.pc /\ ref.pc <= dut.pc + skip_dut_nr_inst
        BY <2>1, <2>3, <3>2, AInvRunning
      <4>2. ref.pc <= r.pc /\ r.pc <= ref.pc + nr_ref
        BY <2>5
      <4> QED
        BY <2>3, <2>4, <2>7, <4>1, <4>2
    <3> QED
      BY <3>1, <3>2
  <2>10. ASSUME ~wrong' PROVE Path(d, r)
    <3>1. Path(dut, r) /\ d = RefStep(dut)
      BY <2>1, <2>2, <2>4, <2>5, <2>10, AInvRunning
    <3>2. RefStep(dut).pc = dut.pc + 1
      BY <2>4, <3>1
    <3> QED
      BY <2>3, <2>7, <2>9, <3>1, <3>2, PathBehind
  <2> HIDE DEF skip
  <2> QED
    BY <2>2, <2>4, <2>5, <2>6, <2>8, <2>9, <2>10, CatchUpStep
<1>5. CASE UNCHANGED vars
  <2>1. dut' = dut /\ ref' = ref /\ prog' = prog /\ state' = state /\ wrong' = wrong
        /\ skip_dut_nr_inst' = skip_dut_nr_inst
    BY <1>5 DEF vars
  <2>2. Path(dut, ref) => Path(dut, ref)'
    <3>1. Path(dut, ref) => Path(dut', ref')
      BY <2>1
    <3> QED
      BY <2>1, <3>1, PathStable
  <2>3. CatchingUp'
    BY <2>1, <2>2 DEF AInv, CatchingUp, InProgram
  <2>4. NoFalseAlarm' /\ InSync' /\ prog'[ProgLen - 1] = "trap"
    BY <1>5 DEF vars, AInv, NoFalseAlarm, TypeOK, InSync
  <2> QED
    BY <2>3, <2>4 DEF AInv
<1> QED
  BY <1>1, <1>2, <1>3, <1>4, <1>5 DEF Next

\* An instruction that ran correctly is never reported, however the reference runs
\* ahead, device accesses fall into a catching up and packs into one another; and
\* who keeps the promise of difftest_skip_dut never meets its panic.
THEOREM DifftestNoFalseAlarm == Spec => []NoFalseAlarm
<1>1. AInv => NoFalseAlarm
  BY DEF AInv
<1> QED
  BY <1>1, AInvInit, AInvNext, PTL DEF Spec

-----------------------------------------------------------------------------
(* QEMU as a reference.  First what the recursive functions compute.       *)

Byte == 0 .. 255

\* A recursion over 0 .. n has a solution.
StepOn(X, step) == step \in [Nat \X X -> X]
Solution(X, x0, step, n, f) ==
  f \in [0 .. n -> X] /\ f[0] = x0 /\ \A i \in 1 .. n : f[i] = step[<<i, f[i - 1]>>]

LEMMA Iterate ==
  ASSUME NEW X, NEW x0 \in X, NEW step, StepOn(X, step), NEW n \in Nat
  PROVE  \E f : Solution(X, x0, step, n, f)
<1> USE DEF StepOn
<1> DEFINE Sol(m, f) == f[0] = x0 /\ \A i \in 1 .. m : f[i] = step[<<i, f[i - 1]>>]
           S == {m \in Nat : \E f \in [0 .. m -> X] : Sol(m, f)}
<1>1. 0 \in S
  <2> DEFINE f == [i \in 0 .. 0 |-> x0]
  <2>1. f \in [0 .. 0 -> X] /\ Sol(0, f)
    OBVIOUS
  <2> QED
    BY <2>1
<1>2. ASSUME NEW m \in S PROVE m + 1 \in S
  <2>1. PICK f \in [0 .. m -> X] : Sol(m, f)
    OBVIOUS
  <2> DEFINE h == [i \in 0 .. m + 1 |-> IF i = m + 1 THEN step[<<m + 1, f[m]>>] ELSE f[i]]
  <2>2. m \in Nat /\ f[m] \in X /\ step[<<m + 1, f[m]>>] \in X
    OBVIOUS
  <2>3. h \in [0 .. m + 1 -> X] /\ h[0] = x0
    BY <2>1, <2>2
  <2>4. ASSUME NEW i \in 1 .. m + 1 PROVE h[i] = step[<<i, h[i - 1]>>]
    <3>1. i - 1 \in 0 .. m /\ h[i - 1] = f[i - 1]
      BY <2>2
    <3>2. CASE i = m + 1
      <4>1. h[i] = step[<<m + 1, f[m]>>] /\ i - 1 = m
        BY <2>2, <3>2
      <4> HIDE DEF h
      <4> QED
        BY <3>1, <3>2, <4>1
    <3>3. CASE i # m + 1
      <4>1. i \in 1 .. m /\ h[i] = f[i]
        BY <2>2, <3>3
      <4> HIDE DEF h
      <4> QED
        BY <2>1, <3>1, <4>1
    <3> QED
      BY <3>2, <3>3
  <2>5. Sol(m + 1, h)
    <3> HIDE DEF h
    <3> QED
      BY <2>3, <2>4
  <2> HIDE DEF h, Sol
  <2> QED
    BY <2>2, <2>3, <2>5
<1>3. S = Nat
  <2>1. S \in SUBSET Nat
    OBVIOUS
  <2> HIDE DEF S
  <2> QED
    BY <1>1, <1>2, <2>1, InductNat
<1> QED
  BY <1>3 DEF Solution

LEMMA AddBytes ==
  ASSUME NEW x \in Byte, NEW y \in Byte
  PROVE  (x + y) % 256 = (IF x + y < 256 THEN x + y ELSE x + y - 256) /\ (x + y) % 256 \in Byte
<1>1. (x + y) % 256 = IF x + y < 256 THEN x + y ELSE x + y - 256
  BY Z3 DEF Byte
<1> QED
  BY <1>1 DEF Byte

LEMMA SumsDef ==
  ASSUME NEW s \in Seq(Byte)
  PROVE  /\ Sums(s) \in [0 .. Len(s) -> Byte] /\ Sums(s)[0] = 0
         /\ \A i \in 1 .. Len(s) : Sums(s)[i] = (Sums(s)[i - 1] + s[i]) % 256
<1> DEFINE step == [p \in Nat \X Byte |-> IF p[1] \in 1 .. Len(s) THEN (p[2] + s[p[1]]) % 256 ELSE 0]
           F(f) == [i \in 0 .. Len(s) |-> IF i = 0 THEN 0 ELSE (f[i - 1] + s[i]) % 256]
<1>1. step \in [Nat \X Byte -> Byte]
  <2> SUFFICES ASSUME NEW p \in Nat \X Byte
               PROVE  (IF p[1] \in 1 .. Len(s) THEN (p[2] + s[p[1]]) % 256 ELSE 0) \in Byte
    OBVIOUS
  <2>1. CASE p[1] \in 1 .. Len(s)
    <3>1. p[2] \in Byte /\ s[p[1]] \in Byte
      BY <2>1
    <3> QED
      BY <2>1, <3>1, AddBytes
  <2> QED
    BY <2>1 DEF Byte
<1>2. PICK f \in [0 .. Len(s) -> Byte] : f[0] = 0 /\ \A i \in 1 .. Len(s) : f[i] = step[<<i, f[i - 1]>>]
  <2> HIDE DEF step
  <2>1. 0 \in Byte /\ Len(s) \in Nat
    BY DEF Byte
  <2>2. StepOn(Byte, step)
    BY <1>1 DEF StepOn
  <2>3. PICK f : Solution(Byte, 0, step, Len(s), f)
    BY <2>1, <2>2, Iterate
  <2> QED
    BY <2>3 DEF Solution
<1>3. \A i \in 1 .. Len(s) : f[i] = (f[i - 1] + s[i]) % 256
  <2> TAKE i \in 1 .. Len(s)
  <2>1. i - 1 \in 0 .. Len(s) /\ f[i - 1] \in Byte /\ i \in Nat
    BY <1>2
  <2>2. step[<<i, f[i - 1]>>] = (f[i - 1] + s[i]) % 256
    BY <2>1
  <2> QED
    BY <1>2, <2>2
<1>4. f = F(f)
  BY <1>2, <1>3
<1>5. Sums(s) = F(Sums(s))
  <2>1. Sums(s) = CHOOSE g : g = F(g)
    BY DEF Sums
  <2> HIDE DEF F
  <2> QED
    BY <1>4, <2>1
<1>6. /\ Sums(s)[0] = 0 /\ DOMAIN Sums(s) = 0 .. Len(s)
      /\ \A i \in 1 .. Len(s) : Sums(s)[i] = (Sums(s)[i - 1] + s[i]) % 256
  BY <1>5
<1>7. \A i \in Nat : i <= Len(s) => Sums(s)[i] = f[i]
  <2> DEFINE S == {i \in Nat : i <= Len(s) => Sums(s)[i] = f[i]}
  <2>1. 0 \in S
    BY <1>2, <1>6
  <2>2. ASSUME NEW i \in S PROVE i + 1 \in S
    <3>1. i + 1 <= Len(s) => i + 1 \in 1 .. Len(s) /\ (i + 1) - 1 = i
      OBVIOUS
    <3> QED
      BY <1>3, <1>6, <3>1
  <2>3. S \in SUBSET Nat
    OBVIOUS
  <2> HIDE DEF S
  <2>4. S = Nat
    BY <2>1, <2>2, <2>3, InductNat
  <2> QED
    BY <2>4 DEF S
<1>8. \A i \in 0 .. Len(s) : Sums(s)[i] \in Byte
  <2> HIDE DEF step, F
  <2> QED
    BY <1>2, <1>7
<1>9. Sums(s) = [i \in 0 .. Len(s) |-> Sums(s)[i]]
  BY <1>5
<1> QED
  BY <1>6, <1>8, <1>9

\* One byte that differs makes every sum beyond it differ.
LEMMA SumsDiffer ==
  ASSUME NEW s \in Seq(Byte), NEW t \in Seq(Byte), Len(t) = Len(s), NEW k \in 1 .. Len(s),
         s[k] # t[k], \A i \in 1 .. Len(s) : i # k => s[i] = t[i]
  PROVE  Sum(s) # Sum(t)
<1>1. ASSUME NEW x \in Byte, NEW y \in Byte, NEW z \in Byte, x # y
      PROVE  (x + z) % 256 # (y + z) % 256 /\ (z + x) % 256 # (z + y) % 256
  <2>1. (x + z) % 256 = (IF x + z < 256 THEN x + z ELSE x + z - 256)
    BY AddBytes
  <2>2. (y + z) % 256 = (IF y + z < 256 THEN y + z ELSE y + z - 256)
    BY AddBytes
  <2>3. x + z = z + x /\ y + z = z + y
    BY DEF Byte
  <2> QED
    BY <1>1, <2>1, <2>2, <2>3 DEF Byte
<1> DEFINE S == {i \in Nat : i <= Len(s) => IF i < k THEN Sums(s)[i] = Sums(t)[i]
                                                    ELSE Sums(s)[i] # Sums(t)[i]}
<1>2. 0 \in S
  BY SumsDef
<1>3. ASSUME NEW i \in S PROVE i + 1 \in S
  <2> SUFFICES ASSUME i + 1 <= Len(s)
               PROVE  IF i + 1 < k THEN Sums(s)[i + 1] = Sums(t)[i + 1]
                                   ELSE Sums(s)[i + 1] # Sums(t)[i + 1]
    OBVIOUS
  <2>1. i \in Nat /\ i + 1 \in 1 .. Len(s) /\ i \in 0 .. Len(s) /\ (i + 1) - 1 = i
    OBVIOUS
  <2>2. PICK x, y : x = Sums(s)[i] /\ y = Sums(t)[i]
    OBVIOUS
  <2>3. x \in Byte /\ y \in Byte /\ s[i + 1] \in Byte /\ t[i + 1] \in Byte
    BY <2>1, <2>2, SumsDef
  <2>4. Sums(s)[i + 1] = (x + s[i + 1]) % 256 /\ Sums(t)[i + 1] = (y + t[i + 1]) % 256
    BY <2>1, <2>2, SumsDef
  <2>5. IF i < k THEN x = y ELSE x # y
    BY <2>1, <2>2
  <2> HIDE DEF S
  <2>6. CASE i + 1 = k
    <3>1. (x + s[i + 1]) % 256 # (x + t[i + 1]) % 256
      BY <1>1, <2>3, <2>6
    <3> QED
      BY <2>1, <2>4, <2>5, <2>6, <3>1
  <2>7. CASE i + 1 # k
    <3>1. s[i + 1] = t[i + 1]
      BY <2>1, <2>7
    <3>2. x # y => (x + t[i + 1]) % 256 # (y + t[i + 1]) % 256
      BY <1>1, <2>3
    <3> QED
      BY <2>1, <2>4, <2>5, <2>7, <3>1, <3>2
  <2> QED
    BY <2>6, <2>7
<1>4. S = Nat
  <2>1. S \in SUBSET Nat
    OBVIOUS
  <2> HIDE DEF S
  <2> QED
    BY <1>2, <1>3, <2>1, InductNat
<1>5. Len(s) \in S /\ Len(s) \in Nat
  <2> HIDE DEF S
  <2> QED
    BY <1>4
<1> QED
  BY <1>5 DEF Sum

-----------------------------------------------------------------------------
(* Digits, commands, replies.                                                  *)

Plain == Byte \ {Dollar, Hash, Brace, Star}

LEMMA Digit ==
  ASSUME NEW d \in 0 .. 15
  PROVE  /\ hex_encode(d) \in Plain /\ isxdigit(hex_encode(d))
         /\ hex_nibble(hex_encode(d)) = d
<1>1. hex_encode(d) = IF d > 9 THEN 87 + d ELSE 48 + d
  BY DEF hex_encode
<1>2. CASE d > 9
  <2>1. hex_encode(d) \in 97 .. 102
    BY <1>1, <1>2
  <2> QED
    BY <1>1, <1>2, <2>1 DEF Plain, Byte, Dollar, Hash, Brace, Star, isxdigit, hex_nibble
<1>3. CASE ~(d > 9)
  <2>1. hex_encode(d) \in 48 .. 57
    BY <1>1, <1>3
  <2> QED
    BY <1>1, <1>3, <2>1 DEF Plain, Byte, Dollar, Hash, Brace, Star, isxdigit, hex_nibble
<1> QED
  BY <1>2, <1>3

LEMMA Halves ==
  ASSUME NEW x \in Byte
  PROVE  x \div 16 \in 0 .. 15 /\ x % 16 \in 0 .. 15 /\ 16 * (x \div 16) + (x % 16) = x
BY Z3 DEF Byte

LEMMA DecodeEncode ==
  ASSUME NEW x \in Byte
  PROVE  gdb_decode_hex(hex_encode(x \div 16), hex_encode(x % 16)) = x
<1>1. PICK h \in 0 .. 15, l \in 0 .. 15 : h = x \div 16 /\ l = x % 16 /\ 16 * h + l = x
  BY Halves
<1>2. gdb_decode_hex(hex_encode(h), hex_encode(l)) = 16 * h + l
  BY Digit DEF gdb_decode_hex
<1> QED
  BY <1>1, <1>2

\* The registers, a byte each, survive being written as text and read again.
Regs == [1 .. NrReg -> RegVal]

LEMMA RegsRead ==
  ASSUME NEW r \in Regs
  PROVE  RegsText(r) \in Seq(Plain) /\ RegsOf(RegsText(r)) = r
<1>1. NrReg \in Nat /\ RegVal \subseteq Byte
  BY GdbConnAssumption DEF Byte
<1>2. ASSUME NEW i \in 1 .. 2 * NrReg
      PROVE  hex_encode(IF i % 2 = 1 THEN r[(i + 1) \div 2] \div 16 ELSE r[i \div 2] % 16) \in Plain
  <2>1. CASE i % 2 = 1
    <3>1. (i + 1) \div 2 \in 1 .. NrReg
      BY <1>1, <2>1
    <3>2. r[(i + 1) \div 2] \in Byte
      BY <1>1, <3>1 DEF Regs
    <3> QED
      BY <2>1, <3>2, Halves, Digit
  <2>2. CASE i % 2 # 1
    <3>1. i \div 2 \in 1 .. NrReg
      BY <1>1, <2>2
    <3>2. r[i \div 2] \in Byte
      BY <1>1, <3>1 DEF Regs
    <3> QED
      BY <2>2, <3>2, Halves, Digit
  <2> QED
    BY <2>1, <2>2
<1>3. RegsText(r) \in [1 .. 2 * NrReg -> Plain]
  BY <1>2 DEF RegsText
<1>4. RegsText(r) \in Seq(Plain)
  BY <1>1, <1>3
<1>5. ASSUME NEW i \in 1 .. NrReg
      PROVE  gdb_decode_hex(RegsText(r)[2 * i - 1], RegsText(r)[2 * i]) = r[i]
  <2>1. /\ 2 * i - 1 \in 1 .. 2 * NrReg /\ 2 * i \in 1 .. 2 * NrReg
        /\ (2 * i - 1) % 2 = 1 /\ (2 * i) % 2 # 1
        /\ ((2 * i - 1) + 1) \div 2 = i /\ (2 * i) \div 2 = i
    BY <1>1
  <2>2. /\ RegsText(r)[2 * i - 1] = hex_encode(r[i] \div 16)
        /\ RegsText(r)[2 * i] = hex_encode(r[i] % 16)
    <3>1. PICK j, k : j = 2 * i - 1 /\ k = 2 * i
      OBVIOUS
    <3>2. j \in 1 .. 2 * NrReg /\ k \in 1 .. 2 * NrReg /\ j % 2 = 1 /\ k % 2 # 1
          /\ (j + 1) \div 2 = i /\ k \div 2 = i
      BY <2>1, <3>1
    <3>3. RegsText(r)[j] = hex_encode(r[i] \div 16) /\ RegsText(r)[k] = hex_encode(r[i] % 16)
      BY <3>2 DEF RegsText
    <3> QED
      BY <3>1, <3>3
  <2>3. r[i] \in Byte
    BY <1>1 DEF Regs
  <2> QED
    BY <2>2, <2>3, DecodeEncode
<1>6. RegsOf(RegsText(r)) = [i \in 1 .. NrReg |-> r[i]]
  BY <1>5 DEF RegsOf
<1> QED
  BY <1>4, <1>6 DEF Regs

\* Commands, and what the reference does with them.
Command ==
  [k : {"s", "g"}] \cup [k : {"M"}, dest : Nat, data : Seq(Datum)] \cup [k : {"G"}, regs : Regs]

LEMMA CommandKind ==
  ASSUME NEW cmd \in Command
  PROVE  /\ cmd.k \in {"s", "g", "M", "G"}
         /\ cmd.k = "M" => cmd.dest \in Nat /\ cmd.data \in Seq(Datum)
         /\ cmd.k = "G" => cmd.regs \in Regs
BY DEF Command

LEMMA StoredType ==
  ASSUME NEW mem \in [Addr -> Datum], NEW cmd, cmd.dest \in Nat, cmd.data \in Seq(Datum)
  PROVE  Stored(mem, cmd) \in [Addr -> Datum]
<1>1. Addr \subseteq Int
  BY GdbConnAssumption, FS_CardinalityType
<1>2. ASSUME NEW a \in Addr, a \in cmd.dest .. cmd.dest + Len(cmd.data) - 1
      PROVE  cmd.data[a - cmd.dest + 1] \in Datum
  <2>1. a - cmd.dest + 1 \in 1 .. Len(cmd.data)
    BY <1>1, <1>2
  <2> QED
    BY <2>1
<1> QED
  BY <1>2 DEF Stored

LEMMA ExecutedType ==
  ASSUME NEW m \in QemuState, NEW cmd \in Command
  PROVE  Executed(m, cmd) \in QemuState
<1>1. m.mem \in [Addr -> Datum] /\ m.regs \in Regs /\ m.steps \in Nat
  BY DEF QemuState, Regs
<1>2. cmd.k = "M" => Stored(m.mem, cmd) \in [Addr -> Datum]
  BY <1>1, CommandKind, StoredType
<1>3. [m.regs EXCEPT ![1] = CHOOSE v \in RegVal : v # @] \in Regs
  <2>1. 1 \in 1 .. NrReg
    BY GdbConnAssumption
  <2>2. (CHOOSE v \in RegVal : v # m.regs[1]) \in RegVal
    BY <1>1, <2>1, GdbConnAssumption DEF Regs
  <2> QED
    BY <1>1, <2>1, <2>2 DEF Regs
<1>4. cmd.k = "G" => cmd.regs \in Regs
  BY CommandKind
<1>5. /\ (IF cmd.k = "M" THEN Stored(m.mem, cmd) ELSE m.mem) \in [Addr -> Datum]
      /\ (IF cmd.k = "s" THEN [m.regs EXCEPT ![1] = CHOOSE v \in RegVal : v # @]
          ELSE IF cmd.k = "G" THEN cmd.regs ELSE m.regs) \in Regs
      /\ (IF cmd.k = "s" THEN m.steps + 1 ELSE m.steps) \in Nat
  BY <1>1, <1>2, <1>3, <1>4
<1> QED
  BY <1>5 DEF Executed, QemuState, Regs

LEMMA AnswerType ==
  ASSUME NEW m \in QemuState, NEW cmd
  PROVE  Answer(m, cmd) \in Answers
BY DEF Answer, Answers, QemuState

LEMMA AnswersPlain == Answers \subseteq Seq(Plain)
<1>1. \A r \in Regs : RegsText(r) \in Seq(Plain)
  BY RegsRead
<1>2. OK \in Seq(Plain) /\ T05 \in Seq(Plain)
  BY DEF OK, T05, Plain, Byte, Dollar, Hash, Brace, Star
<1> QED
  BY <1>1, <1>2 DEF Answers, Regs

-----------------------------------------------------------------------------
(* Packets on the line.                                                        *)

LEMMA Concat ==
  ASSUME NEW T, NEW u \in Seq(T), NEW v \in Seq(T), NEW y, y = u \o v
  PROVE  /\ y \in Seq(T) /\ Len(y) = Len(u) + Len(v)
         /\ \A j \in 1 .. Len(u) : y[j] = u[j]
         /\ \A j \in 1 .. Len(v) : y[Len(u) + j] = v[j]
OBVIOUS

LEMMA TailFields ==
  ASSUME NEW T, NEW w \in Seq(T), w # <<>>
  PROVE  /\ Tail(w) \in Seq(T) /\ Len(w) \in Nat \ {0} /\ Len(Tail(w)) = Len(w) - 1
         /\ Head(w) = w[1] /\ \A j \in 1 .. Len(w) - 1 : Tail(w)[j] = w[j + 1]
OBVIOUS

NoHash == Byte \ {Hash}
Body == Byte \ {Dollar, Hash, Brace}

\* b is s with n characters after the p-th taken out, in favour of a '*' and a count.
Shorter(s, b, p, n) ==
  /\ p \in 1 .. Len(s) /\ n \in 3 .. 5 /\ p + n <= Len(s)
  /\ b \in Seq(Body) /\ Len(b) = Len(s) - n + 2
  /\ \A j \in 1 .. p : b[j] = s[j]
  /\ b[p + 1] = Star /\ b[p + 2] = 29 + n
  /\ \A j \in p + 3 .. Len(b) : b[j] = s[j + n - 2]
  /\ \A j \in p .. p + n : s[j] = s[p]

LEMMA Shortening ==
  ASSUME NEW s \in Seq(Plain), NEW x \in Runs(s), NEW b, b = Shortened(s, x[1], x[2])
  PROVE  Shorter(s, b, x[1], x[2])
<1>1. PICK i, n : i = x[1] /\ n = x[2]
  OBVIOUS
<1>2. i \in 1 .. Len(s) /\ n \in 3 .. 5 /\ i + n <= Len(s) /\ \A j \in i .. i + n : s[j] = s[i]
  BY <1>1 DEF Runs
<1>3. PICK u, v, w : u = SubSeq(s, 1, i) /\ v = <<Star, 29 + n>> /\ w = SubSeq(s, i + n + 1, Len(s))
  OBVIOUS
<1>4. b = (u \o v) \o w
  BY <1>1, <1>3 DEF Shortened
<1>5. Plain \subseteq Body /\ Star \in Body /\ 29 + n \in Body
  BY <1>2 DEF Plain, Body, Byte, Dollar, Hash, Brace, Star
<1>6. u \in Seq(Body) /\ Len(u) = i /\ \A j \in 1 .. i : u[j] = s[j]
  BY <1>2, <1>3, <1>5
<1>7. v \in Seq(Body) /\ Len(v) = 2 /\ v[1] = Star /\ v[2] = 29 + n
  BY <1>3, <1>5
<1>8. w \in Seq(Body) /\ Len(w) = Len(s) - i - n /\ \A j \in 1 .. Len(s) - i - n : w[j] = s[i + n + j]
  <2>1. i + n + 1 \in 1 .. Len(s) + 1 /\ Len(s) \in Nat
    BY <1>2
  <2> QED
    BY <1>2, <1>3, <1>5, <2>1
<1>9. PICK y : y = u \o v
  OBVIOUS
<1>10. y \in Seq(Body) /\ Len(y) = i + 2 /\ (\A j \in 1 .. i : y[j] = s[j]) /\ y[i + 1] = Star /\ y[i + 2] = 29 + n
  <2>1. /\ y \in Seq(Body) /\ Len(y) = Len(u) + Len(v)
        /\ \A j \in 1 .. Len(u) : y[j] = u[j]
        /\ \A j \in 1 .. Len(v) : y[Len(u) + j] = v[j]
    <3>1. u \in Seq(Body) /\ v \in Seq(Body)
      BY <1>6, <1>7
    <3> QED
      BY <1>9, <3>1, Concat
  <2>2. 1 \in 1 .. Len(v) /\ 2 \in 1 .. Len(v)
    BY <1>7
  <2> QED
    BY <1>6, <1>7, <2>1, <2>2
<1>11. b = y \o w
  BY <1>4, <1>9
<1>12. b \in Seq(Body) /\ Len(b) = i + 2 + (Len(s) - i - n)
  BY <1>8, <1>10, <1>11
<1>13. \A j \in 1 .. i + 2 : b[j] = y[j]
  BY <1>2, <1>8, <1>10, <1>11
<1>14. ASSUME NEW j \in i + 3 .. Len(b) PROVE b[j] = s[j + n - 2]
  <2>1. b[j] = w[j - (i + 2)]
    BY <1>2, <1>8, <1>10, <1>11, <1>12
  <2>2. j - (i + 2) \in 1 .. Len(s) - i - n /\ i + n + (j - (i + 2)) = j + n - 2
    BY <1>2, <1>12
  <2> QED
    BY <1>8, <2>1, <2>2
<1>15. i + 1 \in 1 .. i + 2 /\ i + 2 \in 1 .. i + 2 /\ \A j \in 1 .. i : j \in 1 .. i + 2
  BY <1>2
<1>16. b[i + 1] = Star /\ b[i + 2] = 29 + n /\ \A j \in 1 .. i : b[j] = s[j]
  BY <1>10, <1>13, <1>15
<1>17. Shorter(s, b, i, n)
  BY <1>2, <1>12, <1>14, <1>16 DEF Shorter
<1> QED
  BY <1>1, <1>17

LEMMA EncodingsType ==
  ASSUME NEW s \in Seq(Plain), NEW b \in Encodings(s)
  PROVE  b \in Seq(Body)
<1>1. CASE b = s
  BY <1>1 DEF Plain, Body
<1>2. CASE \E x \in Runs(s) : b = Shortened(s, x[1], x[2])
  <2>1. PICK x \in Runs(s) : Shorter(s, b, x[1], x[2])
    BY <1>2, Shortening
  <2> QED
    BY <2>1 DEF Shorter
<1> QED
  BY <1>1, <1>2 DEF Encodings

\* What is left of a packet: the body b from its i-th byte on, and the digits.
Frame(w, b, i, h, l) ==
  /\ w \in Seq(Byte) /\ b \in Seq(NoHash) /\ i \in 0 .. Len(b) /\ h \in Byte /\ l \in Byte
  /\ Len(w) = Len(b) - i + 3
  /\ \A j \in 1 .. Len(b) - i : w[j] = b[i + j]
  /\ w[Len(b) - i + 1] = Hash /\ w[Len(b) - i + 2] = h /\ w[Len(b) - i + 3] = l

\* A packet says what it carries, or its sum betrays it, and so does the sum of what
\* follows a false '$' in it.
Clean(s, b, h, l) == b \in Encodings(s) /\ Sum(b) = gdb_decode_hex(h, l)
Echo(b, i, h, l) ==
  \E d \in Byte : (Sums(b)[i] + d) % 256 = 0 /\ (Sum(b) + d) % 256 = gdb_decode_hex(h, l)
Sound(s, b, h, l) ==
  NoEcho =>
  /\ \A i \in 1 .. Len(b) : b[i] = Dollar => ~Echo(b, i, h, l)
  /\ Clean(s, b, h, l) \/ Sum(b) # gdb_decode_hex(h, l)

\* A packet with the reply s, perhaps damaged.
Whole(s, w) ==
  /\ w \in Seq(Byte) /\ w # <<>> /\ w[1] = Dollar
  /\ \E b, h, l : Frame(Tail(w), b, 0, h, l) /\ Sound(s, b, h, l)

LEMMA PacketFields ==
  ASSUME NEW b \in Seq(Body), NEW p, p = Packet(b)
  PROVE  /\ p \in Seq(Byte) /\ Len(p) = Len(b) + 4 /\ p[1] = Dollar
         /\ \A j \in 2 .. Len(b) + 1 : p[j] = b[j - 1]
         /\ p[Len(b) + 2] = Hash
         /\ p[Len(b) + 3] \in Byte /\ p[Len(b) + 4] \in Byte
         /\ gdb_decode_hex(p[Len(b) + 3], p[Len(b) + 4]) = Sum(b)
<1>1. b \in Seq(Byte) /\ Len(b) \in Nat
  BY DEF Body
<1>2. Sum(b) \in Byte
  BY <1>1, SumsDef DEF Sum
<1>3. PICK h, l : h = hex_encode(Sum(b) \div 16) /\ l = hex_encode(Sum(b) % 16)
  OBVIOUS
<1>4. h \in Byte /\ l \in Byte /\ gdb_decode_hex(h, l) = Sum(b)
  BY <1>2, <1>3, Halves, Digit, DecodeEncode DEF Plain
<1>5. PICK u, v : u = <<Dollar>> \o b /\ v = <<Hash, h, l>>
  OBVIOUS
<1>6. p = u \o v
  BY <1>3, <1>5 DEF Packet
<1>7. Dollar \in Byte /\ Hash \in Byte
  BY DEF Dollar, Hash, Byte
<1>8. u \in Seq(Byte) /\ Len(u) = Len(b) + 1 /\ u[1] = Dollar /\ \A j \in 2 .. Len(b) + 1 : u[j] = b[j - 1]
  BY <1>1, <1>5, <1>7
<1>9. v \in Seq(Byte) /\ Len(v) = 3 /\ v[1] = Hash /\ v[2] = h /\ v[3] = l
  BY <1>4, <1>5, <1>7
<1>c. /\ p \in Seq(Byte) /\ Len(p) = Len(u) + Len(v)
      /\ \A j \in 1 .. Len(u) : p[j] = u[j]
      /\ \A j \in 1 .. Len(v) : p[Len(u) + j] = v[j]
  <2>1. u \in Seq(Byte) /\ v \in Seq(Byte)
    BY <1>8, <1>9
  <2> QED
    BY <1>6, <2>1, Concat
<1>10. p \in Seq(Byte) /\ Len(p) = Len(b) + 4 /\ \A j \in 1 .. Len(b) + 1 : p[j] = u[j]
  BY <1>1, <1>c, <1>8, <1>9
<1>11. p[Len(b) + 2] = v[1] /\ p[Len(b) + 3] = v[2] /\ p[Len(b) + 4] = v[3]
  <2>1. 1 \in 1 .. Len(v) /\ 2 \in 1 .. Len(v) /\ 3 \in 1 .. Len(v)
    BY <1>9
  <2>2. p[Len(u) + 1] = v[1] /\ p[Len(u) + 2] = v[2] /\ p[Len(u) + 3] = v[3]
    BY <1>c, <2>1
  <2>3. Len(u) + 1 = Len(b) + 2 /\ Len(u) + 2 = Len(b) + 3 /\ Len(u) + 3 = Len(b) + 4
    BY <1>1, <1>8
  <2> QED
    BY <2>2, <2>3
<1> QED
  BY <1>1, <1>4, <1>8, <1>9, <1>10, <1>11

LEMMA AddLast ==
  ASSUME NEW x \in Byte, NEW e \in Byte, NEW z \in Byte
  PROVE  (((x + e) % 256) + z) % 256 = (((x + z) % 256) + e) % 256
<1>1. PICK u \in Byte, v \in Byte : u = (x + e) % 256 /\ v = (x + z) % 256
  BY AddBytes
<1>2. u = (IF x + e < 256 THEN x + e ELSE x + e - 256) /\ v = (IF x + z < 256 THEN x + z ELSE x + z - 256)
  BY <1>1, AddBytes
<1>3. (u + z) % 256 = (IF u + z < 256 THEN u + z ELSE u + z - 256)
  BY AddBytes
<1>4. (v + e) % 256 = (IF v + e < 256 THEN v + e ELSE v + e - 256)
  BY AddBytes
<1>5. (u + z) % 256 = (v + e) % 256
  BY <1>2, <1>3, <1>4 DEF Byte
<1> QED
  BY <1>1, <1>5

\* Beyond a byte that differs the sums differ by a constant.
Shift(s, t, k, e) == Sums(t)[k] = (Sums(s)[k] + e) % 256 /\ Sum(t) = (Sum(s) + e) % 256

LEMMA SumsShift ==
  ASSUME NEW s \in Seq(Byte), NEW t \in Seq(Byte), Len(t) = Len(s), NEW k \in 1 .. Len(s),
         \A i \in 1 .. Len(s) : i # k => s[i] = t[i]
  PROVE  \E e \in Byte : Shift(s, t, k, e)
<1>1. ASSUME NEW x \in Byte, NEW y \in Byte PROVE \E e \in Byte : y = (x + e) % 256
  <2> DEFINE e == IF y >= x THEN y - x ELSE y - x + 256
  <2>1. e \in Byte
    BY DEF Byte
  <2>2. y = (x + e) % 256
    <3>1. (x + e) % 256 = (IF x + e < 256 THEN x + e ELSE x + e - 256)
      BY <2>1, AddBytes
    <3> QED
      BY <3>1 DEF Byte
  <2> QED
    BY <2>1, <2>2
<1>2. ASSUME NEW x \in Byte, NEW e \in Byte, NEW z \in Byte
      PROVE  (((x + e) % 256) + z) % 256 = (((x + z) % 256) + e) % 256
  BY AddLast
<1>3. \A i \in 0 .. Len(s) : Sums(s)[i] \in Byte /\ Sums(t)[i] \in Byte
  BY SumsDef
<1>4. PICK e \in Byte : Sums(t)[k] = (Sums(s)[k] + e) % 256
  <2>1. k \in 0 .. Len(s)
    OBVIOUS
  <2>2. PICK x \in Byte, y \in Byte : x = Sums(s)[k] /\ y = Sums(t)[k]
    BY <1>3, <2>1
  <2> QED
    BY <1>1, <2>2
<1> DEFINE S == {i \in Nat : k <= i /\ i <= Len(s) => Sums(t)[i] = (Sums(s)[i] + e) % 256}
<1>5. 0 \in S
  OBVIOUS
<1>6. ASSUME NEW i \in S PROVE i + 1 \in S
  <2> SUFFICES ASSUME k <= i + 1, i + 1 <= Len(s)
               PROVE  Sums(t)[i + 1] = (Sums(s)[i + 1] + e) % 256
    OBVIOUS
  <2>1. CASE k = i + 1
    BY <1>4, <2>1
  <2>2. CASE k # i + 1
    <3>1. i \in 0 .. Len(s) /\ i + 1 \in 1 .. Len(s) /\ (i + 1) - 1 = i /\ k <= i /\ s[i + 1] \in Byte
      BY <2>2
    <3>2. PICK x \in Byte, z \in Byte : x = Sums(s)[i] /\ z = s[i + 1]
      BY <1>3, <3>1
    <3>3. Sums(t)[i] = (x + e) % 256 /\ t[i + 1] = z
      BY <2>2, <3>1, <3>2
    <3> HIDE DEF S
    <3>4. Sums(s)[i + 1] = (x + z) % 256 /\ Sums(t)[i + 1] = (Sums(t)[i] + z) % 256
      BY <3>1, <3>2, <3>3, SumsDef
    <3> QED
      BY <1>2, <3>3, <3>4
  <2> QED
    BY <2>1, <2>2
<1>7. S = Nat
  <2>1. S \in SUBSET Nat
    OBVIOUS
  <2> HIDE DEF S
  <2> QED
    BY <1>5, <1>6, <2>1, InductNat
<1>8. Len(s) \in S /\ Len(s) \in Nat
  <2> HIDE DEF S
  <2> QED
    BY <1>7
<1> QED
  BY <1>4, <1>8 DEF Sum, Shift

\* A damaged byte of the body does not go unnoticed.
LEMMA DamagedBody ==
  ASSUME NEW s \in Answers, NEW c \in Encodings(s), NEW k \in 1 .. Len(c), NEW n \in Noise,
         NEW b, b = [c EXCEPT ![k] = n],
         NEW h, NEW l, gdb_decode_hex(h, l) = Sum(c)
  PROVE  b \in Seq(NoHash) /\ Len(b) = Len(c) /\ Sound(s, b, h, l)
<1>1. s \in Seq(Plain) /\ c \in Seq(Body) /\ c \in Seq(Byte)
  BY AnswersPlain, EncodingsType DEF Body
<1>2. n \in NoHash /\ n \in Byte
  BY GdbConnAssumption DEF NoHash, Byte, Hash
<1>3. b \in Seq(NoHash) /\ b \in Seq(Byte) /\ Len(b) = Len(c)
  BY <1>1, <1>2 DEF NoHash, Body
<1>4. b[k] = n /\ \A i \in 1 .. Len(c) : i # k => c[i] = b[i]
  BY <1>1
<1>5. CASE b[k] = c[k]
  <2>1. b = c
    BY <1>1, <1>5
  <2>2. \A i \in 1 .. Len(c) : c[i] # Dollar
    BY <1>1 DEF Body
  <2> QED
    BY <1>3, <2>1, <2>2 DEF Sound, Clean
<1>6. CASE b[k] # c[k]
  <2>1. Sum(c) # Sum(b)
    BY <1>1, <1>3, <1>4, <1>6, SumsDiffer
  <2>2. ASSUME NoEcho, NEW i \in 1 .. Len(b), b[i] = Dollar, Echo(b, i, h, l) PROVE FALSE
    <3>1. i = k /\ n = Dollar
      BY <1>1, <1>3, <1>4, <2>2 DEF Body
    <3>2. Sums(c)[k] # 0
      BY <2>2, <3>1 DEF NoEcho
    <3>3. PICK e \in Byte : Shift(c, b, k, e)
      <4>1. /\ c \in Seq(Byte) /\ b \in Seq(Byte) /\ Len(b) = Len(c)
            /\ \A j \in 1 .. Len(c) : j # k => c[j] = b[j]
        BY <1>1, <1>3, <1>4
      <4>2. c \in Seq(Byte)
        BY <4>1
      <4>3. b \in Seq(Byte)
        BY <4>1
      <4>4. Len(b) = Len(c)
        BY <4>1
      <4>5. \A j \in 1 .. Len(c) : j # k => c[j] = b[j]
        BY <4>1
      <4> QED
        BY <4>2, <4>3, <4>4, <4>5, SumsShift
    <3>4. PICK d \in Byte : (Sums(b)[k] + d) % 256 = 0 /\ (Sum(b) + d) % 256 = Sum(c)
      BY <2>2, <3>1 DEF Echo
    <3>5. PICK x \in Byte, y \in Byte : x = Sums(c)[k] /\ y = Sum(c)
      <4>1. k \in 0 .. Len(c) /\ Len(c) \in 0 .. Len(c)
        BY <1>1
      <4>2. c \in Seq(Byte)
        BY <1>1
      <4>3. \A j \in 0 .. Len(c) : Sums(c)[j] \in Byte
        BY <4>2, SumsDef
      <4>4. Sums(c)[k] \in Byte /\ Sum(c) \in Byte
        BY <4>1, <4>3 DEF Sum
      <4> QED
        BY <4>4
    <3>6. PICK u \in Byte, v \in Byte : u = (x + e) % 256 /\ v = (y + e) % 256
      BY AddBytes
    <3>7. u = (IF x + e < 256 THEN x + e ELSE x + e - 256) /\ v = (IF y + e < 256 THEN y + e ELSE y + e - 256)
      BY <3>6, AddBytes
    <3>8. (u + d) % 256 = (IF u + d < 256 THEN u + d ELSE u + d - 256)
      BY AddBytes
    <3>9. (v + d) % 256 = (IF v + d < 256 THEN v + d ELSE v + d - 256)
      BY AddBytes
    <3>10. (u + d) % 256 = 0 /\ (v + d) % 256 = y /\ x # 0
      BY <3>2, <3>3, <3>4, <3>5, <3>6 DEF Shift
    <3> QED
      BY <3>7, <3>8, <3>9, <3>10 DEF Byte
  <2> QED
    BY <1>3, <2>1, <2>2 DEF Sound
<1> QED
  BY <1>5, <1>6

\* A packet of which a byte other than its first and its '#' became n.
LEMMA FrameOf ==
  ASSUME NEW w \in Seq(Byte), NEW b \in Seq(NoHash), NEW h \in Byte, NEW l \in Byte,
         Len(w) = Len(b) + 4, \A j \in 2 .. Len(b) + 1 : w[j] = b[j - 1],
         w[Len(b) + 2] = Hash, w[Len(b) + 3] = h, w[Len(b) + 4] = l
  PROVE  w # <<>> /\ Frame(Tail(w), b, 0, h, l)
<1>1. Len(b) \in Nat /\ w # <<>>
  OBVIOUS
<1>2. PICK v : v = Tail(w)
  OBVIOUS
<1>3. /\ v \in Seq(Byte) /\ Len(v) = Len(b) + 3
      /\ \A j \in 1 .. Len(b) + 3 : v[j] = w[j + 1]
  <2>1. Len(w) - 1 = Len(b) + 3
    BY <1>1
  <2>2. v \in Seq(Byte) /\ Len(v) = Len(w) - 1 /\ \A j \in 1 .. Len(w) - 1 : v[j] = w[j + 1]
    BY <1>1, <1>2, TailFields
  <2> QED
    BY <2>1, <2>2
<1>4. \A j \in 1 .. Len(b) : v[j] = b[j]
  <2> TAKE j \in 1 .. Len(b)
  <2>1. v[j] = w[j + 1] /\ j + 1 \in 2 .. Len(b) + 1 /\ (j + 1) - 1 = j
    BY <1>1, <1>3
  <2> QED
    BY <2>1
<1>5. v[Len(b) + 1] = Hash /\ v[Len(b) + 2] = h /\ v[Len(b) + 3] = l
  <2>1. /\ Len(b) + 1 \in 1 .. Len(b) + 3 /\ Len(b) + 2 \in 1 .. Len(b) + 3 /\ Len(b) + 3 \in 1 .. Len(b) + 3
        /\ (Len(b) + 1) + 1 = Len(b) + 2 /\ (Len(b) + 2) + 1 = Len(b) + 3 /\ (Len(b) + 3) + 1 = Len(b) + 4
    BY <1>1
  <2> QED
    BY <1>3, <2>1
<1>6. Frame(v, b, 0, h, l)
  BY <1>1, <1>3, <1>4, <1>5 DEF Frame
<1> QED
  BY <1>1, <1>2, <1>6

LEMMA PacketWhole ==
  ASSUME NEW s \in Answers, NEW c \in Encodings(s)
  PROVE  Whole(s, Packet(c)) /\ \A p \in Damaged(Packet(c)) : Whole(s, p)
<1>1. PICK q : q = Packet(c)
  OBVIOUS
<1>2. c \in Seq(Body) /\ Len(c) \in Nat /\ c \in Seq(NoHash)
  BY AnswersPlain, EncodingsType DEF Body, NoHash
<1>3. PICK h \in Byte, l \in Byte : h = q[Len(c) + 3] /\ l = q[Len(c) + 4]
  BY <1>1, <1>2, PacketFields
<1>4. /\ q \in Seq(Byte) /\ Len(q) = Len(c) + 4 /\ q[1] = Dollar
      /\ \A j \in 2 .. Len(c) + 1 : q[j] = c[j - 1]
      /\ q[Len(c) + 2] = Hash
      /\ gdb_decode_hex(h, l) = Sum(c)
  BY <1>1, <1>2, <1>3, PacketFields
<1>5. ASSUME NEW hh, NEW ll PROVE Sound(s, c, hh, ll)
  <2>1. \A i \in 1 .. Len(c) : c[i] # Dollar
    BY <1>2 DEF Body
  <2> QED
    BY <2>1 DEF Sound, Clean
<1>6. Whole(s, q)
  BY <1>2, <1>3, <1>4, <1>5, FrameOf DEF Whole
<1>7. ASSUME NEW j \in 2 .. Len(q), q[j] # Hash, NEW n \in Noise, NEW p, p = [q EXCEPT ![j] = n]
      PROVE  Whole(s, p)
  <2>1. n \in Byte /\ n # Hash
    BY GdbConnAssumption DEF Byte, Hash
  <2>2. p \in Seq(Byte) /\ Len(p) = Len(q) /\ p[j] = n /\ (\A i \in 1 .. Len(q) : i # j => p[i] = q[i])
    BY <1>4, <1>7, <2>1
  <2>3. p[1] = Dollar /\ p[Len(c) + 2] = Hash /\ j # Len(c) + 2
    BY <1>2, <1>4, <1>7, <2>2
  <2>4. CASE j \in 2 .. Len(c) + 1
    <3>1. PICK k : k = j - 1
      OBVIOUS
    <3>2. PICK b : b = [c EXCEPT ![k] = n]
      OBVIOUS
    <3>3. k \in 1 .. Len(c)
      BY <1>2, <2>4, <3>1
    <3>4. b \in Seq(NoHash) /\ Len(b) = Len(c) /\ Sound(s, b, h, l)
      <4>1. gdb_decode_hex(h, l) = Sum(c)
        BY <1>4
      <4> QED
        BY <3>2, <3>3, <4>1, DamagedBody
    <3>5. \A i \in 2 .. Len(b) + 1 : p[i] = b[i - 1]
      <4> TAKE i \in 2 .. Len(b) + 1
      <4>1. i \in 1 .. Len(q) /\ i - 1 \in 1 .. Len(c)
        BY <1>2, <1>4, <3>4
      <4>2. CASE i = j
        BY <1>2, <2>2, <3>1, <3>2, <3>3, <4>2
      <4>3. CASE i # j
        <5>1. i - 1 # k /\ p[i] = q[i] /\ q[i] = c[i - 1]
          BY <1>2, <1>4, <2>2, <2>4, <3>1, <3>4, <4>1, <4>3
        <5> QED
          BY <1>2, <3>2, <4>1, <5>1
      <4> QED
        BY <4>2, <4>3
    <3>6. p[Len(b) + 3] = h /\ p[Len(b) + 4] = l
      BY <1>2, <1>3, <1>4, <2>2, <2>4, <3>4
    <3>7. p # <<>> /\ Frame(Tail(p), b, 0, h, l)
      BY <1>3, <1>4, <2>2, <2>3, <3>4, <3>5, <3>6, FrameOf
    <3> QED
      BY <2>2, <2>3, <3>4, <3>7 DEF Whole
  <2>5. CASE j \notin 2 .. Len(c) + 1
    <3>1. PICK hh, ll : hh = p[Len(c) + 3] /\ ll = p[Len(c) + 4]
      OBVIOUS
    <3>2. hh \in Byte /\ ll \in Byte
      BY <1>2, <1>4, <2>2, <3>1
    <3>3. \A i \in 2 .. Len(c) + 1 : p[i] = c[i - 1]
      BY <1>2, <1>4, <2>2, <2>5
    <3>4. p # <<>> /\ Frame(Tail(p), c, 0, hh, ll)
      BY <1>2, <1>4, <2>2, <2>3, <3>1, <3>2, <3>3, FrameOf
    <3> QED
      BY <1>5, <2>2, <2>3, <3>4 DEF Whole
  <2> QED
    BY <2>4, <2>5
<1>8. ASSUME NEW p \in Damaged(q) PROVE Whole(s, p)
  <2>1. PICK j \in 2 .. Len(q), n \in Noise : q[j] # Hash /\ p = [q EXCEPT ![j] = n]
    BY DEF Damaged
  <2> QED
    BY <1>7, <2>1
<1> QED
  BY <1>1, <1>6, <1>8

-----------------------------------------------------------------------------
(* What a call's commands do, one after the other.                             *)

\* The commands cs take the reference from m to w.
Run(m, cs, w) ==
  \E ms \in [0 .. Len(cs) -> QemuState] :
    /\ ms[0] = m /\ ms[Len(cs)] = w
    /\ \A i \in 1 .. Len(cs) : ms[i] = Executed(ms[i - 1], cs[i])

LEMMA RunEmpty ==
  ASSUME NEW m \in QemuState, NEW w
  PROVE  Run(m, <<>>, w) <=> w = m
<1>1. ASSUME Run(m, <<>>, w) PROVE w = m
  BY <1>1 DEF Run
<1>2. Run(m, <<>>, m)
  <2> DEFINE ms == [i \in 0 .. 0 |-> m]
  <2>1. ms \in [0 .. Len(<<>>) -> QemuState] /\ ms[0] = m /\ ms[Len(<<>>)] = m
    OBVIOUS
  <2> HIDE DEF ms
  <2> QED
    BY <2>1 DEF Run
<1> QED
  BY <1>1, <1>2

LEMMA RunTail ==
  ASSUME NEW m, NEW cs \in Seq(Command), cs # <<>>, NEW w, Run(m, cs, w)
  PROVE  Head(cs) \in Command /\ Tail(cs) \in Seq(Command) /\ Run(Executed(m, Head(cs)), Tail(cs), w)
<1>1. PICK ms \in [0 .. Len(cs) -> QemuState] :
        /\ ms[0] = m /\ ms[Len(cs)] = w
        /\ \A i \in 1 .. Len(cs) : ms[i] = Executed(ms[i - 1], cs[i])
  BY DEF Run
<1>2. PICK t : t = Tail(cs)
  OBVIOUS
<1>3. /\ t \in Seq(Command) /\ Len(cs) \in Nat \ {0} /\ Len(t) = Len(cs) - 1 /\ Head(cs) = cs[1]
      /\ \A j \in 1 .. Len(cs) - 1 : t[j] = cs[j + 1]
  BY <1>2, TailFields
<1>4. Head(cs) \in Command
  OBVIOUS
<1> DEFINE ns == [i \in 0 .. Len(t) |-> ms[i + 1]]
<1>5. ns \in [0 .. Len(t) -> QemuState]
  <2> SUFFICES ASSUME NEW i \in 0 .. Len(t) PROVE ms[i + 1] \in QemuState
    OBVIOUS
  <2>1. i + 1 \in 0 .. Len(cs)
    BY <1>3
  <2> QED
    BY <1>1, <2>1
<1>6. ns[0] = Executed(m, Head(cs)) /\ ns[Len(t)] = w
  <2>1. /\ 1 \in 1 .. Len(cs) /\ 0 \in 0 .. Len(t) /\ Len(t) \in 0 .. Len(t)
        /\ Len(t) + 1 = Len(cs)
    BY <1>3
  <2>2. ns[0] = ms[1] /\ ns[Len(t)] = ms[Len(cs)]
    BY <2>1
  <2>3. ms[1] = Executed(m, cs[1])
    BY <1>1, <2>1
  <2> QED
    BY <1>1, <1>3, <2>2, <2>3
<1>7. ASSUME NEW i \in 1 .. Len(t) PROVE ns[i] = Executed(ns[i - 1], t[i])
  <2>1. i \in 0 .. Len(t) /\ i - 1 \in 0 .. Len(t) /\ (i - 1) + 1 = i /\ (i + 1) - 1 = i
        /\ i + 1 \in 1 .. Len(cs) /\ i \in 1 .. Len(cs) - 1
    BY <1>3
  <2>2. ns[i] = ms[i + 1] /\ ns[i - 1] = ms[i] /\ t[i] = cs[i + 1]
    BY <1>3, <2>1
  <2>3. ms[i + 1] = Executed(ms[i], cs[i + 1])
    BY <1>1, <2>1
  <2> QED
    BY <2>2, <2>3
<1> HIDE DEF ns
<1>8. Run(Executed(m, Head(cs)), t, w)
  BY <1>5, <1>6, <1>7 DEF Run
<1> QED
  BY <1>2, <1>3, <1>4, <1>8

\* difftest_exec.
Steps(m, n) == LET si == [k |-> "s"]
                   after[i \in 0..n] == IF i = 0 THEN m ELSE Executed(after[i - 1], si) IN after

LEMMA ExecPlan ==
  ASSUME NEW m \in QemuState, NEW n \in Nat, NEW cs, cs = [i \in 1 .. n |-> [k |-> "s"]]
  PROVE  cs \in Seq(Command) /\ Steps(m, n)[n] \in QemuState /\ Run(m, cs, Steps(m, n)[n])
<1> DEFINE si == [k |-> "s"]
           step == [p \in Nat \X QemuState |-> Executed(p[2], si)]
           F(f) == [i \in 0 .. n |-> IF i = 0 THEN m ELSE Executed(f[i - 1], si)]
<1>1. si \in Command
  BY DEF Command
<1>2. cs \in Seq(Command) /\ Len(cs) = n
  BY <1>1
<1>3. StepOn(QemuState, step)
  <2> HIDE DEF si
  <2> QED
    BY <1>1, ExecutedType DEF StepOn
<1>4. PICK f \in [0 .. n -> QemuState] : f[0] = m /\ \A i \in 1 .. n : f[i] = step[<<i, f[i - 1]>>]
  <2> HIDE DEF step
  <2>1. PICK f : Solution(QemuState, m, step, n, f)
    BY <1>3, Iterate
  <2> QED
    BY <2>1 DEF Solution
<1>5. \A i \in 1 .. n : f[i] = Executed(f[i - 1], si)
  <2> HIDE DEF si
  <2> TAKE i \in 1 .. n
  <2>1. i - 1 \in 0 .. n /\ i \in Nat
    OBVIOUS
  <2>2. f[i - 1] \in QemuState
    BY <1>4, <2>1
  <2>3. step[<<i, f[i - 1]>>] = Executed(f[i - 1], si)
    BY <2>1, <2>2
  <2> HIDE DEF step
  <2> QED
    BY <1>4, <2>3
<1>6. f = F(f)
  <2> HIDE DEF si, step
  <2> QED
    BY <1>4, <1>5
<1>7. PICK g : g = Steps(m, n)
  OBVIOUS
<1>8. g = F(g)
  <2>1. g = CHOOSE x : x = F(x)
    BY <1>7 DEF Steps
  <2> HIDE DEF F
  <2> QED
    BY <1>6, <2>1
<1>9. g[0] = m /\ (\A i \in 1 .. n : g[i] = Executed(g[i - 1], si)) /\ DOMAIN g = 0 .. n
  <2> HIDE DEF si
  <2>1. g = [i \in 0 .. n |-> IF i = 0 THEN m ELSE Executed(g[i - 1], si)]
    BY <1>8
  <2> QED
    BY <2>1
<1>10. \A i \in Nat : i <= n => g[i] \in QemuState
  <2> DEFINE S == {i \in Nat : i <= n => g[i] \in QemuState}
  <2> HIDE DEF si, step, F
  <2>1. 0 \in S
    BY <1>9
  <2>2. ASSUME NEW i \in S PROVE i + 1 \in S
    <3>1. i + 1 <= n => g[i + 1] = Executed(g[i], si)
      <4>1. i + 1 <= n => i + 1 \in 1 .. n /\ (i + 1) - 1 = i
        OBVIOUS
      <4> QED
        BY <1>9, <4>1
    <3> QED
      BY <1>1, <3>1, ExecutedType
  <2>3. S \in SUBSET Nat
    OBVIOUS
  <2> HIDE DEF S
  <2>4. S = Nat
    BY <2>1, <2>2, <2>3, InductNat
  <2> QED
    BY <2>4 DEF S
<1>11. g \in [0 .. Len(cs) -> QemuState]
  <2>1. g = [i \in 0 .. n |-> g[i]]
    BY <1>8
  <2> HIDE DEF si, step, F
  <2> QED
    BY <1>2, <1>10, <2>1
<1>12. Run(m, cs, g[n])
  <2>1. \A i \in 1 .. n : cs[i] = si
    OBVIOUS
  <2> HIDE DEF si, step, F
  <2> QED
    BY <1>2, <1>9, <1>11, <2>1 DEF Run
<1> QED
  <2> HIDE DEF si, step, F
  <2> QED
    BY <1>2, <1>7, <1>10, <1>12

\* difftest_regcpy.
LEMMA RegcpyPlan ==
  ASSUME NEW m \in QemuState, NEW r \in Regs
  PROVE  /\ <<[k |-> "g"]>> \in Seq(Command) /\ Run(m, <<[k |-> "g"]>>, m)
         /\ <<[k |-> "g"], [k |-> "G", regs |-> r]>> \in Seq(Command)
         /\ [m EXCEPT !.regs = r] \in QemuState
         /\ Run(m, <<[k |-> "g"], [k |-> "G", regs |-> r]>>, [m EXCEPT !.regs = r])
<1> DEFINE g == [k |-> "g"]
           G == [k |-> "G", regs |-> r]
           w == [m EXCEPT !.regs = r]
<1>1. g \in Command /\ G \in Command
  BY DEF Command
<1>2. w \in QemuState
  BY DEF QemuState, Regs
<1>3. Executed(m, g) = m
  BY DEF Executed, QemuState
<1>4. Executed(m, G) = w
  BY DEF Executed, QemuState
<1> HIDE DEF g, G, w
<1>5. Run(m, <<g>>, m)
  <2> DEFINE ms == [i \in 0 .. 1 |-> m]
  <2>1. ms \in [0 .. Len(<<g>>) -> QemuState] /\ ms[0] = m /\ ms[Len(<<g>>)] = m
    OBVIOUS
  <2>2. \A i \in 1 .. Len(<<g>>) : ms[i] = m /\ ms[i - 1] = m /\ <<g>>[i] = g
    OBVIOUS
  <2> HIDE DEF ms
  <2> QED
    BY <1>3, <2>1, <2>2 DEF Run
<1>6. Run(m, <<g, G>>, w)
  <2> DEFINE ms == [i \in 0 .. 2 |-> IF i = 2 THEN w ELSE m]
  <2>1. ms \in [0 .. Len(<<g, G>>) -> QemuState] /\ ms[0] = m /\ ms[Len(<<g, G>>)] = w
    BY <1>2
  <2>2. ms[1] = m /\ ms[2] = w /\ \A i \in 1 .. Len(<<g, G>>) : i = 1 \/ i = 2
    OBVIOUS
  <2> HIDE DEF ms
  <2>3. ASSUME NEW i \in 1 .. Len(<<g, G>>) PROVE ms[i] = Executed(ms[i - 1], <<g, G>>[i])
    <3>1. CASE i = 1
      BY <1>3, <2>1, <2>2, <3>1
    <3>2. CASE i = 2
      BY <1>4, <2>1, <2>2, <3>2
    <3> QED
      BY <2>2, <3>1, <3>2
  <2> QED
    BY <2>1, <2>3 DEF Run
<1>7. <<g>> \in Seq(Command) /\ <<g, G>> \in Seq(Command)
  BY <1>1
<1> QED
  BY <1>2, <1>5, <1>6, <1>7 DEF g, G, w

\* difftest_memcpy: the pieces cover the data, and none is written twice.
Write(dest, data) == [k |-> "M", dest |-> dest, data |-> data]

LEMMA SubSeqFields ==
  ASSUME NEW T, NEW s \in Seq(T), NEW q \in 0 .. Len(s), NEW b \in q .. Len(s), NEW u, u = SubSeq(s, q + 1, b)
  PROVE  u \in Seq(T) /\ Len(u) = b - q /\ \A j \in 1 .. b - q : u[j] = s[q + j]
<1>1. q + 1 \in 1 .. Len(s) + 1 /\ b \in q .. Len(s) /\ Len(s) \in Nat
  OBVIOUS
<1> QED
  BY <1>1

LEMMA StoredTwice ==
  ASSUME NEW mem \in [Addr -> Datum], NEW dest \in Nat, NEW data \in Seq(Datum),
         NEW q \in 0 .. Len(data), NEW b \in q .. Len(data)
  PROVE  Stored(Stored(mem, Write(dest, SubSeq(data, 1, q))), Write(dest + q, SubSeq(data, q + 1, b)))
           = Stored(mem, Write(dest, SubSeq(data, 1, b)))
<1>1. Addr \subseteq Int /\ Len(data) \in Nat
  BY GdbConnAssumption, FS_CardinalityType
<1>2. PICK u, v, w : u = SubSeq(data, 1, q) /\ v = SubSeq(data, q + 1, b) /\ w = SubSeq(data, 1, b)
  OBVIOUS
<1>3. Len(u) = q /\ \A j \in 1 .. q : u[j] = data[j]
  BY <1>1, <1>2
<1>4. Len(v) = b - q /\ \A j \in 1 .. b - q : v[j] = data[q + j]
  BY <1>2, SubSeqFields
<1>5. Len(w) = b /\ \A j \in 1 .. b : w[j] = data[j]
  BY <1>1, <1>2
<1>6. PICK first : first = Stored(mem, Write(dest, u))
  OBVIOUS
<1>7. \A a \in Addr : first[a] = IF a \in dest .. dest + q - 1 THEN data[a - dest + 1] ELSE mem[a]
  <2> TAKE a \in Addr
  <2>1. first[a] = IF a \in dest .. dest + q - 1 THEN u[a - dest + 1] ELSE mem[a]
    BY <1>3, <1>6 DEF Stored, Write
  <2>2. a \in dest .. dest + q - 1 => a - dest + 1 \in 1 .. q
    BY <1>1
  <2> QED
    BY <1>3, <2>1, <2>2
<1>8. ASSUME NEW a \in Addr
      PROVE  (IF a \in dest + q .. dest + q + Len(v) - 1 THEN v[a - (dest + q) + 1] ELSE first[a])
               = (IF a \in dest .. dest + Len(w) - 1 THEN w[a - dest + 1] ELSE mem[a])
  <2>1. CASE a \in dest + q .. dest + b - 1
    <3>1. a - (dest + q) + 1 \in 1 .. b - q /\ q + (a - (dest + q) + 1) = a - dest + 1
          /\ a - dest + 1 \in 1 .. b /\ a \in dest .. dest + b - 1
      BY <1>1, <2>1
    <3>2. v[a - (dest + q) + 1] = data[a - dest + 1] /\ w[a - dest + 1] = data[a - dest + 1]
      BY <1>4, <1>5, <3>1
    <3>3. dest + q + Len(v) - 1 = dest + b - 1 /\ dest + Len(w) - 1 = dest + b - 1
      BY <1>4, <1>5
    <3> QED
      BY <2>1, <3>1, <3>2, <3>3
  <2>2. CASE a \in dest .. dest + q - 1
    <3>1. a - dest + 1 \in 1 .. b /\ a \in dest .. dest + b - 1 /\ a \notin dest + q .. dest + b - 1
      BY <1>1, <2>2
    <3>2. w[a - dest + 1] = data[a - dest + 1] /\ first[a] = data[a - dest + 1]
      BY <1>5, <1>7, <2>2, <3>1
    <3>3. dest + q + Len(v) - 1 = dest + b - 1 /\ dest + Len(w) - 1 = dest + b - 1
      BY <1>4, <1>5
    <3> QED
      BY <3>1, <3>2, <3>3
  <2>3. CASE a \notin dest .. dest + q - 1 /\ a \notin dest + q .. dest + b - 1
    <3>1. a \notin dest .. dest + b - 1
      BY <1>1, <2>3
    <3>2. dest + q + Len(v) - 1 = dest + b - 1 /\ dest + Len(w) - 1 = dest + b - 1
      BY <1>4, <1>5
    <3> QED
      BY <1>7, <2>3, <3>1, <3>2
  <2> QED
    BY <2>1, <2>2, <2>3
<1>9. Stored(first, Write(dest + q, v)) = Stored(mem, Write(dest, w))
  BY <1>8 DEF Stored, Write
<1> QED
  BY <1>2, <1>6, <1>9

Piece(dest, data, k) ==
  Write(dest + k * mtu, SubSeq(data, k * mtu + 1, IF Len(data) - k * mtu > mtu THEN (k + 1) * mtu ELSE Len(data)))
NPieces(data) == IF Len(data) = 0 THEN 1 ELSE (Len(data) + mtu - 1) \div mtu
\* What the first k pieces carry.
Cut(data, k) == IF k * mtu < Len(data) THEN k * mtu ELSE Len(data)

LEMMA Times ==
  ASSUME NEW j \in Nat, NEW k \in Nat
  PROVE  /\ j * mtu \in Nat /\ (j + 1) * mtu = j * mtu + mtu
         /\ j <= k => j * mtu <= k * mtu
         /\ j <= j * mtu
<1>1. mtu \in Nat \ {0}
  BY GdbConnAssumption
<1>2. j * mtu \in Nat /\ (j + 1) * mtu = j * mtu + mtu
  BY <1>1
<1>3. j <= k => j * mtu <= k * mtu
  BY <1>1, Z3
<1>4. j <= j * mtu
  BY <1>1, Z3
<1> QED
  BY <1>2, <1>3, <1>4

LEMMA PieceCount ==
  ASSUME NEW data \in Seq(Datum), NEW n, n = NPieces(data)
  PROVE  /\ n \in Nat \ {0} /\ Cut(data, n) = Len(data)
         /\ \A k \in 0 .. n - 1 : k \in 0 .. Len(data) /\ k * mtu <= Len(data) /\ Cut(data, k) = k * mtu
<1>1. mtu \in Nat \ {0} /\ Len(data) \in Nat
  BY GdbConnAssumption
<1>2. CASE Len(data) = 0
  BY <1>1, <1>2 DEF NPieces, Cut
<1>3. CASE Len(data) # 0
  <2>1. PICK len, d : len = Len(data) /\ d = len + mtu - 1
    OBVIOUS
  <2>2. n = d \div mtu /\ d \in Nat /\ len \in Nat \ {0}
    BY <1>1, <1>3, <2>1 DEF NPieces
  <2>3. n \in Int /\ n * mtu <= d /\ d < n * mtu + mtu
    BY <1>1, <2>2, Z3
  <2>4. len <= n * mtu
    BY <1>1, <2>1, <2>2, <2>3
  <2>5. n \in Nat \ {0}
    BY <1>1, <2>2, <2>3, <2>4, Z3
  <2>6. Cut(data, n) = Len(data)
    BY <1>1, <2>1, <2>2, <2>4, <2>5, Times DEF Cut
  <2>7. ASSUME NEW k \in 0 .. n - 1 PROVE k \in 0 .. Len(data) /\ k * mtu <= Len(data) /\ Cut(data, k) = k * mtu
    <3>1. k \in Nat /\ k + 1 \in Nat /\ k + 1 <= n
      BY <2>5
    <3>2. k * mtu \in Nat /\ (k + 1) * mtu = k * mtu + mtu /\ (k + 1) * mtu <= n * mtu /\ k <= k * mtu
      BY <2>5, <3>1, Times
    <3>3. k * mtu < len
      BY <1>1, <2>1, <2>3, <3>2
    <3> QED
      BY <2>1, <2>2, <3>1, <3>2, <3>3 DEF Cut
  <2> QED
    BY <2>5, <2>6, <2>7
<1> QED
  BY <1>2, <1>3

LEMMA PieceFields ==
  ASSUME NEW data \in Seq(Datum), NEW dest \in Nat, NEW k \in 0 .. NPieces(data) - 1
  PROVE  /\ Cut(data, k) \in 0 .. Len(data) /\ Cut(data, k + 1) \in Cut(data, k) .. Len(data)
         /\ Piece(dest, data, k) = Write(dest + Cut(data, k), SubSeq(data, Cut(data, k) + 1, Cut(data, k + 1)))
         /\ Piece(dest, data, k) \in Command
<1>1. mtu \in Nat \ {0} /\ Len(data) \in Nat
  BY GdbConnAssumption
<1>2. k \in Nat /\ k * mtu <= Len(data) /\ Cut(data, k) = k * mtu
  BY PieceCount
<1>3. PICK q : q = k * mtu
  OBVIOUS
<1>4. q \in Nat /\ (k + 1) * mtu = q + mtu
  BY <1>2, <1>3, Times
<1>5. Cut(data, k + 1) = IF q + mtu < Len(data) THEN q + mtu ELSE Len(data)
  BY <1>4 DEF Cut
<1>6. Cut(data, k) \in 0 .. Len(data) /\ Cut(data, k + 1) \in Cut(data, k) .. Len(data)
  BY <1>1, <1>2, <1>3, <1>4, <1>5
<1>7. (IF Len(data) - k * mtu > mtu THEN (k + 1) * mtu ELSE Len(data)) = Cut(data, k + 1)
  BY <1>1, <1>3, <1>4, <1>5
<1>8. Piece(dest, data, k) = Write(dest + Cut(data, k), SubSeq(data, Cut(data, k) + 1, Cut(data, k + 1)))
  BY <1>2, <1>7 DEF Piece
<1>9. SubSeq(data, Cut(data, k) + 1, Cut(data, k + 1)) \in Seq(Datum) /\ dest + Cut(data, k) \in Nat
  BY <1>1, <1>6, SubSeqFields
<1> QED
  BY <1>6, <1>8, <1>9 DEF Write, Command

\* pieces computes them one after the other.
LEMMA PiecesAre ==
  ASSUME NEW data \in Seq(Datum), NEW dest \in Nat
  PROVE  pieces(dest, data) = [k \in 1 .. NPieces(data) |-> Piece(dest, data, k - 1)]
<1> DEFINE F(f) ==
             [k \in 0 .. Len(data) |->
                LET d == IF k = 0 THEN dest ELSE f[k - 1].next IN
                [next |-> next_dest(d),
                 cmd |-> [k |-> "M", dest |-> d,
                          data |-> SubSeq(data, k * mtu + 1, IF Len(data) - k * mtu > mtu
                                                             THEN (k + 1) * mtu ELSE Len(data))]]]
           G(k) == [next |-> dest + (k + 1) * mtu, cmd |-> Piece(dest, data, k)]
           g == [k \in 0 .. Len(data) |-> G(k)]
           f == CHOOSE x : x = F(x)
<1>1. mtu \in Nat \ {0} /\ Len(data) \in Nat
  BY GdbConnAssumption
<1>2. ASSUME NEW x, NEW k \in 0 .. Len(data), k # 0 => x[k - 1].next = dest + k * mtu
      PROVE  F(x)[k] = G(k)
  <2>1. PICK d : d = IF k = 0 THEN dest ELSE x[k - 1].next
    OBVIOUS
  <2>2. d = dest + k * mtu /\ next_dest(d) = dest + (k + 1) * mtu
    <3>1. k * mtu \in Nat /\ (k + 1) * mtu = k * mtu + mtu /\ (k = 0 => k * mtu = 0)
      BY <1>1, Times
    <3> QED
      BY <1>1, <1>2, <2>1, <3>1 DEF next_dest
  <2> QED
    BY <2>1, <2>2 DEF Piece, Write
<1>3. g = F(g)
  <2>1. ASSUME NEW k \in 0 .. Len(data) PROVE F(g)[k] = g[k]
    <3>1. k # 0 => g[k - 1].next = dest + k * mtu
      <4>1. k # 0 => k - 1 \in 0 .. Len(data) /\ (k - 1) + 1 = k
        BY <1>1
      <4> QED
        BY <4>1
    <3> HIDE DEF F, G
    <3>2. F(g)[k] = G(k)
      <4> HIDE DEF g
      <4> QED
        BY <1>2, <3>1
    <3> QED
      BY <3>2
  <2>2. F(g) = [k \in 0 .. Len(data) |-> F(g)[k]]
    <3> HIDE DEF G, g
    <3> QED
      OBVIOUS
  <2> HIDE DEF F, G
  <2> QED
    BY <2>1, <2>2
<1>4. f = F(f)
  <2> HIDE DEF F, g
  <2> QED
    BY <1>3
<1>5. \A k \in Nat : k <= Len(data) => f[k] = G(k)
  <2> DEFINE S == {k \in Nat : k <= Len(data) => f[k] = G(k)}
  <2> HIDE DEF F, f, g
  <2>1. 0 \in S
    <3> HIDE DEF G
    <3>1. 0 \in 0 .. Len(data)
      BY <1>1
    <3>2. F(f)[0] = G(0)
      BY <1>2, <3>1
    <3> QED
      BY <1>4, <3>2
  <2>2. ASSUME NEW k \in S PROVE k + 1 \in S
    <3> SUFFICES ASSUME k + 1 <= Len(data) PROVE f[k + 1] = G(k + 1)
      OBVIOUS
    <3>1. PICK j : j = k + 1
      OBVIOUS
    <3>2. j \in 0 .. Len(data) /\ j - 1 = k /\ f[k] = G(k)
      BY <1>1, <3>1
    <3>3. f[j - 1].next = dest + j * mtu
      BY <3>1, <3>2
    <3> HIDE DEF G
    <3>4. F(f)[j] = G(j)
      BY <1>2, <3>2, <3>3
    <3> QED
      BY <1>4, <3>1, <3>4
  <2>3. S \in SUBSET Nat
    OBVIOUS
  <2> HIDE DEF S
  <2>4. S = Nat
    BY <2>1, <2>2, <2>3, InductNat
  <2> QED
    BY <2>4 DEF S
<1>6. ASSUME NEW k \in 1 .. NPieces(data) PROVE f[k - 1].cmd = Piece(dest, data, k - 1)
  <2>1. NPieces(data) \in Nat /\ k - 1 \in 0 .. NPieces(data) - 1
    BY PieceCount
  <2>2. k - 1 \in Nat /\ k - 1 <= Len(data)
    BY <1>1, <2>1, PieceCount
  <2> HIDE DEF f
  <2>3. f[k - 1] = G(k - 1)
    BY <1>5, <2>2
  <2> QED
    BY <2>3
<1>7. pieces(dest, data) = [k \in 1 .. NPieces(data) |-> f[k - 1].cmd]
  BY DEF pieces, NPieces
<1> HIDE DEF f
<1> QED
  BY <1>6, <1>7

LEMMA MemcpyPlan ==
  ASSUME NEW m \in QemuState, NEW data \in Seq(Datum), NEW dest \in Nat
  PROVE  /\ pieces(dest, data) \in Seq(Command) /\ pieces(dest, data) # <<>>
         /\ Executed(m, Write(dest, data)) \in QemuState
         /\ Run(m, pieces(dest, data), Executed(m, Write(dest, data)))
<1>1. PICK cs, n : cs = pieces(dest, data) /\ n = NPieces(data)
  OBVIOUS
<1>2. n \in Nat \ {0} /\ Len(data) \in Nat /\ m.mem \in [Addr -> Datum]
  BY <1>1, PieceCount DEF QemuState
<1>3. /\ cs = [k \in 1 .. n |-> Piece(dest, data, k - 1)]
      /\ \A k \in 1 .. n : k - 1 \in 0 .. NPieces(data) - 1
  BY <1>1, <1>2, PiecesAre
<1>4. cs \in Seq(Command) /\ Len(cs) = n /\ cs # <<>>
  <2>1. \A k \in 1 .. n : Piece(dest, data, k - 1) \in Command
    BY <1>3, PieceFields
  <2>2. cs \in [1 .. n -> Command]
    BY <1>3, <2>1
  <2> QED
    BY <1>2, <2>2
<1> DEFINE Upto(k) == Write(dest, SubSeq(data, 1, Cut(data, k)))
           ms == [k \in 0 .. n |-> Executed(m, Upto(k))]
<1>5. ASSUME NEW k \in 0 .. n PROVE Cut(data, k) \in 0 .. Len(data)
  <2>1. CASE k = n
    BY <1>1, <1>2, <2>1, PieceCount
  <2>2. CASE k # n
    <3>1. k \in 0 .. NPieces(data) - 1
      BY <1>1, <1>2, <2>2
    <3> QED
      BY <3>1, PieceFields
  <2> QED
    BY <2>1, <2>2
<1>6. ASSUME NEW b \in 0 .. Len(data) PROVE SubSeq(data, 1, b) \in Seq(Datum)
  BY <1>2
<1>7. ms \in [0 .. Len(cs) -> QemuState]
  <2>1. \A k \in 0 .. n : Upto(k) \in Command
    BY <1>5, <1>6 DEF Write, Command
  <2> HIDE DEF Upto
  <2> QED
    BY <1>4, <2>1, ExecutedType
<1>8. ms[0] = m
  <2>1. Cut(data, 0) = 0
    BY <1>2, GdbConnAssumption DEF Cut
  <2>2. SubSeq(data, 1, 0) = <<>>
    BY <1>2
  <2>3. Stored(m.mem, Write(dest, <<>>)) = m.mem
    <3>1. dest + Len(<<>>) - 1 < dest
      OBVIOUS
    <3>2. \A a \in Addr : a \notin dest .. dest + Len(<<>>) - 1
      BY <3>1
    <3> QED
      BY <1>2, <3>2 DEF Stored, Write
  <2>4. Executed(m, Write(dest, <<>>)) = m
    BY <2>3 DEF Executed, QemuState, Write
  <2>5. ms[0] = Executed(m, Upto(0))
    BY <1>2
  <2> HIDE DEF ms
  <2> QED
    BY <2>1, <2>2, <2>4, <2>5
<1>9. ms[Len(cs)] = Executed(m, Write(dest, data))
  <2>1. Cut(data, n) = Len(data) /\ SubSeq(data, 1, Len(data)) = data
    BY <1>1, <1>2, PieceCount
  <2>2. ms[n] = Executed(m, Upto(n))
    BY <1>2
  <2> HIDE DEF ms
  <2> QED
    BY <1>4, <2>1, <2>2
<1>10. ASSUME NEW k \in 1 .. Len(cs) PROVE ms[k] = Executed(ms[k - 1], cs[k])
  <2>1. PICK j : j = k - 1
    OBVIOUS
  <2>2. j \in 0 .. NPieces(data) - 1 /\ j + 1 = k /\ j \in 0 .. n /\ k \in 0 .. n
    BY <1>1, <1>2, <1>4, <2>1
  <2>3. PICK q, b : q = Cut(data, j) /\ b = Cut(data, j + 1)
    OBVIOUS
  <2>4. /\ q \in 0 .. Len(data) /\ b \in q .. Len(data)
        /\ Piece(dest, data, j) = Write(dest + q, SubSeq(data, q + 1, b))
    BY <2>2, <2>3, PieceFields
  <2>5. cs[k] = Write(dest + q, SubSeq(data, q + 1, b))
    BY <1>3, <1>4, <2>1, <2>4
  <2>6. /\ ms[k] = Executed(m, Write(dest, SubSeq(data, 1, b)))
        /\ ms[k - 1] = Executed(m, Write(dest, SubSeq(data, 1, q)))
    BY <2>1, <2>2, <2>3
  <2>7. Stored(Stored(m.mem, Write(dest, SubSeq(data, 1, q))), Write(dest + q, SubSeq(data, q + 1, b)))
          = Stored(m.mem, Write(dest, SubSeq(data, 1, b)))
    BY <1>2, <2>4, StoredTwice
  <2>8. ASSUME NEW mm, NEW d, NEW x
        PROVE  Executed(mm, Write(d, x)) = [mem |-> Stored(mm.mem, Write(d, x)), regs |-> mm.regs, steps |-> mm.steps]
    BY DEF Executed, Write
  <2> HIDE DEF ms
  <2> QED
    BY <2>5, <2>6, <2>7, <2>8
<1> HIDE DEF ms
<1>11. Run(m, cs, Executed(m, Write(dest, data)))
  BY <1>7, <1>8, <1>9, <1>10 DEF Run
<1>12. Executed(m, Write(dest, data)) \in QemuState
  <2>1. Write(dest, data) \in Command
    BY DEF Write, Command
  <2> QED
    BY <2>1, ExecutedType
<1> QED
  BY <1>1, <1>4, <1>11, <1>12

-----------------------------------------------------------------------------
(* What the receiver has made of a packet, after i bytes of its body.          *)

Prefix(t, s, n) == t \in Seq(Byte) /\ Len(t) = n /\ \A j \in 1 .. n : t[j] = s[j]

\* The clean packet b of the reply s: the receiver holds the start of s.
Reading(ph, reply, s, b, i) ==
  \/ b = s /\ ph = "body" /\ Prefix(reply, s, i)
  \/ \E x \in Runs(s) :
       /\ b = Shortened(s, x[1], x[2])
       /\ \/ i <= x[1] /\ ph = "body" /\ Prefix(reply, s, i)
          \/ i = x[1] + 1 /\ ph = "run" /\ Prefix(reply, s, x[1])
          \/ i >= x[1] + 2 /\ ph = "body" /\ Prefix(reply, s, i + x[2] - 2)

LEMMA PrefixNext ==
  ASSUME NEW s \in Seq(Byte), NEW n \in 0 .. Len(s) - 1, NEW t, Prefix(t, s, n), NEW c, c = s[n + 1]
  PROVE  Prefix(Append(t, c), s, n + 1)
<1>1. n + 1 \in 1 .. Len(s) /\ n \in Nat /\ t \in Seq(Byte) /\ Len(t) = n
  BY DEF Prefix
<1>2. c \in Byte
  BY <1>1
<1>3. PICK u : u = Append(t, c)
  OBVIOUS
<1>4. u \in Seq(Byte) /\ Len(u) = n + 1 /\ u[n + 1] = c /\ \A j \in 1 .. n : u[j] = t[j]
  BY <1>1, <1>2, <1>3
<1>5. \A j \in 1 .. n + 1 : u[j] = s[j]
  <2> TAKE j \in 1 .. n + 1
  <2>1. j \in 1 .. n \/ j = n + 1
    BY <1>1
  <2> QED
    BY <1>4, <2>1 DEF Prefix
<1> QED
  BY <1>3, <1>4, <1>5 DEF Prefix

LEMMA ReadChar ==
  ASSUME NEW s \in Seq(Plain), NEW b, NEW i \in 0 .. Len(b) - 1, NEW t, Reading("body", t, s, b, i),
         NEW c, c = b[i + 1]
  PROVE  /\ c \notin {Dollar, Hash, Brace}
         /\ c = Star => t # <<>> /\ Reading("run", t, s, b, i + 1)
         /\ c # Star => Reading("body", Append(t, c), s, b, i + 1)
<1>1. s \in Seq(Byte) /\ \A j \in 1 .. Len(s) : s[j] \notin {Dollar, Hash, Brace, Star}
  BY DEF Plain
<1>2. CASE b = s /\ Prefix(t, s, i)
  <2>1. c \notin {Dollar, Hash, Brace, Star}
    BY <1>1, <1>2
  <2>2. Prefix(Append(t, c), s, i + 1)
    BY <1>1, <1>2, PrefixNext
  <2> QED
    BY <1>2, <2>1, <2>2 DEF Reading
<1>3. ASSUME NEW x \in Runs(s), b = Shortened(s, x[1], x[2]),
             \/ i <= x[1] /\ Prefix(t, s, i)
             \/ i >= x[1] + 2 /\ Prefix(t, s, i + x[2] - 2)
      PROVE  /\ c \notin {Dollar, Hash, Brace}
             /\ c = Star => t # <<>> /\ Reading("run", t, s, b, i + 1)
             /\ c # Star => Reading("body", Append(t, c), s, b, i + 1)
  <2>1. PICK p, n : p = x[1] /\ n = x[2]
    OBVIOUS
  <2>2. /\ p \in 1 .. Len(s) /\ n \in 3 .. 5 /\ p + n <= Len(s)
        /\ b \in Seq(Body) /\ Len(b) = Len(s) - n + 2
        /\ \A j \in 1 .. p : b[j] = s[j]
        /\ b[p + 1] = Star
        /\ \A j \in p + 3 .. Len(b) : b[j] = s[j + n - 2]
    <3>1. Shorter(s, b, x[1], x[2])
      BY <1>3, Shortening
    <3>2. Shorter(s, b, p, n)
      BY <2>1, <3>1
    <3> QED
      BY <3>2, Zenon DEF Shorter
  <2>3. i \in Nat /\ i + 1 \in 1 .. Len(b)
    BY <2>2
  <2>4. c \notin {Dollar, Hash, Brace}
    BY <2>2, <2>3 DEF Body
  <2>5. CASE i < p /\ Prefix(t, s, i)
    <3>1. i + 1 \in 1 .. p /\ i \in 0 .. Len(s) - 1
      BY <2>2, <2>3, <2>5
    <3>2. c = s[i + 1] /\ i + 1 \in 1 .. Len(s)
      BY <2>2, <3>1
    <3>3. c # Star
      BY <1>1, <3>2
    <3>4. Prefix(Append(t, c), s, i + 1)
      BY <1>1, <2>5, <3>1, <3>2, PrefixNext
    <3>5. i + 1 <= x[1]
      BY <2>1, <3>1
    <3> QED
      BY <1>3, <2>4, <3>3, <3>4, <3>5 DEF Reading
  <2>6. CASE i = p /\ Prefix(t, s, i)
    <3>1. c = Star /\ t # <<>>
      BY <2>2, <2>6 DEF Prefix
    <3>2. i + 1 = x[1] + 1 /\ Prefix(t, s, x[1])
      BY <2>1, <2>6
    <3> QED
      BY <1>3, <2>4, <3>1, <3>2 DEF Reading
  <2>7. CASE i >= p + 2 /\ Prefix(t, s, i + n - 2)
    <3>1. PICK k : k = i + n - 2
      OBVIOUS
    <3>2. i + 1 \in p + 3 .. Len(b) /\ (i + 1) + n - 2 = k + 1 /\ k \in 0 .. Len(s) - 1 /\ k + 1 \in 1 .. Len(s)
      <4>1. i \in Nat /\ i + 1 <= Len(b) /\ i >= p + 2
        BY <2>3, <2>7
      <4>2. Len(b) = Len(s) - n + 2 /\ n \in 3 .. 5 /\ p \in Nat /\ Len(s) \in Nat
        BY <2>2
      <4> QED
        BY <3>1, <4>1, <4>2
    <3>3. c = s[k + 1]
      BY <2>2, <3>2
    <3>4. c # Star
      BY <1>1, <3>2, <3>3
    <3>5. Prefix(t, s, k)
      BY <2>7, <3>1
    <3>6. Prefix(Append(t, c), s, k + 1)
      BY <1>1, <3>2, <3>3, <3>5, PrefixNext
    <3>7. i + 1 >= x[1] + 2 /\ Prefix(Append(t, c), s, (i + 1) + x[2] - 2)
      BY <2>1, <2>2, <3>2, <3>6
    <3> QED
      BY <1>3, <2>4, <3>4, <3>7 DEF Reading
  <2>8. i < p \/ i = p \/ i >= p + 2
    BY <1>3, <2>1, <2>2, <2>3
  <2> QED
    BY <1>3, <2>1, <2>2, <2>3, <2>5, <2>6, <2>7, <2>8
<1>4. \/ b = s /\ Prefix(t, s, i)
      \/ \E x \in Runs(s) : /\ b = Shortened(s, x[1], x[2])
                            /\ \/ i <= x[1] /\ Prefix(t, s, i)
                               \/ i >= x[1] + 2 /\ Prefix(t, s, i + x[2] - 2)
  BY DEF Reading
<1> QED
  BY <1>2, <1>3, <1>4

LEMMA ReadRun ==
  ASSUME NEW s \in Seq(Plain), NEW b, NEW i, NEW t, Reading("run", t, s, b, i)
  PROVE  /\ i \in 0 .. Len(b) - 1
         /\ valid_count(b[i + 1])
         /\ Reading("body", t \o [j \in 1 .. run_length(b[i + 1]) |-> t[Len(t)]], s, b, i + 1)
<1>1. PICK x \in Runs(s) : b = Shortened(s, x[1], x[2]) /\ i = x[1] + 1 /\ Prefix(t, s, x[1])
  BY DEF Reading
<1>2. PICK p, n : p = x[1] /\ n = x[2]
  OBVIOUS
<1>r. i = p + 1 /\ Prefix(t, s, p)
  BY <1>1, <1>2, Zenon
<1>3. /\ p \in 1 .. Len(s) /\ n \in 3 .. 5 /\ p + n <= Len(s) /\ Len(b) = Len(s) - n + 2
      /\ b[p + 2] = 29 + n
      /\ \A j \in p .. p + n : s[j] = s[p]
  <2>1. Shorter(s, b, x[1], x[2])
    BY <1>1, Shortening
  <2>2. Shorter(s, b, p, n)
    BY <1>2, <2>1
  <2> QED
    BY <2>2, Zenon DEF Shorter
<1>4. i = p + 1 /\ i + 1 = p + 2 /\ i \in 0 .. Len(b) - 1
  BY <1>r, <1>3
<1>5. valid_count(b[i + 1]) /\ run_length(b[i + 1]) = n
  BY <1>3, <1>4 DEF valid_count, run_length, Dollar, Hash
<1>6. t \in Seq(Byte) /\ Len(t) = p /\ (\A j \in 1 .. p : t[j] = s[j]) /\ t[p] = s[p] /\ t[p] \in Byte
  BY <1>r, <1>3 DEF Prefix
<1>7. PICK u, y : u = [j \in 1 .. n |-> t[Len(t)]] /\ y = t \o u
  OBVIOUS
<1>8. u \in Seq(Byte) /\ Len(u) = n /\ \A j \in 1 .. n : u[j] = s[p]
  BY <1>3, <1>6, <1>7
<1>9. /\ y \in Seq(Byte) /\ Len(y) = Len(t) + Len(u)
      /\ \A j \in 1 .. Len(t) : y[j] = t[j]
      /\ \A j \in 1 .. Len(u) : y[Len(t) + j] = u[j]
  <2>1. t \in Seq(Byte) /\ u \in Seq(Byte)
    BY <1>6, <1>8
  <2>2. y = t \o u
    BY <1>7
  <2> QED
    BY <2>1, <2>2, Concat
<1>10. ASSUME NEW j \in 1 .. p + n PROVE y[j] = s[j]
  <2>1. CASE j <= p
    <3>1. j \in 1 .. p
      BY <1>3, <2>1
    <3> QED
      BY <1>6, <1>9, <3>1
  <2>2. CASE ~(j <= p)
    <3>1. j - p \in 1 .. n /\ p + (j - p) = j /\ j \in p .. p + n
      BY <1>3, <2>2
    <3>2. y[p + (j - p)] = u[j - p]
      BY <1>6, <1>8, <1>9, <3>1
    <3> QED
      BY <1>3, <1>8, <3>1, <3>2
  <2> QED
    BY <2>1, <2>2
<1>11. (i + 1) + n - 2 = p + n /\ Len(y) = p + n
  BY <1>3, <1>4, <1>6, <1>8, <1>9
<1>12. Prefix(y, s, (i + 1) + n - 2)
  BY <1>9, <1>10, <1>11 DEF Prefix
<1>13. i + 1 >= p + 2
  BY <1>3, <1>4
<1>14. Prefix(y, s, (i + 1) + x[2] - 2) /\ i + 1 >= x[1] + 2
  BY <1>2, <1>12, <1>13, Zenon
<1> QED
  BY <1>1, <1>4, <1>5, <1>7, <1>14 DEF Reading

LEMMA ReadEnd ==
  ASSUME NEW s \in Seq(Plain), NEW b, NEW t, NEW ph, Reading(ph, t, s, b, Len(b))
  PROVE  ph = "body" /\ t = s
<1>1. s \in Seq(Byte) /\ Len(s) \in Nat
  BY DEF Plain
<1>2. ASSUME Prefix(t, s, Len(s)) PROVE t = s
  BY <1>1, <1>2 DEF Prefix
<1>3. CASE b = s /\ ph = "body" /\ Prefix(t, s, Len(b))
  BY <1>2, <1>3
<1>4. ASSUME NEW x \in Runs(s), b = Shortened(s, x[1], x[2]),
             \/ Len(b) <= x[1] /\ ph = "body" /\ Prefix(t, s, Len(b))
             \/ Len(b) = x[1] + 1 /\ ph = "run" /\ Prefix(t, s, x[1])
             \/ Len(b) >= x[1] + 2 /\ ph = "body" /\ Prefix(t, s, Len(b) + x[2] - 2)
      PROVE  ph = "body" /\ t = s
  <2>1. PICK p, n : p = x[1] /\ n = x[2]
    OBVIOUS
  <2>2. p \in 1 .. Len(s) /\ n \in 3 .. 5 /\ p + n <= Len(s) /\ Len(b) = Len(s) - n + 2
    <3>1. Shorter(s, b, x[1], x[2])
      BY <1>4, Shortening
    <3>2. Shorter(s, b, p, n)
      BY <2>1, <3>1
    <3> QED
      BY <3>2, Zenon DEF Shorter
  <2>3. Len(b) >= p + 2 /\ Len(b) + n - 2 = Len(s)
    BY <1>1, <2>2
  <2>4. ~(Len(b) <= x[1]) /\ Len(b) # x[1] + 1 /\ Len(b) + x[2] - 2 = Len(s)
    <3>1. ~(Len(b) <= p) /\ Len(b) # p + 1
      BY <1>1, <2>2, <2>3
    <3> QED
      BY <2>1, <2>3, <3>1, Zenon
  <2> QED
    BY <1>2, <1>4, <2>4
<1> QED
  BY <1>3, <1>4 DEF Reading

\* The sum so far is that of the i bytes and d more, where d is 0 unless a false '$' made
\* the receiver start over; in the end it betrays the packet, or the reply is s.
Tally(sum, b, i, d) == sum = (Sums(b)[i] + d) % 256
Wrong(b, d, h, l) == (Sum(b) + d) % 256 # gdb_decode_hex(h, l)
Received(r, s, b, i, h, l) ==
  NoEcho =>
    \E d \in Byte :
      /\ Tally(r.sum, b, i, d)
      /\ \/ d = 0 /\ Clean(s, b, h, l) /\ r.escape = FALSE /\ Reading(r.ph, r.reply, s, b, i)
         \/ Wrong(b, d, h, l)

LEMMA TallyNext ==
  ASSUME NEW b \in Seq(Byte), NEW i \in 0 .. Len(b) - 1, NEW d \in Byte, NEW sum, Tally(sum, b, i, d)
  PROVE  Tally(new_sum(sum, b[i + 1]), b, i + 1, d)
<1>1. i \in 0 .. Len(b) /\ i + 1 \in 1 .. Len(b) /\ (i + 1) - 1 = i
  OBVIOUS
<1>2. Sums(b)[i] \in Byte /\ b[i + 1] \in Byte /\ Sums(b)[i + 1] = (Sums(b)[i] + b[i + 1]) % 256
  BY <1>1, SumsDef
<1>3. PICK x \in Byte, z \in Byte : x = Sums(b)[i] /\ z = b[i + 1]
  BY <1>2
<1>4. (((x + d) % 256) + z) % 256 = (((x + z) % 256) + d) % 256
  BY AddLast
<1>5. sum = (x + d) % 256 /\ Sums(b)[i + 1] = (x + z) % 256
  BY <1>2, <1>3 DEF Tally
<1> QED
  BY <1>3, <1>4, <1>5 DEF Tally, new_sum

LEMMA TallyEnd ==
  ASSUME NEW b \in Seq(Byte), NEW d \in Byte
  PROVE  /\ Sum(b) \in Byte /\ (Sum(b) + 0) % 256 = Sum(b) /\ Tally(0, b, 0, 0)
         /\ \A sum : Tally(sum, b, Len(b), d) => sum = (Sum(b) + d) % 256
<1>1. 0 \in Byte /\ Len(b) \in 0 .. Len(b)
  BY DEF Byte
<1>2. Sum(b) \in Byte /\ Sums(b)[0] = 0
  BY <1>1, SumsDef DEF Sum
<1>3. \A x \in Byte : (x + 0) % 256 = x
  BY Z3 DEF Byte
<1> QED
  BY <1>1, <1>2, <1>3 DEF Tally, Sum

LEMMA ReceivedNext ==
  ASSUME NEW b \in Seq(Byte), NEW i \in 0 .. Len(b) - 1, NEW r, NEW q, NEW s, NEW h, NEW l,
         Received(r, s, b, i, h, l), q.sum = new_sum(r.sum, b[i + 1]),
         Clean(s, b, h, l) /\ r.escape = FALSE /\ Reading(r.ph, r.reply, s, b, i)
           => q.escape = FALSE /\ Reading(q.ph, q.reply, s, b, i + 1)
  PROVE  Received(q, s, b, i + 1, h, l)
<1> SUFFICES ASSUME NoEcho
             PROVE  \E d \in Byte :
                      /\ Tally(q.sum, b, i + 1, d)
                      /\ \/ d = 0 /\ Clean(s, b, h, l) /\ q.escape = FALSE /\ Reading(q.ph, q.reply, s, b, i + 1)
                         \/ Wrong(b, d, h, l)
  BY DEF Received
<1>1. PICK d \in Byte :
        /\ Tally(r.sum, b, i, d)
        /\ \/ d = 0 /\ Clean(s, b, h, l) /\ r.escape = FALSE /\ Reading(r.ph, r.reply, s, b, i)
           \/ Wrong(b, d, h, l)
  BY DEF Received
<1>2. Tally(q.sum, b, i + 1, d)
  BY <1>1, TallyNext
<1> QED
  BY <1>1, <1>2

\* The '$', and a false one.
LEMMA ReceivedStart ==
  ASSUME NEW s \in Seq(Plain), NEW b \in Seq(Byte), NEW h, NEW l, Sound(s, b, h, l)
  PROVE  Received(Phase("body"), s, b, 0, h, l)
<1> SUFFICES ASSUME NoEcho PROVE Received(Phase("body"), s, b, 0, h, l)
  BY DEF Received
<1>1. 0 \in Byte
  BY DEF Byte
<1>2. Tally(0, b, 0, 0) /\ (Sum(b) + 0) % 256 = Sum(b)
  BY <1>1, TallyEnd
<1>3. Phase("body").sum = 0 /\ Phase("body").escape = FALSE /\ Phase("body").ph = "body" /\ Phase("body").reply = <<>>
  BY DEF Phase
<1>4. CASE Clean(s, b, h, l)
  <2>1. Reading("body", <<>>, s, b, 0)
    <3>1. Prefix(<<>>, s, 0)
      BY DEF Prefix
    <3>2. CASE b = s
      BY <3>1, <3>2 DEF Reading
    <3>3. ASSUME NEW x \in Runs(s), b = Shortened(s, x[1], x[2]) PROVE Reading("body", <<>>, s, b, 0)
      <4>1. 0 <= x[1]
        <5>1. x[1] \in 1 .. Len(s)
          BY <3>3, Shortening DEF Shorter
        <5> QED
          BY <5>1
      <4> QED
        BY <3>1, <3>3, <4>1 DEF Reading
    <3> QED
      BY <1>4, <3>2, <3>3 DEF Clean, Encodings
  <2> QED
    BY <1>1, <1>2, <1>3, <1>4, <2>1 DEF Received
<1>5. CASE Sum(b) # gdb_decode_hex(h, l)
  <2>1. Wrong(b, 0, h, l)
    BY <1>2, <1>5 DEF Wrong
  <2> QED
    BY <1>1, <1>2, <1>3, <2>1 DEF Received
<1> QED
  BY <1>4, <1>5 DEF Sound

LEMMA ReceivedDollar ==
  ASSUME NEW b \in Seq(Byte), NEW i \in 0 .. Len(b) - 1, b[i + 1] = Dollar,
         NEW s, NEW h, NEW l, Sound(s, b, h, l)
  PROVE  Received(Phase("body"), s, b, i + 1, h, l)
<1> SUFFICES ASSUME NoEcho PROVE Received(Phase("body"), s, b, i + 1, h, l)
  BY DEF Received
<1>1. i + 1 \in 1 .. Len(b) /\ i + 1 \in 0 .. Len(b)
  OBVIOUS
<1>2. PICK x \in Byte : x = Sums(b)[i + 1]
  BY <1>1, SumsDef
<1>3. PICK d \in Byte : (x + d) % 256 = 0
  <2> DEFINE d == IF x = 0 THEN 0 ELSE 256 - x
  <2>1. d \in Byte
    BY DEF Byte
  <2>2. (x + d) % 256 = IF x + d < 256 THEN x + d ELSE x + d - 256
    BY <2>1, AddBytes
  <2>3. (x + d) % 256 = 0
    BY <2>2 DEF Byte
  <2> QED
    BY <2>1, <2>3
<1>4. Tally(0, b, i + 1, d)
  BY <1>2, <1>3 DEF Tally
<1>5. Wrong(b, d, h, l)
  BY <1>1, <1>2, <1>3 DEF Sound, Echo, Wrong
<1>6. Phase("body").sum = 0
  BY DEF Phase
<1> QED
  BY <1>4, <1>5, <1>6 DEF Received

\* recv_char, recv_run.
LEMMA ReceivedChar ==
  ASSUME NEW s \in Seq(Plain), NEW b \in Seq(Byte), NEW i \in 0 .. Len(b) - 1, NEW h, NEW l,
         NEW r, NEW q, NEW c, c = b[i + 1],
         Received(r, s, b, i, h, l), r.ph = "body", q.sum = new_sum(r.sum, c),
         \/ c = Brace
         \/ c = Star /\ r.reply # <<>> /\ q.ph = "run" /\ q.reply = r.reply /\ q.escape = r.escape
         \/ /\ ~(c = Star /\ r.reply # <<>>) /\ q.ph = "body" /\ q.escape = FALSE
            /\ q.reply = Append(r.reply, IF r.escape THEN xor20(c) ELSE c)
  PROVE  Received(q, s, b, i + 1, h, l)
<1>1. ASSUME r.escape = FALSE, Reading(r.ph, r.reply, s, b, i)
      PROVE  q.escape = FALSE /\ Reading(q.ph, q.reply, s, b, i + 1)
  <2>1. PICK t : t = r.reply
    OBVIOUS
  <2>2. Reading("body", t, s, b, i)
    BY <1>1, <2>1
  <2>3. /\ c \notin {Dollar, Hash, Brace}
        /\ c = Star => t # <<>> /\ Reading("run", t, s, b, i + 1)
        /\ c # Star => Reading("body", Append(t, c), s, b, i + 1)
    BY <2>2, ReadChar
  <2> QED
    BY <1>1, <2>1, <2>3
<1> QED
  BY <1>1, ReceivedNext

LEMMA ReceivedRun ==
  ASSUME NEW s \in Seq(Plain), NEW b \in Seq(Byte), NEW i \in 0 .. Len(b) - 1, NEW h, NEW l,
         NEW r, NEW q, NEW c, c = b[i + 1],
         Received(r, s, b, i, h, l), r.ph = "run", q.sum = new_sum(r.sum, c),
         q.ph = "body", q.escape = r.escape,
         q.reply = r.reply \o [j \in 1 .. run_length(c) |-> r.reply[Len(r.reply)]]
  PROVE  Received(q, s, b, i + 1, h, l)
<1>1. ASSUME r.escape = FALSE, Reading(r.ph, r.reply, s, b, i)
      PROVE  q.escape = FALSE /\ Reading(q.ph, q.reply, s, b, i + 1)
  <2>1. PICK t : t = r.reply
    OBVIOUS
  <2>2. Reading("run", t, s, b, i)
    BY <1>1, <2>1
  <2>3. Reading("body", t \o [j \in 1 .. run_length(b[i + 1]) |-> t[Len(t)]], s, b, i + 1)
    BY <2>2, ReadRun
  <2> QED
    BY <1>1, <2>1, <2>3
<1> QED
  BY <1>1, ReceivedNext

LEMMA ReceivedUnget ==
  ASSUME NEW s \in Seq(Plain), NEW b \in Seq(Byte), NEW i \in 0 .. Len(b), NEW h, NEW l,
         NEW r, NEW q, Received(r, s, b, i, h, l), r.ph = "run", q.sum = r.sum,
         i = Len(b) \/ ~valid_count(b[i + 1])
  PROVE  Received(q, s, b, i, h, l)
<1>1. ASSUME Reading(r.ph, r.reply, s, b, i) PROVE FALSE
  <2>1. PICK t : t = r.reply
    OBVIOUS
  <2>2. Reading("run", t, s, b, i)
    BY <1>1, <2>1
  <2>3. valid_count(b[i + 1]) /\ i \in 0 .. Len(b) - 1
    BY <2>2, ReadRun
  <2> QED
    BY <2>3
<1> QED
  BY <1>1 DEF Received

\* The '#'.
LEMMA ReceivedAll ==
  ASSUME NEW s \in Seq(Plain), NEW b \in Seq(Byte), NEW h, NEW l,
         NEW r, Received(r, s, b, Len(b), h, l), NoEcho
  PROVE  r.reply = s \/ r.sum # gdb_decode_hex(h, l)
<1>1. PICK d \in Byte :
        /\ Tally(r.sum, b, Len(b), d)
        /\ \/ Reading(r.ph, r.reply, s, b, Len(b))
           \/ Wrong(b, d, h, l)
  BY DEF Received
<1>2. r.sum = (Sum(b) + d) % 256
  BY <1>1, TallyEnd
<1>3. CASE Reading(r.ph, r.reply, s, b, Len(b))
  <2>1. PICK t, ph : t = r.reply /\ ph = r.ph
    OBVIOUS
  <2>2. Reading(ph, t, s, b, Len(b))
    BY <1>3, <2>1
  <2> QED
    BY <2>1, <2>2, ReadEnd
<1>4. CASE Wrong(b, d, h, l)
  BY <1>2, <1>4 DEF Wrong
<1> QED
  BY <1>1, <1>3, <1>4

-----------------------------------------------------------------------------
(* The invariant of the connection.                                            *)

Phases == {"idle", "send", "ack", "hunt", "body", "run", "msb", "lsb"}
Receiver == [ph : Phases, reply : Seq(Byte), sum : Byte, escape : BOOLEAN, msb : Byte]
Ack == [k |-> "+"]
Nak == [k |-> "-"]

Typed ==
  /\ cl \in Receiver /\ (cl.ph = "run" => cl.reply # <<>>)
  /\ stub.m \in QemuState /\ want \in QemuState
  /\ todo \in Seq(Command) /\ toClient \in Seq(Byte)
  /\ calls \in 0 .. MaxCalls /\ faults \in 0 .. MaxFaults

\* The reference has not executed the first command yet ...
Pending == Run(stub.m, todo, want)
\* ... or it has, and the answer is on its way or asked for again.
Answered ==
  /\ todo # <<>> /\ Run(stub.m, Tail(todo), want)
  /\ stub.reply \in Answers /\ stub.reply = Answer(stub.m, Head(todo))

Checked(r, s, h, l) == NoEcho => r.reply = s \/ r.sum # gdb_decode_hex(h, l)

\* Where a command and its answer can be.
Quiet == /\ cl.ph \in {"idle", "send"} /\ (cl.ph = "idle" <=> todo = <<>>)
         /\ toClient = <<>> /\ toStub \in {<<>>, <<Ack>>}
Commanded == /\ cl.ph = "ack" /\ todo # <<>>
             /\ toClient = <<>> /\ toStub \in {<<Head(todo)>>, <<Ack, Head(todo)>>}
Refused == cl.ph = "ack" /\ todo # <<>> /\ toClient = <<Minus>> /\ toStub = <<>>
Accepted == /\ cl.ph = "ack" /\ toStub = <<>>
            /\ toClient # <<>> /\ toClient[1] = Plus /\ Whole(stub.reply, Tail(toClient))
Coming == cl.ph = "hunt" /\ toStub = <<>> /\ Whole(stub.reply, toClient)
Again == cl.ph = "hunt" /\ toStub = <<Nak>> /\ toClient = <<>>
Arriving(b, i, h, l) ==
  Frame(toClient, b, i, h, l) /\ Sound(stub.reply, b, h, l) /\ Received(cl, stub.reply, b, i, h, l)
Receiving == cl.ph \in {"body", "run"} /\ toStub = <<>> /\ \E b, i, h, l : Arriving(b, i, h, l)
TwoDigits == /\ cl.ph = "msb" /\ toStub = <<>>
             /\ \E h, l \in Byte : toClient = <<h, l>> /\ Checked(cl, stub.reply, h, l)
LastDigit == /\ cl.ph = "lsb" /\ toStub = <<>>
             /\ \E l \in Byte : toClient = <<l>> /\ Checked(cl, stub.reply, cl.msb, l)

Line ==
  \/ Pending /\ (Quiet \/ Commanded \/ Refused)
  \/ Answered /\ (Accepted \/ Coming \/ Again \/ Receiving \/ TwoDigits \/ LastDigit)

GotInv == NoEcho => got.reply = got.answer /\ got.regs = got.ref_regs

LEMMA AtPhase ==
  ASSUME Line
  PROVE  /\ cl.ph \in {"idle", "send"} => Pending /\ Quiet
         /\ cl.ph = "ack" => (Pending /\ (Commanded \/ Refused)) \/ (Answered /\ Accepted)
         /\ cl.ph = "hunt" => Answered /\ (Coming \/ Again)
         /\ cl.ph \in {"body", "run"} => Answered /\ Receiving
         /\ cl.ph = "msb" => Answered /\ TwoDigits
         /\ cl.ph = "lsb" => Answered /\ LastDigit
<1>1. /\ Quiet => cl.ph \in {"idle", "send"}
      /\ Commanded \/ Refused \/ Accepted => cl.ph = "ack"
      /\ Coming \/ Again => cl.ph = "hunt"
      /\ Receiving => cl.ph \in {"body", "run"}
      /\ TwoDigits => cl.ph = "msb"
      /\ LastDigit => cl.ph = "lsb"
  BY DEF Quiet, Commanded, Refused, Accepted, Coming, Again, Receiving, TwoDigits, LastDigit
<1> QED
  BY <1>1 DEF Line

LEMMA PhaseType ==
  ASSUME NEW ph \in Phases
  PROVE  Phase(ph) \in Receiver /\ Phase(ph).ph = ph
BY DEF Phase, Receiver, Byte

LEMMA InitLine == GdbInit => Typed /\ Line /\ GotInv
<1> SUFFICES ASSUME GdbInit PROVE Typed /\ Line /\ GotInv
  OBVIOUS
<1>1. PICK r \in RegVal :
        want = [mem |-> [x \in Addr |-> CHOOSE d \in Datum : TRUE], regs |-> [x \in 1 .. NrReg |-> r], steps |-> 0]
  BY DEF GdbInit
<1>2. want \in QemuState
  <2>1. (CHOOSE d \in Datum : TRUE) \in Datum
    BY GdbConnAssumption
  <2> QED
    BY <1>1, <2>1 DEF QemuState
<1>3. todo = <<>> /\ cl = Phase("idle") /\ toClient = <<>> /\ toStub = <<Ack>> /\ stub.m = want /\ calls = 0 /\ faults = 0
  BY DEF GdbInit, Ack
<1>4. cl \in Receiver /\ cl.ph = "idle"
  BY <1>3, PhaseType DEF Phases
<1>5. Typed
  BY <1>2, <1>3, <1>4, GdbConnAssumption DEF Typed
<1>6. Pending
  BY <1>2, <1>3, RunEmpty DEF Pending
<1>7. Quiet
  BY <1>3, <1>4 DEF Quiet
<1>8. GotInv
  BY DEF GdbInit, GotInv
<1> QED
  BY <1>5, <1>6, <1>7, <1>8 DEF Line

\* Plans of the calls.
LEMMA CallStep ==
  ASSUME Typed, Line, GotInv, NEW commands, NEW machine, call(commands, machine),
         commands \in Seq(Command), commands # <<>>, machine \in QemuState,
         Run(want, commands, machine)
  PROVE  Typed' /\ Line' /\ GotInv'
<1>1. cl.ph = "idle" /\ Pending /\ Quiet
  BY AtPhase DEF call
<1>2. /\ todo' = commands /\ want' = machine /\ calls' = calls + 1 /\ calls < MaxCalls /\ cl' = Phase("send")
      /\ toClient' = toClient /\ toStub' = toStub /\ stub' = stub /\ got' = got /\ faults' = faults
  BY DEF call
<1>3. todo = <<>>
  BY <1>1 DEF Quiet
<1>4. stub.m = want
  BY <1>1, <1>3, RunEmpty DEF Pending, Typed
<1>5. cl' \in Receiver /\ cl'.ph = "send"
  BY <1>2, PhaseType DEF Phases
<1>6. Typed'
  BY <1>2, <1>5, GdbConnAssumption DEF Typed
<1>7. Pending'
  BY <1>2, <1>4 DEF Pending
<1>8. Quiet'
  BY <1>1, <1>2, <1>5 DEF Quiet
<1>9. GotInv'
  BY <1>2 DEF GotInv
<1> QED
  BY <1>6, <1>7, <1>8, <1>9 DEF Line

LEMMA CallsStep ==
  ASSUME Typed, Line, GotInv, Call
  PROVE  Typed' /\ Line' /\ GotInv'
<1> USE DEF Typed
<1>1. ASSUME NEW n \in 1 .. MaxExec, difftest_exec(n) PROVE Typed' /\ Line' /\ GotInv'
  <2>1. PICK cs : cs = [i \in 1 .. n |-> [k |-> "s"]]
    OBVIOUS
  <2>2. PICK m : m = want
    OBVIOUS
  <2>3. n \in Nat \ {0} /\ m \in QemuState
    BY <2>2
  <2>4. cs \in Seq(Command) /\ Steps(m, n)[n] \in QemuState /\ Run(m, cs, Steps(m, n)[n])
    BY <2>1, <2>3, ExecPlan
  <2>5. call(cs, Steps(m, n)[n])
    BY <1>1, <2>1, <2>2 DEF difftest_exec, Steps
  <2>6. cs # <<>>
    BY <2>1, <2>3
  <2> QED
    BY <2>2, <2>4, <2>5, <2>6, CallStep
<1>2. ASSUME NEW dest \in Addr, NEW n \in 0 .. Cardinality(Addr) - dest, NEW data \in [1 .. n -> Datum],
             difftest_memcpy(dest, data)
      PROVE  Typed' /\ Line' /\ GotInv'
  <2>1. PICK m : m = want
    OBVIOUS
  <2>2. m \in QemuState /\ dest \in Nat /\ data \in Seq(Datum)
    <3>1. Cardinality(Addr) \in Nat /\ dest \in Nat
      BY GdbConnAssumption, FS_CardinalityType
    <3>2. n \in Nat
      BY <3>1
    <3> QED
      BY <2>1, <3>1, <3>2
  <2>3. /\ pieces(dest, data) \in Seq(Command) /\ pieces(dest, data) # <<>>
        /\ Executed(m, Write(dest, data)) \in QemuState
        /\ Run(m, pieces(dest, data), Executed(m, Write(dest, data)))
    BY <2>2, MemcpyPlan
  <2>4. call(pieces(dest, data), Executed(m, Write(dest, data)))
    BY <1>2, <2>1 DEF difftest_memcpy, Write
  <2> QED
    BY <2>1, <2>3, <2>4, CallStep
<1>3. ASSUME NEW r \in Regs, difftest_regcpy_to_ref(r) PROVE Typed' /\ Line' /\ GotInv'
  <2>1. PICK m : m = want
    OBVIOUS
  <2>2. PICK cs : cs = <<[k |-> "g"], [k |-> "G", regs |-> r]>>
    OBVIOUS
  <2>3. cs \in Seq(Command) /\ [m EXCEPT !.regs = r] \in QemuState /\ Run(m, cs, [m EXCEPT !.regs = r])
    BY <2>1, <2>2, RegcpyPlan
  <2>4. call(cs, [m EXCEPT !.regs = r]) /\ cs # <<>>
    BY <1>3, <2>1, <2>2 DEF difftest_regcpy_to_ref
  <2> QED
    BY <2>1, <2>3, <2>4, CallStep
<1>4. ASSUME difftest_regcpy_to_dut PROVE Typed' /\ Line' /\ GotInv'
  <2>1. PICK m : m = want
    OBVIOUS
  <2>2. PICK cs : cs = <<[k |-> "g"]>>
    OBVIOUS
  <2>3. cs \in Seq(Command) /\ Run(m, cs, m)
    <3>1. m.regs \in Regs
      BY <2>1 DEF QemuState, Regs
    <3> QED
      BY <2>1, <2>2, <3>1, RegcpyPlan
  <2>4. call(cs, m) /\ cs # <<>>
    BY <1>4, <2>1, <2>2 DEF difftest_regcpy_to_dut
  <2> QED
    BY <2>1, <2>3, <2>4, CallStep
<1> QED
  BY <1>1, <1>2, <1>3, <1>4 DEF Call, Regs

\* QEMU's stub.
LEMMA Prepend ==
  ASSUME NEW w \in Seq(Byte), NEW byte \in Byte
  PROVE  /\ <<>> \o <<>> \o w = w
         /\ <<>> \o <<byte>> \o w \in Seq(Byte) /\ <<>> \o <<byte>> \o w # <<>>
         /\ (<<>> \o <<byte>> \o w)[1] = byte /\ Tail(<<>> \o <<byte>> \o w) = w
<1>1. <<>> \o <<>> \o w = w
  OBVIOUS
<1>2. PICK u, y : u = <<byte>> /\ y = u \o w
  OBVIOUS
<1>3. u \in Seq(Byte) /\ Len(u) = 1 /\ u[1] = byte
  BY <1>2
<1>4. <<>> \o <<byte>> \o w = y
  BY <1>2
<1>5. /\ y \in Seq(Byte) /\ Len(y) = Len(u) + Len(w)
      /\ \A j \in 1 .. Len(u) : y[j] = u[j]
      /\ \A j \in 1 .. Len(w) : y[Len(u) + j] = w[j]
  BY <1>2, <1>3, Concat
<1>6. y # <<>> /\ y[1] = byte /\ Len(y) = 1 + Len(w) /\ Len(w) \in Nat
  BY <1>3, <1>5
<1>7. /\ Tail(y) \in Seq(Byte) /\ Len(Tail(y)) = Len(y) - 1
      /\ \A j \in 1 .. Len(y) - 1 : Tail(y)[j] = y[j + 1]
  BY <1>5, <1>6, TailFields
<1>8. \A j \in 1 .. Len(w) : Tail(y)[j] = w[j]
  <2> TAKE j \in 1 .. Len(w)
  <2>1. j \in 1 .. Len(y) - 1 /\ 1 + j = j + 1
    BY <1>6
  <2> QED
    BY <1>3, <1>5, <1>7, <2>1
<1>9. Tail(y) = w
  <2>1. Len(Tail(y)) = Len(w)
    BY <1>6, <1>7
  <2>2. Tail(y) \in Seq(Byte)
    BY <1>7
  <2> QED
    BY <1>8, <2>1, <2>2
<1> QED
  BY <1>1, <1>4, <1>5, <1>6, <1>9

LEMMA SentWhole ==
  ASSUME NEW s \in Answers, NEW body \in Encodings(s), NEW ack, Sent(ack, body),
         toClient = <<>>, faults \in 0 .. MaxFaults
  PROVE  /\ faults' \in 0 .. MaxFaults
         /\ \E p \in Seq(Byte) : Whole(s, p) /\ toClient' = <<>> \o ack \o p
<1>1. CASE toClient' = toClient \o ack \o Packet(body) /\ UNCHANGED faults
  <2>1. Whole(s, Packet(body))
    BY PacketWhole
  <2> QED
    BY <1>1, <2>1 DEF Whole
<1>2. CASE /\ faults < MaxFaults /\ faults' = faults + 1
           /\ \E p \in Damaged(Packet(body)) : toClient' = toClient \o ack \o p
  <2>1. PICK p \in Damaged(Packet(body)) : toClient' = toClient \o ack \o p
    BY <1>2
  <2>2. Whole(s, p)
    BY PacketWhole
  <2>3. faults' \in 0 .. MaxFaults
    BY <1>2, GdbConnAssumption
  <2> QED
    BY <2>1, <2>2, <2>3 DEF Whole
<1> QED
  BY <1>1, <1>2 DEF Sent

\* What the stub can find.
LEMMA AtStub ==
  ASSUME Typed, Line, toStub # <<>>
  PROVE  /\ Head(toStub).k \in {"s", "M", "g", "G"} => Pending /\ Commanded /\ toStub = <<Head(todo)>>
         /\ Head(toStub).k = "-" => Answered /\ Again
         /\ Head(toStub).k = "+" =>
              /\ Pending /\ toStub # <<Nak>>
              /\ \/ Quiet /\ Tail(toStub) = <<>>
                 \/ Commanded /\ Tail(toStub) = <<Head(todo)>>
<1>1. todo # <<>> => Head(todo) \in Command
  BY DEF Typed
<1>2. todo # <<>> => Head(todo).k \in {"s", "M", "g", "G"}
  BY <1>1, CommandKind
<1>3. CASE Pending /\ Quiet
  <2>1. toStub = <<Ack>> /\ Head(toStub) = Ack /\ Tail(toStub) = <<>>
    <3>1. toStub = <<Ack>>
      BY <1>3 DEF Quiet
    <3>2. \A x : Head(<<x>>) = x /\ Tail(<<x>>) = <<>>
      OBVIOUS
    <3> QED
      BY <3>1, <3>2
  <2> QED
    BY <1>3, <2>1 DEF Ack, Nak
<1>4. CASE Pending /\ Commanded
  <2>1. PICK cmd : cmd = Head(todo)
    OBVIOUS
  <2>2. cmd.k \in {"s", "M", "g", "G"}
    BY <1>2, <1>4, <2>1 DEF Commanded
  <2>3. CASE toStub = <<cmd>>
    BY <1>4, <2>1, <2>2, <2>3
  <2>4. CASE toStub = <<Ack, cmd>>
    <3>1. Head(toStub).k = "+" /\ Tail(toStub) = <<cmd>> /\ toStub # <<Nak>>
      BY <2>4 DEF Ack
    <3> QED
      BY <1>4, <2>1, <3>1
  <2> QED
    BY <1>4, <2>1, <2>3, <2>4 DEF Commanded
<1>5. CASE Answered /\ Again
  <2>1. Head(toStub).k = "-"
    BY <1>5 DEF Again, Nak
  <2> QED
    BY <1>5, <2>1
<1> QED
  BY <1>3, <1>4, <1>5 DEF Line, Refused, Accepted, Coming, Receiving, TwoDigits, LastDigit

LEMMA StubCommandStep ==
  ASSUME Typed, Line, GotInv, stub_command
  PROVE  Typed' /\ Line' /\ GotInv'
<1>1. toStub # <<>> /\ Pending /\ Commanded /\ toStub = <<Head(todo)>>
  BY AtStub DEF stub_command
<1>2. PICK cmd : cmd = Head(todo)
  OBVIOUS
<1>3. /\ toStub' = <<>> /\ Head(toStub) = cmd
      /\ todo' = todo /\ cl' = cl /\ want' = want /\ got' = got /\ calls' = calls
  BY <1>1, <1>2 DEF stub_command
<1>4. todo # <<>> /\ cl.ph = "ack" /\ toClient = <<>> /\ cmd \in Command
  BY <1>1, <1>2 DEF Commanded, Typed
<1>5. PICK m, answer : m = Executed(stub.m, cmd) /\ answer = Answer(m, cmd)
  OBVIOUS
<1>6. m \in QemuState /\ answer \in Answers
  <2>1. m \in QemuState
    BY <1>4, <1>5, ExecutedType DEF Typed
  <2> QED
    BY <1>5, <2>1, AnswerType
<1>7. GotInv'
  BY <1>3 DEF GotInv
<1>8. CASE stub' = [m |-> m, reply |-> answer] /\ \E body \in Encodings(answer) : Sent(<<Plus>>, body)
  <2>1. PICK p \in Seq(Byte) : Whole(answer, p) /\ toClient' = <<>> \o <<Plus>> \o p
    BY <1>4, <1>6, <1>8, SentWhole DEF Typed
  <2>2. faults' \in 0 .. MaxFaults
    BY <1>4, <1>6, <1>8, SentWhole DEF Typed
  <2>3. Plus \in Byte
    BY DEF Plus, Byte
  <2>4. toClient' \in Seq(Byte) /\ toClient' # <<>> /\ toClient'[1] = Plus /\ Tail(toClient') = p
    BY <2>1, <2>3, Prepend
  <2>5. stub'.m = m /\ stub'.reply = answer
    BY <1>8
  <2>6. Typed'
    BY <1>3, <1>6, <2>2, <2>4, <2>5 DEF Typed
  <2>7. Run(m, Tail(todo), want)
    <3>1. todo \in Seq(Command) /\ Run(stub.m, todo, want)
      BY <1>1 DEF Pending, Typed
    <3> QED
      BY <1>2, <1>4, <1>5, <3>1, RunTail
  <2>8. Answered'
    BY <1>2, <1>3, <1>4, <1>5, <1>6, <2>5, <2>7 DEF Answered
  <2>9. Accepted'
    BY <1>3, <1>4, <2>1, <2>4, <2>5 DEF Accepted
  <2> QED
    BY <1>7, <2>6, <2>8, <2>9 DEF Line
<1>9. CASE /\ faults < MaxFaults /\ faults' = faults + 1
           /\ toClient' = Append(toClient, Minus) /\ stub' = stub
  <2>1. toClient' = <<Minus>> /\ Minus \in Byte
    BY <1>4, <1>9 DEF Minus, Byte
  <2>2. Typed'
    BY <1>3, <1>9, <2>1, GdbConnAssumption DEF Typed
  <2>3. Pending' /\ Refused'
    BY <1>1, <1>3, <1>4, <1>9, <2>1 DEF Pending, Refused
  <2> QED
    BY <1>7, <2>2, <2>3 DEF Line
<1> QED
  BY <1>3, <1>5, <1>8, <1>9 DEF stub_command

LEMMA StubAckStep ==
  ASSUME Typed, Line, GotInv, stub_ack
  PROVE  Typed' /\ Line' /\ GotInv'
<1>1. /\ toStub # <<>> /\ Head(toStub).k \in {"+", "-"} /\ toStub' = Tail(toStub)
      /\ todo' = todo /\ cl' = cl /\ stub' = stub /\ want' = want /\ got' = got /\ calls' = calls
  BY DEF stub_ack
<1>2. GotInv'
  BY <1>1 DEF GotInv
<1>3. CASE Head(toStub).k = "+"
  <2>1. toClient' = toClient /\ faults' = faults
    BY <1>3 DEF stub_ack
  <2>2. Typed'
    BY <1>1, <2>1 DEF Typed
  <2>3. Pending /\ ((Quiet /\ Tail(toStub) = <<>>) \/ (Commanded /\ Tail(toStub) = <<Head(todo)>>))
    BY <1>1, <1>3, AtStub
  <2>4. Pending'
    BY <1>1, <2>3 DEF Pending
  <2>5. CASE Quiet /\ Tail(toStub) = <<>>
    <3>1. Quiet'
      BY <1>1, <2>1, <2>5 DEF Quiet
    <3> QED
      BY <1>2, <2>2, <2>4, <3>1 DEF Line
  <2>6. CASE Commanded /\ Tail(toStub) = <<Head(todo)>>
    <3>1. Commanded'
      BY <1>1, <2>1, <2>6 DEF Commanded
    <3> QED
      BY <1>2, <2>2, <2>4, <3>1 DEF Line
  <2> QED
    BY <2>3, <2>5, <2>6
<1>4. CASE Head(toStub).k = "-"
  <2>1. Answered /\ Again
    BY <1>1, <1>4, AtStub
  <2>2. stub.reply \in Answers /\ toClient = <<>> /\ toStub = <<Nak>> /\ cl.ph = "hunt"
    BY <2>1 DEF Answered, Again
  <2>3. \E body \in Encodings(stub.reply) : Sent(<<>>, body)
    BY <1>4 DEF stub_ack
  <2>4. PICK s : s = stub.reply
    OBVIOUS
  <2>5. PICK p \in Seq(Byte) : Whole(s, p) /\ toClient' = <<>> \o <<>> \o p
    BY <2>2, <2>3, <2>4, SentWhole DEF Typed
  <2>6. faults' \in 0 .. MaxFaults
    BY <2>2, <2>3, <2>4, SentWhole DEF Typed
  <2>7. toClient' = p
    BY <2>5
  <2>8. Typed'
    BY <1>1, <2>6, <2>7 DEF Typed
  <2>9. Answered'
    BY <1>1, <2>1 DEF Answered
  <2>10. Coming'
    BY <1>1, <2>2, <2>4, <2>5, <2>7 DEF Coming
  <2> QED
    BY <1>2, <2>8, <2>9, <2>10 DEF Line
<1> QED
  BY <1>1, <1>3, <1>4

\* The receiver.
LEMMA Ends ==
  /\ \A x : Head(<<x>>) = x /\ Tail(<<x>>) = <<>>
  /\ \A x, y : Head(<<x, y>>) = x /\ Tail(<<x, y>>) = <<y>>
  /\ \A x : Append(<<>>, x) = <<x>> /\ <<x>> # <<>>
  /\ \A x, y : Append(<<x>>, y) = <<x, y>> /\ <<x, y>> # <<>>
<1>1. \A x : Head(<<x>>) = x /\ Tail(<<x>>) = <<>>
  OBVIOUS
<1>2. \A x, y : Head(<<x, y>>) = x /\ Tail(<<x, y>>) = <<y>>
  OBVIOUS
<1>3. \A x : Append(<<>>, x) = <<x>> /\ <<x>> # <<>>
  OBVIOUS
<1>4. \A x, y : Append(<<x>>, y) = <<x, y>> /\ <<x, y>> # <<>>
  <2> TAKE x, y
  <2>1. PICK T : T = {x, y}
    OBVIOUS
  <2>2. PICK u, v : u = <<x>> /\ v = Append(u, y)
    OBVIOUS
  <2>3. u \in Seq(T) /\ Len(u) = 1 /\ u[1] = x /\ y \in T
    BY <2>1, <2>2
  <2>4. v \in Seq(T) /\ Len(v) = 2 /\ v[1] = x /\ v[2] = y
    BY <2>2, <2>3
  <2>5. v = <<x, y>>
    BY <2>4
  <2> QED
    BY <2>2, <2>5
<1> QED
  BY <1>1, <1>2, <1>3, <1>4, Zenon

LEMMA FrameStep ==
  ASSUME NEW w, NEW b, NEW i, NEW h, NEW l, Frame(w, b, i, h, l)
  PROVE  /\ w \in Seq(Byte) /\ w # <<>> /\ b \in Seq(Byte) /\ i \in 0 .. Len(b) /\ h \in Byte /\ l \in Byte
         /\ i # Len(b) => /\ i \in 0 .. Len(b) - 1 /\ Head(w) = b[i + 1] /\ Head(w) # Hash
                          /\ Frame(Tail(w), b, i + 1, h, l)
         /\ i = Len(b) => Head(w) = Hash /\ Tail(w) = <<h, l>>
<1>1. /\ w \in Seq(Byte) /\ b \in Seq(NoHash) /\ i \in 0 .. Len(b) /\ h \in Byte /\ l \in Byte
      /\ Len(w) = Len(b) - i + 3
      /\ \A j \in 1 .. Len(b) - i : w[j] = b[i + j]
      /\ w[Len(b) - i + 1] = Hash /\ w[Len(b) - i + 2] = h /\ w[Len(b) - i + 3] = l
  BY DEF Frame
<1>2. w # <<>> /\ Len(b) \in Nat /\ i \in Nat /\ b \in Seq(Byte)
  BY <1>1 DEF NoHash
<1>3. PICK v : v = Tail(w)
  OBVIOUS
<1>4. /\ v \in Seq(Byte) /\ Len(v) = Len(w) - 1
      /\ Head(w) = w[1] /\ \A j \in 1 .. Len(w) - 1 : v[j] = w[j + 1]
  <2>1. w \in Seq(Byte)
    BY <1>1
  <2> QED
    BY <1>2, <1>3, <2>1, TailFields
<1>5. CASE i # Len(b)
  <2>1. i \in 0 .. Len(b) - 1 /\ 1 \in 1 .. Len(b) - i /\ i + 1 \in 1 .. Len(b) /\ i + 1 \in 0 .. Len(b)
    BY <1>1, <1>2, <1>5
  <2>2. Head(w) = b[i + 1]
    BY <1>1, <1>4, <2>1
  <2>3. Head(w) # Hash
    BY <1>1, <2>1, <2>2 DEF NoHash
  <2>4. PICK k, n : k = i + 1 /\ n = Len(b) - i
    OBVIOUS
  <2>5. n \in Nat \ {0} /\ Len(b) - k = n - 1 /\ Len(w) = n + 3 /\ Len(v) = Len(b) - k + 3
    BY <1>1, <1>2, <1>4, <2>1, <2>4
  <2>6. ASSUME NEW j \in 1 .. Len(b) - k PROVE v[j] = b[k + j]
    <3>1. j \in 1 .. Len(w) - 1 /\ j + 1 \in 1 .. Len(b) - i /\ i + (j + 1) = k + j
      BY <1>2, <2>4, <2>5
    <3>2. v[j] = w[j + 1] /\ w[j + 1] = b[i + (j + 1)]
      BY <1>1, <1>4, <3>1
    <3> QED
      BY <3>1, <3>2
  <2>7. v[n] = w[n + 1] /\ v[n + 1] = w[n + 2] /\ v[n + 2] = w[n + 3]
    <3>1. /\ n \in 1 .. Len(w) - 1 /\ n + 1 \in 1 .. Len(w) - 1 /\ n + 2 \in 1 .. Len(w) - 1
          /\ (n + 1) + 1 = n + 2 /\ (n + 2) + 1 = n + 3
      BY <2>5
    <3> QED
      BY <1>4, <3>1
  <2>8. w[n + 1] = Hash /\ w[n + 2] = h /\ w[n + 3] = l
    BY <1>1, <2>4
  <2>9. Len(b) - k + 1 = n /\ Len(b) - k + 2 = n + 1 /\ Len(b) - k + 3 = n + 2
    BY <2>5
  <2>10. v[Len(b) - k + 1] = Hash /\ v[Len(b) - k + 2] = h /\ v[Len(b) - k + 3] = l
    BY <2>7, <2>8, <2>9
  <2>11. Frame(v, b, k, h, l)
    BY <1>1, <1>4, <2>1, <2>4, <2>5, <2>6, <2>10 DEF Frame
  <2> QED
    BY <1>1, <1>2, <1>3, <1>5, <2>1, <2>2, <2>3, <2>4, <2>11
<1>6. CASE i = Len(b)
  <2>1. Len(b) - i + 1 = 1 /\ Len(b) - i + 2 = 2 /\ Len(b) - i + 3 = 3
    BY <1>2, <1>6
  <2>2. Head(w) = Hash /\ Len(w) = 3 /\ w[2] = h /\ w[3] = l
    BY <1>1, <1>4, <2>1
  <2>3. Len(v) = 2 /\ v[1] = h /\ v[2] = l
    <3>1. 1 \in 1 .. Len(w) - 1 /\ 2 \in 1 .. Len(w) - 1
      BY <2>2
    <3> QED
      BY <1>4, <2>2, <3>1
  <2>4. v = <<h, l>>
    BY <1>4, <2>3
  <2> QED
    BY <1>1, <1>2, <1>3, <1>6, <2>2, <2>4
<1> QED
  BY <1>5, <1>6

LEMMA Bytes ==
  ASSUME NEW c \in Byte
  PROVE  /\ xor20(c) \in Byte
         /\ \A sum \in Byte : new_sum(sum, c) \in Byte
<1>1. xor20(c) \in Byte
  BY Z3 DEF xor20, Byte
<1>2. \A sum \in Byte : new_sum(sum, c) \in Byte
  BY AddBytes DEF new_sum
<1> QED
  BY <1>1, <1>2

LEMMA SendStep ==
  ASSUME Typed, Line, GotInv, send_packet
  PROVE  Typed' /\ Line' /\ GotInv'
<1>1. /\ cl.ph = "send" /\ toStub' = Append(toStub, Head(todo)) /\ cl' = Phase("ack")
      /\ todo' = todo /\ toClient' = toClient /\ stub' = stub /\ want' = want /\ got' = got
      /\ calls' = calls /\ faults' = faults
  BY DEF send_packet
<1>2. Pending /\ Quiet
  BY <1>1, AtPhase
<1>3. todo # <<>> /\ toClient = <<>> /\ toStub \in {<<>>, <<Ack>>}
  BY <1>1, <1>2 DEF Quiet
<1>4. cl' \in Receiver /\ cl'.ph = "ack"
  BY <1>1, PhaseType DEF Phases
<1>5. Typed'
  BY <1>1, <1>4 DEF Typed
<1>6. toStub' \in {<<Head(todo)>>, <<Ack, Head(todo)>>}
  BY <1>1, <1>3, Ends
<1>7. Commanded'
  BY <1>1, <1>3, <1>4, <1>6 DEF Commanded
<1>8. Pending' /\ GotInv'
  BY <1>1, <1>2 DEF Pending, GotInv
<1> QED
  BY <1>5, <1>7, <1>8 DEF Line

\* What fgetc leaves alone.
LEMMA Fgetc ==
  ASSUME Typed, NEW ph, fgetc(ph)
  PROVE  /\ cl.ph = ph /\ toClient # <<>> /\ char \in Byte
         /\ toClient' = Tail(toClient) /\ toClient' \in Seq(Byte)
         /\ want' = want /\ stub' = stub /\ calls' = calls /\ faults' = faults
<1>1. toClient \in Seq(Byte) /\ toClient # <<>>
  BY DEF Typed, fgetc
<1>2. Head(toClient) \in Byte /\ Tail(toClient) \in Seq(Byte)
  BY <1>1
<1> QED
  BY <1>1, <1>2 DEF fgetc, char

LEMMA WaitAckStep ==
  ASSUME Typed, Line, GotInv, wait_ack
  PROVE  Typed' /\ Line' /\ GotInv'
<1>1. /\ cl.ph = "ack" /\ toClient # <<>> /\ toClient' = Tail(toClient) /\ toClient' \in Seq(Byte)
      /\ want' = want /\ stub' = stub /\ calls' = calls /\ faults' = faults
  BY Fgetc DEF wait_ack
<1>2. todo' = todo /\ toStub' = toStub /\ got' = got /\ cl' = Phase(IF acked(char) THEN "hunt" ELSE "send")
  BY DEF wait_ack
<1>3. cl' \in Receiver /\ cl'.ph = (IF acked(char) THEN "hunt" ELSE "send")
  BY <1>2, PhaseType DEF Phases
<1>4. Typed'
  BY <1>1, <1>2, <1>3 DEF Typed
<1>5. GotInv'
  BY <1>2 DEF GotInv
<1>6. CASE Pending /\ Refused
  <2>1. toClient = <<Minus>> /\ todo # <<>> /\ toStub = <<>>
    BY <1>6 DEF Refused
  <2>2. char = Minus /\ toClient' = <<>>
    BY <1>1, <2>1, Ends DEF char
  <2>3. cl'.ph = "send"
    BY <1>3, <2>2 DEF acked, Plus, Minus
  <2>4. Quiet'
    BY <1>2, <2>1, <2>2, <2>3 DEF Quiet
  <2>5. Pending'
    BY <1>1, <1>2, <1>6 DEF Pending
  <2> QED
    BY <1>4, <1>5, <2>4, <2>5 DEF Line
<1>7. CASE Answered /\ Accepted
  <2>1. toStub = <<>> /\ toClient[1] = Plus /\ Whole(stub.reply, Tail(toClient))
    BY <1>7 DEF Accepted
  <2>2. char = Plus
    BY <1>1, <2>1, TailFields DEF char, Typed
  <2>3. cl'.ph = "hunt"
    BY <1>3, <2>2 DEF acked
  <2>4. Coming'
    BY <1>1, <1>2, <2>1, <2>3 DEF Coming
  <2>5. Answered'
    BY <1>1, <1>2, <1>7 DEF Answered
  <2> QED
    BY <1>4, <1>5, <2>4, <2>5 DEF Line
<1>8. ~(Pending /\ Commanded)
  BY <1>1 DEF Commanded
<1> QED
  BY <1>1, <1>6, <1>7, <1>8, AtPhase

LEMMA FastForwardStep ==
  ASSUME Typed, Line, GotInv, fast_forward
  PROVE  Typed' /\ Line' /\ GotInv'
<1>1. /\ cl.ph = "hunt" /\ toClient # <<>> /\ toClient' = Tail(toClient) /\ toClient' \in Seq(Byte)
      /\ want' = want /\ stub' = stub /\ calls' = calls /\ faults' = faults
  BY Fgetc DEF fast_forward
<1>2. todo' = todo /\ toStub' = toStub /\ got' = got /\ cl' = Phase(IF char = Dollar THEN "body" ELSE "hunt")
  BY DEF fast_forward
<1>3. Answered /\ Coming
  BY <1>1, AtPhase DEF Again
<1>4. PICK s, w : s = stub.reply /\ w = toClient
  OBVIOUS
<1>5. s \in Answers /\ Whole(s, w) /\ w \in Seq(Byte) /\ w # <<>> /\ toStub = <<>>
  BY <1>1, <1>3, <1>4 DEF Answered, Coming, Typed
<1>6. PICK b, h, l : w[1] = Dollar /\ Frame(Tail(w), b, 0, h, l) /\ Sound(s, b, h, l)
  BY <1>5 DEF Whole
<1>7. char = Dollar
  BY <1>4, <1>5, <1>6, TailFields DEF char
<1>8. cl' = Phase("body") /\ cl' \in Receiver /\ cl'.ph = "body"
  BY <1>2, <1>7, PhaseType DEF Phases
<1>9. b \in Seq(Byte) /\ s \in Seq(Plain)
  BY <1>5, <1>6, FrameStep, AnswersPlain
<1>10. Received(Phase("body"), s, b, 0, h, l)
  BY <1>6, <1>9, ReceivedStart
<1>11. Arriving(b, 0, h, l)'
  BY <1>1, <1>4, <1>6, <1>8, <1>10 DEF Arriving
<1>12. Receiving'
  BY <1>2, <1>5, <1>8, <1>11 DEF Receiving
<1>13. Typed'
  BY <1>1, <1>2, <1>8 DEF Typed
<1>14. Answered' /\ GotInv'
  BY <1>1, <1>2, <1>3 DEF Answered, GotInv
<1> QED
  BY <1>12, <1>13, <1>14 DEF Line

LEMMA MsbStep ==
  ASSUME Typed, Line, GotInv, recv_msb
  PROVE  Typed' /\ Line' /\ GotInv'
<1>1. /\ cl.ph = "msb" /\ toClient # <<>> /\ toClient' = Tail(toClient) /\ toClient' \in Seq(Byte) /\ char \in Byte
      /\ want' = want /\ stub' = stub /\ calls' = calls /\ faults' = faults
  BY Fgetc DEF recv_msb
<1>2. todo' = todo /\ toStub' = toStub /\ got' = got /\ cl' = [cl EXCEPT !.ph = "lsb", !.msb = char]
  BY DEF recv_msb
<1>3. Answered /\ TwoDigits
  BY <1>1, AtPhase
<1>4. PICK h \in Byte, l \in Byte : toClient = <<h, l>> /\ Checked(cl, stub.reply, h, l)
  BY <1>3 DEF TwoDigits
<1>5. char = h /\ toClient' = <<l>>
  BY <1>1, <1>4, Ends DEF char
<1>6. cl \in Receiver
  BY DEF Typed
<1>7. /\ cl' \in Receiver /\ cl'.ph = "lsb" /\ cl'.msb = h /\ cl'.reply = cl.reply /\ cl'.sum = cl.sum
  BY <1>2, <1>5, <1>6 DEF Receiver, Phases
<1>8. LastDigit'
  BY <1>1, <1>2, <1>3, <1>4, <1>5, <1>7 DEF LastDigit, TwoDigits, Checked
<1>9. Typed'
  BY <1>1, <1>2, <1>7 DEF Typed
<1>10. Answered' /\ GotInv'
  BY <1>1, <1>2, <1>3 DEF Answered, GotInv
<1> QED
  BY <1>8, <1>9, <1>10 DEF Line

LEMMA LsbStep ==
  ASSUME Typed, Line, GotInv, recv_lsb
  PROVE  Typed' /\ Line' /\ GotInv'
<1>1. /\ cl.ph = "lsb" /\ toClient # <<>> /\ toClient' = Tail(toClient) /\ toClient' \in Seq(Byte)
      /\ want' = want /\ stub' = stub /\ calls' = calls /\ faults' = faults
  BY Fgetc DEF recv_lsb
<1>2. Answered /\ LastDigit
  BY <1>1, AtPhase
<1>3. PICK l \in Byte : toClient = <<l>> /\ Checked(cl, stub.reply, cl.msb, l)
  BY <1>2 DEF LastDigit
<1>4. char = l /\ toClient' = <<>> /\ toStub = <<>>
  BY <1>1, <1>2, <1>3, Ends DEF char, LastDigit
<1>5. todo \in Seq(Command) /\ todo # <<>> /\ Run(stub.m, Tail(todo), want)
  BY <1>2 DEF Answered, Typed
<1>6. CASE sum_ok(char)
  <2>1. /\ toStub' = Append(toStub, Ack) /\ todo' = Tail(todo)
        /\ got' = [reply |-> cl.reply, answer |-> stub.reply,
                   regs |-> IF Head(todo).k = "g" THEN RegsOf(cl.reply) ELSE stub.m.regs,
                   ref_regs |-> stub.m.regs]
        /\ cl' = Phase(IF Tail(todo) = <<>> THEN "idle" ELSE "send")
    BY <1>6 DEF recv_lsb, Ack
  <2>2. cl' \in Receiver /\ cl'.ph = (IF Tail(todo) = <<>> THEN "idle" ELSE "send")
    BY <2>1, PhaseType DEF Phases
  <2>3. todo' \in Seq(Command) /\ toStub' = <<Ack>>
    BY <1>4, <1>5, <2>1, Ends
  <2>4. Typed'
    BY <1>1, <2>2, <2>3 DEF Typed
  <2>5. Pending'
    BY <1>1, <1>5, <2>1 DEF Pending
  <2>6. Quiet'
    BY <1>4, <2>1, <2>2, <2>3 DEF Quiet
  <2>7. ASSUME NoEcho PROVE got'.reply = got'.answer /\ got'.regs = got'.ref_regs
    <3>1. cl.reply = stub.reply
      BY <1>3, <1>4, <1>6, <2>7 DEF Checked, sum_ok
    <3>2. Head(todo).k = "g" => RegsOf(cl.reply) = stub.m.regs
      <4>1. stub.m.regs \in Regs
        BY DEF Typed, QemuState, Regs
      <4>2. PICK r : r = stub.m.regs
        OBVIOUS
      <4>3. RegsOf(RegsText(r)) = r
        BY <4>1, <4>2, RegsRead
      <4>4. Head(todo).k = "g" => cl.reply = RegsText(r)
        BY <1>2, <3>1, <4>2 DEF Answered, Answer
      <4> QED
        BY <4>2, <4>3, <4>4
    <3> QED
      BY <2>1, <3>1, <3>2
  <2> QED
    BY <2>4, <2>5, <2>6, <2>7 DEF Line, GotInv
<1>7. CASE ~sum_ok(char)
  <2>1. toStub' = Append(toStub, Nak) /\ cl' = Phase("hunt") /\ todo' = todo /\ got' = got
    BY <1>7 DEF recv_lsb, Nak
  <2>2. cl' \in Receiver /\ cl'.ph = "hunt"
    BY <2>1, PhaseType DEF Phases
  <2>3. toStub' = <<Nak>>
    BY <1>4, <2>1, Ends
  <2>4. Again'
    BY <1>4, <2>2, <2>3 DEF Again
  <2>5. Typed'
    BY <1>1, <2>1, <2>2 DEF Typed
  <2>6. Answered' /\ GotInv'
    BY <1>1, <1>2, <2>1 DEF Answered, GotInv
  <2> QED
    BY <2>4, <2>5, <2>6 DEF Line
<1> QED
  BY <1>6, <1>7

LEMMA CharStep ==
  ASSUME Typed, Line, GotInv, recv_char
  PROVE  Typed' /\ Line' /\ GotInv'
<1>1. /\ cl.ph = "body" /\ toClient # <<>> /\ toClient' = Tail(toClient) /\ toClient' \in Seq(Byte) /\ char \in Byte
      /\ want' = want /\ stub' = stub /\ calls' = calls /\ faults' = faults
  BY Fgetc DEF recv_char
<1>2. todo' = todo /\ toStub' = toStub /\ got' = got
  BY DEF recv_char
<1>3. Answered /\ Receiving
  BY <1>1, AtPhase
<1>4. PICK s, w, c, r, q : s = stub.reply /\ w = toClient /\ c = char /\ r = cl /\ q = cl'
  OBVIOUS
<1>5. toStub = <<>> /\ s \in Answers /\ \E b, i, h, l : Arriving(b, i, h, l)
  BY <1>3, <1>4 DEF Answered, Receiving
<1>6. PICK b, i, h, l : Frame(w, b, i, h, l) /\ Sound(s, b, h, l) /\ Received(r, s, b, i, h, l)
  BY <1>4, <1>5 DEF Arriving
<1>7. /\ b \in Seq(Byte) /\ i \in 0 .. Len(b) /\ h \in Byte /\ l \in Byte
      /\ i # Len(b) => /\ i \in 0 .. Len(b) - 1 /\ Head(w) = b[i + 1] /\ Head(w) # Hash
                       /\ Frame(Tail(w), b, i + 1, h, l)
      /\ i = Len(b) => Head(w) = Hash /\ Tail(w) = <<h, l>>
  BY <1>6, FrameStep
<1>8. s \in Seq(Plain) /\ c = Head(w) /\ r \in Receiver /\ c \in Byte /\ r.ph = "body"
  BY <1>1, <1>4, <1>5, AnswersPlain DEF char, Typed
<1>9. new_sum(r.sum, c) \in Byte /\ xor20(c) \in Byte
  BY <1>8, Bytes DEF Receiver
<1>10. \/ c = Dollar /\ q = Phase("body")
       \/ c = Hash /\ q = [r EXCEPT !.ph = "msb"]
       \/ c = Brace /\ q = [r EXCEPT !.sum = new_sum(r.sum, c), !.escape = TRUE]
       \/ c = Star /\ r.reply # <<>> /\ q = [r EXCEPT !.sum = new_sum(r.sum, c), !.ph = "run"]
       \/ /\ c \notin {Dollar, Hash, Brace} /\ ~(c = Star /\ r.reply # <<>>)
          /\ q = [r EXCEPT !.ph = "body", !.escape = FALSE,
                           !.reply = Append(r.reply, IF r.escape THEN xor20(c) ELSE c),
                           !.sum = new_sum(r.sum, c)]
  BY <1>4, <1>8 DEF recv_char, repeats, add, Receiver
<1>11. Answered' /\ GotInv'
  BY <1>1, <1>2, <1>3 DEF Answered, GotInv
<1>12. CASE i = Len(b)
  <2>1. c = Hash /\ toClient' = <<h, l>>
    BY <1>1, <1>4, <1>7, <1>8, <1>12
  <2>2. q = [r EXCEPT !.ph = "msb"]
    BY <1>10, <2>1 DEF Dollar, Hash, Brace, Star
  <2>3. q \in Receiver /\ q.ph = "msb" /\ q.reply = r.reply /\ q.sum = r.sum
    BY <1>8, <2>2 DEF Receiver, Phases
  <2>4. Checked(q, s, h, l)
    BY <1>6, <1>7, <1>8, <1>12, <2>3, ReceivedAll DEF Checked
  <2>5. TwoDigits'
    BY <1>1, <1>2, <1>4, <1>5, <1>7, <2>1, <2>3, <2>4 DEF TwoDigits
  <2>6. Typed'
    BY <1>1, <1>2, <1>4, <2>3 DEF Typed
  <2> QED
    BY <1>11, <2>5, <2>6 DEF Line
<1>13. CASE i # Len(b)
  <2>1. i \in 0 .. Len(b) - 1 /\ c = b[i + 1] /\ c # Hash /\ Frame(toClient', b, i + 1, h, l)
    BY <1>1, <1>4, <1>7, <1>8, <1>13
  <2>2. ASSUME q \in Receiver, q.ph = "body" \/ (q.ph = "run" /\ q.reply # <<>>), Received(q, s, b, i + 1, h, l)
        PROVE  Typed' /\ Line' /\ GotInv'
    <3>1. Arriving(b, i + 1, h, l)'
      BY <1>1, <1>4, <1>6, <2>1, <2>2 DEF Arriving
    <3>2. Receiving'
      BY <1>2, <1>4, <1>5, <2>2, <3>1 DEF Receiving
    <3>3. Typed'
      BY <1>1, <1>2, <1>4, <2>2 DEF Typed
    <3> QED
      BY <1>11, <3>2, <3>3 DEF Line
  <2>3. CASE c = Dollar /\ q = Phase("body")
    <3>1. Received(q, s, b, i + 1, h, l)
      BY <1>6, <1>7, <2>1, <2>3, ReceivedDollar
    <3>2. q \in Receiver /\ q.ph = "body"
      BY <2>3, PhaseType DEF Phases
    <3> QED
      BY <2>2, <3>1, <3>2
  <2>4. CASE c = Brace /\ q = [r EXCEPT !.sum = new_sum(r.sum, c), !.escape = TRUE]
    <3>1. q \in Receiver /\ q.ph = "body" /\ q.sum = new_sum(r.sum, c)
      BY <1>8, <1>9, <2>4 DEF Receiver, Phases
    <3>2. Received(q, s, b, i + 1, h, l)
      BY <1>6, <1>7, <1>8, <2>1, <2>4, <3>1, ReceivedChar
    <3> QED
      BY <2>2, <3>1, <3>2
  <2>5. CASE c = Star /\ r.reply # <<>> /\ q = [r EXCEPT !.sum = new_sum(r.sum, c), !.ph = "run"]
    <3>1. q \in Receiver /\ q.ph = "run" /\ q.sum = new_sum(r.sum, c) /\ q.reply = r.reply /\ q.escape = r.escape
      BY <1>8, <1>9, <2>5 DEF Receiver, Phases
    <3>2. Received(q, s, b, i + 1, h, l)
      BY <1>6, <1>7, <1>8, <2>1, <2>5, <3>1, ReceivedChar
    <3> QED
      BY <2>2, <2>5, <3>1, <3>2
  <2>6. CASE /\ c \notin {Dollar, Hash, Brace} /\ ~(c = Star /\ r.reply # <<>>)
             /\ q = [r EXCEPT !.ph = "body", !.escape = FALSE,
                              !.reply = Append(r.reply, IF r.escape THEN xor20(c) ELSE c),
                              !.sum = new_sum(r.sum, c)]
    <3>1. PICK x : x = IF r.escape THEN xor20(c) ELSE c
      OBVIOUS
    <3>2. Append(r.reply, x) \in Seq(Byte)
      <4>1. x \in Byte /\ r.reply \in Seq(Byte)
        BY <1>8, <1>9, <3>1 DEF Receiver
      <4> QED
        BY <4>1
    <3>3. /\ q \in Receiver /\ q.ph = "body" /\ q.sum = new_sum(r.sum, c) /\ q.escape = FALSE
          /\ q.reply = Append(r.reply, x)
      BY <1>8, <1>9, <2>6, <3>1, <3>2 DEF Receiver, Phases
    <3>4. Received(q, s, b, i + 1, h, l)
      BY <1>6, <1>7, <1>8, <2>1, <2>6, <3>1, <3>3, ReceivedChar
    <3> QED
      BY <2>2, <3>3, <3>4
  <2> QED
    BY <1>10, <2>1, <2>3, <2>4, <2>5, <2>6
<1> QED
  BY <1>12, <1>13

LEMMA RunStep ==
  ASSUME Typed, Line, GotInv, recv_run
  PROVE  Typed' /\ Line' /\ GotInv'
<1>1. /\ cl.ph = "run" /\ toClient # <<>> /\ want' = want /\ stub' = stub /\ calls' = calls /\ faults' = faults
      /\ todo' = todo /\ toStub' = toStub /\ got' = got
  BY DEF recv_run, fgetc
<1>2. Answered /\ Receiving
  BY <1>1, AtPhase
<1>3. PICK s, w, c, r, q : s = stub.reply /\ w = toClient /\ c = char /\ r = cl /\ q = cl'
  OBVIOUS
<1>4. toStub = <<>> /\ s \in Answers /\ \E b, i, h, l : Arriving(b, i, h, l)
  BY <1>2, <1>3 DEF Answered, Receiving
<1>5. PICK b, i, h, l : Frame(w, b, i, h, l) /\ Sound(s, b, h, l) /\ Received(r, s, b, i, h, l)
  BY <1>3, <1>4 DEF Arriving
<1>6. /\ b \in Seq(Byte) /\ i \in 0 .. Len(b) /\ h \in Byte /\ l \in Byte
      /\ i # Len(b) => /\ i \in 0 .. Len(b) - 1 /\ Head(w) = b[i + 1]
                       /\ Frame(Tail(w), b, i + 1, h, l)
      /\ i = Len(b) => Head(w) = Hash
  BY <1>5, FrameStep
<1>7. /\ s \in Seq(Plain) /\ c = Head(w) /\ r \in Receiver /\ r.ph = "run" /\ r.reply # <<>>
      /\ w \in Seq(Byte) /\ w # <<>>
  BY <1>1, <1>3, <1>4, AnswersPlain DEF char, Typed
<1>8. c \in Byte /\ Tail(w) \in Seq(Byte)
  BY <1>7
<1>9. Answered' /\ GotInv'
  BY <1>1, <1>2 DEF Answered, GotInv
<1>10. ASSUME q \in Receiver, q.ph = "body", NEW j, Frame(toClient', b, j, h, l), toClient' \in Seq(Byte),
              Received(q, s, b, j, h, l)
       PROVE  Typed' /\ Line' /\ GotInv'
  <2>1. Arriving(b, j, h, l)'
    BY <1>1, <1>3, <1>5, <1>10 DEF Arriving
  <2>2. Receiving'
    BY <1>1, <1>3, <1>4, <1>10, <2>1 DEF Receiving
  <2>3. Typed'
    BY <1>1, <1>3, <1>10 DEF Typed
  <2> QED
    BY <1>9, <2>2, <2>3 DEF Line
<1>11. CASE /\ valid_count(c) /\ toClient' = Tail(toClient)
            /\ q = [r EXCEPT !.ph = "body", !.sum = new_sum(r.sum, c),
                             !.reply = r.reply \o [j \in 1 .. run_length(c) |-> r.reply[Len(r.reply)]]]
  <2>1. i # Len(b) /\ i \in 0 .. Len(b) - 1 /\ c = b[i + 1] /\ Frame(toClient', b, i + 1, h, l)
    BY <1>3, <1>6, <1>7, <1>11 DEF valid_count
  <2>2. PICK t : t = r.reply
    OBVIOUS
  <2>3. t \in Seq(Byte) /\ t # <<>>
    BY <1>7, <2>2 DEF Receiver
  <2>4. PICK u : u = [j \in 1 .. run_length(c) |-> t[Len(t)]]
    OBVIOUS
  <2>5. t \o u \in Seq(Byte)
    <3>1. run_length(c) \in Nat
      <4>1. c \in 29 .. 126
        BY <1>11, Zenon DEF valid_count
      <4> QED
        BY <4>1 DEF run_length
    <3>2. t[Len(t)] \in Byte
      BY <2>3
    <3>3. u \in Seq(Byte)
      BY <2>4, <3>1, <3>2
    <3> QED
      BY <2>3, <3>3
  <2>6. new_sum(r.sum, c) \in Byte
    BY <1>7, <1>8, Bytes DEF Receiver
  <2>7. /\ q \in Receiver /\ q.ph = "body" /\ q.sum = new_sum(r.sum, c) /\ q.escape = r.escape
        /\ q.reply = t \o u
    BY <1>7, <1>11, <2>2, <2>4, <2>5, <2>6 DEF Receiver, Phases
  <2>8. q.reply = r.reply \o [j \in 1 .. run_length(c) |-> r.reply[Len(r.reply)]]
    BY <2>2, <2>4, <2>7
  <2>9. Received(q, s, b, i + 1, h, l)
    BY <1>5, <1>6, <1>7, <2>1, <2>7, <2>8, ReceivedRun
  <2>10. toClient' \in Seq(Byte)
    BY <1>3, <1>8, <1>11
  <2> QED
    BY <1>10, <2>1, <2>7, <2>9, <2>10
<1>12. CASE /\ ~valid_count(c) /\ toClient' = toClient
            /\ q = [r EXCEPT !.ph = "body", !.escape = FALSE,
                             !.reply = Append(r.reply, IF r.escape THEN xor20(Star) ELSE Star)]
  <2>1. PICK x : x = IF r.escape THEN xor20(Star) ELSE Star
    OBVIOUS
  <2>2. Append(r.reply, x) \in Seq(Byte)
    <3>1. Star \in Byte
      BY DEF Star, Byte
    <3>2. x \in Byte /\ r.reply \in Seq(Byte)
      BY <1>7, <2>1, <3>1, Bytes DEF Receiver
    <3> QED
      BY <3>2
  <2>3. q \in Receiver /\ q.ph = "body" /\ q.sum = r.sum
    BY <1>7, <1>12, <2>1, <2>2 DEF Receiver, Phases
  <2>4. i = Len(b) \/ ~valid_count(b[i + 1])
    BY <1>6, <1>7, <1>12
  <2>5. Received(q, s, b, i, h, l)
    BY <1>5, <1>6, <1>7, <2>3, <2>4, ReceivedUnget
  <2>6. Frame(toClient', b, i, h, l) /\ toClient' \in Seq(Byte)
    BY <1>3, <1>5, <1>7, <1>12
  <2> QED
    BY <1>10, <2>3, <2>5, <2>6
<1>13. \/ /\ valid_count(c) /\ toClient' = Tail(toClient)
          /\ q = [r EXCEPT !.ph = "body", !.sum = new_sum(r.sum, c),
                           !.reply = r.reply \o [j \in 1 .. run_length(c) |-> r.reply[Len(r.reply)]]]
       \/ /\ ~valid_count(c) /\ toClient' = toClient
          /\ q = [r EXCEPT !.ph = "body", !.escape = FALSE,
                           !.reply = Append(r.reply, IF r.escape THEN xor20(Star) ELSE Star)]
  <2>1. CASE fgetc("run") /\ valid_count(char)
                 /\ cl' = [cl EXCEPT !.ph = "body", !.sum = new_sum(@, char),
                                     !.reply = @ \o [j \in 1..run_length(char) |-> @[Len(@)]]]
    BY <1>3, <1>7, <2>1 DEF fgetc, Receiver
  <2>2. CASE ~valid_count(char) /\ cl' = add(Star) /\ UNCHANGED toClient
    BY <1>3, <1>7, <2>2 DEF add, Receiver
  <2> QED
    BY <2>1, <2>2 DEF recv_run
<1> QED
  BY <1>11, <1>12, <1>13

GdbInv == Typed /\ Line /\ GotInv

LEMMA GdbStep ==
  ASSUME GdbInv, [GdbNext]_gdbVars
  PROVE  GdbInv'
<1> USE DEF GdbInv
<1>1. CASE Client
  BY <1>1, SendStep, WaitAckStep, FastForwardStep, CharStep, RunStep, MsbStep, LsbStep DEF Client
<1>2. CASE Stub
  BY <1>2, StubCommandStep, StubAckStep DEF Stub
<1>3. CASE Call
  BY <1>3, CallsStep
<1>4. CASE UNCHANGED gdbVars
  <2>1. Typed'
    BY <1>4 DEF gdbVars, Typed
  <2>2. Pending' = Pending /\ Answered' = Answered
    BY <1>4 DEF gdbVars, Pending, Answered
  <2>3. Quiet' = Quiet /\ Commanded' = Commanded /\ Refused' = Refused
    BY <1>4 DEF gdbVars, Quiet, Commanded, Refused
  <2>4. Accepted' = Accepted /\ Coming' = Coming /\ Again' = Again
    BY <1>4 DEF gdbVars, Accepted, Coming, Again
  <2>5. Receiving' = Receiving /\ TwoDigits' = TwoDigits /\ LastDigit' = LastDigit
    BY <1>4 DEF gdbVars, Receiving, Arriving, TwoDigits, LastDigit
  <2>6. GotInv'
    BY <1>4 DEF gdbVars, GotInv
  <2> QED
    BY <2>1, <2>2, <2>3, <2>4, <2>5, <2>6 DEF Line
<1> QED
  BY <1>1, <1>2, <1>3, <1>4 DEF GdbNext

LEMMA GdbInvariant == GdbSpec => []GdbInv
<1>1. GdbInit => GdbInv
  BY InitLine DEF GdbInv
<1> QED
  BY <1>1, GdbStep, PTL DEF GdbSpec

\* Between two calls of the DUT the reference is where the calls have put it: every
\* command of difftest_exec, difftest_memcpy and difftest_regcpy is executed once, whatever is
\* refused and sent again, and the pieces of gdb_memcpy_to_qemu make up the whole copy.
THEOREM GdbRefInStep == GdbSpec => []RefInStep
<1>1. GdbInv => GdbTypeOK
  <2> SUFFICES ASSUME GdbInv PROVE GdbTypeOK
    OBVIOUS
  <2>1. Typed
    BY DEF GdbInv
  <2>2. cl \in Receiver /\ cl.reply \in Seq(Byte)
    BY <2>1 DEF Typed, Receiver
  <2>b. \A s \in Seq(Byte) : \A i \in 1 .. Len(s) : s[i] \in 0 .. 255
    <3>1. \A s \in Seq(Byte) : \A i \in 1 .. Len(s) : s[i] \in Byte
      OBVIOUS
    <3> QED
      BY <3>1, Zenon DEF Byte
  <2>3. \A i \in 1 .. Len(cl.reply) : cl.reply[i] \in 0 .. 255
    BY <2>2, <2>b, Zenon
  <2>4. \A i \in 1 .. Len(toClient) : toClient[i] \in 0 .. 255
    <3>1. toClient \in Seq(Byte)
      BY <2>1 DEF Typed
    <3> QED
      BY <3>1, <2>b, Zenon
  <2>5. /\ cl.ph \in {"idle", "send", "ack", "hunt", "body", "run", "msb", "lsb"}
        /\ cl.sum \in 0 .. 255 /\ cl.escape \in BOOLEAN /\ cl.msb \in 0 .. 255
    BY <2>2 DEF Receiver, Phases, Byte
  <2> QED
    BY <2>1, <2>3, <2>4, <2>5 DEF Typed, GdbTypeOK
<1>2. GdbInv /\ cl.ph = "idle" => stub.m = want
  <2> SUFFICES ASSUME GdbInv, cl.ph = "idle" PROVE stub.m = want
    OBVIOUS
  <2>1. Pending /\ Quiet /\ stub.m \in QemuState
    BY AtPhase DEF GdbInv, Typed
  <2>2. todo = <<>>
    BY <2>1 DEF Quiet
  <2> QED
    BY <2>1, <2>2, RunEmpty DEF Pending
<1>3. GdbInv => RefInStep
  BY <1>1, <1>2 DEF RefInStep
<1> QED
  BY <1>3, GdbInvariant, PTL

\* gdb_recv returns what the stub answered and gdb_getregs the registers it has, in
\* any encoding and although the line damages a byte of every copy, where the sum finds
\* a packet that a false '$' cut short (NoEcho).
THEOREM GdbReplyIntact == NoEcho => (GdbSpec => []ReplyIntact)
<1>1. NoEcho /\ GdbInv => ReplyIntact
  BY DEF GdbInv, GotInv, ReplyIntact
<1> SUFFICES ASSUME NoEcho PROVE GdbSpec => []ReplyIntact
  OBVIOUS
<1>2. GdbInv => ReplyIntact
  BY <1>1
<1> QED
  BY <1>2, GdbInvariant, PTL
=============================================================================
