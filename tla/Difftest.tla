------------------------------ MODULE Difftest ------------------------------
(***************************************************************************)
(* Differential testing, nemu/src/cpu/difftest/dut.c: after every guest    *)
(* instruction the device under test (DUT, NEMU's interpreter) is compared *)
(* with a reference (REF) that runs the same program.  Two situations keep *)
(* them apart: an instruction REF must not run (a device access or the     *)
(* trap), for which NEMU's registers are copied to REF (difftest_skip_ref),*)
(* and instructions REF runs ahead in one go (difftest_skip_dut), for      *)
(* which checking pauses until NEMU has caught up.                         *)
(*                                                                         *)
(* A machine is its pc and one general register.  The program is arbitrary *)
(* and ends in a trap.  The DUT may miscompute an instruction.             *)
(***************************************************************************)
EXTENDS Integers

CONSTANTS
  ProgLen,          \* instructions of the program
  RegVals,          \* the register holds 0 .. RegVals - 1
  MaxPack,          \* most instructions REF runs ahead in one go
  Margin,           \* how many more than needed the caller allows the DUT
  ChecksRegs        \* FALSE: isa_difftest_checkregs is the committed stub

ASSUME DifftestAssumption ==
  /\ ProgLen \in Nat \ {0}
  /\ RegVals \in Nat /\ RegVals >= 2
  /\ MaxPack \in Nat \ {0}
  /\ Margin \in Nat
  /\ ChecksRegs \in BOOLEAN

VARIABLES
  prog,             \* the program, the same in both machines
  dut, ref,         \* the two machines, [pc, x]
  is_skip_ref,
  skip_dut_nr_inst,
  state,            \* nemu_state.state; "PANIC" when difftest_step panicked
  wrong,            \* history: a miscomputed instruction is not yet accounted for
  last              \* history: the kind of the last instruction and its error

vars == <<prog, dut, ref, is_skip_ref, skip_dut_nr_inst, state, wrong, last>>

\* "alu": any instruction both machines execute alike.  "mmio": a device access.
\* "pack": one whose handler lets REF run ahead.  "trap": ebreak.
Kind == {"alu", "mmio", "pack", "trap"}
Machine == [pc : 0 .. ProgLen, x : 0 .. RegVals - 1]

\* REF executes one instruction.  It has no devices, so it reads a device
\* access as 0; at the trap it stays.
RefStep(r) ==
  CASE prog[r.pc] = "trap" -> r
    [] prog[r.pc] = "mmio" -> [pc |-> r.pc + 1, x |-> 0]
    [] OTHER -> [pc |-> r.pc + 1, x |-> (r.x + 1) % RegVals]

RefRun[k \in Nat] == IF k = 0 THEN ref ELSE RefStep(RefRun[k - 1])

\* The registers NEMU computes: right, or wrong when err is not 0.
DutStep(err, io) ==
  [pc |-> dut.pc + 1,
   x  |-> CASE prog[dut.pc] = "trap" -> dut.x
            [] prog[dut.pc] = "mmio" -> io
            [] OTHER -> (dut.x + 1 + err) % RegVals]

isa_difftest_checkregs(r, d) == ChecksRegs /\ r = d

\* checkregs: a mismatch aborts the guest.
checkregs(r, d, s) == IF isa_difftest_checkregs(r, d) THEN s ELSE "ABORT"

\* Mutant of catch_up_skips: a device access leaves the catching up pending.
keep_skip_dut == skip_dut_nr_inst

\* difftest_skip_ref ends a catching up, since REF is about to be overwritten.
catch_up_skips == 0

\* REF's pc is the DUT's next pc.
caught_up(r, d) == r.pc = d.pc

\* Mutant of clears_skip_ref: the flag survives the instruction.
keeps_skip_ref == TRUE

\* difftest_step resets the flag once it has copied the registers.
clears_skip_ref == FALSE

\* Mutant of regcpy_to_ref: only the pc is copied.
regcpy_pc_only(r, d) == [r EXCEPT !.pc = d.pc]

\* ref_difftest_regcpy(&cpu, DIFFTEST_TO_REF)
regcpy_to_ref(r, d) == d

\* The flags, REF, NEMU's registers and the run state as the instruction left
\* them; its three cases are the three returns of the function.
difftest_step(skip_ref, skip, r, d, s) ==
  /\ dut' = d
  /\ IF skip > 0 THEN
       /\ IF caught_up(r, d)
            THEN skip_dut_nr_inst' = 0 /\ state' = checkregs(r, d, s)
            ELSE /\ skip_dut_nr_inst' = skip - 1
                 /\ state' = IF skip = 1 THEN "PANIC" ELSE s
       /\ ref' = r
       /\ is_skip_ref' = skip_ref
     ELSE IF skip_ref THEN
       /\ ref' = regcpy_to_ref(r, d)
       /\ is_skip_ref' = clears_skip_ref
       /\ skip_dut_nr_inst' = skip
       /\ state' = s
     ELSE
       /\ ref' = RefStep(r)
       /\ state' = checkregs(RefStep(r), d, s)
       /\ is_skip_ref' = skip_ref
       /\ skip_dut_nr_inst' = skip

-----------------------------------------------------------------------------
Init ==
  /\ prog \in {p \in [0 .. ProgLen - 1 -> Kind] : p[ProgLen - 1] = "trap"}
  /\ dut = [pc |-> 0, x |-> 0]
  /\ ref = dut                        \* init_difftest copies the registers
  /\ is_skip_ref = FALSE
  /\ skip_dut_nr_inst = 0
  /\ state = "RUNNING"
  /\ wrong = FALSE
  /\ last = [kind |-> "none", err |-> 0]

\* What the history records of one instruction: an error counts until NEMU's
\* registers have been copied over REF's.
Record(kind, err) ==
  /\ last' = [kind |-> kind, err |-> err]
  /\ wrong' = IF kind \in {"mmio", "trap"} THEN FALSE ELSE wrong \/ err # 0
  /\ UNCHANGED prog

Running(kind) == state = "RUNNING" /\ dut.pc < ProgLen /\ prog[dut.pc] = kind

\* An ordinary instruction.
exec_alu(err) ==
  /\ Running("alu")
  /\ difftest_step(is_skip_ref, skip_dut_nr_inst, ref, DutStep(err, 0), state)
  /\ Record("alu", err)

\* find_mapid_by_addr hits a device and calls difftest_skip_ref.
exec_mmio(io) ==
  /\ Running("mmio")
  /\ difftest_step(TRUE, catch_up_skips, ref, DutStep(0, io), state)
  /\ Record("mmio", 0)

\* Mutant of trap_skips_ref: set_nemu_state does not call difftest_skip_ref.
trap_not_skipped == is_skip_ref

\* set_nemu_state calls difftest_skip_ref too.
trap_skips_ref == TRUE

exec_trap ==
  /\ Running("trap")
  /\ difftest_step(trap_skips_ref, catch_up_skips, ref, DutStep(0, 0), "END")
  /\ Record("trap", 0)

\* An instruction whose handler calls difftest_skip_dut(nr_ref, nr_dut).
exec_pack(err, nr_ref, nr_dut) ==
  /\ Running("pack")
  /\ difftest_step(is_skip_ref, skip_dut_nr_inst + nr_dut, RefRun[nr_ref], DutStep(err, 0), state)
  /\ Record("pack", err)

Errs == {0, 1}

\* The callers' promise: the DUT needs at most nr_dut instructions to catch up.
Next ==
  \/ \E err \in Errs : exec_alu(err)
  \/ \E io \in 0 .. RegVals - 1 : exec_mmio(io)
  \/ exec_trap
  \/ \E err \in Errs, nr_ref \in 1 .. MaxPack, slack \in 0 .. Margin :
       exec_pack(err, nr_ref, nr_ref + slack)

Spec == Init /\ [][Next]_vars

-----------------------------------------------------------------------------
(* Properties                                                              *)

TypeOK ==
  /\ prog \in [0 .. ProgLen - 1 -> Kind]
  /\ dut \in Machine
  /\ ref \in Machine
  /\ is_skip_ref \in BOOLEAN
  /\ skip_dut_nr_inst \in Nat
  /\ state \in {"RUNNING", "END", "ABORT", "PANIC"}
  /\ wrong \in BOOLEAN
  /\ last \in [kind : Kind \cup {"none"}, err : Errs]

\* Whenever checking is not paused, the two machines agree before the next
\* instruction, and no skip is left over from an earlier one: what was skipped
\* for one instruction never hides the next.
InSync ==
  state = "RUNNING" => ~is_skip_ref /\ (skip_dut_nr_inst = 0 => ref = dut)

\* A guest is aborted only when NEMU miscomputed an instruction whose result
\* still matters, however device accesses and running ahead are interleaved; and
\* the panic "can not catch up with ref.pc" is never reached by callers of
\* difftest_skip_dut that keep their promise.
NoFalseAlarm ==
  /\ TypeOK
  /\ ChecksRegs /\ state = "ABORT" => wrong
  /\ state # "PANIC"

\* The trap ends the guest as a trap: the comparison never turns NEMU_END into
\* NEMU_ABORT.
TrapReported == last.kind = "trap" => state = "END"

\* A miscomputed ordinary instruction is reported at once, unless checking is
\* paused.
DetectsAtOnce ==
  [][skip_dut_nr_inst = 0 /\ last'.kind = "alu" /\ last'.err # 0
       => state' = "ABORT"]_vars
=============================================================================
