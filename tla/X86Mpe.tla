-------------------------------- MODULE X86Mpe --------------------------------
(* Start and stop of the processors on x86 (am/src/x86/qemu: mpe.c, trm.c, the *)
(* boot loader and __am_lapic_bootap of ioe.c). All processors start in the    *)
(* same boot record and on the same stack; INIT and STARTUP messages of the    *)
(* local APICs, which are external, arrive some time after they were sent.     *)
EXTENDS Integers, Sequences, FiniteSets

CONSTANT NCpu        \* __am_ncpu

ASSUME X86MpeAssumption == NCpu \in Nat \ {0}

Cpu == 0..NCpu - 1

VARIABLES
  at,                     \* where each processor is
  jmp_code, is_ap,        \* the boot record
  ap_ready,
  ipi,                    \* messages on their way to each processor
  next,                   \* mpe_init's cpu, and for a halting processor those to be stopped
  ready,                  \* processors that have run __am_percpu_init
  loads, entered,         \* history: kernels loaded, processors that ran the program,
  halted,                 \* and those that called halt
  off

mpeVars == <<at, jmp_code, is_ap, ap_ready, ipi, next, ready, loads, entered, halted, off>>

\* Power on: the BIOS has loaded the boot sector on processor 0, memory is zero.
MpeInit ==
  /\ at = [c \in Cpu |-> IF c = 0 THEN "start32" ELSE "wait_sipi"]
  /\ jmp_code = "none" /\ is_ap = 0 /\ ap_ready = 0
  /\ ipi = [c \in Cpu |-> <<>>]
  /\ next = [c \in Cpu |-> {}]
  /\ ready = {} /\ loads = 0 /\ entered = {} /\ halted = {}
  /\ off = FALSE

go(c, from, to) == at[c] = from /\ at' = [at EXCEPT ![c] = to]

-------------------------------------------------------------------------------
(* The machine: INIT resets a processor (processor 0 starts in the BIOS, which   *)
(* jumps through the warm reset vector); STARTUP counts only after it.           *)
deliver(c) ==
  /\ ipi[c] # <<>>
  /\ ipi' = [ipi EXCEPT ![c] = Tail(@)]
  /\ at' = [at EXCEPT ![c] =
       IF Head(ipi[c]) = "INIT" THEN IF c = 0 THEN "bios" ELSE "wait_sipi"
       ELSE IF @ = "wait_sipi" THEN "record" ELSE @]
  /\ next' = [next EXCEPT ![c] = IF Head(ipi[c]) = "INIT" THEN {} ELSE @]
  /\ UNCHANGED <<jmp_code, is_ap, ap_ready, ready, loads, entered, halted, off>>

warm_reset(c) ==
  /\ go(c, "bios", "record")
  /\ UNCHANGED <<jmp_code, is_ap, ap_ready, ipi, next, ready, loads, entered, halted, off>>

record(c) ==
  /\ go(c, "record", IF jmp_code = "jmp 0x7c00" THEN "start32" ELSE "hang")
  /\ UNCHANGED <<jmp_code, is_ap, ap_ready, ipi, next, ready, loads, entered, halted, off>>

-------------------------------------------------------------------------------
(* Boot loader and _start_c, on the stack at 0xa000.                           *)
load_kernel(c) ==
  /\ go(c, "start32", "_start_c")
  /\ loads' = IF is_ap = 0 THEN loads + 1 ELSE loads
  /\ UNCHANGED <<jmp_code, is_ap, ap_ready, ipi, next, ready, entered, halted, off>>

\* __am_bootcpu_init is left on the boot stack; an AP changes its stack first.
_start_c(c) ==
  /\ IF is_ap = 0 THEN go(c, "_start_c", "main") /\ ready' = ready \cup {c}
     ELSE go(c, "_start_c", "othercpu") /\ UNCHANGED ready
  /\ UNCHANGED <<jmp_code, is_ap, ap_ready, ipi, next, loads, entered, halted, off>>

othercpu_init(c) ==
  /\ go(c, "othercpu", "announce")
  /\ ready' = ready \cup {c}
  /\ UNCHANGED <<jmp_code, is_ap, ap_ready, ipi, next, loads, entered, halted, off>>

announce(c) ==
  /\ go(c, "announce", "call_entry")
  /\ ap_ready' = 1
  /\ UNCHANGED <<jmp_code, is_ap, ipi, next, ready, loads, entered, halted, off>>

-------------------------------------------------------------------------------
(* mpe_init.                                                                   *)
ap_mark == 1

mpe_init(c) ==
  /\ go(c, "main", "boot_next")
  /\ jmp_code' = "jmp 0x7c00"
  /\ next' = [next EXCEPT ![c] = Cpu \ {0}]
  /\ UNCHANGED <<is_ap, ap_ready, ipi, ready, loads, entered, halted, off>>

\* Mutant of startups: INIT only.
startups_none == <<"INIT">>

\* __am_lapic_bootap
startups == <<"INIT", "STARTUP", "STARTUP">>

bootap(target) == ipi' = [ipi EXCEPT ![target] = @ \o startups]
lowest(S) == CHOOSE x \in S : \A y \in S : x <= y

boot_next(c) ==
  /\ IF next[c] = {}
     THEN /\ go(c, "boot_next", "call_entry")
          /\ UNCHANGED <<is_ap, ipi, next>>
     ELSE /\ go(c, "boot_next", "await_ap")
          /\ is_ap' = ap_mark
          /\ bootap(lowest(next[c]))
          /\ next' = [next EXCEPT ![c] = @ \ {lowest(@)}]
  /\ UNCHANGED <<jmp_code, ap_ready, ready, loads, entered, halted, off>>

\* Mutant of taken: the flag is read and left.
taken_not == ap_ready

taken == 0

await_ap(c) ==
  /\ ap_ready = 1
  /\ go(c, "await_ap", "boot_next")
  /\ ap_ready' = taken
  /\ UNCHANGED <<jmp_code, is_ap, ipi, next, ready, loads, entered, halted, off>>

call_user_entry(c) ==
  /\ go(c, "call_entry", "user")
  /\ entered' = entered \cup {c}
  /\ UNCHANGED <<jmp_code, is_ap, ap_ready, ipi, next, ready, loads, halted, off>>

-------------------------------------------------------------------------------

others(c) == Cpu \ {c}

halt(c) ==
  /\ at[c] \in {"main", "user"}
  /\ at' = [at EXCEPT ![c] = "stop"]
  /\ jmp_code' = "jmp ."
  /\ next' = [next EXCEPT ![c] = others(c)]
  /\ halted' = halted \cup {c}
  /\ UNCHANGED <<is_ap, ap_ready, ipi, ready, loads, entered, off>>

stop(c) ==
  /\ at[c] = "stop" /\ next[c] # {}
  /\ bootap(lowest(next[c]))
  /\ next' = [next EXCEPT ![c] = @ \ {lowest(@)}]
  /\ UNCHANGED <<at, jmp_code, is_ap, ap_ready, ready, loads, entered, halted, off>>

power_off(c) ==
  /\ at[c] = "stop" /\ next[c] = {}
  /\ off' = TRUE
  /\ UNCHANGED <<at, jmp_code, is_ap, ap_ready, ipi, next, ready, loads, entered, halted>>

Code(c) ==
  \/ record(c) \/ warm_reset(c) \/ load_kernel(c) \/ _start_c(c) \/ othercpu_init(c)
  \/ announce(c) \/ boot_next(c) \/ await_ap(c) \/ call_user_entry(c)
  \/ stop(c) \/ power_off(c)

MpeNext == ~off /\ \E c \in Cpu : Code(c) \/ mpe_init(c) \/ deliver(c) \/ halt(c)

\* Processors run and messages arrive; that a program calls mpe_init, or halt, is
\* nobody's promise.
MpeSpec ==
  /\ MpeInit /\ [][MpeNext]_mpeVars
  /\ \A c \in Cpu : WF_mpeVars(~off /\ Code(c)) /\ WF_mpeVars(~off /\ deliver(c))

-------------------------------------------------------------------------------
MpeTypeOK ==
  /\ at \in [Cpu -> {"bios", "wait_sipi", "record", "hang", "start32", "_start_c", "main",
                     "othercpu", "announce", "boot_next", "await_ap", "call_entry", "user",
                     "stop"}]
  /\ jmp_code \in {"none", "jmp 0x7c00", "jmp ."} /\ is_ap \in 0..1 /\ ap_ready \in 0..1
  /\ \A c \in Cpu : Len(ipi[c]) <= 3 * (1 + NCpu)
  /\ next \in [Cpu -> SUBSET Cpu]
  /\ ready \subseteq Cpu /\ entered \subseteq Cpu
  /\ loads \in 0..2 /\ halted \subseteq Cpu /\ off \in BOOLEAN

\* The processors share the boot stack one after the other: mpe_init wakes the next
\* when the last has announced itself from its own stack (xchg on ap_ready).
BootStackAlone == Cardinality({c \in Cpu : at[c] \in {"start32", "_start_c"}}) <= 1

\* The kernel is loaded once: no processor that is woken writes the image again over
\* a running kernel (load_kernel looks at is_ap).
LoadedOnce == loads <= 1

\* A processor runs the program only after its own initialisation, and the first one
\* only after that of all, unless one has halted the machine meanwhile.
EntersReady ==
  /\ \A c \in Cpu : at[c] = "user" => c \in ready
  /\ at[0] = "user" => ready = Cpu

\* Processors start in order, whatever messages are under way and whoever halts: one
\* on the boot stack at a time, one image, and nobody in the program too early.
StartsInOrder == MpeTypeOK /\ BootStackAlone /\ LoadedOnce /\ EntersReady

\* Once the program has called mpe_init every processor gets to its entry: a lost
\* STARTUP or a signal taken twice would leave the first one spinning.
AllEnter == at[0] = "boot_next" ~> entered = Cpu \/ halted # {}

\* All processors that called halt have been reset by another one that did, and loop in
\* the boot record.
StoppedEachOther == Cardinality(halted) > 1 /\ \A c \in halted : at[c] = "hang"

===============================================================================
