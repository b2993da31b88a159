------------------------------ MODULE NesPort ------------------------------
(***************************************************************************)
(* Video memory behind the PPU's ports in LiteNES (litenes/src/ppu.c), and *)
(* the processor's loads and stores to them.  Every store instruction of   *)
(* the emulated processor reads its operand first (cpu-addressing.c), and  *)
(* ppu.c relies on it: $2007 advances the address when it is read, never   *)
(* when it is written.                                                     *)
(***************************************************************************)
EXTENDS Integers

CONSTANTS
  None,
  mirroring,       \* ppu.mirroring, from the cartridge's header
  Values,          \* bytes the program stores to $2007 and $2006
  MaxAccesses      \* bound of the model: accesses of the program to the PPU

IsByte(b) == b \in Nat /\ b < 256

ASSUME NesPortAssumption ==
  /\ None \notin Nat
  /\ mirroring \in {0, 1}
  /\ \A d \in Values : IsByte(d)
  /\ MaxAccesses \in Nat

VARIABLES
  ready,           \* ppu.ready
  addr_received_high_byte, ppu_addr_latch,
  increment,       \* what bit 2 of PPUCTRL selects: 1 or 32
  PPUADDR, ppu_2007_first_read,
  PPU_RAM,         \* the bytes written so far; the others hold 0
  A,               \* cpu.A after a load
  \* The program's point of view, which no code reads:
  known,           \* it knows the address: set, and neither the status read
                   \* nor the increment changed since
  loaded,          \* and its last access was a load
  accesses         \* accesses so far

latchVars == <<addr_received_high_byte, ppu_addr_latch>>
vars == <<ready, latchVars, increment, PPUADDR, ppu_2007_first_read, PPU_RAM, A,
          known, loaded, accesses>>

mirroring_xor == IF mirroring = 0 THEN 1024 ELSE 2048

\* a ^ ppu.mirroring_xor
Flip(a) == IF (a \div mirroring_xor) % 2 = 1 THEN a - mirroring_xor ELSE a + mirroring_xor

\* ppu.PPUADDR &= 0x3FFF
Masked == PPUADDR % 16384

ppu_get_real_ram_address(a) ==
  IF a < 16128 THEN a
  ELSE IF a > 16383 THEN 65535
  ELSE 16128 + (IF a % 32 \in {16, 20, 24, 28} THEN (a % 32) - 16 ELSE a % 32)

ppu_ram_read(a) ==
  LET r == ppu_get_real_ram_address(a)
  IN  IF r \in DOMAIN PPU_RAM THEN PPU_RAM[r] ELSE 0

ppu_ram_write(ram, a, d) ==
  LET r == ppu_get_real_ram_address(a)
  IN  [x \in DOMAIN ram \cup {r} |-> IF x = r THEN d ELSE ram[x]]

Init ==
  /\ ready = FALSE
  /\ addr_received_high_byte = FALSE /\ ppu_addr_latch = 0
  /\ increment = 1
  /\ PPUADDR = 0 /\ ppu_2007_first_read = TRUE
  /\ PPU_RAM = [x \in {} |-> 0]
  /\ A = 0
  /\ known = FALSE /\ loaded = FALSE /\ accesses = 0

-----------------------------------------------------------------------------
\* ppu_cycle: the PPU accepts $2000 and $2006 from now on.
become_ready ==
  /\ ~ready /\ ready' = TRUE
  /\ UNCHANGED <<latchVars, increment, PPUADDR, ppu_2007_first_read, PPU_RAM, A,
                 known, loaded, accesses>>

\* Every access to a port of the PPU masks the address first.
Access == accesses < MaxAccesses /\ accesses' = accesses + 1

\* LDA $2002 (a store to it reads it as well).
status_read ==
  /\ Access
  /\ addr_received_high_byte' = FALSE /\ ppu_addr_latch' = 0
  /\ PPUADDR' = Masked /\ ppu_2007_first_read' = TRUE
  /\ A' \in {0, 128}
  /\ known' = FALSE /\ loaded' = FALSE
  /\ UNCHANGED <<ready, increment, PPU_RAM>>

\* STA $2000
ctrl_write ==
  /\ Access
  /\ PPUADDR' = Masked
  /\ IF ready
     THEN /\ \E i \in {1, 32} : increment' = i
          /\ known' = FALSE /\ loaded' = FALSE
     ELSE UNCHANGED <<increment, known, loaded>>
  /\ UNCHANGED <<ready, latchVars, ppu_2007_first_read, PPU_RAM, A>>

\* STA $2006
addr_write(d) ==
  /\ Access
  /\ UNCHANGED <<ready, increment, PPU_RAM, A>>
  /\ \/ /\ ~ready
        /\ PPUADDR' = Masked
        /\ UNCHANGED <<latchVars, ppu_2007_first_read, known, loaded>>
     \/ /\ ready /\ ~addr_received_high_byte
        /\ ppu_addr_latch' = d /\ addr_received_high_byte' = TRUE
        /\ PPUADDR' = Masked /\ ppu_2007_first_read' = TRUE
        /\ known' = FALSE /\ loaded' = FALSE
     \/ /\ ready /\ addr_received_high_byte
        /\ PPUADDR' = 256 * ppu_addr_latch + d /\ addr_received_high_byte' = FALSE
        /\ ppu_2007_first_read' = TRUE
        /\ known' = TRUE /\ loaded' = FALSE
        /\ UNCHANGED ppu_addr_latch

\* Mutant of AfterRead: every read advances, the first one too.
AfterReadAlways == Masked + increment

\* The address after a read of $2007.
AfterRead == IF ppu_2007_first_read THEN Masked ELSE Masked + increment

\* LDA $2007
data_read ==
  /\ Access
  /\ A' = ppu_ram_read(Masked)
  /\ PPUADDR' = AfterRead /\ ppu_2007_first_read' = FALSE
  /\ loaded' = known
  /\ UNCHANGED <<ready, latchVars, increment, PPU_RAM, known>>

\* Mutant of WriteBoth: one copy only.
WriteOne(a, d) == ppu_ram_write(PPU_RAM, a, d)

\* What a write of $2007 does to memory: both copies of a name table.
WriteBoth(a, d) == ppu_ram_write(ppu_ram_write(PPU_RAM, Flip(a), d), a, d)

\* STA $2007, which reads $2007 before it writes
data_write(d) ==
  /\ Access
  /\ PPUADDR' = AfterRead % 16384 /\ ppu_2007_first_read' = FALSE
  /\ PPU_RAM' = WriteBoth(AfterRead % 16384, d)
  /\ loaded' = FALSE
  /\ UNCHANGED <<ready, latchVars, increment, A, known>>

Next ==
  \/ become_ready \/ status_read \/ ctrl_write \/ data_read
  \/ \E d \in Values : addr_write(d) \/ data_write(d)

Spec == Init /\ [][Next]_vars

-----------------------------------------------------------------------------
InNames(a) == 8192 <= a /\ a < 12288

RamOK ==
  /\ PPU_RAM = [a \in DOMAIN PPU_RAM |-> PPU_RAM[a]]
  /\ \A a \in DOMAIN PPU_RAM : a \in Nat /\ a < 16384 /\ IsByte(PPU_RAM[a])

FlagsOK ==
  /\ ready \in BOOLEAN /\ addr_received_high_byte \in BOOLEAN
  /\ ppu_2007_first_read \in BOOLEAN
  /\ known \in BOOLEAN /\ loaded \in BOOLEAN

NumbersOK ==
  /\ IsByte(ppu_addr_latch) /\ increment \in {1, 32}
  /\ PPUADDR \in Nat /\ PPUADDR < 65536
  /\ IsByte(A)
  /\ accesses \in 0 .. MaxAccesses

TypeOK == FlagsOK /\ NumbersOK /\ RamOK

\* The two copies of a name table never differ: scrolling, which draws from
\* both, shows one picture (ppu.c writes each byte of $2007 twice).
MirrorsAgree == \A a \in DOMAIN PPU_RAM :
  InNames(a) => ppu_ram_read(a) = ppu_ram_read(Flip(a))

\* One address for each byte a program can have written: the lower of two
\* copies of a name table, and the palettes.
IsCell(a) == IF InNames(a) THEN (a \div mirroring_xor) % 2 = 0 ELSE 16128 <= a

\* The state of VideoPort this state stands for.
port_addr == IF known THEN AfterRead % 16384 ELSE None
port_buffer == IF loaded /\ InNames(Masked) THEN ppu_ram_read(Masked) ELSE None
port_mem == [c \in {x \in DOMAIN PPU_RAM : IsCell(x)} |-> PPU_RAM[c]]

\* ppu.c, which moves the address on reads only, and one access late, keeps
\* what a program expects of the data port: bytes stored one after the other
\* land in consecutive cells, and every load but the first after an address or
\* a store returns the next byte.
Promise == INSTANCE VideoPort WITH
  MirrorBit <- mirroring_xor,
  half <- addr_received_high_byte, high <- ppu_addr_latch, inc <- increment,
  addr <- port_addr, buffer <- port_buffer, mem <- port_mem

ImplementsVideoPort == Promise!Spec
=============================================================================
