----------------------------- MODULE VideoPort -----------------------------
(***************************************************************************)
(* What a NES program may expect of video memory behind the PPU's ports    *)
(* $2006 (address, high byte first) and $2007 (data): an address that      *)
(* advances on every access, name tables that appear twice, palettes with  *)
(* aliases, and reads that come one access late, through a buffer.         *)
(*                                                                         *)
(* Nothing is promised of the address once the program has read the status *)
(* register or changed the increment: it must set the address again.  Nor  *)
(* of what a load from the palettes returns, or leaves in the buffer: the  *)
(* second of two such loads in ppu.c repeats the first, which no console   *)
(* does.  The value None stands for an address or a buffer of which        *)
(* nothing is promised.                                                    *)
(***************************************************************************)
EXTENDS Integers

CONSTANTS
  None,
  Values,          \* bytes the program stores
  MirrorBit        \* address bit two equal name tables differ in: 1024 or 2048

VARIABLES
  ready,           \* the PPU has warmed up and obeys $2000 and $2006
  half, high,      \* the high byte of an address has come, and which
  inc,             \* 1 or 32
  addr,            \* the address, or None
  buffer,          \* the byte the next read returns, or None
  mem,             \* the cells written so far; the others hold 0
  A                \* the accumulator

vars == <<ready, half, high, inc, addr, buffer, mem, A>>


IsByte(b) == b \in Nat /\ b < 256
InNames(a) == a # None /\ 8192 <= a /\ a < 12288
InPalettes(a) == a # None /\ 16128 <= a

\* The cell an address of a name table or of the palettes stands for.
Lower(a) == IF (a \div MirrorBit) % 2 = 1 THEN a - MirrorBit ELSE a
Colour(i) == IF i \in {16, 20, 24, 28} THEN i - 16 ELSE i
Cell(a) == IF InNames(a) THEN Lower(a) ELSE 16128 + Colour(a % 32)

At(m, c) == IF c \in DOMAIN m THEN m[c] ELSE 0
Write(m, c, d) == [x \in DOMAIN m \cup {c} |-> IF x = c THEN d ELSE m[x]]

Advance == addr' = IF addr = None THEN None ELSE (addr + inc) % 16384

Init ==
  /\ ready = FALSE /\ half = FALSE /\ high = 0 /\ inc = 1
  /\ addr = None /\ buffer = None
  /\ mem = [x \in {} |-> 0] /\ A = 0

WarmUp ==
  /\ ready' = TRUE
  /\ UNCHANGED <<half, high, inc, addr, buffer, mem, A>>

ReadStatus ==
  /\ half' = FALSE /\ high' = 0
  /\ addr' = None /\ buffer' = None
  /\ IsByte(A')
  /\ UNCHANGED <<ready, inc, mem>>

SetIncrement(i) ==
  /\ ready
  /\ inc' = i /\ addr' = None /\ buffer' = None
  /\ UNCHANGED <<ready, half, high, mem, A>>

SetHigh(d) ==
  /\ ready /\ ~half
  /\ half' = TRUE /\ high' = d /\ addr' = None /\ buffer' = None
  /\ UNCHANGED <<ready, inc, mem, A>>

SetLow(d) ==
  /\ ready /\ half
  /\ half' = FALSE /\ addr' = (256 * high + d) % 16384 /\ buffer' = None
  /\ UNCHANGED <<ready, high, inc, mem, A>>

Load ==
  /\ IsByte(A')
  /\ buffer # None => A' = buffer
  /\ buffer' = IF InNames(addr) THEN At(mem, Cell(addr)) ELSE None
  /\ Advance
  /\ UNCHANGED <<ready, half, high, inc, mem>>

\* Of a store where there is no memory of the console nothing is promised.
Store(d) ==
  /\ InNames(addr) \/ InPalettes(addr) => mem' = Write(mem, Cell(addr), d)
  /\ buffer' = None
  /\ Advance
  /\ UNCHANGED <<ready, half, high, inc, A>>

Next ==
  \/ WarmUp \/ ReadStatus \/ Load
  \/ \E i \in {1, 32} : SetIncrement(i)
  \/ \E d \in Values : SetHigh(d) \/ SetLow(d) \/ Store(d)

Spec == Init /\ [][Next]_vars
=============================================================================
