--------------------------- MODULE NesPortProofs ---------------------------
(***************************************************************************)
(* LiteNES's video memory port implements VideoPort, for either mirroring, *)
(* any bytes the program stores and programs of any length.                *)
(***************************************************************************)
EXTENDS NesPort, TLAPS

IsAddr(a) == a \in Nat /\ a < 16384

\* The pictures agree everywhere, and a program that just loaded knows the
\* address of the byte that is waiting in the buffer.
PortInv ==
  /\ TypeOK
  /\ \A a : InNames(a) /\ IsAddr(a) => ppu_ram_read(a) = ppu_ram_read(Flip(a))
  /\ loaded => known /\ ~ppu_2007_first_read

-----------------------------------------------------------------------------
\* Exclusive-or with one bit stays in the address space, undoes itself, stays
\* inside the name tables and leads out of the palettes.
LEMMA FlipProps ==
  ASSUME NEW a, IsAddr(a)
  PROVE  /\ IsAddr(Flip(a))
         /\ Flip(Flip(a)) = a
         /\ Flip(a) # a
         /\ InNames(a) <=> InNames(Flip(a))
         /\ InNames(a) => (IsCell(a) <=> ~IsCell(Flip(a)))
         /\ a >= 16128 => Flip(a) < 16128
<1>1. CASE mirroring = 0
  <2>1. mirroring_xor = 1024
    BY <1>1 DEF mirroring_xor
  <2> QED
    BY <2>1, SMTT(60) DEF Flip, InNames, IsCell, IsAddr
<1>2. CASE mirroring = 1
  <2>1. mirroring_xor = 2048
    BY <1>2 DEF mirroring_xor
  <2> QED
    BY <2>1, SMTT(60) DEF Flip, InNames, IsCell, IsAddr
<1> QED
  BY <1>1, <1>2, NesPortAssumption

\* Only the palettes are folded.
LEMMA RealProps ==
  ASSUME NEW a, IsAddr(a)
  PROVE  /\ IsAddr(ppu_get_real_ram_address(a))
         /\ a < 16128 => ppu_get_real_ram_address(a) = a
         /\ a >= 16128 => ppu_get_real_ram_address(a) >= 16128
<1>1. a % 32 \in Nat /\ a % 32 < 32
  BY SMT DEF IsAddr
<1> QED
  BY <1>1, SMT DEF ppu_get_real_ram_address, IsAddr

LEMMA MaskProps ==
  ASSUME TypeOK
  PROVE  /\ IsAddr(Masked)
         /\ Masked % 16384 = Masked
         /\ AfterRead \in Nat /\ AfterRead < 65536
         /\ IsAddr(AfterRead % 16384)
         /\ (AfterRead % 16384) % 16384 = AfterRead % 16384
         /\ ppu_2007_first_read => AfterRead % 16384 = Masked
         /\ ~ppu_2007_first_read => AfterRead % 16384 = (Masked + increment) % 16384
<1>1. Masked \in Nat /\ Masked < 16384
  BY SMT DEF TypeOK, NumbersOK, Masked
<1>2. increment \in Nat /\ increment < 33
  BY DEF TypeOK, NumbersOK
<1>3. AfterRead = Masked \/ AfterRead = Masked + increment
  BY DEF AfterRead
<1> QED
  BY <1>1, <1>2, <1>3, SMT DEF AfterRead, IsAddr

LEMMA MaskPropsPrimed == TypeOK' => Masked' % 16384 = Masked'
<1> SUFFICES ASSUME TypeOK' PROVE Masked' % 16384 = Masked'
  OBVIOUS
<1> QED
  BY SMT DEF TypeOK, NumbersOK, Masked

LEMMA ReadType ==
  ASSUME TypeOK, NEW a
  PROVE  IsByte(ppu_ram_read(a))
BY SMT DEF TypeOK, RamOK, ppu_ram_read, IsByte

\* w is PPU_RAM with d stored at r and s.
Stored(w, r, s, d) ==
  /\ DOMAIN w = DOMAIN PPU_RAM \cup {r, s}
  /\ w = [x \in DOMAIN w |-> w[x]]
  /\ \A x \in DOMAIN w : x \in Nat /\ x < 16384 /\ IsByte(w[x])
  /\ w[r] = d /\ w[s] = d
  /\ \A x \in DOMAIN w : x \notin {r, s} => x \in DOMAIN PPU_RAM /\ w[x] = PPU_RAM[x]

\* What the memory is after a store to the data port.
LEMMA WriteBothProps ==
  ASSUME TypeOK, NEW a, IsAddr(a), NEW d, IsByte(d)
  PROVE  Stored(WriteBoth(a, d), ppu_get_real_ram_address(a),
                ppu_get_real_ram_address(Flip(a)), d)
<1> DEFINE r == ppu_get_real_ram_address(a)
           s == ppu_get_real_ram_address(Flip(a))
           v == ppu_ram_write(PPU_RAM, Flip(a), d)
           w == WriteBoth(a, d)
<1>1. IsAddr(r) /\ IsAddr(s)
  BY FlipProps, RealProps
<1>2. v = [x \in DOMAIN PPU_RAM \cup {s} |-> IF x = s THEN d ELSE PPU_RAM[x]]
  BY DEF ppu_ram_write
<1>3. w = [x \in DOMAIN v \cup {r} |-> IF x = r THEN d ELSE v[x]]
  BY DEF WriteBoth, ppu_ram_write
<1> HIDE DEF r, s, v, w
<1>4. DOMAIN w = DOMAIN PPU_RAM \cup {r, s}
  BY <1>2, <1>3
<1>5. w[r] = d /\ w[s] = d
  BY <1>2, <1>3
<1>6. \A x \in DOMAIN w : x \notin {r, s} => x \in DOMAIN PPU_RAM /\ w[x] = PPU_RAM[x]
  BY <1>2, <1>3
<1>7. \A x \in DOMAIN w : x \in Nat /\ x < 16384 /\ IsByte(w[x])
  BY <1>1, <1>4, <1>5, <1>6 DEF TypeOK, RamOK, IsAddr
<1>8. w = [x \in DOMAIN w |-> w[x]]
  BY <1>3
<1>9. Stored(w, r, s, d)
  BY <1>4, <1>5, <1>6, <1>7, <1>8 DEF Stored
<1> QED
  BY <1>9 DEF r, s, w

-----------------------------------------------------------------------------
LEMMA PortInvInit == Init => PortInv
<1> SUFFICES ASSUME Init PROVE PortInv
  OBVIOUS
<1>1. RamOK
  BY DEF Init, RamOK
<1>2. FlagsOK
  BY DEF Init, FlagsOK
<1>3. IsByte(0) /\ 0 \in 0 .. MaxAccesses
  BY NesPortAssumption, SMT DEF IsByte
<1>4. NumbersOK
  BY <1>3 DEF Init, NumbersOK
<1>5. \A a : InNames(a) /\ IsAddr(a) => ppu_ram_read(a) = ppu_ram_read(Flip(a))
  BY DEF Init, ppu_ram_read
<1> QED
  BY <1>1, <1>2, <1>4, <1>5 DEF Init, PortInv, TypeOK

LEMMA PortInvNext == PortInv /\ [Next]_vars => PortInv'
<1> SUFFICES ASSUME PortInv, [Next]_vars PROVE PortInv'
  OBVIOUS
<1>0. FlagsOK /\ NumbersOK /\ RamOK /\ TypeOK
  BY DEF PortInv, TypeOK
<1>m. /\ Masked \in Nat /\ Masked < 65536
      /\ AfterRead \in Nat /\ AfterRead < 65536
      /\ IsAddr(AfterRead % 16384)
      /\ AfterRead % 16384 \in Nat /\ AfterRead % 16384 < 65536
  BY <1>0, MaskProps, SMT DEF IsAddr
<1>a. Access => accesses' \in 0 .. MaxAccesses
  BY <1>0, NesPortAssumption, SMT DEF Access, NumbersOK
<1>b. IsByte(0) /\ IsByte(128)
  BY SMT DEF IsByte
<1>r. PPU_RAM' = PPU_RAM =>
        RamOK' /\ (\A a : InNames(a) /\ IsAddr(a) => ppu_ram_read(a) = ppu_ram_read(Flip(a)))'
  BY <1>0 DEF RamOK, ppu_ram_read, PortInv
<1>1. CASE become_ready
  <2>1. FlagsOK'
    BY <1>0, <1>1 DEF become_ready, FlagsOK, latchVars
  <2>2. NumbersOK'
    BY <1>0, <1>1 DEF become_ready, NumbersOK, latchVars
  <2> QED
    BY <1>1, <1>r, <2>1, <2>2 DEF become_ready, PortInv, TypeOK
<1>2. CASE status_read
  <2>1. FlagsOK'
    BY <1>0, <1>2 DEF status_read, FlagsOK
  <2>2. NumbersOK'
    BY <1>0, <1>2, <1>m, <1>a, <1>b DEF status_read, NumbersOK
  <2> QED
    BY <1>2, <1>r, <2>1, <2>2 DEF status_read, PortInv, TypeOK
<1>3. CASE ctrl_write
  <2>1. FlagsOK'
    BY <1>0, <1>3 DEF ctrl_write, FlagsOK, latchVars
  <2>2. NumbersOK'
    BY <1>0, <1>3, <1>m, <1>a DEF ctrl_write, NumbersOK, latchVars
  <2>3. (loaded => known /\ ~ppu_2007_first_read)'
    BY <1>3 DEF ctrl_write, PortInv
  <2> QED
    BY <1>3, <1>r, <2>1, <2>2, <2>3 DEF ctrl_write, PortInv, TypeOK
<1>4. CASE data_read
  <2>0. IsByte(A')
    BY <1>0, <1>4, ReadType DEF data_read
  <2>1. FlagsOK'
    BY <1>0, <1>4 DEF data_read, FlagsOK, latchVars
  <2>2. NumbersOK'
    BY <1>0, <1>4, <1>m, <1>a, <2>0 DEF data_read, NumbersOK, latchVars
  <2>3. (loaded => known /\ ~ppu_2007_first_read)'
    BY <1>4 DEF data_read
  <2> QED
    BY <1>4, <1>r, <2>1, <2>2, <2>3 DEF data_read, PortInv, TypeOK
<1>5. ASSUME NEW d \in Values, addr_write(d) PROVE PortInv'
  <2>0. IsByte(d)
    BY NesPortAssumption
  <2>1. 256 * ppu_addr_latch + d \in Nat /\ 256 * ppu_addr_latch + d < 65536
    BY <1>0, <2>0, SMT DEF NumbersOK, IsByte
  <2>2. FlagsOK'
    BY <1>0, <1>5 DEF addr_write, FlagsOK, latchVars
  <2>3. /\ Access /\ UNCHANGED <<ready, increment, PPU_RAM, A>>
        /\ \/ PPUADDR' = Masked
           \/ PPUADDR' = 256 * ppu_addr_latch + d
        /\ ppu_addr_latch' = ppu_addr_latch \/ ppu_addr_latch' = d
    BY <1>5 DEF addr_write, latchVars
  <2>4. NumbersOK'
    BY <1>0, <1>m, <1>a, <2>0, <2>1, <2>3 DEF NumbersOK
  <2>5. (loaded => known /\ ~ppu_2007_first_read)'
    <3>1. CASE ~ready
      <4>1. UNCHANGED <<loaded, known, ppu_2007_first_read>>
        BY <1>5, <3>1 DEF addr_write
      <4>2. loaded => known /\ ~ppu_2007_first_read
        BY DEF PortInv
      <4> QED
        BY <4>1, <4>2
    <3>2. CASE ready
      <4>1. loaded' = FALSE
        BY <1>5, <3>2 DEF addr_write
      <4> QED
        BY <4>1
    <3> QED
      BY <3>1, <3>2
  <2> QED
    BY <1>r, <2>2, <2>3, <2>4, <2>5 DEF PortInv, TypeOK
<1>6. ASSUME NEW d \in Values, data_write(d) PROVE PortInv'
  <2> DEFINE b == AfterRead % 16384
             r == ppu_get_real_ram_address(b)
             s == ppu_get_real_ram_address(Flip(b))
  <2>1. IsByte(d) /\ IsAddr(b)
    BY <1>m, NesPortAssumption
  <2>2. /\ PPU_RAM' = WriteBoth(b, d)
        /\ PPUADDR' = b /\ Access /\ loaded' = FALSE /\ ppu_2007_first_read' = FALSE
        /\ UNCHANGED <<ready, addr_received_high_byte, ppu_addr_latch, increment, A, known>>
    BY <1>6 DEF data_write, latchVars
  <2>3. /\ DOMAIN PPU_RAM' = DOMAIN PPU_RAM \cup {r, s}
        /\ PPU_RAM' = [x \in DOMAIN PPU_RAM' |-> PPU_RAM'[x]]
        /\ \A x \in DOMAIN PPU_RAM' : x \in Nat /\ x < 16384 /\ IsByte(PPU_RAM'[x])
        /\ PPU_RAM'[r] = d /\ PPU_RAM'[s] = d
        /\ \A x \in DOMAIN PPU_RAM' : x \notin {r, s} => x \in DOMAIN PPU_RAM /\ PPU_RAM'[x] = PPU_RAM[x]
    <3> DEFINE w == WriteBoth(b, d)
    <3>1. Stored(w, r, s, d)
      BY <1>0, <2>1, WriteBothProps DEF b
    <3>2. PPU_RAM' = w
      BY <2>2
    <3> HIDE DEF w, r, s
    <3> QED
      BY <3>1, <3>2 DEF Stored
  <2>6. RamOK'
    BY <2>3 DEF RamOK
  <2>4. FlagsOK'
    <3>1. /\ UNCHANGED <<ready, addr_received_high_byte, known>>
          /\ loaded' = FALSE /\ ppu_2007_first_read' = FALSE
      BY <2>2
    <3> QED
      BY <1>0, <3>1 DEF FlagsOK
  <2>7. NumbersOK'
    BY <1>0, <1>a, <1>m, <2>2 DEF NumbersOK
  <2>5. ASSUME NEW a, InNames(a), IsAddr(a) PROVE ppu_ram_read(a)' = ppu_ram_read(Flip(a))'
    <3>1. /\ a < 16128
          /\ InNames(Flip(a)) /\ IsAddr(Flip(a)) /\ Flip(a) < 16128
          /\ Flip(Flip(a)) = a
      BY <2>5, FlipProps, SMT DEF InNames, IsAddr
    <3>2. ppu_get_real_ram_address(a) = a /\ ppu_get_real_ram_address(Flip(a)) = Flip(a)
      BY <2>5, <3>1, RealProps
    <3>3. /\ ppu_ram_read(a)' = IF a \in DOMAIN PPU_RAM' THEN PPU_RAM'[a] ELSE 0
          /\ ppu_ram_read(Flip(a))' = IF Flip(a) \in DOMAIN PPU_RAM' THEN PPU_RAM'[Flip(a)] ELSE 0
          /\ ppu_ram_read(a) = IF a \in DOMAIN PPU_RAM THEN PPU_RAM[a] ELSE 0
          /\ ppu_ram_read(Flip(a)) = IF Flip(a) \in DOMAIN PPU_RAM THEN PPU_RAM[Flip(a)] ELSE 0
      BY <3>2 DEF ppu_ram_read
    <3>4. b < 16128 => r = b
      BY <2>1, RealProps
    <3>5. IsAddr(Flip(b)) /\ Flip(Flip(b)) = b
      BY <2>1, FlipProps
    <3>6. a \in {r, s} => {r, s} = {a, Flip(a)}
      <4>1. CASE InNames(b)
        <5>1. r = b /\ InNames(Flip(b)) /\ IsAddr(Flip(b)) /\ Flip(b) < 16128
          BY <4>1, <2>1, <3>4, FlipProps, SMT DEF InNames, IsAddr
        <5>2. s = Flip(b)
          BY <5>1, RealProps
        <5> QED
          BY <5>1, <5>2, <3>1, <3>5, <4>1
      <4>2. CASE ~InNames(b)
        <5>1. ~InNames(Flip(b)) /\ IsAddr(Flip(b))
          BY <4>2, <2>1, FlipProps
        <5>2. ~InNames(r)
          BY <4>2, <2>1, RealProps, SMT DEF InNames, IsAddr
        <5>3. ~InNames(s)
          BY <5>1, RealProps, SMT DEF InNames, IsAddr
        <5> QED
          BY <2>5, <5>2, <5>3
      <4> QED
        BY <4>1, <4>2
    <3>7. CASE a \in {r, s}
      BY <3>7, <3>6, <3>3, <2>3
    <3>8. CASE a \notin {r, s}
      <4>1. Flip(a) \notin {r, s}
        <5>1. CASE InNames(b)
          <6>1. r = b /\ InNames(Flip(b)) /\ IsAddr(Flip(b)) /\ Flip(b) < 16128
            BY <5>1, <2>1, <3>4, FlipProps, SMT DEF InNames, IsAddr
          <6>2. s = Flip(b)
            BY <6>1, RealProps
          <6> QED
            BY <6>1, <6>2, <3>1, <3>5, <3>8, <5>1
        <5>2. CASE ~InNames(b)
          <6>1. ~InNames(Flip(b)) /\ IsAddr(Flip(b))
            BY <5>2, <2>1, FlipProps
          <6>2. ~InNames(r)
            BY <5>2, <2>1, RealProps, SMT DEF InNames, IsAddr
          <6>3. ~InNames(s)
            BY <6>1, RealProps, SMT DEF InNames, IsAddr
          <6> QED
            BY <6>2, <6>3, <3>1
        <5> QED
          BY <5>1, <5>2
      <4>2. ppu_ram_read(a) = ppu_ram_read(Flip(a))
        BY <2>5 DEF PortInv
      <4>3. ppu_ram_read(a)' = ppu_ram_read(a)
        BY <3>8, <3>3, <2>3
      <4>4. ppu_ram_read(Flip(a))' = ppu_ram_read(Flip(a))
        BY <4>1, <3>3, <2>3
      <4> QED
        BY <4>2, <4>3, <4>4
    <3> QED
      BY <3>7, <3>8
  <2> QED
    BY <2>2, <2>4, <2>5, <2>6, <2>7 DEF PortInv, TypeOK
<1>7. CASE UNCHANGED vars
  <2>1. FlagsOK'
    BY <1>0, <1>7 DEF vars, latchVars, FlagsOK
  <2>2. NumbersOK'
    BY <1>0, <1>7 DEF vars, latchVars, NumbersOK
  <2> QED
    BY <1>7, <1>r, <2>1, <2>2 DEF vars, PortInv, TypeOK
<1> QED
  BY <1>1, <1>2, <1>3, <1>4, <1>5, <1>6, <1>7 DEF Next

-----------------------------------------------------------------------------
\* The registers of the port keep their widths, and video memory its bounds.
THEOREM TypeCorrect == Spec => []TypeOK
<1>1. PortInv => TypeOK
  BY DEF PortInv
<1> QED
  BY PortInvInit, PortInvNext, <1>1, PTL DEF Spec

\* The two copies of a name table never differ, whatever a program stores.
THEOREM MirrorsAlwaysAgree == Spec => []MirrorsAgree
<1>1. PortInv => MirrorsAgree
  BY DEF PortInv, TypeOK, RamOK, MirrorsAgree, IsAddr
<1> QED
  BY PortInvInit, PortInvNext, <1>1, PTL DEF Spec

-----------------------------------------------------------------------------
\* Of the two bytes a store changes, one is the cell of VideoPort.
LEMMA CellProps ==
  ASSUME NEW a, IsAddr(a), InNames(a) \/ a >= 16128
  PROVE  LET r == ppu_get_real_ram_address(a)
             s == ppu_get_real_ram_address(Flip(a))
         IN  /\ Promise!Cell(a) \in {r, s}
             /\ IsCell(r) <=> r = Promise!Cell(a)
             /\ IsCell(s) <=> s = Promise!Cell(a)
<1> DEFINE r == ppu_get_real_ram_address(a)
           s == ppu_get_real_ram_address(Flip(a))
<1>1. CASE InNames(a)
  <2>1. r = a /\ s = Flip(a)
    <3>1. a < 16128 /\ Flip(a) < 16128 /\ IsAddr(Flip(a))
      BY <1>1, FlipProps, SMT DEF InNames, IsAddr
    <3> QED
      BY <3>1, RealProps
  <2>2. Promise!Cell(a) = IF (a \div mirroring_xor) % 2 = 1 THEN a - mirroring_xor ELSE a
    BY <1>1, NesPortAssumption DEF Promise!Cell, Promise!InNames, Promise!Lower, InNames, IsAddr
  <2>3. IsCell(a) <=> (a \div mirroring_xor) % 2 = 0
    BY <1>1 DEF IsCell
  <2>4. (a \div mirroring_xor) % 2 \in {0, 1}
    <3>1. mirroring_xor \in {1024, 2048}
      BY NesPortAssumption DEF mirroring_xor
    <3> QED
      BY <3>1, SMT DEF IsAddr
  <2>5. IsCell(Flip(a)) <=> ~IsCell(a)
    BY <1>1, FlipProps
  <2>6. CASE (a \div mirroring_xor) % 2 = 0
    <3>1. Promise!Cell(a) = a /\ IsCell(a) /\ ~IsCell(Flip(a)) /\ Flip(a) # a
      BY <2>2, <2>3, <2>5, <2>6, FlipProps
    <3> QED
      BY <2>1, <3>1
  <2>7. CASE (a \div mirroring_xor) % 2 = 1
    <3>1. Promise!Cell(a) = Flip(a)
      BY <2>2, <2>7 DEF Flip
    <3>2. ~IsCell(a) /\ IsCell(Flip(a)) /\ Flip(a) # a
      BY <2>3, <2>5, <2>7, FlipProps
    <3> QED
      BY <2>1, <3>1, <3>2
  <2> QED
    BY <2>4, <2>6, <2>7
<1>2. CASE ~InNames(a)
  <2>1. a >= 16128 /\ a <= 16383 /\ a \in Nat
    BY <1>2, SMT DEF IsAddr
  <2>2. r = Promise!Cell(a)
    <3>1. ~Promise!InNames(a)
      BY <1>2 DEF Promise!InNames, InNames
    <3>2. Promise!Cell(a) = 16128 + Promise!Colour(a % 32)
      BY <3>1 DEF Promise!Cell
    <3>3. r = 16128 + (IF a % 32 \in {16, 20, 24, 28} THEN (a % 32) - 16 ELSE a % 32)
      BY <2>1, SMT DEF ppu_get_real_ram_address
    <3> QED
      BY <3>2, <3>3 DEF Promise!Colour
  <2>3. r >= 16128 /\ IsAddr(r)
    BY <2>1, RealProps
  <2>4. IsCell(r)
    BY <2>3, SMT DEF IsCell, InNames, IsAddr
  <2>5. IsAddr(Flip(a)) /\ Flip(a) < 16128 /\ ~InNames(Flip(a))
    BY <1>2, <2>1, FlipProps
  <2>6. s = Flip(a)
    BY <2>5, RealProps
  <2>7. ~IsCell(s) /\ s # r
    BY <2>3, <2>5, <2>6, SMT DEF IsCell, IsAddr
  <2> QED
    BY <2>2, <2>4, <2>7
<1> QED
  BY <1>1, <1>2

\* A store changes the one cell VideoPort says.
LEMMA StoreMem ==
  ASSUME TypeOK, NEW a, IsAddr(a), InNames(a) \/ a >= 16128, NEW d, IsByte(d),
         PPU_RAM' = WriteBoth(a, d)
  PROVE  port_mem' = Promise!Write(port_mem, Promise!Cell(a), d)
<1> DEFINE r == ppu_get_real_ram_address(a)
           s == ppu_get_real_ram_address(Flip(a))
           k == Promise!Cell(a)
           m == port_mem
<1>1. Stored(PPU_RAM', r, s, d)
  BY WriteBothProps
<1>2. k \in {r, s} /\ (IsCell(r) <=> r = k) /\ (IsCell(s) <=> s = k)
  BY CellProps
<1>3. m = [c \in {x \in DOMAIN PPU_RAM : IsCell(x)} |-> PPU_RAM[c]]
  BY DEF port_mem
<1>4. m' = [c \in {x \in DOMAIN PPU_RAM' : IsCell(x)} |-> PPU_RAM'[c]]
  BY DEF port_mem, IsCell, InNames
<1>5. Promise!Write(m, k, d) = [x \in DOMAIN m \cup {k} |-> IF x = k THEN d ELSE m[x]]
  BY DEF Promise!Write
<1> HIDE DEF r, s, k, m
<1>6. DOMAIN PPU_RAM' = DOMAIN PPU_RAM \cup {r, s}
  BY <1>1 DEF Stored
<1>7. {x \in DOMAIN PPU_RAM' : IsCell(x)} = {x \in DOMAIN PPU_RAM : IsCell(x)} \cup {k}
  BY <1>2, <1>6
<1>8. DOMAIN m = {x \in DOMAIN PPU_RAM : IsCell(x)}
  BY <1>3
<1>9. PPU_RAM'[k] = d
  BY <1>1, <1>2 DEF Stored
<1>10. ASSUME NEW x \in DOMAIN m \cup {k} PROVE PPU_RAM'[x] = IF x = k THEN d ELSE m[x]
  <2>1. CASE x = k
    BY <1>9, <2>1
  <2>2. CASE x # k
    <3>1. x \in DOMAIN PPU_RAM /\ IsCell(x) /\ m[x] = PPU_RAM[x]
      BY <1>3, <1>8, <1>10, <2>2
    <3>2. x \notin {r, s} /\ x \in DOMAIN PPU_RAM'
      BY <1>2, <1>6, <2>2, <3>1
    <3>3. PPU_RAM'[x] = PPU_RAM[x]
      BY <1>1, <3>2 DEF Stored
    <3> QED
      BY <2>2, <3>1, <3>3
  <2> QED
    BY <2>1, <2>2
<1>11. m' = [x \in DOMAIN m \cup {k} |-> PPU_RAM'[x]]
  BY <1>4, <1>7, <1>8
<1>12. m' = Promise!Write(m, k, d)
  BY <1>5, <1>10, <1>11
<1> QED
  BY <1>12 DEF m, k

\* What a load of a name table returns is the cell's value.
LEMMA LoadMem ==
  ASSUME PortInv, NEW a, IsAddr(a), InNames(a)
  PROVE  Promise!At(port_mem, Promise!Cell(a)) = ppu_ram_read(a)
<1> DEFINE k == Promise!Cell(a)
<1>1. a < 16128 /\ IsAddr(Flip(a)) /\ InNames(Flip(a)) /\ Flip(a) < 16128
  BY FlipProps, SMT DEF InNames, IsAddr
<1>2. ppu_get_real_ram_address(a) = a /\ ppu_get_real_ram_address(Flip(a)) = Flip(a)
  BY <1>1, RealProps
<1>3. k \in {a, Flip(a)} /\ IsCell(k)
  BY <1>2, CellProps
<1>4. ppu_ram_read(a) = ppu_ram_read(Flip(a))
  BY DEF PortInv
<1>5. ppu_ram_read(k) = IF k \in DOMAIN PPU_RAM THEN PPU_RAM[k] ELSE 0
  BY <1>2, <1>3 DEF ppu_ram_read
<1> HIDE DEF k
<1>6. Promise!At(port_mem, k) = IF k \in DOMAIN port_mem THEN port_mem[k] ELSE 0
  BY DEF Promise!At
<1>7. k \in DOMAIN port_mem <=> k \in DOMAIN PPU_RAM
  BY <1>3 DEF port_mem
<1>8. k \in DOMAIN port_mem => port_mem[k] = PPU_RAM[k]
  BY DEF port_mem
<1>9. Promise!At(port_mem, k) = ppu_ram_read(k)
  BY <1>5, <1>6, <1>7, <1>8
<1>10. ppu_ram_read(k) = ppu_ram_read(a)
  BY <1>3, <1>4
<1> QED
  BY <1>9, <1>10 DEF k

LEMMA NoNumber == \A n \in Nat : n # None
BY NesPortAssumption

LEMMA RefineInit == Init => Promise!Init
<1> SUFFICES ASSUME Init PROVE Promise!Init
  OBVIOUS
<1>1. port_addr = None /\ port_buffer = None
  BY DEF Init, port_addr, port_buffer
<1>2. port_mem = [x \in {} |-> 0]
  <2>1. {x \in DOMAIN PPU_RAM : IsCell(x)} = {}
    BY DEF Init
  <2> QED
    BY <2>1 DEF port_mem
<1> QED
  BY <1>1, <1>2 DEF Init, Promise!Init

LEMMA RefineNext == PortInv /\ PortInv' /\ [Next]_vars => [Promise!Next]_(Promise!vars)
<1> SUFFICES ASSUME PortInv, PortInv', [Next]_vars PROVE [Promise!Next]_(Promise!vars)
  OBVIOUS
<1>0. TypeOK /\ FlagsOK /\ NumbersOK /\ TypeOK'
  BY DEF PortInv, TypeOK
<1>k. \A d : IsByte(d) => d # None
  BY NoNumber DEF IsByte
<1>r. PPU_RAM' = PPU_RAM => port_mem' = port_mem
  BY DEF port_mem, IsCell, InNames
<1>m. IsAddr(Masked) /\ IsAddr(AfterRead % 16384) /\ (AfterRead % 16384) % 16384 = AfterRead % 16384
  BY <1>0, MaskProps
<1>1. CASE become_ready
  <2>1. UNCHANGED <<port_addr, port_buffer, port_mem>>
    BY <1>1, <1>r DEF become_ready, latchVars, port_addr, port_buffer, AfterRead, Masked, InNames, ppu_ram_read
  <2> QED
    BY <1>1, <2>1 DEF become_ready, latchVars, Promise!Next, Promise!WarmUp
<1>2. CASE status_read
  <2>1. port_addr' = None /\ port_buffer' = None /\ port_mem' = port_mem
    BY <1>2, <1>r DEF status_read, port_addr, port_buffer
  <2>2. Promise!IsByte(A')
    BY <1>2, SMT DEF status_read, Promise!IsByte
  <2> QED
    BY <1>2, <2>1, <2>2 DEF status_read, Promise!Next, Promise!ReadStatus
<1>3. CASE ctrl_write
  <2>1. CASE ready
    <3>1. port_addr' = None /\ port_buffer' = None /\ port_mem' = port_mem
      BY <1>3, <1>r, <2>1 DEF ctrl_write, port_addr, port_buffer
    <3>2. \E i \in {1, 32} : increment' = i
      BY <1>3, <2>1 DEF ctrl_write
    <3>3. \E i \in {1, 32} : Promise!SetIncrement(i)
      BY <1>3, <2>1, <3>1, <3>2 DEF ctrl_write, latchVars, Promise!SetIncrement
    <3> QED
      BY <3>3 DEF Promise!Next
  <2>2. CASE ~ready
    <3>1. UNCHANGED <<ready, addr_received_high_byte, ppu_addr_latch, increment, ppu_2007_first_read,
                      PPU_RAM, A, known, loaded>>
      BY <1>3, <2>2 DEF ctrl_write, latchVars
    <3>2. Masked' = Masked
      BY <1>0, <1>3, MaskProps DEF ctrl_write, Masked
    <3>3. UNCHANGED <<port_addr, port_buffer, port_mem>>
      BY <1>r, <3>1, <3>2 DEF port_addr, port_buffer, AfterRead, InNames, ppu_ram_read
    <3> QED
      BY <3>1, <3>3 DEF Promise!vars
  <2> QED
    BY <2>1, <2>2
<1>4. CASE data_read
  <2>1. /\ Masked' = AfterRead % 16384
        /\ ppu_2007_first_read' = FALSE /\ loaded' = known /\ A' = ppu_ram_read(Masked)
        /\ UNCHANGED <<ready, addr_received_high_byte, ppu_addr_latch, increment, PPU_RAM, known>>
    BY <1>4 DEF data_read, latchVars, Masked
  <2>2. \A a : ppu_ram_read(a)' = ppu_ram_read(a)
    BY <2>1 DEF ppu_ram_read
  <2>3. AfterRead' % 16384 = ((AfterRead % 16384) + increment) % 16384
    BY <2>1 DEF AfterRead
  <2>4. port_mem' = port_mem
    BY <1>r, <2>1
  <2>5. Promise!IsByte(A')
    BY <1>0, <2>1, ReadType DEF IsByte, Promise!IsByte
  <2>6. port_buffer # None => A' = port_buffer
    BY <2>1 DEF port_buffer
  <2>7. Promise!Advance
    <3>1. known => port_addr = AfterRead % 16384 /\ port_addr # None
      BY <1>m, NoNumber DEF port_addr, IsAddr
    <3> QED
      BY <2>1, <2>3, <3>1 DEF Promise!Advance, port_addr
  <2>8. port_buffer' = IF Promise!InNames(port_addr) THEN Promise!At(port_mem, Promise!Cell(port_addr)) ELSE None
    <3>1. CASE known
      <4>1. port_addr = AfterRead % 16384 /\ IsAddr(port_addr) /\ port_addr # None
        BY <1>m, <3>1, NoNumber DEF port_addr, IsAddr
      <4>2. port_buffer' = IF InNames(port_addr) THEN ppu_ram_read(port_addr) ELSE None
        BY <2>1, <2>2, <3>1, <4>1 DEF port_buffer, InNames
      <4>3. Promise!InNames(port_addr) <=> InNames(port_addr)
        BY <4>1 DEF Promise!InNames, InNames
      <4>4. InNames(port_addr) => Promise!At(port_mem, Promise!Cell(port_addr)) = ppu_ram_read(port_addr)
        BY <4>1, LoadMem
      <4> QED
        BY <4>2, <4>3, <4>4
    <3>2. CASE ~known
      <4>1. port_addr = None /\ port_buffer' = None
        BY <2>1, <3>2 DEF port_addr, port_buffer
      <4> QED
        BY <4>1 DEF Promise!InNames
    <3> QED
      BY <3>1, <3>2
  <2>9. Promise!Load
    BY <2>1, <2>4, <2>5, <2>6, <2>7, <2>8 DEF Promise!Load
  <2> QED
    BY <2>9 DEF Promise!Next
<1>5. ASSUME NEW d \in Values, addr_write(d) PROVE [Promise!Next]_(Promise!vars)
  <2>0. /\ UNCHANGED <<ready, increment, PPU_RAM, A>>
        /\ port_mem' = port_mem
    BY <1>5, <1>r DEF addr_write
  <2>1. CASE ~ready
    <3>1. UNCHANGED <<addr_received_high_byte, ppu_addr_latch, ppu_2007_first_read, known, loaded>>
      BY <1>5, <2>1 DEF addr_write, latchVars
    <3>2. Masked' = Masked
      BY <1>0, <1>5, <2>1, MaskProps DEF addr_write, Masked
    <3>3. UNCHANGED <<port_addr, port_buffer, port_mem>>
      BY <2>0, <3>1, <3>2 DEF port_addr, port_buffer, AfterRead, InNames, ppu_ram_read
    <3> QED
      BY <2>0, <3>1, <3>3 DEF Promise!vars
  <2>2. CASE ready /\ ~addr_received_high_byte
    <3>1. ppu_addr_latch' = d /\ addr_received_high_byte' = TRUE /\ known' = FALSE /\ loaded' = FALSE
      BY <1>5, <2>2 DEF addr_write
    <3>2. port_addr' = None /\ port_buffer' = None
      BY <3>1 DEF port_addr, port_buffer
    <3>3. Promise!SetHigh(d)
      BY <2>0, <2>2, <3>1, <3>2 DEF Promise!SetHigh
    <3> QED
      BY <3>3 DEF Promise!Next
  <2>3. CASE ready /\ addr_received_high_byte
    <3>1. /\ PPUADDR' = 256 * ppu_addr_latch + d /\ addr_received_high_byte' = FALSE
          /\ ppu_2007_first_read' = TRUE /\ known' = TRUE /\ loaded' = FALSE
          /\ UNCHANGED ppu_addr_latch
      BY <1>5, <2>3 DEF addr_write
    <3>2. port_addr' = (256 * ppu_addr_latch + d) % 16384
      <4>1. Masked' = (256 * ppu_addr_latch + d) % 16384
        BY <3>1 DEF Masked
      <4>2. Masked' % 16384 = Masked'
        BY <1>0, MaskPropsPrimed
      <4> QED
        BY <3>1, <4>1, <4>2 DEF port_addr, AfterRead
    <3>3. port_buffer' = None
      BY <3>1 DEF port_buffer
    <3>4. Promise!SetLow(d)
      BY <2>0, <2>3, <3>1, <3>2, <3>3 DEF Promise!SetLow
    <3> QED
      BY <3>4 DEF Promise!Next
  <2> QED
    BY <2>1, <2>2, <2>3
<1>6. ASSUME NEW d \in Values, data_write(d) PROVE [Promise!Next]_(Promise!vars)
  <2> DEFINE b == AfterRead % 16384
  <2>1. IsByte(d) /\ IsAddr(b)
    BY <1>m, NesPortAssumption
  <2>2. /\ PPU_RAM' = WriteBoth(b, d)
        /\ PPUADDR' = b /\ loaded' = FALSE /\ ppu_2007_first_read' = FALSE
        /\ UNCHANGED <<ready, addr_received_high_byte, ppu_addr_latch, increment, A, known>>
    BY <1>6 DEF data_write, latchVars
  <2>3. Masked' = b
    BY <1>m, <2>2 DEF Masked
  <2>4. AfterRead' % 16384 = (b + increment) % 16384
    BY <2>2, <2>3 DEF AfterRead
  <2>5. Promise!Advance
    <3>1. known => port_addr = b /\ port_addr # None
      BY <2>1, NoNumber DEF port_addr, IsAddr
    <3> QED
      BY <2>2, <2>4, <3>1 DEF Promise!Advance, port_addr
  <2>6. port_buffer' = None
    BY <2>2 DEF port_buffer
  <2>7. Promise!InNames(port_addr) \/ Promise!InPalettes(port_addr) =>
          port_mem' = Promise!Write(port_mem, Promise!Cell(port_addr), d)
    <3> SUFFICES ASSUME Promise!InNames(port_addr) \/ Promise!InPalettes(port_addr)
                 PROVE  port_mem' = Promise!Write(port_mem, Promise!Cell(port_addr), d)
      OBVIOUS
    <3>1. port_addr = b
      BY DEF port_addr, Promise!InNames, Promise!InPalettes
    <3>2. InNames(b) \/ b >= 16128
      BY <2>1, <3>1, SMT DEF Promise!InNames, Promise!InPalettes, InNames, IsAddr
    <3> HIDE DEF b
    <3>3. port_mem' = Promise!Write(port_mem, Promise!Cell(b), d)
      BY <1>0, <2>1, <2>2, <3>2, StoreMem
    <3> QED
      BY <3>1, <3>3
  <2>8. Promise!Store(d)
    BY <2>2, <2>5, <2>6, <2>7 DEF Promise!Store
  <2> QED
    BY <2>8 DEF Promise!Next
<1>7. CASE UNCHANGED vars
  BY <1>7, <1>r DEF vars, latchVars, Promise!vars, port_addr, port_buffer, AfterRead, Masked, InNames, ppu_ram_read
<1> QED
  BY <1>1, <1>2, <1>3, <1>4, <1>5, <1>6, <1>7 DEF Next

\* The emulator's port, which advances its address on reads only and one
\* access late, implements the port programs are written for.
THEOREM ImplementsPort == Spec => ImplementsVideoPort
BY PortInvInit, PortInvNext, RefineInit, RefineNext, PTL DEF Spec, ImplementsVideoPort, Promise!Spec
=============================================================================
