----------------------------- MODULE BusProofs -----------------------------
(***************************************************************************)
(* What the bus guarantees for every memory map: addresses have one owner, *)
(* accesses reach it, and devices stay in the block of host memory.        *)
(***************************************************************************)
EXTENDS Bus, SequenceTheorems, TLAPS

\* A region: not empty, of a legal length, with neither end in the memory, and
\* backed by a part of the block that leaves a page behind it.
GoodMap(m) ==
  /\ m.low \in Addr /\ m.high \in Addr /\ m.space \in Nat
  /\ m.low <= m.high
  /\ m.high - m.low < MaxRegion
  /\ m.low \notin Pmem /\ m.high \notin Pmem
  /\ m.space + (m.high - m.low) + PAGE_SIZE < IO_SPACE_MAX

Apart(m, n) == m.high < n.low \/ n.high < m.low

Pages(p) == \E k \in Nat : p = PAGE_SIZE * k

\* maps is a sequence of good regions, pairwise apart, and p_space is a whole
\* number of pages.
IInv ==
  /\ maps \in Seq(Region)
  /\ \A i \in DOMAIN maps : GoodMap(maps[i])
  /\ \A i \in DOMAIN maps, j \in DOMAIN maps : i # j => Apart(maps[i], maps[j])
  /\ p_space \in Nat
  /\ Pages(p_space)

-----------------------------------------------------------------------------
\* Two numbers of whole pages are a page apart.
LEMMA PageApart ==
  ASSUME NEW p \in Nat, NEW m \in Nat, Pages(p), Pages(m), p < m
  PROVE  p + PAGE_SIZE <= m
<1>0. PAGE_SIZE \in Nat \ {0}
  BY BusAssumption
<1>1. PICK a \in Nat, b \in Nat : p = PAGE_SIZE * a /\ m = PAGE_SIZE * b
  BY DEF Pages
<1>2. a < b
  <2>1. a >= b => PAGE_SIZE * a >= PAGE_SIZE * b
    BY <1>0, <1>1, SMT
  <2> QED
    BY <1>1, <2>1, SMT
<1>3. PAGE_SIZE * (a + 1) <= PAGE_SIZE * b
  BY <1>0, <1>1, <1>2, SMT
<1> QED
  BY <1>0, <1>1, <1>3, SMT

\* new_space gives out whole pages, and enough of them.
LEMMA Rounding ==
  ASSUME NEW p \in Nat, Pages(p), NEW len \in Nat
  PROVE  /\ rounded(len) \in Nat /\ rounded(len) >= len
         /\ Pages(p + rounded(len))
<1> DEFINE n == len + PAGE_SIZE - 1
           q == n \div PAGE_SIZE
<1>0. PAGE_SIZE \in Nat \ {0}
  BY BusAssumption
<1>1. n \in Nat /\ n = len + PAGE_SIZE - 1
  BY <1>0, SMT
<1> HIDE DEF n
<1>2. q \in Nat /\ n < PAGE_SIZE * q + PAGE_SIZE
  BY <1>0, <1>1, SMT
<1>3. rounded(len) = q * PAGE_SIZE
  BY DEF rounded, n
<1> HIDE DEF q
<1>4. q * PAGE_SIZE \in Nat /\ q * PAGE_SIZE >= len
  BY <1>0, <1>1, <1>2, SMT
<1>5. PICK a \in Nat : p = PAGE_SIZE * a
  BY DEF Pages
<1>6. p + q * PAGE_SIZE = PAGE_SIZE * (a + q) /\ a + q \in Nat
  BY <1>0, <1>2, <1>5, SMT
<1>7. Pages(p + rounded(len))
  BY <1>3, <1>6 DEF Pages
<1> QED
  BY <1>3, <1>4, <1>7

-----------------------------------------------------------------------------
\* The code's test for the memory, with its unsigned subtraction, is membership.
LEMMA InPmem ==
  ASSUME NEW addr \in Addr
  PROVE  in_pmem(addr) <=> addr \in Pmem
  BY BusAssumption, SMT DEF in_pmem, u, Addr, Pmem

\* A region shorter than the memory that has neither end in it misses it.
LEMMA EndsSuffice ==
  ASSUME NEW m, GoodMap(m)
  PROVE  (m.low .. m.high) \cap Pmem = {}
<1>1. ASSUME NEW x \in m.low .. m.high, x \in Pmem PROVE FALSE
  BY <1>1, BusAssumption, SMT DEF GoodMap, Addr, Pmem
<1> QED
  BY <1>1

THEOREM BusInvariant == Spec => []IInv
<1>1. Init => IInv
  <2> SUFFICES ASSUME Init PROVE IInv
    OBVIOUS
  <2>1. maps = <<>> /\ p_space = 0
    BY DEF Init
  <2>2. Pages(0)
    BY BusAssumption, SMT DEF Pages
  <2>3. DOMAIN maps = {}
    BY <2>1
  <2>4. maps \in Seq(Region)
    BY <2>1
  <2> QED
    BY <2>1, <2>2, <2>3, <2>4 DEF IInv
<1>2. IInv /\ [Next]_vars => IInv'
  <2> SUFFICES ASSUME IInv, [Next]_vars PROVE IInv'
    OBVIOUS
  <2>1. ASSUME NEW addr \in Addr, NEW len \in 1 .. MaxRegion, addr + len <= AddrSpace,
               init_map(addr, len)
        PROVE  IInv'
    <3> DEFINE new == [low |-> addr, high |-> u(addr + len - 1), space |-> p_space]
    <3>1. p_space' = p_space + rounded(len)
      BY <2>1 DEF init_map
    <3>2. len \in Nat /\ len >= 1
      BY BusAssumption
    <3>3. p_space \in Nat /\ Pages(p_space)
      BY DEF IInv
    <3>4. rounded(len) \in Nat /\ rounded(len) >= len /\ Pages(p_space + rounded(len))
      BY <3>2, <3>3, Rounding
    <3>5. p_space' \in Nat /\ Pages(p_space')
      BY <3>1, <3>3, <3>4
    <3>6. CASE maps' = maps
      BY <3>5, <3>6 DEF IInv
    <3>7. CASE maps' # maps
      <4>1. /\ maps' = Append(maps, new)
            /\ space_fits(p_space')
            /\ ~claims_pmem(new.low, new.high)
            /\ \A i \in DOMAIN maps : ~overlaps(maps[i], new.low, new.high)
        BY <2>1, <3>7 DEF init_map
      <4>2. new.high = addr + len - 1 /\ new.high \in Addr
        BY <2>1, <3>2, BusAssumption, SMT DEF u, Addr
      <4>3. new.low \notin Pmem /\ new.high \notin Pmem
        BY <4>1, <4>2, InPmem DEF claims_pmem
      <4>4. p_space' + PAGE_SIZE <= IO_SPACE_MAX
        <5>1. IO_SPACE_MAX \in Nat /\ PAGE_SIZE \in Nat \ {0}
          BY BusAssumption
        <5>2. IO_SPACE_MAX \div PAGE_SIZE \in Nat
          BY <5>1, SMT
        <5>3. Pages(IO_SPACE_MAX)
          BY <5>2, BusAssumption DEF Pages
        <5>4. p_space' < IO_SPACE_MAX
          BY <4>1 DEF space_fits
        <5> QED
          BY <3>5, <5>1, <5>3, <5>4, PageApart
      <4>5. GoodMap(new)
        <5>1. new.low = addr /\ new.space = p_space
          OBVIOUS
        <5>2. new.low <= new.high /\ new.high - new.low < MaxRegion
          BY <2>1, <3>2, <4>2, <5>1, BusAssumption, SMT DEF Addr
        <5>3. new.space + (new.high - new.low) + PAGE_SIZE < IO_SPACE_MAX
          BY <2>1, <3>1, <3>2, <3>3, <3>4, <4>2, <4>4, <5>1, BusAssumption, SMT DEF Addr
        <5> QED
          BY <2>1, <3>3, <4>2, <4>3, <5>1, <5>2, <5>3 DEF GoodMap
      <4>6. \A i \in DOMAIN maps : Apart(maps[i], new) /\ Apart(new, maps[i])
        <5> SUFFICES ASSUME NEW i \in DOMAIN maps
                     PROVE  Apart(maps[i], new) /\ Apart(new, maps[i])
          OBVIOUS
        <5>1. GoodMap(maps[i]) /\ ~overlaps(maps[i], new.low, new.high)
          BY <4>1 DEF IInv
        <5>2. maps[i].low \in Int /\ maps[i].high \in Int /\ new.low \in Int /\ new.high \in Int
          BY <4>5, <5>1 DEF GoodMap, Addr
        <5> QED
          BY <5>1, <5>2 DEF overlaps, Apart
      <4>7. new \in Region
        BY <4>2, <3>3 DEF Region
      <4>8. maps \in Seq(Region)
        BY DEF IInv
      <4> HIDE DEF new
      <4>9. /\ maps' \in Seq(Region)
            /\ DOMAIN maps' = DOMAIN maps \cup {Len(maps) + 1}
            /\ \A i \in DOMAIN maps : maps'[i] = maps[i]
            /\ maps'[Len(maps) + 1] = new
        <5>1. /\ Append(maps, new) \in Seq(Region)
              /\ Len(Append(maps, new)) = Len(maps) + 1
              /\ \A i \in 1 .. Len(maps) : Append(maps, new)[i] = maps[i]
              /\ Append(maps, new)[Len(maps) + 1] = new
          BY <4>7, <4>8, AppendProperties
        <5>2. DOMAIN maps = 1 .. Len(maps) /\ Len(maps) \in Nat
          BY <4>8
        <5>3. DOMAIN maps' = 1 .. Len(maps) + 1
          BY <4>1, <5>1
        <5>4. 1 .. Len(maps) + 1 = (1 .. Len(maps)) \cup {Len(maps) + 1}
          BY <5>2, SMT
        <5> QED
          BY <4>1, <5>1, <5>2, <5>3, <5>4
      <4>10. \A i \in DOMAIN maps' : GoodMap(maps'[i])
        BY <4>5, <4>9 DEF IInv
      <4>11. \A i \in DOMAIN maps', j \in DOMAIN maps' : i # j => Apart(maps'[i], maps'[j])
        BY <4>6, <4>9 DEF IInv
      <4> QED
        BY <3>5, <4>9, <4>10, <4>11 DEF IInv
    <3> QED
      BY <3>6, <3>7
  <2>2. CASE maps' = maps /\ p_space' = p_space
    BY <2>2 DEF IInv
  <2>3. CASE UNCHANGED vars
    BY <2>2, <2>3 DEF vars
  <2>4. CASE init_done
    BY <2>2, <2>4 DEF init_done
  <2>5. ASSUME NEW addr \in Addr, NEW len \in Lens,
               access_pmem(addr, len) \/ access_map(addr, len) \/ out_of_bound(addr, len)
        PROVE  IInv'
    BY <2>2, <2>5 DEF access_pmem, access_map, out_of_bound
  <2> QED
    BY <2>1, <2>3, <2>4, <2>5 DEF Next
<1> QED
  BY <1>1, <1>2, PTL DEF Spec

\* Every address has one owner at most: the code's comparisons of ends are
\* enough, for every memory map whose regions are shorter than the memory.
THEOREM BusExclusive == Spec => []Exclusive
<1>1. IInv => Exclusive
  <2> SUFFICES ASSUME IInv, NEW i \in DOMAIN maps
               PROVE  /\ Claimed(i) # {}
                      /\ Claimed(i) \cap Pmem = {}
                      /\ \A j \in DOMAIN maps \ {i} : Claimed(i) \cap Claimed(j) = {}
    BY DEF Exclusive
  <2>1. GoodMap(maps[i])
    BY DEF IInv
  <2>2. Claimed(i) # {}
    <3>1. maps[i].low \in Claimed(i)
      BY <2>1, SMT DEF GoodMap, Addr, Claimed
    <3> QED
      BY <3>1
  <2>3. Claimed(i) \cap Pmem = {}
    BY <2>1, EndsSuffice DEF Claimed
  <2>4. ASSUME NEW j \in DOMAIN maps \ {i} PROVE Claimed(i) \cap Claimed(j) = {}
    <3>1. GoodMap(maps[j]) /\ Apart(maps[i], maps[j])
      BY DEF IInv
    <3>2. ASSUME NEW x \in Claimed(i), x \in Claimed(j) PROVE FALSE
      BY <2>1, <3>1, <3>2, SMT DEF GoodMap, Apart, Addr, Claimed
    <3> QED
      BY <3>2
  <2> QED
    BY <2>2, <2>3, <2>4
<1> QED
  BY <1>1, BusInvariant, PTL

-----------------------------------------------------------------------------
\* The map found is one that contains the address.
LEMMA MapFound ==
  ASSUME IInv, NEW addr \in Addr, Hits(addr) # {}
  PROVE  mapid(addr) \in DOMAIN maps /\ map_inside(maps[mapid(addr)], addr)
<1>1. DOMAIN maps \subseteq Nat
  BY DEF IInv
<1>2. PICK k \in Hits(addr) : TRUE
  OBVIOUS
<1>3. ASSUME NEW j \in Hits(addr) PROVE j = k
  <2>1. GoodMap(maps[j]) /\ GoodMap(maps[k]) /\ (j # k => Apart(maps[j], maps[k]))
    BY DEF Hits, IInv
  <2> QED
    BY <2>1, SMT DEF Hits, map_inside, GoodMap, Apart, Addr
<1>4. k \in Nat
  BY <1>1 DEF Hits
<1>5. \A j \in Hits(addr) : k <= j
  BY <1>3, <1>4
<1>6. mapid(addr) \in Hits(addr)
  BY <1>2, <1>5 DEF mapid
<1> QED
  BY <1>6 DEF Hits

\* While devices are being added the guest has not run; after that, what the last
\* access touched stays what it was.
LastInv ==
  /\ phase = "init" => last = NoAccess
  /\ ServedByOwner
  /\ InIoSpace

THEOREM BusAccesses == Spec => []LastInv
<1>1. Init => LastInv
  BY DEF Init, LastInv, ServedByOwner, InIoSpace, NoAccess
<1>2. IInv /\ LastInv /\ [Next]_vars => LastInv'
  <2> SUFFICES ASSUME IInv, LastInv, [Next]_vars PROVE LastInv'
    OBVIOUS
  <2>1. CASE phase = "init" /\ last' = last
    <3>1. last' = NoAccess
      BY <2>1 DEF LastInv
    <3> QED
      BY <3>1 DEF LastInv, ServedByOwner, InIoSpace, NoAccess
  <2>2. CASE UNCHANGED vars
    BY <2>2 DEF vars, LastInv, ServedByOwner, InIoSpace, Claimed, Touched
  <2>3. ASSUME NEW addr \in Addr, NEW len \in Lens, access_pmem(addr, len)
        PROVE  LastInv'
    <3>1. /\ last' = [addr |-> addr, len |-> len, target |-> "pmem", first |-> addr - MBASE]
          /\ phase' # "init"
      BY <2>3 DEF access_pmem, Access
    <3>2. addr \in Pmem
      BY <2>3, InPmem DEF access_pmem
    <3> QED
      BY <3>1, <3>2 DEF LastInv, ServedByOwner, InIoSpace
  <2>4. ASSUME NEW addr \in Addr, NEW len \in Lens, access_map(addr, len)
        PROVE  LastInv'
    <3>0. PICK i : i = mapid(addr)
      OBVIOUS
    <3> DEFINE first == maps[i].space + (addr - maps[i].low)
    <3>1. /\ last' = [addr |-> addr, len |-> len, target |-> "io", first |-> first]
          /\ phase' # "init" /\ maps' = maps
      BY <2>4, <3>0 DEF access_map, Access
    <3>2. i \in DOMAIN maps /\ map_inside(maps[i], addr) /\ GoodMap(maps[i])
      <4>1. i \in DOMAIN maps /\ map_inside(maps[i], addr)
        BY <2>4, <3>0, MapFound DEF access_map
      <4> QED
        BY <4>1 DEF IInv
    <3>3. addr \in Claimed(i) /\ first = maps[i].space + addr - maps[i].low
      BY <3>2, SMT DEF map_inside, Claimed, GoodMap, Addr
    <3>4. first \in Nat /\ first + len <= IO_SPACE_MAX
      BY <3>2, BusAssumption, SMT DEF map_inside, GoodMap, Addr
    <3> HIDE DEF first
    <3>5. ServedByOwner'
      <4>1. addr \in Claimed(i)'
        BY <3>1, <3>3 DEF Claimed
      <4> QED
        BY <3>1, <3>2, <3>3, <4>1 DEF ServedByOwner
    <3>6. InIoSpace'
      <4>1. first .. first + len - 1 \subseteq 0 .. IO_SPACE_MAX - 1
        BY <3>4, BusAssumption, SMT
      <4> QED
        BY <3>1, <4>1 DEF InIoSpace, Touched
    <3> QED
      BY <3>1, <3>5, <3>6 DEF LastInv
  <2>5. ASSUME NEW addr \in Addr, NEW len \in Lens, out_of_bound(addr, len)
        PROVE  LastInv'
    <3>1. /\ last' = [addr |-> addr, len |-> len, target |-> "panic", first |-> 0]
          /\ phase' # "init" /\ maps' = maps
      BY <2>5 DEF out_of_bound, Access
    <3>2. addr \notin Pmem
      BY <2>5, InPmem DEF out_of_bound
    <3>3. \A i \in DOMAIN maps : addr \notin Claimed(i)
      <4> SUFFICES ASSUME NEW i \in DOMAIN maps, addr \in Claimed(i) PROVE FALSE
        OBVIOUS
      <4>1. GoodMap(maps[i])
        BY DEF IInv
      <4>2. map_inside(maps[i], addr)
        BY <4>1, SMT DEF GoodMap, Claimed, map_inside, Addr
      <4> QED
        BY <2>5, <4>2 DEF out_of_bound, Hits
    <3>4. \A i \in DOMAIN maps' : addr \notin Claimed(i)'
      BY <3>1, <3>3 DEF Claimed
    <3> QED
      BY <3>1, <3>2, <3>4 DEF LastInv, ServedByOwner, InIoSpace
  <2>6. ASSUME NEW addr \in Addr, NEW len \in 1 .. MaxRegion, init_map(addr, len)
        PROVE  phase = "init" /\ last' = last
    BY <2>6 DEF init_map
  <2>7. CASE init_done
    BY <2>1, <2>7 DEF init_done
  <2> QED
    BY <2>1, <2>2, <2>3, <2>4, <2>5, <2>6, <2>7 DEF Next
<1> QED
  BY <1>1, <1>2, BusInvariant, PTL DEF Spec

\* Every access is served by the owner of its address.
THEOREM BusServedByOwner == Spec => []ServedByOwner
<1>1. LastInv => ServedByOwner
  BY DEF LastInv
<1> QED
  BY <1>1, BusAccesses, PTL

\* No device access leaves the block of host memory, whatever its length: the
\* strict bound of new_space leaves a page for the access that runs over.
THEOREM BusInIoSpace == Spec => []InIoSpace
<1>1. LastInv => InIoSpace
  BY DEF LastInv
<1> QED
  BY <1>1, BusAccesses, PTL

-----------------------------------------------------------------------------
(***************************************************************************)
(* The devices' parts of the block are apart as well.                      *)
(***************************************************************************)

Behind(m, n) == m.space + (m.high - m.low) < n.space

SpaceInv ==
  /\ Len(maps) <= NR_MAP
  /\ phase \in {"init", "run", "panic"}
  /\ last \in [addr : Addr, len : Lens \cup {0}, target : {"none", "pmem", "io", "panic"},
               first : Nat]
  /\ last.target = "io" => last.len \in Lens
  /\ \A i \in DOMAIN maps : maps[i].space + (maps[i].high - maps[i].low) < p_space
  /\ \A i \in DOMAIN maps, j \in DOMAIN maps :
       i # j => Behind(maps[i], maps[j]) \/ Behind(maps[j], maps[i])

\* Two aligned numbers are apart by the alignment at least.
LEMMA AlignedApart ==
  ASSUME NEW a \in Nat, NEW b \in Nat, NEW n \in Nat \ {0}, a % n = 0, b % n = 0, a < b
  PROVE  a + n <= b
<1>1. PICK p \in Nat, q \in Nat : a = n * p /\ b = n * q
  <2>1. a \div n \in Nat /\ a = n * (a \div n)
    BY SMT
  <2>2. b \div n \in Nat /\ b = n * (b \div n)
    BY SMT
  <2> QED
    BY <2>1, <2>2
<1>2. p < q
  <2>1. p >= q => n * p >= n * q
    BY <1>1, SMT
  <2> QED
    BY <1>1, <2>1, SMT
<1>3. n * (p + 1) <= n * q
  BY <1>1, <1>2, SMT
<1> QED
  BY <1>1, <1>3, SMT

\* A new device's registers come after those of all others.
LEMMA NewSpaceIsApart ==
  ASSUME IInv, SpaceInv, NEW addr \in Addr, NEW len \in 1 .. MaxRegion,
         addr + len <= AddrSpace, init_map(addr, len)
  PROVE  SpaceInv'
<1> DEFINE new == [low |-> addr, high |-> u(addr + len - 1), space |-> p_space]
<1>1. /\ p_space' = p_space + rounded(len) /\ last' = last
      /\ \/ maps' = maps /\ phase' = "panic"
         \/ maps' = Append(maps, new) /\ phase' = phase /\ Len(maps) < NR_MAP
  BY DEF init_map
<1>2. len \in Nat /\ len >= 1 /\ p_space \in Nat /\ Pages(p_space) /\ NR_MAP \in Nat
  BY BusAssumption DEF IInv
<1>3. rounded(len) \in Nat /\ rounded(len) >= len
  BY <1>2, Rounding
<1>4. \A i \in DOMAIN maps : /\ maps[i].space \in Nat /\ maps[i].high \in Int /\ maps[i].low \in Int
                             /\ maps[i].space + (maps[i].high - maps[i].low) < p_space
  BY DEF IInv, SpaceInv, GoodMap, Addr
<1>5. \A i \in DOMAIN maps : maps[i].space + (maps[i].high - maps[i].low) < p_space'
  BY <1>1, <1>2, <1>3, <1>4
<1>6. CASE maps' = maps /\ phase' = "panic"
  BY <1>1, <1>5, <1>6 DEF SpaceInv
<1>7. CASE maps' = Append(maps, new) /\ phase' = phase /\ Len(maps) < NR_MAP
  <2>1. new.high = addr + len - 1 /\ new.low = addr /\ new.space = p_space
    BY <1>2, BusAssumption, SMT DEF u, Addr
  <2>2. new.space + (new.high - new.low) < p_space'
    BY <1>1, <1>2, <1>3, <2>1 DEF Addr
  <2>3. \A i \in DOMAIN maps : Behind(maps[i], new)
    BY <1>4, <2>1 DEF Behind
  <2>4. maps \in Seq(Region) /\ new \in Region
    BY <1>2, <2>1, BusAssumption DEF IInv, Region, Addr
  <2> HIDE DEF new
  <2>5. /\ Len(Append(maps, new)) = Len(maps) + 1 /\ Len(maps) \in Nat
        /\ \A i \in 1 .. Len(maps) : Append(maps, new)[i] = maps[i]
        /\ Append(maps, new)[Len(maps) + 1] = new
        /\ DOMAIN maps = 1 .. Len(maps) /\ DOMAIN Append(maps, new) = 1 .. Len(maps) + 1
    BY <2>4, AppendProperties, LenProperties
  <2>6. \A i \in DOMAIN maps' : \/ i \in DOMAIN maps /\ maps'[i] = maps[i]
                                \/ i = Len(maps) + 1 /\ maps'[i] = new
    <3> SUFFICES ASSUME NEW i \in DOMAIN maps'
                 PROVE  \/ i \in DOMAIN maps /\ maps'[i] = maps[i]
                        \/ i = Len(maps) + 1 /\ maps'[i] = new
      OBVIOUS
    <3>1. i \in 1 .. Len(maps) + 1
      BY <1>7, <2>5
    <3>2. CASE i \in 1 .. Len(maps)
      BY <1>7, <2>5, <3>2
    <3>3. CASE i = Len(maps) + 1
      BY <1>7, <2>5, <3>3
    <3> QED
      BY <2>5, <3>1, <3>2, <3>3
  <2>7. \A i \in DOMAIN maps' : maps'[i].space + (maps'[i].high - maps'[i].low) < p_space'
    BY <1>5, <2>2, <2>6
  <2>8. \A i \in DOMAIN maps', j \in DOMAIN maps' :
          i # j => Behind(maps'[i], maps'[j]) \/ Behind(maps'[j], maps'[i])
    BY <2>3, <2>6 DEF SpaceInv
  <2>9. Len(maps') <= NR_MAP
    BY <1>2, <1>7, <2>5
  <2> QED
    BY <1>1, <1>7, <2>7, <2>8, <2>9 DEF SpaceInv
<1> QED
  BY <1>1, <1>6, <1>7

THEOREM BusSpaces == Spec => []SpaceInv
<1>1. Init => SpaceInv
  <2> SUFFICES ASSUME Init PROVE SpaceInv
    OBVIOUS
  <2>1. maps = <<>> /\ DOMAIN maps = {} /\ Len(maps) = 0
    BY DEF Init
  <2>2. last \in [addr : Addr, len : Lens \cup {0}, target : {"none", "pmem", "io", "panic"},
                  first : Nat] /\ last.target # "io"
    BY BusAssumption DEF Init, NoAccess, Addr
  <2> QED
    BY <2>1, <2>2, BusAssumption DEF Init, SpaceInv
<1>2. IInv /\ LastInv /\ LastInv' /\ SpaceInv /\ [Next]_vars => SpaceInv'
  <2> SUFFICES ASSUME IInv, SpaceInv, LastInv, LastInv', [Next]_vars PROVE SpaceInv'
    OBVIOUS
  <2>1. ASSUME NEW addr \in Addr, NEW len \in 1 .. MaxRegion, addr + len <= AddrSpace,
               init_map(addr, len)
        PROVE  SpaceInv'
    BY <2>1, NewSpaceIsApart
  <2>2. CASE UNCHANGED vars \/ init_done
    BY <2>2 DEF vars, init_done, SpaceInv
  <2>3. ASSUME NEW addr \in Addr, NEW len \in Lens, NEW t \in {"pmem", "io", "panic"},
               NEW first \in Nat, Access(addr, len, t, first), UNCHANGED <<maps, p_space>>,
               phase' \in {"run", "panic"}
        PROVE  SpaceInv'
    <3>1. last' \in [addr : Addr, len : Lens \cup {0}, target : {"none", "pmem", "io", "panic"},
                     first : Nat] /\ last'.len \in Lens
      BY <2>3 DEF Access
    <3> QED
      BY <2>3, <3>1 DEF SpaceInv
  <2>4. ASSUME NEW addr \in Addr, NEW len \in Lens, access_pmem(addr, len) PROVE SpaceInv'
    <3>1. addr - MBASE \in Nat
      BY <2>4, InPmem, BusAssumption DEF access_pmem, Pmem
    <3> QED
      BY <2>3, <2>4, <3>1 DEF access_pmem
  <2>5. ASSUME NEW addr \in Addr, NEW len \in Lens, access_map(addr, len) PROVE SpaceInv'
    <3>1. PICK i : i = mapid(addr)
      OBVIOUS
    <3>2. i \in DOMAIN maps /\ map_inside(maps[i], addr)
      BY <2>5, <3>1, MapFound DEF access_map
    <3>5. GoodMap(maps[i])
      BY <3>2 DEF IInv
    <3>6. maps[i].space \in Nat /\ maps[i].low \in Nat /\ addr \in Nat /\ addr >= maps[i].low
      BY <3>2, <3>5 DEF GoodMap, map_inside, Addr
    <3>3. maps[i].space + (addr - maps[i].low) \in Nat
      BY <3>6
    <3>4. Access(addr, len, "io", maps[i].space + (addr - maps[i].low))
      BY <2>5, <3>1 DEF access_map
    <3> QED
      BY <2>3, <2>5, <3>3, <3>4 DEF access_map
  <2>6. ASSUME NEW addr \in Addr, NEW len \in Lens, out_of_bound(addr, len) PROVE SpaceInv'
    BY <2>3, <2>6 DEF out_of_bound
  <2> QED
    BY <2>1, <2>2, <2>4, <2>5, <2>6 DEF Next
<1> QED
  BY <1>1, <1>2, BusInvariant, BusAccesses, PTL DEF Spec

\* An aligned access of a device whose region is aligned touches no byte of another
\* device: the accesses are served by the owner, whose bytes nobody else has.
THEOREM BusOwnSpace == Spec => []OwnSpace
<1>1. IInv /\ LastInv /\ SpaceInv => OwnSpace
  <2> SUFFICES ASSUME IInv, LastInv, SpaceInv PROVE OwnSpace
    OBVIOUS
  <2>1. TypeOK
    BY DEF IInv, SpaceInv, TypeOK
  <2>2. ASSUME NEW i \in DOMAIN maps, NEW j \in DOMAIN maps, last.target = "io",
               last.addr \in Claimed(i), i # j,
               \A x \in {last.addr, maps[i].low, maps[i].high + 1} : x % last.len = 0
        PROVE  Touched \cap Space(j) = {}
    <3>1. PICK k \in DOMAIN maps : /\ last.addr \in Claimed(k)
                                   /\ last.first = maps[k].space + last.addr - maps[k].low
      BY <2>2 DEF LastInv, ServedByOwner
    <3>2. GoodMap(maps[i]) /\ GoodMap(maps[j]) /\ GoodMap(maps[k])
      BY DEF IInv
    <3>3. k = i
      <4>1. k # i => Apart(maps[k], maps[i])
        BY DEF IInv
      <4> QED
        BY <2>2, <3>1, <3>2, <4>1 DEF Apart, Claimed, GoodMap, Addr
    <3>4. last.len \in Nat \ {0} /\ last.addr \in Nat /\ last.first \in Nat
      <4>1. last.len \in Lens /\ last.addr \in Addr /\ last.first \in Nat
        BY <2>2 DEF SpaceInv
      <4>2. Lens \subseteq 1 .. PAGE_SIZE /\ PAGE_SIZE \in Nat
        BY BusAssumption
      <4>3. last.len \in 1 .. PAGE_SIZE
        BY <4>1, <4>2
      <4> QED
        BY <4>1, <4>2, <4>3 DEF Addr
    <3>5. /\ maps[i].low \in Nat /\ maps[i].high \in Nat /\ maps[i].space \in Nat
          /\ maps[j].low \in Nat /\ maps[j].high \in Nat /\ maps[j].space \in Nat
          /\ maps[i].low <= last.addr /\ last.addr <= maps[i].high
      BY <2>2, <3>2 DEF GoodMap, Addr, Claimed
    <3>6. last.addr + last.len <= maps[i].high + 1
      <4>1. last.addr < maps[i].high + 1 /\ maps[i].high + 1 \in Nat
        BY <3>4, <3>5
      <4> QED
        BY <2>2, <3>4, <3>5, <4>1, AlignedApart
    <3>7. Behind(maps[i], maps[j]) \/ Behind(maps[j], maps[i])
      BY <2>2 DEF SpaceInv
    <3>8. ASSUME NEW x \in Touched, x \in Space(j) PROVE FALSE
      BY <3>1, <3>3, <3>4, <3>5, <3>6, <3>7, <3>8 DEF Touched, Space, Behind
    <3> QED
      BY <3>8
  <2> QED
    BY <2>1, <2>2 DEF OwnSpace
<1> QED
  BY <1>1, BusInvariant, BusAccesses, BusSpaces, PTL
=============================================================================
