-------------------------------- MODULE Bus --------------------------------
(***************************************************************************)
(* The physical address space of the guest: nemu/src/memory/paddr.c and    *)
(* nemu/src/device/io/{map,mmio}.c.  At start every device takes its       *)
(* registers from a common block of host memory (new_space) and claims a   *)
(* region of addresses (add_mmio_map); then the guest's loads and stores   *)
(* are served by the physical memory or by the device that claims them.    *)
(*                                                                         *)
(* Addresses are unsigned and wrap at AddrSpace (2^32).  What is loaded or *)
(* stored is not modelled, only where: the bytes of host memory touched.   *)
(***************************************************************************)
EXTENDS Integers, Sequences

CONSTANTS
  AddrSpace,        \* number of addresses
  MBASE, MSIZE,     \* CONFIG_MBASE, CONFIG_MSIZE
  PAGE_SIZE,
  IO_SPACE_MAX,     \* bytes of the block devices take their registers from
  NR_MAP,           \* most devices
  MaxRegion,        \* longest region a device claims
  Lens              \* lengths of a load or a store

ASSUME BusAssumption ==
  /\ AddrSpace \in Nat \ {0}
  /\ MBASE \in Nat /\ MSIZE \in Nat \ {0} /\ MBASE + MSIZE <= AddrSpace
  /\ PAGE_SIZE \in Nat \ {0}
  /\ IO_SPACE_MAX \in Nat \ {0} /\ IO_SPACE_MAX = PAGE_SIZE * (IO_SPACE_MAX \div PAGE_SIZE)
  /\ NR_MAP \in Nat
  /\ MaxRegion \in 1 .. MSIZE            \* pixels, 2 MB at most; the memory has 128 MB
  /\ Lens \subseteq 1 .. PAGE_SIZE       \* at most 8 bytes

VARIABLES
  maps,             \* maps[0] .. maps[nr_map - 1]: [low, high, space]
  p_space,          \* host memory given out so far
  phase,            \* "init", "run", or "panic"
  last              \* history: the last access, [addr, len, target, first]

vars == <<maps, p_space, phase, last>>

Addr == 0 .. AddrSpace - 1

\* Unsigned arithmetic on addresses: the result of one addition or subtraction.
u(x) == IF x < 0 THEN x + AddrSpace ELSE IF x >= AddrSpace THEN x - AddrSpace ELSE x

in_pmem(addr) == u(addr - MBASE) < MSIZE

\* Mutant of map_inside: the last byte is left out.
map_inside_short(map, addr) == addr >= map.low /\ addr < map.high

map_inside(map, addr) == addr >= map.low /\ addr <= map.high

\* find_mapid_by_addr: the maps that contain addr are tried in order.
Hits(addr) == {i \in DOMAIN maps : map_inside(maps[i], addr)}
mapid(addr) == CHOOSE i \in Hits(addr) : \A j \in Hits(addr) : i <= j

\* Mutant of rounded: down to whole pages.
rounded_down(size) == (size \div PAGE_SIZE) * PAGE_SIZE

\* size = (size + (PAGE_SIZE - 1)) & ~PAGE_MASK
rounded(size) == ((size + PAGE_SIZE - 1) \div PAGE_SIZE) * PAGE_SIZE

\* Mutant of space_fits: the block may be given out entirely.
space_fits_exactly(p) == p <= IO_SPACE_MAX

\* assert(p_space - io_space < IO_SPACE_MAX)
space_fits(p) == p < IO_SPACE_MAX

\* Mutant of overlaps: only the ends of the new region are looked at.
overlaps_ends(map, left, right) == map_inside(map, left) \/ map_inside(map, right)

overlaps(map, left, right) == left <= map.high /\ right >= map.low

\* Overlap with the physical memory is looked for at the region's ends.
claims_pmem(left, right) == in_pmem(left) \/ in_pmem(right)

-----------------------------------------------------------------------------
NoAccess == [addr |-> 0, len |-> 0, target |-> "none", first |-> 0]

Init ==
  /\ maps = <<>>
  /\ p_space = 0
  /\ phase = "init"
  /\ last = NoAccess

\* A device's init function: new_space, then add_mmio_map.
init_map(addr, len) ==
  /\ phase = "init"
  /\ p_space' = p_space + rounded(len)
  /\ LET left == addr
         right == u(addr + len - 1)
     IN  IF /\ space_fits(p_space')
            /\ Len(maps) < NR_MAP
            /\ ~claims_pmem(left, right)
            /\ \A i \in DOMAIN maps : ~overlaps(maps[i], left, right)
         THEN /\ maps' = Append(maps, [low |-> left, high |-> right, space |-> p_space])
              /\ UNCHANGED phase
         ELSE /\ phase' = "panic"
              /\ UNCHANGED maps
  /\ UNCHANGED last

init_done ==
  /\ phase = "init"
  /\ phase' = "run"
  /\ UNCHANGED <<maps, p_space, last>>

Access(addr, len, target, first) ==
  last' = [addr |-> addr, len |-> len, target |-> target, first |-> first]

\* paddr_read and paddr_write: the three ways to serve an access.
access_pmem(addr, len) ==
  /\ phase = "run" /\ in_pmem(addr)
  /\ Access(addr, len, "pmem", addr - MBASE)
  /\ UNCHANGED <<maps, p_space, phase>>

access_map(addr, len) ==
  /\ phase = "run" /\ ~in_pmem(addr) /\ Hits(addr) # {}
  /\ LET map == maps[mapid(addr)] IN Access(addr, len, "io", map.space + (addr - map.low))
  /\ UNCHANGED <<maps, p_space, phase>>

\* check_bound's assertion.
out_of_bound(addr, len) ==
  /\ phase = "run" /\ ~in_pmem(addr) /\ Hits(addr) = {}
  /\ Access(addr, len, "panic", 0)
  /\ phase' = "panic"
  /\ UNCHANGED <<maps, p_space>>

\* The regions are set in Kconfig: anywhere, as long as they do not wrap.
Next ==
  \/ \E addr \in Addr, len \in 1 .. MaxRegion : addr + len <= AddrSpace /\ init_map(addr, len)
  \/ init_done
  \/ \E addr \in Addr, len \in Lens :
       access_pmem(addr, len) \/ access_map(addr, len) \/ out_of_bound(addr, len)

Spec == Init /\ [][Next]_vars

-----------------------------------------------------------------------------
(* Properties                                                              *)

Region == [low : Addr, high : Addr, space : Nat]

TypeOK ==
  /\ maps \in Seq(Region) /\ Len(maps) <= NR_MAP
  /\ p_space \in Nat
  /\ phase \in {"init", "run", "panic"}
  /\ last \in [addr : Addr, len : Lens \cup {0}, target : {"none", "pmem", "io", "panic"},
               first : Nat]

Pmem == MBASE .. MBASE + MSIZE - 1
Claimed(i) == maps[i].low .. maps[i].high

\* Every address belongs to the memory or to one device at most, although the
\* code compares only the ends of regions.  Regions that wrap are not among them: such
\* a region would have its high end below its low one, and no address.
Exclusive ==
  \A i \in DOMAIN maps :
    /\ Claimed(i) # {}
    /\ Claimed(i) \cap Pmem = {}
    /\ \A j \in DOMAIN maps \ {i} : Claimed(i) \cap Claimed(j) = {}

\* An access is served by the one who owns its address, at the byte that address
\* stands for, and ends the emulator exactly when nobody owns it.
ServedByOwner ==
  CASE last.target = "pmem"  -> last.addr \in Pmem /\ last.first = last.addr - MBASE
    [] last.target = "io"    -> \E i \in DOMAIN maps :
                                  /\ last.addr \in Claimed(i)
                                  /\ last.first = maps[i].space + last.addr - maps[i].low
    [] last.target = "panic" -> last.addr \notin Pmem /\ \A i \in DOMAIN maps : last.addr \notin Claimed(i)
    [] OTHER                 -> TRUE

Touched == last.first .. last.first + last.len - 1

\* The host bytes given to device i.
Space(i) == maps[i].space .. maps[i].space + maps[i].high - maps[i].low

\* No access of a device, not even one that runs over the end of its region,
\* leaves the block the devices' registers are taken from.
InIoSpace == last.target = "io" => Touched \subseteq 0 .. IO_SPACE_MAX - 1

\* A naturally aligned access of one device touches no byte of another, provided
\* that the device's region is aligned as well.
OwnSpace ==
  /\ TypeOK
  /\ \A i \in DOMAIN maps, j \in DOMAIN maps :
       /\ last.target = "io" /\ last.addr \in Claimed(i) /\ i # j
       /\ \A x \in {last.addr, maps[i].low, maps[i].high + 1} : x % last.len = 0
       => Touched \cap Space(j) = {}
=============================================================================
