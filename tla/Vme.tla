-------------------------------- MODULE Vme --------------------------------
(***************************************************************************)
(* Address spaces on the native port of the Abstract Machine, am/src/      *)
(* native/vme.c.  An address space is a list of pages, found by a hash     *)
(* table; a processor is a process, and the pages of the space it runs are *)
(* mapped in that process with mmap.  Returning from an interrupt to a     *)
(* context of another space walks both lists (__am_switch).  Lists are in  *)
(* memory all processors share; what is mapped is each process's own.      *)
(*                                                                         *)
(* A page is named by its address, since the hash table keeps one node for *)
(* an address.  A frame stands for pa and prot.                            *)
(***************************************************************************)
CONSTANTS
  Cpu,              \* processors
  Boot,             \* the processor whose heap holds the hash tables
  Space,            \* address spaces, protected
  Va, Frame,        \* pages of the user area, and what is mapped there
  Remaps,           \* the kernel also maps pages that are mapped already
  Nil               \* NULL

ASSUME VmeAssumption ==
  /\ Boot \in Cpu
  /\ Remaps \in BOOLEAN
  /\ Nil \notin Space \cup Va \cup Frame

VARIABLES
  at,               \* where a processor is: "run", or in a loop of __am_switch
  pp,               \* the cursor of that loop
  to,               \* the vm_head of the context that is switched to
  vm_head,          \* thiscpu->vm_head
  head,             \* the first node of a space's list
  node,             \* the nodes of a space, by their address
  mapped            \* what is mapped in the process of a processor

vmeVars == <<at, pp, to, vm_head, head, node, mapped>>

Node == [pa : Frame, next : Va \cup {Nil}, is_mapped : BOOLEAN]

VmeInit ==
  /\ at = [c \in Cpu |-> "run"]
  /\ pp = [c \in Cpu |-> Nil]
  /\ to = [c \in Cpu |-> Nil]
  /\ vm_head = [c \in Cpu |-> Nil]
  /\ head = [a \in Space |-> Nil]
  /\ node = [a \in Space |-> <<>>]
  /\ mapped = [c \in Cpu |-> [va \in Va |-> Nil]]

HeadOf(a) == IF a = Nil THEN Nil ELSE head[a]

\* mmap and munmap of one page by processor c.
pmem_map(c, va, pa) == mapped' = [mapped EXCEPT ![c][va] = pa]
pmem_unmap(c, va) == mapped' = [mapped EXCEPT ![c][va] = Nil]

SetNode(a, va, nd) ==
  node' = [node EXCEPT ![a] = [v \in DOMAIN @ \cup {va} |-> IF v = va THEN nd ELSE @[v]]]

\* The map takes effect at once in the space the processor runs.
enforced(c, a) == vm_head[c] = a

\* map(): the node of the address, found or new, becomes the first of the list.
map(c, a, va, pa) ==
  /\ at[c] = "run" /\ c = Boot
  /\ va \in DOMAIN node[a] => Remaps
  /\ SetNode(a, va, [pa |-> pa, next |-> head[a], is_mapped |-> enforced(c, a)])
  /\ head' = [head EXCEPT ![a] = va]
  /\ IF enforced(c, a) THEN pmem_map(c, va, pa) ELSE UNCHANGED mapped
  /\ UNCHANGED <<at, pp, to, vm_head>>

\* The start of __am_switch; to the space it runs already there is nothing to do.
switch(c, a) ==
  /\ at[c] = "run" /\ a # vm_head[c]
  /\ at' = [at EXCEPT ![c] = "unmap"]
  /\ to' = [to EXCEPT ![c] = a]
  /\ pp' = [pp EXCEPT ![c] = HeadOf(vm_head[c])]
  /\ UNCHANGED <<vm_head, head, node, mapped>>

unmaps(nd) == nd.is_mapped

\* Mutant of advance: the list is left after its first node.
advance_stops(a, va) == Nil

\* pp = p->next
advance(a, va) == node[a][va].next

\* One turn of the loop over the old space's list.
unmap_page(c) ==
  LET a == vm_head[c]  va == pp[c] IN
  /\ at[c] = "unmap" /\ va # Nil
  /\ IF unmaps(node[a][va])
       THEN pmem_unmap(c, va) /\ node' = [node EXCEPT ![a][va].is_mapped = FALSE]
       ELSE UNCHANGED <<mapped, node>>
  /\ pp' = [pp EXCEPT ![c] = advance(a, va)]
  /\ UNCHANGED <<at, to, vm_head, head>>

unmap_done(c) ==
  /\ at[c] = "unmap" /\ pp[c] = Nil
  /\ at' = [at EXCEPT ![c] = "map"]
  /\ pp' = [pp EXCEPT ![c] = HeadOf(to[c])]
  /\ UNCHANGED <<to, vm_head, head, node, mapped>>

\* Mutant of flagged: the pages a switch maps are not marked.
flagged_not(nd) == nd

\* pp->is_mapped = true
flagged(nd) == [nd EXCEPT !.is_mapped = TRUE]

\* One turn of the loop over the new space's list.
map_page(c) ==
  LET a == to[c]  va == pp[c] IN
  /\ at[c] = "map" /\ va # Nil
  /\ pmem_map(c, va, node[a][va].pa)
  /\ node' = [node EXCEPT ![a][va] = flagged(@)]
  /\ pp' = [pp EXCEPT ![c] = advance(a, va)]
  /\ UNCHANGED <<at, to, vm_head, head>>

loop_left(c) == pp[c] = Nil

switch_end(c) ==
  /\ at[c] = "map" /\ loop_left(c)
  /\ vm_head' = [vm_head EXCEPT ![c] = to[c]]
  /\ at' = [at EXCEPT ![c] = "run"]
  /\ UNCHANGED <<pp, to, head, node, mapped>>

Switching(c) == unmap_page(c) \/ unmap_done(c) \/ map_page(c) \/ switch_end(c)

VmeNext ==
  \E c \in Cpu :
    \/ \E a \in Space, va \in Va, pa \in Frame : map(c, a, va, pa)
    \/ \E a \in Space \cup {Nil} : switch(c, a)
    \/ Switching(c)

\* __am_switch runs with signals blocked, to its end.
VmeSpec == VmeInit /\ [][VmeNext]_vmeVars /\ \A c \in Cpu : WF_vmeVars(Switching(c))

-----------------------------------------------------------------------------
(* Properties                                                              *)

\* The type invariant; outside __am_switch no list is being walked.
VmeTypeOK ==
  /\ \A c \in Cpu : at[c] = "run" => pp[c] = Nil
  /\ at \in [Cpu -> {"run", "unmap", "map"}]
  /\ pp \in [Cpu -> Va \cup {Nil}]
  /\ to \in [Cpu -> Space \cup {Nil}]
  /\ vm_head \in [Cpu -> Space \cup {Nil}]
  /\ head \in [Space -> Va \cup {Nil}]
  /\ \A a \in Space : DOMAIN node[a] \subseteq Va /\ node[a] \in [DOMAIN node[a] -> Node]
  /\ mapped \in [Cpu -> [Va -> Frame \cup {Nil}]]

\* What the program of space a should see at va: what was mapped there last.
Contents(a, va) == IF a # Nil /\ va \in DOMAIN node[a] THEN node[a][va].pa ELSE Nil

\* A processor sees the pages of the space it runs, all of them and no other's, in
\* whatever order pages are mapped, in the running space or another, and spaces are
\* switched: no page of a space that ran before is left, though unmapping goes by the
\* flag and not by what is mapped.  It holds of one processor that maps each page of a
\* space once; with more, or with Remaps, the flags go wrong.
SeesOwnSpace ==
  /\ VmeTypeOK
  /\ \A c \in Cpu : at[c] = "run" => \A va \in Va : mapped[c][va] = Contents(vm_head[c], va)

\* vme.c: the second loop maps "all mappings" of the new space, and then the
\* context is resumed.  With Remaps a list may be cyclic, and the loop has no end.
MapsAll ==
  \A c \in Cpu : at[c] = "map" ~>
    at[c] = "run" /\ \A va \in Va : mapped[c][va] = Contents(vm_head[c], va)
=============================================================================
