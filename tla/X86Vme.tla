-------------------------------- MODULE X86Vme --------------------------------
(* Page tables of the Abstract Machine on x86 (am/src/x86/qemu/vme.c, the      *)
(* 32-bit build, which builds the kernel's tables itself): allocation of       *)
(* tables on demand, sharing of the kernel's, and their return on unprotect.   *)
(* A step of the walk, or of the teardown, is a step of the model, so that the *)
(* MMU of any processor may look at the tables between any two.                *)
EXTENDS Integers, Sequences, FiniteSets

CONSTANTS Space,          \* the kernel's AddrSpace objects
          Page,           \* pages of the kernel's allocator
          Frame,          \* physical pages that kernels map for users
          PtLevels,       \* mmu.ptlevels
          Index,          \* indices into a table (levels from 1 on)
          KernelTop,      \* level-1 indices of the kernel's areas
          UserPage        \* user addresses that are mapped: one index per level

KernelAs == "vme_init's as"

ASSUME X86VmeAssumption ==
  /\ PtLevels \in Nat \ {0, 1}
  /\ Index \subseteq Nat /\ Index # {}
  /\ KernelTop \subseteq Index
  /\ UserPage \subseteq [1..PtLevels -> Index]
  /\ \A v \in UserPage : v[1] \notin KernelTop
  /\ Frame \cap Page = {} /\ "unmapped" \notin Frame /\ KernelAs \notin Space

VARIABLES
  free,      \* pages the allocator has
  tab,       \* contents of the pages, allocated or not
  ptr,       \* as->ptr of each space, and of vme_init's own
  live,      \* history: spaces between protect and unprotect
  op,        \* the running call
  stack,     \* frames of teardown
  panicked

vars == <<free, tab, ptr, live, op, stack, panicked>>

KernelPage == {v \in [1..PtLevels -> Index] : v[1] \in KernelTop}
Zero == [p |-> FALSE]
Entry(to, user) == [p |-> TRUE, u |-> user, to |-> to]
Idle == [name |-> "idle"]

\* The kernel's pages are mapped to themselves.
Target == Page \cup Frame \cup KernelPage
Entries == {Zero} \cup {Entry(to, u) : to \in Target, u \in BOOLEAN}

\* An operation walks for address va: it stands before level i of the tables, at
\* page cur.
Walk(name, s, va, f) == [name |-> name, as |-> s, va |-> va, f |-> f, i |-> 0, cur |-> s]

Init ==
  /\ free = Page
  /\ tab \in {[p \in Page |-> [x \in Index |-> Zero]]}
  /\ ptr = [s \in Space \cup {KernelAs} |-> Zero]
  /\ live = {}
  /\ op = [name |-> "init", left |-> KernelPage]
  /\ stack = <<>>
  /\ panicked = FALSE

\* pt[index] at level i
slot(i, cur, va) == IF i = 0 THEN ptr[cur] ELSE tab[cur][va[i]]
kpt == ptr[KernelAs].to

\* pgalloc: which of the free pages is returned makes no difference but in its name.
pgalloc == CHOOSE page \in free : TRUE

\* Mutant of zeroed: the page is used as it comes.
zeroed_not == [x \in Index |-> tab[pgalloc][x]]

\* pgallocz
zeroed == [x \in Index |-> Zero]

\* The flags given to ptwalk: vme_init links tables without PTE_U.
flags_user == op.name # "init_walk"

\* One level of ptwalk: a missing table is allocated and linked.
ptwalk ==
  /\ op.name \in {"init_walk", "map", "unmap", "walk_again"}
  /\ op.i < PtLevels
  /\ LET e == slot(op.i, op.cur, op.va) IN
     \/ /\ e.p
        /\ op' = [op EXCEPT !.i = @ + 1, !.cur = e.to]
        /\ UNCHANGED <<free, tab, ptr, panicked>>
     \/ /\ ~e.p /\ free # {}
        /\ \E page \in {pgalloc} :
             LET t == [tab EXCEPT ![page] = zeroed]
                 link == Entry(page, flags_user) IN
             /\ free' = free \ {page}
             /\ IF op.i = 0
                THEN ptr' = [ptr EXCEPT ![op.cur] = link] /\ tab' = t
                ELSE tab' = [t EXCEPT ![op.cur][op.va[op.i]] = link] /\ UNCHANGED ptr
             /\ op' = [op EXCEPT !.i = @ + 1, !.cur = page]
        /\ UNCHANGED panicked
     \/ /\ ~e.p /\ free = {}
        /\ panicked' = TRUE
        /\ UNCHANGED <<free, tab, ptr, op>>
  /\ UNCHANGED <<live, stack>>

walked(name) == op.name = name /\ op.i = PtLevels
ptentry == tab[op.cur][op.va[op.i]]
set_ptentry(e) == tab' = [tab EXCEPT ![op.cur][op.va[op.i]] = e]

\* vme_init: the kernel's areas, page by page.
init_next ==
  /\ op.name = "init"
  /\ \/ /\ op.left # {}
        /\ LET va == CHOOSE v \in op.left : TRUE IN
          op' = [name |-> "init_walk", as |-> KernelAs, va |-> va, left |-> op.left \ {va},
                 i |-> 0, cur |-> KernelAs]
     \/ op.left = {} /\ op' = Idle
  /\ UNCHANGED <<free, tab, ptr, live, stack, panicked>>

init_leaf ==
  /\ walked("init_walk")
  /\ set_ptentry(Entry(op.va, FALSE))
  /\ op' = [name |-> "init", left |-> op.left]
  /\ UNCHANGED <<free, ptr, live, stack, panicked>>

\* Mutant of top_of: a new space starts empty.
top_of_empty == zeroed

\* The level-1 table of a new space has the kernel's entries.
top_of == [x \in Index |-> IF x \in KernelTop THEN tab[kpt][x] ELSE Zero]

protect(s) ==
  /\ op = Idle /\ s \notin live
  /\ \/ /\ free # {}
        /\ LET upt == pgalloc IN
          /\ free' = free \ {upt}
          /\ tab' = [tab EXCEPT ![upt] = top_of]
          /\ ptr' = [ptr EXCEPT ![s] = Entry(upt, TRUE)]
          /\ live' = live \cup {s}
          /\ UNCHANGED panicked
     \/ /\ free = {}
        /\ panicked' = TRUE
        /\ UNCHANGED <<free, tab, ptr, live>>
  /\ UNCHANGED <<op, stack>>

\* map(as, va, pa, prot), and map(as, va, _, MMAP_NONE)
map(s, va, f) ==
  /\ op = Idle /\ s \in live
  /\ op' = Walk("map", s, va, f)
  /\ UNCHANGED <<free, tab, ptr, live, stack, panicked>>

unmap(s, va) ==
  /\ op = Idle /\ s \in live
  /\ op' = Walk("unmap", s, va, "none")
  /\ UNCHANGED <<free, tab, ptr, live, stack, panicked>>

may_map == ~ptentry.p

\* The entry is written; a last walk, which finds every table, ends the call.
map_leaf ==
  /\ \/ /\ walked("map") /\ may_map
        /\ set_ptentry(Entry(op.f, TRUE))
        /\ op' = Walk("walk_again", op.as, op.va, "none")
        /\ UNCHANGED panicked
     \/ /\ walked("unmap") /\ ptentry.p
        /\ set_ptentry(Zero)
        /\ op' = Walk("walk_again", op.as, op.va, "none")
        /\ UNCHANGED panicked
     \/ /\ (walked("map") /\ ~may_map) \/ (walked("unmap") /\ ~ptentry.p)
        /\ panicked' = TRUE
        /\ UNCHANGED <<tab, op>>
  /\ UNCHANGED <<free, ptr, live, stack>>

map_return ==
  /\ walked("walk_again")
  /\ op' = Idle
  /\ UNCHANGED <<free, tab, ptr, live, stack, panicked>>

\* Entries teardown follows; at the last level it returns at once.
torn(e, level) == e.p /\ e.u /\ level < PtLevels

\* unprotect = teardown(0, &as->ptr)
unprotect(s) ==
  /\ op = Idle /\ s \in live
  /\ op' = [name |-> "teardown"]
  /\ live' = live \ {s}
  /\ stack' = IF torn(ptr[s], 0) THEN <<[pt |-> ptr[s].to, level |-> 1, todo |-> Index]>> ELSE <<>>
  /\ UNCHANGED <<free, tab, ptr, panicked>>

deeper(level) == level + 1

teardown_entry ==
  /\ op.name = "teardown" /\ stack # <<>>
  /\ Head(stack).todo # {}
  /\ LET top == Head(stack)
         x == CHOOSE y \in top.todo : \A z \in top.todo : y <= z
         e == tab[top.pt][x]
         rest == <<[top EXCEPT !.todo = @ \ {x}]>> \o Tail(stack) IN
     stack' = IF torn(e, top.level)
              THEN <<[pt |-> e.to, level |-> deeper(top.level), todo |-> Index]>> \o rest
              ELSE rest
  /\ UNCHANGED <<free, tab, ptr, live, op, panicked>>

\* Mutant of pgfree: only the top level is given back.
pgfree_top(top) == IF top.level = 1 THEN free \cup {top.pt} ELSE free

pgfree(top) == free \cup {top.pt}

teardown_return ==
  /\ op.name = "teardown"
  /\ \/ /\ stack # <<>> /\ Head(stack).todo = {}
        /\ free' = pgfree(Head(stack))
        /\ stack' = Tail(stack)
        /\ UNCHANGED op
     \/ /\ stack = <<>>
        /\ op' = Idle
        /\ UNCHANGED <<free, stack>>
  /\ UNCHANGED <<tab, ptr, live, panicked>>

Next ==
  /\ ~panicked
  /\ \/ init_next \/ init_leaf \/ ptwalk \/ map_leaf \/ map_return
     \/ teardown_entry \/ teardown_return
     \/ \E s \in Space :
          \/ protect(s) \/ unprotect(s)
          \/ \E va \in UserPage : unmap(s, va) \/ \E f \in Frame : map(s, va, f)

Spec == Init /\ [][Next]_vars

-------------------------------------------------------------------------------
(* What the MMU finds: the entries met on the way to va from CR3 = as->ptr.   *)
Met(s, va) ==
  LET f[i \in 0..PtLevels] ==
        IF i = 0 THEN ptr[s]
        ELSE IF f[i - 1].p /\ f[i - 1].to \in Page THEN tab[f[i - 1].to][va[i]] ELSE Zero
  IN  f

Translation(s, va) == LET e == Met(s, va)[PtLevels] IN IF e.p THEN e.to ELSE "unmapped"
UserMay(s, va) == \A i \in 0..PtLevels : Met(s, va)[i].p /\ Met(s, va)[i].u

\* Tables below CR3 = ptr[s] that only this space uses.
Tables(s) ==
  UNION {{Met(s, va)[i].to :
            i \in {k \in 0..PtLevels - 1 : \A j \in 0..k : Met(s, va)[j].p /\ Met(s, va)[j].u}} :
         va \in [1..PtLevels -> Index]}

KernelTables ==
  UNION {{Met(KernelAs, va)[i].to :
            i \in {k \in 0..PtLevels - 1 : \A j \in 0..k : Met(KernelAs, va)[j].p}} :
         va \in KernelPage}

TypeOK ==
  /\ free \subseteq Page
  /\ tab \in [Page -> [Index -> Entries]]
  /\ ptr \in [Space \cup {KernelAs} -> Entries]
  /\ live \subseteq Space
  /\ panicked \in BOOLEAN
  /\ op.name \in {"idle", "init", "init_walk", "map", "unmap", "walk_again", "teardown"}
  /\ \A k \in 1..Len(stack) : stack[k].pt \in Page /\ stack[k].level \in 1..PtLevels
                              /\ stack[k].todo \subseteq Index

\* At every step of every call, each space translates the kernel's addresses to
\* themselves and lets no user at them, whatever was torn down before
\* (protect copies the entries of kpt; teardown follows PTE_U only).
KernelIntact ==
  \A s \in live, va \in KernelPage : Met(s, va)[PtLevels] = Entry(va, FALSE)

\* A table belongs to one space, or to the kernel, or to the allocator: a page that
\* teardown gave back is in no table that is still used.  And between calls every
\* page is one of them: unprotect gives back all that the space allocated, once for
\* each level, and no frame.
PagesAccounted ==
  /\ TypeOK
  /\ \A s \in live : Tables(s) \cap (free \cup KernelTables) = {}
  /\ \A s, t \in live : s # t => Tables(s) \cap Tables(t) = {}
  /\ op = Idle => Page = free \cup KernelTables \cup UNION {Tables(s) : s \in live}

\* The tables implement address spaces that are apart: what the MMU finds for users
\* changes by map alone, at one page of one space, although tables are linked,
\* reused and freed in between.
Abs == INSTANCE AddrSpaces WITH
         mapping <- [s \in live |->
           [va \in UserPage |-> IF UserMay(s, va) THEN Translation(s, va) ELSE "unmapped"]]
ImplementsAddrSpaces == Abs!Spec
===============================================================================
