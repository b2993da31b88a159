------------------------------ MODULE X86Proofs ------------------------------
(* What the Abstract Machine guarantees on x86, for all values of the          *)
(* constants: processors start in order (X86Mpe), and the page tables keep the *)
(* kernel's addresses, lose no page and implement address spaces that are      *)
(* apart (X86Vme).                                                             *)
EXTENDS X86Mpe, X86Vme, FiniteSetTheorems, SequenceTheorems, TLAPS

\* A set of numbers has a least one: the sets of the numbers below them are
\* finite, and strict inclusion of finite sets is well founded.
LEMMA LeastNat ==
  ASSUME NEW S \in SUBSET Nat, S # {}
  PROVE  \E m \in S : \A k \in S : m <= k
<1> DEFINE Below(k) == 0 .. (k - 1)
           T == {Below(k) : k \in S}
<1>1. T \subseteq FiniteSubsetsOf(Nat) /\ T # {}
  <2>1. ASSUME NEW k \in S PROVE Below(k) \in SUBSET Nat /\ IsFiniteSet(Below(k))
    BY FS_Interval
  <2> QED
    BY <2>1 DEF FiniteSubsetsOf
<1>2. PICK x \in T : \A y \in T : ~(<<y, x>> \in StrictSubsetOrdering(Nat))
  <2> HIDE DEF T
  <2> QED
    BY <1>1, FS_StrictSubsetOrderingWellFounded, WFMin, Zenon
<1>3. PICK m \in S : x = Below(m)
  OBVIOUS
<1>4. ASSUME NEW k \in S, k < m PROVE FALSE
  <2>1. Below(k) \in T /\ ~(<<Below(k), Below(m)>> \in StrictSubsetOrdering(Nat))
    BY <1>2, <1>3
  <2>2. Below(k) \subseteq Below(m) /\ k \in Below(m) /\ ~(k \in Below(k))
    BY <1>4
  <2>3. Below(k) \in SUBSET Nat /\ Below(m) \in SUBSET Nat
    OBVIOUS
  <2> HIDE DEF Below, T
  <2> QED
    BY <2>1, <2>2, <2>3 DEF StrictSubsetOrdering
<1> QED
  BY <1>4

\* Induction on the natural numbers.
LEMMA InductNat ==
  ASSUME NEW S \in SUBSET Nat, 0 \in S, \A k \in S : k + 1 \in S
  PROVE  S = Nat
<1> SUFFICES ASSUME Nat \ S # {} PROVE FALSE
  OBVIOUS
<1>1. PICK m \in Nat \ S : \A k \in Nat \ S : m <= k
  <2>1. Nat \ S \in SUBSET Nat
    OBVIOUS
  <2> QED
    BY <2>1, LeastNat
<1>2. m # 0 /\ m - 1 \in Nat
  BY <1>1
<1>3. m - 1 \in S
  BY <1>1, <1>2
<1> QED
  BY <1>1, <1>2, <1>3

------------------------------------------------------------------------------
(* Start and stop of the processors.                                          *)

Message == {"INIT", "STARTUP"}
Place == {"bios", "wait_sipi", "record", "hang", "start32", "_start_c", "main", "othercpu",
          "announce", "boot_next", "await_ap", "call_entry", "user", "stop"}

\* The types, but for the bounds of what is counted.
MpeTypeInv ==
  /\ at \in [Cpu -> Place]
  /\ ipi \in [Cpu -> Seq(Message)]
  /\ next \in [Cpu -> SUBSET Cpu]
  /\ jmp_code \in {"none", "jmp 0x7c00", "jmp ."} /\ is_ap \in {0, 1} /\ ap_ready \in {0, 1}
  /\ ready \subseteq Cpu /\ entered \subseteq Cpu
  /\ halted \subseteq Cpu

\* Processor 0 has not come to mpe_init.
Before == at[0] \in {"start32", "_start_c", "main"}

\* A processor that has not announced itself, or is on its way to the boot loader:
\* as long as the boot record leads there, messages bring it to the record.
Early == {"start32", "_start_c", "othercpu", "announce"}
Coming(c) ==
  /\ jmp_code = "jmp 0x7c00"
  /\ at[c] = "record" \/ (at[c] = "wait_sipi" /\ ipi[c] # <<>>)
Starting(c) == at[c] \in Early \/ Coming(c)

\* Until mpe_init processor 0 is alone.
BeforeInv == Before =>
  /\ \A c \in Cpu : next[c] = {} /\ ipi[c] = <<>> /\ (c # 0 => at[c] = "wait_sipi")
  /\ jmp_code = "none" /\ is_ap = 0 /\ ap_ready = 0 /\ halted = {}

\* After it the boot record leads to the kernel until a processor halts.
CodeInv == ~Before =>
  /\ halted = {} => jmp_code = "jmp 0x7c00"
  /\ halted # {} => jmp_code = "jmp ."

\* Messages that end a wait.
InitPending(s) == \E i \in 1..Len(s) : s[i] = "INIT"
InitFirst(s) == \A i \in 1..Len(s) : s[i] = "INIT" => i = 1

\* Before anyone halts, a processor gets one INIT, while it still waits, and nothing
\* until processor 0 has come to it.
MessageInv == halted = {} =>
  /\ ipi[0] = <<>>
  /\ \A c \in Cpu : InitFirst(ipi[c]) /\ (InitPending(ipi[c]) => at[c] = "wait_sipi")
  /\ at[0] \in {"boot_next", "await_ap"} =>
       \A c \in Cpu : c \in next[0] => at[c] = "wait_sipi" /\ ipi[c] = <<>>

\* Which code runs on which processor.
PlaceInv ==
  /\ \A c \in Cpu : c # 0 => at[c] \notin {"bios", "main", "boot_next", "await_ap"}
  /\ \A c \in Cpu : c # 0 /\ Starting(c) => is_ap = 1
  /\ at[0] \notin {"wait_sipi", "othercpu", "announce"}
  /\ halted = {} => at[0] \notin {"bios", "record", "hang"} /\ \A c \in Cpu : at[c] # "stop"
  /\ 0 \notin next[0]

\* One processor is starting at a time.
AloneInv == \A c, d \in Cpu : Starting(c) /\ Starting(d) => c = d

\* Outside the wait of mpe_init nobody is starting, no signal is left over, and all
\* that were started are ready.
QuietInv == at[0] \in {"boot_next", "call_entry", "user"} =>
  /\ ap_ready = 0
  /\ \A c \in Cpu : ~Starting(c)
  /\ \A c \in Cpu : c \notin next[0] => c \in ready
  /\ at[0] # "boot_next" => next[0] = {}

\* In it, it is the processor that was started last that is starting, until its signal.
AwaitInv == at[0] = "await_ap" => \E t \in Cpu :
  /\ t # 0 /\ t \notin next[0]
  /\ \A c \in Cpu : c \notin next[0] => c \in ready \/ c = t
  /\ \A c \in Cpu : Starting(c) => c = t /\ ap_ready = 0
  /\ ap_ready = 1 => t \in ready

\* A processor is ready before it announces itself.
ReadyInv ==
  /\ \A c \in Cpu : c # 0 /\ at[c] \in {"announce", "call_entry", "user"} => c \in ready
  /\ at[0] \notin {"start32", "_start_c"} => 0 \in ready

LoadInv == loads \in 0..1 /\ (at[0] = "start32" => loads = 0)

\* Who has a message for c still to send: mpe_init, and every halting processor.
Senders(c) == {d \in Cpu : c \in next[d]}

\* A processor that called halt runs the program no more: when it is stopped, the boot
\* record leads nowhere.
HaltedInv == \A c \in halted : at[c] \in {"stop", "bios", "wait_sipi", "record", "hang"}

\* Three messages from mpe_init, and three from each processor that has called halt.
CountInv == ~Before => \A c \in Cpu : Len(ipi[c]) + 3 * Cardinality(Senders(c)) <= 3 * (1 + Cardinality(halted))

MpeInv ==
  /\ MpeTypeInv /\ BeforeInv /\ CodeInv /\ MessageInv /\ PlaceInv
  /\ AloneInv /\ QuietInv /\ AwaitInv /\ ReadyInv /\ LoadInv

-------------------------------------------------------------------------------
LEMMA CpuZero == 0 \in Cpu /\ Cpu \subseteq Nat /\ IsFiniteSet(Cpu)
<1>1. NCpu \in Nat /\ NCpu # 0
  BY X86MpeAssumption
<1>2. IsFiniteSet(0 .. NCpu - 1)
  BY <1>1, FS_Interval
<1> QED
  BY <1>1, <1>2 DEF Cpu

\* The next processor to be sent a message is one of those that are left.
LEMMA LowestOf ==
  ASSUME NEW S \in SUBSET Cpu, S # {}
  PROVE  lowest(S) \in S
<1>1. S \in SUBSET Nat
  BY CpuZero
<1>2. \E x \in S : \A y \in S : x <= y
  BY <1>1, LeastNat
<1> QED
  BY <1>2 DEF lowest

\* The messages of one wake-up.
LEMMA Startups ==
  /\ startups \in Seq(Message) /\ Len(startups) = 3
  /\ \A i \in 1..3 : startups[i] = "INIT" => i = 1
<1>1. Len(startups) = 3 /\ startups[1] = "INIT" /\ startups[2] = "STARTUP" /\ startups[3] = "STARTUP"
  BY DEF startups
<1>2. startups \in Seq(Message)
  BY DEF startups, Message
<1> QED
  BY <1>1, <1>2

\* A processor's program goes on.
LEMMA Go ==
  ASSUME MpeTypeInv, NEW c \in Cpu, NEW from, NEW to \in Place, go(c, from, to)
  PROVE  /\ at \in [Cpu -> Place] /\ at' \in [Cpu -> Place] /\ at[c] = from
         /\ \A d \in Cpu : at'[d] = IF d = c THEN to ELSE at[d]
BY DEF MpeTypeInv, go

LEMMA Joined ==
  ASSUME NEW a \in Seq(Message), NEW b \in Seq(Message)
  PROVE  a \o b \in Seq(Message) /\ Len(a \o b) = Len(a) + Len(b)
OBVIOUS

\* A wake-up on its way to processor t.
LEMMA Bootap ==
  ASSUME MpeTypeInv, NEW t \in Cpu, bootap(t)
  PROVE  /\ ipi' \in [Cpu -> Seq(Message)]
         /\ \A d \in Cpu : d # t => ipi'[d] = ipi[d]
         /\ ipi'[t] = ipi[t] \o startups /\ ipi'[t] # <<>>
         /\ Len(ipi'[t]) = Len(ipi[t]) + 3
<1>1. ipi[t] \in Seq(Message) /\ ipi \in [Cpu -> Seq(Message)]
  BY DEF MpeTypeInv
<1>2. ipi[t] \o startups \in Seq(Message) /\ Len(ipi[t] \o startups) = Len(ipi[t]) + 3
  BY <1>1, Startups, Joined
<1>3. ipi[t] \o startups # <<>>
  BY <1>1, <1>2, LenProperties
<1> QED
  BY <1>1, <1>2, <1>3 DEF bootap

\* The oldest message arrives.
LEMMA Deliver ==
  ASSUME MpeTypeInv, NEW c \in Cpu, deliver(c)
  PROVE  /\ ipi[c] \in Seq(Message) /\ ipi[c] # <<>> /\ ipi' \in [Cpu -> Seq(Message)]
         /\ \A d \in Cpu : d # c => ipi'[d] = ipi[d]
         /\ ipi'[c] = Tail(ipi[c]) /\ Len(ipi'[c]) = Len(ipi[c]) - 1
         /\ \A i \in 1..Len(ipi'[c]) : i + 1 \in 1..Len(ipi[c]) /\ ipi'[c][i] = ipi[c][i + 1]
         /\ 1 \in 1..Len(ipi[c]) /\ Head(ipi[c]) = ipi[c][1]
<1>1. ipi[c] \in Seq(Message) /\ ipi[c] # <<>> /\ ipi \in [Cpu -> Seq(Message)]
  BY DEF MpeTypeInv, deliver
<1> DEFINE s == ipi[c]
<1>2. s \in Seq(Message) /\ s # <<>>
  BY <1>1
<1> HIDE DEF s
<1>3. Tail(s) \in Seq(Message) /\ Len(Tail(s)) = Len(s) - 1
  BY <1>2
<1>4. \A i \in 1..Len(Tail(s)) : i + 1 \in 1..Len(s) /\ Tail(s)[i] = s[i + 1]
  BY <1>2
<1>5. 1 \in 1..Len(s) /\ Head(s) = s[1]
  BY <1>2
<1>6. ipi' \in [Cpu -> Seq(Message)] /\ ipi'[c] = Tail(s) /\ \A d \in Cpu : d # c => ipi'[d] = ipi[d]
  BY <1>1, <1>3 DEF s, deliver
<1> QED
  BY <1>1, <1>3, <1>4, <1>5, <1>6 DEF s

\* Where the processor is after it, and what else it changes.
LEMMA DeliverEffect ==
  ASSUME MpeTypeInv, NEW c \in Cpu, deliver(c)
  PROVE  /\ at' \in [Cpu -> Place] /\ \A d \in Cpu : d # c => at'[d] = at[d] /\ next'[d] = next[d]
         /\ next' \in [Cpu -> SUBSET Cpu]
         /\ Head(ipi[c]) = "INIT" => at'[c] = (IF c = 0 THEN "bios" ELSE "wait_sipi") /\ next'[c] = {}
         /\ Head(ipi[c]) # "INIT" =>
              at'[c] = (IF at[c] = "wait_sipi" THEN "record" ELSE at[c]) /\ next'[c] = next[c]
<1>1. at \in [Cpu -> Place] /\ next \in [Cpu -> SUBSET Cpu]
  BY DEF MpeTypeInv
<1> DEFINE init == Head(ipi[c]) = "INIT"
<1> HIDE DEF init
<1>2. at' = [at EXCEPT ![c] = IF init THEN IF c = 0 THEN "bios" ELSE "wait_sipi"
                              ELSE IF @ = "wait_sipi" THEN "record" ELSE @]
      /\ next' = [next EXCEPT ![c] = IF init THEN {} ELSE @]
  BY DEF deliver, init
<1>3. at' \in [Cpu -> Place] /\ next' \in [Cpu -> SUBSET Cpu]
  BY <1>1, <1>2 DEF Place
<1> QED
  BY <1>1, <1>2, <1>3 DEF init

LEMMA MpeTypeInvInit == MpeInit => MpeTypeInv
<1> SUFFICES ASSUME MpeInit PROVE MpeTypeInv
  OBVIOUS
<1>1. at \in [Cpu -> Place]
  BY DEF MpeInit, Place
<1>2. ipi \in [Cpu -> Seq(Message)]
  BY EmptySeq DEF MpeInit
<1>3. next \in [Cpu -> SUBSET Cpu] /\ jmp_code \in {"none", "jmp 0x7c00", "jmp ."}
      /\ is_ap \in {0, 1} /\ ap_ready \in {0, 1} /\ ready \subseteq Cpu /\ entered \subseteq Cpu
  BY DEF MpeInit
<1>4. halted \subseteq Cpu
  BY DEF MpeInit
<1> QED
  BY <1>1, <1>2, <1>3, <1>4 DEF MpeTypeInv

LEMMA MpeTypeInvNext == MpeTypeInv /\ [MpeNext]_mpeVars => MpeTypeInv'
<1> SUFFICES ASSUME MpeTypeInv, [MpeNext]_mpeVars PROVE MpeTypeInv'
  OBVIOUS
<1>0. /\ at \in [Cpu -> Place] /\ ipi \in [Cpu -> Seq(Message)] /\ next \in [Cpu -> SUBSET Cpu]
      /\ jmp_code \in {"none", "jmp 0x7c00", "jmp ."} /\ is_ap \in {0, 1} /\ ap_ready \in {0, 1}
      /\ ready \subseteq Cpu /\ entered \subseteq Cpu /\ halted \subseteq Cpu
  BY DEF MpeTypeInv
<1>1. ASSUME NEW c \in Cpu, record(c) \/ warm_reset(c) \/ load_kernel(c) \/ othercpu_init(c)
             \/ announce(c) \/ await_ap(c) \/ call_user_entry(c)
      PROVE  MpeTypeInv'
  <2>1. at' \in [Cpu -> Place]
    BY <1>0, <1>1 DEF record, warm_reset, load_kernel, othercpu_init, announce, await_ap,
                      call_user_entry, go, Place
  <2>2. ready' \in {ready, ready \cup {c}} /\ entered' \in {entered, entered \cup {c}}
        /\ ap_ready' \in {ap_ready, 0, 1}
    BY <1>1, Zenon DEF record, warm_reset, load_kernel, othercpu_init, announce, await_ap,
                       call_user_entry, taken
  <2>3. UNCHANGED <<jmp_code, is_ap, ipi, next, halted>>
    BY <1>1, Zenon DEF record, warm_reset, load_kernel, othercpu_init, announce, await_ap, call_user_entry
  <2> QED
    BY <1>0, <2>1, <2>2, <2>3 DEF MpeTypeInv
<1>2. ASSUME NEW c \in Cpu, _start_c(c) PROVE MpeTypeInv'
  <2>1. at' \in [Cpu -> Place] /\ ready' \subseteq Cpu
    BY <1>0, <1>2 DEF _start_c, go, Place
  <2>2. UNCHANGED <<jmp_code, is_ap, ap_ready, ipi, next, entered, halted>>
    BY <1>2, Zenon DEF _start_c
  <2> QED
    BY <1>0, <2>1, <2>2 DEF MpeTypeInv
<1>3. ASSUME NEW c \in Cpu, boot_next(c) PROVE MpeTypeInv'
  <2>1. UNCHANGED <<jmp_code, ap_ready, ready, entered, halted>>
    BY <1>3, Zenon DEF boot_next
  <2>2. CASE next[c] = {}
    <3>1. at' \in [Cpu -> Place]
      BY <1>0, <1>3, <2>2 DEF boot_next, go, Place
    <3>2. UNCHANGED <<is_ap, ipi, next>>
      BY <1>3, <2>2 DEF boot_next
    <3> QED
      BY <1>0, <2>1, <3>1, <3>2 DEF MpeTypeInv
  <2>3. CASE next[c] # {}
    <3>1. at' \in [Cpu -> Place]
      BY <1>0, <1>3, <2>3 DEF boot_next, go, Place
    <3>2. next[c] \in SUBSET Cpu /\ lowest(next[c]) \in Cpu
      BY <1>0, <2>3, LowestOf
    <3>3. bootap(lowest(next[c])) /\ is_ap' = 1 /\ next' = [next EXCEPT ![c] = @ \ {lowest(@)}]
      BY <1>3, <2>3 DEF boot_next, ap_mark
    <3>4. ipi' \in [Cpu -> Seq(Message)]
      BY <3>2, <3>3, Bootap
    <3>5. next' \in [Cpu -> SUBSET Cpu]
      BY <1>0, <3>2, <3>3
    <3> QED
      BY <1>0, <2>1, <3>1, <3>3, <3>4, <3>5 DEF MpeTypeInv
  <2> QED
    BY <2>2, <2>3
<1>4. ASSUME NEW c \in Cpu, stop(c) PROVE MpeTypeInv'
  <2>1. UNCHANGED <<at, jmp_code, is_ap, ap_ready, ready, entered, halted>>
    BY <1>4, Zenon DEF stop
  <2>2. next[c] \in SUBSET Cpu /\ lowest(next[c]) \in Cpu
    BY <1>0, <1>4, LowestOf DEF stop
  <2>3. bootap(lowest(next[c])) /\ next' = [next EXCEPT ![c] = @ \ {lowest(@)}]
    BY <1>4 DEF stop
  <2>4. ipi' \in [Cpu -> Seq(Message)]
    BY <2>2, <2>3, Bootap
  <2>5. next' \in [Cpu -> SUBSET Cpu]
    BY <1>0, <2>2, <2>3
  <2> QED
    BY <1>0, <2>1, <2>4, <2>5 DEF MpeTypeInv
<1>5. ASSUME NEW c \in Cpu, power_off(c) PROVE MpeTypeInv'
  BY <1>0, <1>5 DEF power_off, MpeTypeInv
<1>6. ASSUME NEW c \in Cpu, mpe_init(c) PROVE MpeTypeInv'
  <2>1. at' \in [Cpu -> Place] /\ next' \in [Cpu -> SUBSET Cpu] /\ jmp_code' = "jmp 0x7c00"
    BY <1>0, <1>6 DEF mpe_init, go, Place
  <2>2. UNCHANGED <<is_ap, ap_ready, ipi, ready, entered, halted>>
    BY <1>6, Zenon DEF mpe_init
  <2> QED
    BY <1>0, <2>1, <2>2 DEF MpeTypeInv
<1>7. ASSUME NEW c \in Cpu, deliver(c) PROVE MpeTypeInv'
  <2>1. at' \in [Cpu -> Place] /\ next' \in [Cpu -> SUBSET Cpu]
    BY <1>7, DeliverEffect
  <2>2. ipi' \in [Cpu -> Seq(Message)]
    BY <1>7, Deliver
  <2>3. UNCHANGED <<jmp_code, is_ap, ap_ready, ready, entered, halted>>
    BY <1>7, Zenon DEF deliver
  <2> QED
    BY <1>0, <2>1, <2>2, <2>3 DEF MpeTypeInv
<1>8. ASSUME NEW c \in Cpu, halt(c) PROVE MpeTypeInv'
  <2>1. at' \in [Cpu -> Place] /\ next' \in [Cpu -> SUBSET Cpu] /\ jmp_code' = "jmp ."
    BY <1>0, <1>8 DEF halt, Place, others
  <2>3. UNCHANGED <<is_ap, ap_ready, ipi, ready, entered>>
    BY <1>8, Zenon DEF halt
  <2>4. halted' \subseteq Cpu
    BY <1>0, <1>8 DEF halt
  <2> QED
    BY <1>0, <2>1, <2>3, <2>4 DEF MpeTypeInv
<1>9. CASE UNCHANGED mpeVars
  BY <1>0, <1>9 DEF mpeVars, MpeTypeInv
<1> QED
  BY <1>1, <1>2, <1>3, <1>4, <1>5, <1>6, <1>7, <1>8, <1>9 DEF MpeNext, Code

-------------------------------------------------------------------------------
(* One lemma per action, after one for each kind of processor.                *)

\* What MpeInv says, part by part.
LEMMA Parts ==
  ASSUME MpeInv
  PROVE  /\ MpeTypeInv /\ BeforeInv /\ CodeInv /\ MessageInv /\ PlaceInv
         /\ AloneInv /\ QuietInv /\ AwaitInv /\ ReadyInv /\ LoadInv
BY DEF MpeInv

\* Another processor than the first goes on: nothing that concerns the first changes.
LEMMA OtherAdvances ==
  ASSUME MpeInv, MpeTypeInv', NEW c \in Cpu, c # 0, ~Before, NEW from, NEW to \in Place, go(c, from, to),
         from # "wait_sipi", to \notin {"bios", "wait_sipi", "main", "boot_next", "await_ap", "stop"},
         UNCHANGED <<jmp_code, is_ap, ap_ready, ipi, next, halted, loads>>,
         Starting(c)' => Starting(c),
         ready' \in {ready, ready \cup {c}},
         to \in {"announce", "call_entry", "user"} => c \in ready'
  PROVE  MpeInv'
<1>1. /\ MpeTypeInv /\ BeforeInv /\ CodeInv /\ MessageInv /\ PlaceInv
      /\ AloneInv /\ QuietInv /\ AwaitInv /\ ReadyInv /\ LoadInv
  BY Parts
<1>2. at[c] = from /\ at'[c] = to /\ \A d \in Cpu : d # c => at'[d] = at[d]
  BY <1>1, Go
<1>3. 0 \in Cpu /\ at'[0] = at[0] /\ ready \subseteq ready' /\ ~Before'
  BY <1>2, CpuZero DEF Before
<1>4. \A d \in Cpu : Starting(d)' => Starting(d)
  <2>1. \A d \in Cpu : d # c => (Starting(d)' => Starting(d))
    BY <1>2 DEF Starting, Coming
  <2> QED
    BY <2>1
<1>5. BeforeInv' /\ CodeInv'
  BY <1>1, <1>3 DEF BeforeInv, CodeInv
<1>6. MessageInv'
  <2>1. \A d \in Cpu : at[d] = "wait_sipi" => at'[d] = "wait_sipi"
    BY <1>2
  <2> QED
    BY <1>1, <1>3, <2>1 DEF MessageInv
<1>7. PlaceInv'
  BY <1>1, <1>2, <1>3, <1>4 DEF PlaceInv
<1>8. AloneInv'
  BY <1>1, <1>4 DEF AloneInv
<1>9. QuietInv'
  BY <1>1, <1>3, <1>4 DEF QuietInv
<1>10. AwaitInv'
  BY <1>1, <1>3, <1>4 DEF AwaitInv
<1>11. ReadyInv' /\ LoadInv'
  BY <1>1, <1>2, <1>3 DEF ReadyInv, LoadInv
<1> QED
  BY <1>5, <1>6, <1>7, <1>8, <1>9, <1>10, <1>11 DEF MpeInv

\* The first processor is out of the game: it was reset after a halt.
LEMMA FirstOut ==
  ASSUME MpeInv, MpeTypeInv', at'[0] \in {"bios", "record", "hang"}, halted # {}, 0 \notin next'[0],
         \A d \in Cpu : d # 0 => at'[d] = at[d],
         UNCHANGED <<jmp_code, is_ap, ap_ready, ready, loads, halted>>
  PROVE  MpeInv'
<1>1. /\ MpeTypeInv /\ BeforeInv /\ CodeInv /\ MessageInv /\ PlaceInv
      /\ AloneInv /\ QuietInv /\ AwaitInv /\ ReadyInv /\ LoadInv
  BY Parts
<1>2. ~Before /\ ~Before' /\ 0 \in Cpu /\ jmp_code = "jmp ."
  <2>1. ~Before
    BY <1>1 DEF BeforeInv
  <2> QED
    BY <1>1, <2>1, CpuZero DEF CodeInv, Before
<1>3. \A d \in Cpu : Starting(d)' => Starting(d)
  BY <1>2 DEF Starting, Coming, Early
<1>4. BeforeInv' /\ CodeInv' /\ MessageInv'
  BY <1>1, <1>2 DEF BeforeInv, CodeInv, MessageInv
<1>5. PlaceInv'
  BY <1>1, <1>3 DEF PlaceInv
<1>6. AloneInv'
  BY <1>1, <1>3 DEF AloneInv
<1>7. QuietInv' /\ AwaitInv'
  BY DEF QuietInv, AwaitInv
<1>8. ReadyInv' /\ LoadInv'
  BY <1>1, <1>2 DEF ReadyInv, LoadInv, Before
<1> QED
  BY <1>4, <1>5, <1>6, <1>7, <1>8 DEF MpeInv

\* Only the first processor runs before mpe_init, and only it calls it.
LEMMA NotFirst ==
  ASSUME MpeInv, NEW c \in Cpu, c # 0
  PROVE  /\ at[c] # "wait_sipi" => ~Before
         /\ at[c] \notin {"bios", "main", "boot_next", "await_ap"}
         /\ Starting(c) => is_ap = 1
BY Parts DEF BeforeInv, PlaceInv

LEMMA RecordStep ==
  ASSUME MpeInv, MpeTypeInv', NEW c \in Cpu, record(c)
  PROVE  MpeInv'
<1>1. UNCHANGED <<jmp_code, is_ap, ap_ready, ipi, next, ready, loads, halted>>
  BY DEF record
<1> DEFINE to == IF jmp_code = "jmp 0x7c00" THEN "start32" ELSE "hang"
<1>2. /\ to \in Place /\ to \in {"start32", "hang"} /\ go(c, "record", to)
      /\ to = "start32" => jmp_code = "jmp 0x7c00"
  BY DEF record, Place
<1>3. jmp_code # "jmp 0x7c00" => to = "hang"
  OBVIOUS
<1> HIDE DEF to
<1>4. MpeTypeInv /\ CodeInv /\ PlaceInv /\ BeforeInv
  BY Parts
<1>5. at[c] = "record" /\ at'[c] = to /\ \A d \in Cpu : d # c => at'[d] = at[d]
  BY <1>2, <1>4, Go
<1>6. CASE c = 0
  <2>1. halted # {} /\ ~Before
    BY <1>4, <1>5, <1>6 DEF Before, PlaceInv
  <2>2. to = "hang"
    BY <1>3, <1>4, <2>1 DEF CodeInv
  <2> QED
    BY <1>1, <1>4, <1>5, <1>6, <2>1, <2>2, FirstOut DEF PlaceInv
<1>7. CASE c # 0
  <2>1. ~Before
    BY <1>5, <1>7, NotFirst
  <2>2. Starting(c)' => Starting(c)
    BY <1>1, <1>2, <1>5 DEF Starting, Coming, Early
  <2> QED
    BY <1>1, <1>2, <1>7, <2>1, <2>2, OtherAdvances
<1> QED
  BY <1>6, <1>7

LEMMA WarmResetStep ==
  ASSUME MpeInv, MpeTypeInv', NEW c \in Cpu, warm_reset(c)
  PROVE  MpeInv'
<1>1. UNCHANGED <<jmp_code, is_ap, ap_ready, ipi, next, ready, loads, halted>>
  BY DEF warm_reset
<1>2. "record" \in Place /\ go(c, "bios", "record")
  BY DEF warm_reset, Place
<1>3. at[c] = "bios" /\ at'[c] = "record" /\ \A d \in Cpu : d # c => at'[d] = at[d]
  BY <1>2, Go, Parts
<1>4. c = 0
  BY <1>3, NotFirst
<1>5. halted # {} /\ 0 \notin next[0]
  BY <1>3, <1>4, Parts DEF PlaceInv
<1> QED
  BY <1>1, <1>3, <1>4, <1>5, FirstOut

\* Processor 0 goes on before mpe_init, alone.
LEMMA FirstAdvances ==
  ASSUME MpeInv, MpeTypeInv', Before, Before',
         \A d \in Cpu : d # 0 => at'[d] = at[d],
         UNCHANGED <<jmp_code, is_ap, ap_ready, ipi, next, halted>>,
         at'[0] \notin {"start32", "_start_c"} => 0 \in ready', LoadInv'
  PROVE  MpeInv'
<1>1. BeforeInv /\ PlaceInv /\ 0 \in Cpu
  BY Parts, CpuZero
<1>2. /\ \A c \in Cpu : next[c] = {} /\ ipi[c] = <<>> /\ (c # 0 => at[c] = "wait_sipi")
      /\ jmp_code = "none" /\ is_ap = 0 /\ ap_ready = 0 /\ halted = {}
  BY <1>1 DEF BeforeInv
<1>3. /\ \A c \in Cpu : next'[c] = {} /\ ipi'[c] = <<>> /\ (c # 0 => at'[c] = "wait_sipi")
      /\ jmp_code' = "none" /\ is_ap' = 0 /\ ap_ready' = 0 /\ halted' = {}
  BY <1>2
<1>4. \A d \in Cpu : d # 0 => ~Starting(d)'
  BY <1>3 DEF Starting, Coming, Early
<1>5. at'[0] \in {"start32", "_start_c", "main"}
  BY DEF Before
<1>6. InitFirst(<<>>) /\ ~InitPending(<<>>)
  BY DEF InitFirst, InitPending
<1>7. BeforeInv' /\ CodeInv'
  BY <1>3 DEF BeforeInv, CodeInv
<1>8. MessageInv'
  BY <1>1, <1>3, <1>5, <1>6 DEF MessageInv
<1>9. PlaceInv'
  BY <1>1, <1>3, <1>4, <1>5 DEF PlaceInv
<1>10. AloneInv'
  BY <1>4 DEF AloneInv
<1>11. QuietInv' /\ AwaitInv'
  BY <1>5 DEF QuietInv, AwaitInv
<1>12. ReadyInv'
  BY <1>3 DEF ReadyInv
<1> QED
  BY <1>7, <1>8, <1>9, <1>10, <1>11, <1>12 DEF MpeInv

LEMMA LoadStep ==
  ASSUME MpeInv, MpeTypeInv', NEW c \in Cpu, load_kernel(c)
  PROVE  MpeInv'
<1>1. UNCHANGED <<jmp_code, is_ap, ap_ready, ipi, next, ready, halted>>
  BY DEF load_kernel
<1>2. "_start_c" \in Place /\ go(c, "start32", "_start_c")
  BY DEF load_kernel, Place
<1>3. at[c] = "start32" /\ at'[c] = "_start_c" /\ \A d \in Cpu : d # c => at'[d] = at[d]
  BY <1>2, Go, Parts
<1>4. CASE c = 0
  <2>1. Before /\ Before'
    BY <1>3, <1>4 DEF Before
  <2>2. loads = 0 /\ is_ap = 0
    BY <1>3, <1>4, <2>1, Parts DEF LoadInv, BeforeInv
  <2>3. loads' = 1
    BY <2>2 DEF load_kernel
  <2>4. LoadInv'
    BY <1>3, <1>4, <2>3 DEF LoadInv
  <2> QED
    BY <1>1, <1>3, <1>4, <2>1, <2>4, FirstAdvances
<1>5. CASE c # 0
  <2>1. ~Before /\ Starting(c)
    BY <1>3, <1>5, NotFirst DEF Starting, Early
  <2>2. is_ap = 1
    BY <1>5, <2>1, NotFirst
  <2>3. loads' = loads
    BY <2>2 DEF load_kernel
  <2> QED
    BY <1>1, <1>2, <1>5, <2>1, <2>3, OtherAdvances
<1> QED
  BY <1>4, <1>5

LEMMA StartStep ==
  ASSUME MpeInv, MpeTypeInv', NEW c \in Cpu, _start_c(c)
  PROVE  MpeInv'
<1>1. UNCHANGED <<jmp_code, is_ap, ap_ready, ipi, next, loads, halted>>
  BY DEF _start_c
<1>2. at[c] = "_start_c"
  BY DEF _start_c, go
<1>3. CASE c = 0
  <2>1. Before
    BY <1>2, <1>3 DEF Before
  <2>2. is_ap = 0
    BY <2>1, Parts DEF BeforeInv
  <2>3. "main" \in Place /\ go(c, "_start_c", "main") /\ ready' = ready \cup {c}
    BY <2>2 DEF _start_c, Place
  <2>4. at'[c] = "main" /\ \A d \in Cpu : d # c => at'[d] = at[d]
    BY <2>3, Go, Parts
  <2>5. Before' /\ LoadInv'
    BY <1>1, <1>3, <2>4, Parts DEF Before, LoadInv
  <2> QED
    BY <1>1, <1>3, <2>1, <2>3, <2>4, <2>5, FirstAdvances
<1>4. CASE c # 0
  <2>1. ~Before /\ Starting(c)
    BY <1>2, <1>4, NotFirst DEF Starting, Early
  <2>2. is_ap # 0
    BY <1>4, <2>1, NotFirst
  <2>3. "othercpu" \in Place /\ go(c, "_start_c", "othercpu") /\ ready' = ready
    BY <2>2 DEF _start_c, Place
  <2> QED
    BY <1>1, <1>4, <2>1, <2>3, OtherAdvances
<1> QED
  BY <1>3, <1>4

LEMMA OtherInitStep ==
  ASSUME MpeInv, MpeTypeInv', NEW c \in Cpu, othercpu_init(c)
  PROVE  MpeInv'
<1>1. UNCHANGED <<jmp_code, is_ap, ap_ready, ipi, next, loads, halted>> /\ ready' = ready \cup {c}
  BY DEF othercpu_init
<1>2. "announce" \in Place /\ go(c, "othercpu", "announce") /\ at[c] = "othercpu"
  BY DEF othercpu_init, Place, go
<1>3. c # 0
  BY <1>2, Parts DEF PlaceInv
<1>4. ~Before /\ Starting(c)
  BY <1>2, <1>3, NotFirst DEF Starting, Early
<1> QED
  BY <1>1, <1>2, <1>3, <1>4, OtherAdvances

\* The processor that was started last is ready; the first one may go on.
LEMMA AnnounceStep ==
  ASSUME MpeInv, MpeTypeInv', NEW c \in Cpu, announce(c)
  PROVE  MpeInv'
<1>1. /\ MpeTypeInv /\ BeforeInv /\ CodeInv /\ MessageInv /\ PlaceInv
      /\ AloneInv /\ QuietInv /\ AwaitInv /\ ReadyInv /\ LoadInv
  BY Parts
<1>2. UNCHANGED <<jmp_code, is_ap, ipi, next, ready, loads, halted>> /\ ap_ready' = 1
  BY DEF announce
<1>3. "call_entry" \in Place /\ go(c, "announce", "call_entry")
  BY DEF announce, Place
<1>4. at[c] = "announce" /\ at'[c] = "call_entry" /\ \A d \in Cpu : d # c => at'[d] = at[d]
  BY <1>1, <1>3, Go
<1>5. c # 0 /\ 0 \in Cpu /\ at'[0] = at[0] /\ Starting(c) /\ c \in ready
  BY <1>1, <1>4, CpuZero DEF PlaceInv, Starting, Early, ReadyInv
<1>6. ~Before /\ ~Before'
  BY <1>4, <1>5, NotFirst DEF Before
<1>7. \A d \in Cpu : ~Starting(d)'
  <2>1. \A d \in Cpu : d # c => (Starting(d)' => Starting(d))
    BY <1>2, <1>4 DEF Starting, Coming
  <2>2. \A d \in Cpu : d # c => ~Starting(d)
    BY <1>1, <1>5 DEF AloneInv
  <2>3. ~Starting(c)'
    BY <1>4 DEF Starting, Coming, Early
  <2> QED
    BY <2>1, <2>2, <2>3
<1>8. BeforeInv' /\ CodeInv'
  BY <1>1, <1>2, <1>6 DEF BeforeInv, CodeInv
<1>9. MessageInv'
  <2>1. \A d \in Cpu : at[d] = "wait_sipi" => at'[d] = "wait_sipi"
    BY <1>4
  <2> QED
    BY <1>1, <1>2, <1>5, <2>1 DEF MessageInv
<1>10. PlaceInv'
  BY <1>1, <1>2, <1>4, <1>5, <1>7 DEF PlaceInv
<1>11. AloneInv'
  BY <1>7 DEF AloneInv
<1>12. QuietInv'
  BY <1>1, <1>5 DEF QuietInv
<1>13. AwaitInv'
  <2>1. SUFFICES ASSUME at[0] = "await_ap" PROVE AwaitInv'
    BY <1>5 DEF AwaitInv
  <2>2. PICK t \in Cpu :
          /\ t # 0 /\ t \notin next[0]
          /\ \A d \in Cpu : d \notin next[0] => d \in ready \/ d = t
          /\ \A d \in Cpu : Starting(d) => d = t /\ ap_ready = 0
    BY <1>1, <2>1 DEF AwaitInv
  <2>3. t = c
    BY <1>5, <2>2
  <2> QED
    BY <1>2, <1>5, <1>7, <2>2, <2>3 DEF AwaitInv
<1>14. ReadyInv' /\ LoadInv'
  BY <1>1, <1>2, <1>4, <1>5 DEF ReadyInv, LoadInv
<1> QED
  BY <1>8, <1>9, <1>10, <1>11, <1>12, <1>13, <1>14 DEF MpeInv

LEMMA EntryStep ==
  ASSUME MpeInv, MpeTypeInv', NEW c \in Cpu, call_user_entry(c)
  PROVE  MpeInv'
<1>1. /\ MpeTypeInv /\ BeforeInv /\ CodeInv /\ MessageInv /\ PlaceInv
      /\ AloneInv /\ QuietInv /\ AwaitInv /\ ReadyInv /\ LoadInv
  BY Parts
<1>2. UNCHANGED <<jmp_code, is_ap, ap_ready, ipi, next, ready, loads, halted>>
  BY DEF call_user_entry
<1>3. "user" \in Place /\ go(c, "call_entry", "user")
  BY DEF call_user_entry, Place
<1>4. at[c] = "call_entry" /\ at'[c] = "user" /\ \A d \in Cpu : d # c => at'[d] = at[d]
  BY <1>1, <1>3, Go
<1>5. \A d \in Cpu : Starting(d)' => Starting(d)
  BY <1>2, <1>4 DEF Starting, Coming, Early
<1>6. CASE c # 0
  <2>1. ~Before /\ c \in ready
    BY <1>1, <1>4, <1>6, NotFirst DEF ReadyInv
  <2> QED
    BY <1>2, <1>3, <1>5, <1>6, <2>1, OtherAdvances
<1>7. CASE c = 0
  <2>1. ~Before /\ ~Before' /\ 0 \in Cpu
    BY <1>4, <1>7 DEF Before
  <2>2. BeforeInv' /\ CodeInv'
    BY <1>1, <1>2, <2>1 DEF BeforeInv, CodeInv
  <2>3. MessageInv'
    BY <1>1, <1>2, <1>4, <1>7 DEF MessageInv
  <2>4. PlaceInv'
    BY <1>1, <1>2, <1>4, <1>5, <1>7 DEF PlaceInv
  <2>5. AloneInv'
    BY <1>1, <1>5 DEF AloneInv
  <2>6. QuietInv' /\ AwaitInv'
    BY <1>1, <1>2, <1>4, <1>5, <1>7 DEF QuietInv, AwaitInv
  <2>7. ReadyInv' /\ LoadInv'
    BY <1>1, <1>2, <1>4, <1>7 DEF ReadyInv, LoadInv
  <2> QED
    BY <2>2, <2>3, <2>4, <2>5, <2>6, <2>7 DEF MpeInv
<1> QED
  BY <1>6, <1>7

-------------------------------------------------------------------------------
(* mpe_init.                                                                   *)

LEMMA MpeInitStep ==
  ASSUME MpeInv, MpeTypeInv', NEW c \in Cpu, mpe_init(c)
  PROVE  MpeInv'
<1>1. /\ MpeTypeInv /\ BeforeInv /\ CodeInv /\ MessageInv /\ PlaceInv
      /\ AloneInv /\ QuietInv /\ AwaitInv /\ ReadyInv /\ LoadInv
  BY Parts
<1>2. /\ UNCHANGED <<is_ap, ap_ready, ipi, ready, loads, halted>> /\ jmp_code' = "jmp 0x7c00"
      /\ next' = [next EXCEPT ![c] = Cpu \ {0}]
  BY DEF mpe_init
<1>3. "boot_next" \in Place /\ go(c, "main", "boot_next")
  BY DEF mpe_init, Place
<1>4. at[c] = "main" /\ at'[c] = "boot_next" /\ \A d \in Cpu : d # c => at'[d] = at[d]
  BY <1>1, <1>3, Go
<1>5. c = 0 /\ 0 \in Cpu /\ Before /\ ~Before'
  BY <1>4, NotFirst DEF Before
<1>6. next \in [Cpu -> SUBSET Cpu]
  BY <1>1 DEF MpeTypeInv
<1>7. next'[0] = Cpu \ {0}
  BY <1>2, <1>5, <1>6
<1>8. /\ \A d \in Cpu : ipi'[d] = <<>> /\ (d # 0 => at'[d] = "wait_sipi")
      /\ is_ap' = 0 /\ ap_ready' = 0 /\ halted' = {} /\ at'[0] = "boot_next"
  BY <1>1, <1>2, <1>4, <1>5 DEF BeforeInv
<1>9. \A d \in Cpu : ~Starting(d)'
  BY <1>8 DEF Starting, Coming, Early
<1>10. InitFirst(<<>>) /\ ~InitPending(<<>>)
  BY DEF InitFirst, InitPending
<1>11. BeforeInv' /\ CodeInv'
  BY <1>2, <1>5, <1>8 DEF BeforeInv, CodeInv
<1>12. MessageInv'
  BY <1>5, <1>7, <1>8, <1>10 DEF MessageInv
<1>13. PlaceInv'
  BY <1>5, <1>7, <1>8, <1>9 DEF PlaceInv
<1>14. AloneInv'
  BY <1>9 DEF AloneInv
<1>15. ReadyInv' /\ LoadInv'
  BY <1>1, <1>2, <1>4, <1>5, <1>8 DEF ReadyInv, LoadInv
<1>16. QuietInv' /\ AwaitInv'
  BY <1>5, <1>7, <1>8, <1>9, <1>15 DEF QuietInv, AwaitInv, ReadyInv
<1> QED
  BY <1>11, <1>12, <1>13, <1>14, <1>15, <1>16 DEF MpeInv

\* The queue of a processor that is sent its only wake-up.
LEMMA FirstWakeUp ==
  ASSUME NEW s \in Seq(Message), s = <<>> \o startups
  PROVE  InitFirst(s)
<1>1. s = startups
  BY Startups
<1> QED
  BY <1>1, Startups DEF InitFirst

\* Nobody is starting when the next processor is woken.
LEMMA BootNextStep ==
  ASSUME MpeInv, MpeTypeInv', NEW c \in Cpu, boot_next(c)
  PROVE  MpeInv'
<1>1. /\ MpeTypeInv /\ BeforeInv /\ CodeInv /\ MessageInv /\ PlaceInv
      /\ AloneInv /\ QuietInv /\ AwaitInv /\ ReadyInv /\ LoadInv
  BY Parts
<1>2. UNCHANGED <<jmp_code, ap_ready, ready, loads, halted>>
  BY DEF boot_next
<1>3. at[c] = "boot_next"
  BY DEF boot_next, go
<1>4. c = 0 /\ 0 \in Cpu /\ ~Before
  BY <1>3, NotFirst DEF Before
<1>5. /\ ap_ready = 0
      /\ \A d \in Cpu : ~Starting(d)
      /\ \A d \in Cpu : d \notin next[0] => d \in ready
  BY <1>1, <1>3, <1>4 DEF QuietInv
<1>6. CASE next[c] = {}
  <2>1. "call_entry" \in Place /\ go(c, "boot_next", "call_entry") /\ UNCHANGED <<is_ap, ipi, next>>
    BY <1>6 DEF boot_next, Place
  <2>2. at'[0] = "call_entry" /\ \A d \in Cpu : d # 0 => at'[d] = at[d]
    BY <1>1, <1>4, <2>1, Go
  <2>3. \A d \in Cpu : ~Starting(d)'
    BY <1>2, <1>5, <2>1, <2>2 DEF Starting, Coming, Early
  <2>4. BeforeInv' /\ CodeInv'
    BY <1>1, <1>2, <1>4, <2>1, <2>2 DEF BeforeInv, CodeInv, Before
  <2>5. MessageInv'
    BY <1>1, <1>2, <1>3, <1>4, <2>1, <2>2 DEF MessageInv
  <2>6. PlaceInv'
    BY <1>1, <1>2, <1>4, <2>1, <2>2, <2>3 DEF PlaceInv
  <2>7. AloneInv' /\ QuietInv' /\ AwaitInv'
    BY <1>2, <1>4, <1>5, <1>6, <2>1, <2>2, <2>3 DEF AloneInv, QuietInv, AwaitInv
  <2>8. ReadyInv' /\ LoadInv'
    BY <1>1, <1>2, <1>3, <1>4, <2>2 DEF ReadyInv, LoadInv
  <2> QED
    BY <2>4, <2>5, <2>6, <2>7, <2>8 DEF MpeInv
<1>7. CASE next[c] # {}
  <2> DEFINE t == lowest(next[0])
  <2>1. next \in [Cpu -> SUBSET Cpu] /\ next[0] \in SUBSET Cpu /\ next[0] # {}
    BY <1>1, <1>4, <1>7 DEF MpeTypeInv
  <2>2. t \in next[0] /\ t \in Cpu
    BY <2>1, LowestOf
  <2>3. /\ "await_ap" \in Place /\ go(c, "boot_next", "await_ap") /\ is_ap' = 1 /\ bootap(t)
        /\ next' = [next EXCEPT ![0] = @ \ {t}]
    BY <1>4, <1>7 DEF boot_next, ap_mark, Place
  <2> HIDE DEF t
  <2>4. t # 0 /\ next'[0] = next[0] \ {t}
    BY <1>1, <1>4, <2>1, <2>2, <2>3 DEF PlaceInv
  <2>5. at'[0] = "await_ap" /\ \A d \in Cpu : d # 0 => at'[d] = at[d]
    BY <1>1, <1>4, <2>3, Go
  <2>6. /\ ipi' \in [Cpu -> Seq(Message)]
        /\ \A d \in Cpu : d # t => ipi'[d] = ipi[d]
        /\ ipi'[t] = ipi[t] \o startups
    BY <1>1, <2>2, <2>3, Bootap
  <2>7. \A d \in Cpu : Starting(d)' => d = t
    BY <1>2, <1>5, <2>5, <2>6 DEF Starting, Coming, Early
  <2>8. BeforeInv' /\ CodeInv'
    BY <1>1, <1>2, <1>4, <2>5 DEF BeforeInv, CodeInv, Before
  <2>9. MessageInv'
    <3> SUFFICES ASSUME halted = {} PROVE MessageInv'
      BY <1>2 DEF MessageInv
    <3>1. /\ ipi[0] = <<>>
          /\ \A d \in Cpu : InitFirst(ipi[d]) /\ (InitPending(ipi[d]) => at[d] = "wait_sipi")
          /\ \A d \in Cpu : d \in next[0] => at[d] = "wait_sipi" /\ ipi[d] = <<>>
      BY <1>1, <1>3, <1>4 DEF MessageInv
    <3>2. InitFirst(ipi'[t]) /\ at'[t] = "wait_sipi"
      BY <2>2, <2>4, <2>5, <2>6, <3>1, FirstWakeUp
    <3>3. \A d \in Cpu : at[d] = "wait_sipi" => at'[d] = "wait_sipi"
      BY <1>3, <1>4, <2>5
    <3>4. \A d \in Cpu : InitFirst(ipi'[d]) /\ (InitPending(ipi'[d]) => at'[d] = "wait_sipi")
      BY <2>6, <3>1, <3>2, <3>3
    <3>5. \A d \in Cpu : d \in next'[0] => at'[d] = "wait_sipi" /\ ipi'[d] = <<>>
      BY <2>4, <2>6, <3>1, <3>3
    <3>6. ipi'[0] = <<>>
      BY <1>4, <2>4, <2>6, <3>1
    <3> QED
      BY <3>4, <3>5, <3>6 DEF MessageInv
  <2>10. PlaceInv'
    BY <1>1, <1>2, <1>4, <2>3, <2>4, <2>5 DEF PlaceInv
  <2>11. AloneInv'
    BY <2>7 DEF AloneInv
  <2>12. QuietInv' /\ AwaitInv'
    BY <1>2, <1>5, <2>2, <2>4, <2>5, <2>7 DEF QuietInv, AwaitInv
  <2>13. ReadyInv' /\ LoadInv'
    BY <1>1, <1>2, <1>3, <1>4, <2>5 DEF ReadyInv, LoadInv
  <2> QED
    BY <2>8, <2>9, <2>10, <2>11, <2>12, <2>13 DEF MpeInv
<1> QED
  BY <1>6, <1>7

\* The signal of the processor that was woken ends its start.
LEMMA AwaitStep ==
  ASSUME MpeInv, MpeTypeInv', NEW c \in Cpu, await_ap(c)
  PROVE  MpeInv'
<1>1. /\ MpeTypeInv /\ BeforeInv /\ CodeInv /\ MessageInv /\ PlaceInv
      /\ AloneInv /\ QuietInv /\ AwaitInv /\ ReadyInv /\ LoadInv
  BY Parts
<1>2. UNCHANGED <<jmp_code, is_ap, ipi, next, ready, loads, halted>> /\ ap_ready = 1 /\ ap_ready' = 0
  BY DEF await_ap, taken
<1>3. "boot_next" \in Place /\ go(c, "await_ap", "boot_next")
  BY DEF await_ap, Place
<1>4. at[c] = "await_ap" /\ at'[c] = "boot_next" /\ \A d \in Cpu : d # c => at'[d] = at[d]
  BY <1>1, <1>3, Go
<1>5. c = 0 /\ 0 \in Cpu /\ ~Before /\ ~Before'
  BY <1>4, NotFirst DEF Before
<1>6. /\ \A d \in Cpu : ~Starting(d)
      /\ \A d \in Cpu : d \notin next[0] => d \in ready
  BY <1>1, <1>2, <1>4, <1>5 DEF AwaitInv
<1>7. \A d \in Cpu : ~Starting(d)'
  BY <1>2, <1>4, <1>6 DEF Starting, Coming, Early
<1>8. BeforeInv' /\ CodeInv'
  BY <1>1, <1>2, <1>5 DEF BeforeInv, CodeInv
<1>9. MessageInv'
  <2>1. \A d \in Cpu : at[d] = "wait_sipi" => at'[d] = "wait_sipi"
    BY <1>4
  <2> QED
    BY <1>1, <1>2, <1>4, <1>5, <2>1 DEF MessageInv
<1>10. PlaceInv'
  BY <1>1, <1>2, <1>4, <1>5, <1>7 DEF PlaceInv
<1>11. AloneInv' /\ QuietInv' /\ AwaitInv'
  BY <1>2, <1>4, <1>5, <1>6, <1>7 DEF AloneInv, QuietInv, AwaitInv
<1>12. ReadyInv' /\ LoadInv'
  BY <1>1, <1>2, <1>4, <1>5 DEF ReadyInv, LoadInv
<1> QED
  BY <1>8, <1>9, <1>10, <1>11, <1>12 DEF MpeInv

-------------------------------------------------------------------------------
(* Messages and halts.                                                         *)

\* A message makes nobody start who was not starting: a STARTUP counts for one that
\* waits, and after the INIT of a halt the boot record leads nowhere.
LEMMA DeliverStep ==
  ASSUME MpeInv, MpeTypeInv', NEW c \in Cpu, deliver(c)
  PROVE  MpeInv'
<1>1. /\ MpeTypeInv /\ BeforeInv /\ CodeInv /\ MessageInv /\ PlaceInv
      /\ AloneInv /\ QuietInv /\ AwaitInv /\ ReadyInv /\ LoadInv
  BY Parts
<1>2. UNCHANGED <<jmp_code, is_ap, ap_ready, ready, loads, halted>>
  BY DEF deliver
<1>3. /\ ipi[c] # <<>> /\ \A d \in Cpu : d # c => ipi'[d] = ipi[d]
      /\ \A i \in 1..Len(ipi'[c]) : i + 1 \in 1..Len(ipi[c]) /\ ipi'[c][i] = ipi[c][i + 1]
      /\ 1 \in 1..Len(ipi[c]) /\ Head(ipi[c]) = ipi[c][1]
  BY <1>1, Deliver
<1> DEFINE init == Head(ipi[c]) = "INIT"
<1>4. /\ \A d \in Cpu : d # c => at'[d] = at[d] /\ next'[d] = next[d]
      /\ init => at'[c] = (IF c = 0 THEN "bios" ELSE "wait_sipi") /\ next'[c] = {}
      /\ ~init => at'[c] = (IF at[c] = "wait_sipi" THEN "record" ELSE at[c]) /\ next'[c] = next[c]
  BY <1>1, DeliverEffect
<1>5. init => InitPending(ipi[c])
  BY <1>3 DEF InitPending
<1> HIDE DEF init
<1>6. ~Before /\ 0 \in Cpu
  BY <1>1, <1>3, CpuZero DEF BeforeInv
<1>7. halted = {} => c # 0 /\ (init => at[c] = "wait_sipi")
  BY <1>1, <1>3, <1>5 DEF MessageInv
<1>8. halted # {} => jmp_code = "jmp ."
  BY <1>1, <1>6 DEF CodeInv
<1>9. CASE c = 0 /\ init
  BY <1>2, <1>4, <1>7, <1>9, FirstOut
<1>10. CASE ~(c = 0 /\ init)
  <2>1. at'[0] = at[0] /\ next'[0] = next[0] /\ ~Before'
    BY <1>1, <1>4, <1>6, <1>10 DEF PlaceInv, Before
  <2>2. at'[c] \in {at[c], "wait_sipi", "record"}
    BY <1>4, <1>10
  <2>3. \A d \in Cpu : Starting(d)' => Starting(d)
    <3>1. \A d \in Cpu : d # c => (Starting(d)' => Starting(d))
      BY <1>2, <1>3, <1>4 DEF Starting, Coming
    <3>2. CASE halted # {}
      <4>1. ~Coming(c)'
        BY <1>2, <1>8, <3>2 DEF Coming
      <4>2. Starting(c)' => Starting(c)
        BY <2>2, <4>1 DEF Starting, Early
      <4> QED
        BY <3>1, <4>2
    <3>3. CASE halted = {}
      <4>1. at[c] = "wait_sipi" => (Starting(c)' => Starting(c))
        BY <1>2, <1>3, <2>2, <3>3 DEF Starting, Coming, Early
      <4>2. at[c] # "wait_sipi" => at'[c] = at[c]
        BY <1>4, <1>7, <3>3
      <4>3. at[c] # "wait_sipi" => (Starting(c)' => Starting(c))
        BY <1>2, <4>2 DEF Starting, Coming
      <4> QED
        BY <3>1, <4>1, <4>3
    <3> QED
      BY <3>2, <3>3
  <2>4. BeforeInv' /\ CodeInv'
    BY <1>1, <1>2, <1>6, <2>1 DEF BeforeInv, CodeInv
  <2>5. MessageInv'
    <3> SUFFICES ASSUME halted = {} PROVE MessageInv'
      BY <1>2 DEF MessageInv
    <3>1. InitFirst(ipi[c])
      BY <1>1 DEF MessageInv
    <3>2. ~InitPending(ipi'[c]) /\ InitFirst(ipi'[c])
      <4>1. ASSUME NEW i \in 1..Len(ipi'[c]), ipi'[c][i] = "INIT" PROVE FALSE
        <5>1. i + 1 \in 1..Len(ipi[c]) /\ ipi[c][i + 1] = "INIT"
          BY <1>3, <4>1
        <5>2. i + 1 = 1
          BY <3>1, <5>1 DEF InitFirst
        <5>3. i \in Nat /\ i >= 1
          OBVIOUS
        <5> QED
          BY <5>2, <5>3
      <4> QED
        BY <4>1 DEF InitFirst, InitPending
    <3>3. \A d \in Cpu : InitFirst(ipi'[d]) /\ (InitPending(ipi'[d]) => at'[d] = "wait_sipi")
      BY <1>1, <1>3, <1>4, <3>2 DEF MessageInv
    <3>4. at'[0] \in {"boot_next", "await_ap"} =>
            \A d \in Cpu : d \in next'[0] => at'[d] = "wait_sipi" /\ ipi'[d] = <<>>
      BY <1>1, <1>3, <1>4, <2>1 DEF MessageInv
    <3>5. ipi'[0] = <<>>
      BY <1>1, <1>3, <1>6, <1>7 DEF MessageInv
    <3> QED
      BY <3>3, <3>4, <3>5 DEF MessageInv
  <2>6. PlaceInv'
    BY <1>1, <1>2, <1>4, <2>1, <2>2, <2>3 DEF PlaceInv
  <2>7. AloneInv'
    BY <1>1, <2>3 DEF AloneInv
  <2>8. QuietInv'
    BY <1>1, <1>2, <2>1, <2>3 DEF QuietInv
  <2>9. AwaitInv'
    BY <1>1, <1>2, <2>1, <2>3 DEF AwaitInv
  <2>10. ReadyInv' /\ LoadInv'
    BY <1>1, <1>2, <1>4, <2>1, <2>2 DEF ReadyInv, LoadInv
  <2> QED
    BY <2>4, <2>5, <2>6, <2>7, <2>8, <2>9, <2>10 DEF MpeInv
<1> QED
  BY <1>9, <1>10

LEMMA HaltStep ==
  ASSUME MpeInv, MpeTypeInv', NEW c \in Cpu, halt(c)
  PROVE  MpeInv'
<1>1. /\ MpeTypeInv /\ BeforeInv /\ CodeInv /\ MessageInv /\ PlaceInv
      /\ AloneInv /\ QuietInv /\ AwaitInv /\ ReadyInv /\ LoadInv
  BY Parts
<1>2. /\ UNCHANGED <<is_ap, ap_ready, ipi, ready, loads>> /\ jmp_code' = "jmp ."
      /\ at' = [at EXCEPT ![c] = "stop"] /\ next' = [next EXCEPT ![c] = Cpu \ {c}]
      /\ at[c] \in {"main", "user"}
  BY DEF halt, others
<1>3. halted' # {}
  BY DEF halt
<1>4. at \in [Cpu -> Place] /\ next \in [Cpu -> SUBSET Cpu] /\ 0 \in Cpu
  BY <1>1, CpuZero DEF MpeTypeInv
<1>5. /\ at'[c] = "stop" /\ next'[c] = Cpu \ {c}
      /\ \A d \in Cpu : d # c => at'[d] = at[d] /\ next'[d] = next[d]
  BY <1>2, <1>4
<1>6. ~Before'
  BY <1>2, <1>4, <1>5, NotFirst DEF Before
<1>7. \A d \in Cpu : Starting(d)' => Starting(d)
  BY <1>2, <1>5 DEF Starting, Coming, Early
<1>8. BeforeInv' /\ CodeInv' /\ MessageInv'
  BY <1>2, <1>3, <1>6 DEF BeforeInv, CodeInv, MessageInv
<1>9. PlaceInv'
  <2>1. 0 \notin next'[0] /\ at'[0] \notin {"wait_sipi", "othercpu", "announce"}
    BY <1>1, <1>4, <1>5 DEF PlaceInv
  <2> QED
    BY <1>1, <1>2, <1>3, <1>5, <1>7, <2>1 DEF PlaceInv
<1>10. AloneInv'
  BY <1>1, <1>7 DEF AloneInv
<1>11. CASE c = 0
  <2>1. QuietInv' /\ AwaitInv'
    BY <1>5, <1>11 DEF QuietInv, AwaitInv
  <2>2. ReadyInv' /\ LoadInv'
    BY <1>1, <1>2, <1>4, <1>5, <1>11 DEF ReadyInv, LoadInv
  <2> QED
    BY <1>8, <1>9, <1>10, <2>1, <2>2 DEF MpeInv
<1>12. CASE c # 0
  <2>1. at'[0] = at[0] /\ next'[0] = next[0]
    BY <1>4, <1>5, <1>12
  <2>2. QuietInv'
    BY <1>1, <1>2, <1>7, <2>1 DEF QuietInv
  <2>3. AwaitInv'
    BY <1>1, <1>2, <1>7, <2>1 DEF AwaitInv
  <2>4. ReadyInv' /\ LoadInv'
    BY <1>1, <1>2, <1>5, <2>1 DEF ReadyInv, LoadInv
  <2> QED
    BY <1>8, <1>9, <1>10, <2>2, <2>3, <2>4 DEF MpeInv
<1> QED
  BY <1>11, <1>12

LEMMA StopStep ==
  ASSUME MpeInv, MpeTypeInv', NEW c \in Cpu, stop(c)
  PROVE  MpeInv'
<1>1. /\ MpeTypeInv /\ BeforeInv /\ CodeInv /\ MessageInv /\ PlaceInv
      /\ AloneInv /\ QuietInv /\ AwaitInv /\ ReadyInv /\ LoadInv
  BY Parts
<1>2. /\ UNCHANGED <<at, jmp_code, is_ap, ap_ready, ready, loads, halted>>
      /\ next' = [next EXCEPT ![c] = @ \ {lowest(@)}] /\ at[c] = "stop"
  BY DEF stop
<1>3. next \in [Cpu -> SUBSET Cpu] /\ 0 \in Cpu
  BY <1>1, CpuZero DEF MpeTypeInv
<1>4. next'[c] \subseteq next[c] /\ \A d \in Cpu : d # c => next'[d] = next[d]
  BY <1>2, <1>3
<1>5. halted # {}
  BY <1>1, <1>2 DEF PlaceInv
<1>6. ~Before /\ ~Before' /\ jmp_code = "jmp ."
  BY <1>1, <1>2, <1>5 DEF BeforeInv, CodeInv, Before
<1>7. \A d \in Cpu : Starting(d)' => Starting(d)
  BY <1>2, <1>6 DEF Starting, Coming
<1>8. BeforeInv' /\ CodeInv' /\ MessageInv'
  BY <1>2, <1>5, <1>6 DEF BeforeInv, CodeInv, MessageInv
<1>9. PlaceInv'
  BY <1>1, <1>2, <1>3, <1>4, <1>5, <1>7 DEF PlaceInv
<1>10. AloneInv'
  BY <1>1, <1>7 DEF AloneInv
<1>11. at[0] # "stop" => next'[0] = next[0]
  BY <1>2, <1>3, <1>4
<1>12. QuietInv'
  BY <1>1, <1>2, <1>7, <1>11 DEF QuietInv
<1>13. AwaitInv'
  BY <1>1, <1>2, <1>7, <1>11 DEF AwaitInv
<1>14. ReadyInv' /\ LoadInv'
  BY <1>1, <1>2 DEF ReadyInv, LoadInv
<1> QED
  BY <1>8, <1>9, <1>10, <1>12, <1>13, <1>14 DEF MpeInv

LEMMA MpeInvInit == MpeInit => MpeInv
<1> SUFFICES ASSUME MpeInit PROVE MpeInv
  OBVIOUS
<1>1. /\ \A c \in Cpu : next[c] = {} /\ ipi[c] = <<>> /\ (c # 0 => at[c] = "wait_sipi")
      /\ jmp_code = "none" /\ is_ap = 0 /\ ap_ready = 0 /\ halted = {} /\ loads = 0
      /\ 0 \in Cpu /\ at[0] = "start32"
  BY CpuZero DEF MpeInit
<1>2. \A c \in Cpu : c # 0 => ~Starting(c)
  BY <1>1 DEF Starting, Coming, Early
<1>3. InitFirst(<<>>) /\ ~InitPending(<<>>)
  BY DEF InitFirst, InitPending
<1>4. BeforeInv /\ CodeInv
  BY <1>1 DEF BeforeInv, CodeInv, Before
<1>5. MessageInv
  BY <1>1, <1>3 DEF MessageInv
<1>6. PlaceInv
  BY <1>1, <1>2 DEF PlaceInv
<1>7. AloneInv
  BY <1>2 DEF AloneInv
<1>8. QuietInv /\ AwaitInv /\ ReadyInv
  BY <1>1 DEF QuietInv, AwaitInv, ReadyInv
<1>9. LoadInv
  BY <1>1 DEF LoadInv
<1> QED
  BY <1>4, <1>5, <1>6, <1>7, <1>8, <1>9, MpeTypeInvInit DEF MpeInv

LEMMA MpeInvNext == MpeInv /\ [MpeNext]_mpeVars => MpeInv'
<1> SUFFICES ASSUME MpeInv, [MpeNext]_mpeVars PROVE MpeInv'
  OBVIOUS
<1>1. MpeTypeInv'
  BY Parts, MpeTypeInvNext
<1>2. ASSUME NEW c \in Cpu, Code(c) \/ mpe_init(c) \/ deliver(c) \/ halt(c) PROVE MpeInv'
  <2>1. CASE power_off(c)
    <3>1. UNCHANGED <<at, jmp_code, is_ap, ap_ready, ipi, next, ready, loads, entered, halted>>
      BY <2>1 DEF power_off
    <3> QED
      BY <1>1, <3>1 DEF MpeInv, BeforeInv, CodeInv, MessageInv, PlaceInv, AloneInv, QuietInv, AwaitInv,
                        ReadyInv, LoadInv, Before, Starting, Coming
  <2> QED
    BY <1>1, <1>2, <2>1, RecordStep, WarmResetStep, LoadStep, StartStep, OtherInitStep, AnnounceStep,
       BootNextStep, AwaitStep, EntryStep, StopStep, MpeInitStep, DeliverStep, HaltStep DEF Code
<1>3. CASE UNCHANGED mpeVars
  BY <1>3 DEF mpeVars, MpeInv, MpeTypeInv, BeforeInv, CodeInv, MessageInv, PlaceInv, AloneInv, QuietInv,
              AwaitInv, ReadyInv, LoadInv, Before, Starting, Coming
<1> QED
  BY <1>2, <1>3 DEF MpeNext

-------------------------------------------------------------------------------
(* The messages on their way to a processor.                                   *)

LEMMA SubsetSize ==
  ASSUME NEW B, IsFiniteSet(B), NEW A \in SUBSET B
  PROVE  /\ Cardinality(A) \in Nat /\ Cardinality(B) \in Nat /\ Cardinality(A) <= Cardinality(B)
<1>1. IsFiniteSet(A) /\ Cardinality(A) <= Cardinality(B)
  BY FS_Subset
<1>2. Cardinality(A) \in Nat /\ Cardinality(B) \in Nat
  BY <1>1, FS_CardinalityType
<1> QED
  BY <1>1, <1>2

LEMMA AddSize ==
  ASSUME NEW A, IsFiniteSet(A), NEW x
  PROVE  /\ IsFiniteSet(A \cup {x}) /\ Cardinality(A \cup {x}) <= Cardinality(A) + 1
<1>1. /\ IsFiniteSet(A \cup {x})
      /\ Cardinality(A \cup {x}) = Cardinality(A) \/ Cardinality(A \cup {x}) = Cardinality(A) + 1
  BY FS_AddElement
<1>2. Cardinality(A) \in Nat
  BY FS_CardinalityType
<1> QED
  BY <1>1, <1>2

LEMMA QueueLength ==
  ASSUME MpeTypeInv, NEW d \in Cpu
  PROVE  Len(ipi[d]) \in Nat
<1>1. ipi[d] \in Seq(Message)
  BY DEF MpeTypeInv
<1> QED
  BY <1>1

LEMMA SendersSize ==
  ASSUME NEW c \in Cpu
  PROVE  IsFiniteSet(Senders(c)) /\ Cardinality(Senders(c)) \in Nat
<1>1. Senders(c) \subseteq Cpu
  BY DEF Senders
<1> QED
  BY <1>1, CpuZero, FS_Subset, FS_CardinalityType

LEMMA HaltedSize ==
  ASSUME MpeTypeInv
  PROVE  /\ IsFiniteSet(halted) /\ Cardinality(halted) \in Nat /\ Cardinality(halted) <= NCpu
         /\ NCpu \in Nat
<1>1. halted \subseteq Cpu
  BY DEF MpeTypeInv
<1>2. IsFiniteSet(Cpu) /\ Cardinality(Cpu) = NCpu /\ NCpu \in Nat
  <2>1. NCpu \in Nat \ {0}
    BY X86MpeAssumption
  <2>2. 0 <= NCpu - 1 /\ NCpu - 1 \in Int /\ 0 \in Int /\ NCpu - 1 - 0 + 1 = NCpu
    BY <2>1
  <2>3. IsFiniteSet(0..NCpu - 1) /\ Cardinality(0..NCpu - 1) = NCpu - 1 - 0 + 1
    BY <2>2, FS_Interval
  <2> QED
    BY <2>1, <2>2, <2>3 DEF Cpu
<1>3. IsFiniteSet(halted)
  BY <1>1, <1>2, FS_Subset
<1> QED
  BY <1>1, <1>2, <1>3, SubsetSize

LEMMA HaltedNext == MpeInv /\ HaltedInv /\ [MpeNext]_mpeVars => HaltedInv'
<1> SUFFICES ASSUME MpeInv, HaltedInv, [MpeNext]_mpeVars PROVE HaltedInv'
  OBVIOUS
<1>0. MpeTypeInv /\ at \in [Cpu -> Place] /\ halted \subseteq Cpu
  BY Parts DEF MpeTypeInv
<1>1. halted # {} => jmp_code = "jmp ."
  BY Parts DEF BeforeInv, CodeInv
<1>2. ASSUME NEW c \in Cpu, warm_reset(c) \/ load_kernel(c) \/ _start_c(c) \/ othercpu_init(c)
             \/ announce(c) \/ boot_next(c) \/ await_ap(c) \/ call_user_entry(c) \/ mpe_init(c)
      PROVE  HaltedInv'
  <2>1. halted' = halted
    BY <1>2 DEF warm_reset, load_kernel, _start_c, othercpu_init, announce, boot_next, await_ap,
                call_user_entry, mpe_init
  <2>2. \A d \in Cpu : d # c => at'[d] = at[d]
    BY <1>0, <1>2 DEF warm_reset, load_kernel, _start_c, othercpu_init, announce, boot_next, await_ap,
                      call_user_entry, mpe_init, go
  <2>3. c \in halted => at[c] = "bios" /\ at'[c] = "record"
    BY <1>0, <1>2 DEF HaltedInv, warm_reset, load_kernel, _start_c, othercpu_init, announce, boot_next,
                      await_ap, call_user_entry, mpe_init, go
  <2> QED
    BY <1>0, <2>1, <2>2, <2>3 DEF HaltedInv
<1>3. ASSUME NEW c \in Cpu, record(c) PROVE HaltedInv'
  <2>1. halted' = halted /\ (halted # {} => go(c, "record", "hang"))
    BY <1>1, <1>3 DEF record
  <2>2. halted # {} => at' = [at EXCEPT ![c] = "hang"]
    BY <2>1 DEF go
  <2> QED
    BY <1>0, <2>1, <2>2 DEF HaltedInv
<1>4. ASSUME NEW c \in Cpu, stop(c) \/ power_off(c) PROVE HaltedInv'
  BY <1>4 DEF stop, power_off, HaltedInv
<1>5. ASSUME NEW c \in Cpu, deliver(c) PROVE HaltedInv'
  <2>1. halted' = halted
    BY <1>5 DEF deliver
  <2>2. /\ \A d \in Cpu : d # c => at'[d] = at[d]
        /\ at'[c] \in {"bios", "wait_sipi", "record", at[c]}
    BY <1>0, <1>5, DeliverEffect
  <2> QED
    BY <1>0, <2>1, <2>2 DEF HaltedInv
<1>6. ASSUME NEW c \in Cpu, halt(c) PROVE HaltedInv'
  <2>1. halted' = halted \cup {c} /\ at' = [at EXCEPT ![c] = "stop"]
    BY <1>6 DEF halt
  <2> QED
    BY <1>0, <2>1 DEF HaltedInv
<1>7. CASE UNCHANGED mpeVars
  BY <1>7 DEF mpeVars, HaltedInv
<1> QED
  BY <1>2, <1>3, <1>4, <1>5, <1>6, <1>7 DEF MpeNext, Code

\* One sender less.
LEMMA SentOne ==
  ASSUME MpeTypeInv, CountInv, ~Before, NEW c \in Cpu, NEW t \in next[c], bootap(t),
         next' = [next EXCEPT ![c] = @ \ {t}], halted' = halted
  PROVE  CountInv'
<1>1. next \in [Cpu -> SUBSET Cpu] /\ t \in Cpu
  BY DEF MpeTypeInv
<1>2. Len(ipi'[t]) = Len(ipi[t]) + 3 /\ \A d \in Cpu : d # t => ipi'[d] = ipi[d]
  BY <1>1, Bootap
<1>3. \A d \in Cpu : d # t => Senders(d)' = Senders(d)
  BY <1>1 DEF Senders
<1>4. Senders(t)' = Senders(t) \ {c} /\ c \in Senders(t)
  BY <1>1 DEF Senders
<1>5. Cardinality(Senders(t)') = Cardinality(Senders(t)) - 1
  BY <1>1, <1>4, SendersSize, FS_RemoveElement
<1>6. Len(ipi[t]) \in Nat /\ Cardinality(Senders(t)) \in Nat
  BY <1>1, SendersSize, QueueLength
<1>7. \A d \in Cpu : Len(ipi[d]) + 3 * Cardinality(Senders(d)) <= 3 * (1 + Cardinality(halted))
  BY DEF CountInv
<1>8. Len(ipi'[t]) + 3 * Cardinality(Senders(t)') = Len(ipi[t]) + 3 * Cardinality(Senders(t))
  BY <1>2, <1>5, <1>6
<1>9. \A d \in Cpu : Len(ipi'[d]) + 3 * Cardinality(Senders(d)') <= 3 * (1 + Cardinality(halted))
  BY <1>1, <1>2, <1>3, <1>7, <1>8
<1> QED
  BY <1>9 DEF CountInv

LEMMA CountNext == MpeInv /\ HaltedInv /\ CountInv /\ [MpeNext]_mpeVars => CountInv'
<1> SUFFICES ASSUME MpeInv, HaltedInv, CountInv, [MpeNext]_mpeVars PROVE CountInv'
  OBVIOUS
<1>0. MpeTypeInv /\ next \in [Cpu -> SUBSET Cpu] /\ 0 \in Cpu
  BY Parts, CpuZero DEF MpeTypeInv
<1>1. ASSUME UNCHANGED <<ipi, next, halted>>, ~Before' => ~Before PROVE CountInv'
  BY <1>1 DEF CountInv, Senders
<1>2. ASSUME NEW c \in Cpu, record(c) \/ warm_reset(c) \/ load_kernel(c) \/ othercpu_init(c)
             \/ announce(c) \/ await_ap(c) \/ call_user_entry(c) \/ _start_c(c) \/ power_off(c)
      PROVE  CountInv'
  <2>1. UNCHANGED <<ipi, next, halted>>
    BY <1>2 DEF record, warm_reset, load_kernel, othercpu_init, announce, await_ap, call_user_entry,
                _start_c, power_off
  <2>2. ~Before' => ~Before
    <3> SUFFICES ASSUME Before PROVE Before'
      OBVIOUS
    <3>1. is_ap = 0 /\ \A d \in Cpu : d # 0 => at[d] = "wait_sipi"
      BY Parts DEF BeforeInv
    <3>2. at[c] = "wait_sipi" => FALSE
      BY <1>2 DEF record, warm_reset, load_kernel, othercpu_init, announce, await_ap, call_user_entry,
                  _start_c, power_off, go
    <3>3. CASE power_off(c)
      BY <3>3 DEF power_off, Before
    <3>4. CASE ~power_off(c)
      <4>1. c = 0 /\ at[0] \in {"start32", "_start_c", "main"}
        BY <3>1, <3>2 DEF Before
      <4>2. at' = [at EXCEPT ![0] = "_start_c"] \/ at' = [at EXCEPT ![0] = "main"]
        BY <1>2, <3>1, <3>4, <4>1 DEF record, warm_reset, load_kernel, othercpu_init, announce, await_ap,
                                      call_user_entry, _start_c, go
      <4>3. at \in [Cpu -> Place]
        BY <1>0 DEF MpeTypeInv
      <4> QED
        BY <1>0, <4>2, <4>3 DEF Before
    <3> QED
      BY <3>3, <3>4
  <2> QED
    BY <1>1, <2>1, <2>2
<1>3. ASSUME NEW c \in Cpu, boot_next(c) PROVE CountInv'
  <2>1. at[c] = "boot_next" /\ halted' = halted
    BY <1>3 DEF boot_next, go
  <2>2. ~Before
    BY <2>1, NotFirst DEF Before
  <2>3. CASE next[c] = {}
    BY <1>1, <1>3, <2>2, <2>3 DEF boot_next
  <2>4. CASE next[c] # {}
    <3>1. next[c] \in SUBSET Cpu /\ lowest(next[c]) \in next[c]
      BY <1>0, <2>4, LowestOf
    <3>2. bootap(lowest(next[c])) /\ next' = [next EXCEPT ![c] = @ \ {lowest(next[c])}]
      BY <1>3, <2>4 DEF boot_next
    <3> QED
      BY <1>0, <2>1, <2>2, <3>1, <3>2, SentOne
  <2> QED
    BY <2>3, <2>4
<1>4. ASSUME NEW c \in Cpu, stop(c) PROVE CountInv'
  <2>1. at[c] = "stop" /\ halted' = halted /\ next[c] # {} /\ bootap(lowest(next[c]))
        /\ next' = [next EXCEPT ![c] = @ \ {lowest(next[c])}]
    BY <1>4 DEF stop
  <2>2. ~Before
    BY <2>1, NotFirst DEF Before
  <2>3. next[c] \in SUBSET Cpu /\ lowest(next[c]) \in next[c]
    BY <1>0, <2>1, LowestOf
  <2> QED
    BY <1>0, <2>1, <2>2, <2>3, SentOne
<1>5. ASSUME NEW c \in Cpu, mpe_init(c) PROVE CountInv'
  <2>1. at[c] = "main" /\ UNCHANGED <<ipi, halted>> /\ next' = [next EXCEPT ![c] = Cpu \ {0}]
    BY <1>5 DEF mpe_init, go
  <2>2. c = 0 /\ Before
    BY <2>1, NotFirst DEF Before
  <2>3. (\A d \in Cpu : next[d] = {} /\ ipi[d] = <<>>) /\ halted = {}
    BY <2>2, Parts DEF BeforeInv
  <2>4. ASSUME NEW d \in Cpu PROVE Len(ipi'[d]) + 3 * Cardinality(Senders(d)') <= 3 * (1 + Cardinality(halted'))
    <3>1. Senders(d)' \subseteq {0}
      BY <1>0, <2>1, <2>2, <2>3 DEF Senders
    <3>2. Cardinality(Senders(d)') \in Nat /\ Cardinality(Senders(d)') <= 1
      <4>1. IsFiniteSet({0}) /\ Cardinality({0}) = 1
        BY FS_Singleton
      <4> QED
        BY <3>1, <4>1, SubsetSize
    <3>3. Len(ipi'[d]) = 0
      BY <2>1, <2>3
    <3>4. Cardinality(halted') = 0
      <4>1. halted' = {}
        BY <2>1, <2>3
      <4> QED
        BY <4>1, FS_EmptySet
    <3> QED
      BY <3>2, <3>3, <3>4
  <2> QED
    BY <2>4 DEF CountInv
<1>6. ASSUME NEW c \in Cpu, deliver(c) PROVE CountInv'
  <2>1. ~Before /\ halted' = halted
    BY <1>6, Parts DEF BeforeInv, deliver
  <2>2. /\ ipi[c] \in Seq(Message) /\ ipi'[c] = Tail(ipi[c]) /\ Len(ipi'[c]) = Len(ipi[c]) - 1
        /\ \A d \in Cpu : d # c => ipi'[d] = ipi[d]
    BY <1>0, <1>6, Deliver
  <2>3. \A d \in Cpu : next'[d] = next[d] \/ next'[d] = {}
    BY <1>0, <1>6, DeliverEffect
  <2>4. ASSUME NEW d \in Cpu PROVE Len(ipi'[d]) + 3 * Cardinality(Senders(d)') <= 3 * (1 + Cardinality(halted'))
    <3>1. Senders(d)' \subseteq Senders(d)
      BY <2>3 DEF Senders
    <3>2. Cardinality(Senders(d)') <= Cardinality(Senders(d)) /\ Cardinality(Senders(d)') \in Nat
      BY <3>1, SendersSize, SubsetSize
    <3>3. Len(ipi'[d]) <= Len(ipi[d]) /\ Len(ipi'[d]) \in Nat /\ Len(ipi[d]) \in Nat
      <4>1. Len(ipi[d]) \in Nat /\ Len(ipi[c]) \in Nat
        BY <1>0, QueueLength
      <4>2. ipi'[d] \in Seq(Message)
        BY <1>0, <1>6, Deliver
      <4>3. Len(ipi'[d]) \in Nat
        BY <4>2
      <4>4. Len(ipi'[c]) = Len(ipi[c]) - 1 /\ (d # c => ipi'[d] = ipi[d])
        BY <2>2
      <4> QED
        BY <4>1, <4>3, <4>4
    <3>4. Len(ipi[d]) + 3 * Cardinality(Senders(d)) <= 3 * (1 + Cardinality(halted))
      BY <2>1 DEF CountInv
    <3>5. Cardinality(Senders(d)) \in Nat /\ halted' = halted
      BY <2>1, SendersSize
    <3>6. Cardinality(halted) \in Nat /\ Cardinality(halted') = Cardinality(halted)
      BY <1>0, <2>1, HaltedSize
    <3> QED
      BY <3>2, <3>3, <3>4, <3>5, <3>6
  <2> QED
    BY <2>4 DEF CountInv
<1>7. ASSUME NEW c \in Cpu, halt(c) PROVE CountInv'
  <2>1. /\ ipi' = ipi /\ halted' = halted \cup {c} /\ next' = [next EXCEPT ![c] = others(c)]
        /\ at[c] \in {"main", "user"}
    BY <1>7 DEF halt
  <2>2. Cardinality(halted) \in Nat /\ Cardinality(halted') = Cardinality(halted) + 1
    <3>1. c \notin halted
      BY <2>1 DEF HaltedInv
    <3> QED
      BY <1>0, <2>1, <3>1, HaltedSize, FS_AddElement
  <2>3. ASSUME NEW d \in Cpu PROVE Len(ipi[d]) + 3 * Cardinality(Senders(d)) <= 3 * (1 + Cardinality(halted))
    <3>1. CASE Before
      <4>1. ipi[d] = <<>> /\ Senders(d) = {}
        BY <3>1, Parts DEF BeforeInv, Senders
      <4>2. Len(ipi[d]) = 0 /\ Cardinality(Senders(d)) = 0
        BY <4>1, FS_EmptySet
      <4> QED
        BY <2>2, <4>2
    <3>2. CASE ~Before
      BY <3>2 DEF CountInv
    <3> QED
      BY <3>1, <3>2
  <2>4. ASSUME NEW d \in Cpu PROVE Len(ipi'[d]) + 3 * Cardinality(Senders(d)') <= 3 * (1 + Cardinality(halted'))
    <3>1. Senders(d)' \subseteq Senders(d) \cup {c}
      BY <1>0, <2>1 DEF Senders
    <3>2. IsFiniteSet(Senders(d) \cup {c}) /\ Cardinality(Senders(d) \cup {c}) <= Cardinality(Senders(d)) + 1
      BY SendersSize, AddSize
    <3>3. /\ Cardinality(Senders(d)') <= Cardinality(Senders(d) \cup {c})
          /\ Cardinality(Senders(d)') \in Nat /\ Cardinality(Senders(d) \cup {c}) \in Nat
      BY <3>1, <3>2, SubsetSize
    <3>4. Len(ipi[d]) \in Nat /\ Cardinality(Senders(d)) \in Nat
      BY <1>0, SendersSize, QueueLength
    <3>5. Len(ipi[d]) + 3 * Cardinality(Senders(d)) <= 3 * (1 + Cardinality(halted))
      BY <2>3
    <3>6. Len(ipi'[d]) = Len(ipi[d])
      BY <2>1
    <3> QED
      BY <2>2, <3>2, <3>3, <3>4, <3>5, <3>6
  <2> QED
    BY <2>4 DEF CountInv
<1>8. CASE UNCHANGED mpeVars
  BY <1>1, <1>8 DEF mpeVars, Before
<1> QED
  BY <1>2, <1>3, <1>4, <1>5, <1>6, <1>7, <1>8 DEF MpeNext, Code

-------------------------------------------------------------------------------
(* The theorem.                                                                *)

LEMMA OffType ==
  /\ MpeInit => off \in BOOLEAN
  /\ off \in BOOLEAN /\ [MpeNext]_mpeVars => off' \in BOOLEAN
<1>1. MpeInit => off \in BOOLEAN
  BY DEF MpeInit
<1>2. ASSUME MpeNext, off \in BOOLEAN PROVE off' \in BOOLEAN
  <2>1. off' = off \/ off' = TRUE
    BY <1>2, Zenon DEF MpeNext, Code, record, warm_reset, load_kernel, _start_c, othercpu_init, announce,
         boot_next, await_ap, call_user_entry, stop, power_off, mpe_init, deliver, halt
  <2> QED
    BY <1>2, <2>1
<1>3. UNCHANGED mpeVars => off' = off
  BY DEF mpeVars
<1> QED
  BY <1>1, <1>2, <1>3

\* What the inductive invariant says of the boot stack, the image and the entry.
LEMMA InOrder ==
  ASSUME MpeInv, CountInv, off \in BOOLEAN
  PROVE  StartsInOrder
<1>1. /\ MpeTypeInv /\ BeforeInv /\ CodeInv /\ MessageInv /\ PlaceInv
      /\ AloneInv /\ QuietInv /\ AwaitInv /\ ReadyInv /\ LoadInv
  BY Parts
<1>2. ASSUME NEW c \in Cpu PROVE Len(ipi[c]) <= 3 * (1 + NCpu)
  <2>1. Cardinality(halted) \in Nat /\ Cardinality(halted) <= NCpu /\ NCpu \in Nat
    BY <1>1, HaltedSize
  <2>2. Len(ipi[c]) \in Nat /\ Cardinality(Senders(c)) \in Nat
    BY <1>1, QueueLength, SendersSize
  <2>3. CASE Before
    <3>1. Len(ipi[c]) = 0
      BY <1>1, <2>3 DEF BeforeInv
    <3> QED
      BY <2>1, <3>1
  <2>4. CASE ~Before
    <3>1. Len(ipi[c]) + 3 * Cardinality(Senders(c)) <= 3 * (1 + Cardinality(halted))
      BY <2>4 DEF CountInv
    <3> QED
      BY <2>1, <2>2, <3>1
  <2> QED
    BY <2>3, <2>4
<1>3. MpeTypeOK
  <2>1. is_ap \in 0..1 /\ ap_ready \in 0..1
    <3>1. is_ap \in {0, 1} /\ ap_ready \in {0, 1}
      BY <1>1 DEF MpeTypeInv
    <3> QED
      BY <3>1
  <2>2. loads \in 0..2
    BY <1>1 DEF LoadInv
  <2>3. /\ at \in [Cpu -> Place] /\ jmp_code \in {"none", "jmp 0x7c00", "jmp ."}
        /\ next \in [Cpu -> SUBSET Cpu]
        /\ ready \subseteq Cpu /\ entered \subseteq Cpu /\ halted \subseteq Cpu
    BY <1>1 DEF MpeTypeInv
  <2> QED
    BY <1>2, <2>1, <2>2, <2>3 DEF MpeTypeOK, Place
<1>4. BootStackAlone
  <2> DEFINE S == {c \in Cpu : at[c] \in {"start32", "_start_c"}}
  <2>1. \A c, d \in S : c = d
    BY <1>1 DEF AloneInv, Starting, Early
  <2>2. \E x : S \subseteq {x}
    <3>1. CASE S = {}
      BY <3>1
    <3>2. CASE S # {}
      BY <2>1, <3>2
    <3> QED
      BY <3>1, <3>2
  <2> HIDE DEF S
  <2>3. PICK x : S \subseteq {x}
    BY <2>2
  <2>4. IsFiniteSet({x}) /\ Cardinality({x}) = 1
    BY FS_Singleton
  <2>5. Cardinality(S) <= 1
    BY <2>3, <2>4, SubsetSize
  <2> QED
    BY <2>5 DEF BootStackAlone, S
<1>5. LoadedOnce
  BY <1>1 DEF LoadInv, LoadedOnce
<1>6. EntersReady
  <2>1. 0 \in Cpu /\ ready \subseteq Cpu
    BY <1>1, CpuZero DEF MpeTypeInv
  <2>2. at[0] = "user" => \A c \in Cpu : c \in ready
    BY <1>1 DEF QuietInv
  <2>3. \A c \in Cpu : at[c] = "user" => c \in ready
    BY <1>1, <2>1, <2>2 DEF ReadyInv
  <2> QED
    BY <2>1, <2>2, <2>3 DEF EntersReady
<1> QED
  BY <1>3, <1>4, <1>5, <1>6 DEF StartsInOrder

\* Processors start in order, for every number of them and whoever halts: one at a
\* time is on the boot stack, the image is loaded once, nobody
\* runs the program before its own initialisation nor the first processor before all
\* of them; and the messages under way are bounded.
THEOREM MpeStartsInOrder == MpeSpec => []StartsInOrder
<1> DEFINE MInv == MpeInv /\ HaltedInv /\ CountInv /\ off \in BOOLEAN
<1>1. MpeInit => MInv
  <2>1. MpeInit => Before
    BY CpuZero DEF MpeInit, Before
  <2>2. MpeInit => HaltedInv
    BY DEF MpeInit, HaltedInv
  <2> QED
    BY <2>1, <2>2, MpeInvInit, OffType DEF CountInv
<1>2. MInv /\ [MpeNext]_mpeVars => MInv'
  BY MpeInvNext, HaltedNext, CountNext, OffType
<1>3. MInv => StartsInOrder
  BY InOrder
<1> QED
  BY <1>1, <1>2, <1>3, PTL DEF MpeSpec

------------------------------------------------------------------------------
(* Page tables.                                                               *)

\* Every page the allocator has given away is the table of one space, or of the
\* kernel, at one level, on the way to one address.  A placement says which; it is
\* the witness of the invariant.
Addr == [1 .. PtLevels -> Index]
Owner == Space \cup {KernelAs}
Placement == [Page -> [own : Owner, lev : 1 .. PtLevels, adr : Addr]]
Used == Page \ free
Agree(v, w, k) == \A j \in 1 .. PtLevels : j <= k => v[j] = w[j]
At(g, p, s, v, l) == p \in Used /\ g[p].own = s /\ g[p].lev = l /\ Agree(g[p].adr, v, l - 1)
IsUser(s) == s # KernelAs

\* What teardown has still to look at: all entries of a table it has not come to.
OnStack(p) == \E k \in 1 .. Len(stack) : stack[k].pt = p
Pending(p, x) == \A k \in 1 .. Len(stack) : stack[k].pt = p => x \in stack[k].todo

\* No two tables are for the same addresses, and the kernel's are on the way to its areas.
PosInv(g) ==
  /\ \A p, q \in Used : g[q].own = g[p].own /\ g[q].lev = g[p].lev
                          /\ Agree(g[q].adr, g[p].adr, g[p].lev - 1) => p = q
  /\ \A p \in Used : g[p].own = KernelAs => g[p].adr \in KernelPage

\* as->ptr leads to the table of level 1, and a space that has any table has that one.
RootInv(g) ==
  /\ \A s \in live \cup {KernelAs} : ptr[s].p =>
       LET r == ptr[s].to IN
       r \in Used /\ g[r].own = s /\ g[r].lev = 1 /\ ptr[s] = Entry(r, IsUser(s))
  /\ \A s \in live : ptr[s].p
  /\ \A p \in Used : g[p].own \in live \cup {KernelAs} =>
       ptr[g[p].own].p /\ (g[p].lev = 1 => ptr[g[p].own].to = p)

\* Entries of a space's top level that are the kernel's.
Shared(g, p, x) == IsUser(g[p].own) /\ g[p].lev = 1 /\ x \in KernelTop

\* An entry above the last level leads to the table of the next level.
Down(g, p, x) ==
  /\ Shared(g, p, x) => ptr[KernelAs].p /\ tab[p][x] = tab[kpt][x]
  /\ ~Shared(g, p, x) /\ tab[p][x].p =>
       LET c == tab[p][x].to IN
       /\ tab[p][x] = Entry(c, IsUser(g[p].own)) /\ c \in Used /\ g[c].own = g[p].own
       /\ g[c].lev = g[p].lev + 1
       /\ Agree(g[c].adr, g[p].adr, g[p].lev - 1) /\ g[c].adr[g[p].lev] = x
ChildInv(g) == \A p \in Used, x \in Index : Pending(p, x) /\ g[p].lev < PtLevels => Down(g, p, x)

\* A table below the first level is linked from the level above.
Parent(g, q, p) ==
  LET x == g[p].adr[g[q].lev] IN
  /\ q \in Used /\ g[q].own = g[p].own /\ g[p].lev = g[q].lev + 1
  /\ Agree(g[q].adr, g[p].adr, g[q].lev - 1)
  /\ Pending(q, x) /\ tab[q][x] = Entry(p, IsUser(g[p].own))
ParentInv(g) == \A p \in Used : g[p].lev > 1 /\ ~OnStack(p) => \E q \in Page : Parent(g, q, p)

\* Users have frames, which they may use.
LeafInv(g) ==
  \A p \in Used, x \in Index : g[p].lev = PtLevels /\ IsUser(g[p].own) /\ tab[p][x].p =>
    tab[p][x].to \in Frame /\ tab[p][x].u

\* The kernel's addresses that vme_init has mapped.
KMapped(g, v) == \E p \in Page : At(g, p, KernelAs, v, PtLevels) /\ tab[p][v[PtLevels]] = Entry(v, FALSE)
ToInit == CASE op.name = "init" -> op.left [] op.name = "init_walk" -> op.left \cup {op.va} [] OTHER -> {}
KernelInv(g) == \A v \in KernelPage : v \notin ToInit => KMapped(g, v)

\* A walk stands before an entry of the table on its way.
WalkInv(g) ==
  /\ op.name \in {"init_walk", "map", "unmap", "walk_again"} =>
       IF op.i = 0 THEN op.cur = op.as ELSE At(g, op.cur, op.as, op.va, op.i)
  /\ op.name \in {"map", "unmap", "walk_again"} => op.as \in live
  /\ op.name \in {"init", "init_walk"} => live = {}

\* Outside teardown every table is of a living space, or the kernel's.
AliveInv(g) ==
  op.name # "teardown" => stack = <<>> /\ \A p \in Used : g[p].own \in live \cup {KernelAs}

\* In teardown the tables of the dying space d hang from those on the stack, which lead
\* from its top level down.
Dying(g, d) ==
  /\ d \in Space \ live
  /\ \A p \in Used : g[p].own \in live \cup {KernelAs, d}
  /\ \A p \in Used : g[p].own = d /\ g[p].lev = 1 => OnStack(p)
  /\ \A k \in 1 .. Len(stack) :
       /\ stack[k].pt \in Used /\ g[stack[k].pt].own = d
       /\ stack[k].level = Len(stack) - k + 1 /\ g[stack[k].pt].lev = stack[k].level
  /\ \A k \in 1 .. Len(stack) - 1 :
       LET q == stack[k + 1].pt IN
       /\ Agree(g[q].adr, g[stack[k].pt].adr, g[q].lev - 1)
       /\ g[stack[k].pt].adr[g[q].lev] \notin stack[k + 1].todo
DyingInv(g) == op.name = "teardown" => \E d \in Space : Dying(g, d)

Core(g) == PosInv(g) /\ RootInv(g) /\ ChildInv(g) /\ ParentInv(g) /\ LeafInv(g)
Inv(g) == Core(g) /\ KernelInv(g) /\ WalkInv(g) /\ AliveInv(g) /\ DyingInv(g)

OpSet ==
  {Idle} \cup [name : {"teardown"}] \cup [name : {"init"}, left : SUBSET KernelPage]
  \cup [name : {"init_walk"}, as : {KernelAs}, va : KernelPage, left : SUBSET KernelPage,
        i : 0 .. PtLevels, cur : Page \cup {KernelAs}]
  \cup [name : {"map"}, as : Space, va : UserPage, f : Frame, i : 0 .. PtLevels, cur : Page \cup Space]
  \cup [name : {"unmap", "walk_again"}, as : Space, va : UserPage, f : {"none"},
        i : 0 .. PtLevels, cur : Page \cup Space]
StackFrame == [pt : Page, level : 1 .. PtLevels, todo : SUBSET Index]

TypeInv ==
  /\ free \subseteq Page
  /\ tab \in [Page -> [Index -> Entries]]
  /\ ptr \in [Owner -> Entries]
  /\ live \subseteq Space
  /\ panicked \in BOOLEAN
  /\ op \in OpSet
  /\ stack \in Seq(StackFrame)

IInv == TypeInv /\ \E g \in Placement : Inv(g)

-----------------------------------------------------------------------------
(* Numbers, entries, addresses. *)
LEMMA EntryFields ==
  /\ ~Zero.p /\ Zero.p \in BOOLEAN
  /\ \A to, u : /\ Entry(to, u).p /\ Entry(to, u).p \in BOOLEAN
                /\ Entry(to, u).u = u /\ Entry(to, u).to = to
BY DEF Zero, Entry

LEMMA EntryCases ==
  ASSUME NEW e \in Entries
  PROVE  /\ e.p \in BOOLEAN
         /\ e.p => e = Entry(e.to, e.u) /\ e.to \in Target /\ e.u \in BOOLEAN
         /\ ~e.p => e = Zero
<1>1. CASE e = Zero
  <2>1. ~e.p /\ e.p \in BOOLEAN
    BY <1>1, EntryFields, Zenon
  <2> QED
    BY <1>1, <2>1, Zenon
<1>2. ASSUME NEW to \in Target, NEW u \in BOOLEAN, e = Entry(to, u)
      PROVE  e.p /\ e.p \in BOOLEAN /\ e = Entry(e.to, e.u) /\ e.to \in Target /\ e.u \in BOOLEAN
  BY <1>2, EntryFields, Zenon
<1>3. e = Zero \/ \E to \in Target, u \in BOOLEAN : e = Entry(to, u)
  BY DEF Entries
<1> QED
  BY <1>1, <1>2, <1>3, Zenon

LEMMA EntryTypes ==
  /\ Zero \in Entries
  /\ \A to \in Target, u \in BOOLEAN : Entry(to, u) \in Entries
BY DEF Entries

LEMMA AgreeFacts ==
  ASSUME NEW v, NEW w, NEW k \in Nat, Agree(v, w, k)
  PROVE  /\ Agree(w, v, k)
         /\ \A m \in Nat : m <= k => Agree(v, w, m)
         /\ \A u : Agree(w, u, k) => Agree(v, u, k)
         /\ v[k + 1] = w[k + 1] => Agree(v, w, k + 1)
<1>1. \A m \in Nat : m <= k => Agree(v, w, m)
  BY X86VmeAssumption DEF Agree
<1>2. ASSUME v[k + 1] = w[k + 1] PROVE Agree(v, w, k + 1)
  <2> SUFFICES ASSUME NEW j \in 1 .. PtLevels, j <= k + 1 PROVE v[j] = w[j]
    BY DEF Agree
  <2>1. j <= k \/ j = k + 1
    BY X86VmeAssumption
  <2> QED
    BY <1>2, <2>1 DEF Agree
<1> QED
  BY <1>1, <1>2 DEF Agree

LEMMA AgreeSym ==
  ASSUME NEW v, NEW w, NEW k, Agree(v, w, k)
  PROVE  Agree(w, v, k)
BY DEF Agree

LEMMA AgreeTrans ==
  ASSUME NEW v, NEW w, NEW u, NEW k, Agree(v, w, k), Agree(w, u, k)
  PROVE  Agree(v, u, k)
BY DEF Agree

\* f is what the MMU meets, with r in as->ptr and t in the tables.
Course(f, r, t, va, m) ==
  f = [i \in 0 .. m |->
        IF i = 0 THEN r
        ELSE IF f[i - 1].p /\ f[i - 1].to \in Page THEN t[f[i - 1].to][va[i]] ELSE Zero]

LEMMA CourseExists ==
  ASSUME NEW r, NEW t, NEW va
  PROVE  \A m \in Nat : \E f : Course(f, r, t, va, m)
<1> DEFINE S == {m \in Nat : \E f : Course(f, r, t, va, m)}
<1>1. 0 \in S
  <2>1. Course([i \in 0 .. 0 |-> r], r, t, va, 0)
    BY DEF Course
  <2> QED
    BY <2>1
<1>2. ASSUME NEW m \in S PROVE m + 1 \in S
  <2>1. PICK f : Course(f, r, t, va, m)
    OBVIOUS
  <2> DEFINE last == IF f[m].p /\ f[m].to \in Page THEN t[f[m].to][va[m + 1]] ELSE Zero
             h == [i \in 0 .. m + 1 |-> IF i = m + 1 THEN last ELSE f[i]]
  <2>2. ASSUME NEW i \in 0 .. m + 1
        PROVE  h[i] = IF i = 0 THEN r
                      ELSE IF h[i - 1].p /\ h[i - 1].to \in Page THEN t[h[i - 1].to][va[i]] ELSE Zero
    <3>1. CASE i = m + 1
      <4>1. i # 0 /\ i - 1 = m /\ h[m] = f[m] /\ h[i] = last
        BY <3>1
      <4> QED
        BY <3>1, <4>1
    <3>2. CASE i # m + 1
      <4>1. i \in 0 .. m /\ h[i] = f[i]
        BY <3>2
      <4>2. i # 0 => i - 1 \in 0 .. m /\ h[i - 1] = f[i - 1]
        BY <3>2
      <4>3. f[i] = IF i = 0 THEN r
                   ELSE IF f[i - 1].p /\ f[i - 1].to \in Page THEN t[f[i - 1].to][va[i]] ELSE Zero
        BY <2>1, <4>1, Zenon DEF Course
      <4> HIDE DEF h
      <4> QED
        BY <4>1, <4>2, <4>3, Zenon
    <3> QED
      BY <3>1, <3>2
  <2>3. Course(h, r, t, va, m + 1)
    <3>1. h = [i \in 0 .. m + 1 |-> h[i]]
      OBVIOUS
    <3> HIDE DEF h
    <3> QED
      BY <3>1, <2>2, Zenon DEF Course
  <2> HIDE DEF h
  <2>4. m + 1 \in Nat /\ \E f2 : Course(f2, r, t, va, m + 1)
    BY <2>3
  <2> QED
    BY <2>4
<1> HIDE DEF S
<1>3. S \in SUBSET Nat
  BY DEF S
<1>4. S = Nat
  BY <1>1, <1>2, <1>3, InductNat
<1> QED
  BY <1>4, Zenon DEF S

LEMMA MetIs ==
  ASSUME NEW s, NEW va
  PROVE  /\ Met(s, va)[0] = ptr[s]
         /\ \A i \in 1 .. PtLevels : Met(s, va)[i] =
              IF Met(s, va)[i - 1].p /\ Met(s, va)[i - 1].to \in Page
              THEN tab[Met(s, va)[i - 1].to][va[i]] ELSE Zero
<1> DEFINE f == Met(s, va)
<1>1. PtLevels \in Nat
  BY X86VmeAssumption
<1>2. \E h : Course(h, ptr[s], tab, va, PtLevels)
  BY <1>1, CourseExists
<1>3. Course(f, ptr[s], tab, va, PtLevels)
  BY <1>2, Zenon DEF Met, Course
<1> HIDE DEF f
<1>4. \A i \in 0 .. PtLevels : f[i] =
        IF i = 0 THEN ptr[s]
        ELSE IF f[i - 1].p /\ f[i - 1].to \in Page THEN tab[f[i - 1].to][va[i]] ELSE Zero
  BY <1>3, Zenon DEF Course
<1>5. 0 \in 0 .. PtLevels /\ \A i \in 1 .. PtLevels : i \in 0 .. PtLevels /\ i # 0
  BY <1>1
<1>6. f[0] = ptr[s]
  BY <1>4, <1>5, Zenon
<1>7. \A i \in 1 .. PtLevels : f[i] =
        IF f[i - 1].p /\ f[i - 1].to \in Page THEN tab[f[i - 1].to][va[i]] ELSE Zero
  BY <1>4, <1>5, Zenon
<1> QED
  BY <1>6, <1>7 DEF f

-----------------------------------------------------------------------------
(* What the MMU meets, read off the placement. *)

LEMMA Settled ==
  ASSUME NEW g \in Placement, Inv(g), NEW p \in Used, g[p].own \in live \cup {KernelAs}
  PROVE  ~OnStack(p) /\ \A x : Pending(p, x)
<1>1. \A k \in 1 .. Len(stack) : stack[k].pt # p
  <2>1. CASE op.name # "teardown"
    BY <2>1 DEF Inv, AliveInv
  <2>2. CASE op.name = "teardown"
    <3>1. PICK d \in Space : Dying(g, d)
      BY <2>2 DEF Inv, DyingInv
    <3>2. d \notin live /\ d # KernelAs
      BY <3>1, X86VmeAssumption DEF Dying
    <3>3. \A k \in 1 .. Len(stack) : g[stack[k].pt].own = d
      BY <3>1 DEF Dying
    <3> QED
      BY <3>2, <3>3
  <2> QED
    BY <2>1, <2>2
<1> QED
  BY <1>1, Zenon DEF OnStack, Pending

\* The entries of a table that is not being torn down.
LEMMA ChildOf ==
  ASSUME NEW g \in Placement, Inv(g), NEW p \in Used, g[p].own \in live \cup {KernelAs},
         NEW x \in Index, g[p].lev < PtLevels, ~Shared(g, p, x), tab[p][x].p
  PROVE  /\ tab[p][x] = Entry(tab[p][x].to, IsUser(g[p].own))
         /\ tab[p][x].u <=> IsUser(g[p].own)
         /\ tab[p][x].to \in Used /\ g[tab[p][x].to].own = g[p].own
         /\ g[tab[p][x].to].lev = g[p].lev + 1
         /\ Agree(g[tab[p][x].to].adr, g[p].adr, g[p].lev - 1)
         /\ g[tab[p][x].to].adr[g[p].lev] = x
<1> DEFINE c == tab[p][x].to
<1>1. Pending(p, x)
  BY Settled
<1>2. Down(g, p, x)
  BY <1>1 DEF Inv, Core, ChildInv
<1>3. /\ tab[p][x] = Entry(c, IsUser(g[p].own))
      /\ c \in Used /\ g[c].own = g[p].own /\ g[c].lev = g[p].lev + 1
      /\ Agree(g[c].adr, g[p].adr, g[p].lev - 1) /\ g[c].adr[g[p].lev] = x
  BY <1>2 DEF Down
<1>4. Entry(c, IsUser(g[p].own)).u = IsUser(g[p].own)
  BY EntryFields
<1>5. tab[p][x].u = IsUser(g[p].own)
  BY <1>3, <1>4, Zenon
<1> QED
  BY <1>3, <1>5, Zenon

LEMMA SharedOf ==
  ASSUME TypeInv, NEW g \in Placement, Inv(g), NEW p \in Used, g[p].own \in live,
         NEW x \in KernelTop, g[p].lev = 1
  PROVE  /\ ptr[KernelAs].p /\ tab[p][x] = tab[kpt][x] /\ At(g, kpt, KernelAs, g[kpt].adr, 1)
         /\ tab[p][x].p => ~tab[p][x].u
<1>1. x \in Index /\ 1 < PtLevels /\ IsUser(g[p].own) /\ ~IsUser(KernelAs)
      /\ KernelAs \in live \cup {KernelAs}
  BY X86VmeAssumption DEF IsUser, TypeInv
<1>2. Pending(p, x)
  BY Settled
<1>3. Down(g, p, x)
  BY <1>1, <1>2 DEF Inv, Core, ChildInv
<1>4. ptr[KernelAs].p /\ tab[p][x] = tab[kpt][x]
  BY <1>1, <1>3 DEF Down, Shared
<1>5. kpt \in Used /\ g[kpt].own = KernelAs /\ g[kpt].lev = 1
  BY <1>1, <1>4 DEF Inv, Core, RootInv, kpt
<1>6. At(g, kpt, KernelAs, g[kpt].adr, 1)
  BY <1>5 DEF At, Agree
<1>7. ASSUME tab[kpt][x].p PROVE ~tab[kpt][x].u
  <2>1. ~Shared(g, kpt, x)
    BY <1>1, <1>5 DEF Shared
  <2>2. tab[kpt][x].u <=> IsUser(g[kpt].own)
    BY <1>1, <1>5, <1>7, <2>1, ChildOf
  <2> QED
    BY <1>1, <1>5, <2>2
<1> QED
  BY <1>4, <1>6, <1>7, Zenon

\* A path of present entries, the user's in a user's space, leads to the table for its
\* address.
LEMMA PathDown ==
  ASSUME TypeInv, NEW g \in Placement, Inv(g), NEW s \in live \cup {KernelAs}, NEW va \in Addr,
         NEW n \in 0 .. PtLevels - 1,
         \A j \in 0 .. n : Met(s, va)[j].p /\ (IsUser(s) => Met(s, va)[j].u)
  PROVE  At(g, Met(s, va)[n].to, s, va, n + 1)
<1> DEFINE f == Met(s, va)
           S == {m \in Nat : m <= n => At(g, f[m].to, s, va, m + 1)}
<1>1. f[0] = ptr[s] /\ \A i \in 1 .. PtLevels : f[i] =
         IF f[i - 1].p /\ f[i - 1].to \in Page THEN tab[f[i - 1].to][va[i]] ELSE Zero
  BY MetIs
<1>2. \A j \in 0 .. n : f[j].p /\ (IsUser(s) => f[j].u)
  OBVIOUS
<1> HIDE DEF f
<1>3. 0 \in S
  <2>1. 0 \in 0 .. n /\ 0 \in Nat
    BY X86VmeAssumption
  <2>2. ptr[s].p
    BY <1>1, <1>2, <2>1
  <2>3. f[0].to \in Used /\ g[f[0].to].own = s /\ g[f[0].to].lev = 1
    BY <1>1, <2>2 DEF Inv, Core, RootInv
  <2>4. At(g, f[0].to, s, va, 1)
    BY <2>3 DEF At, Agree
  <2> QED
    BY <2>1, <2>4
<1>4. ASSUME NEW m \in S PROVE m + 1 \in S
  <2> SUFFICES ASSUME m + 1 <= n PROVE At(g, f[m + 1].to, s, va, m + 2)
    OBVIOUS
  <2> DEFINE p == f[m].to
             x == va[m + 1]
  <2>1. m \in Nat /\ m <= n /\ m \in 0 .. n /\ m + 1 \in 0 .. n /\ m + 1 \in 1 .. PtLevels
        /\ m + 1 < PtLevels /\ m + 1 - 1 = m
    BY X86VmeAssumption
  <2>2. p \in Used /\ g[p].own = s /\ g[p].lev = m + 1 /\ Agree(g[p].adr, va, m)
    <3>1. At(g, p, s, va, m + 1)
      BY <2>1
    <3> QED
      BY <2>1, <3>1 DEF At
  <2>3. x \in Index
    BY <2>1 DEF Addr
  <2>4. f[m + 1] = tab[p][x]
    <3>1. f[m].p /\ f[m].to \in Page
      BY <1>2, <2>1, <2>2 DEF Used
    <3> QED
      BY <1>1, <2>1, <3>1
  <2>5. tab[p][x].p /\ (IsUser(s) => tab[p][x].u)
    BY <1>2, <2>1, <2>4, Zenon
  <2>7. ~Shared(g, p, x)
    <3> SUFFICES ASSUME Shared(g, p, x) PROVE FALSE
      OBVIOUS
    <3>1. x \in KernelTop /\ IsUser(s) /\ g[p].lev = 1 /\ g[p].own \in live
      BY <2>2 DEF Shared, IsUser
    <3>2. tab[p][x].p => ~tab[p][x].u
      BY <2>2, <3>1, SharedOf
    <3> QED
      BY <2>5, <3>1, <3>2
  <2>8. f[m + 1].to \in Used /\ g[f[m + 1].to].own = s /\ g[f[m + 1].to].lev = m + 2
        /\ Agree(g[f[m + 1].to].adr, g[p].adr, m) /\ g[f[m + 1].to].adr[m + 1] = x
    <3>1. /\ tab[p][x].to \in Used /\ g[tab[p][x].to].own = g[p].own
          /\ g[tab[p][x].to].lev = g[p].lev + 1
          /\ Agree(g[tab[p][x].to].adr, g[p].adr, g[p].lev - 1)
          /\ g[tab[p][x].to].adr[g[p].lev] = x
      <4>1. g[p].own \in live \cup {KernelAs} /\ g[p].lev < PtLevels
        BY <2>1, <2>2
      <4> HIDE DEF p, x
      <4> QED
        BY <2>2, <2>3, <2>5, <2>7, <4>1, ChildOf
    <3>2. g[p].lev + 1 = m + 2 /\ g[p].lev - 1 = m
      BY <2>1, <2>2
    <3> QED
      BY <2>2, <2>4, <3>1, <3>2, Zenon
  <2>9. Agree(g[f[m + 1].to].adr, va, m + 1)
    BY <2>1, <2>2, <2>8, AgreeFacts
  <2> QED
    BY <2>1, <2>8, <2>9 DEF At
<1> HIDE DEF S
<1>5. S \in SUBSET Nat
  BY DEF S
<1>6. S = Nat
  BY <1>3, <1>4, <1>5, InductNat
<1>7. n \in Nat /\ n <= n
  BY X86VmeAssumption
<1> QED
  BY <1>6, <1>7 DEF S, f

\* The tables on the way to a table are met on the way to any address it is for.
LEMMA PathUp ==
  ASSUME TypeInv, NEW g \in Placement, Inv(g), NEW s \in live \cup {KernelAs}, NEW va \in Addr
  PROVE  \A m \in Nat : \A p \in Used : At(g, p, s, va, m + 1) =>
           /\ Met(s, va)[m] = Entry(p, IsUser(s))
           /\ \A j \in 0 .. m : \E q \in Used : /\ At(g, q, s, va, j + 1)
                                                /\ Met(s, va)[j] = Entry(q, IsUser(s))
<1> DEFINE f == Met(s, va)
           Reached(m, p) ==
             /\ f[m] = Entry(p, IsUser(s))
             /\ \A j \in 0 .. m : \E q \in Used : At(g, q, s, va, j + 1) /\ f[j] = Entry(q, IsUser(s))
           S == {m \in Nat : \A p \in Used : At(g, p, s, va, m + 1) => Reached(m, p)}
<1>1. f[0] = ptr[s] /\ \A i \in 1 .. PtLevels : f[i] =
         IF f[i - 1].p /\ f[i - 1].to \in Page THEN tab[f[i - 1].to][va[i]] ELSE Zero
  BY MetIs
<1> HIDE DEF f
<1>2. 0 \in S
  <2> SUFFICES ASSUME NEW p \in Used, At(g, p, s, va, 0 + 1) PROVE Reached(0, p)
    OBVIOUS
  <2>1. g[p].own = s /\ g[p].lev = 1
    BY DEF At
  <2>2. ptr[s].p /\ ptr[s].to = p
    BY <2>1 DEF Inv, Core, RootInv
  <2>3. ptr[s] = Entry(p, IsUser(s))
    BY <2>2 DEF Inv, Core, RootInv
  <2>4. f[0] = Entry(p, IsUser(s))
    BY <1>1, <2>3, Zenon
  <2>5. \A j \in 0 .. 0 : j = 0
    OBVIOUS
  <2> QED
    BY <2>4, <2>5
<1>3. ASSUME NEW m \in S PROVE m + 1 \in S
  <2> SUFFICES ASSUME NEW p \in Used, At(g, p, s, va, (m + 1) + 1) PROVE Reached(m + 1, p)
    OBVIOUS
  <2>1. m \in Nat /\ g[p].own = s /\ g[p].lev = m + 2 /\ Agree(g[p].adr, va, m + 1)
    BY DEF At
  <2>2. m + 1 \in 1 .. PtLevels /\ m + 1 - 1 = m
    <3>1. g[p].lev \in 1 .. PtLevels
      BY DEF Placement, Used
    <3> QED
      BY <2>1, <3>1, X86VmeAssumption
  <2>3. PICK q \in Page : Parent(g, q, p)
    <3>1. ~OnStack(p) /\ g[p].lev > 1
      BY <2>1, Settled
    <3> QED
      BY <3>1 DEF Inv, Core, ParentInv
  <2>4. g[q].lev = m + 1
    <3>1. g[q].lev \in 1 .. PtLevels /\ g[p].lev = g[q].lev + 1
      BY <2>3 DEF Placement, Parent
    <3> QED
      BY <2>1, <3>1, X86VmeAssumption
  <2>5. g[p].adr[m + 1] = va[m + 1] /\ Agree(g[p].adr, va, m)
    BY <2>1, <2>2 DEF Agree
  <2>6. /\ q \in Used /\ g[q].own = s /\ Agree(g[q].adr, g[p].adr, m)
        /\ tab[q][va[m + 1]] = Entry(p, IsUser(s))
    BY <2>1, <2>2, <2>3, <2>4, <2>5 DEF Parent
  <2>7. At(g, q, s, va, m + 1)
    <3>1. Agree(g[q].adr, va, m)
      BY <2>1, <2>5, <2>6, AgreeFacts
    <3> QED
      BY <2>2, <2>4, <2>6, <3>1 DEF At
  <2>8. Reached(m, q)
    BY <2>6, <2>7
  <2>9. f[m + 1] = Entry(p, IsUser(s))
    <3>1. f[m].p /\ f[m].to \in Page
      BY <2>8, EntryFields
    <3>2. f[m].to = q
      BY <2>8, EntryFields
    <3>3. f[m + 1] = tab[q][va[m + 1]]
      BY <1>1, <2>2, <3>1, <3>2
    <3> QED
      BY <2>6, <3>3
  <2>10. ASSUME NEW j \in 0 .. m + 1
         PROVE  \E r \in Used : At(g, r, s, va, j + 1) /\ f[j] = Entry(r, IsUser(s))
    <3>1. CASE j = m + 1
      BY <2>9, <3>1
    <3>2. CASE j # m + 1
      <4>1. j \in 0 .. m
        BY <2>1, <3>2
      <4> QED
        BY <2>8, <4>1
    <3> QED
      BY <3>1, <3>2
  <2> QED
    BY <2>9, <2>10
<1>4. S = Nat
  <2> HIDE DEF S
  <2>1. S \in SUBSET Nat
    BY DEF S
  <2> QED
    BY <1>2, <1>3, <2>1, InductNat
<1> QED
  BY <1>4 DEF f

\* What the MMU finds below the last level.
LEMMA MetLast ==
  ASSUME TypeInv, NEW g \in Placement, Inv(g), NEW s \in live \cup {KernelAs}, NEW va \in Addr,
         NEW p \in Used, At(g, p, s, va, PtLevels)
  PROVE  /\ Met(s, va)[PtLevels] = tab[p][va[PtLevels]]
         /\ \A j \in 0 .. PtLevels - 1 : Met(s, va)[j].p /\ Met(s, va)[j].u = IsUser(s)
<1> DEFINE f == Met(s, va)
           m == PtLevels - 1
<1>1. f[0] = ptr[s] /\ \A i \in 1 .. PtLevels : f[i] =
         IF f[i - 1].p /\ f[i - 1].to \in Page THEN tab[f[i - 1].to][va[i]] ELSE Zero
  BY MetIs
<1>2. m \in Nat /\ m + 1 = PtLevels /\ PtLevels \in 1 .. PtLevels
  BY X86VmeAssumption
<1>3. /\ f[m] = Entry(p, IsUser(s))
      /\ \A j \in 0 .. m : \E q \in Used : At(g, q, s, va, j + 1) /\ f[j] = Entry(q, IsUser(s))
  <2>1. At(g, p, s, va, m + 1)
    BY <1>2, Zenon
  <2> QED
    BY <1>2, <2>1, PathUp
<1> HIDE DEF f
<1>4. f[PtLevels] = tab[p][va[PtLevels]]
  <2>1. f[m].p /\ f[m].to = p /\ f[m].to \in Page
    BY <1>3, EntryFields DEF Used
  <2> QED
    BY <1>1, <1>2, <2>1
<1>5. \A j \in 0 .. m : f[j].p /\ f[j].u = IsUser(s)
  BY <1>3, EntryFields
<1> QED
  BY <1>4, <1>5 DEF f

\* The invariant gives the properties.
LEMMA KernelIsIntact ==
  ASSUME TypeInv, NEW g \in Placement, Inv(g)
  PROVE  KernelIntact
<1> SUFFICES ASSUME NEW s \in live, NEW va \in KernelPage
             PROVE  Met(s, va)[PtLevels] = Entry(va, FALSE)
  BY DEF KernelIntact
<1> DEFINE f == Met(s, va)
           h == Met(KernelAs, va)
           S == {m \in Nat : m + 1 <= PtLevels => f[m + 1] = h[m + 1]}
<1>1. /\ f[0] = ptr[s] /\ h[0] = ptr[KernelAs]
      /\ \A i \in 1 .. PtLevels : f[i] =
           IF f[i - 1].p /\ f[i - 1].to \in Page THEN tab[f[i - 1].to][va[i]] ELSE Zero
      /\ \A i \in 1 .. PtLevels : h[i] =
           IF h[i - 1].p /\ h[i - 1].to \in Page THEN tab[h[i - 1].to][va[i]] ELSE Zero
  BY MetIs
<1>2. va \in Addr /\ va[1] \in KernelTop
  BY DEF KernelPage, Addr
<1>3. PtLevels \in Nat /\ 1 \in 1 .. PtLevels
  BY X86VmeAssumption
<1>4. KMapped(g, va)
  <2>1. op.name # "init" /\ op.name # "init_walk"
    BY DEF Inv, WalkInv
  <2>2. va \notin ToInit
    BY <2>1 DEF ToInit
  <2> QED
    BY <2>2 DEF Inv, KernelInv
<1>5. PICK p \in Page : At(g, p, KernelAs, va, PtLevels) /\ tab[p][va[PtLevels]] = Entry(va, FALSE)
  BY <1>4 DEF KMapped
<1>6. h[PtLevels] = Entry(va, FALSE)
  <2>1. p \in Used /\ KernelAs \in live \cup {KernelAs}
    BY <1>5 DEF At
  <2>2. h[PtLevels] = tab[p][va[PtLevels]]
    BY <1>2, <1>5, <2>1, MetLast
  <2> QED
    BY <1>5, <2>2
<1> HIDE DEF f, h
<1>7. 0 \in S
  <2> DEFINE r == ptr[s].to
  <2>1. ptr[s].p /\ r \in Used /\ g[r].own = s /\ g[r].lev = 1
    BY DEF Inv, Core, RootInv
  <2>2. ptr[KernelAs].p /\ tab[r][va[1]] = tab[kpt][va[1]] /\ At(g, kpt, KernelAs, g[kpt].adr, 1)
    BY <1>2, <2>1, SharedOf
  <2>3. f[1] = tab[r][va[1]]
    <3>1. f[0].p /\ f[0].to = r /\ r \in Page
      BY <1>1, <2>1 DEF Used
    <3> QED
      BY <1>1, <1>3, <3>1
  <2>4. h[1] = tab[kpt][va[1]]
    <3>1. h[0].p /\ h[0].to = kpt /\ kpt \in Page
      BY <1>1, <2>2 DEF Used, At, kpt
    <3> QED
      BY <1>1, <1>3, <3>1
  <2> QED
    BY <2>2, <2>3, <2>4
<1>8. ASSUME NEW m \in S PROVE m + 1 \in S
  <2> SUFFICES ASSUME m + 2 <= PtLevels PROVE f[m + 2] = h[m + 2]
    BY <1>3
  <2>1. f[m + 1] = h[m + 1] /\ m + 2 \in 1 .. PtLevels /\ m + 2 - 1 = m + 1
    BY <1>3
  <2> QED
    BY <1>1, <2>1
<1>9. S = Nat
  <2> HIDE DEF S
  <2>1. S \in SUBSET Nat
    BY DEF S
  <2> QED
    BY <1>7, <1>8, <2>1, InductNat
<1>10. f[PtLevels] = h[PtLevels]
  <2>1. PtLevels - 1 \in Nat /\ PtLevels - 1 + 1 = PtLevels
    BY X86VmeAssumption
  <2>2. PtLevels - 1 \in S
    BY <1>9, <2>1
  <2> QED
    BY <2>1, <2>2, <1>3
<1> QED
  BY <1>6, <1>10 DEF f

LEMMA TablesPlaced ==
  ASSUME TypeInv, NEW g \in Placement, Inv(g)
  PROVE  /\ \A s \in live : Tables(s) = {p \in Used : g[p].own = s}
         /\ KernelTables = {p \in Used : g[p].own = KernelAs}
<1>1. KernelAs \notin live /\ PtLevels \in Nat /\ PtLevels > 1
  BY X86VmeAssumption DEF TypeInv
<1>2. ASSUME NEW s \in live \cup {KernelAs}, NEW va \in Addr, NEW i \in 0 .. PtLevels - 1,
             \A j \in 0 .. i : Met(s, va)[j].p /\ (IsUser(s) => Met(s, va)[j].u)
      PROVE  Met(s, va)[i].to \in Used /\ g[Met(s, va)[i].to].own = s
  <2>1. At(g, Met(s, va)[i].to, s, va, i + 1)
    BY <1>2, PathDown
  <2> QED
    BY <2>1 DEF At
<1>3. ASSUME NEW p \in Used, g[p].own \in live \cup {KernelAs}
      PROVE  \E i \in 0 .. PtLevels - 1 :
               /\ p = Met(g[p].own, g[p].adr)[i].to
               /\ \A j \in 0 .. i : /\ Met(g[p].own, g[p].adr)[j].p
                                    /\ IsUser(g[p].own) => Met(g[p].own, g[p].adr)[j].u
  <2> DEFINE s == g[p].own
             va == g[p].adr
             i == g[p].lev - 1
             f == Met(s, va)
  <2>1. va \in Addr /\ g[p].lev \in 1 .. PtLevels
    BY DEF Placement, Used
  <2>2. i \in Nat /\ i \in 0 .. PtLevels - 1 /\ i + 1 = g[p].lev
    BY <1>1, <2>1
  <2>3. At(g, p, s, va, i + 1)
    BY <2>2 DEF At, Agree
  <2> HIDE DEF s, va, i
  <2>4. /\ f[i] = Entry(p, IsUser(s))
        /\ \A j \in 0 .. i : \E q \in Used : At(g, q, s, va, j + 1) /\ f[j] = Entry(q, IsUser(s))
    <3>1. s \in live \cup {KernelAs}
      BY <1>3 DEF s
    <3> QED
      BY <2>1, <2>2, <2>3, <3>1, PathUp DEF va
  <2>5. p = f[i].to /\ \A j \in 0 .. i : f[j].p /\ (IsUser(s) => f[j].u)
    <3> HIDE DEF f
    <3> QED
      BY <2>4, EntryFields
  <2> QED
    BY <2>2, <2>5 DEF s, va
<1>4. ASSUME NEW s \in live PROVE Tables(s) = {p \in Used : g[p].own = s}
  <2>1. IsUser(s)
    BY <1>1 DEF IsUser
  <2>2. ASSUME NEW p \in Tables(s) PROVE p \in Used /\ g[p].own = s
    <3>1. PICK va \in Addr, i \in 0 .. PtLevels - 1 :
             p = Met(s, va)[i].to /\ \A j \in 0 .. i : Met(s, va)[j].p /\ Met(s, va)[j].u
      BY DEF Tables, Addr
    <3> QED
      BY <1>2, <3>1
  <2>3. ASSUME NEW p \in Used, g[p].own = s PROVE p \in Tables(s)
    <3>1. PICK i \in 0 .. PtLevels - 1 :
             p = Met(s, g[p].adr)[i].to
             /\ \A j \in 0 .. i : Met(s, g[p].adr)[j].p /\ Met(s, g[p].adr)[j].u
      BY <1>3, <2>1, <2>3
    <3>2. g[p].adr \in [1 .. PtLevels -> Index]
      BY DEF Placement, Used, Addr
    <3> QED
      BY <3>1, <3>2 DEF Tables
  <2> QED
    BY <2>2, <2>3
<1>5. KernelTables = {p \in Used : g[p].own = KernelAs}
  <2>1. ~IsUser(KernelAs) /\ KernelAs \in live \cup {KernelAs}
    BY DEF IsUser
  <2>2. ASSUME NEW p \in KernelTables PROVE p \in Used /\ g[p].own = KernelAs
    <3>1. PICK va \in KernelPage, i \in 0 .. PtLevels - 1 :
             p = Met(KernelAs, va)[i].to /\ \A j \in 0 .. i : Met(KernelAs, va)[j].p
      BY DEF KernelTables
    <3>2. va \in Addr
      BY DEF KernelPage, Addr
    <3> QED
      BY <1>2, <2>1, <3>1, <3>2
  <2>3. ASSUME NEW p \in Used, g[p].own = KernelAs PROVE p \in KernelTables
    <3>1. PICK i \in 0 .. PtLevels - 1 :
             p = Met(KernelAs, g[p].adr)[i].to /\ \A j \in 0 .. i : Met(KernelAs, g[p].adr)[j].p
      BY <1>3, <2>1, <2>3
    <3>2. g[p].adr \in KernelPage
      BY <2>3 DEF Inv, Core, PosInv
    <3> QED
      BY <3>1, <3>2 DEF KernelTables
  <2> QED
    BY <2>2, <2>3
<1> QED
  BY <1>4, <1>5

LEMMA PagesAreAccounted ==
  ASSUME TypeInv, NEW g \in Placement, Inv(g)
  PROVE  PagesAccounted
<1>1. /\ \A s \in live : Tables(s) = {p \in Used : g[p].own = s}
      /\ KernelTables = {p \in Used : g[p].own = KernelAs}
  BY TablesPlaced
<1>2. TypeOK
  <2>1. op.name \in {"idle", "init", "init_walk", "map", "unmap", "walk_again", "teardown"}
    BY DEF TypeInv, OpSet, Idle
  <2>2. \A k \in 1 .. Len(stack) : stack[k].pt \in Page /\ stack[k].level \in 1 .. PtLevels
                                   /\ stack[k].todo \subseteq Index
    <3>1. stack \in Seq(StackFrame)
      BY DEF TypeInv
    <3>2. \A k \in 1 .. Len(stack) : stack[k] \in StackFrame
      BY <3>1
    <3> QED
      BY <3>2 DEF StackFrame
  <2> QED
    BY <2>1, <2>2 DEF TypeInv, TypeOK, Owner
<1>3. ASSUME op = Idle PROVE Page = free \cup KernelTables \cup UNION {Tables(s) : s \in live}
  <2>1. op.name # "teardown"
    BY <1>3 DEF Idle
  <2>2. \A p \in Used : g[p].own \in live \cup {KernelAs}
    BY <2>1 DEF Inv, AliveInv
  <2>3. \A p \in Used : p \in KernelTables \/ \E s \in live : p \in Tables(s)
    BY <1>1, <2>2
  <2>4. KernelTables \subseteq Page /\ \A s \in live : Tables(s) \subseteq Page
    BY <1>1 DEF Used
  <2>5. free \subseteq Page /\ Page = free \cup Used
    BY DEF TypeInv, Used
  <2> QED
    BY <2>3, <2>4, <2>5
<1>4. \A s \in live : Tables(s) \cap (free \cup KernelTables) = {}
  <2>1. KernelAs \notin live
    BY X86VmeAssumption DEF TypeInv
  <2> QED
    BY <1>1, <2>1 DEF Used
<1>5. \A s, t \in live : s # t => Tables(s) \cap Tables(t) = {}
  BY <1>1
<1> QED
  BY <1>2, <1>3, <1>4, <1>5 DEF PagesAccounted

\* What the abstract spaces hold: the entry of the last level's table.
Sees(s, va) == IF UserMay(s, va) THEN Translation(s, va) ELSE "unmapped"
Held(g, s, va, to) ==
  /\ \A p \in Used : At(g, p, s, va, PtLevels) =>
       to = IF tab[p][va[PtLevels]].p THEN tab[p][va[PtLevels]].to ELSE "unmapped"
  /\ (\A p \in Used : ~At(g, p, s, va, PtLevels)) => to = "unmapped"
SeesHeld == \A g \in Placement : TypeInv /\ Inv(g) =>
              \A s \in live, va \in UserPage : Held(g, s, va, Sees(s, va))

LEMMA MappingHeld == SeesHeld
<1> SUFFICES ASSUME NEW g \in Placement, TypeInv, Inv(g), NEW s \in live, NEW va \in UserPage
             PROVE  Held(g, s, va, Sees(s, va))
  BY DEF SeesHeld
<1> DEFINE f == Met(s, va)
<1>1. va \in Addr /\ IsUser(s) /\ s \in live \cup {KernelAs} /\ PtLevels \in Nat /\ PtLevels > 1
  BY X86VmeAssumption DEF Addr, IsUser, TypeInv
<1>2. ASSUME NEW p \in Used, At(g, p, s, va, PtLevels)
      PROVE  Sees(s, va) = IF tab[p][va[PtLevels]].p THEN tab[p][va[PtLevels]].to ELSE "unmapped"
  <2> DEFINE e == tab[p][va[PtLevels]]
  <2>1. f[PtLevels] = e /\ \A j \in 0 .. PtLevels - 1 : f[j].p /\ f[j].u
    BY <1>1, <1>2, MetLast
  <2>2. e.p => e.u
    <3>1. va[PtLevels] \in Index /\ g[p].lev = PtLevels /\ g[p].own = s
      BY <1>1, <1>2 DEF At, Addr
    <3> QED
      BY <1>1, <3>1 DEF Inv, Core, LeafInv
  <2> HIDE DEF f, e
  <2>3. UserMay(s, va) <=> e.p
    <3>1. UserMay(s, va) <=> \A i \in 0 .. PtLevels : f[i].p /\ f[i].u
      BY DEF UserMay, f
    <3>2. PtLevels \in 0 .. PtLevels /\ \A i \in 0 .. PtLevels : i = PtLevels \/ i \in 0 .. PtLevels - 1
      BY <1>1
    <3> QED
      BY <2>1, <2>2, <3>1, <3>2, Zenon
  <2>4. Translation(s, va) = IF e.p THEN e.to ELSE "unmapped"
    BY <2>1, Zenon DEF Translation, f
  <2>5. Sees(s, va) = IF e.p THEN e.to ELSE "unmapped"
    BY <2>3, <2>4, Zenon DEF Sees
  <2> QED
    BY <2>5 DEF e
<1>3. ASSUME \A p \in Used : ~At(g, p, s, va, PtLevels) PROVE Sees(s, va) = "unmapped"
  <2> SUFFICES ASSUME UserMay(s, va) PROVE FALSE
    BY DEF Sees
  <2>1. \A j \in 0 .. PtLevels - 1 : f[j].p /\ f[j].u
    BY <1>1 DEF UserMay
  <2>2. At(g, f[PtLevels - 1].to, s, va, PtLevels - 1 + 1)
    BY <1>1, <2>1, PathDown
  <2>3. PtLevels - 1 + 1 = PtLevels
    BY <1>1
  <2> HIDE DEF f
  <2>4. At(g, f[PtLevels - 1].to, s, va, PtLevels)
    BY <2>2, <2>3
  <2> QED
    BY <1>3, <2>4 DEF At
<1> QED
  BY <1>2, <1>3, Zenon DEF Held

-----------------------------------------------------------------------------
(* Steps of a walk that change no table. *)

Walks == {"init_walk", "map", "unmap", "walk_again"}

LEMMA WalkType ==
  ASSUME TypeInv, op.name \in Walks
  PROVE  /\ op.i \in 0 .. PtLevels /\ op.va \in Addr /\ op.as \in Owner
         /\ op.name = "init_walk" <=> op.as = KernelAs
         /\ op.name = "init_walk" => op.va \in KernelPage /\ op.left \in SUBSET KernelPage
                                     /\ op.cur \in Page \cup {KernelAs}
         /\ op.name # "init_walk" => op.va \in UserPage /\ op.va[1] \notin KernelTop
                                     /\ op.as \in Space /\ op.cur \in Page \cup Space
         /\ op.name = "map" => op.f \in Frame
         /\ op.name \in {"unmap", "walk_again"} => op.f = "none"
<1>1. op.name = "init_walk" =>
        op \in [name : {"init_walk"}, as : {KernelAs}, va : KernelPage, left : SUBSET KernelPage,
                i : 0 .. PtLevels, cur : Page \cup {KernelAs}]
  BY DEF TypeInv, OpSet, Walks, Idle
<1>2. op.name = "map" =>
        op \in [name : {"map"}, as : Space, va : UserPage, f : Frame, i : 0 .. PtLevels,
                cur : Page \cup Space]
  BY DEF TypeInv, OpSet, Walks, Idle
<1>3. op.name \in {"unmap", "walk_again"} =>
        op \in [name : {"unmap", "walk_again"}, as : Space, va : UserPage, f : {"none"},
                i : 0 .. PtLevels, cur : Page \cup Space]
  BY DEF TypeInv, OpSet, Walks, Idle
<1>4. KernelPage \subseteq Addr /\ UserPage \subseteq Addr
  BY X86VmeAssumption DEF KernelPage, Addr
<1>5. CASE op.name = "init_walk"
  BY <1>1, <1>4, <1>5 DEF Owner
<1>6. CASE op.name = "map"
  BY <1>2, <1>4, <1>6, X86VmeAssumption DEF Owner
<1>7. CASE op.name \in {"unmap", "walk_again"}
  BY <1>3, <1>4, <1>7, X86VmeAssumption DEF Owner
<1> QED
  BY <1>5, <1>6, <1>7 DEF Walks

\* The walk goes one level down, to page c.
LEMMA Descends ==
  ASSUME TypeInv, op.name \in Walks, op.i < PtLevels, NEW c \in Page,
         op' = [op EXCEPT !.i = @ + 1, !.cur = c]
  PROVE  /\ op' \in OpSet /\ op'.name = op.name /\ op'.as = op.as /\ op'.va = op.va
         /\ op'.i = op.i + 1 /\ op'.cur = c
         /\ op.name = "init_walk" => op'.left = op.left
<1>1. op.i + 1 \in 0 .. PtLevels
  BY WalkType, X86VmeAssumption
<1>2. op.name = "init_walk" =>
        op \in [name : {"init_walk"}, as : {KernelAs}, va : KernelPage, left : SUBSET KernelPage,
                i : 0 .. PtLevels, cur : Page \cup {KernelAs}]
  BY DEF TypeInv, OpSet, Walks, Idle
<1>3. op.name = "map" =>
        op \in [name : {"map"}, as : Space, va : UserPage, f : Frame, i : 0 .. PtLevels,
                cur : Page \cup Space]
  BY DEF TypeInv, OpSet, Walks, Idle
<1>4. op.name \in {"unmap", "walk_again"} =>
        op \in [name : {"unmap", "walk_again"}, as : Space, va : UserPage, f : {"none"},
                i : 0 .. PtLevels, cur : Page \cup Space]
  BY DEF TypeInv, OpSet, Walks, Idle
<1>5. CASE op.name = "init_walk"
  BY <1>1, <1>2, <1>5 DEF OpSet
<1>6. CASE op.name = "map"
  BY <1>1, <1>3, <1>6 DEF OpSet
<1>7. CASE op.name \in {"unmap", "walk_again"}
  BY <1>1, <1>4, <1>7 DEF OpSet
<1> QED
  BY <1>5, <1>6, <1>7 DEF Walks

\* Nothing but op changes.
LEMMA CoreKept ==
  ASSUME NEW g \in Placement, UNCHANGED <<free, tab, ptr, live, stack>>
  PROVE  /\ Core(g) => Core(g)'
         /\ \A p, s, v, l : At(g, p, s, v, l) => At(g, p, s, v, l)'
         /\ \A v : KMapped(g, v) => KMapped(g, v)'
<1>1. Used' = Used /\ kpt' = kpt
  BY DEF Used, kpt
<1>2. \A p, x : Pending(p, x)' <=> Pending(p, x)
  BY DEF Pending
<1>3. \A p : OnStack(p)' <=> OnStack(p)
  BY DEF OnStack
<1>4. \A p, s, v, l : At(g, p, s, v, l)' <=> At(g, p, s, v, l)
  BY <1>1 DEF At
<1>5. PosInv(g) => PosInv(g)'
  BY <1>1 DEF PosInv
<1>6. RootInv(g) => RootInv(g)'
  BY <1>1 DEF RootInv
<1>7. \A p, x : Down(g, p, x)' <=> Down(g, p, x)
  BY <1>1 DEF Down
<1>8. ChildInv(g) => ChildInv(g)'
  BY <1>1, <1>2, <1>7 DEF ChildInv
<1>9. \A p, q : Parent(g, q, p)' <=> Parent(g, q, p)
  BY <1>1, <1>2 DEF Parent
<1>10. ParentInv(g) => ParentInv(g)'
  BY <1>1, <1>3, <1>9 DEF ParentInv
<1>11. LeafInv(g) => LeafInv(g)'
  BY <1>1 DEF LeafInv
<1>12. \A v : KMapped(g, v)' <=> KMapped(g, v)
  BY <1>4 DEF KMapped
<1> QED
  BY <1>4, <1>5, <1>6, <1>8, <1>10, <1>11, <1>12 DEF Core

\* Such steps, outside teardown.
LEMMA OpStep ==
  ASSUME NEW g \in Placement, Inv(g), UNCHANGED <<free, tab, ptr, live, stack>>,
         op.name # "teardown", op'.name # "teardown",
         ToInit \subseteq ToInit',
         WalkInv(g)'
  PROVE  Inv(g)'
<1>1. Core(g)' /\ \A v : KMapped(g, v) => KMapped(g, v)'
  BY CoreKept DEF Inv
<1>2. KernelInv(g)'
  BY <1>1 DEF Inv, KernelInv
<1>3. AliveInv(g)' /\ DyingInv(g)'
  BY DEF Inv, AliveInv, DyingInv, Used
<1> QED
  BY <1>1, <1>2, <1>3 DEF Inv

LEMMA InitNext ==
  ASSUME TypeInv, NEW g \in Placement, Inv(g), init_next
  PROVE  TypeInv' /\ Inv(g)'
<1>1. op.name = "init" /\ UNCHANGED <<free, tab, ptr, live, stack, panicked>>
  BY DEF init_next
<1>2. op.left \subseteq KernelPage
  BY <1>1 DEF TypeInv, OpSet, Idle
<1>3. live = {}
  BY <1>1 DEF Inv, WalkInv
<1>4. CASE op.left # {} /\ LET va == CHOOSE v \in op.left : TRUE IN
            op' = [name |-> "init_walk", as |-> KernelAs, va |-> va, left |-> op.left \ {va},
                   i |-> 0, cur |-> KernelAs]
  <2>1. PICK va \in op.left :
           op' = [name |-> "init_walk", as |-> KernelAs, va |-> va, left |-> op.left \ {va},
                  i |-> 0, cur |-> KernelAs]
    BY <1>4
  <2>2. /\ op'.name = "init_walk" /\ op'.as = KernelAs /\ op'.va = va /\ op'.left = op.left \ {va}
        /\ op'.i = 0 /\ op'.cur = KernelAs
    BY <2>1
  <2>3. op' \in OpSet
    BY <1>2, <2>1, X86VmeAssumption DEF OpSet
  <2>4. WalkInv(g)'
    BY <1>1, <1>3, <2>2 DEF WalkInv
  <2>5. ToInit \subseteq ToInit'
    BY <1>1, <2>2 DEF ToInit
  <2> QED
    BY <1>1, <2>2, <2>3, <2>4, <2>5, OpStep DEF TypeInv
<1>5. CASE op.left = {} /\ op' = Idle
  <2>1. op'.name = "idle" /\ op' \in OpSet
    BY <1>5 DEF Idle, OpSet
  <2>2. WalkInv(g)'
    BY <1>1, <2>1 DEF WalkInv
  <2>3. ToInit \subseteq ToInit'
    BY <1>1, <1>5 DEF ToInit
  <2> QED
    BY <1>1, <2>1, <2>2, <2>3, OpStep DEF TypeInv
<1> QED
  BY <1>4, <1>5 DEF init_next

\* map and unmap start a walk.
LEMMA Begins ==
  ASSUME TypeInv, NEW g \in Placement, Inv(g), NEW s \in live, NEW va \in UserPage,
         op = Idle, UNCHANGED <<free, tab, ptr, live, stack, panicked>>,
         NEW name \in {"map", "unmap"}, NEW f, op' = Walk(name, s, va, f),
         (name = "map" /\ f \in Frame) \/ (name = "unmap" /\ f = "none")
  PROVE  TypeInv' /\ Inv(g)'
<1>1. op.name = "idle" /\ s \in Space
  BY DEF Idle, TypeInv
<1>2. /\ op'.name = name /\ op'.as = s /\ op'.va = va /\ op'.f = f /\ op'.i = 0 /\ op'.cur = s
  BY DEF Walk
<1>3. op' \in OpSet
  <2>1. 0 \in 0 .. PtLevels
    BY X86VmeAssumption
  <2> QED
    BY <1>1, <2>1 DEF Walk, OpSet
<1>4. WalkInv(g)'
  BY <1>2 DEF WalkInv
<1>5. ToInit = {}
  BY <1>1 DEF ToInit
<1> QED
  BY <1>1, <1>2, <1>3, <1>4, <1>5, OpStep DEF TypeInv

LEMMA MapReturn ==
  ASSUME TypeInv, NEW g \in Placement, Inv(g), map_return
  PROVE  TypeInv' /\ Inv(g)'
<1>1. op.name = "walk_again" /\ op' = Idle /\ UNCHANGED <<free, tab, ptr, live, stack, panicked>>
  BY DEF map_return, walked
<1>2. op'.name = "idle" /\ op' \in OpSet
  BY <1>1 DEF Idle, OpSet
<1>3. WalkInv(g)'
  BY <1>2 DEF WalkInv
<1>4. ToInit = {}
  BY <1>1 DEF ToInit
<1> QED
  BY <1>1, <1>2, <1>3, <1>4, OpStep DEF TypeInv

LEMMA AtNext ==
  ASSUME NEW g, NEW s, NEW v, NEW l \in Nat, l > 0, NEW q, NEW c \in Used, At(g, q, s, v, l),
         g[c].own = s, g[c].lev = l + 1, Agree(g[c].adr, g[q].adr, l - 1), g[c].adr[l] = v[l]
  PROVE  At(g, c, s, v, l + 1)
<1>1. Agree(g[q].adr, v, l - 1) /\ l - 1 \in Nat /\ l - 1 + 1 = l
  BY DEF At
<1>2. Agree(g[c].adr, v, l - 1)
  BY <1>1, AgreeFacts
<1>3. Agree(g[c].adr, v, l)
  BY <1>1, <1>2, AgreeFacts
<1>4. l + 1 - 1 = l
  OBVIOUS
<1> QED
  BY <1>3, <1>4 DEF At

\* The entry a walk stands before, and where it leads.
LEMMA SlotOf ==
  ASSUME TypeInv, NEW g \in Placement, Inv(g), op.name \in Walks, op.i < PtLevels
  PROVE  /\ op.as \in live \cup {KernelAs} /\ stack = <<>>
         /\ op.i = 0 => slot(op.i, op.cur, op.va) = ptr[op.as] /\ op.cur = op.as
         /\ op.i > 0 => /\ At(g, op.cur, op.as, op.va, op.i) /\ op.va[op.i] \in Index
                        /\ ~Shared(g, op.cur, op.va[op.i])
                        /\ slot(op.i, op.cur, op.va) = tab[op.cur][op.va[op.i]]
         /\ slot(op.i, op.cur, op.va).p => At(g, slot(op.i, op.cur, op.va).to, op.as, op.va, op.i + 1)
<1> DEFINE e == slot(op.i, op.cur, op.va)
<1>1. op.as \in live \cup {KernelAs}
  BY WalkType DEF Inv, WalkInv, Walks
<1>2. stack = <<>>
  BY DEF Inv, AliveInv, Walks
<1>3. op.i \in Nat /\ op.va \in Addr /\ PtLevels \in Nat /\ PtLevels > 1
  BY WalkType, X86VmeAssumption
<1>4. CASE op.i = 0
  <2>1. op.cur = op.as /\ e = ptr[op.as]
    BY <1>4 DEF Inv, WalkInv, Walks, slot
  <2>2. ASSUME e.p PROVE At(g, e.to, op.as, op.va, op.i + 1)
    <3>1. e.to \in Used /\ g[e.to].own = op.as /\ g[e.to].lev = 1
      BY <1>1, <2>1, <2>2 DEF Inv, Core, RootInv
    <3> QED
      BY <1>4, <3>1 DEF At, Agree
  <2> QED
    BY <1>1, <1>2, <1>4, <2>1, <2>2
<1>5. CASE op.i > 0
  <2> DEFINE x == op.va[op.i]
  <2>1. At(g, op.cur, op.as, op.va, op.i)
    BY <1>3, <1>5 DEF Inv, WalkInv, Walks
  <2>2. /\ op.cur \in Used /\ g[op.cur].own = op.as /\ g[op.cur].lev = op.i
        /\ Agree(g[op.cur].adr, op.va, op.i - 1)
    BY <2>1 DEF At
  <2>3. x \in Index /\ e = tab[op.cur][x]
    BY <1>3, <1>5 DEF Addr, slot
  <2>4. ~Shared(g, op.cur, x)
    BY <2>2, WalkType DEF Shared, IsUser, Walks
  <2>5. ASSUME e.p PROVE At(g, e.to, op.as, op.va, op.i + 1)
    <3> DEFINE tb == op.cur
    <3>0. tb \in Used /\ g[tb].own \in live \cup {KernelAs} /\ g[tb].lev < PtLevels
          /\ ~Shared(g, tb, x) /\ tab[tb][x].p /\ x \in Index
      BY <1>1, <2>2, <2>3, <2>4, <2>5
    <3> HIDE DEF e, x, tb
    <3>1. /\ e.to \in Used /\ g[e.to].own = op.as
          /\ g[e.to].lev = op.i + 1
          /\ Agree(g[e.to].adr, g[op.cur].adr, op.i - 1)
          /\ g[e.to].adr[op.i] = x
      <4>1. /\ tab[tb][x].to \in Used /\ g[tab[tb][x].to].own = g[tb].own
            /\ g[tab[tb][x].to].lev = g[tb].lev + 1
            /\ Agree(g[tab[tb][x].to].adr, g[tb].adr, g[tb].lev - 1)
            /\ g[tab[tb][x].to].adr[g[tb].lev] = x
        BY <3>0, ChildOf
      <4> QED
        BY <2>2, <2>3, <4>1 DEF tb
    <3> QED
      BY <1>3, <1>5, <2>1, <3>1, AtNext DEF x, e
  <2> QED
    BY <1>1, <1>2, <1>5, <2>1, <2>3, <2>4, <2>5
<1> QED
  BY <1>3, <1>4, <1>5

LEMMA Follows ==
  ASSUME TypeInv, NEW g \in Placement, Inv(g), op.name \in Walks, op.i < PtLevels,
         slot(op.i, op.cur, op.va).p,
         op' = [op EXCEPT !.i = @ + 1, !.cur = slot(op.i, op.cur, op.va).to],
         UNCHANGED <<free, tab, ptr, live, stack, panicked>>
  PROVE  TypeInv' /\ Inv(g)'
<1> DEFINE c == slot(op.i, op.cur, op.va).to
<1>1. At(g, c, op.as, op.va, op.i + 1)
  BY SlotOf
<1>2. c \in Page
  BY <1>1 DEF At, Used
<1> HIDE DEF c
<1>3. /\ op' \in OpSet /\ op'.name = op.name /\ op'.as = op.as /\ op'.va = op.va
      /\ op'.i = op.i + 1 /\ op'.cur = c
      /\ op.name = "init_walk" => op'.left = op.left
  BY <1>2, Descends DEF c
<1>4. WalkInv(g)'
  <2>2. op.i + 1 # 0
    BY WalkType
  <2>3. At(g, op.cur, op.as, op.va, op.i)'
    BY <1>1, <1>3 DEF At, Used
  <2> QED
    BY <1>3, <2>2, <2>3 DEF WalkInv, Inv, Walks
<1>5. ToInit \subseteq ToInit'
  BY <1>3 DEF ToInit
<1> QED
  BY <1>3, <1>4, <1>5, OpStep DEF TypeInv, Walks

-----------------------------------------------------------------------------
(* Steps that write an entry of the last level. *)

LEMMA LeafWrite ==
  ASSUME TypeInv, NEW g \in Placement, Inv(g), op.name \in Walks, op.i = PtLevels, NEW e \in Entries,
         op.name # "init_walk" => e = Zero \/ \E f \in Frame : e = Entry(f, TRUE),
         tab' = [tab EXCEPT ![op.cur][op.va[op.i]] = e],
         UNCHANGED <<free, ptr, live, stack>>
  PROVE  /\ Core(g)' /\ tab' \in [Page -> [Index -> Entries]]
         /\ At(g, op.cur, op.as, op.va, PtLevels)
         /\ \A p \in Page, x \in Index : tab'[p][x] =
              IF p = op.cur /\ x = op.va[PtLevels] THEN e ELSE tab[p][x]
         /\ \A v \in Addr : KMapped(g, v) /\ (op.as = KernelAs => v # op.va) => KMapped(g, v)'
<1> DEFINE last == op.va[PtLevels]
<1>1. PtLevels \in Nat /\ PtLevels > 1 /\ PtLevels \in 1 .. PtLevels /\ op.va \in Addr
  BY WalkType, X86VmeAssumption
<1>2. At(g, op.cur, op.as, op.va, PtLevels)
  BY <1>1 DEF Inv, WalkInv, Walks
<1>3. /\ op.cur \in Used /\ g[op.cur].own = op.as /\ g[op.cur].lev = PtLevels
      /\ Agree(g[op.cur].adr, op.va, PtLevels - 1)
  BY <1>2 DEF At
<1>4. last \in Index
  BY <1>1 DEF Addr
<1>5. \A p \in Page, x \in Index : tab'[p][x] = IF p = op.cur /\ x = last THEN e ELSE tab[p][x]
  BY <1>3, <1>4 DEF TypeInv, Used
<1>6. tab' \in [Page -> [Index -> Entries]]
  BY <1>3, <1>4 DEF TypeInv, Used
<1>7. Used' = Used /\ kpt' = kpt /\ Used \subseteq Page
  BY DEF Used, kpt
<1>8. \A p \in Page, x \in Index : p # op.cur => tab'[p][x] = tab[p][x]
  BY <1>5
<1>9. (\A p, x : Pending(p, x)' <=> Pending(p, x)) /\ (\A p : OnStack(p)' <=> OnStack(p))
  BY DEF Pending, OnStack
<1>10. PosInv(g)'
  BY <1>7 DEF Inv, Core, PosInv
<1>11. RootInv(g)'
  BY <1>7 DEF Inv, Core, RootInv
<1>12. ChildInv(g)'
  <2> SUFFICES ASSUME NEW p \in Used, NEW x \in Index, Pending(p, x), g[p].lev < PtLevels
               PROVE  Down(g, p, x)'
    BY <1>7, <1>9 DEF ChildInv
  <2>1. Down(g, p, x)
    BY DEF Inv, Core, ChildInv
  <2>2. p # op.cur
    BY <1>1, <1>3
  <2>3. tab'[p][x] = tab[p][x]
    BY <1>7, <1>8, <2>2
  <2>4. ASSUME Shared(g, p, x) PROVE tab'[kpt][x] = tab[kpt][x]
    <3>1. ptr[KernelAs].p /\ KernelAs \in live \cup {KernelAs}
      BY <2>1, <2>4 DEF Down
    <3>2. kpt \in Used /\ g[kpt].lev = 1
      BY <3>1 DEF Inv, Core, RootInv, kpt
    <3>3. kpt # op.cur
      BY <1>1, <1>3, <3>2
    <3> QED
      BY <1>7, <1>8, <3>2, <3>3
  <2> QED
    BY <1>7, <2>1, <2>3, <2>4 DEF Down, Shared
<1>13. ParentInv(g)'
  <2> SUFFICES ASSUME NEW p \in Used, g[p].lev > 1, ~OnStack(p)
               PROVE  \E q \in Page : Parent(g, q, p)'
    BY <1>7, <1>9 DEF ParentInv
  <2>1. PICK q \in Page : Parent(g, q, p)
    BY DEF Inv, Core, ParentInv
  <2>2. g[p].lev \in 1 .. PtLevels /\ g[q].lev \in 1 .. PtLevels /\ g[p].lev = g[q].lev + 1
    BY <2>1, <1>7 DEF Parent, Placement
  <2>3. q # op.cur
    BY <1>1, <1>3, <2>2
  <2>4. g[p].adr[g[q].lev] \in Index
    <3>1. g[p].adr \in Addr
      BY <1>7 DEF Placement
    <3> QED
      BY <2>2, <3>1 DEF Addr
  <2>5. tab'[q][g[p].adr[g[q].lev]] = tab[q][g[p].adr[g[q].lev]]
    BY <1>8, <2>3, <2>4
  <2> QED
    BY <1>7, <1>9, <2>1, <2>5 DEF Parent
<1>14. LeafInv(g)'
  <2> SUFFICES ASSUME NEW p \in Used, NEW x \in Index, g[p].lev = PtLevels, IsUser(g[p].own),
                      tab'[p][x].p
               PROVE  tab'[p][x].to \in Frame /\ tab'[p][x].u
    BY <1>7 DEF LeafInv
  <2>1. CASE p = op.cur /\ x = last
    <3>1. tab'[p][x] = e
      BY <1>5, <1>7, <2>1
    <3>2. e = Zero \/ \E f \in Frame : e = Entry(f, TRUE)
      BY <1>3, <2>1, WalkType DEF IsUser
    <3>3. e.p
      BY <3>1
    <3>4. PICK f \in Frame : e = Entry(f, TRUE)
      BY <3>2, <3>3, EntryFields
    <3>5. e.to = f /\ e.u
      BY <3>4, EntryFields
    <3> QED
      BY <3>1, <3>5
  <2>2. CASE ~(p = op.cur /\ x = last)
    <3>1. tab'[p][x] = tab[p][x]
      BY <1>5, <1>7, <2>2
    <3> QED
      BY <3>1 DEF Inv, Core, LeafInv
  <2> QED
    BY <2>1, <2>2
<1>15. ASSUME NEW v \in Addr, KMapped(g, v), op.as = KernelAs => v # op.va PROVE KMapped(g, v)'
  <2>1. PICK p \in Page : At(g, p, KernelAs, v, PtLevels) /\ tab[p][v[PtLevels]] = Entry(v, FALSE)
    BY <1>15 DEF KMapped
  <2>2. v[PtLevels] \in Index
    BY <1>1 DEF Addr
  <2>3. ASSUME p = op.cur PROVE v[PtLevels] # last
    <3> SUFFICES ASSUME v[PtLevels] = last PROVE FALSE
      OBVIOUS
    <3>1. op.as = KernelAs /\ Agree(g[p].adr, v, PtLevels - 1)
      BY <1>3, <2>1, <2>3 DEF At
    <3>2. Agree(v, op.va, PtLevels - 1)
      BY <1>1, <1>3, <2>3, <3>1, AgreeFacts
    <3>3. \A j \in 1 .. PtLevels : v[j] = op.va[j]
      <4>1. \A j \in 1 .. PtLevels : j <= PtLevels - 1 \/ j = PtLevels
        BY <1>1
      <4> QED
        BY <3>2, <4>1 DEF Agree
    <3>4. v = op.va
      BY <1>1, <3>3 DEF Addr
    <3> QED
      BY <1>15, <3>1, <3>4
  <2>4. tab'[p][v[PtLevels]] = tab[p][v[PtLevels]]
    BY <1>5, <2>2, <2>3
  <2>5. At(g, p, KernelAs, v, PtLevels)'
    BY <1>7, <2>1 DEF At
  <2> QED
    BY <2>1, <2>4, <2>5 DEF KMapped
<1> QED
  BY <1>2, <1>5, <1>6, <1>10, <1>11, <1>12, <1>13, <1>14, <1>15 DEF Core

LEMMA InitLeaf ==
  ASSUME TypeInv, NEW g \in Placement, Inv(g), init_leaf
  PROVE  TypeInv' /\ Inv(g)'
<1> DEFINE e == Entry(op.va, FALSE)
<1>1. /\ op.name = "init_walk" /\ op.i = PtLevels /\ op.name \in Walks
      /\ tab' = [tab EXCEPT ![op.cur][op.va[op.i]] = e]
      /\ op' = [name |-> "init", left |-> op.left]
      /\ UNCHANGED <<free, ptr, live, stack, panicked>>
  BY DEF init_leaf, walked, set_ptentry, Walks
<1>2. op.va \in KernelPage /\ op.va \in Addr /\ op.as = KernelAs /\ op.left \in SUBSET KernelPage
  BY <1>1, WalkType
<1>3. e \in Entries
  BY <1>2, EntryTypes DEF Target
<1> HIDE DEF e
<1>4. /\ Core(g)' /\ tab' \in [Page -> [Index -> Entries]]
      /\ At(g, op.cur, op.as, op.va, PtLevels)
      /\ \A p \in Page, x \in Index : tab'[p][x] =
              IF p = op.cur /\ x = op.va[PtLevels] THEN e ELSE tab[p][x]
      /\ \A v \in Addr : KMapped(g, v) /\ (op.as = KernelAs => v # op.va) => KMapped(g, v)'
  BY <1>1, <1>3, LeafWrite
<1>5. op'.name = "init" /\ op'.left = op.left /\ op' \in OpSet
  BY <1>1, <1>2 DEF OpSet
<1>6. ASSUME NEW va \in KernelPage, va = op.va PROVE KMapped(g, va)'
  <2>1. PICK p \in Page : p = op.cur
    BY <1>4 DEF At, Used
  <2>2. At(g, p, KernelAs, va, PtLevels)
    BY <1>2, <1>4, <1>6, <2>1
  <2>3. At(g, p, KernelAs, va, PtLevels)'
    BY <1>1, <2>2 DEF At, Used
  <2>4. va[PtLevels] \in Index
    BY X86VmeAssumption DEF KernelPage
  <2>5. tab'[p][va[PtLevels]] = Entry(va, FALSE)
    BY <1>4, <1>6, <2>1, <2>4 DEF e
  <2> QED
    BY <2>3, <2>5 DEF KMapped
<1>7. KernelInv(g)'
  <2> SUFFICES ASSUME NEW v \in KernelPage, v \notin ToInit' PROVE KMapped(g, v)'
    BY DEF KernelInv
  <2>1. v \in Addr
    BY DEF KernelPage, Addr
  <2>2. CASE v = op.va
    BY <1>6, <2>2
  <2>3. CASE v # op.va
    <3>1. v \notin ToInit
      BY <1>1, <1>5, <2>3 DEF ToInit
    <3> QED
      BY <1>4, <2>1, <2>3, <3>1 DEF Inv, KernelInv
  <2> QED
    BY <2>2, <2>3
<1>8. WalkInv(g)' /\ AliveInv(g)' /\ DyingInv(g)'
  BY <1>1, <1>5 DEF Inv, WalkInv, AliveInv, DyingInv, Used
<1> QED
  BY <1>1, <1>4, <1>5, <1>7, <1>8 DEF Inv, TypeInv

LEMMA MapLeaf ==
  ASSUME TypeInv, NEW g \in Placement, Inv(g), op.name \in {"map", "unmap"}, op.i = PtLevels,
         NEW e \in Entries, e = Zero \/ \E f \in Frame : e = Entry(f, TRUE),
         set_ptentry(e), op' = Walk("walk_again", op.as, op.va, "none"),
         UNCHANGED <<free, ptr, live, stack, panicked>>
  PROVE  TypeInv' /\ Inv(g)'
<1>1. op.name \in Walks /\ tab' = [tab EXCEPT ![op.cur][op.va[op.i]] = e]
  BY DEF set_ptentry, Walks
<1>2. op.va \in UserPage /\ op.as \in Space /\ op.as # KernelAs /\ op.as \in live
  BY <1>1, WalkType, X86VmeAssumption DEF Inv, WalkInv
<1>3. /\ Core(g)' /\ tab' \in [Page -> [Index -> Entries]]
      /\ \A v \in Addr : KMapped(g, v) /\ (op.as = KernelAs => v # op.va) => KMapped(g, v)'
  BY <1>1, LeafWrite
<1>4. /\ op'.name = "walk_again" /\ op'.as = op.as /\ op'.va = op.va /\ op'.i = 0 /\ op'.cur = op.as
      /\ op' \in OpSet
  <2>1. 0 \in 0 .. PtLevels
    BY X86VmeAssumption
  <2> QED
    BY <1>2, <2>1 DEF Walk, OpSet
<1>5. KernelInv(g)'
  <2>1. KernelPage \subseteq Addr
    BY DEF KernelPage, Addr
  <2>2. ToInit = {}
    BY DEF ToInit
  <2> QED
    BY <1>2, <1>3, <2>1, <2>2 DEF Inv, KernelInv
<1>6. WalkInv(g)' /\ AliveInv(g)' /\ DyingInv(g)'
  BY <1>2, <1>4 DEF Inv, WalkInv, AliveInv, DyingInv, Used
<1> QED
  BY <1>3, <1>4, <1>5, <1>6 DEF Inv, TypeInv

-----------------------------------------------------------------------------
(* Steps that allocate a table. *)

Placed(g, page, s, l, va) == [g EXCEPT ![page] = [own |-> s, lev |-> l, adr |-> va]]

LEMMA PlacedFacts ==
  ASSUME TypeInv, NEW g \in Placement, NEW page \in free, NEW s \in Owner, NEW l \in 1 .. PtLevels,
         NEW va \in Addr, free' = free \ {page}
  PROVE  /\ Placed(g, page, s, l, va) \in Placement
         /\ \A p \in Used : p # page /\ Placed(g, page, s, l, va)[p] = g[p]
         /\ LET n == Placed(g, page, s, l, va)[page] IN n.own = s /\ n.lev = l /\ n.adr = va
         /\ Used' = Used \cup {page} /\ page \in Page /\ Used \subseteq Page
BY DEF Placed, Placement, TypeInv, Used

\* ptwalk links a new table at the level below i, for address va of s.
Linking(g, s, va, i, cur, page) ==
  /\ stack = <<>> /\ op.name # "teardown"
  /\ s = KernelAs => va \in KernelPage /\ live = {}
  /\ i = 0 => /\ ~ptr[s].p
              /\ ptr' = [ptr EXCEPT ![s] = Entry(page, IsUser(s))]
              /\ tab' = [tab EXCEPT ![page] = zeroed]
  /\ i > 0 => /\ At(g, cur, s, va, i) /\ ~Shared(g, cur, va[i]) /\ ~tab[cur][va[i]].p
              /\ ptr' = ptr
              /\ tab' = [[tab EXCEPT ![page] = zeroed] EXCEPT ![cur][va[i]] = Entry(page, IsUser(s))]
  /\ free' = free \ {page} /\ UNCHANGED <<live, stack>>

LEMMA Links ==
  ASSUME TypeInv, NEW g \in Placement, Inv(g),
         NEW s \in live \cup {KernelAs}, NEW va \in Addr, NEW i \in 0 .. PtLevels - 1,
         NEW cur, NEW page \in free, Linking(g, s, va, i, cur, page),
         NEW h, h = Placed(g, page, s, i + 1, va)
  PROVE  /\ h \in Placement /\ Core(h)'
         /\ At(h, page, s, va, i + 1)'
         /\ \A p \in Used' : h[p].own \in live \cup {KernelAs}
         /\ \A v : KMapped(g, v) => KMapped(h, v)'
         /\ tab' \in [Page -> [Index -> Entries]] /\ ptr' \in [Owner -> Entries]
         /\ \A p \in Used, x \in Index : g[p].lev = PtLevels => tab'[p][x] = tab[p][x]
         /\ \A x \in Index : tab'[page][x] = Zero
<1> USE DEF Linking
<1> DEFINE link == Entry(page, IsUser(s))
<1>1. /\ i \in Nat /\ i + 1 \in 1 .. PtLevels /\ PtLevels \in Nat /\ PtLevels > 1 /\ i + 1 - 1 = i
      /\ i < PtLevels /\ s \in Owner /\ page \in Page /\ KernelAs \notin live
  BY X86VmeAssumption DEF TypeInv, Owner
<1>2. /\ h \in Placement /\ Used' = Used \cup {page} /\ Used \subseteq Page
      /\ \A p \in Used : p # page /\ h[p] = g[p]
      /\ h[page].own = s /\ h[page].lev = i + 1 /\ h[page].adr = va
  BY <1>1, PlacedFacts
<1>3. link \in Entries /\ link.p /\ link.to = page /\ zeroed \in [Index -> Entries]
  BY <1>1, EntryTypes, EntryFields DEF Target, IsUser, zeroed
<1>4. i > 0 => /\ cur \in Used /\ g[cur].own = s /\ g[cur].lev = i /\ Agree(g[cur].adr, va, i - 1)
               /\ va[i] \in Index
  BY <1>1 DEF At, Addr
<1>5. /\ tab' \in [Page -> [Index -> Entries]]
      /\ \A x \in Index : tab'[page][x] = Zero
      /\ \A p \in Used, x \in Index : tab'[p][x] =
           IF i > 0 /\ p = cur /\ x = va[i] THEN link ELSE tab[p][x]
  <2>1. CASE i = 0
    BY <1>1, <1>2, <1>3, <2>1 DEF TypeInv, zeroed
  <2>2. CASE i > 0
    <3> DEFINE t == [tab EXCEPT ![page] = zeroed]
    <3>1. t \in [Page -> [Index -> Entries]] /\ tab' = [t EXCEPT ![cur][va[i]] = link]
      BY <1>1, <1>3, <2>2 DEF TypeInv
    <3>2. (\A p \in Used : t[p] = tab[p]) /\ t[page] = zeroed
      BY <1>1, <1>2 DEF TypeInv
    <3> HIDE DEF t
    <3>3. tab' \in [Page -> [Index -> Entries]]
      BY <1>2, <1>3, <1>4, <2>2, <3>1
    <3>4. \A p \in Page, x \in Index : tab'[p][x] = IF p = cur /\ x = va[i] THEN link ELSE t[p][x]
      BY <1>2, <1>3, <1>4, <2>2, <3>1
    <3>5. \A x \in Index : tab'[page][x] = Zero
      <4>1. page # cur
        BY <1>2, <1>4, <2>2
      <4> QED
        BY <1>1, <3>2, <3>4, <4>1 DEF zeroed
    <3> QED
      BY <1>2, <2>2, <3>2, <3>3, <3>4, <3>5
  <2> QED
    BY <1>1, <2>1, <2>2
<1>6. /\ ptr' \in [Owner -> Entries]
      /\ \A u \in Owner : ptr'[u] = IF i = 0 /\ u = s THEN link ELSE ptr[u]
  BY <1>1, <1>3 DEF TypeInv
<1>7. (\A p, x : Pending(p, x) /\ Pending(p, x)') /\ \A p : ~OnStack(p) /\ ~OnStack(p)'
  BY DEF Pending, OnStack
<1>8. \A p \in Used : g[p].own \in live \cup {KernelAs}
  BY DEF Inv, AliveInv
<1>9. \A p \in Used : ~At(g, p, s, va, i + 1)
  <2> SUFFICES ASSUME NEW p \in Used, g[p].own = s, g[p].lev = i + 1, Agree(g[p].adr, va, i)
               PROVE  FALSE
    BY <1>1 DEF At
  <2>1. CASE i = 0
    BY <2>1 DEF Inv, Core, RootInv
  <2>2. CASE i > 0
    <3>1. PICK q \in Page : Parent(g, q, p)
      BY <1>1, <1>7, <2>2 DEF Inv, Core, ParentInv
    <3>2. g[q].lev = i
      BY <1>1, <3>1 DEF Parent, Placement
    <3>3. g[p].adr[i] = va[i] /\ Agree(g[p].adr, va, i - 1)
      BY <1>1, <2>2 DEF Agree
    <3>4. q \in Used /\ g[q].own = s /\ Agree(g[q].adr, g[p].adr, i - 1) /\ tab[q][va[i]] = Entry(p, IsUser(s))
      BY <3>1, <3>2, <3>3 DEF Parent
    <3>5. q = cur
      <4>1. Agree(va, g[cur].adr, i - 1)
        BY <1>4, <2>2, AgreeSym
      <4>2. Agree(g[q].adr, g[cur].adr, i - 1)
        BY <3>3, <3>4, <4>1, AgreeTrans
      <4> QED
        BY <1>4, <2>2, <3>2, <3>4, <4>2 DEF Inv, Core, PosInv
    <3> QED
      BY <2>2, <3>4, <3>5, EntryFields
  <2> QED
    BY <1>1, <2>1, <2>2
<1>10. PosInv(h)'
  <2>1. ASSUME NEW p \in Used', NEW q \in Used', h[q].own = h[p].own, h[q].lev = h[p].lev,
               Agree(h[q].adr, h[p].adr, h[p].lev - 1)
        PROVE  p = q
    <3>1. CASE p \in Used /\ q \in Used
      BY <1>2, <2>1, <3>1 DEF Inv, Core, PosInv
    <3>2. CASE p = page /\ q \in Used
      <4>1. At(g, q, s, va, i + 1)
        BY <1>1, <1>2, <2>1, <3>2 DEF At
      <4> QED
        BY <1>9, <3>2, <4>1
    <3>3. CASE p \in Used /\ q = page
      <4>1. g[p].own = s /\ g[p].lev = i + 1 /\ Agree(va, g[p].adr, i)
        BY <1>1, <1>2, <2>1, <3>3
      <4>2. At(g, p, s, va, i + 1)
        <5>1. Agree(g[p].adr, va, i)
          BY <4>1, AgreeSym
        <5> QED
          BY <1>1, <3>3, <4>1, <5>1 DEF At
      <4> QED
        BY <1>9, <3>3, <4>2
    <3> QED
      BY <1>2, <3>1, <3>2, <3>3
  <2>2. \A p \in Used' : h[p].own = KernelAs => h[p].adr \in KernelPage
    BY <1>2 DEF Inv, Core, PosInv
  <2> QED
    BY <2>1, <2>2 DEF PosInv
<1>11. RootInv(h)'
  <2>1. ASSUME NEW u \in live \cup {KernelAs}, ptr'[u].p
        PROVE  LET r == ptr'[u].to IN
               r \in Used' /\ h[r].own = u /\ h[r].lev = 1 /\ ptr'[u] = Entry(r, IsUser(u))
    <3>1. u \in Owner
      BY DEF TypeInv, Owner
    <3>2. CASE i = 0 /\ u = s
      BY <1>2, <1>3, <1>6, <3>1, <3>2
    <3>3. CASE ~(i = 0 /\ u = s)
      <4>1. ptr'[u] = ptr[u]
        BY <1>6, <3>1, <3>3
      <4>2. LET r == ptr[u].to IN
            r \in Used /\ g[r].own = u /\ g[r].lev = 1 /\ ptr[u] = Entry(r, IsUser(u))
        BY <2>1, <4>1 DEF Inv, Core, RootInv
      <4> QED
        BY <1>2, <4>1, <4>2
    <3> QED
      BY <3>2, <3>3
  <2>2. ASSUME NEW u \in Owner, ptr[u].p PROVE ptr'[u].p
    BY <1>3, <1>6, <2>2
  <2>3. \A u \in live : ptr'[u].p
    BY <2>2 DEF Inv, Core, RootInv, TypeInv, Owner
  <2>4. ASSUME NEW p \in Used', h[p].own \in live \cup {KernelAs}
        PROVE  ptr'[h[p].own].p /\ (h[p].lev = 1 => ptr'[h[p].own].to = p)
    <3>1. CASE p \in Used
      <4> DEFINE u == g[p].own
      <4>1. h[p] = g[p] /\ u \in Owner /\ u \in live \cup {KernelAs}
        BY <1>2, <1>8, <3>1 DEF TypeInv, Owner
      <4>2. ptr[u].p /\ (g[p].lev = 1 => ptr[u].to = p)
        BY <3>1, <4>1 DEF Inv, Core, RootInv
      <4>3. ~(i = 0 /\ u = s)
        BY <4>2
      <4>4. ptr'[u] = ptr[u]
        BY <1>6, <4>1, <4>3
      <4> QED
        BY <4>1, <4>2, <4>4
    <3>2. CASE p = page
      <4>1. h[p].own = s /\ h[p].lev = i + 1
        BY <1>2, <3>2
      <4>2. CASE i = 0
        BY <1>1, <1>3, <1>6, <3>2, <4>1, <4>2
      <4>3. CASE i > 0
        <5>1. ptr[s].p
          BY <1>4, <4>3 DEF Inv, Core, RootInv
        <5> QED
          BY <1>1, <2>2, <4>1, <4>3, <5>1
      <4> QED
        BY <1>1, <4>2, <4>3
    <3> QED
      BY <1>2, <3>1, <3>2
  <2> QED
    BY <2>1, <2>3, <2>4 DEF RootInv
<1>12. ChildInv(h)'
  <2> SUFFICES ASSUME NEW p \in Used', NEW x \in Index, h[p].lev < PtLevels
               PROVE  Down(h, p, x)'
    BY DEF ChildInv
  <2>1. CASE p = page
    <3>1. ~Shared(h, p, x)
      <4> SUFFICES ASSUME IsUser(s), i = 0 PROVE FALSE
        BY <1>1, <1>2, <2>1 DEF Shared
      <4>1. s \in live
        BY DEF IsUser
      <4> QED
        BY <4>1 DEF Inv, Core, RootInv
    <3>2. ~tab'[p][x].p
      BY <1>5, <2>1, EntryFields
    <3> QED
      BY <3>1, <3>2 DEF Down, Shared
  <2>2. CASE p \in Used /\ i > 0 /\ p = cur /\ x = va[i]
    <3>1. h[p] = g[p] /\ tab'[p][x] = link
      BY <1>2, <1>5, <2>2
    <3>2. ~Shared(h, p, x)
      BY <2>2, <3>1 DEF Shared
    <3>3. Agree(va, g[p].adr, i - 1)
      BY <1>4, <2>2, AgreeSym
    <3>4. /\ tab'[p][x].to = page /\ page \in Used' /\ tab'[p][x] = Entry(page, IsUser(h[p].own))
          /\ h[page].own = h[p].own /\ h[page].lev = h[p].lev + 1
          /\ Agree(h[page].adr, h[p].adr, h[p].lev - 1) /\ h[page].adr[h[p].lev] = x
      BY <1>2, <1>3, <1>4, <2>2, <3>1, <3>3
    <3> QED
      BY <3>2, <3>4 DEF Down, Shared
  <2>3. CASE p \in Used /\ ~(i > 0 /\ p = cur /\ x = va[i])
    <3>1. h[p] = g[p] /\ tab'[p][x] = tab[p][x]
      BY <1>2, <1>5, <2>3
    <3>2. Down(g, p, x)
      BY <1>7, <2>3, <3>1 DEF Inv, Core, ChildInv
    <3>3. ASSUME Shared(g, p, x) PROVE ptr'[KernelAs].p /\ tab'[p][x] = tab'[kpt'][x]
      <4>1. ptr[KernelAs].p /\ tab[p][x] = tab[kpt][x] /\ g[p].own \in live
        BY <1>8, <2>3, <3>2, <3>3 DEF Down, Shared, IsUser
      <4>2. s # KernelAs
        BY <4>1
      <4>3. ptr'[KernelAs] = ptr[KernelAs] /\ kpt' = kpt
        BY <1>6, <4>2 DEF Owner, kpt
      <4>4. kpt \in Used /\ g[kpt].own = KernelAs
        BY <4>1 DEF Inv, Core, RootInv, kpt
      <4>5. tab'[kpt][x] = tab[kpt][x]
        BY <1>4, <1>5, <4>2, <4>4
      <4> QED
        BY <3>1, <4>1, <4>3, <4>5
    <3>4. ASSUME ~Shared(g, p, x), tab[p][x].p
          PROVE  LET c == tab[p][x].to IN
                 /\ tab[p][x] = Entry(c, IsUser(h[p].own)) /\ c \in Used' /\ h[c].own = h[p].own
                 /\ h[c].lev = h[p].lev + 1
                 /\ Agree(h[c].adr, h[p].adr, h[p].lev - 1) /\ h[c].adr[h[p].lev] = x
      <4> DEFINE c == tab[p][x].to
      <4>1. /\ tab[p][x] = Entry(c, IsUser(g[p].own)) /\ c \in Used /\ g[c].own = g[p].own
            /\ g[c].lev = g[p].lev + 1
            /\ Agree(g[c].adr, g[p].adr, g[p].lev - 1) /\ g[c].adr[g[p].lev] = x
        BY <3>2, <3>4 DEF Down
      <4>2. h[c] = g[c] /\ c \in Used'
        BY <1>2, <4>1
      <4> HIDE DEF c
      <4>3. /\ tab[p][x] = Entry(c, IsUser(h[p].own)) /\ c \in Used' /\ h[c].own = h[p].own
            /\ h[c].lev = h[p].lev + 1
            /\ Agree(h[c].adr, h[p].adr, h[p].lev - 1) /\ h[c].adr[h[p].lev] = x
        BY <3>1, <4>1, <4>2
      <4> QED
        BY <4>3 DEF c
    <3>5. Shared(h, p, x) <=> Shared(g, p, x)
      BY <3>1 DEF Shared
    <3> QED
      BY <3>1, <3>3, <3>4, <3>5 DEF Down, Shared
  <2> QED
    BY <1>2, <2>1, <2>2, <2>3
<1>13. ParentInv(h)'
  <2> SUFFICES ASSUME NEW p \in Used', h[p].lev > 1 PROVE \E q \in Page : Parent(h, q, p)'
    BY DEF ParentInv
  <2>1. CASE p = page
    <3>1. i > 0
      BY <1>1, <1>2, <2>1
    <3>2. h[cur] = g[cur] /\ cur \in Used' /\ cur \in Page
      BY <1>2, <1>4, <3>1
    <3>3. tab'[cur][va[i]] = link
      BY <1>4, <1>5, <3>1
    <3>4. Parent(h, cur, p)'
      BY <1>2, <1>4, <1>7, <2>1, <3>1, <3>2, <3>3 DEF Parent
    <3> QED
      BY <3>2, <3>4
  <2>2. CASE p \in Used
    <3>1. h[p] = g[p]
      BY <1>2, <2>2
    <3>2. PICK q \in Page : Parent(g, q, p)
      BY <1>7, <2>2, <3>1 DEF Inv, Core, ParentInv
    <3> DEFINE x == g[p].adr[g[q].lev]
    <3>3. q \in Used /\ h[q] = g[q] /\ tab[q][x] = Entry(p, IsUser(g[p].own))
      BY <1>2, <3>2 DEF Parent
    <3>4. x \in Index
      <4>1. g[p].adr \in Addr /\ g[q].lev \in 1 .. PtLevels
        BY <1>2, <2>2, <3>3 DEF Placement
      <4> QED
        BY <4>1 DEF Addr
    <3>5. tab'[q][x] = tab[q][x]
      <4>1. tab[q][x].p
        BY <3>3, EntryFields
      <4> HIDE DEF x
      <4> QED
        BY <1>5, <3>3, <3>4, <4>1
    <3>6. Parent(h, q, p)'
      BY <1>2, <1>7, <3>1, <3>2, <3>3, <3>5 DEF Parent
    <3> QED
      BY <3>6
  <2> QED
    BY <1>2, <2>1, <2>2
<1>14. \A p \in Used, x \in Index : g[p].lev = PtLevels => tab'[p][x] = tab[p][x]
  BY <1>1, <1>4, <1>5
<1>15. LeafInv(h)'
  <2> SUFFICES ASSUME NEW p \in Used', NEW x \in Index, h[p].lev = PtLevels, IsUser(h[p].own),
                      tab'[p][x].p
               PROVE  tab'[p][x].to \in Frame /\ tab'[p][x].u
    BY DEF LeafInv
  <2>1. p # page
    BY <1>5, EntryFields
  <2>2. p \in Used /\ h[p] = g[p]
    BY <1>2, <2>1
  <2>3. tab'[p][x] = tab[p][x]
    BY <1>14, <2>2
  <2> QED
    BY <2>2, <2>3 DEF Inv, Core, LeafInv
<1>16. ASSUME NEW v, KMapped(g, v) PROVE KMapped(h, v)'
  <2>1. PICK p \in Page : At(g, p, KernelAs, v, PtLevels) /\ tab[p][v[PtLevels]] = Entry(v, FALSE)
    BY <1>16 DEF KMapped
  <2>2. p \in Used /\ g[p].lev = PtLevels /\ h[p] = g[p]
    BY <1>2, <2>1 DEF At
  <2>3. tab'[p] = tab[p]
    <3>1. p # page /\ ~(i > 0 /\ p = cur)
      BY <1>1, <1>2, <1>4, <2>2
    <3>2. tab'[p] \in [Index -> Entries] /\ tab[p] \in [Index -> Entries]
      BY <1>5 DEF TypeInv
    <3>3. \A x \in Index : tab'[p][x] = tab[p][x]
      BY <1>14, <2>2
    <3> QED
      BY <3>2, <3>3
  <2>4. At(h, p, KernelAs, v, PtLevels)'
    BY <1>2, <2>1, <2>2 DEF At
  <2> QED
    BY <2>1, <2>3, <2>4 DEF KMapped
<1>17. At(h, page, s, va, i + 1)'
  BY <1>2 DEF At, Agree
<1>18. \A p \in Used' : h[p].own \in live \cup {KernelAs}
  BY <1>2, <1>8
<1> QED
  BY <1>2, <1>5, <1>6, <1>10, <1>11, <1>12, <1>13, <1>14, <1>15, <1>16, <1>17, <1>18 DEF Core

\* What users see is stored where it was, and new tables hold nothing for them.
SameAt(g, h, s, va) ==
  /\ \A p \in Used : At(g, p, s, va, PtLevels) =>
       At(h, p, s, va, PtLevels)' /\ tab'[p][va[PtLevels]] = tab[p][va[PtLevels]]
  /\ \A p \in Used' : At(h, p, s, va, PtLevels)' =>
       At(g, p, s, va, PtLevels) \/ ~tab'[p][va[PtLevels]].p
Same(g, h) == \A s \in live, va \in UserPage : s \in live' => SameAt(g, h, s, va)

LEMMA SameTables ==
  ASSUME NEW g, UNCHANGED <<free, tab>>
  PROVE  Same(g, g)
BY DEF Same, SameAt, At, Used

LEMMA PtWalk ==
  ASSUME TypeInv, NEW g \in Placement, Inv(g), ptwalk
  PROVE  TypeInv' /\ \E h \in Placement : Inv(h)' /\ Same(g, h)
<1> DEFINE e == slot(op.i, op.cur, op.va)
<1>1. op.name \in Walks /\ op.i < PtLevels /\ live' = live /\ stack' = stack
  BY DEF ptwalk, Walks
<1>2. CASE /\ e.p
           /\ op' = [op EXCEPT !.i = @ + 1, !.cur = e.to]
           /\ UNCHANGED <<free, tab, ptr, panicked>>
  BY <1>1, <1>2, Follows, SameTables
<1>3. CASE /\ ~e.p
           /\ panicked' = TRUE
           /\ UNCHANGED <<free, tab, ptr, op>>
  <2>1. Core(g)' /\ \A v : KMapped(g, v) => KMapped(g, v)'
    BY <1>1, <1>3, CoreKept DEF Inv
  <2>2. KernelInv(g)' /\ WalkInv(g)' /\ AliveInv(g)' /\ DyingInv(g)'
    <3>1. KernelInv(g)'
      BY <1>3, <2>1 DEF Inv, KernelInv, ToInit
    <3>2. WalkInv(g)'
      BY <1>1, <1>3 DEF Inv, WalkInv, At, Used
    <3>3. AliveInv(g)' /\ DyingInv(g)'
      BY <1>1, <1>3 DEF Inv, AliveInv, DyingInv, Used, Walks
    <3> QED
      BY <3>1, <3>2, <3>3
  <2> QED
    BY <1>1, <1>3, <2>1, <2>2, SameTables DEF Inv, TypeInv
<1>4. CASE /\ ~e.p /\ free # {}
           /\ \E page \in {pgalloc} :
                LET t == [tab EXCEPT ![page] = zeroed]
                    link == Entry(page, flags_user) IN
                /\ free' = free \ {page}
                /\ IF op.i = 0
                   THEN ptr' = [ptr EXCEPT ![op.cur] = link] /\ tab' = t
                   ELSE tab' = [t EXCEPT ![op.cur][op.va[op.i]] = link] /\ UNCHANGED ptr
                /\ op' = [op EXCEPT !.i = @ + 1, !.cur = page]
           /\ UNCHANGED panicked
  <2>1. PICK page \in free :
           /\ free' = free \ {page}
           /\ op.i = 0 => /\ ptr' = [ptr EXCEPT ![op.cur] = Entry(page, flags_user)]
                          /\ tab' = [tab EXCEPT ![page] = zeroed]
           /\ op.i # 0 => /\ tab' = [[tab EXCEPT ![page] = zeroed] EXCEPT
                                       ![op.cur][op.va[op.i]] = Entry(page, flags_user)]
                          /\ ptr' = ptr
           /\ op' = [op EXCEPT !.i = @ + 1, !.cur = page]
    <3>1. pgalloc \in free
      BY <1>4 DEF pgalloc
    <3> QED
      BY <1>4, <3>1
  <2>2. /\ op.as \in live \cup {KernelAs} /\ stack = <<>>
        /\ op.i = 0 => slot(op.i, op.cur, op.va) = ptr[op.as] /\ op.cur = op.as
        /\ op.i > 0 => /\ At(g, op.cur, op.as, op.va, op.i) /\ op.va[op.i] \in Index
                       /\ ~Shared(g, op.cur, op.va[op.i])
                       /\ slot(op.i, op.cur, op.va) = tab[op.cur][op.va[op.i]]
    BY <1>1, SlotOf
  <2>3. PICK s \in live \cup {KernelAs}, va \in Addr, i \in 0 .. PtLevels - 1 :
           s = op.as /\ va = op.va /\ i = op.i
    <3>1. op.i \in 0 .. PtLevels - 1
      BY <1>1, WalkType, X86VmeAssumption
    <3> QED
      BY <1>1, <2>2, <3>1, WalkType
  <2>4. /\ flags_user <=> IsUser(s)
        /\ op.name = "init_walk" <=> s = KernelAs
        /\ s = KernelAs => va \in KernelPage /\ live = {}
    <3>1. op.name = "init_walk" => live = {}
      BY DEF Inv, WalkInv
    <3> QED
      BY <1>1, <2>3, <3>1, WalkType DEF flags_user, IsUser
  <2> DEFINE link == Entry(page, IsUser(s))
             h == Placed(g, page, s, i + 1, va)
  <2>5. Entry(page, flags_user) = link
    <3>1. flags_user = IsUser(s)
      BY <2>4, Zenon DEF flags_user, IsUser
    <3> QED
      BY <3>1, Zenon
  <2>6. i = 0 => /\ ~ptr[s].p /\ ptr' = [ptr EXCEPT ![s] = link]
                 /\ tab' = [tab EXCEPT ![page] = zeroed]
    BY <1>4, <2>1, <2>2, <2>3, <2>5
  <2>7. i > 0 => /\ At(g, op.cur, s, va, i) /\ ~Shared(g, op.cur, va[i]) /\ ~tab[op.cur][va[i]].p
                 /\ ptr' = ptr
                 /\ tab' = [[tab EXCEPT ![page] = zeroed] EXCEPT ![op.cur][va[i]] = link]
    BY <1>4, <2>1, <2>2, <2>3, <2>5
  <2>8. op.name # "teardown" /\ UNCHANGED <<live, stack>> /\ free' = free \ {page}
    BY <1>1, <2>1 DEF Walks
  <2>9. /\ h \in Placement /\ Core(h)'
        /\ At(h, page, s, va, i + 1)'
        /\ \A p \in Used' : h[p].own \in live \cup {KernelAs}
        /\ \A v : KMapped(g, v) => KMapped(h, v)'
        /\ tab' \in [Page -> [Index -> Entries]] /\ ptr' \in [Owner -> Entries]
        /\ \A p \in Used, x \in Index : g[p].lev = PtLevels => tab'[p][x] = tab[p][x]
        /\ \A x \in Index : tab'[page][x] = Zero
    <3>1. PICK cur : cur = op.cur
      OBVIOUS
    <3>2. Linking(g, s, va, i, cur, page)
      BY <2>2, <2>4, <2>6, <2>7, <2>8, <3>1 DEF Linking
    <3> QED
      BY <3>2, Links
  <2>10. /\ op' \in OpSet /\ op'.name = op.name /\ op'.as = op.as /\ op'.va = op.va
         /\ op'.i = op.i + 1 /\ op'.cur = page
         /\ op.name = "init_walk" => op'.left = op.left
    <3>1. page \in Page
      BY DEF TypeInv
    <3> QED
      BY <1>1, <2>1, <3>1, Descends
  <2> HIDE DEF h, link
  <2>11. TypeInv'
    BY <1>1, <1>4, <2>1, <2>9, <2>10 DEF TypeInv
  <2>12. KernelInv(h)'
    <3>1. ToInit' = ToInit
      BY <1>1, <2>10 DEF ToInit, Walks
    <3> QED
      BY <2>9, <3>1 DEF Inv, KernelInv
  <2>13. WalkInv(h)'
    <3>1. op'.i # 0 /\ op'.i = i + 1 /\ op'.as = s /\ op'.va = va /\ op'.cur = page /\ op'.name = op.name
      BY <2>3, <2>10
    <3>2. op.name # "init_walk" => s \in live
      BY <2>4
    <3> QED
      BY <1>1, <2>4, <2>9, <3>1, <3>2 DEF WalkInv, Walks
  <2>14. AliveInv(h)' /\ DyingInv(h)'
    BY <1>1, <2>2, <2>9, <2>10 DEF AliveInv, DyingInv, Walks
  <2>15. Same(g, h)
    <3> SUFFICES ASSUME NEW u \in live, NEW w \in UserPage
                 PROVE  /\ \A p \in Used : At(g, p, u, w, PtLevels) =>
                             At(h, p, u, w, PtLevels)' /\ tab'[p][w[PtLevels]] = tab[p][w[PtLevels]]
                        /\ \A p \in Used' : At(h, p, u, w, PtLevels)' =>
                             At(g, p, u, w, PtLevels) \/ ~tab'[p][w[PtLevels]].p
      BY DEF Same, SameAt
    <3>1. w[PtLevels] \in Index
      BY X86VmeAssumption
    <3>2. Used' = Used \cup {page} /\ \A p \in Used : p # page /\ h[p] = g[p]
      <4>1. s \in Owner /\ i + 1 \in 1 .. PtLevels
        BY X86VmeAssumption DEF TypeInv, Owner
      <4> QED
        BY <2>1, <4>1, PlacedFacts DEF h
    <3>3. ASSUME NEW p \in Used, At(g, p, u, w, PtLevels)
          PROVE  At(h, p, u, w, PtLevels)' /\ tab'[p][w[PtLevels]] = tab[p][w[PtLevels]]
      BY <2>9, <3>1, <3>2, <3>3 DEF At
    <3>4. ASSUME NEW p \in Used', At(h, p, u, w, PtLevels)'
          PROVE  At(g, p, u, w, PtLevels) \/ ~tab'[p][w[PtLevels]].p
      <4>1. CASE p = page
        BY <2>9, <3>1, <4>1, EntryFields
      <4>2. CASE p \in Used
        BY <3>2, <3>4, <4>2 DEF At
      <4> QED
        BY <3>2, <4>1, <4>2
    <3> QED
      BY <3>3, <3>4
  <2> QED
    BY <2>9, <2>11, <2>12, <2>13, <2>14, <2>15 DEF Inv
<1> QED
  BY <1>2, <1>3, <1>4 DEF ptwalk

LEMMA Protects ==
  ASSUME TypeInv, NEW g \in Placement, Inv(g), NEW s \in Space, s \notin live, op = Idle,
         NEW page \in free, free' = free \ {page}, tab' = [tab EXCEPT ![page] = top_of],
         ptr' = [ptr EXCEPT ![s] = Entry(page, TRUE)], live' = live \cup {s},
         UNCHANGED <<op, stack, panicked>>
  PROVE  TypeInv' /\ \E h \in Placement :
           Inv(h)' /\ Same(g, h) /\ \A p \in Used' : h[p].own = s => h[p].lev = 1
<1>1. PtLevels \in Nat /\ PtLevels > 1 /\ 1 \in 1 .. PtLevels /\ s # KernelAs /\ s \in Owner
      /\ KernelAs \notin live /\ op.name = "idle"
  BY X86VmeAssumption DEF TypeInv, Owner, Idle
<1>2. PICK a \in Addr : TRUE
  <2>1. PICK x \in Index : TRUE
    BY X86VmeAssumption
  <2>2. [j \in 1 .. PtLevels |-> x] \in Addr
    BY DEF Addr
  <2> QED
    BY <2>2
<1>3. PICK h \in Placement :
        /\ Used' = Used \cup {page} /\ Used \subseteq Page /\ page \in Page
        /\ \A p \in Used : p # page /\ h[p] = g[p]
        /\ h[page].own = s /\ h[page].lev = 1
  BY <1>1, PlacedFacts
<1>4. stack = <<>> /\ \A p \in Used : g[p].own \in live \cup {KernelAs} /\ g[p].own # s
  BY <1>1 DEF Inv, AliveInv
<1>5. (\A p, x : Pending(p, x) /\ Pending(p, x)') /\ \A p : ~OnStack(p) /\ ~OnStack(p)'
  BY <1>4 DEF Pending, OnStack
<1>6. ASSUME NEW x \in KernelTop
      PROVE  ptr[KernelAs].p /\ kpt \in Used /\ g[kpt].own = KernelAs /\ g[kpt].lev = 1
  <2> DEFINE v == [j \in 1 .. PtLevels |-> x]
  <2>1. v \in KernelPage
    BY <1>1, X86VmeAssumption DEF KernelPage
  <2>2. v \notin ToInit
    BY <1>1 DEF ToInit
  <2> HIDE DEF v
  <2>3. PICK p \in Page : At(g, p, KernelAs, v, PtLevels)
    BY <2>1, <2>2 DEF Inv, KernelInv, KMapped
  <2>4. ptr[KernelAs].p
    BY <2>3 DEF At, Inv, Core, RootInv
  <2> QED
    BY <2>4 DEF Inv, Core, RootInv, kpt
<1>7. top_of \in [Index -> Entries] /\ \A x \in Index :
        top_of[x] = IF x \in KernelTop THEN tab[kpt][x] ELSE Zero
  <2>1. \A x \in KernelTop : x \in Index => tab[kpt][x] \in Entries
    BY <1>3, <1>6 DEF TypeInv
  <2> QED
    BY <2>1, EntryTypes DEF top_of
<1>8. /\ tab' \in [Page -> [Index -> Entries]]
      /\ \A x \in Index : tab'[page][x] = IF x \in KernelTop THEN tab[kpt][x] ELSE Zero
      /\ \A p \in Used : tab'[p] = tab[p]
  BY <1>3, <1>7 DEF TypeInv
<1> DEFINE root == Entry(page, TRUE)
<1>0. root \in Entries /\ root.p /\ root.to = page
  BY <1>3, EntryTypes, EntryFields DEF Target
<1> HIDE DEF root
<1>9. /\ ptr' \in [Owner -> Entries] /\ ptr'[s] = root /\ ptr'[s].p /\ ptr'[s].to = page
      /\ \A u \in Owner : u # s => ptr'[u] = ptr[u]
  <2>1. ptr' = [ptr EXCEPT ![s] = root]
    BY DEF root
  <2> QED
    BY <1>0, <1>1, <2>1 DEF TypeInv
<1>10. kpt' = kpt /\ ptr'[KernelAs] = ptr[KernelAs] /\ IsUser(s) = TRUE
  BY <1>1, <1>9 DEF kpt, Owner, IsUser
<1>11. TypeInv'
  BY <1>8, <1>9 DEF TypeInv
<1>12. PosInv(h)'
  <2>1. ASSUME NEW p \in Used', NEW q \in Used', h[q].own = h[p].own, h[q].lev = h[p].lev,
               Agree(h[q].adr, h[p].adr, h[p].lev - 1)
        PROVE  p = q
    <3>1. CASE p \in Used /\ q \in Used
      BY <1>3, <2>1, <3>1 DEF Inv, Core, PosInv
    <3>2. CASE ~(p \in Used /\ q \in Used)
      BY <1>3, <1>4, <2>1, <3>2
    <3> QED
      BY <3>1, <3>2
  <2>2. \A p \in Used' : h[p].own = KernelAs => h[p].adr \in KernelPage
    BY <1>1, <1>3 DEF Inv, Core, PosInv
  <2> QED
    BY <2>1, <2>2 DEF PosInv
<1>13. RootInv(h)'
  <2>1. ASSUME NEW u \in live' \cup {KernelAs}, ptr'[u].p
        PROVE  /\ ptr'[u].to \in Used' /\ h[ptr'[u].to].own = u /\ h[ptr'[u].to].lev = 1
               /\ ptr'[u] = Entry(ptr'[u].to, IsUser(u))
    <3>1. CASE u = s
      <4>1. ptr'[u] = Entry(page, IsUser(u))
        BY <1>9, <1>10, <3>1, Zenon DEF root
      <4>2. page \in Used' /\ h[page].own = u /\ h[page].lev = 1
        BY <1>3, <3>1
      <4>3. ptr'[u].to = page
        BY <1>9, <3>1
      <4> QED
        BY <4>1, <4>2, <4>3, Zenon
    <3>2. CASE u # s
      <4>1. u \in live \cup {KernelAs} /\ ptr'[u] = ptr[u]
        BY <1>9, <3>2 DEF TypeInv, Owner
      <4>2. /\ ptr[u].to \in Used /\ g[ptr[u].to].own = u /\ g[ptr[u].to].lev = 1
            /\ ptr[u] = Entry(ptr[u].to, IsUser(u))
        BY <2>1, <4>1 DEF Inv, Core, RootInv
      <4>3. h[ptr[u].to] = g[ptr[u].to] /\ ptr[u].to \in Used'
        BY <1>3, <4>2
      <4> QED
        BY <4>1, <4>2, <4>3, Zenon
    <3> QED
      BY <3>1, <3>2
  <2>2. ASSUME NEW u \in live' PROVE ptr'[u].p
    <3>1. CASE u = s
      BY <1>9, <3>1
    <3>2. CASE u # s
      BY <1>9, <3>2 DEF Inv, Core, RootInv, TypeInv, Owner
    <3> QED
      BY <3>1, <3>2
  <2>3. ASSUME NEW p \in Used'
        PROVE  ptr'[h[p].own].p /\ (h[p].lev = 1 => ptr'[h[p].own].to = p)
    <3>1. CASE p \in Used
      <4>1. h[p] = g[p] /\ g[p].own \in live \cup {KernelAs} /\ g[p].own # s
        BY <1>3, <1>4, <3>1
      <4>2. ptr'[g[p].own] = ptr[g[p].own]
        BY <1>9, <4>1 DEF TypeInv, Owner
      <4> QED
        BY <3>1, <4>1, <4>2 DEF Inv, Core, RootInv
    <3>2. CASE p = page
      BY <1>3, <1>9, <3>2
    <3> QED
      BY <1>3, <3>1, <3>2
  <2> QED
    BY <2>1, <2>2, <2>3 DEF RootInv
<1>14. ChildInv(h)'
  <2> SUFFICES ASSUME NEW p \in Used', NEW x \in Index, h[p].lev < PtLevels
               PROVE  Down(h, p, x)'
    BY DEF ChildInv
  <2>1. CASE p = page
    <3>1. CASE x \in KernelTop
      <4>1. tab'[kpt] = tab[kpt] /\ ptr[KernelAs].p
        BY <1>6, <1>8, <3>1
      <4>2. Shared(h, p, x)
        BY <1>3, <1>10, <2>1, <3>1 DEF Shared
      <4> QED
        BY <1>8, <1>10, <2>1, <3>1, <4>1, <4>2 DEF Down, Shared
    <3>2. CASE x \notin KernelTop
      <4>1. ~tab'[p][x].p
        BY <1>8, <2>1, <3>2, EntryFields
      <4> QED
        BY <3>2, <4>1 DEF Down, Shared
    <3> QED
      BY <3>1, <3>2
  <2>2. CASE p \in Used
    <3>1. h[p] = g[p] /\ tab'[p] = tab[p]
      BY <1>3, <1>8, <2>2
    <3>2. Down(g, p, x)
      BY <1>5, <2>2, <3>1 DEF Inv, Core, ChildInv
    <3>3. Shared(h, p, x) <=> Shared(g, p, x)
      BY <3>1 DEF Shared
    <3>4. ASSUME Shared(g, p, x) PROVE ptr'[KernelAs].p /\ tab'[p][x] = tab'[kpt'][x]
      <4>1. x \in KernelTop /\ ptr[KernelAs].p /\ tab[p][x] = tab[kpt][x]
        BY <3>2, <3>4 DEF Down, Shared
      <4>2. tab'[kpt] = tab[kpt]
        BY <1>6, <1>8, <4>1
      <4> QED
        BY <1>10, <3>1, <4>1, <4>2
    <3>5. ASSUME ~Shared(g, p, x), tab[p][x].p
          PROVE  LET c == tab[p][x].to IN
                 /\ tab[p][x] = Entry(c, IsUser(h[p].own)) /\ c \in Used' /\ h[c].own = h[p].own
                 /\ h[c].lev = h[p].lev + 1
                 /\ Agree(h[c].adr, h[p].adr, h[p].lev - 1) /\ h[c].adr[h[p].lev] = x
      <4> DEFINE c == tab[p][x].to
      <4>1. /\ tab[p][x] = Entry(c, IsUser(g[p].own)) /\ c \in Used /\ g[c].own = g[p].own
            /\ g[c].lev = g[p].lev + 1
            /\ Agree(g[c].adr, g[p].adr, g[p].lev - 1) /\ g[c].adr[g[p].lev] = x
        BY <3>2, <3>5 DEF Down
      <4>2. h[c] = g[c] /\ c \in Used'
        BY <1>3, <4>1
      <4> HIDE DEF c
      <4>3. /\ tab[p][x] = Entry(c, IsUser(h[p].own)) /\ c \in Used' /\ h[c].own = h[p].own
            /\ h[c].lev = h[p].lev + 1
            /\ Agree(h[c].adr, h[p].adr, h[p].lev - 1) /\ h[c].adr[h[p].lev] = x
        BY <3>1, <4>1, <4>2
      <4> QED
        BY <4>3 DEF c
    <3> QED
      BY <3>1, <3>3, <3>4, <3>5 DEF Down, Shared
  <2> QED
    BY <1>3, <2>1, <2>2
<1>15. ParentInv(h)'
  <2> SUFFICES ASSUME NEW p \in Used', h[p].lev > 1 PROVE \E q \in Page : Parent(h, q, p)'
    BY DEF ParentInv
  <2>1. p \in Used /\ h[p] = g[p]
    BY <1>3
  <2>2. PICK q \in Page : Parent(g, q, p)
    BY <1>5, <2>1 DEF Inv, Core, ParentInv
  <2>3. q \in Used /\ h[q] = g[q] /\ tab'[q] = tab[q]
    BY <1>3, <1>8, <2>2 DEF Parent
  <2>4. Parent(h, q, p)'
    BY <1>3, <1>5, <2>1, <2>2, <2>3 DEF Parent
  <2> QED
    BY <2>4
<1>16. LeafInv(h)'
  <2> SUFFICES ASSUME NEW p \in Used', NEW x \in Index, h[p].lev = PtLevels, IsUser(h[p].own),
                      tab'[p][x].p
               PROVE  tab'[p][x].to \in Frame /\ tab'[p][x].u
    BY DEF LeafInv
  <2>1. p \in Used /\ h[p] = g[p] /\ tab'[p] = tab[p]
    BY <1>1, <1>3, <1>8
  <2> QED
    BY <2>1 DEF Inv, Core, LeafInv
<1>17. KernelInv(h)'
  <2> SUFFICES ASSUME NEW v \in KernelPage PROVE KMapped(h, v)'
    BY DEF KernelInv
  <2>1. v \notin ToInit
    BY <1>1 DEF ToInit
  <2>2. PICK p \in Page : At(g, p, KernelAs, v, PtLevels) /\ tab[p][v[PtLevels]] = Entry(v, FALSE)
    BY <2>1 DEF Inv, KernelInv, KMapped
  <2>3. p \in Used /\ h[p] = g[p] /\ tab'[p] = tab[p]
    BY <1>3, <1>8, <2>2 DEF At
  <2>4. At(h, p, KernelAs, v, PtLevels)'
    BY <1>3, <2>2, <2>3 DEF At
  <2> QED
    BY <2>2, <2>3, <2>4 DEF KMapped
<1>18. WalkInv(h)' /\ AliveInv(h)' /\ DyingInv(h)'
  BY <1>1, <1>3, <1>4 DEF WalkInv, AliveInv, DyingInv
<1>19. Same(g, h)
  <2> SUFFICES ASSUME NEW u \in live, NEW w \in UserPage
               PROVE  /\ \A p \in Used : At(g, p, u, w, PtLevels) =>
                           At(h, p, u, w, PtLevels)' /\ tab'[p][w[PtLevels]] = tab[p][w[PtLevels]]
                      /\ \A p \in Used' : At(h, p, u, w, PtLevels)' =>
                           At(g, p, u, w, PtLevels) \/ ~tab'[p][w[PtLevels]].p
    BY DEF Same, SameAt
  <2>1. \A p \in Used : At(g, p, u, w, PtLevels) =>
            At(h, p, u, w, PtLevels)' /\ tab'[p][w[PtLevels]] = tab[p][w[PtLevels]]
    BY <1>3, <1>8 DEF At
  <2>2. ASSUME NEW p \in Used', At(h, p, u, w, PtLevels)' PROVE At(g, p, u, w, PtLevels)
    <3>1. h[p].lev = PtLevels
      BY <2>2 DEF At
    <3>2. p \in Used /\ h[p] = g[p]
      BY <1>1, <1>3, <3>1
    <3> QED
      BY <2>2, <3>2 DEF At
  <2> QED
    BY <2>1, <2>2
<1>20. \A p \in Used' : h[p].own = s => h[p].lev = 1
  BY <1>3, <1>4
<1> QED
  BY <1>11, <1>12, <1>13, <1>14, <1>15, <1>16, <1>17, <1>18, <1>19, <1>20 DEF Inv, Core

-----------------------------------------------------------------------------
(* Teardown. *)

\* What a step of teardown leaves alone.
TearStep ==
  /\ UNCHANGED <<tab, ptr, panicked>> /\ live' \subseteq live
  /\ op.name \in {"idle", "teardown"} /\ op'.name \in {"idle", "teardown"}

LEMMA TearKept ==
  ASSUME NEW g \in Placement, Inv(g), TearStep, Used' \subseteq Used,
         \A p \in Used : g[p].own \in live' \cup {KernelAs} => p \in Used'
  PROVE  /\ PosInv(g)' /\ LeafInv(g)' /\ KernelInv(g)' /\ WalkInv(g)' /\ RootInv(g)' /\ Same(g, g)
         /\ \A p \in Used', x \in Index : Shared(g, p, x) \/ ~tab[p][x].p \/ tab[p][x].to \in Used' =>
              (Down(g, p, x) => Down(g, p, x)')
<1>1. Used \subseteq Page /\ kpt' = kpt
  BY DEF Used, TearStep, kpt
<1>2. PosInv(g)'
  BY DEF Inv, Core, PosInv
<1>3. LeafInv(g)'
  BY DEF Inv, Core, LeafInv, TearStep
<1>4. KernelInv(g)'
  <2> SUFFICES ASSUME NEW v \in KernelPage PROVE KMapped(g, v)'
    BY DEF KernelInv
  <2>1. v \notin ToInit
    BY DEF ToInit, TearStep
  <2>2. PICK p \in Page : At(g, p, KernelAs, v, PtLevels) /\ tab[p][v[PtLevels]] = Entry(v, FALSE)
    BY <2>1 DEF Inv, KernelInv, KMapped
  <2>3. At(g, p, KernelAs, v, PtLevels)'
    BY <2>2 DEF At
  <2> QED
    BY <2>2, <2>3 DEF KMapped, TearStep
<1>5. WalkInv(g)'
  BY DEF WalkInv, TearStep
<1>6. RootInv(g)'
  <2>1. \A s \in live' \cup {KernelAs} : s \in live \cup {KernelAs} /\ ptr'[s] = ptr[s]
    BY DEF TearStep
  <2>2. ASSUME NEW s \in live' \cup {KernelAs}, ptr'[s].p
        PROVE  /\ ptr'[s].to \in Used' /\ g[ptr'[s].to].own = s /\ g[ptr'[s].to].lev = 1
               /\ ptr'[s] = Entry(ptr'[s].to, IsUser(s))
    BY <2>1, <2>2 DEF Inv, Core, RootInv
  <2>3. \A s \in live' : ptr'[s].p
    BY DEF Inv, Core, RootInv, TearStep
  <2>4. \A p \in Used' : g[p].own \in live' \cup {KernelAs} =>
          ptr'[g[p].own].p /\ (g[p].lev = 1 => ptr'[g[p].own].to = p)
    BY <2>1 DEF Inv, Core, RootInv
  <2> QED
    BY <2>2, <2>3, <2>4 DEF RootInv
<1>7. Same(g, g)
  BY DEF Same, SameAt, At, TearStep
<1>8. ASSUME NEW p \in Used', NEW x \in Index, Down(g, p, x),
             Shared(g, p, x) \/ ~tab[p][x].p \/ tab[p][x].to \in Used'
      PROVE  Down(g, p, x)'
  BY <1>1, <1>8 DEF Down, Shared, TearStep
<1> QED
  BY <1>2, <1>3, <1>4, <1>5, <1>6, <1>7, <1>8

LEMMA Cons ==
  ASSUME NEW T, NEW q \in Seq(T), NEW e \in T
  PROVE  /\ <<e>> \o q \in Seq(T) /\ Len(<<e>> \o q) = Len(q) + 1 /\ (<<e>> \o q)[1] = e
         /\ \A k \in 2 .. Len(q) + 1 : (<<e>> \o q)[k] = q[k - 1]
OBVIOUS

LEMMA Uncons ==
  ASSUME NEW T, NEW q \in Seq(T), q # <<>>
  PROVE  /\ Tail(q) \in Seq(T) /\ Len(q) \in Nat \ {0} /\ Len(Tail(q)) = Len(q) - 1
         /\ Head(q) = q[1] /\ q[1] \in T
         /\ \A k \in 1 .. Len(q) - 1 : Tail(q)[k] = q[k + 1]
OBVIOUS

LEMMA Unprotect ==
  ASSUME TypeInv, NEW g \in Placement, Inv(g), NEW s \in Space, unprotect(s)
  PROVE  TypeInv' /\ Inv(g)' /\ Same(g, g)
<1>1. /\ op = Idle /\ op.name = "idle" /\ s \in live /\ op' = [name |-> "teardown"]
      /\ live' = live \ {s} /\ UNCHANGED <<free, tab, ptr, panicked>>
  BY DEF unprotect, Idle
<1>2. stack = <<>> /\ \A p \in Used : g[p].own \in live \cup {KernelAs}
  BY <1>1 DEF Inv, AliveInv
<1>3. PICK r \in Used : /\ r = ptr[s].to /\ g[r].own = s /\ g[r].lev = 1 /\ ptr[s].p
                        /\ ptr[s] = Entry(r, IsUser(s))
  BY <1>1 DEF Inv, Core, RootInv
<1>4. PtLevels \in Nat /\ PtLevels > 1 /\ 1 \in 1 .. PtLevels /\ s # KernelAs
  BY X86VmeAssumption
<1> DEFINE e == [pt |-> r, level |-> 1, todo |-> Index]
<1>5. stack' = <<e>>
  <2>1. ptr[s].u
    BY <1>3, <1>4, EntryFields, Zenon DEF IsUser
  <2>2. torn(ptr[s], 0)
    BY <1>3, <1>4, <2>1 DEF torn
  <2> QED
    BY <1>3, <2>2 DEF unprotect
<1>6. e \in StackFrame /\ e.pt = r /\ e.level = 1 /\ e.todo = Index
  BY <1>4 DEF StackFrame, Used
<1> HIDE DEF e
<1>7. Len(stack') = 1 /\ stack'[1] = e /\ stack' \in Seq(StackFrame)
  BY <1>5, <1>6
<1>8. op'.name = "teardown" /\ op' \in OpSet
  BY <1>1 DEF OpSet
<1>9. TypeInv'
  BY <1>1, <1>7, <1>8 DEF TypeInv
<1>10. TearStep
  BY <1>1, <1>8 DEF TearStep
<1>11. Used' = Used
  BY <1>1 DEF Used
<1>12. \A p, x : Pending(p, x) /\ (x \in Index => Pending(p, x)')
  BY <1>2, <1>6, <1>7 DEF Pending
<1>13. /\ PosInv(g)' /\ LeafInv(g)' /\ KernelInv(g)' /\ WalkInv(g)' /\ RootInv(g)' /\ Same(g, g)
       /\ \A p \in Used', x \in Index : Shared(g, p, x) \/ ~tab[p][x].p \/ tab[p][x].to \in Used' =>
            (Down(g, p, x) => Down(g, p, x)')
  BY <1>10, <1>11, TearKept
<1>14. ChildInv(g)'
  <2> SUFFICES ASSUME NEW p \in Used, NEW x \in Index, g[p].lev < PtLevels PROVE Down(g, p, x)'
    BY <1>11 DEF ChildInv
  <2>1. Down(g, p, x)
    BY <1>12 DEF Inv, Core, ChildInv
  <2> QED
    BY <1>11, <1>13, <2>1 DEF Down
<1>15. ParentInv(g)'
  <2> SUFFICES ASSUME NEW p \in Used, g[p].lev > 1 PROVE \E q \in Page : Parent(g, q, p)'
    BY <1>11 DEF ParentInv
  <2>1. ~OnStack(p)
    BY <1>2 DEF OnStack
  <2>2. PICK q \in Page : Parent(g, q, p)
    BY <2>1 DEF Inv, Core, ParentInv
  <2>3. g[p].adr[g[q].lev] \in Index
    BY <2>2 DEF Parent, Placement, Used, Addr
  <2> QED
    BY <1>1, <1>11, <1>12, <2>2, <2>3 DEF Parent
<1>16. Dying(g, s)'
  <2>1. s \in Space \ live' /\ \A p \in Used' : g[p].own \in live' \cup {KernelAs, s}
    BY <1>1, <1>2, <1>11
  <2>2. \A p \in Used' : g[p].own = s /\ g[p].lev = 1 => OnStack(p)'
    <3> SUFFICES ASSUME NEW p \in Used, g[p].own = s, g[p].lev = 1 PROVE OnStack(p)'
      BY <1>11
    <3>1. p = r
      BY <1>1, <1>3 DEF Inv, Core, RootInv
    <3> QED
      BY <1>6, <1>7, <3>1 DEF OnStack
  <2>3. \A k \in 1 .. Len(stack') :
          /\ stack'[k].pt \in Used' /\ g[stack'[k].pt].own = s
          /\ stack'[k].level = Len(stack') - k + 1 /\ g[stack'[k].pt].lev = stack'[k].level
    <3>1. \A k \in 1 .. Len(stack') : k = 1
      BY <1>7
    <3> QED
      BY <1>3, <1>6, <1>7, <1>11, <3>1
  <2>4. 1 .. Len(stack') - 1 = {}
    BY <1>7
  <2> QED
    BY <2>1, <2>2, <2>3, <2>4 DEF Dying
<1>17. AliveInv(g)' /\ DyingInv(g)'
  BY <1>8, <1>16 DEF AliveInv, DyingInv
<1> QED
  BY <1>9, <1>13, <1>14, <1>15, <1>17 DEF Inv, Core

\* The tables on teardown's stack, from the one it works on up.
LEMMA StackOf ==
  ASSUME TypeInv, NEW g \in Placement, NEW d \in Space, Dying(g, d)
  PROVE  /\ \A k \in 1 .. Len(stack) :
              /\ stack[k] \in StackFrame /\ stack[k].pt \in Used /\ g[stack[k].pt].own = d
              /\ stack[k].level = Len(stack) - k + 1 /\ g[stack[k].pt].lev = stack[k].level
         /\ \A k, m \in 1 .. Len(stack) : stack[k].pt = stack[m].pt => k = m
         /\ Len(stack) \in Nat /\ d # KernelAs /\ d \notin live
<1>1. stack \in Seq(StackFrame)
  BY DEF TypeInv
<1>2. \A k \in 1 .. Len(stack) :
        /\ stack[k].pt \in Used /\ g[stack[k].pt].own = d
        /\ stack[k].level = Len(stack) - k + 1 /\ g[stack[k].pt].lev = stack[k].level
  BY DEF Dying
<1>3. Len(stack) \in Nat /\ \A k \in 1 .. Len(stack) : stack[k] \in StackFrame
  BY <1>1
<1>4. d # KernelAs /\ d \notin live
  BY X86VmeAssumption DEF Dying
<1>5. ASSUME NEW k \in 1 .. Len(stack), NEW m \in 1 .. Len(stack), stack[k].pt = stack[m].pt
      PROVE  k = m
  <2>1. Len(stack) - k + 1 = Len(stack) - m + 1
    BY <1>2, <1>5
  <2> QED
    BY <1>3, <2>1
<1> QED
  BY <1>2, <1>3, <1>4, <1>5

LEMMA LeastOf ==
  ASSUME NEW S \in SUBSET Index, S # {}, NEW x, x = CHOOSE y \in S : \A z \in S : y <= z
  PROVE  x \in S
<1>1. \E y \in S : \A z \in S : y <= z
  BY X86VmeAssumption, LeastNat
<1> QED
  BY <1>1

\* The steps of teardown_entry: the topmost table's entry x is looked at, and followed if it
\* leads to a table.
Torn(x, e, rest) ==
  /\ x \in stack[1].todo /\ e = tab[stack[1].pt][x]
  /\ rest = <<[stack[1] EXCEPT !.todo = @ \ {x}]>> \o Tail(stack)
  /\ stack' = IF torn(e, stack[1].level)
              THEN <<[pt |-> e.to, level |-> stack[1].level + 1, todo |-> Index]>> \o rest
              ELSE rest

LEMMA TearEntry ==
  ASSUME TypeInv, NEW g \in Placement, Inv(g), op.name = "teardown", stack # <<>>,
         NEW x, NEW e, NEW rest, Torn(x, e, rest),
         UNCHANGED <<free, tab, ptr, live, op, panicked>>
  PROVE  TypeInv' /\ Inv(g)' /\ Same(g, g)
<1>1. PICK d \in Space : Dying(g, d)
  BY DEF Inv, DyingInv
<1>2. PtLevels \in Nat /\ PtLevels > 1
  BY X86VmeAssumption
<1>3. /\ \A k \in 1 .. Len(stack) :
           /\ stack[k] \in StackFrame /\ stack[k].pt \in Used /\ g[stack[k].pt].own = d
           /\ stack[k].level = Len(stack) - k + 1 /\ g[stack[k].pt].lev = stack[k].level
      /\ \A k, m \in 1 .. Len(stack) : stack[k].pt = stack[m].pt => k = m
      /\ Len(stack) \in Nat /\ d # KernelAs /\ d \notin live
  BY <1>1, StackOf
<1>4. /\ stack \in Seq(StackFrame) /\ Tail(stack) \in Seq(StackFrame)
      /\ Len(stack) \in Nat \ {0} /\ Len(Tail(stack)) = Len(stack) - 1
      /\ \A k \in 1 .. Len(stack) - 1 : Tail(stack)[k] = stack[k + 1]
  BY Uncons DEF TypeInv
<1>5. 1 \in 1 .. Len(stack)
  BY <1>4
<1>6. PICK top : top = stack[1]
  OBVIOUS
<1>7. /\ top \in StackFrame /\ top.pt \in Used /\ g[top.pt].own = d /\ top.level = Len(stack)
      /\ g[top.pt].lev = top.level
  BY <1>3, <1>5, <1>6
<1>8. top.todo \subseteq Index /\ x \in Index /\ x \in top.todo /\ e = tab[top.pt][x]
  BY <1>6, <1>7 DEF StackFrame, Torn
<1> DEFINE low == [top EXCEPT !.todo = @ \ {x}]
<1>9. low \in StackFrame /\ low.pt = top.pt /\ low.level = top.level /\ low.todo = top.todo \ {x}
  BY <1>7, <1>8 DEF StackFrame
<1> HIDE DEF low
<1>10. rest = <<low>> \o Tail(stack)
  BY <1>6 DEF Torn, low
<1>11. /\ rest \in Seq(StackFrame) /\ Len(rest) = Len(stack) /\ rest[1] = low
       /\ \A k \in 2 .. Len(stack) : rest[k] = stack[k]
  <2>1. /\ <<low>> \o Tail(stack) \in Seq(StackFrame)
        /\ Len(<<low>> \o Tail(stack)) = Len(Tail(stack)) + 1 /\ (<<low>> \o Tail(stack))[1] = low
        /\ \A k \in 2 .. Len(Tail(stack)) + 1 : (<<low>> \o Tail(stack))[k] = Tail(stack)[k - 1]
    BY <1>4, <1>9, Cons
  <2>2. Len(rest) = Len(stack)
    BY <1>4, <1>10, <2>1
  <2>3. ASSUME NEW k \in 2 .. Len(stack) PROVE rest[k] = stack[k]
    <3>1. k - 1 \in 1 .. Len(stack) - 1 /\ k - 1 + 1 = k /\ k \in 2 .. Len(Tail(stack)) + 1
      BY <1>4
    <3>2. rest[k] = Tail(stack)[k - 1]
      BY <1>10, <2>1, <3>1
    <3>3. Tail(stack)[k - 1] = stack[k - 1 + 1]
      BY <1>4, <3>1
    <3> QED
      BY <3>1, <3>2, <3>3
  <2> QED
    BY <1>10, <2>1, <2>2, <2>3
<1>12. \A k \in 1 .. Len(stack) :
         /\ rest[k] \in StackFrame /\ rest[k].pt = stack[k].pt /\ rest[k].level = stack[k].level
         /\ rest[k].todo = IF k = 1 THEN top.todo \ {x} ELSE stack[k].todo
  <2> SUFFICES ASSUME NEW k \in 1 .. Len(stack)
               PROVE  /\ rest[k] \in StackFrame /\ rest[k].pt = stack[k].pt
                      /\ rest[k].level = stack[k].level
                      /\ rest[k].todo = IF k = 1 THEN top.todo \ {x} ELSE stack[k].todo
    OBVIOUS
  <2>1. CASE k = 1
    BY <1>6, <1>9, <1>11, <2>1
  <2>2. CASE k # 1
    <3>1. k \in 2 .. Len(stack)
      BY <1>4, <2>2
    <3> QED
      BY <1>3, <1>11, <2>2, <3>1
  <2> QED
    BY <2>1, <2>2
<1>13. Pending(top.pt, x)
  BY <1>3, <1>5, <1>6, <1>8 DEF Pending
<1> DEFINE c == e.to
           deep == [pt |-> c, level |-> top.level + 1, todo |-> Index]
<1>14. ASSUME torn(e, top.level)
       PROVE  /\ c \in Used /\ g[c].own = d /\ g[c].lev = top.level + 1
              /\ Agree(g[c].adr, g[top.pt].adr, top.level - 1) /\ g[c].adr[top.level] = x
              /\ deep \in StackFrame
  <2>1. e.p /\ e.u /\ top.level < PtLevels
    BY <1>14 DEF torn
  <2>2. Down(g, top.pt, x)
    BY <1>7, <1>8, <1>13, <2>1 DEF Inv, Core, ChildInv
  <2>3. ~Shared(g, top.pt, x)
    <3> SUFFICES ASSUME Shared(g, top.pt, x) PROVE FALSE
      OBVIOUS
    <3>1. ptr[KernelAs].p /\ e = tab[kpt][x]
      BY <1>8, <2>2 DEF Down
    <3>2. kpt \in Used /\ g[kpt].own = KernelAs /\ g[kpt].lev = 1
      BY <3>1 DEF Inv, Core, RootInv, kpt
    <3>3. ~Shared(g, kpt, x) /\ KernelAs \in live \cup {KernelAs}
      BY <3>2 DEF Shared, IsUser
    <3>4. e.u <=> IsUser(g[kpt].own)
      BY <1>2, <1>8, <2>1, <3>1, <3>2, <3>3, ChildOf
    <3> QED
      BY <2>1, <3>2, <3>4 DEF IsUser
  <2>4. /\ e.to \in Used /\ g[e.to].own = d /\ g[e.to].lev = top.level + 1
        /\ Agree(g[e.to].adr, g[top.pt].adr, top.level - 1) /\ g[e.to].adr[top.level] = x
    BY <1>7, <1>8, <2>1, <2>2, <2>3 DEF Down
  <2>5. top.level + 1 \in 1 .. PtLevels
    BY <1>2, <1>7, <2>1 DEF StackFrame
  <2> QED
    BY <2>4, <2>5 DEF StackFrame, Used
<1> HIDE DEF c
<1>15. ASSUME NEW p \in Used, Parent(g, top.pt, p), g[p].adr[top.level] = x
       PROVE  torn(e, top.level) /\ c = p
  <2>1. e = Entry(p, IsUser(g[p].own)) /\ g[p].own = d /\ g[p].lev = top.level + 1
    BY <1>7, <1>8, <1>15 DEF Parent
  <2>2. IsUser(g[p].own) = TRUE
    BY <1>3, <2>1 DEF IsUser
  <2>3. e = Entry(p, TRUE)
    BY <2>1, <2>2, Zenon
  <2>4. e.p /\ e.u /\ e.to = p
    BY <2>3, EntryFields
  <2>5. top.level < PtLevels
    BY <1>2, <1>7, <2>1 DEF Placement, Used
  <2> QED
    BY <2>4, <2>5 DEF torn, c
<1>16. PICK o \in {0, 1} :
         /\ stack' \in Seq(StackFrame) /\ Len(stack') = Len(stack) + o
         /\ \A k \in 1 .. Len(stack) : stack'[k + o] = rest[k]
         /\ o = 1 <=> torn(e, top.level)
         /\ o = 1 => stack'[1] = deep
  <2>1. CASE torn(e, top.level)
    <3>1. stack' = <<deep>> \o rest
      BY <1>6, <2>1 DEF Torn, c
    <3>2. deep \in StackFrame
      BY <1>14, <2>1
    <3> HIDE DEF deep
    <3>3. /\ stack' \in Seq(StackFrame) /\ Len(stack') = Len(rest) + 1 /\ stack'[1] = deep
          /\ \A k \in 2 .. Len(rest) + 1 : stack'[k] = rest[k - 1]
      BY <1>11, <3>1, <3>2, Cons
    <3>4. ASSUME NEW k \in 1 .. Len(stack) PROVE stack'[k + 1] = rest[k]
      <4>1. k + 1 \in 2 .. Len(rest) + 1 /\ k + 1 - 1 = k
        BY <1>4, <1>11
      <4> QED
        BY <3>3, <4>1
    <3> QED
      BY <1>11, <2>1, <3>3, <3>4
  <2>2. CASE ~torn(e, top.level)
    <3>1. stack' = rest
      BY <1>6, <2>2 DEF Torn
    <3>2. Len(stack') = Len(stack) + 0 /\ \A k \in 1 .. Len(stack) : k + 0 = k
      BY <1>4, <1>11, <3>1
    <3> QED
      BY <1>11, <2>2, <3>1, <3>2
  <2> QED
    BY <2>1, <2>2
<1>17. \A k \in 1 .. Len(stack) :
         /\ stack'[k + o].pt = stack[k].pt /\ stack'[k + o].level = stack[k].level
         /\ stack'[k + o].todo = IF k = 1 THEN top.todo \ {x} ELSE stack[k].todo
  BY <1>12, <1>16
<1>18. ASSUME NEW k \in 1 .. Len(stack') PROVE k - o \in 1 .. Len(stack) \/ (o = 1 /\ k = 1)
  BY <1>4, <1>16
<1>19. TypeInv'
  BY <1>16 DEF TypeInv
<1>20. TearStep /\ Used' = Used
  BY DEF TearStep, Used
<1>21. /\ PosInv(g)' /\ LeafInv(g)' /\ KernelInv(g)' /\ WalkInv(g)' /\ RootInv(g)' /\ Same(g, g)
       /\ \A p \in Used', y \in Index : Shared(g, p, y) \/ ~tab[p][y].p \/ tab[p][y].to \in Used' =>
            (Down(g, p, y) => Down(g, p, y)')
  BY <1>20, TearKept
<1>22. \A p : OnStack(p) => OnStack(p)'
  <2> SUFFICES ASSUME NEW p, NEW k \in 1 .. Len(stack), stack[k].pt = p PROVE OnStack(p)'
    BY DEF OnStack
  <2>1. k + o \in 1 .. Len(stack')
    BY <1>4, <1>16
  <2> QED
    BY <1>17, <2>1 DEF OnStack
<1>23. ChildInv(g)'
  <2> SUFFICES ASSUME NEW p \in Used, NEW y \in Index, Pending(p, y)', g[p].lev < PtLevels
               PROVE  Down(g, p, y)'
    BY <1>20 DEF ChildInv
  <2>1. Pending(p, y)
    <3> SUFFICES ASSUME NEW k \in 1 .. Len(stack), stack[k].pt = p PROVE y \in stack[k].todo
      BY DEF Pending
    <3>1. k + o \in 1 .. Len(stack')
      BY <1>4, <1>16
    <3>2. y \in stack'[k + o].todo
      BY <1>17, <3>1 DEF Pending
    <3> QED
      BY <1>6, <1>17, <3>2
  <2>2. Down(g, p, y)
    BY <2>1 DEF Inv, Core, ChildInv
  <2> QED
    BY <1>20, <1>21, <2>2 DEF Down
<1>24. ParentInv(g)'
  <2> SUFFICES ASSUME NEW p \in Used, g[p].lev > 1, ~OnStack(p)'
               PROVE  \E q \in Page : Parent(g, q, p)'
    BY <1>20 DEF ParentInv
  <2>1. PICK q \in Page : Parent(g, q, p)
    BY <1>22 DEF Inv, Core, ParentInv
  <2> DEFINE y == g[p].adr[g[q].lev]
  <2>2. y \in Index
    BY <2>1 DEF Parent, Placement, Used, Addr
  <2>3. ~(q = top.pt /\ y = x)
    <3> SUFFICES ASSUME q = top.pt, y = x PROVE FALSE
      OBVIOUS
    <3>1. torn(e, top.level) /\ c = p
      BY <1>7, <1>15, <2>1
    <3>2. OnStack(p)'
      <4>1. 1 \in 1 .. Len(stack') /\ stack'[1].pt = p
        BY <1>4, <1>16, <3>1
      <4> QED
        BY <4>1 DEF OnStack
    <3> QED
      BY <3>2
  <2>4. Pending(q, y)
    BY <2>1 DEF Parent
  <2> HIDE DEF y
  <2>5. Pending(q, y)'
    <3> SUFFICES ASSUME NEW k \in 1 .. Len(stack'), stack'[k].pt = q PROVE y \in stack'[k].todo
      BY DEF Pending
    <3>1. CASE o = 1 /\ k = 1
      BY <1>16, <2>2, <3>1
    <3>2. ASSUME NEW m \in 1 .. Len(stack), m = k - o PROVE y \in stack'[k].todo
      <4>1. k = m + o
        BY <1>4, <1>16, <3>2
      <4>2. stack[m].pt = q
        BY <1>17, <4>1
      <4>3. y \in stack[m].todo
        BY <2>4, <4>2 DEF Pending
      <4> QED
        BY <1>6, <1>17, <2>3, <4>1, <4>2, <4>3
    <3> QED
      BY <1>18, <3>1, <3>2
  <2> QED
    BY <1>20, <2>1, <2>5 DEF Parent, y
<1>25. Dying(g, d)'
  <2>1. d \in Space \ live' /\ \A p \in Used' : g[p].own \in live' \cup {KernelAs, d}
    BY <1>1, <1>20 DEF Dying
  <2>2. \A p \in Used' : g[p].own = d /\ g[p].lev = 1 => OnStack(p)'
    BY <1>1, <1>20, <1>22 DEF Dying
  <2>3. ASSUME NEW k \in 1 .. Len(stack')
        PROVE  /\ stack'[k].pt \in Used' /\ g[stack'[k].pt].own = d
               /\ stack'[k].level = Len(stack') - k + 1 /\ g[stack'[k].pt].lev = stack'[k].level
    <3>1. CASE o = 1 /\ k = 1
      BY <1>4, <1>7, <1>14, <1>16, <1>20, <3>1
    <3>2. ASSUME NEW m \in 1 .. Len(stack), m = k - o
          PROVE  /\ stack'[k].pt \in Used' /\ g[stack'[k].pt].own = d
                 /\ stack'[k].level = Len(stack') - k + 1 /\ g[stack'[k].pt].lev = stack'[k].level
      <4>1. k = m + o /\ Len(stack') - k + 1 = Len(stack) - m + 1
        BY <1>4, <1>16, <3>2
      <4>2. stack'[k].pt = stack[m].pt /\ stack'[k].level = stack[m].level
        BY <1>17, <4>1
      <4> QED
        BY <1>3, <1>20, <4>1, <4>2
    <3> QED
      BY <1>18, <3>1, <3>2
  <2>4. ASSUME NEW k \in 1 .. Len(stack') - 1
        PROVE  /\ Agree(g[stack'[k + 1].pt].adr, g[stack'[k].pt].adr, g[stack'[k + 1].pt].lev - 1)
               /\ g[stack'[k].pt].adr[g[stack'[k + 1].pt].lev] \notin stack'[k + 1].todo
    <3>1. CASE o = 1 /\ k = 1
      <4>1. stack'[2].pt = top.pt /\ stack'[2].todo = top.todo \ {x} /\ stack'[1].pt = c
        BY <1>5, <1>6, <1>16, <1>17, <3>1
      <4>2. Agree(g[top.pt].adr, g[c].adr, top.level - 1) /\ g[c].adr[top.level] = x
        BY <1>14, <1>16, <3>1, AgreeSym
      <4>3. k + 1 = 2 /\ k = 1 /\ g[top.pt].lev = top.level /\ x \notin stack'[2].todo
        BY <1>7, <3>1, <4>1
      <4> QED
        BY <4>1, <4>2, <4>3
    <3>2. ASSUME NEW m \in 1 .. Len(stack), m = k - o
          PROVE  /\ Agree(g[stack'[k + 1].pt].adr, g[stack'[k].pt].adr, g[stack'[k + 1].pt].lev - 1)
                 /\ g[stack'[k].pt].adr[g[stack'[k + 1].pt].lev] \notin stack'[k + 1].todo
      <4>1. k = m + o /\ k + 1 = m + 1 + o /\ m + 1 \in 1 .. Len(stack) /\ m \in 1 .. Len(stack) - 1
        BY <1>4, <1>16, <3>2
      <4>2. /\ Agree(g[stack[m + 1].pt].adr, g[stack[m].pt].adr, g[stack[m + 1].pt].lev - 1)
            /\ g[stack[m].pt].adr[g[stack[m + 1].pt].lev] \notin stack[m + 1].todo
        BY <1>1, <4>1 DEF Dying
      <4>3. stack'[k].pt = stack[m].pt /\ stack'[k + 1].pt = stack[m + 1].pt
            /\ stack'[k + 1].todo = stack[m + 1].todo
        BY <1>4, <1>17, <4>1
      <4> QED
        BY <4>2, <4>3
    <3>3. k \in 1 .. Len(stack')
      BY <1>4, <1>16
    <3> QED
      BY <1>18, <3>1, <3>2, <3>3
  <2> QED
    BY <2>1, <2>2, <2>3, <2>4 DEF Dying
<1>26. AliveInv(g)' /\ DyingInv(g)'
  BY <1>25 DEF AliveInv, DyingInv
<1> QED
  BY <1>19, <1>21, <1>23, <1>24, <1>26 DEF Inv, Core

\* The steps of teardown_return: a table that has been looked through is given back.
LEMMA TearPop ==
  ASSUME TypeInv, NEW g \in Placement, Inv(g), op.name = "teardown",
         stack # <<>>, Head(stack).todo = {}, free' = pgfree(Head(stack)), stack' = Tail(stack),
         UNCHANGED <<tab, ptr, live, op, panicked>>
  PROVE  TypeInv' /\ Inv(g)' /\ Same(g, g)
<1>1. PICK d \in Space : Dying(g, d)
  BY DEF Inv, DyingInv
<1>2. PtLevels \in Nat /\ PtLevels > 1
  BY X86VmeAssumption
<1>3. /\ \A k \in 1 .. Len(stack) :
           /\ stack[k] \in StackFrame /\ stack[k].pt \in Used /\ g[stack[k].pt].own = d
           /\ stack[k].level = Len(stack) - k + 1 /\ g[stack[k].pt].lev = stack[k].level
      /\ \A k, m \in 1 .. Len(stack) : stack[k].pt = stack[m].pt => k = m
      /\ Len(stack) \in Nat /\ d # KernelAs /\ d \notin live
  BY <1>1, StackOf
<1>4. /\ stack \in Seq(StackFrame) /\ stack' \in Seq(StackFrame) /\ Head(stack) = stack[1]
      /\ Len(stack) \in Nat \ {0} /\ Len(stack') = Len(stack) - 1
      /\ \A k \in 1 .. Len(stack) - 1 : stack'[k] = stack[k + 1]
  BY Uncons DEF TypeInv
<1>5. 1 \in 1 .. Len(stack)
  BY <1>4
<1>6. PICK t \in Used : t = stack[1].pt
  BY <1>3, <1>5
<1>7. stack[1].todo = {} /\ g[t].own = d /\ g[t].lev = Len(stack) /\ t \in Page
  BY <1>3, <1>4, <1>5, <1>6 DEF Used
<1>8. free' = free \cup {t} /\ Used' = Used \ {t} /\ free' \subseteq Page
  BY <1>4, <1>6, <1>7 DEF pgfree, Used, TypeInv
<1>9. TypeInv'
  BY <1>4, <1>8 DEF TypeInv
<1>10. TearStep
  BY DEF TearStep
<1>11. /\ PosInv(g)' /\ LeafInv(g)' /\ KernelInv(g)' /\ WalkInv(g)' /\ RootInv(g)' /\ Same(g, g)
       /\ \A p \in Used', x \in Index : Shared(g, p, x) \/ ~tab[p][x].p \/ tab[p][x].to \in Used' =>
            (Down(g, p, x) => Down(g, p, x)')
  <2>1. \A p \in Used : g[p].own \in live' \cup {KernelAs} => p \in Used'
    BY <1>3, <1>7, <1>8
  <2> QED
    BY <1>8, <1>10, <2>1, TearKept
<1>12. ASSUME NEW k \in 1 .. Len(stack)
       PROVE  k = 1 \/ (k - 1 \in 1 .. Len(stack') /\ stack'[k - 1] = stack[k])
  <2> SUFFICES ASSUME k # 1 PROVE k - 1 \in 1 .. Len(stack') /\ stack'[k - 1] = stack[k]
    OBVIOUS
  <2>1. k - 1 \in 1 .. Len(stack) - 1 /\ k - 1 + 1 = k
    BY <1>4
  <2> QED
    BY <1>4, <2>1
<1>13. ASSUME NEW p, p # t
       PROVE  /\ OnStack(p) => OnStack(p)'
              /\ \A x : Pending(p, x)' => Pending(p, x)
  BY <1>6, <1>12, <1>13 DEF OnStack, Pending
<1>14. ASSUME NEW k \in 1 .. Len(stack')
       PROVE  k + 1 \in 1 .. Len(stack) /\ stack'[k] = stack[k + 1] /\ k \in 1 .. Len(stack)
  BY <1>4
<1>15. \A p, x : Pending(p, x) => Pending(p, x)'
  BY <1>14 DEF Pending
<1>16. ChildInv(g)'
  <2> SUFFICES ASSUME NEW p \in Used, p # t, NEW x \in Index, Pending(p, x)', g[p].lev < PtLevels
               PROVE  Down(g, p, x)'
    BY <1>8 DEF ChildInv
  <2>1. Pending(p, x)
    BY <1>13
  <2>2. Down(g, p, x)
    BY <2>1 DEF Inv, Core, ChildInv
  <2>3. ASSUME ~Shared(g, p, x), tab[p][x].p, tab[p][x].to = t PROVE FALSE
    <3>1. /\ g[t].own = g[p].own /\ g[t].lev = g[p].lev + 1
          /\ Agree(g[t].adr, g[p].adr, g[p].lev - 1) /\ g[t].adr[g[p].lev] = x
      BY <2>2, <2>3 DEF Down
    <3>2. g[p].lev \in 1 .. PtLevels
      BY DEF Placement, Used
    <3>3. 1 \in 1 .. Len(stack) - 1 /\ 2 \in 1 .. Len(stack) /\ g[p].lev = Len(stack) - 1
      BY <1>2, <1>4, <1>7, <3>1, <3>2
    <3>4. PICK q \in Used : q = stack[2].pt /\ g[q].own = d /\ g[q].lev = Len(stack) - 1
      BY <1>3, <3>3
    <3>5. Agree(g[q].adr, g[t].adr, g[q].lev - 1) /\ g[t].adr[g[q].lev] \notin stack[2].todo
      BY <1>1, <1>6, <3>3, <3>4 DEF Dying
    <3>6. Agree(g[q].adr, g[p].adr, g[p].lev - 1)
      BY <3>1, <3>3, <3>4, <3>5, AgreeTrans
    <3>7. p = q
      BY <1>7, <3>1, <3>3, <3>4, <3>6 DEF Inv, Core, PosInv
    <3>8. x \in stack[2].todo
      BY <2>1, <3>3, <3>4, <3>7 DEF Pending
    <3> QED
      BY <3>1, <3>3, <3>4, <3>5, <3>8
  <2>4. Shared(g, p, x) \/ ~tab[p][x].p \/ tab[p][x].to \in Used'
    BY <1>8, <2>2, <2>3 DEF Down
  <2> QED
    BY <1>8, <1>11, <2>2, <2>4
<1>17. ParentInv(g)'
  <2> SUFFICES ASSUME NEW p \in Used, p # t, g[p].lev > 1, ~OnStack(p)'
               PROVE  \E q \in Page : Parent(g, q, p)'
    BY <1>8 DEF ParentInv
  <2>1. PICK q \in Page : Parent(g, q, p)
    BY <1>13 DEF Inv, Core, ParentInv
  <2>2. q # t
    BY <1>5, <1>6, <1>7, <2>1 DEF Parent, Pending
  <2>3. Parent(g, q, p)'
    BY <1>8, <1>15, <2>1, <2>2 DEF Parent
  <2> QED
    BY <2>3
<1>18. Dying(g, d)'
  <2>1. d \in Space \ live' /\ \A p \in Used' : g[p].own \in live' \cup {KernelAs, d}
    BY <1>1, <1>8 DEF Dying
  <2>2. \A p \in Used' : g[p].own = d /\ g[p].lev = 1 => OnStack(p)'
    BY <1>1, <1>8, <1>13 DEF Dying
  <2>3. ASSUME NEW k \in 1 .. Len(stack')
        PROVE  /\ stack'[k].pt \in Used' /\ g[stack'[k].pt].own = d
               /\ stack'[k].level = Len(stack') - k + 1 /\ g[stack'[k].pt].lev = stack'[k].level
    <3>1. k + 1 \in 1 .. Len(stack) /\ stack'[k] = stack[k + 1] /\ k + 1 # 1
          /\ Len(stack) - (k + 1) + 1 = Len(stack') - k + 1
      BY <1>4, <1>14
    <3>2. stack[k + 1].pt # t
      BY <1>3, <1>5, <1>6, <3>1
    <3> QED
      BY <1>3, <1>8, <3>1, <3>2
  <2>4. ASSUME NEW k \in 1 .. Len(stack') - 1
        PROVE  /\ Agree(g[stack'[k + 1].pt].adr, g[stack'[k].pt].adr, g[stack'[k + 1].pt].lev - 1)
               /\ g[stack'[k].pt].adr[g[stack'[k + 1].pt].lev] \notin stack'[k + 1].todo
    <3>1. k + 1 \in 1 .. Len(stack) - 1 /\ k \in 1 .. Len(stack') /\ k + 1 \in 1 .. Len(stack')
      BY <1>4
    <3>2. stack'[k] = stack[k + 1] /\ stack'[k + 1] = stack[k + 1 + 1]
      BY <1>14, <3>1
    <3>3. /\ Agree(g[stack[k + 1 + 1].pt].adr, g[stack[k + 1].pt].adr, g[stack[k + 1 + 1].pt].lev - 1)
          /\ g[stack[k + 1].pt].adr[g[stack[k + 1 + 1].pt].lev] \notin stack[k + 1 + 1].todo
      BY <1>1, <3>1 DEF Dying
    <3> QED
      BY <3>2, <3>3
  <2> QED
    BY <2>1, <2>2, <2>3, <2>4 DEF Dying
<1>19. AliveInv(g)' /\ DyingInv(g)'
  BY <1>18 DEF AliveInv, DyingInv
<1> QED
  BY <1>9, <1>11, <1>16, <1>17, <1>19 DEF Inv, Core

\* When the stack is empty nothing of the dying space is left.
LEMMA TearEnd ==
  ASSUME TypeInv, NEW g \in Placement, Inv(g), op.name = "teardown", stack = <<>>, op' = Idle,
         UNCHANGED <<free, stack, tab, ptr, live, panicked>>
  PROVE  TypeInv' /\ Inv(g)' /\ Same(g, g)
<1>1. PICK d \in Space : Dying(g, d)
  BY DEF Inv, DyingInv
<1>2. \A p : ~OnStack(p)
  BY DEF OnStack
<1> DEFINE S == {n \in Nat : \A p \in Used : g[p].own = d => g[p].lev # n + 1}
<1>3. \A p \in Used : g[p].lev \in 1 .. PtLevels
  BY DEF Placement, Used
<1>4. 0 \in S
  BY <1>1, <1>2 DEF Dying
<1>5. ASSUME NEW n \in S PROVE n + 1 \in S
  <2> SUFFICES ASSUME NEW p \in Used, g[p].own = d, g[p].lev = n + 1 + 1 PROVE FALSE
    OBVIOUS
  <2>1. PICK q \in Page : Parent(g, q, p)
    BY <1>2 DEF Inv, Core, ParentInv
  <2>2. q \in Used /\ g[q].own = d /\ g[q].lev = n + 1
    BY <1>3, <2>1, X86VmeAssumption DEF Parent
  <2> QED
    BY <2>2
<1>6. S = Nat
  <2>1. S \in SUBSET Nat
    OBVIOUS
  <2> HIDE DEF S
  <2> QED
    BY <1>4, <1>5, <2>1, InductNat
<1>7. \A p \in Used : g[p].own # d
  <2> SUFFICES ASSUME NEW p \in Used, g[p].own = d PROVE FALSE
    OBVIOUS
  <2>1. g[p].lev - 1 \in Nat /\ g[p].lev - 1 + 1 = g[p].lev
    BY <1>3, X86VmeAssumption
  <2>2. g[p].lev - 1 \in S
    BY <1>6, <2>1
  <2> QED
    BY <2>1, <2>2
<1>8. Used' = Used /\ op'.name = "idle" /\ op' \in OpSet
  BY DEF Used, Idle, OpSet
<1>9. TypeInv'
  BY <1>8 DEF TypeInv
<1>10. TearStep
  BY <1>8 DEF TearStep
<1>11. KernelInv(g)' /\ WalkInv(g)' /\ Same(g, g)
  BY <1>8, <1>10, TearKept
<1>12. Core(g)'
  BY CoreKept DEF Inv
<1>13. AliveInv(g)' /\ DyingInv(g)'
  BY <1>1, <1>7, <1>8 DEF Dying, AliveInv, DyingInv
<1> QED
  BY <1>9, <1>11, <1>12, <1>13 DEF Inv

-----------------------------------------------------------------------------
(* Every step keeps the invariant, and changes what users see only as the     *)
(* calls promise.                                                             *)

LEMMA Panics ==
  ASSUME TypeInv, NEW g \in Placement, Inv(g), panicked' = TRUE,
         UNCHANGED <<free, tab, ptr, live, op, stack>>
  PROVE  TypeInv' /\ Inv(g)' /\ Same(g, g)
<1>1. Core(g)' /\ \A v : KMapped(g, v) => KMapped(g, v)'
  BY CoreKept DEF Inv
<1>2. Same(g, g)
  BY SameTables
<1>3. TypeInv'
  BY DEF TypeInv
<1>4. ToInit' = ToInit /\ Used' = Used
  BY DEF ToInit, Used
<1>5. KernelInv(g)'
  BY <1>1, <1>4 DEF Inv, KernelInv
<1>6. WalkInv(g)'
  BY <1>4 DEF Inv, WalkInv, At
<1>7. AliveInv(g)'
  BY <1>4 DEF Inv, AliveInv
<1>8. \A d : Dying(g, d) => Dying(g, d)'
  BY <1>4 DEF Dying, OnStack
<1>9. DyingInv(g)'
  BY <1>8 DEF Inv, DyingInv
<1> QED
  BY <1>1, <1>2, <1>3, <1>5, <1>6, <1>7, <1>9 DEF Inv

LEMMA Stutters ==
  ASSUME TypeInv, NEW g \in Placement, Inv(g), UNCHANGED vars
  PROVE  TypeInv' /\ Inv(g)' /\ Same(g, g)
<1>1. UNCHANGED <<free, tab, ptr, live, op, stack, panicked>>
  BY DEF vars
<1>2. TypeInv'
  BY <1>1 DEF TypeInv
<1>3. Core(g)' /\ \A v : KMapped(g, v) => KMapped(g, v)'
  BY <1>1, CoreKept DEF Inv
<1>4. Same(g, g)
  BY <1>1, SameTables
<1>5. ToInit' = ToInit /\ Used' = Used
  BY <1>1 DEF ToInit, Used
<1>6. KernelInv(g)'
  BY <1>3, <1>5 DEF Inv, KernelInv
<1>7. WalkInv(g)'
  BY <1>1, <1>5 DEF Inv, WalkInv, At
<1>8. AliveInv(g)'
  BY <1>1, <1>5 DEF Inv, AliveInv
<1>9. \A d : Dying(g, d) => Dying(g, d)'
  BY <1>1, <1>5 DEF Dying, OnStack
<1>10. DyingInv(g)'
  BY <1>1, <1>9 DEF Inv, DyingInv
<1> QED
  BY <1>2, <1>3, <1>4, <1>6, <1>7, <1>8, <1>10 DEF Inv

\* An entry of the last level is written: page p of space s, for address va.
Writes(g, s, va, p) ==
  /\ live' = live /\ At(g, p, s, va, PtLevels) /\ At(g, p, s, va, PtLevels)'
  /\ \A t \in live, w \in UserPage : <<t, w>> # <<s, va>> => SameAt(g, g, t, w)
  /\ \/ ~tab[p][va[PtLevels]].p /\ \E f \in Frame : tab'[p][va[PtLevels]] = Entry(f, TRUE)
     \/ tab[p][va[PtLevels]].p /\ tab[p][va[PtLevels]].to \in Frame /\ tab'[p][va[PtLevels]] = Zero

Effect(g, h) ==
  \/ live' = live /\ Same(g, h)
  \/ \E s \in Space : s \in live /\ live' = live \ {s} /\ Same(g, h)
  \/ \E s \in Space : /\ s \notin live /\ live' = live \cup {s} /\ Same(g, h)
                      /\ \A p \in Used' : h[p].own = s => h[p].lev = 1
  \/ h = g /\ \E s \in live, va \in UserPage, p \in Used : Writes(g, s, va, p)

LEMMA LeafEffect ==
  ASSUME TypeInv, NEW g \in Placement, Inv(g), op.name \in {"map", "unmap"}, op.i = PtLevels,
         NEW e \in Entries, e = Zero \/ \E f \in Frame : e = Entry(f, TRUE),
         e.p <=> ~ptentry.p, set_ptentry(e), UNCHANGED <<free, ptr, live, stack>>
  PROVE  \E s \in live, va \in UserPage, p \in Used : Writes(g, s, va, p)
<1>1. op.name \in Walks /\ tab' = [tab EXCEPT ![op.cur][op.va[op.i]] = e]
  BY DEF set_ptentry, Walks
<1>2. /\ At(g, op.cur, op.as, op.va, PtLevels)
      /\ \A q \in Page, x \in Index : tab'[q][x] =
           IF q = op.cur /\ x = op.va[PtLevels] THEN e ELSE tab[q][x]
  BY <1>1, LeafWrite
<1>3. op.as \in live /\ op.va \in UserPage /\ op.cur \in Used
  BY <1>1, <1>2, WalkType DEF Inv, WalkInv, At
<1>4. PICK s \in live, va \in UserPage, p \in Used : s = op.as /\ va = op.va /\ p = op.cur
  BY <1>3
<1>5. PtLevels \in Nat /\ PtLevels > 1 /\ PtLevels \in 1 .. PtLevels /\ IsUser(s)
      /\ UserPage \subseteq Addr /\ Used \subseteq Page /\ Used' = Used
  BY X86VmeAssumption DEF TypeInv, IsUser, Addr, Used
<1> DEFINE last == va[PtLevels]
<1>6. last \in Index
  BY <1>5 DEF Addr
<1> HIDE DEF last
<1>7. At(g, p, s, va, PtLevels) /\ At(g, p, s, va, PtLevels)'
  BY <1>2, <1>4, <1>5 DEF At
<1>8. \A q \in Used, x \in Index : tab'[q][x] = IF q = p /\ x = last THEN e ELSE tab[q][x]
  BY <1>2, <1>4, <1>5 DEF last
<1>9. ptentry = tab[p][last]
  BY <1>4 DEF ptentry, last
<1>10. ASSUME NEW t \in live, NEW w \in UserPage, <<t, w>> # <<s, va>> PROVE SameAt(g, g, t, w)
  <2>1. ASSUME NEW q \in Used, At(g, q, t, w, PtLevels)
        PROVE  tab'[q][w[PtLevels]] = tab[q][w[PtLevels]]
    <3>1. w[PtLevels] \in Index
      BY <1>5 DEF Addr
    <3>2. ~(q = p /\ w[PtLevels] = last)
      <4> SUFFICES ASSUME q = p, w[PtLevels] = last PROVE FALSE
        OBVIOUS
      <4>1. t = s /\ Agree(g[p].adr, w, PtLevels - 1) /\ Agree(g[p].adr, va, PtLevels - 1)
        BY <1>7, <2>1 DEF At
      <4>2. Agree(w, va, PtLevels - 1)
        BY <1>5, <4>1, AgreeSym, AgreeTrans
      <4>3. \A j \in 1 .. PtLevels : w[j] = va[j]
        <5>1. \A j \in 1 .. PtLevels : j <= PtLevels - 1 \/ j = PtLevels
          BY <1>5
        <5> QED
          BY <4>2, <5>1 DEF Agree, last
      <4>4. w = va
        BY <1>5, <4>3 DEF Addr
      <4> QED
        BY <1>10, <4>1, <4>4
    <3> QED
      BY <1>8, <3>1, <3>2
  <2>2. \A q : At(g, q, t, w, PtLevels)' <=> At(g, q, t, w, PtLevels)
    BY <1>5 DEF At
  <2> QED
    BY <1>5, <2>1, <2>2 DEF SameAt
<1>11. tab'[p][last] = e
  BY <1>6, <1>8
<1>12. CASE ~tab[p][last].p
  <2>1. e.p
    BY <1>9, <1>12
  <2>2. \E f \in Frame : e = Entry(f, TRUE)
    BY <2>1, EntryFields
  <2>3. Writes(g, s, va, p)
    BY <1>7, <1>10, <1>11, <1>12, <2>2 DEF Writes, last
  <2> QED
    BY <2>3
<1>13. CASE tab[p][last].p
  <2>1. ~e.p
    BY <1>9, <1>13
  <2>2. e = Zero
    BY <2>1, EntryFields
  <2>3. tab[p][last].to \in Frame
    <3>1. g[p].lev = PtLevels /\ IsUser(g[p].own)
      BY <1>5, <1>7 DEF At
    <3> QED
      BY <1>6, <1>13, <3>1 DEF Inv, Core, LeafInv
  <2>4. Writes(g, s, va, p)
    BY <1>7, <1>10, <1>11, <1>13, <2>2, <2>3 DEF Writes, last
  <2> QED
    BY <2>4
<1> QED
  BY <1>12, <1>13

LEMMA Steps ==
  ASSUME TypeInv, NEW g \in Placement, Inv(g), [Next]_vars
  PROVE  TypeInv' /\ \E h \in Placement : Inv(h)' /\ Effect(g, h)
<1>1. CASE UNCHANGED vars
  <2>1. live' = live
    BY <1>1 DEF vars
  <2> QED
    BY <1>1, <2>1, Stutters DEF Effect
<1>2. CASE init_next
  <2>1. live' = live /\ UNCHANGED <<free, tab>>
    BY <1>2 DEF init_next
  <2> QED
    BY <1>2, <2>1, InitNext, SameTables DEF Effect
<1>3. CASE init_leaf
  <2>1. live = {} /\ live' = live
    BY <1>3 DEF init_leaf, walked, Inv, WalkInv
  <2>2. Same(g, g)
    BY <2>1 DEF Same
  <2> QED
    BY <1>3, <2>1, <2>2, InitLeaf DEF Effect
<1>4. CASE ptwalk
  <2>1. live' = live
    BY <1>4 DEF ptwalk
  <2> QED
    BY <1>4, <2>1, PtWalk DEF Effect
<1>5. CASE map_leaf
  <2>1. UNCHANGED <<free, ptr, live, stack>>
    BY <1>5 DEF map_leaf
  <2>2. ASSUME NEW e \in Entries, e = Zero \/ \E f \in Frame : e = Entry(f, TRUE),
               op.name \in {"map", "unmap"}, op.i = PtLevels, e.p <=> ~ptentry.p,
               set_ptentry(e), op' = Walk("walk_again", op.as, op.va, "none"), panicked' = panicked
        PROVE  TypeInv' /\ Inv(g)' /\ \E s \in live, va \in UserPage, p \in Used : Writes(g, s, va, p)
    BY <2>1, <2>2, MapLeaf, LeafEffect
  <2>3. CASE /\ walked("map") /\ may_map
             /\ set_ptentry(Entry(op.f, TRUE))
             /\ op' = Walk("walk_again", op.as, op.va, "none")
             /\ UNCHANGED panicked
    <3>1. op.name = "map" /\ op.i = PtLevels /\ ~ptentry.p
      BY <2>3 DEF walked, may_map
    <3>2. op.f \in Frame
      BY <3>1, WalkType DEF Walks
    <3> DEFINE e == Entry(op.f, TRUE)
    <3>3. e \in Entries /\ e.p /\ \E f \in Frame : e = Entry(f, TRUE)
      BY <3>2, EntryTypes, EntryFields DEF Target
    <3>4. set_ptentry(e)
      BY <2>3
    <3> HIDE DEF e
    <3>5. TypeInv' /\ Inv(g)' /\ \E s \in live, va \in UserPage, p \in Used : Writes(g, s, va, p)
      BY <2>2, <2>3, <3>1, <3>3, <3>4
    <3> QED
      BY <3>5 DEF Effect
  <2>4. CASE /\ walked("unmap") /\ ptentry.p
             /\ set_ptentry(Zero)
             /\ op' = Walk("walk_again", op.as, op.va, "none")
             /\ UNCHANGED panicked
    <3>1. op.name = "unmap" /\ op.i = PtLevels /\ Zero \in Entries /\ ~Zero.p
      BY <2>4, EntryTypes, EntryFields DEF walked
    <3>2. TypeInv' /\ Inv(g)' /\ \E s \in live, va \in UserPage, p \in Used : Writes(g, s, va, p)
      BY <2>2, <2>4, <3>1
    <3> QED
      BY <3>2 DEF Effect
  <2>5. CASE panicked' = TRUE /\ UNCHANGED <<tab, op>>
    BY <2>1, <2>5, Panics DEF Effect
  <2> QED
    BY <1>5, <2>3, <2>4, <2>5 DEF map_leaf
<1>6. CASE map_return
  <2>1. live' = live /\ UNCHANGED <<free, tab>>
    BY <1>6 DEF map_return
  <2> QED
    BY <1>6, <2>1, MapReturn, SameTables DEF Effect
<1>7. CASE teardown_entry
  <2>1. /\ op.name = "teardown" /\ stack # <<>> /\ Head(stack).todo # {}
        /\ UNCHANGED <<free, tab, ptr, live, op, panicked>>
    BY <1>7 DEF teardown_entry
  <2>2. stack[1] = Head(stack) /\ stack[1].todo \in SUBSET Index
    <3>1. stack \in Seq(StackFrame)
      BY DEF TypeInv
    <3>2. stack[1] = Head(stack) /\ stack[1] \in StackFrame
      BY <2>1, <3>1, Uncons
    <3> QED
      BY <3>2 DEF StackFrame
  <2> DEFINE top == Head(stack)
             x == CHOOSE y \in top.todo : \A z \in top.todo : y <= z
             e == tab[top.pt][x]
             rest == <<[top EXCEPT !.todo = @ \ {x}]>> \o Tail(stack)
  <2>3. stack' = IF torn(e, top.level)
                 THEN <<[pt |-> e.to, level |-> top.level + 1, todo |-> Index]>> \o rest
                 ELSE rest
    BY <1>7 DEF teardown_entry, deeper
  <2>4. x \in top.todo
    <3> HIDE DEF top
    <3>1. top.todo \in SUBSET Index /\ top.todo # {}
      BY <2>1, <2>2 DEF top
    <3> QED
      BY <3>1, LeastOf
  <2> HIDE DEF x
  <2>7. Torn(x, e, rest)
    BY <2>2, <2>3, <2>4, Zenon DEF Torn
  <2> QED
    BY <2>1, <2>7, TearEntry DEF Effect
<1>8. CASE teardown_return
  <2>1. op.name = "teardown" /\ UNCHANGED <<tab, ptr, live, panicked>>
    BY <1>8 DEF teardown_return
  <2>2. CASE stack # <<>> /\ Head(stack).todo = {} /\ free' = pgfree(Head(stack))
             /\ stack' = Tail(stack) /\ UNCHANGED op
    BY <2>1, <2>2, TearPop DEF Effect
  <2>3. CASE stack = <<>> /\ op' = Idle /\ UNCHANGED <<free, stack>>
    BY <2>1, <2>3, TearEnd DEF Effect
  <2> QED
    BY <1>8, <2>2, <2>3 DEF teardown_return
<1>9. ASSUME NEW s \in Space, protect(s)
      PROVE  TypeInv' /\ \E h \in Placement : Inv(h)' /\ Effect(g, h)
  <2>1. op = Idle /\ s \notin live /\ UNCHANGED <<op, stack>>
    BY <1>9 DEF protect
  <2>2. CASE free = {} /\ panicked' = TRUE /\ UNCHANGED <<free, tab, ptr, live>>
    BY <2>1, <2>2, Panics DEF Effect
  <2>3. CASE /\ free # {}
             /\ LET upt == pgalloc IN
                /\ free' = free \ {upt}
                /\ tab' = [tab EXCEPT ![upt] = top_of]
                /\ ptr' = [ptr EXCEPT ![s] = Entry(upt, TRUE)]
                /\ live' = live \cup {s}
                /\ UNCHANGED panicked
    <3>1. PICK page \in free : page = pgalloc
      BY <2>3 DEF pgalloc
    <3>2. /\ free' = free \ {page}
          /\ tab' = [tab EXCEPT ![page] = top_of]
          /\ ptr' = [ptr EXCEPT ![s] = Entry(page, TRUE)]
          /\ live' = live \cup {s}
          /\ UNCHANGED panicked
      BY <2>3, <3>1
    <3>3. TypeInv' /\ \E h \in Placement :
            Inv(h)' /\ Same(g, h) /\ \A p \in Used' : h[p].own = s => h[p].lev = 1
      BY <2>1, <3>2, Protects
    <3> QED
      BY <2>1, <3>2, <3>3 DEF Effect
  <2> QED
    BY <1>9, <2>2, <2>3 DEF protect
<1>10. ASSUME NEW s \in Space, unprotect(s)
       PROVE  TypeInv' /\ \E h \in Placement : Inv(h)' /\ Effect(g, h)
  <2>1. s \in live /\ live' = live \ {s}
    BY <1>10 DEF unprotect
  <2> QED
    BY <1>10, <2>1, Unprotect DEF Effect
<1>11. ASSUME NEW s \in Space, NEW va \in UserPage, NEW f, unmap(s, va) \/ (f \in Frame /\ map(s, va, f))
       PROVE  TypeInv' /\ \E h \in Placement : Inv(h)' /\ Effect(g, h)
  <2>1. op = Idle /\ s \in live /\ UNCHANGED <<free, tab, ptr, live, stack, panicked>>
    BY <1>11 DEF map, unmap
  <2>2. CASE unmap(s, va)
    <3>1. op' = Walk("unmap", s, va, "none")
      BY <2>2 DEF unmap
    <3> QED
      BY <2>1, <3>1, Begins, SameTables DEF Effect
  <2>3. CASE f \in Frame /\ map(s, va, f)
    <3>1. op' = Walk("map", s, va, f)
      BY <2>3 DEF map
    <3> QED
      BY <2>1, <2>3, <3>1, Begins, SameTables DEF Effect
  <2> QED
    BY <1>11, <2>2, <2>3
<1> QED
  BY <1>1, <1>2, <1>3, <1>4, <1>5, <1>6, <1>7, <1>8, <1>9, <1>10, <1>11 DEF Next

LEMMA InitInv == Init => TypeInv /\ \E g \in Placement : Inv(g) /\ live = {}
<1> SUFFICES ASSUME Init PROVE TypeInv /\ \E g \in Placement : Inv(g) /\ live = {}
  OBVIOUS
<1>1. /\ free = Page /\ live = {} /\ stack = <<>> /\ panicked = FALSE
      /\ tab = [p \in Page |-> [x \in Index |-> Zero]]
      /\ ptr = [s \in Owner |-> Zero]
      /\ op = [name |-> "init", left |-> KernelPage]
  BY DEF Init, Owner
<1>2. Used = {} /\ op.name = "init" /\ op.left = KernelPage /\ KernelAs \in Owner
  BY <1>1 DEF Used, Owner
<1>3. op \in OpSet
  BY <1>1 DEF OpSet
<1>4. TypeInv
  <2>1. Zero \in Entries
    BY EntryTypes
  <2>2. tab \in [Page -> [Index -> Entries]] /\ ptr \in [Owner -> Entries]
    BY <1>1, <2>1
  <2>3. stack \in Seq(StackFrame)
    BY <1>1
  <2> QED
    BY <1>1, <1>3, <2>2, <2>3 DEF TypeInv
<1>5. PICK g : g \in Placement
  <2>1. PICK x \in Index : TRUE
    BY X86VmeAssumption
  <2>2. [j \in 1 .. PtLevels |-> x] \in Addr /\ 1 \in 1 .. PtLevels
    BY X86VmeAssumption DEF Addr
  <2>3. [p \in Page |-> [own |-> KernelAs, lev |-> 1, adr |-> [j \in 1 .. PtLevels |-> x]]] \in Placement
    BY <1>2, <2>2 DEF Placement
  <2> QED
    BY <2>3
<1>6. \A s \in live \cup {KernelAs} : ~ptr[s].p
  BY <1>1, <1>2, EntryFields
<1>7. Core(g)
  BY <1>1, <1>2, <1>6 DEF Core, PosInv, RootInv, ChildInv, ParentInv, LeafInv
<1>8. ToInit = KernelPage
  BY <1>2, Zenon DEF ToInit
<1>9. KernelInv(g) /\ WalkInv(g) /\ AliveInv(g) /\ DyingInv(g)
  BY <1>1, <1>2, <1>8 DEF KernelInv, WalkInv, AliveInv, DyingInv
<1> QED
  BY <1>1, <1>4, <1>5, <1>7, <1>9 DEF Inv

\* IInv is inductive.
LEMMA Inductive == Spec => []IInv
<1>1. Init => IInv
  BY InitInv DEF IInv
<1>2. IInv /\ [Next]_vars => IInv'
  <2> SUFFICES ASSUME IInv, [Next]_vars PROVE IInv'
    OBVIOUS
  <2>1. PICK g \in Placement : Inv(g)
    BY DEF IInv
  <2>2. TypeInv' /\ \E h \in Placement : Inv(h)'
    BY <2>1, Steps DEF IInv
  <2> QED
    BY <2>2 DEF IInv
<1> QED
  BY <1>1, <1>2, PTL DEF Spec

\* Whatever the tables and their number: at every step of every call each space translates
\* the kernel's addresses to themselves, and lets no user at them.
THEOREM X86KernelIntact == Spec => []KernelIntact
<1>1. IInv => KernelIntact
  BY KernelIsIntact DEF IInv
<1> QED
  BY <1>1, Inductive, PTL

\* No table serves two spaces, or a space and the allocator, at any step; between calls
\* every page is in use by a space or by the kernel, or free: unprotect gives back all that
\* the space allocated.
THEOREM X86PagesAccounted == Spec => []PagesAccounted
<1>1. IInv => PagesAccounted
  BY PagesAreAccounted DEF IInv
<1> QED
  BY <1>1, Inductive, PTL

-----------------------------------------------------------------------------
(* The tables implement address spaces that are apart.                        *)

Mapping == [s \in live |-> [va \in UserPage |-> Sees(s, va)]]

LEMMA SeesSame ==
  ASSUME SeesHeld, SeesHeld', NEW g \in Placement, NEW h \in Placement,
         TypeInv, Inv(g), TypeInv', Inv(h)',
         NEW s \in live, s \in live', NEW va \in UserPage, SameAt(g, h, s, va)
  PROVE  Sees(s, va)' = Sees(s, va)
<1>1. PICK a : a = Sees(s, va) /\ Held(g, s, va, a)
  BY DEF SeesHeld
<1>2. PICK b : b = Sees(s, va)' /\ Held(h, s, va, b)'
  BY DEF SeesHeld
<1>3. CASE \E p \in Used : At(g, p, s, va, PtLevels)
  <2>1. PICK p \in Used : At(g, p, s, va, PtLevels)
    BY <1>3
  <2>2. At(h, p, s, va, PtLevels)' /\ tab'[p][va[PtLevels]] = tab[p][va[PtLevels]] /\ p \in Used'
    BY <2>1 DEF SameAt, At
  <2>3. a = IF tab[p][va[PtLevels]].p THEN tab[p][va[PtLevels]].to ELSE "unmapped"
    BY <1>1, <2>1 DEF Held
  <2>4. b = IF tab'[p][va[PtLevels]].p THEN tab'[p][va[PtLevels]].to ELSE "unmapped"
    BY <1>2, <2>2 DEF Held
  <2> QED
    BY <1>1, <1>2, <2>2, <2>3, <2>4
<1>4. CASE \A p \in Used : ~At(g, p, s, va, PtLevels)
  <2>1. a = "unmapped"
    BY <1>1, <1>4 DEF Held
  <2>2. ASSUME NEW p \in Used', At(h, p, s, va, PtLevels)' PROVE b = "unmapped"
    <3>1. ~tab'[p][va[PtLevels]].p
      <4>1. ~At(g, p, s, va, PtLevels)
        BY <1>4 DEF At
      <4> QED
        BY <2>2, <4>1 DEF SameAt
    <3> QED
      BY <1>2, <2>2, <3>1 DEF Held
  <2>3. b = "unmapped"
    BY <1>2, <2>2 DEF Held
  <2> QED
    BY <1>1, <1>2, <2>1, <2>3
<1> QED
  BY <1>3, <1>4

LEMMA Refines ==
  ASSUME SeesHeld, SeesHeld', IInv, [Next]_vars
  PROVE  [Abs!Next]_Mapping
<1>1. PICK g \in Placement : Inv(g)
  BY DEF IInv
<1>2. TypeInv /\ TypeInv'
  BY <1>1, Steps DEF IInv
<1>3. PICK h \in Placement : Inv(h)' /\ Effect(g, h)
  BY <1>1, Steps DEF IInv
<1> DEFINE M == Mapping
           N == Mapping'
<1>4. /\ DOMAIN M = live /\ DOMAIN N = live'
      /\ \A s \in live : DOMAIN M[s] = UserPage /\ \A va \in UserPage : M[s][va] = Sees(s, va)
      /\ \A s \in live' : DOMAIN N[s] = UserPage /\ \A va \in UserPage : N[s][va] = Sees(s, va)'
  BY DEF Mapping
<1>5. ASSUME NEW s \in live, s \in live', \A va \in UserPage : SameAt(g, h, s, va) PROVE N[s] = M[s]
  <2>1. \A va \in UserPage : Sees(s, va)' = Sees(s, va)
    BY <1>1, <1>2, <1>3, <1>5, SeesSame
  <2>2. M[s] = [va \in UserPage |-> Sees(s, va)] /\ N[s] = [va \in UserPage |-> Sees(s, va)']
    BY <1>5 DEF Mapping
  <2> QED
    BY <2>1, <2>2
<1>6. live \subseteq Space /\ live' \subseteq Space
  BY <1>2 DEF TypeInv
<1>7. CASE live' = live /\ Same(g, h)
  <2>1. \A s \in live : N[s] = M[s]
    BY <1>5, <1>7 DEF Same
  <2>2. M = [s \in live |-> M[s]] /\ N = [s \in live |-> N[s]]
    BY <1>7 DEF Mapping
  <2> HIDE DEF M, N
  <2>3. N = M
    BY <2>1, <2>2
  <2> QED
    BY <2>3 DEF M, N
<1>8. /\ M = [t \in live |-> M[t]] /\ N = [t \in live' |-> N[t]]
      /\ \A t \in live : M[t] = [w \in UserPage |-> M[t][w]]
      /\ \A t \in live' : N[t] = [w \in UserPage |-> N[t][w]]
  BY DEF Mapping
<1>9. ASSUME NEW s \in Space, s \in live, live' = live \ {s}, Same(g, h)
      PROVE  Abs!Next
  <2> HIDE DEF M, N
  <2>1. \A t \in live' : N[t] = M[t]
    BY <1>5, <1>9 DEF Same
  <2>2. s \in DOMAIN M /\ N = [t \in DOMAIN M \ {s} |-> M[t]]
    BY <1>4, <1>8, <1>9, <2>1
  <2>3. Abs!Unprotect(s)
    BY <2>2 DEF Abs!Unprotect, M, N, Mapping, Sees
  <2> QED
    BY <2>3 DEF Abs!Next
<1>10. ASSUME NEW s \in Space, s \notin live, live' = live \cup {s}, Same(g, h),
              \A p \in Used' : h[p].own = s => h[p].lev = 1
       PROVE  Abs!Next
  <2>1. \A va \in UserPage : Sees(s, va)' = "unmapped"
    <3> SUFFICES ASSUME NEW va \in UserPage PROVE Sees(s, va)' = "unmapped"
      OBVIOUS
    <3>1. PICK b : b = Sees(s, va)' /\ Held(h, s, va, b)'
      BY <1>2, <1>3, <1>10 DEF SeesHeld
    <3>2. \A p \in Used' : ~At(h, p, s, va, PtLevels)'
      BY <1>10, X86VmeAssumption DEF At
    <3> QED
      BY <3>1, <3>2 DEF Held
  <2>2. N[s] = [w \in UserPage |-> "unmapped"]
    BY <1>10, <2>1 DEF Mapping
  <2> HIDE DEF M, N
  <2>3. \A t \in live : N[t] = M[t]
    BY <1>5, <1>10 DEF Same
  <2>4. /\ s \notin DOMAIN M
        /\ N = [t \in DOMAIN M \cup {s} |-> IF t = s THEN [w \in UserPage |-> "unmapped"] ELSE M[t]]
    BY <1>4, <1>8, <1>10, <2>2, <2>3
  <2>5. Abs!Protect(s)
    BY <2>4 DEF Abs!Protect, Abs!Unmapped, M, N, Mapping, Sees
  <2> QED
    BY <2>5 DEF Abs!Next
<1>11. ASSUME h = g, NEW s \in live, NEW va \in UserPage, NEW p \in Used, Writes(g, s, va, p)
       PROVE  Abs!Next
  <2> DEFINE e == tab[p][va[PtLevels]]
             e1 == tab'[p][va[PtLevels]]
  <2>1. /\ live' = live /\ At(g, p, s, va, PtLevels) /\ At(g, p, s, va, PtLevels)' /\ p \in Used'
        /\ \A t \in live, w \in UserPage : <<t, w>> # <<s, va>> => SameAt(g, g, t, w)
        /\ \/ ~e.p /\ \E f \in Frame : e1 = Entry(f, TRUE)
           \/ e.p /\ e.to \in Frame /\ e1 = Zero
    BY <1>11 DEF Writes, At
  <2>2. \A t \in live, w \in UserPage : <<t, w>> # <<s, va>> => N[t][w] = M[t][w]
    <3>1. ASSUME NEW t \in live, NEW w \in UserPage, <<t, w>> # <<s, va>>
          PROVE  Sees(t, w)' = Sees(t, w)
      <4>1. SameAt(g, g, t, w) /\ t \in live' /\ Inv(g)'
        BY <1>3, <1>11, <2>1, <3>1
      <4> QED
        BY <1>1, <1>2, <4>1, SeesSame
    <3> QED
      BY <1>4, <2>1, <3>1
  <2>3. PICK a : a = Sees(s, va) /\ Held(g, s, va, a)
    BY <1>1, <1>2 DEF SeesHeld
  <2>4. PICK b : b = Sees(s, va)' /\ Held(g, s, va, b)'
    BY <1>2, <1>3, <1>11, <2>1 DEF SeesHeld
  <2>5. a = IF e.p THEN e.to ELSE "unmapped"
    BY <2>1, <2>3 DEF Held
  <2>6. b = IF e1.p THEN e1.to ELSE "unmapped"
    BY <2>1, <2>4 DEF Held
  <2>7. M[s][va] = a /\ N[s][va] = b
    BY <1>4, <2>1, <2>3, <2>4
  <2> HIDE DEF e, e1, M, N
  <2>8. ASSUME NEW c, b = c PROVE N = [M EXCEPT ![s][va] = c]
    <3>1. \A t \in live : t # s => N[t] = M[t]
      BY <1>8, <2>1, <2>2
    <3>2. N[s] = [M[s] EXCEPT ![va] = c]
      BY <1>8, <2>1, <2>2, <2>7, <2>8
    <3> QED
      BY <1>8, <2>1, <3>1, <3>2
  <2>9. CASE ~e.p /\ \E f \in Frame : e1 = Entry(f, TRUE)
    <3>1. PICK f \in Frame : e1 = Entry(f, TRUE)
      BY <2>9
    <3>2. b = f /\ a = "unmapped"
      BY <2>5, <2>6, <2>9, <3>1, EntryFields
    <3>3. s \in DOMAIN M /\ M[s][va] = "unmapped" /\ N = [M EXCEPT ![s][va] = f]
      BY <1>4, <2>7, <2>8, <3>2
    <3>4. Abs!Map(s, va, f)
      BY <3>3 DEF Abs!Map, Abs!Unmapped, M, N, Mapping, Sees
    <3> QED
      BY <1>6, <3>4 DEF Abs!Next
  <2>10. CASE e.p /\ e.to \in Frame /\ e1 = Zero
    <3>1. b = "unmapped" /\ a # "unmapped"
      BY <2>5, <2>6, <2>10, EntryFields, X86VmeAssumption
    <3>2. s \in DOMAIN M /\ M[s][va] # "unmapped" /\ N = [M EXCEPT ![s][va] = "unmapped"]
      BY <1>4, <2>7, <2>8, <3>1
    <3>3. Abs!Unmap(s, va)
      BY <3>2 DEF Abs!Unmap, Abs!Unmapped, M, N, Mapping, Sees
    <3> QED
      BY <1>6, <3>3 DEF Abs!Next
  <2> QED
    BY <2>1, <2>9, <2>10
<1> QED
  BY <1>3, <1>7, <1>9, <1>10, <1>11 DEF Effect

\* What the MMU finds for users changes by map alone, at one page of one space, although
\* tables are linked, reused and freed in between: vme.c implements the address spaces of am.h.
THEOREM X86ImplementsAddrSpaces == Spec => ImplementsAddrSpaces
<1>1. Init => Abs!Init
  BY DEF Init, Abs!Init
<1>2. SeesHeld /\ SeesHeld' /\ IInv /\ [Next]_vars => [Abs!Next]_Mapping
  BY Refines
<1>3. SeesHeld
  BY MappingHeld
<1> QED
  BY <1>1, <1>2, <1>3, Inductive, PTL DEF Spec, ImplementsAddrSpaces, Abs!Spec, Mapping, Sees
==============================================================================
