----------------------------- MODULE NemuProofs -----------------------------
(***************************************************************************)
(* The keyboard ring implements the bounded queue KeyFifo, for every ring  *)
(* length of at least two, every set of scan codes and every keymap; and   *)
(* the monitor's safety properties for every memory size, counter width,   *)
(* keyboard, configuration and number of host events.                      *)
(***************************************************************************)
EXTENDS Nemu, SequenceTheorems, TLAPS

-----------------------------------------------------------------------------
(* The keyboard. *)

\* The ring's invariant: the indices stay in the ring, and a failed overflow
\* assertion is the only way for a full ring to look empty.
KbdInv == KbdTypeOK /\ (kbd_panic => key_r = key_f)

\* Advancing an index of the ring by one.
LEMMA NextIndex ==
  ASSUME NEW x \in Slots
  PROVE  /\ next_index(x) = IF x + 1 = KEY_QUEUE_LEN THEN 0 ELSE x + 1
         /\ next_index(x) \in Slots
BY QueueLenAssumption, SMT DEF Slots, next_index

\* The index of the i-th pending key.
LEMMA IndexOf ==
  ASSUME NEW f \in Slots, NEW i \in 1 .. KEY_QUEUE_LEN
  PROVE  /\ (f + i - 1) % KEY_QUEUE_LEN =
              IF f + i - 1 < KEY_QUEUE_LEN THEN f + i - 1 ELSE f + i - 1 - KEY_QUEUE_LEN
         /\ (f + i - 1) % KEY_QUEUE_LEN \in Slots
BY QueueLenAssumption, SMT DEF Slots

\* What send_key enqueues is a natural number, and a code of Codes.
LEMMA CodeType ==
  ASSUME NEW s \in Scancode, NEW d \in BOOLEAN, keymap[s] # NEMU_KEY_NONE
  PROVE  AmScancode(s, d) \in Codes /\ AmScancode(s, d) \in Nat
<1>1. keymap[s] \in Nat /\ KEYDOWN_MASK \in Nat
  BY KeymapAssumption
<1> QED
  BY <1>1 DEF Codes, AmScancode

\* The ring's invariant holds initially and is preserved by every step.
LEMMA KbdInvInit == KbdInit => KbdInv
<1> SUFFICES ASSUME KbdInit PROVE KbdInv
  OBVIOUS
<1>1. 0 \in Slots /\ NEMU_KEY_NONE \in Nat
  BY QueueLenAssumption, KeymapAssumption DEF Slots
<1>2. key_queue \in [Slots -> Nat]
  BY DEF KbdInit
<1> QED
  BY <1>1, <1>2 DEF KbdInit, KbdInv, KbdTypeOK

LEMMA KbdInvNext == KbdInv /\ [KbdNext]_kbdVars => KbdInv'
<1> SUFFICES ASSUME KbdInv, [KbdNext]_kbdVars PROVE KbdInv'
  OBVIOUS
<1> USE DEF KbdInv, KbdTypeOK
<1>1. ASSUME NEW s \in Scancode, NEW d \in BOOLEAN, NEW running \in BOOLEAN,
             ~kbd_panic, send_key(s, d, running)
      PROVE  KbdInv'
  <2>1. CASE running /\ keymap[s] # NEMU_KEY_NONE
    <3>1. AmScancode(s, d) \in Nat
      BY <2>1, CodeType
    <3>2. next_index(key_r) \in Slots
      BY NextIndex
    <3> QED
      BY <1>1, <2>1, <3>1, <3>2 DEF send_key, key_enqueue
  <2>2. CASE ~(running /\ keymap[s] # NEMU_KEY_NONE)
    BY <1>1, <2>2 DEF send_key, kbdVars
  <2> QED
    BY <2>1, <2>2
<1>2. ASSUME ~kbd_panic, i8042_data_io_handler PROVE KbdInv'
  <2>1. next_index(key_f) \in Slots
    BY NextIndex
  <2> QED
    BY <1>2, <2>1, KeymapAssumption DEF i8042_data_io_handler
<1>3. CASE UNCHANGED kbdVars
  BY <1>3 DEF kbdVars
<1> QED
  BY <1>1, <1>2, <1>3 DEF KbdNext

\* The indices of keyboard.c stay inside the ring and the port holds a key
\* code, whatever the events and the guest's reads.
THEOREM KbdTypeCorrect == KbdSpec => []KbdTypeOK
<1>1. KbdInv => KbdTypeOK
  BY DEF KbdInv
<1> QED
  BY KbdInvInit, KbdInvNext, <1>1, PTL DEF KbdSpec

-----------------------------------------------------------------------------
(***************************************************************************)
(* The refinement.  The pending keys are the slots from key_f up to key_r; *)
(* the two lemmas below say what the two operations do to that sequence.   *)
(***************************************************************************)

\* The number of pending keys is between 0 and the capacity.
LEMMA NrPendingRange ==
  ASSUME KbdInv
  PROVE  /\ NrPending \in 0 .. KEY_QUEUE_LEN
         /\ ~kbd_panic => NrPending \in 0 .. KEY_QUEUE_LEN - 1
         /\ ~kbd_panic => (NrPending = 0 <=> key_f = key_r)
BY QueueLenAssumption DEF KbdInv, KbdTypeOK, NrPending, Slots

\* A window of the ring is a sequence of natural numbers.
LEMMA WindowSeq ==
  ASSUME NEW q \in [Slots -> Nat], NEW f \in Slots, NEW cnt \in 0 .. KEY_QUEUE_LEN
  PROVE  /\ Window(q, f, cnt) \in Seq(Nat)
         /\ Len(Window(q, f, cnt)) = cnt
         /\ \A i \in 1 .. cnt : Window(q, f, cnt)[i] = q[(f + i - 1) % KEY_QUEUE_LEN]
<1>1. cnt \in Nat /\ cnt <= KEY_QUEUE_LEN
  BY QueueLenAssumption
<1>2. \A i \in 1 .. cnt : q[(f + i - 1) % KEY_QUEUE_LEN] \in Nat
  <2> TAKE i \in 1 .. cnt
  <2>1. i \in 1 .. KEY_QUEUE_LEN
    BY <1>1, QueueLenAssumption
  <2> QED
    BY <2>1, IndexOf
<1> QED
  BY <1>1, <1>2 DEF Window

\* key_enqueue appends to the pending keys, the overflowing key included.
LEMMA EnqueueAppends ==
  ASSUME KbdInv, KbdInv', ~kbd_panic, NEW k \in Nat, key_enqueue(k)
  PROVE  /\ Pending' = Append(Pending, k)
         /\ kbd_panic' = (Len(Pending) = KEY_QUEUE_LEN - 1)
<1> DEFINE L == KEY_QUEUE_LEN
<1>0. L \in Nat /\ L >= 2 /\ key_f \in 0 .. L - 1 /\ key_r \in 0 .. L - 1
  BY QueueLenAssumption DEF KbdInv, KbdTypeOK, Slots
<1>1. key_r' = (IF key_r + 1 = L THEN 0 ELSE key_r + 1) /\ key_f' = key_f
  BY NextIndex DEF key_enqueue, KbdInv, KbdTypeOK
<1>2. kbd_panic' <=> key_r' = key_f
  BY DEF key_enqueue
<1>3. NrPending' = NrPending + 1 /\ NrPending \in 0 .. L - 1
  <2> HIDE DEF L
  <2> QED
  BY <1>0, <1>1, <1>2 DEF NrPending, L
<1>4. kbd_panic' <=> NrPending = L - 1
  <2> HIDE DEF L
  <2> QED
  BY <1>0, <1>1, <1>2 DEF NrPending, L
<1>5. (key_f + (NrPending + 1) - 1) % L = key_r
  <2>1. NrPending + 1 \in 1 .. L
    BY <1>3, <1>0
  <2>2. (key_f + (NrPending + 1) - 1) % L =
          IF key_f + (NrPending + 1) - 1 < L THEN key_f + (NrPending + 1) - 1
          ELSE key_f + (NrPending + 1) - 1 - L
    BY <2>1, IndexOf DEF KbdInv, KbdTypeOK
  <2>3. NrPending = IF key_r >= key_f THEN key_r - key_f ELSE key_r - key_f + L
    BY DEF NrPending
  <2> HIDE DEF L
  <2> QED
    BY <1>0, <2>2, <2>3
<1>6. ASSUME NEW i \in 1 .. NrPending
      PROVE  /\ (key_f + i - 1) % L # key_r
             /\ (key_f + i - 1) % L \in Slots
  <2>1. i \in 1 .. L /\ i <= NrPending
    BY <1>3, <1>0
  <2>2. /\ (key_f + i - 1) % L = IF key_f + i - 1 < L THEN key_f + i - 1 ELSE key_f + i - 1 - L
        /\ (key_f + i - 1) % L \in Slots
    BY <2>1, IndexOf DEF KbdInv, KbdTypeOK
  <2>3. NrPending = IF key_r >= key_f THEN key_r - key_f ELSE key_r - key_f + L
    BY DEF NrPending
  <2> HIDE DEF L
  <2> QED
    BY <1>0, <2>1, <2>2, <2>3
<1> DEFINE cnt == NrPending
           W == Window(key_queue, key_f, cnt)
           V == Window(key_queue', key_f, cnt + 1)
<1>7. /\ key_queue \in [Slots -> Nat] /\ key_queue' \in [Slots -> Nat]
      /\ key_f \in Slots /\ cnt \in 0 .. L /\ cnt + 1 \in 0 .. L
      /\ key_queue' = [key_queue EXCEPT ![key_r] = k] /\ key_r \in Slots
  BY <1>0, <1>3 DEF KbdInv, KbdTypeOK, key_enqueue
<1>8. /\ W \in Seq(Nat) /\ Len(W) = cnt
      /\ \A i \in 1 .. cnt : W[i] = key_queue[(key_f + i - 1) % L]
  BY <1>7, WindowSeq
<1>9. /\ V \in Seq(Nat) /\ Len(V) = cnt + 1
      /\ \A i \in 1 .. cnt + 1 : V[i] = key_queue'[(key_f + i - 1) % L]
  BY <1>7, WindowSeq
<1>10. \A i \in 1 .. cnt : V[i] = W[i]
  <2> TAKE i \in 1 .. cnt
  <2>0. i \in 1 .. cnt + 1
    BY <1>0, <1>7
  <2>1. V[i] = key_queue'[(key_f + i - 1) % L]
    BY <2>0, <1>9
  <2>2. key_queue'[(key_f + i - 1) % L] = key_queue[(key_f + i - 1) % L]
    BY <1>6, <1>7
  <2> QED
    BY <2>1, <2>2, <1>8
<1>11. V[cnt + 1] = k
  <2>0. cnt + 1 \in 1 .. cnt + 1
    BY <1>0, <1>7
  <2>1. V[cnt + 1] = key_queue'[(key_f + (cnt + 1) - 1) % L]
    BY <2>0, <1>9
  <2> QED
    BY <2>1, <1>5, <1>7
<1>12. V = Append(W, k)
  <2> HIDE DEF W, V, cnt
  <2> QED
    BY <1>7, <1>8, <1>9, <1>10, <1>11
<1>13. Pending' = V /\ Pending = W
  BY <1>1, <1>3 DEF Pending
<1> QED
  BY <1>12, <1>13, <1>4, <1>8, <1>2 DEF key_enqueue

\* key_dequeue takes the oldest pending key; an empty ring yields no key.
LEMMA DequeueTakesHead ==
  ASSUME KbdInv, KbdInv', ~kbd_panic, i8042_data_io_handler
  PROVE  IF Pending = <<>>
           THEN data_port' = NEMU_KEY_NONE /\ Pending' = Pending
           ELSE data_port' = Head(Pending) /\ Pending' = Tail(Pending)
<1> DEFINE L == KEY_QUEUE_LEN
           cnt == NrPending
           W == Window(key_queue, key_f, cnt)
<1>0. L \in Nat /\ L >= 2 /\ key_f \in 0 .. L - 1 /\ key_r \in 0 .. L - 1
  BY QueueLenAssumption DEF KbdInv, KbdTypeOK, Slots
<1>1. cnt \in 0 .. L - 1 /\ (cnt = 0 <=> key_f = key_r)
  BY NrPendingRange
<1>2. /\ key_queue \in [Slots -> Nat] /\ key_f \in Slots /\ cnt \in 0 .. L
      /\ key_queue' = key_queue /\ key_r' = key_r /\ kbd_panic' = kbd_panic
  BY <1>0, <1>1 DEF KbdInv, KbdTypeOK, i8042_data_io_handler
<1>3. /\ W \in Seq(Nat) /\ Len(W) = cnt
      /\ \A i \in 1 .. cnt : W[i] = key_queue[(key_f + i - 1) % L]
  BY <1>2, WindowSeq
<1>4. Pending = W
  BY DEF Pending
<1>5. CASE key_f = key_r
  <2>1. key_f' = key_f /\ data_port' = NEMU_KEY_NONE
    BY <1>5 DEF i8042_data_io_handler
  <2>2. Pending' = Pending
    BY <1>2, <2>1 DEF Pending, NrPending, Window
  <2>3. Pending = <<>>
    BY <1>1, <1>3, <1>4, <1>5
  <2> QED
    BY <2>1, <2>2, <2>3
<1>6. CASE key_f # key_r
  <2> DEFINE V == Window(key_queue, key_f', cnt - 1)
  <2>1. /\ key_f' = IF key_f + 1 = L THEN 0 ELSE key_f + 1
        /\ key_f' \in Slots
        /\ data_port' = key_queue[key_f]
    BY <1>6, <1>2, NextIndex DEF i8042_data_io_handler
  <2>2. cnt \in 1 .. L - 1 /\ cnt - 1 \in 0 .. L /\ cnt - 1 \in Nat
    BY <1>0, <1>1, <1>6
  <2>3. NrPending' = cnt - 1
    <3>1. cnt = IF key_r >= key_f THEN key_r - key_f ELSE key_r - key_f + L
      BY DEF NrPending
    <3>2. NrPending' = IF key_r >= key_f' THEN key_r - key_f' ELSE key_r - key_f' + L
      BY <1>2 DEF NrPending
    <3> HIDE DEF L, cnt
    <3> QED
      BY <1>0, <1>6, <2>1, <3>1, <3>2
  <2>4. /\ V \in Seq(Nat) /\ Len(V) = cnt - 1
        /\ \A i \in 1 .. cnt - 1 : V[i] = key_queue[(key_f' + i - 1) % L]
    BY <1>2, <2>1, <2>2, WindowSeq
  <2>5. W[1] = key_queue[key_f]
    <3>1. 1 \in 1 .. cnt /\ 1 \in 1 .. L
      BY <1>0, <2>2
    <3>2. (key_f + 1 - 1) % L = key_f
      BY <3>1, <1>0, <1>2, IndexOf
    <3> QED
      BY <1>3, <3>1, <3>2
  <2>6. \A i \in 1 .. cnt - 1 : V[i] = W[i + 1]
    <3> TAKE i \in 1 .. cnt - 1
    <3>1. i \in 1 .. L /\ i + 1 \in 1 .. L /\ i + 1 \in 1 .. cnt
      BY <1>0, <2>2
    <3>2. (key_f' + i - 1) % L = IF key_f' + i - 1 < L THEN key_f' + i - 1 ELSE key_f' + i - 1 - L
      BY <3>1, <2>1, IndexOf
    <3>3. (key_f + (i + 1) - 1) % L =
            IF key_f + (i + 1) - 1 < L THEN key_f + (i + 1) - 1 ELSE key_f + (i + 1) - 1 - L
      BY <3>1, <1>2, IndexOf
    <3>4. (key_f' + i - 1) % L = (key_f + (i + 1) - 1) % L
      <4> HIDE DEF L, cnt
      <4> QED
        BY <1>0, <2>1, <3>1, <3>2, <3>3
    <3> QED
      BY <1>3, <2>4, <3>1, <3>4
  <2>7. V = Tail(W) /\ W # <<>> /\ Head(W) = W[1]
    <3>1. W # <<>>
      BY <1>3, <2>2
    <3>2. /\ Head(W) = W[1] /\ Tail(W) \in Seq(Nat) /\ Len(Tail(W)) = cnt - 1
          /\ \A i \in 1 .. Len(Tail(W)) : Tail(W)[i] = W[i + 1]
      BY <3>1, <1>3, <2>2, HeadTailProperties
    <3>3. V = Tail(W)
      BY <3>2, <2>4, <2>6, SeqEqual
    <3> QED
      BY <3>1, <3>2, <3>3
  <2>8. Pending' = V
    BY <1>2, <2>3 DEF Pending
  <2> QED
    BY <1>4, <2>1, <2>5, <2>7, <2>8
<1> QED
  BY <1>5, <1>6

\* The ring of keyboard.c implements the bounded first-in first-out queue.
THEOREM KeyboardRefinesFifo == KbdSpec => ImplementsFifo
<1>1. KbdInit => Fifo!Init
  <2> SUFFICES ASSUME KbdInit PROVE Fifo!Init
    OBVIOUS
  <2>1. NrPending = 0
    BY DEF KbdInit, NrPending
  <2>2. Pending = <<>>
    BY <2>1 DEF Pending, Window
  <2> QED
    BY <2>2 DEF KbdInit, Fifo!Init
<1>2. KbdInv /\ KbdInv' /\ [KbdNext]_kbdVars => [Fifo!Next]_(Fifo!vars)
  <2> SUFFICES ASSUME KbdInv, KbdInv', [KbdNext]_kbdVars PROVE [Fifo!Next]_(Fifo!vars)
    OBVIOUS
  <2>1. ASSUME NEW s \in Scancode, NEW d \in BOOLEAN, NEW running \in BOOLEAN,
               ~kbd_panic, send_key(s, d, running)
        PROVE  [Fifo!Next]_(Fifo!vars)
    <3>1. CASE running /\ keymap[s] # NEMU_KEY_NONE
      <4> DEFINE k == AmScancode(s, d)
      <4>1. key_enqueue(k) /\ k \in Codes /\ k \in Nat
        BY <2>1, <3>1, CodeType DEF send_key
      <4>2. Pending' = Append(Pending, k) /\ kbd_panic' = (Len(Pending) = KEY_QUEUE_LEN - 1)
        BY <2>1, <4>1, EnqueueAppends
      <4>3. Fifo!Put(k)
        BY <2>1, <4>1, <4>2 DEF Fifo!Put, key_enqueue
      <4> QED
        BY <4>1, <4>3 DEF Fifo!Next
    <3>2. CASE ~(running /\ keymap[s] # NEMU_KEY_NONE)
      BY <2>1, <3>2 DEF send_key, kbdVars, Fifo!vars, Pending, NrPending
    <3> QED
      BY <3>1, <3>2
  <2>2. ASSUME ~kbd_panic, i8042_data_io_handler PROVE [Fifo!Next]_(Fifo!vars)
    <3>1. Fifo!Get
      BY <2>2, DequeueTakesHead DEF Fifo!Get, i8042_data_io_handler
    <3> QED
      BY <3>1 DEF Fifo!Next
  <2>3. CASE UNCHANGED kbdVars
    BY <2>3 DEF kbdVars, Fifo!vars, Pending, NrPending
  <2> QED
    BY <2>1, <2>2, <2>3 DEF KbdNext
<1> QED
  BY <1>1, <1>2, KbdInvInit, KbdInvNext, PTL DEF KbdSpec, ImplementsFifo, Fifo!Spec

-----------------------------------------------------------------------------
(* The monitor. *)

\* The recorded halt_pc is the last instruction executed.
EndedIsFrozen == nemu_state.state \in {"END", "ABORT"} => pc = nemu_state.halt_pc + 1

\* A closed window is remembered in the state, and the instruction that may
\* still run ends the loop.
QuitInv ==
  /\ since_quit >= 0 => nemu_state.state \in {"QUIT", "END", "ABORT"}
  /\ since_quit = 1 => at \notin {"exec", "update", "poll"}
  /\ is_batch_mode /\ nemu_state.state = "QUIT" => since_quit >= 0

\* The break of execute()'s loop is taken with the guest no longer running.
StoppedInv == at = "stopped" => nemu_state.state \in {"QUIT", "END", "ABORT"}

\* Instructions executed by the current command, by control point.
StepInv ==
  /\ at = "exec" => n <= req /\ g_nr_guest_inst = (nr0 + (req - n)) % UINT64
  /\ at \in {"update", "poll"} =>
       n >= 1 /\ n <= req /\ g_nr_guest_inst = (nr0 + (req - n) + 1) % UINT64
  /\ at = "prompt" /\ nemu_state.state = "STOP" => g_nr_guest_inst = (nr0 + req) % UINT64

\* The state tells what the last instruction was.
LastInv ==
  /\ nemu_state.state = "END" => last.kind = "ebreak" /\ last.a0 = nemu_state.halt_ret
  /\ nemu_state.state = "ABORT" => last.kind \in {"inv", "undecodable"}
  /\ nemu_state.state \in {"RUNNING", "STOP"} => last.kind \notin TrapKinds
  /\ is_batch_mode /\ nemu_state.state = "QUIT" => last.kind \notin TrapKinds
  /\ at \in {"exec", "update", "poll"} => last.kind \notin TrapKinds
  /\ is_batch_mode => at # "prompt"

\* Events posted at the prompt are pending only at the prompt.
EventInv ==
  /\ ~CONFIG_DEVICE => sdl = <<>>
  /\ at \notin {"prompt", "exited", "died"} =>
       \A i \in 1 .. Len(sdl) : ~sdl[i].at_prompt

\* An overflow of the key queue is fatal.
PanicInv == kbd_panic => at = "died"

IInv ==
  /\ TypeOK
  /\ EndedIsFrozen
  /\ StateAgreesWithControl
  /\ QuitInv
  /\ StoppedInv
  /\ StepInv
  /\ LastInv
  /\ EventInv
  /\ PanicInv

-----------------------------------------------------------------------------
\* Arithmetic modulo UINT64 on numbers below twice the modulus.
LEMMA ModUINT64 ==
  ASSUME NEW x \in Nat, x < 2 * UINT64
  PROVE  /\ x % UINT64 = IF x < UINT64 THEN x ELSE x - UINT64
         /\ x % UINT64 \in 0 .. UINT64 - 1
BY NemuAssumption, SMT

LEMMA IncUINT64 ==
  ASSUME NEW x \in Nat, x < 2 * UINT64 - 1
  PROVE  ((x % UINT64) + 1) % UINT64 = (x + 1) % UINT64
<1> DEFINE y == x % UINT64
<1>1. y = IF x < UINT64 THEN x ELSE x - UINT64
  BY ModUINT64, NemuAssumption
<1>2. (x + 1) % UINT64 = IF x + 1 < UINT64 THEN x + 1 ELSE x + 1 - UINT64
  BY ModUINT64, NemuAssumption
<1> HIDE DEF y
<1> DEFINE z == y + 1
<1>3. z \in Nat /\ z < 2 * UINT64
  BY <1>1, NemuAssumption
<1>4. z = y + 1
  OBVIOUS
<1> HIDE DEF z
<1>5. z % UINT64 = IF z < UINT64 THEN z ELSE z - UINT64
  BY <1>3, ModUINT64
<1>6. z % UINT64 = (x + 1) % UINT64
  BY <1>1, <1>2, <1>4, <1>5, NemuAssumption
<1> QED
  BY <1>6 DEF y, z

LEMMA SubUINT64 ==
  ASSUME NEW a \in 0 .. UINT64 - 1, NEW b \in 0 .. UINT64 - 1
  PROVE  (((a + b) % UINT64) - a) % UINT64 = b
<1>1. (a + b) % UINT64 = IF a + b < UINT64 THEN a + b ELSE a + b - UINT64
  BY ModUINT64, NemuAssumption
<1>2. CASE a + b < UINT64
  <2>1. ((a + b) % UINT64) - a = b
    BY <1>1, <1>2
  <2> QED
    BY <2>1, ModUINT64, NemuAssumption
<1>3. CASE ~(a + b < UINT64)
  <2>1. ((a + b) % UINT64) - a = b - UINT64
    BY <1>1, <1>3, NemuAssumption
  <2>2. (b - UINT64) % UINT64 = b
    BY NemuAssumption, SMT
  <2> QED
    BY <2>1, <2>2
<1> QED
  BY <1>2, <1>3

-----------------------------------------------------------------------------
LEMMA IInvInit == Init => IInv
<1> SUFFICES ASSUME Init PROVE IInv
  OBVIOUS
<1> USE DEF Init
<1>1. TypeOK
  <2>1. KbdTypeOK
    BY KbdInvInit DEF KbdInv
  <2>2. /\ n \in 0 .. UINT64 - 1 /\ pc \in 0 .. PMEM_WORDS /\ posted \in 0 .. EventBound
        /\ req \in 0 .. UINT64 - 1 /\ nr0 \in 0 .. UINT64 - 1
        /\ g_nr_guest_inst \in 0 .. UINT64 - 1 /\ since_quit \in -1 .. 1
    BY NemuAssumption
  <2>3. at \in At /\ nemu_state \in [state : State, halt_pc : Nat, halt_ret : Int]
    BY DEF At, State
  <2>4. sdl \in Seq(Event) /\ last \in Inst \cup [kind : {"none"}]
    OBVIOUS
  <2> QED
    BY <2>1, <2>2, <2>3, <2>4 DEF TypeOK
<1>2. EndedIsFrozen /\ StateAgreesWithControl /\ StoppedInv /\ QuitInv /\ LastInv
  BY DEF EndedIsFrozen, StateAgreesWithControl, StoppedInv, QuitInv, LastInv, TrapKinds
<1>3. StepInv
  BY NemuAssumption, ModUINT64 DEF StepInv
<1>4. EventInv
  BY DEF EventInv
<1>5. PanicInv
  BY DEF PanicInv, KbdInit
<1> QED
  BY <1>1, <1>2, <1>3, <1>4, <1>5 DEF IInv

\* A command discards the pending events, when there are any.
LEMMA ClearEvents ==
  ASSUME sdl_clear_event_queue
  PROVE  sdl' = <<>> \/ (~CONFIG_DEVICE /\ sdl' = sdl)
BY NemuAssumption, Zenon DEF sdl_clear_event_queue

\* cpu_exec(k), from a control point where no command is being executed.
LEMMA CpuExecStep ==
  ASSUME IInv, at \in {"batch", "prompt"}, NEW k \in 0 .. UINT64 - 1, cpu_exec(k),
         \/ at = "batch" /\ UNCHANGED sdl
         \/ at = "prompt" /\ sdl_clear_event_queue
  PROVE  IInv'
<1> USE DEF IInv, cpu_exec
<1>1. TypeOK'
  <2>1. KbdTypeOK' /\ is_batch_mode' \in BOOLEAN
    BY DEF TypeOK, KbdTypeOK, kbdVars
  <2>2. at' \in At /\ nemu_state' \in [state : State, halt_pc : Nat, halt_ret : Int]
    BY DEF TypeOK, At, State, ReturnTo
  <2>3. sdl' \in Seq(Event)
    <3>1. sdl' = sdl \/ sdl' = <<>>
      BY ClearEvents
    <3>2. sdl \in Seq(Event) /\ <<>> \in Seq(Event)
      BY DEF TypeOK
    <3> QED
      BY <3>1, <3>2, Zenon
  <2> QED
    BY <2>1, <2>2, <2>3 DEF TypeOK
<1>2. EndedIsFrozen' /\ StateAgreesWithControl' /\ StoppedInv'
  BY DEF TypeOK, EndedIsFrozen, StateAgreesWithControl, StoppedInv, ReturnTo
<1>3. QuitInv' /\ LastInv'
  BY DEF TypeOK, StateAgreesWithControl, QuitInv, LastInv, TrapKinds, ReturnTo, State
<1>4. StepInv'
  <2>1. CASE nemu_state.state \in {"END", "ABORT", "QUIT"}
    BY <2>1 DEF TypeOK, StepInv, ReturnTo
  <2>2. CASE nemu_state.state \notin {"END", "ABORT", "QUIT"}
    <3>1. (nr0' + (req' - n')) % UINT64 = g_nr_guest_inst'
      <4>1. nr0' + (req' - n') = g_nr_guest_inst /\ g_nr_guest_inst' = g_nr_guest_inst
        BY <2>2 DEF TypeOK
      <4>2. g_nr_guest_inst \in Nat /\ g_nr_guest_inst < UINT64
        BY NemuAssumption DEF TypeOK
      <4>3. g_nr_guest_inst % UINT64 = g_nr_guest_inst
        BY <4>2, NemuAssumption, ModUINT64
      <4> QED
        BY <4>1, <4>3
    <3> QED
      BY <2>2, <3>1 DEF TypeOK, StepInv
  <2> QED
    BY <2>1, <2>2
<1>5. EventInv'
  BY DEF TypeOK, EventInv, sdl_clear_event_queue
<1>6. PanicInv'
  BY DEF PanicInv, kbdVars
<1> QED
  BY <1>1, <1>2, <1>3, <1>4, <1>5, <1>6

\* The tail of cpu_exec.
LEMMA ReturnStep ==
  ASSUME IInv, cpu_exec_return
  PROVE  IInv'
<1> USE DEF IInv, cpu_exec_return, NoneLeft, StateAfter
<1>1. TypeOK'
  <2>1. KbdTypeOK' /\ is_batch_mode' \in BOOLEAN /\ sdl' \in Seq(Event)
    BY DEF TypeOK, KbdTypeOK, kbdVars
  <2>2. at' \in At /\ nemu_state' \in [state : State, halt_pc : Nat, halt_ret : Int]
    BY DEF TypeOK, At, State, ReturnTo
  <2> QED
    BY <2>1, <2>2 DEF TypeOK
<1>2. EndedIsFrozen' /\ StateAgreesWithControl' /\ StoppedInv'
  BY DEF TypeOK, EndedIsFrozen, StateAgreesWithControl, StoppedInv, ReturnTo
<1>3. QuitInv' /\ LastInv'
  BY DEF TypeOK, StateAgreesWithControl, QuitInv, StoppedInv, LastInv, TrapKinds, ReturnTo, State
<1>4. StepInv'
  <2>1. CASE at = "stopped"
    BY <2>1 DEF TypeOK, StepInv, ReturnTo, StoppedInv
  <2>2. CASE at = "exec" /\ n = 0
    <3>1. req - n = req /\ g_nr_guest_inst = (nr0 + (req - n)) % UINT64
      BY <2>2 DEF TypeOK, StepInv
    <3>2. g_nr_guest_inst' = (nr0' + req') % UINT64
      BY <3>1
    <3> QED
      BY <3>2 DEF StepInv, ReturnTo
  <2> QED
    BY <2>1, <2>2
<1>5. EventInv'
  BY DEF TypeOK, EventInv, ReturnTo
<1>6. PanicInv'
  BY DEF PanicInv, kbdVars
<1> QED
  BY <1>1, <1>2, <1>3, <1>4, <1>5, <1>6

\* One instruction.
LEMMA ExecStep ==
  ASSUME IInv, NEW inst \in Inst, exec_once(inst)
  PROVE  IInv'
<1> USE DEF IInv
<1>0. at = "exec" /\ n > 0 /\ ~kbd_panic
      /\ UNCHANGED <<is_batch_mode, n, sdl, posted, req, nr0>>
  BY DEF exec_once, PanicInv
<1>1. CASE Panics(inst)
  <2>1. at' = "died" /\ UNCHANGED <<kbdVars, nemu_state, pc, g_nr_guest_inst, last, since_quit>>
    BY <1>1 DEF exec_once
  <2>2. TypeOK'
    <3>1. KbdTypeOK' /\ is_batch_mode' \in BOOLEAN /\ sdl' \in Seq(Event)
      BY <1>0, <2>1 DEF TypeOK, KbdTypeOK, kbdVars
    <3> QED
      BY <1>0, <2>1, <3>1 DEF TypeOK, At
  <2>3. EndedIsFrozen' /\ StateAgreesWithControl' /\ StoppedInv' /\ StepInv'
    BY <1>0, <2>1 DEF EndedIsFrozen, StateAgreesWithControl, StoppedInv, StepInv
  <2>4. QuitInv' /\ LastInv'
    BY <1>0, <2>1 DEF QuitInv, LastInv
  <2>5. EventInv' /\ PanicInv'
    BY <1>0, <2>1 DEF EventInv, PanicInv
  <2> QED
    BY <2>2, <2>3, <2>4, <2>5
<1>2. CASE ~Panics(inst)
  <2>1. /\ pc' = pc + 1
        /\ g_nr_guest_inst' = (g_nr_guest_inst + 1) % UINT64
        /\ last' = inst
        /\ since_quit' = IF since_quit >= 0 THEN since_quit + 1 ELSE since_quit
        /\ at' = IF BreaksLoop(nemu_state'.state) THEN "stopped" ELSE "update"
    BY <1>2 DEF exec_once
  <2>2. \/ inst.kind = "ebreak" /\ nemu_state' = [state |-> "END", halt_pc |-> pc, halt_ret |-> inst.a0]
        \/ inst.kind \in {"inv", "undecodable"} /\ nemu_state' = [state |-> "ABORT", halt_pc |-> pc, halt_ret |-> -1]
        \/ inst.kind \notin TrapKinds /\ nemu_state' = nemu_state
    BY <1>2 DEF exec_once, set_nemu_state, TrapKinds
  <2>3. inst.kind = "ebreak" => inst.a0 \in Int
    BY NemuAssumption DEF Inst
  <2>4. pc < PMEM_WORDS
    BY <1>2, NemuAssumption DEF Panics, TypeOK
  <2>5. nemu_state.state \in {"RUNNING", "QUIT"}
    BY <1>0 DEF StateAgreesWithControl
  <2>6. KbdTypeOK' /\ ~kbd_panic'
    <3>1. CASE inst.kind = "kbd"
      <4>1. i8042_data_io_handler
        BY <1>2, <3>1 DEF exec_once
      <4>2. next_index(key_f) \in Slots
        BY NextIndex DEF TypeOK, KbdTypeOK
      <4> QED
        BY <1>0, <4>1, <4>2, KeymapAssumption DEF TypeOK, KbdTypeOK, i8042_data_io_handler
    <3>2. CASE inst.kind # "kbd"
      <4>1. UNCHANGED kbdVars
        BY <1>2, <3>2 DEF exec_once
      <4> QED
        BY <1>0, <4>1 DEF TypeOK, KbdTypeOK, kbdVars
    <3> QED
      BY <3>1, <3>2
  <2>7. nemu_state' \in [state : State, halt_pc : Nat, halt_ret : Int]
    BY <2>2, <2>3, NemuAssumption DEF TypeOK, State
  <2>8. since_quit' \in -1 .. 1 /\ (since_quit' = 1 => since_quit = 0)
    BY <1>0, <2>1 DEF TypeOK, QuitInv
  <2>9. TypeOK'
    <3>1. is_batch_mode' \in BOOLEAN /\ sdl' \in Seq(Event) /\ at' \in At
      BY <1>0, <2>1 DEF TypeOK, At
    <3>2. pc' \in 0 .. PMEM_WORDS /\ g_nr_guest_inst' \in 0 .. UINT64 - 1
      <4>1. g_nr_guest_inst + 1 \in Nat /\ g_nr_guest_inst + 1 < 2 * UINT64
        BY NemuAssumption DEF TypeOK
      <4>2. (g_nr_guest_inst + 1) % UINT64 \in 0 .. UINT64 - 1
        BY NemuAssumption, SMT DEF TypeOK
      <4> QED
        BY <2>1, <2>4, <4>2, NemuAssumption DEF TypeOK
    <3>3. last' \in Inst \cup [kind : {"none"}]
      BY <2>1
    <3> QED
      BY <1>0, <2>6, <2>7, <2>8, <3>1, <3>2, <3>3 DEF TypeOK
  <2>10. EndedIsFrozen' /\ StateAgreesWithControl' /\ StoppedInv'
    <3>1. nemu_state'.state \in {"END", "ABORT"} => nemu_state'.halt_pc = pc
      BY <2>2, <2>5
    <3>2. nemu_state'.state \in {"RUNNING", "QUIT", "END", "ABORT"}
      BY <2>2, <2>5
    <3> QED
      BY <1>0, <2>1, <3>1, <3>2
        DEF EndedIsFrozen, StateAgreesWithControl, StoppedInv, BreaksLoop, State
  <2>11. QuitInv'
    BY <1>0, <2>1, <2>2, <2>5, <2>8 DEF TypeOK, QuitInv, BreaksLoop
  <2>12. LastInv'
    BY <1>0, <2>1, <2>2, <2>5 DEF LastInv, TrapKinds, BreaksLoop
  <2>13. StepInv'
    <3> DEFINE x == nr0 + (req - n)
    <3>1. g_nr_guest_inst = x % UINT64 /\ n <= req
      BY <1>0 DEF StepInv
    <3>2. x \in Nat /\ x < 2 * UINT64 - 1
      BY <1>0, <3>1, NemuAssumption DEF TypeOK
    <3>3. ((x % UINT64) + 1) % UINT64 = (x + 1) % UINT64
      BY <3>2, IncUINT64
    <3>4. g_nr_guest_inst' = (nr0' + (req' - n') + 1) % UINT64
      BY <1>0, <2>1, <3>1, <3>3
    <3> QED
      BY <1>0, <2>1, <3>1, <3>4 DEF TypeOK, StepInv
  <2>14. EventInv' /\ PanicInv'
    BY <1>0, <2>1, <2>6 DEF EventInv, PanicInv
  <2> QED
    BY <2>9, <2>10, <2>11, <2>12, <2>13, <2>14
<1> QED
  BY <1>1, <1>2

\* Back to the head of the loop, with or without a poll.
LEMMA LoopBackStep ==
  ASSUME IInv, at \in {"update", "poll"}, LoopBack
  PROVE  IInv'
<1> USE DEF IInv, LoopBack
<1>1. n >= 1 /\ n' = n - 1
  BY DEF StepInv
<1>2. TypeOK'
  <2>1. KbdTypeOK' /\ is_batch_mode' \in BOOLEAN /\ sdl' \in Seq(Event)
    BY DEF TypeOK, KbdTypeOK, kbdVars
  <2>2. n' \in 0 .. UINT64 - 1
    BY <1>1, NemuAssumption DEF TypeOK
  <2> QED
    BY <2>1, <2>2 DEF TypeOK, At
<1>3. EndedIsFrozen' /\ StateAgreesWithControl' /\ StoppedInv' /\ QuitInv' /\ LastInv'
  BY DEF EndedIsFrozen, StateAgreesWithControl, StoppedInv, QuitInv, LastInv
<1>4. StepInv'
  <2>1. n <= req /\ g_nr_guest_inst = (nr0 + (req - n) + 1) % UINT64
    BY DEF StepInv
  <2>2. nr0 + (req - n) + 1 = nr0 + (req - (n - 1)) /\ n - 1 <= req
    BY <2>1 DEF TypeOK
  <2>3. g_nr_guest_inst = (nr0 + (req - (n - 1))) % UINT64
    BY <2>1, <2>2
  <2> QED
    BY <1>1, <2>2, <2>3 DEF StepInv
<1>5. EventInv' /\ PanicInv'
  BY DEF EventInv, PanicInv, kbdVars
<1> QED
  BY <1>2, <1>3, <1>4, <1>5

\* device_update starts to poll.
LEMMA PollStep ==
  ASSUME IInv, device_update_poll
  PROVE  IInv'
<1> USE DEF IInv, device_update_poll
<1>1. TypeOK'
  <2>1. KbdTypeOK' /\ is_batch_mode' \in BOOLEAN /\ sdl' \in Seq(Event)
    BY DEF TypeOK, KbdTypeOK, kbdVars
  <2> QED
    BY <2>1 DEF TypeOK, At
<1>2. EndedIsFrozen' /\ StateAgreesWithControl' /\ StoppedInv' /\ QuitInv' /\ LastInv' /\ StepInv'
  BY DEF EndedIsFrozen, StateAgreesWithControl, StoppedInv, QuitInv, LastInv, StepInv
<1>3. EventInv' /\ PanicInv'
  BY DEF EventInv, PanicInv, kbdVars
<1> QED
  BY <1>1, <1>2, <1>3

\* One event is handled.
LEMMA EventStep ==
  ASSUME IInv, handle_event
  PROVE  IInv'
<1> USE DEF IInv
<1>0. /\ at = "poll" /\ sdl # <<>> /\ sdl' = Tail(sdl) /\ ~kbd_panic
      /\ UNCHANGED <<is_batch_mode, n, pc, g_nr_guest_inst, posted, req, nr0, last>>
  BY DEF handle_event, poll_event, PanicInv
<1>1. /\ sdl' \in Seq(Event)
      /\ \A i \in 1 .. Len(sdl') : ~sdl'[i].at_prompt
      /\ Head(sdl) \in Event
      /\ CONFIG_DEVICE
  <2>1. /\ Tail(sdl) \in Seq(Event) /\ Len(Tail(sdl)) = Len(sdl) - 1
        /\ \A i \in 1 .. Len(Tail(sdl)) : Tail(sdl)[i] = sdl[i + 1]
        /\ Head(sdl) \in Event
    BY <1>0, HeadTailProperties DEF TypeOK
  <2>2. \A i \in 1 .. Len(sdl) : ~sdl[i].at_prompt
    BY <1>0 DEF EventInv
  <2>3. \A i \in 1 .. Len(sdl') : ~sdl'[i].at_prompt
    <3> TAKE i \in 1 .. Len(sdl')
    <3>1. i + 1 \in 1 .. Len(sdl) /\ sdl'[i] = sdl[i + 1]
      BY <1>0, <2>1 DEF TypeOK
    <3> QED
      BY <2>2, <3>1
  <2>4. CONFIG_DEVICE
    BY <1>0, Zenon DEF EventInv
  <2> QED
    BY <1>0, <2>1, <2>3, <2>4
<1>2. CASE Head(sdl).type = "quit"
  <2>1. /\ nemu_state' = [nemu_state EXCEPT !.state = "QUIT"]
        /\ since_quit' = IF since_quit >= 0 THEN since_quit ELSE 0
        /\ UNCHANGED <<kbdVars, at>>
    BY <1>2 DEF handle_event
  <2>2. TypeOK'
    <3>1. KbdTypeOK' /\ is_batch_mode' \in BOOLEAN
      BY <1>0, <2>1 DEF TypeOK, KbdTypeOK, kbdVars
    <3>2. nemu_state' \in [state : State, halt_pc : Nat, halt_ret : Int]
      BY <2>1 DEF TypeOK, State
    <3>3. since_quit' \in -1 .. 1
      BY <2>1 DEF TypeOK
    <3> QED
      BY <1>0, <1>1, <2>1, <3>1, <3>2, <3>3 DEF TypeOK
  <2>3. nemu_state'.state = "QUIT" /\ at' = "poll"
    BY <1>0, <2>1 DEF TypeOK
  <2>4. EndedIsFrozen' /\ StateAgreesWithControl' /\ StoppedInv' /\ StepInv'
    BY <1>0, <2>3 DEF EndedIsFrozen, StateAgreesWithControl, StoppedInv, StepInv
  <2>5. QuitInv'
    BY <1>0, <2>1, <2>3 DEF TypeOK, QuitInv
  <2>6. LastInv'
    BY <1>0, <2>3 DEF LastInv, StateAgreesWithControl
  <2>7. EventInv' /\ PanicInv'
    BY <1>0, <1>1, <2>1 DEF EventInv, PanicInv, kbdVars
  <2> QED
    BY <2>2, <2>4, <2>5, <2>6, <2>7
<1>3. CASE Head(sdl).type # "quit"
  <2>1. /\ send_key(Head(sdl).code, Head(sdl).down, nemu_state.state = "RUNNING")
        /\ at' = AfterKey(kbd_panic')
        /\ UNCHANGED <<nemu_state, since_quit>>
    BY <1>3 DEF handle_event
  <2>2. Head(sdl).code \in Scancode /\ Head(sdl).down \in BOOLEAN
    BY <1>1, <1>3 DEF Event
  <2>3. KbdInv'
    <3>1. KbdInv
      BY <1>0 DEF KbdInv, TypeOK
    <3>2. KbdNext
      BY <1>0, <2>1, <2>2, Zenon DEF KbdNext
    <3> QED
      BY <3>1, <3>2, KbdInvNext
  <2>4. at' \in {"poll", "died"} /\ (kbd_panic' => at' = "died")
    BY <2>1 DEF AfterKey
  <2>5. TypeOK'
    <3>1. KbdTypeOK' /\ is_batch_mode' \in BOOLEAN
      BY <1>0, <2>3 DEF TypeOK, KbdInv
    <3> QED
      BY <1>0, <1>1, <2>1, <2>4, <3>1 DEF TypeOK, At
  <2>6. EndedIsFrozen' /\ StateAgreesWithControl' /\ StoppedInv' /\ StepInv' /\ QuitInv' /\ LastInv'
    BY <1>0, <2>1, <2>4
      DEF EndedIsFrozen, StateAgreesWithControl, StoppedInv, StepInv, QuitInv, LastInv
  <2>7. EventInv' /\ PanicInv'
    BY <1>0, <1>1, <2>4 DEF EventInv, PanicInv
  <2> QED
    BY <2>5, <2>6, <2>7
<1> QED
  BY <1>2, <1>3

\* The commands that do not call cpu_exec, and the end of input.
LEMMA OtherCommandStep ==
  ASSUME IInv, cmd_q \/ mainloop_leave \/ cmd_print
  PROVE  IInv'
<1> USE DEF IInv
<1>1. /\ at = "prompt" /\ at' \in {"prompt", "exited"}
      /\ UNCHANGED <<kbdVars, is_batch_mode, n, pc, g_nr_guest_inst, posted, req, nr0, last, since_quit>>
      /\ \/ nemu_state' = nemu_state
         \/ nemu_state' = [nemu_state EXCEPT !.state = "QUIT"]
  BY DEF cmd_q, mainloop_leave, cmd_print
<1>2. sdl' = <<>> \/ sdl' = sdl
  BY ClearEvents DEF cmd_q, mainloop_leave, cmd_print
<1>3. TypeOK'
  <2>1. KbdTypeOK' /\ is_batch_mode' \in BOOLEAN
    BY <1>1 DEF TypeOK, KbdTypeOK, kbdVars
  <2>2. sdl' \in Seq(Event)
    <3>1. sdl \in Seq(Event) /\ <<>> \in Seq(Event)
      BY DEF TypeOK
    <3> QED
      BY <1>2, <3>1, Zenon
  <2>3. nemu_state' \in [state : State, halt_pc : Nat, halt_ret : Int]
    BY <1>1 DEF TypeOK, State
  <2> QED
    BY <1>1, <2>1, <2>2, <2>3 DEF TypeOK, At
<1>4. nemu_state'.state \in {nemu_state.state, "QUIT"} /\ nemu_state'.halt_pc = nemu_state.halt_pc
      /\ nemu_state'.halt_ret = nemu_state.halt_ret
  BY <1>1 DEF TypeOK
<1>5. EndedIsFrozen' /\ StateAgreesWithControl' /\ StoppedInv' /\ StepInv'
  BY <1>1, <1>4 DEF EndedIsFrozen, StateAgreesWithControl, StoppedInv, StepInv
<1>6. ~is_batch_mode
  BY <1>1, Zenon DEF LastInv
<1>7. QuitInv' /\ LastInv'
  BY <1>1, <1>4, <1>6 DEF QuitInv, LastInv
<1>8. EventInv' /\ PanicInv'
  BY <1>1, <1>2 DEF EventInv, PanicInv, kbdVars
<1> QED
  BY <1>3, <1>5, <1>7, <1>8

\* The user posts an event.
LEMMA PostStep ==
  ASSUME IInv, NEW e \in Event, post_event(e)
  PROVE  IInv'
<1> USE DEF IInv
<1>1. /\ UNCHANGED <<kbdVars, at, is_batch_mode, nemu_state, n, pc, g_nr_guest_inst,
                     req, nr0, last, since_quit>>
      /\ sdl' = Append(sdl, e) /\ e.at_prompt = (at = "prompt") /\ CONFIG_DEVICE
      /\ posted < EventBound /\ posted' = posted + 1
  BY DEF post_event
<1>2. TypeOK'
  <2>1. KbdTypeOK' /\ is_batch_mode' \in BOOLEAN
    BY <1>1 DEF TypeOK, KbdTypeOK, kbdVars
  <2>2. sdl' \in Seq(Event)
    BY <1>1 DEF TypeOK
  <2>3. posted' \in 0 .. EventBound
    BY <1>1, NemuAssumption DEF TypeOK
  <2> QED
    BY <1>1, <2>1, <2>2, <2>3 DEF TypeOK
<1>3. EndedIsFrozen' /\ StateAgreesWithControl' /\ StoppedInv' /\ StepInv' /\ QuitInv' /\ LastInv'
  BY <1>1 DEF EndedIsFrozen, StateAgreesWithControl, StoppedInv, StepInv, QuitInv, LastInv
<1>4. EventInv'
  <2>1. ASSUME at \notin {"prompt", "exited", "died"}, NEW i \in 1 .. Len(sdl')
        PROVE  ~sdl'[i].at_prompt
    <3>1. ~e.at_prompt
      BY <1>1, <2>1
    <3>2. /\ \A j \in 1 .. Len(sdl) : ~sdl[j].at_prompt
          /\ sdl \in Seq(Event)
      BY <2>1 DEF EventInv, TypeOK
    <3>3. sdl'[i] = e \/ (i \in 1 .. Len(sdl) /\ sdl'[i] = sdl[i])
      BY <1>1, <2>1, <3>2
    <3> QED
      BY <3>1, <3>2, <3>3
  <2> QED
    BY <1>1, <2>1, Zenon DEF EventInv
<1>5. PanicInv'
  BY <1>1 DEF PanicInv, kbdVars
<1> QED
  BY <1>2, <1>3, <1>4, <1>5

\* Every step preserves the invariant: one case per action of Next.
LEMMA IInvNext == IInv /\ [Next]_vars => IInv'
<1> SUFFICES ASSUME IInv, [Next]_vars PROVE IInv'
  OBVIOUS
<1>1. UINT64 - 1 \in 0 .. UINT64 - 1
  BY NemuAssumption
<1>2. CASE sdb_batch
  BY <1>1, <1>2, CpuExecStep DEF sdb_batch
<1>3. CASE \E inst \in Inst : exec_once(inst)
  BY <1>3, ExecStep
<1>4. CASE cpu_exec_return
  BY <1>4, ReturnStep
<1>5. CASE device_update_skip \/ poll_done
  BY <1>5, LoopBackStep DEF device_update_skip, poll_done
<1>6. CASE device_update_poll
  BY <1>6, PollStep
<1>7. CASE handle_event
  BY <1>7, EventStep
<1>8. CASE cmd_c
  BY <1>1, <1>8, CpuExecStep DEF cmd_c
<1>9. CASE cmd_si
  BY <1>9, CpuExecStep DEF cmd_si
<1>10. CASE cmd_q \/ mainloop_leave \/ cmd_print
  BY <1>10, OtherCommandStep
<1>11. CASE \E e \in Event : post_event(e)
  BY <1>11, PostStep
<1>12. CASE UNCHANGED vars
  <2>1. KbdTypeOK'
    BY <1>12 DEF IInv, TypeOK, KbdTypeOK, vars, kbdVars
  <2>2. TypeOK'
    BY <1>12, <2>1 DEF IInv, TypeOK, vars, nemuVars
  <2>3. EndedIsFrozen' /\ StateAgreesWithControl' /\ StoppedInv' /\ StepInv' /\ QuitInv' /\ LastInv'
    BY <1>12 DEF IInv, EndedIsFrozen, StateAgreesWithControl, StoppedInv, StepInv, QuitInv,
                 LastInv, vars, nemuVars
  <2>4. EventInv' /\ PanicInv'
    BY <1>12 DEF IInv, EventInv, PanicInv, vars, nemuVars, kbdVars
  <2> QED
    BY <2>2, <2>3, <2>4 DEF IInv
<1> QED
  BY <1>2, <1>3, <1>4, <1>5, <1>6, <1>7, <1>8, <1>9, <1>10, <1>11, <1>12
    DEF Next, Engine, Command

LEMMA IInvAlways == Spec => []IInv
BY IInvInit, IInvNext, PTL DEF Spec

-----------------------------------------------------------------------------
\* Every variable of the monitor keeps its type; in particular cpu.pc never
\* passes the word after the memory's last one.
THEOREM NemuTypeCorrect == Spec => []TypeOK
<1>1. IInv => TypeOK
  BY DEF IInv
<1> QED
  BY <1>1, IInvAlways, PTL

\* After a trap or an abort the guest never moves again and its report stays.
THEOREM NemuEndedIsFinal == Spec => EndedIsFinal
<1> DEFINE Stays == UNCHANGED <<pc, g_nr_guest_inst, nemu_state.halt_pc, nemu_state.halt_ret>>
<1>1. IInv /\ [Next]_vars => [last.kind \in TrapKinds => Stays]_vars
  <2> SUFFICES ASSUME IInv, Next, last.kind \in TrapKinds PROVE Stays
    BY DEF vars
  <2>1. at \notin {"exec", "poll"} /\ nemu_state \in [state : State, halt_pc : Nat, halt_ret : Int]
    BY DEF IInv, LastInv, TypeOK
  <2>2. CASE Engine
    <3>1. sdb_batch \/ cpu_exec_return \/ device_update_skip \/ device_update_poll
      BY <2>1, <2>2 DEF Engine, exec_once, handle_event, poll_done
    <3> QED
      BY <2>1, <3>1 DEF sdb_batch, cpu_exec, cpu_exec_return, device_update_skip,
                        device_update_poll, LoopBack
  <2>3. CASE Command
    BY <2>1, <2>3 DEF Command, cmd_c, cmd_si, cmd_q, mainloop_leave, cmd_print, cpu_exec
  <2>4. CASE \E e \in Event : post_event(e)
    BY <2>4 DEF post_event
  <2>5. CASE UNCHANGED vars
    BY <2>5 DEF vars, nemuVars
  <2> QED
    BY <2>2, <2>3, <2>4, <2>5 DEF Next
<1> QED
  BY <1>1, IInvAlways, PTL DEF Spec, EndedIsFinal

\* nemu_state agrees with the control point.
THEOREM NemuStateAgrees == Spec => []StateAgreesWithControl
<1>1. IInv => StateAgreesWithControl
  BY DEF IInv
<1> QED
  BY <1>1, IInvAlways, PTL

\* A command that merely stops has executed exactly the instructions asked for.
THEOREM NemuSteppedExactly == Spec => []SteppedExactly
<1>1. IInv => SteppedExactly
  BY SubUINT64 DEF IInv, TypeOK, StepInv, SteppedExactly
<1> QED
  BY <1>1, IInvAlways, PTL

\* At most one instruction runs after the window was closed.
THEOREM NemuAtMostOneAfterQuit == Spec => []AtMostOneAfterQuit
<1>1. IInv => AtMostOneAfterQuit
  BY DEF IInv, TypeOK, AtMostOneAfterQuit
<1> QED
  BY <1>1, IInvAlways, PTL

\* Keys pressed at the debugger's prompt never reach the guest.
THEOREM NemuPromptEventsDiscarded == Spec => []PromptEventsDiscarded
<1>1. IInv => PromptEventsDiscarded
  BY DEF IInv, EventInv, PromptEventsDiscarded, Executing
<1> QED
  BY <1>1, IInvAlways, PTL

\* The exit status of a batch run tells how the guest ended.
THEOREM NemuBatchVerdict == Spec => []BatchVerdict
<1>1. IInv => BatchVerdict
  <2> SUFFICES ASSUME IInv, at = "exited", is_batch_mode
               PROVE  ~is_exit_status_bad <=>
                        GoodTrap \/ (since_quit >= 0 /\ last.kind \notin TrapKinds)
    BY DEF BatchVerdict
  <2>1. nemu_state.state \in {"STOP", "END", "ABORT", "QUIT"}
    BY DEF IInv, TypeOK, State, StateAgreesWithControl
  <2>2. CASE nemu_state.state = "STOP"
    BY <2>2 DEF IInv, QuitInv, LastInv, TrapKinds, is_exit_status_bad, GoodTrap
  <2>3. CASE nemu_state.state = "END"
    BY <2>3 DEF IInv, LastInv, TrapKinds, is_exit_status_bad, GoodTrap
  <2>4. CASE nemu_state.state = "ABORT"
    BY <2>4 DEF IInv, LastInv, TrapKinds, is_exit_status_bad, GoodTrap
  <2>5. CASE nemu_state.state = "QUIT"
    BY <2>5 DEF IInv, QuitInv, LastInv, TrapKinds, is_exit_status_bad, GoodTrap
  <2> QED
    BY <2>1, <2>2, <2>3, <2>4, <2>5
<1> QED
  BY <1>1, IInvAlways, PTL

-----------------------------------------------------------------------------
\* The monitor drives the keyboard only through its two operations, and not at
\* all once its queue has overflowed.
LEMMA NemuDrivesKeyboard == Spec => KbdSpec
<1>1. Init => KbdInit
  BY DEF Init
<1>2. IInv /\ [Next]_vars => [KbdNext]_kbdVars
  <2> SUFFICES ASSUME IInv, [Next]_vars PROVE [KbdNext]_kbdVars
    OBVIOUS
  <2>1. ASSUME NEW inst \in Inst, exec_once(inst) PROVE [KbdNext]_kbdVars
    <3>1. i8042_data_io_handler \/ UNCHANGED kbdVars
      BY <2>1, Zenon DEF exec_once
    <3>2. ~kbd_panic
      BY <2>1 DEF exec_once, IInv, PanicInv
    <3> QED
      BY <3>1, <3>2 DEF KbdNext
  <2>2. ASSUME handle_event PROVE [KbdNext]_kbdVars
    <3>1. ~kbd_panic /\ Head(sdl) \in Event
      <4>1. sdl \in Seq(Event) /\ sdl # <<>>
        BY <2>2 DEF handle_event, IInv, TypeOK
      <4> QED
        BY <2>2, <4>1, HeadTailProperties DEF handle_event, IInv, PanicInv
    <3>2. CASE Head(sdl).type = "quit"
      BY <2>2, <3>2 DEF handle_event
    <3>3. CASE Head(sdl).type # "quit"
      <4>1. Head(sdl).code \in Scancode /\ Head(sdl).down \in BOOLEAN
        BY <3>1, <3>3 DEF Event
      <4>2. send_key(Head(sdl).code, Head(sdl).down, nemu_state.state = "RUNNING")
        BY <2>2, <3>3 DEF handle_event
      <4> QED
        BY <3>1, <4>1, <4>2, Zenon DEF KbdNext
    <3> QED
      BY <3>2, <3>3
  <2>3. CASE sdb_batch \/ cpu_exec_return \/ device_update_skip \/ device_update_poll \/ poll_done
    BY <2>3 DEF sdb_batch, cpu_exec, cpu_exec_return, device_update_skip, device_update_poll,
                poll_done, LoopBack
  <2>4. CASE Command
    BY <2>4 DEF Command, cmd_c, cmd_si, cmd_q, mainloop_leave, cmd_print, cpu_exec
  <2>5. CASE \E e \in Event : post_event(e)
    BY <2>5 DEF post_event
  <2>6. CASE UNCHANGED vars
    BY <2>6 DEF vars
  <2> QED
    BY <2>1, <2>2, <2>3, <2>4, <2>5, <2>6 DEF Next, Engine
<1> QED
  BY <1>1, <1>2, IInvAlways, PTL DEF Spec, KbdSpec

\* Inside the whole emulator too, the guest gets the keys in the order they were
\* pressed, each once.
THEOREM NemuImplementsFifo == Spec => ImplementsFifo
BY NemuDrivesKeyboard, KeyboardRefinesFifo, PTL
=============================================================================
