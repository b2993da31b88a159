---------------------------- MODULE NativeProofs ----------------------------
(***************************************************************************)
(* The native port of the Abstract Machine.                                *)
(*                                                                         *)
(* Input: the ring of the keyboard implements the queue DropFifo, for      *)
(* every ring length of at least two and every keymap, however the steps   *)
(* of the two threads interleave.                                          *)
(*                                                                         *)
(* Address spaces: a processor sees the pages of the space it runs, for    *)
(* any number of spaces and pages; last section.                           *)
(***************************************************************************)
EXTENDS NativeInput, Vme, SequenceTheorems, TLAPS

\* A key has a code, and no code is AM_KEY_NONE.
LEMMA CodeType ==
  ASSUME NEW e \in Event, e.type = "key", NEW key \in KeysOf(e.scancode), key # AM_KEY_NONE
  PROVE  CodeOf(key, e.keydown) \in Codes
<1>1. e \in [type : {"key"}, scancode : Scancode, keydown : BOOLEAN]
  BY DEF Event
<1>2. e.scancode \in Scancode /\ e.keydown \in BOOLEAN
  BY <1>1
<1>3. key \in Keys \ {AM_KEY_NONE}
  BY <1>2 DEF Keys
<1> DEFINE c == CodeOf(key, e.keydown)
<1>4. \E x \in Keys \ {AM_KEY_NONE} : \E d \in BOOLEAN : c = CodeOf(x, d)
  BY <1>2, <1>3
<1> HIDE DEF c
<1>5. c \in Codes
  BY <1>4 DEF Codes
<1> QED
  BY <1>5 DEF c

LEMMA CodesAreKeys == Codes \subseteq Nat \ {AM_KEY_NONE}
<1> SUFFICES ASSUME NEW c \in Codes PROVE c \in Nat /\ c # AM_KEY_NONE
  OBVIOUS
<1>0. PICK key \in Keys \ {AM_KEY_NONE} :
        \E keydown \in BOOLEAN : c = CodeOf(key, keydown)
  BY DEF Codes
<1>1. PICK s \in Scancode : key \in KeysOf(s)
  BY <1>0 DEF Keys
<1>2. key \in KeysOf(s) /\ key # AM_KEY_NONE /\ \E keydown \in BOOLEAN : c = CodeOf(key, keydown)
  BY <1>0, <1>1
<1>3. key \in Nat /\ KEYDOWN_MASK \in Nat \ {0} /\ AM_KEY_NONE = 0
  <2>1. s \in Nat /\ KEYDOWN_MASK \in Nat \ {0} /\ AM_KEY_NONE = 0 /\ KEYMAP_LEN \in Nat
    BY NativeInputAssumption
  <2>2. CASE s < KEYMAP_LEN
    <3>1. s \in 0 .. KEYMAP_LEN - 1
      BY <2>1, <2>2
    <3>2. keymap[s] \in 0 .. KEYDOWN_MASK - 1
      BY <3>1, NativeInputAssumption
    <3>3. key = keymap[s]
      BY <1>2, <2>2 DEF KeysOf
    <3> QED
      BY <2>1, <3>2, <3>3
  <2>3. CASE ~(s < KEYMAP_LEN)
    BY <1>2, <2>1, <2>3, NativeInputAssumption DEF KeysOf
  <2> QED
    BY <2>2, <2>3
<1>4. c = key \/ c = key + KEYDOWN_MASK
  BY <1>2 DEF CodeOf
<1> QED
  BY <1>2, <1>3, <1>4

-----------------------------------------------------------------------------
(* The ring.                                                               *)

\* Advancing an index of the ring by one.
LEMMA NextIndex ==
  ASSUME NEW x \in Slots
  PROVE  /\ next_index(x) = IF x + 1 = KEY_QUEUE_LEN THEN 0 ELSE x + 1
         /\ next_index(x) \in Slots
<1>1. KEY_QUEUE_LEN \in Nat /\ KEY_QUEUE_LEN >= 2
  BY NativeInputAssumption
<1>2. x \in 0 .. KEY_QUEUE_LEN - 1
  BY DEF Slots
<1> QED
  BY <1>1, <1>2 DEF Slots, next_index

\* The index of the i-th slot from f on.
LEMMA IndexOf ==
  ASSUME NEW f \in Slots, NEW i \in 1 .. KEY_QUEUE_LEN
  PROVE  /\ (f + i - 1) % KEY_QUEUE_LEN =
              IF f + i - 1 < KEY_QUEUE_LEN THEN f + i - 1 ELSE f + i - 1 - KEY_QUEUE_LEN
         /\ (f + i - 1) % KEY_QUEUE_LEN \in Slots
<1>1. KEY_QUEUE_LEN \in Nat /\ KEY_QUEUE_LEN >= 2
  BY NativeInputAssumption
<1>2. PICK x \in Int : x = f + i - 1
  BY <1>1 DEF Slots
<1>3. x \in 0 .. 2 * KEY_QUEUE_LEN - 2
  BY <1>1, <1>2 DEF Slots
<1>4. CASE x < KEY_QUEUE_LEN
  <2>1. x % KEY_QUEUE_LEN = x
    BY <1>1, <1>3, <1>4
  <2> QED
    BY <1>1, <1>2, <1>3, <1>4, <2>1 DEF Slots
<1>5. CASE x >= KEY_QUEUE_LEN
  <2>1. x % KEY_QUEUE_LEN = x - KEY_QUEUE_LEN
    BY <1>1, <1>3, <1>5
  <2> QED
    BY <1>1, <1>2, <1>3, <1>5, <2>1 DEF Slots
<1> QED
  BY <1>1, <1>3, <1>4, <1>5

\* The slots that are pending; the slot at key_r is not among them.
LEMMA PendingSlots ==
  ASSUME NEW f \in Slots, NEW r \in Slots, NEW n,
         n = IF r >= f THEN r - f ELSE r - f + KEY_QUEUE_LEN
  PROVE  /\ n \in 0 .. KEY_QUEUE_LEN - 1 /\ (n = 0 <=> f = r)
         /\ (f + (n + 1) - 1) % KEY_QUEUE_LEN = r
         /\ \A i \in 1 .. n : (f + i - 1) % KEY_QUEUE_LEN # r
<1> DEFINE L == KEY_QUEUE_LEN
<1>0. /\ L \in Nat /\ L >= 2 /\ f \in 0 .. L - 1 /\ r \in 0 .. L - 1
      /\ n = IF r >= f THEN r - f ELSE r - f + L
  BY NativeInputAssumption DEF Slots
<1>1. n \in 0 .. L - 1 /\ (n = 0 <=> f = r)
  BY <1>0
<1>2. (f + (n + 1) - 1) % L =
        IF f + (n + 1) - 1 < L THEN f + (n + 1) - 1 ELSE f + (n + 1) - 1 - L
  <2>1. n + 1 \in 1 .. L
    BY <1>0, <1>1
  <2> QED
    BY <2>1, IndexOf
<1>3. ASSUME NEW i \in 1 .. n PROVE (f + i - 1) % L # r
  <2>1. i \in 1 .. L
    BY <1>0, <1>1
  <2>2. (f + i - 1) % L = IF f + i - 1 < L THEN f + i - 1 ELSE f + i - 1 - L
    BY <2>1, IndexOf
  <2> HIDE DEF L
  <2> QED
    BY <1>0, <1>1, <2>1, <2>2
<1>4. (f + (n + 1) - 1) % L = r
  <2> HIDE DEF L
  <2> QED
    BY <1>0, <1>2
<1> QED
  BY <1>1, <1>3, <1>4

\* A window of the ring is a sequence.
LEMMA WindowSeq ==
  ASSUME NEW q \in [Slots -> Nat], NEW f \in Slots, NEW n \in 0 .. KEY_QUEUE_LEN
  PROVE  /\ Window(q, f, n) \in Seq(Nat)
         /\ Len(Window(q, f, n)) = n
         /\ \A i \in 1 .. n : Window(q, f, n)[i] = q[(f + i - 1) % KEY_QUEUE_LEN]
<1>1. n \in Nat /\ n <= KEY_QUEUE_LEN
  BY NativeInputAssumption
<1>2. \A i \in 1 .. n : q[(f + i - 1) % KEY_QUEUE_LEN] \in Nat
  <2> TAKE i \in 1 .. n
  <2>1. i \in 1 .. KEY_QUEUE_LEN
    BY <1>1, NativeInputAssumption
  <2> QED
    BY <2>1, IndexOf
<1> QED
  BY <1>1, <1>2 DEF Window

\* Two rings that agree on the slots of a window show the same there.
LEMMA WindowEqual ==
  ASSUME NEW q, NEW p, NEW f, NEW n,
         \A i \in 1 .. n : q[(f + i - 1) % KEY_QUEUE_LEN] = p[(f + i - 1) % KEY_QUEUE_LEN]
  PROVE  Window(q, f, n) = Window(p, f, n)
BY DEF Window

\* A window that grows by a slot has the slot's key at its end.
LEMMA WindowGrows ==
  ASSUME NEW q \in [Slots -> Nat], NEW f \in Slots, NEW n \in Nat, n + 1 <= KEY_QUEUE_LEN
  PROVE  Window(q, f, n + 1) = Append(Window(q, f, n), q[(f + (n + 1) - 1) % KEY_QUEUE_LEN])
<1> DEFINE W == Window(q, f, n)
           V == Window(q, f, n + 1)
           x == q[(f + (n + 1) - 1) % KEY_QUEUE_LEN]
<1>1. n \in 0 .. KEY_QUEUE_LEN /\ n + 1 \in 0 .. KEY_QUEUE_LEN
  BY NativeInputAssumption
<1>2. /\ W \in Seq(Nat) /\ Len(W) = n
      /\ \A i \in 1 .. n : W[i] = q[(f + i - 1) % KEY_QUEUE_LEN]
  BY <1>1, WindowSeq
<1>3. /\ V \in Seq(Nat) /\ Len(V) = n + 1
      /\ \A i \in 1 .. n + 1 : V[i] = q[(f + i - 1) % KEY_QUEUE_LEN]
  BY <1>1, WindowSeq
<1>4. \A i \in 1 .. n : V[i] = W[i]
  <2> TAKE i \in 1 .. n
  <2>1. i \in 1 .. n + 1
    OBVIOUS
  <2> QED
    BY <2>1, <1>2, <1>3
<1>5. V[n + 1] = x
  BY <1>3
<1> HIDE DEF W, V, x
<1>6. V = Append(W, x)
  BY <1>2, <1>3, <1>4, <1>5
<1> QED
  BY <1>6 DEF W, V, x

\* A window that loses its first slot is the tail.
LEMMA WindowShrinks ==
  ASSUME NEW q \in [Slots -> Nat], NEW f \in Slots, NEW n \in 1 .. KEY_QUEUE_LEN
  PROVE  Window(q, f, n) = <<q[f]>> \o Window(q, next_index(f), n - 1)
<1> DEFINE g == next_index(f)
           W == Window(q, f, n)
           V == Window(q, g, n - 1)
           x == q[f]
<1>0. KEY_QUEUE_LEN \in Nat /\ f \in 0 .. KEY_QUEUE_LEN - 1
  BY NativeInputAssumption DEF Slots
<1>1. g \in Slots /\ g = IF f + 1 = KEY_QUEUE_LEN THEN 0 ELSE f + 1
  BY NextIndex
<1>2. n \in 0 .. KEY_QUEUE_LEN /\ n - 1 \in 0 .. KEY_QUEUE_LEN /\ n \in Nat /\ n - 1 \in Nat
  BY <1>0
<1>3. /\ W \in Seq(Nat) /\ Len(W) = n
      /\ \A i \in 1 .. n : W[i] = q[(f + i - 1) % KEY_QUEUE_LEN]
  BY <1>2, WindowSeq
<1>4. /\ V \in Seq(Nat) /\ Len(V) = n - 1
      /\ \A i \in 1 .. n - 1 : V[i] = q[(g + i - 1) % KEY_QUEUE_LEN]
  BY <1>1, <1>2, WindowSeq
<1>5. W[1] = x
  <2>1. 1 \in 1 .. n /\ 1 \in 1 .. KEY_QUEUE_LEN
    BY <1>0
  <2>2. (f + 1 - 1) % KEY_QUEUE_LEN = f
    BY <2>1, <1>0, IndexOf
  <2> QED
    BY <1>3, <2>1, <2>2
<1>6. \A i \in 1 .. n - 1 : V[i] = W[i + 1]
  <2> TAKE i \in 1 .. n - 1
  <2>1. i \in 1 .. KEY_QUEUE_LEN /\ i + 1 \in 1 .. KEY_QUEUE_LEN /\ i + 1 \in 1 .. n
    BY <1>0
  <2>2. (g + i - 1) % KEY_QUEUE_LEN =
          IF g + i - 1 < KEY_QUEUE_LEN THEN g + i - 1 ELSE g + i - 1 - KEY_QUEUE_LEN
    BY <1>1, <2>1, IndexOf
  <2>3. (f + (i + 1) - 1) % KEY_QUEUE_LEN =
          IF f + (i + 1) - 1 < KEY_QUEUE_LEN THEN f + (i + 1) - 1
          ELSE f + (i + 1) - 1 - KEY_QUEUE_LEN
    BY <2>1, IndexOf
  <2>4. (g + i - 1) % KEY_QUEUE_LEN = (f + (i + 1) - 1) % KEY_QUEUE_LEN
    <3> HIDE DEF g
    <3> QED
      BY <1>0, <1>1, <2>1, <2>2, <2>3
  <2> QED
    BY <1>3, <1>4, <2>1, <2>4
<1>7. x \in Nat
  BY <1>0 DEF Slots
<1> HIDE DEF g, W, V, x
<1>8. <<x>> \o V \in Seq(Nat) /\ Len(<<x>> \o V) = n
  BY <1>2, <1>4, <1>7
<1>9. \A i \in 1 .. n : (<<x>> \o V)[i] = W[i]
  <2> TAKE i \in 1 .. n
  <2>1. CASE i = 1
    BY <1>4, <1>5, <1>7, <2>1
  <2>2. CASE i # 1
    <3>1. i - 1 \in 1 .. n - 1 /\ i \in Nat
      BY <1>2, <2>2
    <3>2. (<<x>> \o V)[i] = V[i - 1]
      BY <3>1, <1>2, <1>4, <1>7
    <3>3. V[i - 1] = W[(i - 1) + 1]
      BY <3>1, <1>6
    <3>4. (i - 1) + 1 = i
      BY <3>1
    <3> QED
      BY <3>2, <3>3, <3>4
  <2> QED
    BY <2>1, <2>2
<1>10. <<x>> \o V = W
  BY <1>3, <1>8, <1>9, SeqEqual
<1> QED
  BY <1>10 DEF g, W, V, x

-----------------------------------------------------------------------------
(***************************************************************************)
(* The invariant: who is between lock and unlock holds the mutex, the new  *)
(* key is in its slot before the index moves, and the reader's variable    *)
(* holds the oldest key from the moment it was read.                       *)
(***************************************************************************)
LockOK ==
  /\ thread \in {"slot", "rear", "unlock"} => key_queue_lock = "thread"
  /\ reader # "call" => key_queue_lock = "reader"

SlotOK ==
  /\ thread \in {"lock", "slot", "rear"} => am_code \in Codes
  /\ thread = "rear" => key_queue[key_r] = am_code

ReadOK ==
  /\ reader = "test" => k = AM_KEY_NONE
  /\ reader = "front" => key_f # key_r /\ k = key_queue[key_f] /\ k # AM_KEY_NONE
  /\ reader = "unlock" /\ k = AM_KEY_NONE => key_f = key_r

\* No slot between the indices is empty.
RingOK == \A i \in 1 .. NrPending : key_queue[(key_f + i - 1) % KEY_QUEUE_LEN] # 0

InputInv == TypeOK /\ LockOK /\ SlotOK /\ ReadOK /\ RingOK

\* What the invariant says of the ring's windows.
LEMMA RingFacts ==
  ASSUME InputInv
  PROVE  /\ key_queue \in [Slots -> Nat]
         /\ key_f \in Slots /\ key_r \in Slots
         /\ NrPending \in 0 .. KEY_QUEUE_LEN - 1 /\ NrPending \in Nat
         /\ NrPending = 0 <=> key_f = key_r
         /\ (key_f + (NrPending + 1) - 1) % KEY_QUEUE_LEN = key_r
         /\ \A i \in 1 .. NrPending : /\ (key_f + i - 1) % KEY_QUEUE_LEN # key_r
                                      /\ (key_f + i - 1) % KEY_QUEUE_LEN \in Slots
         /\ Len(Pending) = NrPending /\ Pending \in Seq(Nat)
<1>1. key_queue \in [Slots -> Nat] /\ key_f \in Slots /\ key_r \in Slots
  <2>1. key_queue \in [Slots -> Codes \cup {0}] /\ key_f \in Slots /\ key_r \in Slots
    BY DEF InputInv, TypeOK
  <2>2. Codes \cup {0} \subseteq Nat
    BY CodesAreKeys
  <2> QED
    BY <2>1, <2>2
<1>2. /\ NrPending \in 0 .. KEY_QUEUE_LEN - 1
      /\ NrPending = 0 <=> key_f = key_r
      /\ (key_f + (NrPending + 1) - 1) % KEY_QUEUE_LEN = key_r
      /\ \A i \in 1 .. NrPending : (key_f + i - 1) % KEY_QUEUE_LEN # key_r
  BY <1>1, PendingSlots DEF NrPending
<1>3. NrPending \in Nat /\ NrPending \in 0 .. KEY_QUEUE_LEN
  BY <1>2, NativeInputAssumption
<1>4. \A i \in 1 .. NrPending : (key_f + i - 1) % KEY_QUEUE_LEN \in Slots
  <2> TAKE i \in 1 .. NrPending
  <2>1. i \in 1 .. KEY_QUEUE_LEN
    BY <1>2, <1>3, NativeInputAssumption
  <2> QED
    BY <1>1, <2>1, IndexOf
<1>5. Len(Pending) = NrPending /\ Pending \in Seq(Nat)
  BY <1>1, <1>3, WindowSeq DEF Pending
<1> QED
  BY <1>1, <1>2, <1>3, <1>4, <1>5

\* thread_slot writes outside the pending slots.
LEMMA SlotLeavesPending ==
  ASSUME InputInv, thread_slot
  PROVE  /\ Pending' = Pending
         /\ \A i \in 1 .. NrPending : key_queue'[(key_f + i - 1) % KEY_QUEUE_LEN] =
                                      key_queue[(key_f + i - 1) % KEY_QUEUE_LEN]
<1>1. /\ key_queue' = [key_queue EXCEPT ![key_r] = am_code]
      /\ key_f' = key_f /\ key_r' = key_r
  BY DEF thread_slot
<1>2. \A i \in 1 .. NrPending : key_queue'[(key_f + i - 1) % KEY_QUEUE_LEN] =
                               key_queue[(key_f + i - 1) % KEY_QUEUE_LEN]
  BY <1>1, RingFacts
<1>3. NrPending' = NrPending
  BY <1>1 DEF NrPending
<1>4. Window(key_queue', key_f, NrPending) = Window(key_queue, key_f, NrPending)
  BY <1>2, WindowEqual
<1> QED
  BY <1>1, <1>2, <1>3, <1>4 DEF Pending

\* thread_rear appends the new key, or makes the full ring an empty one.
LEMMA RearAppends ==
  ASSUME InputInv, thread_rear
  PROVE  /\ NrPending = KEY_QUEUE_LEN - 1 => NrPending' = 0 /\ Pending' = <<>>
         /\ NrPending # KEY_QUEUE_LEN - 1 =>
              NrPending' = NrPending + 1 /\ Pending' = Append(Pending, am_code)
<1> DEFINE L == KEY_QUEUE_LEN
<1>1. key_queue' = key_queue /\ key_f' = key_f /\ key_r' = next_index(key_r)
  BY DEF thread_rear
<1>2. /\ L \in Nat /\ L >= 2 /\ key_f \in 0 .. L - 1 /\ key_r \in 0 .. L - 1
      /\ key_r' = (IF key_r + 1 = L THEN 0 ELSE key_r + 1)
      /\ NrPending = IF key_r >= key_f THEN key_r - key_f ELSE key_r - key_f + L
      /\ NrPending' = IF key_r' >= key_f THEN key_r' - key_f ELSE key_r' - key_f + L
  BY <1>1, NextIndex, NativeInputAssumption DEF InputInv, TypeOK, Slots, NrPending
<1>3. CASE NrPending = L - 1
  <2>1. NrPending' = 0
    <3> HIDE DEF L
    <3> QED
      BY <1>2, <1>3
  <2>2. Pending' = <<>>
    BY <2>1 DEF Pending, Window
  <2> QED
    BY <1>3, <2>1, <2>2
<1>4. CASE NrPending # L - 1
  <2>1. NrPending' = NrPending + 1
    <3> HIDE DEF L
    <3> QED
      BY <1>2, <1>4
  <2>2. NrPending + 1 <= L
    BY <1>2, RingFacts
  <2>3. Window(key_queue, key_f, NrPending + 1) =
          Append(Window(key_queue, key_f, NrPending), key_queue[key_r])
    BY <2>2, RingFacts, WindowGrows
  <2>4. key_queue[key_r] = am_code
    BY DEF thread_rear, InputInv, SlotOK
  <2> QED
    BY <1>1, <1>4, <2>1, <2>3, <2>4 DEF Pending
<1> QED
  BY <1>3, <1>4

\* reader_front removes the key that k holds.
LEMMA FrontRemoves ==
  ASSUME InputInv, reader_front
  PROVE  /\ NrPending \in 1 .. KEY_QUEUE_LEN /\ NrPending' = NrPending - 1
         /\ Pending = <<k>> \o Pending'
<1> DEFINE L == KEY_QUEUE_LEN
<1>1. /\ key_queue' = key_queue /\ key_r' = key_r /\ key_f' = next_index(key_f)
      /\ key_f # key_r /\ k = key_queue[key_f]
  BY DEF reader_front, InputInv, ReadOK
<1>2. /\ L \in Nat /\ L >= 2 /\ key_f \in 0 .. L - 1 /\ key_r \in 0 .. L - 1
      /\ key_f' = (IF key_f + 1 = L THEN 0 ELSE key_f + 1)
      /\ NrPending = IF key_r >= key_f THEN key_r - key_f ELSE key_r - key_f + L
      /\ NrPending' = IF key_r >= key_f' THEN key_r - key_f' ELSE key_r - key_f' + L
  BY <1>1, NextIndex, NativeInputAssumption DEF InputInv, TypeOK, Slots, NrPending
<1>3. NrPending \in 1 .. L /\ NrPending' = NrPending - 1
  <2> HIDE DEF L
  <2> QED
    BY <1>1, <1>2
<1>4. Window(key_queue, key_f, NrPending) =
        <<key_queue[key_f]>> \o Window(key_queue, next_index(key_f), NrPending - 1)
  BY <1>3, RingFacts, WindowShrinks
<1> QED
  BY <1>1, <1>3, <1>4 DEF Pending

-----------------------------------------------------------------------------
\* The invariant holds initially.
LEMMA InputInvInit == Init => InputInv
<1> SUFFICES ASSUME Init PROVE InputInv
  OBVIOUS
<1>1. 0 \in Slots /\ 0 \in 0 .. EventBound
  BY NativeInputAssumption DEF Slots
<1>2. <<>> \in Seq(Event)
  OBVIOUS
<1>3. key_queue \in [Slots -> Codes \cup {0}]
  BY DEF Init
<1>4. TypeOK
  BY <1>1, <1>2, <1>3, NativeInputAssumption DEF Init, TypeOK
<1>5. NrPending = 0
  BY <1>1 DEF Init, NrPending
<1>6. RingOK
  BY <1>5 DEF RingOK
<1> QED
  BY <1>4, <1>6 DEF Init, InputInv, LockOK, SlotOK, ReadOK

\* Steps that leave the ring alone keep what is said of it.
LEMMA RingUnchanged ==
  ASSUME InputInv, UNCHANGED queueVars
  PROVE  RingOK' /\ NrPending' = NrPending /\ Pending' = Pending
BY DEF InputInv, RingOK, NrPending, Pending, Window, queueVars

\* The steps of the user and of the program's interrupt.
LEMMA PostPreserves == InputInv /\ post => InputInv'
<1> SUFFICES ASSUME InputInv, post PROVE InputInv'
  OBVIOUS
<1>1. sdl' \in Seq(Event) /\ posted' \in 0 .. EventBound
  <2>1. PICK e \in Event : sdl' = Append(sdl, e)
    BY DEF post
  <2>2. posted < EventBound /\ posted' = posted + 1 /\ posted \in 0 .. EventBound
        /\ sdl \in Seq(Event)
    BY DEF post, InputInv, TypeOK
  <2> QED
    BY <2>1, <2>2, NativeInputAssumption
<1>2. UNCHANGED <<queueVars, key_queue_lock, threadVars, irq, readerVars>>
  BY DEF post
<1>3. TypeOK'
  BY <1>1, <1>2 DEF InputInv, TypeOK, queueVars, threadVars, readerVars
<1>4. RingOK'
  BY <1>2, RingUnchanged
<1> QED
  BY <1>2, <1>3, <1>4
     DEF InputInv, LockOK, SlotOK, ReadOK, queueVars, threadVars, readerVars

LEMMA InterruptPreserves == InputInv /\ interrupt => InputInv'
<1> SUFFICES ASSUME InputInv, interrupt PROVE InputInv'
  OBVIOUS
<1>1. /\ irq' = FALSE
      /\ UNCHANGED <<sdl, posted, queueVars, key_queue_lock, threadVars, readerVars>>
  BY DEF interrupt
<1>2. TypeOK'
  BY <1>1 DEF InputInv, TypeOK, queueVars, threadVars, readerVars
<1>3. RingOK'
  BY <1>1, RingUnchanged
<1> QED
  BY <1>1, <1>2, <1>3
     DEF InputInv, LockOK, SlotOK, ReadOK, queueVars, threadVars, readerVars

\* The steps of event_thread.
LEMMA WaitPreserves == InputInv /\ wait_event => InputInv'
<1> SUFFICES ASSUME InputInv, wait_event PROVE InputInv'
  OBVIOUS
<1>1. /\ UNCHANGED <<posted, queueVars, key_queue_lock, irq, readerVars>>
      /\ thread = "wait" /\ sdl # <<>> /\ sdl' = Tail(sdl)
  BY DEF wait_event
<1>2. sdl' \in Seq(Event) /\ Head(sdl) \in Event
  BY <1>1 DEF InputInv, TypeOK
<1>3. \/ thread' = "halt" /\ am_code' = am_code
      \/ thread' = "wait" /\ am_code' = am_code
      \/ thread' = "lock" /\ am_code' \in Codes
  <2>1. CASE Head(sdl).type = "quit" /\ thread' = "halt" /\ UNCHANGED am_code
    BY <2>1
  <2>2. CASE UNCHANGED threadVars
    BY <1>1, <2>2 DEF threadVars
  <2>3. CASE /\ Head(sdl).type = "key" /\ thread' = "lock"
             /\ \E key \in KeysOf(Head(sdl).scancode) \ {AM_KEY_NONE} :
                  am_code' = CodeOf(key, Head(sdl).keydown)
    <3>1. PICK key \in KeysOf(Head(sdl).scancode) :
            key # AM_KEY_NONE /\ am_code' = CodeOf(key, Head(sdl).keydown)
      BY <2>3
    <3>2. am_code' \in Codes
      BY <1>2, <2>3, <3>1, CodeType
    <3> QED
      BY <2>3, <3>2
  <2> QED
    BY <2>1, <2>2, <2>3 DEF wait_event
<1>4. TypeOK'
  BY <1>1, <1>2, <1>3 DEF InputInv, TypeOK, queueVars, readerVars
<1>5. RingOK'
  BY <1>1, RingUnchanged
<1> QED
  BY <1>1, <1>3, <1>4, <1>5 DEF InputInv, LockOK, SlotOK, ReadOK, queueVars, readerVars

LEMMA ThreadLockPreserves == InputInv /\ thread_lock => InputInv'
<1> SUFFICES ASSUME InputInv, thread_lock PROVE InputInv'
  OBVIOUS
<1>1. /\ UNCHANGED <<sdl, posted, queueVars, am_code, irq, readerVars>>
      /\ key_queue_lock = "free" /\ thread = "lock"
      /\ key_queue_lock' = "thread" /\ thread' = "slot"
  BY DEF thread_lock, can_lock
<1>2. TypeOK'
  BY <1>1 DEF InputInv, TypeOK, queueVars, readerVars
<1>3. RingOK'
  BY <1>1, RingUnchanged
<1> QED
  BY <1>1, <1>2, <1>3 DEF InputInv, LockOK, SlotOK, ReadOK, queueVars, readerVars

LEMMA SlotPreserves == InputInv /\ thread_slot => InputInv'
<1> SUFFICES ASSUME InputInv, thread_slot PROVE InputInv'
  OBVIOUS
<1>1. /\ UNCHANGED <<sdl, posted, key_f, key_r, key_queue_lock, am_code, irq, readerVars>>
      /\ thread = "slot" /\ thread' = "rear"
      /\ key_queue' = [key_queue EXCEPT ![key_r] = am_code]
  BY DEF thread_slot
<1>2. am_code \in Codes /\ key_queue \in [Slots -> Codes \cup {0}] /\ key_r \in Slots
  BY <1>1 DEF InputInv, TypeOK, SlotOK
<1>3. key_queue' \in [Slots -> Codes \cup {0}] /\ key_queue'[key_r] = am_code
  BY <1>1, <1>2
<1>4. TypeOK'
  BY <1>1, <1>3 DEF InputInv, TypeOK, readerVars
<1>5. reader = "call"
  BY <1>1 DEF InputInv, LockOK
<1>6. NrPending' = NrPending
  BY <1>1 DEF NrPending
<1>7. RingOK'
  BY <1>1, <1>6, SlotLeavesPending DEF InputInv, RingOK
<1>8. LockOK' /\ ReadOK'
  BY <1>1, <1>5 DEF InputInv, LockOK, ReadOK, readerVars
<1>9. SlotOK'
  BY <1>1, <1>2, <1>3 DEF SlotOK
<1> QED
  BY <1>4, <1>7, <1>8, <1>9 DEF InputInv

LEMMA RearPreserves == InputInv /\ thread_rear => InputInv'
<1> SUFFICES ASSUME InputInv, thread_rear PROVE InputInv'
  OBVIOUS
<1>1. /\ UNCHANGED <<sdl, posted, key_queue, key_f, key_queue_lock, am_code, irq, readerVars>>
      /\ thread = "rear" /\ thread' = "unlock" /\ key_r' = next_index(key_r)
  BY DEF thread_rear
<1>2. key_r' \in Slots
  BY <1>1, NextIndex DEF InputInv, TypeOK
<1>3. TypeOK'
  BY <1>1, <1>2 DEF InputInv, TypeOK, readerVars
<1>4. reader = "call"
  BY <1>1 DEF InputInv, LockOK
<1>5. LockOK' /\ SlotOK' /\ ReadOK'
  BY <1>1, <1>4 DEF InputInv, LockOK, SlotOK, ReadOK, readerVars
<1>6. RingOK'
  <2>1. CASE NrPending = KEY_QUEUE_LEN - 1
    <3>1. NrPending' = 0
      BY <2>1, RearAppends
    <3> QED
      BY <3>1 DEF RingOK
  <2>2. CASE NrPending # KEY_QUEUE_LEN - 1
    <3>1. NrPending' = NrPending + 1 /\ NrPending \in Nat
      BY <2>2, RearAppends, RingFacts
    <3>2. key_queue[key_r] # 0
      BY <1>1, CodesAreKeys, NativeInputAssumption DEF InputInv, SlotOK
    <3>3. (key_f + (NrPending + 1) - 1) % KEY_QUEUE_LEN = key_r
      BY RingFacts
    <3>4. ASSUME NEW i \in 1 .. NrPending + 1
          PROVE  key_queue[(key_f + i - 1) % KEY_QUEUE_LEN] # 0
      <4>1. CASE i = NrPending + 1
        BY <3>2, <3>3, <4>1
      <4>2. CASE i # NrPending + 1
        <5>1. i \in 1 .. NrPending
          BY <3>1, <4>2
        <5> QED
          BY <5>1 DEF InputInv, RingOK
      <4> QED
        BY <4>1, <4>2
    <3> QED
      BY <1>1, <3>1, <3>4 DEF RingOK
  <2> QED
    BY <2>1, <2>2
<1> QED
  BY <1>3, <1>5, <1>6 DEF InputInv

LEMMA UnlockPreserves == InputInv /\ thread_unlock => InputInv'
<1> SUFFICES ASSUME InputInv, thread_unlock PROVE InputInv'
  OBVIOUS
<1>1. /\ UNCHANGED <<sdl, posted, queueVars, am_code, readerVars>>
      /\ thread = "unlock" /\ thread' = "wait" /\ key_queue_lock' = "free" /\ irq' = TRUE
  BY DEF thread_unlock
<1>2. TypeOK'
  BY <1>1 DEF InputInv, TypeOK, queueVars, readerVars
<1>3. RingOK'
  BY <1>1, RingUnchanged
<1>4. reader = "call"
  BY <1>1 DEF InputInv, LockOK
<1> QED
  BY <1>1, <1>2, <1>3, <1>4 DEF InputInv, LockOK, SlotOK, ReadOK, queueVars, readerVars

\* The steps of __am_input_keybrd.
LEMMA ReaderLockPreserves == InputInv /\ reader_lock => InputInv'
<1> SUFFICES ASSUME InputInv, reader_lock PROVE InputInv'
  OBVIOUS
<1>1. /\ UNCHANGED <<sdl, posted, queueVars, threadVars, irq, kbd>>
      /\ reader = "call" /\ reader' = "test" /\ k' = AM_KEY_NONE
      /\ key_queue_lock = "free" /\ key_queue_lock' = "reader"
  BY DEF reader_lock, can_lock
<1>2. TypeOK'
  BY <1>1 DEF InputInv, TypeOK, queueVars, threadVars
<1>3. RingOK'
  BY <1>1, RingUnchanged
<1> QED
  BY <1>1, <1>2, <1>3 DEF InputInv, LockOK, SlotOK, ReadOK, queueVars, threadVars

LEMMA ReaderTestPreserves == InputInv /\ reader_test => InputInv'
<1> SUFFICES ASSUME InputInv, reader_test PROVE InputInv'
  OBVIOUS
<1>1. /\ UNCHANGED <<sdl, posted, queueVars, key_queue_lock, threadVars, irq, kbd>>
      /\ reader = "test"
      /\ \/ key_f # key_r /\ k' = key_queue[key_f] /\ reader' = "front"
         \/ key_f = key_r /\ reader' = "unlock" /\ k' = k
  BY DEF reader_test, after_empty
<1>2. key_f # key_r => key_queue[key_f] \in Codes
  <2> SUFFICES ASSUME key_f # key_r PROVE key_queue[key_f] \in Codes
    OBVIOUS
  <2>1. 1 \in 1 .. NrPending /\ 1 \in 1 .. KEY_QUEUE_LEN
    BY RingFacts, NativeInputAssumption
  <2>2. (key_f + 1 - 1) % KEY_QUEUE_LEN = key_f
    <3>1. (key_f + 1 - 1) % KEY_QUEUE_LEN =
            IF key_f + 1 - 1 < KEY_QUEUE_LEN THEN key_f + 1 - 1 ELSE key_f + 1 - 1 - KEY_QUEUE_LEN
      BY <2>1, RingFacts, IndexOf
    <3>2. key_f \in 0 .. KEY_QUEUE_LEN - 1 /\ KEY_QUEUE_LEN \in Nat
      BY RingFacts, NativeInputAssumption DEF Slots
    <3> QED
      BY <3>1, <3>2
  <2>3. key_queue[key_f] # 0
    BY <2>1, <2>2 DEF InputInv, RingOK
  <2> QED
    BY <2>3, RingFacts DEF InputInv, TypeOK
<1>3. k' \in Codes \cup {AM_KEY_NONE} /\ reader' \in {"front", "unlock"}
  BY <1>1, <1>2 DEF InputInv, TypeOK
<1>4. TypeOK'
  BY <1>1, <1>3 DEF InputInv, TypeOK, queueVars, threadVars
<1>5. RingOK'
  BY <1>1, RingUnchanged
<1>6. LockOK' /\ SlotOK'
  BY <1>1 DEF InputInv, LockOK, SlotOK, queueVars, threadVars
<1>7. ReadOK'
  BY <1>1, <1>2, CodesAreKeys DEF ReadOK, queueVars
<1> QED
  BY <1>4, <1>5, <1>6, <1>7 DEF InputInv

LEMMA ReaderFrontPreserves == InputInv /\ reader_front => InputInv'
<1> SUFFICES ASSUME InputInv, reader_front PROVE InputInv'
  OBVIOUS
<1>1. /\ UNCHANGED <<sdl, posted, key_queue, key_r, key_queue_lock, threadVars, irq, k, kbd>>
      /\ reader = "front" /\ reader' = "unlock" /\ key_f' = next_index(key_f)
  BY DEF reader_front
<1>2. key_f' \in Slots
  BY <1>1, NextIndex DEF InputInv, TypeOK
<1>3. TypeOK'
  BY <1>1, <1>2 DEF InputInv, TypeOK, threadVars
<1>4. LockOK' /\ SlotOK' /\ ReadOK'
  BY <1>1 DEF InputInv, LockOK, SlotOK, ReadOK, threadVars
<1>5. RingOK'
  <2> SUFFICES ASSUME NEW i \in 1 .. NrPending - 1
               PROVE  key_queue[(key_f' + i - 1) % KEY_QUEUE_LEN] # 0
    BY <1>1, FrontRemoves DEF RingOK
  <2> DEFINE L == KEY_QUEUE_LEN
  <2>1. L \in Nat /\ key_f \in 0 .. L - 1 /\ NrPending \in 0 .. L - 1
    BY RingFacts, NativeInputAssumption DEF Slots
  <2>2. i \in 1 .. L /\ i + 1 \in 1 .. L /\ i + 1 \in 1 .. NrPending
    BY <2>1
  <2>3. key_f' \in Slots /\ key_f' = IF key_f + 1 = L THEN 0 ELSE key_f + 1
    BY <1>1, NextIndex DEF InputInv, TypeOK
  <2>4. (key_f' + i - 1) % L = IF key_f' + i - 1 < L THEN key_f' + i - 1 ELSE key_f' + i - 1 - L
    BY <2>2, <2>3, IndexOf
  <2>5. (key_f + (i + 1) - 1) % L =
          IF key_f + (i + 1) - 1 < L THEN key_f + (i + 1) - 1 ELSE key_f + (i + 1) - 1 - L
    BY <2>2, RingFacts, IndexOf
  <2>6. (key_f' + i - 1) % L = (key_f + (i + 1) - 1) % L
    <3> HIDE DEF L
    <3> QED
      BY <2>1, <2>2, <2>3, <2>4, <2>5
  <2> QED
    BY <2>2, <2>6 DEF InputInv, RingOK
<1> QED
  BY <1>3, <1>4, <1>5 DEF InputInv

LEMMA ReaderUnlockPreserves == InputInv /\ reader_unlock => InputInv'
<1> SUFFICES ASSUME InputInv, reader_unlock PROVE InputInv'
  OBVIOUS
<1>1. /\ UNCHANGED <<sdl, posted, queueVars, threadVars, irq, k>>
      /\ reader = "unlock" /\ reader' = "call" /\ key_queue_lock' = "free" /\ kbd' = k
  BY DEF reader_unlock
<1>2. TypeOK'
  BY <1>1 DEF InputInv, TypeOK, queueVars, threadVars
<1>3. RingOK'
  BY <1>1, RingUnchanged
<1>4. thread \notin {"slot", "rear", "unlock"}
  BY <1>1 DEF InputInv, LockOK
<1> QED
  BY <1>1, <1>2, <1>3, <1>4 DEF InputInv, LockOK, SlotOK, ReadOK, queueVars, threadVars

LEMMA InputInvNext == InputInv /\ [Next]_vars => InputInv'
<1> SUFFICES ASSUME InputInv, [Next]_vars PROVE InputInv'
  OBVIOUS
<1>1. CASE Next
  BY <1>1, PostPreserves, InterruptPreserves, WaitPreserves, ThreadLockPreserves,
     SlotPreserves, RearPreserves, UnlockPreserves, ReaderLockPreserves,
     ReaderTestPreserves, ReaderFrontPreserves, ReaderUnlockPreserves
     DEF Next, Thread, Reader
<1>2. CASE UNCHANGED vars
  <2>1. RingOK'
    BY <1>2, RingUnchanged DEF vars
  <2> QED
    BY <1>2, <2>1 DEF InputInv, TypeOK, LockOK, SlotOK, ReadOK, vars, queueVars,
                      threadVars, readerVars
<1> QED
  BY <1>1, <1>2

\* The ring's indices and codes, the mutex and the two threads keep their types,
\* however the threads interleave.
THEOREM InputTypeCorrect == Spec => []TypeOK
<1>1. InputInv => TypeOK
  BY DEF InputInv
<1> QED
  BY InputInvInit, InputInvNext, <1>1, PTL DEF Spec

-----------------------------------------------------------------------------
(***************************************************************************)
(* The refinement: a key that the reader has taken from the ring counts as *)
(* pending until the mutex is released.                                    *)
(***************************************************************************)
fifo == (IF Taken THEN <<k>> ELSE <<>>) \o Pending

\* While no key is taken, the queue is the ring's pending keys.
LEMMA FifoIsPending ==
  ASSUME InputInv, ~Taken
  PROVE  fifo = Pending
<1>1. <<>> \o Pending = Pending
  BY RingFacts
<1> QED
  BY <1>1 DEF fifo

\* Steps that change neither the ring, nor the reader, stutter.
LEMMA OthersStutter ==
  ASSUME InputInv, UNCHANGED <<queueVars, readerVars>>
  PROVE  UNCHANGED <<fifo, kbd>>
<1>1. Pending' = Pending
  BY RingUnchanged
<1> QED
  BY <1>1 DEF fifo, Taken, readerVars

\* thread_rear is the abstract Put.
LEMMA RearPuts ==
  ASSUME InputInv, InputInv', thread_rear
  PROVE  Fifo!Next
<1>1. reader = "call" /\ reader' = reader /\ k' = k /\ kbd' = kbd /\ am_code \in Codes
  BY DEF thread_rear, InputInv, LockOK, SlotOK, readerVars
<1>2. fifo = Pending /\ fifo' = Pending'
  <2>1. ~Taken /\ ~Taken'
    BY <1>1 DEF Taken
  <2>2. fifo = Pending
    BY <2>1, FifoIsPending
  <2>3. fifo' = <<>> \o Pending'
    BY <2>1 DEF fifo
  <2>4. Pending' = <<>> \/ Pending' = Append(Pending, am_code)
    BY RearAppends
  <2>5. Pending' \in Seq(Nat)
    <3>1. am_code \in Nat
      BY <1>1, CodesAreKeys
    <3>2. <<>> \in Seq(Nat) /\ Append(Pending, am_code) \in Seq(Nat)
      BY <3>1, RingFacts
    <3> QED
      BY <2>4, <3>2
  <2> QED
    BY <2>2, <2>3, <2>5
<1>3. fifo' = IF Len(fifo) = KEY_QUEUE_LEN - 1 THEN <<>> ELSE Append(fifo, am_code)
  BY <1>2, RearAppends, RingFacts
<1>4. Fifo!Put(am_code)
  BY <1>1, <1>3 DEF Fifo!Put, fifo
<1> QED
  BY <1>1, <1>4 DEF Fifo!Next

\* Taking the mutex, looking at the ring and moving its front are invisible.
LEMMA ReaderStutters ==
  ASSUME InputInv, InputInv', reader_lock \/ reader_test \/ reader_front
  PROVE  UNCHANGED <<fifo, kbd>>
<1>1. CASE reader_lock \/ reader_test
  <2>1. kbd' = kbd /\ UNCHANGED queueVars
    BY <1>1 DEF reader_lock, reader_test
  <2>2. ~Taken /\ ~Taken'
    BY <1>1 DEF reader_lock, reader_test, Taken, after_empty, InputInv, ReadOK
  <2>3. Pending' = Pending
    BY <2>1, RingUnchanged
  <2> QED
    BY <2>1, <2>2, <2>3 DEF fifo
<1>2. CASE reader_front
  <2>1. kbd' = kbd /\ k' = k
    BY <1>2 DEF reader_front
  <2>2. ~Taken /\ Taken'
    BY <1>2 DEF reader_front, Taken, InputInv, ReadOK
  <2>3. fifo = Pending
    BY <2>2, FifoIsPending
  <2>4. fifo' = <<k>> \o Pending'
    BY <2>1, <2>2 DEF fifo
  <2> QED
    BY <1>2, <2>1, <2>3, <2>4, FrontRemoves
<1> QED
  BY <1>1, <1>2

\* Releasing the mutex is the abstract Get.
LEMMA UnlockGets ==
  ASSUME InputInv, InputInv', reader_unlock
  PROVE  Fifo!Next
<1>1. /\ reader = "unlock" /\ reader' = "call" /\ kbd' = k
      /\ UNCHANGED queueVars
  BY DEF reader_unlock
<1>2. Pending' = Pending /\ Pending \in Seq(Nat)
  BY <1>1, RingUnchanged, RingFacts
<1>3. fifo' = Pending
  <2>1. ~Taken'
    BY <1>1 DEF Taken
  <2>2. fifo' = <<>> \o Pending'
    BY <2>1 DEF fifo
  <2> QED
    BY <1>2, <2>2
<1>4. CASE Taken
  <2>1. fifo = <<k>> \o Pending /\ k \in Nat
    BY <1>4, CodesAreKeys DEF fifo, Taken, InputInv, TypeOK
  <2>2. fifo # <<>> /\ Head(fifo) = k /\ Tail(fifo) = Pending
    BY <2>1, <1>2
  <2> QED
    BY <1>1, <1>3, <2>2 DEF Fifo!Next, Fifo!Get, fifo
<1>5. CASE ~Taken
  <2>1. k = AM_KEY_NONE /\ key_f = key_r
    BY <1>1, <1>5 DEF Taken, InputInv, ReadOK
  <2>2. fifo = <<>> /\ Pending = <<>>
    BY <2>1, <1>2, <1>5, FifoIsPending, RingFacts
  <2> QED
    BY <1>1, <1>3, <2>1, <2>2 DEF Fifo!Next, Fifo!Get, fifo
<1> QED
  BY <1>4, <1>5

\* Two threads that fill and drain the ring of input.c in several steps each are,
\* to the program, the queue DropFifo: for every ring length and keymap.
THEOREM InputRefinesDropFifo == Spec => ImplementsDropFifo
<1>1. Init => Fifo!Init
  <2> SUFFICES ASSUME Init PROVE Fifo!Init
    OBVIOUS
  <2>1. InputInv /\ ~Taken /\ key_f = key_r
    BY InputInvInit DEF Init, Taken
  <2>2. fifo = <<>>
    BY <2>1, FifoIsPending, RingFacts
  <2> QED
    BY <2>2 DEF Init, Fifo!Init, fifo
<1>2. InputInv /\ InputInv' /\ [Next]_vars => [Fifo!Next]_(Fifo!vars)
  <2> SUFFICES ASSUME InputInv, InputInv', [Next]_vars PROVE [Fifo!Next]_(Fifo!vars)
    OBVIOUS
  <2>1. CASE thread_rear
    BY <2>1, RearPuts
  <2>2. CASE reader_unlock
    BY <2>2, UnlockGets
  <2>3. CASE reader_lock \/ reader_test \/ reader_front
    BY <2>3, ReaderStutters DEF Fifo!vars, fifo
  <2>4. CASE thread_slot
    <3>1. UNCHANGED readerVars
      BY <2>4 DEF thread_slot
    <3> QED
      BY <2>4, <3>1, SlotLeavesPending DEF Fifo!vars, Taken, readerVars
  <2>5. CASE post \/ interrupt \/ wait_event \/ thread_lock \/ thread_unlock \/ UNCHANGED vars
    <3>1. UNCHANGED <<queueVars, readerVars>>
      BY <2>5 DEF post, interrupt, wait_event, thread_lock, thread_unlock, vars
    <3> QED
      BY <3>1, OthersStutter DEF Fifo!vars, fifo
  <2> QED
    BY <2>1, <2>2, <2>3, <2>4, <2>5 DEF Next, Thread, Reader
<1> QED
  BY <1>1, <1>2, InputInvInit, InputInvNext, PTL DEF Spec, ImplementsDropFifo, Fifo!Spec

-----------------------------------------------------------------------------
(* Address spaces, with one processor.                                    *)

\* The lists and their flags are shared by all processors while what is mapped is each
\* process's own, so the property needs one processor; and a page mapped twice makes the
\* list of its space a ring.
OneProcessor == Cpu = {Boot} /\ Remaps = FALSE

\* A ranking numbers the pages of each space in the order they were mapped; it is the
\* witness of the invariant.
Ranking == [Space -> [Va -> Nat \ {0}]]
Pages(a) == DOMAIN node[a]

\* The list of a space leads from the page mapped last, down the ranks, to the first.
ListInv(r) == \A a \in Space :
  /\ \A va, w \in Pages(a) : r[a][va] = r[a][w] => va = w
  /\ \A va \in Pages(a) :
       IF r[a][va] = 1 THEN node[a][va].next = Nil
       ELSE node[a][va].next \in Pages(a) /\ r[a][node[a][va].next] = r[a][va] - 1
  /\ IF head[a] = Nil THEN Pages(a) = {}
     ELSE head[a] \in Pages(a) /\ \A va \in Pages(a) : r[a][va] <= r[a][head[a]]

\* The space whose pages are mapped, or being mapped or unmapped.
Current == IF at[Boot] = "map" THEN to[Boot] ELSE vm_head[Boot]
CursorInv == pp[Boot] # Nil => Current \in Space /\ pp[Boot] \in Pages(Current)

\* Pages the loop has still to come to, and pages that are mapped.
Ahead(r, a, va) == pp[Boot] # Nil /\ r[a][va] <= r[a][pp[Boot]]
In(r, a, va) ==
  /\ a = Current
  /\ at[Boot] = "unmap" => Ahead(r, a, va)
  /\ at[Boot] = "map" => ~Ahead(r, a, va)

\* The flags say what is mapped.
FlagInv(r) == \A a \in Space : \A va \in Pages(a) : node[a][va].is_mapped <=> In(r, a, va)
PageInv(r) == \A va \in Va :
  mapped[Boot][va] = IF Current # Nil /\ va \in Pages(Current) /\ In(r, Current, va)
                     THEN node[Current][va].pa ELSE Nil

VmeInv(r) == ListInv(r) /\ CursorInv /\ FlagInv(r) /\ PageInv(r)
Indexed == DOMAIN node = Space
VmeIInv == VmeTypeOK /\ Indexed /\ \E r \in Ranking : VmeInv(r)

LEMMA VmeInitInv == VmeInit => VmeIInv
<1> SUFFICES ASSUME VmeInit PROVE VmeIInv
  OBVIOUS
<1>1. PICK r : r \in Ranking
  <2>1. [a \in Space |-> [va \in Va |-> 1]] \in Ranking
    BY DEF Ranking
  <2> QED
    BY <2>1
<1>2. \A a \in Space : Pages(a) = {} /\ node[a] \in [Pages(a) -> Node]
  BY DEF VmeInit, Pages
<1>3. Boot \in Cpu
  BY VmeAssumption
<1>4. at[Boot] = "run" /\ pp[Boot] = Nil /\ vm_head[Boot] = Nil /\ Current = Nil
  BY <1>3 DEF VmeInit, Current
<1>5. ListInv(r) /\ CursorInv /\ FlagInv(r) /\ PageInv(r)
  BY <1>2, <1>3, <1>4 DEF VmeInit, ListInv, CursorInv, FlagInv, PageInv
<1>6. VmeTypeOK
  BY <1>2 DEF VmeInit, VmeTypeOK, Pages
<1> QED
  BY <1>1, <1>5, <1>6 DEF VmeIInv, VmeInv, VmeInit, Indexed

\* What a step does to one node.
LEMMA NodeTypes ==
  ASSUME VmeTypeOK, NEW a \in Space, NEW va \in Pages(a)
  PROVE  /\ va \in Va /\ node[a][va] \in Node /\ node[a][va].pa \in Frame
         /\ node[a][va].next \in Va \cup {Nil} /\ node[a][va].is_mapped \in BOOLEAN
<1>1. Pages(a) \subseteq Va /\ node[a] \in [Pages(a) -> Node]
  BY DEF VmeTypeOK, Pages
<1> QED
  BY <1>1 DEF Node

\* A loop's turn changes the flag of one node.
LEMMA Flags ==
  ASSUME VmeTypeOK, Indexed, NEW a \in Space, NEW va \in Pages(a), NEW b \in BOOLEAN,
         node' = [node EXCEPT ![a][va].is_mapped = b]
  PROVE  /\ Indexed'
         /\ \A s \in Space : Pages(s)' = Pages(s) /\ node'[s] \in [Pages(s) -> Node]
         /\ \A s \in Space : \A w \in Pages(s) :
              /\ node'[s][w].pa = node[s][w].pa /\ node'[s][w].next = node[s][w].next
              /\ node'[s][w].is_mapped = IF s = a /\ w = va THEN b ELSE node[s][w].is_mapped
<1>1. \A s \in Space : node[s] \in [Pages(s) -> Node]
  BY DEF VmeTypeOK, Pages
<1> DEFINE nd == [node[a][va] EXCEPT !.is_mapped = b]
<1>2. nd \in Node /\ nd.pa = node[a][va].pa /\ nd.next = node[a][va].next /\ nd.is_mapped = b
  BY <1>1 DEF Node
<1>3. node' = [node EXCEPT ![a] = [node[a] EXCEPT ![va] = nd]]
  BY DEF Indexed
<1> HIDE DEF nd
<1>4. \A s \in Space : node'[s] = IF s = a THEN [node[a] EXCEPT ![va] = nd] ELSE node[s]
  BY <1>3 DEF Indexed
<1>5. \A s \in Space : DOMAIN node'[s] = Pages(s) /\ node'[s] \in [Pages(s) -> Node]
  BY <1>1, <1>2, <1>4
<1>6. Indexed'
  BY <1>3 DEF Indexed
<1>7. ASSUME NEW s \in Space, NEW w \in Pages(s)
      PROVE  node'[s][w] = IF s = a /\ w = va THEN nd ELSE node[s][w]
  BY <1>1, <1>4
<1>8. \A s \in Space : Pages(s)' = Pages(s)
  BY <1>5 DEF Pages
<1> QED
  BY <1>2, <1>5, <1>6, <1>7, <1>8

LEMMA Loop ==
  ASSUME VmeTypeOK, Indexed, NEW r \in Ranking, VmeInv(r), pp[Boot] # Nil
  PROVE  /\ Current \in Space /\ pp[Boot] \in Pages(Current) /\ pp[Boot] \in Va
         /\ advance(Current, pp[Boot]) \in Va \cup {Nil}
         /\ LET n == advance(Current, pp[Boot]) IN
            /\ n # Nil => n \in Pages(Current)
            /\ \A va \in Pages(Current) :
                 (n # Nil /\ r[Current][va] <= r[Current][n]) <=> Ahead(r, Current, va) /\ va # pp[Boot]
<1>0. PICK a \in Space : a = Current
  BY DEF VmeInv, CursorInv
<1>1. PICK v \in Pages(a) : a = Current /\ v = pp[Boot]
  BY <1>0 DEF VmeInv, CursorInv
<1>2. PICK n : n = node[a][v].next
  OBVIOUS
<1>3. v \in Va /\ n \in Va \cup {Nil} /\ Nil \notin Va /\ Pages(a) \subseteq Va
  BY <1>2, NodeTypes, VmeAssumption
<1>4. /\ \A x, w \in Pages(a) : r[a][x] = r[a][w] => x = w
      /\ IF r[a][v] = 1 THEN n = Nil ELSE n \in Pages(a) /\ r[a][n] = r[a][v] - 1
  BY <1>2 DEF VmeInv, ListInv
<1>5. \A x \in Pages(a) : r[a][x] \in Nat \ {0}
  BY <1>3 DEF Ranking
<1>6. ASSUME NEW x \in Pages(a)
      PROVE  (n # Nil /\ r[a][x] <= r[a][n]) <=> (r[a][x] <= r[a][v] /\ x # v)
  <2>1. CASE r[a][v] = 1
    BY <1>4, <1>5, <2>1
  <2>2. CASE r[a][v] # 1
    BY <1>3, <1>4, <1>5, <2>2
  <2> QED
    BY <2>1, <2>2
<1>7. n # Nil => n \in Pages(a)
  BY <1>4
<1>8. advance(Current, pp[Boot]) = n
  BY <1>1, <1>2 DEF advance
<1>9. \A x : Ahead(r, Current, x) <=> r[a][x] <= r[a][v]
  BY <1>1 DEF Ahead
<1> QED
  BY <1>1, <1>3, <1>6, <1>7, <1>8, <1>9

\* The lists are as before, but for the flags.
LEMMA ListKept ==
  ASSUME NEW r \in Ranking, ListInv(r), head' = head,
         \A s \in Space : Pages(s)' = Pages(s)
           /\ \A w \in Pages(s) : node'[s][w].next = node[s][w].next
  PROVE  ListInv(r)'
BY DEF ListInv

LEMMA UnmapPage ==
  ASSUME VmeTypeOK, Indexed, NEW r \in Ranking, VmeInv(r), Cpu = {Boot}, unmap_page(Boot)
  PROVE  VmeTypeOK' /\ Indexed' /\ VmeInv(r)'
<1>1. PICK a, v : a = vm_head[Boot] /\ v = pp[Boot]
  OBVIOUS
<1>2. /\ at[Boot] = "unmap" /\ v # Nil /\ Current = a /\ Boot \in Cpu
      /\ UNCHANGED <<at, to, vm_head, head>> /\ pp' = [pp EXCEPT ![Boot] = advance(a, v)]
      /\ IF unmaps(node[a][v])
           THEN pmem_unmap(Boot, v) /\ node' = [node EXCEPT ![a][v].is_mapped = FALSE]
           ELSE UNCHANGED <<mapped, node>>
  BY <1>1, VmeAssumption DEF unmap_page, Current
<1>3. PICK n : n = advance(a, v)
  OBVIOUS
<1>4. /\ a \in Space /\ v \in Pages(a) /\ v \in Va /\ n \in Va \cup {Nil} /\ (n # Nil => n \in Pages(a))
      /\ \A x \in Pages(a) : (n # Nil /\ r[a][x] <= r[a][n]) <=> Ahead(r, a, x) /\ x # v
  BY <1>1, <1>2, <1>3, Loop
<1>5. node[a][v].is_mapped /\ Ahead(r, a, v)
  <2>1. r[a][v] \in Nat
    BY <1>4 DEF Ranking
  <2>2. Ahead(r, a, v)
    BY <1>1, <1>2, <2>1 DEF Ahead
  <2> QED
    BY <1>2, <1>4, <2>2 DEF VmeInv, FlagInv, In
<1>6. node' = [node EXCEPT ![a][v].is_mapped = FALSE] /\ mapped' = [mapped EXCEPT ![Boot][v] = Nil]
  BY <1>2, <1>5 DEF unmaps, pmem_unmap
<1>7. /\ Indexed'
      /\ \A s \in Space : Pages(s)' = Pages(s) /\ node'[s] \in [Pages(s) -> Node]
      /\ \A s \in Space : \A w \in Pages(s) :
           /\ node'[s][w].pa = node[s][w].pa /\ node'[s][w].next = node[s][w].next
           /\ node'[s][w].is_mapped = IF s = a /\ w = v THEN FALSE ELSE node[s][w].is_mapped
  BY <1>4, <1>6, Flags
<1>8. /\ mapped' \in [Cpu -> [Va -> Frame \cup {Nil}]]
      /\ \A w \in Va : mapped'[Boot][w] = IF w = v THEN Nil ELSE mapped[Boot][w]
  BY <1>2, <1>4, <1>6 DEF VmeTypeOK
<1>9. pp' \in [Cpu -> Va \cup {Nil}] /\ pp'[Boot] = n
  BY <1>2, <1>3, <1>4 DEF VmeTypeOK
<1>10. VmeTypeOK'
  <2>1. \A c \in Cpu : at'[c] = "run" => pp'[c] = Nil
    BY <1>2
  <2>2. \A s \in Space : DOMAIN node'[s] \subseteq Va /\ node'[s] \in [DOMAIN node'[s] -> Node]
    BY <1>7 DEF VmeTypeOK, Pages
  <2> QED
    BY <1>2, <1>8, <1>9, <2>1, <2>2 DEF VmeTypeOK
<1>11. ListInv(r)'
  BY <1>2, <1>7, ListKept DEF VmeInv
<1>12. Current' = a
  BY <1>1, <1>2 DEF Current
<1>13. CursorInv'
  BY <1>4, <1>7, <1>9, <1>12 DEF CursorInv
<1>14. \A s \in Space : \A x \in Pages(s) : In(r, s, x)' <=> In(r, s, x) /\ ~(s = a /\ x = v)
  <2>1. \A x \in Pages(a) : Ahead(r, a, x)' <=> Ahead(r, a, x) /\ x # v
    BY <1>4, <1>9 DEF Ahead
  <2> QED
    BY <1>2, <1>12, <2>1 DEF In
<1>15. FlagInv(r)'
  <2> SUFFICES ASSUME NEW s \in Space, NEW x \in Pages(s)
               PROVE  node'[s][x].is_mapped <=> In(r, s, x)'
    BY <1>7 DEF FlagInv
  <2>1. (node[s][x].is_mapped <=> In(r, s, x)) /\ node[s][x].is_mapped \in BOOLEAN
    BY NodeTypes DEF VmeInv, FlagInv
  <2>2. CASE s = a /\ x = v
    <3>1. node'[s][x].is_mapped = FALSE
      BY <1>7, <2>2
    <3>2. In(r, s, x)' <=> FALSE
      BY <1>14, <2>2
    <3> QED
      BY <3>1, <3>2
  <2>3. CASE ~(s = a /\ x = v)
    <3>1. node'[s][x].is_mapped = node[s][x].is_mapped
      BY <1>7, <2>3
    <3>2. In(r, s, x)' <=> In(r, s, x)
      BY <1>14, <2>3
    <3> QED
      BY <2>1, <3>1, <3>2
  <2> QED
    BY <2>2, <2>3
<1>16. PageInv(r)'
  <2> SUFFICES ASSUME NEW w \in Va
               PROVE  mapped'[Boot][w] = IF a # Nil /\ w \in Pages(a) /\ In(r, a, w)'
                                         THEN node'[a][w].pa ELSE Nil
    BY <1>4, <1>7, <1>12 DEF PageInv
  <2>1. mapped[Boot][w] = IF a # Nil /\ w \in Pages(a) /\ In(r, a, w) THEN node[a][w].pa ELSE Nil
    BY <1>2 DEF VmeInv, PageInv
  <2>2. w \in Pages(a) => (In(r, a, w)' <=> In(r, a, w) /\ w # v) /\ node'[a][w].pa = node[a][w].pa
    BY <1>4, <1>7, <1>14
  <2> QED
    BY <1>8, <2>1, <2>2
<1> QED
  BY <1>7, <1>10, <1>11, <1>13, <1>15, <1>16 DEF VmeInv

LEMMA MapPage ==
  ASSUME VmeTypeOK, Indexed, NEW r \in Ranking, VmeInv(r), Cpu = {Boot}, map_page(Boot)
  PROVE  VmeTypeOK' /\ Indexed' /\ VmeInv(r)'
<1>1. PICK a, v : a = to[Boot] /\ v = pp[Boot]
  OBVIOUS
<1>2. /\ at[Boot] = "map" /\ v # Nil /\ Current = a /\ Boot \in Cpu
      /\ UNCHANGED <<at, to, vm_head, head>> /\ pp' = [pp EXCEPT ![Boot] = advance(a, v)]
      /\ mapped' = [mapped EXCEPT ![Boot][v] = node[a][v].pa]
      /\ node' = [node EXCEPT ![a][v] = flagged(@)]
  BY <1>1, VmeAssumption DEF map_page, pmem_map, Current
<1>3. PICK n : n = advance(a, v)
  OBVIOUS
<1>4. /\ a \in Space /\ v \in Pages(a) /\ v \in Va /\ n \in Va \cup {Nil} /\ (n # Nil => n \in Pages(a))
      /\ \A x \in Pages(a) : (n # Nil /\ r[a][x] <= r[a][n]) <=> Ahead(r, a, x) /\ x # v
  BY <1>1, <1>2, <1>3, Loop
<1>5. Ahead(r, a, v)
  <2>1. r[a][v] \in Nat
    BY <1>4 DEF Ranking
  <2> QED
    BY <1>1, <1>2, <2>1 DEF Ahead
<1>6. node' = [node EXCEPT ![a][v].is_mapped = TRUE]
  BY <1>2 DEF flagged
<1>7. /\ Indexed'
      /\ \A s \in Space : Pages(s)' = Pages(s) /\ node'[s] \in [Pages(s) -> Node]
      /\ \A s \in Space : \A w \in Pages(s) :
           /\ node'[s][w].pa = node[s][w].pa /\ node'[s][w].next = node[s][w].next
           /\ node'[s][w].is_mapped = IF s = a /\ w = v THEN TRUE ELSE node[s][w].is_mapped
  BY <1>4, <1>6, Flags
<1>8. /\ node[a][v].pa \in Frame /\ mapped' \in [Cpu -> [Va -> Frame \cup {Nil}]]
      /\ \A w \in Va : mapped'[Boot][w] = IF w = v THEN node[a][v].pa ELSE mapped[Boot][w]
  <2>1. node[a][v].pa \in Frame
    BY <1>4, NodeTypes
  <2> QED
    BY <1>2, <1>4, <2>1 DEF VmeTypeOK
<1>9. pp' \in [Cpu -> Va \cup {Nil}] /\ pp'[Boot] = n
  BY <1>2, <1>3, <1>4 DEF VmeTypeOK
<1>10. VmeTypeOK'
  <2>1. \A c \in Cpu : at'[c] = "run" => pp'[c] = Nil
    BY <1>2
  <2>2. \A s \in Space : DOMAIN node'[s] \subseteq Va /\ node'[s] \in [DOMAIN node'[s] -> Node]
    BY <1>7 DEF VmeTypeOK, Pages
  <2> QED
    BY <1>2, <1>8, <1>9, <2>1, <2>2 DEF VmeTypeOK
<1>11. ListInv(r)'
  BY <1>2, <1>7, ListKept DEF VmeInv
<1>12. Current' = a
  BY <1>1, <1>2 DEF Current
<1>13. CursorInv'
  BY <1>4, <1>7, <1>9, <1>12 DEF CursorInv
<1>14. \A s \in Space : \A x \in Pages(s) : In(r, s, x)' <=> In(r, s, x) \/ (s = a /\ x = v)
  <2>1. \A x \in Pages(a) : Ahead(r, a, x)' <=> Ahead(r, a, x) /\ x # v
    BY <1>4, <1>9 DEF Ahead
  <2> QED
    BY <1>2, <1>12, <2>1 DEF In
<1>15. FlagInv(r)'
  <2> SUFFICES ASSUME NEW s \in Space, NEW x \in Pages(s)
               PROVE  node'[s][x].is_mapped <=> In(r, s, x)'
    BY <1>7 DEF FlagInv
  <2>1. (node[s][x].is_mapped <=> In(r, s, x)) /\ node[s][x].is_mapped \in BOOLEAN
    BY NodeTypes DEF VmeInv, FlagInv
  <2>2. CASE s = a /\ x = v
    <3>1. node'[s][x].is_mapped = TRUE
      BY <1>7, <2>2
    <3>2. In(r, s, x)' <=> TRUE
      BY <1>14, <2>2
    <3> QED
      BY <3>1, <3>2
  <2>3. CASE ~(s = a /\ x = v)
    <3>1. node'[s][x].is_mapped = node[s][x].is_mapped
      BY <1>7, <2>3
    <3>2. In(r, s, x)' <=> In(r, s, x)
      BY <1>14, <2>3
    <3> QED
      BY <2>1, <3>1, <3>2
  <2> QED
    BY <2>2, <2>3
<1>16. PageInv(r)'
  <2> SUFFICES ASSUME NEW w \in Va
               PROVE  mapped'[Boot][w] = IF a # Nil /\ w \in Pages(a) /\ In(r, a, w)'
                                         THEN node'[a][w].pa ELSE Nil
    BY <1>4, <1>7, <1>12 DEF PageInv
  <2>1. mapped[Boot][w] = IF a # Nil /\ w \in Pages(a) /\ In(r, a, w) THEN node[a][w].pa ELSE Nil
    BY <1>2 DEF VmeInv, PageInv
  <2>2. w \in Pages(a) => (In(r, a, w)' <=> In(r, a, w) \/ w = v) /\ node'[a][w].pa = node[a][w].pa
    BY <1>4, <1>7, <1>14
  <2>3. a # Nil
    BY <1>4, VmeAssumption
  <2> QED
    BY <1>4, <1>8, <2>1, <2>2, <2>3
<1> QED
  BY <1>7, <1>10, <1>11, <1>13, <1>15, <1>16 DEF VmeInv

\* Steps that change neither lists nor what is mapped: the flags and the pages stay as
\* they were when In does.
LEMMA ControlStep ==
  ASSUME VmeTypeOK, Indexed, NEW r \in Ranking, VmeInv(r),
         UNCHANGED <<head, node, mapped>>, CursorInv', Current' \in Space \cup {Nil},
         \A s \in Space : \A x \in Pages(s) : In(r, s, x)' <=> In(r, s, x)
  PROVE  Indexed' /\ VmeInv(r)'
<1>1. \A s : Pages(s)' = Pages(s)
  BY DEF Pages
<1>2. ListInv(r)' /\ Indexed' /\ FlagInv(r)'
  BY <1>1, ListKept DEF VmeInv, FlagInv, Indexed
<1>3. \A s : (\E x \in Pages(s) : In(r, s, x)) => s = Current
  BY DEF In
<1>4. \A s : (\E x \in Pages(s) : In(r, s, x)') => s = Current'
  BY DEF In
<1>5. ASSUME NEW w \in Va
      PROVE  mapped'[Boot][w] = (IF Current # Nil /\ w \in Pages(Current) /\ In(r, Current, w)
                                 THEN node[Current][w].pa ELSE Nil)'
  <2>1. mapped[Boot][w] = IF Current # Nil /\ w \in Pages(Current) /\ In(r, Current, w)
                          THEN node[Current][w].pa ELSE Nil
    BY DEF VmeInv, PageInv
  <2>2. Current \in Space \cup {Nil}
    BY VmeAssumption DEF VmeTypeOK, Current
  <2>3. PICK p, q : p = Current /\ q = Current'
    OBVIOUS
  <2>4. (\A x \in Pages(p) : In(r, p, x)' <=> In(r, p, x)) \/ p = Nil
    BY <2>2, <2>3
  <2>5. (\A x \in Pages(q) : In(r, q, x)' <=> In(r, q, x)) \/ q = Nil
    BY <2>3
  <2>6. /\ (\E x \in Pages(p) : In(r, p, x)') => p = q
        /\ (\E x \in Pages(q) : In(r, q, x)) => q = p
    BY <1>1, <1>3, <1>4, <2>3
  <2>7. (IF p # Nil /\ w \in Pages(p) /\ In(r, p, w) THEN node[p][w].pa ELSE Nil)
        = (IF q # Nil /\ w \in Pages(q) /\ In(r, q, w)' THEN node[q][w].pa ELSE Nil)
    BY <2>4, <2>5, <2>6
  <2>8. mapped[Boot][w] = IF p # Nil /\ w \in Pages(p) /\ In(r, p, w) THEN node[p][w].pa ELSE Nil
    BY <2>1, <2>3
  <2>9. In(r, q, w)' <=> In(r, Current, w)'
    BY <2>3
  <2> QED
    BY <1>1, <2>3, <2>7, <2>8, <2>9
<1>6. PageInv(r)'
  BY <1>5 DEF PageInv
<1> QED
  BY <1>2, <1>6 DEF VmeInv


LEMMA SwitchStart ==
  ASSUME VmeTypeOK, Indexed, NEW r \in Ranking, VmeInv(r), Cpu = {Boot},
         NEW d \in Space \cup {Nil}, switch(Boot, d)
  PROVE  VmeTypeOK' /\ Indexed' /\ VmeInv(r)'
<1>1. PICK a \in Space \cup {Nil} : a = vm_head[Boot]
  BY VmeAssumption DEF VmeTypeOK
<1>2. /\ at[Boot] = "run" /\ pp[Boot] = Nil /\ Boot \in Cpu
      /\ at' = [at EXCEPT ![Boot] = "unmap"] /\ to' = [to EXCEPT ![Boot] = d]
      /\ pp' = [pp EXCEPT ![Boot] = HeadOf(a)]
      /\ UNCHANGED <<vm_head, head, node, mapped>>
  BY <1>1, VmeAssumption DEF switch, VmeTypeOK
<1>3. HeadOf(a) \in Va \cup {Nil}
  BY <1>1 DEF HeadOf, VmeTypeOK
<1>4. at'[Boot] = "unmap" /\ pp'[Boot] = HeadOf(a) /\ Current = a /\ Current' = a
  BY <1>1, <1>2 DEF VmeTypeOK, Current
<1>5. VmeTypeOK'
  <2>1. \A s \in Space : DOMAIN node'[s] \subseteq Va /\ node'[s] \in [DOMAIN node'[s] -> Node]
    BY <1>2 DEF VmeTypeOK
  <2>2. \A c \in Cpu : at'[c] = "run" => pp'[c] = Nil
    BY <1>4
  <2> QED
    BY <1>2, <1>3, <2>1, <2>2 DEF VmeTypeOK
<1>6. a \in Space => IF HeadOf(a) = Nil THEN Pages(a) = {}
                     ELSE HeadOf(a) \in Pages(a) /\ \A x \in Pages(a) : r[a][x] <= r[a][HeadOf(a)]
  BY VmeAssumption DEF VmeInv, ListInv, HeadOf
<1>7. a = Nil => HeadOf(a) = Nil
  BY DEF HeadOf
<1>8. CursorInv'
  BY <1>1, <1>2, <1>4, <1>6, <1>7 DEF CursorInv, Pages
<1>9. \A s \in Space : \A x \in Pages(s) : In(r, s, x)' <=> In(r, s, x)
  <2> SUFFICES ASSUME NEW s \in Space, NEW x \in Pages(s), s = a PROVE In(r, s, x)' <=> In(r, s, x)
    BY <1>4 DEF In
  <2>1. Ahead(r, s, x)'
    BY <1>4, <1>6 DEF Ahead
  <2> QED
    BY <1>2, <1>4, <2>1 DEF In
<1> QED
  BY <1>1, <1>2, <1>4, <1>5, <1>8, <1>9, ControlStep

LEMMA UnmapDone ==
  ASSUME VmeTypeOK, Indexed, NEW r \in Ranking, VmeInv(r), Cpu = {Boot}, unmap_done(Boot)
  PROVE  VmeTypeOK' /\ Indexed' /\ VmeInv(r)'
<1>1. PICK d \in Space \cup {Nil} : d = to[Boot]
  BY VmeAssumption DEF VmeTypeOK
<1>2. /\ at[Boot] = "unmap" /\ pp[Boot] = Nil /\ Boot \in Cpu
      /\ at' = [at EXCEPT ![Boot] = "map"] /\ pp' = [pp EXCEPT ![Boot] = HeadOf(d)]
      /\ UNCHANGED <<to, vm_head, head, node, mapped>>
  BY <1>1, VmeAssumption DEF unmap_done
<1>3. HeadOf(d) \in Va \cup {Nil}
  BY <1>1 DEF HeadOf, VmeTypeOK
<1>4. at'[Boot] = "map" /\ pp'[Boot] = HeadOf(d) /\ Current' = d
  BY <1>1, <1>2 DEF VmeTypeOK, Current
<1>5. VmeTypeOK'
  <2>1. \A s \in Space : DOMAIN node'[s] \subseteq Va /\ node'[s] \in [DOMAIN node'[s] -> Node]
    BY <1>2 DEF VmeTypeOK
  <2>2. \A c \in Cpu : at'[c] = "run" => pp'[c] = Nil
    BY <1>4
  <2> QED
    BY <1>2, <1>3, <2>1, <2>2 DEF VmeTypeOK
<1>6. d \in Space => IF HeadOf(d) = Nil THEN Pages(d) = {}
                     ELSE HeadOf(d) \in Pages(d) /\ \A x \in Pages(d) : r[d][x] <= r[d][HeadOf(d)]
  BY VmeAssumption DEF VmeInv, ListInv, HeadOf
<1>7. d = Nil => HeadOf(d) = Nil
  BY DEF HeadOf
<1>8. CursorInv'
  BY <1>1, <1>2, <1>4, <1>6, <1>7 DEF CursorInv, Pages
<1>9. \A s \in Space : \A x \in Pages(s) : In(r, s, x)' <=> In(r, s, x)
  <2> SUFFICES ASSUME NEW s \in Space, NEW x \in Pages(s) PROVE ~In(r, s, x)' /\ ~In(r, s, x)
    OBVIOUS
  <2>1. ~In(r, s, x)
    BY <1>2 DEF In, Ahead
  <2>2. s = d => Ahead(r, s, x)'
    BY <1>4, <1>6 DEF Ahead
  <2> QED
    BY <1>4, <2>1, <2>2 DEF In
<1> QED
  BY <1>1, <1>2, <1>4, <1>5, <1>8, <1>9, ControlStep

LEMMA SwitchEnd ==
  ASSUME VmeTypeOK, Indexed, NEW r \in Ranking, VmeInv(r), Cpu = {Boot}, switch_end(Boot)
  PROVE  VmeTypeOK' /\ Indexed' /\ VmeInv(r)'
<1>1. PICK d \in Space \cup {Nil} : d = to[Boot]
  BY VmeAssumption DEF VmeTypeOK
<1>2. /\ at[Boot] = "map" /\ pp[Boot] = Nil /\ Boot \in Cpu
      /\ at' = [at EXCEPT ![Boot] = "run"] /\ vm_head' = [vm_head EXCEPT ![Boot] = d]
      /\ UNCHANGED <<pp, to, head, node, mapped>>
  BY <1>1, VmeAssumption DEF switch_end, loop_left
<1>3. at'[Boot] = "run" /\ vm_head'[Boot] = d /\ Current = d /\ Current' = d /\ pp'[Boot] = Nil
  BY <1>1, <1>2 DEF VmeTypeOK, Current
<1>4. VmeTypeOK'
  <2>1. \A s \in Space : DOMAIN node'[s] \subseteq Va /\ node'[s] \in [DOMAIN node'[s] -> Node]
    BY <1>2 DEF VmeTypeOK
  <2>2. \A c \in Cpu : at'[c] = "run" => pp'[c] = Nil
    BY <1>3
  <2> QED
    BY <1>2, <2>1, <2>2 DEF VmeTypeOK
<1>5. CursorInv'
  BY <1>3 DEF CursorInv
<1>6. \A s \in Space : \A x \in Pages(s) : In(r, s, x)' <=> In(r, s, x)
  BY <1>2, <1>3 DEF In, Ahead
<1> QED
  BY <1>1, <1>2, <1>3, <1>4, <1>5, <1>6, ControlStep

\* The kernel maps a page that is not mapped yet: it gets the next rank.
LEMMA Map ==
  ASSUME VmeTypeOK, Indexed, NEW r \in Ranking, VmeInv(r), OneProcessor,
         NEW a \in Space, NEW va \in Va, NEW pa \in Frame, map(Boot, a, va, pa)
  PROVE  VmeTypeOK' /\ Indexed' /\ \E q \in Ranking : VmeInv(q)'
<1>1. PICK f \in BOOLEAN : f = enforced(Boot, a)
  BY DEF enforced
<1>2. PICK h \in Va \cup {Nil} : h = head[a]
  BY DEF VmeTypeOK
<1>3. PICK nd : nd = [pa |-> pa, next |-> h, is_mapped |-> f]
  OBVIOUS
<1>4. /\ nd \in Node /\ nd.pa = pa /\ nd.next = h /\ nd.is_mapped = f
      /\ at[Boot] = "run" /\ pp[Boot] = Nil /\ Boot \in Cpu /\ Cpu = {Boot}
      /\ va \notin Pages(a) /\ SetNode(a, va, nd) /\ head' = [head EXCEPT ![a] = va]
      /\ (f <=> Current = a)
      /\ IF f THEN mapped' = [mapped EXCEPT ![Boot][va] = pa] ELSE UNCHANGED mapped
      /\ UNCHANGED <<at, pp, to, vm_head>>
  BY <1>1, <1>2, <1>3, VmeAssumption DEF map, OneProcessor, pmem_map, enforced, VmeTypeOK, Node, Current, Pages
<1>5. \A s \in Space : Pages(s) \subseteq Va /\ node[s] \in [Pages(s) -> Node]
  BY DEF VmeTypeOK, Pages
<1>6. node' = [node EXCEPT ![a] = [v \in Pages(a) \cup {va} |-> IF v = va THEN nd ELSE node[a][v]]]
  BY <1>4 DEF SetNode, Pages
<1>7. /\ Indexed'
      /\ \A s \in Space : node'[s] = IF s = a THEN [v \in Pages(a) \cup {va} |-> IF v = va THEN nd ELSE node[a][v]]
                                      ELSE node[s]
  BY <1>6 DEF Indexed
<1>8. Pages(a)' = Pages(a) \cup {va} /\ \A s \in Space \ {a} : Pages(s)' = Pages(s) /\ node'[s] = node[s]
  BY <1>7 DEF Pages
<1>9. node'[a][va] = nd /\ \A v \in Pages(a) : node'[a][v] = node[a][v]
  BY <1>4, <1>7
<1>10. \A s \in Space : DOMAIN node'[s] \subseteq Va /\ node'[s] \in [DOMAIN node'[s] -> Node]
  <2>1. [v \in Pages(a) \cup {va} |-> IF v = va THEN nd ELSE node[a][v]] \in [Pages(a) \cup {va} -> Node]
    BY <1>4, <1>5
  <2>2. node'[a] \in [Pages(a)' -> Node] /\ Pages(a)' \subseteq Va
    BY <1>5, <1>7, <1>8, <2>1
  <2>3. \A s \in Space \ {a} : node'[s] \in [Pages(s)' -> Node] /\ Pages(s)' \subseteq Va
    BY <1>5, <1>8
  <2> QED
    BY <2>2, <2>3 DEF Pages
<1>11. VmeTypeOK'
  <2>1. mapped' \in [Cpu -> [Va -> Frame \cup {Nil}]]
    BY <1>4 DEF VmeTypeOK
  <2>2. head' \in [Space -> Va \cup {Nil}]
    BY <1>4 DEF VmeTypeOK
  <2> QED
    BY <1>4, <1>10, <2>1, <2>2 DEF VmeTypeOK
<1>12. PICK m \in Nat \ {0} : m = IF h = Nil THEN 1 ELSE r[a][h] + 1
  BY DEF Ranking
<1>13. PICK q : q = [r EXCEPT ![a] = [r[a] EXCEPT ![va] = m]]
  OBVIOUS
<1>14. /\ q \in Ranking /\ q[a][va] = m
       /\ \A v \in Pages(a) : q[a][v] = r[a][v]
       /\ \A s \in Space \ {a} : q[s] = r[s]
  BY <1>4, <1>5, <1>13 DEF Ranking
<1>15. \A s \in Space : \A v \in Pages(s) : r[s][v] \in Nat \ {0}
  BY <1>5 DEF Ranking
<1>16. IF h = Nil THEN Pages(a) = {} ELSE h \in Pages(a) /\ \A v \in Pages(a) : r[a][v] <= r[a][h]
  BY <1>2 DEF VmeInv, ListInv
<1>17. \A v \in Pages(a) : r[a][v] < m /\ v # va
  BY <1>4, <1>12, <1>15, <1>16
<1>18. ListInv(q)'
  <2>1. ASSUME NEW s \in Space \ {a}
        PROVE  /\ \A v, w \in Pages(s)' : q[s][v] = q[s][w] => v = w
               /\ \A v \in Pages(s)' :
                    IF q[s][v] = 1 THEN node'[s][v].next = Nil
                    ELSE node'[s][v].next \in Pages(s)' /\ q[s][node'[s][v].next] = q[s][v] - 1
               /\ IF head'[s] = Nil THEN Pages(s)' = {}
                  ELSE head'[s] \in Pages(s)' /\ \A v \in Pages(s)' : q[s][v] <= q[s][head'[s]]
    <3>1. head'[s] = head[s]
      BY <1>4 DEF VmeTypeOK
    <3> QED
      BY <1>8, <1>14, <3>1 DEF VmeInv, ListInv
  <2>2. \A v, w \in Pages(a)' : q[a][v] = q[a][w] => v = w
    BY <1>8, <1>14, <1>15, <1>17 DEF VmeInv, ListInv
  <2>3. ASSUME NEW v \in Pages(a)
        PROVE  IF q[a][v] = 1 THEN node'[a][v].next = Nil
               ELSE node'[a][v].next \in Pages(a)' /\ q[a][node'[a][v].next] = q[a][v] - 1
    <3>1. IF r[a][v] = 1 THEN node[a][v].next = Nil
          ELSE node[a][v].next \in Pages(a) /\ r[a][node[a][v].next] = r[a][v] - 1
      BY DEF VmeInv, ListInv
    <3> QED
      BY <1>8, <1>9, <1>14, <3>1
  <2>4. IF q[a][va] = 1 THEN node'[a][va].next = Nil
        ELSE node'[a][va].next \in Pages(a)' /\ q[a][node'[a][va].next] = q[a][va] - 1
    BY <1>4, <1>8, <1>9, <1>12, <1>14, <1>15, <1>16
  <2>5. head'[a] = va /\ va # Nil
    BY <1>4, VmeAssumption DEF VmeTypeOK
  <2>6. \A v \in Pages(a)' : q[a][v] <= q[a][va]
    BY <1>8, <1>12, <1>14, <1>15, <1>17
  <2> QED
    BY <1>8, <2>1, <2>2, <2>3, <2>4, <2>5, <2>6 DEF ListInv
<1>19. Current' = Current /\ at'[Boot] = "run" /\ pp'[Boot] = Nil
  BY <1>4 DEF Current
<1>20. CursorInv'
  BY <1>19 DEF CursorInv
<1>21. \A s, v : (In(r, s, v) <=> s = Current) /\ (In(q, s, v)' <=> s = Current)
  BY <1>4, <1>19 DEF In
<1>22. FlagInv(q)'
  <2>1. \A s \in Space \ {a} : \A v \in Pages(s)' : node'[s][v].is_mapped <=> s = Current
    BY <1>8, <1>21 DEF VmeInv, FlagInv
  <2>2. \A v \in Pages(a) : node'[a][v].is_mapped <=> a = Current
    BY <1>9, <1>21 DEF VmeInv, FlagInv
  <2>3. node'[a][va].is_mapped <=> a = Current
    BY <1>4, <1>9
  <2>4. \A s \in Space : \A v \in Pages(s)' : node'[s][v].is_mapped <=> s = Current
    BY <1>8, <2>1, <2>2, <2>3
  <2> QED
    BY <1>21, <2>4 DEF FlagInv
<1>23. PageInv(q)'
  <2>1. PICK c \in Space \cup {Nil} : c = Current
    BY <1>4 DEF Current, VmeTypeOK
  <2> SUFFICES ASSUME NEW w \in Va
               PROVE  mapped'[Boot][w] = IF c # Nil /\ w \in Pages(c)' THEN node'[c][w].pa ELSE Nil
    BY <1>19, <1>21, <2>1 DEF PageInv
  <2>2. mapped[Boot][w] = IF c # Nil /\ w \in Pages(c) THEN node[c][w].pa ELSE Nil
    BY <1>21, <2>1 DEF VmeInv, PageInv
  <2>3. CASE c = a
    <3>1. mapped'[Boot][w] = IF w = va THEN pa ELSE mapped[Boot][w]
      BY <1>4, <2>1, <2>3 DEF VmeTypeOK
    <3>2. a # Nil
      BY VmeAssumption
    <3> QED
      BY <1>4, <1>8, <1>9, <2>2, <2>3, <3>1, <3>2
  <2>4. CASE c # a
    BY <1>4, <1>8, <2>1, <2>2, <2>4
  <2> QED
    BY <2>3, <2>4
<1> QED
  BY <1>7, <1>11, <1>14, <1>18, <1>20, <1>22, <1>23 DEF VmeInv

LEMMA VmeNextInv == OneProcessor /\ VmeIInv /\ [VmeNext]_vmeVars => VmeIInv'
<1> SUFFICES ASSUME OneProcessor, VmeIInv, [VmeNext]_vmeVars PROVE VmeIInv'
  OBVIOUS
<1>1. PICK r \in Ranking : VmeInv(r)
  BY DEF VmeIInv
<1>2. VmeTypeOK /\ Indexed /\ Cpu = {Boot}
  BY DEF VmeIInv, OneProcessor
<1>3. CASE \E a \in Space, va \in Va, pa \in Frame : map(Boot, a, va, pa)
  BY <1>1, <1>2, <1>3, Map DEF VmeIInv
<1>4. CASE \E d \in Space \cup {Nil} : switch(Boot, d)
  BY <1>1, <1>2, <1>4, SwitchStart DEF VmeIInv
<1>5. CASE unmap_page(Boot)
  BY <1>1, <1>2, <1>5, UnmapPage DEF VmeIInv
<1>6. CASE unmap_done(Boot)
  BY <1>1, <1>2, <1>6, UnmapDone DEF VmeIInv
<1>7. CASE map_page(Boot)
  BY <1>1, <1>2, <1>7, MapPage DEF VmeIInv
<1>8. CASE switch_end(Boot)
  BY <1>1, <1>2, <1>8, SwitchEnd DEF VmeIInv
<1>9. CASE UNCHANGED vmeVars
  <2>1. VmeTypeOK' /\ Indexed'
    BY <1>2, <1>9 DEF vmeVars, VmeTypeOK, Indexed
  <2>2. VmeInv(r)'
    BY <1>1, <1>9 DEF vmeVars, VmeInv, ListInv, CursorInv, FlagInv, PageInv, Current, In, Ahead, Pages
  <2> QED
    BY <1>1, <2>1, <2>2 DEF VmeIInv
<1> QED
  BY <1>2, <1>3, <1>4, <1>5, <1>6, <1>7, <1>8, <1>9 DEF VmeNext, Switching

LEMMA VmeSees == OneProcessor /\ VmeIInv => SeesOwnSpace
<1> SUFFICES ASSUME OneProcessor, VmeIInv PROVE SeesOwnSpace
  OBVIOUS
<1>1. PICK r \in Ranking : VmeInv(r)
  BY DEF VmeIInv
<1>2. VmeTypeOK /\ Cpu = {Boot}
  BY DEF VmeIInv, OneProcessor
<1>3. ASSUME at[Boot] = "run", NEW va \in Va
      PROVE  mapped[Boot][va] = Contents(vm_head[Boot], va)
  <2>1. Current = vm_head[Boot] /\ In(r, Current, va)
    BY <1>3 DEF Current, In
  <2> QED
    BY <1>1, <2>1 DEF VmeInv, PageInv, Contents, Pages
<1> QED
  BY <1>2, <1>3 DEF SeesOwnSpace

\* With one processor that maps each page once, the processor sees the pages of the space
\* it runs and no other's, however map() and __am_switch follow each other.
THEOREM VmeSeesOwnSpace == OneProcessor => (VmeSpec => []SeesOwnSpace)
<1>1. OneProcessor /\ VmeIInv /\ [VmeNext]_vmeVars => VmeIInv'
  BY VmeNextInv
<1>2. OneProcessor /\ VmeIInv => SeesOwnSpace
  BY VmeSees
<1> SUFFICES ASSUME OneProcessor PROVE VmeSpec => []SeesOwnSpace
  OBVIOUS
<1>3. VmeIInv /\ [VmeNext]_vmeVars => VmeIInv'
  BY <1>1
<1>4. VmeIInv => SeesOwnSpace
  BY <1>2
<1> QED
  BY <1>3, <1>4, VmeInitInv, PTL DEF VmeSpec

-----------------------------------------------------------------------------
(* Address spaces, with any number of processors.                          *)

\* The list a processor walks, and that no pointer leads out of its list.
Walked(c) == IF at[c] = "map" THEN to[c] ELSE vm_head[c]
LinkInv == \A a \in Space :
  /\ head[a] # Nil => head[a] \in Pages(a)
  /\ \A v \in Pages(a) : node[a][v].next # Nil => node[a][v].next \in Pages(a)
WalkInv == \A c \in Cpu : pp[c] # Nil => Walked(c) \in Space /\ pp[c] \in Pages(Walked(c))
VmeTypeInv == VmeTypeOK /\ Indexed /\ LinkInv /\ WalkInv

\* Marking a page leaves the lists alone.
LEMMA FlagStep ==
  ASSUME VmeTypeInv, NEW c \in Cpu, NEW a \in Space, NEW v \in Pages(a),
         a = Walked(c), v = pp[c], at[c] # "run", pp' = [pp EXCEPT ![c] = advance(a, v)],
         mapped' \in [Cpu -> [Va -> Frame \cup {Nil}]], UNCHANGED <<at, to, vm_head, head>>,
         Indexed',
         \A s \in Space : Pages(s)' = Pages(s) /\ node'[s] \in [Pages(s) -> Node],
         \A s \in Space : \A w \in Pages(s) : node'[s][w].next = node[s][w].next
  PROVE  VmeTypeInv'
<1>1. VmeTypeOK /\ Indexed
  BY DEF VmeTypeInv
<1>2. PICK n \in Va \cup {Nil} : n = advance(a, v) /\ (n # Nil => n \in Pages(a))
  BY <1>1, NodeTypes DEF advance, VmeTypeInv, LinkInv
<1>3. /\ pp' \in [Cpu -> Va \cup {Nil}] /\ pp'[c] = n
      /\ \A d \in Cpu : d # c => pp'[d] = pp[d]
  BY <1>1, <1>2 DEF VmeTypeOK
<1>4. VmeTypeOK'
  <2>1. \A d \in Cpu : at'[d] = "run" => pp'[d] = Nil
    BY <1>1, <1>3 DEF VmeTypeOK
  <2>2. \A s \in Space : DOMAIN node'[s] \subseteq Va /\ node'[s] \in [DOMAIN node'[s] -> Node]
    BY <1>1 DEF VmeTypeOK, Pages
  <2> QED
    BY <1>1, <1>3, <2>1, <2>2 DEF VmeTypeOK
<1>5. LinkInv'
  BY DEF VmeTypeInv, LinkInv
<1>6. WalkInv'
  <2>1. \A d \in Cpu : Walked(d)' = Walked(d)
    BY DEF Walked
  <2> QED
    BY <1>2, <1>3, <2>1 DEF VmeTypeInv, WalkInv
<1> QED
  BY <1>4, <1>5, <1>6 DEF VmeTypeInv

\* Steps that change neither lists nor what is mapped.
LEMMA CursorStep ==
  ASSUME VmeTypeInv, UNCHANGED <<head, node, mapped>>, WalkInv',
         at' \in [Cpu -> {"run", "unmap", "map"}], pp' \in [Cpu -> Va \cup {Nil}],
         to' \in [Cpu -> Space \cup {Nil}], vm_head' \in [Cpu -> Space \cup {Nil}],
         \A c \in Cpu : at'[c] = "run" => pp'[c] = Nil
  PROVE  VmeTypeInv'
<1>1. VmeTypeOK'
  BY DEF VmeTypeInv, VmeTypeOK
<1>2. LinkInv' /\ Indexed'
  BY DEF VmeTypeInv, LinkInv, Indexed, Pages
<1> QED
  BY <1>1, <1>2 DEF VmeTypeInv

LEMMA MapTypes ==
  ASSUME VmeTypeInv, NEW c \in Cpu, NEW a \in Space, NEW va \in Va, NEW pa \in Frame,
         map(c, a, va, pa)
  PROVE  VmeTypeInv'
<1>1. PICK f \in BOOLEAN : f = enforced(c, a)
  BY DEF enforced
<1>2. PICK h \in Va \cup {Nil} : h = head[a]
  BY DEF VmeTypeInv, VmeTypeOK
<1>3. PICK nd : nd = [pa |-> pa, next |-> h, is_mapped |-> f]
  OBVIOUS
<1>4. /\ VmeTypeOK /\ Indexed /\ nd \in Node /\ nd.next = h
      /\ SetNode(a, va, nd) /\ head' = [head EXCEPT ![a] = va]
      /\ (mapped' = [mapped EXCEPT ![c][va] = pa]) \/ mapped' = mapped
      /\ UNCHANGED <<at, pp, to, vm_head>>
  BY <1>1, <1>2, <1>3 DEF map, pmem_map, VmeTypeInv, Node
<1>5. \A s \in Space : Pages(s) \subseteq Va /\ node[s] \in [Pages(s) -> Node]
  BY <1>4 DEF VmeTypeOK, Pages
<1>6. PICK g : g = [v \in Pages(a) \cup {va} |-> IF v = va THEN nd ELSE node[a][v]]
  OBVIOUS
<1>7. g \in [Pages(a) \cup {va} -> Node] /\ \A v \in Pages(a) \cup {va} : g[v] = IF v = va THEN nd ELSE node[a][v]
  BY <1>4, <1>5, <1>6
<1>8. Indexed' /\ \A s \in Space : node'[s] = IF s = a THEN g ELSE node[s]
  BY <1>4, <1>6 DEF SetNode, Pages, Indexed
<1>9. \A s \in Space : /\ Pages(s)' = IF s = a THEN Pages(a) \cup {va} ELSE Pages(s)
                       /\ Pages(s)' \subseteq Va /\ node'[s] \in [Pages(s)' -> Node]
  <2>1. Pages(a)' = Pages(a) \cup {va}
    BY <1>7, <1>8 DEF Pages
  <2>2. \A s \in Space : s # a => Pages(s)' = Pages(s)
    BY <1>8 DEF Pages
  <2> QED
    BY <1>5, <1>7, <1>8, <2>1, <2>2
<1>10. /\ head' \in [Space -> Va \cup {Nil}]
       /\ \A s \in Space : head'[s] = IF s = a THEN va ELSE head[s]
  BY <1>4 DEF VmeTypeOK
<1>11. VmeTypeOK'
  <2>1. mapped' \in [Cpu -> [Va -> Frame \cup {Nil}]]
    <3>1. mapped \in [Cpu -> [Va -> Frame \cup {Nil}]]
      BY <1>4 DEF VmeTypeOK
    <3> QED
      BY <1>4, <3>1
  <2>2. \A s \in Space : DOMAIN node'[s] \subseteq Va /\ node'[s] \in [DOMAIN node'[s] -> Node]
    BY <1>9 DEF Pages
  <2> QED
    BY <1>4, <1>10, <2>1, <2>2 DEF VmeTypeOK
<1>12. LinkInv'
  <2> SUFFICES ASSUME NEW s \in Space
               PROVE  /\ head'[s] # Nil => head'[s] \in Pages(s)'
                      /\ \A v \in Pages(s)' : node'[s][v].next # Nil => node'[s][v].next \in Pages(s)'
    BY DEF LinkInv
  <2>1. head[s] # Nil => head[s] \in Pages(s)
    BY DEF VmeTypeInv, LinkInv
  <2>2. \A v \in Pages(s) : node[s][v].next # Nil => node[s][v].next \in Pages(s)
    BY DEF VmeTypeInv, LinkInv
  <2>3. CASE s = a
    BY <1>2, <1>4, <1>7, <1>8, <1>9, <1>10, <2>1, <2>2, <2>3
  <2>4. CASE s # a
    BY <1>8, <1>9, <1>10, <2>1, <2>2, <2>4
  <2> QED
    BY <2>3, <2>4
<1>13. WalkInv'
  <2>1. \A d : Walked(d)' = Walked(d)
    BY <1>4 DEF Walked
  <2> QED
    BY <1>4, <1>9, <2>1 DEF VmeTypeInv, WalkInv
<1> QED
  BY <1>8, <1>11, <1>12, <1>13 DEF VmeTypeInv

LEMMA SwitchTypes ==
  ASSUME VmeTypeInv, NEW c \in Cpu,
         (\E a \in Space \cup {Nil} : switch(c, a)) \/ unmap_done(c) \/ switch_end(c)
  PROVE  VmeTypeInv'
<1>1. VmeTypeOK /\ LinkInv /\ WalkInv /\ \A d : Pages(d)' = DOMAIN node'[d]
  BY DEF VmeTypeInv, Pages
<1>2. ASSUME NEW a \in Space \cup {Nil}
      PROVE  HeadOf(a) \in Va \cup {Nil} /\ (HeadOf(a) # Nil => a \in Space /\ HeadOf(a) \in Pages(a))
  BY <1>1, <1>2 DEF HeadOf, VmeTypeOK, LinkInv
<1>3. ASSUME UNCHANGED <<vm_head, head, node, mapped>>, NEW a \in Space \cup {Nil},
             NEW l \in {"unmap", "map"}, at' = [at EXCEPT ![c] = l],
             a = IF l = "map" THEN to'[c] ELSE vm_head[c],
             to' \in [Cpu -> Space \cup {Nil}], \A d \in Cpu : d # c => to'[d] = to[d],
             pp' = [pp EXCEPT ![c] = HeadOf(a)]
      PROVE  VmeTypeInv'
  <2>1. /\ at' \in [Cpu -> {"run", "unmap", "map"}] /\ pp' \in [Cpu -> Va \cup {Nil}]
        /\ to' \in [Cpu -> Space \cup {Nil}] /\ vm_head' \in [Cpu -> Space \cup {Nil}]
    BY <1>1, <1>2, <1>3 DEF VmeTypeOK
  <2>2. /\ Walked(c)' = a /\ pp'[c] = HeadOf(a) /\ at'[c] # "run"
        /\ \A d \in Cpu : d # c => Walked(d)' = Walked(d) /\ pp'[d] = pp[d] /\ at'[d] = at[d]
    BY <1>1, <1>3 DEF VmeTypeOK, Walked
  <2>3. \A d \in Cpu : at'[d] = "run" => pp'[d] = Nil
    BY <1>1, <2>2 DEF VmeTypeOK
  <2>4. WalkInv'
    BY <1>1, <1>2, <1>3, <2>2 DEF WalkInv, Pages
  <2> QED
    BY <1>3, <2>1, <2>3, <2>4, CursorStep
<1>4. ASSUME NEW a \in Space \cup {Nil}, switch(c, a) PROVE VmeTypeInv'
  <2>1. PICK s \in Space \cup {Nil} : s = vm_head[c]
    BY <1>1 DEF VmeTypeOK
  <2>2. /\ UNCHANGED <<vm_head, head, node, mapped>> /\ at' = [at EXCEPT ![c] = "unmap"]
        /\ to' = [to EXCEPT ![c] = a] /\ pp' = [pp EXCEPT ![c] = HeadOf(s)]
    BY <1>4, <2>1 DEF switch
  <2>3. to' \in [Cpu -> Space \cup {Nil}] /\ \A d \in Cpu : d # c => to'[d] = to[d]
    BY <1>1, <2>2 DEF VmeTypeOK
  <2> QED
    BY <1>3, <2>1, <2>2, <2>3
<1>5. CASE unmap_done(c)
  <2>1. PICK s \in Space \cup {Nil} : s = to[c]
    BY <1>1 DEF VmeTypeOK
  <2>2. /\ UNCHANGED <<to, vm_head, head, node, mapped>> /\ at' = [at EXCEPT ![c] = "map"]
        /\ pp' = [pp EXCEPT ![c] = HeadOf(s)] /\ to' \in [Cpu -> Space \cup {Nil}]
    BY <1>1, <1>5, <2>1 DEF unmap_done, VmeTypeOK
  <2> QED
    BY <1>3, <2>1, <2>2
<1>6. CASE switch_end(c)
  <2>1. /\ at[c] = "map" /\ pp[c] = Nil /\ vm_head' = [vm_head EXCEPT ![c] = to[c]]
        /\ at' = [at EXCEPT ![c] = "run"] /\ UNCHANGED <<pp, to, head, node, mapped>>
    BY <1>6 DEF switch_end, loop_left
  <2>2. /\ at' \in [Cpu -> {"run", "unmap", "map"}] /\ vm_head' \in [Cpu -> Space \cup {Nil}]
        /\ \A d \in Cpu : d # c => Walked(d)' = Walked(d) /\ at'[d] = at[d]
    BY <1>1, <2>1 DEF VmeTypeOK, Walked
  <2>3. WalkInv'
    BY <1>1, <2>1, <2>2 DEF WalkInv, Pages
  <2>4. \A d \in Cpu : at'[d] = "run" => pp'[d] = Nil
    BY <1>1, <2>1, <2>2 DEF VmeTypeOK
  <2> QED
    BY <1>1, <2>1, <2>2, <2>3, <2>4, CursorStep DEF VmeTypeOK
<1> QED
  BY <1>4, <1>5, <1>6

LEMMA LoopTypes ==
  ASSUME VmeTypeInv, NEW c \in Cpu, unmap_page(c) \/ map_page(c)
  PROVE  VmeTypeInv'
<1>1. VmeTypeOK /\ Indexed /\ WalkInv /\ pp[c] # Nil /\ at[c] # "run"
  BY DEF VmeTypeInv, unmap_page, map_page
<1>2. PICK a \in Space : a = Walked(c)
  BY <1>1 DEF WalkInv
<1>3. PICK v \in Pages(a) : v = pp[c]
  BY <1>1, <1>2 DEF WalkInv
<1>4. v \in Va /\ node[a][v].pa \in Frame
  BY <1>1, NodeTypes
<1>5. ASSUME node' = node
      PROVE  /\ Indexed'
             /\ \A s \in Space : Pages(s)' = Pages(s) /\ node'[s] \in [Pages(s) -> Node]
  BY <1>1, <1>5 DEF Indexed, Pages, VmeTypeOK
<1>6. CASE unmap_page(c)
  <2>1. Walked(c) = vm_head[c]
    BY <1>6 DEF unmap_page, Walked
  <2>2. /\ UNCHANGED <<at, to, vm_head, head>> /\ pp' = [pp EXCEPT ![c] = advance(a, v)]
        /\ (mapped' = [mapped EXCEPT ![c][v] = Nil]) \/ mapped' = mapped
        /\ (node' = [node EXCEPT ![a][v].is_mapped = FALSE]) \/ node' = node
    BY <1>2, <1>3, <1>6, <2>1 DEF unmap_page, pmem_unmap
  <2>3. mapped' \in [Cpu -> [Va -> Frame \cup {Nil}]]
    BY <1>1, <1>4, <2>2 DEF VmeTypeOK
  <2>4. CASE node' = [node EXCEPT ![a][v].is_mapped = FALSE]
    <3>1. PICK b \in BOOLEAN : b = FALSE
      OBVIOUS
    <3>2. node' = [node EXCEPT ![a][v].is_mapped = b]
      BY <2>4, <3>1
    <3>3. /\ Indexed'
          /\ \A s \in Space : Pages(s)' = Pages(s) /\ node'[s] \in [Pages(s) -> Node]
          /\ \A s \in Space : \A w \in Pages(s) :
               /\ node'[s][w].pa = node[s][w].pa /\ node'[s][w].next = node[s][w].next
               /\ node'[s][w].is_mapped = IF s = a /\ w = v THEN b ELSE node[s][w].is_mapped
      BY <1>1, <3>2, Flags
    <3>4. \A s \in Space : \A w \in Pages(s) : node'[s][w].next = node[s][w].next
      BY <3>3
    <3> QED
      BY <1>1, <1>2, <1>3, <2>2, <2>3, <3>3, <3>4, FlagStep
  <2>5. CASE node' = node
    BY <1>1, <1>2, <1>3, <1>5, <2>2, <2>3, <2>5, FlagStep
  <2> QED
    BY <2>2, <2>4, <2>5
<1>7. CASE map_page(c)
  <2>1. Walked(c) = to[c]
    BY <1>7 DEF map_page, Walked
  <2>2. /\ UNCHANGED <<at, to, vm_head, head>> /\ pp' = [pp EXCEPT ![c] = advance(a, v)]
        /\ mapped' = [mapped EXCEPT ![c][v] = node[a][v].pa]
    BY <1>2, <1>3, <1>7, <2>1 DEF map_page, pmem_map
  <2>3. mapped' \in [Cpu -> [Va -> Frame \cup {Nil}]]
    BY <1>1, <1>4, <2>2 DEF VmeTypeOK
  <2>4. /\ Indexed'
        /\ \A s \in Space : Pages(s)' = Pages(s) /\ node'[s] \in [Pages(s) -> Node]
        /\ \A s \in Space : \A w \in Pages(s) : node'[s][w].next = node[s][w].next
    <3>1. PICK b \in BOOLEAN : b = TRUE
      OBVIOUS
    <3>2. node' = [node EXCEPT ![a][v].is_mapped = TRUE]
      BY <1>2, <1>3, <1>7, <2>1 DEF map_page, flagged
    <3>3. node' = [node EXCEPT ![a][v].is_mapped = b]
      BY <3>1, <3>2
    <3>4. /\ Indexed'
          /\ \A s \in Space : Pages(s)' = Pages(s) /\ node'[s] \in [Pages(s) -> Node]
          /\ \A s \in Space : \A w \in Pages(s) :
               /\ node'[s][w].pa = node[s][w].pa /\ node'[s][w].next = node[s][w].next
               /\ node'[s][w].is_mapped = IF s = a /\ w = v THEN b ELSE node[s][w].is_mapped
      BY <1>1, <3>3, Flags
    <3> QED
      BY <3>4
  <2> QED
    BY <1>1, <1>2, <1>3, <2>2, <2>3, <2>4, FlagStep
<1> QED
  BY <1>6, <1>7

\* However many processors map pages and switch spaces at once, no pointer leaves the list
\* it belongs to, and outside __am_switch no list is being walked.
THEOREM VmeTypeCorrect == VmeSpec => []VmeTypeOK
<1>1. VmeInit => VmeTypeInv
  <2> SUFFICES ASSUME VmeInit PROVE VmeTypeInv
    OBVIOUS
  <2>1. VmeTypeOK /\ Indexed
    BY VmeInitInv DEF VmeIInv
  <2>2. LinkInv /\ WalkInv
    BY DEF VmeInit, LinkInv, WalkInv, Pages
  <2> QED
    BY <2>1, <2>2 DEF VmeTypeInv
<1>2. VmeTypeInv /\ [VmeNext]_vmeVars => VmeTypeInv'
  <2> SUFFICES ASSUME VmeTypeInv, [VmeNext]_vmeVars PROVE VmeTypeInv'
    OBVIOUS
  <2>1. CASE \E c \in Cpu : \E a \in Space, va \in Va, pa \in Frame : map(c, a, va, pa)
    BY <2>1, MapTypes
  <2>2. CASE \E c \in Cpu : (\E a \in Space \cup {Nil} : switch(c, a)) \/ unmap_done(c) \/ switch_end(c)
    BY <2>2, SwitchTypes
  <2>3. CASE \E c \in Cpu : unmap_page(c) \/ map_page(c)
    BY <2>3, LoopTypes
  <2>4. CASE UNCHANGED vmeVars
    BY <2>4 DEF vmeVars, VmeTypeInv, VmeTypeOK, Indexed, LinkInv, WalkInv, Walked, Pages
  <2> QED
    BY <2>1, <2>2, <2>3, <2>4 DEF VmeNext, Switching
<1>3. VmeTypeInv => VmeTypeOK
  BY DEF VmeTypeInv
<1> QED
  BY <1>1, <1>2, <1>3, PTL DEF VmeSpec
=============================================================================
