------------------------------ MODULE Keyboard ------------------------------
(***************************************************************************)
(* The NEMU keyboard device, nemu/src/device/keyboard.c: a ring of         *)
(* KEY_QUEUE_LEN slots with a front index key_f and a rear index key_r,    *)
(* filled by send_key (called from device_update for each SDL key event)   *)
(* and drained by guest reads of the i8042 data port.                      *)
(***************************************************************************)
EXTENDS Integers, Sequences

CONSTANTS
  KEY_QUEUE_LEN,   \* number of slots of the ring
  KEYDOWN_MASK,    \* the bit that marks a key press
  NEMU_KEY_NONE,   \* "no key"
  Scancode,        \* SDL scan codes, the indices of keymap
  keymap           \* SDL scan code -> AM key, NEMU_KEY_NONE when unmapped

ASSUME QueueLenAssumption == KEY_QUEUE_LEN \in Nat /\ KEY_QUEUE_LEN >= 2

ASSUME KeymapAssumption ==
  /\ NEMU_KEY_NONE = 0
  /\ KEYDOWN_MASK \in Nat \ {0}
  /\ keymap \in [Scancode -> 0 .. KEYDOWN_MASK - 1]

VARIABLES
  key_queue,       \* the ring's slots
  key_f,           \* index of the oldest key
  key_r,           \* index of the next free slot
  data_port,       \* i8042_data_port_base[0], what the guest reads
  kbd_panic        \* the Assert of key_enqueue has failed: the process is gone

kbdVars == <<key_queue, key_f, key_r, data_port, kbd_panic>>

Slots == 0 .. KEY_QUEUE_LEN - 1

\* The bitwise or of send_key: a key is below the mask's bit, so it is a sum.
AmScancode(scancode, is_keydown) ==
  keymap[scancode] + (IF is_keydown THEN KEYDOWN_MASK ELSE 0)

Codes == {AmScancode(s, d) : s \in {c \in Scancode : keymap[c] # NEMU_KEY_NONE},
                             d \in BOOLEAN}

KbdInit ==
  /\ key_queue = [i \in Slots |-> 0]
  /\ key_f = 0
  /\ key_r = 0
  /\ data_port = NEMU_KEY_NONE
  /\ kbd_panic = FALSE

next_index(i) == (i + 1) % KEY_QUEUE_LEN

\* The slot is written and the index advanced before the overflow check.
key_enqueue(am_scancode) ==
  /\ key_queue' = [key_queue EXCEPT ![key_r] = am_scancode]
  /\ key_r' = next_index(key_r)
  /\ kbd_panic' = (key_r' = key_f)
  /\ UNCHANGED <<key_f, data_port>>

\* An SDL key event; ignored unless the guest is running and the key is mapped.
send_key(scancode, is_keydown, running) ==
  IF running /\ keymap[scancode] # NEMU_KEY_NONE
    THEN key_enqueue(AmScancode(scancode, is_keydown))
    ELSE UNCHANGED kbdVars

\* A guest read of the data port: key_dequeue into the port register.
i8042_data_io_handler ==
  /\ IF key_f # key_r
       THEN /\ data_port' = key_queue[key_f]
            /\ key_f' = next_index(key_f)
       ELSE /\ data_port' = NEMU_KEY_NONE
            /\ UNCHANGED key_f
  /\ UNCHANGED <<key_queue, key_r, kbd_panic>>

KbdNext ==
  /\ ~kbd_panic
  /\ \/ \E s \in Scancode, d \in BOOLEAN, running \in BOOLEAN :
          send_key(s, d, running)
     \/ i8042_data_io_handler

KbdSpec == KbdInit /\ [][KbdNext]_kbdVars

-----------------------------------------------------------------------------
KbdTypeOK ==
  /\ key_queue \in [Slots -> Nat]
  /\ key_f \in Slots
  /\ key_r \in Slots
  /\ data_port \in Nat
  /\ kbd_panic \in BOOLEAN

\* Pending keys.  After the overflow the indices meet again: the ring that
\* looks empty is full, which only the panic flag tells apart.
NrPending == IF kbd_panic THEN KEY_QUEUE_LEN
             ELSE IF key_r >= key_f THEN key_r - key_f
             ELSE key_r - key_f + KEY_QUEUE_LEN

\* The n slots of the ring q that start at index f.
Window(q, f, n) == [i \in 1 .. n |-> q[(f + i - 1) % KEY_QUEUE_LEN]]

Pending == Window(key_queue, key_f, NrPending)

Fifo == INSTANCE KeyFifo WITH Code <- Codes, None <- NEMU_KEY_NONE,
          Capacity <- KEY_QUEUE_LEN - 1, fifo <- Pending, out <- data_port,
          overflow <- kbd_panic

\* Keys reach the guest in the order they were pressed, each once, until the
\* ring overflows at KEY_QUEUE_LEN - 1 pending keys: the ring of keyboard.c
\* implements the bounded queue.
ImplementsFifo == Fifo!Spec

=============================================================================
