---------------------------- MODULE NativeInput ----------------------------
(***************************************************************************)
(* The keyboard of the native port (am/src/native/ioe/input.c): a thread   *)
(* waits for SDL's events and puts key codes into a ring, the program      *)
(* takes them out, both under one mutex; after a key the thread raises the *)
(* device interrupt.  The program is the keyboard test                     *)
(* (am-tests/src/tests/keyboard.c), which reads until there is no key,     *)
(* again and again.                                                        *)
(***************************************************************************)
EXTENDS Integers, Sequences

CONSTANTS
  KEY_QUEUE_LEN, KEYDOWN_MASK, AM_KEY_NONE,
  Scancode,         \* SDL scan codes; they go to 511
  KEYMAP_LEN,       \* length of the array keymap, 256
  keymap,           \* SDL scan code -> AM key, AM_KEY_NONE when unmapped
  Behind,           \* what the words behind the array may hold
  EventBound        \* bound of the model: events a user causes

ASSUME NativeInputAssumption ==
  /\ KEY_QUEUE_LEN \in Nat /\ KEY_QUEUE_LEN >= 2
  /\ AM_KEY_NONE = 0
  /\ KEYDOWN_MASK \in Nat \ {0}
  /\ Scancode \subseteq Nat /\ KEYMAP_LEN \in Nat /\ Behind \subseteq Nat
  /\ keymap \in [0 .. KEYMAP_LEN - 1 -> 0 .. KEYDOWN_MASK - 1]
  /\ EventBound \in Nat

VARIABLES
  sdl,              \* SDL's event queue
  posted,           \* events so far
  key_queue, key_f, key_r,
  key_queue_lock,   \* who holds the mutex
  thread,           \* control point of event_thread
  am_code,          \* its variable
  irq,              \* SIGUSR1 is pending
  reader,           \* control point of __am_input_keybrd
  k,                \* its variable
  kbd               \* what the program got last

queueVars == <<key_queue, key_f, key_r>>
threadVars == <<thread, am_code>>
readerVars == <<reader, k, kbd>>
vars == <<sdl, posted, queueVars, key_queue_lock, threadVars, irq, readerVars>>

Slots == 0 .. KEY_QUEUE_LEN - 1

Init ==
  /\ sdl = <<>> /\ posted = 0
  /\ key_queue = [s \in Slots |-> 0] /\ key_f = 0 /\ key_r = 0
  /\ key_queue_lock = "free"
  /\ thread = "wait" /\ am_code = 0 /\ irq = FALSE
  /\ reader = "call" /\ k = AM_KEY_NONE /\ kbd = AM_KEY_NONE

\* The user presses or releases a key, or closes the window.
Event == [type : {"key"}, scancode : Scancode, keydown : BOOLEAN] \cup {[type |-> "quit"]}

post ==
  /\ thread # "halt" /\ posted < EventBound
  /\ \E e \in Event : sdl' = Append(sdl, e)
  /\ posted' = posted + 1
  /\ UNCHANGED <<queueVars, key_queue_lock, threadVars, irq, readerVars>>

-----------------------------------------------------------------------------
(* event_thread                                                            *)

\* keymap[scancode]: nothing keeps scancode below the array's length.
KeysOf(scancode) == IF scancode < KEYMAP_LEN THEN {keymap[scancode]} ELSE Behind

\* key | KEYDOWN_MASK, or key
CodeOf(key, keydown) ==
  IF keydown /\ (key \div KEYDOWN_MASK) % 2 = 0 THEN key + KEYDOWN_MASK ELSE key

\* SDL_WaitEvent and the switch; halt(0) ends the process.
wait_event ==
  /\ thread = "wait" /\ sdl # <<>>
  /\ LET e == Head(sdl)
     IN \/ /\ e.type = "quit"
           /\ thread' = "halt" /\ UNCHANGED am_code
        \/ /\ e.type = "key" /\ AM_KEY_NONE \in KeysOf(e.scancode)
           /\ UNCHANGED threadVars
        \/ /\ e.type = "key"
           /\ \E key \in KeysOf(e.scancode) \ {AM_KEY_NONE} : am_code' = CodeOf(key, e.keydown)
           /\ thread' = "lock"
  /\ sdl' = Tail(sdl)
  /\ UNCHANGED <<posted, queueVars, key_queue_lock, irq, readerVars>>

\* Mutant of can_lock: the mutex does not exclude.
can_lock_always == TRUE

can_lock == key_queue_lock = "free"

thread_lock ==
  /\ thread = "lock" /\ can_lock
  /\ key_queue_lock' = "thread" /\ thread' = "slot"
  /\ UNCHANGED <<sdl, posted, queueVars, am_code, irq, readerVars>>

thread_slot ==
  /\ thread = "slot"
  /\ key_queue' = [key_queue EXCEPT ![key_r] = am_code]
  /\ thread' = "rear"
  /\ UNCHANGED <<sdl, posted, key_f, key_r, key_queue_lock, am_code, irq, readerVars>>

next_index(i) == (i + 1) % KEY_QUEUE_LEN

thread_rear ==
  /\ thread = "rear"
  /\ key_r' = next_index(key_r)
  /\ thread' = "unlock"
  /\ UNCHANGED <<sdl, posted, key_queue, key_f, key_queue_lock, am_code, irq, readerVars>>

\* Unlocking, and __am_send_kbd_intr, which nothing of the queue depends on.
thread_unlock ==
  /\ thread = "unlock"
  /\ key_queue_lock' = "free"
  /\ irq' = TRUE
  /\ thread' = "wait"
  /\ UNCHANGED <<sdl, posted, queueVars, am_code, readerVars>>

\* The program's handler takes the interrupt, or it is dropped.
interrupt ==
  /\ irq /\ thread # "halt"
  /\ irq' = FALSE
  /\ UNCHANGED <<sdl, posted, queueVars, key_queue_lock, threadVars, readerVars>>

-----------------------------------------------------------------------------
(* __am_input_keybrd, called by the program in a loop                      *)

reader_lock ==
  /\ reader = "call" /\ thread # "halt" /\ can_lock
  /\ key_queue_lock' = "reader"
  /\ k' = AM_KEY_NONE
  /\ reader' = "test"
  /\ UNCHANGED <<sdl, posted, queueVars, threadVars, irq, kbd>>

\* Mutant of after_empty: an early return on the empty ring, with the mutex held.
after_empty_returns == "call"

after_empty == "unlock"

reader_test ==
  /\ reader = "test" /\ thread # "halt"
  /\ \/ key_f # key_r /\ k' = key_queue[key_f] /\ reader' = "front"
     \/ key_f = key_r /\ reader' = after_empty /\ UNCHANGED k
  /\ UNCHANGED <<sdl, posted, queueVars, key_queue_lock, threadVars, irq, kbd>>

reader_front ==
  /\ reader = "front" /\ thread # "halt"
  /\ key_f' = next_index(key_f)
  /\ reader' = "unlock"
  /\ UNCHANGED <<sdl, posted, key_queue, key_r, key_queue_lock, threadVars, irq, k, kbd>>

reader_unlock ==
  /\ reader = "unlock" /\ thread # "halt"
  /\ key_queue_lock' = "free"
  /\ kbd' = k
  /\ reader' = "call"
  /\ UNCHANGED <<sdl, posted, queueVars, threadVars, irq, k>>

-----------------------------------------------------------------------------
Thread == wait_event \/ thread_slot \/ thread_rear \/ thread_unlock
Reader == reader_test \/ reader_front \/ reader_unlock

Next == post \/ Thread \/ thread_lock \/ interrupt \/ Reader \/ reader_lock

\* Both threads run; a mutex that is free again and again is got in the end.
Spec ==
  /\ Init /\ [][Next]_vars
  /\ WF_vars(Thread) /\ WF_vars(Reader) /\ SF_vars(thread_lock) /\ SF_vars(reader_lock)

-----------------------------------------------------------------------------
Keys == UNION {KeysOf(s) : s \in Scancode}
Codes == {CodeOf(key, keydown) : key \in Keys \ {AM_KEY_NONE}, keydown \in BOOLEAN}

TypeOK ==
  /\ sdl \in Seq(Event) /\ posted \in 0 .. EventBound
  /\ key_queue \in [Slots -> Codes \cup {0}]
  /\ key_f \in Slots /\ key_r \in Slots
  /\ key_queue_lock \in {"free", "thread", "reader"}
  /\ thread \in {"wait", "lock", "slot", "rear", "unlock", "halt"}
  /\ am_code \in Codes \cup {0}
  /\ irq \in BOOLEAN
  /\ reader \in {"call", "test", "front", "unlock"}
  /\ k \in Codes \cup {AM_KEY_NONE} /\ kbd \in Codes \cup {AM_KEY_NONE}

NrPending == IF key_r >= key_f THEN key_r - key_f ELSE key_r - key_f + KEY_QUEUE_LEN

\* The n slots of the ring q that start at index f.
Window(q, f, n) == [i \in 1 .. n |-> q[(f + i - 1) % KEY_QUEUE_LEN]]

Pending == Window(key_queue, key_f, NrPending)

\* The abstract read happens when the mutex is released: until then a key that
\* was taken from the ring still counts as pending.
Taken == reader = "unlock" /\ k # AM_KEY_NONE

Fifo == INSTANCE DropFifo WITH Code <- Codes, None <- AM_KEY_NONE,
          Capacity <- KEY_QUEUE_LEN - 1, out <- kbd,
          fifo <- (IF Taken THEN <<k>> ELSE <<>>) \o Pending

\* Two threads that fill and drain the ring in several steps each are the queue
\* DropFifo to the program: every key once, in order, or all forgotten when one
\* too many is pending.
ImplementsDropFifo == Fifo!Spec

\* Every event is taken from SDL and no key stays in the ring, unless the user closes
\* the window first: the program's polling sees it, or it is forgotten with all that
\* were pending when the ring overflowed.  Neither thread keeps the mutex from the other.
Drained == sdl = <<>> /\ thread = "wait" /\ key_f = key_r

KeysArrive == (sdl # <<>>) ~> (Drained \/ thread = "halt")
=============================================================================
