------------------------------ MODULE KeyFifo ------------------------------
(***************************************************************************)
(* What the NEMU keyboard device promises the guest: a bounded first-in    *)
(* first-out queue of key codes.  A key event that finds the queue full    *)
(* kills the emulator (Assert in key_enqueue); nothing is ever dropped,    *)
(* duplicated or reordered before that.  Reading the empty queue returns   *)
(* "no key".                                                               *)
(***************************************************************************)
EXTENDS Integers, Sequences

CONSTANTS
  Code,       \* AM key codes, the KEYDOWN_MASK bit included
  None,       \* NEMU_KEY_NONE
  Capacity    \* keys the queue holds before the assertion fires

VARIABLES
  fifo,       \* the pending key codes, oldest first
  out,        \* the last value a guest read of the data port returned
  overflow    \* the emulator has died of a queue overflow

vars == <<fifo, out, overflow>>

Init == fifo = <<>> /\ out = None /\ overflow = FALSE

\* A key event arrives from the host.
Put(k) ==
  /\ ~overflow
  /\ fifo' = Append(fifo, k)
  /\ overflow' = (Len(fifo) = Capacity)
  /\ UNCHANGED out

\* The guest reads the data port.
Get ==
  /\ ~overflow
  /\ IF fifo = <<>>
       THEN out' = None /\ UNCHANGED fifo
       ELSE out' = Head(fifo) /\ fifo' = Tail(fifo)
  /\ UNCHANGED overflow

Next == (\E k \in Code : Put(k)) \/ Get

Spec == Init /\ [][Next]_vars
=============================================================================
