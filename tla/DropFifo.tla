------------------------------ MODULE DropFifo ------------------------------
(***************************************************************************)
(* What the key queue of the native port promises a program: first in,    *)
(* first out, while fewer keys than the ring's length are pending.  There  *)
(* is no overflow check: one key too many and all pending keys, that one   *)
(* included, are forgotten at once.                                        *)
(***************************************************************************)
EXTENDS Integers, Sequences

CONSTANTS
  Code,       \* AM key codes, the KEYDOWN_MASK bit included
  None,       \* AM_KEY_NONE
  Capacity    \* keys that can be pending

VARIABLES
  fifo,       \* the pending key codes, oldest first
  out         \* what the last read returned

vars == <<fifo, out>>

Init == fifo = <<>> /\ out = None

Put(k) ==
  /\ fifo' = IF Len(fifo) = Capacity THEN <<>> ELSE Append(fifo, k)
  /\ UNCHANGED out

Get ==
  \/ fifo = <<>> /\ out' = None /\ UNCHANGED fifo
  \/ fifo # <<>> /\ out' = Head(fifo) /\ fifo' = Tail(fifo)

Next == (\E k \in Code : Put(k)) \/ Get

Spec == Init /\ [][Next]_vars
=============================================================================
