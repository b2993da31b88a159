------------------------------- MODULE MCNemu -------------------------------
(***************************************************************************)
(* Nemu with three words of memory, counters modulo 4, a keyboard ring of  *)
(* three slots and a user who posts up to four events.                     *)
(***************************************************************************)
EXTENDS Nemu

MCScancode == {4, 200}
MCkeymap == [s \in MCScancode |-> IF s = 4 THEN 1 ELSE 0]
=============================================================================
