--------------------------- MODULE MCNativeInput ---------------------------
(***************************************************************************)
(* NativeInput on a ring of three slots with one mapped scan code, an      *)
(* unmapped one and one past the end of the keymap.                        *)
(***************************************************************************)
EXTENDS NativeInput

MCkeymap == [s \in 0 .. KEYMAP_LEN - 1 |-> IF s = 4 THEN 1 ELSE 0]
=============================================================================
