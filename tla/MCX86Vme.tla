------------------------------- MODULE MCX86Vme -------------------------------
(* Two levels: one entry of the first is the kernel's, two are the user's.     *)
EXTENDS X86Vme

MCUserPage == {<<1, 0>>, <<2, 1>>}
===============================================================================
