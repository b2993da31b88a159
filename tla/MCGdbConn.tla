------------------------------- MODULE MCGdbConn -------------------------------
(* The connection on a small instance.                                          *)
EXTENDS GdbConn

\* The hypothesis of the theorem about replies holds of the registers and the noise chosen
\* here: a false '$' is among the noise, and no start of a reply sums to 0.
ASSUME MCNoEcho == Dollar \in Noise /\ NoEcho
===============================================================================
