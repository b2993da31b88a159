------------------------------ MODULE AddrSpaces ------------------------------
(* What protect, unprotect and map promise to a kernel (abstract-machine/am/   *)
(* include/am.h): address spaces that are apart, each with a mapping of user   *)
(* pages to frames that only map changes, and only at one page.                *)
CONSTANTS Space, UserPage, Frame

VARIABLE mapping    \* function from the live spaces to [UserPage -> Frame or Unmapped]

Unmapped == "unmapped"

Init == DOMAIN mapping = {}

Protect(s) ==
  /\ s \notin DOMAIN mapping
  /\ mapping' = [t \in DOMAIN mapping \cup {s} |->
                   IF t = s THEN [v \in UserPage |-> Unmapped] ELSE mapping[t]]

Unprotect(s) ==
  /\ s \in DOMAIN mapping
  /\ mapping' = [t \in DOMAIN mapping \ {s} |-> mapping[t]]

Map(s, v, f) ==
  /\ s \in DOMAIN mapping
  /\ mapping[s][v] = Unmapped
  /\ mapping' = [mapping EXCEPT ![s][v] = f]

Unmap(s, v) ==
  /\ s \in DOMAIN mapping
  /\ mapping[s][v] # Unmapped
  /\ mapping' = [mapping EXCEPT ![s][v] = Unmapped]

Next ==
  \E s \in Space :
    \/ Protect(s) \/ Unprotect(s)
    \/ \E v \in UserPage : Unmap(s, v) \/ \E f \in Frame : Map(s, v, f)

Spec == Init /\ [][Next]_mapping
===============================================================================
