--------------------------- MODULE OrderLifecycle ---------------------------
(***************************************************************************)
(* What the OMS promises about an approved intent, seen from outside: the  *)
(* intent (named by its client_order_id) leads to at most one order, which *)
(* works until it is filled completely, cancelled or rejected, once and    *)
(* for all; what is filled of it only grows and never exceeds its size.    *)
(***************************************************************************)
EXTENDS Naturals

CONSTANTS ClientIds, Size

VARIABLES
    life,   \* [ClientIds -> "none" | "working" | "FILLED" | "CANCELLED" | "REJECTED"]
    done    \* [ClientIds -> Nat], what is filled

Init == /\ life = [c \in ClientIds |-> "none"]
        /\ done = [c \in ClientIds |-> 0]

(* An order is created for an intent that has none. *)
Open(c) ==
    /\ life[c] = "none"
    /\ life' = [life EXCEPT ![c] = "working"]
    /\ UNCHANGED done

(* Part of an order is filled.  A closed order may still get a late fill.  *)
Fill(c, n) ==
    /\ life[c] # "none" /\ done[c] + n < Size
    /\ done' = [done EXCEPT ![c] = @ + n]
    /\ UNCHANGED life

(* The rest of a working order is filled. *)
Complete(c) ==
    /\ life[c] = "working" /\ done[c] < Size
    /\ life' = [life EXCEPT ![c] = "FILLED"]
    /\ done' = [done EXCEPT ![c] = Size]

(* The venue, or the OMS, gives a working order up. *)
Close(c, how) ==
    /\ life[c] = "working"
    /\ life' = [life EXCEPT ![c] = how]
    /\ UNCHANGED done

Next == \E c \in ClientIds :
           \/ Open(c) \/ Complete(c)
           \/ \E n \in 1..Size : Fill(c, n)
           \/ \E how \in {"CANCELLED", "REJECTED"} : Close(c, how)

Spec == Init /\ [][Next]_<<life, done>>
=============================================================================
