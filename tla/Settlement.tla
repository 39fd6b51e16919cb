----------------------------- MODULE Settlement -----------------------------
(***************************************************************************)
(* What the order, payments and messaging code together promise about one  *)
(* order: a completed checkout of it is recorded on it as its payment, or  *)
(* the order is gone.  An administrator may also mark an order paid by     *)
(* hand.                                                                   *)
(***************************************************************************)
CONSTANT Orders

VARIABLES
    checkedOut,  \* the orders whose checkout a customer has completed
    record       \* what the order service has on record

svars == <<checkedOut, record>>

Records == {"absent", "unpaid", "paid", "deleted"}

Init ==
    /\ checkedOut = {}
    /\ record = [o \in Orders |-> "absent"]

Place(o) ==
    /\ record[o] = "absent"
    /\ record' = [record EXCEPT ![o] = "unpaid"]
    /\ UNCHANGED checkedOut

CheckOut(o) ==
    /\ record[o] # "absent"
    /\ o \notin checkedOut
    /\ checkedOut' = checkedOut \cup {o}
    /\ UNCHANGED record

Record(o) ==
    /\ record[o] = "unpaid"
    /\ o \in checkedOut
    /\ record' = [record EXCEPT ![o] = "paid"]
    /\ UNCHANGED checkedOut

RecordByHand(o) ==
    /\ record[o] = "unpaid"
    /\ record' = [record EXCEPT ![o] = "paid"]
    /\ UNCHANGED checkedOut

Delete(o) ==
    /\ record[o] \in {"unpaid", "paid"}
    /\ record' = [record EXCEPT ![o] = "deleted"]
    /\ UNCHANGED checkedOut

Next ==
    \E o \in Orders :
        Place(o) \/ CheckOut(o) \/ Record(o) \/ RecordByHand(o) \/ Delete(o)

\* What may not happen, and what must in the end.
Safe == Init /\ [][Next]_svars

Spec == Safe /\ \A o \in Orders : WF_svars(Record(o))
=============================================================================
