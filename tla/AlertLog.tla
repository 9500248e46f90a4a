------------------------------ MODULE AlertLog ------------------------------
(***************************************************************************)
(* What alert delivery promises, with no queue, no retries and no crashes.  *)
(* Only a committed alert goes out, from a delivery taken up while the      *)
(* monitor had its webhook; a delivery is on record only if the receiver    *)
(* has accepted the alert; and only deleting the monitor takes a record     *)
(* away, for good.  The receiver may get an alert several times.            *)
(***************************************************************************)
CONSTANT Alert

VARIABLES hook,       \* the monitor's webhook: set, unset, or deleted with the monitor
          committed,  \* the alerts whose transition has been committed
          inHand,     \* those being delivered, to the webhook set when they were taken up
          received,   \* those the receiver has got
          recorded    \* those recorded as delivered

vars == <<hook, committed, inHand, received, recorded>>

Init ==
    /\ hook \in {"set", "unset"}
    /\ committed = {}
    /\ inHand = {}
    /\ received = {}
    /\ recorded = {}

Patch ==
    /\ hook # "deleted"
    /\ hook' \in {"set", "unset"}
    /\ UNCHANGED <<committed, inHand, received, recorded>>

Delete ==
    /\ hook # "deleted"
    /\ hook' = "deleted"
    /\ recorded' = {}
    /\ UNCHANGED <<committed, inHand, received>>

Commit(a) ==
    /\ hook # "deleted"
    /\ committed' = committed \union {a}
    /\ UNCHANGED <<hook, inHand, received, recorded>>

TakeUp(a) ==
    /\ a \in committed
    /\ hook = "set"
    /\ inHand' = inHand \union {a}
    /\ UNCHANGED <<hook, committed, received, recorded>>

\* Another delivery of the same alert may still have it in hand.
MayPutDown(a) == inHand' \in {inHand, inHand \ {a}}

Receive(a) ==
    /\ a \in inHand
    /\ received' = received \union {a}
    /\ MayPutDown(a)
    /\ UNCHANGED <<hook, committed, recorded>>

Record(a) ==
    /\ a \in inHand \intersect received
    /\ hook # "deleted"
    /\ recorded' = recorded \union {a}
    /\ MayPutDown(a)
    /\ UNCHANGED <<hook, committed, received>>

PutDown(a) ==
    /\ a \in inHand
    /\ inHand' = inHand \ {a}
    /\ UNCHANGED <<hook, committed, received, recorded>>

Next ==
    \/ Patch
    \/ Delete
    \/ \E a \in Alert : Commit(a) \/ TakeUp(a) \/ Receive(a) \/ Record(a) \/ PutDown(a)

Spec == Init /\ [][Next]_vars
=============================================================================
