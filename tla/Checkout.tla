------------------------------ MODULE Checkout ------------------------------
(***************************************************************************)
(* The order service and the payments service together: CreateOrder calls  *)
(* CreatePayment, the customer checks out at the URL it returned, Stripe   *)
(* calls the webhook, and payment.succeeded reaches the order-paid worker  *)
(* through the PAYMENTS stream.  The two services share the stream and     *)
(* nothing else.                                                           *)
(***************************************************************************)
EXTENDS Naturals

CONSTANTS Checkouts, Orders, Kinds, Handlers, MaxId, MaxDeletes,
          Admins, Requested, None

VARIABLES
    checkout, payments, handler, acked, stream, deletes,   \* payments
    orders, create, admin, worker, consumed, told, had     \* order

paymentsOnly == <<checkout, payments, handler, acked, deletes>>
ordersOnly == <<orders, create, admin, worker, consumed, told, had>>
vars == <<paymentsOnly, stream, ordersOnly>>

P == INSTANCE Payments

O == INSTANCE Orders WITH
        OrderIds <- Orders, PaymentIds <- P!Ids, Message <- P!Message,
        acked <- consumed

\* What each service assumes of the constants holds of those it is given here,
\* and the absence of a row is not a row.
ASSUME ServicesAssumption ==
    /\ P!KindsAssumption /\ P!BoundsAssumption /\ P!NoneAssumption
    /\ O!RequestedAssumption /\ O!MessageAssumption /\ O!NoneAssumption
    /\ None \notin O!Order

Init == P!Init /\ O!Init

-----------------------------------------------------------------------------
\* CreatePayment reaches the payments service once per order; a caller that
\* has given up does not take the request back.
CreateSession(c, o) ==
    /\ create[o].pc \in {"inserted", "failed"}
    /\ create[o].payment = None
    /\ \A d \in Checkouts : checkout[d].order # o
    /\ P!CreateSession(c, o)
    /\ UNCHANGED ordersOnly

\* The pending row is there and the answer reaches the order service.
CreatePaymentReturns(c) ==
    /\ checkout[c].stage = "offered"
    /\ O!CreatePayment(checkout[c].order, checkout[c].id)
    /\ UNCHANGED paymentsOnly

\* Variant of Complete: the customer learns the URL as soon as there is one.
CompleteEarly(c) ==
    /\ P!Complete(c)
    /\ UNCHANGED ordersOnly

\* The customer has the URL only from the answer of CreateOrder.
Complete(c) ==
    /\ checkout[c].stage = "offered"
    /\ create[checkout[c].order].pc = "returned"
    /\ P!Complete(c)
    /\ UNCHANGED ordersOnly

PaymentsStep ==
    \/ \E c \in Checkouts :
         \/ \E o \in Orders : CreateSession(c, o)
         \/ (P!CreatePending(c) \/ P!CreatePaymentFails(c) \/ P!Pay(c))
            /\ UNCHANGED ordersOnly
         \/ Complete(c)
    \/ \E i \in P!Ids : P!AdminDeletePayment(i) /\ UNCHANGED ordersOnly
    \/ \E h \in Handlers : P!Webhook(h) /\ UNCHANGED ordersOnly

OrdersStep ==
    \/ \E c \in Checkouts : CreatePaymentReturns(c)
    \/ /\ \/ \E o \in Orders :
               \/ O!CreateOrder(o)
               \/ O!SetPaymentInfo(o)
               \/ O!CreateOrderFails(o)
               \/ O!AdminDeleteOrder(o)
          \/ O!Worker
          \/ \E a \in Admins : O!Administration(a)
       /\ UNCHANGED paymentsOnly

Next == PaymentsStep \/ OrdersStep

Spec == Init /\ [][Next]_vars

(***************************************************************************)
(* Stripe, the database and the broker as in Payments; the worker is one   *)
(* loop that always moves on, and JetStream delivers an unacknowledged     *)
(* message again and again until it is applied.                            *)
(***************************************************************************)
Unserved(e, h) == handler[h] # None /\ handler[h].event = e

Fairness ==
    /\ \A h \in Handlers :
         WF_vars((P!Save(h) \/ P!Publish(h) \/ P!Fail(h))
                 /\ UNCHANGED ordersOnly)
    /\ \A e \in P!Events :
         /\ SF_vars(/\ e \notin acked
                    /\ \E h \in Handlers : P!Find(h, e)
                    /\ UNCHANGED ordersOnly)
         /\ SF_vars(/\ \E h \in Handlers : Unserved(e, h) /\ P!Save(h)
                    /\ UNCHANGED ordersOnly)
         /\ SF_vars(/\ \E h \in Handlers : Unserved(e, h) /\ P!Publish(h)
                    /\ UNCHANGED ordersOnly)
    /\ WF_vars((O!Ack \/ O!AckLost) /\ UNCHANGED paymentsOnly)
    /\ \A m \in P!Message : SF_vars(O!MarkPaid(m) /\ UNCHANGED paymentsOnly)

FairSpec == Spec /\ Fairness

-----------------------------------------------------------------------------
\* The composition is a behaviour of each service on its own: what is shown of
\* Payments and of Orders holds here, and the assumption Orders makes about the
\* stream (a message names only an order whose URL was returned) is met.
PaymentsSpec == P!Spec
OrdersSpec == O!Spec

\* When an event has marked an order paid, the payment it names does not stand
\* as pending on the other side: the row is saved before the message is
\* published, whatever second rows, deletions and late saves come between.
PaidOnBothSides ==
    \A o \in Orders, i \in P!Ids :
        /\ orders[o] # None /\ orders[o].paidAt = O!EventTime
        /\ orders[o].payment = i /\ payments[i] # None
        => payments[i].status = "succeeded"

\* The order service and the payments service agree on which payment belongs
\* to which order.
PaymentOfOrder ==
    \A o \in Orders, i \in P!Ids :
        /\ orders[o] # None /\ orders[o].payment = i
        /\ payments[i] # None
        => payments[i].order = o

CheckedOut == {o \in Orders : \E c \in Checkouts :
                 checkout[c].order = o /\ P!Completed(c)}

Record ==
    [o \in Orders |->
        IF orders[o] = None
        THEN IF create[o].pc = "none" THEN "absent" ELSE "deleted"
        ELSE IF orders[o].paidAt = None THEN "unpaid" ELSE "paid"]

S == INSTANCE Settlement WITH checkedOut <- CheckedOut, record <- Record

\* A completed checkout is recorded on its order, or the order is gone; what is
\* recorded stays, and a deleted order does not come back.
Settles == S!Spec
=============================================================================
