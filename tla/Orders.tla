------------------------------- MODULE Orders -------------------------------
(***************************************************************************)
(* The order service around an order's status: CreateOrder (insert, call   *)
(* CreatePayment, attach the payment), the order-paid worker that consumes *)
(* payment.succeeded with explicit acknowledgements, the administrator's   *)
(* status update (read, update, read again, tell the customer) and         *)
(* deletion.  Each is several statements without a transaction around      *)
(* them, so they interleave.  The stream of payment.succeeded messages is  *)
(* filled by the payments service, here by the action PaymentSucceeded.    *)
(***************************************************************************)
EXTENDS Naturals

CONSTANTS
    OrderIds,
    Admins,      \* concurrent AdminUpdateOrderStatus calls
    Requested,   \* the statuses administrators ask for
    PaymentIds,
    Message,     \* payment.succeeded messages; each names an order, or None
    None         \* SQL NULL, the empty string, the absent row

Statuses == {"pending", "done", "paid", "failed", "cancelled"}

\* When paid_at was taken from the payment event and when from the clock.
EventTime == "event"
AdminTime == "admin"
Times == {EventTime, AdminTime}

ASSUME RequestedAssumption == Requested \subseteq Statuses
ASSUME MessageAssumption ==
    \A m \in Message : m.order \in OrderIds \cup {None}
ASSUME NoneAssumption ==
    /\ None \notin OrderIds /\ None \notin PaymentIds /\ None \notin Message
    /\ None \notin Times

VARIABLES
    orders,   \* the orders table
    create,   \* how far the CreateOrder call of each order is
    admin,    \* what each AdminUpdateOrderStatus call has in hand
    stream,   \* payment.succeeded messages published so far
    worker,   \* the message MarkPaid has been applied for, ack not yet sent
    acked,    \* messages the consumer order-paid has acknowledged
    told,     \* statuses published as order.status_updated, per order
    had       \* history: the statuses the row has had, per order

vars == <<orders, create, admin, stream, worker, acked, told, had>>

Order == [status  : Statuses,
          paidAt  : Times \cup {None},
          payment : PaymentIds \cup {None}]

\* A status update: the statement it is about to run, the paid_at it will
\* write or None, and for "publish" the status it read back.
Update == [pc : {"write", "reread", "publish"}, order : OrderIds,
           status : Statuses, stamp : BOOLEAN]

Stages == {"none", "inserted", "attaching", "returned", "failed"}

TypeOK ==
    /\ orders \in [OrderIds -> Order \cup {None}]
    /\ create \in [OrderIds -> [pc : Stages, payment : PaymentIds \cup {None}]]
    /\ admin \in [Admins -> Update \cup {None}]
    /\ stream \subseteq Message
    /\ worker \in Message \cup {None}
    /\ acked \subseteq Message
    /\ told \in [OrderIds -> SUBSET Statuses]
    /\ had \in [OrderIds -> SUBSET Statuses]

Init ==
    /\ orders = [o \in OrderIds |-> None]
    /\ create = [o \in OrderIds |-> [pc |-> "none", payment |-> None]]
    /\ admin = [a \in Admins |-> None]
    /\ stream = {}
    /\ worker = None
    /\ acked = {}
    /\ told = [o \in OrderIds |-> {}]
    /\ had = [o \in OrderIds |-> {}]

Exists(o) == orders[o] # None

-----------------------------------------------------------------------------
(***************************************************************************)
(* CreateOrder.                                                            *)
(***************************************************************************)
\* The order and its items are committed as pending before payments is asked.
CreateOrder(o) ==
    /\ create[o].pc = "none"
    /\ orders' = [orders EXCEPT ![o] =
                    [status |-> "pending", paidAt |-> None, payment |-> None]]
    /\ create' = [create EXCEPT ![o].pc = "inserted"]
    /\ had' = [had EXCEPT ![o] = @ \cup {"pending"}]
    /\ UNCHANGED <<admin, stream, worker, acked, told>>

\* CreatePayment answers with a new payment p.
CreatePayment(o, p) ==
    /\ create[o].pc = "inserted"
    /\ \A other \in OrderIds : create[other].payment # p
    /\ create' = [create EXCEPT ![o] = [pc |-> "attaching", payment |-> p]]
    /\ UNCHANGED <<orders, admin, stream, worker, acked, told, had>>

\* Variant of SetPaymentInfo that saves the order it has in memory.
SetPaymentInfoSaved(o) ==
    /\ create[o].pc = "attaching"
    /\ orders' = [orders EXCEPT ![o] =
                    [status |-> "pending", paidAt |-> None,
                     payment |-> create[o].payment]]
    /\ create' = [create EXCEPT ![o].pc = "returned"]
    /\ had' = [had EXCEPT ![o] = @ \cup {"pending"}]
    /\ UNCHANGED <<admin, stream, worker, acked, told>>

\* An UPDATE by id; that no row may be left to update is not noticed.
SetPaymentInfo(o) ==
    /\ create[o].pc = "attaching"
    /\ orders' = IF Exists(o)
                 THEN [orders EXCEPT ![o].payment = create[o].payment]
                 ELSE orders
    /\ create' = [create EXCEPT ![o].pc = "returned"]
    /\ UNCHANGED <<admin, stream, worker, acked, told, had>>

\* CreatePayment or SetPaymentInfo fails, or the service dies in between: the
\* caller gets an error and the pending order stays.
CreateOrderFails(o) ==
    /\ create[o].pc \in {"inserted", "attaching"}
    /\ create' = [create EXCEPT ![o].pc = "failed"]
    /\ UNCHANGED <<orders, admin, stream, worker, acked, told, had>>

\* The payments service: a message about a completed checkout is published.  Only a
\* customer who was given the checkout URL can pay.
PaymentSucceeded(m) ==
    /\ m \notin stream
    /\ m.order # None => create[m.order].pc = "returned"
    /\ stream' = stream \cup {m}
    /\ UNCHANGED <<orders, create, admin, worker, acked, told, had>>

-----------------------------------------------------------------------------
(***************************************************************************)
(* The order-paid worker: one message after another, acknowledged after it *)
(* was applied.  JetStream delivers what is not acknowledged again.        *)
(***************************************************************************)
\* Variant of MarkPaidGuard: AND status = 'pending'.
MarkPaidGuardPending(o) ==
    Exists(o) /\ orders[o].status = "pending"

\* UPDATE orders SET status, paid_at WHERE id = ? AND status <> 'paid'
MarkPaidGuard(o) ==
    Exists(o) /\ orders[o].status # "paid"

\* Variant of MarkPaid that copies the status of the payment.
MarkPaidSucceeded(m) ==
    /\ worker = None
    /\ m \in stream \ acked
    /\ orders' = IF m.order # None /\ MarkPaidGuard(m.order)
                 THEN [orders EXCEPT ![m.order].status = "succeeded",
                                     ![m.order].paidAt = EventTime]
                 ELSE orders
    /\ worker' = m
    /\ UNCHANGED <<create, admin, stream, acked, told, had>>

MarkPaid(m) ==
    /\ worker = None
    /\ m \in stream \ acked
    /\ IF m.order # None /\ MarkPaidGuard(m.order)
       THEN /\ orders' = [orders EXCEPT ![m.order].status = "paid",
                                        ![m.order].paidAt = EventTime]
            /\ had' = [had EXCEPT ![m.order] = @ \cup {"paid"}]
       ELSE UNCHANGED <<orders, had>>
    /\ worker' = m
    /\ UNCHANGED <<create, admin, stream, acked, told>>

Ack ==
    /\ worker # None
    /\ acked' = acked \cup {worker}
    /\ worker' = None
    /\ UNCHANGED <<orders, create, admin, stream, told, had>>

\* The ack is lost, came after AckWait, or the service died before sending it.
AckLost ==
    /\ worker # None
    /\ worker' = None
    /\ UNCHANGED <<orders, create, admin, stream, acked, told, had>>

-----------------------------------------------------------------------------
(***************************************************************************)
(* AdminUpdateOrderStatus: UpdateStatus is read, update by id, read again. *)
(***************************************************************************)
UpdateRead(a, o, s) ==
    /\ admin[a] = None
    /\ Exists(o)
    /\ admin' = [admin EXCEPT ![a] =
                   [pc |-> "write", order |-> o, status |-> s,
                    stamp |-> s = "paid" /\ orders[o].paidAt = None]]
    /\ UNCHANGED <<orders, create, stream, worker, acked, told, had>>

At(a, pc) == admin[a] # None /\ admin[a].pc = pc

\* Variant of Updated that replaces the row.
UpdatedByReplacement(row, u) ==
    [status |-> u.status, payment |-> None,
     paidAt |-> IF u.stamp THEN AdminTime ELSE row.paidAt]

Updated(row, u) ==
    [row EXCEPT !.status = u.status,
                !.paidAt = IF u.stamp THEN AdminTime ELSE row.paidAt]

UpdateWrite(a) ==
    LET u == admin[a] IN
    /\ At(a, "write")
    /\ IF Exists(u.order)
       THEN /\ orders' = [orders EXCEPT ![u.order] = Updated(@, u)]
            /\ had' = [had EXCEPT ![u.order] = @ \cup {u.status}]
       ELSE UNCHANGED <<orders, had>>
    /\ admin' = [admin EXCEPT ![a].pc = "reread"]
    /\ UNCHANGED <<create, stream, worker, acked, told>>

\* Variant of UpdateReread that publishes what was asked for.
UpdateNotReread(a) ==
    /\ At(a, "reread")
    /\ admin' = [admin EXCEPT ![a].pc = "publish"]
    /\ UNCHANGED <<orders, create, stream, worker, acked, told, had>>

\* The answer and the event show the row as it is now; a row that is gone by
\* now is ErrOrderNotFound and no event.
UpdateReread(a) ==
    LET o == admin[a].order IN
    /\ At(a, "reread")
    /\ admin' = [admin EXCEPT ![a] =
                   IF Exists(o)
                   THEN [pc |-> "publish", order |-> o,
                         status |-> orders[o].status, stamp |-> FALSE]
                   ELSE None]
    /\ UNCHANGED <<orders, create, stream, worker, acked, told, had>>

NotifyStatusChanged(a) ==
    /\ At(a, "publish")
    /\ told' = [told EXCEPT ![admin[a].order] = @ \cup {admin[a].status}]
    /\ admin' = [admin EXCEPT ![a] = None]
    /\ UNCHANGED <<orders, create, stream, worker, acked, had>>

\* A statement or the publication fails, the order has no email, or the
\* service dies: the call ends where it is.
UpdateEnds(a) ==
    /\ admin[a] # None
    /\ admin' = [admin EXCEPT ![a] = None]
    /\ UNCHANGED <<orders, create, stream, worker, acked, told, had>>

AdminDeleteOrder(o) ==
    /\ Exists(o)
    /\ orders' = [orders EXCEPT ![o] = None]
    /\ UNCHANGED <<create, admin, stream, worker, acked, told, had>>

-----------------------------------------------------------------------------
Creation(o) ==
    \/ CreateOrder(o)
    \/ \E p \in PaymentIds : CreatePayment(o, p)
    \/ SetPaymentInfo(o)
    \/ CreateOrderFails(o)

Worker ==
    \/ \E m \in Message : MarkPaid(m)
    \/ Ack
    \/ AckLost

Administration(a) ==
    \/ \E o \in OrderIds, s \in Requested : UpdateRead(a, o, s)
    \/ UpdateWrite(a)
    \/ UpdateReread(a)
    \/ NotifyStatusChanged(a)
    \/ UpdateEnds(a)

Next ==
    \/ \E o \in OrderIds : Creation(o) \/ AdminDeleteOrder(o)
    \/ \E m \in Message : PaymentSucceeded(m)
    \/ Worker
    \/ \E a \in Admins : Administration(a)

Spec == Init /\ [][Next]_vars

-----------------------------------------------------------------------------
\* A payment.succeeded message is acknowledged only when it is on record: the
\* order it names has paid_at set, or was deleted.  It stays so whatever status
\* updates, in flight or later, do to the row (worker.go: MarkPaid, then Ack;
\* repo.go UpdateStatus writes status and paid_at only).
AckedIsRecorded ==
    \A m \in acked :
        m.order # None /\ Exists(m.order) => orders[m.order].paidAt # None

\* No update in flight, redelivered message or late SetPaymentInfo brings a
\* deleted order back, although none of them checks that its row is there.
NoResurrection ==
    [][\A o \in OrderIds :
         orders[o] = None /\ orders'[o] # None => create[o].pc = "none"]_vars

\* Customers are told only of statuses their order really had, also when the
\* order is updated by others or deleted between the statements of an update.
ToldHad ==
    \A o \in OrderIds : told[o] \subseteq had[o]

\* The payment attached to an order outlives every status update and payment
\* event, and is the one CreatePayment returned for it.
PaymentInfoStays ==
    \A o \in OrderIds :
        Exists(o) /\ create[o].pc = "returned"
        => orders[o].payment = create[o].payment /\ orders[o].payment # None
=============================================================================
