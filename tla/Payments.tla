------------------------------ MODULE Payments ------------------------------
(***************************************************************************)
(* The payments service: CreatePayment (a Stripe Checkout Session, then a  *)
(* pending row), the Stripe webhook (find the row, save it as succeeded,   *)
(* publish payment.succeeded, answer 200), and AdminDeletePayment.         *)
(*                                                                         *)
(* The webhook's find, save and publish are separate database and broker   *)
(* calls, so the webhooks of one payment interleave between them.  Stripe  *)
(* is the environment: it delivers an event again until it gets a 200, may *)
(* deliver it after that too, and orders nothing.                          *)
(***************************************************************************)
EXTENDS Naturals

CONSTANTS
    Checkouts,   \* Stripe Checkout Sessions, each with its payment intent
    Orders,      \* order ids
    Kinds,       \* event types the endpoint is subscribed to
    Handlers,    \* concurrent webhook requests
    MaxId,       \* bound: payment ids (UUIDv7, so in creation order)
    MaxDeletes,  \* bound: deletions by an administrator
    None         \* SQL NULL, the empty string, the absent row

SessionCompleted == "checkout.session.completed"
IntentSucceeded == "payment_intent.succeeded"

ASSUME KindsAssumption == Kinds \subseteq {SessionCompleted, IntentSucceeded}
ASSUME BoundsAssumption == MaxId \in Nat /\ MaxDeletes \in Nat
ASSUME NoneAssumption ==
    None \notin Checkouts /\ None \notin Orders /\ None \notin Kinds

Ids == 1..MaxId

VARIABLES
    checkout,  \* Stripe's session and the CreatePayment call it came from
    payments,  \* the payments table
    handler,   \* what each webhook request has in hand
    acked,     \* events Stripe has seen answered with 200
    stream,    \* payment.succeeded messages in the PAYMENTS stream
    deletes    \* deletions so far

vars == <<checkout, payments, handler, acked, stream, deletes>>

Events == [kind : Kinds, checkout : Checkouts]

\* A checkout and its intent carry one name here, so a session id and an
\* intent id belong together exactly when they are equal.  A time is named by
\* the kind of the event it was taken from.
Row == [session : Checkouts \cup {None},
        intent  : Checkouts \cup {None},
        order   : Orders \cup {None},
        status  : {"pending", "succeeded"},
        paidAt  : Kinds \cup {None}]

Task == [event : Events, id : Ids, row : Row, pc : {"save", "publish"}]

Message == [payment : Ids, order : Orders \cup {None}, checkout : Checkouts,
            kind : Kinds]

\* A completed checkout is paid for at once with some methods of payment; with
\* others the money is outstanding then, and may never come.
Stages == {"none", "session", "offered", "abandoned", "completed", "paid"}

Completed(c) == checkout[c].stage \in {"completed", "paid"}

TypeOK ==
    /\ checkout \in [Checkouts -> [stage : Stages,
                                   order : Orders \cup {None},
                                   id    : Ids \cup {None}]]
    /\ payments \in [Ids -> Row \cup {None}]
    /\ handler \in [Handlers -> Task \cup {None}]
    /\ acked \subseteq Events
    /\ stream \subseteq Message
    /\ deletes \in 0..MaxDeletes

Init ==
    /\ checkout = [c \in Checkouts |->
                     [stage |-> "none", order |-> None, id |-> None]]
    /\ payments = [i \in Ids |-> None]
    /\ handler = [h \in Handlers |-> None]
    /\ acked = {}
    /\ stream = {}
    /\ deletes = 0

(***************************************************************************)
(* uuid.NewV7.  Only the order of the ids in use matters, so the new id is *)
(* the one after the largest id anything still refers to.                  *)
(***************************************************************************)
InUse(i) ==
    \/ payments[i] # None
    \/ \E c \in Checkouts : checkout[c].id = i
    \/ \E h \in Handlers : handler[h] # None /\ handler[h].id = i
    \/ \E m \in stream : m.payment = i

NewId(i) ==
    /\ \A j \in Ids : j >= i => ~InUse(j)
    /\ i > 1 => InUse(i - 1)

-----------------------------------------------------------------------------
(***************************************************************************)
(* CreatePayment.                                                          *)
(***************************************************************************)
\* The session is created at Stripe, with the order in its metadata.
CreateSession(c, o) ==
    /\ checkout[c].stage = "none"
    /\ \E i \in Ids :
         /\ NewId(i)
         /\ checkout' = [checkout EXCEPT ![c] =
                           [stage |-> "session", order |-> o, id |-> i]]
    /\ UNCHANGED <<payments, handler, acked, stream, deletes>>

\* The pending row is inserted and the checkout URL returned.
CreatePending(c) ==
    /\ checkout[c].stage = "session"
    /\ payments' = [payments EXCEPT ![checkout[c].id] =
                      [session |-> c, intent |-> None,
                       order |-> checkout[c].order,
                       status |-> "pending", paidAt |-> None]]
    /\ checkout' = [checkout EXCEPT ![c].stage = "offered"]
    /\ UNCHANGED <<handler, acked, stream, deletes>>

\* The insert fails, or the service dies first: nobody learns the URL.
CreatePaymentFails(c) ==
    /\ checkout[c].stage = "session"
    /\ checkout' = [checkout EXCEPT ![c].stage = "abandoned"]
    /\ UNCHANGED <<payments, handler, acked, stream, deletes>>

\* Stripe: the customer completes the checkout at the URL.
Complete(c) ==
    /\ checkout[c].stage = "offered"
    /\ checkout' = [checkout EXCEPT ![c].stage = "completed"]
    /\ UNCHANGED <<payments, handler, acked, stream, deletes>>

\* Stripe: the payment of a completed checkout succeeds.
Pay(c) ==
    /\ checkout[c].stage = "completed"
    /\ checkout' = [checkout EXCEPT ![c].stage = "paid"]
    /\ UNCHANGED <<payments, handler, acked, stream, deletes>>

\* Stripe: checkout.session.completed exists from completion on, whether the
\* payment has succeeded or not; payment_intent.succeeded means that it has.
Sent(e) ==
    \/ e.kind = SessionCompleted /\ Completed(e.checkout)
    \/ checkout[e.checkout].stage = "paid"

AdminDeletePayment(i) ==
    /\ deletes < MaxDeletes
    /\ payments[i] # None
    /\ payments' = [payments EXCEPT ![i] = None]
    /\ deletes' = deletes + 1
    /\ UNCHANGED <<checkout, handler, acked, stream>>

-----------------------------------------------------------------------------
(***************************************************************************)
(* The webhook.  ParseSucceededEvent: a session event names the session,   *)
(* its intent and the order; an intent event only the intent, because the  *)
(* metadata was put on the session.                                        *)
(***************************************************************************)
ParseSucceededEvent(e) ==
    IF e.kind = SessionCompleted
    THEN [session |-> e.checkout, intent |-> e.checkout,
          order |-> checkout[e.checkout].order]
    ELSE [session |-> None, intent |-> e.checkout, order |-> None]

\* Variant of Matches: a row that has no intent yet will do for any.
MatchesPending(info, i) ==
    /\ payments[i] # None
    /\ \/ payments[i].intent \in {None, info.intent}
       \/ info.session # None /\ payments[i].session = info.session

\* WHERE stripe_payment_id = ? OR stripe_session_id = ?; NULL equals nothing.
Matches(info, i) ==
    /\ payments[i] # None
    /\ \/ info.intent # None /\ payments[i].intent = info.intent
       \/ info.session # None /\ payments[i].session = info.session

\* First orders by primary key.
FirstMatch(info, i) ==
    Matches(info, i) /\ \A j \in Ids : Matches(info, j) => i <= j

\* Variant of Filled in which what the event says always wins.
Overwritten(old, new) == IF new = None THEN old ELSE new

Filled(old, new) == IF old = None THEN new ELSE old

\* Variants of Succeeded: the order is the event's; the status is Stripe's word.
SucceededForEventOrder(row, info, kind) ==
    [session |-> Filled(row.session, info.session),
     intent  |-> Filled(row.intent, info.intent),
     order   |-> info.order,
     status  |-> "succeeded",
     paidAt  |-> Filled(row.paidAt, kind)]

SucceededAsStripeSays(row, info, kind) ==
    [session |-> Filled(row.session, info.session),
     intent  |-> Filled(row.intent, info.intent),
     order   |-> Filled(row.order, info.order),
     status  |-> "paid",
     paidAt  |-> Filled(row.paidAt, kind)]

\* The fields UpsertSucceeded sets before it saves.
Succeeded(row, info, kind) ==
    [session |-> Filled(row.session, info.session),
     intent  |-> Filled(row.intent, info.intent),
     order   |-> Filled(row.order, info.order),
     status  |-> "succeeded",
     paidAt  |-> Filled(row.paidAt, kind)]

NewRow(info) ==
    [session |-> info.session, intent |-> info.intent, order |-> None,
     status |-> "succeeded", paidAt |-> None]

\* A request arrives and UpsertSucceeded runs its SELECT.  The handler takes a
\* session event as it comes: payment_status is not read.
Find(h, e) ==
    LET info == ParseSucceededEvent(e) IN
    /\ Sent(e)
    /\ handler[h] = None
    /\ \E i \in Ids, row \in {payments[j] : j \in Ids} \cup {NewRow(info)} :
         /\ \/ FirstMatch(info, i) /\ row = payments[i]
            \/ /\ \A j \in Ids : ~Matches(info, j)
               /\ NewId(i) /\ row = NewRow(info)
         /\ handler' = [handler EXCEPT ![h] =
                          [event |-> e, id |-> i, pc |-> "save",
                           row |-> Succeeded(row, info, e.kind)]]
    /\ UNCHANGED <<checkout, payments, acked, stream, deletes>>

\* The unique indexes on stripe_session_id and stripe_payment_id.
Conflict(i, row) ==
    \E j \in Ids \ {i} :
        /\ payments[j] # None
        /\ \/ row.session # None /\ payments[j].session = row.session
           \/ row.intent # None /\ payments[j].intent = row.intent

\* Variant of Save in which an error of the database is only logged.
SaveLogged(h) ==
    /\ handler[h] # None
    /\ handler[h].pc = "save"
    /\ payments' \in {payments,
                     [payments EXCEPT ![handler[h].id] = handler[h].row]}
    /\ handler' = [handler EXCEPT ![h].pc = "publish"]
    /\ UNCHANGED <<checkout, acked, stream, deletes>>

\* gorm Save: UPDATE every column, and INSERT when no row was updated.
Save(h) ==
    /\ handler[h] # None
    /\ handler[h].pc = "save"
    /\ ~Conflict(handler[h].id, handler[h].row)
    /\ payments' = [payments EXCEPT ![handler[h].id] = handler[h].row]
    /\ handler' = [handler EXCEPT ![h].pc = "publish"]
    /\ UNCHANGED <<checkout, acked, stream, deletes>>

MessageOf(task) ==
    [payment |-> task.id, order |-> task.row.order,
     checkout |-> task.event.checkout, kind |-> task.event.kind]

\* payment.succeeded is in the stream and Stripe gets its 200.
Publish(h) ==
    /\ handler[h] # None
    /\ handler[h].pc = "publish"
    /\ stream' = stream \cup {MessageOf(handler[h])}
    /\ acked' = acked \cup {handler[h].event}
    /\ handler' = [handler EXCEPT ![h] = None]
    /\ UNCHANGED <<checkout, payments, deletes>>

\* The message is stored but the broker's or our own answer is lost.
PublishUnanswered(h) ==
    /\ handler[h] # None
    /\ handler[h].pc = "publish"
    /\ stream' = stream \cup {MessageOf(handler[h])}
    /\ handler' = [handler EXCEPT ![h] = None]
    /\ UNCHANGED <<checkout, payments, acked, deletes>>

\* Variant of Fail in which an error of the broker is only logged.
FailAnswered(h) ==
    /\ handler[h] # None
    /\ acked' = IF handler[h].pc = "publish"
                THEN acked \cup {handler[h].event} ELSE acked
    /\ handler' = [handler EXCEPT ![h] = None]
    /\ UNCHANGED <<checkout, payments, stream, deletes>>

\* A unique violation, a database or broker error, a cancelled request or a
\* crash: 500 or no answer, and what was saved stays saved.
Fail(h) ==
    /\ handler[h] # None
    /\ handler' = [handler EXCEPT ![h] = None]
    /\ UNCHANGED <<checkout, payments, acked, stream, deletes>>

-----------------------------------------------------------------------------
Webhook(h) ==
    \/ \E e \in Events : Find(h, e)
    \/ Save(h)
    \/ Publish(h)
    \/ PublishUnanswered(h)
    \/ Fail(h)

Next ==
    \/ \E c \in Checkouts :
         \/ \E o \in Orders : CreateSession(c, o)
         \/ CreatePending(c)
         \/ CreatePaymentFails(c)
         \/ Complete(c) \/ Pay(c)
    \/ \E i \in Ids : AdminDeletePayment(i)
    \/ \E h \in Handlers : Webhook(h)

Spec == Init /\ [][Next]_vars

(***************************************************************************)
(* A request always ends (handlers are not blocked for ever), Stripe keeps *)
(* delivering an event it has no 200 for, and the database and the broker  *)
(* do not fail every one of infinitely many tries of one event.            *)
(***************************************************************************)
Fairness ==
    /\ \A h \in Handlers : WF_vars(Save(h) \/ Publish(h) \/ Fail(h))
    /\ \A e \in Events :
         /\ SF_vars(e \notin acked /\ \E h \in Handlers : Find(h, e))
         /\ SF_vars(\E h \in Handlers :
                      handler[h] # None /\ handler[h].event = e /\ Save(h))
         /\ SF_vars(\E h \in Handlers :
                      handler[h] # None /\ handler[h].event = e /\ Publish(h))

FairSpec == Spec /\ Fairness

-----------------------------------------------------------------------------
OrderOf(c) == checkout[c].order

BelongsTo(row, c) ==
    /\ row.session \in {None, c}
    /\ row.intent \in {None, c}
    /\ row.order \in {None, OrderOf(c)}
    /\ row.status = "succeeded" => Completed(c)

\* Stripe stops retrying an event only once the message that marks the order
\* paid is in the stream, whatever crashed or raced in between
\* (webhook/handler.go process: save, then publish, then 200).
AckedReachesOrder ==
    \A e \in acked : e.kind = SessionCompleted =>
        \E m \in stream : /\ m.checkout = e.checkout
                          /\ m.order = OrderOf(e.checkout)

\* A payment.succeeded message is about a checkout that was completed, and
\* never names the order of another checkout.
MessagesTruthful ==
    \A m \in stream : /\ Completed(m.checkout)
                      /\ m.order \in {None, OrderOf(m.checkout)}

\* The webhooks of two payments never end up in one row: a row's session,
\* intent and order belong to one checkout, and it is succeeded only if that
\* checkout was completed.
RowsDoNotMix ==
    \A i \in Ids : payments[i] # None =>
        \E c \in Checkouts : BelongsTo(payments[i], c)

\* The idempotence of UpsertSucceeded: while the row is there, no later or
\* concurrent webhook takes back its status or changes when and with which
\* intent it was paid, although every webhook rewrites the whole row from an
\* earlier read.
SucceededStays ==
    [][\A i \in Ids :
         /\ payments[i] # None
         /\ payments[i].status = "succeeded"
         /\ payments'[i] # None
         => /\ payments'[i].status = "succeeded"
            /\ payments'[i].paidAt = payments[i].paidAt
            /\ payments'[i].intent = payments[i].intent]_vars

\* "marks the payment succeeded and publishes payment.succeeded": the order of
\* every paid checkout is eventually announced.
PaidReachesOrder ==
    \A c \in Checkouts :
        checkout[c].stage = "paid"
        ~> \E m \in stream : m.checkout = c /\ m.order = OrderOf(c)

=============================================================================
