--------------------------- MODULE CheckoutProofs ---------------------------
(***************************************************************************)
(* Theorems about the order and payments services together, for any        *)
(* number of orders, checkouts, webhooks and administrators.  What the     *)
(* proofs of the two services show is used here through instances of them. *)
(***************************************************************************)
EXTENDS Checkout, TLAPS

PP == INSTANCE PaymentsProofs

OP == INSTANCE OrdersProofs WITH
        OrderIds <- Orders, PaymentIds <- P!Ids, Message <- P!Message,
        acked <- consumed

\* The instances that the model and the proofs make of a service are the same.
LEMMA PaymentsSame == P!Spec <=> PP!Spec
<1>1. P!Init <=> PP!Init
  BY DEF P!Init, PP!Init, P!Ids, PP!Ids
<1>2. P!Next <=> PP!Next
  BY Zenon
  DEF P!Next, P!CreateSession, P!CreatePending, P!CreatePaymentFails,
      P!Complete, P!Pay, P!Sent, P!Completed, P!IntentSucceeded,
      P!AdminDeletePayment, P!Webhook, P!Find, P!Save, P!Publish,
      P!PublishUnanswered, P!Fail, P!Ids, P!Events, P!Matches, P!FirstMatch,
      P!NewId, P!InUse, P!ParseSucceededEvent, P!NewRow, P!Succeeded,
      P!Filled, P!Conflict, P!MessageOf, P!SessionCompleted,
      PP!Next, PP!CreateSession, PP!CreatePending, PP!CreatePaymentFails,
      PP!Complete, PP!Pay, PP!Sent, PP!Completed, PP!IntentSucceeded,
      PP!AdminDeletePayment, PP!Webhook, PP!Find, PP!Save, PP!Publish,
      PP!PublishUnanswered, PP!Fail, PP!Ids, PP!Events, PP!Matches,
      PP!FirstMatch, PP!NewId, PP!InUse, PP!ParseSucceededEvent, PP!NewRow,
      PP!Succeeded, PP!Filled, PP!Conflict, PP!MessageOf, PP!SessionCompleted
<1>3. [P!Next]_P!vars <=> [PP!Next]_PP!vars
  BY <1>2 DEF P!vars, PP!vars
<1> QED
  BY <1>1, <1>3, PTL DEF P!Spec, PP!Spec

LEMMA OrdersNextSame == [O!Next]_O!vars <=> [OP!Next]_OP!vars
<1>1. O!Next <=> OP!Next
  BY DEF O!Next, O!Creation, O!CreateOrder, O!CreatePayment,
      O!SetPaymentInfo, O!CreateOrderFails, O!PaymentSucceeded,
      O!AdminDeleteOrder, O!Worker, O!MarkPaid, O!Ack, O!AckLost,
      O!Administration, O!UpdateRead, O!UpdateWrite, O!UpdateReread,
      O!NotifyStatusChanged, O!UpdateEnds, O!Exists, O!MarkPaidGuard, O!At,
      O!Updated, O!EventTime, O!AdminTime,
      OP!Next, OP!Creation, OP!CreateOrder, OP!CreatePayment,
      OP!SetPaymentInfo, OP!CreateOrderFails, OP!PaymentSucceeded,
      OP!AdminDeleteOrder, OP!Worker, OP!MarkPaid, OP!Ack, OP!AckLost,
      OP!Administration, OP!UpdateRead, OP!UpdateWrite, OP!UpdateReread,
      OP!NotifyStatusChanged, OP!UpdateEnds, OP!Exists, OP!MarkPaidGuard,
      OP!At, OP!Updated, OP!EventTime, OP!AdminTime
<1> QED
  BY <1>1 DEF O!vars, OP!vars

LEMMA OrdersInitSame == O!Init <=> OP!Init
BY DEF O!Init, OP!Init

LEMMA OrdersTypeSame == O!TypeOK <=> OP!TypeOK
BY DEF O!TypeOK, OP!TypeOK, O!Order, OP!Order, O!Statuses, OP!Statuses,
       O!Times, OP!Times, O!EventTime, OP!EventTime, O!AdminTime,
       OP!AdminTime, O!Stages, OP!Stages, O!Update, OP!Update

\* The services share the stream, to which only the payments service adds.
LEMMA OrdersStepKeeps ==
    ASSUME OrdersStep
    PROVE  UNCHANGED <<checkout, payments, handler, acked, stream, deletes>>
<1>1. ASSUME NEW c \in Checkouts, CreatePaymentReturns(c)
      PROVE  UNCHANGED <<checkout, payments, handler, acked, stream, deletes>>
  BY <1>1 DEF CreatePaymentReturns, O!CreatePayment, paymentsOnly
<1>2. ASSUME NEW o \in Orders,
             \/ O!CreateOrder(o) \/ O!SetPaymentInfo(o)
             \/ O!CreateOrderFails(o) \/ O!AdminDeleteOrder(o)
      PROVE  stream' = stream
  BY <1>2 DEF O!CreateOrder, O!SetPaymentInfo, O!CreateOrderFails,
              O!AdminDeleteOrder
<1>3. ASSUME O!Worker PROVE stream' = stream
  BY <1>3 DEF O!Worker, O!MarkPaid, O!Ack, O!AckLost
<1>4. ASSUME NEW a \in Admins, O!Administration(a) PROVE stream' = stream
  BY <1>4 DEF O!Administration, O!UpdateRead, O!UpdateWrite,
              O!UpdateReread, O!NotifyStatusChanged, O!UpdateEnds
<1> QED
  BY <1>1, <1>2, <1>3, <1>4 DEF OrdersStep, paymentsOnly

LEMMA PaymentsStepKeeps == PaymentsStep => UNCHANGED ordersOnly
BY DEF PaymentsStep, CreateSession, Complete

-----------------------------------------------------------------------------
(***************************************************************************)
(* The payments service in the composition is the payments service.        *)
(***************************************************************************)
LEMMA PaymentsStepImplements == [Next]_vars => [P!Next]_P!vars
<1> SUFFICES ASSUME Next PROVE P!Next \/ UNCHANGED P!vars
  BY DEF vars, paymentsOnly, P!vars
<1>1. ASSUME NEW c \in Checkouts,
             \/ \E o \in Orders : CreateSession(c, o)
             \/ P!CreatePending(c) \/ P!CreatePaymentFails(c)
             \/ Complete(c) \/ P!Pay(c)
      PROVE  P!Next
  BY <1>1 DEF P!Next, CreateSession, Complete
<1>2. ASSUME NEW i \in P!Ids, P!AdminDeletePayment(i) PROVE P!Next
  BY <1>2 DEF P!Next
<1>3. ASSUME NEW h \in Handlers, P!Webhook(h) PROVE P!Next
  BY <1>3 DEF P!Next
<1>4. ASSUME OrdersStep PROVE UNCHANGED P!vars
  BY <1>4, OrdersStepKeeps DEF P!vars
<1> QED
  BY <1>1, <1>2, <1>3, <1>4 DEF Next, PaymentsStep

\* Run together with the order service, the payments service behaves as it does
\* alone.
THEOREM PaymentsSpecHolds == Spec => PaymentsSpec
<1>1. Init => P!Init
  BY DEF Init
<1> QED
  BY <1>1, PaymentsStepImplements, PTL DEF Spec, PaymentsSpec, P!Spec

-----------------------------------------------------------------------------
(***************************************************************************)
(* The order service assumes that a message names only an order whose URL  *)
(* was returned.  It is met because a session is known to the customer     *)
(* only through the order service, a webhook knows the order of a          *)
(* completed session, and no step takes that back.                         *)
(***************************************************************************)
HeldIsCompleted ==
    \A h \in Handlers : handler[h] # None =>
        /\ P!Completed(handler[h].event.checkout)
        /\ handler[h].row.order
             \in {None, checkout[handler[h].event.checkout].order}

Paying == P!TypeOK /\ HeldIsCompleted /\ P!MessagesTruthful

\* What PaymentsProofs has shown, in the terms of the composition.
LEMMA PayingHolds == Spec => []Paying
<1>1. PP!Ownership => Paying
  <2> SUFFICES ASSUME PP!Ownership PROVE Paying
    OBVIOUS
  <2>1. P!TypeOK
    BY DEF PP!Ownership, PP!TypeOK, P!TypeOK, PP!Stages, P!Stages, PP!Ids,
           P!Ids, PP!Row, P!Row, PP!Task, P!Task, PP!Events, P!Events,
           PP!Message, P!Message
  <2>2. HeldIsCompleted
    BY DEF PP!Ownership, PP!TasksBelong, PP!BelongsTo, PP!OrderOf,
           HeldIsCompleted, PP!Completed, P!Completed
  <2>3. P!MessagesTruthful
    BY DEF PP!Ownership, PP!MessagesTruthful, P!MessagesTruthful, PP!OrderOf,
           P!OrderOf, PP!Completed, P!Completed
  <2> QED
    BY <2>1, <2>2, <2>3 DEF Paying
<1>2. PP!Spec => []PP!Ownership
  BY PP!OwnershipInvariant, ServicesAssumption
  DEF P!KindsAssumption, P!BoundsAssumption, P!NoneAssumption,
      P!SessionCompleted, P!IntentSucceeded, PP!SessionCompleted,
      PP!IntentSucceeded
<1> QED
  BY <1>1, <1>2, PaymentsSpecHolds, PaymentsSame, PTL DEF PaymentsSpec

\* A session that was begun has its order, and an id that is its own.
SessionsApart ==
    /\ \A c \in Checkouts : checkout[c].stage # "none" =>
         checkout[c].order \in Orders /\ checkout[c].id \in P!Ids
    /\ \A c \in Checkouts :
         checkout[c].stage = "none" => checkout[c].id = None
    /\ \A c, d \in Checkouts :
         checkout[c].id # None /\ checkout[c].id = checkout[d].id => c = d

Offered == {"offered", "completed", "paid"}

\* What CreateOrder was answered is a session offered for its order.
AnswersTrue ==
    \A o \in Orders :
        /\ create[o].pc \in {"none", "inserted"} => create[o].payment = None
        /\ create[o].payment # None =>
             \E c \in Checkouts :
                /\ checkout[c].order = o
                /\ checkout[c].id = create[o].payment
                /\ checkout[c].stage \in Offered

CompletedWasReturned ==
    \A c \in Checkouts : P!Completed(c) =>
        create[checkout[c].order].pc = "returned"

Linked == O!TypeOK /\ SessionsApart /\ AnswersTrue /\ CompletedWasReturned

\* The row and the copies with a session's id are the session's.
RowsOfSessions ==
    \A c \in Checkouts : checkout[c].id # None =>
        /\ payments[checkout[c].id] # None =>
             /\ payments[checkout[c].id].session = c
             /\ payments[checkout[c].id].order = checkout[c].order
        /\ \A h \in Handlers :
             handler[h] # None /\ handler[h].id = checkout[c].id =>
               /\ handler[h].row.session = c
               /\ handler[h].row.order = checkout[c].order

AttachedAnswer ==
    \A o \in Orders : orders[o] # None =>
        orders[o].payment \in {None, create[o].payment}

Paired == RowsOfSessions /\ AttachedAnswer

-----------------------------------------------------------------------------
(***************************************************************************)
(* What a step of the composition does to a checkout and to a call.        *)
(***************************************************************************)
LEMMA CheckoutStep ==
    ASSUME P!TypeOK, [Next]_vars, NEW c \in Checkouts
    PROVE  \/ checkout'[c] = checkout[c]
           \/ \E o \in Orders : CreateSession(c, o)
           \/ /\ checkout[c].stage = "session"
              /\ checkout'[c].stage \in {"offered", "abandoned"}
              /\ checkout'[c].order = checkout[c].order
              /\ checkout'[c].id = checkout[c].id
           \/ /\ Complete(c) /\ checkout[c].stage = "offered"
              /\ checkout'[c].stage = "completed"
              /\ checkout'[c].order = checkout[c].order
              /\ checkout'[c].id = checkout[c].id
           \/ /\ checkout[c].stage = "completed"
              /\ checkout'[c].stage = "paid"
              /\ checkout'[c].order = checkout[c].order
              /\ checkout'[c].id = checkout[c].id
<1> DEFINE Goal ==
      \/ checkout'[c] = checkout[c]
      \/ \E o \in Orders : CreateSession(c, o)
      \/ /\ checkout[c].stage = "session"
         /\ checkout'[c].stage \in {"offered", "abandoned"}
         /\ checkout'[c].order = checkout[c].order
         /\ checkout'[c].id = checkout[c].id
      \/ /\ Complete(c) /\ checkout[c].stage = "offered"
         /\ checkout'[c].stage = "completed"
         /\ checkout'[c].order = checkout[c].order
         /\ checkout'[c].id = checkout[c].id
      \/ /\ checkout[c].stage = "completed"
         /\ checkout'[c].stage = "paid"
         /\ checkout'[c].order = checkout[c].order
         /\ checkout'[c].id = checkout[c].id
<1>1. ASSUME NEW d \in Checkouts, NEW o \in Orders, CreateSession(d, o)
      PROVE  Goal
  BY <1>1 DEF CreateSession, P!CreateSession, P!TypeOK
<1>2. ASSUME NEW d \in Checkouts,
             P!CreatePending(d) \/ P!CreatePaymentFails(d)
      PROVE  Goal
  BY <1>2 DEF P!CreatePending, P!CreatePaymentFails, P!TypeOK
<1>3. ASSUME NEW d \in Checkouts, Complete(d) \/ P!Pay(d) PROVE Goal
  BY <1>3 DEF Complete, P!Complete, P!Pay, P!TypeOK
<1>4. ASSUME NEW i \in P!Ids, P!AdminDeletePayment(i) PROVE Goal
  BY <1>4 DEF P!AdminDeletePayment
<1>5. ASSUME NEW h \in Handlers, P!Webhook(h) PROVE Goal
  BY <1>5 DEF P!Webhook, P!Find, P!Save, P!Publish, P!PublishUnanswered,
              P!Fail
<1>6. CASE OrdersStep \/ UNCHANGED vars
  BY <1>6, OrdersStepKeeps DEF vars, paymentsOnly
<1> QED
  BY <1>1, <1>2, <1>3, <1>4, <1>5, <1>6 DEF Next, PaymentsStep

LEMMA CreateStep ==
    ASSUME O!TypeOK, [Next]_vars, NEW o \in Orders
    PROVE  \/ create'[o] = create[o]
           \/ /\ create[o].pc = "none"
              /\ create'[o].pc = "inserted"
              /\ create'[o].payment = create[o].payment
           \/ /\ create[o].pc \in {"inserted", "attaching"}
              /\ create'[o].pc \in {"returned", "failed"}
              /\ create'[o].payment = create[o].payment
           \/ \E c \in Checkouts :
                /\ CreatePaymentReturns(c)
                /\ checkout[c].order = o
                /\ create[o].pc = "inserted"
                /\ create'[o] = [pc |-> "attaching",
                                 payment |-> checkout[c].id]
<1> DEFINE Goal ==
      \/ create'[o] = create[o]
      \/ /\ create[o].pc = "none"
         /\ create'[o].pc = "inserted"
         /\ create'[o].payment = create[o].payment
      \/ /\ create[o].pc \in {"inserted", "attaching"}
         /\ create'[o].pc \in {"returned", "failed"}
         /\ create'[o].payment = create[o].payment
      \/ \E c \in Checkouts :
           /\ CreatePaymentReturns(c)
           /\ checkout[c].order = o
           /\ create[o].pc = "inserted"
           /\ create'[o] = [pc |-> "attaching", payment |-> checkout[c].id]
<1>1. ASSUME NEW c \in Checkouts, CreatePaymentReturns(c) PROVE Goal
  BY <1>1 DEF CreatePaymentReturns, O!CreatePayment, O!TypeOK
<1>2. ASSUME NEW q \in Orders,
             O!CreateOrder(q) \/ O!SetPaymentInfo(q) \/ O!CreateOrderFails(q)
      PROVE  Goal
  BY <1>2 DEF O!CreateOrder, O!SetPaymentInfo, O!CreateOrderFails, O!TypeOK
<1>3. ASSUME NEW q \in Orders, O!AdminDeleteOrder(q) PROVE Goal
  BY <1>3 DEF O!AdminDeleteOrder
<1>4. CASE O!Worker
  BY <1>4 DEF O!Worker, O!MarkPaid, O!Ack, O!AckLost
<1>5. ASSUME NEW a \in Admins, O!Administration(a) PROVE Goal
  BY <1>5 DEF O!Administration, O!UpdateRead, O!UpdateWrite,
              O!UpdateReread, O!NotifyStatusChanged, O!UpdateEnds
<1>6. CASE PaymentsStep \/ UNCHANGED vars
  BY <1>6, PaymentsStepKeeps DEF vars, ordersOnly
<1> QED
  BY <1>1, <1>2, <1>3, <1>4, <1>5, <1>6 DEF Next, OrdersStep

-----------------------------------------------------------------------------
(***************************************************************************)
(* The order service in the composition is the order service.              *)
(***************************************************************************)
LEMMA PublishedNamesReturned ==
    ASSUME Paying, Linked, NEW h \in Handlers,
           P!Publish(h) \/ P!PublishUnanswered(h), UNCHANGED ordersOnly
    PROVE  [O!Next]_O!vars
<1> DEFINE m == P!MessageOf(handler[h])
<1> DEFINE c == handler[h].event.checkout
<1>1. handler[h] \in P!Task /\ handler[h] # None
  BY DEF Paying, P!TypeOK, P!Publish, P!PublishUnanswered
<1>2. m \in P!Message /\ c \in Checkouts
  BY <1>1 DEF P!Task, P!Message, P!MessageOf, P!Row, P!Events
<1>3. m.order \in {None, checkout[c].order} /\ P!Completed(c)
  BY <1>1 DEF Paying, HeldIsCompleted, P!MessageOf
<1>4. m.order # None => create[m.order].pc = "returned"
  BY <1>2, <1>3 DEF Linked, CompletedWasReturned
<1>5. stream' = stream \cup {m}
  BY DEF P!Publish, P!PublishUnanswered
<1> HIDE DEF m
<1>6. CASE m \in stream
  BY <1>5, <1>6 DEF O!vars, ordersOnly
<1>7. CASE m \notin stream
  <2>1. O!PaymentSucceeded(m)
    BY <1>4, <1>5, <1>7 DEF O!PaymentSucceeded, ordersOnly
  <2> QED
    BY <1>2, <2>1 DEF O!Next
<1> QED
  BY <1>6, <1>7

LEMMA OrdersStepImplements ==
    Paying /\ Linked /\ [Next]_vars => [O!Next]_O!vars
<1> SUFFICES ASSUME Paying, Linked, [Next]_vars PROVE [O!Next]_O!vars
  OBVIOUS
<1>1. ASSUME NEW c \in Checkouts, NEW o \in Orders, CreateSession(c, o)
      PROVE  UNCHANGED O!vars
  BY <1>1 DEF CreateSession, P!CreateSession, ordersOnly, O!vars
<1>2. ASSUME NEW c \in Checkouts,
             \/ P!CreatePending(c) \/ P!CreatePaymentFails(c)
             \/ Complete(c) \/ P!Pay(c),
             UNCHANGED ordersOnly
      PROVE  UNCHANGED O!vars
  BY <1>2 DEF P!CreatePending, P!CreatePaymentFails, Complete, P!Complete,
              P!Pay, ordersOnly, O!vars
<1>3. ASSUME NEW i \in P!Ids, P!AdminDeletePayment(i), UNCHANGED ordersOnly
      PROVE  UNCHANGED O!vars
  BY <1>3 DEF P!AdminDeletePayment, ordersOnly, O!vars
<1>4. ASSUME NEW h \in Handlers, P!Webhook(h), UNCHANGED ordersOnly
      PROVE  [O!Next]_O!vars
  <2>1. CASE P!Publish(h) \/ P!PublishUnanswered(h)
    BY <1>4, <2>1, PublishedNamesReturned
  <2>2. CASE (\E e \in P!Events : P!Find(h, e)) \/ P!Save(h) \/ P!Fail(h)
    BY <1>4, <2>2 DEF P!Find, P!Save, P!Fail, ordersOnly, O!vars
  <2> QED
    BY <1>4, <2>1, <2>2 DEF P!Webhook
<1>5. ASSUME NEW c \in Checkouts, CreatePaymentReturns(c) PROVE O!Next
  <2>1. /\ checkout[c].order \in Orders /\ checkout[c].id \in P!Ids
        /\ O!CreatePayment(checkout[c].order, checkout[c].id)
    BY <1>5 DEF CreatePaymentReturns, Linked, SessionsApart
  <2> QED
    BY <2>1 DEF O!Next, O!Creation
<1>6. ASSUME NEW o \in Orders,
             \/ O!CreateOrder(o) \/ O!SetPaymentInfo(o)
             \/ O!CreateOrderFails(o) \/ O!AdminDeleteOrder(o)
      PROVE  O!Next
  BY <1>6 DEF O!Next, O!Creation
<1>7. CASE O!Worker
  BY <1>7 DEF O!Next
<1>8. ASSUME NEW a \in Admins, O!Administration(a) PROVE O!Next
  BY <1>8 DEF O!Next
<1>9. CASE UNCHANGED vars
  BY <1>9 DEF vars, ordersOnly, O!vars
<1> QED
  BY <1>1, <1>2, <1>3, <1>4, <1>5, <1>6, <1>7, <1>8, <1>9, PaymentsStepKeeps
  DEF Next, PaymentsStep, OrdersStep

LEMMA LinkedStep == Paying /\ Linked /\ [Next]_vars => Linked'
<1> SUFFICES ASSUME Paying, Linked, [Next]_vars PROVE Linked'
  OBVIOUS
<1> USE DEF Linked
<1>1. P!TypeOK
  BY DEF Paying
<1>2. O!TypeOK'
  <2>1. OP!TypeOK /\ [OP!Next]_OP!vars
    BY OrdersStepImplements, OrdersNextSame, OrdersTypeSame
  <2>2. OP!TypeOK'
    BY <2>1, OP!TypeOKStep, ServicesAssumption
    DEF O!RequestedAssumption, O!MessageAssumption, O!NoneAssumption,
        O!Times, OP!Times, O!EventTime, OP!EventTime, O!AdminTime,
        OP!AdminTime, O!Statuses, OP!Statuses
  <2> QED
    BY <2>2
    DEF O!TypeOK, OP!TypeOK, O!Order, OP!Order, O!Statuses, OP!Statuses,
        O!Times, OP!Times, O!EventTime, OP!EventTime, O!AdminTime,
        OP!AdminTime, O!Stages, OP!Stages, O!Update, OP!Update
<1>3. None \notin P!Ids
  BY ServicesAssumption DEF O!NoneAssumption
<1>4. SessionsApart'
  <2>1. ASSUME NEW c \in Checkouts, NEW o \in Orders, CreateSession(c, o)
        PROVE  SessionsApart'
    <3>1. PICK i \in P!Ids :
            /\ P!NewId(i)
            /\ checkout' = [checkout EXCEPT ![c] =
                 [stage |-> "session", order |-> o, id |-> i]]
      BY <2>1 DEF CreateSession, P!CreateSession
    <3>2. \A d \in Checkouts : checkout[d].id # i
      BY <3>1 DEF P!NewId, P!InUse, P!Ids
    <3> QED
      BY <1>1, <3>1, <3>2 DEF SessionsApart, P!TypeOK
  <2>2. CASE \A c \in Checkouts : \A o \in Orders : ~CreateSession(c, o)
    <3>1. ASSUME NEW c \in Checkouts
          PROVE  /\ checkout'[c].order = checkout[c].order
                 /\ checkout'[c].id = checkout[c].id
                 /\ checkout'[c].stage = "none" <=> checkout[c].stage = "none"
      BY <1>1, <2>2, CheckoutStep
    <3> QED
      BY <3>1 DEF SessionsApart
  <2> QED
    BY <2>1, <2>2
<1>5. ASSUME NEW c \in Checkouts, checkout[c].stage \in Offered
      PROVE  /\ checkout'[c].stage \in Offered
             /\ checkout'[c].order = checkout[c].order
             /\ checkout'[c].id = checkout[c].id
  BY <1>1, <1>5, CheckoutStep DEF CreateSession, P!CreateSession, Offered
<1>6. AnswersTrue'
  <2> SUFFICES ASSUME NEW o \in Orders
               PROVE  /\ create'[o].pc \in {"none", "inserted"}
                         => create'[o].payment = None
                      /\ create'[o].payment # None =>
                           \E c \in Checkouts :
                              /\ checkout'[c].order = o
                              /\ checkout'[c].id = create'[o].payment
                              /\ checkout'[c].stage \in Offered
    BY DEF AnswersTrue
  <2>1. ASSUME NEW c \in Checkouts, CreatePaymentReturns(c),
               checkout[c].order = o,
               create'[o] = [pc |-> "attaching", payment |-> checkout[c].id]
        PROVE  /\ create'[o].pc \notin {"none", "inserted"}
               /\ checkout'[c].order = o
               /\ checkout'[c].id = create'[o].payment
               /\ checkout'[c].stage \in Offered
    BY <1>5, <2>1 DEF CreatePaymentReturns, Offered
  <2>2. CASE create'[o].payment = create[o].payment
    <3>1. create'[o].pc \in {"none", "inserted"}
          => create[o].pc \in {"none", "inserted"}
      BY <2>1, CreateStep
    <3>2. create[o].payment # None =>
            \E c \in Checkouts :
               /\ checkout[c].order = o
               /\ checkout[c].id = create[o].payment
               /\ checkout[c].stage \in Offered
      BY DEF AnswersTrue
    <3> QED
      BY <1>5, <2>2, <3>1, <3>2 DEF AnswersTrue
  <2> QED
    BY <2>1, <2>2, CreateStep
<1>7. CompletedWasReturned'
  <2> SUFFICES ASSUME NEW c \in Checkouts, P!Completed(c)'
               PROVE  create'[checkout'[c].order].pc = "returned"
    BY DEF CompletedWasReturned
  <2>1. /\ checkout[c].stage \in Offered
        /\ checkout'[c].order = checkout[c].order
        /\ create[checkout[c].order].pc = "returned"
    BY <1>1, CheckoutStep
    DEF Complete, CreateSession, P!CreateSession, CompletedWasReturned,
        P!Completed, P!TypeOK, Offered
  <2>2. checkout[c].order \in Orders
    BY <2>1 DEF SessionsApart, Offered
  <2> QED
    BY <2>1, <2>2, CreateStep
<1> QED
  BY <1>2, <1>4, <1>6, <1>7

LEMMA LinkedHolds == Spec => [](Paying /\ Linked)
<1>1. Init => Linked
  <2> SUFFICES ASSUME Init PROVE Linked
    OBVIOUS
  <2>1. O!TypeOK
    BY DEF Init, O!Init, O!TypeOK, O!Stages
  <2> QED
    BY <2>1
    DEF Init, P!Init, O!Init, Linked, SessionsApart, AnswersTrue,
        CompletedWasReturned, P!Completed
<1> QED
  BY <1>1, LinkedStep, PayingHolds, PTL DEF Spec

\* The messages the payments service publishes meet what the order service
\* assumes of them, so that run together it behaves as it does alone.
THEOREM OrdersSpecHolds == Spec => OrdersSpec
<1>1. Init => O!Init
  BY DEF Init
<1> QED
  BY <1>1, OrdersStepImplements, LinkedHolds, PTL DEF Spec, OrdersSpec, O!Spec

\* What PaymentsProofs and OrdersProofs show holds of the two together: an
\* answered webhook has announced its order, and an announced order that was
\* acknowledged is on record.
THEOREM BothKeepTheirWord ==
    Spec => [](P!AckedReachesOrder /\ P!RowsDoNotMix /\ O!AckedIsRecorded
               /\ O!ToldHad /\ O!PaymentInfoStays)
<1>1. PP!Spec => [](PP!AckedReachesOrder /\ PP!RowsDoNotMix)
  BY PP!AckedReachesOrderAlways, PP!RowsDoNotMixAlways, ServicesAssumption, PTL
  DEF P!KindsAssumption, P!BoundsAssumption, P!NoneAssumption,
      P!SessionCompleted, P!IntentSucceeded, PP!SessionCompleted,
      PP!IntentSucceeded
<1>2. PP!AckedReachesOrder /\ PP!RowsDoNotMix
      => P!AckedReachesOrder /\ P!RowsDoNotMix
  BY DEF PP!AckedReachesOrder, PP!RowsDoNotMix, P!AckedReachesOrder,
         P!RowsDoNotMix, PP!BelongsTo, P!BelongsTo, PP!Completed, P!Completed, PP!OrderOf, P!OrderOf,
         PP!Ids, P!Ids, PP!SessionCompleted, P!SessionCompleted
<1>3. OP!Spec => [](OP!AckedIsRecorded /\ OP!ToldHad /\ OP!PaymentInfoStays)
  BY OP!AckedIsRecordedAlways, OP!ToldHadAlways, OP!PaymentInfoStaysAlways,
     ServicesAssumption, PTL
  DEF O!RequestedAssumption, O!MessageAssumption, O!NoneAssumption,
      O!Times, OP!Times, O!EventTime, OP!EventTime, O!AdminTime,
      OP!AdminTime, O!Statuses, OP!Statuses
<1>4. OP!AckedIsRecorded /\ OP!ToldHad /\ OP!PaymentInfoStays
      => O!AckedIsRecorded /\ O!ToldHad /\ O!PaymentInfoStays
  BY DEF OP!AckedIsRecorded, OP!ToldHad, OP!PaymentInfoStays,
         O!AckedIsRecorded, O!ToldHad, O!PaymentInfoStays, OP!Exists,
         O!Exists
<1>5. O!Spec => OP!Spec
  BY OrdersInitSame, OrdersNextSame, PTL DEF O!Spec, OP!Spec
<1> QED
  BY <1>1, <1>2, <1>3, <1>4, <1>5, PaymentsSame, PaymentsSpecHolds,
     OrdersSpecHolds, PTL DEF PaymentsSpec, OrdersSpec

-----------------------------------------------------------------------------
(***************************************************************************)
(* What a step of the composition does to an order's row.                  *)
(***************************************************************************)
LEMMA OrderStep ==
    ASSUME O!TypeOK, [Next]_vars, NEW o \in Orders, orders'[o] # None
    PROVE  \/ orders'[o] = orders[o]
           \/ /\ O!CreateOrder(o)
              /\ create[o].pc = "none"
              /\ orders'[o] = [status |-> "pending", paidAt |-> None,
                               payment |-> None]
           \/ /\ orders[o] # None
              /\ orders'[o].paidAt = orders[o].paidAt
              /\ orders'[o].payment = create[o].payment
              /\ create'[o].payment = create[o].payment
           \/ /\ orders[o] # None
              /\ orders'[o].payment = orders[o].payment
              /\ \/ orders'[o].paidAt = orders[o].paidAt
                 \/ orders'[o].paidAt = O!AdminTime
                 \/ /\ orders'[o].paidAt = O!EventTime
                    /\ \E m \in stream : m.order = o
<1> DEFINE Goal ==
      \/ orders'[o] = orders[o]
      \/ /\ O!CreateOrder(o)
         /\ create[o].pc = "none"
         /\ orders'[o] = [status |-> "pending", paidAt |-> None,
                          payment |-> None]
      \/ /\ orders[o] # None
         /\ orders'[o].paidAt = orders[o].paidAt
         /\ orders'[o].payment = create[o].payment
         /\ create'[o].payment = create[o].payment
      \/ /\ orders[o] # None
         /\ orders'[o].payment = orders[o].payment
         /\ \/ orders'[o].paidAt = orders[o].paidAt
            \/ orders'[o].paidAt = O!AdminTime
            \/ /\ orders'[o].paidAt = O!EventTime
               /\ \E m \in stream : m.order = o
<1>1. ASSUME NEW c \in Checkouts, CreatePaymentReturns(c) PROVE Goal
  BY <1>1 DEF CreatePaymentReturns, O!CreatePayment
<1>2. ASSUME NEW q \in Orders, O!CreateOrder(q) PROVE Goal
  BY <1>2 DEF O!CreateOrder, O!TypeOK
<1>3. ASSUME NEW q \in Orders, O!SetPaymentInfo(q) PROVE Goal
  <2>1. CASE O!Exists(q) /\ q = o
    <3>1. orders[o] \in O!Order /\ orders[o] # None
      BY <2>1 DEF O!Exists, O!TypeOK
    <3>2. orders'[o] = [orders[o] EXCEPT !.payment = create[o].payment]
      BY <1>3, <2>1 DEF O!SetPaymentInfo, O!TypeOK
    <3>3. create'[o].payment = create[o].payment
      BY <1>3, <2>1 DEF O!SetPaymentInfo, O!TypeOK
    <3> QED
      BY <3>1, <3>2, <3>3 DEF O!Order
  <2>2. CASE ~(O!Exists(q) /\ q = o)
    BY <1>3, <2>2 DEF O!SetPaymentInfo, O!TypeOK
  <2> QED
    BY <2>1, <2>2
<1>4. ASSUME NEW q \in Orders, O!CreateOrderFails(q) \/ O!AdminDeleteOrder(q)
      PROVE  Goal
  BY <1>4 DEF O!CreateOrderFails, O!AdminDeleteOrder, O!TypeOK
<1>5. ASSUME NEW m \in P!Message, O!MarkPaid(m) PROVE Goal
  <2>1. CASE m.order # None /\ O!MarkPaidGuard(m.order) /\ m.order = o
    <3>1. orders[o] \in O!Order /\ orders[o] # None
      BY <2>1 DEF O!MarkPaidGuard, O!Exists, O!TypeOK
    <3>2. orders'[o] = [[orders[o] EXCEPT !.status = "paid"]
                          EXCEPT !.paidAt = O!EventTime]
      BY <1>5, <2>1 DEF O!MarkPaid, O!TypeOK
    <3>3. m \in stream
      BY <1>5 DEF O!MarkPaid
    <3> QED
      BY <2>1, <3>1, <3>2, <3>3 DEF O!Order
  <2>2. CASE ~(m.order # None /\ O!MarkPaidGuard(m.order) /\ m.order = o)
    BY <1>5, <2>2 DEF O!MarkPaid, O!TypeOK
  <2> QED
    BY <2>1, <2>2
<1>6. CASE O!Ack \/ O!AckLost
  BY <1>6 DEF O!Ack, O!AckLost
<1>7. ASSUME NEW a \in Admins, O!UpdateWrite(a) PROVE Goal
  <2>1. CASE O!Exists(admin[a].order) /\ admin[a].order = o
    <3>1. orders[o] \in O!Order /\ orders[o] # None
      BY <2>1 DEF O!Exists, O!TypeOK
    <3>2. orders'[o] = O!Updated(orders[o], admin[a])
      BY <1>7, <2>1 DEF O!UpdateWrite, O!TypeOK
    <3>3. /\ orders'[o].payment = orders[o].payment
          /\ orders'[o].paidAt \in {orders[o].paidAt, O!AdminTime}
      BY <3>1, <3>2 DEF O!Updated, O!Order
    <3> QED
      BY <3>1, <3>3
  <2>2. CASE ~(O!Exists(admin[a].order) /\ admin[a].order = o)
    BY <1>7, <2>2 DEF O!UpdateWrite, O!TypeOK
  <2> QED
    BY <2>1, <2>2
<1>8. ASSUME NEW a \in Admins,
             \/ \E q \in Orders, s \in Requested : O!UpdateRead(a, q, s)
             \/ O!UpdateReread(a) \/ O!NotifyStatusChanged(a)
             \/ O!UpdateEnds(a)
      PROVE  Goal
  BY <1>8 DEF O!UpdateRead, O!UpdateReread, O!NotifyStatusChanged,
              O!UpdateEnds
<1>9. CASE PaymentsStep \/ UNCHANGED vars
  BY <1>9, PaymentsStepKeeps DEF vars, ordersOnly
<1> QED
  BY <1>1, <1>2, <1>3, <1>4, <1>5, <1>6, <1>7, <1>8, <1>9
  DEF Next, OrdersStep, O!Worker, O!Administration

-----------------------------------------------------------------------------
(***************************************************************************)
(* The row of a payment belongs to the session that its id was made for,   *)
(* and an order names only the payment that CreateOrder was answered.      *)
(***************************************************************************)
LEMMA RowsStep ==
    ASSUME Paying, Linked, RowsOfSessions, [Next]_vars
    PROVE  RowsOfSessions'
<1> USE DEF RowsOfSessions
<1>1. P!TypeOK /\ SessionsApart
  BY DEF Paying, Linked
<1>2. None \notin Checkouts /\ None \notin Orders /\ None \notin P!Ids
  BY ServicesAssumption DEF P!NoneAssumption, O!NoneAssumption
<1>3. ASSUME NEW c \in Checkouts, NEW o \in Orders, CreateSession(c, o)
      PROVE  RowsOfSessions'
  <2>1. PICK i \in P!Ids :
          /\ P!NewId(i)
          /\ checkout' = [checkout EXCEPT ![c] =
               [stage |-> "session", order |-> o, id |-> i]]
          /\ UNCHANGED <<payments, handler>>
    BY <1>3 DEF CreateSession, P!CreateSession
  <2>2. payments[i] = None /\ \A h \in Handlers :
          handler[h] # None => handler[h].id # i
    BY <2>1 DEF P!NewId, P!InUse, P!Ids
  <2> QED
    BY <1>1, <2>1, <2>2 DEF P!TypeOK
<1>4. ASSUME NEW c \in Checkouts, P!CreatePending(c) PROVE RowsOfSessions'
  <2>1. /\ checkout[c].id \in P!Ids
        /\ \A d \in Checkouts : checkout[d].id = checkout[c].id => d = c
    BY <1>2, <1>1, <1>4 DEF P!CreatePending, SessionsApart
  <2>2. \A d \in Checkouts : /\ checkout'[d].id = checkout[d].id
                             /\ checkout'[d].order = checkout[d].order
    BY <1>1, <1>4 DEF P!CreatePending, P!TypeOK
  <2>3. /\ payments'[checkout[c].id].session = c
        /\ payments'[checkout[c].id].order = checkout[c].order
        /\ \A i \in P!Ids : i # checkout[c].id => payments'[i] = payments[i]
    BY <1>1, <1>4, <2>1 DEF P!CreatePending, P!TypeOK
  <2>4. handler' = handler
    BY <1>4 DEF P!CreatePending
  <2>5. \A d \in Checkouts : checkout[d].id # None => checkout[d].id \in P!Ids
    BY <1>1 DEF P!TypeOK
  <2> QED
    BY <2>1, <2>2, <2>3, <2>4, <2>5
<1>5. ASSUME NEW c \in Checkouts, \/ P!CreatePaymentFails(c)
                                 \/ Complete(c) \/ P!Pay(c)
      PROVE  RowsOfSessions'
  <2>1. \A d \in Checkouts : /\ checkout'[d].id = checkout[d].id
                             /\ checkout'[d].order = checkout[d].order
    BY <1>1, <1>5 DEF P!CreatePaymentFails, Complete, P!Complete, P!Pay, P!TypeOK
  <2>2. payments' = payments /\ handler' = handler
    BY <1>5 DEF P!CreatePaymentFails, Complete, P!Complete, P!Pay
  <2> QED
    BY <2>1, <2>2
<1>6. ASSUME NEW i \in P!Ids, P!AdminDeletePayment(i) PROVE RowsOfSessions'
  BY <1>1, <1>6 DEF P!AdminDeletePayment, P!TypeOK
<1>7. ASSUME NEW h \in Handlers, NEW e \in P!Events, P!Find(h, e)
      PROVE  RowsOfSessions'
  <2> DEFINE info == P!ParseSucceededEvent(e)
  <2>1. PICK i \in P!Ids,
             row \in {payments[j] : j \in P!Ids} \cup {P!NewRow(info)} :
          /\ \/ P!FirstMatch(info, i) /\ row = payments[i]
             \/ P!NewId(i)
          /\ handler' = [handler EXCEPT ![h] =
                           [event |-> e, id |-> i, pc |-> "save",
                            row |-> P!Succeeded(row, info, e.kind)]]
    BY <1>7 DEF P!Find
  <2>2. UNCHANGED <<checkout, payments>>
    BY <1>7 DEF P!Find
  <2>3. ASSUME NEW c \in Checkouts, checkout[c].id = i
        PROVE  /\ P!Succeeded(row, info, e.kind).session = c
               /\ P!Succeeded(row, info, e.kind).order = checkout[c].order
    <3>1. ~P!NewId(i)
      BY <2>3 DEF P!NewId, P!InUse, P!Ids
    <3>2. payments[i] # None /\ row = payments[i]
      BY <2>1, <3>1 DEF P!FirstMatch, P!Matches
    <3>3. row.session = c /\ row.order = checkout[c].order
      BY <1>2, <2>3, <3>2
    <3>4. c # None /\ checkout[c].order # None
      BY <1>1, <1>2, <2>3 DEF SessionsApart
    <3> QED
      BY <3>3, <3>4 DEF P!Succeeded, P!Filled
  <2> HIDE DEF info
  <2> QED
    BY <1>1, <2>1, <2>2, <2>3 DEF P!TypeOK
<1>8. ASSUME NEW h \in Handlers, P!Save(h) PROVE RowsOfSessions'
  <2>1. handler[h] \in P!Task /\ handler[h] # None
    BY <1>1, <1>8 DEF P!Save, P!TypeOK
  <2>2. /\ checkout' = checkout
        /\ payments' = [payments EXCEPT ![handler[h].id] = handler[h].row]
        /\ handler' = [handler EXCEPT ![h].pc = "publish"]
    BY <1>8 DEF P!Save
  <2>3. \A g \in Handlers : handler'[g] # None =>
          handler[g] # None /\ handler'[g].id = handler[g].id
            /\ handler'[g].row = handler[g].row
    BY <1>1, <2>1, <2>2 DEF P!TypeOK, P!Task
  <2>4. \A i \in P!Ids :
          payments'[i] = IF i = handler[h].id THEN handler[h].row
                                              ELSE payments[i]
    BY <1>1, <2>2 DEF P!TypeOK
  <2>5. \A d \in Checkouts : checkout[d].id # None => checkout[d].id \in P!Ids
    BY <1>1 DEF P!TypeOK
  <2> QED
    BY <2>1, <2>2, <2>3, <2>4, <2>5
<1>9. ASSUME NEW h \in Handlers,
             P!Publish(h) \/ P!PublishUnanswered(h) \/ P!Fail(h)
      PROVE  RowsOfSessions'
  BY <1>1, <1>9 DEF P!Publish, P!PublishUnanswered, P!Fail, P!TypeOK
<1>10. CASE OrdersStep \/ UNCHANGED vars
  BY <1>10, OrdersStepKeeps DEF vars, paymentsOnly
<1> QED
  BY <1>3, <1>4, <1>5, <1>6, <1>7, <1>8, <1>9, <1>10
  DEF Next, PaymentsStep, P!Webhook

LEMMA AttachedStep ==
    ASSUME Linked, AttachedAnswer, [Next]_vars
    PROVE  AttachedAnswer'
<1> SUFFICES ASSUME NEW o \in Orders, orders'[o] # None
             PROVE  orders'[o].payment \in {None, create'[o].payment}
  BY DEF AttachedAnswer
<1>1. O!TypeOK
  BY DEF Linked
<1>2. create'[o].payment = create[o].payment \/ create[o].payment = None
  BY <1>1, CreateStep DEF Linked, AnswersTrue
<1>3. orders[o] # None => orders[o].payment \in {None, create[o].payment}
  BY DEF AttachedAnswer
<1> QED
  BY <1>1, <1>2, <1>3, OrderStep

LEMMA PairedHolds == Spec => [](Linked /\ Paired)
<1>1. Init => Paired
  BY DEF Init, P!Init, O!Init, Paired, RowsOfSessions, AttachedAnswer
<1>2. Paying /\ Linked /\ Paired /\ [Next]_vars => Paired'
  BY RowsStep, AttachedStep DEF Paired
<1> QED
  BY <1>1, <1>2, LinkedHolds, PTL DEF Spec

\* The payment an order names is, on the side of payments, a payment of that
\* order, although neither database knows the other and the ids of deleted
\* payments may come back.
THEOREM PaymentOfOrderAlways == Spec => []PaymentOfOrder
<1>1. Linked /\ Paired => PaymentOfOrder
  <2> SUFFICES ASSUME Linked, Paired, NEW o \in Orders, NEW i \in P!Ids,
                      orders[o] # None, orders[o].payment = i,
                      payments[i] # None
               PROVE  payments[i].order = o
    BY DEF PaymentOfOrder
  <2>1. i # None
    BY ServicesAssumption DEF O!NoneAssumption
  <2>2. create[o].payment = i
    BY <2>1 DEF Paired, AttachedAnswer
  <2>3. PICK c \in Checkouts : checkout[c].order = o /\ checkout[c].id = i
    BY <2>1, <2>2 DEF Linked, AnswersTrue
  <2> QED
    BY <2>1, <2>3 DEF Paired, RowsOfSessions
<1> QED
  BY <1>1, PairedHolds, PTL

-----------------------------------------------------------------------------
(***************************************************************************)
(* An order that an event marked paid names no payment that is pending.    *)
(* The webhook whose message marks it may have saved another row than the  *)
(* one the order names: then the named one was deleted, and if a late save *)
(* brings it back, it comes back as succeeded.                             *)
(***************************************************************************)
Names(row, c) == row.session = c \/ row.intent = c

Owned ==
    /\ \A h \in Handlers : handler[h] # None =>
         /\ handler[h].row.session \in {None, handler[h].event.checkout}
         /\ handler[h].row.intent \in {None, handler[h].event.checkout}
         /\ handler[h].row.status = "succeeded"
    /\ \A i \in P!Ids, c \in Checkouts :
         payments[i] # None /\ Names(payments[i], c)
         => checkout[c].stage \in Offered

LEMMA OwnedHolds == Spec => []Owned
<1>1. PP!Ownership /\ PP!Copies => Owned
  <2> SUFFICES ASSUME PP!Ownership, PP!Copies PROVE Owned
    OBVIOUS
  <2>1. ASSUME NEW h \in Handlers, handler[h] # None
        PROVE  /\ handler[h].row.session \in {None, handler[h].event.checkout}
               /\ handler[h].row.intent \in {None, handler[h].event.checkout}
               /\ handler[h].row.status = "succeeded"
    BY <2>1 DEF PP!Ownership, PP!TasksBelong, PP!BelongsTo, PP!Copies,
                PP!TaskShape
  <2>2. ASSUME NEW i \in P!Ids, NEW c \in Checkouts, payments[i] # None,
               Names(payments[i], c)
        PROVE  checkout[c].stage \in Offered
    <3>1. c # None
      BY ServicesAssumption DEF P!NoneAssumption
    <3> QED
      BY <2>2, <3>1
      DEF PP!Ownership, PP!RowsOffered, PP!BelongsTo, PP!Ids, P!Ids,
          PP!Offered, Offered, Names
  <2> QED
    BY <2>1, <2>2 DEF Owned
<1>2. PP!Spec => []PP!Ownership /\ []PP!Copies
  BY PP!OwnershipInvariant, PP!CopiesInvariant, ServicesAssumption
  DEF P!KindsAssumption, P!BoundsAssumption, P!NoneAssumption,
      P!SessionCompleted, P!IntentSucceeded, PP!SessionCompleted,
      PP!IntentSucceeded
<1> QED
  BY <1>1, <1>2, PaymentsSpecHolds, PaymentsSame, PTL DEF PaymentsSpec

Confirmed(c) ==
    payments[checkout[c].id] # None
    => payments[checkout[c].id].status = "succeeded"

\* CreateOrder asks for one payment, and so for one session.
OnePerOrder ==
    \A c, d \in Checkouts :
        checkout[c].order # None /\ checkout[c].order = checkout[d].order
        => c = d

\* The id of a session is older than those of the other rows made for it.
IdsLater ==
    /\ \A i \in P!Ids, c \in Checkouts :
         payments[i] # None /\ Names(payments[i], c) => checkout[c].id <= i
    /\ \A h \in Handlers : handler[h] # None =>
         checkout[handler[h].event.checkout].id <= handler[h].id

\* Another row of a session knows the order only when the first one is not
\* pending any more; so do the webhooks that hold one, and messages.
SecondRows ==
    \A i \in P!Ids, c \in Checkouts :
        /\ payments[i] # None /\ Names(payments[i], c)
        /\ i # checkout[c].id /\ payments[i].order # None
        => Confirmed(c)

HeldConfirmed ==
    \A h \in Handlers :
        /\ handler[h] # None /\ handler[h].row.order # None
        /\ \/ handler[h].pc = "publish"
           \/ handler[h].id # checkout[handler[h].event.checkout].id
        => Confirmed(handler[h].event.checkout)

ToldConfirmed ==
    \A m \in stream : m.order # None => Confirmed(m.checkout)

MarkedConfirmed ==
    \A o \in Orders : orders[o] # None /\ orders[o].paidAt = O!EventTime =>
        \E c \in Checkouts : /\ checkout[c].order = o
                             /\ checkout[c].stage \in Offered
                             /\ Confirmed(c)

Confirming ==
    /\ OnePerOrder /\ IdsLater /\ SecondRows /\ HeldConfirmed
    /\ ToldConfirmed /\ MarkedConfirmed

Surroundings == Paying /\ Linked /\ Paired /\ Owned

\* What a step does to a row of payments, and to what a webhook holds.
LEMMA RowChange ==
    ASSUME P!TypeOK, [Next]_vars, NEW i \in P!Ids, payments'[i] # None
    PROVE  \/ payments'[i] = payments[i]
           \/ \E c \in Checkouts :
                /\ checkout[c].id = i /\ checkout'[c].id = i
                /\ checkout[c].stage = "session"
                /\ payments'[i].session = c /\ payments'[i].intent = None
           \/ \E h \in Handlers :
                /\ P!Save(h) /\ handler[h] # None /\ handler[h].id = i
                /\ payments'[i] = handler[h].row /\ checkout' = checkout
<1> DEFINE Goal ==
      \/ payments'[i] = payments[i]
      \/ \E c \in Checkouts :
           /\ checkout[c].id = i /\ checkout'[c].id = i
           /\ checkout[c].stage = "session"
           /\ payments'[i].session = c /\ payments'[i].intent = None
      \/ \E h \in Handlers :
           /\ P!Save(h) /\ handler[h] # None /\ handler[h].id = i
           /\ payments'[i] = handler[h].row /\ checkout' = checkout
<1>1. ASSUME NEW c \in Checkouts, P!CreatePending(c) PROVE Goal
  BY <1>1 DEF P!CreatePending, P!TypeOK
<1>2. ASSUME NEW c \in Checkouts,
             \/ \E o \in Orders : CreateSession(c, o)
             \/ P!CreatePaymentFails(c) \/ Complete(c) \/ P!Pay(c)
      PROVE  Goal
  BY <1>2 DEF CreateSession, P!CreateSession, P!CreatePaymentFails, Complete,
              P!Complete, P!Pay
<1>3. ASSUME NEW j \in P!Ids, P!AdminDeletePayment(j) PROVE Goal
  BY <1>3 DEF P!AdminDeletePayment, P!TypeOK
<1>4. ASSUME NEW h \in Handlers, P!Save(h) PROVE Goal
  BY <1>4 DEF P!Save, P!TypeOK
<1>5. ASSUME NEW h \in Handlers,
             \/ \E e \in P!Events : P!Find(h, e)
             \/ P!Publish(h) \/ P!PublishUnanswered(h) \/ P!Fail(h)
      PROVE  Goal
  BY <1>5 DEF P!Find, P!Publish, P!PublishUnanswered, P!Fail
<1>6. CASE OrdersStep \/ UNCHANGED vars
  BY <1>6, OrdersStepKeeps DEF vars, paymentsOnly
<1> QED
  BY <1>1, <1>2, <1>3, <1>4, <1>5, <1>6 DEF Next, PaymentsStep, P!Webhook

LEMMA HeldChange ==
    ASSUME P!TypeOK, [Next]_vars, NEW h \in Handlers, handler'[h] # None
    PROVE  \/ handler'[h] = handler[h]
           \/ /\ P!Save(h) /\ handler[h] # None
              /\ handler'[h].event = handler[h].event
              /\ handler'[h].id = handler[h].id
              /\ handler'[h].row = handler[h].row
              /\ payments'[handler[h].id] = handler[h].row
              /\ checkout' = checkout
           \/ \E e \in P!Events : P!Find(h, e)
<1> DEFINE Goal ==
      \/ handler'[h] = handler[h]
      \/ /\ P!Save(h) /\ handler[h] # None
         /\ handler'[h].event = handler[h].event
         /\ handler'[h].id = handler[h].id
         /\ handler'[h].row = handler[h].row
         /\ payments'[handler[h].id] = handler[h].row
         /\ checkout' = checkout
      \/ \E e \in P!Events : P!Find(h, e)
<1>1. ASSUME NEW c \in Checkouts,
             \/ \E o \in Orders : CreateSession(c, o)
             \/ P!CreatePending(c) \/ P!CreatePaymentFails(c)
             \/ Complete(c) \/ P!Pay(c)
      PROVE  Goal
  BY <1>1 DEF CreateSession, P!CreateSession, P!CreatePending,
              P!CreatePaymentFails, Complete, P!Complete, P!Pay
<1>2. ASSUME NEW j \in P!Ids, P!AdminDeletePayment(j) PROVE Goal
  BY <1>2 DEF P!AdminDeletePayment
<1>3. ASSUME NEW g \in Handlers, P!Save(g) PROVE Goal
  <2>1. CASE g = h
    <3>1. handler[h] \in P!Task /\ handler[h] # None
      BY <1>3, <2>1 DEF P!Save, P!TypeOK
    <3>2. /\ handler'[h] = [handler[h] EXCEPT !.pc = "publish"]
          /\ payments'[handler[h].id] = handler[h].row
          /\ checkout' = checkout
      BY <1>3, <2>1, <3>1 DEF P!Save, P!TypeOK, P!Task
    <3> QED
      BY <1>3, <2>1, <3>1, <3>2 DEF P!Task
  <2>2. CASE g # h
    BY <1>3, <2>2 DEF P!Save, P!TypeOK
  <2> QED
    BY <2>1, <2>2
<1>4. ASSUME NEW g \in Handlers, NEW e \in P!Events, P!Find(g, e) PROVE Goal
  BY <1>4 DEF P!Find, P!TypeOK
<1>5. ASSUME NEW g \in Handlers,
             P!Publish(g) \/ P!PublishUnanswered(g) \/ P!Fail(g)
      PROVE  Goal
  BY <1>5 DEF P!Publish, P!PublishUnanswered, P!Fail, P!TypeOK
<1>6. CASE OrdersStep \/ UNCHANGED vars
  BY <1>6, OrdersStepKeeps DEF vars, paymentsOnly
<1> QED
  BY <1>1, <1>2, <1>3, <1>4, <1>5, <1>6 DEF Next, PaymentsStep, P!Webhook

\* Once offered, a session keeps its order and its id.
LEMMA OfferedStays ==
    ASSUME Linked, P!TypeOK, [Next]_vars, NEW c \in Checkouts,
           checkout[c].stage \in Offered
    PROVE  /\ checkout'[c].stage \in Offered
           /\ checkout'[c].order = checkout[c].order
           /\ checkout'[c].id = checkout[c].id
           /\ checkout[c].id \in P!Ids
BY CheckoutStep DEF CreateSession, P!CreateSession, Offered, Linked,
                    SessionsApart

LEMMA ConfirmedStays ==
    ASSUME Surroundings, [Next]_vars, NEW c \in Checkouts,
           checkout[c].stage \in Offered, Confirmed(c)
    PROVE  Confirmed(c)'
<1>1. P!TypeOK /\ Linked
  BY DEF Surroundings, Paying
<1>2. checkout'[c].id = checkout[c].id /\ checkout[c].id \in P!Ids
  BY <1>1, OfferedStays
<1>3. ASSUME NEW d \in Checkouts, checkout[d].id = checkout[c].id,
             checkout[d].stage = "session"
      PROVE  FALSE
  BY <1>1, <1>2, <1>3, ServicesAssumption
  DEF Linked, SessionsApart, Offered, O!NoneAssumption
<1>4. ASSUME NEW h \in Handlers, handler[h] # None
      PROVE  handler[h].row.status = "succeeded"
  BY <1>4 DEF Surroundings, Owned
<1> QED
  BY <1>1, <1>2, <1>3, <1>4, RowChange DEF Confirmed

\* A webhook takes up another row than the first of its session, and an order
\* with it, only when the first is not pending.
LEMMA FindConfirmed ==
    ASSUME Surroundings, Confirming, NEW h \in Handlers, NEW e \in P!Events,
           P!Find(h, e)
    PROVE  /\ handler'[h].event = e /\ handler'[h].pc = "save"
           /\ handler'[h].id \in P!Ids
           /\ checkout[e.checkout].id <= handler'[h].id
           /\ /\ handler'[h].row.order # None
              /\ handler'[h].id # checkout[e.checkout].id
              => Confirmed(e.checkout)
<1> DEFINE c == e.checkout
<1> DEFINE info == P!ParseSucceededEvent(e)
<1>1. /\ P!TypeOK /\ c \in Checkouts /\ c # None
      /\ SessionsApart /\ RowsOfSessions
  BY ServicesAssumption
  DEF Surroundings, Paying, Linked, Paired, P!Events, P!NoneAssumption
<1>2. /\ checkout[c].stage \in Offered
      /\ checkout[c].id \in P!Ids /\ checkout[c].id # None
  BY <1>1, ServicesAssumption
  DEF P!Find, P!Sent, P!Completed, Offered, SessionsApart, O!NoneAssumption
<1>3. PICK i \in P!Ids,
           row \in {payments[j] : j \in P!Ids} \cup {P!NewRow(info)} :
        /\ \/ P!FirstMatch(info, i) /\ row = payments[i]
           \/ /\ \A j \in P!Ids : ~P!Matches(info, j)
              /\ P!NewId(i) /\ row = P!NewRow(info)
        /\ handler' = [handler EXCEPT ![h] =
                         [event |-> e, id |-> i, pc |-> "save",
                          row |-> P!Succeeded(row, info, e.kind)]]
  BY DEF P!Find
<1>4. /\ info.intent = c /\ info.session \in {None, c}
      /\ info.order # None => info.session = c
  BY DEF P!ParseSucceededEvent
<1>5. info.session = c /\ payments[checkout[c].id] # None
      => P!Matches(info, checkout[c].id)
  BY <1>1, <1>2 DEF RowsOfSessions, P!Matches
<1> HIDE DEF info
<1>6. checkout[c].id <= i
  <2>1. CASE P!FirstMatch(info, i)
    <3>1. payments[i] # None /\ Names(payments[i], c)
      BY <1>4, <2>1 DEF P!FirstMatch, P!Matches, Names
    <3> QED
      BY <1>1, <3>1 DEF Confirming, IdsLater
  <2>2. CASE P!NewId(i)
    <3>1. P!InUse(checkout[c].id)
      BY <1>1 DEF P!InUse
    <3>2. ~(checkout[c].id >= i)
      BY <1>2, <2>2, <3>1 DEF P!NewId
    <3>3. i \in Nat /\ checkout[c].id \in Nat
      BY <1>2 DEF P!Ids
    <3> QED
      BY <3>2, <3>3
  <2> QED
    BY <1>3, <2>1, <2>2
<1> DEFINE new == P!Succeeded(row, info, e.kind)
<1>7. ASSUME new.order # None, i # checkout[c].id PROVE Confirmed(c)
  <2>1. row.order # None \/ info.order # None
    BY <1>7 DEF P!Succeeded, P!Filled
  <2>2. CASE P!FirstMatch(info, i) /\ row = payments[i] /\ row.order # None
    <3>1. payments[i] # None /\ Names(payments[i], c)
      BY <1>4, <2>2 DEF P!FirstMatch, P!Matches, Names
    <3> QED
      BY <1>1, <1>7, <2>2, <3>1 DEF Confirming, SecondRows
  <2>3. CASE P!FirstMatch(info, i) /\ info.order # None
    <3>1. P!Matches(info, checkout[c].id) => i <= checkout[c].id
      BY <1>2, <2>3 DEF P!FirstMatch
    <3>2. i \in Nat /\ checkout[c].id \in Nat
      BY <1>2 DEF P!Ids
    <3> QED
      BY <1>4, <1>5, <1>6, <1>7, <2>3, <3>1, <3>2 DEF Confirmed
  <2>4. CASE /\ \A j \in P!Ids : ~P!Matches(info, j)
             /\ row = P!NewRow(info)
    <3>1. info.order # None
      BY <2>1, <2>4 DEF P!NewRow
    <3> QED
      BY <1>2, <1>4, <1>5, <2>4, <3>1 DEF Confirmed
  <2> QED
    BY <1>3, <2>1, <2>2, <2>3, <2>4
<1>8. handler'[h] = [event |-> e, id |-> i, pc |-> "save", row |-> new]
  BY <1>1, <1>3 DEF P!TypeOK
<1> HIDE DEF new
<1> QED
  BY <1>6, <1>7, <1>8

LEMMA ConfirmingStep ==
    ASSUME Surroundings, Confirming, [Next]_vars
    PROVE  Confirming'
<1>1. /\ P!TypeOK /\ O!TypeOK /\ Linked /\ SessionsApart /\ Owned
      /\ HeldIsCompleted /\ P!MessagesTruthful
  BY DEF Surroundings, Paying, Linked
<1>2. None \notin Checkouts /\ None \notin Orders /\ None \notin P!Ids
  BY ServicesAssumption DEF P!NoneAssumption, O!NoneAssumption
<1>3. ASSUME NEW h \in Handlers, handler[h] # None
      PROVE  /\ handler[h] \in P!Task
             /\ handler[h].event.checkout \in Checkouts
             /\ checkout[handler[h].event.checkout].stage \in Offered
  BY <1>1, <1>3 DEF P!TypeOK, P!Task, P!Events, HeldIsCompleted, P!Completed,
                    Offered
<1>4. ASSUME NEW h \in Handlers, handler[h] # None, NEW c \in Checkouts,
             Names(handler[h].row, c)
      PROVE  c = handler[h].event.checkout
  BY <1>1, <1>2, <1>4 DEF Owned, Names
<1>5. OnePerOrder'
  <2>1. ASSUME NEW c \in Checkouts, NEW d \in Checkouts, NEW o \in Orders,
               CreateSession(c, o), d # c
        PROVE  checkout'[d].order = checkout[d].order /\ checkout'[c].order = o
               /\ checkout[d].order # o
    BY <1>1, <2>1 DEF CreateSession, P!CreateSession, P!TypeOK
  <2>2. CASE \E c \in Checkouts, o \in Orders : CreateSession(c, o)
    <3>1. PICK c \in Checkouts, o \in Orders : CreateSession(c, o)
      BY <2>2
    <3> QED
      BY <2>1, <3>1 DEF Confirming, OnePerOrder
  <2>3. CASE \A c \in Checkouts : \A o \in Orders : ~CreateSession(c, o)
    <3>1. \A c \in Checkouts : checkout'[c].order = checkout[c].order
      BY <1>1, <2>3, CheckoutStep
    <3> QED
      BY <3>1 DEF Confirming, OnePerOrder
  <2> QED
    BY <2>2, <2>3
<1>6. IdsLater'
  <2>1. ASSUME NEW i \in P!Ids, NEW c \in Checkouts, payments'[i] # None,
               Names(payments'[i], c)
        PROVE  checkout'[c].id <= i
    <3>1. CASE payments'[i] = payments[i]
      BY <1>1, <2>1, <3>1, OfferedStays DEF Owned, Confirming, IdsLater
    <3>2. ASSUME NEW d \in Checkouts, checkout'[d].id = i,
                 payments'[i].session = d, payments'[i].intent = None
          PROVE  checkout'[c].id <= i
      BY <1>2, <2>1, <3>2 DEF Names, P!Ids
    <3>3. ASSUME NEW h \in Handlers, handler[h] # None, handler[h].id = i,
                 payments'[i] = handler[h].row, checkout' = checkout
          PROVE  checkout'[c].id <= i
      BY <1>4, <2>1, <3>3 DEF Confirming, IdsLater
    <3> QED
      BY <1>1, <2>1, <3>1, <3>2, <3>3, RowChange
  <2>2. ASSUME NEW h \in Handlers, handler'[h] # None
        PROVE  checkout'[handler'[h].event.checkout].id <= handler'[h].id
    <3>1. CASE handler'[h] = handler[h]
      BY <1>1, <1>3, <2>2, <3>1, OfferedStays DEF Confirming, IdsLater
    <3>2. CASE /\ handler[h] # None /\ checkout' = checkout
               /\ handler'[h].event = handler[h].event
               /\ handler'[h].id = handler[h].id
      BY <3>2 DEF Confirming, IdsLater
    <3>3. ASSUME NEW e \in P!Events, P!Find(h, e)
          PROVE  checkout'[handler'[h].event.checkout].id <= handler'[h].id
      BY <3>3, FindConfirmed DEF P!Find
    <3> QED
      BY <1>1, <2>2, <3>1, <3>2, <3>3, HeldChange
  <2> QED
    BY <2>1, <2>2 DEF IdsLater
<1>7. SecondRows'
  <2> SUFFICES ASSUME NEW i \in P!Ids, NEW c \in Checkouts,
                      payments'[i] # None, Names(payments'[i], c),
                      i # checkout'[c].id, payments'[i].order # None
               PROVE  Confirmed(c)'
    BY DEF SecondRows, Names
  <2>1. CASE payments'[i] = payments[i]
    <3>1. checkout[c].stage \in Offered /\ checkout'[c].id = checkout[c].id
      BY <1>1, <2>1, OfferedStays DEF Owned
    <3> QED
      BY <2>1, <3>1, ConfirmedStays DEF Confirming, SecondRows
  <2>2. ASSUME NEW d \in Checkouts, checkout'[d].id = i,
               payments'[i].session = d, payments'[i].intent = None
        PROVE  FALSE
    BY <1>2, <2>2 DEF Names
  <2>3. ASSUME NEW h \in Handlers, handler[h] # None, handler[h].id = i,
               payments'[i] = handler[h].row, checkout' = checkout
        PROVE  Confirmed(c)'
    <3>1. c = handler[h].event.checkout
      BY <1>4, <2>3
    <3>2. Confirmed(c)
      BY <2>3, <3>1 DEF Confirming, HeldConfirmed
    <3> QED
      BY <1>3, <2>3, <3>1, <3>2, ConfirmedStays
  <2> QED
    BY <1>1, <2>1, <2>2, <2>3, RowChange
<1>8. HeldConfirmed'
  <2> SUFFICES ASSUME NEW h \in Handlers, handler'[h] # None,
                      handler'[h].row.order # None,
                      NEW c \in Checkouts, c = handler'[h].event.checkout,
                      \/ handler'[h].pc = "publish"
                      \/ handler'[h].id # checkout'[c].id
               PROVE  Confirmed(c)'
    <3>1. ASSUME NEW h \in Handlers, handler'[h] # None
          PROVE  handler'[h].event.checkout \in Checkouts
      <4>1. ASSUME NEW e \in P!Events, P!Find(h, e)
            PROVE  handler'[h].event.checkout \in Checkouts
        BY <4>1, FindConfirmed DEF P!Events
      <4> QED
        BY <1>1, <1>3, <3>1, <4>1, HeldChange
    <3> QED
      BY <3>1 DEF HeldConfirmed, Confirmed
  <2>1. CASE handler'[h] = handler[h]
    <3>1. checkout[c].stage \in Offered
      BY <1>3, <2>1
    <3>2. Confirmed(c)
      BY <1>1, <2>1, <3>1, OfferedStays DEF Confirming, HeldConfirmed
    <3> QED
      BY <3>1, <3>2, ConfirmedStays
  <2>2. CASE /\ handler[h] # None
             /\ handler'[h].event = handler[h].event
             /\ handler'[h].id = handler[h].id
             /\ handler'[h].row = handler[h].row
             /\ payments'[handler[h].id] = handler[h].row
             /\ checkout' = checkout
    <3>1. checkout[c].stage \in Offered
      BY <1>3, <2>2
    <3>2. CASE handler[h].id = checkout[c].id
      BY <1>1, <2>2, <3>2 DEF Confirmed, Owned
    <3>3. CASE handler[h].id # checkout[c].id
      BY <2>2, <3>1, <3>3, ConfirmedStays DEF Confirming, HeldConfirmed
    <3> QED
      BY <3>2, <3>3
  <2>3. ASSUME NEW e \in P!Events, P!Find(h, e)
        PROVE  Confirmed(c)'
    <3>1. c = e.checkout /\ Confirmed(c)
      BY <2>3, FindConfirmed DEF P!Find
    <3>2. payments' = payments /\ checkout' = checkout
      BY <2>3 DEF P!Find
    <3> QED
      BY <3>1, <3>2 DEF Confirmed
  <2> QED
    BY <1>1, <2>1, <2>2, <2>3, HeldChange
<1>9. ToldConfirmed'
  <2> SUFFICES ASSUME NEW m \in stream', m.order # None
               PROVE  Confirmed(m.checkout)'
    BY DEF ToldConfirmed
  <2>1. CASE m \in stream
    <3>1. m.checkout \in Checkouts /\ checkout[m.checkout].stage \in Offered
      BY <1>1, <2>1
      DEF P!TypeOK, P!Message, P!MessagesTruthful, P!Completed, Offered
    <3> QED
      BY <2>1, <3>1, ConfirmedStays DEF Confirming, ToldConfirmed
  <2>2. ASSUME NEW h \in Handlers, P!Publish(h) \/ P!PublishUnanswered(h),
               m = P!MessageOf(handler[h])
        PROVE  Confirmed(m.checkout)'
    <3>1. /\ handler[h] # None /\ handler[h].pc = "publish"
          /\ payments' = payments /\ checkout' = checkout
          /\ m.order = handler[h].row.order
          /\ m.checkout = handler[h].event.checkout
      BY <2>2 DEF P!Publish, P!PublishUnanswered, P!MessageOf
    <3>2. Confirmed(m.checkout)
      BY <3>1 DEF Confirming, HeldConfirmed
    <3> QED
      BY <3>1, <3>2 DEF Confirmed
  <2>3. ASSUME \A h \in Handlers :
                 ~P!Publish(h) /\ ~P!PublishUnanswered(h)
        PROVE  stream' = stream
    <3>1. ASSUME NEW h \in Handlers, P!Webhook(h) PROVE stream' = stream
      BY <2>3, <3>1 DEF P!Webhook, P!Find, P!Save, P!Fail
    <3>2. ASSUME PaymentsStep, \A h \in Handlers : ~P!Webhook(h)
          PROVE  stream' = stream
      BY <3>2 DEF PaymentsStep, CreateSession, P!CreateSession,
                  P!CreatePending, P!CreatePaymentFails, Complete,
                  P!Complete, P!Pay, P!AdminDeletePayment
    <3> QED
      BY <3>1, <3>2, OrdersStepKeeps DEF Next, vars
  <2>4. ASSUME NEW h \in Handlers, P!Publish(h) \/ P!PublishUnanswered(h)
        PROVE  stream' = stream \cup {P!MessageOf(handler[h])}
    BY <2>4 DEF P!Publish, P!PublishUnanswered
  <2> QED
    BY <2>1, <2>2, <2>3, <2>4
<1>10. MarkedConfirmed'
  <2> SUFFICES ASSUME NEW o \in Orders, orders'[o] # None,
                      orders'[o].paidAt = O!EventTime
               PROVE  \E c \in Checkouts : /\ checkout'[c].order = o
                                           /\ checkout'[c].stage \in Offered
                                           /\ Confirmed(c)'
    BY DEF MarkedConfirmed, O!EventTime
  <2>1. ASSUME NEW c \in Checkouts, checkout[c].order = o,
               checkout[c].stage \in Offered, Confirmed(c)
        PROVE  /\ checkout'[c].order = o
               /\ checkout'[c].stage \in Offered
               /\ Confirmed(c)'
    BY <1>1, <2>1, OfferedStays, ConfirmedStays
  <2>2. CASE orders[o] # None /\ orders'[o].paidAt = orders[o].paidAt
    BY <2>1, <2>2 DEF Confirming, MarkedConfirmed
  <2>3. ASSUME NEW m \in stream, m.order = o
        PROVE  \E c \in Checkouts : /\ checkout[c].order = o
                                    /\ checkout[c].stage \in Offered
                                    /\ Confirmed(c)
    <3>1. /\ m.checkout \in Checkouts
          /\ checkout[m.checkout].stage \in Offered
          /\ m.order \in {None, checkout[m.checkout].order}
      BY <1>1
      DEF P!MessagesTruthful, P!OrderOf, P!TypeOK, P!Message, P!Completed,
          Offered
    <3>2. Confirmed(m.checkout)
      BY <1>2, <2>3 DEF Confirming, ToldConfirmed
    <3> QED
      BY <1>2, <2>3, <3>1, <3>2
  <2>4. O!EventTime # O!AdminTime /\ O!EventTime # None
    BY ServicesAssumption
    DEF O!NoneAssumption, O!Times, O!EventTime, O!AdminTime
  <2> QED
    BY <1>1, <2>1, <2>2, <2>3, <2>4, OrderStep
<1> QED
  BY <1>5, <1>6, <1>7, <1>8, <1>9, <1>10 DEF Confirming

\* An order that an event marked paid never names a payment that the payments
\* service has as pending, whatever second rows, deletions and late saves there
\* are.
THEOREM PaidOnBothSidesAlways == Spec => []PaidOnBothSides
<1>1. Init => Confirming
  BY DEF Init, P!Init, O!Init, Confirming, OnePerOrder, IdsLater, SecondRows,
         HeldConfirmed, ToldConfirmed, MarkedConfirmed
<1>2. Surroundings /\ Confirming => PaidOnBothSides
  <2> SUFFICES ASSUME Surroundings, Confirming, NEW o \in Orders,
                      NEW i \in P!Ids, orders[o] # None,
                      orders[o].paidAt = O!EventTime,
                      orders[o].payment = i, payments[i] # None
               PROVE  payments[i].status = "succeeded"
    BY DEF PaidOnBothSides
  <2>1. o # None /\ i # None
    BY ServicesAssumption DEF O!NoneAssumption
  <2>2. PICK c \in Checkouts : checkout[c].order = o /\ checkout[c].id = i
    BY <2>1 DEF Surroundings, Paired, AttachedAnswer, Linked, AnswersTrue
  <2>3. PICK d \in Checkouts : checkout[d].order = o /\ Confirmed(d)
    BY DEF Confirming, MarkedConfirmed
  <2>4. c = d
    BY <2>1, <2>2, <2>3 DEF Confirming, OnePerOrder
  <2> QED
    BY <2>2, <2>3, <2>4 DEF Confirmed
<1>3. Spec => []Surroundings
  BY PairedHolds, PayingHolds, OwnedHolds, PTL DEF Surroundings
<1> QED
  BY <1>1, <1>2, <1>3, ConfirmingStep, PTL DEF Spec

-----------------------------------------------------------------------------
(***************************************************************************)
(* The two services implement Settlement, but for its fairness.  An order  *)
(* that is on record was begun, so that one no longer on record is deleted *)
(* and not absent.                                                         *)
(***************************************************************************)
Begun == \A o \in Orders : orders[o] # None => create[o].pc # "none"

LEMMA BegunHolds == Spec => [](Paying /\ Linked /\ Begun)
<1>1. Init => Begun
  BY DEF Init, O!Init, Begun
<1>2. Linked /\ Begun /\ [Next]_vars => Begun'
  <2> SUFFICES ASSUME Linked, Begun, [Next]_vars, NEW o \in Orders,
                      orders'[o] # None
               PROVE  create'[o].pc # "none"
    BY DEF Begun
  <2>1. O!TypeOK
    BY DEF Linked
  <2>2. create[o].pc # "none" => create'[o].pc # "none"
    <3>1. ASSUME NEW c \in Checkouts,
                 create'[o] = [pc |-> "attaching", payment |-> checkout[c].id]
          PROVE  create'[o].pc # "none"
      BY <3>1
    <3> QED
      BY <2>1, <3>1, CreateStep
  <2>3. O!CreateOrder(o) => create'[o].pc # "none"
    BY <2>1 DEF O!CreateOrder, O!TypeOK
  <2> QED
    BY <2>1, <2>2, <2>3, OrderStep DEF Begun
<1> QED
  BY <1>1, <1>2, LinkedHolds, PTL DEF Spec

\* The record of an order, and whether it was checked out, depend on its
\* row, on its CreateOrder call and on its checkouts only.
RecordOf(row, pc) ==
    IF row = None
    THEN IF pc = "none" THEN "absent" ELSE "deleted"
    ELSE IF row.paidAt = None THEN "unpaid" ELSE "paid"

LEMMA RecordIs == Record = [o \in Orders |-> RecordOf(orders[o], create[o].pc)]
BY DEF Record, RecordOf

LEMMA RecordChanges ==
    ASSUME NEW o \in Orders, NEW r,
           RecordOf(orders'[o], create'[o].pc) = r,
           \A q \in Orders \ {o} : RecordOf(orders'[q], create'[q].pc)
                                  = RecordOf(orders[q], create[q].pc)
    PROVE  Record' = [Record EXCEPT ![o] = r]
BY DEF Record, RecordOf

LEMMA SessionStepSettles ==
    ASSUME Paying, Linked, PaymentsStep
    PROVE  [S!Next]_S!svars
<1>1. UNCHANGED ordersOnly
  BY PaymentsStepKeeps
<1>2. Record' = Record
  BY <1>1 DEF Record, ordersOnly
<1>3. P!TypeOK
  BY DEF Paying
<1>4. ASSUME NEW c \in Checkouts, Complete(c) PROVE [S!Next]_S!svars
  <2> DEFINE o == checkout[c].order
  <2>1. create[o].pc = "returned" /\ o \in Orders
    BY <1>4 DEF Complete, Linked, SessionsApart
  <2>2. Record[o] # "absent"
    BY <2>1 DEF Record
  <2>3. CheckedOut' = CheckedOut \cup {o}
    <3>1. \A d \in Checkouts :
            /\ checkout'[d].order = checkout[d].order
            /\ P!Completed(d)' <=> d = c \/ P!Completed(d)
      BY <1>3, <1>4 DEF Complete, P!Complete, P!Completed, P!TypeOK
    <3> QED
      BY <2>1, <3>1 DEF CheckedOut
  <2>4. CASE o \in CheckedOut
    BY <1>2, <2>3, <2>4 DEF S!svars
  <2>5. CASE o \notin CheckedOut
    BY <1>2, <2>1, <2>2, <2>3, <2>5 DEF S!Next, S!CheckOut
  <2> QED
    BY <2>4, <2>5
<1>5. CASE \A c \in Checkouts : ~Complete(c)
  <2>1. \A d \in Checkouts :
          /\ P!Completed(d) <=> P!Completed(d)'
          /\ P!Completed(d) => checkout'[d].order = checkout[d].order
    BY <1>3, <1>5, CheckoutStep
    DEF Next, CreateSession, P!CreateSession, P!Completed, P!TypeOK
  <2>2. CheckedOut' = CheckedOut
    BY <2>1 DEF CheckedOut
  <2> QED
    BY <1>2, <2>2 DEF S!svars
<1> QED
  BY <1>4, <1>5

LEMMA OrdersStepSettles ==
    ASSUME Paying, Linked, Begun, OrdersStep
    PROVE  [S!Next]_S!svars
<1>1. CheckedOut' = CheckedOut
  BY OrdersStepKeeps DEF CheckedOut, P!Completed
<1>2. O!TypeOK
  BY DEF Linked
<1>3. O!AdminTime # None /\ O!EventTime # None
  BY ServicesAssumption DEF O!NoneAssumption, O!Times
<1>4. ASSUME \A q \in Orders : RecordOf(orders'[q], create'[q].pc)
                              = RecordOf(orders[q], create[q].pc)
      PROVE  [S!Next]_S!svars
  BY <1>1, <1>4 DEF Record, RecordOf, S!svars
<1>5. ASSUME NEW o \in Orders,
             \A q \in Orders \ {o} : orders'[q] = orders[q]
                                    /\ create'[q].pc = create[q].pc,
             \/ /\ orders[o] = None /\ create[o].pc = "none"
                /\ orders'[o] # None /\ orders'[o].paidAt = None
             \/ /\ orders[o] # None /\ orders'[o] # None
                /\ \/ orders'[o].paidAt = orders[o].paidAt
                   \/ orders'[o].paidAt # None
             \/ /\ orders[o] # None /\ orders'[o] = None
                /\ create'[o].pc # "none"
      PROVE  [S!Next]_S!svars
  <2>1. \A r : RecordOf(orders'[o], create'[o].pc) = r
               => Record' = [Record EXCEPT ![o] = r]
    BY <1>5, RecordChanges
  <2>2. Record[o] = RecordOf(orders[o], create[o].pc)
    BY RecordIs
  <2>3. CASE orders[o] = None
    <3>1. S!Place(o)
      BY <1>1, <1>5, <2>1, <2>2, <2>3 DEF RecordOf, S!Place
    <3> QED
      BY <3>1 DEF S!Next
  <2>4. CASE orders[o] # None /\ orders'[o] = None
    <3>1. S!Delete(o)
      BY <1>1, <1>5, <2>1, <2>2, <2>4 DEF RecordOf, S!Delete
    <3> QED
      BY <3>1 DEF S!Next
  <2>5. CASE /\ orders[o] # None /\ orders'[o] # None
             /\ orders'[o].paidAt # orders[o].paidAt
             /\ orders[o].paidAt = None
    <3>1. S!RecordByHand(o)
      BY <1>1, <1>5, <2>1, <2>2, <2>5 DEF RecordOf, S!RecordByHand
    <3> QED
      BY <3>1 DEF S!Next
  <2>6. CASE /\ orders[o] # None /\ orders'[o] # None
             /\ \/ orders'[o].paidAt = orders[o].paidAt
                \/ orders[o].paidAt # None
    BY <1>4, <1>5, <2>6 DEF RecordOf
  <2> QED
    BY <1>5, <2>3, <2>4, <2>5, <2>6
<1>6. ASSUME NEW c \in Checkouts, CreatePaymentReturns(c)
      PROVE  [S!Next]_S!svars
  <2>1. \A q \in Orders : /\ orders'[q] = orders[q]
                          /\ create'[q].pc = "none" <=> create[q].pc = "none"
    BY <1>2, <1>6 DEF CreatePaymentReturns, O!CreatePayment, O!TypeOK
  <2> QED
    BY <1>4, <2>1 DEF RecordOf
<1>7. ASSUME NEW o \in Orders, O!CreateOrder(o) PROVE [S!Next]_S!svars
  <2> DEFINE row == [status |-> "pending", paidAt |-> None, payment |-> None]
  <2>1. orders[o] = None /\ create[o].pc = "none"
    BY <1>7 DEF O!CreateOrder, Begun
  <2>2. row \in O!Order
    BY DEF O!Order, O!Statuses
  <2>3. row # None /\ row.paidAt = None
    BY <2>2, ServicesAssumption
  <2> HIDE DEF row
  <2>4. orders'[o] = row
    BY <1>2, <1>7 DEF O!CreateOrder, O!TypeOK, row
  <2>5. \A q \in Orders \ {o} : orders'[q] = orders[q]
                              /\ create'[q].pc = create[q].pc
    BY <1>2, <1>7 DEF O!CreateOrder, O!TypeOK
  <2> QED
    BY <1>5, <2>1, <2>3, <2>4, <2>5
<1>8. ASSUME NEW o \in Orders, O!SetPaymentInfo(o) PROVE [S!Next]_S!svars
  <2>1. \A q \in Orders : create'[q].pc = "none" <=> create[q].pc = "none"
    BY <1>2, <1>8 DEF O!SetPaymentInfo, O!TypeOK
  <2>2. \A q \in Orders : RecordOf(orders'[q], create'[q].pc)
                         = RecordOf(orders[q], create[q].pc)
    <3> TAKE q \in Orders
    <3>1. CASE q # o \/ ~O!Exists(o)
      BY <1>2, <1>8, <2>1, <3>1 DEF O!SetPaymentInfo, O!TypeOK, RecordOf
    <3>2. CASE q = o /\ O!Exists(o)
      <4>1. orders[o] \in O!Order /\ create[o].payment \in P!Ids \cup {None}
        BY <1>2, <3>2 DEF O!TypeOK, O!Exists
      <4>2. orders'[o] = [orders[o] EXCEPT !.payment = create[o].payment]
        BY <1>2, <1>8, <3>2 DEF O!SetPaymentInfo, O!TypeOK
      <4>3. orders'[o] \in O!Order /\ orders'[o].paidAt = orders[o].paidAt
        BY <4>1, <4>2 DEF O!Order
      <4> QED
        BY <2>1, <3>2, <4>1, <4>3, ServicesAssumption DEF RecordOf
    <3> QED
      BY <3>1, <3>2
  <2> QED
    BY <1>4, <2>2
<1>9. ASSUME NEW o \in Orders, O!CreateOrderFails(o) PROVE [S!Next]_S!svars
  <2>1. \A q \in Orders : /\ orders'[q] = orders[q]
                          /\ create'[q].pc = "none" <=> create[q].pc = "none"
    BY <1>2, <1>9 DEF O!CreateOrderFails, O!TypeOK
  <2> QED
    BY <1>4, <2>1 DEF RecordOf
<1>10. ASSUME NEW o \in Orders, O!AdminDeleteOrder(o)
       PROVE  [S!Next]_S!svars
  <2>1. orders[o] # None /\ create'[o].pc # "none"
    BY <1>10 DEF O!AdminDeleteOrder, O!Exists, Begun
  <2>2. /\ orders'[o] = None
        /\ \A q \in Orders \ {o} : orders'[q] = orders[q]
                                  /\ create'[q].pc = create[q].pc
    BY <1>2, <1>10 DEF O!AdminDeleteOrder, O!TypeOK
  <2> QED
    BY <1>5, <2>1, <2>2
<1>11. ASSUME NEW m \in P!Message, O!MarkPaid(m) PROVE [S!Next]_S!svars
  <2> DEFINE o == m.order
  <2>1. create' = create
    BY <1>11 DEF O!MarkPaid
  <2>2. CASE o # None /\ O!MarkPaidGuard(o)
    <3>1. o \in Orders
      BY <2>2, ServicesAssumption DEF O!MessageAssumption
    <3>2. orders[o] \in O!Order /\ orders[o] # None
      BY <1>2, <2>2, <3>1 DEF O!MarkPaidGuard, O!Exists, O!TypeOK
    <3>3. /\ orders'[o] = [[orders[o] EXCEPT !.status = "paid"]
                             EXCEPT !.paidAt = O!EventTime]
          /\ \A q \in Orders \ {o} : orders'[q] = orders[q]
      BY <1>2, <1>11, <2>2, <3>1 DEF O!MarkPaid, O!TypeOK
    <3>4. orders'[o] \in O!Order /\ orders'[o].paidAt = O!EventTime
      BY <3>2, <3>3 DEF O!Order, O!Statuses, O!Times
    <3> QED
      BY <1>3, <1>5, <2>1, <3>1, <3>2, <3>3, <3>4, ServicesAssumption
  <2>3. CASE ~(o # None /\ O!MarkPaidGuard(o))
    <3>1. orders' = orders
      BY <1>11, <2>3 DEF O!MarkPaid
    <3> QED
      BY <1>4, <2>1, <3>1
  <2> QED
    BY <2>2, <2>3
<1>12. ASSUME NEW a \in Admins, O!UpdateWrite(a) PROVE [S!Next]_S!svars
  <2> DEFINE o == admin[a].order
  <2>1. create' = create
    BY <1>12 DEF O!UpdateWrite
  <2>2. admin[a] \in O!Update
    BY <1>2, <1>12 DEF O!UpdateWrite, O!At, O!TypeOK
  <2>3. CASE O!Exists(o)
    <3>1. o \in Orders /\ orders[o] \in O!Order /\ orders[o] # None
      BY <1>2, <2>2, <2>3 DEF O!Exists, O!TypeOK, O!Update
    <3>2. /\ orders'[o] = O!Updated(orders[o], admin[a])
          /\ \A q \in Orders \ {o} : orders'[q] = orders[q]
      BY <1>2, <1>12, <2>3, <3>1 DEF O!UpdateWrite, O!TypeOK
    <3>3. /\ orders'[o] \in O!Order
          /\ orders'[o].paidAt \in {orders[o].paidAt, O!AdminTime}
      BY <2>2, <3>1, <3>2 DEF O!Order, O!Updated, O!Update, O!Times
    <3> QED
      BY <1>3, <1>5, <2>1, <3>1, <3>2, <3>3, ServicesAssumption
  <2>4. CASE ~O!Exists(o)
    <3>1. orders' = orders
      BY <1>12, <2>4 DEF O!UpdateWrite
    <3> QED
      BY <1>4, <2>1, <3>1
  <2> QED
    BY <2>3, <2>4
<1>13. ASSUME NEW a \in Admins,
              \/ \E q \in Orders, s \in Requested : O!UpdateRead(a, q, s)
              \/ O!UpdateReread(a) \/ O!NotifyStatusChanged(a)
              \/ O!UpdateEnds(a)
       PROVE  [S!Next]_S!svars
  <2>1. orders' = orders /\ create' = create
    BY <1>13 DEF O!UpdateRead, O!UpdateReread, O!NotifyStatusChanged,
                 O!UpdateEnds
  <2> QED
    BY <1>4, <2>1
<1>14. CASE O!Ack \/ O!AckLost
  <2>1. orders' = orders /\ create' = create
    BY <1>14 DEF O!Ack, O!AckLost
  <2> QED
    BY <1>4, <2>1
<1> QED
  BY <1>6, <1>7, <1>8, <1>9, <1>10, <1>11, <1>12, <1>13, <1>14
  DEF OrdersStep, O!Worker, O!Administration

\* The two services never do what Settlement rules out: only an order that was
\* placed is checked out, a paid order does not become unpaid again, and a
\* deleted one does not come back.
THEOREM SettlesSafely == Spec => S!Safe
<1>1. Init => S!Init
  <2> SUFFICES ASSUME Init PROVE S!Init
    OBVIOUS
  <2>1. CheckedOut = {}
    BY DEF Init, P!Init, CheckedOut, P!Completed
  <2>2. Record = [o \in Orders |-> "absent"]
    BY DEF Init, O!Init, Record
  <2> QED
    BY <2>1, <2>2 DEF S!Init
<1>2. Paying /\ Linked /\ Begun /\ [Next]_vars => [S!Next]_S!svars
  <2> SUFFICES ASSUME Paying, Linked, Begun, [Next]_vars
               PROVE  [S!Next]_S!svars
    OBVIOUS
  <2>1. CASE UNCHANGED vars
    BY <2>1 DEF vars, paymentsOnly, ordersOnly, S!svars, CheckedOut, Record,
                    P!Completed
  <2> QED
    BY <2>1, SessionStepSettles, OrdersStepSettles DEF Next
<1> QED
  BY <1>1, <1>2, BegunHolds, PTL DEF Spec, S!Safe
=============================================================================
