---------------------------- MODULE OrdersProofs ----------------------------
(***************************************************************************)
(* Theorems about the order service's status handling, for any number of   *)
(* orders, messages and concurrent administrators.                         *)
(***************************************************************************)
EXTENDS Orders, TLAPS

\* A step keeps every variable of the service in its type.
LEMMA TypeOKStep == TypeOK /\ [Next]_vars => TypeOK'
<1> SUFFICES ASSUME TypeOK, [Next]_vars PROVE TypeOK'
  OBVIOUS
<1> USE DEF TypeOK, Stages, Statuses
<1>1. ASSUME NEW o \in OrderIds, Creation(o) PROVE TypeOK'
  <2>1. CASE CreateOrder(o)
    <3>1. [status |-> "pending", paidAt |-> None, payment |-> None] \in Order
      BY DEF Order
    <3> QED
      BY <2>1, <3>1 DEF CreateOrder
  <2>2. ASSUME NEW p \in PaymentIds, CreatePayment(o, p) PROVE TypeOK'
    BY <2>2 DEF CreatePayment
  <2>3. CASE SetPaymentInfo(o)
    <3>1. orders' \in [OrderIds -> Order \cup {None}]
      <4>1. CASE Exists(o)
        <5>1. orders[o] \in Order
          BY <4>1 DEF Exists
        <5>2. [orders[o] EXCEPT !.payment = create[o].payment] \in Order
          BY <5>1 DEF Order
        <5> QED
          BY <2>3, <4>1, <5>2 DEF SetPaymentInfo
      <4>2. CASE ~Exists(o)
        BY <2>3, <4>2 DEF SetPaymentInfo
      <4> QED
        BY <4>1, <4>2
    <3> QED
      BY <2>3, <3>1 DEF SetPaymentInfo
  <2>4. CASE CreateOrderFails(o)
    BY <2>4 DEF CreateOrderFails
  <2> QED
    BY <1>1, <2>1, <2>2, <2>3, <2>4 DEF Creation
<1>2. ASSUME NEW o \in OrderIds, AdminDeleteOrder(o) PROVE TypeOK'
  BY <1>2 DEF AdminDeleteOrder
<1>3. ASSUME NEW m \in Message, PaymentSucceeded(m) PROVE TypeOK'
  BY <1>3 DEF PaymentSucceeded
<1>4. ASSUME NEW m \in Message, MarkPaid(m) PROVE TypeOK'
  <2>1. CASE m.order # None /\ MarkPaidGuard(m.order)
    <3>1. m.order \in OrderIds /\ orders[m.order] \in Order
      BY <2>1, MessageAssumption DEF MarkPaidGuard, Exists
    <3>2. [[orders[m.order] EXCEPT !.status = "paid"]
             EXCEPT !.paidAt = EventTime] \in Order
      BY <3>1 DEF Order, Times
    <3>3. orders' = [orders EXCEPT ![m.order] =
                       [[orders[m.order] EXCEPT !.status = "paid"]
                          EXCEPT !.paidAt = EventTime]]
      BY <1>4, <2>1, <3>1 DEF MarkPaid
    <3>4. orders' \in [OrderIds -> Order \cup {None}]
      BY <3>1, <3>2, <3>3
    <3> QED
      BY <1>4, <2>1, <3>1, <3>4 DEF MarkPaid
  <2>2. CASE ~(m.order # None /\ MarkPaidGuard(m.order))
    BY <1>4, <2>2 DEF MarkPaid
  <2> QED
    BY <2>1, <2>2
<1>5. CASE Ack \/ AckLost
  BY <1>5 DEF Ack, AckLost
<1>6. ASSUME NEW a \in Admins, Administration(a) PROVE TypeOK'
  <2>1. ASSUME NEW o \in OrderIds, NEW s \in Requested, UpdateRead(a, o, s)
        PROVE  TypeOK'
    <3>1. [pc |-> "write", order |-> o, status |-> s,
           stamp |-> s = "paid" /\ orders[o].paidAt = None] \in Update
      BY RequestedAssumption DEF Update
    <3> QED
      BY <2>1, <3>1 DEF UpdateRead
  <2>2. CASE UpdateWrite(a)
    <3>1. admin[a] \in Update
      BY <2>2 DEF UpdateWrite, At
    <3>2. /\ admin[a].order \in OrderIds
          /\ admin[a].status \in Statuses
          /\ [admin[a] EXCEPT !.pc = "reread"] \in Update
      BY <3>1 DEF Update
    <3>3. orders' \in [OrderIds -> Order \cup {None}]
      <4>1. CASE Exists(admin[a].order)
        <5>1. orders[admin[a].order] \in Order
          BY <3>2, <4>1 DEF Exists
        <5>2. Updated(orders[admin[a].order], admin[a]) \in Order
          BY <3>2, <5>1 DEF Updated, Order, Times
        <5> QED
          BY <2>2, <3>2, <4>1, <5>2 DEF UpdateWrite
      <4>2. CASE ~Exists(admin[a].order)
        BY <2>2, <4>2 DEF UpdateWrite
      <4> QED
        BY <4>1, <4>2
    <3>4. had' \in [OrderIds -> SUBSET Statuses]
      BY <2>2, <3>2 DEF UpdateWrite
    <3>5. admin' \in [Admins -> Update \cup {None}]
      BY <2>2, <3>2 DEF UpdateWrite
    <3> QED
      BY <2>2, <3>3, <3>4, <3>5 DEF UpdateWrite
  <2>3. CASE UpdateReread(a)
    <3>1. admin[a].order \in OrderIds
      BY <2>3 DEF UpdateReread, At, Update
    <3>2. Exists(admin[a].order) =>
            [pc |-> "publish", order |-> admin[a].order,
             status |-> orders[admin[a].order].status,
             stamp |-> FALSE] \in Update
      BY <3>1 DEF Exists, Update, Order
    <3> QED
      BY <2>3, <3>2 DEF UpdateReread
  <2>4. CASE NotifyStatusChanged(a)
    <3>1. admin[a].order \in OrderIds /\ admin[a].status \in Statuses
      BY <2>4 DEF NotifyStatusChanged, At, Update
    <3> QED
      BY <2>4, <3>1 DEF NotifyStatusChanged
  <2>5. CASE UpdateEnds(a)
    BY <2>5 DEF UpdateEnds
  <2> QED
    BY <1>6, <2>1, <2>2, <2>3, <2>4, <2>5 DEF Administration
<1>7. CASE UNCHANGED vars
  BY <1>7 DEF vars
<1> QED
  BY <1>1, <1>2, <1>3, <1>4, <1>5, <1>6, <1>7 DEF Next, Worker

\* Every variable of the order service keeps its type.
THEOREM TypeCorrect == Spec => []TypeOK
<1>1. Init => TypeOK
  BY DEF Init, TypeOK, Stages
<1> QED
  BY <1>1, TypeOKStep, PTL DEF Spec

-----------------------------------------------------------------------------
(***************************************************************************)
(* A message may be acknowledged because MarkPaid found nothing to do, so  *)
(* that an acknowledged message is on record rests on "a paid order has a  *)
(* paid_at", and that on what an update in flight has read.                *)
(***************************************************************************)
PaidHasTime ==
    \A o \in OrderIds :
        Exists(o) /\ orders[o].status = "paid" => orders[o].paidAt # None

UpdatesHaveTime ==
    \A a \in Admins : admin[a] # None =>
        /\ create[admin[a].order].pc # "none"
        /\ /\ admin[a].pc = "write"
           /\ admin[a].status = "paid"
           /\ ~admin[a].stamp
           /\ Exists(admin[a].order)
           => orders[admin[a].order].paidAt # None

\* Only orders that were created are in the table.
RowsCreated ==
    \A o \in OrderIds : Exists(o) => create[o].pc # "none"

\* Messages name orders that were created before.
MessagesCreated ==
    \A m \in stream : m.order # None => create[m.order].pc # "none"

Recorded(m) ==
    m.order # None /\ Exists(m.order) => orders[m.order].paidAt # None

WorkerIsRecorded ==
    worker # None => worker \in stream /\ Recorded(worker)

AckedInStream == \A m \in acked : m \in stream /\ Recorded(m)

Record ==
    /\ TypeOK
    /\ RowsCreated /\ MessagesCreated
    /\ PaidHasTime /\ UpdatesHaveTime
    /\ WorkerIsRecorded /\ AckedInStream

\* No step takes a paid_at away, brings a row back, or forgets that an order was
\* created.
LEMMA RowStep ==
    ASSUME Record, [Next]_vars, NEW o \in OrderIds
    PROVE  /\ create[o].pc # "none" => create'[o].pc # "none"
           /\ orders[o] = None /\ orders'[o] # None => CreateOrder(o)
           /\ /\ orders[o] # None /\ orders'[o] # None
              /\ orders[o].paidAt # None
              => orders'[o].paidAt # None
<1> USE DEF Record
<1>1. ASSUME NEW q \in OrderIds, Creation(q)
      PROVE  /\ create[o].pc # "none" => create'[o].pc # "none"
             /\ orders[o] = None /\ orders'[o] # None => CreateOrder(o)
             /\ /\ orders[o] # None /\ orders'[o] # None
                /\ orders[o].paidAt # None
                => orders'[o].paidAt # None
  <2>1. CASE CreateOrder(q)
    BY <2>1 DEF CreateOrder, TypeOK, RowsCreated, Exists
  <2>2. ASSUME NEW p \in PaymentIds, CreatePayment(q, p)
        PROVE  orders' = orders /\ create'[o].pc \in {create[o].pc, "attaching"}
    BY <2>2 DEF CreatePayment, TypeOK
  <2>3. CASE SetPaymentInfo(q)
    <3>1. create'[o].pc \in {create[o].pc, "returned"}
      BY <2>3 DEF SetPaymentInfo, TypeOK
    <3>2. CASE Exists(q) /\ q = o
      <4>1. orders[o] \in Order
        BY <3>2 DEF Exists, TypeOK
      <4>2. orders'[o] = [orders[o] EXCEPT !.payment = create[o].payment]
        BY <2>3, <3>2 DEF SetPaymentInfo, TypeOK
      <4>3. orders'[o].paidAt = orders[o].paidAt
        BY <4>1, <4>2 DEF Order
      <4> QED
        BY <3>1, <3>2, <4>3 DEF Exists
    <3>3. CASE ~(Exists(q) /\ q = o)
      <4>1. orders'[o] = orders[o]
        BY <2>3, <3>3 DEF SetPaymentInfo, TypeOK
      <4> QED
        BY <3>1, <4>1
    <3> QED
      BY <3>2, <3>3
  <2>4. CASE CreateOrderFails(q)
    <3>1. orders' = orders /\ create'[o].pc \in {create[o].pc, "failed"}
      BY <2>4 DEF CreateOrderFails, TypeOK
    <3> QED
      BY <3>1
  <2> QED
    BY <1>1, <2>1, <2>2, <2>3, <2>4 DEF Creation
<1>2. ASSUME NEW q \in OrderIds, AdminDeleteOrder(q)
      PROVE  create' = create /\ orders'[o] \in {orders[o], None}
  BY <1>2 DEF AdminDeleteOrder, TypeOK
<1>3. ASSUME NEW m \in Message, MarkPaid(m)
      PROVE  /\ create' = create
             /\ orders[o] = None => orders'[o] = None
             /\ orders'[o] = orders[o] \/ orders'[o].paidAt = EventTime
  <2>1. CASE m.order # None /\ MarkPaidGuard(m.order) /\ m.order = o
    <3>1. orders[o] \in Order
      BY <2>1 DEF MarkPaidGuard, Exists, TypeOK
    <3>2. orders'[o] = [[orders[o] EXCEPT !.status = "paid"]
                          EXCEPT !.paidAt = EventTime]
      BY <1>3, <2>1 DEF MarkPaid, TypeOK
    <3>3. orders'[o].paidAt = EventTime
      BY <3>1, <3>2 DEF Order
    <3> QED
      BY <1>3, <2>1, <3>3 DEF MarkPaid, MarkPaidGuard, Exists
  <2>2. CASE ~(m.order # None /\ MarkPaidGuard(m.order) /\ m.order = o)
    BY <1>3, <2>2 DEF MarkPaid, TypeOK
  <2> QED
    BY <2>1, <2>2
<1>4. ASSUME NEW a \in Admins, UpdateWrite(a)
      PROVE  /\ create' = create
             /\ orders[o] = None => orders'[o] = None
             /\ orders'[o] = orders[o] \/ orders'[o].paidAt = AdminTime
                \/ orders'[o].paidAt = orders[o].paidAt
  <2>1. CASE Exists(admin[a].order) /\ admin[a].order = o
    <3>1. orders'[o] = Updated(orders[o], admin[a])
      BY <1>4, <2>1 DEF UpdateWrite, TypeOK
    <3>2. orders[o] \in Order
      BY <2>1 DEF Exists, TypeOK
    <3>3. orders'[o].paidAt \in {AdminTime, orders[o].paidAt}
      BY <3>1, <3>2 DEF Updated, Order
    <3> QED
      BY <1>4, <2>1, <3>3 DEF UpdateWrite, Exists
  <2>2. CASE ~(Exists(admin[a].order) /\ admin[a].order = o)
    BY <1>4, <2>2 DEF UpdateWrite, TypeOK
  <2> QED
    BY <2>1, <2>2
<1>5. EventTime # None /\ AdminTime # None
  BY NoneAssumption DEF Times
<1>6. ASSUME \A q \in OrderIds : ~Creation(q) /\ ~AdminDeleteOrder(q),
             \A m \in Message : ~MarkPaid(m),
             \A a \in Admins : ~UpdateWrite(a)
      PROVE  create' = create /\ orders' = orders
  BY <1>6 DEF Next, PaymentSucceeded, Worker, Ack, AckLost, Administration,
              UpdateRead, UpdateReread, NotifyStatusChanged, UpdateEnds, vars
<1> QED
  BY <1>1, <1>2, <1>3, <1>4, <1>5, <1>6

\* The record of paid orders survives every step.
LEMMA RecordStep == Record /\ [Next]_vars => Record'
<1> SUFFICES ASSUME Record, [Next]_vars PROVE Record'
  OBVIOUS
<1> USE DEF Record
<1>1. TypeOK'
  BY TypeOKStep
<1>2. ASSUME NEW o \in OrderIds
      PROVE  /\ create[o].pc # "none" => create'[o].pc # "none"
             /\ orders[o] = None /\ orders'[o] # None
                => CreateOrder(o) /\ create[o].pc = "none"
             /\ /\ orders[o] # None /\ orders'[o] # None
                /\ orders[o].paidAt # None
                => orders'[o].paidAt # None
  BY RowStep DEF CreateOrder
<1>3. RowsCreated'
  <2> SUFFICES ASSUME NEW o \in OrderIds, orders'[o] # None
               PROVE  create'[o].pc # "none"
    BY DEF RowsCreated, Exists
  <2>1. CASE orders[o] # None
    BY <2>1, <1>2 DEF RowsCreated, Exists
  <2>2. CASE orders[o] = None
    BY <2>2, <1>2 DEF CreateOrder, TypeOK
  <2> QED
    BY <2>1, <2>2
<1>4. ASSUME NEW m \in Message,
             m.order # None => create[m.order].pc # "none",
             Recorded(m)
      PROVE  Recorded(m)'
  <2> SUFFICES ASSUME m.order # None, orders'[m.order] # None
               PROVE  orders'[m.order].paidAt # None
    BY DEF Recorded, Exists
  <2>1. m.order \in OrderIds
    BY MessageAssumption
  <2> QED
    BY <1>2, <1>4, <2>1 DEF Recorded, Exists
<1>5. MessagesCreated'
  <2>1. ASSUME NEW m \in Message, PaymentSucceeded(m) PROVE MessagesCreated'
    BY <2>1, MessageAssumption
    DEF PaymentSucceeded, MessagesCreated, TypeOK
  <2>2. CASE stream' = stream
    <3> SUFFICES ASSUME NEW m \in stream, m.order # None
                 PROVE  create'[m.order].pc # "none"
      BY <2>2 DEF MessagesCreated
    <3>1. m.order \in OrderIds
      BY MessageAssumption DEF TypeOK
    <3> QED
      BY <1>2, <3>1 DEF MessagesCreated
  <2>3. ASSUME \A m \in Message : ~PaymentSucceeded(m) PROVE stream' = stream
    BY <2>3 DEF Next, Creation, CreateOrder, CreatePayment, SetPaymentInfo,
                CreateOrderFails, AdminDeleteOrder, Worker, MarkPaid, Ack,
                AckLost, Administration, UpdateRead, UpdateWrite,
                UpdateReread, NotifyStatusChanged, UpdateEnds, vars
  <2> QED
    BY <2>1, <2>2, <2>3
<1>6. PaidHasTime'
  <2> SUFFICES ASSUME NEW o \in OrderIds, orders'[o] # None,
                      orders'[o].status = "paid"
               PROVE  orders'[o].paidAt # None
    BY DEF PaidHasTime, Exists
  <2>1. CASE orders[o] = None
    BY <2>1, <1>2 DEF CreateOrder, TypeOK
  <2>2. CASE orders[o] # None /\ orders[o].paidAt # None
    BY <2>2, <1>2
  <2>3. CASE orders[o] # None /\ orders[o].paidAt = None
    <3>1. orders[o] \in Order /\ orders[o].status # "paid"
      BY <2>3 DEF PaidHasTime, Exists, TypeOK
    <3>2. ASSUME NEW q \in OrderIds, SetPaymentInfo(q)
          PROVE  FALSE
      <4>1. orders'[o] \in {orders[o],
                            [orders[o] EXCEPT !.payment = create[o].payment]}
        BY <3>2 DEF SetPaymentInfo, TypeOK
      <4>2. orders'[o].status = orders[o].status
        BY <3>1, <4>1 DEF Order
      <4> QED
        BY <3>1, <4>2
    <3>3. ASSUME NEW m \in Message, MarkPaid(m)
          PROVE  orders'[o].paidAt # None
      <4>1. \/ orders'[o] = orders[o]
            \/ orders'[o] = [[orders[o] EXCEPT !.status = "paid"]
                               EXCEPT !.paidAt = EventTime]
        BY <3>3 DEF MarkPaid, TypeOK
      <4>2. orders'[o] # orders[o]
        BY <3>1
      <4>3. orders'[o].paidAt = EventTime
        BY <3>1, <4>1, <4>2 DEF Order
      <4> QED
        BY <4>3, NoneAssumption DEF Times
    <3>4. ASSUME NEW a \in Admins, UpdateWrite(a)
          PROVE  orders'[o].paidAt # None
      <4>1. \/ orders'[o] = orders[o]
            \/ /\ admin[a].order = o
               /\ orders'[o] = Updated(orders[o], admin[a])
        BY <3>4 DEF UpdateWrite, TypeOK
      <4>2. admin[a].order = o /\ orders'[o] = Updated(orders[o], admin[a])
        BY <3>1, <4>1
      <4>3. admin[a].status = "paid"
        BY <3>1, <4>2 DEF Updated, Order
      <4>4. admin[a].stamp
        BY <2>3, <3>4, <4>2, <4>3
        DEF UpdatesHaveTime, UpdateWrite, At, Exists
      <4>5. orders'[o].paidAt = AdminTime
        BY <3>1, <4>2, <4>4 DEF Updated, Order
      <4> QED
        BY <4>5, NoneAssumption DEF Times
    <3>5. ASSUME NEW q \in OrderIds, CreateOrder(q) \/ AdminDeleteOrder(q)
          PROVE  orders'[o] = orders[o]
      BY <2>3, <3>5 DEF CreateOrder, AdminDeleteOrder, RowsCreated, Exists,
                        TypeOK
    <3>6. ASSUME \A q \in OrderIds : ~SetPaymentInfo(q) /\ ~CreateOrder(q)
                                     /\ ~AdminDeleteOrder(q),
                 \A m \in Message : ~MarkPaid(m),
                 \A a \in Admins : ~UpdateWrite(a)
          PROVE  orders' = orders
      BY <3>6 DEF Next, Creation, CreatePayment, CreateOrderFails,
                  PaymentSucceeded, Worker, Ack, AckLost, Administration,
                  UpdateRead, UpdateReread, NotifyStatusChanged, UpdateEnds,
                  vars
    <3> QED
      BY <3>1, <3>2, <3>3, <3>4, <3>5, <3>6
  <2> QED
    BY <2>1, <2>2, <2>3
<1>7. UpdatesHaveTime'
  <2> SUFFICES ASSUME NEW a \in Admins, admin'[a] # None
               PROVE  /\ create'[admin'[a].order].pc # "none"
                      /\ /\ admin'[a].pc = "write"
                         /\ admin'[a].status = "paid"
                         /\ ~admin'[a].stamp
                         /\ orders'[admin'[a].order] # None
                         => orders'[admin'[a].order].paidAt # None
    BY DEF UpdatesHaveTime, Exists
  <2>1. CASE admin'[a] = admin[a]
    <3>1. admin[a].order \in OrderIds
      BY <2>1 DEF TypeOK, Update
    <3> QED
      BY <1>2, <2>1, <3>1 DEF UpdatesHaveTime, Exists
  <2>2. ASSUME NEW o \in OrderIds, NEW s \in Requested, UpdateRead(a, o, s)
        PROVE  /\ create'[admin'[a].order].pc # "none"
               /\ /\ admin'[a].pc = "write"
                  /\ admin'[a].status = "paid"
                  /\ ~admin'[a].stamp
                  /\ orders'[admin'[a].order] # None
                  => orders'[admin'[a].order].paidAt # None
    BY <2>2 DEF UpdateRead, RowsCreated, Exists, TypeOK
  <2>3. ASSUME UpdateWrite(a)
        PROVE  create'[admin'[a].order].pc # "none" /\ admin'[a].pc # "write"
    <3>1. admin[a] \in Update /\ admin[a] # None /\ admin[a].order \in OrderIds
      BY <2>3 DEF UpdateWrite, At, TypeOK, Update
    <3>2. admin'[a] = [admin[a] EXCEPT !.pc = "reread"] /\ create' = create
      BY <2>3 DEF UpdateWrite, TypeOK
    <3>3. admin'[a].pc = "reread" /\ admin'[a].order = admin[a].order
      BY <3>1, <3>2 DEF Update
    <3> QED
      BY <3>1, <3>2, <3>3 DEF UpdatesHaveTime
  <2>4. ASSUME UpdateReread(a)
        PROVE  create'[admin'[a].order].pc # "none" /\ admin'[a].pc # "write"
    BY <2>4 DEF UpdateReread, At, UpdatesHaveTime, TypeOK
  <2>5. ASSUME NotifyStatusChanged(a) \/ UpdateEnds(a)
        PROVE  FALSE
    BY <2>5 DEF NotifyStatusChanged, UpdateEnds, TypeOK
  <2>6. ASSUME NEW b \in Admins, Administration(b), b # a
        PROVE  admin'[a] = admin[a]
    BY <2>6 DEF Administration, UpdateRead, UpdateWrite, UpdateReread,
                NotifyStatusChanged, UpdateEnds, TypeOK
  <2>7. ASSUME \A b \in Admins : ~Administration(b) PROVE admin' = admin
    BY <2>7 DEF Next, Creation, CreateOrder, CreatePayment, SetPaymentInfo,
                CreateOrderFails, AdminDeleteOrder, PaymentSucceeded, Worker,
                MarkPaid, Ack, AckLost, vars
  <2> QED
    BY <2>1, <2>2, <2>3, <2>4, <2>5, <2>6, <2>7 DEF Administration
<1>8. WorkerIsRecorded'
  <2>1. ASSUME NEW m \in Message, MarkPaid(m) PROVE WorkerIsRecorded'
    <3>1. worker' = m /\ m \in stream /\ stream' = stream
      BY <2>1 DEF MarkPaid
    <3>2. Recorded(m)'
      <4> SUFFICES ASSUME m.order # None, orders'[m.order] # None
                   PROVE  orders'[m.order].paidAt # None
        BY DEF Recorded, Exists
      <4>1. m.order \in OrderIds
        BY MessageAssumption
      <4>2. CASE MarkPaidGuard(m.order)
        <5>1. orders[m.order] \in Order
          BY <4>1, <4>2 DEF MarkPaidGuard, Exists, TypeOK
        <5>2. orders'[m.order] = [[orders[m.order] EXCEPT !.status = "paid"]
                                    EXCEPT !.paidAt = EventTime]
          BY <2>1, <4>1, <4>2 DEF MarkPaid, TypeOK
        <5>3. orders'[m.order].paidAt = EventTime
          BY <5>1, <5>2 DEF Order
        <5> QED
          BY <5>3, NoneAssumption DEF Times
      <4>3. CASE ~MarkPaidGuard(m.order)
        <5>1. orders' = orders
          BY <2>1, <4>3 DEF MarkPaid
        <5>2. orders[m.order] # None
          BY <5>1
        <5> QED
          BY <4>1, <4>3, <5>1, <5>2 DEF MarkPaidGuard, PaidHasTime, Exists
      <4> QED
        BY <4>2, <4>3
    <3>3. worker' \in stream' /\ Recorded(worker)'
      BY <3>1, <3>2 DEF Recorded, Exists
    <3> QED
      BY <3>3 DEF WorkerIsRecorded
  <2>2. CASE Ack \/ AckLost
    BY <2>2 DEF Ack, AckLost, WorkerIsRecorded
  <2>3. CASE worker' = worker /\ stream \subseteq stream'
    <3> SUFFICES ASSUME worker # None
                 PROVE  worker' \in stream' /\ Recorded(worker)'
      BY <2>3 DEF WorkerIsRecorded
    <3>1. worker \in stream /\ worker \in Message /\ Recorded(worker)
      BY DEF WorkerIsRecorded, TypeOK
    <3>2. worker.order # None => create[worker.order].pc # "none"
      BY <3>1 DEF MessagesCreated
    <3>3. \A m \in Message : m = worker => Recorded(m)'
      BY <1>4, <3>1, <3>2
    <3> QED
      BY <2>3, <3>1, <3>3 DEF Recorded, Exists
  <2>4. ASSUME \A m \in Message : ~MarkPaid(m), ~Ack, ~AckLost
        PROVE  worker' = worker /\ stream \subseteq stream'
    BY <2>4 DEF Next, Creation, CreateOrder, CreatePayment, SetPaymentInfo,
                CreateOrderFails, AdminDeleteOrder, PaymentSucceeded, Worker,
                Administration, UpdateRead, UpdateWrite, UpdateReread,
                NotifyStatusChanged, UpdateEnds, vars
  <2> QED
    BY <2>1, <2>2, <2>3, <2>4
<1>9. AckedInStream'
  <2>1. stream \subseteq stream' /\ acked' \subseteq acked \cup {worker}
    BY DEF Next, Creation, CreateOrder, CreatePayment, SetPaymentInfo,
           CreateOrderFails, AdminDeleteOrder, PaymentSucceeded, Worker,
           MarkPaid, Ack, AckLost, Administration, UpdateRead, UpdateWrite,
           UpdateReread, NotifyStatusChanged, UpdateEnds, vars
  <2>2. worker = None => acked' = acked
    BY DEF Next, Creation, CreateOrder, CreatePayment, SetPaymentInfo,
           CreateOrderFails, AdminDeleteOrder, PaymentSucceeded, Worker,
           MarkPaid, Ack, AckLost, Administration, UpdateRead, UpdateWrite,
           UpdateReread, NotifyStatusChanged, UpdateEnds, vars
  <2> SUFFICES ASSUME NEW m \in acked'
               PROVE  m \in stream' /\ Recorded(m)'
    BY DEF AckedInStream, Recorded, Exists
  <2>3. m \in stream /\ Recorded(m)
    BY <2>1, <2>2 DEF AckedInStream, WorkerIsRecorded
  <2>4. m \in Message /\ (m.order # None => create[m.order].pc # "none")
    BY <2>3 DEF TypeOK, MessagesCreated
  <2> QED
    BY <1>4, <2>1, <2>3, <2>4
<1> QED
  BY <1>1, <1>3, <1>5, <1>6, <1>7, <1>8, <1>9

LEMMA RecordInvariant == Spec => []Record
<1>1. Init => Record
  BY DEF Init, Record, TypeOK, Stages, RowsCreated, MessagesCreated, Exists,
         PaidHasTime, UpdatesHaveTime, WorkerIsRecorded, AckedInStream
<1> QED
  BY <1>1, RecordStep, PTL DEF Spec

\* A payment.succeeded message is acknowledged only when the order it names has
\* a paid_at or is gone, whatever administrators do in between.
THEOREM AckedIsRecordedAlways == Spec => []AckedIsRecorded
<1>1. Record => AckedIsRecorded
  BY DEF Record, AckedInStream, Recorded, AckedIsRecorded
<1> QED
  BY <1>1, RecordInvariant, PTL

\* Nothing brings a deleted order back.
THEOREM NoResurrectionAlways == Spec => NoResurrection
<1>1. Record /\ [Next]_vars =>
        [\A o \in OrderIds :
           orders[o] = None /\ orders'[o] # None => create[o].pc = "none"]_vars
  BY RowStep DEF CreateOrder
<1> QED
  BY <1>1, RecordInvariant, PTL DEF Spec, NoResurrection

-----------------------------------------------------------------------------
(***************************************************************************)
(* What an update publishes it has read back, so the history of a row must *)
(* hold its present status, also the one a worker or another update wrote. *)
(***************************************************************************)
StatusHad ==
    \A o \in OrderIds : Exists(o) => orders[o].status \in had[o]

ReadHad ==
    \A a \in Admins :
        At(a, "publish") => admin[a].status \in had[admin[a].order]

History == TypeOK /\ ToldHad /\ StatusHad /\ ReadHad

\* A row has the status it had before, or one that the step adds to its history.
LEMMA HadStep ==
    ASSUME TypeOK, [Next]_vars, NEW o \in OrderIds
    PROVE  /\ had[o] \subseteq had'[o]
           /\ orders'[o] # None =>
                \/ orders[o] # None /\ orders'[o].status = orders[o].status
                \/ orders'[o].status \in had'[o]
<1> USE DEF TypeOK
<1>1. ASSUME NEW q \in OrderIds, Creation(q) \/ AdminDeleteOrder(q)
      PROVE  /\ had[o] \subseteq had'[o]
             /\ orders'[o] # None =>
                  \/ orders[o] # None /\ orders'[o].status = orders[o].status
                  \/ orders'[o].status \in had'[o]
  <2>1. CASE CreateOrder(q)
    <3>1. CASE q = o
      <4>1. /\ orders'[o] = [status |-> "pending", paidAt |-> None,
                             payment |-> None]
            /\ had'[o] = had[o] \cup {"pending"}
        BY <2>1, <3>1 DEF CreateOrder
      <4> QED
        BY <4>1
    <3>2. CASE q # o
      BY <2>1, <3>2 DEF CreateOrder
    <3> QED
      BY <3>1, <3>2
  <2>2. CASE SetPaymentInfo(q)
    <3>1. had' = had
      BY <2>2 DEF SetPaymentInfo
    <3>2. CASE Exists(q) /\ q = o
      <4>1. orders[o] \in Order /\ orders[o] # None
        BY <3>2 DEF Exists
      <4>2. orders'[o] = [orders[o] EXCEPT !.payment = create[o].payment]
        BY <2>2, <3>2 DEF SetPaymentInfo
      <4>3. orders'[o].status = orders[o].status
        BY <4>1, <4>2 DEF Order
      <4> QED
        BY <3>1, <4>1, <4>3
    <3>3. CASE ~(Exists(q) /\ q = o)
      BY <2>2, <3>1, <3>3 DEF SetPaymentInfo
    <3> QED
      BY <3>2, <3>3
  <2>3. CASE AdminDeleteOrder(q)
    BY <2>3 DEF AdminDeleteOrder
  <2>4. CASE CreateOrderFails(q) \/ \E p \in PaymentIds : CreatePayment(q, p)
    <3>1. orders' = orders /\ had' = had
      BY <2>4 DEF CreateOrderFails, CreatePayment
    <3> QED
      BY <3>1
  <2> QED
    BY <1>1, <2>1, <2>2, <2>3, <2>4 DEF Creation
<1>2. ASSUME NEW m \in Message, MarkPaid(m)
      PROVE  /\ had[o] \subseteq had'[o]
             /\ orders'[o] # None =>
                  \/ orders[o] # None /\ orders'[o].status = orders[o].status
                  \/ orders'[o].status \in had'[o]
  <2>1. CASE m.order # None /\ MarkPaidGuard(m.order) /\ m.order = o
    <3>1. orders[o] \in Order
      BY <2>1 DEF MarkPaidGuard, Exists
    <3>2. /\ orders'[o] = [[orders[o] EXCEPT !.status = "paid"]
                             EXCEPT !.paidAt = EventTime]
          /\ had'[o] = had[o] \cup {"paid"}
      BY <1>2, <2>1 DEF MarkPaid
    <3>3. orders'[o].status = "paid"
      BY <3>1, <3>2 DEF Order
    <3> QED
      BY <3>2, <3>3
  <2>2. CASE ~(m.order # None /\ MarkPaidGuard(m.order) /\ m.order = o)
    BY <1>2, <2>2, MessageAssumption DEF MarkPaid
  <2> QED
    BY <2>1, <2>2
<1>3. ASSUME NEW a \in Admins, UpdateWrite(a)
      PROVE  /\ had[o] \subseteq had'[o]
             /\ orders'[o] # None =>
                  \/ orders[o] # None /\ orders'[o].status = orders[o].status
                  \/ orders'[o].status \in had'[o]
  <2>1. CASE Exists(admin[a].order) /\ admin[a].order = o
    <3>1. /\ orders'[o] = Updated(orders[o], admin[a])
          /\ had'[o] = had[o] \cup {admin[a].status}
      BY <1>3, <2>1 DEF UpdateWrite
    <3>2. orders[o] \in Order
      BY <2>1 DEF Exists
    <3>3. orders'[o].status = admin[a].status
      BY <3>1, <3>2 DEF Updated, Order
    <3> QED
      BY <3>1, <3>3
  <2>2. CASE ~(Exists(admin[a].order) /\ admin[a].order = o)
    BY <1>3, <2>2 DEF UpdateWrite
  <2> QED
    BY <2>1, <2>2
<1>4. ASSUME \A q \in OrderIds : ~Creation(q) /\ ~AdminDeleteOrder(q),
             \A m \in Message : ~MarkPaid(m),
             \A a \in Admins : ~UpdateWrite(a)
      PROVE  had' = had /\ orders' = orders
  BY <1>4 DEF Next, PaymentSucceeded, Worker, Ack, AckLost, Administration,
              UpdateRead, UpdateReread, NotifyStatusChanged, UpdateEnds, vars
<1> QED
  BY <1>1, <1>2, <1>3, <1>4

LEMMA HistoryStep == History /\ [Next]_vars => History'
<1> SUFFICES ASSUME History, [Next]_vars PROVE History'
  OBVIOUS
<1> USE DEF History
<1>1. TypeOK'
  BY TypeOKStep
<1>2. StatusHad'
  BY HadStep DEF StatusHad, Exists
<1>3. ToldHad'
  <2>1. ASSUME NEW a \in Admins, NotifyStatusChanged(a) PROVE ToldHad'
    <3>1. admin[a] \in Update /\ At(a, "publish")
      BY <2>1 DEF NotifyStatusChanged, At, TypeOK
    <3>2. admin[a].status \in had[admin[a].order] /\ had' = had
      BY <2>1, <3>1 DEF ReadHad, NotifyStatusChanged
    <3>3. told' = [told EXCEPT ![admin[a].order] = @ \cup {admin[a].status}]
      BY <2>1 DEF NotifyStatusChanged
    <3> QED
      BY <3>2, <3>3 DEF ToldHad, TypeOK
  <2>2. CASE told' = told
    BY <2>2, HadStep DEF ToldHad
  <2>3. ASSUME \A a \in Admins : ~NotifyStatusChanged(a) PROVE told' = told
    BY <2>3 DEF Next, Creation, CreateOrder, CreatePayment, SetPaymentInfo,
                CreateOrderFails, AdminDeleteOrder, PaymentSucceeded, Worker,
                MarkPaid, Ack, AckLost, Administration, UpdateRead,
                UpdateWrite, UpdateReread, UpdateEnds, vars
  <2> QED
    BY <2>1, <2>2, <2>3
<1>4. ReadHad'
  <2> SUFFICES ASSUME NEW a \in Admins, admin'[a] # None,
                      admin'[a].pc = "publish"
               PROVE  admin'[a].status \in had'[admin'[a].order]
    BY DEF ReadHad, At
  <2>1. CASE admin'[a] = admin[a]
    <3>1. admin[a].order \in OrderIds /\ At(a, "publish")
      BY <2>1 DEF TypeOK, Update, At
    <3> QED
      BY <2>1, <3>1, HadStep DEF ReadHad
  <2>2. ASSUME NEW o \in OrderIds, NEW s \in Requested, UpdateRead(a, o, s)
        PROVE  FALSE
    BY <2>2 DEF UpdateRead, TypeOK
  <2>3. ASSUME UpdateWrite(a) PROVE FALSE
    <3>1. /\ admin[a] \in Update
          /\ admin'[a] = [admin[a] EXCEPT !.pc = "reread"]
      BY <2>3 DEF UpdateWrite, At, TypeOK
    <3>2. admin'[a].pc = "reread"
      BY <3>1 DEF Update
    <3> QED
      BY <3>2
  <2>4. CASE UpdateReread(a)
    <3>1. /\ Exists(admin[a].order) /\ admin[a].order \in OrderIds
          /\ admin'[a] = [pc |-> "publish", order |-> admin[a].order,
                          status |-> orders[admin[a].order].status,
                          stamp |-> FALSE]
          /\ had' = had
      BY <2>4 DEF UpdateReread, At, TypeOK, Update
    <3> QED
      BY <3>1 DEF StatusHad
  <2>5. ASSUME NotifyStatusChanged(a) \/ UpdateEnds(a) PROVE FALSE
    BY <2>5 DEF NotifyStatusChanged, UpdateEnds, TypeOK
  <2>6. ASSUME NEW b \in Admins, Administration(b), b # a
        PROVE  admin'[a] = admin[a]
    BY <2>6 DEF Administration, UpdateRead, UpdateWrite, UpdateReread,
                NotifyStatusChanged, UpdateEnds, TypeOK
  <2>7. ASSUME \A b \in Admins : ~Administration(b) PROVE admin' = admin
    BY <2>7 DEF Next, Creation, CreateOrder, CreatePayment, SetPaymentInfo,
                CreateOrderFails, AdminDeleteOrder, PaymentSucceeded, Worker,
                MarkPaid, Ack, AckLost, vars
  <2> QED
    BY <2>1, <2>2, <2>3, <2>4, <2>5, <2>6, <2>7 DEF Administration
<1> QED
  BY <1>1, <1>2, <1>3, <1>4

\* Whatever updates, workers and deletions do in between, a customer is told
\* only of a status that the order had.
THEOREM ToldHadAlways == Spec => []ToldHad
<1>1. Init => History
  BY DEF Init, History, TypeOK, Stages, ToldHad, StatusHad, ReadHad, Exists, At
<1>2. History => ToldHad
  BY DEF History
<1> QED
  BY <1>1, <1>2, HistoryStep, PTL DEF Spec

-----------------------------------------------------------------------------
(***************************************************************************)
(* The payment of an order is set by one UPDATE, at the moment the call    *)
(* returns, and every other statement leaves the column alone.             *)
(***************************************************************************)
PaymentAnswered ==
    \A o \in OrderIds :
        create[o].pc \in {"attaching", "returned"}
        => create[o].payment \in PaymentIds

Attached == TypeOK /\ RowsCreated /\ PaymentAnswered /\ PaymentInfoStays

LEMMA AttachedStep == Attached /\ [Next]_vars => Attached'
<1> SUFFICES ASSUME Attached, [Next]_vars PROVE Attached'
  OBVIOUS
<1> USE DEF Attached
<1>1. TypeOK'
  BY TypeOKStep
<1>2. ASSUME NEW q \in OrderIds, NEW o \in OrderIds, Creation(q)
      PROVE  /\ orders'[o] # None => create'[o].pc # "none"
             /\ create'[o].pc \in {"attaching", "returned"}
                => create'[o].payment \in PaymentIds
             /\ orders'[o] # None /\ create'[o].pc = "returned"
                => /\ orders'[o].payment = create'[o].payment
                   /\ orders'[o].payment # None
  <2> USE DEF TypeOK, RowsCreated, PaymentAnswered, PaymentInfoStays, Exists
  <2>1. CASE q # o
    <3>1. orders'[o] = orders[o] /\ create'[o] = create[o]
      BY <1>2, <2>1 DEF Creation, CreateOrder, CreatePayment, SetPaymentInfo,
                        CreateOrderFails
    <3> QED
      BY <3>1
  <2>2. CASE q = o /\ CreateOrder(o)
    <3>1. create'[o].pc = "inserted"
      BY <2>2 DEF CreateOrder
    <3> QED
      BY <3>1
  <2>3. ASSUME q = o, NEW p \in PaymentIds, CreatePayment(o, p)
        PROVE  create'[o].pc = "attaching" /\ create'[o].payment = p
    BY <2>3 DEF CreatePayment
  <2>4. CASE q = o /\ SetPaymentInfo(o)
    <3>1. /\ create[o].payment \in PaymentIds
          /\ create'[o].pc = "returned"
          /\ create'[o].payment = create[o].payment
      BY <2>4 DEF SetPaymentInfo
    <3>2. CASE Exists(o)
      <4>1. orders[o] \in Order
        BY <3>2
      <4>2. orders'[o] = [orders[o] EXCEPT !.payment = create[o].payment]
        BY <2>4, <3>2 DEF SetPaymentInfo
      <4>3. orders'[o].payment = create[o].payment
        BY <4>1, <4>2 DEF Order
      <4> QED
        BY <3>1, <4>3, NoneAssumption
    <3>3. CASE ~Exists(o)
      <4>1. orders'[o] = None
        BY <2>4, <3>3 DEF SetPaymentInfo
      <4> QED
        BY <3>1, <4>1
    <3> QED
      BY <3>2, <3>3
  <2>5. CASE q = o /\ CreateOrderFails(o)
    <3>1. create'[o].pc = "failed"
      BY <2>5 DEF CreateOrderFails
    <3> QED
      BY <3>1
  <2> QED
    BY <1>2, <2>1, <2>2, <2>3, <2>4, <2>5 DEF Creation
<1>3. ASSUME create' = create,
             \A o \in OrderIds : orders'[o] # None =>
                orders[o] # None /\ orders'[o].payment = orders[o].payment
      PROVE  Attached'
  BY <1>1, <1>3 DEF RowsCreated, PaymentAnswered, PaymentInfoStays, Exists
<1>4. ASSUME NEW q \in OrderIds, AdminDeleteOrder(q) PROVE Attached'
  BY <1>3, <1>4 DEF AdminDeleteOrder, TypeOK
<1>5. ASSUME NEW m \in Message, MarkPaid(m) PROVE Attached'
  <2>1. ASSUME NEW o \in OrderIds, orders'[o] # None
        PROVE  orders[o] # None /\ orders'[o].payment = orders[o].payment
    <3>1. CASE m.order # None /\ MarkPaidGuard(m.order) /\ m.order = o
      <4>1. orders[o] \in Order /\ orders[o] # None
        BY <3>1 DEF MarkPaidGuard, Exists, TypeOK
      <4>2. orders'[o] = [[orders[o] EXCEPT !.status = "paid"]
                            EXCEPT !.paidAt = EventTime]
        BY <1>5, <3>1 DEF MarkPaid, TypeOK
      <4> QED
        BY <4>1, <4>2 DEF Order
    <3>2. CASE ~(m.order # None /\ MarkPaidGuard(m.order) /\ m.order = o)
      BY <1>5, <2>1, <3>2, MessageAssumption DEF MarkPaid, TypeOK
    <3> QED
      BY <3>1, <3>2
  <2> QED
    BY <1>3, <1>5, <2>1 DEF MarkPaid
<1>6. ASSUME NEW a \in Admins, UpdateWrite(a) PROVE Attached'
  <2>1. ASSUME NEW o \in OrderIds, orders'[o] # None
        PROVE  orders[o] # None /\ orders'[o].payment = orders[o].payment
    <3>1. CASE Exists(admin[a].order) /\ admin[a].order = o
      <4>1. orders[o] \in Order /\ orders[o] # None
        BY <3>1 DEF Exists, TypeOK
      <4>2. orders'[o] = Updated(orders[o], admin[a])
        BY <1>6, <3>1 DEF UpdateWrite, TypeOK
      <4> QED
        BY <4>1, <4>2 DEF Updated, Order
    <3>2. CASE ~(Exists(admin[a].order) /\ admin[a].order = o)
      BY <1>6, <2>1, <3>2 DEF UpdateWrite, TypeOK
    <3> QED
      BY <3>1, <3>2
  <2> QED
    BY <1>3, <1>6, <2>1 DEF UpdateWrite
<1>7. ASSUME \A q \in OrderIds : ~Creation(q) /\ ~AdminDeleteOrder(q),
             \A m \in Message : ~MarkPaid(m),
             \A a \in Admins : ~UpdateWrite(a)
      PROVE  create' = create /\ orders' = orders
  BY <1>7 DEF Next, PaymentSucceeded, Worker, Ack, AckLost, Administration,
              UpdateRead, UpdateReread, NotifyStatusChanged, UpdateEnds, vars
<1>8. ASSUME NEW q \in OrderIds, Creation(q) PROVE Attached'
  BY <1>1, <1>2, <1>8 DEF RowsCreated, PaymentAnswered, PaymentInfoStays, Exists
<1>9. CASE create' = create /\ orders' = orders
  BY <1>3, <1>9
<1> QED
  BY <1>4, <1>5, <1>6, <1>7, <1>8, <1>9

\* An order whose checkout was answered shows the payment of that checkout for
\* as long as it exists.
THEOREM PaymentInfoStaysAlways == Spec => []PaymentInfoStays
<1>1. Init => Attached
  BY DEF Init, Attached, TypeOK, Stages, RowsCreated, PaymentAnswered,
         PaymentInfoStays, Exists
<1>2. Attached => PaymentInfoStays
  BY DEF Attached
<1> QED
  BY <1>1, <1>2, AttachedStep, PTL DEF Spec
=============================================================================
