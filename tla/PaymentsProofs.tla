--------------------------- MODULE PaymentsProofs ---------------------------
(***************************************************************************)
(* Theorems about the payments service, for any number of checkouts,       *)
(* orders, concurrent webhooks and deletions.                              *)
(***************************************************************************)
EXTENDS Payments, TLAPS

\* A step keeps every variable of the service in its type.
LEMMA TypeOKStep == TypeOK /\ [Next]_vars => TypeOK'
<1> SUFFICES ASSUME TypeOK, [Next]_vars PROVE TypeOK'
  OBVIOUS
<1> USE DEF TypeOK, Stages
<1>1. ASSUME NEW c \in Checkouts, NEW o \in Orders, CreateSession(c, o)
      PROVE  TypeOK'
  BY <1>1 DEF CreateSession
<1>2. ASSUME NEW c \in Checkouts, CreatePending(c) PROVE TypeOK'
  <2>1. checkout' \in [Checkouts -> [stage : Stages,
                                     order : Orders \cup {None},
                                     id    : Ids \cup {None}]]
    BY <1>2 DEF CreatePending
  <2>2. [session |-> c, intent |-> None, order |-> checkout[c].order,
         status |-> "pending", paidAt |-> None] \in Row
    BY DEF Row
  <2>3. payments' \in [Ids -> Row \cup {None}]
    BY <1>2, <2>2 DEF CreatePending
  <2> QED
    BY <1>2, <2>1, <2>3 DEF CreatePending
<1>3. ASSUME NEW c \in Checkouts, CreatePaymentFails(c) PROVE TypeOK'
  BY <1>3 DEF CreatePaymentFails
<1>4. ASSUME NEW c \in Checkouts, Complete(c) \/ Pay(c) PROVE TypeOK'
  BY <1>4 DEF Complete, Pay
<1>5. ASSUME NEW i \in Ids, AdminDeletePayment(i) PROVE TypeOK'
  BY <1>5, BoundsAssumption DEF AdminDeletePayment
<1>6. ASSUME NEW h \in Handlers, NEW e \in Events, Find(h, e) PROVE TypeOK'
  <2> DEFINE info == ParseSucceededEvent(e)
  <2>1. PICK i \in Ids, row \in {payments[j] : j \in Ids} \cup {NewRow(info)} :
          /\ \/ FirstMatch(info, i) /\ row = payments[i]
             \/ /\ \A j \in Ids : ~Matches(info, j)
                /\ NewId(i) /\ row = NewRow(info)
          /\ handler' = [handler EXCEPT ![h] =
                           [event |-> e, id |-> i, pc |-> "save",
                            row |-> Succeeded(row, info, e.kind)]]
    BY <1>6 DEF Find
  <2>2. /\ info.session \in Checkouts \cup {None}
        /\ info.intent \in Checkouts \cup {None}
        /\ info.order \in Orders \cup {None}
    BY DEF ParseSucceededEvent, Events
  <2>3. row \in Row
    <3>1. CASE FirstMatch(info, i) /\ row = payments[i]
      BY <3>1 DEF FirstMatch, Matches
    <3>2. CASE row = NewRow(info)
      BY <3>2, <2>2 DEF NewRow, Row
    <3> QED
      BY <2>1, <3>1, <3>2
  <2>4. e.kind \in Kinds
    BY DEF Events
  <2>5. Succeeded(row, info, e.kind) \in Row
    <3> HIDE DEF info
    <3> QED
      BY <2>2, <2>3, <2>4 DEF Succeeded, Filled, Row
  <2>6. [event |-> e, id |-> i, pc |-> "save",
         row |-> Succeeded(row, info, e.kind)] \in Task
    <3> HIDE DEF info
    <3> QED
      BY <2>5 DEF Task
  <2> HIDE DEF info
  <2>7. handler' \in [Handlers -> Task \cup {None}]
    BY <2>1, <2>6
  <2> QED
    BY <1>6, <2>7 DEF Find
<1>7. ASSUME NEW h \in Handlers, Save(h) PROVE TypeOK'
  <2>1. handler[h] \in Task
    BY <1>7 DEF Save
  <2>2. /\ handler[h].row \in Row
        /\ handler[h].id \in Ids
        /\ [handler[h] EXCEPT !.pc = "publish"] \in Task
    BY <2>1 DEF Task
  <2> QED
    BY <1>7, <2>1, <2>2 DEF Save
<1>8. ASSUME NEW h \in Handlers,
             Publish(h) \/ PublishUnanswered(h) \/ Fail(h)
      PROVE  TypeOK'
  <2>1. handler[h] \in Task
    BY <1>8 DEF Publish, PublishUnanswered, Fail
  <2>2. /\ MessageOf(handler[h]) \in Message
        /\ handler[h].event \in Events
    BY <2>1 DEF Task, Message, MessageOf, Row, Events
  <2> QED
    BY <1>8, <2>1, <2>2 DEF Publish, PublishUnanswered, Fail
<1>9. CASE UNCHANGED vars
  BY <1>9 DEF vars
<1> QED
  BY <1>1, <1>2, <1>3, <1>4, <1>5, <1>6, <1>7, <1>8, <1>9 DEF Next, Webhook

\* Every variable of the payments service keeps its type.
THEOREM TypeCorrect == Spec => []TypeOK
<1>1. Init => TypeOK
  BY BoundsAssumption DEF Init, TypeOK, Stages
<1> QED
  BY <1>1, TypeOKStep, PTL DEF Spec

-----------------------------------------------------------------------------
(***************************************************************************)
(* What a row and the copy of it a webhook carries have in common with the *)
(* checkout they are about.                                                *)
(***************************************************************************)
Offered == {"offered", "completed", "paid"}

RowsOffered ==
    \A i \in Ids : payments[i] # None =>
        \E c \in Checkouts : /\ checkout[c].stage \in Offered
                             /\ BelongsTo(payments[i], c)

TasksBelong ==
    \A h \in Handlers : handler[h] # None =>
        LET c == handler[h].event.checkout IN
        /\ Completed(c)
        /\ BelongsTo(handler[h].row, c)
        /\ handler[h].event.kind = SessionCompleted
           => handler[h].row.order = OrderOf(c)

Ownership ==
    TypeOK /\ RowsOffered /\ TasksBelong /\ MessagesTruthful
           /\ AckedReachesOrder

\* Once a checkout is offered its order is fixed, it stays offered or goes on,
\* and its completion is final.
LEMMA CheckoutMonotone ==
    ASSUME TypeOK, [Next]_vars, NEW c \in Checkouts,
           checkout[c].stage \in Offered
    PROVE  /\ checkout'[c].stage \in Offered
           /\ checkout'[c].order = checkout[c].order
           /\ Completed(c) => Completed(c)'
<1> USE DEF Offered, Completed
<1>1. ASSUME NEW d \in Checkouts, NEW o \in Orders, CreateSession(d, o)
      PROVE  checkout'[c] = checkout[c]
  BY <1>1 DEF CreateSession, TypeOK
<1>2. ASSUME NEW d \in Checkouts,
             CreatePending(d) \/ CreatePaymentFails(d)
      PROVE  checkout'[c] = checkout[c]
  BY <1>2 DEF CreatePending, CreatePaymentFails, TypeOK
<1>3. ASSUME NEW d \in Checkouts, Complete(d) \/ Pay(d)
      PROVE  /\ checkout'[c].order = checkout[c].order
             /\ checkout'[c].stage
                  \in {checkout[c].stage, "completed", "paid"}
             /\ checkout[c].stage = "paid" => checkout'[c].stage = "paid"
  BY <1>3 DEF Complete, Pay, TypeOK
<1>4. ASSUME NEW i \in Ids, AdminDeletePayment(i)
      PROVE  checkout' = checkout
  BY <1>4 DEF AdminDeletePayment
<1>5. ASSUME NEW h \in Handlers, Webhook(h)
      PROVE  checkout' = checkout
  BY <1>5 DEF Webhook, Find, Save, Publish, PublishUnanswered, Fail
<1>6. CASE UNCHANGED vars
  BY <1>6 DEF vars
<1> QED
  BY <1>1, <1>2, <1>3, <1>4, <1>5, <1>6 DEF Next

\* A row keeps belonging to its checkout while the checkout moves on.
LEMMA BelongsToStable ==
    ASSUME TypeOK, [Next]_vars, NEW c \in Checkouts, NEW row,
           checkout[c].stage \in Offered, BelongsTo(row, c)
    PROVE  /\ row.session \in {None, c}
           /\ row.intent \in {None, c}
           /\ row.order \in {None, checkout'[c].order}
           /\ row.status = "succeeded" => Completed(c)'
  BY CheckoutMonotone DEF BelongsTo, OrderOf, Completed

\* What a webhook reads, or builds when it reads nothing, becomes a row of the
\* checkout its event is about; a session event always knows the order.
LEMMA FindBelongs ==
    ASSUME TypeOK, RowsOffered, NEW h \in Handlers, NEW e \in Events,
           Find(h, e)
    PROVE  LET c == e.checkout IN
           \E i \in Ids, row \in Row :
             /\ handler' = [handler EXCEPT ![h] =
                  [event |-> e, id |-> i, pc |-> "save", row |-> row]]
             /\ BelongsTo(row, c)
             /\ e.kind = SessionCompleted => row.order = OrderOf(c)
<1> DEFINE info == ParseSucceededEvent(e)
<1> DEFINE c == e.checkout
<1>1. PICK i \in Ids, old \in {payments[j] : j \in Ids} \cup {NewRow(info)} :
        /\ \/ FirstMatch(info, i) /\ old = payments[i]
           \/ old = NewRow(info)
        /\ handler' = [handler EXCEPT ![h] =
                         [event |-> e, id |-> i, pc |-> "save",
                          row |-> Succeeded(old, info, e.kind)]]
  BY DEF Find
<1>2. /\ c \in Checkouts /\ c # None /\ e.kind \in Kinds
      /\ Completed(c)
      /\ OrderOf(c) \in Orders \cup {None}
  BY NoneAssumption DEF Events, Find, Sent, Completed, TypeOK, OrderOf
<1>3. /\ info.session \in {None, c}
      /\ info.intent = c
      /\ info.order \in {None, OrderOf(c)}
      /\ e.kind = SessionCompleted => info.order = OrderOf(c)
  BY DEF ParseSucceededEvent, OrderOf
<1> HIDE DEF info
<1>4. /\ old \in Row
      /\ old.session \in {None, c}
      /\ old.intent \in {None, c}
      /\ old.order \in {None, OrderOf(c)}
  <2>1. CASE FirstMatch(info, i) /\ old = payments[i]
    <3>1. payments[i] # None
      BY <2>1 DEF FirstMatch, Matches
    <3>2. payments[i] \in Row
      BY <3>1 DEF TypeOK
    <3>3. PICK d \in Checkouts : BelongsTo(payments[i], d)
      BY <3>1 DEF RowsOffered
    <3>4. d = c
      BY <2>1, <3>3, <1>2, <1>3 DEF FirstMatch, Matches, BelongsTo
    <3> QED
      BY <2>1, <3>2, <3>3, <3>4 DEF BelongsTo
  <2>2. CASE old = NewRow(info)
    BY <2>2, <1>2, <1>3 DEF NewRow, Row
  <2> QED
    BY <1>1, <2>1, <2>2
<1> DEFINE row == Succeeded(old, info, e.kind)
<1>5. /\ row \in Row
      /\ row.session \in {None, c}
      /\ row.intent \in {None, c}
      /\ row.order \in {None, OrderOf(c)}
      /\ e.kind = SessionCompleted => row.order = OrderOf(c)
  BY <1>2, <1>3, <1>4 DEF Succeeded, Filled, Row
<1>6. BelongsTo(row, c)
  BY <1>2, <1>5 DEF BelongsTo
<1> QED
  BY <1>1, <1>5, <1>6

\* A step keeps rows, webhooks, messages and answers true to their checkouts.
LEMMA OwnershipStep == Ownership /\ [Next]_vars => Ownership'
<1> SUFFICES ASSUME Ownership, [Next]_vars PROVE Ownership'
  OBVIOUS
<1> USE DEF Ownership, Completed, Offered
<1>1. TypeOK'
  BY TypeOKStep
<1>2. ASSUME NEW c \in Checkouts, checkout[c].stage \in Offered,
             NEW row, BelongsTo(row, c)
      PROVE  /\ row.session \in {None, c}
             /\ row.intent \in {None, c}
             /\ row.order \in {None, checkout'[c].order}
             /\ row.status = "succeeded" => Completed(c)'
  BY <1>2, BelongsToStable
<1>3. RowsOffered'
  <2> SUFFICES ASSUME NEW i \in Ids, payments'[i] # None
               PROVE  \E c \in Checkouts :
                        /\ checkout'[c].stage \in Offered
                        /\ BelongsTo(payments[i], c)'
    BY DEF RowsOffered
  <2>1. CASE payments'[i] = payments[i]
    <3>1. PICK c \in Checkouts :
            /\ checkout[c].stage \in Offered
            /\ BelongsTo(payments[i], c)
      BY <2>1 DEF RowsOffered
    <3> QED
      BY <2>1, <3>1, <1>2, CheckoutMonotone DEF BelongsTo, OrderOf
  <2>2. ASSUME NEW c \in Checkouts, CreatePending(c), checkout[c].id = i
        PROVE  /\ checkout'[c].stage \in Offered
               /\ BelongsTo(payments[i], c)'
    BY <2>2 DEF CreatePending, BelongsTo, OrderOf, TypeOK
  <2>3. ASSUME NEW h \in Handlers, Save(h), handler[h].id = i
        PROVE  \E c \in Checkouts :
                 /\ checkout'[c].stage \in Offered
                 /\ BelongsTo(payments[i], c)'
    <3> DEFINE c == handler[h].event.checkout
    <3>1. /\ handler[h] # None
          /\ payments'[i] = handler[h].row
          /\ checkout' = checkout
      BY <2>3 DEF Save, TypeOK
    <3>2. c \in Checkouts
      BY <3>1 DEF TypeOK, Task, Events
    <3>3. Completed(c) /\ BelongsTo(handler[h].row, c)
      BY <3>1 DEF TasksBelong
    <3> QED
      BY <3>1, <3>2, <3>3 DEF BelongsTo, OrderOf
  <2>4. ASSUME NEW c \in Checkouts,
               CreatePending(c), checkout[c].id # i
        PROVE  payments'[i] = payments[i]
    BY <2>4 DEF CreatePending, TypeOK
  <2>5. ASSUME NEW h \in Handlers, Save(h), handler[h].id # i
        PROVE  payments'[i] = payments[i]
    BY <2>5 DEF Save, TypeOK
  <2>6. ASSUME NEW j \in Ids, AdminDeletePayment(j)
        PROVE  payments'[i] = payments[i]
    BY <2>6 DEF AdminDeletePayment, TypeOK
  <2>7. ASSUME \A c \in Checkouts : ~CreatePending(c),
               \A h \in Handlers : ~Save(h),
               \A j \in Ids : ~AdminDeletePayment(j)
        PROVE  payments' = payments
    BY <2>7 DEF Next, CreateSession, CreatePaymentFails, Complete, Pay,
                Webhook, Find,
                Publish, PublishUnanswered, Fail, vars
  <2> QED
    BY <2>1, <2>2, <2>3, <2>4, <2>5, <2>6, <2>7
<1>4. TasksBelong'
  <2> SUFFICES ASSUME NEW g \in Handlers, handler'[g] # None
               PROVE  /\ Completed(handler[g].event.checkout)'
                      /\ BelongsTo(handler[g].row, handler[g].event.checkout)'
                      /\ handler'[g].event.kind = SessionCompleted
                         => handler'[g].row.order
                            = checkout'[handler'[g].event.checkout].order
    BY DEF TasksBelong, OrderOf
  <2>1. ASSUME handler[g] # None,
               handler'[g].event = handler[g].event,
               handler'[g].row = handler[g].row
        PROVE  /\ Completed(handler[g].event.checkout)'
               /\ BelongsTo(handler[g].row, handler[g].event.checkout)'
               /\ handler'[g].event.kind = SessionCompleted
                  => handler'[g].row.order
                     = checkout'[handler'[g].event.checkout].order
    <3> DEFINE c == handler[g].event.checkout
    <3>1. c \in Checkouts
      BY <2>1 DEF TypeOK, Task, Events
    <3>2. /\ Completed(c)
          /\ BelongsTo(handler[g].row, c)
          /\ handler[g].event.kind = SessionCompleted
             => handler[g].row.order = checkout[c].order
      BY <2>1 DEF TasksBelong, OrderOf
    <3>3. /\ checkout'[c].stage \in {"completed", "paid"}
          /\ checkout'[c].order = checkout[c].order
      BY <3>1, <3>2, CheckoutMonotone
    <3> QED
      BY <2>1, <3>1, <3>2, <3>3 DEF BelongsTo, OrderOf
  <2>2. ASSUME NEW e \in Events, Find(g, e)
        PROVE  /\ Completed(handler[g].event.checkout)'
               /\ BelongsTo(handler[g].row, handler[g].event.checkout)'
               /\ handler'[g].event.kind = SessionCompleted
                  => handler'[g].row.order
                     = checkout'[handler'[g].event.checkout].order
    <3>1. PICK i \in Ids, row \in Row :
            /\ handler' = [handler EXCEPT ![g] =
                 [event |-> e, id |-> i, pc |-> "save", row |-> row]]
            /\ BelongsTo(row, e.checkout)
            /\ e.kind = SessionCompleted => row.order = OrderOf(e.checkout)
      BY <2>2, FindBelongs
    <3>2. handler'[g] = [event |-> e, id |-> i, pc |-> "save", row |-> row]
      BY <3>1 DEF TypeOK
    <3>3. Completed(e.checkout) /\ checkout' = checkout
      BY <2>2 DEF Find, Sent
    <3> QED
      BY <3>1, <3>2, <3>3 DEF BelongsTo, OrderOf
  <2>3. ASSUME NEW h \in Handlers, NEW e \in Events, Find(h, e), h # g
        PROVE  handler'[g] = handler[g]
    BY <2>3 DEF Find, TypeOK
  <2>4. ASSUME NEW h \in Handlers,
               Save(h) \/ Publish(h) \/ PublishUnanswered(h) \/ Fail(h)
        PROVE  /\ handler[g] # None
               /\ handler'[g].event = handler[g].event
               /\ handler'[g].row = handler[g].row
    <3>1. CASE h # g
      BY <2>4, <3>1 DEF Save, Publish, PublishUnanswered, Fail, TypeOK
    <3>2. CASE h = g /\ Save(h)
      <4>1. handler[g] \in Task
        BY <3>2 DEF Save, TypeOK
      <4>2. handler'[g] = [handler[g] EXCEPT !.pc = "publish"]
        BY <3>2 DEF Save, TypeOK
      <4> QED
        BY <4>1, <4>2, <3>2 DEF Task, Save
    <3>3. CASE h = g /\ ~Save(h)
      BY <2>4, <3>3 DEF Publish, PublishUnanswered, Fail, TypeOK
    <3> QED
      BY <3>1, <3>2, <3>3
  <2>5. ASSUME \A h \in Handlers : ~Webhook(h)
        PROVE  handler' = handler
    BY <2>5 DEF Next, CreateSession, CreatePending, CreatePaymentFails,
                Complete, Pay,
                AdminDeletePayment, vars
  <2> QED
    BY <2>1, <2>2, <2>3, <2>4, <2>5 DEF Webhook
<1>5. MessagesTruthful' /\ AckedReachesOrder'
  <2>1. ASSUME NEW m \in stream
        PROVE  /\ Completed(m.checkout)'
               /\ checkout'[m.checkout].order = checkout[m.checkout].order
               /\ m.order \in {None, checkout'[m.checkout].order}
    <3>1. m.checkout \in Checkouts
      BY DEF TypeOK, Message
    <3>2. /\ Completed(m.checkout)
          /\ m.order \in {None, checkout[m.checkout].order}
      BY DEF MessagesTruthful, OrderOf
    <3> QED
      BY <3>1, <3>2, CheckoutMonotone
  <2>2. ASSUME NEW h \in Handlers, Publish(h) \/ PublishUnanswered(h)
        PROVE  MessagesTruthful' /\ AckedReachesOrder'
    <3> DEFINE task == handler[h]
    <3> DEFINE m == MessageOf(task)
    <3> DEFINE c == task.event.checkout
    <3>1. /\ task # None
          /\ checkout' = checkout
          /\ stream' = stream \cup {m}
          /\ acked' \in {acked, acked \cup {task.event}}
      BY <2>2 DEF Publish, PublishUnanswered
    <3>2. /\ Completed(c)
          /\ task.row.order \in {None, OrderOf(c)}
          /\ task.event.kind = SessionCompleted => task.row.order = OrderOf(c)
      BY <3>1 DEF TasksBelong, BelongsTo
    <3>3. /\ m.checkout = c
          /\ m.order = task.row.order
      BY DEF MessageOf
    <3> HIDE DEF m, c, task
    <3>4. MessagesTruthful'
      BY <3>1, <3>2, <3>3 DEF MessagesTruthful, OrderOf
    <3>5. AckedReachesOrder'
      BY <3>1, <3>2, <3>3 DEF AckedReachesOrder, OrderOf, c
    <3> QED
      BY <3>4, <3>5
  <2>3. CASE stream' = stream /\ acked' = acked
    <3>1. MessagesTruthful'
      BY <2>1, <2>3 DEF MessagesTruthful, OrderOf
    <3>2. AckedReachesOrder'
      <4> SUFFICES ASSUME NEW e \in acked, e.kind = SessionCompleted
                   PROVE  \E m \in stream :
                            /\ m.checkout = e.checkout
                            /\ m.order = checkout'[e.checkout].order
        BY <2>3 DEF AckedReachesOrder, OrderOf
      <4>1. PICK m \in stream : /\ m.checkout = e.checkout
                                /\ m.order = checkout[e.checkout].order
        BY DEF AckedReachesOrder, OrderOf
      <4> QED
        BY <4>1, <2>1
    <3> QED
      BY <3>1, <3>2
  <2>4. ASSUME \A h \in Handlers : ~Publish(h) /\ ~PublishUnanswered(h)
        PROVE  stream' = stream /\ acked' = acked
    BY <2>4 DEF Next, CreateSession, CreatePending, CreatePaymentFails,
                Complete, Pay,
                AdminDeletePayment, Webhook, Find, Save, Fail, vars
  <2> QED
    BY <2>2, <2>3, <2>4
<1> QED
  BY <1>1, <1>3, <1>4, <1>5

LEMMA OwnershipInvariant == Spec => []Ownership
<1>1. Init => Ownership
  BY BoundsAssumption
  DEF Init, Ownership, TypeOK, Stages, RowsOffered, TasksBelong,
      MessagesTruthful, AckedReachesOrder
<1> QED
  BY <1>1, OwnershipStep, PTL DEF Spec

\* Whatever races, fails or crashes, Stripe gets its 200 for a session event
\* only after the message that names its order is in the stream.
THEOREM AckedReachesOrderAlways == Spec => []AckedReachesOrder
  BY OwnershipInvariant, PTL DEF Ownership

\* Every message in the stream is about a completed checkout and names no order but
\* that checkout's.
THEOREM MessagesTruthfulAlways == Spec => []MessagesTruthful
  BY OwnershipInvariant, PTL DEF Ownership

\* No row ever mixes the session, the intent or the order of two checkouts, and
\* none is succeeded unless its checkout was completed.
THEOREM RowsDoNotMixAlways == Spec => []RowsDoNotMix
<1>1. Ownership => RowsDoNotMix
  BY DEF Ownership, RowsOffered, RowsDoNotMix
<1> QED
  BY <1>1, OwnershipInvariant, PTL

-----------------------------------------------------------------------------
(***************************************************************************)
(* Why a save from a stale read is harmless for status, intent and paidAt: *)
(* all copies of one id were read from rows that agree on them.            *)
(***************************************************************************)
RowShape ==
    \A i \in Ids : payments[i] # None =>
        IF payments[i].status = "pending"
        THEN /\ payments[i].session # None
             /\ payments[i].intent = None
             /\ payments[i].paidAt = None
        ELSE payments[i].intent # None /\ payments[i].paidAt # None

TaskShape ==
    \A h \in Handlers : handler[h] # None =>
        /\ handler[h].row.status = "succeeded"
        /\ handler[h].row.intent # None
        /\ handler[h].row.paidAt # None

CopyOfRow ==
    \A h \in Handlers :
        LET i == handler[h].id IN
        handler[h] # None /\ payments[i] # None =>
            IF payments[i].status = "pending"
            THEN /\ handler[h].row.paidAt = SessionCompleted
                 /\ handler[h].row.intent = payments[i].session
            ELSE /\ handler[h].row.paidAt = payments[i].paidAt
                 /\ handler[h].row.intent = payments[i].intent

CopiesAgree ==
    \A g, h \in Handlers :
        handler[g] # None /\ handler[h] # None /\ handler[g].id = handler[h].id
        => /\ handler[g].row.paidAt = handler[h].row.paidAt
           /\ handler[g].row.intent = handler[h].row.intent

\* An id is allocated once: the row that CreatePayment is about to insert is
\* new to the table and to every webhook.
FreshIds ==
    \A c \in Checkouts : checkout[c].stage = "session" =>
        LET i == checkout[c].id IN
        /\ i \in Ids
        /\ payments[i] = None
        /\ \A h \in Handlers : handler[h] # None => handler[h].id # i
        /\ \A d \in Checkouts \ {c} : checkout[d].id # i

Copies ==
    TypeOK /\ RowShape /\ TaskShape /\ CopyOfRow /\ CopiesAgree /\ FreshIds

\* What the SELECT leaves in a webhook's hands agrees with the row it read and
\* with every other copy of that row.
LEMMA FindCopies ==
    ASSUME Copies, NEW h \in Handlers, NEW e \in Events, Find(h, e)
    PROVE  \E i \in Ids, row \in Row :
             /\ handler' = [handler EXCEPT ![h] =
                  [event |-> e, id |-> i, pc |-> "save", row |-> row]]
             /\ row.status = "succeeded"
             /\ row.intent # None
             /\ row.paidAt # None
             /\ payments[i] # None =>
                  IF payments[i].status = "pending"
                  THEN /\ row.paidAt = SessionCompleted
                       /\ row.intent = payments[i].session
                  ELSE /\ row.paidAt = payments[i].paidAt
                       /\ row.intent = payments[i].intent
             /\ payments[i] = None => ~InUse(i)
<1> USE DEF Copies
<1> DEFINE info == ParseSucceededEvent(e)
<1> DEFINE c == e.checkout
<1>1. PICK i \in Ids, old \in {payments[j] : j \in Ids} \cup {NewRow(info)} :
        /\ \/ FirstMatch(info, i) /\ old = payments[i]
           \/ /\ \A j \in Ids : ~Matches(info, j)
              /\ NewId(i) /\ old = NewRow(info)
        /\ handler' = [handler EXCEPT ![h] =
                         [event |-> e, id |-> i, pc |-> "save",
                          row |-> Succeeded(old, info, e.kind)]]
  BY DEF Find
<1>2. /\ c \in Checkouts /\ c # None
      /\ e.kind \in Kinds /\ e.kind # None
      /\ checkout[c].order \in Orders \cup {None}
  BY NoneAssumption DEF Events, TypeOK
<1>3. /\ info.session \in {None, c}
      /\ info.intent = c
      /\ info.order \in Orders \cup {None}
      /\ e.kind # SessionCompleted => info.session = None
  BY <1>2 DEF ParseSucceededEvent
<1> HIDE DEF info
<1> DEFINE row == Succeeded(old, info, e.kind)
<1>4. CASE FirstMatch(info, i) /\ old = payments[i]
  <2>1. /\ payments[i] # None
        /\ \/ payments[i].intent = c
           \/ info.session = c /\ payments[i].session = c
    BY <1>2, <1>3, <1>4 DEF FirstMatch, Matches
  <2>2. old \in Row
    BY <1>4, <2>1 DEF TypeOK
  <2>3. row \in Row /\ row.status = "succeeded"
    BY <1>2, <1>3, <2>2 DEF Succeeded, Filled, Row
  <2>4. CASE payments[i].status = "pending"
    <3>1. /\ payments[i].intent = None
          /\ payments[i].paidAt = None
          /\ payments[i].session = c
          /\ e.kind = SessionCompleted
      BY <1>2, <1>3, <2>1, <2>4 DEF RowShape
    <3>2. row.paidAt = SessionCompleted /\ row.intent = c
      BY <1>3, <1>4, <3>1 DEF Succeeded, Filled
    <3> QED
      BY <1>1, <1>2, <2>1, <2>3, <2>4, <3>1, <3>2
  <2>5. CASE payments[i].status # "pending"
    <3>1. payments[i].intent # None /\ payments[i].paidAt # None
      BY <2>1, <2>5 DEF RowShape
    <3>2. row.paidAt = payments[i].paidAt /\ row.intent = payments[i].intent
      BY <1>4, <3>1 DEF Succeeded, Filled
    <3> QED
      BY <1>1, <2>1, <2>3, <2>5, <3>1, <3>2
  <2> QED
    BY <2>4, <2>5
<1>5. CASE NewId(i) /\ old = NewRow(info)
  <2>1. i \in Nat /\ ~InUse(i)
    BY <1>5, BoundsAssumption DEF NewId, Ids
  <2>2. payments[i] = None
    BY <2>1 DEF InUse
  <2>3. /\ row \in Row /\ row.status = "succeeded"
        /\ row.intent # None /\ row.paidAt # None
    BY <1>2, <1>3, <1>5 DEF Succeeded, Filled, NewRow, Row
  <2> QED
    BY <1>1, <2>1, <2>2, <2>3
<1> QED
  BY <1>1, <1>4, <1>5

\* A step keeps all copies of one payment row in agreement.
LEMMA CopiesStep == Copies /\ [Next]_vars => Copies'
<1> SUFFICES ASSUME Copies, [Next]_vars PROVE Copies'
  OBVIOUS
<1> USE DEF Copies
<1>0. TypeOK'
  BY TypeOKStep
<1>1. ASSUME NEW c \in Checkouts, NEW o \in Orders, CreateSession(c, o)
      PROVE  Copies'
  <2>1. PICK i \in Ids :
          /\ NewId(i)
          /\ checkout' = [checkout EXCEPT ![c] =
                            [stage |-> "session", order |-> o, id |-> i]]
    BY <1>1 DEF CreateSession
  <2>2. ~InUse(i)
    BY <2>1, BoundsAssumption DEF NewId, Ids
  <2>3. payments' = payments /\ handler' = handler
    BY <1>1 DEF CreateSession
  <2>4. FreshIds'
    <3> SUFFICES ASSUME NEW a \in Checkouts, checkout'[a].stage = "session"
                 PROVE  /\ checkout'[a].id \in Ids
                        /\ payments[checkout'[a].id] = None
                        /\ \A h \in Handlers : handler[h] # None =>
                             handler[h].id # checkout'[a].id
                        /\ \A d \in Checkouts \ {a} :
                             checkout'[d].id # checkout'[a].id
      BY <2>3 DEF FreshIds
    <3>1. \A d \in Checkouts \ {c} : /\ checkout'[d] = checkout[d]
                                     /\ checkout[d].id # i
      BY <2>1, <2>2 DEF TypeOK, InUse
    <3>2. checkout'[c].id = i
      BY <2>1 DEF TypeOK
    <3> QED
      BY <2>2, <3>1, <3>2 DEF FreshIds, InUse
  <2> QED
    BY <1>0, <2>3, <2>4 DEF RowShape, TaskShape, CopyOfRow, CopiesAgree
<1>2. ASSUME NEW c \in Checkouts, CreatePending(c) PROVE Copies'
  <2> DEFINE i == checkout[c].id
  <2>1. /\ i \in Ids /\ payments[i] = None
        /\ \A h \in Handlers : handler[h] # None => handler[h].id # i
        /\ \A d \in Checkouts \ {c} : checkout[d].id # i
    BY <1>2 DEF CreatePending, FreshIds
  <2>2. /\ \A j \in Ids \ {i} : payments'[j] = payments[j]
        /\ payments'[i] = [session |-> c, intent |-> None,
                           order |-> checkout[c].order,
                           status |-> "pending", paidAt |-> None]
        /\ handler' = handler
        /\ \A d \in Checkouts \ {c} : checkout'[d] = checkout[d]
        /\ checkout'[c].stage = "offered"
        /\ checkout'[c].id = i
    BY <1>2, <2>1 DEF CreatePending, TypeOK
  <2>3. RowShape'
    BY <2>1, <2>2, NoneAssumption DEF RowShape
  <2>4. \A h \in Handlers : handler[h] # None => handler[h].id \in Ids \ {i}
    BY <2>1 DEF TypeOK, Task
  <2>5. TaskShape' /\ CopyOfRow' /\ CopiesAgree'
    BY <2>2, <2>4 DEF TaskShape, CopyOfRow, CopiesAgree
  <2>6. FreshIds'
    <3> SUFFICES ASSUME NEW a \in Checkouts, checkout'[a].stage = "session"
                 PROVE  /\ checkout'[a].id \in Ids
                        /\ payments'[checkout'[a].id] = None
                        /\ \A h \in Handlers : handler[h] # None =>
                             handler[h].id # checkout'[a].id
                        /\ \A d \in Checkouts \ {a} :
                             checkout'[d].id # checkout'[a].id
      BY <2>2 DEF FreshIds
    <3>1. a # c /\ checkout'[a] = checkout[a] /\ checkout[a].id # i
      BY <2>1, <2>2
    <3> QED
      BY <2>2, <3>1 DEF FreshIds
  <2> QED
    BY <1>0, <2>3, <2>5, <2>6
<1>3. ASSUME NEW c \in Checkouts, CreatePaymentFails(c) \/ Complete(c) \/ Pay(c)
      PROVE  Copies'
  <2>1. /\ payments' = payments /\ handler' = handler
        /\ \A d \in Checkouts :
             /\ checkout'[d].id = checkout[d].id
             /\ checkout'[d].stage = "session" => checkout[d].stage = "session"
    BY <1>3 DEF CreatePaymentFails, Complete, Pay, TypeOK
  <2> QED
    BY <1>0, <2>1
    DEF RowShape, TaskShape, CopyOfRow, CopiesAgree, FreshIds
<1>4. ASSUME NEW i \in Ids, AdminDeletePayment(i) PROVE Copies'
  <2>1. /\ payments'[i] = None
        /\ \A j \in Ids \ {i} : payments'[j] = payments[j]
        /\ handler' = handler /\ checkout' = checkout
    BY <1>4 DEF AdminDeletePayment, TypeOK
  <2>2. \A h \in Handlers : handler[h] # None => handler[h].id \in Ids
    BY DEF TypeOK, Task
  <2>3. RowShape' /\ TaskShape' /\ CopyOfRow' /\ CopiesAgree'
    BY <2>1, <2>2 DEF RowShape, TaskShape, CopyOfRow, CopiesAgree
  <2>4. FreshIds'
    BY <2>1 DEF FreshIds
  <2> QED
    BY <1>0, <2>3, <2>4
<1>5. ASSUME NEW h \in Handlers, NEW e \in Events, Find(h, e) PROVE Copies'
  <2>1. PICK i \in Ids, row \in Row :
          /\ handler' = [handler EXCEPT ![h] =
               [event |-> e, id |-> i, pc |-> "save", row |-> row]]
          /\ row.status = "succeeded"
          /\ row.intent # None
          /\ row.paidAt # None
          /\ payments[i] # None =>
               IF payments[i].status = "pending"
               THEN /\ row.paidAt = SessionCompleted
                    /\ row.intent = payments[i].session
               ELSE /\ row.paidAt = payments[i].paidAt
                    /\ row.intent = payments[i].intent
          /\ payments[i] = None => ~InUse(i)
    BY <1>5, FindCopies
  <2>2. /\ handler'[h] = [event |-> e, id |-> i, pc |-> "save", row |-> row]
        /\ \A g \in Handlers \ {h} : handler'[g] = handler[g]
        /\ payments' = payments /\ checkout' = checkout
        /\ handler[h] = None
    BY <1>5, <2>1 DEF Find, TypeOK
  <2>3. RowShape' /\ TaskShape' /\ CopyOfRow'
    BY <2>1, <2>2 DEF RowShape, TaskShape, CopyOfRow
  <2>4. ASSUME NEW g \in Handlers \ {h}, handler[g] # None, handler[g].id = i
        PROVE  /\ handler[g].row.paidAt = row.paidAt
               /\ handler[g].row.intent = row.intent
    <3>1. payments[i] # None
      BY <2>1, <2>4 DEF InUse
    <3> QED
      BY <2>1, <2>4, <3>1 DEF CopyOfRow
  <2>5. CopiesAgree'
    <3> SUFFICES ASSUME NEW f \in Handlers, NEW g \in Handlers,
                        handler'[f] # None, handler'[g] # None,
                        handler'[f].id = handler'[g].id
                 PROVE  /\ handler'[f].row.paidAt = handler'[g].row.paidAt
                        /\ handler'[f].row.intent = handler'[g].row.intent
      BY DEF CopiesAgree
    <3>1. CASE f = h \/ g = h
      BY <2>2, <2>4, <3>1
    <3>2. CASE f # h /\ g # h
      BY <2>2, <3>2 DEF CopiesAgree
    <3> QED
      BY <3>1, <3>2
  <2>6. FreshIds'
    <3> SUFFICES ASSUME NEW c \in Checkouts, checkout[c].stage = "session"
                 PROVE  /\ checkout[c].id \in Ids
                        /\ payments[checkout[c].id] = None
                        /\ \A g \in Handlers : handler'[g] # None =>
                             handler'[g].id # checkout[c].id
                        /\ \A d \in Checkouts \ {c} :
                             checkout[d].id # checkout[c].id
      BY <2>2 DEF FreshIds
    <3>1. checkout[c].id # i
      BY <2>1 DEF FreshIds, InUse
    <3> QED
      BY <2>2, <3>1 DEF FreshIds
  <2> QED
    BY <1>0, <2>3, <2>5, <2>6
<1>6. ASSUME NEW h \in Handlers, Save(h) PROVE Copies'
  <2> DEFINE i == handler[h].id
  <2> DEFINE row == handler[h].row
  <2>1. /\ handler[h] # None /\ handler[h] \in Task
        /\ i \in Ids /\ row \in Row
    BY <1>6 DEF Save, TypeOK, Task
  <2>2. /\ payments'[i] = row
        /\ \A j \in Ids \ {i} : payments'[j] = payments[j]
        /\ checkout' = checkout
    BY <1>6, <2>1 DEF Save, TypeOK
  <2>3. ASSUME NEW g \in Handlers
        PROVE  /\ handler'[g] # None => handler[g] # None
               /\ handler'[g] # None => handler'[g].id = handler[g].id
               /\ handler'[g] # None => handler'[g].row = handler[g].row
    <3>1. CASE g = h
      <4>1. handler'[h] = [handler[h] EXCEPT !.pc = "publish"]
        BY <1>6 DEF Save, TypeOK
      <4> QED
        BY <2>1, <3>1, <4>1 DEF Task
    <3>2. CASE g # h
      BY <1>6, <3>2 DEF Save, TypeOK
    <3> QED
      BY <3>1, <3>2
  <2>4. row.status = "succeeded" /\ row.intent # None /\ row.paidAt # None
    BY <2>1 DEF TaskShape
  <2>5. RowShape'
    BY <2>2, <2>4 DEF RowShape
  <2>6. TaskShape' /\ CopiesAgree'
    BY <2>3 DEF TaskShape, CopiesAgree
  <2>7. CopyOfRow'
    <3> SUFFICES ASSUME NEW g \in Handlers, handler'[g] # None,
                        payments'[handler[g].id] # None
                 PROVE  IF payments'[handler[g].id].status = "pending"
                        THEN /\ handler[g].row.paidAt = SessionCompleted
                             /\ handler[g].row.intent
                                = payments'[handler[g].id].session
                        ELSE /\ handler[g].row.paidAt
                                = payments'[handler[g].id].paidAt
                             /\ handler[g].row.intent
                                = payments'[handler[g].id].intent
      BY <2>3 DEF CopyOfRow
    <3>1. handler[g] # None /\ handler[g].id \in Ids
      BY <2>3 DEF TypeOK, Task
    <3>2. CASE handler[g].id = i
      BY <2>1, <2>2, <2>4, <3>1, <3>2 DEF CopiesAgree
    <3>3. CASE handler[g].id # i
      BY <2>2, <3>1, <3>3 DEF CopyOfRow
    <3> QED
      BY <3>2, <3>3
  <2>8. FreshIds'
    <3>1. \A c \in Checkouts : checkout[c].stage = "session" =>
            checkout[c].id # i
      BY <2>1 DEF FreshIds
    <3> QED
      BY <2>2, <2>3, <3>1 DEF FreshIds
  <2> QED
    BY <1>0, <2>5, <2>6, <2>7, <2>8
<1>7. ASSUME NEW h \in Handlers,
             Publish(h) \/ PublishUnanswered(h) \/ Fail(h)
      PROVE  Copies'
  <2>1. /\ payments' = payments /\ checkout' = checkout
        /\ handler' = [handler EXCEPT ![h] = None]
    BY <1>7 DEF Publish, PublishUnanswered, Fail
  <2>2. \A g \in Handlers : handler'[g] # None => handler'[g] = handler[g]
    BY <2>1 DEF TypeOK
  <2> QED
    BY <1>0, <2>1, <2>2
    DEF RowShape, TaskShape, CopyOfRow, CopiesAgree, FreshIds
<1>8. CASE UNCHANGED vars
  BY <1>0, <1>8
  DEF vars, RowShape, TaskShape, CopyOfRow, CopiesAgree, FreshIds
<1> QED
  BY <1>1, <1>2, <1>3, <1>4, <1>5, <1>6, <1>7, <1>8 DEF Next, Webhook

LEMMA CopiesInvariant == Spec => []Copies
<1>1. Init => Copies
  BY BoundsAssumption
  DEF Init, Copies, TypeOK, Stages, RowShape, TaskShape, CopyOfRow,
      CopiesAgree, FreshIds
<1> QED
  BY <1>1, CopiesStep, PTL DEF Spec

\* The idempotence of UpsertSucceeded under concurrent, repeated and reordered
\* webhooks: while a succeeded row exists, its status, payment time and intent
\* never change.
THEOREM SucceededStaysAlways == Spec => SucceededStays
<1> DEFINE Keeps ==
      \A i \in Ids :
         /\ payments[i] # None
         /\ payments[i].status = "succeeded"
         /\ payments'[i] # None
         => /\ payments'[i].status = "succeeded"
            /\ payments'[i].paidAt = payments[i].paidAt
            /\ payments'[i].intent = payments[i].intent
<1>1. Copies /\ [Next]_vars => [Keeps]_vars
  <2> SUFFICES ASSUME Copies, [Next]_vars,
                      NEW i \in Ids, payments[i] # None,
                      payments[i].status = "succeeded", payments'[i] # None
               PROVE  /\ payments'[i].status = "succeeded"
                      /\ payments'[i].paidAt = payments[i].paidAt
                      /\ payments'[i].intent = payments[i].intent
    OBVIOUS
  <2> USE DEF Copies
  <2>1. ASSUME NEW c \in Checkouts, CreatePending(c)
        PROVE  payments'[i] = payments[i]
    BY <2>1 DEF CreatePending, FreshIds, TypeOK
  <2>2. ASSUME NEW h \in Handlers, Save(h), handler[h].id = i
        PROVE  /\ payments'[i].status = "succeeded"
               /\ payments'[i].paidAt = payments[i].paidAt
               /\ payments'[i].intent = payments[i].intent
    BY <2>2 DEF Save, TaskShape, CopyOfRow, TypeOK
  <2>3. ASSUME NEW h \in Handlers, Save(h), handler[h].id # i
        PROVE  payments'[i] = payments[i]
    BY <2>3 DEF Save, TypeOK
  <2>4. ASSUME NEW j \in Ids, AdminDeletePayment(j)
        PROVE  payments'[i] = payments[i]
    BY <2>4 DEF AdminDeletePayment, TypeOK
  <2>5. ASSUME \A c \in Checkouts : ~CreatePending(c),
               \A h \in Handlers : ~Save(h),
               \A j \in Ids : ~AdminDeletePayment(j)
        PROVE  payments' = payments
    BY <2>5 DEF Next, CreateSession, CreatePaymentFails, Complete, Pay,
                Webhook, Find,
                Publish, PublishUnanswered, Fail, vars
  <2> QED
    BY <2>1, <2>2, <2>3, <2>4, <2>5
<1>2. Spec => [][Keeps]_vars
  BY <1>1, CopiesInvariant, PTL DEF Spec
<1> QED
  BY <1>2 DEF SucceededStays

=============================================================================
