--------------------------- MODULE ReceiptsProofs ---------------------------
(***************************************************************************)
(* Theorems about the receipt and status workers, for any number of        *)
(* payments, updates, messages, workers and scenarios.                     *)
(***************************************************************************)
EXTENDS Receipts, TLAPS

\* One more delivery stays within the range and takes none away.
LEMMA DeliveredType ==
    ASSUME mails \in [Payments \cup Updates -> 0..2],
           NEW x \in Payments \cup Updates
    PROVE  /\ Delivered(x) \in [Payments \cup Updates -> 0..2]
           /\ \A y \in Payments \cup Updates :
                y # x => Delivered(x)[y] = mails[y]
           /\ Delivered(x)[x] \in {1, 2}
           /\ mails[x] = 0 => Delivered(x)[x] = 1
<1> DEFINE more == IF mails[x] = 2 THEN 2 ELSE mails[x] + 1
<1>1. mails[x] \in 0..2
  OBVIOUS
<1>2. more \in {1, 2} /\ (mails[x] = 0 => more = 1)
  BY <1>1
<1>3. Delivered(x) = [mails EXCEPT ![x] = more]
  BY DEF Delivered
<1> HIDE DEF more
<1> QED
  BY <1>2, <1>3

-----------------------------------------------------------------------------
(***************************************************************************)
(* What a worker does fits the message it has in hand: it reserves, mails  *)
(* and releases payments, and mails updates; it knows its context expired  *)
(* only when sends may be slow; and only a worker that runs has anything.  *)
(***************************************************************************)
Fits(t) ==
    /\ t.pc \in {"send", "release"} => t.message.about \in Payments
    /\ t.pc = "send status" => t.message.about \in Updates
    /\ t.late => MayFail(Slow)

Shape ==
    \A w \in Workers :
        /\ task[w] # None => w \in scenario.workers /\ Fits(task[w])
        /\ fetched[w] # {} => w \in scenario.workers

Shaped == TypeOK /\ Shape

LEMMA ShapedStep == Shaped /\ [Next]_vars => Shaped'
<1> SUFFICES ASSUME Shaped, [Next]_vars PROVE Shaped'
  OBVIOUS
<1> USE DEF Shaped, TypeOK, Shape, Fits, MayFail
<1>1. ASSUME NEW m \in Message, Published(m) PROVE Shaped'
  BY <1>1 DEF Published
<1>2. ASSUME NEW p \in Payments, Expire(p) PROVE Shaped'
  BY <1>2 DEF Expire
<1>3. ASSUME NEW w \in Workers, NEW m \in Message, Fetch(w, m) PROVE Shaped'
  BY <1>3 DEF Fetch
<1>4. ASSUME NEW w \in Workers, NEW m \in Message,
             NEW pc \in {"send", "send status", "release", "ack"},
             Begin(w, m, pc), UNCHANGED <<scenario, stream, mails, acked>>,
             keys' \subseteq Payments,
             pc \in {"send", "release"} => m.about \in Payments,
             pc = "send status" => m.about \in Updates
      PROVE  Shaped'
  <2>1. [message |-> m, pc |-> pc, late |-> FALSE] \in Task
    BY DEF Task
  <2>2. /\ task' = [task EXCEPT ![w] =
                      [message |-> m, pc |-> pc, late |-> FALSE]]
        /\ fetched' = [fetched EXCEPT ![w] = @ \ {m}]
        /\ m \in fetched[w]
    BY <1>4 DEF Begin
  <2>3. TypeOK'
    BY <1>4, <2>1, <2>2
  <2>4. Shape'
    BY <1>4, <2>2
  <2> QED
    BY <2>3, <2>4
<1>5. ASSUME NEW w \in Workers, NEW m \in Message, Handle(w, m)
      PROVE  Shaped'
  <2>1. CASE Skip(w, m)
    BY <1>4, <2>1 DEF Skip
  <2>2. CASE MarkProcessed(w, m)
    BY <1>4, <2>2 DEF MarkProcessed
  <2>3. CASE StatusUpdated(w, m)
    BY <1>4, <2>3 DEF StatusUpdated
  <2> QED
    BY <1>5, <2>1, <2>2, <2>3 DEF Handle
<1>6. ASSUME NEW w \in Workers, NEW m \in Message, MarkProcessedFails(w, m)
      PROVE  Shaped'
  BY <1>6 DEF MarkProcessedFails
<1>7. ASSUME NEW w \in Workers, SendReceipt(w) \/ SendOrderStatus(w)
      PROVE  Shaped'
  <2>1. /\ task[w] # None /\ task[w] \in Task
        /\ About(w) \in Payments \cup Updates
        /\ task' = [task EXCEPT ![w].pc = "ack"]
        /\ mails' = Delivered(About(w))
    BY <1>7 DEF SendReceipt, SendOrderStatus, At, About
  <2>2. [task[w] EXCEPT !.pc = "ack"] \in Task
    BY <2>1 DEF Task
  <2>3. mails' \in [Payments \cup Updates -> 0..2]
    BY <2>1, DeliveredType
  <2>4. TypeOK'
    BY <1>7, <2>1, <2>2, <2>3 DEF SendReceipt, SendOrderStatus
  <2>5. Shape'
    BY <1>7, <2>1 DEF SendReceipt, SendOrderStatus, Task
  <2> QED
    BY <2>4, <2>5
<1>8. ASSUME NEW w \in Workers, SendReceiptFails(w) PROVE Shaped'
  <2>1. /\ task[w] # None /\ task[w] \in Task /\ task[w].pc = "send"
        /\ About(w) \in Payments
    BY <1>8 DEF SendReceiptFails, At, About
  <2>2. PICK late \in BOOLEAN :
          /\ late => MayFail(Slow)
          /\ task' = [task EXCEPT ![w] = [[task[w] EXCEPT !.pc = "release"]
                                            EXCEPT !.late = late]]
    <3>1. PICK late \in {FALSE} \cup (IF MayFail(Slow) THEN {TRUE} ELSE {}) :
            task' = [task EXCEPT ![w].pc = "release", ![w].late = late]
      BY <1>8 DEF SendReceiptFails
    <3>2. task' = [task EXCEPT ![w] = [[task[w] EXCEPT !.pc = "release"]
                                         EXCEPT !.late = late]]
      BY <3>1
    <3>3. late \in BOOLEAN /\ (late => MayFail(Slow))
      BY <3>1
    <3> QED
      BY <3>2, <3>3
  <2>3. /\ [[task[w] EXCEPT !.pc = "release"] EXCEPT !.late = late] \in Task
        /\ task'[w].pc = "release" /\ task'[w].late = late
        /\ task'[w].message = task[w].message
    BY <2>1, <2>2 DEF Task
  <2>4. mails' \in [Payments \cup Updates -> 0..2]
    <3>1. mails' = mails \/ mails' = Delivered(About(w))
      BY <1>8 DEF SendReceiptFails
    <3>2. Delivered(About(w)) \in [Payments \cup Updates -> 0..2]
      BY <2>1, DeliveredType
    <3> QED
      BY <3>1, <3>2
  <2>5. TypeOK'
    BY <1>8, <2>2, <2>3, <2>4 DEF SendReceiptFails
  <2>6. Shape'
    BY <1>8, <2>1, <2>2, <2>3 DEF SendReceiptFails, About
  <2> QED
    BY <2>5, <2>6
<1>9. ASSUME NEW w \in Workers, SendOrderStatusFails(w) PROVE Shaped'
  <2>1. About(w) \in Updates
    BY <1>9 DEF SendOrderStatusFails, At, About
  <2>2. mails' \in [Payments \cup Updates -> 0..2]
    <3>1. mails' = mails \/ mails' = Delivered(About(w))
      BY <1>9 DEF SendOrderStatusFails
    <3>2. Delivered(About(w)) \in [Payments \cup Updates -> 0..2]
      BY <2>1, DeliveredType
    <3> QED
      BY <3>1, <3>2
  <2> QED
    BY <1>9, <2>2 DEF SendOrderStatusFails
<1>10. ASSUME NEW w \in Workers, Release(w) PROVE Shaped'
  BY <1>10 DEF Release
<1>11. ASSUME NEW w \in Workers, Ack(w) PROVE Shaped'
  BY <1>11 DEF Ack, At, Task
<1>12. ASSUME NEW w \in Workers, AckLost(w) \/ CrashRestart(w) PROVE Shaped'
  BY <1>12 DEF AckLost, CrashRestart
<1>13. CASE UNCHANGED vars
  BY <1>13 DEF vars
<1> QED
  BY <1>1, <1>2, <1>3, <1>5, <1>6, <1>7, <1>8, <1>9, <1>10, <1>11, <1>12,
     <1>13
  DEF Next, Worker

LEMMA ShapedInvariant == Spec => []Shaped
<1>1. Init => Shaped
  BY DEF Init, Shaped, TypeOK, Shape
<1> QED
  BY <1>1, ShapedStep, PTL DEF Spec

\* The variables of the notification workers keep their types.
THEOREM TypeCorrect == Spec => []TypeOK
<1>1. Shaped => TypeOK
  BY DEF Shaped
<1> QED
  BY <1>1, ShapedInvariant, PTL

-----------------------------------------------------------------------------
(***************************************************************************)
(* A reservation is held by at most one worker that has not mailed, and a  *)
(* payment whose receipt was mailed keeps its reservation for good.        *)
(***************************************************************************)
Safe == ~MayFail(SentError) /\ ~MayFail(Expiry)

Holds(w) == At(w, "send") \/ At(w, "release")

HoldsAlone ==
    \A w \in Workers : Holds(w) =>
        /\ About(w) \in keys
        /\ mails[About(w)] = 0
        /\ \A v \in Workers \ {w} : Holds(v) => About(v) # About(w)

MailedStaysReserved ==
    \A p \in Payments : mails[p] <= 1 /\ (mails[p] # 0 => p \in keys)

Reserved == Safe => HoldsAlone /\ MailedStaysReserved

\* Holders do not multiply when a worker lets go of its message, nor when it
\* goes on holding the one it has.
LEMMA ReservedStep == Shaped /\ Reserved /\ [Next]_vars => Reserved'
<1> SUFFICES ASSUME Shaped, Reserved, [Next]_vars, Safe'
             PROVE  HoldsAlone' /\ MailedStaysReserved'
  BY DEF Reserved
<1>1. scenario' = scenario
  BY DEF Next, Published, Worker, Fetch, Handle, Skip, MarkProcessed,
         StatusUpdated, MarkProcessedFails, SendReceipt, SendReceiptFails,
         Release, SendOrderStatus, SendOrderStatusFails, Ack, AckLost,
         CrashRestart, Expire, vars
<1>2. Safe /\ HoldsAlone /\ MailedStaysReserved
  BY <1>1 DEF Reserved, Safe, MayFail
<1> USE DEF Shaped, TypeOK, HoldsAlone, MailedStaysReserved, Holds, At, About
<1>3. ASSUME NEW w \in Workers,
             \A v \in Workers \ {w} : task'[v] = task[v],
             task'[w] = None \/ task'[w].pc \notin {"send", "release"},
             mails' = mails, keys \subseteq keys'
      PROVE  HoldsAlone' /\ MailedStaysReserved'
  <2>1. HoldsAlone'
    BY <1>2, <1>3
  <2>2. MailedStaysReserved'
    BY <1>2, <1>3
  <2> QED
    BY <2>1, <2>2
<1>4. ASSUME NEW m \in Message, Published(m)
      PROVE  HoldsAlone' /\ MailedStaysReserved'
  BY <1>2, <1>4 DEF Published
<1>5. ASSUME NEW p \in Payments, Expire(p) PROVE FALSE
  BY <1>2, <1>5 DEF Expire, Safe
<1>6. ASSUME NEW w \in Workers, NEW m \in Message, Fetch(w, m)
      PROVE  HoldsAlone' /\ MailedStaysReserved'
  BY <1>2, <1>6 DEF Fetch
<1>7. ASSUME NEW w \in Workers, NEW m \in Message, Skip(w, m)
      PROVE  HoldsAlone' /\ MailedStaysReserved'
  BY <1>3, <1>7 DEF Skip, Begin
<1>8. ASSUME NEW w \in Workers, NEW m \in Message, StatusUpdated(w, m)
      PROVE  HoldsAlone' /\ MailedStaysReserved'
  BY <1>3, <1>8 DEF StatusUpdated, Begin
<1>9. ASSUME NEW w \in Workers, NEW m \in Message, MarkProcessed(w, m)
      PROVE  HoldsAlone' /\ MailedStaysReserved'
  <2>1. CASE m.about \in keys /\ Begin(w, m, "ack") /\ UNCHANGED keys
    BY <1>3, <1>9, <2>1 DEF MarkProcessed, Begin
  <2>2. CASE /\ m.about \notin keys /\ keys' = keys \cup {m.about}
             /\ Begin(w, m, "send")
    <3>1. /\ m.about \in Payments /\ mails' = mails
          /\ task' = [task EXCEPT ![w] =
                        [message |-> m, pc |-> "send", late |-> FALSE]]
      BY <1>9, <2>2 DEF MarkProcessed, Begin
    <3>2. mails[m.about] = 0
      BY <1>2, <2>2, <3>1
    <3>3. HoldsAlone'
      <4>1. ASSUME NEW v \in Workers, v # w, Holds(v)
            PROVE  About(v) \in keys /\ About(v) # m.about
        BY <1>2, <2>2, <4>1
      <4> QED
        BY <1>2, <2>2, <3>1, <3>2, <4>1
    <3>4. MailedStaysReserved'
      BY <1>2, <2>2, <3>1
    <3> QED
      BY <3>3, <3>4
  <2> QED
    BY <1>9, <2>1, <2>2 DEF MarkProcessed
<1>10. ASSUME NEW w \in Workers, NEW m \in Message, MarkProcessedFails(w, m)
       PROVE  HoldsAlone' /\ MailedStaysReserved'
  BY <1>2, <1>10 DEF MarkProcessedFails
<1>11. ASSUME NEW w \in Workers, SendReceipt(w)
       PROVE  HoldsAlone' /\ MailedStaysReserved'
  <2>1. /\ task[w] \in Task /\ Holds(w) /\ About(w) \in Payments
        /\ mails[About(w)] = 0 /\ About(w) \in keys
        /\ mails' = Delivered(About(w)) /\ keys' = keys
        /\ task' = [task EXCEPT ![w].pc = "ack"]
    BY <1>2, <1>11 DEF SendReceipt, Shape, Fits
  <2>2. /\ task'[w].pc = "ack"
        /\ \A v \in Workers \ {w} : task'[v] = task[v]
    BY <2>1 DEF Task
  <2>3. /\ mails'[About(w)] = 1
        /\ \A y \in Payments \cup Updates : y # About(w) => mails'[y] = mails[y]
    BY <2>1, DeliveredType
  <2>4. HoldsAlone'
    <3> SUFFICES ASSUME NEW v \in Workers, Holds(v)'
                 PROVE  /\ About(v)' \in keys' /\ mails'[About(v)'] = 0
                        /\ \A u \in Workers \ {v} :
                             Holds(u)' => About(u)' # About(v)'
      BY DEF HoldsAlone
    <3>1. v # w /\ task'[v] = task[v] /\ Holds(v)
      BY <2>2
    <3>2. About(v) # About(w) /\ About(v) \in Payments
      BY <1>2, <2>1, <3>1 DEF Shape, Fits
    <3>3. \A u \in Workers \ {v} : Holds(u)' => u # w /\ task'[u] = task[u]
      BY <2>2
    <3> QED
      BY <1>2, <2>1, <2>3, <3>1, <3>2, <3>3
  <2>5. MailedStaysReserved'
    BY <1>2, <2>1, <2>3
  <2> QED
    BY <2>4, <2>5
<1>12. ASSUME NEW w \in Workers, SendOrderStatus(w) \/ SendOrderStatusFails(w)
       PROVE  HoldsAlone' /\ MailedStaysReserved'
  <2>1. /\ task[w] \in Task /\ About(w) \in Updates /\ About(w) \notin Payments
        /\ keys' = keys
        /\ \A v \in Workers \ {w} : task'[v] = task[v]
        /\ task'[w] = None \/ task'[w].pc = "ack"
    BY <1>12, KindsAssumption
    DEF SendOrderStatus, SendOrderStatusFails, Shape, Fits, Task
  <2>2. mails' = mails \/ mails' = Delivered(About(w))
    BY <1>12 DEF SendOrderStatus, SendOrderStatusFails
  <2>3. \A y \in Payments : mails'[y] = mails[y]
    BY <2>1, <2>2, DeliveredType
  <2>4. \A v \in Workers : Holds(v)' =>
          v # w /\ task'[v] = task[v] /\ Holds(v) /\ About(v) \in Payments
    BY <2>1 DEF Shape, Fits
  <2>5. HoldsAlone'
    BY <1>2, <2>1, <2>3, <2>4
  <2>6. MailedStaysReserved'
    BY <1>2, <2>1, <2>3
  <2> QED
    BY <2>5, <2>6
<1>13. ASSUME NEW w \in Workers, SendReceiptFails(w)
       PROVE  HoldsAlone' /\ MailedStaysReserved'
  <2>1. /\ task[w] \in Task /\ At(w, "send") /\ mails' = mails /\ keys' = keys
    BY <1>2, <1>13 DEF SendReceiptFails, Safe
  <2>2. /\ \A v \in Workers \ {w} : task'[v] = task[v]
        /\ task'[w].message = task[w].message
    <3>1. PICK late \in {FALSE} \cup (IF MayFail(Slow) THEN {TRUE} ELSE {}) :
            task' = [task EXCEPT ![w].pc = "release", ![w].late = late]
      BY <1>13 DEF SendReceiptFails
    <3>2. task' = [task EXCEPT ![w] = [[task[w] EXCEPT !.pc = "release"]
                                         EXCEPT !.late = late]]
      BY <3>1
    <3>3. task'[w] = [[task[w] EXCEPT !.pc = "release"] EXCEPT !.late = late]
      BY <3>2
    <3>4. \A v \in Workers \ {w} : task'[v] = task[v]
      BY <3>2
    <3> QED
      BY <2>1, <3>3, <3>4 DEF Task
  <2>3. \A v \in Workers : Holds(v)' => Holds(v) /\ About(v)' = About(v)
    BY <2>1, <2>2
  <2> QED
    BY <1>2, <2>1, <2>3
<1>14. ASSUME NEW w \in Workers, Release(w)
       PROVE  HoldsAlone' /\ MailedStaysReserved'
  <2>1. /\ Holds(w) /\ mails[About(w)] = 0 /\ mails' = mails
        /\ keys \ {About(w)} \subseteq keys'
        /\ task' = [task EXCEPT ![w] = None]
    BY <1>2, <1>14 DEF Release
  <2>2. \A v \in Workers : Holds(v)' =>
          v # w /\ Holds(v) /\ About(v)' = About(v) /\ About(v) # About(w)
    BY <1>2, <2>1
  <2> QED
    BY <1>2, <2>1, <2>2
<1>15. ASSUME NEW w \in Workers, Ack(w) \/ AckLost(w) \/ CrashRestart(w)
       PROVE  HoldsAlone' /\ MailedStaysReserved'
  BY <1>3, <1>15 DEF Ack, AckLost, CrashRestart
<1>16. CASE UNCHANGED vars
  BY <1>2, <1>16 DEF vars
<1> QED
  BY <1>4, <1>5, <1>6, <1>7, <1>8, <1>9, <1>10, <1>11, <1>12, <1>13, <1>14,
     <1>15, <1>16
  DEF Next, Worker, Handle

LEMMA ReservedInvariant == Spec => [](Shaped /\ Reserved)
<1>1. Init => Shaped /\ Reserved
  BY DEF Init, Shaped, TypeOK, Shape, Reserved, HoldsAlone, Holds, At,
         MailedStaysReserved
<1>2. Shaped /\ Reserved /\ [Next]_vars => (Shaped /\ Reserved)'
  BY ShapedStep, ReservedStep
<1> QED
  BY <1>1, <1>2, PTL DEF Spec

\* Whatever is published, delivered and restarted how often, a payment gets one
\* receipt at most.
THEOREM AtMostOneReceiptAlways == Spec => []AtMostOneReceipt
<1>1. Reserved => AtMostOneReceipt
  BY DEF Reserved, Safe, MailedStaysReserved, AtMostOneReceipt
<1> QED
  BY <1>1, ReservedInvariant, PTL

\* Whoever mails a receipt holds its reservation, alone, and is the first.
THEOREM SendingIsFirstAlways == Spec => []SendingIsFirst
<1>1. Reserved => SendingIsFirst
  BY DEF Reserved, Safe, HoldsAlone, Holds, SendingIsFirst
<1> QED
  BY <1>1, ReservedInvariant, PTL

-----------------------------------------------------------------------------
(***************************************************************************)
(* That an acknowledged receipt was mailed rests on the loop being one and *)
(* calm: whenever it looks at a reservation it has nothing in hand, so the *)
(* reservation was left by a mail and not by a worker that died, hung, is  *)
(* still sending or could not release it.  A status mail needs none of it. *)
(***************************************************************************)
KeysMailed ==
    Calm => \A p \in keys :
        mails[p] >= 1 \/ \E w \in Workers : Holds(w) /\ About(w) = p

ToAckMailed ==
    \A w \in Workers :
        At(w, "ack") /\ Promised(task[w].message) => mails[About(w)] >= 1

Mailed == KeysMailed /\ ToAckMailed /\ AckedWasMailed

\* No step takes a delivered mail back.
LEMMA MailsGrow ==
    ASSUME Shaped, [Next]_vars, NEW x \in Payments \cup Updates
    PROVE  mails[x] >= 1 => mails'[x] >= 1
<1> USE DEF Shaped, TypeOK
<1>1. ASSUME NEW w \in Workers,
             SendReceipt(w) \/ SendReceiptFails(w)
             \/ SendOrderStatus(w) \/ SendOrderStatusFails(w)
      PROVE  mails[x] >= 1 => mails'[x] >= 1
  <2>1. About(w) \in Payments \cup Updates
    BY <1>1 DEF SendReceipt, SendReceiptFails, SendOrderStatus,
                SendOrderStatusFails, At, About, Shape, Fits
  <2>2. mails' = mails \/ mails' = Delivered(About(w))
    BY <1>1 DEF SendReceipt, SendReceiptFails, SendOrderStatus,
                SendOrderStatusFails
  <2>3. /\ x # About(w) => Delivered(About(w))[x] = mails[x]
        /\ Delivered(About(w))[About(w)] \in {1, 2}
    BY <2>1, DeliveredType
  <2> QED
    BY <2>2, <2>3
<1>2. ASSUME \A w \in Workers : ~SendReceipt(w) /\ ~SendReceiptFails(w)
               /\ ~SendOrderStatus(w) /\ ~SendOrderStatusFails(w)
      PROVE  mails' = mails
  BY <1>2 DEF Next, Published, Worker, Fetch, Handle, Skip, MarkProcessed,
              StatusUpdated, MarkProcessedFails, Release, Ack, AckLost,
              CrashRestart, Expire, vars
<1> QED
  BY <1>1, <1>2

LEMMA MailedStep == Shaped /\ Mailed /\ [Next]_vars => Mailed'
<1> SUFFICES ASSUME Shaped, Mailed, [Next]_vars PROVE Mailed'
  OBVIOUS
<1> USE DEF Mailed, Shaped, TypeOK
<1>1. scenario' = scenario
  BY DEF Next, Published, Worker, Fetch, Handle, Skip, MarkProcessed,
         StatusUpdated, MarkProcessedFails, SendReceipt, SendReceiptFails,
         Release, SendOrderStatus, SendOrderStatusFails, Ack, AckLost,
         CrashRestart, Expire, vars
<1>2. (Calm' <=> Calm) /\ \A m \in Message : Promised(m)' <=> Promised(m)
  BY <1>1 DEF Calm, Promised
<1>3. ASSUME NEW w \in Workers,
             \A v \in Workers \ {w} : task'[v] = task[v],
             keys' \subseteq keys,
             Calm /\ Holds(w) => \/ About(w) \notin keys'
                                 \/ mails'[About(w)] >= 1
                                 \/ Holds(w)' /\ About(w)' = About(w)
      PROVE  KeysMailed'
  <2> SUFFICES ASSUME Calm, NEW p \in keys'
               PROVE  \/ mails'[p] >= 1
                      \/ \E v \in Workers : (Holds(v) /\ About(v) = p)'
    BY <1>2 DEF KeysMailed
  <2>1. p \in keys /\ p \in Payments
    BY <1>3
  <2>2. CASE mails[p] >= 1
    BY <2>1, <2>2, MailsGrow
  <2>3. ASSUME NEW v \in Workers, Holds(v), About(v) = p
        PROVE  \/ mails'[p] >= 1
               \/ \E u \in Workers : (Holds(u) /\ About(u) = p)'
    <3>1. CASE v = w
      BY <1>3, <2>3, <3>1
    <3>2. CASE v # w
      <4>1. Holds(v)' /\ About(v)' = p
        BY <1>3, <2>3, <3>2 DEF Holds, At, About
      <4> QED
        BY <4>1
    <3> QED
      BY <3>1, <3>2
  <2> QED
    BY <2>1, <2>2, <2>3 DEF KeysMailed
<1>4. KeysMailed'
  <2>1. ASSUME task' = task, keys' \subseteq keys PROVE KeysMailed'
    <3>1. CASE Workers = {}
      <4> SUFFICES ASSUME Calm, NEW p \in keys' PROVE mails'[p] >= 1
        BY <1>2 DEF KeysMailed
      <4>1. p \in Payments /\ mails[p] >= 1
        BY <2>1, <3>1 DEF KeysMailed
      <4> QED
        BY <4>1, MailsGrow
    <3>2. ASSUME NEW w \in Workers PROVE KeysMailed'
      BY <1>3, <2>1 DEF Holds, At, About
    <3> QED
      BY <3>1, <3>2
  <2>2. ASSUME NEW m \in Message, Published(m) PROVE KeysMailed'
    BY <2>1, <2>2 DEF Published
  <2>3. ASSUME NEW p \in Payments, Expire(p) PROVE KeysMailed'
    BY <2>1, <2>3 DEF Expire
  <2>4. ASSUME NEW w \in Workers, NEW m \in Message, Fetch(w, m)
        PROVE  KeysMailed'
    BY <2>1, <2>4 DEF Fetch
  <2>5. ASSUME NEW w \in Workers, NEW m \in Message,
               Skip(w, m) \/ StatusUpdated(w, m)
        PROVE  KeysMailed'
    BY <1>3, <2>5 DEF Skip, StatusUpdated, Begin, Holds, At
  <2>6. ASSUME NEW w \in Workers, NEW m \in Message, MarkProcessed(w, m)
        PROVE  KeysMailed'
    <3>1. CASE Begin(w, m, "ack") /\ UNCHANGED keys
      BY <1>3, <3>1 DEF Begin, Holds, At
    <3>2. CASE keys' = keys \cup {m.about} /\ Begin(w, m, "send")
      <4> SUFFICES ASSUME Calm, NEW p \in keys'
                   PROVE  \/ mails'[p] >= 1
                          \/ \E v \in Workers : (Holds(v) /\ About(v) = p)'
        BY <1>2 DEF KeysMailed
      <4>1. /\ task[w] = None /\ mails' = mails
            /\ task' = [task EXCEPT ![w] =
                          [message |-> m, pc |-> "send", late |-> FALSE]]
        BY <2>6, <3>2 DEF MarkProcessed, Begin
      <4>2. task'[w] = [message |-> m, pc |-> "send", late |-> FALSE]
        BY <4>1
      <4>3. task'[w] # None
        <5>1. m \in Message
          OBVIOUS
        <5>2. [message |-> m, pc |-> "send", late |-> FALSE] \in Task
          BY <5>1 DEF Task
        <5> QED
          BY <4>2, <5>2, NoTask
      <4>4. CASE p = m.about
        BY <4>2, <4>3, <4>4 DEF Holds, At, About
      <4>5. CASE p \in keys /\ mails[p] >= 1
        BY <4>1, <4>5
      <4>6. ASSUME NEW v \in Workers, Holds(v), About(v) = p
            PROVE  (Holds(v) /\ About(v) = p)'
        BY <4>1, <4>6 DEF Holds, At, About
      <4> QED
        BY <3>2, <4>4, <4>5, <4>6 DEF KeysMailed
    <3> QED
      BY <2>6, <3>1, <3>2 DEF MarkProcessed
  <2>7. ASSUME NEW w \in Workers, NEW m \in Message, MarkProcessedFails(w, m)
        PROVE  KeysMailed'
    <3>1. Calm => keys' = keys
      BY <2>7 DEF MarkProcessedFails, Calm, MayFail
    <3>2. task' = task /\ mails' = mails
      BY <2>7 DEF MarkProcessedFails
    <3> QED
      BY <1>2, <3>1, <3>2 DEF KeysMailed, Holds, At, About
  <2>8. ASSUME NEW w \in Workers, SendReceipt(w) PROVE KeysMailed'
    <3>1. About(w) \in Payments /\ mails' = Delivered(About(w)) /\ keys' = keys
      BY <2>8 DEF SendReceipt, At, About, Shape, Fits
    <3>2. mails'[About(w)] \in {1, 2}
      BY <3>1, DeliveredType
    <3>3. \A v \in Workers \ {w} : task'[v] = task[v]
      BY <2>8 DEF SendReceipt
    <3> QED
      BY <1>3, <3>1, <3>2, <3>3
  <2>9. ASSUME NEW w \in Workers, SendReceiptFails(w) PROVE KeysMailed'
    <3>1. /\ task[w] \in Task /\ keys' = keys
      BY <2>9 DEF SendReceiptFails, At
    <3>2. PICK late \in {FALSE} \cup (IF MayFail(Slow) THEN {TRUE} ELSE {}) :
            task' = [task EXCEPT ![w].pc = "release", ![w].late = late]
      BY <2>9 DEF SendReceiptFails
    <3>3. task' = [task EXCEPT ![w] = [[task[w] EXCEPT !.pc = "release"]
                                         EXCEPT !.late = late]]
      BY <3>2
    <3>4. /\ task'[w] = [[task[w] EXCEPT !.pc = "release"] EXCEPT !.late = late]
          /\ \A v \in Workers \ {w} : task'[v] = task[v]
      BY <3>3
    <3>5. late \in BOOLEAN
      BY <3>2
    <3>6. /\ task'[w] \in Task /\ task'[w].pc = "release"
          /\ task'[w].message = task[w].message
      BY <3>1, <3>4, <3>5 DEF Task
    <3>7. Holds(w)' /\ About(w)' = About(w)
      BY <3>6, NoTask DEF Holds, At, About
    <3> QED
      BY <1>3, <3>1, <3>4, <3>7
  <2>10. ASSUME NEW w \in Workers, Release(w) PROVE KeysMailed'
    <3>1. /\ Calm => ~task[w].late /\ ~MayFail(ReleaseError)
          /\ \A v \in Workers \ {w} : task'[v] = task[v]
      BY <2>10 DEF Release, At, Shape, Fits, Calm, MayFail
    <3>2. keys' \subseteq keys /\ (Calm => About(w) \notin keys')
      BY <2>10, <3>1 DEF Release
    <3> QED
      BY <1>3, <3>1, <3>2
  <2>11. ASSUME NEW w \in Workers,
                SendOrderStatus(w) \/ SendOrderStatusFails(w)
                \/ Ack(w) \/ AckLost(w)
         PROVE  KeysMailed'
    <3>1. ~Holds(w) /\ keys' = keys /\ \A v \in Workers \ {w} : task'[v] = task[v]
      BY <2>11 DEF SendOrderStatus, SendOrderStatusFails, Ack, AckLost, Holds, At
    <3> QED
      BY <1>3, <3>1
  <2>12. ASSUME NEW w \in Workers, CrashRestart(w) PROVE KeysMailed'
    <3>1. ~Calm
      BY <2>12 DEF CrashRestart, MayFail, Calm
    <3> QED
      BY <1>2, <3>1 DEF KeysMailed
  <2>13. CASE UNCHANGED vars
    BY <2>1, <2>13 DEF vars
  <2> QED
    BY <2>2, <2>3, <2>4, <2>5, <2>6, <2>7, <2>8, <2>9, <2>10, <2>11, <2>12,
       <2>13
    DEF Next, Worker, Handle
<1>5. ToAckMailed'
  <2> SUFFICES ASSUME NEW w \in Workers, At(w, "ack")',
                      Promised(task[w].message)'
               PROVE  mails'[task'[w].message.about] >= 1
    BY DEF ToAckMailed, About
  <2>1. CASE task'[w] = task[w]
    <3>1. /\ task[w] \in Task /\ At(w, "ack") /\ task[w].message \in Message
      BY <2>1 DEF At, Task
    <3>2. Promised(task[w].message) /\ About(w) \in Payments \cup Updates
      BY <1>2, <2>1, <3>1 DEF Promised, About
    <3>3. mails[About(w)] >= 1
      BY <3>1, <3>2 DEF ToAckMailed
    <3> QED
      BY <2>1, <3>2, <3>3, MailsGrow DEF About
  <2>2. ASSUME NEW m \in Message, Skip(w, m) PROVE FALSE
    <3>1. m.about = None /\ task'[w].message = m
      BY <2>2 DEF Skip, Begin
    <3> QED
      BY <3>1, NoneAssumption DEF Promised
  <2>3. ASSUME NEW m \in Message, StatusUpdated(w, m) PROVE FALSE
    BY <2>3 DEF StatusUpdated, Begin, At
  <2>4. ASSUME NEW m \in Message, MarkProcessed(w, m)
        PROVE  mails'[task'[w].message.about] >= 1
    <3>1. /\ m.about \in Payments /\ m.about \in keys /\ mails' = mails
          /\ task'[w].message = m /\ task[w] = None /\ m \in fetched[w]
      BY <2>4 DEF MarkProcessed, Begin, At
    <3>2. Calm /\ w \in scenario.workers
      BY <1>2, <3>1, KindsAssumption DEF Promised, Shape
    <3>3. ASSUME NEW v \in Workers, Holds(v) PROVE FALSE
      <4>1. v \in scenario.workers
        BY <3>3 DEF Holds, At, Shape
      <4> QED
        BY <3>1, <3>2, <3>3, <4>1 DEF Calm, Holds, At
    <3> QED
      BY <3>1, <3>2, <3>3 DEF KeysMailed
  <2>5. ASSUME SendReceipt(w) \/ SendOrderStatus(w)
        PROVE  mails'[task'[w].message.about] >= 1
    <3>1. /\ task[w] \in Task /\ About(w) \in Payments \cup Updates
          /\ task' = [task EXCEPT ![w].pc = "ack"]
          /\ mails' = Delivered(About(w))
      BY <2>5 DEF SendReceipt, SendOrderStatus, At, About, Shape, Fits
    <3>2. task'[w].message.about = About(w)
      BY <3>1 DEF About, Task
    <3>3. mails'[About(w)] \in {1, 2}
      BY <3>1, DeliveredType
    <3> QED
      BY <3>2, <3>3
  <2>6. ASSUME SendReceiptFails(w) PROVE FALSE
    <3>1. task[w] \in Task
      BY <2>6 DEF SendReceiptFails, At
    <3>2. PICK late \in {FALSE} \cup (IF MayFail(Slow) THEN {TRUE} ELSE {}) :
            task' = [task EXCEPT ![w].pc = "release", ![w].late = late]
      BY <2>6 DEF SendReceiptFails
    <3>3. task' = [task EXCEPT ![w] = [[task[w] EXCEPT !.pc = "release"]
                                         EXCEPT !.late = late]]
      BY <3>2
    <3>4. task'[w].pc = "release"
      BY <3>1, <3>3 DEF Task
    <3> QED
      BY <3>4 DEF At
  <2>7. ASSUME Release(w) \/ SendOrderStatusFails(w) \/ Ack(w) \/ AckLost(w)
               \/ CrashRestart(w)
        PROVE  FALSE
    BY <2>7 DEF Release, SendOrderStatusFails, Ack, AckLost, CrashRestart, At
  <2>8. ASSUME NEW v \in Workers, Worker(v), v # w PROVE task'[w] = task[w]
    BY <2>8 DEF Worker, Fetch, Handle, Skip, MarkProcessed, StatusUpdated, Begin,
                MarkProcessedFails, SendReceipt, SendReceiptFails, Release,
                SendOrderStatus, SendOrderStatusFails, Ack, AckLost,
                CrashRestart
  <2>9. ASSUME NEW m \in Message, Fetch(w, m) \/ MarkProcessedFails(w, m)
        PROVE  task' = task
    BY <2>9 DEF Fetch, MarkProcessedFails
  <2>10. ASSUME \A v \in Workers : ~Worker(v) PROVE task' = task
    BY <2>10 DEF Next, Published, Expire, vars
  <2> QED
    BY <2>1, <2>2, <2>3, <2>4, <2>5, <2>6, <2>7, <2>8, <2>9, <2>10
    DEF Worker, Handle
<1>6. AckedWasMailed'
  <2> SUFFICES ASSUME NEW m \in acked', Promised(m)'
               PROVE  mails'[m.about] >= 1
    BY DEF AckedWasMailed
  <2>1. m \in acked \/ \E w \in Workers : Ack(w) /\ m = task[w].message
    BY DEF Next, Published, Worker, Fetch, Handle, Skip, MarkProcessed,
           StatusUpdated, MarkProcessedFails, SendReceipt, SendReceiptFails,
           Release, SendOrderStatus, SendOrderStatusFails, Ack, AckLost,
           CrashRestart, Expire, vars
  <2>2. m \in Message /\ mails[m.about] >= 1
    <3>1. CASE m \in acked
      BY <1>2, <3>1 DEF AckedWasMailed
    <3>2. ASSUME NEW w \in Workers, Ack(w), m = task[w].message
          PROVE  m \in Message /\ mails[m.about] >= 1
      <4>1. m \in Message /\ At(w, "ack")
        BY <3>2 DEF Ack, At, Task
      <4> QED
        BY <1>2, <3>2, <4>1 DEF ToAckMailed, About
    <3> QED
      BY <2>1, <3>1, <3>2
  <2>3. m.about \in Payments \cup Updates
    BY <1>2, <2>2 DEF Promised
  <2> QED
    BY <2>2, <2>3, MailsGrow
<1> QED
  BY <1>4, <1>5, <1>6

LEMMA MailedInvariant == Spec => [](Shaped /\ Mailed)
<1>1. Init => Shaped /\ Mailed
  BY DEF Init, Shaped, TypeOK, Shape, Mailed, KeysMailed, ToAckMailed,
         AckedWasMailed, At
<1>2. Shaped /\ Mailed /\ [Next]_vars => (Shaped /\ Mailed)'
  BY ShapedStep, MailedStep
<1> QED
  BY <1>1, <1>2, PTL DEF Spec

\* No message is given up before its mail was accepted, unless it is a receipt
\* and a worker may die, hang or be one of several, or Redis may lose an answer
\* or refuse to release (ReceiptHandler and StatusUpdatedHandler).
THEOREM AckedWasMailedAlways == Spec => []AckedWasMailed
<1>1. Mailed => AckedWasMailed
  BY DEF Mailed
<1> QED
  BY <1>1, MailedInvariant, PTL

=============================================================================
