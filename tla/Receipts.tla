------------------------------ MODULE Receipts ------------------------------
(***************************************************************************)
(* The receipt and status workers of the notification service.  A receipt: *)
(* payment.succeeded is fetched from the durable consumer "receipt", the   *)
(* payment is reserved in Redis (SETNX), the receipt is mailed, the        *)
(* reservation is released when the mail failed, and the message is        *)
(* acknowledged when the handler ends without an error.  A status mail:    *)
(* order.status_updated is fetched from "notification-status", mailed      *)
(* without a reservation, acknowledged.  Every arrow is a call to another  *)
(* system.                                                                 *)
(***************************************************************************)
EXTENDS Naturals

CONSTANTS
    Payments,        \* payment ids
    Updates,         \* status updates of orders
    Message,         \* [about, ...], about a payment, an update, or None when
                     \* the message lacks an id or an email address
    ReceiptWorkers,  \* loops over "receipt": more than one while a restart
    StatusWorkers,   \* overlaps; the same for "notification-status"
    Scenarios,       \* which workers run, on which messages, and what may go
                     \* wrong beyond a mail that is cleanly refused
    None

\* The kinds of fault.
Crash == "crash"            \* a worker dies between two calls
LostAck == "lost ack"       \* an acknowledgement is lost or late
LostReply == "lost reply"   \* SETNX is executed, its answer is an error
Slow == "slow send"         \* sending outlives the ten second context
SentError == "sent error"   \* the mail is accepted, then the session fails
ReleaseError == "release error"  \* Redis refuses the DEL of a reservation
Expiry == "expiry"          \* a reservation outlives its TTL

Workers == ReceiptWorkers \cup StatusWorkers

ASSUME ScenariosAssumption ==
    \A c \in Scenarios :
        /\ c.workers \subseteq Workers /\ c.messages \subseteq Message
        /\ c.faults \subseteq {Crash, LostAck, LostReply, Slow, SentError,
                              ReleaseError, Expiry}
ASSUME MessageAssumption ==
    \A m \in Message : m.about \in Payments \cup Updates \cup {None}
ASSUME KindsAssumption ==
    /\ Payments \cap Updates = {}
    /\ ReceiptWorkers \cap StatusWorkers = {}
ASSUME NoneAssumption ==
    None \notin Payments /\ None \notin Updates /\ None \notin Message

VARIABLES
    scenario,
    stream,    \* messages published so far
    fetched,   \* the batch each worker has fetched and not handled yet
    task,      \* the message each worker is handling
    keys,      \* reservations in the DedupeStore
    mails,     \* mails delivered per payment and update; 2 stands for more
    acked      \* messages the consumer has acknowledged

vars == <<scenario, stream, fetched, task, keys, mails, acked>>

\* "late" says that the handler's context has expired.
Task == [message : Message, late : BOOLEAN,
         pc : {"send", "send status", "release", "ack"}]

ASSUME NoTask == None \notin Task

TypeOK ==
    /\ scenario \in Scenarios
    /\ stream \subseteq Message
    /\ fetched \in [Workers -> SUBSET Message]
    /\ task \in [Workers -> Task \cup {None}]
    /\ keys \subseteq Payments
    /\ mails \in [Payments \cup Updates -> 0..2]
    /\ acked \subseteq Message

Init ==
    /\ scenario \in Scenarios
    /\ stream = {}
    /\ fetched = [w \in Workers |-> {}]
    /\ task = [w \in Workers |-> None]
    /\ keys = {}
    /\ mails = [x \in Payments \cup Updates |-> 0]
    /\ acked = {}

At(w, pc) == task[w] # None /\ task[w].pc = pc

About(w) == task[w].message.about

MayFail(fault) == fault \in scenario.faults

\* The payments or the order service publishes.
Published(m) ==
    /\ m \in scenario.messages \ stream
    /\ stream' = stream \cup {m}
    /\ UNCHANGED <<scenario, fetched, task, keys, mails, acked>>

-----------------------------------------------------------------------------
(***************************************************************************)
(* Worker.Run: fetch a batch, handle it in turn.  A message that is not    *)
(* acknowledged in time is delivered again, while an earlier copy may      *)
(* still wait in a batch.                                                  *)
(***************************************************************************)
Consumes(w) ==
    {m \in Message : m.about \in Updates <=> w \in StatusWorkers}

Fetch(w, m) ==
    /\ w \in scenario.workers
    /\ m \in Consumes(w)
    /\ m \in stream \ acked
    /\ m \notin fetched[w]
    /\ fetched' = [fetched EXCEPT ![w] = @ \cup {m}]
    /\ UNCHANGED <<scenario, stream, task, keys, mails, acked>>

Begin(w, m, pc) ==
    /\ task[w] = None
    /\ m \in fetched[w]
    /\ fetched' = [fetched EXCEPT ![w] = @ \ {m}]
    /\ task' = [task EXCEPT ![w] =
                  [message |-> m, pc |-> pc, late |-> FALSE]]

\* No id or no email: nothing to do.
Skip(w, m) ==
    /\ m.about = None
    /\ Begin(w, m, "ack")
    /\ UNCHANGED <<scenario, stream, keys, mails, acked>>

\* Variant of MarkProcessed without the check of the payment id.
MarkProcessedUnchecked(w, m) ==
    /\ m.about \notin Updates
    /\ \/ /\ m.about \notin keys
          /\ keys' = keys \cup {m.about}
          /\ Begin(w, m, "send")
       \/ /\ m.about \in keys
          /\ Begin(w, m, "ack")
          /\ UNCHANGED keys
    /\ UNCHANGED <<scenario, stream, mails, acked>>

\* MarkProcessed: the first caller goes on, the others skip and acknowledge.
MarkProcessed(w, m) ==
    /\ m.about \in Payments
    /\ \/ /\ m.about \notin keys
          /\ keys' = keys \cup {m.about}
          /\ Begin(w, m, "send")
       \/ /\ m.about \in keys
          /\ Begin(w, m, "ack")
          /\ UNCHANGED keys
    /\ UNCHANGED <<scenario, stream, mails, acked>>

\* Variant of MarkProcessedFails that releases the key to be on the safe side.
MarkProcessedFailsReleasing(w, m) ==
    /\ m.about \in Payments
    /\ task[w] = None
    /\ m \in fetched[w]
    /\ fetched' = [fetched EXCEPT ![w] = @ \ {m}]
    /\ keys' = keys \ {m.about}
    /\ UNCHANGED <<scenario, stream, task, mails, acked>>

\* MarkProcessed returns an error: the handler ends without an acknowledgement.
MarkProcessedFails(w, m) ==
    /\ m.about \in Payments
    /\ task[w] = None
    /\ m \in fetched[w]
    /\ fetched' = [fetched EXCEPT ![w] = @ \ {m}]
    /\ \/ UNCHANGED keys
       \/ MayFail(LostReply) /\ keys' = keys \cup {m.about}
    /\ UNCHANGED <<scenario, stream, task, mails, acked>>

Delivered(p) == [mails EXCEPT ![p] = IF @ = 2 THEN 2 ELSE @ + 1]

\* Variant of SendReceipt that treats the reservation as a lock.
SendReceiptUnlocking(w) ==
    /\ At(w, "send")
    /\ mails' = Delivered(About(w))
    /\ keys' = keys \ {About(w)}
    /\ task' = [task EXCEPT ![w].pc = "ack"]
    /\ UNCHANGED <<scenario, stream, fetched, acked>>

\* The items are fetched (an error there only leaves them out) and the mail is
\* accepted.
SendReceipt(w) ==
    /\ At(w, "send")
    /\ mails' = Delivered(About(w))
    /\ task' = [task EXCEPT ![w].pc = "ack"]
    /\ UNCHANGED <<scenario, stream, fetched, keys, acked>>

\* Variant of SendReceiptFails that logs the error and goes on.
SendReceiptFailsLogged(w) ==
    /\ At(w, "send")
    /\ task' = [task EXCEPT ![w].pc = "ack"]
    /\ UNCHANGED <<scenario, stream, fetched, keys, mails, acked>>

SendReceiptFails(w) ==
    /\ At(w, "send")
    /\ \/ UNCHANGED mails
       \/ MayFail(SentError) /\ mails' = Delivered(About(w))
    /\ \E late \in {FALSE} \cup (IF MayFail(Slow) THEN {TRUE} ELSE {}) :
         task' = [task EXCEPT ![w].pc = "release", ![w].late = late]
    /\ UNCHANGED <<scenario, stream, fetched, keys, acked>>

\* Variant of Release that forgets to.
NoRelease(w) ==
    /\ At(w, "release")
    /\ task' = [task EXCEPT ![w] = None]
    /\ UNCHANGED <<scenario, stream, fetched, keys, mails, acked>>

\* Release deletes the reservation under the context the handler started with.
\* When that has expired, or Redis refuses, the error is only logged and the
\* reservation stays; either way the handler returns the error of the mail.
Release(w) ==
    /\ At(w, "release")
    /\ \/ ~task[w].late /\ keys' = keys \ {About(w)}
       \/ (task[w].late \/ MayFail(ReleaseError)) /\ UNCHANGED keys
    /\ task' = [task EXCEPT ![w] = None]
    /\ UNCHANGED <<scenario, stream, fetched, mails, acked>>

-----------------------------------------------------------------------------
(***************************************************************************)
(* StatusUpdatedHandler: no reservation, no release.                       *)
(***************************************************************************)
StatusUpdated(w, m) ==
    /\ m.about \in Updates
    /\ Begin(w, m, "send status")
    /\ UNCHANGED <<scenario, stream, keys, mails, acked>>

SendOrderStatus(w) ==
    /\ At(w, "send status")
    /\ mails' = Delivered(About(w))
    /\ task' = [task EXCEPT ![w].pc = "ack"]
    /\ UNCHANGED <<scenario, stream, fetched, keys, acked>>

SendOrderStatusFails(w) ==
    /\ At(w, "send status")
    /\ \/ UNCHANGED mails
       \/ MayFail(SentError) /\ mails' = Delivered(About(w))
    /\ task' = [task EXCEPT ![w] = None]
    /\ UNCHANGED <<scenario, stream, fetched, keys, acked>>

-----------------------------------------------------------------------------
Ack(w) ==
    /\ At(w, "ack")
    /\ acked' = acked \cup {task[w].message}
    /\ task' = [task EXCEPT ![w] = None]
    /\ UNCHANGED <<scenario, stream, fetched, keys, mails>>

AckLost(w) ==
    /\ MayFail(LostAck)
    /\ At(w, "ack")
    /\ task' = [task EXCEPT ![w] = None]
    /\ UNCHANGED <<scenario, stream, fetched, keys, mails, acked>>

\* The process dies and starts again with nothing in hand.
CrashRestart(w) ==
    /\ MayFail(Crash)
    /\ task' = [task EXCEPT ![w] = None]
    /\ fetched' = [fetched EXCEPT ![w] = {}]
    /\ UNCHANGED <<scenario, stream, keys, mails, acked>>

Expire(p) ==
    /\ MayFail(Expiry)
    /\ p \in keys
    /\ keys' = keys \ {p}
    /\ UNCHANGED <<scenario, stream, fetched, task, mails, acked>>

-----------------------------------------------------------------------------
Handle(w, m) == Skip(w, m) \/ MarkProcessed(w, m) \/ StatusUpdated(w, m)

Worker(w) ==
    \/ \E m \in Message :
         \/ Fetch(w, m)
         \/ Handle(w, m)
         \/ MarkProcessedFails(w, m)
    \/ SendReceipt(w)
    \/ SendReceiptFails(w)
    \/ Release(w)
    \/ SendOrderStatus(w)
    \/ SendOrderStatusFails(w)
    \/ Ack(w)
    \/ AckLost(w)
    \/ CrashRestart(w)

Next ==
    \/ \E m \in Message : Published(m)
    \/ \E w \in Workers : Worker(w)
    \/ \E p \in Payments : Expire(p)

Spec == Init /\ [][Next]_vars

(***************************************************************************)
(* The loop goes on, JetStream delivers an unacknowledged message for ever *)
(* and Redis and the mail server do not refuse one message every time.     *)
(***************************************************************************)
Sends(w) == SendReceipt(w) \/ SendOrderStatus(w)

Fails(w) == SendReceiptFails(w) \/ SendOrderStatusFails(w)

Fairness ==
    /\ \A w \in Workers : WF_vars(Sends(w) \/ Fails(w) \/ Release(w) \/ Ack(w))
    /\ \A m \in Message :
         /\ WF_vars(\E w \in Workers : Fetch(w, m))
         /\ SF_vars(\E w \in Workers : Handle(w, m))
         /\ SF_vars(\E w \in Workers :
                      task[w] # None /\ task[w].message = m /\ Sends(w))

FairSpec == Spec /\ Fairness

-----------------------------------------------------------------------------
\* "repeated webhooks or NATS redeliveries never produce a second receipt":
\* whatever the number of messages about a payment, of deliveries of each and
\* of workers, one receipt at most is mailed for it, as long as a send that
\* reports an error sent nothing and no reservation expires.
AtMostOneReceipt ==
    ~MayFail(SentError) /\ ~MayFail(Expiry)
    => \A p \in Payments : mails[p] <= 1

\* A payment has one reservation and, while a worker holds it, nobody else is
\* mailing its receipt and none has been mailed before (with the same two
\* exceptions).
SendingIsFirst ==
    ~MayFail(SentError) /\ ~MayFail(Expiry)
    => \A w \in Workers : At(w, "send") =>
          /\ About(w) \in keys
          /\ mails[About(w)] = 0
          /\ \A v \in Workers \ {w} :
               At(v, "send") \/ At(v, "release") => About(v) # About(w)

\* Receipts can be promised only while no reservation is left behind without a
\* mail (no worker dies or hangs holding one, no answer of SETNX is lost, Redis
\* refuses no DEL) and no second worker takes the message of a slow one for a
\* duplicate.
Calm ==
    /\ scenario.faults \cap {Crash, LostReply, Slow, ReleaseError} = {}
    /\ \A v, w \in scenario.workers : v = w

Promised(m) == m.about \in Updates \/ (m.about \in Payments /\ Calm)

\* "a failed delivery can be retried on the next message redelivery": a message
\* is given up (acknowledged) only when its mail was accepted.  Of receipts this
\* is so only in a Calm scenario; EveryAckedWasMailed says it of all.
AckedWasMailed ==
    \A m \in acked : Promised(m) => mails[m.about] >= 1

\* Every receipt and every status mail is sent in the end, across refused
\* mails, lost acknowledgements and, for status mails, dying workers.
MailArrives ==
    \A m \in {n \in Message : n.about # None} :
        m \in stream /\ Promised(m) ~> mails[m.about] >= 1

\* What the comment on Release says of every receipt: "a failed delivery can be
\* retried on the next message redelivery".
EveryAckedWasMailed ==
    \A m \in acked : m.about # None => mails[m.about] >= 1

=============================================================================
