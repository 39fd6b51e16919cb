----------------------------- MODULE MCReceipts -----------------------------
EXTENDS Receipts

CONSTANTS p1, u1, w1, w2, s1

\* Two messages about one payment (the webhook published twice), one about a
\* status update, one that names nothing.
Messages ==
    [about : {p1}, copy : {1, 2}] \cup [about : {u1, None}, copy : {1}]

AboutPayment == {m \in Messages : m.about = p1}
AboutUpdate == {m \in Messages : m.about = u1}

Scenario(workers, messages, may) ==
    [workers |-> workers, messages |-> messages, faults |-> may]

\* Two loops that die and hang, and a Redis that refuses, over two messages about
\* one payment; one loop that does neither, with the faults that cost a second receipt; a loop over
\* the status updates.
MailScenarios ==
    {Scenario({w1, w2}, AboutPayment,
              {Crash, LostAck, LostReply, Slow, ReleaseError}),
     Scenario({w1}, Messages \ AboutUpdate, {LostAck, SentError, Expiry}),
     Scenario({s1}, AboutUpdate, {Crash, LostAck, SentError})}

SlowScenario ==
    {Scenario({w1}, Messages \ AboutUpdate, {Slow})}
=============================================================================
