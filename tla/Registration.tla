---------------------------- MODULE Registration ----------------------------
(***************************************************************************)
(* What follows from a registration: the profile worker creates a profile, *)
(* the welcome worker mails the link that verifies the email, and the user *)
(* edits the one and follows the other.  Both workers consume the USERS    *)
(* stream, which redelivers a message until it is acknowledged.            *)
(***************************************************************************)
EXTENDS Auth

VARIABLES
    profiles,  \* the profiles table: as registered, or edited since
    mailed,    \* users who were sent the link
    inHand,    \* messages a worker has handled and not yet acknowledged
    acked      \* messages each consumer has acknowledged

regVars == <<profiles, mailed, inHand, acked>>
vars == <<authVars, regVars>>

Deliveries == {"profile", "notification-welcome"} \X Users

TypeOK ==
    /\ AuthTypeOK
    /\ profiles \in [Users -> {"registered", "edited", None}]
    /\ mailed \subseteq Users
    /\ inHand \subseteq Deliveries
    /\ acked \subseteq Deliveries

Init ==
    /\ AuthInit
    /\ profiles = [u \in Users |-> None]
    /\ mailed = {}
    /\ inHand = {}
    /\ acked = {}

Delivered(d) == d[2] \in registered /\ d \notin acked

-----------------------------------------------------------------------------
\* Variant of CreateProfile that accepts a redelivered message.
UpsertProfile(u) ==
    /\ Delivered(<<"profile", u>>)
    /\ profiles' = [profiles EXCEPT ![u] = "registered"]
    /\ inHand' = inHand \cup {<<"profile", u>>}
    /\ UNCHANGED <<authVars, mailed, acked>>

\* INSERT INTO profiles.  The unique index on user_id refuses a second one: that
\* handler fails, changes nothing and acknowledges nothing.
CreateProfile(u) ==
    /\ Delivered(<<"profile", u>>)
    /\ profiles[u] = None
    /\ profiles' = [profiles EXCEPT ![u] = "registered"]
    /\ inHand' = inHand \cup {<<"profile", u>>}
    /\ UNCHANGED <<authVars, mailed, acked>>

\* The mail with the link; nothing remembers that it was sent before.
SendWelcome(u) ==
    LET d == <<"notification-welcome", u>> IN
    /\ Delivered(d)
    /\ mailed' = mailed \cup {u}
    /\ inHand' = inHand \cup {d}
    /\ UNCHANGED <<authVars, profiles, acked>>

Ack(d) ==
    /\ d \in inHand
    /\ acked' = acked \cup {d}
    /\ inHand' = inHand \ {d}
    /\ UNCHANGED <<authVars, profiles, mailed>>

\* The acknowledgement is lost, or the worker dies before it.
AckLost(d) ==
    /\ d \in inHand
    /\ inHand' = inHand \ {d}
    /\ UNCHANGED <<authVars, profiles, mailed, acked>>

\* UPDATE profiles WHERE user_id = ?, not found before there is one.
UpdateProfile(u) ==
    /\ profiles[u] # None
    /\ profiles' = [profiles EXCEPT ![u] = "edited"]
    /\ UNCHANGED <<authVars, mailed, inHand, acked>>

Service(r) ==
    \/ \E u \in Users :
         \/ CreateUser(r, u)
         \/ Login(r, u)
         \/ u \in mailed /\ GetEmailToken(r, u)
    \/ SaveEmailToken(r) \/ PublishUserRegistered(r) \/ PublishUnanswered(r)
    \/ CreateAuthSession(r)
    \/ \E t, s \in Tokens : Refresh(r, t, s)
    \/ UpdateAuthSession(r)
    \/ DelEmailToken(r) \/ VerifyUser(r)
    \/ Fail(r)

Workers ==
    \/ \E u \in Users : CreateProfile(u) \/ SendWelcome(u)
    \/ \E d \in Deliveries : Ack(d) \/ AckLost(d)

Next ==
    \/ \E r \in Requests : Service(r) /\ UNCHANGED regVars
    \/ \E u \in Users : ExpireEmailToken(u) /\ UNCHANGED regVars
    \/ Workers
    \/ \E u \in Users : UpdateProfile(u)

\* A message that is not acknowledged is delivered again and again, and neither
\* the database nor the mail server refuses every attempt.
Spec ==
    /\ Init /\ [][Next]_vars
    /\ \A u \in Users : SF_vars(CreateProfile(u)) /\ SF_vars(SendWelcome(u))

-----------------------------------------------------------------------------
\* Nobody gets a profile, a mail or a session who is not in the users table,
\* although three services write these things.
OnlyForUsers ==
    \A u \in Users : (\/ profiles[u] # None
                      \/ u \in mailed
                      \/ \E t \in Tokens : sessions[t] # None
                                           /\ sessions[t].user = u)
                     => users[u] # None

\* The link in a mail works until it is used or expires: the token is in Redis
\* before the event that causes the mail is in the stream.
LinkWorks == \A u \in mailed \ spent : u \in verifyKeys

\* Whose email is verified has followed the mailed link, and a link that a click
\* has deleted, or that has expired, lets in no click that comes later (GET, DEL
\* and UPDATE of VerifyEmail).  This is less than "can be used only once" (the
\* mail, notification mailer.go:109): clicks that all read the token before the
\* first of them deletes it are all accepted.
UsedLinkIsDead ==
    /\ \A u \in Users : users[u] = "active" => u \in mailed \cap spent
    /\ spent \cap verifyKeys = {}

\* Rotation: a refresh token that has been replaced never works again, in
\* whatever order concurrent refreshes of its session end or fail.
ReplacedStaysDead ==
    [][\A t \in known : ~IsLive(t) => ~IsLive(t)']_vars

\* What a user has changed in the profile is never overwritten by a late or
\* repeated user.registered message.
EditsSurvive ==
    [][\A u \in Users : profiles[u] = "edited" => profiles'[u] = "edited"]_vars

\* Whoever was told "registered" gets a profile and the mail in the end.
RegisteredIsServed ==
    \A u \in Users : u \in welcomed ~> profiles[u] # None /\ u \in mailed
=============================================================================
