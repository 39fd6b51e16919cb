------------------------- MODULE RegistrationProofs -------------------------
(***************************************************************************)
(* Theorems about registration, for any number of users, requests and      *)
(* refresh tokens.                                                         *)
(***************************************************************************)
EXTENDS Registration, TLAPS

\* The next refresh token is one.
LEMMA NextToken ==
    ASSUME NEW i \in 0..MaxTokens, i < MaxTokens
    PROVE  i + 1 \in Tokens /\ i + 1 \in 0..MaxTokens
  BY TokensAssumption DEF Tokens

\* A step of the auth service keeps its variables in their types.
LEMMA ServiceTypeOK ==
    ASSUME AuthTypeOK, NEW r \in Requests, Service(r)
    PROVE  AuthTypeOK'
<1> USE DEF AuthTypeOK, Session, Request
<1>1. request[r] # None =>
        /\ request[r] \in Request
        /\ request[r].user \in Users
        /\ \A pc \in {"save token", "publish", "create session",
                      "update session", "del", "verify"} :
             [request[r] EXCEPT !.pc = pc] \in Request
  OBVIOUS
<1>2. Return(r) => request' \in [Requests -> Request \cup {None}]
  BY DEF Return
<1>3. ASSUME NEW s, NEW u \in Users, Hand(r, s, u)
      PROVE  /\ sessions' \in [Tokens -> Session \cup {None}]
             /\ issued' \in 0..MaxTokens
             /\ known' \subseteq Tokens
             /\ request' \in [Requests -> Request \cup {None}]
  <2>1. issued \in 0..MaxTokens /\ issued < MaxTokens /\ issued' = issued + 1
    BY <1>3 DEF Hand
  <2>2. issued' \in Tokens /\ issued' \in 0..MaxTokens
    BY <2>1, NextToken
  <2>3. [user |-> u, token |-> issued'] \in Session
    BY <2>2
  <2> QED
    BY <1>2, <1>3, <2>2, <2>3 DEF Hand
<1>4. ASSUME NEW op, NEW pc, NEW u, NEW s, NEW t, Begin(r, op, pc, u, s, t),
             [op |-> op, pc |-> pc, user |-> u, session |-> s, token |-> t]
               \in Request
      PROVE  request' \in [Requests -> Request \cup {None}]
  BY <1>4 DEF Begin
<1>5. ASSUME NEW u \in Users,
             CreateUser(r, u) \/ Login(r, u) \/ GetEmailToken(r, u)
      PROVE  AuthTypeOK'
  <2>1. CASE CreateUser(r, u)
    BY <1>4, <2>1 DEF CreateUser
  <2>2. CASE Login(r, u)
    BY <1>4, <2>2 DEF Login
  <2>3. CASE GetEmailToken(r, u)
    BY <1>4, <2>3 DEF GetEmailToken
  <2> QED
    BY <1>5, <2>1, <2>2, <2>3
<1>6. ASSUME NEW pc \in {"save token", "publish", "create session",
                           "update session", "del", "verify"},
              request[r] # None, Goto(r, pc)
       PROVE  request' \in [Requests -> Request \cup {None}]
  BY <1>1, <1>6 DEF Goto
<1>7. CASE SaveEmailToken(r)
  BY <1>1, <1>6, <1>7 DEF SaveEmailToken, At
<1>8. CASE PublishUserRegistered(r) \/ PublishUnanswered(r)
  BY ZenonT(40), <1>1, <1>2, <1>6, <1>8 DEF PublishUserRegistered, PublishUnanswered, At
<1>9. CASE CreateAuthSession(r)
  <2>1. request[r].user \in Users /\ Hand(r, issued + 1, request[r].user)
    BY <1>1, <1>9 DEF CreateAuthSession, At
  <2> QED
    BY <1>3, <1>9, <2>1 DEF CreateAuthSession
<1>10. ASSUME NEW t \in Tokens, NEW s \in Tokens, Refresh(r, t, s)
      PROVE  AuthTypeOK'
  <2>1. sessions[s].user \in Users
    BY <1>10 DEF Refresh, Opens
  <2> QED
    BY <1>4, <1>10, <2>1 DEF Refresh
<1>11. CASE UpdateAuthSession(r)
  <2>1. /\ request[r].user \in Users
        /\ Hand(r, request[r].session, request[r].user)
    BY <1>1, <1>11 DEF UpdateAuthSession, At
  <2> QED
    BY <1>3, <1>11, <2>1 DEF UpdateAuthSession
<1>12. CASE DelEmailToken(r)
  BY ZenonT(40), <1>1, <1>12, <1>6 DEF DelEmailToken, At
<1>13. CASE VerifyUser(r) \/ Fail(r)
  BY ZenonT(40), <1>1, <1>2, <1>13 DEF VerifyUser, Fail, At
<1> QED
  BY <1>5, <1>9, <1>10, <1>11, <1>12, <1>7, <1>8, <1>13 DEF Service

LEMMA TypeOKStep == TypeOK /\ [Next]_vars => TypeOK'
<1> SUFFICES ASSUME TypeOK, [Next]_vars PROVE TypeOK'
  OBVIOUS
<1> USE DEF TypeOK, Deliveries
<1>1. ASSUME NEW r \in Requests, Service(r), UNCHANGED regVars PROVE TypeOK'
  BY <1>1, ServiceTypeOK DEF regVars
<1>2. ASSUME NEW u \in Users, ExpireEmailToken(u), UNCHANGED regVars
      PROVE  TypeOK'
  BY <1>2 DEF ExpireEmailToken, regVars, AuthTypeOK
<1>3. ASSUME NEW u \in Users,
             CreateProfile(u) \/ SendWelcome(u) \/ UpdateProfile(u)
      PROVE  TypeOK'
  BY <1>3 DEF CreateProfile, SendWelcome, UpdateProfile, authVars, AuthTypeOK
<1>4. ASSUME NEW d \in Deliveries, Ack(d) \/ AckLost(d) PROVE TypeOK'
  BY <1>4 DEF Ack, AckLost, authVars, AuthTypeOK
<1>5. CASE UNCHANGED vars
  BY <1>5 DEF vars, authVars, regVars, AuthTypeOK
<1> QED
  BY <1>1, <1>2, <1>3, <1>4, <1>5 DEF Next, Workers

\* Every reachable state of the auth service and of the two consumers of its
\* events is well typed.
THEOREM TypeCorrect == Spec => []TypeOK
<1>1. Init => TypeOK
  BY TokensAssumption DEF Init, AuthInit, TypeOK, AuthTypeOK
<1> QED
  BY <1>1, TypeOKStep, PTL DEF Spec

-----------------------------------------------------------------------------
(***************************************************************************)
(* Everyone who is in a request, a session, the stream or a mailbox is in  *)
(* the users table, and the workers act only on what was published.        *)
(***************************************************************************)
Existing ==
    /\ \A r \in Requests : request[r] # None => users[request[r].user] # None
    /\ \A u \in registered \cup verifyKeys \cup spent : users[u] # None
    /\ \A t \in Tokens : sessions[t] # None => users[sessions[t].user] # None
    /\ mailed \subseteq registered
    /\ \A u \in Users : profiles[u] # None => u \in registered

ExistingInv == TypeOK /\ Existing

\* A request that goes on, or ends, is still about the same user.
LEMMA SameUser ==
    ASSUME TypeOK, NEW r \in Requests,
           request[r] # None, Return(r) \/ \E pc : Goto(r, pc)
    PROVE  \A q \in Requests : request'[q] # None =>
             /\ request[q] # None
             /\ request[q].user \in Users
             /\ request'[q].user = request[q].user
<1>1. /\ request \in [Requests -> Request \cup {None}]
      /\ request[r] \in Request
      /\ \A q \in Requests : request[q] # None => request[q].user \in Users
  BY DEF TypeOK, AuthTypeOK, Request
<1>2. CASE Return(r)
  BY <1>1, <1>2 DEF Return
<1>3. ASSUME NEW pc, Goto(r, pc)
      PROVE  \A q \in Requests : request'[q].user = request[q].user
  <2>1. request' = [request EXCEPT ![r] = [request[r] EXCEPT !.pc = pc]]
    BY <1>3 DEF Goto
  <2>2. [request[r] EXCEPT !.pc = pc].user = request[r].user
    BY <1>1 DEF Request
  <2> QED
    BY <1>1, <2>1, <2>2
<1>4. ASSUME NEW pc, Goto(r, pc)
      PROVE  \A q \in Requests : request'[q] # None => request[q] # None
  BY <1>1, <1>4 DEF Goto
<1> QED
  BY <1>1, <1>2, <1>3, <1>4

\* What a new session changes.
LEMMA SessionsAfter ==
    ASSUME TypeOK, NEW r \in Requests, NEW s, NEW u \in Users, Hand(r, s, u)
    PROVE  /\ \A t \in Tokens : sessions'[t] # None =>
                \/ sessions[t] # None /\ sessions'[t] = sessions[t]
                \/ t = s /\ sessions'[t].user = u /\ sessions'[t].token = issued + 1
           /\ issued' = issued + 1
           /\ known' \subseteq known \cup {issued + 1}
           /\ Return(r)
  BY DEF Hand, TypeOK, AuthTypeOK

LEMMA ExistingStep == ExistingInv /\ [Next]_vars => Existing'
<1> SUFFICES ASSUME TypeOK, Existing, [Next]_vars PROVE Existing'
  BY DEF ExistingInv
<1>1. ASSUME NEW r \in Requests, Service(r), UNCHANGED regVars
      PROVE  Existing'
  <2>1. /\ request \in [Requests -> Request \cup {None}]
        /\ users \in [Users -> {"pending", "active", None}]
        /\ sessions \in [Tokens -> Session \cup {None}]
        /\ registered \subseteq Users /\ verifyKeys \subseteq Users
        /\ spent \subseteq Users
        /\ request[r] # None => request[r].user \in Users
        /\ \A t \in Tokens : sessions[t] # None => sessions[t].user \in Users
    BY DEF TypeOK, AuthTypeOK, Request, Session
  <2>2. ASSUME NEW u \in Users, CreateUser(r, u) PROVE Existing'
    <3>1. \A v \in Users : users[v] # None => users'[v] # None
      BY <2>1, <2>2 DEF CreateUser
    <3>2. users'[u] # None
      BY <2>1, <2>2, NoneAssumption DEF CreateUser
    <3>3. \A q \in Requests : request'[q] # None =>
            users'[request'[q].user] # None
      BY <2>1, <2>2, <3>1, <3>2 DEF CreateUser, Begin, Existing, Request
    <3> QED
      BY <1>1, <2>1, <2>2, <3>1, <3>3 DEF CreateUser, regVars, Existing
  <2>3. ASSUME NEW u \in Users, Login(r, u) \/ GetEmailToken(r, u)
        PROVE  Existing'
    <3>1. users[u] # None /\ \E op, pc : Begin(r, op, pc, u, None, None)
      BY <2>3 DEF Login, GetEmailToken, Existing
    <3>2. \A q \in Requests : request'[q] # None =>
            users[request'[q].user] # None
      BY <2>1, <3>1 DEF Begin, Existing
    <3> QED
      BY <1>1, <2>3, <3>2 DEF Login, GetEmailToken, regVars, Existing
  <2>4. ASSUME NEW t \in Tokens, NEW s \in Tokens, Refresh(r, t, s)
        PROVE  Existing'
    <3>1. sessions[s] # None /\ users[sessions[s].user] # None
      BY <2>4 DEF Refresh, Opens, Existing
    <3>2. \A q \in Requests : request'[q] # None =>
            users[request'[q].user] # None
      BY <2>1, <2>4, <3>1 DEF Refresh, Begin, Existing
    <3> QED
      BY <1>1, <2>4, <3>2 DEF Refresh, regVars, Existing
  <2>5. CASE \/ SaveEmailToken(r) \/ PublishUserRegistered(r)
             \/ PublishUnanswered(r) \/ DelEmailToken(r) \/ Fail(r)
    <3>1. request[r] # None /\ (Return(r) \/ \E pc : Goto(r, pc))
      BY <2>5 DEF SaveEmailToken, PublishUserRegistered, PublishUnanswered,
                  DelEmailToken, Fail, At
    <3>2. \A q \in Requests : request'[q] # None =>
             /\ request[q] # None
             /\ request'[q].user = request[q].user
      BY <3>1, SameUser
    <3>3. /\ UNCHANGED <<users, sessions>>
          /\ registered \subseteq registered'
          /\ registered' \subseteq registered \cup {request[r].user}
          /\ verifyKeys' \cup spent'
               \subseteq verifyKeys \cup spent \cup {request[r].user}
      BY <2>5 DEF SaveEmailToken, PublishUserRegistered, PublishUnanswered,
                  DelEmailToken, Fail
    <3> QED
      BY <1>1, <3>1, <3>2, <3>3 DEF regVars, Existing
  <2>6. CASE VerifyUser(r)
    <3>1. /\ request[r] # None
          /\ \A q \in Requests : request'[q] # None =>
               /\ request[q] # None
               /\ request[q].user \in Users
               /\ request'[q].user = request[q].user
      BY <2>6, SameUser DEF VerifyUser, At
    <3>2. \A v \in Users : users[v] # None => users'[v] # None
      BY <2>1, <2>6, NoneAssumption DEF VerifyUser
    <3>3. UNCHANGED <<verifyKeys, sessions, registered, spent>>
      BY <2>6 DEF VerifyUser
    <3> QED
      BY <1>1, <2>1, <3>1, <3>2, <3>3 DEF regVars, Existing
  <2>7. CASE CreateAuthSession(r) \/ UpdateAuthSession(r)
    <3>1. /\ request[r] # None
          /\ \E s : Hand(r, s, request[r].user)
          /\ UNCHANGED <<users, verifyKeys, registered, spent>>
      BY <2>7 DEF CreateAuthSession, UpdateAuthSession, At
    <3>2. PICK s : Hand(r, s, request[r].user)
      BY <3>1
    <3>3. \A q \in Requests : request'[q] # None =>
             /\ request[q] # None
             /\ request'[q].user = request[q].user
      BY <2>1, <3>1, <3>2, SessionsAfter, SameUser
    <3>4. \A t \in Tokens : sessions'[t] # None =>
             \/ sessions[t] # None /\ sessions'[t].user = sessions[t].user
             \/ sessions'[t].user = request[r].user
      BY <2>1, <3>1, <3>2, SessionsAfter
    <3> QED
      BY <1>1, <3>1, <3>3, <3>4 DEF regVars, Existing
  <2> QED
    BY <1>1, <2>2, <2>3, <2>4, <2>5, <2>6, <2>7 DEF Service
<1>2. ASSUME NEW u \in Users, ExpireEmailToken(u), UNCHANGED regVars
      PROVE  Existing'
  BY <1>2 DEF ExpireEmailToken, regVars, Existing
<1>3. ASSUME NEW u \in Users, CreateProfile(u) PROVE Existing'
  BY <1>3 DEF CreateProfile, Delivered, authVars, Existing, TypeOK
<1>4. ASSUME NEW u \in Users, SendWelcome(u) PROVE Existing'
  BY <1>4 DEF SendWelcome, Delivered, authVars, Existing
<1>5. ASSUME NEW u \in Users, UpdateProfile(u) PROVE Existing'
  BY <1>5 DEF UpdateProfile, authVars, Existing, TypeOK
<1>6. ASSUME NEW d \in Deliveries, Ack(d) \/ AckLost(d) PROVE Existing'
  BY <1>6 DEF Ack, AckLost, authVars, Existing
<1>7. CASE UNCHANGED vars
  BY <1>7 DEF vars, authVars, regVars, Existing
<1> QED
  BY <1>1, <1>2, <1>3, <1>4, <1>5, <1>6, <1>7 DEF Next, Workers

\* Nobody gets a profile, a mail or a session who is not in the users table
\* (auth Register commits the user before anything else).
THEOREM OnlyForUsersAlways == Spec => []OnlyForUsers
<1>1. Init => ExistingInv
  <2>1. Init => TypeOK
    BY TokensAssumption DEF Init, AuthInit, TypeOK, AuthTypeOK
  <2> QED
    BY <2>1 DEF Init, AuthInit, ExistingInv, Existing
<1>2. ExistingInv /\ [Next]_vars => ExistingInv'
  BY TypeOKStep, ExistingStep DEF ExistingInv
<1>3. ExistingInv => OnlyForUsers
  BY DEF ExistingInv, Existing, OnlyForUsers, TypeOK, AuthTypeOK
<1> QED
  BY <1>1, <1>2, <1>3, PTL DEF Spec

-----------------------------------------------------------------------------
(***************************************************************************)
(* A verification token is saved once, before the event that causes the    *)
(* mail, and deleted before the user becomes active.                       *)
(***************************************************************************)
KeysOnce ==
    /\ \A u \in verifyKeys : u \notin spent
    /\ \A r \in Requests : At(r, "save token") =>
         request[r].user \notin verifyKeys \cup spent
    /\ \A r, q \in Requests : /\ At(r, "save token") /\ At(q, "save token")
                              /\ request[r].user = request[q].user
                              => r = q

KeysSaved ==
    /\ \A r \in Requests : At(r, "publish") =>
         request[r].user \in verifyKeys \cup spent
    /\ registered \subseteq verifyKeys \cup spent

Followed ==
    /\ \A r \in Requests : At(r, "del") => request[r].user \in mailed
    /\ \A r \in Requests : At(r, "verify") =>
         request[r].user \in mailed \cap spent
    /\ \A u \in Users : users[u] = "active" => u \in mailed \cap spent

Links == KeysOnce /\ KeysSaved /\ Followed

LinksInv == ExistingInv /\ Links

\* Where the requests are after one of them has moved.
LEMMA Returned ==
    ASSUME TypeOK, NEW r \in Requests, Return(r)
    PROVE  \A q \in Requests : request'[q] # None =>
             q # r /\ request'[q] = request[q]
  BY DEF Return, TypeOK, AuthTypeOK

LEMMA Gone ==
    ASSUME TypeOK, NEW r \in Requests, request[r] # None, NEW pc, Goto(r, pc)
    PROVE  /\ \A q \in Requests \ {r} : request'[q] = request[q]
           /\ request'[r].pc = pc /\ request'[r].user = request[r].user
<1>1. /\ request \in [Requests -> Request \cup {None}]
      /\ request[r] \in Request
  BY DEF TypeOK, AuthTypeOK
<1>2. request' = [request EXCEPT ![r] = [request[r] EXCEPT !.pc = pc]]
  BY DEF Goto
<1>3. /\ [request[r] EXCEPT !.pc = pc].user = request[r].user
      /\ [request[r] EXCEPT !.pc = pc].pc = pc
  BY <1>1 DEF Request
<1> QED
  BY <1>1, <1>2, <1>3

LEMMA Begun ==
    ASSUME TypeOK, NEW r \in Requests, NEW op, NEW pc, NEW u, NEW s, NEW t,
           Begin(r, op, pc, u, s, t)
    PROVE  /\ \A q \in Requests \ {r} : request'[q] = request[q]
           /\ request'[r].pc = pc /\ request'[r].user = u
  BY DEF Begin, TypeOK, AuthTypeOK

\* A step that saves no key and ends no expectation of one.
LEMMA KeysOnceKept ==
    ASSUME KeysOnce, UNCHANGED <<verifyKeys, spent>>,
           \A q \in Requests : At(q, "save token")' =>
             At(q, "save token") /\ request'[q] = request[q]
    PROVE  KeysOnce'
  BY DEF KeysOnce

LEMMA LinksStep == LinksInv /\ [Next]_vars => Links'
<1> SUFFICES ASSUME TypeOK, Existing, Links, [Next]_vars PROVE Links'
  BY DEF LinksInv, ExistingInv
<1>1. ASSUME NEW r \in Requests, Service(r), UNCHANGED regVars PROVE Links'
  <2>1. /\ users \in [Users -> {"pending", "active", None}]
        /\ registered \subseteq Users /\ verifyKeys \subseteq Users
        /\ spent \subseteq Users
        /\ \A q \in Requests : request[q] # None => request[q].user \in Users
        /\ mailed' = mailed
    BY <1>1 DEF TypeOK, AuthTypeOK, Request, regVars
  <2>2. ASSUME NEW u \in Users, CreateUser(r, u) PROVE Links'
    <3>1. /\ Begin(r, "register", "save token", u, None, None)
          /\ UNCHANGED <<verifyKeys, registered, spent>>
      BY <2>2 DEF CreateUser
    <3>2. /\ \A q \in Requests \ {r} : request'[q] = request[q]
          /\ request'[r].pc = "save token" /\ request'[r].user = u
      BY <3>1 DEF Begin, TypeOK, AuthTypeOK
    <3>3. /\ u \notin verifyKeys \cup spent
          /\ \A q \in Requests : request[q] # None => request[q].user # u
      BY <2>2 DEF CreateUser, Existing
    <3>4. \A v \in Users : users'[v] = "active" => users[v] = "active"
      BY <2>1, <2>2 DEF CreateUser
    <3>5. KeysOnce'
      <4>1. \A q \in Requests \ {r} : At(q, "save token")' =>
              /\ At(q, "save token") /\ request'[q].user = request[q].user
              /\ request'[q].user # request'[r].user
        BY <3>2, <3>3 DEF At
      <4>2. request'[r].user \notin verifyKeys \cup spent
        BY <3>2, <3>3
      <4> QED
        BY <3>1, <4>1, <4>2 DEF Links, KeysOnce
    <3>6. KeysSaved'
      BY <2>1, <2>2, <3>2, <3>3, <3>4 DEF CreateUser, Links, KeysSaved, At
    <3>7. Followed'
      BY <2>1, <2>2, <3>2, <3>3, <3>4 DEF CreateUser, Links, Followed, At
    <3> QED
      BY <3>5, <3>6, <3>7 DEF Links
  <2>3. ASSUME NEW u \in Users, Login(r, u) PROVE Links'
    <3>1. /\ \A q \in Requests \ {r} : request'[q] = request[q]
          /\ request'[r].pc = "create session"
      BY <2>3, Begun DEF Login
    <3>2. KeysOnce'
      <4>1. \A q \in Requests : At(q, "save token")' =>
              At(q, "save token") /\ request'[q] = request[q]
        BY <3>1 DEF At
      <4> QED
        BY <2>3, <4>1, KeysOnceKept DEF Login, Links
    <3>3. KeysSaved' /\ Followed'
      BY <2>1, <2>3, <3>1 DEF Login, Links, KeysSaved, Followed, At
    <3> QED
      BY <3>2, <3>3 DEF Links
  <2>4. ASSUME NEW u \in mailed, GetEmailToken(r, u) PROVE Links'
    <3>1. /\ \A q \in Requests \ {r} : request'[q] = request[q]
          /\ request'[r].pc = "del" /\ request'[r].user = u
      BY <2>4, Begun DEF GetEmailToken
    <3>2. KeysOnce'
      <4>1. \A q \in Requests : At(q, "save token")' =>
              At(q, "save token") /\ request'[q] = request[q]
        BY <3>1 DEF At
      <4> QED
        BY <2>4, <4>1, KeysOnceKept DEF GetEmailToken, Links
    <3>3. KeysSaved'
      BY <2>1, <2>4, <3>1 DEF GetEmailToken, Links, KeysSaved, At
    <3>4. Followed'
      BY <2>1, <2>4, <3>1 DEF GetEmailToken, Links, Followed, At
    <3> QED
      BY <3>2, <3>3, <3>4 DEF Links
  <2>5. ASSUME NEW t \in Tokens, NEW s \in Tokens, Refresh(r, t, s)
        PROVE  Links'
    <3>1. /\ \A q \in Requests \ {r} : request'[q] = request[q]
          /\ request'[r].pc = "update session"
      BY <2>5, Begun DEF Refresh
    <3>2. KeysOnce'
      <4>1. \A q \in Requests : At(q, "save token")' =>
              At(q, "save token") /\ request'[q] = request[q]
        BY <3>1 DEF At
      <4> QED
        BY <2>5, <4>1, KeysOnceKept DEF Refresh, Links
    <3>3. KeysSaved' /\ Followed'
      BY <2>1, <2>5, <3>1 DEF Refresh, Links, KeysSaved, Followed, At
    <3> QED
      BY <3>2, <3>3 DEF Links
  <2>6. CASE SaveEmailToken(r)
    <3>1. /\ \A q \in Requests \ {r} : request'[q] = request[q]
          /\ request'[r].pc = "publish"
          /\ request'[r].user = request[r].user
      BY <2>6, Gone DEF SaveEmailToken, At
    <3>2. KeysOnce'
      BY ZenonT(40), <2>1, <2>6, <3>1 DEF SaveEmailToken, Links, KeysOnce, At
    <3>3. KeysSaved'
      BY <2>1, <2>6, <3>1 DEF SaveEmailToken, Links, KeysSaved, At
    <3>4. Followed'
      BY <2>1, <2>6, <3>1 DEF SaveEmailToken, Links, Followed, At
    <3> QED
      BY <3>2, <3>3, <3>4 DEF Links
  <2>7. CASE PublishUserRegistered(r)
    <3>1. /\ \A q \in Requests \ {r} : request'[q] = request[q]
          /\ request'[r].pc = "create session"
      BY <2>7, Gone DEF PublishUserRegistered, At
    <3>2. KeysOnce'
      <4>1. \A q \in Requests : At(q, "save token")' =>
              At(q, "save token") /\ request'[q] = request[q]
        BY <3>1 DEF At
      <4> QED
        BY <2>7, <4>1, KeysOnceKept DEF PublishUserRegistered, Links
    <3>3. KeysSaved'
      BY <2>1, <2>7, <3>1 DEF PublishUserRegistered, Links, KeysSaved, At
    <3>4. Followed'
      BY <2>1, <2>7, <3>1 DEF PublishUserRegistered, Links, Followed, At
    <3> QED
      BY <3>2, <3>3, <3>4 DEF Links
  <2>8. CASE PublishUnanswered(r)
    <3>1. KeysOnce'
      <4>1. \A q \in Requests : At(q, "save token")' =>
              At(q, "save token") /\ request'[q] = request[q]
        BY <2>8, Returned DEF PublishUnanswered, At
      <4> QED
        BY <2>8, <4>1, KeysOnceKept DEF PublishUnanswered, Links
    <3>2. KeysSaved'
      BY <2>1, <2>8, Returned DEF PublishUnanswered, Links, KeysSaved, At
    <3>3. Followed'
      BY <2>1, <2>8, Returned DEF PublishUnanswered, Links, Followed, At
    <3> QED
      BY <3>1, <3>2, <3>3 DEF Links
  <2>9. CASE CreateAuthSession(r) \/ UpdateAuthSession(r)
    <3>1. /\ Return(r)
          /\ UNCHANGED <<users, verifyKeys, registered, spent>>
      BY <2>9 DEF CreateAuthSession, UpdateAuthSession, Hand
    <3>2. KeysOnce'
      <4>1. \A q \in Requests : At(q, "save token")' =>
              At(q, "save token") /\ request'[q] = request[q]
        BY <3>1, Returned DEF At
      <4> QED
        BY <3>1, <4>1, KeysOnceKept DEF Links
    <3>3. KeysSaved' /\ Followed'
      BY <2>1, <3>1, Returned DEF Links, KeysSaved, Followed, At
    <3> QED
      BY <3>2, <3>3 DEF Links
  <2>10. CASE DelEmailToken(r)
    <3>1. /\ \A q \in Requests \ {r} : request'[q] = request[q]
          /\ request'[r].pc = "verify"
          /\ request'[r].user = request[r].user
      BY <2>10, Gone DEF DelEmailToken, At
    <3>2. request[r].user \in registered
      BY <2>10 DEF DelEmailToken, Links, Followed, Existing
    <3>3. \A q \in Requests : At(q, "save token") =>
            request[q].user # request[r].user
      BY <3>2 DEF Links, KeysOnce, KeysSaved
    <3>4. KeysOnce'
      <4>1. \A q \in Requests : At(q, "save token")' =>
              /\ At(q, "save token") /\ request'[q].user = request[q].user
              /\ request'[q].user # request[r].user
        BY <3>1, <3>3 DEF At
      <4>2. /\ verifyKeys' = verifyKeys \ {request[r].user}
            /\ spent' = spent \cup {request[r].user}
        BY <2>10 DEF DelEmailToken
      <4> QED
        BY <4>1, <4>2 DEF Links, KeysOnce
    <3>5. KeysSaved'
      BY <2>1, <2>10, <3>1, <3>3 DEF DelEmailToken, Links, KeysSaved, At
    <3>6. Followed'
      BY <2>1, <2>10, <3>1, <3>3 DEF DelEmailToken, Links, Followed, At
    <3> QED
      BY <3>4, <3>5, <3>6 DEF Links
  <2>11. CASE VerifyUser(r)
    <3>1. \A v \in Users : users'[v] = "active" =>
            users[v] = "active" \/ v = request[r].user
      BY <2>1, <2>11 DEF VerifyUser
    <3>2. Return(r) /\ UNCHANGED <<verifyKeys, registered, spent>>
      BY <2>11 DEF VerifyUser
    <3>3. KeysOnce'
      BY <3>2, Returned DEF Links, KeysOnce, At
    <3>4. KeysSaved'
      BY <2>1, <2>11, <3>1, Returned DEF VerifyUser, Links, KeysSaved, At
    <3>5. Followed'
      BY <2>1, <2>11, <3>1, Returned DEF VerifyUser, Links, Followed, At
    <3> QED
      BY <3>3, <3>4, <3>5 DEF Links
  <2>12. CASE Fail(r)
    <3>1. Return(r) /\ UNCHANGED <<users, verifyKeys, registered, spent>>
      BY <2>12 DEF Fail
    <3>2. KeysOnce'
      <4>1. \A q \in Requests : At(q, "save token")' =>
              At(q, "save token") /\ request'[q] = request[q]
        BY <3>1, Returned DEF At
      <4> QED
        BY <3>1, <4>1, KeysOnceKept DEF Links
    <3>3. KeysSaved' /\ Followed'
      BY <2>1, <3>1, Returned DEF Links, KeysSaved, Followed, At
    <3> QED
      BY <3>2, <3>3 DEF Links
  <2> QED
    BY <1>1, <2>2, <2>3, <2>4, <2>5, <2>6, <2>7, <2>8, <2>9, <2>10, <2>11,
       <2>12 DEF Service
<1>2. ASSUME NEW u \in Users, ExpireEmailToken(u), UNCHANGED regVars
      PROVE  Links'
  BY <1>2 DEF ExpireEmailToken, regVars, Links, KeysOnce, KeysSaved, Followed, At
<1>3. ASSUME NEW u \in Users,
             CreateProfile(u) \/ SendWelcome(u) \/ UpdateProfile(u)
      PROVE  Links'
  <2>1. UNCHANGED authVars /\ mailed \subseteq mailed'
    BY <1>3 DEF CreateProfile, SendWelcome, UpdateProfile
  <2> QED
    BY <2>1 DEF authVars, Links, KeysOnce, KeysSaved, Followed, At
<1>4. ASSUME NEW d \in Deliveries, Ack(d) \/ AckLost(d) PROVE Links'
  BY <1>4 DEF Ack, AckLost, authVars, Links, KeysOnce, KeysSaved, Followed, At
<1>5. CASE UNCHANGED vars
  BY <1>5 DEF vars, authVars, regVars, Links, KeysOnce, KeysSaved, Followed, At
<1> QED
  BY <1>1, <1>2, <1>3, <1>4, <1>5 DEF Next, Workers

LEMMA LinksAlways == Spec => []LinksInv
<1>1. Init => LinksInv
  BY TokensAssumption, NoneAssumption
  DEF Init, AuthInit, LinksInv, ExistingInv, Existing, Links, KeysOnce,
      KeysSaved, Followed, TypeOK, AuthTypeOK, At
<1>2. LinksInv /\ [Next]_vars => LinksInv'
  BY TypeOKStep, ExistingStep, LinksStep DEF LinksInv, ExistingInv
<1> QED
  BY <1>1, <1>2, PTL DEF Spec

\* The link in a mail works until it is used or expires (SaveEmailToken before
\* PublishUserRegistered in auth Register).
THEOREM LinkWorksAlways == Spec => []LinkWorks
<1>1. LinksInv => LinkWorks
  BY DEF LinksInv, ExistingInv, Existing, Links, KeysSaved, LinkWorks
<1> QED
  BY <1>1, LinksAlways, PTL

\* Whose email is verified has followed the mailed link, and a used or expired
\* link lets in no later click (ConsumeEmailToken before VerifyUser in auth
\* VerifyEmail, and SETNX only for a user who is new).
THEOREM UsedLinkIsDeadAlways == Spec => []UsedLinkIsDead
<1>1. LinksInv => UsedLinkIsDead
  BY DEF LinksInv, Links, KeysOnce, Followed, UsedLinkIsDead
<1> QED
  BY <1>1, LinksAlways, PTL

-----------------------------------------------------------------------------
\* Clients have no token that was not made yet.
Made == \A t \in known : t \in 1..issued

LEMMA MadeStep == TypeOK /\ Made /\ [Next]_vars => Made'
<1> SUFFICES ASSUME TypeOK, Made, [Next]_vars PROVE Made'
  OBVIOUS
<1>1. CASE UNCHANGED <<known, issued>>
  BY <1>1 DEF Made
<1>2. ASSUME NEW r \in Requests, NEW s, NEW u, Hand(r, s, u) PROVE Made'
  BY <1>2 DEF Hand, Made, TypeOK, AuthTypeOK
<1> QED
  BY <1>1, <1>2
  DEF Next, Service, Workers, CreateUser, Login, GetEmailToken,
      SaveEmailToken, PublishUserRegistered, PublishUnanswered,
      CreateAuthSession, Refresh, UpdateAuthSession, DelEmailToken,
      VerifyUser, Fail, ExpireEmailToken, CreateProfile, SendWelcome, Ack,
      AckLost, UpdateProfile, vars, authVars

\* Only a token that is made in this step opens a session it did not open before.
LEMMA ReplacedStep ==
    TypeOK /\ Made /\ [Next]_vars => \A t \in known : ~IsLive(t) => ~IsLive(t)'
<1> SUFFICES ASSUME TypeOK, Made, [Next]_vars, NEW t \in known, IsLive(t)'
             PROVE  IsLive(t)
  OBVIOUS
<1>1. CASE UNCHANGED sessions
  BY <1>1 DEF IsLive, Opens
<1>2. ASSUME NEW r \in Requests, NEW s, Hand(r, s, request[r].user),
             request[r] # None
      PROVE  IsLive(t)
  <2>1. request[r].user \in Users
    BY <1>2 DEF TypeOK, AuthTypeOK, Request
  <2>2. issued \in Nat
    BY TokensAssumption DEF TypeOK, AuthTypeOK
  <2>3. t # issued + 1
    BY <2>2 DEF Made
  <2>4. \A x \in Tokens : sessions'[x] # None =>
          \/ sessions[x] # None /\ sessions'[x] = sessions[x]
          \/ sessions'[x].token = issued + 1
    BY <1>2, <2>1, SessionsAfter
  <2> QED
    BY <2>3, <2>4 DEF IsLive, Opens
<1> QED
  BY <1>1, <1>2
  DEF Next, Service, Workers, CreateUser, Login, GetEmailToken,
      SaveEmailToken, PublishUserRegistered, PublishUnanswered,
      CreateAuthSession, Refresh, UpdateAuthSession, DelEmailToken,
      VerifyUser, Fail, ExpireEmailToken, CreateProfile, SendWelcome, Ack,
      AckLost, UpdateProfile, vars, authVars, At

\* A refresh token that has been replaced never works again (auth Refresh).
THEOREM ReplacedStaysDeadAlways == Spec => ReplacedStaysDead
<1>1. Init => TypeOK /\ Made
  BY TokensAssumption DEF Init, AuthInit, TypeOK, AuthTypeOK, Made
<1> QED
  BY <1>1, TypeOKStep, MadeStep, ReplacedStep, PTL DEF Spec, ReplacedStaysDead

\* Redelivered or late messages never overwrite an edited profile (the unique
\* index on user_id in profile, repo CreateProfile).
THEOREM EditsSurviveAlways == Spec => EditsSurvive
<1>1. TypeOK /\ [Next]_vars =>
        \A u \in Users : profiles[u] = "edited" => profiles'[u] = "edited"
  <2> SUFFICES ASSUME TypeOK, [Next]_vars, NEW u \in Users,
                      profiles[u] = "edited"
               PROVE  profiles'[u] = "edited"
    OBVIOUS
  <2>1. CASE UNCHANGED profiles
    BY <2>1
  <2>2. ASSUME NEW v \in Users, CreateProfile(v) PROVE profiles'[u] = "edited"
    BY <2>2, NoneAssumption DEF CreateProfile, TypeOK
  <2>3. ASSUME NEW v \in Users, UpdateProfile(v) PROVE profiles'[u] = "edited"
    BY <2>3 DEF UpdateProfile, TypeOK
  <2> QED
    BY <2>1, <2>2, <2>3
    DEF Next, Workers, SendWelcome, Ack, AckLost, vars, regVars
<1> QED
  BY <1>1, TypeCorrect, PTL DEF Spec, EditsSurvive
=============================================================================
