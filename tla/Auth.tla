-------------------------------- MODULE Auth --------------------------------
(***************************************************************************)
(* The auth service: Register, Login, Refresh and VerifyEmail, each a      *)
(* chain of statements on PostgreSQL, Redis and JetStream with no          *)
(* transaction around it, run by concurrent requests.                      *)
(*                                                                         *)
(* Users are never deleted and their email is unique, so a user's row, id  *)
(* and verification token carry one name.  Refresh tokens are random; they *)
(* are numbered in the order they are made.                                *)
(***************************************************************************)
EXTENDS Naturals

CONSTANTS
    Users,      \* the people who may register, by email
    Requests,   \* concurrent requests
    MaxTokens,  \* bound: refresh tokens made
    None        \* the absent row, an idle request

ASSUME TokensAssumption == MaxTokens \in Nat

Tokens == 1..MaxTokens

ASSUME NoneAssumption ==
    /\ None \notin {"pending", "active", "registered", "edited"}
    /\ None \notin Tokens

VARIABLES
    users,       \* the users table: status, set together with email_verified
    verifyKeys,  \* users whose verification token is in Redis
    sessions,    \* auth_sessions, by the first token of each
    issued,      \* refresh tokens made so far
    known,       \* refresh tokens clients have been given
    request,     \* what each request has in hand
    registered,  \* user.registered messages in the USERS stream
    welcomed,    \* users whose Register was answered
    spent        \* history: verification tokens used or expired

authVars == <<users, verifyKeys, sessions, issued, known, request, registered,
              welcomed, spent>>

Session == [user : Users, token : Tokens]

\* pc is the statement a request runs next; session and token are those a
\* refresh has found and been given.
Request == [op : {"register", "login", "refresh", "verify"},
            pc : {"save token", "publish", "create session", "update session",
                  "del", "verify"},
            user : Users,
            session : Tokens \cup {None}, token : Tokens \cup {None}]

AuthTypeOK ==
    /\ users \in [Users -> {"pending", "active", None}]
    /\ verifyKeys \subseteq Users
    /\ sessions \in [Tokens -> Session \cup {None}]
    /\ issued \in 0..MaxTokens
    /\ known \subseteq Tokens
    /\ request \in [Requests -> Request \cup {None}]
    /\ registered \subseteq Users
    /\ welcomed \subseteq Users
    /\ spent \subseteq Users

AuthInit ==
    /\ users = [u \in Users |-> None]
    /\ verifyKeys = {}
    /\ sessions = [t \in Tokens |-> None]
    /\ issued = 0
    /\ known = {}
    /\ request = [r \in Requests |-> None]
    /\ registered = {}
    /\ welcomed = {}
    /\ spent = {}

Begin(r, op, pc, u, s, t) ==
    /\ request[r] = None
    /\ request' = [request EXCEPT ![r] =
                     [op |-> op, pc |-> pc, user |-> u,
                      session |-> s, token |-> t]]

At(r, pc) == request[r] # None /\ request[r].pc = pc

Goto(r, pc) == request' = [request EXCEPT ![r].pc = pc]

Return(r) == request' = [request EXCEPT ![r] = None]

\* The session that a refresh token opens now: refresh_token_hash = ?
Opens(t, s) == sessions[s] # None /\ sessions[s].token = t

IsLive(t) == \E s \in Tokens : Opens(t, s)

-----------------------------------------------------------------------------
(***************************************************************************)
(* Register: the user, the token, the event, the session.                  *)
(***************************************************************************)
\* Variant of CreateUser: the error of the insert is overwritten by a later one.
CreateUserUnchecked(r, u) ==
    /\ users[u] = None
    /\ users' \in {users, [users EXCEPT ![u] = "pending"]}
    /\ Begin(r, "register", "save token", u, None, None)
    /\ UNCHANGED <<verifyKeys, sessions, issued, known, registered, welcomed,
                   spent>>

\* INSERT INTO users, refused when the email or phone is taken.
CreateUser(r, u) ==
    /\ users[u] = None
    /\ users' = [users EXCEPT ![u] = "pending"]
    /\ Begin(r, "register", "save token", u, None, None)
    /\ UNCHANGED <<verifyKeys, sessions, issued, known, registered, welcomed,
                   spent>>

\* Variant of SaveEmailToken: an error of Redis is only logged.
SaveEmailTokenLogged(r) ==
    /\ At(r, "save token")
    /\ verifyKeys' \in {verifyKeys, verifyKeys \cup {request[r].user}}
    /\ Goto(r, "publish")
    /\ UNCHANGED <<users, sessions, issued, known, registered, welcomed, spent>>

\* SETNX of the verification token, with a time to live.
SaveEmailToken(r) ==
    /\ At(r, "save token")
    /\ verifyKeys' = verifyKeys \cup {request[r].user}
    /\ Goto(r, "publish")
    /\ UNCHANGED <<users, sessions, issued, known, registered, welcomed, spent>>

\* Variant of PublishUserRegistered: an error of the broker is only logged.
PublishLogged(r) ==
    /\ At(r, "publish")
    /\ registered' \in {registered, registered \cup {request[r].user}}
    /\ Goto(r, "create session")
    /\ UNCHANGED <<users, verifyKeys, sessions, issued, known, welcomed, spent>>

PublishUserRegistered(r) ==
    /\ At(r, "publish")
    /\ registered' = registered \cup {request[r].user}
    /\ Goto(r, "create session")
    /\ UNCHANGED <<users, verifyKeys, sessions, issued, known, welcomed, spent>>

\* The message is stored, but the broker's answer is lost: an error.
PublishUnanswered(r) ==
    /\ At(r, "publish")
    /\ registered' = registered \cup {request[r].user}
    /\ Return(r)
    /\ UNCHANGED <<users, verifyKeys, sessions, issued, known, welcomed, spent>>

(***************************************************************************)
(* Login, and the session that Login and Register end with.                *)
(***************************************************************************)
\* The user is found by email or phone and the password is right.
Login(r, u) ==
    /\ users[u] # None
    /\ Begin(r, "login", "create session", u, None, None)
    /\ UNCHANGED <<users, verifyKeys, sessions, issued, known, registered,
                   welcomed, spent>>

\* A new refresh token becomes the token of session s of user u; the client may
\* or may not get the answer.
Hand(r, s, u) ==
    /\ issued < MaxTokens
    /\ issued' = issued + 1
    /\ sessions' = [sessions EXCEPT ![s] = [user |-> u, token |-> issued']]
    /\ known' \in {known, known \cup {issued'}}
    /\ Return(r)

CreateAuthSession(r) ==
    /\ At(r, "create session")
    /\ Hand(r, issued + 1, request[r].user)
    /\ welcomed' = IF request[r].op = "register" /\ known' # known
                   THEN welcomed \cup {request[r].user} ELSE welcomed
    /\ UNCHANGED <<users, verifyKeys, registered, spent>>

(***************************************************************************)
(* Refresh: the session is read by its token and updated by its id.  Its   *)
(* expires_at is written and never read.                                   *)
(***************************************************************************)
Refresh(r, t, s) ==
    /\ t \in known
    /\ Opens(t, s)
    /\ Begin(r, "refresh", "update session", sessions[s].user, s, t)
    /\ UNCHANGED <<users, verifyKeys, sessions, issued, known, registered,
                   welcomed, spent>>

UpdateAuthSession(r) ==
    /\ At(r, "update session")
    /\ Hand(r, request[r].session, request[r].user)
    /\ UNCHANGED <<users, verifyKeys, registered, welcomed, spent>>

(***************************************************************************)
(* VerifyEmail: GET and DEL of the token, then the user.                   *)
(***************************************************************************)
\* Variant of GetEmailToken: the token is left to expire.
GetEmailTokenKeeping(r, u) ==
    /\ u \in verifyKeys
    /\ Begin(r, "verify", "verify", u, None, None)
    /\ UNCHANGED <<users, verifyKeys, sessions, issued, known, registered,
                   welcomed, spent>>

GetEmailToken(r, u) ==
    /\ u \in verifyKeys
    /\ Begin(r, "verify", "del", u, None, None)
    /\ UNCHANGED <<users, verifyKeys, sessions, issued, known, registered,
                   welcomed, spent>>

\* DEL does not say whether the token was still there.
DelEmailToken(r) ==
    /\ At(r, "del")
    /\ verifyKeys' = verifyKeys \ {request[r].user}
    /\ spent' = spent \cup {request[r].user}
    /\ Goto(r, "verify")
    /\ UNCHANGED <<users, sessions, issued, known, registered, welcomed>>

\* Variant of VerifyUser: the status has the name of the flag.
VerifyUserVerified(r) ==
    /\ At(r, "verify")
    /\ users' = [users EXCEPT ![request[r].user] = "verified"]
    /\ Return(r)
    /\ UNCHANGED <<verifyKeys, sessions, issued, known, registered, welcomed,
                   spent>>

VerifyUser(r) ==
    /\ At(r, "verify")
    /\ users' = [users EXCEPT ![request[r].user] = "active"]
    /\ Return(r)
    /\ UNCHANGED <<verifyKeys, sessions, issued, known, registered, welcomed,
                   spent>>

\* Redis drops the token after its time to live.
ExpireEmailToken(u) ==
    /\ u \in verifyKeys
    /\ verifyKeys' = verifyKeys \ {u}
    /\ spent' = spent \cup {u}
    /\ UNCHANGED <<users, sessions, issued, known, request, registered,
                   welcomed>>

\* Variant of Fail: a refresh that fails puts the old token back.
FailRestoring(r) ==
    /\ request[r] # None
    /\ sessions' = IF request[r].op = "refresh"
                   THEN [sessions EXCEPT ![request[r].session].token =
                           request[r].token]
                   ELSE sessions
    /\ Return(r)
    /\ UNCHANGED <<users, verifyKeys, issued, known, registered, welcomed,
                   spent>>

\* A statement fails, the date of birth does not parse, or the service dies:
\* what was done stays done.
Fail(r) ==
    /\ request[r] # None
    /\ Return(r)
    /\ UNCHANGED <<users, verifyKeys, sessions, issued, known, registered,
                   welcomed, spent>>
=============================================================================
