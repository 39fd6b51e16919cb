---------------------------- MODULE MCLifecycle ----------------------------
EXTENDS Lifecycle

CONSTANTS c1, c2

AllSettings == UNION {Plan[n].settings : n \in Services}

Pair(n, m, given, k) ==
    [runs |-> [c \in {c1, c2} |-> IF c = c1 THEN n ELSE m],
     settings |-> given, signals |-> k]

\* Every service alone, sent SIGTERM twice, except that the profile service
\* needs another one that declares the stream USERS; and auth without one of
\* its settings.
Together ==
    {Pair(n, None, AllSettings, 2) : n \in Services \ {"profile"}}
    \cup {Pair("auth", "profile", AllSettings, 1),
          Pair("auth", None, AllSettings \ {"JWT_SECRET"}, 1)}
=============================================================================
