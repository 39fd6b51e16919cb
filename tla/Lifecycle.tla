------------------------------ MODULE Lifecycle ------------------------------
(***************************************************************************)
(* The life of a service process: it reads its settings, opens what it     *)
(* needs one thing after another, declares its streams, starts its worker, *)
(* serves, and after SIGTERM drains its servers, waits for its worker and  *)
(* closes what it opened, last opened first.  Each service does this in    *)
(* its own order and with its own way out when a step fails; the plans     *)
(* below are those orders.  The supervisor (restart: unless-stopped in     *)
(* docker-compose.yaml) starts a process that is down again.  Processes    *)
(* share the streams, which JetStream keeps.                               *)
(***************************************************************************)
EXTENDS Naturals, Sequences, FiniteSets

CONSTANTS
    Containers,   \* the containers of a deployment
    Deployments,  \* what runs in each, or None, the settings given to all, and
                  \* a bound on the SIGTERMs each is sent
    MaxCalls,     \* calls in hand per server
    MaxFaults     \* failing steps and kills per service

None == "none"

\* A failing step either ends the process at once (log.Fatal, panic) or
\* returns from Run, whose deferred calls are then made.
Exit == "exit"
Return == "return"

\* A step, what its failure does, and the closings deferred right after it.
Step(name, fails, defers) == [name |-> name, fails |-> fails, defers |-> defers]

-----------------------------------------------------------------------------
(***************************************************************************)
(* The steps services have in common.  Failing to migrate the tables fails *)
(* Database, failing to answer a ping fails Redis.  Telemetry is closed as *)
(* one, and not closed when tracing could not be had.                      *)
(***************************************************************************)
Database(fails, defers) == Step("db", fails, defers)
Nats(fails, defers) == Step("nats", fails, <<"nats">> \o defers)
Redis(fails, defers) == Step("redis", fails, <<"redis">> \o defers)
Metrics(fails) == Step("metrics", fails, <<>>)
Tracing(fails) == Step("tracing", fails, <<"tracing", "metrics">>)
Signals == Step("signals", Exit, <<"signals">>)

\* What LoadConfig looks up; without it the process exits.
AuthSettings ==
    {"DSN_AUTH", "JWT_SECRET", "GRPC_AUTH_PORT", "NATS_URL", "REDIS_URL"}
ProfileSettings == {"DSN_PROFILE", "GRPC_PROFILE_PORT", "NATS_URL"}
CatalogSettings == {"DSN_CATALOG", "GRPC_CATALOG_PORT"}
PaymentsSettings ==
    {"DSN_PAYMENTS", "NATS_URL", "PAYMENTS_HTTP_PORT", "GRPC_PAYMENTS_PORT",
     "STRIPE_WEBHOOK_SECRET", "STRIPE_SECRET_KEY"}
OrderSettings ==
    {"DSN_ORDERS", "GRPC_ORDER_PORT", "NATS_URL", "CATALOG_SERVICE_URL",
     "PAYMENTS_SERVICE_URL"}
NotificationSettings ==
    {"NATS_URL", "SMTP_URL", "SMTP_PORT", "FROM_MAIL", "REDIS_URL"}

\* The streams a service declares before it uses them.
AuthStreams == {"USERS"}
PaymentsStreams == {"PAYMENTS"}
OrderStreams == {"ORDERS", "PAYMENTS"}
NotificationStreams == {"USERS", "PAYMENTS", "ORDERS"}

(***************************************************************************)
(* The services.  "signals" is signal.NotifyContext, before which SIGTERM  *)
(* kills; cancels says that Run cancels the context itself when it shuts   *)
(* down, after which a second SIGTERM kills; onError is what an error of   *)
(* the serving loop does.                                                  *)
(***************************************************************************)
(***************************************************************************)
(* The durable consumer each worker reads, what its handler needs, whether *)
(* it works under the context SIGTERM cancels, and what becomes of a       *)
(* message that was handled before: it is applied again, refused (the      *)
(* INSERT under a unique index), or skipped when it is reserved in Redis.  *)
(***************************************************************************)
NoWorker ==
    [consumes |-> None, uses |-> {}, obeys |-> FALSE, again |-> "applies"]

ProfileWorker ==
    [consumes |-> "USERS", uses |-> {"db"}, obeys |-> TRUE, again |-> "refuses"]
OrderWorker ==
    [consumes |-> "PAYMENTS", uses |-> {"db"}, obeys |-> FALSE,
     again |-> "applies"]
\* The worker of status mails differs in its stream only.
WelcomeWorker ==
    [consumes |-> "USERS", uses |-> {"smtp"}, obeys |-> FALSE,
     again |-> "applies"]
ReceiptWorker ==
    [consumes |-> "PAYMENTS", uses |-> {"smtp"}, obeys |-> FALSE,
     again |-> "skips"]

Auth ==
    [settings |-> AuthSettings,
     steps    |-> << Step("config", Exit, <<>>),
                     Database(Exit, <<>>),
                     Nats(Exit, <<>>),
                     Redis(Exit, <<"db">>),
                     Signals, Metrics(Exit), Tracing(Exit),
                     Step("streams", Exit, <<>>),
                     Step("listen", Exit, <<>>) >>,
     servers  |-> <<"grpc">>, streams |-> AuthStreams,
     cancels  |-> TRUE, onError |-> "stop", worker |-> NoWorker]

Profile ==
    [settings |-> ProfileSettings,
     steps    |-> << Step("config", Exit, <<>>),
                     Database(Exit, <<>>),
                     Nats(Exit, <<"db">>),
                     Signals, Metrics(Return), Tracing(Return),
                     Step("consumer", Return, <<>>),
                     Step("worker", Exit, <<>>),
                     Step("listen", Exit, <<>>) >>,
     servers  |-> <<"grpc">>, streams |-> {},
     cancels  |-> TRUE, onError |-> "stop", worker |-> ProfileWorker]

Catalog ==
    [settings |-> CatalogSettings,
     steps    |-> << Step("config", Exit, <<>>),
                     Database(Return, <<"db">>),
                     Signals, Metrics(Return), Tracing(Return),
                     Step("listen", Return, <<>>) >>,
     servers  |-> <<"grpc">>, streams |-> {},
     cancels  |-> FALSE, onError |-> Return, worker |-> NoWorker]

\* The database is never closed.
Payments ==
    [settings |-> PaymentsSettings,
     steps    |-> << Step("config", Exit, <<>>),
                     Database(Return, <<>>),
                     Nats(Return, <<>>),
                     Signals, Metrics(Return), Tracing(Return),
                     Step("streams", Return, <<>>),
                     Step("listen", Return, <<>>) >>,
     servers  |-> <<"http", "grpc">>, streams |-> PaymentsStreams,
     cancels  |-> FALSE, onError |-> Return, worker |-> NoWorker]

Order ==
    [settings |-> OrderSettings,
     steps    |-> << Step("config", Exit, <<>>),
                     Database(Return, <<"db">>),
                     Step("clients", Return, <<"clients">>),
                     Signals, Metrics(Return), Tracing(Return),
                     Nats(Return, <<>>),
                     Step("streams", Return, <<>>),
                     Step("consumer", Return, <<>>),
                     Step("worker", Exit, <<>>),
                     Step("listen", Return, <<>>) >>,
     servers  |-> <<"grpc">>, streams |-> OrderStreams,
     cancels  |-> TRUE, onError |-> Return, worker |-> OrderWorker]

\* One process with three workers that do not meet; a plan shows one of them.
Notification(worker) ==
    [settings |-> NotificationSettings,
     steps    |-> << Step("config", Exit, <<>>),
                     Step("smtp", Return, <<"smtp">>),
                     Redis(Return, <<>>),
                     Nats(Return, <<>>),
                     Signals, Metrics(Return), Tracing(Return),
                     Step("streams", Return, <<>>),
                     Step("consumer", Return, <<>>),
                     Step("worker", Exit, <<>>) >>,
     servers  |-> <<>>, streams |-> NotificationStreams,
     cancels  |-> FALSE, onError |-> Return, worker |-> worker]

\* No signal handling: SIGTERM kills it.
Gateway ==
    [settings |-> {},
     steps    |-> << Metrics(Exit), Tracing(Exit),
                     Step("clients", Exit, <<"clients">>),
                     Step("listen", Return, <<>>) >>,
     servers  |-> <<"http">>, streams |-> {},
     cancels  |-> FALSE, onError |-> Return, worker |-> NoWorker]

Plan == [auth |-> Auth, profile |-> Profile, catalog |-> Catalog,
         payments |-> Payments, order |-> Order,
         notification |-> Notification(WelcomeWorker),
         receipt |-> Notification(ReceiptWorker), gateway |-> Gateway]

Services == DOMAIN Plan

StepNames ==
    UNION {{Plan[n].steps[k].name : k \in DOMAIN Plan[n].steps} : n \in Services}
Phases == {"down", "starting", "serving", "stopping", "waiting", "closing"}

ASSUME BoundsAssumption ==
    MaxCalls \in Nat /\ MaxFaults \in Nat
ASSUME DeploymentsAssumption ==
    \A d \in Deployments :
        d.runs \in [Containers -> Services \cup {None}] /\ d.signals \in Nat

VARIABLES
    deployed,   \* which service runs where, and the settings they are given
    proc,       \* the process in each container
    streams,    \* streams JetStream has
    message,    \* a message for each worker: how far it is
    applied,    \* containers whose worker has applied its message
    reserved,   \* containers whose worker has its message reserved in Redis
    signals,    \* SIGTERMs sent so far
    faults      \* faults so far

vars == <<deployed, proc, streams, message, applied, reserved, signals, faults>>

\* at is the step to take next, held the steps whose result is still there,
\* deferred what is closed when Run ends, draining the server being stopped.
Process ==
    [phase : Phases, at : Nat, held : SUBSET StepNames,
     deferred : Seq(StepNames), cancelled : BOOLEAN,
     calls : [{"http", "grpc"} -> 0..MaxCalls], draining : Nat,
     forced : BOOLEAN,
     worker : {"off", "idle", "handling", "sending", "acking", "done"}]

Down ==
    [phase |-> "down", at |-> 1, held |-> {}, deferred |-> <<>>,
     cancelled |-> FALSE, calls |-> [v \in {"http", "grpc"} |-> 0],
     draining |-> 0, forced |-> FALSE, worker |-> "off"]

\* Only what was opened is closed; giving signals back twice does no harm.
TypeOK ==
    /\ deployed \in Deployments
    /\ proc \in [Containers -> Process]
    /\ \A s \in Containers : \A i \in DOMAIN proc[s].deferred :
          proc[s].deferred[i] \in proc[s].held \cup {"signals"}
    /\ streams \subseteq {"USERS", "PAYMENTS", "ORDERS"}
    /\ message \in [Containers -> {"none", "published", "acked"}]
    /\ applied \subseteq Containers
    /\ reserved \subseteq Containers
    /\ signals \in [Containers -> 0..deployed.signals]
    /\ faults \in [Containers -> 0..MaxFaults]

Init ==
    /\ deployed \in Deployments
    /\ proc = [s \in Containers |-> Down]
    /\ streams = {}
    /\ message = [s \in Containers |-> "none"]
    /\ applied = {}
    /\ reserved = {}
    /\ signals = [s \in Containers |-> 0]
    /\ faults = [s \in Containers |-> 0]

Of(s) == Plan[deployed.runs[s]]
Steps(s) == Of(s).steps
Servers(s) == Of(s).servers
Consumes(s) == Of(s).worker.consumes
HasWorker(s) == Consumes(s) # None

In(s, phase) == proc[s].phase = phase

Becomes(s, p) == proc' = [proc EXCEPT ![s] = p]

\* One more fault, of which there are finitely many.
Fault(s) ==
    /\ faults[s] < MaxFaults
    /\ faults' = [faults EXCEPT ![s] = @ + 1]

-----------------------------------------------------------------------------
(***************************************************************************)
(* Starting.                                                               *)
(***************************************************************************)
Launch(s) ==
    /\ In(s, "down") /\ deployed.runs[s] # None
    /\ Becomes(s, [Down EXCEPT !.phase = "starting"])
    /\ UNCHANGED <<deployed, streams, message, applied, reserved, signals, faults>>

NextStep(s) == Steps(s)[proc[s].at]

\* LoadConfig looks every setting up; JetStream's calls are made under the
\* context; a consumer needs its stream.
Ready(s) ==
    /\ NextStep(s).name = "config" => Of(s).settings \subseteq deployed.settings
    /\ NextStep(s).name \in {"streams", "consumer"} => ~proc[s].cancelled
    /\ NextStep(s).name = "consumer" => Consumes(s) \in streams

\* Variant of Start that leaves declaring the streams to others.
StartUndeclared(s) ==
    /\ In(s, "starting") /\ Ready(s)
    /\ LET p == proc[s] step == NextStep(s) IN
         Becomes(s, [p EXCEPT
            !.phase = IF p.at = Len(Steps(s)) THEN "serving" ELSE @,
            !.at = @ + 1, !.held = @ \cup {step.name},
            !.deferred = @ \o step.defers,
            !.worker = IF step.name = "worker" THEN "idle" ELSE @])
    /\ UNCHANGED <<deployed, streams, message, applied, reserved, signals, faults>>

Start(s) ==
    /\ In(s, "starting") /\ Ready(s)
    /\ LET p == proc[s] step == NextStep(s) IN
         /\ Becomes(s, [p EXCEPT
               !.phase = IF p.at = Len(Steps(s)) THEN "serving" ELSE @,
               !.at = @ + 1, !.held = @ \cup {step.name},
               !.deferred = @ \o step.defers,
               !.worker = IF step.name = "worker" THEN "idle" ELSE @])
         /\ streams' = IF step.name = "streams"
                       THEN streams \cup Of(s).streams ELSE streams
    /\ UNCHANGED <<deployed, message, applied, reserved, signals, faults>>

\* Variant of StartFails with the defer before the check of the error.
StartFailsDeferring(s) ==
    /\ In(s, "starting")
    /\ NextStep(s).name \notin {"signals", "worker"}
    /\ IF Ready(s) THEN Fault(s) ELSE UNCHANGED faults
    /\ Becomes(s, IF NextStep(s).fails = Exit THEN Down
                  ELSE [proc[s] EXCEPT !.phase = "closing",
                                       !.deferred = @ \o NextStep(s).defers])
    /\ UNCHANGED <<deployed, streams, message, applied, reserved, signals>>

\* A dependency does not answer, a port is taken, a setting or stream is
\* missing, or the context is cancelled.
StartFails(s) ==
    /\ In(s, "starting")
    /\ NextStep(s).name \notin {"signals", "worker"}
    /\ IF Ready(s) THEN Fault(s) ELSE UNCHANGED faults
    /\ Becomes(s, IF NextStep(s).fails = Exit THEN Down
                  ELSE [proc[s] EXCEPT !.phase = "closing"])
    /\ UNCHANGED <<deployed, streams, message, applied, reserved, signals>>

-----------------------------------------------------------------------------
(***************************************************************************)
(* Serving, and being told to stop.                                        *)
(***************************************************************************)
\* A server that is not yet being stopped takes calls.
Accepts(s, v) ==
    /\ In(s, "serving") \/ In(s, "stopping")
    /\ \E i \in DOMAIN Servers(s) :
        /\ Servers(s)[i] = v
        /\ In(s, "stopping") => i > proc[s].draining

Arrive(s, v) ==
    /\ Accepts(s, v)
    /\ proc[s].calls[v] < MaxCalls
    /\ Becomes(s, [proc[s] EXCEPT !.calls[v] = @ + 1])
    /\ UNCHANGED <<deployed, streams, message, applied, reserved, signals, faults>>

Answer(s, v) ==
    /\ proc[s].calls[v] > 0
    /\ Becomes(s, [proc[s] EXCEPT !.calls[v] = @ - 1])
    /\ UNCHANGED <<deployed, streams, message, applied, reserved, signals, faults>>

Signal(s) ==
    /\ ~In(s, "down")
    /\ signals[s] < deployed.signals
    /\ signals' = [signals EXCEPT ![s] = @ + 1]
    /\ Becomes(s, IF "signals" \in proc[s].held
                  THEN [proc[s] EXCEPT !.cancelled = TRUE] ELSE Down)
    /\ UNCHANGED <<deployed, streams, message, applied, reserved, faults>>

\* SIGKILL, also the supervisor's after its grace period; a crash.
Kill(s) ==
    /\ ~In(s, "down")
    /\ Fault(s)
    /\ Becomes(s, Down)
    /\ UNCHANGED <<deployed, streams, message, applied, reserved, signals>>

\* What comes after stopping server number i - 1.
Stopping(s, p, i) ==
    [p EXCEPT
       !.phase = IF i <= Len(Servers(s)) THEN "stopping"
                 ELSE IF HasWorker(s) THEN "waiting" ELSE "closing",
       !.draining = i]

\* "Shutting down...": the context is cancelled if it was not, and stop()
\* gives SIGTERM its default meaning back.
ShuttingDown(s) ==
    Stopping(s, [proc[s] EXCEPT
                   !.cancelled = TRUE,
                   !.held = IF Of(s).cancels THEN @ \ {"signals"} ELSE @], 1)

ShutDown(s) ==
    /\ In(s, "serving")
    /\ proc[s].cancelled
    /\ Becomes(s, ShuttingDown(s))
    /\ UNCHANGED <<deployed, streams, message, applied, reserved, signals, faults>>

\* The serving loop ends with an error although nobody asked it to.
ServeFails(s) ==
    /\ In(s, "serving")
    /\ Servers(s) # <<>>
    /\ ~proc[s].cancelled
    /\ Fault(s)
    /\ Becomes(s, IF Of(s).onError = "stop" THEN ShuttingDown(s)
                  ELSE [proc[s] EXCEPT !.phase = "closing", !.forced = TRUE])
    /\ UNCHANGED <<deployed, streams, message, applied, reserved, signals>>

-----------------------------------------------------------------------------
(***************************************************************************)
(* Stopping: GracefulStop and Shutdown wait for the calls in hand for at   *)
(* most shutdownTimeout, then the worker is waited for as long, then what  *)
(* was deferred is closed.                                                 *)
(***************************************************************************)
CallsOf(s) == proc[s].calls[Servers(s)[proc[s].draining]]

\* Variant of Drained that does not wait for GracefulStop to return.
DrainedAtOnce(s) ==
    /\ In(s, "stopping")
    /\ Becomes(s, Stopping(s, proc[s], proc[s].draining + 1))
    /\ UNCHANGED <<deployed, streams, message, applied, reserved, signals, faults>>

Drained(s) ==
    /\ In(s, "stopping")
    /\ CallsOf(s) = 0
    /\ Becomes(s, Stopping(s, proc[s], proc[s].draining + 1))
    /\ UNCHANGED <<deployed, streams, message, applied, reserved, signals, faults>>

\* Variant of StopTimesOut for a GracefulStop without a timeout.
StopNeverTimesOut(s) ==
    /\ FALSE
    /\ UNCHANGED vars

StopTimesOut(s) ==
    /\ In(s, "stopping")
    /\ CallsOf(s) > 0
    /\ Becomes(s, [Stopping(s, proc[s], proc[s].draining + 1)
                     EXCEPT !.forced = TRUE])
    /\ UNCHANGED <<deployed, streams, message, applied, reserved, signals, faults>>

\* The worker has ended, or is waited for no longer.
WaitEnds(s) ==
    /\ In(s, "waiting")
    /\ Becomes(s, [proc[s] EXCEPT !.phase = "closing"])
    /\ UNCHANGED <<deployed, streams, message, applied, reserved, signals, faults>>

Close(s) ==
    /\ In(s, "closing")
    /\ LET p == proc[s] IN
         Becomes(s, IF p.deferred = <<>> THEN Down
                    ELSE [p EXCEPT
                            !.held = @ \ {p.deferred[Len(p.deferred)]},
                            !.cancelled = @ \/ p.deferred[Len(p.deferred)] = "signals",
                            !.deferred = SubSeq(@, 1, Len(@) - 1)])
    /\ UNCHANGED <<deployed, streams, message, applied, reserved, signals, faults>>

-----------------------------------------------------------------------------
(***************************************************************************)
(* The worker.  It looks at the context only when a fetch fails, and a     *)
(* fetch fails only when the connection to NATS is closed: it goes on      *)
(* through draining, waiting and closing until then.                       *)
(***************************************************************************)
WorkerIs(s, w) == proc[s].worker = w

WorkerBecomes(s, w) == Becomes(s, [proc[s] EXCEPT !.worker = w])

Publish(s) ==
    /\ deployed.runs[s] # None /\ HasWorker(s)
    /\ Consumes(s) \in streams
    /\ message[s] = "none"
    /\ message' = [message EXCEPT ![s] = "published"]
    /\ UNCHANGED <<deployed, proc, streams, applied, reserved, signals, faults>>

Fetch(s) ==
    /\ WorkerIs(s, "idle") /\ "nats" \in proc[s].held
    /\ message[s] = "published"
    /\ WorkerBecomes(s, "handling")
    /\ UNCHANGED <<deployed, streams, message, applied, reserved, signals, faults>>

InHandler(s) == WorkerIs(s, "handling") \/ WorkerIs(s, "sending")

Reserves(s) == Of(s).worker.again = "skips"

\* What the call a worker is about to make needs.
Needs(s) ==
    IF Reserves(s) /\ WorkerIs(s, "handling") THEN {"redis"}
    ELSE Of(s).worker.uses

Usable(s) ==
    /\ Needs(s) \subseteq proc[s].held
    /\ Of(s).worker.obeys => ~proc[s].cancelled
    /\ Of(s).worker.again = "refuses" => s \notin applied

\* MarkProcessed: a message that is reserved already counts as a duplicate.
Reserve(s) ==
    /\ WorkerIs(s, "handling") /\ Reserves(s)
    /\ Usable(s)
    /\ reserved' = reserved \cup {s}
    /\ WorkerBecomes(s, IF s \in reserved THEN "acking" ELSE "sending")
    /\ UNCHANGED <<deployed, streams, message, applied, signals, faults>>

Handle(s) ==
    /\ InHandler(s) /\ (WorkerIs(s, "sending") <=> Reserves(s))
    /\ Usable(s)
    /\ applied' = applied \cup {s}
    /\ WorkerBecomes(s, "acking")
    /\ UNCHANGED <<deployed, streams, message, reserved, signals, faults>>

\* A reservation is made although SETNX reported an error; it is released
\* after a refused mail, unless Redis refuses that, or is closed.
Released(s) ==
    IF Reserves(s) /\ "redis" \in proc[s].held
    THEN {reserved, IF WorkerIs(s, "sending") THEN reserved \ {s}
                    ELSE reserved \cup {s}}
    ELSE {reserved}

\* Variant of HandleFails that logs the error and goes on.
HandleFailsLogged(s) ==
    /\ InHandler(s)
    /\ IF Usable(s) THEN Fault(s) ELSE UNCHANGED faults
    /\ reserved' \in Released(s)
    /\ WorkerBecomes(s, "acking")
    /\ UNCHANGED <<deployed, streams, message, applied, signals>>

\* Variant of HandleFails that lets the error out of Worker.Run.
HandleFailsReturning(s) ==
    /\ InHandler(s)
    /\ IF Usable(s) THEN Fault(s) ELSE UNCHANGED faults
    /\ reserved' \in Released(s)
    /\ WorkerBecomes(s, "done")
    /\ UNCHANGED <<deployed, streams, message, applied, signals>>

HandleFails(s) ==
    /\ InHandler(s)
    /\ IF Usable(s) THEN Fault(s) ELSE UNCHANGED faults
    /\ reserved' \in Released(s)
    /\ WorkerBecomes(s, "idle")
    /\ UNCHANGED <<deployed, streams, message, applied, signals>>

Ack(s) ==
    /\ WorkerIs(s, "acking")
    /\ message' = IF "nats" \in proc[s].held
                  THEN [message EXCEPT ![s] = "acked"] ELSE message
    /\ WorkerBecomes(s, "idle")
    /\ UNCHANGED <<deployed, streams, applied, reserved, signals, faults>>

WorkerEnds(s) ==
    /\ WorkerIs(s, "idle") /\ "nats" \notin proc[s].held
    /\ proc[s].cancelled
    /\ WorkerBecomes(s, "done")
    /\ UNCHANGED <<deployed, streams, message, applied, reserved, signals, faults>>

-----------------------------------------------------------------------------
Supervision(s) == Launch(s) \/ Signal(s) \/ Kill(s)

\* What Run does next.
Progress(s) ==
    Start(s) \/ StartFails(s) \/ ShutDown(s) \/ Drained(s) \/ StopTimesOut(s)
    \/ WaitEnds(s) \/ Close(s)

Serving(s) ==
    \/ \E v \in {"http", "grpc"} : Arrive(s, v) \/ Answer(s, v)
    \/ ServeFails(s)

Work(s) ==
    Fetch(s) \/ Reserve(s) \/ Handle(s) \/ HandleFails(s) \/ Ack(s) \/ WorkerEnds(s)

Next ==
    \E s \in Containers :
        Supervision(s) \/ Progress(s) \/ Serving(s) \/ Publish(s) \/ Work(s)

Spec == Init /\ [][Next]_vars

(***************************************************************************)
(* The supervisor restarts what is down, Run moves on (each of its waits   *)
(* has a timeout), and so does the worker.  Calls need not be answered.    *)
(***************************************************************************)
Fairness ==
    \A s \in Containers :
        WF_vars(Launch(s)) /\ WF_vars(Progress(s)) /\ WF_vars(Work(s))

FairSpec == Spec /\ Fairness

-----------------------------------------------------------------------------
\* What a service closes is closed under no call in hand, unless the call
\* outlived shutdownTimeout or the serving loop itself broke (server.go of
\* each service: GracefulStop before Run returns).
DrainedBeforeClosed ==
    \A s \in Containers : In(s, "closing") /\ ~proc[s].forced =>
        \A v \in {"http", "grpc"} : proc[s].calls[v] = 0

\* A worker that goes on while its database, mail server or context is taken
\* away acknowledges nothing it has not applied.  The receipt worker does, when a
\* stop, a kill or a failing call has left a reservation behind, but not otherwise.
Disturbed(s) == signals[s] > 0 \/ faults[s] > 0

AckedWasApplied ==
    \A s \in Containers :
        message[s] = "acked" => s \in applied \/ (Reserves(s) /\ Disturbed(s))

\* SIGTERM stops a service, whatever its callers and its worker do.
Stops == \A s \in Containers : proc[s].cancelled ~> In(s, "down")

\* A service whose settings are there, and whose worker's stream some deployed
\* service declares, comes up again after every failure and every restart,
\* whatever the order in which services are started.
Supplied(s) ==
    /\ deployed.runs[s] # None
    /\ Of(s).settings \subseteq deployed.settings
    /\ HasWorker(s) => \E t \in Containers :
          /\ deployed.runs[t] # None
          /\ Consumes(s) \in Of(t).streams
          /\ Of(t).settings \subseteq deployed.settings

Recovers ==
    \A s \in Containers : Supplied(s) /\ In(s, "down") ~> In(s, "serving")

\* A message is worked off in the end, across restarts of its worker.  One that
\* is applied and whose acknowledgement is lost is delivered to the profile worker
\* for ever, as the second INSERT is refused: it is applied, and that is all.
WorkedOff ==
    \A s \in Containers :
        Supplied(s) /\ message[s] = "published" ~>
            \/ message[s] = "acked"
            \/ s \in applied /\ Of(s).worker.again = "refuses"
=============================================================================
