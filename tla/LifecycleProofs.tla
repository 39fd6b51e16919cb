-------------------------- MODULE LifecycleProofs --------------------------
(***************************************************************************)
(* Theorems about the life of service processes, for any deployment, any   *)
(* number of containers, calls, signals and faults.                        *)
(***************************************************************************)
EXTENDS Lifecycle, SequenceTheorems, TLAPS

LEMMA ServicesAre ==
    Services = {"auth", "profile", "catalog", "payments", "order",
                "notification", "receipt", "gateway"}
BY DEF Services, Plan

LEMMA Names ==
    {"config", "db", "clients", "signals", "metrics", "tracing", "nats",
     "streams", "consumer", "worker", "listen", "smtp", "redis"} \subseteq StepNames
<1>1. \A n \in Services : \A k \in DOMAIN Plan[n].steps :
         Plan[n].steps[k].name \in StepNames
  BY DEF StepNames
<1>2. /\ Plan["order"] = Order
      /\ Plan["notification"] = Notification(WelcomeWorker)
  BY DEF Plan
<1>3. /\ Order.steps[1].name = "config" /\ Order.steps[2].name = "db"
      /\ Order.steps[3].name = "clients" /\ Order.steps[4].name = "signals"
      /\ Order.steps[5].name = "metrics" /\ Order.steps[6].name = "tracing"
      /\ Order.steps[7].name = "nats" /\ Order.steps[8].name = "streams"
      /\ Order.steps[9].name = "consumer" /\ Order.steps[10].name = "worker"
      /\ Order.steps[11].name = "listen"
      /\ 1..11 \subseteq DOMAIN Order.steps
  BY DEF Order, Step, Database, Signals, Metrics, Tracing, Nats
<1>4. \A w :
        /\ Notification(w).steps[2].name = "smtp"
        /\ Notification(w).steps[3].name = "redis"
        /\ {2, 3} \subseteq DOMAIN Notification(w).steps
  BY DEF Notification, Step, Redis
<1> QED
  BY <1>1, <1>2, <1>3, <1>4, ServicesAre

Servings == {<<>>, <<"http">>, <<"grpc">>, <<"http", "grpc">>}

Planned(plan) ==
    /\ plan.steps \in Seq([name : StepNames, fails : {Exit, Return},
                           defers : Seq(StepNames)])
    /\ Len(plan.steps) > 0
    /\ plan.servers \in Servings
    /\ plan.streams \subseteq {"USERS", "PAYMENTS", "ORDERS"}

\* A list of steps with known names that defer known names.
LEMMA PlanFacts == \A n \in Services : Planned(Plan[n])
<1> DEFINE T == [name : StepNames, fails : {Exit, Return},
                 defers : Seq(StepNames)]
<1>1. ASSUME NEW name \in StepNames, NEW fails \in {Exit, Return},
             NEW defers \in Seq(StepNames)
      PROVE  Step(name, fails, defers) \in T
  BY <1>1 DEF Step
<1>2. /\ <<>> \in Seq(StepNames) /\ <<"db">> \in Seq(StepNames)
      /\ <<"nats">> \o <<>> \in Seq(StepNames)
      /\ <<"nats">> \o <<"db">> \in Seq(StepNames)
      /\ <<"redis">> \o <<>> \in Seq(StepNames)
      /\ <<"redis">> \o <<"db">> \in Seq(StepNames)
      /\ <<"tracing", "metrics">> \in Seq(StepNames)
      /\ <<"signals">> \in Seq(StepNames) /\ <<"clients">> \in Seq(StepNames)
      /\ <<"smtp">> \in Seq(StepNames)
  BY Names
<1>3. \A fails \in {Exit, Return} :
        /\ Step("config", fails, <<>>) \in T
        /\ Database(fails, <<>>) \in T /\ Database(fails, <<"db">>) \in T
        /\ Nats(fails, <<>>) \in T /\ Nats(fails, <<"db">>) \in T
        /\ Redis(fails, <<>>) \in T /\ Redis(fails, <<"db">>) \in T
        /\ Metrics(fails) \in T /\ Tracing(fails) \in T
        /\ Step("streams", fails, <<>>) \in T /\ Step("listen", fails, <<>>) \in T
        /\ Step("consumer", fails, <<>>) \in T /\ Step("worker", fails, <<>>) \in T
        /\ Step("clients", fails, <<"clients">>) \in T
        /\ Step("smtp", fails, <<"smtp">>) \in T
        /\ Signals \in T
  BY <1>1, <1>2, Names DEF Database, Nats, Redis, Metrics, Tracing, Signals
<1>4. Exit \in {Exit, Return} /\ Return \in {Exit, Return}
  OBVIOUS
<1> HIDE DEF T
<1>5. Planned(Auth)
  <2>1. Auth.steps \in Seq(T) /\ Len(Auth.steps) > 0
    BY <1>3, <1>4 DEF Auth
  <2>2. Auth.servers \in Servings /\ Auth.streams \subseteq {"USERS", "PAYMENTS", "ORDERS"}
    BY DEF Auth, Servings, AuthStreams
  <2> QED
    BY <2>1, <2>2 DEF Planned, T
<1>6. Planned(Profile)
  <2>1. Profile.steps \in Seq(T) /\ Len(Profile.steps) > 0
    BY <1>3, <1>4 DEF Profile
  <2>2. Profile.servers \in Servings /\ Profile.streams \subseteq {"USERS", "PAYMENTS", "ORDERS"}
    BY DEF Profile, Servings
  <2> QED
    BY <2>1, <2>2 DEF Planned, T
<1>7. Planned(Catalog)
  <2>1. Catalog.steps \in Seq(T) /\ Len(Catalog.steps) > 0
    BY <1>3, <1>4 DEF Catalog
  <2>2. Catalog.servers \in Servings /\ Catalog.streams \subseteq {"USERS", "PAYMENTS", "ORDERS"}
    BY DEF Catalog, Servings
  <2> QED
    BY <2>1, <2>2 DEF Planned, T
<1>8. Planned(Payments)
  <2>1. Payments.steps \in Seq(T) /\ Len(Payments.steps) > 0
    BY <1>3, <1>4 DEF Payments
  <2>2. Payments.servers \in Servings /\ Payments.streams \subseteq {"USERS", "PAYMENTS", "ORDERS"}
    BY DEF Payments, Servings, PaymentsStreams
  <2> QED
    BY <2>1, <2>2 DEF Planned, T
<1>9. Planned(Order)
  <2>1. Order.steps \in Seq(T) /\ Len(Order.steps) > 0
    BY <1>3, <1>4 DEF Order
  <2>2. Order.servers \in Servings /\ Order.streams \subseteq {"USERS", "PAYMENTS", "ORDERS"}
    BY DEF Order, Servings, OrderStreams
  <2> QED
    BY <2>1, <2>2 DEF Planned, T
<1>10. ASSUME NEW w PROVE Planned(Notification(w))
  <2>1. Notification(w).steps \in Seq(T) /\ Len(Notification(w).steps) > 0
    BY <1>3, <1>4 DEF Notification
  <2>2. /\ Notification(w).servers \in Servings
        /\ Notification(w).streams \subseteq {"USERS", "PAYMENTS", "ORDERS"}
    BY DEF Notification, Servings, NotificationStreams
  <2> QED
    BY <2>1, <2>2 DEF Planned, T
<1>11. Planned(Gateway)
  <2>1. Gateway.steps \in Seq(T) /\ Len(Gateway.steps) > 0
    BY <1>3, <1>4 DEF Gateway
  <2>2. Gateway.servers \in Servings /\ Gateway.streams \subseteq {"USERS", "PAYMENTS", "ORDERS"}
    BY DEF Gateway, Servings
  <2> QED
    BY <2>1, <2>2 DEF Planned, T
<1> QED
  BY <1>5, <1>6, <1>7, <1>8, <1>9, <1>10, <1>11, ServicesAre DEF Plan

-----------------------------------------------------------------------------
(***************************************************************************)
(* A process that is being stopped has emptied the servers it is done with *)
(* and takes calls only on those it has not come to.                       *)
(***************************************************************************)
Quiet(p) == \A v \in {"http", "grpc"} : p.calls[v] = 0

Draining(s, p) ==
    /\ p.draining \in 1..Len(Servers(s))
    /\ ~p.forced =>
         \A i \in 1..Len(Servers(s)) :
            i < p.draining => p.calls[Servers(s)[i]] = 0

Good(s, p) ==
    /\ p \in Process
    /\ p.phase = "down" => Quiet(p)
    /\ p.phase # "down" => deployed.runs[s] \in Services
    /\ p.phase = "starting" => p.at \in 1..Len(Steps(s)) /\ Quiet(p)
    /\ p.phase = "stopping" => Draining(s, p)
    /\ p.phase \in {"waiting", "closing"} => p.forced \/ Quiet(p)
    /\ \A v \in {"http", "grpc"} :
          p.calls[v] # 0 => \E i \in 1..Len(Servers(s)) : Servers(s)[i] = v

Emptied ==
    /\ deployed \in Deployments
    /\ proc \in [Containers -> Process]
    /\ \A s \in Containers : Good(s, proc[s])

LEMMA DownIsGood == ASSUME NEW s \in Containers PROVE Good(s, Down)
<1>1. Down \in Process
  BY BoundsAssumption DEF Down, Process, Phases
<1> QED
  BY <1>1 DEF Good, Quiet, Down

\* What a service in a container is made of.
LEMMA Servants ==
    ASSUME Emptied, NEW s \in Containers, deployed.runs[s] \in Services
    PROVE  /\ Steps(s) \in Seq([name : StepNames, fails : {Exit, Return},
                                defers : Seq(StepNames)])
           /\ Len(Steps(s)) \in Nat /\ Len(Steps(s)) > 0
           /\ Servers(s) \in Servings /\ Len(Servers(s)) \in {0, 1, 2}
           /\ DOMAIN Servers(s) = 1..Len(Servers(s))
           /\ \A i \in 1..Len(Servers(s)) : Servers(s)[i] \in {"http", "grpc"}
           /\ \A i, j \in 1..Len(Servers(s)) :
                Servers(s)[i] = Servers(s)[j] => i = j
           /\ \A k \in 1..Len(Steps(s)) :
                /\ Steps(s)[k].name \in StepNames
                /\ Steps(s)[k].defers \in Seq(StepNames)
<1>1. Planned(Of(s))
  BY PlanFacts DEF Of
<1>2. /\ Steps(s) \in Seq([name : StepNames, fails : {Exit, Return},
                           defers : Seq(StepNames)])
      /\ Len(Steps(s)) \in Nat /\ Len(Steps(s)) > 0
  BY <1>1 DEF Planned, Steps
<1>3. /\ Servers(s) \in Servings /\ Len(Servers(s)) \in {0, 1, 2}
      /\ DOMAIN Servers(s) = 1..Len(Servers(s))
      /\ \A i \in 1..Len(Servers(s)) : Servers(s)[i] \in {"http", "grpc"}
      /\ \A i, j \in 1..Len(Servers(s)) :
           Servers(s)[i] = Servers(s)[j] => i = j
  <2>1. \/ Servers(s) = <<>> \/ Servers(s) = <<"http">>
        \/ Servers(s) = <<"grpc">> \/ Servers(s) = <<"http", "grpc">>
    BY <1>1 DEF Planned, Servers, Servings
  <2>2. CASE Servers(s) = <<>>
    BY <2>2 DEF Servings
  <2>3. CASE Servers(s) = <<"http">>
    BY <2>3 DEF Servings
  <2>4. CASE Servers(s) = <<"grpc">>
    BY <2>4 DEF Servings
  <2>5. CASE Servers(s) = <<"http", "grpc">>
    BY <2>5 DEF Servings
  <2> QED
    BY <2>1, <2>2, <2>3, <2>4, <2>5
<1>4. \A k \in 1..Len(Steps(s)) :
        /\ Steps(s)[k].name \in StepNames
        /\ Steps(s)[k].defers \in Seq(StepNames)
  <2>1. ASSUME NEW k \in 1..Len(Steps(s))
        PROVE  Steps(s)[k] \in [name : StepNames, fails : {Exit, Return},
                                defers : Seq(StepNames)]
    BY <1>2, ElementOfSeq
  <2> QED
    BY <2>1
<1> QED
  BY <1>2, <1>3, <1>4

\* A step that changes one process into a good one keeps every process good.
LEMMA OneProcess ==
    ASSUME Emptied, deployed' = deployed, NEW s \in Containers, NEW p,
           Becomes(s, p), Good(s, p)
    PROVE  Emptied'
<1>1. proc' = [proc EXCEPT ![s] = p] /\ p \in Process
  BY DEF Becomes, Good
<1>2. ASSUME NEW t \in Containers PROVE Good(t, proc[t])'
  <2>1. CASE t = s
    <3>1. proc'[t] = p
      BY <1>1, <2>1 DEF Emptied
    <3> QED
      BY <2>1, <3>1 DEF Good, Draining, Steps, Servers, Of
  <2>2. CASE t # s
    <3>1. proc'[t] = proc[t] /\ Good(t, proc[t])
      BY <1>1, <2>2 DEF Emptied
    <3> QED
      BY <3>1 DEF Good, Draining, Steps, Servers, Of
  <2> QED
    BY <2>1, <2>2
<1> QED
  BY <1>1, <1>2 DEF Emptied

\* On the way down a server is passed when its calls are answered, or by force.
LEMMA NextServer ==
    ASSUME Emptied, NEW s \in Containers, deployed.runs[s] \in Services,
           NEW p \in Process, NEW i \in Nat, i > 0,
           \A v \in {"http", "grpc"} :
             p.calls[v] # 0 => \E j \in 1..Len(Servers(s)) : Servers(s)[j] = v,
           \/ p.forced
           \/ \A j \in 1..Len(Servers(s)) : j < i => p.calls[Servers(s)[j]] = 0,
           i <= Len(Servers(s)) + 1
    PROVE  Good(s, Stopping(s, p, i))
<1> DEFINE phase == IF i <= Len(Servers(s)) THEN "stopping"
                    ELSE IF HasWorker(s) THEN "waiting" ELSE "closing"
           q == [[p EXCEPT !.phase = phase] EXCEPT !.draining = i]
<1>1. Stopping(s, p, i) = q
  BY DEF Stopping
<1>2. phase \in Phases /\ phase \notin {"down", "starting"}
  BY DEF Phases
<1>3. /\ q \in Process /\ q.phase = phase /\ q.draining = i
      /\ q.calls = p.calls /\ q.forced = p.forced
  BY <1>2 DEF Process
<1>4. phase = "stopping" => i \in 1..Len(Servers(s))
  BY Servants
<1>5. phase \in {"waiting", "closing"} => i = Len(Servers(s)) + 1
  BY Servants
<1> HIDE DEF phase, q
<1>6. phase \in {"waiting", "closing"} => p.forced \/ Quiet(p)
  <2> SUFFICES ASSUME phase \in {"waiting", "closing"}, ~p.forced,
                      NEW v \in {"http", "grpc"}, p.calls[v] # 0
               PROVE  FALSE
    BY DEF Quiet
  <2>1. PICK j \in 1..Len(Servers(s)) : Servers(s)[j] = v
    OBVIOUS
  <2> QED
    BY <1>5, <2>1, Servants
<1>7. phase = "stopping" => Draining(s, q)
  BY <1>3, <1>4 DEF Draining
<1> QED
  BY <1>1, <1>2, <1>3, <1>6, <1>7 DEF Good, Quiet

\* Who runs where is settled, what was applied stays applied, and signals and
\* faults are counted one by one.
LEMMA Lasting ==
    [Next]_vars =>
        /\ deployed' = deployed /\ applied \subseteq applied'
        /\ signals' = signals \/ \E t \in Containers : Signal(t)
        /\ faults' = faults \/ \E t \in Containers : Fault(t)
<1> DEFINE Lasts ==
             /\ deployed' = deployed /\ applied \subseteq applied'
             /\ signals' = signals \/ \E t \in Containers : Signal(t)
             /\ faults' = faults \/ \E t \in Containers : Fault(t)
<1> SUFFICES ASSUME [Next]_vars PROVE Lasts
  OBVIOUS
<1>1. ASSUME NEW s \in Containers, Supervision(s) PROVE Lasts
  BY <1>1 DEF Supervision, Launch, Signal, Kill
<1>2. ASSUME NEW s \in Containers, Progress(s) PROVE Lasts
  BY <1>2 DEF Progress, Start, StartFails, ShutDown, Drained, StopTimesOut,
              WaitEnds, Close
<1>3. ASSUME NEW s \in Containers, Serving(s) PROVE Lasts
  BY <1>3 DEF Serving, Arrive, Answer, ServeFails
<1>4. ASSUME NEW s \in Containers, Publish(s) \/ Work(s) PROVE Lasts
  BY <1>4 DEF Publish, Work, Fetch, Reserve, Handle, HandleFails, Ack, WorkerEnds
<1>5. CASE UNCHANGED vars
  BY <1>5 DEF vars
<1> HIDE DEF Lasts
<1> QED
  BY <1>1, <1>2, <1>3, <1>4, <1>5 DEF Next

LEMMA EmptiedStep == Emptied /\ [Next]_vars => Emptied'
<1> SUFFICES ASSUME Emptied, [Next]_vars PROVE Emptied'
  OBVIOUS
<1>0. deployed' = deployed
  BY Lasting
<1>1. ASSUME NEW s \in Containers, NEW p \in Process,
             p = [proc[s] EXCEPT !.worker = p.worker], Becomes(s, p)
      PROVE  Emptied'
  <2>1. Good(s, proc[s]) /\ proc[s] \in Process
    BY DEF Emptied
  <2>2. /\ p.phase = proc[s].phase /\ p.at = proc[s].at
        /\ p.calls = proc[s].calls /\ p.draining = proc[s].draining
        /\ p.forced = proc[s].forced
    BY <1>1, <2>1 DEF Process
  <2>3. Good(s, p)
    BY <1>1, <2>1, <2>2 DEF Good, Quiet, Draining
  <2> QED
    BY <1>0, <1>1, <2>3, OneProcess
<1>2. ASSUME NEW s \in Containers, Work(s) PROVE Emptied'
  <2>1. PICK w \in {"off", "idle", "handling", "sending", "acking", "done"} :
          Becomes(s, [proc[s] EXCEPT !.worker = w])
    BY <1>2 DEF Work, Fetch, Reserve, Handle, HandleFails, Ack, WorkerEnds,
                WorkerBecomes
  <2>2. proc[s] \in Process
    BY DEF Emptied
  <2>3. /\ [proc[s] EXCEPT !.worker = w] \in Process
        /\ [proc[s] EXCEPT !.worker = w].worker = w
    BY <2>2 DEF Process
  <2> QED
    BY <1>1, <2>1, <2>3
<1>3. ASSUME NEW s \in Containers, Becomes(s, Down) PROVE Emptied'
  BY <1>0, <1>3, OneProcess, DownIsGood
<1>4. ASSUME NEW s \in Containers, Launch(s) PROVE Emptied'
  <2> DEFINE p == [Down EXCEPT !.phase = "starting"]
  <2>1. Down \in Process /\ Quiet(Down) /\ Down.at = 1
    BY DownIsGood DEF Good, Down
  <2>2. /\ p \in Process /\ p.phase = "starting" /\ p.at = 1
        /\ p.calls = Down.calls
    BY <2>1 DEF Process, Phases
  <2>3. deployed.runs[s] \in Services
    BY <1>4, DeploymentsAssumption DEF Launch, Emptied
  <2>4. 1 \in 1..Len(Steps(s))
    BY <2>3, Servants
  <2> HIDE DEF p
  <2>5. Good(s, p)
    BY <2>1, <2>2, <2>3, <2>4 DEF Good, Quiet
  <2>6. Becomes(s, p)
    BY <1>4 DEF Launch, p
  <2> QED
    BY <1>0, <2>5, <2>6, OneProcess
<1>5. ASSUME NEW s \in Containers, Start(s) PROVE Emptied'
  <2> DEFINE old == proc[s]
             step == NextStep(s)
             p == [old EXCEPT
                     !.phase = IF old.at = Len(Steps(s)) THEN "serving" ELSE @,
                     !.at = @ + 1, !.held = @ \cup {step.name},
                     !.deferred = @ \o step.defers,
                     !.worker = IF step.name = "worker" THEN "idle" ELSE @]
  <2>1. /\ Good(s, old) /\ old \in Process /\ old.phase = "starting"
        /\ deployed.runs[s] \in Services
        /\ old.at \in 1..Len(Steps(s)) /\ Quiet(old)
    BY <1>5 DEF Emptied, Good, Start, In
  <2>2. step.name \in StepNames /\ step.defers \in Seq(StepNames)
    BY <2>1, Servants DEF NextStep
  <2>3. /\ old.held \cup {step.name} \in SUBSET StepNames
        /\ old.deferred \o step.defers \in Seq(StepNames)
        /\ old.at + 1 \in Nat
        /\ old.worker \in {"off", "idle", "handling", "sending", "acking", "done"}
        /\ Len(Steps(s)) \in Nat
    BY <2>1, <2>2, Servants, SMTT(60) DEF Process
  <2>4. /\ p \in Process
        /\ p.at = old.at + 1
        /\ p.phase = IF old.at = Len(Steps(s)) THEN "serving" ELSE "starting"
        /\ p.calls = old.calls
    <3> HIDE DEF step
    <3> QED
      BY <2>1, <2>3 DEF Process, Phases
  <2>5. Becomes(s, p)
    BY <1>5 DEF Start
  <2> HIDE DEF p, old, step
  <2>6. Good(s, p)
    BY <2>1, <2>3, <2>4 DEF Good, Quiet
  <2> QED
    BY <1>0, <2>5, <2>6, OneProcess
<1>6. ASSUME NEW s \in Containers, NEW p \in Process,
             proc[s].phase # "down", p.phase = "closing",
             p.calls = proc[s].calls, p.forced \/ Quiet(proc[s]),
             Becomes(s, p)
      PROVE  Emptied'
  <2>1. Good(s, proc[s])
    BY DEF Emptied
  <2>2. Good(s, p)
    BY <1>6, <2>1 DEF Good, Quiet
  <2> QED
    BY <1>0, <1>6, <2>2, OneProcess
<1>7. ASSUME NEW s \in Containers, StartFails(s) PROVE Emptied'
  <2> DEFINE p == [proc[s] EXCEPT !.phase = "closing"]
  <2>1. /\ proc[s] \in Process /\ proc[s].phase = "starting" /\ Quiet(proc[s])
    BY <1>7 DEF StartFails, In, Emptied, Good
  <2>2. p \in Process /\ p.phase = "closing" /\ p.calls = proc[s].calls
    BY <2>1 DEF Process, Phases
  <2>3. Becomes(s, Down) \/ Becomes(s, p)
    BY <1>7 DEF StartFails
  <2> HIDE DEF p
  <2> QED
    BY <1>3, <1>6, <2>1, <2>2, <2>3
\* Calls come to servers that are not stopped yet, and go anywhere.
<1>8. ASSUME NEW s \in Containers, NEW v \in {"http", "grpc"},
             NEW p \in Process, NEW n \in Nat,
             p = [proc[s] EXCEPT !.calls = [@ EXCEPT ![v] = n]],
             proc[s].phase \notin {"down", "starting"},
             proc[s].phase \in {"waiting", "closing"} => proc[s].forced,
             \E i \in 1..Len(Servers(s)) :
                /\ Servers(s)[i] = v
                /\ proc[s].phase = "stopping" /\ ~proc[s].forced
                   => i >= proc[s].draining,
             Becomes(s, p)
      PROVE  Emptied'
  <2>1. /\ Good(s, proc[s]) /\ proc[s] \in Process
        /\ deployed.runs[s] \in Services
    BY <1>8 DEF Emptied, Good
  <2>2. /\ p.phase = proc[s].phase /\ p.at = proc[s].at
        /\ p.draining = proc[s].draining /\ p.forced = proc[s].forced
        /\ p.calls = [proc[s].calls EXCEPT ![v] = n]
    BY <1>8, <2>1 DEF Process
  <2>3. proc[s].calls \in [{"http", "grpc"} -> 0..MaxCalls]
    BY <2>1 DEF Process
  <2>4. \A w \in {"http", "grpc"} : w # v => p.calls[w] = proc[s].calls[w]
    BY <2>2, <2>3
  <2>5. PICK i \in 1..Len(Servers(s)) :
          /\ Servers(s)[i] = v
          /\ proc[s].phase = "stopping" /\ ~proc[s].forced
             => i >= proc[s].draining
    BY <1>8
  <2>6. p.phase = "stopping" => Draining(s, p)
    <3> SUFFICES ASSUME p.phase = "stopping", ~p.forced,
                        NEW j \in 1..Len(Servers(s)), j < p.draining
                 PROVE  p.calls[Servers(s)[j]] = 0
      BY <2>1, <2>2 DEF Good, Draining
    <3>1. Servers(s)[j] \in {"http", "grpc"} /\ Len(Servers(s)) \in {0, 1, 2}
      BY <2>1, Servants
    <3>2. proc[s].calls[Servers(s)[j]] = 0
      BY <2>1, <2>2 DEF Good, Draining
    <3>3. i # j
      <4>1. i \in Int /\ j \in Int /\ proc[s].draining \in Nat
        BY <2>1, <3>1 DEF Process
      <4> QED
        BY <2>2, <2>5, <4>1
    <3>4. Servers(s)[j] # v
      BY <2>1, <2>5, <3>3, Servants
    <3> QED
      BY <2>4, <3>1, <3>2, <3>4
  <2>7. ASSUME NEW w \in {"http", "grpc"}, p.calls[w] # 0
        PROVE  \E k \in 1..Len(Servers(s)) : Servers(s)[k] = w
    BY <2>1, <2>4, <2>5, <2>7 DEF Good
  <2>8. Good(s, p)
    BY <1>8, <2>1, <2>2, <2>6, <2>7 DEF Good
  <2> QED
    BY <1>0, <1>8, <2>8, OneProcess
<1>9. ASSUME NEW s \in Containers, NEW v \in {"http", "grpc"},
             Arrive(s, v) \/ Answer(s, v)
      PROVE  Emptied'
  <2>1. Good(s, proc[s]) /\ proc[s] \in Process
    BY DEF Emptied
  <2>2. /\ proc[s].calls \in [{"http", "grpc"} -> 0..MaxCalls]
        /\ proc[s].calls[v] \in 0..MaxCalls /\ proc[s].draining \in Nat
        /\ MaxCalls \in Nat
    BY <2>1, BoundsAssumption DEF Process
  <2>3. PICK n \in 0..MaxCalls :
          Becomes(s, [proc[s] EXCEPT !.calls = [@ EXCEPT ![v] = n]])
    <3>1. CASE Arrive(s, v)
      <4>1. proc[s].calls[v] + 1 \in 0..MaxCalls
        BY <2>2, <3>1 DEF Arrive
      <4> QED
        BY <3>1, <4>1 DEF Arrive
    <3>2. CASE Answer(s, v)
      <4>1. proc[s].calls[v] - 1 \in 0..MaxCalls
        BY <2>2, <3>2 DEF Answer
      <4> QED
        BY <3>2, <4>1 DEF Answer
    <3> QED
      BY <1>9, <3>1, <3>2
  <2> DEFINE p == [proc[s] EXCEPT !.calls = [@ EXCEPT ![v] = n]]
  <2>4. p \in Process
    <3>1. [proc[s].calls EXCEPT ![v] = n] \in [{"http", "grpc"} -> 0..MaxCalls]
      BY <2>2
    <3> QED
      BY <2>1, <3>1 DEF Process
  <2>5. CASE Arrive(s, v)
    <3>1. proc[s].phase \in {"serving", "stopping"}
      BY <2>5 DEF Arrive, Accepts, In
    <3>2. deployed.runs[s] \in Services
      BY <2>1, <3>1 DEF Good
    <3>3. \E i \in 1..Len(Servers(s)) :
            /\ Servers(s)[i] = v
            /\ proc[s].phase = "stopping" => i > proc[s].draining
      BY <2>5, <3>2, Servants DEF Arrive, Accepts, In
    <3>4. \E i \in 1..Len(Servers(s)) :
            /\ Servers(s)[i] = v
            /\ proc[s].phase = "stopping" /\ ~proc[s].forced
               => i >= proc[s].draining
      BY <2>2, <3>2, <3>3, Servants
    <3> HIDE DEF p
    <3> QED
      BY <1>8, <2>3, <2>4, <3>1, <3>4 DEF p
  <2>6. CASE Answer(s, v)
    <3>1. proc[s].calls[v] # 0
      BY <2>2, <2>6 DEF Answer
    <3>2. /\ proc[s].phase \notin {"down", "starting"}
          /\ proc[s].phase \in {"waiting", "closing"} => proc[s].forced
      BY <2>1, <3>1 DEF Good, Quiet
    <3>3. deployed.runs[s] \in Services
      BY <2>1, <3>2 DEF Good
    <3>4. PICK i \in 1..Len(Servers(s)) : Servers(s)[i] = v
      BY <2>1, <3>1 DEF Good
    <3>5. proc[s].phase = "stopping" /\ ~proc[s].forced => i >= proc[s].draining
      <4>1. i \in Nat
        BY <3>3, Servants
      <4>2. proc[s].phase = "stopping" /\ ~proc[s].forced => ~(i < proc[s].draining)
        BY <2>1, <3>1, <3>4 DEF Good, Draining
      <4> QED
        BY <2>2, <4>1, <4>2
    <3> HIDE DEF p
    <3> QED
      BY <1>8, <2>3, <2>4, <3>2, <3>4, <3>5 DEF p
  <2> QED
    BY <1>9, <2>5, <2>6
\* Everything else that is not on the way down.
<1>10. ASSUME NEW s \in Containers, Signal(s) PROVE Emptied'
  <2> DEFINE p == [proc[s] EXCEPT !.cancelled = TRUE]
  <2>1. Good(s, proc[s]) /\ proc[s] \in Process
    BY DEF Emptied
  <2>2. /\ p \in Process /\ p.phase = proc[s].phase /\ p.at = proc[s].at
        /\ p.calls = proc[s].calls /\ p.draining = proc[s].draining
        /\ p.forced = proc[s].forced
    BY <2>1 DEF Process
  <2>3. Becomes(s, p) \/ Becomes(s, Down)
    BY <1>10 DEF Signal
  <2> HIDE DEF p
  <2>4. Good(s, p)
    BY <2>1, <2>2 DEF Good, Quiet, Draining
  <2> QED
    BY <1>0, <1>3, <2>3, <2>4, OneProcess
<1>11. ASSUME NEW s \in Containers, Kill(s) PROVE Emptied'
  BY <1>3, <1>11 DEF Kill
<1>12. ASSUME NEW s \in Containers, proc[s].phase = "serving",
              Becomes(s, ShuttingDown(s))
       PROVE  Emptied'
  <2> DEFINE p == [proc[s] EXCEPT
                     !.cancelled = TRUE,
                     !.held = IF Of(s).cancels THEN @ \ {"signals"} ELSE @]
  <2>1. /\ Good(s, proc[s]) /\ proc[s] \in Process
        /\ deployed.runs[s] \in Services
    BY <1>12 DEF Emptied, Good
  <2>2. p \in Process /\ p.calls = proc[s].calls
    BY <2>1 DEF Process
  <2>3. ShuttingDown(s) = Stopping(s, p, 1)
    BY DEF ShuttingDown
  <2> HIDE DEF p
  <2>4. /\ 1 <= Len(Servers(s)) + 1
        /\ \A j \in 1..Len(Servers(s)) : ~(j < 1)
    BY <2>1, Servants
  <2>5. Good(s, Stopping(s, p, 1))
    BY <2>1, <2>2, <2>4, NextServer DEF Good
  <2> QED
    BY <1>0, <1>12, <2>3, <2>5, OneProcess
<1>13. ASSUME NEW s \in Containers, ShutDown(s) PROVE Emptied'
  BY <1>12, <1>13 DEF ShutDown, In
<1>14. ASSUME NEW s \in Containers, ServeFails(s) PROVE Emptied'
  <2> DEFINE p == [proc[s] EXCEPT !.phase = "closing", !.forced = TRUE]
  <2>1. proc[s] \in Process /\ proc[s].phase = "serving"
    BY <1>14 DEF ServeFails, In, Emptied
  <2>2. p \in Process /\ p.phase = "closing" /\ p.calls = proc[s].calls /\ p.forced
    BY <2>1 DEF Process, Phases
  <2>3. Becomes(s, ShuttingDown(s)) \/ Becomes(s, p)
    BY <1>14 DEF ServeFails
  <2> HIDE DEF p
  <2> QED
    BY <1>6, <1>12, <2>1, <2>2, <2>3
\* On the way down.
<1>15. ASSUME NEW s \in Containers, Drained(s) PROVE Emptied'
  <2>1. /\ Good(s, proc[s]) /\ proc[s] \in Process
        /\ proc[s].phase = "stopping" /\ deployed.runs[s] \in Services
        /\ Draining(s, proc[s])
    BY <1>15 DEF Emptied, Good, Drained, In
  <2>2. /\ proc[s].draining \in 1..Len(Servers(s)) /\ Len(Servers(s)) \in Nat
        /\ proc[s].calls[Servers(s)[proc[s].draining]] = 0
    BY <1>15, <2>1, Servants DEF Draining, Drained, CallsOf
  <2>3. /\ proc[s].draining + 1 \in Nat /\ proc[s].draining + 1 > 0
        /\ proc[s].draining + 1 <= Len(Servers(s)) + 1
        /\ \A j \in 1..Len(Servers(s)) : j < proc[s].draining + 1 =>
             j = proc[s].draining \/ j < proc[s].draining
    BY <2>2
  <2>4. \/ proc[s].forced
        \/ \A j \in 1..Len(Servers(s)) :
             j < proc[s].draining + 1 => proc[s].calls[Servers(s)[j]] = 0
    BY <2>1, <2>2, <2>3 DEF Draining
  <2>5. Good(s, Stopping(s, proc[s], proc[s].draining + 1))
    BY <2>1, <2>3, <2>4, NextServer DEF Good
  <2> QED
    BY <1>0, <1>15, <2>5, OneProcess DEF Drained
<1>16. ASSUME NEW s \in Containers, StopTimesOut(s) PROVE Emptied'
  <2> DEFINE i == proc[s].draining + 1
             phase == IF i <= Len(Servers(s)) THEN "stopping"
                      ELSE IF HasWorker(s) THEN "waiting" ELSE "closing"
             p == [[[proc[s] EXCEPT !.phase = phase] EXCEPT !.draining = i]
                     EXCEPT !.forced = TRUE]
  <2>1. /\ Good(s, proc[s]) /\ proc[s] \in Process
        /\ proc[s].phase = "stopping" /\ deployed.runs[s] \in Services
        /\ proc[s].draining \in 1..Len(Servers(s))
    BY <1>16 DEF Emptied, Good, StopTimesOut, In, Draining
  <2>2. i \in Nat /\ (i <= Len(Servers(s)) => i \in 1..Len(Servers(s)))
    BY <2>1, Servants
  <2>3. phase \in Phases /\ phase \notin {"down", "starting"}
        /\ (phase = "stopping" => i \in 1..Len(Servers(s)))
    BY <2>2 DEF Phases
  <2> HIDE DEF i, phase
  <2>4. /\ p \in Process /\ p.phase = phase /\ p.draining = i
        /\ p.forced /\ p.calls = proc[s].calls
    BY <2>1, <2>2, <2>3 DEF Process
  <2>5. Becomes(s, p)
    BY <1>16 DEF StopTimesOut, Stopping, i, phase
  <2> HIDE DEF p
  <2>6. Good(s, p)
    BY <2>1, <2>3, <2>4 DEF Good, Draining
  <2> QED
    BY <1>0, <2>5, <2>6, OneProcess
<1>17. ASSUME NEW s \in Containers, WaitEnds(s) PROVE Emptied'
  <2> DEFINE p == [proc[s] EXCEPT !.phase = "closing"]
  <2>1. /\ proc[s] \in Process /\ proc[s].phase = "waiting"
        /\ proc[s].forced \/ Quiet(proc[s])
    BY <1>17 DEF WaitEnds, In, Emptied, Good
  <2>2. /\ p \in Process /\ p.phase = "closing" /\ p.calls = proc[s].calls
        /\ p.forced = proc[s].forced
    BY <2>1 DEF Process, Phases
  <2>3. Becomes(s, p)
    BY <1>17 DEF WaitEnds
  <2> HIDE DEF p
  <2> QED
    BY <1>6, <2>1, <2>2, <2>3
<1>18. ASSUME NEW s \in Containers, Close(s) PROVE Emptied'
  <2> DEFINE old == proc[s]
             last == old.deferred[Len(old.deferred)]
             p == [old EXCEPT
                     !.held = @ \ {last},
                     !.cancelled = @ \/ last = "signals",
                     !.deferred = SubSeq(@, 1, Len(@) - 1)]
  <2>1. /\ old \in Process /\ old.phase = "closing"
        /\ old.forced \/ Quiet(old)
    BY <1>18 DEF Close, In, Emptied, Good
  <2>2. SubSeq(old.deferred, 1, Len(old.deferred) - 1) \in Seq(StepNames)
    <3>1. old.deferred \in Seq(StepNames)
      BY <2>1 DEF Process
    <3>2. \A k \in 1..(Len(old.deferred) - 1) : old.deferred[k] \in StepNames
      BY <3>1, ElementOfSeq
    <3>3. Len(old.deferred) - 1 \in Int
      BY <3>1
    <3> QED
      BY <3>2, <3>3, SubSeqProperties
  <2>3. /\ p \in Process /\ p.phase = "closing" /\ p.calls = old.calls
        /\ p.forced = old.forced
    <3> HIDE DEF last
    <3>1. (old.cancelled \/ last = "signals") \in BOOLEAN
      OBVIOUS
    <3> QED
      BY <2>1, <2>2, <3>1 DEF Process
  <2>4. Becomes(s, p) \/ Becomes(s, Down)
    BY <1>18 DEF Close
  <2> HIDE DEF p
  <2> QED
    BY <1>3, <1>6, <2>1, <2>3, <2>4
<1>19. ASSUME proc' = proc PROVE Emptied'
  BY <1>0, <1>19 DEF Emptied, Good, Draining, Steps, Servers, Of
<1>20. ASSUME NEW s \in Containers, Publish(s) PROVE Emptied'
  BY <1>19, <1>20 DEF Publish
<1>21. CASE UNCHANGED vars
  BY <1>19, <1>21 DEF vars
<1> QED
  BY <1>2, <1>4, <1>5, <1>7, <1>9, <1>10, <1>11, <1>13, <1>14, <1>15, <1>16,
     <1>17, <1>18, <1>20, <1>21
  DEF Next, Supervision, Progress, Serving

\* No service closes its database or its connections under a call that did not
\* outlive its patience, whichever server the call came in by.
THEOREM DrainedBeforeClosedAlways == Spec => []DrainedBeforeClosed
<1>1. Init => Emptied
  BY DownIsGood DEF Init, Emptied, Good
<1>2. Emptied => DrainedBeforeClosed
  BY DEF Emptied, Good, Quiet, DrainedBeforeClosed, In
<1> QED
  BY <1>1, <1>2, EmptiedStep, PTL DEF Spec

-----------------------------------------------------------------------------
(***************************************************************************)
(* The order of opening and deferring in each service.                     *)
(***************************************************************************)
\* What a step defers was opened by it or before it, and is deferred once.
Orderly(steps) ==
    /\ \A k \in 1..Len(steps) : \A i \in 1..Len(steps[k].defers) :
          \E j \in 1..k : steps[j].name = steps[k].defers[i]
    /\ \A k, l \in 1..Len(steps) :
          \A i \in 1..Len(steps[k].defers), j \in 1..Len(steps[l].defers) :
             steps[k].defers[i] = steps[l].defers[j] => k = l /\ i = j

\* Going through a list of at most two.
LEMMA UpTo ==
    \A n : \A i \in 1..n :
       n # 0 /\ (n = 1 => i = 1) /\ (n = 2 => i = 1 \/ i = 2)
OBVIOUS

\* A list of one with nothing, or one more, behind it.
LEMMA Appended ==
    ASSUME NEW x, NEW y
    PROVE /\ <<x>> \o <<>> = <<x>> /\ <<x>> \o <<y>> = <<x, y>>
<1>1. <<x>> \in Seq({x, y}) /\ <<y>> \in Seq({x, y}) /\ <<>> \in Seq({x, y})
  OBVIOUS
<1>2. <<x>> \o <<>> = <<x>>
  BY <1>1, ConcatEmptySeq
<1>3. /\ Len(<<x>> \o <<y>>) = 2
      /\ (<<x>> \o <<y>>)[1] = x /\ (<<x>> \o <<y>>)[2] = y
      /\ (<<x>> \o <<y>>) \in Seq({x, y})
  BY <1>1, ConcatProperties
<1>4. /\ <<x, y>> \in Seq({x, y}) /\ Len(<<x, y>>) = 2
      /\ <<x, y>>[1] = x /\ <<x, y>>[2] = y
  OBVIOUS
<1>5. \A i \in 1..2 : (<<x>> \o <<y>>)[i] = <<x, y>>[i]
  <2>1. 1..2 = {1, 2}
    OBVIOUS
  <2> QED
    BY <1>3, <1>4, <2>1, Zenon
<1>6. <<x>> \o <<y>> = <<x, y>>
  <2> DEFINE a == <<x>> \o <<y>>
             b == <<x, y>>
  <2>1. /\ a \in Seq({x, y}) /\ b \in Seq({x, y}) /\ Len(a) = Len(b)
        /\ \A i \in 1..Len(a) : a[i] = b[i]
    BY <1>3, <1>4, <1>5, Zenon
  <2> HIDE DEF a, b
  <2>2. a = b
    BY <2>1, SeqEqual
  <2> QED
    BY <2>2 DEF a, b
<1> QED
  BY <1>2, <1>6

LEMMA AuthIsOrderly == Orderly(Auth.steps)
<1> DEFINE S == Auth.steps
           D(k) == S[k].defers
<1>1. /\ Len(S) = 9 /\ D(1) = <<>> /\ D(2) = <<>> /\ D(3) = <<"nats">>
      /\ D(4) = <<"redis", "db">> /\ D(5) = <<"signals">> /\ D(6) = <<>>
      /\ D(7) = <<"tracing", "metrics">> /\ D(8) = <<>> /\ D(9) = <<>>
  BY Appended DEF Auth, Step, Database, Nats, Redis, Signals, Metrics, Tracing
<1>2. /\ S[2].name = "db" /\ S[3].name = "nats" /\ S[4].name = "redis"
      /\ S[5].name = "signals" /\ S[6].name = "metrics"
      /\ S[7].name = "tracing"
  BY DEF Auth, Step, Database, Nats, Redis, Signals, Metrics, Tracing
<1> HIDE DEF S
<1>3. /\ Len(D(1)) = 0 /\ Len(D(2)) = 0 /\ Len(D(3)) = 1 /\ D(3)[1] = "nats"
      /\ Len(D(4)) = 2 /\ D(4)[1] = "redis" /\ D(4)[2] = "db" /\ Len(D(5)) = 1
      /\ D(5)[1] = "signals" /\ Len(D(6)) = 0 /\ Len(D(7)) = 2
      /\ D(7)[1] = "tracing" /\ D(7)[2] = "metrics" /\ Len(D(8)) = 0
      /\ Len(D(9)) = 0
  BY <1>1
<1> HIDE DEF D
<1>4. ASSUME NEW k \in 1..9, NEW i \in 1..Len(D(k))
      PROVE \/ k = 3 /\ i = 1 /\ D(k)[i] = "nats"
            \/ k = 4 /\ i = 1 /\ D(k)[i] = "redis"
            \/ k = 4 /\ i = 2 /\ D(k)[i] = "db"
            \/ k = 5 /\ i = 1 /\ D(k)[i] = "signals"
            \/ k = 7 /\ i = 1 /\ D(k)[i] = "tracing"
            \/ k = 7 /\ i = 2 /\ D(k)[i] = "metrics"
  <2>1. \/ k = 1 \/ k = 2 \/ k = 3 \/ k = 4 \/ k = 5 \/ k = 6 \/ k = 7
        \/ k = 8 \/ k = 9
    OBVIOUS
  <2> QED
    BY <1>3, <2>1, UpTo, Zenon
<1>5. ASSUME NEW k \in 1..9, NEW i \in 1..Len(D(k))
      PROVE \E j \in 1..k : S[j].name = D(k)[i]
  <2>1. \/ k = 3 /\ S[3].name = D(k)[i]
        \/ k = 4 /\ S[4].name = D(k)[i]
        \/ k = 4 /\ S[2].name = D(k)[i]
        \/ k = 5 /\ S[5].name = D(k)[i]
        \/ k = 7 /\ S[7].name = D(k)[i]
        \/ k = 7 /\ S[6].name = D(k)[i]
    BY <1>2, <1>4, Zenon
  <2> QED
    BY <2>1
<1>6. ASSUME NEW k \in 1..9, NEW l \in 1..9,
             NEW i \in 1..Len(D(k)), NEW j \in 1..Len(D(l)), D(k)[i] = D(l)[j]
      PROVE k = l /\ i = j
  BY <1>4, <1>6
<1> QED
  BY <1>1, <1>5, <1>6 DEF S, D, Orderly

LEMMA ProfileIsOrderly == Orderly(Profile.steps)
<1> DEFINE S == Profile.steps
           D(k) == S[k].defers
<1>1. /\ Len(S) = 9 /\ D(1) = <<>> /\ D(2) = <<>> /\ D(3) = <<"nats", "db">>
      /\ D(4) = <<"signals">> /\ D(5) = <<>>
      /\ D(6) = <<"tracing", "metrics">> /\ D(7) = <<>> /\ D(8) = <<>>
      /\ D(9) = <<>>
  BY Appended DEF Profile, Step, Database, Nats, Signals, Metrics, Tracing
<1>2. /\ S[2].name = "db" /\ S[3].name = "nats" /\ S[4].name = "signals"
      /\ S[5].name = "metrics" /\ S[6].name = "tracing"
  BY DEF Profile, Step, Database, Nats, Signals, Metrics, Tracing
<1> HIDE DEF S
<1>3. /\ Len(D(1)) = 0 /\ Len(D(2)) = 0 /\ Len(D(3)) = 2 /\ D(3)[1] = "nats"
      /\ D(3)[2] = "db" /\ Len(D(4)) = 1 /\ D(4)[1] = "signals"
      /\ Len(D(5)) = 0 /\ Len(D(6)) = 2 /\ D(6)[1] = "tracing"
      /\ D(6)[2] = "metrics" /\ Len(D(7)) = 0 /\ Len(D(8)) = 0
      /\ Len(D(9)) = 0
  BY <1>1
<1> HIDE DEF D
<1>4. ASSUME NEW k \in 1..9, NEW i \in 1..Len(D(k))
      PROVE \/ k = 3 /\ i = 1 /\ D(k)[i] = "nats"
            \/ k = 3 /\ i = 2 /\ D(k)[i] = "db"
            \/ k = 4 /\ i = 1 /\ D(k)[i] = "signals"
            \/ k = 6 /\ i = 1 /\ D(k)[i] = "tracing"
            \/ k = 6 /\ i = 2 /\ D(k)[i] = "metrics"
  <2>1. \/ k = 1 \/ k = 2 \/ k = 3 \/ k = 4 \/ k = 5 \/ k = 6 \/ k = 7
        \/ k = 8 \/ k = 9
    OBVIOUS
  <2> QED
    BY <1>3, <2>1, UpTo, Zenon
<1>5. ASSUME NEW k \in 1..9, NEW i \in 1..Len(D(k))
      PROVE \E j \in 1..k : S[j].name = D(k)[i]
  <2>1. \/ k = 3 /\ S[3].name = D(k)[i]
        \/ k = 3 /\ S[2].name = D(k)[i]
        \/ k = 4 /\ S[4].name = D(k)[i]
        \/ k = 6 /\ S[6].name = D(k)[i]
        \/ k = 6 /\ S[5].name = D(k)[i]
    BY <1>2, <1>4, Zenon
  <2> QED
    BY <2>1
<1>6. ASSUME NEW k \in 1..9, NEW l \in 1..9,
             NEW i \in 1..Len(D(k)), NEW j \in 1..Len(D(l)), D(k)[i] = D(l)[j]
      PROVE k = l /\ i = j
  BY <1>4, <1>6
<1> QED
  BY <1>1, <1>5, <1>6 DEF S, D, Orderly

LEMMA CatalogIsOrderly == Orderly(Catalog.steps)
<1> DEFINE S == Catalog.steps
           D(k) == S[k].defers
<1>1. /\ Len(S) = 6 /\ D(1) = <<>> /\ D(2) = <<"db">> /\ D(3) = <<"signals">>
      /\ D(4) = <<>> /\ D(5) = <<"tracing", "metrics">> /\ D(6) = <<>>
  BY DEF Catalog, Step, Database, Signals, Metrics, Tracing
<1>2. /\ S[2].name = "db" /\ S[3].name = "signals" /\ S[4].name = "metrics"
      /\ S[5].name = "tracing"
  BY DEF Catalog, Step, Database, Signals, Metrics, Tracing
<1> HIDE DEF S
<1>3. /\ Len(D(1)) = 0 /\ Len(D(2)) = 1 /\ D(2)[1] = "db" /\ Len(D(3)) = 1
      /\ D(3)[1] = "signals" /\ Len(D(4)) = 0 /\ Len(D(5)) = 2
      /\ D(5)[1] = "tracing" /\ D(5)[2] = "metrics" /\ Len(D(6)) = 0
  BY <1>1
<1> HIDE DEF D
<1>4. ASSUME NEW k \in 1..6, NEW i \in 1..Len(D(k))
      PROVE \/ k = 2 /\ i = 1 /\ D(k)[i] = "db"
            \/ k = 3 /\ i = 1 /\ D(k)[i] = "signals"
            \/ k = 5 /\ i = 1 /\ D(k)[i] = "tracing"
            \/ k = 5 /\ i = 2 /\ D(k)[i] = "metrics"
  <2>1. \/ k = 1 \/ k = 2 \/ k = 3 \/ k = 4 \/ k = 5 \/ k = 6
    OBVIOUS
  <2> QED
    BY <1>3, <2>1, UpTo, Zenon
<1>5. ASSUME NEW k \in 1..6, NEW i \in 1..Len(D(k))
      PROVE \E j \in 1..k : S[j].name = D(k)[i]
  <2>1. \/ k = 2 /\ S[2].name = D(k)[i]
        \/ k = 3 /\ S[3].name = D(k)[i]
        \/ k = 5 /\ S[5].name = D(k)[i]
        \/ k = 5 /\ S[4].name = D(k)[i]
    BY <1>2, <1>4, Zenon
  <2> QED
    BY <2>1
<1>6. ASSUME NEW k \in 1..6, NEW l \in 1..6,
             NEW i \in 1..Len(D(k)), NEW j \in 1..Len(D(l)), D(k)[i] = D(l)[j]
      PROVE k = l /\ i = j
  BY <1>4, <1>6
<1> QED
  BY <1>1, <1>5, <1>6 DEF S, D, Orderly

LEMMA PaymentsIsOrderly == Orderly(Payments.steps)
<1> DEFINE S == Payments.steps
           D(k) == S[k].defers
<1>1. /\ Len(S) = 8 /\ D(1) = <<>> /\ D(2) = <<>> /\ D(3) = <<"nats">>
      /\ D(4) = <<"signals">> /\ D(5) = <<>>
      /\ D(6) = <<"tracing", "metrics">> /\ D(7) = <<>> /\ D(8) = <<>>
  BY Appended DEF Payments, Step, Database, Nats, Signals, Metrics, Tracing
<1>2. /\ S[3].name = "nats" /\ S[4].name = "signals" /\ S[5].name = "metrics"
      /\ S[6].name = "tracing"
  BY DEF Payments, Step, Database, Nats, Signals, Metrics, Tracing
<1> HIDE DEF S
<1>3. /\ Len(D(1)) = 0 /\ Len(D(2)) = 0 /\ Len(D(3)) = 1 /\ D(3)[1] = "nats"
      /\ Len(D(4)) = 1 /\ D(4)[1] = "signals" /\ Len(D(5)) = 0
      /\ Len(D(6)) = 2 /\ D(6)[1] = "tracing" /\ D(6)[2] = "metrics"
      /\ Len(D(7)) = 0 /\ Len(D(8)) = 0
  BY <1>1
<1> HIDE DEF D
<1>4. ASSUME NEW k \in 1..8, NEW i \in 1..Len(D(k))
      PROVE \/ k = 3 /\ i = 1 /\ D(k)[i] = "nats"
            \/ k = 4 /\ i = 1 /\ D(k)[i] = "signals"
            \/ k = 6 /\ i = 1 /\ D(k)[i] = "tracing"
            \/ k = 6 /\ i = 2 /\ D(k)[i] = "metrics"
  <2>1. \/ k = 1 \/ k = 2 \/ k = 3 \/ k = 4 \/ k = 5 \/ k = 6 \/ k = 7
        \/ k = 8
    OBVIOUS
  <2> QED
    BY <1>3, <2>1, UpTo, Zenon
<1>5. ASSUME NEW k \in 1..8, NEW i \in 1..Len(D(k))
      PROVE \E j \in 1..k : S[j].name = D(k)[i]
  <2>1. \/ k = 3 /\ S[3].name = D(k)[i]
        \/ k = 4 /\ S[4].name = D(k)[i]
        \/ k = 6 /\ S[6].name = D(k)[i]
        \/ k = 6 /\ S[5].name = D(k)[i]
    BY <1>2, <1>4, Zenon
  <2> QED
    BY <2>1
<1>6. ASSUME NEW k \in 1..8, NEW l \in 1..8,
             NEW i \in 1..Len(D(k)), NEW j \in 1..Len(D(l)), D(k)[i] = D(l)[j]
      PROVE k = l /\ i = j
  BY <1>4, <1>6
<1> QED
  BY <1>1, <1>5, <1>6, ZenonT(60) DEF S, D, Orderly

LEMMA OrderIsOrderly == Orderly(Order.steps)
<1> DEFINE S == Order.steps
           D(k) == S[k].defers
<1>1. /\ Len(S) = 11 /\ D(1) = <<>> /\ D(2) = <<"db">> /\ D(3) = <<"clients">>
      /\ D(4) = <<"signals">> /\ D(5) = <<>>
      /\ D(6) = <<"tracing", "metrics">> /\ D(7) = <<"nats">> /\ D(8) = <<>>
      /\ D(9) = <<>> /\ D(10) = <<>> /\ D(11) = <<>>
  BY Appended DEF Order, Step, Database, Nats, Signals, Metrics, Tracing
<1>2. /\ S[2].name = "db" /\ S[3].name = "clients" /\ S[4].name = "signals"
      /\ S[5].name = "metrics" /\ S[6].name = "tracing" /\ S[7].name = "nats"
  BY DEF Order, Step, Database, Nats, Signals, Metrics, Tracing
<1> HIDE DEF S
<1>3. /\ Len(D(1)) = 0 /\ Len(D(2)) = 1 /\ D(2)[1] = "db" /\ Len(D(3)) = 1
      /\ D(3)[1] = "clients" /\ Len(D(4)) = 1 /\ D(4)[1] = "signals"
      /\ Len(D(5)) = 0 /\ Len(D(6)) = 2 /\ D(6)[1] = "tracing"
      /\ D(6)[2] = "metrics" /\ Len(D(7)) = 1 /\ D(7)[1] = "nats"
      /\ Len(D(8)) = 0 /\ Len(D(9)) = 0 /\ Len(D(10)) = 0 /\ Len(D(11)) = 0
  BY <1>1
<1> HIDE DEF D
<1>4. ASSUME NEW k \in 1..11, NEW i \in 1..Len(D(k))
      PROVE \/ k = 2 /\ i = 1 /\ D(k)[i] = "db"
            \/ k = 3 /\ i = 1 /\ D(k)[i] = "clients"
            \/ k = 4 /\ i = 1 /\ D(k)[i] = "signals"
            \/ k = 6 /\ i = 1 /\ D(k)[i] = "tracing"
            \/ k = 6 /\ i = 2 /\ D(k)[i] = "metrics"
            \/ k = 7 /\ i = 1 /\ D(k)[i] = "nats"
  <2>1. \/ k = 1 \/ k = 2 \/ k = 3 \/ k = 4 \/ k = 5 \/ k = 6 \/ k = 7
        \/ k = 8 \/ k = 9 \/ k = 10 \/ k = 11
    OBVIOUS
  <2> QED
    BY <1>3, <2>1, UpTo, ZenonT(60)
<1>5. ASSUME NEW k \in 1..11, NEW i \in 1..Len(D(k))
      PROVE \E j \in 1..k : S[j].name = D(k)[i]
  <2>1. \/ k = 2 /\ S[2].name = D(k)[i]
        \/ k = 3 /\ S[3].name = D(k)[i]
        \/ k = 4 /\ S[4].name = D(k)[i]
        \/ k = 6 /\ S[6].name = D(k)[i]
        \/ k = 6 /\ S[5].name = D(k)[i]
        \/ k = 7 /\ S[7].name = D(k)[i]
    BY <1>2, <1>4, Zenon
  <2> QED
    BY <2>1
<1>6. ASSUME NEW k \in 1..11, NEW l \in 1..11,
             NEW i \in 1..Len(D(k)), NEW j \in 1..Len(D(l)), D(k)[i] = D(l)[j]
      PROVE k = l /\ i = j
  BY <1>4, <1>6
<1> QED
  BY <1>1, <1>5, <1>6, ZenonT(60) DEF S, D, Orderly

LEMMA NotificationIsOrderly ==
    ASSUME NEW w PROVE Orderly(Notification(w).steps)
<1> DEFINE S == Notification(w).steps
           D(k) == S[k].defers
<1>1. /\ Len(S) = 10 /\ D(1) = <<>> /\ D(2) = <<"smtp">> /\ D(3) = <<"redis">>
      /\ D(4) = <<"nats">> /\ D(5) = <<"signals">> /\ D(6) = <<>>
      /\ D(7) = <<"tracing", "metrics">> /\ D(8) = <<>> /\ D(9) = <<>>
      /\ D(10) = <<>>
  BY Appended DEF Notification, Step, Nats, Redis, Signals, Metrics, Tracing
<1>2. /\ S[2].name = "smtp" /\ S[3].name = "redis" /\ S[4].name = "nats"
      /\ S[5].name = "signals" /\ S[6].name = "metrics"
      /\ S[7].name = "tracing"
  BY DEF Notification, Step, Nats, Redis, Signals, Metrics, Tracing
<1> HIDE DEF S
<1>3. /\ Len(D(1)) = 0 /\ Len(D(2)) = 1 /\ D(2)[1] = "smtp" /\ Len(D(3)) = 1
      /\ D(3)[1] = "redis" /\ Len(D(4)) = 1 /\ D(4)[1] = "nats"
      /\ Len(D(5)) = 1 /\ D(5)[1] = "signals" /\ Len(D(6)) = 0
      /\ Len(D(7)) = 2 /\ D(7)[1] = "tracing" /\ D(7)[2] = "metrics"
      /\ Len(D(8)) = 0 /\ Len(D(9)) = 0 /\ Len(D(10)) = 0
  BY <1>1
<1> HIDE DEF D
<1>4. ASSUME NEW k \in 1..10, NEW i \in 1..Len(D(k))
      PROVE \/ k = 2 /\ i = 1 /\ D(k)[i] = "smtp"
            \/ k = 3 /\ i = 1 /\ D(k)[i] = "redis"
            \/ k = 4 /\ i = 1 /\ D(k)[i] = "nats"
            \/ k = 5 /\ i = 1 /\ D(k)[i] = "signals"
            \/ k = 7 /\ i = 1 /\ D(k)[i] = "tracing"
            \/ k = 7 /\ i = 2 /\ D(k)[i] = "metrics"
  <2>1. \/ k = 1 \/ k = 2 \/ k = 3 \/ k = 4 \/ k = 5 \/ k = 6 \/ k = 7
        \/ k = 8 \/ k = 9 \/ k = 10
    OBVIOUS
  <2> QED
    BY <1>3, <2>1, UpTo, ZenonT(60)
<1>5. ASSUME NEW k \in 1..10, NEW i \in 1..Len(D(k))
      PROVE \E j \in 1..k : S[j].name = D(k)[i]
  <2>1. \/ k = 2 /\ S[2].name = D(k)[i]
        \/ k = 3 /\ S[3].name = D(k)[i]
        \/ k = 4 /\ S[4].name = D(k)[i]
        \/ k = 5 /\ S[5].name = D(k)[i]
        \/ k = 7 /\ S[7].name = D(k)[i]
        \/ k = 7 /\ S[6].name = D(k)[i]
    BY <1>2, <1>4, Zenon
  <2> QED
    BY <2>1
<1>6. ASSUME NEW k \in 1..10, NEW l \in 1..10,
             NEW i \in 1..Len(D(k)), NEW j \in 1..Len(D(l)), D(k)[i] = D(l)[j]
      PROVE k = l /\ i = j
  BY <1>4, <1>6
<1> QED
  BY <1>1, <1>5, <1>6, ZenonT(60) DEF S, D, Orderly

LEMMA GatewayIsOrderly == Orderly(Gateway.steps)
<1> DEFINE S == Gateway.steps
           D(k) == S[k].defers
<1>1. /\ Len(S) = 4 /\ D(1) = <<>> /\ D(2) = <<"tracing", "metrics">>
      /\ D(3) = <<"clients">> /\ D(4) = <<>>
  BY DEF Gateway, Step, Metrics, Tracing
<1>2. /\ S[1].name = "metrics" /\ S[2].name = "tracing"
      /\ S[3].name = "clients"
  BY DEF Gateway, Step, Metrics, Tracing
<1> HIDE DEF S
<1>3. /\ Len(D(1)) = 0 /\ Len(D(2)) = 2 /\ D(2)[1] = "tracing"
      /\ D(2)[2] = "metrics" /\ Len(D(3)) = 1 /\ D(3)[1] = "clients"
      /\ Len(D(4)) = 0
  BY <1>1
<1> HIDE DEF D
<1>4. ASSUME NEW k \in 1..4, NEW i \in 1..Len(D(k))
      PROVE \/ k = 2 /\ i = 1 /\ D(k)[i] = "tracing"
            \/ k = 2 /\ i = 2 /\ D(k)[i] = "metrics"
            \/ k = 3 /\ i = 1 /\ D(k)[i] = "clients"
  <2>1. \/ k = 1 \/ k = 2 \/ k = 3 \/ k = 4
    OBVIOUS
  <2> QED
    BY <1>3, <2>1, UpTo, Zenon
<1>5. ASSUME NEW k \in 1..4, NEW i \in 1..Len(D(k))
      PROVE \E j \in 1..k : S[j].name = D(k)[i]
  <2>1. \/ k = 2 /\ S[2].name = D(k)[i]
        \/ k = 2 /\ S[1].name = D(k)[i]
        \/ k = 3 /\ S[3].name = D(k)[i]
    BY <1>2, <1>4, Zenon
  <2> QED
    BY <2>1
<1>6. ASSUME NEW k \in 1..4, NEW l \in 1..4,
             NEW i \in 1..Len(D(k)), NEW j \in 1..Len(D(l)), D(k)[i] = D(l)[j]
      PROVE k = l /\ i = j
  BY <1>4, <1>6
<1> QED
  BY <1>1, <1>5, <1>6 DEF S, D, Orderly

LEMMA PlansAreOrderly == \A n \in Services : Orderly(Plan[n].steps)
BY AuthIsOrderly, ProfileIsOrderly, CatalogIsOrderly, PaymentsIsOrderly,
   OrderIsOrderly, NotificationIsOrderly, GatewayIsOrderly, ServicesAre DEF Plan

-----------------------------------------------------------------------------
(***************************************************************************)
(* What a process will close is still open, and will be closed once: each  *)
(* closing was deferred by one of the steps already taken.                 *)
(***************************************************************************)
Closings(s, p) ==
    /\ \A i \in 1..Len(p.deferred) : p.deferred[i] \in p.held \cup {"signals"}
    /\ \A i, j \in 1..Len(p.deferred) : p.deferred[i] = p.deferred[j] => i = j
    /\ p.phase = "starting" =>
         /\ \A k \in 1..(p.at - 1) : Steps(s)[k].name \in p.held
         /\ \A i \in 1..Len(p.deferred) : \E k \in 1..(p.at - 1) :
              \E j \in 1..Len(Steps(s)[k].defers) :
                 p.deferred[i] = Steps(s)[k].defers[j]

Opened == \A s \in Containers : Closings(s, proc[s])

\* A process that keeps what it has, or loses the signals, and does not start.
LEMMA KeepsOpen ==
    ASSUME Emptied, NEW s \in Containers, NEW p \in Process,
           Closings(s, proc[s]), p.deferred = proc[s].deferred,
           proc[s].held \ {"signals"} \subseteq p.held,
           p.phase = "starting" => /\ proc[s].phase = "starting"
                                   /\ p.at = proc[s].at
                                   /\ p.held = proc[s].held
    PROVE  Closings(s, p)
<1>1. /\ \A i \in 1..Len(p.deferred) : p.deferred[i] \in p.held \cup {"signals"}
      /\ \A i, j \in 1..Len(p.deferred) : p.deferred[i] = p.deferred[j] => i = j
  BY DEF Closings
<1>2. CASE p.phase = "starting"
  <2>1. /\ \A k \in 1..(p.at - 1) : Steps(s)[k].name \in p.held
        /\ \A i \in 1..Len(p.deferred) : \E k \in 1..(p.at - 1) :
              \E j \in 1..Len(Steps(s)[k].defers) :
                 p.deferred[i] = Steps(s)[k].defers[j]
    BY <1>2 DEF Closings
  <2> QED
    BY <1>1, <2>1 DEF Closings
<1>3. CASE p.phase # "starting"
  BY <1>1, <1>3, Zenon DEF Closings
<1> QED
  BY <1>2, <1>3

\* A process that is down, or just launched, has nothing to close.
LEMMA NothingOpened ==
    ASSUME NEW s \in Containers
    PROVE  Closings(s, Down) /\ Closings(s, [Down EXCEPT !.phase = "starting"])
<1>1. /\ Down.deferred = <<>> /\ Down.phase = "down"
      /\ [Down EXCEPT !.phase = "starting"].deferred = <<>>
      /\ [Down EXCEPT !.phase = "starting"].at = 1
  BY DEF Down
<1>2. Len(<<>>) = 0
  OBVIOUS
<1> QED
  BY <1>1, <1>2 DEF Closings

\* Elements and length of two lists put together.
LEMMA Joined ==
    ASSUME NEW S, NEW a \in Seq(S), NEW b \in Seq(S)
    PROVE  /\ Len(a) \in Nat /\ Len(b) \in Nat
           /\ Len(a \o b) = Len(a) + Len(b)
           /\ \A i \in 1..(Len(a) + Len(b)) :
                (a \o b)[i] = IF i <= Len(a) THEN a[i] ELSE b[i - Len(a)]
BY ConcatProperties, LenProperties

\* A step that was taken adds its closings to those of the steps before it.
LEMMA StartOpens ==
    ASSUME Emptied, Emptied', NEW s \in Containers, Closings(s, proc[s]),
           Start(s)
    PROVE  Closings(s, proc'[s])
<1> DEFINE old == proc[s]
           step == NextStep(s)
           new == proc'[s]
<1>1. /\ old \in Process /\ new \in Process /\ old.phase = "starting"
      /\ deployed.runs[s] \in Services /\ old.at \in 1..Len(Steps(s))
  BY DEF Emptied, Good, Start, In
<1>2. /\ new.at = old.at + 1 /\ new.held = old.held \cup {step.name}
      /\ new.deferred = old.deferred \o step.defers
  BY <1>1, ZenonT(60) DEF Start, Becomes, Emptied, Process
<1>3. /\ old.deferred \in Seq(StepNames) /\ step.defers \in Seq(StepNames)
      /\ old.at \in Nat /\ Len(Steps(s)) \in Nat
      /\ step = Steps(s)[old.at]
  BY <1>1, Servants DEF Process, NextStep
<1>4. Orderly(Steps(s))
  BY <1>1, PlansAreOrderly DEF Steps, Of
<1> HIDE DEF old, new, step
<1> DEFINE m == Len(old.deferred)
           n == Len(step.defers)
<1>5. /\ m \in Nat /\ n \in Nat /\ Len(new.deferred) = m + n
      /\ \A i \in 1..(m + n) :
           new.deferred[i] = IF i <= m THEN old.deferred[i]
                             ELSE step.defers[i - m]
  <2> DEFINE a == old.deferred
             b == step.defers
  <2>1. /\ a \in Seq(StepNames) /\ b \in Seq(StepNames)
        /\ new.deferred = a \o b
    BY <1>2, <1>3
  <2> HIDE DEF a, b
  <2>2. /\ Len(a) \in Nat /\ Len(b) \in Nat
        /\ Len(a \o b) = Len(a) + Len(b)
        /\ \A i \in 1..(Len(a) + Len(b)) :
             (a \o b)[i] = IF i <= Len(a) THEN a[i] ELSE b[i - Len(a)]
    BY <2>1, Joined
  <2> QED
    BY <2>1, <2>2, Zenon DEF a, b
<1> HIDE DEF m, n
<1>6. /\ \A k \in 1..(old.at - 1) : Steps(s)[k].name \in old.held
      /\ \A i \in 1..m : \E k \in 1..(old.at - 1) :
           \E j \in 1..Len(Steps(s)[k].defers) :
              old.deferred[i] = Steps(s)[k].defers[j]
      /\ \A i \in 1..m : old.deferred[i] \in old.held \cup {"signals"}
      /\ \A i, j \in 1..m : old.deferred[i] = old.deferred[j] => i = j
  BY <1>1 DEF Closings, old, m
<1>7. \A k \in 1..(new.at - 1) : Steps(s)[k].name \in new.held
  <2> SUFFICES ASSUME NEW k \in 1..(new.at - 1)
               PROVE  Steps(s)[k].name \in new.held
    OBVIOUS
  <2>1. k \in 1..(old.at - 1) \/ k = old.at
    BY <1>2, <1>3
  <2> QED
    BY <1>2, <1>3, <1>6, <2>1
\* Where a closing comes from.
<1>8. ASSUME NEW i \in 1..(m + n)
      PROVE  \/ /\ i \in 1..m /\ new.deferred[i] = old.deferred[i]
             \/ /\ i - m \in 1..n /\ i \notin 1..m
                /\ new.deferred[i] = step.defers[i - m]
  BY <1>5
<1>9. ASSUME NEW i \in 1..(m + n)
      PROVE  \E k \in 1..(new.at - 1) : \E j \in 1..Len(Steps(s)[k].defers) :
                new.deferred[i] = Steps(s)[k].defers[j]
  <2>1. CASE i \in 1..m /\ new.deferred[i] = old.deferred[i]
    <3>1. PICK k \in 1..(old.at - 1) : \E j \in 1..Len(Steps(s)[k].defers) :
            old.deferred[i] = Steps(s)[k].defers[j]
      BY <1>6, <2>1
    <3>2. k \in 1..(new.at - 1)
      BY <1>2, <1>3
    <3> QED
      BY <2>1, <3>1, <3>2
  <2>2. CASE i - m \in 1..n /\ new.deferred[i] = step.defers[i - m]
    <3>1. old.at \in 1..(new.at - 1)
      BY <1>1, <1>2, <1>3 DEF old
    <3> QED
      BY <1>3, <2>2, <3>1 DEF n
  <2> QED
    BY <1>8, <2>1, <2>2
<1>10. ASSUME NEW i \in 1..(m + n)
       PROVE  new.deferred[i] \in new.held \cup {"signals"}
  <2>1. CASE i \in 1..m /\ new.deferred[i] = old.deferred[i]
    BY <1>2, <1>6, <2>1
  <2>2. CASE i - m \in 1..n /\ new.deferred[i] = step.defers[i - m]
    <3>1. PICK k \in 1..old.at : Steps(s)[k].name = step.defers[i - m]
      BY <1>1, <1>3, <1>4, <2>2 DEF Orderly, n, old
    <3>2. k \in 1..(new.at - 1)
      BY <1>2, <1>3
    <3> QED
      BY <1>7, <2>2, <3>1, <3>2
  <2> QED
    BY <1>8, <2>1, <2>2
\* What this step defers, no step before it has deferred.
<1>11. ASSUME NEW i \in 1..m, NEW j \in 1..n
       PROVE  old.deferred[i] # step.defers[j]
  <2>1. PICK k \in 1..(old.at - 1) : \E l \in 1..Len(Steps(s)[k].defers) :
          old.deferred[i] = Steps(s)[k].defers[l]
    BY <1>6
  <2>2. k # old.at /\ k \in 1..Len(Steps(s)) /\ old.at \in 1..Len(Steps(s))
    BY <1>1, <1>3 DEF old
  <2> QED
    BY <1>3, <1>4, <2>1, <2>2 DEF Orderly, n
<1>12. ASSUME NEW i \in 1..n, NEW j \in 1..n, step.defers[i] = step.defers[j]
       PROVE  i = j
  <2>1. old.at \in 1..Len(Steps(s))
    BY <1>1 DEF old
  <2>2. \A a, b \in 1..Len(Steps(s)[old.at].defers) :
          Steps(s)[old.at].defers[a] = Steps(s)[old.at].defers[b] => a = b
    BY <1>4, <2>1 DEF Orderly
  <2> QED
    BY <1>3, <1>12, <2>2 DEF n
<1>13. ASSUME NEW i \in 1..(m + n), NEW j \in 1..(m + n),
              new.deferred[i] = new.deferred[j]
       PROVE  i = j
  <2>1. CASE i \in 1..m /\ j \in 1..m
    BY <1>6, <1>8, <1>13, <2>1
  <2>2. CASE i \in 1..m /\ j \notin 1..m
    BY <1>8, <1>11, <1>13, <2>2
  <2>3. CASE i \notin 1..m /\ j \in 1..m
    BY <1>8, <1>11, <1>13, <2>3
  <2>4. CASE i \notin 1..m /\ j \notin 1..m
    <3>1. i - m = j - m
      BY <1>8, <1>12, <1>13, <2>4
    <3> QED
      BY <1>5, <3>1
  <2> QED
    BY <2>1, <2>2, <2>3, <2>4
<1> QED
  BY <1>5, <1>7, <1>9, <1>10, <1>13 DEF Closings, new

\* Closing what was opened last leaves what was opened before it.
LEMMA CloseLeaves ==
    ASSUME Emptied, Emptied', NEW s \in Containers, Closings(s, proc[s]),
           Close(s)
    PROVE  Closings(s, proc'[s])
<1> DEFINE old == proc[s]
           n == Len(old.deferred)
           last == old.deferred[n]
           p == [old EXCEPT !.held = @ \ {last},
                            !.cancelled = @ \/ last = "signals",
                            !.deferred = SubSeq(@, 1, n - 1)]
<1>1. old \in Process /\ old.phase = "closing"
  BY DEF Close, In, Emptied, Good
<1>2. CASE old.deferred = <<>>
  BY <1>2, NothingOpened DEF Close, Becomes, Emptied
<1>3. CASE old.deferred # <<>>
  <2>1. old.deferred \in Seq(StepNames) /\ n \in Nat /\ n > 0
    BY <1>1, <1>3, EmptySeq, LenProperties DEF Process
  <2>2. /\ p.phase = "closing" /\ p.held = old.held \ {last}
        /\ p.deferred = SubSeq(old.deferred, 1, n - 1)
    <3> HIDE DEF last, n
    <3> QED
      BY <1>1 DEF Process
  <2>3. proc'[s] = p
    BY <1>3 DEF Close, Becomes, Emptied
  <2>4. \A k \in 1..(n - 1) : old.deferred[k] \in StepNames
    BY <2>1, ElementOfSeq
  <2> HIDE DEF n
  <2>5. /\ Len(p.deferred) = n - 1
        /\ \A i \in 1..(n - 1) : p.deferred[i] = old.deferred[i]
    BY <2>1, <2>2, <2>4, SubSeqProperties
  <2>6. /\ \A i \in 1..n : old.deferred[i] \in old.held \cup {"signals"}
        /\ \A i, j \in 1..n : old.deferred[i] = old.deferred[j] => i = j
    BY DEF Closings, n
  <2>7. \A i \in 1..(n - 1) : i \in 1..n /\ i # n
    BY <2>1
  <2>8. n \in 1..n
    BY <2>1
  <2> HIDE DEF p
  <2>9. \A i \in 1..(n - 1) : p.deferred[i] \in p.held \cup {"signals"}
    BY <2>2, <2>5, <2>6, <2>7, <2>8
  <2>10. \A i, j \in 1..(n - 1) : p.deferred[i] = p.deferred[j] => i = j
    BY <2>5, <2>6, <2>7
  <2> QED
    BY <2>2, <2>3, <2>5, <2>9, <2>10 DEF Closings
<1> QED
  BY <1>2, <1>3

LEMMA OpenedStep ==
    ASSUME Emptied, Opened, [Next]_vars
    PROVE  Opened'
<1>1. deployed' = deployed
  BY Lasting
<1>2. Emptied'
  BY EmptiedStep
<1>3. ASSUME NEW t \in Containers, Closings(t, proc'[t])
      PROVE  Closings(t, proc[t])'
  BY <1>1, <1>3 DEF Closings, Steps, Of
<1>4. ASSUME NEW s \in Containers, NEW p, Becomes(s, p), Closings(s, proc'[s])
      PROVE  Opened'
  <2>1. \A t \in Containers : t # s => proc'[t] = proc[t]
    BY <1>4 DEF Becomes, Emptied
  <2>2. \A t \in Containers : Closings(t, proc'[t])
    BY <1>4, <2>1 DEF Opened
  <2> QED
    BY <1>3, <2>2 DEF Opened
<1>5. ASSUME NEW s \in Containers PROVE proc[s] \in Process
  BY DEF Emptied
<1>6. ASSUME NEW s \in Containers, NEW p, Becomes(s, p)
      PROVE  p \in Process /\ proc'[s] = p
  BY <1>2, <1>6 DEF Becomes, Emptied
\* Most steps leave alone what was opened.
<1>7. ASSUME NEW s \in Containers, NEW p, Becomes(s, p),
             p.deferred = proc[s].deferred,
             proc[s].held \ {"signals"} \subseteq p.held,
             p.phase = "starting" => /\ proc[s].phase = "starting"
                                     /\ p.at = proc[s].at
                                     /\ p.held = proc[s].held
      PROVE  Opened'
  <2>1. Closings(s, p)
    BY <1>6, <1>7, KeepsOpen DEF Opened
  <2> QED
    BY <1>4, <1>6, <1>7, <2>1
<1>8. ASSUME NEW s \in Containers,
             Becomes(s, Down) \/ Becomes(s, [Down EXCEPT !.phase = "starting"])
      PROVE  Opened'
  BY <1>4, <1>6, <1>8, NothingOpened
<1>9. ASSUME NEW s \in Containers, Supervision(s) PROVE Opened'
  <2> DEFINE p == [proc[s] EXCEPT !.cancelled = TRUE]
  <2>1. /\ p.deferred = proc[s].deferred /\ p.held = proc[s].held
        /\ p.phase = proc[s].phase /\ p.at = proc[s].at
    BY <1>5 DEF Process
  <2>2. CASE Becomes(s, p)
    <3> HIDE DEF p
    <3> QED
      BY <1>7, <2>1, <2>2
  <2> QED
    BY <1>8, <1>9, <2>2 DEF Supervision, Launch, Signal, Kill
\* What comes after a server keeps everything but perhaps the signals.
<1>10. ASSUME NEW s \in Containers, NEW i
       PROVE  LET p == Stopping(s, proc[s], i)
                  q == [p EXCEPT !.forced = TRUE]
              IN  /\ p.phase # "starting" /\ q.phase # "starting"
                  /\ p.deferred = proc[s].deferred /\ q.deferred = proc[s].deferred
                  /\ p.held = proc[s].held /\ q.held = proc[s].held
  BY <1>5 DEF Stopping, Process
<1>11. ASSUME NEW s \in Containers
       PROVE  /\ ShuttingDown(s).phase # "starting"
              /\ ShuttingDown(s).deferred = proc[s].deferred
              /\ proc[s].held \ {"signals"} \subseteq ShuttingDown(s).held
  BY <1>5 DEF ShuttingDown, Stopping, Process
<1>12. ASSUME NEW s \in Containers,
              \/ Becomes(s, [proc[s] EXCEPT !.phase = "closing"])
              \/ Becomes(s, [proc[s] EXCEPT !.phase = "closing", !.forced = TRUE])
       PROVE  Opened'
  <2>1. LET p == [proc[s] EXCEPT !.phase = "closing"]
            q == [proc[s] EXCEPT !.phase = "closing", !.forced = TRUE]
        IN  /\ p.phase = "closing" /\ q.phase = "closing"
            /\ p.deferred = proc[s].deferred /\ q.deferred = proc[s].deferred
            /\ p.held = proc[s].held /\ q.held = proc[s].held
    BY <1>5 DEF Process
  <2>2. PICK p : Becomes(s, p) /\ p.phase = "closing"
                 /\ p.deferred = proc[s].deferred /\ p.held = proc[s].held
    BY <1>12, <2>1
  <2> QED
    BY <1>7, <2>2
<1>13. ASSUME NEW s \in Containers, Serving(s) PROVE Opened'
  <2>1. ASSUME NEW v \in {"http", "grpc"}, Arrive(s, v) \/ Answer(s, v)
        PROVE  Opened'
    <3>1. PICK p : /\ Becomes(s, p) /\ p.deferred = proc[s].deferred
                   /\ p.held = proc[s].held /\ p.phase = proc[s].phase
                   /\ p.at = proc[s].at
      BY <1>5, <2>1 DEF Arrive, Answer, Process
    <3> QED
      BY <1>7, <3>1
  <2>2. CASE ServeFails(s)
    <3>1. CASE Becomes(s, ShuttingDown(s))
      BY <1>7, <1>11, <3>1
    <3> QED
      BY <1>12, <2>2, <3>1 DEF ServeFails
  <2> QED
    BY <1>13, <2>1, <2>2 DEF Serving
<1>14. ASSUME NEW s \in Containers, Progress(s) PROVE Opened'
  <2>1. CASE Start(s)
    <3>1. Closings(s, proc'[s])
      BY <1>2, <2>1, StartOpens DEF Opened
    <3>2. \E p : Becomes(s, p)
      BY <2>1 DEF Start
    <3> QED
      BY <1>4, <3>1, <3>2
  <2>2. CASE Close(s)
    <3>1. Closings(s, proc'[s])
      BY <1>2, <2>2, CloseLeaves DEF Opened
    <3>2. \E p : Becomes(s, p)
      BY <2>2 DEF Close
    <3> QED
      BY <1>4, <3>1, <3>2
  <2>3. CASE StartFails(s) \/ WaitEnds(s)
    BY <1>8, <1>12, <2>3 DEF StartFails, WaitEnds
  <2>4. CASE ShutDown(s)
    BY <1>7, <1>11, <2>4 DEF ShutDown
  <2>5. CASE Drained(s)
    BY <1>7, <1>10, <2>5 DEF Drained
  <2>6. CASE StopTimesOut(s)
    BY <1>7, <1>10, <2>6 DEF StopTimesOut
  <2> QED
    BY <1>14, <2>1, <2>2, <2>3, <2>4, <2>5, <2>6 DEF Progress
<1>15. ASSUME NEW s \in Containers, Work(s) PROVE Opened'
  <2>1. PICK w : Becomes(s, [proc[s] EXCEPT !.worker = w])
    BY <1>15 DEF Work, Fetch, Reserve, Handle, HandleFails, Ack, WorkerEnds,
                 WorkerBecomes
  <2> DEFINE p == [proc[s] EXCEPT !.worker = w]
  <2>2. /\ p.deferred = proc[s].deferred /\ p.held = proc[s].held
        /\ p.phase = proc[s].phase /\ p.at = proc[s].at
    BY <1>5 DEF Process
  <2> HIDE DEF p
  <2> QED
    BY <1>7, <2>1, <2>2 DEF p
<1>16. ASSUME proc' = proc PROVE Opened'
  BY <1>3, <1>16 DEF Opened
<1>17. ASSUME NEW s \in Containers, Publish(s) PROVE Opened'
  BY <1>16, <1>17 DEF Publish
<1>18. CASE UNCHANGED vars
  BY <1>16, <1>18 DEF vars
<1> QED
  BY <1>9, <1>13, <1>14, <1>15, <1>17, <1>18 DEF Next

\* Streams, messages, signals and faults.
Counted ==
    /\ streams \subseteq {"USERS", "PAYMENTS", "ORDERS"}
    /\ message \in [Containers -> {"none", "published", "acked"}]
    /\ applied \subseteq Containers
    /\ reserved \subseteq Containers
    /\ signals \in [Containers -> 0..deployed.signals]
    /\ faults \in [Containers -> 0..MaxFaults]

LEMMA CountedStep ==
    ASSUME Emptied, Counted, [Next]_vars
    PROVE  Counted'
<1>1. deployed' = deployed /\ deployed.signals \in Nat /\ MaxFaults \in Nat
  BY Lasting, DeploymentsAssumption, BoundsAssumption DEF Emptied
<1>2. ASSUME NEW s \in Containers, Fault(s) \/ UNCHANGED faults
      PROVE  faults' \in [Containers -> 0..MaxFaults]
  <2>1. faults \in [Containers -> 0..MaxFaults]
    BY DEF Counted
  <2>2. faults[s] + 1 \in 0..MaxFaults \/ ~Fault(s)
    BY <1>1, <2>1 DEF Fault
  <2> QED
    BY <1>2, <2>1, <2>2 DEF Fault
<1>3. ASSUME NEW s \in Containers, Supervision(s) PROVE Counted'
  <2>1. signals' \in [Containers -> 0..deployed.signals]
    <3>1. CASE Signal(s)
      <4>1. signals \in [Containers -> 0..deployed.signals]
        BY DEF Counted
      <4>2. signals[s] + 1 \in 0..deployed.signals
        BY <1>1, <3>1, <4>1 DEF Signal
      <4> QED
        BY <3>1, <4>1, <4>2 DEF Signal
    <3> QED
      BY <1>3, <3>1 DEF Supervision, Launch, Kill, Counted
  <2>2. faults' \in [Containers -> 0..MaxFaults]
    BY <1>2, <1>3 DEF Supervision, Launch, Signal, Kill
  <2>3. UNCHANGED <<streams, message, applied, reserved>>
    BY <1>3 DEF Supervision, Launch, Signal, Kill
  <2> QED
    BY <1>1, <2>1, <2>2, <2>3 DEF Counted
<1>4. ASSUME NEW s \in Containers, Progress(s) PROVE Counted'
  <2>1. streams' \subseteq {"USERS", "PAYMENTS", "ORDERS"}
    <3>1. CASE Start(s)
      <4>1. deployed.runs[s] \in Services
        BY <3>1 DEF Start, In, Emptied, Good
      <4>2. Of(s).streams \subseteq {"USERS", "PAYMENTS", "ORDERS"}
        BY <4>1, PlanFacts DEF Of, Planned
      <4>3. streams' \subseteq streams \cup Of(s).streams
        BY <3>1 DEF Start
      <4> QED
        BY <4>2, <4>3 DEF Counted
    <3> QED
      BY <1>4, <3>1 DEF Progress, StartFails, ShutDown, Drained, StopTimesOut,
                        WaitEnds, Close, Counted
  <2>2. faults' \in [Containers -> 0..MaxFaults]
    BY <1>2, <1>4 DEF Progress, Start, StartFails, ShutDown, Drained,
                      StopTimesOut, WaitEnds, Close
  <2>3. UNCHANGED <<message, applied, reserved, signals>>
    BY <1>4 DEF Progress, Start, StartFails, ShutDown, Drained, StopTimesOut,
                WaitEnds, Close
  <2> QED
    BY <1>1, <2>1, <2>2, <2>3 DEF Counted
<1>5. ASSUME NEW s \in Containers, Serving(s) PROVE Counted'
  <2>1. faults' \in [Containers -> 0..MaxFaults]
    BY <1>2, <1>5 DEF Serving, Arrive, Answer, ServeFails
  <2>2. UNCHANGED <<streams, message, applied, reserved, signals>>
    BY <1>5 DEF Serving, Arrive, Answer, ServeFails
  <2> QED
    BY <1>1, <2>1, <2>2 DEF Counted
<1>6. ASSUME NEW s \in Containers, Publish(s) \/ Work(s) PROVE Counted'
  <2>1. faults' \in [Containers -> 0..MaxFaults]
    BY <1>2, <1>6 DEF Publish, Work, Fetch, Reserve, Handle, HandleFails, Ack,
                      WorkerEnds
  <2>2. /\ UNCHANGED <<streams, signals>>
        /\ applied' \subseteq Containers /\ reserved' \subseteq Containers
    BY <1>6 DEF Publish, Work, Fetch, Reserve, Handle, HandleFails, Released,
                Ack, WorkerEnds, Counted
  <2>3. message' \in [Containers -> {"none", "published", "acked"}]
    BY <1>6 DEF Publish, Work, Fetch, Reserve, Handle, HandleFails, Ack,
                WorkerEnds, Counted
  <2> QED
    BY <1>1, <2>1, <2>2, <2>3 DEF Counted
<1>7. CASE UNCHANGED vars
  BY <1>7 DEF vars, Counted
<1> QED
  BY <1>3, <1>4, <1>5, <1>6, <1>7 DEF Next

LEMMA StartsWell == ASSUME Init PROVE Emptied /\ Opened /\ Counted
<1>1. Emptied
  BY DownIsGood DEF Init, Emptied, Good
<1>2. Opened
  BY NothingOpened DEF Init, Opened
<1>3. 0 \in 0..deployed.signals /\ 0 \in 0..MaxFaults
  BY DeploymentsAssumption, BoundsAssumption DEF Init
<1>4. Counted
  BY <1>3 DEF Init, Counted
<1> QED
  BY <1>1, <1>2, <1>4

\* Whatever fails while a service starts, and whenever it is told to stop, what
\* it still has to close was opened and is not closed yet (the defers of each
\* Run and main), and faults, signals and messages keep their bounds.
THEOREM TypeCorrect == Spec => []TypeOK
<1> DEFINE Inv == Emptied /\ Opened /\ Counted
<1>1. Init => Inv
  BY StartsWell
<1>2. Inv /\ [Next]_vars => Inv'
  BY EmptiedStep, OpenedStep, CountedStep
<1>3. Inv => TypeOK
  <2> SUFFICES ASSUME Inv PROVE TypeOK
    OBVIOUS
  <2>1. ASSUME NEW s \in Containers, NEW i \in DOMAIN proc[s].deferred
        PROVE  proc[s].deferred[i] \in proc[s].held \cup {"signals"}
    <3>1. DOMAIN proc[s].deferred = 1..Len(proc[s].deferred)
      BY LenProperties DEF Emptied, Process
    <3> QED
      BY <2>1, <3>1 DEF Opened, Closings
  <2> QED
    BY <2>1 DEF TypeOK, Emptied, Counted
<1> QED
  BY <1>1, <1>2, <1>3, PTL DEF Spec
-----------------------------------------------------------------------------
(***************************************************************************)
(* The reservations of the receipt worker.  It runs only while its service *)
(* serves, and while nobody has stopped or disturbed that service what it  *)
(* needs is open, so that no mail it sends is refused.                     *)
(***************************************************************************)
\* The service whose worker reserves, and what its plan says.
LEMMA Reserving ==
    ASSUME NEW s, deployed.runs[s] \in Services, Reserves(s)
    PROVE  /\ Len(Steps(s)) = 10 /\ Steps(s)[10].name = "worker"
           /\ Steps(s)[2].name = "smtp" /\ Steps(s)[3].name = "redis"
           /\ \A k \in 1..9 : Steps(s)[k].name # "worker"
           /\ Of(s).worker = ReceiptWorker
<1>1. Of(s) = Notification(ReceiptWorker)
  <2>1. /\ Plan["auth"].worker.again # "skips"
        /\ Plan["profile"].worker.again # "skips"
        /\ Plan["catalog"].worker.again # "skips"
        /\ Plan["payments"].worker.again # "skips"
        /\ Plan["order"].worker.again # "skips"
        /\ Plan["notification"].worker.again # "skips"
        /\ Plan["gateway"].worker.again # "skips"
        /\ Plan["receipt"] = Notification(ReceiptWorker)
    BY DEF Plan, Auth, Profile, Catalog, Payments, Order, Notification, Gateway,
           NoWorker, ProfileWorker, OrderWorker, WelcomeWorker
  <2> QED
    BY <2>1, ServicesAre DEF Reserves, Of
<1>2. LET S == Notification(ReceiptWorker).steps IN
        /\ Len(S) = 10 /\ S[1].name = "config" /\ S[2].name = "smtp"
        /\ S[3].name = "redis" /\ S[4].name = "nats" /\ S[5].name = "signals"
        /\ S[6].name = "metrics" /\ S[7].name = "tracing"
        /\ S[8].name = "streams" /\ S[9].name = "consumer"
        /\ S[10].name = "worker"
  BY DEF Notification, Step, Nats, Redis, Signals, Metrics, Tracing
<1>3. Notification(ReceiptWorker).worker = ReceiptWorker
  BY DEF Notification
<1>4. \A k \in 1..9 : \/ k = 1 \/ k = 2 \/ k = 3 \/ k = 4 \/ k = 5
                      \/ k = 6 \/ k = 7 \/ k = 8 \/ k = 9
  OBVIOUS
<1> QED
  BY <1>1, <1>2, <1>3, <1>4 DEF Steps

Unstirred(p) ==
    /\ p.worker # "off" => p.phase = "serving" /\ {"redis", "smtp"} \subseteq p.held
    /\ p.phase \in {"starting", "serving"} => ~p.cancelled

\* While nothing disturbs it, a reservation belongs to a mail being sent or sent.
Steady(s) ==
    Reserves(s) /\ ~Disturbed(s) =>
        /\ Unstirred(proc[s])
        /\ s \in reserved => s \in applied \/ WorkerIs(s, "sending")

\* A worker past its handler has applied the message it had in hand.
AckingApplied ==
    \A s \in Containers : WorkerIs(s, "acking") =>
        s \in applied \/ (Reserves(s) /\ Disturbed(s))

Applied ==
    /\ Emptied /\ Opened /\ Counted
    /\ \A s \in Containers : Steady(s)
    /\ AckingApplied /\ AckedWasApplied

\* Signals and faults are counted up, and what was applied stays applied.
LEMMA Onwards ==
    ASSUME Emptied, Counted, [Next]_vars
    PROVE  /\ applied \subseteq applied' /\ deployed' = deployed
           /\ \A s \in Containers :
                /\ Disturbed(s) => Disturbed(s)'
                /\ Reserves(s)' <=> Reserves(s)
                /\ Signal(s) \/ Fault(s) => Disturbed(s)'
<1>1. applied \subseteq applied' /\ deployed' = deployed
  BY Lasting
<1>2. signals \in [Containers -> Nat] /\ faults \in [Containers -> Nat]
  <2>1. deployed.signals \in Nat /\ MaxFaults \in Nat
    BY DeploymentsAssumption, BoundsAssumption DEF Emptied
  <2> QED
    BY <2>1 DEF Counted
<1>3. /\ signals' = signals \/ \E t \in Containers : Signal(t)
      /\ faults' = faults \/ \E t \in Containers : Fault(t)
  BY Lasting
<1>4. ASSUME NEW s \in Containers
      PROVE  /\ signals[s] > 0 => signals'[s] > 0
             /\ faults[s] > 0 => faults'[s] > 0
             /\ Signal(s) => signals'[s] > 0
             /\ Fault(s) => faults'[s] > 0
  <2>1. ASSUME NEW t \in Containers, Signal(t), t = s \/ signals[s] > 0
        PROVE  signals'[s] > 0
    BY <1>2, <2>1 DEF Signal
  <2>2. ASSUME NEW t \in Containers, Fault(t), t = s \/ faults[s] > 0
        PROVE  faults'[s] > 0
    BY <1>2, <2>2 DEF Fault
  <2> QED
    BY <1>3, <2>1, <2>2
<1> QED
  BY <1>1, <1>4 DEF Disturbed, Reserves, Of

LEMMA SteadyStep ==
    ASSUME Applied, [Next]_vars, NEW s \in Containers
    PROVE  Steady(s)'
<1> SUFFICES ASSUME Reserves(s), ~Disturbed(s)'
             PROVE  /\ Unstirred(proc'[s])
                    /\ s \in reserved' =>
                         s \in applied' \/ proc'[s].worker = "sending"
  BY Onwards DEF Applied, Steady, WorkerIs
<1>1. /\ ~Disturbed(s) /\ ~Signal(s) /\ ~Fault(s)
      /\ applied \subseteq applied'
  BY Onwards DEF Applied
<1>2. /\ Unstirred(proc[s]) /\ proc[s] \in Process /\ Good(s, proc[s])
      /\ Closings(s, proc[s])
      /\ s \in reserved => s \in applied \/ proc[s].worker = "sending"
      /\ proc[s].worker = "acking" => s \in applied
  BY <1>1 DEF Applied, Steady, Emptied, Opened, AckingApplied, WorkerIs
<1>3. proc[s].phase # "down" => deployed.runs[s] \in Services
  BY <1>2 DEF Good
\* A step that lets no worker of this process go, and reserves nothing.
<1>4. ASSUME NEW p, Becomes(s, p), reserved' = reserved, Unstirred(p),
             proc[s].worker = "sending" => p.worker = "sending"
      PROVE  /\ Unstirred(proc'[s])
             /\ s \in reserved' =>
                  s \in applied' \/ proc'[s].worker = "sending"
  <2>1. proc'[s] = p
    BY <1>4 DEF Becomes, Applied, Emptied
  <2> QED
    BY <1>1, <1>2, <1>4, <2>1
<1>5. ASSUME proc'[s] = proc[s], s \in reserved' => s \in reserved
      PROVE  /\ Unstirred(proc'[s])
             /\ s \in reserved' =>
                  s \in applied' \/ proc'[s].worker = "sending"
  BY <1>1, <1>2, <1>5
<1>6. ASSUME NEW t \in Containers, t # s,
             Supervision(t) \/ Progress(t) \/ Serving(t) \/ Work(t)
      PROVE  proc'[s] = proc[s] /\ (s \in reserved' => s \in reserved)
  <2>1. PICK p : Becomes(t, p)
    BY <1>6 DEF Supervision, Launch, Signal, Kill, Progress, Start, StartFails,
         ShutDown, Drained, StopTimesOut, WaitEnds, Close, Serving, Arrive,
         Answer, ServeFails, Work, Fetch, Reserve, Handle, HandleFails, Ack,
         WorkerEnds, WorkerBecomes
  <2>2. proc'[s] = proc[s]
    BY <1>6, <2>1 DEF Becomes, Applied, Emptied
  <2>3. reserved' \in {reserved, reserved \cup {t}, reserved \ {t}}
    BY <1>6 DEF Supervision, Launch, Signal, Kill, Progress, Start, StartFails,
         ShutDown, Drained, StopTimesOut, WaitEnds, Close, Serving, Arrive,
         Answer, ServeFails, Work, Fetch, Reserve, Handle, HandleFails,
         Released, Ack, WorkerEnds
  <2> QED
    BY <1>6, <2>2, <2>3
\* A process that starts or ends has no worker at work.
<1>7. ASSUME NEW p, Becomes(s, p), reserved' = reserved,
             proc[s].phase # "serving", p.worker = "off",
             p.phase \notin {"starting", "serving"} \/ ~p.cancelled
      PROVE  /\ Unstirred(proc'[s])
             /\ s \in reserved' =>
                  s \in applied' \/ proc'[s].worker = "sending"
  BY <1>2, <1>4, <1>7 DEF Unstirred
<1>8. /\ Down.worker = "off" /\ Down.phase = "down"
      /\ [Down EXCEPT !.phase = "starting"].worker = "off"
      /\ [Down EXCEPT !.phase = "starting"].cancelled = FALSE
  BY DEF Down
<1>9. CASE Supervision(s)
  <2>1. Launch(s)
    BY <1>1, <1>9 DEF Supervision, Kill
  <2> QED
    BY <1>7, <1>8, <2>1 DEF Launch, In
<1>10. CASE Start(s)
  <2> DEFINE old == proc[s]
             step == NextStep(s)
             p == [old EXCEPT
                     !.phase = IF old.at = Len(Steps(s)) THEN "serving" ELSE @,
                     !.at = @ + 1, !.held = @ \cup {step.name},
                     !.deferred = @ \o step.defers,
                     !.worker = IF step.name = "worker" THEN "idle" ELSE @]
  <2>1. /\ old.phase = "starting" /\ old.worker = "off" /\ ~old.cancelled
        /\ deployed.runs[s] \in Services /\ old.at \in 1..Len(Steps(s))
    BY <1>2, <1>3, <1>10 DEF Start, In, Unstirred, Good
  <2>2. /\ p.phase = IF old.at = Len(Steps(s)) THEN "serving" ELSE "starting"
        /\ p.held = old.held \cup {step.name} /\ p.cancelled = old.cancelled
        /\ p.worker = IF step.name = "worker" THEN "idle" ELSE "off"
    BY <1>2, <2>1 DEF Process
  <2>3. Becomes(s, p) /\ reserved' = reserved
    BY <1>10 DEF Start
  <2>4. ASSUME step.name = "worker"
        PROVE  p.phase = "serving" /\ {"redis", "smtp"} \subseteq p.held
    <3>1. old.at = 10 /\ Len(Steps(s)) = 10
      <4>1. old.at \in 1..9 => step.name # "worker"
        BY <2>1, Reserving DEF NextStep
      <4>2. Len(Steps(s)) = 10
        BY <2>1, Reserving
      <4> HIDE DEF step
      <4> QED
        BY <2>1, <2>4, <4>1, <4>2
    <3>2. Steps(s)[2].name \in old.held /\ Steps(s)[3].name \in old.held
      BY <1>2, <2>1, <3>1 DEF Closings
    <3> QED
      BY <2>1, <2>2, <3>1, <3>2, Reserving
  <2> HIDE DEF p, step
  <2>5. Unstirred(p)
    BY <2>1, <2>2, <2>4 DEF Unstirred
  <2> QED
    BY <1>4, <2>1, <2>3, <2>5
<1>11. CASE StartFails(s) \/ WaitEnds(s)
  <2>1. /\ [proc[s] EXCEPT !.phase = "closing"].worker = proc[s].worker
        /\ [proc[s] EXCEPT !.phase = "closing"].phase = "closing"
    BY <1>2 DEF Process
  <2>2. /\ proc[s].phase # "serving" /\ proc[s].worker = "off"
        /\ reserved' = reserved
        /\ Becomes(s, Down) \/ Becomes(s, [proc[s] EXCEPT !.phase = "closing"])
    BY <1>2, <1>11 DEF StartFails, WaitEnds, In, Unstirred
  <2> QED
    BY <1>7, <1>8, <2>1, <2>2
<1>12. CASE ShutDown(s)
  BY <1>2, <1>12 DEF ShutDown, In, Unstirred
<1>13. CASE Drained(s) \/ StopTimesOut(s)
  <2> DEFINE p == Stopping(s, proc[s], proc[s].draining + 1)
             q == [p EXCEPT !.forced = TRUE]
  <2>1. /\ p.worker = proc[s].worker /\ q.worker = proc[s].worker
        /\ p.phase \in {"stopping", "waiting", "closing"} /\ q.phase = p.phase
    BY <1>2 DEF Stopping, Process
  <2>2. /\ proc[s].phase # "serving" /\ proc[s].worker = "off"
        /\ reserved' = reserved /\ (Becomes(s, p) \/ Becomes(s, q))
    BY <1>2, <1>13 DEF Drained, StopTimesOut, In, Unstirred
  <2> HIDE DEF p, q
  <2> QED
    BY <1>7, <2>1, <2>2
<1>14. CASE Close(s)
  <2> DEFINE old == proc[s]
             last == old.deferred[Len(old.deferred)]
             p == [old EXCEPT
                     !.held = @ \ {last},
                     !.cancelled = @ \/ last = "signals",
                     !.deferred = SubSeq(@, 1, Len(@) - 1)]
  <2>1. p.worker = old.worker /\ p.phase = old.phase
    BY <1>2 DEF Process
  <2>2. /\ old.phase = "closing" /\ old.worker = "off" /\ reserved' = reserved
        /\ Becomes(s, p) \/ Becomes(s, Down)
    BY <1>2, <1>14 DEF Close, In, Unstirred
  <2> HIDE DEF p
  <2> QED
    BY <1>7, <1>8, <2>1, <2>2
<1>15. CASE Serving(s)
  <2>1. ~ServeFails(s)
    BY <1>1 DEF ServeFails
  <2>2. PICK v \in {"http", "grpc"} : Arrive(s, v) \/ Answer(s, v)
    BY <1>15, <2>1 DEF Serving
  <2>3. PICK p : /\ Becomes(s, p) /\ reserved' = reserved
                 /\ p.worker = proc[s].worker /\ p.phase = proc[s].phase
                 /\ p.held = proc[s].held /\ p.cancelled = proc[s].cancelled
    BY <1>2, <2>2 DEF Arrive, Answer, Process
  <2> QED
    BY <1>2, <1>4, <2>3 DEF Unstirred
\* What the worker does: it is serving, has what it needs, and fails at nothing.
<1>16. CASE Work(s)
  <2>1. \A w \in {"off", "idle", "handling", "sending", "acking", "done"} :
          /\ [proc[s] EXCEPT !.worker = w].worker = w
          /\ [proc[s] EXCEPT !.worker = w].phase = proc[s].phase
          /\ [proc[s] EXCEPT !.worker = w].held = proc[s].held
          /\ [proc[s] EXCEPT !.worker = w].cancelled = proc[s].cancelled
    BY <1>2 DEF Process
  <2>2. proc[s].worker # "off"
    BY <1>16 DEF Work, Fetch, Reserve, Handle, HandleFails, Ack, WorkerEnds,
                 InHandler, WorkerIs
  <2>3. /\ proc[s].phase = "serving" /\ {"redis", "smtp"} \subseteq proc[s].held
        /\ ~proc[s].cancelled /\ deployed.runs[s] \in Services
    BY <1>2, <1>3, <2>2 DEF Unstirred
  <2>4. Usable(s)
    BY <2>3, Reserving DEF Usable, Needs, ReceiptWorker
  <2>5. ~HandleFails(s)
    BY <1>1, <2>4 DEF HandleFails
  <2>6. ASSUME NEW w \in {"off", "idle", "handling", "sending", "acking", "done"}
        PROVE  Unstirred([proc[s] EXCEPT !.worker = w])
    BY <2>1, <2>3 DEF Unstirred
  <2>7. CASE Fetch(s) \/ Ack(s) \/ WorkerEnds(s)
    <3>1. PICK w \in {"handling", "idle", "done"} :
            Becomes(s, [proc[s] EXCEPT !.worker = w])
      BY <2>7 DEF Fetch, Ack, WorkerEnds, WorkerBecomes
    <3>2. reserved' = reserved /\ proc[s].worker # "sending"
      BY <2>7 DEF Fetch, Ack, WorkerEnds, WorkerIs
    <3> QED
      BY <1>4, <2>6, <3>1, <3>2
  <2>8. CASE Reserve(s)
    <3> DEFINE w == IF s \in reserved THEN "acking" ELSE "sending"
    <3>1. proc'[s] = [proc[s] EXCEPT !.worker = w]
      BY <2>8 DEF Reserve, WorkerBecomes, Becomes, Applied, Emptied
    <3>2. Unstirred(proc'[s]) /\ proc'[s].worker = w
      BY <2>1, <2>6, <3>1
    <3>3. s \in reserved => s \in applied
      BY <1>2, <2>8 DEF Reserve, WorkerIs
    <3> QED
      BY <1>1, <3>2, <3>3
  <2>9. CASE Handle(s)
    <3>1. proc'[s] = [proc[s] EXCEPT !.worker = "acking"] /\ s \in applied'
      BY <2>9 DEF Handle, WorkerBecomes, Becomes, Applied, Emptied
    <3> QED
      BY <2>6, <3>1
  <2> QED
    BY <1>16, <2>5, <2>7, <2>8, <2>9 DEF Work
<1>17. CASE Publish(s) \/ UNCHANGED vars
  BY <1>5, <1>17 DEF Publish, vars
<1>18. ASSUME NEW t \in Containers, t # s, Publish(t)
       PROVE  proc'[s] = proc[s] /\ reserved' = reserved
  BY <1>18 DEF Publish
<1>19. CASE Progress(s)
  BY <1>10, <1>11, <1>12, <1>13, <1>14, <1>19 DEF Progress
<1> QED
  BY <1>5, <1>6, <1>9, <1>15, <1>16, <1>17, <1>18, <1>19 DEF Next

LEMMA AppliedStep == Applied /\ [Next]_vars => Applied'
<1> SUFFICES ASSUME Applied, [Next]_vars PROVE Applied'
  OBVIOUS
<1>1. Emptied' /\ Emptied /\ AckingApplied
  BY EmptiedStep DEF Applied
<1>2. /\ applied \subseteq applied'
      /\ \A s \in Containers :
           /\ Disturbed(s) => Disturbed(s)'
           /\ Reserves(s)' <=> Reserves(s)
  BY Onwards DEF Applied
\* What brings no worker past its handler.
<1>3. ASSUME NEW s \in Containers, NEW p, Becomes(s, p),
             p.worker # "acking" \/ p.worker = proc[s].worker
      PROVE  AckingApplied'
  BY <1>1, <1>2, <1>3 DEF Becomes, Emptied, AckingApplied, WorkerIs
<1>4. ASSUME NEW s \in Containers PROVE proc[s] \in Process
  BY <1>1 DEF Emptied
<1>5. ASSUME NEW s \in Containers, Supervision(s) PROVE AckingApplied'
  <2>1. Down.worker = "off" /\ [Down EXCEPT !.phase = "starting"].worker = "off"
        /\ [proc[s] EXCEPT !.cancelled = TRUE].worker = proc[s].worker
    BY <1>4 DEF Down, Process
  <2>2. PICK p : Becomes(s, p) /\ p.worker \in {"off", proc[s].worker}
    BY <1>5, <2>1 DEF Supervision, Launch, Signal, Kill
  <2> QED
    BY <1>3, <2>2
<1>6. ASSUME NEW s \in Containers, Serving(s) PROVE AckingApplied'
  <2>1. ASSUME NEW v \in {"http", "grpc"}, Arrive(s, v) \/ Answer(s, v)
        PROVE  AckingApplied'
    <3>1. PICK p : Becomes(s, p) /\ p.worker = proc[s].worker
      BY <1>4, <2>1 DEF Arrive, Answer, Process
    <3> QED
      BY <1>3, <3>1
  <2>2. CASE ServeFails(s)
    <3>1. /\ ShuttingDown(s).worker = proc[s].worker
          /\ [proc[s] EXCEPT !.phase = "closing", !.forced = TRUE].worker
               = proc[s].worker
      BY <1>4 DEF ShuttingDown, Stopping, Process
    <3>2. PICK p : Becomes(s, p) /\ p.worker = proc[s].worker
      BY <2>2, <3>1 DEF ServeFails
    <3> QED
      BY <1>3, <3>2
  <2> QED
    BY <1>6, <2>1, <2>2 DEF Serving
<1>7. ASSUME NEW s \in Containers, Progress(s) PROVE AckingApplied'
  <2>1. Down.worker = "off"
    BY DEF Down
  <2>2. ASSUME Start(s) PROVE AckingApplied'
    <3> DEFINE old == proc[s]
               step == NextStep(s)
               p == [old EXCEPT
                       !.phase = IF old.at = Len(Steps(s)) THEN "serving" ELSE @,
                       !.at = @ + 1, !.held = @ \cup {step.name},
                       !.deferred = @ \o step.defers,
                       !.worker = IF step.name = "worker" THEN "idle" ELSE @]
    <3>1. p.worker \in {"idle", old.worker}
      BY <1>4 DEF Process
    <3>2. Becomes(s, p)
      BY <2>2 DEF Start
    <3> HIDE DEF p
    <3> QED
      BY <1>3, <3>1, <3>2
  <2>3. ASSUME StartFails(s) \/ WaitEnds(s) PROVE AckingApplied'
    <3>1. [proc[s] EXCEPT !.phase = "closing"].worker = proc[s].worker
      BY <1>4 DEF Process
    <3>2. PICK p : Becomes(s, p) /\ p.worker \in {"off", proc[s].worker}
      BY <2>1, <2>3, <3>1 DEF StartFails, WaitEnds
    <3> QED
      BY <1>3, <3>2
  <2>4. ASSUME ShutDown(s) \/ Drained(s) \/ StopTimesOut(s) PROVE AckingApplied'
    <3>1. LET p == Stopping(s, proc[s], proc[s].draining + 1) IN
            /\ ShuttingDown(s).worker = proc[s].worker
            /\ p.worker = proc[s].worker
            /\ [p EXCEPT !.forced = TRUE].worker = proc[s].worker
      BY <1>4 DEF ShuttingDown, Stopping, Process
    <3>2. PICK p : Becomes(s, p) /\ p.worker = proc[s].worker
      BY <2>4, <3>1 DEF ShutDown, Drained, StopTimesOut
    <3> QED
      BY <1>3, <3>2
  <2>5. ASSUME Close(s) PROVE AckingApplied'
    <3> DEFINE old == proc[s]
               last == old.deferred[Len(old.deferred)]
               p == [old EXCEPT
                       !.held = @ \ {last},
                       !.cancelled = @ \/ last = "signals",
                       !.deferred = SubSeq(@, 1, Len(@) - 1)]
    <3>1. p.worker = old.worker
      BY <1>4 DEF Process
    <3>2. Becomes(s, p) \/ Becomes(s, Down)
      BY <2>5 DEF Close
    <3> HIDE DEF p
    <3> QED
      BY <1>3, <2>1, <3>1, <3>2
  <2> QED
    BY <1>7, <2>2, <2>3, <2>4, <2>5 DEF Progress
\* Past the handler are those that applied, and those that met a reservation.
<1>8. ASSUME NEW s \in Containers, Work(s) PROVE AckingApplied'
  <2>1. \A w \in {"off", "idle", "handling", "sending", "acking", "done"} :
          [proc[s] EXCEPT !.worker = w].worker = w
    BY <1>4 DEF Process
  <2>2. CASE Handle(s)
    <3>1. \A t \in Containers : t # s => proc'[t] = proc[t]
      BY <1>1, <2>2 DEF Handle, WorkerBecomes, Becomes, Emptied
    <3>2. s \in applied'
      BY <2>2 DEF Handle
    <3> QED
      BY <1>1, <1>2, <3>1, <3>2 DEF AckingApplied, WorkerIs
  <2>3. CASE Fetch(s) \/ HandleFails(s) \/ Ack(s) \/ WorkerEnds(s)
    <3>1. PICK w \in {"idle", "handling", "done"} :
            Becomes(s, [proc[s] EXCEPT !.worker = w])
      BY <2>3 DEF Fetch, HandleFails, Ack, WorkerEnds, WorkerBecomes
    <3> QED
      BY <1>3, <2>1, <3>1
  <2>4. CASE Reserve(s) /\ s \notin reserved
    <3>1. Becomes(s, [proc[s] EXCEPT !.worker = "sending"])
      BY <2>4 DEF Reserve, WorkerBecomes
    <3> QED
      BY <1>3, <2>1, <3>1
  <2>5. CASE Reserve(s) /\ s \in reserved
    <3>1. s \in applied \/ (Reserves(s) /\ Disturbed(s))
      BY <2>5 DEF Applied, Steady, Reserve, WorkerIs
    <3>2. \A t \in Containers : t # s => proc'[t] = proc[t]
      BY <1>1, <2>5 DEF Reserve, WorkerBecomes, Becomes, Emptied
    <3> QED
      BY <1>1, <1>2, <3>1, <3>2 DEF AckingApplied, WorkerIs
  <2> QED
    BY <1>8, <2>2, <2>3, <2>4, <2>5 DEF Work
<1>9. ASSUME proc' = proc PROVE AckingApplied'
  BY <1>1, <1>2, <1>9 DEF AckingApplied, WorkerIs
<1>10. AckingApplied'
  BY <1>5, <1>6, <1>7, <1>8, <1>9 DEF Next, Publish, vars
<1>11. message \in [Containers -> {"none", "published", "acked"}]
  BY DEF Applied, Counted
<1>12. ASSUME NEW s \in Containers, message'[s] = "acked"
       PROVE  s \in applied \/ (Reserves(s) /\ Disturbed(s))
  <2>0. message' = message \/ \E t \in Containers : Ack(t) \/ Publish(t)
    BY DEF Next, Supervision, Launch, Signal, Kill, Progress, Start,
         StartFails, ShutDown, Drained, StopTimesOut, WaitEnds, Close, Serving,
         Arrive, Answer, ServeFails, Work, Fetch, Reserve, Handle, HandleFails,
         WorkerEnds, vars
  <2>1. message'[s] = message[s] \/ Ack(s)
    BY <1>11, <1>12, <2>0 DEF Ack, Publish
  <2> QED
    BY <1>1, <1>12, <2>1 DEF Applied, AckedWasApplied, Ack, AckingApplied
<1>13. AckedWasApplied'
  BY <1>2, <1>12 DEF AckedWasApplied
<1> QED
  BY <1>1, <1>10, <1>13, SteadyStep, OpenedStep, CountedStep DEF Applied

\* No message is acknowledged that was not applied, although the worker is left
\* running while what it needs is closed: but for a receipt whose reservation a
\* signal, a kill or a failing call has left behind, or may have.
THEOREM AckedWasAppliedAlways == Spec => []AckedWasApplied
<1>1. Init => Applied
  <2> SUFFICES ASSUME Init PROVE Applied
    OBVIOUS
  <2>1. Emptied /\ Opened /\ Counted
    BY StartsWell
  <2>2. \A s \in Containers : Unstirred(proc[s]) /\ ~WorkerIs(s, "acking")
    BY DEF Init, Unstirred, WorkerIs, Down
  <2> QED
    BY <2>1, <2>2 DEF Init, Applied, Steady, AckingApplied, AckedWasApplied
<1>2. Applied => AckedWasApplied
  BY DEF Applied
<1> QED
  BY <1>1, <1>2, AppliedStep, PTL DEF Spec
=============================================================================
