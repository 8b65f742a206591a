------------------------------- MODULE Startup -------------------------------
(***************************************************************************)
(* docker compose up: the four services of docker-compose.yml, the migration *)
(* that runs before the API serves, the worker that does not wait for it,    *)
(* the volumes that outlive docker compose down, and the readiness probe of  *)
(* the API, while PostgreSQL and Redis come and go.                          *)
(*                                                                           *)
(*   server[s]: off -> (init ->) up <-> lost                                 *)
(*   api:       created -> migrating -> booting -> serving                   *)
(*                             \-> exited (no restart policy)                *)
(*                                                                           *)
(* pg_isready asks over the Unix socket, where the server with which the     *)
(* image initialises an empty volume answers too, before anything listens    *)
(* on the network.                                                           *)
(***************************************************************************)
EXTENDS FiniteSets

CONSTANT Jobs    \* whose messages may be in the queue

Services == {"postgres", "redis"}

VARIABLES
    stack,      \* the last command: docker compose down or up
    server,     \* PostgreSQL and Redis
    pgdata,     \* the volume of PostgreSQL; it outlives the containers
    queue,      \* the messages in Redis, which has no such volume
    healthy,    \* the services a healthcheck has found healthy
    api, worker,
    disturbed,  \* since up: a server was lost, or taken for ready too early
    check       \* a GET /health/ready

vars == <<stack, server, pgdata, queue, healthy, api, worker, disturbed, check>>

Checks ==
    [at : {"idle", "database", "redis", "answered"}, database : BOOLEAN,
     status : {200, 503}, seen_up : SUBSET Services, seen_down : SUBSET Services]

TypeOK ==
    /\ stack \in {"up", "down"}
    /\ server \in [Services -> {"off", "init", "up", "lost"}]
    /\ pgdata \in {"empty", "cluster", "migrated"}
    /\ queue \subseteq Jobs
    /\ healthy \subseteq Services
    /\ api \in {"created", "migrating", "booting", "serving", "exited"}
    /\ worker \in {"created", "running"}
    /\ disturbed \in BOOLEAN
    /\ check \in Checks

NoCheck ==
    [at |-> "idle", database |-> FALSE, status |-> 503, seen_up |-> {}, seen_down |-> {}]

Init ==
    /\ stack = "down" /\ server = [s \in Services |-> "off"]
    /\ pgdata = "empty" /\ queue = {} /\ healthy = {}
    /\ api = "created" /\ worker = "created"
    /\ disturbed = FALSE /\ check = NoCheck

-----------------------------------------------------------------------------
ComposeUp ==
    /\ stack = "down" /\ stack' = "up"
    /\ UNCHANGED <<server, pgdata, queue, healthy, api, worker, disturbed, check>>

\* down, or down -v, but not while PostgreSQL initialises its volume.
TornDown ==
    /\ stack = "up" /\ stack' = "down"
    /\ server["postgres"] # "init" /\ server' = [s \in Services |-> "off"]
    /\ pgdata' \in {pgdata, "empty"}
    /\ healthy' = {} /\ api' = "created" /\ worker' = "created"
    /\ disturbed' = FALSE /\ check' = NoCheck

\* Mutant: the queue has a named volume that a new database does not take away.
ComposeDownKeepingQueue == TornDown /\ UNCHANGED queue

ComposeDown == TornDown /\ queue' = {}

Checking == check.at \in {"database", "redis"}

SeenUp(s) == check' = IF Checking THEN [check EXCEPT !.seen_up = @ \cup {s}] ELSE check

StartServer(s) ==
    /\ stack = "up" /\ server[s] = "off"
    /\ IF s = "postgres" /\ pgdata = "empty"
       THEN server' = [server EXCEPT ![s] = "init"] /\ UNCHANGED check
       ELSE server' = [server EXCEPT ![s] = "up"] /\ SeenUp(s)
    /\ UNCHANGED <<stack, pgdata, queue, healthy, api, worker, disturbed>>

InitialiseVolume ==
    /\ server["postgres"] = "init"
    /\ server' = [server EXCEPT !["postgres"] = "up"]
    /\ pgdata' = "cluster" /\ SeenUp("postgres")
    /\ UNCHANGED <<stack, queue, healthy, api, worker, disturbed>>

\* pg_isready, redis-cli ping.
Healthcheck(s) ==
    /\ server[s] \in {"init", "up"} /\ s \notin healthy
    /\ healthy' = healthy \cup {s}
    /\ disturbed' = (disturbed \/ server[s] = "init")
    /\ UNCHANGED <<stack, server, pgdata, queue, api, worker, check>>

-----------------------------------------------------------------------------
\* Mutant: depends_on without its condition.
StartApiAtOnce ==
    /\ stack = "up" /\ api = "created"
    /\ api' = "migrating"
    /\ UNCHANGED <<stack, server, pgdata, queue, healthy, worker, disturbed, check>>

StartApi ==
    /\ stack = "up" /\ api = "created" /\ healthy = Services
    /\ api' = "migrating"
    /\ UNCHANGED <<stack, server, pgdata, queue, healthy, worker, disturbed, check>>

\* Mutant: a ; for the &&.
MigrateAnyway ==
    /\ api = "migrating"
    /\ api' = "booting"
    /\ pgdata' = IF server["postgres"] = "up" THEN "migrated" ELSE pgdata
    /\ UNCHANGED <<stack, server, queue, healthy, worker, disturbed, check>>

\* alembic upgrade head && ...: one transaction, nothing if it ran before.
Migrate ==
    /\ api = "migrating"
    /\ IF server["postgres"] = "up"
       THEN api' = "booting" /\ pgdata' = "migrated"
       ELSE api' = "exited" /\ UNCHANGED pgdata
    /\ UNCHANGED <<stack, server, queue, healthy, worker, disturbed, check>>

\* uvicorn imports app.main: create_app asks neither server.
Serve ==
    /\ api = "booting" /\ api' = "serving"
    /\ UNCHANGED <<stack, server, pgdata, queue, healthy, worker, disturbed, check>>

StartWorker ==
    /\ stack = "up" /\ worker = "created" /\ healthy = Services
    /\ worker' = "running"
    /\ UNCHANGED <<stack, server, pgdata, queue, healthy, api, disturbed, check>>

\* An accepted upload: the INSERT needs the table.
Upload(j) ==
    /\ api = "serving" /\ j \notin queue
    /\ server = [s \in Services |-> "up"] /\ pgdata = "migrated"
    /\ queue' = queue \cup {j}
    /\ UNCHANGED <<stack, server, pgdata, healthy, api, worker, disturbed, check>>

TakeTask(j) ==
    /\ worker = "running" /\ server["redis"] = "up" /\ j \in queue
    /\ queue' = queue \ {j}
    /\ UNCHANGED <<stack, server, pgdata, healthy, api, worker, disturbed, check>>

-----------------------------------------------------------------------------
\* A server is lost or returns, perhaps in the middle of a readiness check.
\* Redis may have lost messages since its last snapshot.
Outage(s) ==
    /\ server[s] = "up" /\ server' = [server EXCEPT ![s] = "lost"]
    /\ IF s = "redis" THEN queue' \in SUBSET queue ELSE UNCHANGED queue
    /\ disturbed' = TRUE
    /\ check' = IF Checking THEN [check EXCEPT !.seen_down = @ \cup {s}] ELSE check
    /\ UNCHANGED <<stack, pgdata, healthy, api, worker>>

Return(s) ==
    /\ server[s] = "lost" /\ server' = [server EXCEPT ![s] = "up"]
    /\ SeenUp(s)
    /\ UNCHANGED <<stack, pgdata, queue, healthy, api, worker, disturbed>>

Reachable == {s \in Services : server[s] = "up"}

AskReadiness ==
    /\ api = "serving" /\ ~Checking
    /\ check' = [NoCheck EXCEPT !.at = "database", !.seen_up = Reachable,
                                !.seen_down = Services \ Reachable]
    /\ UNCHANGED <<stack, server, pgdata, queue, healthy, api, worker, disturbed>>

ProbeDatabase ==
    /\ check.at = "database"
    /\ check' = [check EXCEPT !.at = "redis", !.database = "postgres" \in Reachable]
    /\ UNCHANGED <<stack, server, pgdata, queue, healthy, api, worker, disturbed>>

\* Mutant: the last probe decides.
ProbeRedisOnly ==
    /\ check.at = "redis"
    /\ check' = [check EXCEPT !.at = "answered",
                              !.status = IF "redis" \in Reachable THEN 200 ELSE 503]
    /\ UNCHANGED <<stack, server, pgdata, queue, healthy, api, worker, disturbed>>

ProbeRedis ==
    /\ check.at = "redis"
    /\ check' = [check EXCEPT
                    !.at = "answered",
                    !.status = IF check.database /\ "redis" \in Reachable THEN 200 ELSE 503]
    /\ UNCHANGED <<stack, server, pgdata, queue, healthy, api, worker, disturbed>>

-----------------------------------------------------------------------------
Boot ==
    \/ \E s \in Services : StartServer(s) \/ Healthcheck(s)
    \/ InitialiseVolume \/ StartApi \/ Migrate \/ Serve \/ StartWorker

Next ==
    \/ Boot \/ ComposeUp \/ ComposeDown
    \/ \E s \in Services : Outage(s) \/ Return(s)
    \/ \E j \in Jobs : Upload(j) \/ TakeTask(j)
    \/ AskReadiness \/ ProbeDatabase \/ ProbeRedis

Spec == Init /\ [][Next]_vars

\* Docker starts what it may start, and every container gets on.
Fairness ==
    /\ \A s \in Services : WF_vars(StartServer(s)) /\ WF_vars(Healthcheck(s))
    /\ WF_vars(InitialiseVolume) /\ WF_vars(StartApi) /\ WF_vars(Migrate)
    /\ WF_vars(Serve) /\ WF_vars(StartWorker)

FairSpec == Spec /\ Fairness

-----------------------------------------------------------------------------
\* The API takes requests only on a migrated database, whatever is lost while
\* it starts and whichever volumes an earlier stack has left.
ServesMigratedOnly == api = "serving" => pgdata = "migrated"

\* No worker finds a task before the tables exist, although it does not wait
\* for the migration: messages do not outlive the database they speak of.
TaskFindsSchema == worker = "running" /\ queue # {} => pgdata = "migrated"

\* The order of the start needs no manual step: unless a server is lost on the
\* way, or PostgreSQL is taken for ready while it initialises its volume, the
\* stack comes up.
StackComesUp ==
    (stack = "up" /\ ~disturbed) ~>
        (stack = "down" \/ disturbed \/ (api = "serving" /\ worker = "running"))

\* A 200 says that each server was reachable during the request (perhaps never
\* both at once), a 503 that one was not: no outage between the two probes
\* makes the answer wrong.
ReadinessIsJustified ==
    check.at = "answered" =>
        IF check.status = 200 THEN check.seen_up = Services ELSE check.seen_down # {}
=============================================================================
