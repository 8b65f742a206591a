---------------------------- MODULE StartupProofs ----------------------------
(***************************************************************************)
(* What docker compose up guarantees, for any number of messages, starts,    *)
(* stops and outages.                                                        *)
(***************************************************************************)
EXTENDS Startup, TLAPS

\* A database that is migrated stays so until its volume is removed, and with
\* it go the queue and everything that has seen its tables.
SchemaInv ==
    /\ server["postgres"] = "init" => pgdata = "empty"
    /\ api \in {"booting", "serving"} => pgdata = "migrated"
    /\ queue # {} => pgdata = "migrated"

\* A readiness check has seen every server the way it is now, and PostgreSQL
\* the way its probe found it.
CheckInv ==
    /\ Checking => Reachable \subseteq check.seen_up /\ Services \ Reachable \subseteq check.seen_down
    /\ check.at = "redis" => IF check.database THEN "postgres" \in check.seen_up
                                               ELSE "postgres" \in check.seen_down
    /\ ReadinessIsJustified

IInv == TypeOK /\ SchemaInv /\ CheckInv

LEMMA InitIInv == Init => IInv
<1> SUFFICES ASSUME Init PROVE IInv
  OBVIOUS
<1>1. TypeOK
  BY DEF Init, TypeOK, NoCheck, Checks, Services
<1>2. SchemaInv
  BY DEF Init, SchemaInv, Services
<1>3. CheckInv
  BY DEF Init, CheckInv, NoCheck, Checking, ReadinessIsJustified
<1> QED
  BY <1>1, <1>2, <1>3 DEF IInv

-----------------------------------------------------------------------------
\* Starting and stopping.

LEMMA DownIInv == ASSUME IInv, ComposeDown PROVE IInv'
<1> USE DEF IInv, ComposeDown, TornDown
<1>1. TypeOK'
  BY DEF TypeOK, NoCheck, Checks, Services
<1>2. SchemaInv'
  BY DEF SchemaInv, Services
<1>3. CheckInv'
  BY DEF CheckInv, NoCheck, Checking, ReadinessIsJustified
<1> QED
  BY <1>1, <1>2, <1>3

\* A server that comes up is seen by the check.
LEMMA SeenUpIInv ==
    ASSUME TypeOK, CheckInv, NEW s \in Services, SeenUp(s),
           server' = [server EXCEPT ![s] = "up"]
    PROVE  CheckInv' /\ check' \in Checks
<1>1. CASE Checking
  <2>1. check' = [check EXCEPT !.seen_up = @ \cup {s}]
    BY <1>1 DEF SeenUp
  <2>2. /\ check'.at = check.at /\ check'.database = check.database
        /\ check'.seen_up = check.seen_up \cup {s} /\ check'.seen_down = check.seen_down
        /\ check' \in Checks
    BY <2>1 DEF TypeOK, Checks
  <2>3. Reachable' = Reachable \cup {s}
    BY DEF Reachable, TypeOK
  <2> QED
    BY <1>1, <2>2, <2>3 DEF CheckInv, Checking, ReadinessIsJustified
<1>2. CASE ~Checking
  <2>1. check' = check
    BY <1>2 DEF SeenUp
  <2> QED
    BY <1>2, <2>1 DEF CheckInv, Checking, ReadinessIsJustified, TypeOK
<1> QED
  BY <1>1, <1>2

LEMMA StartServerIInv == ASSUME IInv, NEW s \in Services, StartServer(s) PROVE IInv'
<1> USE DEF IInv, StartServer
<1>1. CASE s = "postgres" /\ pgdata = "empty"
  <2>1. Reachable' = Reachable
    BY <1>1 DEF Reachable, TypeOK
  <2> QED
    BY <1>1, <2>1 DEF TypeOK, SchemaInv, CheckInv, Checking, ReadinessIsJustified
<1>2. CASE ~(s = "postgres" /\ pgdata = "empty")
  <2>1. CheckInv' /\ check' \in Checks
    BY <1>2, SeenUpIInv
  <2>2. TypeOK' /\ SchemaInv'
    BY <1>2, <2>1 DEF TypeOK, SchemaInv, Services
  <2> QED
    BY <2>1, <2>2
<1> QED
  BY <1>1, <1>2

LEMMA InitialiseIInv == ASSUME IInv, InitialiseVolume PROVE IInv'
<1> USE DEF IInv, InitialiseVolume
<1>1. "postgres" \in Services
  BY DEF Services
<1>2. CheckInv' /\ check' \in Checks
  BY <1>1, SeenUpIInv
<1>3. TypeOK' /\ SchemaInv'
  BY <1>1, <1>2 DEF TypeOK, SchemaInv
<1> QED
  BY <1>2, <1>3

\* The steps of the start that change no server.
LEMMA BootIInv ==
    ASSUME IInv,
           \/ ComposeUp \/ StartApi \/ Migrate \/ Serve \/ StartWorker
           \/ \E s \in Services : Healthcheck(s)
    PROVE  IInv'
<1> USE DEF IInv, ComposeUp, StartApi, Migrate, Serve, StartWorker, Healthcheck
<1>1. server' = server /\ check' = check /\ queue' = queue
  OBVIOUS
<1>2. CheckInv'
  BY <1>1 DEF CheckInv, Checking, Reachable, ReadinessIsJustified
<1>3. TypeOK'
  BY DEF TypeOK
<1>4. SchemaInv'
  BY DEF SchemaInv
<1> QED
  BY <1>2, <1>3, <1>4

-----------------------------------------------------------------------------
\* Running.

LEMMA QueueIInv ==
    ASSUME IInv, NEW j \in Jobs, Upload(j) \/ TakeTask(j) PROVE IInv'
BY DEF IInv, Upload, TakeTask, TypeOK, SchemaInv, CheckInv, Checking, Reachable,
       ReadinessIsJustified

LEMMA OutageIInv == ASSUME IInv, NEW s \in Services, Outage(s) PROVE IInv'
<1> USE DEF IInv, Outage
<1>1. Reachable' = Reachable \ {s}
  BY DEF Reachable, TypeOK
<1>2. queue' \subseteq queue
  OBVIOUS
<1>3. SchemaInv'
  BY <1>2 DEF SchemaInv, TypeOK
<1>4. CASE Checking
  <2>1. check' = [check EXCEPT !.seen_down = @ \cup {s}]
    BY <1>4
  <2>2. /\ check'.at = check.at /\ check'.database = check.database
        /\ check'.seen_down = check.seen_down \cup {s} /\ check'.seen_up = check.seen_up
        /\ check' \in Checks
    BY <2>1 DEF TypeOK, Checks
  <2>3. CheckInv'
    BY <1>1, <1>4, <2>2 DEF CheckInv, Checking, ReadinessIsJustified
  <2>4. TypeOK'
    BY <1>2, <2>2 DEF TypeOK
  <2> QED
    BY <1>3, <2>3, <2>4
<1>5. CASE ~Checking
  <2>1. check' = check
    BY <1>5
  <2> QED
    BY <1>2, <1>3, <1>5, <2>1 DEF TypeOK, CheckInv, Checking, ReadinessIsJustified
<1> QED
  BY <1>4, <1>5

LEMMA ReturnIInv == ASSUME IInv, NEW s \in Services, Return(s) PROVE IInv'
<1> USE DEF IInv, Return
<1>1. CheckInv' /\ check' \in Checks
  BY SeenUpIInv
<1>2. TypeOK' /\ SchemaInv'
  BY <1>1 DEF TypeOK, SchemaInv
<1> QED
  BY <1>1, <1>2

\* The check begins with what is reachable, and each probe finds what is.
LEMMA ReadinessIInv ==
    ASSUME IInv, AskReadiness \/ ProbeDatabase \/ ProbeRedis PROVE IInv'
<1> USE DEF IInv
<1>1. /\ server' = server /\ pgdata' = pgdata /\ queue' = queue /\ api' = api
      /\ Reachable' = Reachable /\ Reachable \subseteq Services
      /\ "postgres" \in Services /\ "redis" \in Services
  BY DEF AskReadiness, ProbeDatabase, ProbeRedis, Reachable, Services
<1>2. SchemaInv'
  BY <1>1 DEF SchemaInv
<1>3. CASE AskReadiness
  <2>1. /\ check'.at = "database" /\ check'.seen_up = Reachable
        /\ check'.seen_down = Services \ Reachable /\ check' \in Checks
    <3> DEFINE up == Reachable
               down == Services \ Reachable
    <3>1. up \in SUBSET Services /\ down \in SUBSET Services
      BY <1>1
    <3>2. check' = [NoCheck EXCEPT !.at = "database", !.seen_up = up, !.seen_down = down]
      BY <1>3 DEF AskReadiness
    <3> HIDE DEF up, down
    <3>3. check' = [at |-> "database", database |-> FALSE, status |-> 503,
                    seen_up |-> up, seen_down |-> down]
      BY <3>2 DEF NoCheck
    <3>4. check'.at = "database" /\ check'.seen_up = up /\ check'.seen_down = down
          /\ check' \in Checks
      BY <3>1, <3>3 DEF Checks
    <3> QED
      BY <3>4 DEF up, down
  <2> QED
    BY <1>1, <1>2, <1>3, <2>1
    DEF AskReadiness, TypeOK, CheckInv, Checking, ReadinessIsJustified
<1>4. CASE ProbeDatabase
  <2>1. /\ check'.at = "redis" /\ check'.seen_up = check.seen_up
        /\ check'.seen_down = check.seen_down
        /\ check'.database = ("postgres" \in Reachable) /\ check' \in Checks
    <3> DEFINE found == "postgres" \in Reachable
    <3>1. check' = [check EXCEPT !.at = "redis", !.database = found] /\ found \in BOOLEAN
      BY <1>4 DEF ProbeDatabase
    <3> HIDE DEF found
    <3>2. /\ check'.at = "redis" /\ check'.seen_up = check.seen_up
          /\ check'.seen_down = check.seen_down
          /\ check'.database = found /\ check' \in Checks
      BY <3>1 DEF TypeOK, Checks
    <3> QED
      BY <3>2 DEF found
  <2> QED
    BY <1>1, <1>2, <1>4, <2>1
    DEF ProbeDatabase, TypeOK, CheckInv, Checking, ReadinessIsJustified
<1>5. CASE ProbeRedis
  <2>1. /\ check'.at = "answered" /\ check'.seen_up = check.seen_up
        /\ check'.seen_down = check.seen_down
        /\ check'.status = (IF check.database /\ "redis" \in Reachable THEN 200 ELSE 503)
        /\ check' \in Checks
    <3> DEFINE status == IF check.database /\ "redis" \in Reachable THEN 200 ELSE 503
    <3>1. check' = [check EXCEPT !.at = "answered", !.status = status]
      BY <1>5 DEF ProbeRedis
    <3>2. status \in {200, 503}
      OBVIOUS
    <3> HIDE DEF status
    <3>3. /\ check'.at = "answered" /\ check'.seen_up = check.seen_up
          /\ check'.seen_down = check.seen_down
          /\ check'.status = status /\ check' \in Checks
      BY <3>1, <3>2 DEF TypeOK, Checks
    <3> QED
      BY <3>3 DEF status
  <2>2. check.seen_up \subseteq Services
    BY DEF TypeOK, Checks
  <2>3. ReadinessIsJustified'
    BY <1>1, <1>5, <2>1, <2>2 DEF ProbeRedis, CheckInv, Checking, ReadinessIsJustified, Services
  <2> QED
    BY <1>1, <1>2, <1>5, <2>1, <2>3 DEF ProbeRedis, TypeOK, CheckInv, Checking
<1> QED
  BY <1>3, <1>4, <1>5

-----------------------------------------------------------------------------
\* The invariant is inductive.
THEOREM StartupInvariant == Spec => []IInv
<1>1. ASSUME IInv, [Next]_vars PROVE IInv'
  <2>1. CASE Next
    BY <1>1, <2>1, DownIInv, StartServerIInv, InitialiseIInv, BootIInv, QueueIInv,
       OutageIInv, ReturnIInv, ReadinessIInv DEF Next, Boot
  <2>2. CASE UNCHANGED vars
    BY <1>1, <2>2 DEF vars, IInv, TypeOK, SchemaInv, CheckInv, Checking, Reachable,
                      ReadinessIsJustified
  <2> QED
    BY <1>1, <2>1, <2>2
<1> QED
  BY <1>1, InitIInv, PTL DEF Spec

\* The API serves only once alembic has applied the migration: the && of its
\* command, and the volume that only docker compose down -v takes away.
THEOREM MigratedBeforeServing == Spec => []ServesMigratedOnly
<1>1. IInv => ServesMigratedOnly
  BY DEF IInv, SchemaInv, ServesMigratedOnly
<1> QED
  BY <1>1, StartupInvariant, PTL

\* A worker, which does not wait for the migration, never has a task to take
\* before it.
THEOREM MigratedBeforeTasks == Spec => []TaskFindsSchema
<1>1. IInv => TaskFindsSchema
  BY DEF IInv, SchemaInv, TaskFindsSchema
<1> QED
  BY <1>1, StartupInvariant, PTL

\* The answer of GET /health/ready is right for the time of the request.
THEOREM ReadinessAnswers == Spec => []ReadinessIsJustified
<1>1. IInv => ReadinessIsJustified
  BY DEF IInv, CheckInv
<1> QED
  BY <1>1, StartupInvariant, PTL
=============================================================================
