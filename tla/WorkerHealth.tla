----------------------------- MODULE WorkerHealth -----------------------------
(***************************************************************************)
(* The heartbeat threads of the workers (worker/main.py, worker/           *)
(* heartbeat.py), the one Redis key they all write, and GET /v1/health     *)
(* (app/api/routes_health.py), which reads it.  Time passes in units.      *)
(* The thread beats beside the RQ loop and knows nothing of it: a fresh    *)
(* heartbeat says that some worker process runs, not that jobs are done.   *)
(*                                                                         *)
(* A step of a thread takes no time unless it waits for Redis or sleeps.   *)
(* The socket timeout bounds one wait for Redis, and Redis, when it is up, *)
(* answers within it.  A beat over an open connection waits once, for the  *)
(* reply to SET (sending so few bytes does not block).  The client connects *)
(* lazily, after beat has read the clock: without a connection a beat      *)
(* waits for one, and for the replies to two CLIENT SETINFO, before that.  *)
(***************************************************************************)
EXTENDS Naturals, FiniteSets

CONSTANTS
  Workers,
  Interval,     \* worker_heartbeat_interval_seconds
  StaleAfter,   \* worker_heartbeat_stale_after_seconds
  Timeout,      \* socket_timeout of the heartbeat's client
  Opening,      \* the waits for a connection, together
  Backoff       \* sleep after a failed beat

ASSUME TimesAssumption ==
  {Interval, StaleAfter, Timeout, Opening, Backoff} \subseteq Nat \ {0}

VARIABLES
  redis,   \* whether Redis answers
  key,     \* age of the time stored under cmis:worker:heartbeat
  stray,   \* age of the time in a SET that was given up and may be applied yet
  prompt,  \* whether the time stored is that of a beat over an open connection
  loop,    \* per worker: what the heartbeat thread does, and for how long
  open,    \* workers whose heartbeat client has a connection
  hurt,    \* workers at a beat that Redis or the connection failed meanwhile
  steady,  \* workers that have beaten, and neither failed nor lost the connection
  gone,    \* how long no worker process has run
  probe    \* the health request at work

heart == <<key, stray, prompt, loop, open, hurt, steady>>
vars == <<redis, heart, gone, probe>>

(* Ages above the threshold are all alike: Old stands for them. *)
Old == StaleAfter + 1
Absent == Old + 1
Older(age) == IF age < Old THEN age + 1 ELSE age
AgeOf(t) == IF t < Old THEN t ELSE Old

(* How long a beat of w may wait. *)
Patience(w) == IF w \in open THEN Timeout ELSE Opening + Timeout
Beating == {w \in Workers : loop[w].does = "beat"}

Dead == [does |-> "dead", for |-> 0]
Idle == [at |-> "idle", ok |-> FALSE, fresh |-> FALSE]

TypeOK ==
  /\ redis \in BOOLEAN
  /\ key \in 0..Absent /\ stray \in 0..Absent /\ prompt \in BOOLEAN
  /\ loop \in [Workers -> [does : {"dead", "beat", "backoff", "sleep"},
                           for : 0..(Interval + Opening + Timeout + Backoff)]]
  /\ open \subseteq Workers /\ hurt \subseteq Workers /\ steady \subseteq Workers
  /\ gone \in 0..Old
  /\ probe \in [at : {"idle", "redis", "worker", "replied"}, ok : BOOLEAN, fresh : BOOLEAN]

Init ==
  /\ redis = TRUE /\ key = Absent /\ stray = Absent /\ prompt = FALSE
  /\ loop = [w \in Workers |-> Dead]
  /\ open = {} /\ hurt = {} /\ steady = {} /\ gone = Old /\ probe = Idle

-----------------------------------------------------------------------------
(* main starts the thread, which beats at once, with a new client. *)
WorkerStarts(w) ==
  /\ loop[w] = Dead
  /\ loop' = [loop EXCEPT ![w] = [does |-> "beat", for |-> 0]]
  /\ gone' = 0
  /\ UNCHANGED <<redis, key, stray, prompt, open, hurt, steady, probe>>

(* The beat of w, if any, is over.  Of the SETs given up one is kept: Redis may      *)
(* apply it at any time, or never.                                         *)
GivesUp(w) ==
  /\ open' = open \ {w} /\ hurt' = hurt \ {w} /\ steady' = steady \ {w}
  /\ stray' \in {stray} \cup (IF w \in Beating THEN {AgeOf(loop[w].for)} ELSE {})
  /\ UNCHANGED <<key, prompt>>

WorkerDies(w) ==
  /\ loop[w] # Dead
  /\ loop' = [loop EXCEPT ![w] = Dead]
  /\ GivesUp(w)
  /\ UNCHANGED <<redis, gone, probe>>

(* Mutant: the SET does not overwrite. *)
BeatStoredOnce(w) ==
  /\ loop[w].does = "beat" /\ redis
  /\ key' = IF key = Absent THEN AgeOf(loop[w].for) ELSE key
  /\ prompt' = (w \in open)
  /\ loop' = [loop EXCEPT ![w] = [does |-> "sleep", for |-> 0]]
  /\ open' = open \cup {w} /\ hurt' = hurt \ {w} /\ steady' = steady \cup {w}
  /\ UNCHANGED <<redis, stray, gone, probe>>

(* SET key time.time(): the time is taken before the client connects and   *)
(* sends the command, and the last SET wins, whoever's time is newer.      *)
BeatStored(w) ==
  /\ loop[w].does = "beat" /\ redis
  /\ key' = AgeOf(loop[w].for)
  /\ prompt' = (w \in open)
  /\ loop' = [loop EXCEPT ![w] = [does |-> "sleep", for |-> 0]]
  /\ open' = open \cup {w} /\ hurt' = hurt \ {w} /\ steady' = steady \cup {w}
  /\ UNCHANGED <<redis, stray, gone, probe>>

(* RedisError: refused, cut off, or a wait that exceeded the timeout.  The *)
(* SET may have been sent, and may be applied all the same.                *)
BeatFails(w) ==
  /\ loop[w].does = "beat"
  /\ ~ redis \/ w \in hurt
  /\ loop' = [loop EXCEPT ![w] = [does |-> "backoff", for |-> 0]]
  /\ GivesUp(w)
  /\ UNCHANGED <<redis, gone, probe>>

(* Mutant: retries to connect and never gets back to beating. *)
BackoffAgain(w) ==
  /\ loop[w] = [does |-> "backoff", for |-> Backoff]
  /\ loop' = [loop EXCEPT ![w] = [does |-> "backoff", for |-> 0]]
  /\ UNCHANGED <<redis, key, stray, prompt, open, hurt, steady, gone, probe>>

(* time.sleep(1), a new client, and on to the sleep between two beats. *)
BackoffEnds(w) ==
  /\ loop[w] = [does |-> "backoff", for |-> Backoff]
  /\ loop' = [loop EXCEPT ![w] = [does |-> "sleep", for |-> 0]]
  /\ UNCHANGED <<redis, key, stray, prompt, open, hurt, steady, gone, probe>>

SleepEnds(w) ==
  /\ loop[w] = [does |-> "sleep", for |-> Interval]
  /\ loop' = [loop EXCEPT ![w] = [does |-> "beat", for |-> 0]]
  /\ UNCHANGED <<redis, key, stray, prompt, open, hurt, steady, gone, probe>>

(* A connection is lost.  During a beat, that may make it fail; otherwise  *)
(* the client notices at the next beat and connects again by itself.       *)
ConnectionDrops(w) ==
  /\ \/ w \in Beating \ hurt /\ hurt' = hurt \cup {w} /\ UNCHANGED <<open, steady>>
     \/ /\ w \in open \ Beating
        /\ open' = open \ {w} /\ steady' = steady \ {w}
        /\ UNCHANGED hurt
  /\ UNCHANGED <<redis, key, stray, prompt, loop, gone, probe>>

(* A SET that was given up reaches Redis. *)
StrayApplied ==
  /\ redis /\ stray # Absent
  /\ key' = stray /\ stray' = Absent /\ prompt' = FALSE
  /\ UNCHANGED <<redis, loop, open, hurt, steady, gone, probe>>

(* Redis stops answering, or its process ends, with its connections and    *)
(* perhaps the key.                                                        *)
RedisFails ==
  /\ redis
  /\ redis' = FALSE
  /\ \/ UNCHANGED heart
     \/ /\ stray' = Absent
        /\ open' = open \cap Beating /\ steady' = {}
        /\ \/ UNCHANGED <<key, prompt>>
           \/ key' = Absent /\ prompt' = FALSE
        /\ UNCHANGED <<loop, hurt>>
  /\ UNCHANGED <<gone, probe>>

RedisRecovers ==
  /\ ~ redis
  /\ redis' = TRUE
  /\ hurt' = hurt \cup Beating
  /\ UNCHANGED <<key, stray, prompt, loop, open, steady, gone, probe>>

-----------------------------------------------------------------------------
(* The health handler: Postgres, Redis, worker, one after the other. *)

CheckPostgres ==
  /\ probe.at = "idle"
  /\ \E ok \in BOOLEAN : probe' = [at |-> "redis", ok |-> ok, fresh |-> FALSE]
  /\ UNCHANGED <<redis, heart, gone>>

CheckRedis ==
  /\ probe.at = "redis"
  /\ probe' = [probe EXCEPT !.at = "worker", !.ok = @ /\ redis]
  /\ UNCHANGED <<redis, heart, gone>>

(* Mutant: a key that is not there counts as fresh. *)
FreshIfAbsent == key = Absent \/ key <= StaleAfter

(* The key is there and its time is not older than the threshold. *)
Fresh == key <= StaleAfter

(* _check_worker, and the status of the reply. *)
CheckWorker ==
  /\ probe.at = "worker"
  /\ probe' = [at |-> "replied", ok |-> probe.ok /\ redis /\ Fresh, fresh |-> redis /\ Fresh]
  /\ UNCHANGED <<redis, heart, gone>>

Reply ==
  /\ probe.at = "replied"
  /\ probe' = Idle
  /\ UNCHANGED <<redis, heart, gone>>

(* Mutant: the client has no socket timeout. *)
DueWithoutTimeout(w) == \/ loop[w] = [does |-> "backoff", for |-> Backoff]
                        \/ loop[w] = [does |-> "sleep", for |-> Interval]

(* A second passes, unless something is due.  Redis answers a beat that    *)
(* is not hurt within its patience.                                        *)
Due(w) == \/ /\ w \in Beating
             /\ loop[w].for >= Patience(w) - (IF redis /\ w \notin hurt THEN 1 ELSE 0)
          \/ loop[w] = [does |-> "backoff", for |-> Backoff]
          \/ loop[w] = [does |-> "sleep", for |-> Interval]

Tick ==
  /\ probe.at # "replied"
  /\ \A w \in Workers : ~ Due(w)
  /\ key' = Older(key) /\ stray' = Older(stray)
  /\ loop' = [w \in Workers |-> IF loop[w] = Dead THEN Dead ELSE [loop[w] EXCEPT !.for = @ + 1]]
  /\ gone' = IF \A w \in Workers : loop[w] = Dead THEN Older(gone) ELSE 0
  /\ UNCHANGED <<redis, prompt, open, hurt, steady, probe>>

LoopStep(w) == BeatStored(w) \/ BeatFails(w) \/ BackoffEnds(w) \/ SleepEnds(w)
ProbeStep == CheckPostgres \/ CheckRedis \/ CheckWorker \/ Reply

Next == \/ \E w \in Workers : WorkerStarts(w) \/ WorkerDies(w) \/ LoopStep(w) \/ ConnectionDrops(w)
        \/ StrayApplied
        \/ RedisFails \/ RedisRecovers
        \/ ProbeStep
        \/ Tick

Spec == Init /\ [][Next]_vars

(* Time goes on, also between requests and restarts that keep coming (hence *)
(* strong fairness), threads and requests are scheduled.  Nothing makes    *)
(* Redis recover or a worker start.                                        *)
FairSpec == /\ Spec /\ SF_vars(Tick)
            /\ WF_vars(CheckRedis \/ CheckWorker \/ Reply)
            /\ \A w \in Workers : WF_vars(LoopStep(w))

-----------------------------------------------------------------------------
(* Properties *)

(* GET /v1/health says "ok" only if a worker process was running within    *)
(* the last StaleAfter units: however slow a beat was, whichever worker  *)
(* wrote last, whatever Redis applied late, and whatever happened between  *)
(* the three checks.                                                       *)
OkMeansWorkerRan == probe.at = "replied" /\ probe.ok => gone <= StaleAfter

(* No false alarm once connected: while some worker has beaten and neither *)
(* failed nor lost its connection since, a heartbeat that was stored over  *)
(* an open connection is fresh.  A slower worker may overwrite the key     *)
(* with an older time, which is why two timeouts must fit.  A time stored  *)
(* by a beat that had to connect first, as each worker's first one has to, *)
(* may be stale at once, though no beat failed.                            *)
SteadyWorkerIsFresh == steady # {} /\ prompt => key <= StaleAfter

(* With Redis up, some worker running, no connection lost and no worker    *)
(* starting from some time on, the heartbeat becomes fresh and stays so,   *)
(* whatever has failed before.                                             *)
FreshInTheEnd ==
  \A w \in Workers :
    /\ <>[](redis /\ loop[w] # Dead)
    /\ <>[][\A v \in Workers : ~ (ConnectionDrops(v) \/ WorkerStarts(v))]_vars
    => <>[](key <= StaleAfter)
=============================================================================
