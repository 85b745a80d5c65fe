-------------------------- MODULE WorkerHealthProofs --------------------------
(***************************************************************************)
(* Theorems about WorkerHealth, for any workers and any times.  What a     *)
(* fresh heartbeat means needs no relation between the times; that a       *)
(* steady worker keeps it fresh needs one, which the defaults just meet    *)
(* for beats over an open connection, and not for others.                  *)
(***************************************************************************)
EXTENDS WorkerHealth, TLAPS

(* How long a thread can be at what it does. *)
LoopInv ==
  \A w \in Workers :
    /\ loop[w].does = "beat" => loop[w].for <= Patience(w)
    /\ loop[w].does = "backoff" => loop[w].for <= Backoff
    /\ loop[w].does = "sleep" => loop[w].for <= Interval
    /\ loop[w].does = "dead" => loop[w].for = 0

(* The time stored, or still to be stored by a stray SET, is no younger    *)
(* than the last time a worker ran: every beat takes its time while its  *)
(* own thread runs.                                                        *)
GoneInv ==
  /\ \A w \in Workers : loop[w] # Dead => gone = 0
  /\ key # Absent => gone <= key
  /\ stray # Absent => gone <= stray

(* The request keeps its "ok" while it is answered: no time passes there. *)
ProbeInv ==
  /\ probe.at = "idle" => ~ probe.ok
  /\ OkMeansWorkerRan

HealthInv == TypeOK /\ LoopInv /\ GoneInv /\ ProbeInv

(* A steady worker has a connection and has stored a beat.  If the time    *)
(* stored last is prompt, its beat took at most Timeout, whoever's it was: *)
(* the key ages with the steady worker's own sleep and its next beat, and  *)
(* with nothing else.                                                      *)
SteadyInv ==
  /\ steady \subseteq open
  /\ \A w \in steady :
       /\ loop[w].does \in {"beat", "sleep"}
       /\ prompt /\ loop[w].does = "sleep" => key <= loop[w].for + Timeout
       /\ prompt /\ loop[w].does = "beat" => key <= loop[w].for + Interval + Timeout

Threads == {"dead", "beat", "backoff", "sleep"}

USE TimesAssumption

-----------------------------------------------------------------------------
LEMMA AgeArithmetic ==
  ASSUME NEW a \in 0..Absent, NEW t \in Nat
  PROVE  /\ AgeOf(t) \in 0..Old /\ AgeOf(t) <= t
         /\ Older(a) \in 0..Absent /\ Older(a) <= a + 1
         /\ a \in 0..Old => Older(a) \in 0..Old
BY DEF AgeOf, Older, Old, Absent

(* The forms of a thread's state, and its bounds. *)
LEMMA ThreadShape ==
  ASSUME TypeOK, LoopInv, NEW w \in Workers
  PROVE  /\ loop[w] = [does |-> loop[w].does, for |-> loop[w].for]
         /\ loop[w].does \in Threads /\ loop[w].for \in Nat
         /\ loop[w] = Dead <=> loop[w].does = "dead"
BY DEF TypeOK, LoopInv, Threads, Dead

LEMMA InitHealth == Init => HealthInv /\ SteadyInv
<1> SUFFICES ASSUME Init  PROVE HealthInv /\ SteadyInv
  OBVIOUS
<1>1. \A w \in Workers : loop[w] = Dead
  BY DEF Init
<1>2. TypeOK
  <2>1. Dead \in [does : Threads, for : 0..(Interval + Opening + Timeout + Backoff)]
    BY DEF Dead, Threads
  <2>2. Old \in 0..Old /\ Absent \in 0..Absent
    BY DEF Old, Absent
  <2> QED  BY <2>1, <2>2 DEF Init, TypeOK, Threads, Idle
<1>3. LoopInv /\ GoneInv /\ ProbeInv
  BY <1>1 DEF Init, LoopInv, GoneInv, ProbeInv, OkMeansWorkerRan, Dead, Idle
<1>4. SteadyInv
  BY DEF Init, SteadyInv
<1> QED  BY <1>2, <1>3, <1>4 DEF HealthInv

(* The bounds of the threads that a step leaves alone stay, if their       *)
(* connections do while they beat.                                         *)
LEMMA LoopFrame ==
  ASSUME LoopInv, loop' = loop,
         \A v \in Workers : loop[v].does = "beat" => (v \in open' <=> v \in open)
  PROVE  LoopInv'
BY DEF LoopInv, Patience

(* The same, where the thread of w begins something. *)
LEMMA LoopBegins ==
  ASSUME TypeOK, LoopInv, NEW w \in Workers, NEW d \in Threads,
         loop' = [loop EXCEPT ![w] = [does |-> d, for |-> 0]],
         \A v \in Workers : v # w => (v \in open' <=> v \in open)
  PROVE  LoopInv'
<1> SUFFICES ASSUME NEW v \in Workers
             PROVE  /\ loop'[v].does = "beat" => loop'[v].for <= Patience(v)'
                    /\ loop'[v].does = "backoff" => loop'[v].for <= Backoff
                    /\ loop'[v].does = "sleep" => loop'[v].for <= Interval
                    /\ loop'[v].does = "dead" => loop'[v].for = 0
  BY DEF LoopInv
<1>1. CASE v = w
  <2>1. loop'[v].for = 0
    BY <1>1 DEF TypeOK
  <2>2. 0 <= Patience(v)'
    BY DEF Patience
  <2> QED  BY <2>1, <2>2
<1>2. CASE v # w
  <2>1. loop'[v] = loop[v] /\ Patience(v)' = Patience(v)
    BY <1>2 DEF TypeOK, Patience
  <2> QED  BY <2>1 DEF LoopInv
<1> QED  BY <1>1, <1>2

LEMMA StartsHealth ==
  ASSUME HealthInv, NEW w \in Workers, WorkerStarts(w)
  PROVE  HealthInv'
<1>1. TypeOK'
  BY DEF HealthInv, TypeOK, WorkerStarts, Old
<1>2. LoopInv'
  BY LoopBegins DEF HealthInv, WorkerStarts, Threads
<1>3. GoneInv' /\ ProbeInv'
  BY DEF HealthInv, TypeOK, GoneInv, ProbeInv, OkMeansWorkerRan, WorkerStarts, Old, Absent
<1> QED  BY <1>1, <1>2, <1>3 DEF HealthInv

(* A SET that is given up carries a time at which its worker ran. *)
LEMMA GivesUpTypes ==
  ASSUME HealthInv, NEW w \in Workers, loop[w] # Dead, GivesUp(w)
  PROVE  /\ stray' \in 0..Absent
         /\ stray' # Absent => gone <= stray'
         /\ open' \subseteq Workers /\ hurt' \subseteq Workers /\ steady' \subseteq Workers
         /\ UNCHANGED <<key, prompt>>
         /\ \A v \in Workers : v # w => (v \in open' <=> v \in open)
<1>1. loop[w].for \in Nat /\ gone = 0
  BY DEF HealthInv, TypeOK, GoneInv
<1>2. stray' = stray \/ stray' = AgeOf(loop[w].for)
  BY DEF GivesUp
<1>3. stray' \in 0..Absent /\ gone <= stray'
  BY <1>1, <1>2, AgeArithmetic DEF HealthInv, TypeOK, Old, Absent
<1>4. open' \subseteq Workers /\ hurt' \subseteq Workers /\ steady' \subseteq Workers
  BY DEF GivesUp, HealthInv, TypeOK
<1> QED  BY <1>3, <1>4 DEF GivesUp

LEMMA DiesHealth ==
  ASSUME HealthInv, NEW w \in Workers, WorkerDies(w)
  PROVE  HealthInv'
<1>0. GivesUp(w) /\ loop[w] # Dead /\ loop' = [loop EXCEPT ![w] = Dead]
      /\ UNCHANGED <<redis, gone, probe>>
  BY DEF WorkerDies
<1>g. /\ stray' \in 0..Absent
      /\ stray' # Absent => gone <= stray'
      /\ open' \subseteq Workers /\ hurt' \subseteq Workers /\ steady' \subseteq Workers
      /\ key' = key /\ prompt' = prompt
      /\ \A v \in Workers : v # w => (v \in open' <=> v \in open)
  BY <1>0, GivesUpTypes
<1>1. TypeOK'
  <2>1. loop' \in [Workers -> [does : Threads, for : 0..(Interval + Opening + Timeout + Backoff)]]
    <3>1. Dead \in [does : Threads, for : 0..(Interval + Opening + Timeout + Backoff)]
      BY DEF Dead, Threads
    <3> QED  BY <1>0, <3>1 DEF HealthInv, TypeOK, Threads
  <2> QED  BY <1>0, <1>g, <2>1 DEF HealthInv, TypeOK, Threads
<1>2. LoopInv'
  <2>1. "dead" \in Threads /\ loop' = [loop EXCEPT ![w] = [does |-> "dead", for |-> 0]]
    BY <1>0 DEF Dead, Threads
  <2> QED  BY <1>g, <2>1, LoopBegins DEF HealthInv
<1>3. GoneInv' /\ ProbeInv'
  BY <1>0, <1>g DEF HealthInv, TypeOK, GoneInv, ProbeInv, OkMeansWorkerRan
<1> QED  BY <1>1, <1>2, <1>3 DEF HealthInv

LEMMA LoopHealth ==
  ASSUME HealthInv, NEW w \in Workers, LoopStep(w)
  PROVE  HealthInv'
<1>0. /\ loop[w] # Dead /\ gone = 0 /\ loop[w].for \in Nat
      /\ UNCHANGED <<redis, gone, probe>>
      /\ \E d \in {"backoff", "sleep", "beat"} :
           loop' = [loop EXCEPT ![w] = [does |-> d, for |-> 0]]
  BY DEF HealthInv, TypeOK, GoneInv, Dead, LoopStep, BeatStored, BeatFails, BackoffEnds, SleepEnds
<1>1. /\ key' \in 0..Absent /\ stray' \in 0..Absent /\ prompt' \in BOOLEAN
      /\ open' \subseteq Workers /\ hurt' \subseteq Workers /\ steady' \subseteq Workers
      /\ \A v \in Workers : v # w => (v \in open' <=> v \in open)
  <2>1. CASE BeatStored(w)
    <3>1. key' = AgeOf(loop[w].for) /\ stray' = stray /\ prompt' \in BOOLEAN
      BY <2>1 DEF BeatStored
    <3>2. /\ open' \subseteq Workers /\ hurt' \subseteq Workers /\ steady' \subseteq Workers
          /\ \A v \in Workers : v # w => (v \in open' <=> v \in open)
      BY <2>1 DEF BeatStored, HealthInv, TypeOK
    <3> QED  BY <1>0, <3>1, <3>2, AgeArithmetic DEF HealthInv, TypeOK, Old, Absent
  <2>2. CASE BeatFails(w)
    <3>1. /\ stray' \in 0..Absent
          /\ open' \subseteq Workers /\ hurt' \subseteq Workers /\ steady' \subseteq Workers
          /\ key' = key /\ prompt' = prompt
          /\ \A v \in Workers : v # w => (v \in open' <=> v \in open)
      <4>1. GivesUp(w)
        BY <2>2 DEF BeatFails
      <4> QED  BY <1>0, <4>1, GivesUpTypes
    <3> QED  BY <3>1 DEF HealthInv, TypeOK
  <2>3. CASE BackoffEnds(w) \/ SleepEnds(w)
    BY <2>3 DEF BackoffEnds, SleepEnds, HealthInv, TypeOK
  <2> QED  BY <2>1, <2>2, <2>3 DEF LoopStep
<1>2. TypeOK'
  BY <1>0, <1>1 DEF HealthInv, TypeOK
<1>3. LoopInv'
  BY <1>0, <1>1, LoopBegins DEF HealthInv, Threads
<1>4. GoneInv' /\ ProbeInv'
  BY <1>0, <1>1 DEF HealthInv, TypeOK, GoneInv, ProbeInv, OkMeansWorkerRan, Old, Absent
<1> QED  BY <1>2, <1>3, <1>4 DEF HealthInv

LEMMA RedisHealth ==
  ASSUME HealthInv,
         \/ RedisFails \/ RedisRecovers \/ StrayApplied
         \/ \E w \in Workers : ConnectionDrops(w)
  PROVE  HealthInv'
<1>0. UNCHANGED <<loop, gone, probe>>
  BY DEF RedisFails, RedisRecovers, StrayApplied, ConnectionDrops, heart
<1>1. redis' \in BOOLEAN /\ prompt' \in BOOLEAN
  BY DEF HealthInv, TypeOK, RedisFails, RedisRecovers, StrayApplied, ConnectionDrops, heart
<1>2. /\ key' \in {key, stray, Absent} /\ stray' \in {stray, Absent}
      /\ key' = stray => stray # Absent \/ key' = Absent
  BY DEF RedisFails, RedisRecovers, StrayApplied, ConnectionDrops, heart
<1>3. /\ open' \subseteq Workers /\ hurt' \subseteq Workers /\ steady' \subseteq Workers
      /\ \A v \in Workers : loop[v].does = "beat" => (v \in open' <=> v \in open)
  BY DEF HealthInv, TypeOK, RedisFails, RedisRecovers, StrayApplied, ConnectionDrops, heart, Beating
<1>4. TypeOK'
  BY <1>0, <1>1, <1>2, <1>3 DEF HealthInv, TypeOK, Old, Absent
<1>5. LoopInv'
  BY <1>0, <1>3, LoopFrame DEF HealthInv
<1>6. GoneInv' /\ ProbeInv'
  BY <1>0, <1>2 DEF HealthInv, GoneInv, ProbeInv, OkMeansWorkerRan
<1> QED  BY <1>4, <1>5, <1>6 DEF HealthInv

(* The heartbeat the request saw fresh is that of a worker: GoneInv. *)
LEMMA ProbeHealth ==
  ASSUME HealthInv, ProbeStep
  PROVE  HealthInv'
<1>0. UNCHANGED <<redis, key, stray, prompt, loop, open, hurt, steady, gone>>
  BY DEF heart, ProbeStep, CheckPostgres, CheckRedis, CheckWorker, Reply
<1>1. TypeOK'
  <2>1. CASE CheckPostgres \/ Reply
    <3>1. \E ok \in BOOLEAN : \E at \in {"idle", "redis"} :
            probe' = [at |-> at, ok |-> ok, fresh |-> FALSE]
      BY <2>1 DEF CheckPostgres, Reply, Idle
    <3> QED  BY <1>0, <3>1 DEF HealthInv, TypeOK
  <2>3. CASE CheckWorker
    <3>1. (probe.ok /\ redis /\ Fresh) \in BOOLEAN /\ (redis /\ Fresh) \in BOOLEAN
      OBVIOUS
    <3> QED  BY <1>0, <2>3, <3>1 DEF HealthInv, TypeOK, CheckWorker
  <2>2. CASE CheckRedis
    <3>1. probe' = [at |-> "worker", ok |-> probe.ok /\ redis, fresh |-> probe.fresh]
      BY <2>2 DEF HealthInv, TypeOK, CheckRedis
    <3> QED  BY <1>0, <3>1 DEF HealthInv, TypeOK
  <2> QED  BY <2>1, <2>2, <2>3 DEF ProbeStep
<1>2. LoopInv' /\ GoneInv'
  BY <1>0 DEF HealthInv, LoopInv, GoneInv, Patience
<1>3. ProbeInv'
  <2>1. CASE CheckPostgres \/ Reply
    BY <2>1 DEF ProbeInv, OkMeansWorkerRan, CheckPostgres, Reply, Idle
  <2>2. CASE CheckRedis
    BY <2>2 DEF HealthInv, TypeOK, ProbeInv, OkMeansWorkerRan, CheckRedis
  <2>3. CASE CheckWorker
    <3>1. probe'.at = "replied" /\ (probe'.ok => Fresh)
      BY <2>3 DEF CheckWorker
    <3>2. Fresh => gone <= StaleAfter
      BY DEF HealthInv, TypeOK, GoneInv, Fresh, Old, Absent
    <3> QED  BY <1>0, <3>1, <3>2 DEF ProbeInv, OkMeansWorkerRan
  <2> QED  BY <2>1, <2>2, <2>3 DEF ProbeStep
<1> QED  BY <1>1, <1>2, <1>3 DEF HealthInv

(* A second passes: nobody is at his bound, so nobody passes it. *)
LEMMA TickHealth ==
  ASSUME HealthInv, Tick
  PROVE  HealthInv'
<1>0. /\ key' \in 0..Absent /\ stray' \in 0..Absent /\ gone' \in 0..Old
  BY AgeArithmetic DEF HealthInv, TypeOK, Tick, Older, Old, Absent
<1>s. \A w \in Workers :
        /\ loop[w] = [does |-> loop[w].does, for |-> loop[w].for]
        /\ loop[w].does \in Threads /\ loop[w].for \in Nat
        /\ loop[w] = Dead <=> loop[w].does = "dead"
  BY ThreadShape DEF HealthInv
<1>1. \A w \in Workers :
        \/ loop[w] = Dead /\ loop'[w] = Dead
        \/ /\ loop[w].does # "dead"
           /\ loop'[w] = [does |-> loop[w].does, for |-> loop[w].for + 1]
  BY <1>s DEF Tick, HealthInv, TypeOK
<1>b. \A w \in Workers :
        /\ loop[w].does = "beat" => loop[w].for + 1 <= Patience(w)
        /\ loop[w].does = "backoff" => loop[w].for + 1 <= Backoff
        /\ loop[w].does = "sleep" => loop[w].for + 1 <= Interval
  <2> SUFFICES ASSUME NEW w \in Workers
               PROVE  /\ loop[w].does = "beat" => loop[w].for + 1 <= Patience(w)
                      /\ loop[w].does = "backoff" => loop[w].for + 1 <= Backoff
                      /\ loop[w].does = "sleep" => loop[w].for + 1 <= Interval
    OBVIOUS
  <2>0. loop[w].for \in Nat
    BY <1>s
  <2>1. ~ Due(w)
    BY DEF Tick
  <2>2. loop[w].does = "beat" => loop[w].for + 1 <= Patience(w)
    <3>1. loop[w].does = "beat" => \E n \in {0, 1} : ~ (loop[w].for >= Patience(w) - n)
      BY <2>1 DEF Due, Beating
    <3>2. Patience(w) \in Nat
      BY DEF Patience
    <3> QED  BY <2>0, <3>1, <3>2
  <2>3. loop[w].does = "backoff" => loop[w].for # Backoff /\ loop[w].for <= Backoff
    BY <1>s, <2>1 DEF HealthInv, LoopInv, Due
  <2>4. loop[w].does = "sleep" => loop[w].for # Interval /\ loop[w].for <= Interval
    BY <1>s, <2>1 DEF HealthInv, LoopInv, Due
  <2> QED  BY <2>0, <2>2, <2>3, <2>4
<1>2. LoopInv'
  <2> SUFFICES ASSUME NEW w \in Workers
               PROVE  /\ loop'[w].does = "beat" => loop'[w].for <= Patience(w)'
                      /\ loop'[w].does = "backoff" => loop'[w].for <= Backoff
                      /\ loop'[w].does = "sleep" => loop'[w].for <= Interval
                      /\ loop'[w].does = "dead" => loop'[w].for = 0
    BY DEF LoopInv
  <2>1. CASE loop'[w] = Dead
    BY <2>1 DEF Dead
  <2>2. CASE loop[w].does # "dead" /\ loop'[w] = [does |-> loop[w].does, for |-> loop[w].for + 1]
    <3>1. loop'[w].does = loop[w].does /\ loop'[w].for = loop[w].for + 1
      BY <2>2
    <3>2. Patience(w)' = Patience(w)
      BY DEF Patience, Tick
    <3> QED  BY <1>b, <2>2, <3>1, <3>2
  <2> QED  BY <1>1, <2>1, <2>2
<1>3. loop' \in [Workers -> [does : Threads, for : 0..(Interval + Opening + Timeout + Backoff)]]
  <2>1. loop' = [w \in Workers |-> loop'[w]]
    BY DEF Tick
  <2>2. ASSUME NEW w \in Workers
        PROVE  loop'[w] \in [does : Threads, for : 0..(Interval + Opening + Timeout + Backoff)]
    <3>1. CASE loop'[w] = Dead
      BY <3>1 DEF Threads, Dead
    <3>2. CASE loop[w].does # "dead" /\ loop'[w] = [does |-> loop[w].does, for |-> loop[w].for + 1]
      <4>1. loop[w].does \in {"beat", "backoff", "sleep"} /\ loop[w].for \in Nat
        BY <1>s, <3>2 DEF Threads
      <4>2. loop[w].for + 1 \in 0..(Interval + Opening + Timeout + Backoff)
        BY <1>b, <4>1 DEF Patience
      <4> QED  BY <3>2, <4>1, <4>2 DEF Threads
    <3> QED  BY <1>1, <2>2, <3>1, <3>2
  <2> QED  BY <2>1, <2>2
<1>4. TypeOK'
  BY <1>0, <1>3 DEF HealthInv, TypeOK, Tick, Threads
<1>5. \A w \in Workers : loop'[w] = Dead <=> loop[w] = Dead
  <2>1. ASSUME NEW w \in Workers, loop[w].does # "dead",
               loop'[w] = [does |-> loop[w].does, for |-> loop[w].for + 1]
        PROVE  loop'[w].does # Dead.does /\ loop[w].does # Dead.does
    BY <2>1 DEF Dead
  <2> QED  BY <1>1, <2>1
<1>6. GoneInv'
  <2>1. CASE \A w \in Workers : loop[w] = Dead
    BY <1>0, <1>5, <2>1 DEF HealthInv, TypeOK, GoneInv, Tick, Older, Old, Absent
  <2>2. CASE ~ \A w \in Workers : loop[w] = Dead
    BY <1>0, <2>2 DEF HealthInv, TypeOK, GoneInv, Tick, Old, Absent
  <2> QED  BY <2>1, <2>2
<1>7. ProbeInv'
  BY DEF HealthInv, ProbeInv, OkMeansWorkerRan, Tick
<1> QED  BY <1>2, <1>4, <1>6, <1>7 DEF HealthInv

LEMMA NextHealth == HealthInv /\ [Next]_vars => HealthInv'
<1>1. ASSUME HealthInv, UNCHANGED vars
      PROVE  HealthInv'
  BY <1>1 DEF HealthInv, TypeOK, LoopInv, GoneInv, ProbeInv, OkMeansWorkerRan, Patience, vars, heart
<1> QED  BY <1>1, StartsHealth, DiesHealth, LoopHealth, RedisHealth, ProbeHealth,
        TickHealth DEF Next

LEMMA Invariance == Spec => []HealthInv
BY InitHealth, NextHealth, PTL DEF Spec

(* Ages, sleeps and waits stay within their bounds, for any times. *)
THEOREM TypeCorrect == Spec => []TypeOK
<1>1. HealthInv => TypeOK
  BY DEF HealthInv
<1> QED  BY <1>1, Invariance, PTL

(* GET /v1/health says "ok" only if a worker process ran within the last   *)
(* StaleAfter seconds, with any number of workers that start, die and      *)
(* overwrite each other's time, and any times configured.                  *)
THEOREM OkIsTrue == Spec => []OkMeansWorkerRan
<1>1. HealthInv => OkMeansWorkerRan
  BY DEF HealthInv, ProbeInv
<1> QED  BY <1>1, Invariance, PTL

-----------------------------------------------------------------------------
LEMMA NextSteady ==
  ASSUME HealthInv, SteadyInv, [Next]_vars, Interval + 2 * Timeout <= StaleAfter
  PROVE  SteadyInv'
<1>k. key \in Nat /\ key' \in Nat /\ \A v \in Workers : loop[v].for \in Nat
  BY NextHealth DEF HealthInv, TypeOK, Absent, Old
<1>1. ASSUME NEW w \in Workers, WorkerStarts(w)
      PROVE  SteadyInv'
  <2>1. w \notin steady
    BY <1>1 DEF SteadyInv, WorkerStarts, Dead
  <2>2. \A v \in steady : loop'[v] = loop[v]
    BY <1>1, <2>1 DEF HealthInv, TypeOK, WorkerStarts
  <2> QED  BY <1>1, <2>2 DEF SteadyInv, WorkerStarts
<1>2. ASSUME NEW w \in Workers, WorkerDies(w) \/ BeatFails(w)
      PROVE  SteadyInv'
  <2>1. \A v \in steady' : v \in steady /\ loop'[v] = loop[v]
    BY <1>2 DEF HealthInv, TypeOK, WorkerDies, BeatFails, GivesUp
  <2>2. steady' \subseteq open' /\ key' = key /\ prompt' = prompt
    BY <1>2 DEF SteadyInv, WorkerDies, BeatFails, GivesUp
  <2> QED  BY <2>1, <2>2 DEF SteadyInv
<1>3. ASSUME NEW w \in Workers, BeatStored(w)
      PROVE  SteadyInv'
  <2>1. prompt' => key' <= Timeout
    <3>1. prompt' => w \in open /\ key' = AgeOf(loop[w].for)
      BY <1>3 DEF BeatStored
    <3>2. w \in open => loop[w].for <= Timeout
      BY <1>3 DEF HealthInv, LoopInv, BeatStored, Patience
    <3>3. AgeOf(loop[w].for) \in Nat /\ AgeOf(loop[w].for) <= loop[w].for
      BY <1>k, AgeArithmetic DEF Old, Absent
    <3> QED  BY <1>k, <3>1, <3>2, <3>3
  <2>2. \A v \in steady' : \/ v = w /\ loop'[v] = [does |-> "sleep", for |-> 0]
                           \/ v # w /\ v \in steady /\ loop'[v] = loop[v]
    BY <1>3 DEF HealthInv, TypeOK, BeatStored
  <2>3. steady' \subseteq open'
    BY <1>3 DEF SteadyInv, BeatStored
  <2>4. ASSUME NEW v \in steady'
        PROVE  /\ loop'[v].does \in {"beat", "sleep"} /\ loop'[v].for \in Nat
    BY <1>k, <2>2 DEF HealthInv, TypeOK, SteadyInv
  <2> QED  BY <1>k, <2>1, <2>3, <2>4 DEF SteadyInv
<1>4. ASSUME NEW w \in Workers, BackoffEnds(w)
      PROVE  SteadyInv'
  <2>1. w \notin steady
    BY <1>4 DEF SteadyInv, BackoffEnds
  <2>2. \A v \in steady : loop'[v] = loop[v]
    BY <1>4, <2>1 DEF HealthInv, TypeOK, BackoffEnds
  <2> QED  BY <1>4, <2>2 DEF SteadyInv, BackoffEnds
<1>5. ASSUME NEW w \in Workers, SleepEnds(w)
      PROVE  SteadyInv'
  <2>1. loop[w].does = "sleep" /\ loop[w].for = Interval /\ loop'[w] = [does |-> "beat", for |-> 0]
    BY <1>5 DEF HealthInv, TypeOK, SleepEnds
  <2>2. \A v \in steady : v = w \/ loop'[v] = loop[v]
    BY <1>5 DEF HealthInv, TypeOK, SleepEnds
  <2>3. UNCHANGED <<key, prompt, open, steady>>
    BY <1>5 DEF SleepEnds
  <2>4. w \in steady /\ prompt => key <= loop'[w].for + Interval + Timeout
    BY <2>1 DEF SteadyInv
  <2> QED  BY <2>1, <2>2, <2>3, <2>4 DEF SteadyInv
<1>6. ASSUME NEW w \in Workers, ConnectionDrops(w)
      PROVE  SteadyInv'
  BY <1>6 DEF SteadyInv, ConnectionDrops
<1>7. CASE RedisFails \/ StrayApplied
  BY <1>7 DEF SteadyInv, RedisFails, StrayApplied, heart
<1>8. CASE RedisRecovers \/ ProbeStep \/ UNCHANGED vars
  BY <1>8 DEF SteadyInv, RedisRecovers, ProbeStep, CheckPostgres, CheckRedis, CheckWorker, Reply,
              vars, heart
<1>9. CASE Tick
  <2>1. \A w \in steady : loop'[w] = [loop[w] EXCEPT !.for = @ + 1]
    BY <1>9 DEF HealthInv, TypeOK, SteadyInv, Tick, Dead
  <2>2. key' <= key + 1 /\ UNCHANGED <<prompt, open, steady>>
    BY <1>9, AgeArithmetic DEF HealthInv, TypeOK, Tick
  <2>3. SUFFICES ASSUME NEW w \in steady
                 PROVE  /\ loop'[w].does \in {"beat", "sleep"}
                        /\ prompt /\ loop'[w].does = "sleep" => key' <= loop'[w].for + Timeout
                        /\ prompt /\ loop'[w].does = "beat" => key' <= loop'[w].for + Interval + Timeout
    BY <2>2 DEF SteadyInv
  <2>4. w \in Workers /\ loop[w].for \in Nat
    BY <1>k DEF HealthInv, TypeOK
  <2>5. loop'[w].does = loop[w].does /\ loop'[w].for = loop[w].for + 1
    <3>1. loop[w] = [does |-> loop[w].does, for |-> loop[w].for]
      BY <2>4, ThreadShape DEF HealthInv
    <3>2. loop'[w] = [does |-> loop[w].does, for |-> loop[w].for + 1]
      BY <2>1, <3>1
    <3> QED  BY <3>2
  <2> QED  BY <1>k, <2>2, <2>4, <2>5 DEF SteadyInv
<1> QED  BY <1>1, <1>2, <1>3, <1>4, <1>5, <1>6, <1>7, <1>8, <1>9 DEF Next, LoopStep

(* No false alarm once connected: between two beats of a steady worker     *)
(* pass a sleep, a timeout before the first is stored and one before the   *)
(* second is.  The defaults, 5 + 2 * 5 <= 15 seconds, leave no second to   *)
(* spare for a beat that opens a connection; the property excludes them.   *)
THEOREM SteadyKeepsFresh ==
  ASSUME Interval + 2 * Timeout <= StaleAfter
  PROVE  Spec => []SteadyWorkerIsFresh
<1>1. HealthInv /\ SteadyInv /\ [Next]_vars => SteadyInv'
  BY NextSteady
<1>2. HealthInv /\ SteadyInv => SteadyWorkerIsFresh
  <2> SUFFICES ASSUME HealthInv, SteadyInv, NEW w \in steady, prompt
               PROVE  key <= StaleAfter
    BY DEF SteadyWorkerIsFresh
  <2>1. w \in Workers /\ w \in open /\ loop[w].for \in Nat /\ key \in Nat
    BY DEF HealthInv, TypeOK, SteadyInv, Absent, Old
  <2>2. CASE loop[w].does = "sleep"
    <3>1. loop[w].for <= Interval /\ key <= loop[w].for + Timeout
      BY <2>1, <2>2 DEF HealthInv, LoopInv, SteadyInv
    <3> QED  BY <2>1, <3>1
  <2>3. CASE loop[w].does = "beat"
    <3>1. loop[w].for <= Timeout /\ key <= loop[w].for + Interval + Timeout
      BY <2>1, <2>3 DEF HealthInv, LoopInv, SteadyInv, Patience
    <3> QED  BY <2>1, <3>1
  <2> QED  BY <2>2, <2>3 DEF SteadyInv
<1>3. Init => SteadyInv
  BY InitHealth
<1> QED  BY <1>1, <1>2, <1>3, Invariance, PTL DEF Spec
=============================================================================
