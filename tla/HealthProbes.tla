---------------------------- MODULE HealthProbes ----------------------------
(***************************************************************************)
(* GET /health, /health/live and /health/ready: a probe asks the database, *)
(* Redis and the storage at the same time, waits for all of them           *)
(* (Promise.all) and answers 200 or 503 by what they said.  The memory     *)
(* check asks nobody and is always up.                                     *)
(*                                                                         *)
(* The dependencies work, refuse, or keep silent, and change as they like; *)
(* the request may time out and the process may stop at any moment.        *)
(***************************************************************************)
EXTENDS Naturals, FiniteSets

CONSTANTS
    Probe,      \* slots for the probes in flight
    MaxChanges, \* bound: changes of the dependencies
    MaxTemps    \* bound: files left behind by earlier probes

ASSUME ProbeAssumption == IsFiniteSet(Probe) /\ MaxChanges \in Nat /\ MaxTemps \in Nat

VARIABLES
    enabled,     \* HEALTH_CHECKS_ENABLED
    driver,      \* STORAGE_DRIVER: the S3 driver asks the bucket
    initialized, \* dataSource.isInitialized
    state,       \* what each dependency does when it is asked
    changes,     \* how often that has changed
    kind,        \* the probe each slot serves, or "none"
    check,       \* where its checks stand
    pending,     \* the client has no answer yet
    answer,      \* the last answer in the slot
    temps,       \* files of assertHealthy in the storage folder
    works,       \* history: dependencies that worked at some moment of the probe
    fails,       \* history: those that at some moment did not
    calm         \* history: no restart in a probe, no failing write or unlink

config == <<enabled, driver>>
world == <<initialized, state, changes>>
history == <<works, fails, calm>>
probes == <<config, world, kind, check, pending, answer, temps, history>>

Dependency == {"database", "redis", "storage"}
Kind == {"liveness", "readiness", "full"}

\* A check is "none", waits for its dependency, waits for unlink, or is settled.
Check == {"none", "asked", "unlink", "up", "down"}

ProbeTypeOK ==
    /\ enabled \in BOOLEAN /\ driver \in {"local", "s3"}
    /\ initialized \in BOOLEAN
    /\ state \in [Dependency -> {"up", "down", "silent"}]
    /\ changes \in 0 .. MaxChanges
    /\ kind \in [Probe -> Kind \cup {"none"}]
    /\ check \in [Probe -> [Dependency -> Check]]
    /\ pending \in [Probe -> BOOLEAN]
    /\ answer \in [Probe -> {"none", "ok", "unavailable", "notFound", "timeout"}]
    /\ temps \in Nat
    /\ works \in [Probe -> SUBSET Dependency]
    /\ fails \in [Probe -> SUBSET Dependency]
    /\ calm \in BOOLEAN

Serving == { p \in Probe : kind[p] # "none" }

\* These have a file in the storage.
Unlinking == { p \in Serving : check[p]["storage"] = "unlink" }

Unasked == [d \in Dependency |-> "none"]

ProbeInit ==
    /\ enabled \in BOOLEAN /\ driver \in {"local", "s3"}
    /\ initialized = TRUE
    /\ state \in [Dependency -> {"up", "down", "silent"}]
    /\ changes = 0
    /\ kind = [p \in Probe |-> "none"]
    /\ check = [p \in Probe |-> Unasked]
    /\ pending = [p \in Probe |-> FALSE]
    /\ answer = [p \in Probe |-> "none"]
    /\ temps = 0
    /\ works = [p \in Probe |-> {}]
    /\ fails = [p \in Probe |-> {}]
    /\ calm = TRUE

\* What liveness(), readiness() and full() ask besides the memory.
Covers(k) == IF k = "liveness" THEN {} ELSE Dependency

-----------------------------------------------------------------------------
(* A probe.                                                                *)

\* A query that is under way when the data source is destroyed still ends.
Working == { d \in Dependency : state[d] = "up" }
Failing == { d \in Dependency : state[d] # "up" \/ (d = "database" /\ ~initialized) }

\* All checks begin in one stretch; the database check looks at the data source
\* first and is down at once if that is gone.
Ask(p, k) ==
    /\ p \notin Serving /\ temps <= MaxTemps
    /\ IF enabled
       THEN /\ kind' = [kind EXCEPT ![p] = k]
            /\ check' = [check EXCEPT ![p] =
                  [d \in Dependency |-> IF d \notin Covers(k) THEN "none"
                                        ELSE IF d = "database" /\ ~initialized THEN "down"
                                        ELSE "asked"]]
            /\ pending' = [pending EXCEPT ![p] = TRUE]
            /\ answer' = [answer EXCEPT ![p] = "none"]
            /\ works' = [works EXCEPT ![p] = Working]
            /\ fails' = [fails EXCEPT ![p] = Failing]
       ELSE /\ answer' = [answer EXCEPT ![p] = "notFound"]
            /\ UNCHANGED <<kind, check, pending, works, fails>>
    /\ UNCHANGED <<config, world, temps, calm>>

Settle(p, d, status) == check' = [check EXCEPT ![p][d] = status]

\* SELECT 1, a connection, HeadBucket succeed.
Replies(p, d) ==
    /\ check[p][d] = "asked" /\ state[d] = "up"
    /\ d = "storage" => driver = "s3"
    /\ Settle(p, d, "up")
    /\ UNCHANGED <<config, world, kind, pending, answer, temps, history>>

\* The local driver writes a file of its own ...
WritesFile(p) ==
    /\ check[p]["storage"] = "asked" /\ driver = "local" /\ state["storage"] = "up"
    /\ Settle(p, "storage", "unlink")
    /\ temps' = temps + 1
    /\ UNCHANGED <<config, world, kind, pending, answer, history>>

\* Mistake, for mutation: the file stays.
Unlinks_Not(p) ==
    /\ check[p]["storage"] = "unlink" /\ state["storage"] = "up"
    /\ Settle(p, "storage", "up")
    /\ UNCHANGED <<config, world, kind, pending, answer, temps, history>>

\* ... and deletes it.
Unlinks(p) ==
    /\ check[p]["storage"] = "unlink" /\ state["storage"] = "up"
    /\ Settle(p, "storage", "up")
    /\ temps' = temps - 1
    /\ UNCHANGED <<config, world, kind, pending, answer, history>>

\* An error of any kind is caught by the indicator; nothing deletes the file, be
\* it one that could not be deleted or one that writeFile made and could not fill.
Refuses(p, d) ==
    /\ check[p][d] \in {"asked", "unlink"} /\ state[d] = "down"
    /\ Settle(p, d, "down")
    /\ \/ temps' = temps /\ calm' = (calm /\ check[p][d] = "asked")
       \/ /\ check[p][d] = "asked" /\ d = "storage" /\ driver = "local"
          /\ temps' = temps + 1 /\ calm' = FALSE
    /\ UNCHANGED <<config, world, kind, pending, answer, works, fails>>

\* Mistake, for mutation: the socket has a timeout that nobody listens to.
ConnectTimesOut_Unheard(p) ==
    /\ check[p]["redis"] = "asked" /\ state["redis"] = "silent"
    /\ UNCHANGED probes

\* The timer of the socket is what ends a connection attempt that gets no reply.
ConnectTimesOut(p) ==
    /\ check[p]["redis"] = "asked" /\ state["redis"] = "silent"
    /\ Settle(p, "redis", "down")
    /\ UNCHANGED <<config, world, kind, pending, answer, temps, history>>

\* Mistake, for mutation: one check that is up is enough.
BuildReport_Lenient(p) ==
    IF \A d \in Covers(kind[p]) : check[p][d] = "down" THEN "unavailable" ELSE "ok"

\* buildReport and throwIfUnhealthy; for liveness there is only the memory.
BuildReport(p) ==
    IF \E d \in Covers(kind[p]) : check[p][d] = "down" THEN "unavailable" ELSE "ok"

Forget(p) == works' = [works EXCEPT ![p] = {}] /\ fails' = [fails EXCEPT ![p] = {}]

\* Promise.all has all results; a report after the timeout reaches nobody.
Report(p) ==
    /\ p \in Serving /\ \A d \in Dependency : check[p][d] \in {"none", "up", "down"}
    /\ kind' = [kind EXCEPT ![p] = "none"]
    /\ Forget(p)
    /\ answer' = [answer EXCEPT ![p] = IF pending[p] THEN BuildReport(p) ELSE @]
    /\ pending' = [pending EXCEPT ![p] = FALSE]
    /\ check' = [check EXCEPT ![p] = Unasked]
    /\ UNCHANGED <<config, world, temps, calm>>

\* TimeoutInterceptor answers 408 and the handler goes on.
TimeOut(p) ==
    /\ pending[p]
    /\ pending' = [pending EXCEPT ![p] = FALSE]
    /\ answer' = [answer EXCEPT ![p] = "timeout"]
    /\ Forget(p)
    /\ UNCHANGED <<config, world, kind, check, temps, calm>>

-----------------------------------------------------------------------------
(* Everything else.                                                        *)

\* What the probes whose clients still wait live to see.
Observe ==
    /\ works' = [p \in Probe |-> IF pending[p] THEN works[p] \cup Working' ELSE {}]
    /\ fails' = [p \in Probe |-> IF pending[p] THEN fails[p] \cup Failing' ELSE {}]

Change(d, s) ==
    /\ changes < MaxChanges /\ s # state[d]
    /\ state' = [state EXCEPT ![d] = s]
    /\ changes' = changes + 1
    /\ UNCHANGED <<config, initialized, kind, check, pending, answer, temps, calm>>
    /\ Observe

\* The data source is destroyed, as by the shutdown hooks; nothing here waits
\* for the requests under way.
Destroy ==
    /\ initialized
    /\ initialized' = FALSE
    /\ UNCHANGED <<config, state, changes, kind, check, pending, answer, temps, calm>>
    /\ Observe

\* The process ends and starts anew; its clients get no answer.
ProbeRestart ==
    /\ Serving # {} \/ ~initialized
    /\ initialized' = TRUE
    /\ kind' = [p \in Probe |-> "none"]
    /\ works' = [p \in Probe |-> {}] /\ fails' = [p \in Probe |-> {}]
    /\ check' = [p \in Probe |-> Unasked]
    /\ pending' = [p \in Probe |-> FALSE]
    /\ calm' = (calm /\ Serving = {})
    /\ UNCHANGED <<config, state, changes, answer, temps>>

-----------------------------------------------------------------------------
ProbeStep(p) ==
    \/ \E d \in Dependency : Replies(p, d)
    \/ \E d \in Dependency : Refuses(p, d)
    \/ WritesFile(p)
    \/ Unlinks(p)
    \/ ConnectTimesOut(p)
    \/ Report(p)

ProbeNext ==
    \/ \E p \in Probe, k \in Kind : Ask(p, k)
    \/ \E p \in Probe : ProbeStep(p)
    \/ \E p \in Probe : TimeOut(p)
    \/ \E d \in Dependency, s \in {"up", "down", "silent"} : Change(d, s)
    \/ Destroy
    \/ ProbeRestart

ProbeSpec == ProbeInit /\ [][ProbeNext]_probes

\* Replies, errors and timers reach the event loop, which serves them.
Fairness == \A p \in Probe : WF_probes(ProbeStep(p)) /\ WF_probes(TimeOut(p))

FairProbeSpec == ProbeSpec /\ Fairness

-----------------------------------------------------------------------------
(* Properties.                                                             *)

\* A probe never answers for another moment than its own: 200 says that each
\* dependency worked at some moment of the request, if not at the same one, and
\* 503 that one of them did not.
VerdictsAreTrue ==
    [][\A p \in Probe : pending[p] /\ ~pending'[p] =>
          /\ answer'[p] = "ok" => Covers(kind[p]) \subseteq works[p]
          /\ answer'[p] = "unavailable" => Covers(kind[p]) \cap fails[p] # {}]_probes

\* Probes that come every few seconds do not fill the disk: the files there are
\* belong to probes under way, timed out or not, unless the process stopped
\* in the middle of one or a file could not be filled or deleted.
ProbesCleanUp == calm => temps = Cardinality(Unlinking)

\* Every probe is answered, in the worst case by the interceptor, and a handler
\* does not hang on Redis, however silent: only on the database or the storage.
ProbesSettle ==
    \A p \in Probe :
        /\ pending[p] ~> ~pending[p]
        /\ p \in Serving ~> \/ p \notin Serving
                            \/ state["database"] = "silent" \/ state["storage"] = "silent"
=============================================================================
