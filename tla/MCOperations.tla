---------------------------- MODULE MCOperations ----------------------------
(* Small instances of LogFileWriter and of HealthProbes, side by side: a   *)
(* behaviour is one of the log or one of the probes.                       *)
EXTENDS LogFileWriter, HealthProbes

VARIABLE part  \* "log" or "health"

PartInit ==
    /\ Init /\ ProbeInit
    /\ \/ part = "health"
       \/ /\ part = "log" /\ enabled /\ driver = "local"
          /\ \A d \in Dependency : state[d] = "up"

PartNext ==
    /\ \/ part = "log" /\ Next /\ UNCHANGED probes
       \/ part = "health" /\ ProbeNext /\ UNCHANGED vars
    /\ UNCHANGED part

\* The fairness of FairSpec in LogFileWriter and of FairProbeSpec in HealthProbes.
PartSpec ==
    /\ PartInit /\ [][PartNext]_<<vars, probes, part>>
    /\ WF_vars(part = "log" /\ \E e \in Entry : Step(e))
    /\ \A p \in Probe :
          /\ WF_probes(part = "health" /\ ProbeStep(p))
          /\ WF_probes(part = "health" /\ TimeOut(p))
=============================================================================
