-------------------------- MODULE MCPunchPipeline --------------------------
(* Instances of PunchPipeline for TLC.                                     *)
EXTENDS PunchPipeline, TLC

CONSTANTS p1, p2

(* The service as it is built: one PunchSpool in push_ingest.py, another   *)
(* in supervisor.py, each with a lock of its own.                          *)
TwoInstances == [t \in Thread |-> t]

(* The sharing that the class is written for.                              *)
OneInstance == [t \in Thread |-> "spool"]

Upto(n, kinds) == [k \in FaultKind |-> IF k \in kinds THEN n ELSE 0]

EachOnce == Upto(1, {"outage", "unexpected", "disk", "crash"})
LmsAndStop == Upto(1, {"outage", "lostReply", "unexpected", "stop"})
OutagesAndStop == Upto(1, {"outage", "lostReply", "stop"})
OutageAndUnexpected == Upto(1, {"outage", "unexpected"})
OneOutage == Upto(1, {"outage"})

Interchangeable == Permutations({p1, p2})
=============================================================================
