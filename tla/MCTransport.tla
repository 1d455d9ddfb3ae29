----------------------------- MODULE MCTransport -----------------------------
(***************************************************************************)
(* A relay and a worker in the worker container, a relay and a worker in   *)
(* an API with an embedded worker.  For safety, two events, so that        *)
(* batches overlap, and one failure; for liveness, one event and two       *)
(* failures, so that both sides can go down.                               *)
(***************************************************************************)
EXTENDS Transport
==============================================================================
