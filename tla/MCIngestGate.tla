---------------------------- MODULE MCIngestGate ----------------------------
(***************************************************************************)
(* The gate of the ingest path (IngestGate), as it is checked and as it is *)
(* proved about. The approval queue it drops messages into is a module of  *)
(* its own (PendingQueue): what has the name of a variable or a constant   *)
(* there gets another one.                                                 *)
(***************************************************************************)

CONSTANTS Sources, TTL, MaxFailures, NoVerdict

VARIABLES gateRegistry, settled, cache, since, refresh, rows, waiting, failures, filled, verdict

Gate == INSTANCE IngestGate
  WITH Senders <- Sources, None <- NoVerdict, registry <- gateRegistry

ASSUME GateAssumption == Gate!GateConstants

GateSpec == Gate!Spec

-----------------------------------------------------------------------------
(* IngestGate: a verdict that contradicts the registry is at most a        *)
(* lifetime of the cache behind it.                                        *)
VerdictLagBounded == Gate!VerdictLagBounded
=============================================================================
