-------------------------- MODULE MCServiceRequest --------------------------
(* Small instances of ServiceRequest for TLC. *)
EXTENDS ServiceRequest, TLC

CONSTANTS w1, w2

\* The workers are interchangeable; the providers are not (some are the
\* client's, some the staff's).
WorkerSymmetry == Permutations({w1, w2})
=============================================================================
