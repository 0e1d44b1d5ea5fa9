-------------------------- MODULE MCPlayoutBuffer --------------------------
(***************************************************************************)
(* Instances of PlayoutBuffer for TLC.  The sequence space has 8 numbers,  *)
(* the pool at most 4 slots.                                               *)
(***************************************************************************)
EXTENDS PlayoutBuffer

\* The faults of the configurations.
InOrder     == {"duplicate"}
Failing     == {"loss", "recv_error", "bad_header"}
Reordering  == {"loss", "late"}
Lossy       == {"loss"}
Perfect     == {}
=============================================================================
