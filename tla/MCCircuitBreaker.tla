------------------------- MODULE MCCircuitBreaker -------------------------
(***************************************************************************)
(* A background job and two HTTP handlers, thresholds of two, one tick of  *)
(* timeout and one retry.                                                  *)
(***************************************************************************)
EXTENDS CircuitBreaker

CONSTANTS job, http1, http2

MCCaller == {job, http1, http2}
MCHttpCaller == {http1, http2}
===========================================================================
