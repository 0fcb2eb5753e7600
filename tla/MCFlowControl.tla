---------------------------- MODULE MCFlowControl ----------------------------
(* Backpressure and RateLimiter for TLC.  They share nothing: a behaviour is *)
(* one of calls to the one or to the other.                                  *)
EXTENDS Backpressure, RateLimiter

VARIABLE subject

MCInit == Init /\ LimiterInit /\ subject \in {"backpressure", "limiter"}

MCNext ==
  \/ subject = "backpressure" /\ Next /\ UNCHANGED <<limiter, subject>>
  \/ subject = "limiter" /\ LimiterNext /\ UNCHANGED <<vars, subject>>

MCSpec == MCInit /\ [][MCNext]_<<vars, limiter, subject>>
=============================================================================
