------------------------------ MODULE RateLimiter ------------------------------
(***************************************************************************)
(* RateLimiter, a token bucket.  Nothing in the program uses it yet: its   *)
(* caller asks for any number of bytes at any time, and tells try_consume  *)
(* the time since its last call, as the tests do.                          *)
(*                                                                         *)
(* tokens_ is a double; here it is exact, in parts of a byte of which a    *)
(* tick (a millisecond) refills rate_.                                     *)
(***************************************************************************)
EXTENDS Integers

CONSTANTS
  Rates,           (* values of bytes_per_second                           *)
  TicksPerSecond,  (* 1000                                                 *)
  MaxBytes,        (* bound: bytes of one request                          *)
  MaxTicks         (* bound: ticks between two calls, and of a window      *)

ASSUME LimiterAssumption ==
  /\ Rates \subseteq Nat
  /\ TicksPerSecond \in Nat \ {0}
  /\ MaxBytes \in Nat /\ MaxTicks \in Nat

VARIABLES
  rate_, tokens_,
  waited,   (* ticks since the last try_consume                            *)
  consume,  (* the last try_consume: bytes, and whether they were granted  *)
  told,     (* the last answer of wait_for_bytes: bytes and ticks; ticks   *)
            (* that have passed for the bucket since                       *)
  window    (* bytes granted and ticks passed since any moment             *)

limiter == <<rate_, tokens_, waited, consume, told, window>>

Capacity == rate_ * TicksPerSecond
NothingTold == [bytes |-> 0, ticks |-> 0, since |-> 0]

LimiterInit ==
  /\ rate_ \in Rates
  /\ tokens_ = Capacity
  /\ waited = 0
  /\ consume = [bytes |-> 0, granted |-> TRUE]
  /\ told = NothingTold
  /\ window = [bytes |-> 0, ticks |-> 0]

Tick ==
  /\ waited < MaxTicks
  /\ waited' = waited + 1
  /\ UNCHANGED <<rate_, tokens_, consume, told, window>>

\* Faulty Refilled: idle time is saved up.
RefilledUnbounded(ticks) == tokens_ + rate_ * ticks

Refilled(ticks) ==
  IF tokens_ + rate_ * ticks < Capacity THEN tokens_ + rate_ * ticks ELSE Capacity

TryConsume(bytes) ==
  LET granted == Refilled(waited) >= bytes * TicksPerSecond
  IN  /\ window.ticks + waited <= MaxTicks /\ told.since + waited <= MaxTicks
      /\ tokens_' = Refilled(waited) - IF granted THEN bytes * TicksPerSecond ELSE 0
      /\ consume' = [bytes |-> bytes, granted |-> granted]
      /\ told' = IF granted THEN NothingTold ELSE [told EXCEPT !.since = @ + waited]
      /\ window' = [bytes |-> window.bytes + (IF granted THEN bytes ELSE 0), ticks |-> window.ticks + waited]
  /\ waited' = 0
  /\ UNCHANGED rate_

Needed(bytes) == bytes * TicksPerSecond - tokens_

\* Faulty Wait: seconds are taken for ticks.
WaitSeconds(bytes) ==
  IF Needed(bytes) <= 0 THEN {0}
  ELSE IF rate_ = 0 THEN 0..MaxTicks
  ELSE {Needed(bytes) \div Capacity}

\* wait_sec * 1000.0, cut to an integer.  With a rate of 0 it is infinite and the
\* cast to int64_t is undefined.  tokens_ is as the last try_consume left it.
Wait(bytes) ==
  IF Needed(bytes) <= 0 THEN {0}
  ELSE IF rate_ = 0 THEN 0..MaxTicks
  ELSE {Needed(bytes) \div rate_}

WaitForBytes(bytes) ==
  /\ \E ticks \in Wait(bytes) : told' = [bytes |-> bytes, ticks |-> ticks, since |-> 0]
  /\ UNCHANGED <<rate_, tokens_, waited, consume, window>>

\* A window may begin at any moment.  Idle ticks before it that no call has told the
\* bucket count into it, as they count into the bucket.
OpenWindow ==
  /\ window' = [bytes |-> 0, ticks |-> 0]
  /\ UNCHANGED <<rate_, tokens_, waited, consume, told>>

LimiterNext ==
  \/ Tick \/ OpenWindow
  \/ \E bytes \in 0..MaxBytes : TryConsume(bytes) \/ WaitForBytes(bytes)

LimiterSpec == LimiterInit /\ [][LimiterNext]_limiter

-----------------------------------------------------------------------------
(* Properties.                                                              *)

\* In no window of time, after whatever idling, more bytes are granted than a full
\* bucket and what the rate gives for the window (RateLimiter.cpp:11-25).
WithinRate == window.bytes * TicksPerSecond <= Capacity + rate_ * window.ticks

\* A caller that wants no more than a bucket holds and lets more time pass than
\* wait_for_bytes told it is not refused, whatever it asked in between and was
\* refused; the time told itself, cut to a whole tick, may be one short
\* (RateLimiter.cpp:27-35).
WaitIsEnough ==
  ~consume.granted /\ consume.bytes <= rate_ =>
    told.bytes < consume.bytes \/ told.since <= told.ticks
=============================================================================
