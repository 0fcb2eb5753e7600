----------------------------- MODULE Backpressure -----------------------------
(***************************************************************************)
(* BackpressureController and BoundedByteQueue.  Nothing in the program     *)
(* uses them yet, so their caller is arbitrary: it may call any operation   *)
(* with any size_t, in any order.  Sizes wrap modulo 2^Width as they do in  *)
(* the code.  The contents of a chunk are left out, its length is kept.     *)
(***************************************************************************)
EXTENDS Integers, Sequences

CONSTANTS
  Width,            (* bits of size_t                                      *)
  PauseThreshold,   (* pause_threshold_                                    *)
  ResumeThreshold,  (* resume_threshold_                                   *)
  HighWatermark     (* high_watermark_                                     *)

SizeT == 0..2^Width - 1

\* What the constructors demand: they throw otherwise.
ASSUME ConstructorAssumption ==
  /\ Width \in Nat
  /\ {PauseThreshold, ResumeThreshold, HighWatermark} \subseteq SizeT \ {0}
  /\ ResumeThreshold < PauseThreshold

VARIABLES
  paused,   (* paused_                                                     *)
  asked,    (* the last call of the controller and its answer              *)
  chunks,   (* chunks_: the lengths, oldest first                          *)
  size,     (* size_                                                       *)
  refused   (* the last push threw                                         *)

controller == <<paused, asked>>
queue == <<chunks, size, refused>>
vars == <<controller, queue>>

Init ==
  /\ paused = FALSE
  /\ asked = [op |-> "none", buffered |-> 0, incoming |-> 0, answer |-> FALSE]
  /\ chunks = <<>> /\ size = 0 /\ refused = FALSE

Wrap(n) == n % 2^Width

-----------------------------------------------------------------------------
(* BackpressureController.                                                  *)

\* Faulty ReachesThreshold: the sum, which wraps.
ReachesThresholdBySum(buffered, incoming) ==
  Wrap(buffered + incoming) >= PauseThreshold

\* The condition of should_pause; the subtraction is reached only below the
\* threshold.
ReachesThreshold(buffered, incoming) ==
  \/ buffered >= PauseThreshold
  \/ incoming # 0 /\ incoming >= Wrap(PauseThreshold - buffered)

Answer(op, buffered, incoming, answer) ==
  asked' = [op |-> op, buffered |-> buffered, incoming |-> incoming, answer |-> answer]

ShouldPause(buffered, incoming) ==
  /\ Answer("pause", buffered, incoming, ~paused /\ ReachesThreshold(buffered, incoming))
  /\ paused' = (paused \/ ReachesThreshold(buffered, incoming))
  /\ UNCHANGED queue

ShouldResume(buffered) ==
  /\ Answer("resume", buffered, 0, paused /\ buffered <= ResumeThreshold)
  /\ paused' = (paused /\ buffered > ResumeThreshold)
  /\ UNCHANGED queue

-----------------------------------------------------------------------------
(* BoundedByteQueue.                                                        *)

Fits(n) == size <= HighWatermark /\ n <= Wrap(HighWatermark - size)

\* Faulty Counted: the length is taken from the chunk after the move.
CountedAfterMove(n) == size

Counted(n) == Wrap(size + n)

Push(n) ==
  /\ n > 0 /\ Fits(n)
  /\ chunks' = Append(chunks, n)
  /\ size' = Counted(n)
  /\ refused' = FALSE
  /\ UNCHANGED controller

PushThrows(n) ==
  /\ n = 0 \/ ~Fits(n)
  /\ refused' = TRUE
  /\ UNCHANGED <<chunks, size, controller>>

\* pop of an empty queue returns an empty string and changes nothing.
Pop ==
  /\ chunks # <<>>
  /\ chunks' = Tail(chunks)
  /\ size' = Wrap(size - Head(chunks))
  /\ UNCHANGED <<refused, controller>>

Next ==
  \/ \E b, n \in SizeT : ShouldPause(b, n)
  \/ \E b \in SizeT : ShouldResume(b)
  \/ \E n \in SizeT : Push(n) \/ PushThrows(n)
  \/ Pop

Spec == Init /\ [][Next]_vars

-----------------------------------------------------------------------------
(* Properties.                                                              *)

\* held[i]: the bytes of the i oldest chunks.
Totals(held) ==
  held[0] = 0 /\ \A i \in 1..Len(chunks) : held[i] = held[i - 1] + chunks[i]

\* The size the queue reports is what it holds, and no order of pushes and pops,
\* however large a chunk, makes it hold more than the high watermark
\* (BoundedByteQueue.hpp:19-39).
HoldsAtMostWatermark ==
  \E held \in [0..Len(chunks) -> 0..HighWatermark] :
    Totals(held) /\ held[Len(chunks)] = size

\* An unpaused controller asks for a pause exactly when what is buffered and what
\* comes in reach the threshold as numbers, however close to the largest size_t
\* they are (BackpressureController.cpp:10-14).
PauseIsExact ==
  asked.op = "pause" /\ (asked.answer \/ ~paused) =>
    (asked.answer <=> asked.buffered + asked.incoming >= PauseThreshold)
=============================================================================
