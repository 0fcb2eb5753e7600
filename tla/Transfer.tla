------------------------------- MODULE Transfer -------------------------------
(***************************************************************************)
(* What a transfer of one file promises: the destination grows by more and *)
(* more of the file, success is reported of a whole copy only, a transfer  *)
(* that fails or throws leaves a beginning of the file, and every transfer *)
(* ends.  Chunks, handles and answers are left out.                        *)
(***************************************************************************)
EXTENDS Integers, Sequences

VARIABLES
  phase,    (* "idle", "running", "succeeded", "failed" or "threw"         *)
  file,     (* the bytes to be copied                                      *)
  copied    (* how many of them are at the destination                     *)

vars == <<phase, file, copied>>

Init ==
  /\ phase \in {"idle", "running"}
  /\ copied = 0

Grow(n) ==
  /\ phase = "running"
  /\ copied' = n
  /\ UNCHANGED <<phase, file>>

Succeed ==
  /\ phase = "running" /\ copied = Len(file)
  /\ phase' = "succeeded"
  /\ UNCHANGED <<file, copied>>

Fail ==
  /\ phase = "running" /\ copied < Len(file)
  /\ phase' = "failed"
  /\ UNCHANGED <<file, copied>>

\* The last chunk may have been copied though its answer was lost.
Throw(n) ==
  /\ phase = "running"
  /\ phase' = "threw" /\ copied' = n
  /\ UNCHANGED file

Next ==
  \/ \E n \in copied + 1..Len(file) : Grow(n)
  \/ Succeed \/ Fail
  \/ \E n \in copied..Len(file) : Throw(n)

\* The promise without its last part, that every transfer ends.
Safety == Init /\ [][Next]_vars

Spec == Safety /\ WF_vars(Next)
=============================================================================
