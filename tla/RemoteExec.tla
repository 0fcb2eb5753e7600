------------------------------ MODULE RemoteExec ------------------------------
(***************************************************************************)
(* What one call of ISshAdapter::exec promises its caller: the callbacks   *)
(* see growing prefixes of the command's two output streams; an exit code  *)
(* that is not NoStatus is the command's own and comes after all of its    *)
(* output; NoStatus says that the output may be incomplete; an exception   *)
(* comes before any output.  How the bytes cross the network is left out.  *)
(***************************************************************************)
EXTENDS Integers

CONSTANTS
  Outputs,     (* what commands may write: bytes per stream               *)
  ExitCodes    (* exit codes a command may report                         *)

Streams == {"stdout", "stderr"}
NoStatus == -1

VARIABLES
  phase,       (* "running", "returned" or "threw"                        *)
  output,      (* what this command writes                                *)
  exitCode,    (* the code it exits with                                  *)
  delivered,   (* bytes handed to on_stdout and on_stderr                 *)
  code         (* ExecResponse.exit_code                                  *)

vars == <<phase, output, exitCode, delivered, code>>

Nothing == [s \in Streams |-> 0]

Init ==
  /\ phase = "running"
  /\ output \in Outputs
  /\ exitCode \in ExitCodes
  /\ delivered = Nothing
  /\ code = NoStatus

Deliver(s, n) ==
  /\ phase = "running"
  /\ delivered[s] + n <= output[s]
  /\ delivered' = [delivered EXCEPT ![s] = @ + n]
  /\ UNCHANGED <<phase, output, exitCode, code>>

Return ==
  /\ phase = "running"
  /\ delivered = output
  /\ code' = exitCode
  /\ phase' = "returned"
  /\ UNCHANGED <<output, exitCode, delivered>>

\* The command was killed or the session died: ExecResponse{-1}, no exception.
ReturnUnknown ==
  /\ phase = "running"
  /\ phase' = "returned"
  /\ UNCHANGED <<output, exitCode, delivered, code>>

Throw ==
  /\ phase = "running"
  /\ delivered = Nothing
  /\ phase' = "threw"
  /\ UNCHANGED <<output, exitCode, delivered, code>>

Next ==
  \/ \E s \in Streams : \E n \in 1..output[s] : Deliver(s, n)
  \/ Return
  \/ ReturnUnknown
  \/ Throw

Spec == Init /\ [][Next]_vars
=============================================================================
