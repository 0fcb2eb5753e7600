----------------------------- MODULE ChannelExec -----------------------------
(***************************************************************************)
(* One call of LibsshAdapter::exec against one remote command.             *)
(*                                                                         *)
(* Three actors take steps: the client thread inside exec, the SSH server  *)
(* with the command it runs, and the network between them.  Output is      *)
(* counted in bytes: SSH delivers the bytes of a stream in order, so the   *)
(* number delivered names the prefix the callbacks have seen.              *)
(*                                                                         *)
(* libssh and the server are not part of the repository.  They appear here *)
(* by the behaviour exec relies on:                                        *)
(*   - a blocking ssh_channel_read of a stream returns as soon as one byte *)
(*     of that stream is there, at its end of file, or on a dead session,  *)
(*     and waits otherwise (no timeout is ever set);                       *)
(*   - both streams share one receive window; the server sends only into   *)
(*     the credit it holds, and the client renews the credit when a read   *)
(*     is issued (the most generous policy: a read that waits for ever     *)
(*     here waits for ever under any thriftier one);                       *)
(*   - exit-status may overtake output still in the command's pipes, no    *)
(*     data follows EOF, and CLOSE is the last message of a channel.       *)
(***************************************************************************)
EXTENDS Integers

CONSTANTS
  Outputs,     (* what commands may write: bytes per stream               *)
  ExitCodes,   (* exit codes a command may report                         *)
  Window,      (* receive-window bytes shared by the two streams          *)
  ReadSize,    (* sizeof(buffer) in exec: most bytes one read returns     *)
  LinkFaults   (* how the connection may fail: "broken", "silent"         *)

Streams == {"stdout", "stderr"}
NoStatus == -1   \* ssh_channel_get_exit_status without an exit-status message

ASSUME ExecAssumption ==
  /\ Outputs \subseteq [Streams -> Nat]
  /\ ExitCodes \subseteq Nat
  /\ Window \in Nat \ {0}
  /\ ReadSize \in Nat \ {0}
  /\ LinkFaults \subseteq {"broken", "silent"}

VARIABLES
  pc,          (* where the client thread is in exec                      *)
  channel,     (* life of the ssh_channel object                          *)
  delivered,   (* bytes handed to on_stdout and on_stderr                 *)
  code,        (* exit code exec returns                                  *)
  link,        (* "up"; "broken" (libssh notices); "silent" (it cannot)   *)
  process,     (* the remote command                                      *)
  output,      (* bytes the command writes if it is not killed            *)
  exitCode,    (* the code the command exits with                         *)
  credit,      (* bytes the server may still send                         *)
  sent,        (* bytes the client's libssh has received                  *)
  eof,         (* CHANNEL_EOF received                                    *)
  closed,      (* CHANNEL_CLOSE received                                  *)
  status       (* exit status received, or NoStatus                       *)

client == <<pc, channel, delivered, code>>
server == <<process, sent, eof, closed, status>>
command == <<output, exitCode>>
vars == <<client, link, credit, server, command>>

PCs == {"newChannel", "openSession", "requestExec", "loopTest", "readStdout",
        "readStderr", "exitStatus", "returned", "threw"}
Done == pc \in {"returned", "threw"}

TypeOK ==
  /\ pc \in PCs
  /\ channel \in {"none", "allocated", "open", "freed"}
  /\ delivered \in [Streams -> Nat]
  /\ code \in ExitCodes \cup {NoStatus}
  /\ link \in {"up", "broken", "silent"}
  /\ process \in {"idle", "running", "exited", "killed"}
  /\ output \in [Streams -> Nat]
  /\ exitCode \in ExitCodes
  /\ credit \in 0..Window
  /\ sent \in [Streams -> Nat]
  /\ eof \in BOOLEAN
  /\ closed \in BOOLEAN
  /\ status \in ExitCodes \cup {NoStatus}

Init ==
  /\ pc = "newChannel"
  /\ channel = "none"
  /\ delivered = [s \in Streams |-> 0]
  /\ code = NoStatus
  /\ link = "up"
  /\ process = "idle"
  /\ output \in Outputs
  /\ exitCode \in ExitCodes
  /\ credit = 0
  /\ sent = [s \in Streams |-> 0]
  /\ eof = FALSE
  /\ closed = FALSE
  /\ status = NoStatus

-----------------------------------------------------------------------------
(* What libssh answers about the channel.                                   *)

Unread(s) == sent[s] - delivered[s]
AllRead == \A s \in Streams : Unread(s) = 0
Ended == eof \/ closed

\* A CLOSE that arrives with bytes unread is held back until they are read.
IsOpen == link # "broken" /\ ~(closed /\ AllRead)
IsEof == Ended /\ AllRead

-----------------------------------------------------------------------------
(* The client thread.                                                       *)

\* Faulty Released: a refused request throws without freeing the channel.
ReleasedNever == channel

Released == IF channel = "none" THEN "none" ELSE "freed"

\* Each failing call frees what it holds before it throws.
Fail(at) ==
  /\ pc = at
  /\ pc' = "threw"
  /\ channel' = Released
  /\ UNCHANGED <<delivered, code, link, credit, server, command>>

NewChannel ==
  /\ pc = "newChannel"
  /\ channel' = "allocated"
  /\ pc' = "openSession"
  /\ UNCHANGED <<delivered, code, link, credit, server, command>>

OpenSession ==
  /\ pc = "openSession"
  /\ link = "up"
  /\ channel' = "open"
  /\ pc' = "requestExec"
  /\ UNCHANGED <<delivered, code, link, credit, server, command>>

RequestExec ==
  /\ pc = "requestExec"
  /\ link = "up"
  /\ process' = "running"
  /\ credit' = Window
  /\ pc' = "loopTest"
  /\ UNCHANGED <<channel, delivered, code, link, sent, eof, closed, status, command>>

\* The server refuses a request, or the session is dead.  On a silent link
\* the two requests neither succeed nor fail.
SetupFails ==
  \/ Fail("newChannel")
  \/ link # "silent" /\ (Fail("openSession") \/ Fail("requestExec"))

\* Faulty GoesOn: the loop also ends once the exit status is known; only the end
\* of file is tested, not ssh_channel_is_open; bytes yet unread are forgotten.
GoesOnUntilStatus == IsOpen /\ ~IsEof /\ status = NoStatus
GoesOnUntilEof == ~IsEof
GoesOnUntilEnd == IsOpen /\ ~Ended

\* The condition of the loop.
GoesOn == IsOpen /\ ~IsEof

\* The two ssh_channel_poll calls discard their results; what they do, taking
\* in packets that have arrived, is a step of the server here.
LoopTest ==
  /\ pc = "loopTest"
  /\ IF GoesOn
     THEN pc' = "readStdout" /\ credit' = Window
     ELSE pc' = "exitStatus" /\ UNCHANGED credit
  /\ UNCHANGED <<channel, delivered, code, link, server, command>>

ReadPc(s) == IF s = "stdout" THEN "readStdout" ELSE "readStderr"
Least(a, b) == IF a <= b THEN a ELSE b

AfterRead(s) ==
  /\ pc' = IF s = "stdout" THEN "readStderr" ELSE "loopTest"
  /\ credit' = Window

\* Faulty Taken: the callback is given the whole buffer, not out_bytes of it.
TakenWhole(s) == ReadSize

Taken(s) == Least(ReadSize, Unread(s))

\* The read finds bytes and the callback of the stream consumes them.
ReadChunk(s) ==
  /\ pc = ReadPc(s)
  /\ link # "broken"
  /\ Unread(s) > 0
  /\ delivered' = [delivered EXCEPT ![s] = @ + Taken(s)]
  /\ AfterRead(s)
  /\ UNCHANGED <<channel, code, link, server, command>>

\* The read returns 0 (end of the stream) or an error; exec goes on either way.
ReadNothing(s) ==
  /\ pc = ReadPc(s)
  /\ link = "broken" \/ (Ended /\ Unread(s) = 0)
  /\ AfterRead(s)
  /\ UNCHANGED <<channel, delivered, code, link, server, command>>

Read(s) == ReadChunk(s) \/ ReadNothing(s)

\* Faulty Answered: it waits for an exit status even when the channel is closed.
AnsweredByStatus == link = "broken" \/ status # NoStatus

Answered == link = "broken" \/ closed \/ status # NoStatus

\* Faulty Reported: SSH_AGAIN of a dead session is taken for an exit code.
ReportedAgain == IF link = "broken" THEN -2 ELSE status

Reported == IF link = "broken" THEN NoStatus ELSE status

\* ssh_channel_send_eof, then ssh_channel_get_exit_status, which waits for the
\* status, the CLOSE or the death of the session, then close, free and return.
Finish ==
  /\ pc = "exitStatus"
  /\ Answered
  /\ code' = Reported
  /\ channel' = "freed"
  /\ pc' = "returned"
  /\ UNCHANGED <<delivered, link, credit, server, command>>

Client ==
  \/ NewChannel \/ OpenSession \/ RequestExec \/ SetupFails
  \/ LoopTest \/ (\E s \in Streams : Read(s)) \/ Finish

-----------------------------------------------------------------------------
(* The server and the command it runs.                                      *)

Connected == link = "up" /\ channel = "open" /\ process # "idle" /\ ~closed

\* Some output of a stream crosses the link, within the window.
Send(s, n) ==
  /\ Connected /\ ~eof /\ process # "killed"
  /\ sent[s] + n <= output[s]
  /\ n <= credit
  /\ sent' = [sent EXCEPT ![s] = @ + n]
  /\ credit' = credit - n
  /\ UNCHANGED <<client, link, process, eof, closed, status, command>>

\* The command exits and its status is sent, maybe before all of its output.
Exit ==
  /\ Connected /\ process = "running"
  /\ process' = "exited"
  /\ status' = exitCode
  /\ UNCHANGED <<client, link, credit, sent, eof, closed, command>>

\* A signal ends the command: its remaining output is lost, no status comes.
Kill ==
  /\ Connected /\ process = "running"
  /\ process' = "killed"
  /\ UNCHANGED <<client, link, credit, sent, eof, closed, status, command>>

OutputOver == process = "killed" \/ sent = output

SendEof ==
  /\ Connected /\ ~eof /\ OutputOver
  /\ eof' = TRUE
  /\ UNCHANGED <<client, link, credit, process, sent, closed, status, command>>

\* Servers may close without a separate EOF.
SendClose ==
  /\ Connected /\ process \in {"exited", "killed"} /\ OutputOver
  /\ closed' = TRUE
  /\ UNCHANGED <<client, link, credit, process, sent, eof, status, command>>

SendSome == \E s \in Streams : \E n \in 1..Window : Send(s, n)

Server == SendSome \/ Exit \/ Kill \/ SendEof \/ SendClose

-----------------------------------------------------------------------------
(* The network.  A peer that vanishes without a reset leaves a silent link: *)
(* LibsshAdapter::enable_keepalive has an empty body, so nothing notices.   *)

LinkFails ==
  /\ link = "up" /\ ~Done
  /\ link' \in LinkFaults
  /\ UNCHANGED <<client, credit, server, command>>

Terminated == Done /\ UNCHANGED vars

Next == Client \/ Server \/ LinkFails \/ Terminated

Spec == Init /\ [][Next]_vars

(***************************************************************************)
(* Fairness.  The client thread is scheduled (every action of exec); the   *)
(* server forwards output it has credit for and ends the channel of a      *)
(* command that has ended.  The command owes no exit (it may be a log      *)
(* follower), nobody has to be killed and no link has to fail.             *)
(***************************************************************************)
FairSpec ==
  /\ Spec
  /\ WF_vars(Client)
  /\ WF_vars(SendSome) /\ WF_vars(SendEof) /\ WF_vars(SendClose)

-----------------------------------------------------------------------------
(* Properties.                                                              *)

\* An exit code other than NoStatus means that the command exited by itself
\* with that code and that the callbacks have seen all of its output: a
\* status that overtakes the output, a lost connection or a kill never turns
\* a truncated output into a success (LibsshAdapter.cpp:166-191).
CompleteOnStatus ==
  pc = "returned" /\ code # NoStatus =>
    /\ process = "exited"
    /\ code = exitCode
    /\ delivered = output

\* However exec ends, the channel object it allocated is freed, and no step of
\* the loop or after it uses a channel that is not open.
ChannelReleased ==
  /\ Done => channel \in {"none", "freed"}
  /\ pc \in {"loopTest", "readStdout", "readStderr", "exitStatus"} => channel = "open"

\* The loop may leave bytes that arrived undelivered only if the session died:
\* end of file and CLOSE are acted on after the last byte of BOTH streams.
DrainedBeforeExit ==
  pc = "exitStatus" /\ link # "broken" =>
    /\ AllRead
    /\ process # "killed" => delivered = output

\* exec keeps the promise of RemoteExec.
Phase == IF Done THEN pc ELSE "running"
Remote == INSTANCE RemoteExec WITH phase <- Phase
ImplementsRemoteExec == Remote!Spec

CommandOver == process \in {"exited", "killed"}
FitsWindow == output["stdout"] + output["stderr"] <= Window

\* A command that ends, by itself or by a signal, ends exec, on a link that is
\* not silent, provided its output fits the receive window.
FittingExecReturns == CommandOver /\ FitsWindow ~> Done \/ link = "silent"

\* However much the command has written, its end ends exec
\* (SessionManagerLargeOutputTest.cpp:6, "HandlesLargeStdoutWithoutHanging").
ExecReturns == CommandOver ~> Done \/ link = "silent"

\* A connection that libssh sees break ends exec, whatever the command does and
\* wherever the client thread waits.
BrokenLinkEndsExec == link = "broken" ~> Done
=============================================================================
