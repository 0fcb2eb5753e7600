--------------------------- MODULE InteractiveShell ---------------------------
(***************************************************************************)
(* LibsshAdapter::start_interactive_shell: one thread that polls standard  *)
(* input for 5 ms, forwards what it read, drains both output streams and   *)
(* tests for the remote end of file, with the terminal in raw mode         *)
(* meanwhile.  The other actors are the user (or whatever feeds standard   *)
(* input), the remote shell, which echoes what it reads, and the network.  *)
(*                                                                         *)
(* libssh, by what the loop relies on: ssh_channel_write sends as the      *)
(* remote window allows and waits, for ever, for more; a CLOSE that comes  *)
(* while output is unread is put off until it has been read (delayed_close)*)
(* and wakes no writer; ssh_channel_poll fails on a dead session; reading  *)
(* renews the local window.                                                *)
(***************************************************************************)
EXTENDS Integers

CONSTANTS
  MaxTyped,    (* bound: bytes that reach standard input                  *)
  MaxPrinted,  (* bound: bytes per stream the shell prints unasked        *)
  ReadSize,    (* sizeof(buffer)                                          *)
  InWindow,    (* bytes the remote side accepts unread                    *)
  OutWindow,   (* bytes the local side accepts between two reads          *)
  LinkFaults   (* how the connection may fail: "broken", "silent"         *)

Streams == {"stdout", "stderr"}

ASSUME ShellAssumption ==
  /\ MaxTyped \in Nat
  /\ MaxPrinted \in Nat
  /\ ReadSize \in Nat \ {0}
  /\ InWindow \in Nat \ {0}
  /\ OutWindow \in Nat \ {0}
  /\ LinkFaults \subseteq {"broken", "silent"}

VARIABLES
  pc,          (* where start_interactive_shell is                        *)
  channel,     (* life of the ssh_channel object                          *)
  terminal,    (* "cooked" or "raw"                                       *)
  running,     (* the loop's flag                                         *)
  stdin,       (* "open"; at its end: "eof" (a file or terminal, which    *)
               (* stays readable) or "hungup" (a pipe: POLLHUP alone)     *)
  typed,       (* bytes that have reached standard input                  *)
  consumed,    (* bytes read from it                                      *)
  pending,     (* bytes ssh_channel_write still has to send               *)
  forwarded,   (* bytes it has sent                                       *)
  received,    (* bytes the remote shell has read and echoed              *)
  printed,     (* bytes the remote shell has printed of its own           *)
  sent, shown, (* output per stream: received by libssh, written locally  *)
  credit,      (* output bytes the server may still send                  *)
  eof, closed, (* CHANNEL_EOF and CHANNEL_CLOSE received                  *)
  link         (* "up", "broken", "silent"                                *)

loop == <<channel, terminal>>
input == <<typed, consumed, pending, forwarded>>
remote == <<received, printed, sent, eof, closed>>
vars == <<pc, loop, running, stdin, input, remote, shown, credit, link>>

Looping == {"poll", "read", "write", "sending", "drainStdout", "drainStderr", "testEof"}
Done == pc \in {"returned", "threw"}

Zero == [s \in Streams |-> 0]

Init ==
  /\ pc = "newChannel" /\ channel = "none"
  /\ terminal = "cooked" /\ running = TRUE
  /\ stdin = "open"
  /\ typed = 0 /\ consumed = 0 /\ pending = 0 /\ forwarded = 0 /\ received = 0
  /\ printed = Zero /\ sent = Zero /\ shown = Zero
  /\ credit = OutWindow
  /\ eof = FALSE /\ closed = FALSE
  /\ link = "up"

Least(a, b) == IF a <= b THEN a ELSE b
Unread(s) == sent[s] - shown[s]
InCredit == InWindow - (forwarded - received)

\* The channel is closed to libssh once its CLOSE has come and all is read.
ChannelClosed == closed /\ \A s \in Streams : Unread(s) = 0

\* Faulty IsEof: what is still unread is not waited for; it is never seen.
IsEofEarly == eof \/ closed
IsEofNever == FALSE

\* ssh_channel_is_eof
IsEof == (eof \/ closed) /\ \A s \in Streams : Unread(s) = 0

Goto(from, to) == pc = from /\ pc' = to

-----------------------------------------------------------------------------
(* Setting up and leaving.                                                  *)

NewChannel ==
  /\ Goto("newChannel", "openSession")
  /\ channel' = "allocated"
  /\ UNCHANGED <<terminal, running, stdin, input, remote, shown, credit, link>>

OpenSession ==
  /\ Goto("openSession", "requestPty") /\ link = "up"
  /\ channel' = "open"
  /\ UNCHANGED <<terminal, running, stdin, input, remote, shown, credit, link>>

RequestPtyAndShell ==
  /\ Goto("requestPty", "requestShell") \/ Goto("requestShell", "setRaw")
  /\ link = "up"
  /\ UNCHANGED <<loop, running, stdin, input, remote, shown, credit, link>>

SetupFails ==
  /\ pc = "newChannel" \/ (pc \in {"openSession", "requestPty", "requestShell"} /\ link # "silent")
  /\ pc' = "threw"
  /\ channel' = IF channel = "none" THEN "none" ELSE "freed"
  /\ UNCHANGED <<terminal, running, stdin, input, remote, shown, credit, link>>

SetRaw ==
  /\ Goto("setRaw", "poll")
  /\ terminal' = "raw"
  /\ UNCHANGED <<channel, running, stdin, input, remote, shown, credit, link>>

\* Faulty Restored: the terminal stays raw.
RestoredNever == terminal

\* The mode tcgetattr found.
Restored == "cooked"

Restore ==
  /\ Goto("restore", "returned")
  /\ terminal' = Restored
  /\ channel' = "freed"
  /\ UNCHANGED <<running, stdin, input, remote, shown, credit, link>>

-----------------------------------------------------------------------------
(* The loop.                                                                *)

\* Faulty Readable: a hangup is taken for the end of the input.
ReadableConnected == stdin # "hungup" /\ (typed > consumed \/ stdin = "eof")

\* poll answers POLLIN for bytes and for the end of a file or terminal; after
\* 5 ms without, and for a pipe that only hung up, the loop goes on.
Readable == typed > consumed \/ stdin = "eof"

Poll ==
  /\ pc = "poll"
  /\ pc' = IF Readable THEN "read" ELSE "drainStdout"
  /\ UNCHANGED <<loop, running, stdin, input, remote, shown, credit, link>>

\* Faulty GoesOn: the end of the input is no reason to leave.
GoesOnAlways(bytes) == TRUE

GoesOn(bytes) == bytes > 0

ReadStdin ==
  /\ pc = "read"
  /\ LET n == Least(ReadSize, typed - consumed)
     IN  /\ consumed' = consumed + n
         /\ pending' = n
         /\ running' = GoesOn(n)
         /\ pc' = IF n > 0 THEN "write" ELSE "drainStdout"
  /\ UNCHANGED <<loop, stdin, typed, forwarded, remote, shown, credit, link>>

\* Faulty Left: a write that does not block, its result ignored.
LeftBehind(n) == 0

\* What ssh_channel_write, having sent n bytes, goes on with.
Left(n) == pending - n

\* ssh_channel_write is called: a CLOSE, even one put off, refuses the call.
StartWrite ==
  /\ Goto("write", "sending")
  /\ link # "broken" /\ ~closed
  /\ UNCHANGED <<loop, running, stdin, input, remote, shown, credit, link>>

\* One round inside ssh_channel_write: as much as the remote window allows.
WriteSome ==
  /\ pc = "sending" /\ link # "broken" /\ ~ChannelClosed
  /\ InCredit > 0
  /\ LET n == Least(pending, InCredit)
     IN  /\ forwarded' = forwarded + n
         /\ pending' = Left(n)
         /\ pc' = IF Left(n) = 0 THEN "drainStdout" ELSE "sending"
  /\ UNCHANGED <<loop, running, stdin, typed, consumed, remote, shown, credit, link>>

\* ssh_channel_write fails; its result is not looked at and the bytes are gone.
\* A call under way ends when the channel is closed, not when its CLOSE is put off.
WriteFails ==
  /\ \/ Goto("write", "drainStdout") /\ (link = "broken" \/ closed)
     \/ Goto("sending", "drainStdout") /\ (link = "broken" \/ ChannelClosed)
  /\ pending' = 0
  /\ UNCHANGED <<loop, running, stdin, typed, consumed, forwarded, remote, shown, credit, link>>

DrainPc(s) == IF s = "stdout" THEN "drainStdout" ELSE "drainStderr"

DrainSome(s) ==
  /\ pc = DrainPc(s) /\ link # "broken" /\ Unread(s) > 0
  /\ shown' = [shown EXCEPT ![s] = @ + Least(ReadSize, Unread(s))]
  /\ credit' = OutWindow
  /\ UNCHANGED <<pc, loop, running, stdin, input, remote, link>>

Drained(s) ==
  /\ Goto(DrainPc(s), IF s = "stdout" THEN "drainStderr" ELSE "testEof")
  /\ link = "broken" \/ Unread(s) = 0
  /\ UNCHANGED <<loop, running, stdin, input, remote, shown, credit, link>>

\* Only the end of file is tested: ssh_channel_is_open is not asked here.
TestEof ==
  /\ Goto("testEof", IF IsEof \/ ~running THEN "restore" ELSE "poll")
  /\ running' = (running /\ ~IsEof)
  /\ UNCHANGED <<loop, stdin, input, remote, shown, credit, link>>

Client ==
  \/ NewChannel \/ OpenSession \/ RequestPtyAndShell \/ SetupFails \/ SetRaw
  \/ Poll \/ ReadStdin \/ StartWrite \/ WriteSome \/ WriteFails
  \/ \E s \in Streams : DrainSome(s) \/ Drained(s)
  \/ TestEof \/ Restore

-----------------------------------------------------------------------------
(* The user, the remote shell and the network.                              *)

Type ==
  /\ stdin = "open" /\ typed < MaxTyped /\ ~Done
  /\ typed' = typed + 1
  /\ UNCHANGED <<pc, loop, running, stdin, consumed, pending, forwarded, remote, shown,
                 credit, link>>

CloseStdin ==
  /\ stdin = "open" /\ ~Done
  /\ stdin' \in {"eof", "hungup"}
  /\ UNCHANGED <<pc, loop, running, input, remote, shown, credit, link>>

Attached == link = "up" /\ ~closed /\ pc \in Looping
Alive == Attached /\ ~eof

\* The shell reads a byte and writes it back: it cannot read on while its own
\* output finds no room in the window.
Echo ==
  /\ Alive /\ received < forwarded /\ credit > 0
  /\ received' = received + 1
  /\ sent' = [sent EXCEPT !["stdout"] = @ + 1]
  /\ credit' = credit - 1
  /\ UNCHANGED <<pc, loop, running, stdin, input, printed, eof, closed, shown, link>>

PrintOutput(s) ==
  /\ Alive /\ printed[s] < MaxPrinted /\ credit > 0
  /\ printed' = [printed EXCEPT ![s] = @ + 1]
  /\ sent' = [sent EXCEPT ![s] = @ + 1]
  /\ credit' = credit - 1
  /\ UNCHANGED <<pc, loop, running, stdin, input, received, eof, closed, shown, link>>

ShellEnds ==
  /\ Alive
  /\ eof' = TRUE
  /\ UNCHANGED <<pc, loop, running, stdin, input, received, printed, sent, closed, shown,
                 credit, link>>

SendClose ==
  /\ Attached /\ eof
  /\ closed' = TRUE
  /\ UNCHANGED <<pc, loop, running, stdin, input, received, printed, sent, eof, shown,
                 credit, link>>

LinkFails ==
  /\ link = "up" /\ ~Done
  /\ link' \in LinkFaults
  /\ UNCHANGED <<pc, loop, running, stdin, input, remote, shown, credit>>

Terminated == Done /\ UNCHANGED vars

Next ==
  \/ Client \/ Type \/ CloseStdin \/ Echo \/ (\E s \in Streams : PrintOutput(s))
  \/ ShellEnds \/ SendClose \/ LinkFails \/ Terminated

Spec == Init /\ [][Next]_vars

\* The client thread is scheduled, the remote shell reads what it can echo, and
\* a server whose shell has ended closes the channel.
FairSpec == Spec /\ WF_vars(Client) /\ WF_vars(Echo) /\ WF_vars(SendClose)

-----------------------------------------------------------------------------
(* Properties.                                                              *)

\* However the function ends the terminal is as it was and the channel is freed,
\* and the terminal is raw while keys are forwarded (LibsshAdapter.cpp:227-231,
\* 280-282).
TerminalRestored ==
  /\ Done => terminal = "cooked" /\ channel \in {"none", "freed"}
  /\ pc \in Looping => terminal = "raw" /\ channel = "open"

\* When the shell, not standard input, ends the session, the user has seen all of
\* its output: bytes that arrive during the drains or before the test are shown
\* (LibsshAdapter.cpp:255-277).
LastWordsShown ==
  pc = "restore" /\ stdin # "eof" => shown = sent /\ (eof \/ closed)

\* A byte read from the keyboard is on its way to the remote side unless the
\* session died or the channel was closed (LibsshAdapter.cpp:246-253).
InputNotLost == link # "broken" /\ ~closed => consumed = forwarded + pending

\* The client waits in ssh_channel_write for a window that will never open: the
\* output it would have to read first puts off the CLOSE that would wake it
\* (LibsshAdapter.cpp:249 before 255-271).
Stuck == pc = "sending" /\ InCredit = 0 /\ closed /\ ~ChannelClosed

\* The end of the remote shell ends the session, even if the client waits in
\* ssh_channel_write for a window that will never open, with the one exception
\* that Stuck names (LibsshAdapter.cpp:246-277).
ShellEndReturns == eof /\ link = "up" ~> Done \/ link # "up" \/ Stuck

\* The end of standard input that poll reports, that of a file or a terminal, ends
\* the session whatever has become of the connection, for a shell whose output
\* ends and unless more has been typed than the remote window holds.  A pipe that
\* only hangs up (POLLHUP without POLLIN) is no such end: the loop goes on without
\* it (LibsshAdapter.cpp:244-275).
EndOfInputReturns == stdin = "eof" /\ pc \in Looping /\ typed <= InWindow ~> Done

\* While no more has been typed than the remote window holds, every key is echoed
\* in the end, whatever the shell prints meanwhile (LibsshAdapter.cpp:241-278);
\* beyond that the client may wait to send while the shell waits to print.
TypedIsEchoed ==
  \A n \in 1..InWindow :
    typed = n ~> received >= n \/ typed > InWindow \/ eof \/ Done \/ link # "up"
=============================================================================
