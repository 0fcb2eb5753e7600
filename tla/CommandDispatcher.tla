-------------------------- MODULE CommandDispatcher --------------------------
(***************************************************************************)
(* One run of the zssh process: run_main around run_command, the command   *)
(* handlers, and SessionManager between them and the SSH adapter.          *)
(*                                                                         *)
(* The remote side of `exec` is RemoteExec, the promise that ChannelExec   *)
(* is shown to keep; `connect` ends in a shell session whose inside is     *)
(* module InteractiveShell.  Bytes of a remote stream are numbered from 1, *)
(* so a sequence of numbers says what a sink has received and in which     *)
(* order.                                                                  *)
(***************************************************************************)
EXTENDS Integers, Sequences, SequencesExt

CONSTANTS
  Outputs, ExitCodes,  (* of RemoteExec                                    *)
  Runtimes             (* what a runtime factory may return                *)

ASSUME DispatcherAssumption ==
  /\ Outputs \subseteq [{"stdout", "stderr"} -> Nat]
  /\ ExitCodes \subseteq Nat
  /\ Runtimes \subseteq [ssh : BOOLEAN, platform : BOOLEAN, renderer : BOOLEAN]

VARIABLES
  step,                (* where the process is                             *)
  request,             (* CommandRequest: verb and --json                  *)
  runtime,             (* CommandRuntime: which pointers are set           *)
  phase, output, exitCode, delivered, code,   (* of RemoteExec             *)
  captured,            (* CommandResult.stdout_text and stderr_text        *)
  screen,              (* bytes written to the process's two outputs       *)
  documents,           (* JSON documents printed                           *)
  remoteFile,          (* the destination of `copy`                        *)
  handles,             (* SFTP handles open                                *)
  status,              (* exit status of the process, or Running           *)
  complaint            (* run_main caught an exception                     *)

Remote == INSTANCE RemoteExec
Streams == Remote!Streams

exec == <<phase, output, exitCode, delivered, code>>
sinks == <<captured, screen, documents>>
sftp == <<remoteFile, handles>>
ending == <<status, complaint>>
vars == <<step, request, runtime, exec, sinks, sftp, ending>>

Kinds == {"connect", "exec", "config", "keygen", "proxy", "copy"}
Requests == [kind : Kinds \cup {"nothing", "help"}, json : BOOLEAN]
Running == -1

\* A sequence of the bytes from..to of a stream.
Bytes(from, to) == [i \in 1..(to - from + 1) |-> from + i - 1]

\* The exit status a parent process sees of `return code` in main.
ToStatus(c) == c % 256

Init ==
  /\ step = "parse"
  /\ request \in Requests
  /\ runtime \in Runtimes
  /\ Remote!Init
  /\ captured = [s \in Streams |-> <<>>]
  /\ screen = [s \in Streams |-> <<>>]
  /\ documents = <<>>
  /\ remoteFile = "old"
  /\ handles = 0
  /\ status = Running
  /\ complaint = FALSE

-----------------------------------------------------------------------------

Goto(from, to) == step = from /\ step' = to

Exit(from, s) == Goto(from, "exited") /\ status' = s /\ UNCHANGED complaint

\* An exception reaches run_main: its text goes to stderr, the status is 1.
Throw(from) == Goto(from, "exited") /\ status' = 1 /\ complaint' = TRUE

\* Usage errors, an unknown verb, a malformed command line; for `config`
\* also a missing --json.  `connect` takes no --json.
Refused ==
  /\ Throw("parse")
  /\ request.kind \in Kinds
  /\ UNCHANGED <<request, runtime, exec, sinks, sftp>>

Accepted ==
  /\ Goto("parse", "profile")
  /\ request.kind \in {"connect", "exec", "config", "copy"}
  /\ request.kind = "connect" => ~request.json
  /\ request.kind = "config" => request.json
  /\ UNCHANGED <<request, runtime, exec, sinks, sftp, ending>>

\* No argument at all, or --help in the place of the verb.
Usage ==
  /\ \/ request.kind = "nothing" /\ Exit("parse", 2)
     \/ request.kind = "help" /\ Exit("parse", 0)
  /\ UNCHANGED <<request, runtime, exec, sinks, sftp>>

\* keygen and proxy print a line and do nothing else.
RunStub ==
  /\ Exit("parse", 0)
  /\ request.kind \in {"keygen", "proxy"}
  /\ UNCHANGED <<request, runtime, exec, sinks, sftp>>

\* resolve_config_path, load_config and the profile lookup fail or succeed.
NoProfile ==
  /\ Throw("profile")
  /\ UNCHANGED <<request, runtime, exec, sinks, sftp>>

ProfileFound ==
  /\ IF request.kind = "config" THEN Exit("profile", 0)
                                ELSE Goto("profile", "runtime") /\ UNCHANGED ending
  /\ UNCHANGED <<request, runtime, exec, sinks, sftp>>

\* What a command needs of the runtime before it contacts the host.
Usable ==
  /\ runtime.ssh
  /\ request.kind = "exec" /\ ~request.json => runtime.platform

MakeRuntime ==
  /\ IF Usable THEN Goto("runtime", "connect") /\ UNCHANGED ending
               ELSE Throw("runtime")
  /\ UNCHANGED <<request, runtime, exec, sinks, sftp>>

\* The factory throws: LibsshAdapter cannot make a session.
FactoryThrows ==
  /\ Throw("runtime")
  /\ UNCHANGED <<request, runtime, exec, sinks, sftp>>

ConnectFails ==
  /\ Throw("connect")
  /\ UNCHANGED <<request, runtime, exec, sinks, sftp>>

Connect ==
  /\ Goto("connect", CASE request.kind = "exec" -> "exec"
                       [] request.kind = "connect" -> "shell"
                       [] OTHER -> "openWrite")
  /\ UNCHANGED <<request, runtime, exec, sinks, sftp, ending>>

-----------------------------------------------------------------------------
(* exec                                                                     *)

\* Faulty Keeps: has_callbacks tested the wrong way round.
KeepsInverted == ~request.json

\* SessionManager keeps the text if the caller has no callbacks.
Keeps == request.json

Capture(s, chunk) ==
  captured' = IF Keeps THEN [captured EXCEPT ![s] = @ \o chunk] ELSE captured

\* Faulty Shown: the session manager prints the chunk as well.
ShownTwice(chunk) == chunk \o chunk

\* The dispatcher's callbacks: the renderer, if there is one, and then the
\* process's own stream.  AnsiTerminalRenderer writes to the same stream.
Shown(chunk) == IF runtime.renderer THEN chunk \o chunk ELSE chunk

Display(s, chunk) ==
  screen' = IF request.json THEN screen ELSE [screen EXCEPT ![s] = @ \o Shown(chunk)]

Chunk(s, n) ==
  /\ step = "exec"
  /\ Remote!Deliver(s, n)
  /\ LET chunk == Bytes(delivered[s] + 1, delivered[s] + n)
     IN  Capture(s, chunk) /\ Display(s, chunk)
  /\ UNCHANGED <<step, request, runtime, documents, sftp, ending>>

Document(c) == [exit_code |-> c, stdout |-> captured["stdout"], stderr |-> captured["stderr"]]

\* Faulty ExecStatus: response.exit_code is never stored, so the code is what
\* the callbacks left: 1 if there was any output, else 0.
ExecStatusOfOutput == IF \E s \in Streams : delivered[s] > 0 THEN 1 ELSE 0

ExecStatus == ToStatus(code')

\* exec returned: a JSON document if one was asked for, and the exit code.
ExecReturns ==
  /\ Remote!Return \/ Remote!ReturnUnknown
  /\ documents' = IF request.json THEN Append(documents, Document(code')) ELSE documents
  /\ Exit("exec", ExecStatus)
  /\ UNCHANGED <<request, runtime, captured, screen, sftp>>

\* Faulty ExecThrows: the document is printed on the error path too.
ExecThrowsPrinting ==
  /\ Remote!Throw
  /\ documents' = IF request.json THEN Append(documents, Document(code)) ELSE documents
  /\ Throw("exec")
  /\ UNCHANGED <<request, runtime, captured, screen, sftp>>

ExecThrows ==
  /\ Remote!Throw
  /\ Throw("exec")
  /\ UNCHANGED <<request, runtime, sinks, sftp>>

-----------------------------------------------------------------------------
(* connect and copy                                                         *)

\* SessionManager::connect returns {0, "", ""} however the shell ended.
ShellReturns ==
  /\ Exit("shell", 0)
  /\ UNCHANGED <<request, runtime, exec, sinks, sftp>>

ShellThrows ==
  /\ Throw("shell")
  /\ UNCHANGED <<request, runtime, exec, sinks, sftp>>

\* sftp_open_write(destination, 0) truncates what it opens.
OpenWrite ==
  /\ Goto("openWrite", "close")
  /\ remoteFile' = "empty"
  /\ handles' = handles + 1
  /\ UNCHANGED <<request, runtime, exec, sinks, ending>>

\* The open fails; or the host carries it out, the link breaks and the answer
\* is lost: no handle is kept, but the destination has been truncated.
OpenWriteThrows ==
  /\ Throw("openWrite")
  /\ remoteFile' \in {remoteFile, "empty"}
  /\ UNCHANGED <<request, runtime, exec, sinks, handles>>

\* The handle closed is the literal 0, not the one that was opened.  An adapter
\* either ignores it or, where libssh dereferences it, the process dies (139).
CloseZero ==
  /\ Exit("close", 0) \/ Exit("close", 139)
  /\ UNCHANGED <<request, runtime, exec, sinks, sftp>>

Terminated == step = "exited" /\ UNCHANGED vars

Next ==
  \/ Usage \/ Refused \/ Accepted \/ RunStub \/ NoProfile \/ ProfileFound
  \/ MakeRuntime \/ FactoryThrows \/ Connect \/ ConnectFails
  \/ \E s \in Streams : \E n \in 1..output[s] : Chunk(s, n)
  \/ ExecReturns \/ ExecThrows
  \/ ShellReturns \/ ShellThrows
  \/ OpenWrite \/ OpenWriteThrows \/ CloseZero
  \/ Terminated

Spec == Init /\ [][Next]_vars

-----------------------------------------------------------------------------
(* Properties.                                                              *)

Exited(kind) == step = "exited" /\ request.kind = kind
All(s) == Bytes(1, output[s])

\* Exit status 0 of `zssh exec` is a promise: the command itself exited with 0
\* and the caller has all of its output, in the document or on the screen.
\* Codes are those of POSIX, 0..255: 256 would come out as 0.
SuccessIsComplete ==
  Exited("exec") /\ status = 0 =>
    /\ phase = "returned" /\ exitCode = 0
    /\ IF request.json
       THEN \A s \in Streams : captured[s] = All(s) /\ documents # <<>>
       ELSE \A s \in Streams : ToSet(screen[s]) = 1..output[s]

\* A run that ends in an exception has status 1, has printed nothing a caller
\* could take for a result and leaves no SFTP handle open
\* (ExecJsonCliTest.cpp:237-239).  No verb but `copy` has touched a file of the
\* host; the destination of a failing `copy` is excepted: its open may have
\* truncated it and lost the answer.
FailsClosed ==
  complaint =>
    /\ status = 1
    /\ documents = <<>>
    /\ \A s \in Streams : screen[s] = <<>>
    /\ handles = 0
    /\ remoteFile # "old" => request.kind = "copy"

\* With --json there is one document, printed at the end, and it agrees with the
\* exit status and with all the output that was received.
DocumentFaithful ==
  /\ request.json /\ Exited("exec") /\ ~complaint => Len(documents) = 1
  /\ \A i \in DOMAIN documents :
       /\ status = ToStatus(documents[i].exit_code)
       /\ documents[i].stdout = Bytes(1, delivered["stdout"])
       /\ documents[i].stderr = Bytes(1, delivered["stderr"])

\* Without --json each byte of a stream is shown once, in order
\* (ExecJsonCliTest.cpp:381-382).
ShownOnceInOrder ==
  request.kind = "exec" /\ ~request.json =>
    \A s \in Streams : screen[s] = Bytes(1, delivered[s])

\* The same of a runtime without a renderer, such as the tests inject.
PlainShownOnceInOrder == ~runtime.renderer => ShownOnceInOrder
=============================================================================
