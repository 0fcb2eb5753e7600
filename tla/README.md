# TLA+ models of zssh

zssh is a command line SSH client in C++ on top of libssh and yaml-cpp. It reads
profiles from a YAML file, connects and authenticates, runs a remote command
(`exec`, optionally with a JSON document as output), opens an interactive shell
(`connect`) and is meant to copy files over SFTP (`copy`). This directory holds TLA+
modules translated from the source, the TLC configurations that check them on small
instances, and TLAPS proofs, in eight modules, of the safety properties for every value of
the constants.

`PROJECT.json` names, for every definition that models code, the file and the lines it
stands for; for every run the properties it checks; for every property of a passing run a
mutant (an operator commented "Faulty X" just before the definition `X` it stands in for) that
breaks it; and the hazards of the code. Paths there start at the directory above the
repository (`src/src/zssh/...` is the repository's `src/zssh/...`).

    tlc -workers 2 -config ChannelExec.cfg MCChannelExec
    tlapm ChannelExecProofs.tla

## 1. The system

| component | state it keeps | operations | who talks to it |
|---|---|---|---|
| `LibsshAdapter::exec` | an `ssh_channel`, a buffer, the callbacks' progress | one blocking loop over both output streams, then the exit status | `SessionManager`, libssh, the server |
| `LibsshAdapter::start_interactive_shell` | channel, terminal mode, the `running` flag | poll stdin 5 ms, forward, drain stdout and stderr, test for EOF | user, libssh, the remote shell |
| `LibsshAdapter` life cycle | `session_`, `sftp_` | constructor, `connect`, `authenticate`, `ensure_sftp_session`, destructor | dispatcher, `CopyService` |
| SFTP operations | a handle per open file | stat, list, mkdir, remove, set_attributes, open, read, write, close | `CopyService`, `TransferPlanner`, `SftpTransfer`, dispatcher |
| `SessionManager` | captured stdout and stderr | `exec`, `connect` | dispatcher, adapter |
| dispatcher and `main` | request, runtime, sinks, exit status | one function per verb, the exception boundary | user, all of the above |
| `escape_json` | position in the text, text written | one pass, one byte or UTF-8 sequence a turn | dispatcher |
| `resolve_config_path` | none | ordered existence tests | dispatcher |
| `load_config` | the `AppConfig` being built | document, defaults, one profile after another | dispatcher |
| `parse_command_line` | position, flags, payload | one pass over argv, checks at the end | dispatcher |
| `CopyService`, `TransferPlanner` | offsets, summary, progress | `plan`, `run` | SFTP operations, local callbacks, a progress sink |
| `SftpTransfer`, `RateLimiter` | counters, a token bucket | two loops; acquire, wait | nothing but tests |
| `BackpressureController`, `BoundedByteQueue` | `paused_`; `chunks_`, `size_` | should_pause, should_resume; push, pop | nothing but tests |
| renderer, platform services | a theme; none | write; console, raw mode, event pump | dispatcher |

The process has one thread. Concurrency is between that thread, the remote process, the
server and the network: what is hard is that libssh's blocking calls wait for things only
the other side can bring about, that exit status, output, EOF and CLOSE arrive in several
orders, that the two streams of a channel share one receive window, that a connection can
die visibly or silently, and that reads and writes are short. Nothing is persisted, so
there is no crash recovery; a run of the process is one command.

What makes each part correct:

* **exec**: an exit code is reported only with the complete output of a command that
  really exited with it; the channel is freed on every path; the call ends.
* **interactive shell**: the terminal is put back on every path; what the shell said last is
  shown; keys are neither lost nor stuck; the end of the shell or of the input ends the session.
* **session**: objects are freed once and in order; nothing runs unauthenticated; a refusal
  comes after every credential that may be offered.
* **dispatcher**: exit status 0 means success; an error leaves no output that looks like a
  result; one document, which agrees with the status; each byte is shown once.
* **escape_json**: any bytes give valid JSON that reads back.
* **startup** (command line, path resolution, configuration): the payload is kept verbatim; what
  is accepted can be run; one file counts and what it says is what is connected with; nothing is
  dropped or refused without a reason.
* **SFTP operations**: an operation that returns has been carried out.
* **copy**: success means an equal file; what an interrupted copy leaves is a beginning of the
  file; the reports agree.
* **SftpTransfer**: short reads and writes lose and repeat nothing; it ends; the handle is closed.
* **flow control**: the queue is bounded; the pause is exact near the largest `size_t`; the rate
  is kept in every window of time, and the wait a caller is told is long enough.

## 2. Modules

In the order in which they were planned and built, the core first.

### ChannelExec, RemoteExec, MCChannelExec, ChannelExecProofs

`ChannelExec` is one call of `LibsshAdapter::exec` with three actors. *Client*: one action
per libssh call (`NewChannel`, `OpenSession`, `RequestExec`, each with its failure in
`SetupFails`; the loop test; a blocking `Read` of stdout, then of stderr; `Finish`, which is
send_eof, get_exit_status, close, free and return). *Server and command*: sends within the
window, exits or is killed, sends EOF and CLOSE; the exit status may overtake output.
*Network*: the link breaks (libssh notices) or goes silent (nobody does:
`enable_keepalive` is empty and no timeout is set). Output is counted, not spelled: SSH
keeps each stream in order, so a number of bytes names a prefix.

`RemoteExec` is what one call of exec promises its caller, without channel or network:
growing prefixes, then a code with complete output, or NoStatus (-1), or an exception
before any output. `ChannelExec` implements it under the refinement `phase <- Phase`
(property `ImplementsRemoteExec`), and `CommandDispatcher` is built on it.

### CommandDispatcher, MCCommandDispatcher, CommandDispatcherProofs

One run of the process: `main`, `run_command`, the handlers of the verbs and
`SessionManager`, with the actions of `RemoteExec` for the adapter's exec. Bytes are
numbered, so the sequences `captured` and `screen` say what each sink received and in which
order. The runtime is any combination of set and null pointers, as a factory may return it.
`NoProfile`/`ProfileFound` stand for path resolution, loader and lookup, which `Startup` has in
detail. `copy` is what the handler does: it connects, opens (and truncates) the destination,
closes the literal handle 0, and exits with 0. When the open throws, the server may have truncated
the destination all the same and only its answer is lost; `FailsClosed` therefore excepts the
destination of a failing copy, and promises that nothing else of the host was touched.

### InteractiveShell, InteractiveShellProofs

`start_interactive_shell` with a user (or a pipe) at stdin, an echoing remote shell, both
windows, ends of input (`"eof"` for a file or terminal, which stays readable, `"hungup"`
for a pipe that answers POLLHUP alone) and link failures. `ssh_channel_write` is `StartWrite`, which
a CLOSE that has come refuses, and rounds of `WriteSome`, which wait for the remote window; its
result is ignored (`WriteFails`). libssh puts a CLOSE off while output is unread (`ChannelClosed`):
a writer that waits by then is not woken, since its own thread would have to read that output first.
`Stuck` names this hang.

### HostFiles, SftpAdapter

`HostFiles` has the vocabulary for files: a file is a sequence of bytes, a host a function from
paths to files. `SftpAdapter` is all the SFTP operations of `LibsshAdapter`: each is one step, a
request with its answer, refused or lost with the connection before or after the server has
carried it out; reads and writes may be short. What a caller may mistake is kept: `sftp_stat`
answers the same for an absent file and for any error, `sftp_list_directory` for the end of the directory
and for any error, a `set_attributes` with size 0 sets no size.

### Transfer, SftpTransfer, SftpTransferProofs

`Transfer` is the promise of a transfer of one file: the destination grows by beginnings of the
source, success is reported of a whole copy only, and the transfer ends. `SftpTransfer` has the
two loops of the class of that name over `SftpAdapter` and implements it (`ImplementsTransfer`,
with `Phase`, `Whole` and `Copied` as the mapping; a destination that is not a beginning of
the source maps to -1, which no step of `Transfer` reaches). The third value of `job`, `"other"`,
is any other caller: every operation on every path or handle, in any order.

### CopyService, CopyServiceProofs

`CopyService::run` with `TransferPlanner::plan` for a request of one file and the SFTP
operations it calls, which here act on one remote file. The files of both hosts are modelled
byte by byte; the destination may hold an unrelated file or the beginning of an interrupted copy,
every read and write may be short, a write may be refused, and a stat that fails counts as a size of
0. Operations may throw, and then the server has or has not done what was asked (`Throw`: a lost
answer to an open has created or truncated the file, one to a write has written its bytes). The request's paths keep their names: the planner takes
`source_path` for the local path whatever the direction, and so does the model.

### SshSession, MCSshSession, SshSessionProofs

The adapter's objects from constructor to destructor, the steps of `authenticate` for every
configuration against every server (any set of credentials, a password that is the text of
`password_command` among them), a connection that
may drop at any moment, and the lazily made SFTP session. One connect per adapter,
as in the program.

### CliParser, ConfigLoader, Startup, MCStartup, StartupProofs

`CliParser` and `ConfigLoader` are sequential algorithms, one action per turn of their loop,
with tokens and YAML nodes abstracted to the kinds the code tells apart. `Startup` composes them
as `run_command` does: parse, find the configuration among five places, load it, look the
profile up, make the connection's configuration. The constant `Starts` is the set of lines and
worlds (variables that are set, files that are there) the program may be started with; the
vocabulary for them is `Cli!CommandLines` and `Loader!Documents`. What the code does is compared with
a declarative description of which tokens belong to flags and of which lines are good
(`Cli!LineIsGood`, which reads the line alone and no variable of the parser), with
`docs/schemas/config.schema.yaml` (`Loader!SchemaValid`), and with a ranking of the places.
A watermark has five kinds, so that the range the loader tests (`ValidDefaults`: what 32 bits hold)
and the one the schema states (no maximum) stay apart.

### JsonEscape, MCJsonEscape

The pass of `escape_json`, one byte or UTF-8 sequence a step, against the definitions of UTF-8
(encode and decode of scalar values) and of JSON strings. `ReadsBack` cuts the text where the
pieces do (`at`) and asks of each part that it is a character or a stray byte, one that belongs to
no character of the text. The proofs are in `CommandDispatcherProofs`, so that the operators of
this module are named apart (`EscapeSpec`, as in `RateLimiter`).

### Backpressure, RateLimiter, MCFlowControl, FlowControlProofs

`Backpressure` is `BackpressureController` and `BoundedByteQueue` with an arbitrary caller and
`size_t` arithmetic modulo `2^Width`. `RateLimiter` is the token bucket with calls at any time;
tokens are exact, in parts of a byte, where the code has a double, and the wait is cut to a
whole tick as the code cuts it to a millisecond. `MCFlowControl` puts both into one instance; a
behaviour is about one of the two. Nothing in the program calls either yet.

## 3. Runs

| run | checks | bounds, and why they are enough |
|---|---|---|
| `exec` | `TypeOK`, `CompleteOnStatus`, `ChannelReleased`, `DrainedBeforeExit`, `ImplementsRemoteExec`, `FittingExecReturns`, `BrokenLinkEndsExec` | window 3, buffer 2, up to 4 bytes a stream: a stream can exceed the buffer and the window, both can share it; two codes; both link faults |
| `exec_large` (violation) | `ExecReturns` | the same sizes, no link fault: the hang needs none |
| `dispatcher` | `SuccessIsComplete`, `FailsClosed`, `DocumentFaithful`, `PlainShownOnceInOrder` | 0..2 bytes a stream, so that order and repetition show; codes 0, 3, 255; all eight runtimes; all verbs |
| `dispatcher_default` (violation) | `ShownOnceInOrder` | the runtime of `make_default_exec_runtime` |
| `shell` | `TerminalRestored`, `LastWordsShown`, `InputNotLost`, `ShellEndReturns`, `EndOfInputReturns`, `TypedIsEchoed` | 3 keys against a buffer of 2 and a remote window of 2, so a write can be split and can wait; 2 unasked bytes a stream fill the local window |
| `copy` | `UploadSuccessIsCopy`, `UploadInOrder`, `ReportsAgree`, `DownloadInOrder`, `ResumeKeepsPrefix` | files of 0..6 bytes in chunks of 2: empty, one chunk, a cut last chunk, three chunks; destinations shorter, equal, longer, unrelated ones of 0, 1 and 6 bytes |
| `copy_resume` (violation) | `ResumedUploadIsCopy` | files of 0..3 bytes |
| `session` | `ReleasedOnceInOrder`, `UsedOnlyAuthenticated`, `DenialIsExhaustive` | nothing is cut: all configurations, every set of accepted credentials |
| `sftp` | `ReturnedMeansDone`, `HandleClosed`, `ImplementsTransfer` | transfers of 0..4 bytes in chunks of 2 onto nothing, a file of 0..4 bytes or a directory; another caller with two names, files of up to 2 bytes and one handle, so handles run out |
| `flow` | `HoldsAtMostWatermark`, `PauseIsExact`, `WithinRate`, `WaitIsEnough` | `Width = 3`: every pair of sizes, sums that wrap included; rates 0, 2, 3 with 4 ticks a second: waits that come out whole and waits that are cut, requests above, at and below a full bucket; windows of up to 7 ticks, longer than a bucket takes to fill |
| `json_escape` | `OutputIsJson`, `LengthIsUtf8`, `ReadsBack` | bytes on both sides of every boundary the code tests, texts of up to 4 bytes: every sequence length, whole, cut off and followed by something |
| `startup` | `PayloadIsKept`, `RequestIsRunnable`, `LoadedIsWhole`, `ConnectsAsConfigured`, `RefusalHasReason` | any line of up to 4 arguments over 10 tokens in an ordinary world; ordinary lines in every world of set variables, present files and at most one broken file; ordinary lines with a good file deviating in each field, the kind and the unknown keys of defaults included, in every combination of the three watermarks, in all four fields about credentials together, and with two profiles; ports 9000, 65536 (cut to 0) and 70000 |

Deadlock checking is off in `exec`, `exec_large` and `shell` only: there the system really
can stop (a silent link, two full windows). Elsewhere a finished run stutters in an explicit
`Terminated` step, so a state in which the code is stuck would be reported.

Bounds: `MaxTyped` and `MaxPrinted` (InteractiveShell), `MaxSize` (CopyService, SftpTransfer),
`OtherSize` (SftpTransfer), `MaxBytes` and `MaxTicks` (RateLimiter), `MaxTokens` (MCStartup),
and the sets of inputs given in the MC modules.

### Fairness

* `ChannelExec!FairSpec`: the client thread is scheduled (`WF(Client)`: every call exec
  makes that can return does); a live server forwards output it has credit for and ends the channel
  of an ended command (weak fairness of `SendSome`, `SendEof`, `SendClose`). No fairness for
  the command's exit, a kill or a link failure: a command may run for ever, so the
  properties start from its end, or from the broken link.
* `InteractiveShell!FairSpec`: the same for its client thread; the remote shell reads and
  echoes what it can (`WF(Echo)`), and a server whose shell has ended closes the channel
  (`WF(SendClose)`). Nobody has to type, print, or end. Liveness here is for a shell whose output
  ends (`MaxPrinted`): a flood of output keeps the loop in its drains and starves stdin.
* `SftpTransfer!Spec`: `WF(Step)`. The one thread runs, and a request is answered or found to be
  lost; a silent link, on which any request waits for ever, is left out of this module.
  `Transfer!Spec` has `WF(Next)`, which this implies: each step of the loops makes progress or
  ends them.

No other module has a liveness property.

### What the violation runs show

* **`exec_large`.** `LibsshAdapter.cpp:170-182` reads stdout and stderr in turn, each with a
  blocking read. A command that writes more to stderr than the receive window holds while stdout is
  idle stops the server; exec waits for stdout, the rest of stderr never comes, and the call
  hangs although the command has exited. `FittingExecReturns` shows that output within the
  window is never a problem; `DrainedBeforeExit` and `CompleteOnStatus` hold in both cases.
* **`dispatcher_default`.** With the runtime the program makes for itself, the dispatcher's callback
  gives each chunk to the renderer, which prints it to `std::cout`, and then prints it to
  `std::cout` again. The tests inject runtimes without a renderer.
* **`copy_resume`.** A resumed upload seeks the remote file to the resume offset, but
  `local_read` has no offset and starts at the beginning of the source: the remote
  file gets the beginning of the source twice, and `run` returns true.

Other places where code and text of the repository disagree, or where the code may surprise, were
met while translating. The models follow the code there, and no run is about them:

* `zssh copy` (`CommandDispatcher.cpp:369-386`) truncates the destination and exits with 0;
  `README.md:59` lists it as done.
* `connect` in a shell: `LibsshAdapter.cpp:275` tests the end of file but not whether the channel
  is open, so a session that libssh has seen die spins until stdin ends; `EndOfInputReturns` says
  that it ends then.
* The end of stdin ends the session at once: answers still to come to the input already sent are
  not shown. `LastWordsShown` excepts that case.
* The other end of the same wait: a shell that ends while the client waits in `ssh_channel_write`
  (`LibsshAdapter.cpp:249`) and output is unread leaves the client waiting, since libssh puts the
  CLOSE off until that output is read. `ShellEndReturns` excepts this state by name (`Stuck`).
* A pipe at stdin that only hangs up (POLLHUP without POLLIN, `LibsshAdapter.cpp:246`) is never seen
  to end, and the session goes on until the shell ends; `EndOfInputReturns` is about the end that
  `poll` reports.
* A paste larger than both windows leaves the client in `ssh_channel_write` and the shell in
  its own write, each waiting for the other; `TypedIsEchoed` is stated for less than that.
* `ssh_userauth_publickey_auto` offers the agent's keys whatever `use_agent` says, and the text of
  `password_command` is sent as the password (`SshSession`: `OfferAuto`, `OfferPassword`).
* A download keeps `source_path` as the local path, and succeeds after its first chunk.
* A stat that fails looks like an absent file (`LibsshAdapter.cpp:310`): a resumed upload then
  starts at 0 and truncates what it should have continued. A listing that breaks off looks whole
  (333), and a size of 0 is not set (426).
* An exception out of `CopyService::run` or `SftpTransfer` leaves the handle open.
* `config --json` prints host and profile name unescaped (`CommandDispatcher.cpp:358`).
* A watermark of 2^32 or more is valid by `docs/schemas/config.schema.yaml:16-24`, which has no
  maximum, and refused by `ConfigLoader.cpp:26-32`. `RefusalHasReason` excepts such a file by name
  (`Loader!Beyond`); `LoadedIsWhole` says that none is loaded.
* `port: abc` and `use_agent: maybe` take their defaults where the schema forbids them.
* A port flag at the end of a line becomes payload; a port above 65535 is taken modulo 65536.
* `RateLimiter`: a request larger than a full bucket is never granted, and at a rate of 0 the
  conversion of the infinite wait is undefined (`Wait` allows any value).

## 4. Proofs

Each theorem holds for every value of the constants that satisfies the named assumption of its
module; the assumptions say what type the constants have and that a size is positive, and TLC
evaluates each of them in a run. One theorem has a hypothesis of its own.

| module | theorem | statement |
|---|---|---|
| `ChannelExecProofs` | `TypeCorrect` | `Spec => []TypeOK` |
| | `StatusMeansComplete` | `Spec => []CompleteOnStatus` |
| | `ChannelAlwaysReleased` | `Spec => []ChannelReleased` |
| | `LoopDrains` | `Spec => []DrainedBeforeExit` |
| | `RefinesRemoteExec` | `Spec => Remote!Spec`: exec implements RemoteExec |
| `CommandDispatcherProofs` | `ZeroMeansComplete` | `Spec => []SuccessIsComplete`, if `ExitCodes \subseteq 0..255` |
| | `ErrorsFailClosed` | `Spec => []FailsClosed` |
| | `DocumentAgrees` | `Spec => []DocumentFaithful` |
| | `PlainOutputInOrder` | `Spec => []PlainShownOnceInOrder` |
| | `LengthExact` | `EscapeSpec => []LengthIsUtf8` |
| | `DocumentIsJson` | `EscapeSpec => []OutputIsJson` |
| | `OutputReadsBack` | `EscapeSpec => []ReadsBack` |
| `InteractiveShellProofs` | `TerminalAsFound` | `Spec => []TerminalRestored` |
| | `NoLastWordsLost` | `Spec => []LastWordsShown` |
| | `NoInputLost` | `Spec => []InputNotLost` |
| `SshSessionProofs` | `SessionReleasedOnce` | `Spec => []ReleasedOnceInOrder` |
| | `NothingUnauthenticated` | `Spec => []UsedOnlyAuthenticated` |
| | `EveryKeyOffered` | `Spec => []DenialIsExhaustive` |
| `CopyServiceProofs` | `ReportsTrue` | `Spec => []ReportsAgree` |
| | `UploadOrdered` | `Spec => []UploadInOrder` |
| | `DownloadOrdered` | `Spec => []DownloadInOrder` |
| | `SuccessIsCopy` | `Spec => []UploadSuccessIsCopy` |
| | `ResumeKeeps` | `Spec => ResumeKeepsPrefix`, an action property |
| `SftpTransferProofs` | `ReturnedIsDone` | `Spec => []ReturnedMeansDone` |
| | `HandlesClosed` | `Spec => []HandleClosed` |
| | `TransferIsSafe` | `Spec => Abstract!Safety`: `Transfer` is implemented, but for its end |
| `StartupProofs` | `Runnable` | `Spec => []RequestIsRunnable` |
| | `PayloadArrives` | `Spec => []PayloadIsKept` |
| | `LoadIsWhole` | `Spec => []LoadedIsWhole` |
| | `ConnectionIsConfigured` | `Spec => []ConnectsAsConfigured` |
| | `RefusalsAreJust` | `Spec => []RefusalHasReason` |
| `FlowControlProofs` | `PauseExact` | `Spec => []PauseIsExact` |
| | `WatermarkKept` | `Spec => []HoldsAtMostWatermark` |
| | `RateKept` | `LimiterSpec => []WithinRate` |
| | `WaitSuffices` | `LimiterSpec => []WaitIsEnough` |

Every module of proofs is laid out alike: the parts of the inductive invariant `IInv`, lemmas about
the operators, a lemma per action or per conjunct that `IInv` is preserved, `Invariance`, and the
theorems. The types that a property needs are among the conjuncts. `IInv` has been checked by
TLC on the instances of section 3 before it was proved.

### Remote command (`ExecAssumption`)

`CompleteOnStatus` is not inductive: that the output is complete when `Finish` reads the
status depends on why the loop was left, which depends on what the server's messages meant
when they came. The inductive invariant joins to `TypeOK`

* `QuietSetup`: nothing has come from the command before exec has requested it;
* `Conserved`: delivered <= sent <= written, for each stream;
* `Truthful`: EOF or CLOSE means that the output is over (all sent, or the command was killed),
  and a status is the code of a command that exited;
* `ChannelLife`: the state of the channel object at each point of exec;
* `Answer`: the loop is left on a broken link, or at the end with both streams read; nothing is
  reported before the return; and `CompleteOnStatus` itself.

The central step is `Finish`: the link is not broken and a status is there, so the command
exited and was not killed; the loop ended with EOF or CLOSE and everything read
(`Answer`); so everything was sent (`Truthful`), and delivered = sent = output. The refinement is
a step simulation: `Finish` maps to `Return` or `ReturnUnknown`, `ReadChunk` to `Deliver`,
`Fail` to `Throw`, all else stutters.

### Dispatcher (`DispatcherAssumption`)

The proofs use the actions of `RemoteExec` and nothing of `ChannelExec`: what was proved of exec is
all that its caller needs. `CallLife` ties the progress of the call to the step of the process (a
code other than NoStatus belongs to a call that has returned, with everything delivered),
`Received` says what each sink holds of the output delivered so far, `Undecided` that nothing is
printed or decided earlier than at the end, `Verdict` how a process ends. `Received` is where an
error would hide: with `--json` the screen stays empty and `captured` is the numbered bytes so far,
without it and without a renderer the screen is. That an appended chunk keeps "the bytes from 1 to
n, each once, in order" is a lemma on sequences (`BytesConcat`), not on any length of output.

`ZeroMeansComplete` needs codes of 0..255: `main` returns the code to a system that keeps eight bits,
so that a command which exits with 256 (which POSIX does not let it) would come out as a success.
The proof goes from a status of 0 to a code of 0 (-1 comes out as 255), from there through
`CallLife` to exec's promise, and through `Received` to the sinks.

### escape_json (`TextAssumption`)

For byte strings of any length. The lemmas `IsCharacter1` ... `IsCharacter4` are the heart of it: for
all bytes, the ranges that the code tests are exactly the encodings of scalar values, which is
arithmetic with quotients and remainders by 64, done one continuation byte at a time
(`DivideBy64`, `SplitBy64`). From them, `LengthRight`: the test finds a sequence exactly where a
character begins, however soon the text ends. `OneTurn` reduces the four ways through the loop to
one: a piece is written for the next bytes, a character or one byte at which none begins.

`ReadsBack` is not inductive: that a byte belongs to no character of the text also depends on what
was read before it. `Boundary` says that no character of the text reaches past the index from before
it; it is kept because no byte of a character but its first is a first byte (`NoOverlap`).

### Shell (`ShellAssumption`)

`TerminalRestored` needs what the channel and the terminal are at each point of the set-up
(`Setup`). `InputNotLost` needs `WritesFinish`: libssh holds unsent bytes only inside
`ssh_channel_write`, so that nothing is pending when the loop reads again. `LastWordsShown` needs
`LeavesForAReason`: a read of nothing is the end of stdin, and nothing else clears `running` while
the loop goes on; so a loop left with stdin open was left at the end test, when EOF or CLOSE
had come and both drains had nothing more to show.

### Session (`SessionAssumption`)

`Life` is the state of both libssh objects at each point of the adapter's life, including the session
that `connect` gives up itself. `OfferedSoFar` carries what has been offered by the time a step of
`authenticate` is reached: it is what makes `DenialIsExhaustive` inductive, since the refusal
comes three steps after the first key. `OnMethod` keeps a password step from serving a
publickey profile. `NotYetOffered` says that no step is taken before its time: an automatic key is
offered only after the key file was refused or the connection lost, so that what
`UsedOnlyAuthenticated` says of the whole list of credentials offered holds at the end, for the
password as for the keys. The server's set of credentials is any, and none of the proofs asks more
of it.

### Copy service (`CopyAssumption`)

`UploadAccount` and `DownloadAccount` are loop invariants over the bytes: where the cursor,
the position and the offset are, and that the buffer holds the bytes of the file just before the cursor
(upload), or from where the writing goes on (download). For a resumed upload only the part
that the code keeps is stated; a resumed upload is not a copy (section 3). Both hold after an
exception, whatever the server had done by then: `LostAnswerStep` takes the opened file from
`OpenedBytes` and the longer one from `WrittenBytes`, which a write that is answered uses too. `Planned` says that the
plan's sizes stay true while the copy runs. The lemmas `OverwriteBytes`, `PrefixBytes` and `JoinBytes`
say what a write, a cut and a concatenation do to the bytes. `SuccessIsCopy` follows: the loop ends
with the whole source read and written (no more was reported than there is), over a file that
opening had truncated.

### SFTP operations and SftpTransfer (`TransferAssumption`)

One lemma per operation of the adapter says that, called in any order by anyone, it keeps the
server's files and the handles well formed and either throws or has done what it returned
(`MkdirStep` ... `CloseStep`). On these stand the two loops: `OneHandle` (a transfer has one
handle, positioned at `offset`), and `Progress` (the destination is the first `offset` bytes, and why
the loop was left early).

`TransferIsSafe` is the refinement by steps. Opening is a stutter or `Throw(0)`, for a
destination counts only once it is open, and then it is empty; a chunk of n bytes is `Grow`, a
stutter if n is 0, or `Throw` with the bytes the server had written when the answer was lost;
`CloseAndReturn` is `Succeed` or `Fail`, by what `Progress` says of `offset`. `Transfer!Safety` is
`Transfer!Spec` without its fairness, that every transfer ends; this last part TLC checks.

### Startup (`StartAssumption`)

For lines of any length and documents with any number of profiles. `CliInv` follows the parser's
loop: what is before `i` has been read, and whether the delimiter was among it. `LineInv` compares the
request with the line: the ports are what the last use of their flag names (`PortsRead`), each use so
far was of a number (`Numbers`), and no token of the payload is made up (`NothingMadeUp`). At the end of
the line `ChecksAreRight` shows that the parser's last checks pass exactly for a line that is good by
`LineIsGood`: `Runnable` is the one direction, with the ports that were read, and `RefusedForReason` the
other. `Payload` says where the payload is while the loop runs: as many tokens
as are kept up to `i` have been taken, each at the place its rank among them gives it (counted
with `Cardinality`, so that the statement needs no recursive filter), and a flag that takes a value
is never left behind without it. That the delimiter the code stops at is the first is `Least`, from
the well-foundedness of the naturals. `LoaderInv` follows the loader's: the entries before `next` are valid, of
different names, and are what `profiles` holds. `Stages` says that from the search on, `path` is the
one file that counts: the lemmas `SearchIsRight` and `OneIsChosen` show that the ordered search of the
code finds the place of least rank. That a refusal by the loader is against the schema are
`SchemaAllows` and `DefaultsAllowed`, the comparison of the loader's tests with those of
`docs/schemas/config.schema.yaml` for one entry and for the defaults; the latter needs that no
watermark is beyond 32 bits. `Reasons` keeps why a run has stopped, and with `LineInv` it gives
`RefusalHasReason`: that the parser has refused is not taken as a reason of its own.

### Flow control (`ConstructorAssumption`, `LimiterAssumption`)

`PauseIsExact` is the arithmetic of `ThresholdExact`: the difference the code compares does not
wrap, because it is taken only after the test that makes it a natural. `HoldsAtMostWatermark` is stated with
the running totals of the queue (a function from 0..Len), so that the sum of the chunks needs no
recursive definition; a push ends the totals with the new size, a pop shifts them.

`WithinRate` is not inductive: the window says nothing about the bucket. `BucketInWindow` adds the
tokens still in the bucket to the bytes granted; a refill adds what time adds to the right-hand side,
and a full bucket only loses. `WaitIsEnough` needs `OnItsWay`: what was asked about is there, or
the bucket is full, or one tick after the time told it will be; and `TooLittle`, what a
refusal says of the bucket.

### Only model-checked

* Liveness, which rests on fairness and ENABLED, out of the prover's reach: `FittingExecReturns`,
  `BrokenLinkEndsExec`, `ShellEndReturns`, `EndOfInputReturns`, `TypedIsEchoed`, and that every
  transfer ends (the fairness of `ImplementsTransfer`).
* The three violations of section 3 are counterexamples, found by TLC.

## 5. What is not modelled

* The renderer's escape sequences and themes; `create_console`, which does nothing; the event
  pump, which waits on descriptor 0 and returns at once.
* Signals: a signal that kills the process leaves the terminal raw.
* The rounding of doubles in `RateLimiter`.
* libssh, yaml-cpp and the server are external: they appear by the behaviour the code relies
  on, which each module's header states.

Hazards that no property covers, because the code does nothing about them: the silent peer
(no keepalive, no timeout), the unbounded capture of `--json`, the flood that starves stdin, the
unescaped fields of `config --json`.

## 6. Plan

The planned modules are written, and every safety invariant and action property of the runs is
proved. What remains to TLC is liveness, and the three disagreements of section 3 that only a
counterexample shows. Open is what section 5 lists.
