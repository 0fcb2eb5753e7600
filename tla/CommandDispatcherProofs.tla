------------------------ MODULE CommandDispatcherProofs ------------------------
(***************************************************************************)
(* Proofs about CommandDispatcher: for every set of outputs, exit codes    *)
(* and runtimes, from the promise of RemoteExec alone; and about its        *)
(* escape_json, JsonEscape: for every byte string a command may print.      *)
(***************************************************************************)
EXTENDS CommandDispatcher, JsonEscape, SequenceTheorems, TLAPS

Steps ==
  {"parse", "profile", "runtime", "connect", "exec", "shell", "openWrite", "close", "exited"}

TypeOK ==
  /\ step \in Steps
  /\ request \in Requests
  /\ runtime \in [ssh : BOOLEAN, platform : BOOLEAN, renderer : BOOLEAN]
  /\ phase \in {"running", "returned", "threw"}
  /\ output \in [Streams -> Nat]
  /\ exitCode \in ExitCodes
  /\ delivered \in [Streams -> Nat]
  /\ code \in ExitCodes \cup {Remote!NoStatus}
  /\ captured \in [Streams -> Seq(Nat)]
  /\ screen \in [Streams -> Seq(Nat)]
  /\ complaint \in BOOLEAN

\* Each step of the process belongs to some of the verbs.
OnPath ==
  /\ step = "profile" => request.kind \in {"connect", "exec", "config", "copy"}
  /\ step \in {"runtime", "connect"} => request.kind \in {"connect", "exec", "copy"}
  /\ step = "exec" => request.kind = "exec"
  /\ step = "shell" => request.kind = "connect"
  /\ step \in {"openWrite", "close"} => request.kind = "copy"

\* A call of the adapter's exec is under way only in the step that makes it.
CallLife ==
  /\ step \notin {"exec", "exited"} => phase = "running"
  /\ step = "exec" => phase = "running"
  /\ step # "exec" /\ phase = "running" => delivered = Remote!Nothing
  /\ phase = "threw" => delivered = Remote!Nothing
  /\ code # Remote!NoStatus => phase = "returned" /\ code = exitCode /\ delivered = output

\* What each sink holds of the output received so far.
Received ==
  \A s \in Streams :
    /\ delivered[s] <= output[s]
    /\ captured[s] = IF request.json THEN Bytes(1, delivered[s]) ELSE <<>>
    /\ request.json \/ delivered[s] = 0 => screen[s] = <<>>
    /\ ~request.json => ToSet(screen[s]) = 1..delivered[s]
    /\ ~request.json /\ ~runtime.renderer => screen[s] = Bytes(1, delivered[s])

\* Nothing is printed or decided before the end.
Undecided ==
  /\ step # "exited" => ~complaint /\ documents = <<>> /\ status = Running
  /\ step \notin {"close", "exited"} => remoteFile = "old" /\ handles = 0

\* How a process ends: by an exception, or with what its command says.
Verdict ==
  step = "exited" =>
    IF complaint
    THEN /\ status = 1 /\ documents = <<>> /\ handles = 0
         /\ remoteFile # "old" => request.kind = "copy"
         /\ delivered = Remote!Nothing
    ELSE IF request.kind = "exec"
         THEN /\ phase = "returned" /\ status = ToStatus(code)
              /\ documents = IF request.json THEN <<Document(code)>> ELSE <<>>
         ELSE documents = <<>>

IInv == TypeOK /\ OnPath /\ CallLife /\ Received /\ Undecided /\ Verdict


-----------------------------------------------------------------------------
(* Sequences of numbered bytes.                                             *)

\* The first a bytes of an output are numbered from 1.
LEMMA FirstBytes ==
  ASSUME NEW a \in Nat
  PROVE  Bytes(1, a) = [i \in 1..a |-> i]
<1>1. a - 1 + 1 = a /\ \A i \in 1..a : 1 + i - 1 = i
  OBVIOUS
<1> QED
  BY <1>1 DEF Bytes

\* The n bytes that follow the first a are numbered from a + 1.
LEMMA NextBytes ==
  ASSUME NEW a \in Nat, NEW n \in Nat
  PROVE  /\ Bytes(a + 1, a + n) = [i \in 1..n |-> a + i]
         /\ Bytes(a + 1, a + n) \in Seq(Nat)
<1>1. (a + n) - (a + 1) + 1 = n /\ \A i \in 1..n : a + 1 + i - 1 = a + i
  OBVIOUS
<1>2. Bytes(a + 1, a + n) = [i \in 1..n |-> a + i]
  BY <1>1 DEF Bytes
<1>3. \A i \in 1..n : a + i \in Nat
  OBVIOUS
<1>4. [i \in 1..n |-> a + i] \in Seq(Nat)
  BY <1>3
<1> QED
  BY <1>2, <1>4

\* The next n bytes after the first a are the first a + n.
LEMMA BytesConcat ==
  ASSUME NEW a \in Nat, NEW n \in Nat
  PROVE  Bytes(1, a) \o Bytes(a + 1, a + n) = Bytes(1, a + n)
<1> DEFINE left == Bytes(1, a)
           right == Bytes(a + 1, a + n)
           whole == Bytes(1, a + n)
<1>1. /\ left \in Seq(Nat) /\ Len(left) = a
      /\ \A i \in 1..a : left[i] = i
  BY FirstBytes
<1>2. /\ right \in Seq(Nat) /\ Len(right) = n
      /\ \A i \in 1..n : right[i] = a + i
  <2>1. right = [i \in 1..n |-> a + i] /\ right \in Seq(Nat)
    BY NextBytes
  <2> HIDE DEF right
  <2> QED BY <2>1
<1>3. /\ whole \in Seq(Nat) /\ Len(whole) = a + n
      /\ \A i \in 1..(a + n) : whole[i] = i
  <2>1. whole = [i \in 1..(a + n) |-> i]
    BY FirstBytes
  <2> QED BY <2>1
<1> HIDE DEF left, right, whole
<1>4. left \o right \in Seq(Nat) /\ Len(left \o right) = a + n
  BY <1>1, <1>2
<1>5. ASSUME NEW i \in 1..(a + n) PROVE (left \o right)[i] = whole[i]
  <2>1. CASE i <= a BY <1>1, <1>2, <1>3, <2>1
  <2>2. CASE i > a
    <3>1. i - a \in 1..n /\ a + (i - a) = i
      BY <2>2
    <3>2. right[i - a] = a + (i - a)
      BY <1>2, <3>1
    <3>3. (left \o right)[i] = i
      BY <1>1, <1>2, <2>2, <3>1, <3>2
    <3>4. whole[i] = i
      BY <1>3
    <3> QED BY <3>3, <3>4
  <2>3. i <= a \/ i > a
    OBVIOUS
  <2> QED BY <2>1, <2>2, <2>3
<1> QED
  BY <1>3, <1>4, <1>5, SeqEqual DEF left, right, whole

\* The elements of a concatenation are those of its parts.
LEMMA ToSetConcat ==
  ASSUME NEW p \in Seq(Nat), NEW q \in Seq(Nat)
  PROVE  ToSet(p \o q) = ToSet(p) \cup ToSet(q)
<1>1. ASSUME NEW x \in ToSet(p \o q) PROVE x \in ToSet(p) \cup ToSet(q)
  <2>1. PICK i \in 1..(Len(p) + Len(q)) : x = (p \o q)[i]
    BY DEF ToSet
  <2>2. CASE i <= Len(p) BY <2>1, <2>2 DEF ToSet
  <2>3. CASE i > Len(p)
    <3>1. i - Len(p) \in 1..Len(q) /\ x = q[i - Len(p)]
      BY <2>1, <2>3
    <3> QED BY <3>1 DEF ToSet
  <2> QED BY <2>2, <2>3
<1>2. ASSUME NEW x \in ToSet(p) PROVE x \in ToSet(p \o q)
  <2>1. PICK i \in 1..Len(p) : x = p[i]
    BY <1>2 DEF ToSet
  <2>2. i \in 1..Len(p \o q) /\ (p \o q)[i] = x
    BY <2>1
  <2> QED BY <2>2 DEF ToSet
<1>3. ASSUME NEW x \in ToSet(q) PROVE x \in ToSet(p \o q)
  <2>1. PICK i \in 1..Len(q) : x = q[i]
    BY <1>3 DEF ToSet
  <2>2. i + Len(p) \in DOMAIN (p \o q) /\ (p \o q)[i + Len(p)] = x
    BY <2>1, ConcatProperties
  <2> QED BY <2>2 DEF ToSet
<1> QED BY <1>1, <1>2, <1>3

\* Shown once or twice, a chunk adds its bytes to what has been on the screen.
LEMMA ShownBytes ==
  ASSUME NEW a \in Nat, NEW n \in Nat
  PROVE  /\ Bytes(a + 1, a + n) \in Seq(Nat)
         /\ Shown(Bytes(a + 1, a + n)) \in Seq(Nat)
         /\ ToSet(Shown(Bytes(a + 1, a + n))) = (a + 1)..(a + n)
<1> DEFINE chunk == Bytes(a + 1, a + n)
<1>1. chunk \in Seq(Nat) /\ Len(chunk) = n /\ \A i \in 1..n : chunk[i] = a + i
  <2>1. chunk = [i \in 1..n |-> a + i] /\ chunk \in Seq(Nat)
    BY NextBytes
  <2> HIDE DEF chunk
  <2> QED BY <2>1
<1> HIDE DEF chunk
<1>2. ToSet(chunk) = (a + 1)..(a + n)
  <2>1. ASSUME NEW x \in (a + 1)..(a + n) PROVE x \in ToSet(chunk)
    <3>1. x - a \in 1..n /\ a + (x - a) = x
      OBVIOUS
    <3>2. x - a \in DOMAIN chunk /\ chunk[x - a] = x
      BY <1>1, <3>1
    <3> QED BY <3>2 DEF ToSet
  <2>2. ASSUME NEW x \in ToSet(chunk) PROVE x \in (a + 1)..(a + n)
    BY <1>1 DEF ToSet
  <2> QED BY <2>1, <2>2
<1>3. ToSet(chunk \o chunk) = (a + 1)..(a + n)
  BY <1>1, <1>2, ToSetConcat
<1> QED
  BY <1>1, <1>2, <1>3 DEF Shown, chunk

-----------------------------------------------------------------------------

\* The invariant holds at first.
LEMMA InitIInv == Init => IInv
<1> SUFFICES ASSUME Init PROVE IInv
  OBVIOUS
<1> USE DispatcherAssumption
        DEF DispatcherAssumption, Init, Remote!Init, Remote!Nothing, Streams, Remote!Streams
<1>1. TypeOK
  <2>1. captured \in [Streams -> Seq(Nat)] /\ screen \in [Streams -> Seq(Nat)]
    OBVIOUS
  <2>2. output \in [Streams -> Nat] /\ delivered \in [Streams -> Nat]
    OBVIOUS
  <2>3. runtime \in [ssh : BOOLEAN, platform : BOOLEAN, renderer : BOOLEAN]
    OBVIOUS
  <2> QED
    BY <2>1, <2>2, <2>3 DEF TypeOK, Steps
<1>2. Received
  <2>1. Bytes(1, 0) = <<>>
    BY FirstBytes
  <2>2. ToSet(<<>>) = 1..0
    BY DEF ToSet
  <2> QED BY <1>1, <2>1, <2>2 DEF Received, TypeOK
<1> QED
  BY <1>1, <1>2 DEF IInv, OnPath, CallLife, Undecided, Verdict

\* The verbs' own steps, which call no exec.
Quiet ==
  \/ Usage \/ Refused \/ Accepted \/ RunStub \/ NoProfile \/ ProfileFound
  \/ MakeRuntime \/ FactoryThrows \/ Connect \/ ConnectFails
  \/ ShellReturns \/ ShellThrows \/ OpenWrite \/ OpenWriteThrows \/ CloseZero

\* The verbs' own steps leave exec, the request and the sinks as they are.
LEMMA QuietIsQuiet == Quiet => UNCHANGED <<request, runtime, exec, sinks>>
  BY DEF Quiet, Usage, Refused, Accepted, RunStub, NoProfile, ProfileFound, MakeRuntime,
         FactoryThrows, Connect, ConnectFails, ShellReturns, ShellThrows, OpenWrite,
         OpenWriteThrows, CloseZero

\* Every step keeps the types.
LEMMA TypeStep == IInv /\ [Next]_vars => TypeOK'
<1> SUFFICES ASSUME IInv, [Next]_vars PROVE TypeOK'
  OBVIOUS
<1> USE DEF IInv, TypeOK, Goto, Exit, Throw, Steps
<1>1. CASE Quiet
  <2>1. step' \in Steps /\ complaint' \in BOOLEAN
    BY <1>1
    DEF Quiet, Usage, Refused, Accepted, RunStub, NoProfile, ProfileFound, MakeRuntime,
        FactoryThrows, Connect, ConnectFails, ShellReturns, ShellThrows, OpenWrite,
        OpenWriteThrows, CloseZero, ending
  <2> QED
    BY <1>1, <2>1, QuietIsQuiet DEF exec, sinks
<1>2. ASSUME NEW s \in Streams, NEW n \in 1..output[s], Chunk(s, n) PROVE TypeOK'
  <2>1. delivered[s] \in Nat /\ n \in Nat
    BY <1>2
  <2>2. delivered' \in [Streams -> Nat]
    BY <1>2, <2>1 DEF Chunk, Remote!Deliver
  <2> DEFINE chunk == Bytes(delivered[s] + 1, delivered[s] + n)
  <2>3. chunk \in Seq(Nat) /\ Shown(chunk) \in Seq(Nat)
    BY <2>1, ShownBytes
  <2> HIDE DEF chunk
  <2>4. captured' \in [Streams -> Seq(Nat)]
    BY <1>2, <2>3 DEF Chunk, Capture, Keeps, chunk
  <2>5. screen' \in [Streams -> Seq(Nat)]
    BY <1>2, <2>3 DEF Chunk, Display, chunk
  <2> QED
    BY <1>2, <2>2, <2>4, <2>5 DEF Chunk, Remote!Deliver, ending
<1>3. CASE ExecReturns
  BY <1>3 DEF ExecReturns, Remote!Return, Remote!ReturnUnknown
<1>4. CASE ExecThrows
  BY <1>4 DEF ExecThrows, Remote!Throw, sinks
<1>5. CASE Terminated \/ UNCHANGED vars
  BY <1>5 DEF Terminated, vars, exec, sinks, ending
<1> QED
  BY <1>1, <1>2, <1>3, <1>4, <1>5 DEF Next, Quiet

\* Each step of the process belongs to a verb that takes it.
LEMMA PathStep == IInv /\ [Next]_vars => OnPath'
<1> SUFFICES ASSUME IInv, [Next]_vars PROVE OnPath'
  OBVIOUS
<1> USE DEF IInv, OnPath, Goto, Exit, Throw
<1>1. CASE Connect
  BY <1>1 DEF Connect
<1>2. CASE Quiet /\ ~Connect
  BY <1>2
  DEF Quiet, Usage, Refused, Accepted, RunStub, NoProfile, ProfileFound, MakeRuntime,
      FactoryThrows, ConnectFails, ShellReturns, ShellThrows, OpenWrite,
      OpenWriteThrows, CloseZero
<1>3. ASSUME NEW s \in Streams, NEW n \in 1..output[s], Chunk(s, n) PROVE OnPath'
  BY <1>3 DEF Chunk
<1>4. CASE ExecReturns \/ ExecThrows
  BY <1>4 DEF ExecReturns, ExecThrows
<1>5. CASE Terminated \/ UNCHANGED vars
  BY <1>5 DEF Terminated, vars
<1> QED
  BY <1>1, <1>2, <1>3, <1>4, <1>5 DEF Next, Quiet

\* exec is under way only in the step that calls it.
LEMMA CallStep == IInv /\ [Next]_vars => CallLife'
<1> SUFFICES ASSUME IInv, [Next]_vars PROVE CallLife'
  OBVIOUS
<1> USE DEF IInv, CallLife, Goto, Exit, Throw, Remote!NoStatus
<1>1. CASE Quiet
  <2>1. UNCHANGED exec /\ step # "exec"
    BY <1>1, QuietIsQuiet
    DEF Quiet, Usage, Refused, Accepted, RunStub, NoProfile, ProfileFound, MakeRuntime,
        FactoryThrows, Connect, ConnectFails, ShellReturns, ShellThrows, OpenWrite,
        OpenWriteThrows, CloseZero
  <2>2. step # "exited"
    BY <1>1
    DEF Quiet, Usage, Refused, Accepted, RunStub, NoProfile, ProfileFound, MakeRuntime,
        FactoryThrows, Connect, ConnectFails, ShellReturns, ShellThrows, OpenWrite,
        OpenWriteThrows, CloseZero
  <2> QED
    BY <2>1, <2>2 DEF exec
<1>2. ASSUME NEW s \in Streams, NEW n \in 1..output[s], Chunk(s, n) PROVE CallLife'
  BY <1>2 DEF Chunk, Remote!Deliver
<1>3. CASE ExecReturns
  BY <1>3 DEF ExecReturns, Remote!Return, Remote!ReturnUnknown
<1>4. CASE ExecThrows
  BY <1>4 DEF ExecThrows, Remote!Throw
<1>5. CASE Terminated \/ UNCHANGED vars
  BY <1>5 DEF Terminated, vars, exec
<1> QED
  BY <1>1, <1>2, <1>3, <1>4, <1>5 DEF Next, Quiet

\* The sinks hold what has been received so far.
LEMMA ReceivedStep == IInv /\ [Next]_vars => Received'
<1> SUFFICES ASSUME IInv, [Next]_vars PROVE Received'
  OBVIOUS
<1> USE DEF IInv, Received
<1>1. CASE UNCHANGED <<request, runtime, output, delivered, captured, screen>>
  BY <1>1
<1>2. ASSUME NEW s \in Streams, NEW n \in 1..output[s], Chunk(s, n) PROVE Received'
  <2> DEFINE d == delivered[s]
             chunk == Bytes(d + 1, d + n)
  <2>1. d \in Nat /\ n \in Nat /\ n > 0
    BY <1>2 DEF TypeOK
  <2>2. /\ delivered' = [delivered EXCEPT ![s] = d + n]
        /\ d + n <= output[s]
        /\ UNCHANGED <<request, runtime, output>>
    BY <1>2 DEF Chunk, Remote!Deliver, TypeOK
  <2>3. /\ captured' = IF request.json THEN [captured EXCEPT ![s] = @ \o chunk] ELSE captured
        /\ screen' = IF request.json THEN screen
                     ELSE [screen EXCEPT ![s] = @ \o Shown(chunk)]
    BY <1>2 DEF Chunk, Capture, Keeps, Display
  <2>4. ASSUME NEW t \in Streams, t # s
        PROVE  /\ delivered'[t] = delivered[t] /\ output'[t] = output[t]
               /\ captured'[t] = captured[t] /\ screen'[t] = screen[t]
    BY <2>2, <2>3, <2>4 DEF TypeOK
  <2>5. delivered'[s] = d + n /\ d + n # 0 /\ d + n <= output'[s]
    BY <2>1, <2>2 DEF TypeOK
  <2>6. Bytes(1, d) \o chunk = Bytes(1, d + n)
    BY <2>1, BytesConcat
  <2>7. captured'[s] = IF request.json THEN Bytes(1, d + n) ELSE <<>>
    BY <2>3, <2>6 DEF TypeOK
  <2>8. request.json => screen'[s] = <<>>
    BY <2>3
  <2>9. ASSUME ~request.json PROVE ToSet(screen'[s]) = 1..(d + n)
    <3>1. Shown(chunk) \in Seq(Nat) /\ ToSet(Shown(chunk)) = (d + 1)..(d + n)
      BY <2>1, ShownBytes
    <3>2. screen[s] \in Seq(Nat) /\ ToSet(screen[s]) = 1..d
      BY <2>9 DEF TypeOK
    <3>3. screen'[s] = screen[s] \o Shown(chunk)
      BY <2>3, <2>9 DEF TypeOK
    <3>4. ToSet(screen'[s]) = (1..d) \cup ((d + 1)..(d + n))
      BY <3>1, <3>2, <3>3, ToSetConcat
    <3>5. (1..d) \cup ((d + 1)..(d + n)) = 1..(d + n)
      BY <2>1
    <3> QED BY <3>4, <3>5
  <2>10. ASSUME ~request.json, ~runtime.renderer PROVE screen'[s] = Bytes(1, d + n)
    BY <2>3, <2>6, <2>10 DEF TypeOK, Shown
  <2> HIDE DEF d, chunk
  <2>11. ASSUME NEW t \in Streams
         PROVE  /\ delivered'[t] <= output'[t]
                /\ captured'[t] = IF request.json THEN Bytes(1, delivered'[t]) ELSE <<>>
                /\ request.json \/ delivered'[t] = 0 => screen'[t] = <<>>
                /\ ~request.json => ToSet(screen'[t]) = 1..delivered'[t]
                /\ ~request.json /\ ~runtime.renderer => screen'[t] = Bytes(1, delivered'[t])
    <3>1. CASE t = s
      BY <2>5, <2>7, <2>8, <2>9, <2>10, <3>1
    <3>2. CASE t # s
      BY <2>4, <3>2
    <3> QED BY <3>1, <3>2
  <2> QED
    BY <2>2, <2>11
<1>3. CASE Quiet
  BY <1>1, <1>3, QuietIsQuiet DEF exec, sinks
<1>4. CASE ExecReturns \/ ExecThrows
  BY <1>1, <1>4
  DEF ExecReturns, ExecThrows, Remote!Return, Remote!ReturnUnknown, Remote!Throw, sinks
<1>5. CASE Terminated \/ UNCHANGED vars
  BY <1>1, <1>5 DEF Terminated, vars, exec, sinks
<1> QED
  BY <1>2, <1>3, <1>4, <1>5 DEF Next, Quiet

\* No step before the end prints or decides anything.
LEMMA UndecidedStep == IInv /\ [Next]_vars => Undecided'
<1> SUFFICES ASSUME IInv, [Next]_vars PROVE Undecided'
  OBVIOUS
<1> USE DEF IInv, Undecided, Goto, Exit, Throw
<1>1. CASE Quiet
  BY <1>1
  DEF Quiet, Usage, Refused, Accepted, RunStub, NoProfile, ProfileFound, MakeRuntime,
      FactoryThrows, Connect, ConnectFails, ShellReturns, ShellThrows, OpenWrite,
      OpenWriteThrows, CloseZero, sinks, sftp, ending
<1>2. ASSUME NEW s \in Streams, NEW n \in 1..output[s], Chunk(s, n) PROVE Undecided'
  BY <1>2 DEF Chunk, sftp, ending
<1>3. CASE ExecReturns \/ ExecThrows
  BY <1>3 DEF ExecReturns, ExecThrows
<1>4. CASE Terminated \/ UNCHANGED vars
  BY <1>4 DEF Terminated, vars, sinks, sftp, ending
<1> QED
  BY <1>1, <1>2, <1>3, <1>4 DEF Next, Quiet

\* A process ends by an exception or with what its command says.
LEMMA VerdictStep == IInv /\ [Next]_vars => Verdict'
<1> SUFFICES ASSUME IInv, [Next]_vars PROVE Verdict'
  OBVIOUS
<1> USE DEF IInv, Verdict, Undecided, Goto, Exit, Throw
<1>1. CASE Quiet
  <2>1. UNCHANGED <<request, delivered, phase, documents, captured, code>>
    BY <1>1, QuietIsQuiet DEF exec, sinks
  <2>2. ASSUME step' = "exited"
        PROVE  /\ documents' = <<>>
               /\ complaint' => status' = 1 /\ handles' = 0 /\ delivered' = Remote!Nothing
               /\ complaint' /\ remoteFile' # "old" => request.kind = "copy"
               /\ ~complaint' => request.kind # "exec"
    BY <1>1, <2>1, <2>2
    DEF Quiet, Usage, Refused, Accepted, RunStub, NoProfile, ProfileFound, MakeRuntime,
        FactoryThrows, Connect, ConnectFails, ShellReturns, ShellThrows, OpenWrite,
        OpenWriteThrows, CloseZero, sftp, ending, OnPath, CallLife
  <2> QED
    BY <2>1, <2>2
<1>2. ASSUME NEW s \in Streams, NEW n \in 1..output[s], Chunk(s, n) PROVE Verdict'
  BY <1>2 DEF Chunk
<1>3. CASE ExecReturns
  <2>1. /\ request' = request /\ request.kind = "exec" /\ captured' = captured
        /\ ~complaint' /\ phase' = "returned" /\ status' = ToStatus(code')
    BY <1>3
    DEF ExecReturns, ExecStatus, Remote!Return, Remote!ReturnUnknown, OnPath
  <2>2. documents' = IF request.json THEN <<Document(code')>> ELSE <<>>
    BY <1>3 DEF ExecReturns
  <2> QED
    BY <2>1, <2>2 DEF Document
<1>4. CASE ExecThrows
  BY <1>4 DEF ExecThrows, Remote!Throw, sinks, sftp
<1>5. CASE Terminated \/ UNCHANGED vars
  BY <1>5 DEF Terminated, vars, exec, sinks, sftp, ending, Document
<1> QED
  BY <1>1, <1>2, <1>3, <1>4, <1>5 DEF Next, Quiet

\* The invariant holds in every reachable state.
LEMMA Invariance == Spec => []IInv
<1>1. IInv /\ [Next]_vars => IInv'
  BY TypeStep, PathStep, CallStep, ReceivedStep, UndecidedStep, VerdictStep DEF IInv
<1> QED
  BY InitIInv, <1>1, PTL DEF Spec

-----------------------------------------------------------------------------

\* `zssh exec` exits with 0 only if the command did, with all of its output handed
\* on, for commands whose exit codes are those of POSIX
\* (CommandDispatcher.cpp:262-298, main.cpp:9-21).
THEOREM ZeroMeansComplete ==
  ASSUME ExitCodes \subseteq 0..255
  PROVE  Spec => []SuccessIsComplete
<1>1. IInv => SuccessIsComplete
  <2> SUFFICES ASSUME IInv, Exited("exec"), status = 0
               PROVE  /\ phase = "returned" /\ exitCode = 0
                      /\ IF request.json
                         THEN \A s \in Streams : captured[s] = All(s) /\ documents # <<>>
                         ELSE \A s \in Streams : ToSet(screen[s]) = 1..output[s]
    BY DEF SuccessIsComplete
  <2>1. step = "exited" /\ request.kind = "exec" /\ ~complaint
    BY DEF Exited, IInv, Verdict
  <2>2. /\ phase = "returned" /\ code % 256 = 0
        /\ documents = IF request.json THEN <<Document(code)>> ELSE <<>>
    BY <2>1 DEF IInv, Verdict, ToStatus
  <2>3. code = 0
    <3>1. code \in 0..255 \cup {-1}
      BY DEF IInv, TypeOK, Remote!NoStatus
    <3>2. code # -1
      BY <2>2
    <3> QED BY <2>2, <3>1, <3>2
  <2>4. exitCode = 0 /\ delivered = output
    BY <2>3 DEF IInv, CallLife, Remote!NoStatus
  <2>5. request.json => documents # <<>>
    BY <2>2
  <2> QED
    BY <2>2, <2>4, <2>5 DEF IInv, Received, All
<1> QED
  BY Invariance, <1>1, PTL

\* An exception leaves nothing that looks like a result
\* (main.cpp:9-21, CommandDispatcher.cpp:240-300, 369-386).
THEOREM ErrorsFailClosed == Spec => []FailsClosed
<1>1. IInv => FailsClosed
  <2> SUFFICES ASSUME IInv, complaint
               PROVE  /\ status = 1 /\ documents = <<>> /\ handles = 0
                      /\ remoteFile # "old" => request.kind = "copy"
                      /\ \A s \in Streams : screen[s] = <<>>
    BY DEF FailsClosed
  <2>1. step = "exited"
    BY DEF IInv, TypeOK, Undecided
  <2>2. /\ status = 1 /\ documents = <<>> /\ handles = 0 /\ delivered = Remote!Nothing
        /\ remoteFile # "old" => request.kind = "copy"
    BY <2>1 DEF IInv, Verdict
  <2>3. \A s \in Streams : delivered[s] = 0
    BY <2>2 DEF Remote!Nothing, Streams
  <2> QED
    BY <2>2, <2>3 DEF IInv, Received
<1> QED
  BY Invariance, <1>1, PTL

\* The one document agrees with the exit status and the output received
\* (CommandDispatcher.cpp:262-276, SessionManager.cpp:11-30).
THEOREM DocumentAgrees == Spec => []DocumentFaithful
<1>1. IInv => DocumentFaithful
  <2> SUFFICES ASSUME IInv PROVE DocumentFaithful
    OBVIOUS
  <2>1. CASE documents = <<>>
    <3>1. ~(request.json /\ Exited("exec") /\ ~complaint)
      BY <2>1 DEF IInv, Verdict, Exited
    <3> QED BY <2>1, <3>1 DEF DocumentFaithful
  <2>2. CASE documents # <<>>
    <3>1. /\ request.json /\ status = ToStatus(code) /\ documents = <<Document(code)>>
      BY <2>2 DEF IInv, Undecided, Verdict
    <3>2. /\ captured["stdout"] = Bytes(1, delivered["stdout"])
          /\ captured["stderr"] = Bytes(1, delivered["stderr"])
      BY <3>1 DEF IInv, Received, Streams, Remote!Streams
    <3>3. Len(documents) = 1 /\ \A i \in DOMAIN documents : documents[i] = Document(code)
      BY <3>1
    <3> QED
      BY <3>1, <3>2, <3>3 DEF DocumentFaithful, Document
  <2> QED BY <2>1, <2>2
<1> QED
  BY Invariance, <1>1, PTL

\* Without a renderer each byte is shown once and in order
\* (CommandDispatcher.cpp:277-296).
THEOREM PlainOutputInOrder == Spec => []PlainShownOnceInOrder
<1>1. IInv => PlainShownOnceInOrder
  BY DEF IInv, Received, PlainShownOnceInOrder, ShownOnceInOrder
<1> QED
  BY Invariance, <1>1, PTL

-----------------------------------------------------------------------------
(* escape_json: UTF-8 by its definition, a scalar value in one to four bytes. *)

\* Six bits on the right of a number.
LEMMA DivideBy64 ==
  ASSUME NEW a \in Int, NEW r \in 0..63, NEW c \in Int, c = a * 64 + r
  PROVE  c \div 64 = a /\ c % 64 = r
  BY SMT

\* A number is its last six bits and the others.
LEMMA SplitBy64 ==
  ASSUME NEW c \in Nat
  PROVE  /\ c \div 64 \in Nat /\ c % 64 \in 0..63 /\ 64 * (c \div 64) + (c % 64) = c
  BY SMT

\* The forms of UTF-8: one byte.
LEMMA Encode1 == ASSUME NEW c \in Int, c < 128 PROVE Encode(c) = <<c>>
  BY SMT DEF Encode

\* Two bytes.
LEMMA Encode2 ==
  ASSUME NEW c \in Int, 128 <= c, c < 2048
  PROVE Encode(c) = <<192 + (c \div 64), 128 + (c % 64)>>
  BY SMT DEF Encode, Tail6

\* Six bits and six bits are twelve.
LEMMA DivideAgain ==
  ASSUME NEW c \in Nat
  PROVE c \div 4096 = (c \div 64) \div 64 /\ c \div 262144 = ((c \div 64) \div 64) \div 64
  BY SMT

\* Three bytes.
LEMMA Encode3 ==
  ASSUME NEW c \in Nat, 2048 <= c, c < 65536
  PROVE Encode(c) = <<224 + ((c \div 64) \div 64), 128 + ((c \div 64) % 64), 128 + (c % 64)>>
<1>1. Encode(c) = <<224 + (c \div 4096), 128 + ((c \div 64) % 64), 128 + (c % 64)>>
  BY SMT DEF Encode, Tail6
<1> QED BY SMT, <1>1, DivideAgain

\* Four bytes.
LEMMA Encode4 ==
  ASSUME NEW c \in Nat, 65536 <= c
  PROVE Encode(c) = <<240 + (((c \div 64) \div 64) \div 64), 128 + (((c \div 64) \div 64) % 64),
                      128 + ((c \div 64) % 64), 128 + (c % 64)>>
<1>1. Encode(c) = <<240 + (c \div 262144), 128 + ((c \div 4096) % 64),
                    128 + ((c \div 64) % 64), 128 + (c % 64)>>
  BY SMT DEF Encode, Tail6
<1> QED BY SMT, <1>1, DivideAgain

\* ASCII is what one byte may be.
LEMMA IsCharacter1 == ASSUME NEW b \in Byte PROVE IsCharacter(<<b>>) <=> b < 128
<1>1. Decode(<<b>>) = b /\ b \in 0..255
  BY SMT DEF Decode, Byte
<1>2. CASE b < 128
  BY SMT, <1>1, <1>2, Encode1 DEF IsCharacter, IsScalar
<1>3. CASE b >= 128
  <2>1. Encode(b) = <<192 + (b \div 64), 128 + (b % 64)>>
    BY SMT, <1>1, <1>3, Encode2
  <2>2. Encode(b) # <<b>>
    BY SMT, <2>1
  <2> QED BY SMT, <1>1, <1>3, <2>2 DEF IsCharacter
<1> QED BY SMT, <1>1, <1>2, <1>3

\* What two bytes stand for.
LEMMA Decode2 == ASSUME NEW s, Len(s) = 2 PROVE Decode(s) = (s[1] - 192) * 64 + (s[2] - 128)
  BY SMT DEF Decode

\* Three bytes.
LEMMA Decode3 ==
  ASSUME NEW s, Len(s) = 3
  PROVE  Decode(s) = (s[1] - 224) * 4096 + (s[2] - 128) * 64 + (s[3] - 128)
  BY SMT DEF Decode

\* Four bytes.
LEMMA Decode4 ==
  ASSUME NEW s, Len(s) = 4
  PROVE  Decode(s) = (s[1] - 240) * 262144 + (s[2] - 128) * 4096
                     + (s[3] - 128) * 64 + (s[4] - 128)
  BY SMT DEF Decode

\* The number of bytes tells which form a scalar value has.
LEMMA EncodedLength ==
  ASSUME NEW c \in Nat
  PROVE  /\ Len(Encode(c)) = 1 <=> c < 128
         /\ Len(Encode(c)) = 2 <=> 128 <= c /\ c < 2048
         /\ Len(Encode(c)) = 3 <=> 2048 <= c /\ c < 65536
         /\ Len(Encode(c)) = 4 <=> 65536 <= c
<1>1. CASE c < 128
  <2>1. Len(Encode(c)) = 1
    BY SMT, <1>1, Encode1
  <2> QED BY SMT, <1>1, <2>1
<1>2. CASE 128 <= c /\ c < 2048
  <2>1. Len(Encode(c)) = 2
    BY SMT, <1>2, Encode2
  <2> QED BY SMT, <1>2, <2>1
<1>3. CASE 2048 <= c /\ c < 65536
  <2>1. Len(Encode(c)) = 3
    BY SMT, <1>3, Encode3
  <2> QED BY SMT, <1>3, <2>1
<1>4. CASE 65536 <= c
  <2>1. Len(Encode(c)) = 4
    BY SMT, <1>4, Encode4
  <2> QED BY SMT, <1>4, <2>1
<1> QED BY SMT, <1>1, <1>2, <1>3, <1>4

\* The test of two bytes is exact.
LEMMA IsCharacter2 ==
  ASSUME NEW a \in Byte, NEW b \in Byte
  PROVE  IsCharacter(<<a, b>>) <=> Sequence2(<<a, b>>)
<1> DEFINE s == <<a, b>>
           c == (a - 192) * 64 + (b - 128)
<1>1. /\ a \in 0..255 /\ b \in 0..255
      /\ s = <<a, b>> /\ Len(s) = 2 /\ s[1] = a /\ s[2] = b
  BY SMT DEF Byte
<1>2. c = (a - 192) * 64 + (b - 128) /\ c \in Int
  BY SMT, <1>1
<1> HIDE DEF s, c
<1>3. c = Decode(s)
  BY SMT, <1>1, <1>2, Decode2
<1>4. ASSUME a \in 194..223, b \in 128..191 PROVE IsCharacter(s)
  <2>1. c \div 64 = a - 192 /\ c % 64 = b - 128
    <3>1. a - 192 \in Int /\ b - 128 \in 0..63
      BY SMT, <1>1, <1>4
    <3> QED BY SMT, <1>2, <3>1, DivideBy64
  <2>2. 128 <= c /\ c < 2048
    BY SMT, <1>1, <1>2, <1>4
  <2>3. Encode(c) = s
    BY SMT, <1>2, <1>1, <2>1, <2>2, Encode2
  <2> QED BY SMT, <1>2, <1>3, <2>2, <2>3 DEF IsCharacter, IsScalar
<1>5. ASSUME IsCharacter(s) PROVE a \in 194..223 /\ b \in 128..191
  <2>1. c \in Nat /\ Encode(c) = s
    BY SMT, <1>1, <1>2, <1>3, <1>5 DEF IsCharacter, IsScalar
  <2>2. 128 <= c /\ c < 2048
    BY SMT, <1>1, <1>2, <2>1, EncodedLength
  <2>3. a = 192 + (c \div 64) /\ b = 128 + (c % 64)
    BY SMT, <1>2, <1>1, <2>1, <2>2, Encode2
  <2> QED BY SMT, <2>1, <2>2, <2>3, SplitBy64
<1> QED BY SMT, <1>1, <1>4, <1>5 DEF Sequence2, IsContinuation

\* The test of three bytes is exact: what it leaves out is overlong or a surrogate.
LEMMA IsCharacter3 ==
  ASSUME NEW a \in Byte, NEW b \in Byte, NEW d \in Byte
  PROVE  IsCharacter(<<a, b, d>>) <=> Sequence3(<<a, b, d>>)
<1> DEFINE s == <<a, b, d>>
           c == (a - 224) * 4096 + (b - 128) * 64 + (d - 128)
<1>1. /\ a \in 0..255 /\ b \in 0..255 /\ d \in 0..255
      /\ s = <<a, b, d>> /\ Len(s) = 3 /\ s[1] = a /\ s[2] = b /\ s[3] = d
  BY SMT DEF Byte
<1>2. c = (a - 224) * 4096 + (b - 128) * 64 + (d - 128) /\ c \in Int
  BY SMT, <1>1
<1> HIDE DEF s, c
<1>3. c = Decode(s)
  BY SMT, <1>1, <1>2, Decode3
<1> DEFINE Right == /\ d \in 128..191
                    /\ \/ a = 224 /\ b \in 160..191
                       \/ (a \in 225..236 \/ a \in 238..239) /\ b \in 128..191
                       \/ a = 237 /\ b \in 128..159
<1>4. ASSUME Right PROVE IsCharacter(s)
  <2>1. c = ((a - 224) * 64 + (b - 128)) * 64 + (d - 128)
    BY SMT, <1>1, <1>2
  <2>2. c \div 64 = (a - 224) * 64 + (b - 128) /\ c % 64 = d - 128
    <3>1. (a - 224) * 64 + (b - 128) \in Int /\ d - 128 \in 0..63
      BY SMT, <1>1, <1>4
    <3> QED BY SMT, <1>2, <2>1, <3>1, DivideBy64
  <2>3. (c \div 64) \div 64 = a - 224 /\ (c \div 64) % 64 = b - 128
    <3>1. a - 224 \in Int /\ b - 128 \in 0..63 /\ c \div 64 \in Int
      BY SMT, <1>1, <1>4, <2>2
    <3> QED BY SMT, <2>2, <3>1, DivideBy64
  <2>4. 2048 <= c /\ c < 65536 /\ ~(55296 <= c /\ c <= 57343)
    BY SMT, <1>1, <1>2, <1>4
  <2>5. Encode(c) = s
    BY SMT, <1>2, <1>1, <2>2, <2>3, <2>4, Encode3
  <2> QED BY SMT, <1>2, <1>3, <2>4, <2>5 DEF IsCharacter, IsScalar
<1>5. ASSUME IsCharacter(s) PROVE Right
  <2>1. c \in Nat /\ Encode(c) = s /\ ~(55296 <= c /\ c <= 57343)
    BY SMT, <1>1, <1>2, <1>3, <1>5 DEF IsCharacter, IsScalar
  <2>2. 2048 <= c /\ c < 65536
    BY SMT, <1>1, <1>2, <2>1, EncodedLength
  <2> DEFINE h == c \div 64
             k == h \div 64
  <2>3. a = 224 + k /\ b = 128 + (h % 64) /\ d = 128 + (c % 64)
    BY SMT, <1>1, <1>2, <2>1, <2>2, Encode3
  <2>4. h \in Nat /\ c % 64 \in 0..63 /\ 64 * h + (c % 64) = c
    BY SMT, <2>1, SplitBy64
  <2> HIDE DEF h
  <2>5. k \in Nat /\ h % 64 \in 0..63 /\ 64 * k + (h % 64) = h
    BY SMT, <2>4, SplitBy64
  <2> HIDE DEF k
  <2>6. c = 4096 * k + 64 * (b - 128) + (d - 128) /\ b \in 128..191 /\ d \in 128..191
    BY SMT, <1>1, <2>3, <2>4, <2>5
  <2>7. k <= 15
    BY SMT, <1>1, <2>1, <2>2, <2>5, <2>6
  <2>8. k = 0 => b \in 160..191
    BY SMT, <1>1, <2>1, <2>2, <2>6
  <2>9. k = 13 => b \in 128..159
    BY SMT, <1>1, <2>1, <2>2, <2>6
  <2> QED BY SMT, <2>3, <2>5, <2>6, <2>7, <2>8, <2>9
<1> QED BY SMT, <1>1, <1>4, <1>5 DEF Sequence3, IsContinuation

\* The test of four bytes is exact: what it leaves out is overlong or too large.
LEMMA IsCharacter4 ==
  ASSUME NEW a \in Byte, NEW b \in Byte, NEW d \in Byte, NEW e \in Byte
  PROVE  IsCharacter(<<a, b, d, e>>) <=> Sequence4(<<a, b, d, e>>)
<1> DEFINE s == <<a, b, d, e>>
           c == (a - 240) * 262144 + (b - 128) * 4096 + (d - 128) * 64 + (e - 128)
<1>1. /\ a \in 0..255 /\ b \in 0..255 /\ d \in 0..255 /\ e \in 0..255
      /\ s = <<a, b, d, e>> /\ Len(s) = 4 /\ s[1] = a /\ s[2] = b /\ s[3] = d /\ s[4] = e
  BY SMT DEF Byte
<1>2. c = (a - 240) * 262144 + (b - 128) * 4096 + (d - 128) * 64 + (e - 128) /\ c \in Int
  BY SMT, <1>1
<1> HIDE DEF s, c
<1>3. c = Decode(s)
  BY SMT, <1>1, <1>2, Decode4
<1> DEFINE Right == /\ d \in 128..191 /\ e \in 128..191
                    /\ \/ a = 240 /\ b \in 144..191
                       \/ a \in 241..243 /\ b \in 128..191
                       \/ a = 244 /\ b \in 128..143
<1>4. ASSUME Right PROVE IsCharacter(s)
  <2>1. c = ((((a - 240) * 64) + (b - 128)) * 64 + (d - 128)) * 64 + (e - 128)
    BY SMT, <1>1, <1>2
  <2>2. c \div 64 = (((a - 240) * 64) + (b - 128)) * 64 + (d - 128) /\ c % 64 = e - 128
    <3>1. ((a - 240) * 64 + (b - 128)) * 64 + (d - 128) \in Int /\ e - 128 \in 0..63
      BY SMT, <1>1, <1>4
    <3> QED BY SMT, <1>2, <2>1, <3>1, DivideBy64
  <2>3. (c \div 64) \div 64 = (a - 240) * 64 + (b - 128) /\ (c \div 64) % 64 = d - 128
    BY SMT, <1>2, <2>2, <1>4, <1>1, DivideBy64
  <2>4. ((c \div 64) \div 64) \div 64 = a - 240 /\ ((c \div 64) \div 64) % 64 = b - 128
    <3>1. a - 240 \in Int /\ b - 128 \in 0..63 /\ (c \div 64) \div 64 \in Int
      BY SMT, <1>1, <1>4, <2>3
    <3> QED BY SMT, <2>3, <3>1, DivideBy64
  <2>5. 65536 <= c /\ c <= 1114111
    BY SMT, <1>1, <1>2, <1>4
  <2>6. Encode(c) = s
    BY SMT, <1>2, <1>1, <2>2, <2>3, <2>4, <2>5, Encode4
  <2> QED BY SMT, <1>2, <1>3, <2>5, <2>6 DEF IsCharacter, IsScalar
<1>5. ASSUME IsCharacter(s) PROVE Right
  <2>1. c \in Nat /\ Encode(c) = s /\ c <= 1114111
    BY SMT, <1>1, <1>2, <1>3, <1>5 DEF IsCharacter, IsScalar
  <2>2. 65536 <= c
    BY SMT, <1>1, <1>2, <2>1, EncodedLength
  <2> DEFINE h == c \div 64
             k == h \div 64
             l == k \div 64
  <2>3. a = 240 + l /\ b = 128 + (k % 64) /\ d = 128 + (h % 64) /\ e = 128 + (c % 64)
    BY SMT, <1>1, <1>2, <2>1, <2>2, Encode4
  <2>4. h \in Nat /\ c % 64 \in 0..63 /\ 64 * h + (c % 64) = c
    BY SMT, <2>1, SplitBy64
  <2> HIDE DEF h
  <2>5. k \in Nat /\ h % 64 \in 0..63 /\ 64 * k + (h % 64) = h
    BY SMT, <2>4, SplitBy64
  <2> HIDE DEF k
  <2>6. l \in Nat /\ k % 64 \in 0..63 /\ 64 * l + (k % 64) = k
    BY SMT, <2>5, SplitBy64
  <2> HIDE DEF l
  <2>7. /\ c = 262144 * l + 4096 * (b - 128) + 64 * (d - 128) + (e - 128)
        /\ b \in 128..191 /\ d \in 128..191 /\ e \in 128..191
    BY SMT, <1>1, <2>3, <2>4, <2>5, <2>6
  <2>8. l <= 4
    BY SMT, <1>1, <2>1, <2>6, <2>7
  <2>9. (l = 0 => b \in 144..191) /\ (l = 4 => b \in 128..143)
    BY SMT, <1>1, <2>1, <2>2, <2>7
  <2> QED BY SMT, <2>3, <2>6, <2>7, <2>8, <2>9
<1> QED BY SMT, <1>1, <1>4, <1>5 DEF Sequence4, IsContinuation

\* Which test of valid_utf8_sequence_length s passes.
Starts(n, s) ==
  \/ n = 1 /\ s[1] < 128
  \/ n = 2 /\ Sequence2(s)
  \/ n = 3 /\ Sequence3(s)
  \/ n = 4 /\ Sequence4(s)

\* A part of a byte string.
LEMMA SubBytes ==
  ASSUME NEW s \in Seq(Byte), NEW j \in 1..Len(s), NEW k \in j - 1..Len(s)
  PROVE  /\ SubSeq(s, j, k) \in Seq(Byte) /\ Len(SubSeq(s, j, k)) = k - j + 1
         /\ \A m \in 1..k - j + 1 : SubSeq(s, j, k)[m] = s[j + m - 1]
<1>1. Len(s) \in Nat
  BY LenProperties
<1>2. \A m \in j..k : s[m] \in Byte
  BY <1>1, ElementOfSeq, SMT
<1> QED BY <1>1, <1>2, SubSeqProperties, SMT

\* The tests look at the front of a text as at the character alone.
LEMMA FrontCharacter ==
  ASSUME NEW s \in Seq(Byte), NEW n \in 1..4, n <= Len(s)
  PROVE  IsCharacter(SubSeq(s, 1, n)) <=> Starts(n, s)
<1> DEFINE t == SubSeq(s, 1, n)
<1>1. /\ Len(s) \in Nat /\ n \in Nat /\ t \in Seq(Byte) /\ Len(t) = n
      /\ \A m \in 1..n : t[m] = s[m] /\ s[m] \in Byte
  <2>1. Len(s) \in Nat /\ 1 \in 1..Len(s) /\ n \in 0..Len(s)
    BY LenProperties, SMT
  <2>2. /\ t \in Seq(Byte) /\ Len(t) = n
        /\ \A m \in 1..n : t[m] = s[1 + m - 1]
    BY <2>1, SubBytes, SMT
  <2>3. \A m \in 1..n : s[m] \in Byte
    BY <2>1, ElementOfSeq, SMT
  <2> QED BY <2>1, <2>2, <2>3, SMT
<1> HIDE DEF t
<1>2. CASE n = 1
  <2>1. t = <<s[1]>> /\ s[1] \in Byte
    BY <1>1, <1>2, SMT
  <2>2. IsCharacter(t) <=> s[1] < 128
    BY <2>1, IsCharacter1, SMT
  <2>3. Starts(n, s) <=> s[1] < 128
    BY <1>2, SMT DEF Starts
  <2> QED BY <2>2, <2>3 DEF t
<1>3. CASE n = 2
  <2>1. t = <<s[1], s[2]>> /\ s[1] \in Byte /\ s[2] \in Byte
    BY <1>1, <1>3, SMT
  <2>2. Sequence2(<<s[1], s[2]>>) <=> Sequence2(s)
    BY SMT DEF Sequence2
  <2>3. IsCharacter(t) <=> Sequence2(s)
    BY <2>1, <2>2, IsCharacter2, SMT
  <2>4. Starts(n, s) <=> Sequence2(s)
    BY <1>3, SMT DEF Starts
  <2> QED BY <2>3, <2>4 DEF t
<1>4. CASE n = 3
  <2>1. t = <<s[1], s[2], s[3]>> /\ s[1] \in Byte /\ s[2] \in Byte /\ s[3] \in Byte
    BY <1>1, <1>4, SMT
  <2>2. Sequence3(<<s[1], s[2], s[3]>>) <=> Sequence3(s)
    BY SMT DEF Sequence3
  <2>3. IsCharacter(t) <=> Sequence3(s)
    BY <2>1, <2>2, IsCharacter3, SMT
  <2>4. Starts(n, s) <=> Sequence3(s)
    BY <1>4, SMT DEF Starts
  <2> QED BY <2>3, <2>4 DEF t
<1>5. CASE n = 4
  <2>1. /\ t = <<s[1], s[2], s[3], s[4]>>
        /\ s[1] \in Byte /\ s[2] \in Byte /\ s[3] \in Byte /\ s[4] \in Byte
    BY <1>1, <1>5, SMT
  <2>2. Sequence4(<<s[1], s[2], s[3], s[4]>>) <=> Sequence4(s)
    BY SMT DEF Sequence4
  <2>3. IsCharacter(t) <=> Sequence4(s)
    BY <2>1, <2>2, IsCharacter4, SMT
  <2>4. Starts(n, s) <=> Sequence4(s)
    BY <1>5, SMT DEF Starts
  <2> QED BY <2>3, <2>4 DEF t
<1> QED BY <1>2, <1>3, <1>4, <1>5, SMT

\* A byte of a sequence is a number.
LEMMA BytesAreNumbers ==
  ASSUME NEW s \in Seq(Byte)
  PROVE  Len(s) \in Nat /\ \A m \in 1..Len(s) : s[m] \in Int /\ 0 <= s[m] /\ s[m] < 256
<1>1. Len(s) \in Nat /\ \A m \in 1..Len(s) : s[m] \in Byte
  BY LenProperties, ElementOfSeq
<1>2. \A b \in Byte : b \in Int /\ 0 <= b /\ b < 256
  BY SMT DEF Byte
<1> QED BY <1>1, <1>2, Zenon

\* The first byte of a character tells how long it is, and no later one begins any.
LEMMA FirstByte ==
  ASSUME NEW s, NEW n \in 1..4, \A m \in 1..n : s[m] \in Int /\ 0 <= s[m], Starts(n, s)
  PROVE  /\ \/ n = 1 /\ s[1] < 128
            \/ n = 2 /\ 194 <= s[1] /\ s[1] < 224
            \/ n = 3 /\ 224 <= s[1] /\ s[1] < 240
            \/ n = 4 /\ 240 <= s[1] /\ s[1] < 245
         /\ \A m \in 2..n : 128 <= s[m] /\ s[m] < 192
<1>1. CASE n = 1
  BY <1>1, SMT DEF Starts
<1>2. CASE n = 2
  BY <1>2, SMT DEF Starts, Sequence2, IsContinuation
<1>3. CASE n = 3
  <2>1. Sequence3(s) /\ s[1] \in Int /\ s[2] \in Int /\ s[3] \in Int
    BY <1>3, SMT DEF Starts
  <2>2. /\ 224 <= s[1] /\ s[1] < 240 /\ 128 <= s[2] /\ s[2] < 192
        /\ 128 <= s[3] /\ s[3] < 192
    BY <2>1, SMT DEF Sequence3, IsContinuation
  <2> QED BY <2>2, <1>3, SMT
<1>4. CASE n = 4
  <2>1. Sequence4(s) /\ s[1] \in Int /\ s[2] \in Int /\ s[3] \in Int /\ s[4] \in Int
    BY <1>4, SMT DEF Starts
  <2>2. /\ 240 <= s[1] /\ s[1] < 245 /\ 128 <= s[2] /\ s[2] < 192
        /\ 128 <= s[3] /\ s[3] < 192 /\ 128 <= s[4] /\ s[4] < 192
    BY <2>1, SMT DEF Sequence4, IsContinuation
  <2> QED BY <2>2, <1>4, SMT
<1> QED BY <1>1, <1>2, <1>3, <1>4, SMT

\* No text begins with characters of two lengths.
LEMMA OneLength ==
  ASSUME NEW s, NEW n \in 1..4, NEW m \in 1..4,
         \A i \in 1..n : s[i] \in Int /\ 0 <= s[i], \A i \in 1..m : s[i] \in Int /\ 0 <= s[i],
         Starts(n, s), Starts(m, s)
  PROVE  m = n
<1>1. /\ s[1] \in Int
      /\ \/ n = 1 /\ s[1] < 128
         \/ n = 2 /\ 194 <= s[1] /\ s[1] < 224
         \/ n = 3 /\ 224 <= s[1] /\ s[1] < 240
         \/ n = 4 /\ 240 <= s[1] /\ s[1] < 245
  BY FirstByte, SMT
<1>2. \/ m = 1 /\ s[1] < 128
      \/ m = 2 /\ 194 <= s[1] /\ s[1] < 224
      \/ m = 3 /\ 224 <= s[1] /\ s[1] < 240
      \/ m = 4 /\ 240 <= s[1] /\ s[1] < 245
  BY FirstByte, SMT
<1> QED BY <1>1, <1>2, SMT

\* valid_utf8_sequence_length answers with the only test that holds.
LEMMA LengthCases ==
  ASSUME NEW s, NEW len \in Nat, len = Len(s), len > 0,
         \A m \in 1..len : s[m] \in Int /\ 0 <= s[m]
  PROVE  /\ ValidLength(s) \in 0..4 /\ ValidLength(s) <= len
         /\ ValidLength(s) > 0 => Starts(ValidLength(s), s)
         /\ ValidLength(s) = 0 => \A n \in 1..4 : n <= len => ~Starts(n, s)
<1> DEFINE P2 == len >= 2 /\ Sequence2(s)
           P3 == len >= 3 /\ Sequence3(s)
           P4 == len >= 4 /\ Sequence4(s)
           v == ValidLength(s)
<1>0. s[1] \in Int
  BY SMT
<1>1. /\ P2 => 194 <= s[1] /\ s[1] < 224
      /\ P3 => 224 <= s[1] /\ s[1] < 240
      /\ P4 => 240 <= s[1] /\ s[1] < 245
  <2>1. ASSUME P2 PROVE 194 <= s[1] /\ s[1] < 224
    <3>1. s[1] \in 194..223
      BY <2>1 DEF Sequence2
    <3>2. \A b \in 194..223 : 194 <= b /\ b < 224
      BY SMT
    <3> QED BY <3>1, <3>2, Zenon
  <2>2. ASSUME P3 PROVE 224 <= s[1] /\ s[1] < 240
    BY <2>2, SMT DEF Sequence3
  <2>3. ASSUME P4 PROVE 240 <= s[1] /\ s[1] < 245
    BY <2>3, SMT DEF Sequence4
  <2> QED BY <2>1, <2>2, <2>3
<1>2. CASE s[1] < 128
  <2>1. v = 1
    BY <1>0, <1>1, <1>2, SMT DEF ValidLength
  <2> QED BY <1>2, <2>1, SMT DEF Starts
<1>3. CASE P2
  <2>1. v = 2
    BY <1>0, <1>1, <1>3, SMT DEF ValidLength
  <2> QED BY <1>3, <2>1, SMT DEF Starts
<1>4. CASE P3
  <2>1. v = 3
    BY <1>0, <1>1, <1>4, SMT DEF ValidLength
  <2> QED BY <1>4, <2>1, SMT DEF Starts
<1>5. CASE P4
  <2>1. v = 4
    BY <1>0, <1>1, <1>5, SMT DEF ValidLength
  <2> QED BY <1>5, <2>1, SMT DEF Starts
<1>6. CASE ~(s[1] < 128) /\ ~P2 /\ ~P3 /\ ~P4
  <2>1. v = 0
    BY <1>0, <1>6, SMT DEF ValidLength
  <2>2. ASSUME NEW n \in 1..4, n <= len PROVE ~Starts(n, s)
    BY <1>6, <2>2, SMT DEF Starts
  <2> QED BY <2>1, <2>2, SMT
<1> QED BY <1>2, <1>3, <1>4, <1>5, <1>6

\* The sequence test is exact for every text and however soon it ends.
LEMMA LengthRight ==
  ASSUME NEW s \in Seq(Byte), s # <<>>
  PROVE  /\ ValidLength(s) \in 0..4 /\ ValidLength(s) <= Len(s)
         /\ ValidLength(s) > 0 => IsCharacter(SubSeq(s, 1, ValidLength(s)))
         /\ ValidLength(s) = 0 => ~BeginsCharacter(s)
<1>1. Len(s) \in Nat /\ Len(s) > 0 /\ \A m \in 1..Len(s) : s[m] \in Int /\ 0 <= s[m]
  BY BytesAreNumbers, EmptySeq
<1>2. /\ ValidLength(s) \in 0..4 /\ ValidLength(s) <= Len(s)
      /\ ValidLength(s) > 0 => Starts(ValidLength(s), s)
      /\ ValidLength(s) = 0 => \A n \in 1..4 : n <= Len(s) => ~Starts(n, s)
  BY <1>1, LengthCases, Zenon
<1>3. ASSUME ValidLength(s) > 0 PROVE IsCharacter(SubSeq(s, 1, ValidLength(s)))
  <2>1. ValidLength(s) \in 1..4
    BY <1>2, <1>3, SMT
  <2> QED BY <1>2, <1>3, <2>1, FrontCharacter, Zenon
<1>4. ASSUME ValidLength(s) = 0 PROVE ~BeginsCharacter(s)
  BY <1>2, <1>4, FrontCharacter, Zenon DEF BeginsCharacter
<1> QED BY <1>2, <1>3, <1>4

\* What append writes.
Pieces ==
  [form : {"raw"}, bytes : Seq(Byte) \ {<<>>}]
    \cup [form : {"short"}, letter : Letters]
    \cup [form : {"unicode"}, high : Digit, low : Digit]

\* The state of the loop, well formed.
EscapeTypeOK ==
  /\ text \in Seq(Byte)
  /\ index \in 1..Len(text) + 1
  /\ escaped \in Seq(Pieces)

\* The text from position i on.
RestAt(i) == SubSeq(text, i, Len(text))

\* What is left of the text from a position on.
LEMMA RestBytes ==
  ASSUME text \in Seq(Byte), NEW i \in 1..Len(text)
  PROVE  /\ RestAt(i) \in Seq(Byte) /\ RestAt(i) # <<>> /\ Len(RestAt(i)) = Len(text) - i + 1
         /\ \A m \in 1..Len(text) - i + 1 : RestAt(i)[m] = text[i + m - 1]
<1>1. Len(text) \in Nat /\ Len(text) \in i - 1..Len(text)
  BY LenProperties, SMT
<1>2. /\ RestAt(i) \in Seq(Byte) /\ Len(RestAt(i)) = Len(text) - i + 1
      /\ \A m \in 1..Len(text) - i + 1 : RestAt(i)[m] = text[i + m - 1]
  BY <1>1, SubBytes, Zenon DEF RestAt
<1>3. Len(RestAt(i)) > 0
  BY <1>1, <1>2, SMT
<1>4. RestAt(i) # <<>>
  BY <1>3, SMT
<1> QED BY <1>2, <1>4

\* At every byte of every byte string the length test agrees with the definition of
\* UTF-8 (CommandDispatcher.cpp:123-172).
THEOREM LengthExact == EscapeSpec => []LengthIsUtf8
<1>1. EscapeInit => text \in Seq(Byte)
  BY TextAssumption DEF TextAssumption, EscapeInit
<1>2. text \in Seq(Byte) /\ [EscapeNext]_escaping => (text \in Seq(Byte))'
  BY DEF EscapeNext, escaping, EscapeShort, EscapeControl, CopySequence, EscapeStray,
         Finished, Write
<1>3. text \in Seq(Byte) => LengthIsUtf8
  <2> SUFFICES ASSUME text \in Seq(Byte), NEW i \in DOMAIN text
               PROVE  LET rest == RestAt(i)
                          n == ValidLength(rest)
                      IN  IF BeginsCharacter(rest) THEN n > 0 /\ IsCharacter(SubSeq(rest, 1, n))
                          ELSE n = 0
    BY DEF LengthIsUtf8, RestAt
  <2>1. i \in 1..Len(text)
    BY LenProperties
  <2>2. RestAt(i) \in Seq(Byte) /\ RestAt(i) # <<>>
    BY <2>1, RestBytes
  <2> DEFINE n == ValidLength(RestAt(i))
  <2>3. /\ n \in 0..4 
        /\ n > 0 => IsCharacter(SubSeq(RestAt(i), 1, n))
        /\ n = 0 => ~BeginsCharacter(RestAt(i))
    BY <2>2, LengthRight
  <2>4. n > 0 => BeginsCharacter(RestAt(i))
    <3>1. n > 0 => n \in 1..4 /\ n <= Len(RestAt(i))
      BY <2>2, <2>3, LengthRight, SMT
    <3> HIDE DEF n
    <3> QED BY <2>3, <3>1, Zenon DEF BeginsCharacter
  <2>5. n > 0 \/ n = 0
    BY <2>3, SMT
  <2> HIDE DEF n
  <2>6. IF BeginsCharacter(RestAt(i)) THEN n > 0 /\ IsCharacter(SubSeq(RestAt(i), 1, n))
        ELSE n = 0
    BY <2>3, <2>4, <2>5, Zenon
  <2> QED BY <2>6 DEF n
<1> QED BY <1>1, <1>2, <1>3, PTL DEF EscapeSpec

\* The tests, at a position of the text.
LEMMA CharacterAt ==
  ASSUME text \in Seq(Byte), NEW j \in 1..Len(text), NEW n \in 1..4, j + n - 1 <= Len(text)
  PROVE  IsCharacter(SubSeq(text, j, j + n - 1)) <=> Starts(n, RestAt(j))
<1>1. /\ Len(text) \in Nat /\ RestAt(j) \in Seq(Byte) /\ Len(RestAt(j)) = Len(text) - j + 1
      /\ \A m \in 1..Len(text) - j + 1 : RestAt(j)[m] = text[j + m - 1]
  BY RestBytes, LenProperties
<1>2. n <= Len(RestAt(j)) /\ j + n - 1 \in j - 1..Len(text) /\ n \in 0..Len(RestAt(j))
      /\ 1 \in 1..Len(RestAt(j)) /\ Len(RestAt(j)) \in Nat
  BY <1>1, SMT
<1>3. SubSeq(text, j, j + n - 1) = SubSeq(RestAt(j), 1, n)
  <2> DEFINE k == j + n - 1
             a == SubSeq(text, j, k)
             b == SubSeq(RestAt(j), 1, n)
  <2>1. k \in j - 1..Len(text) /\ k - j + 1 = n /\ n - 1 + 1 = n
    BY <1>1, <1>2, SMT
  <2> HIDE DEF k
  <2>2. /\ a \in Seq(Byte) /\ Len(a) = n
        /\ \A m \in 1..n : a[m] = text[j + m - 1]
    BY <2>1, SubBytes
  <2>3. /\ b \in Seq(Byte) /\ Len(b) = n
        /\ \A m \in 1..n : b[m] = RestAt(j)[1 + m - 1]
    BY <1>1, <1>2, <2>1, SubBytes
  <2> HIDE DEF a, b
  <2>4. \A m \in 1..n : 1 + m - 1 = m /\ m \in 1..Len(text) - j + 1
    BY <1>1, SMT
  <2>5. Len(a) = Len(b) /\ \A m \in 1..Len(a) : a[m] = b[m]
    BY <1>1, <2>2, <2>3, <2>4, Zenon
  <2>6. a = b
    BY <2>2, <2>3, <2>5, SeqEqual
  <2> QED BY <2>6 DEF a, b, k
<1> QED BY <1>1, <1>2, <1>3, FrontCharacter

\* The pieces written, with one more.
LEMMA AppendPiece ==
  ASSUME EscapeTypeOK, NEW piece \in Pieces, escaped' = Append(escaped, piece)
  PROVE  /\ escaped' \in Seq(Pieces) /\ Len(escaped) \in Nat /\ Len(escaped') = Len(escaped) + 1
         /\ escaped'[Len(escaped) + 1] = piece
         /\ \A i \in 1..Len(escaped) : escaped'[i] = escaped[i]
         /\ DOMAIN escaped = 1..Len(escaped) /\ DOMAIN escaped' = 1..Len(escaped) + 1
  BY AppendProperties, LenProperties DEF EscapeTypeOK

\* Nothing that has been read is part of a character that has not.
Boundary ==
  \A j \in 1..index - 1, n \in 1..4 :
    j + n - 1 <= Len(text) /\ IsCharacter(SubSeq(text, j, j + n - 1)) => j + n <= index

\* The state is well formed initially.
LEMMA EscapeTypeInit == EscapeInit => EscapeTypeOK
<1> SUFFICES ASSUME EscapeInit PROVE EscapeTypeOK
  OBVIOUS
<1>1. text \in Seq(Byte) /\ index = 1 /\ escaped = <<>>
  BY TextAssumption DEF TextAssumption, EscapeInit
<1>2. Len(text) \in Nat
  BY <1>1, LenProperties
<1>3. index \in 1..Len(text) + 1
  BY <1>1, <1>2, SMT
<1>4. escaped \in Seq(Pieces)
  BY <1>1
<1> QED BY <1>1, <1>3, <1>4 DEF EscapeTypeOK

\* append_unicode_escape writes the byte it is given.
LEMMA HexDigits ==
  ASSUME NEW b \in Byte
  PROVE  /\ UnicodeEscape(b) \in Pieces /\ UnicodeEscape(b).form = "unicode"
         /\ CodeOf(UnicodeEscape(b)) = b
<1>1. b \in 0..255
  BY DEF Byte
<1>2. (b \div 16) % 16 \in 0..15 /\ b % 16 \in 0..15 /\ 16 * ((b \div 16) % 16) + (b % 16) = b
  <2>1. b \div 16 \in 0..15 /\ b % 16 \in 0..15 /\ 16 * (b \div 16) + (b % 16) = b
    BY <1>1, SMT
  <2>2. (b \div 16) % 16 = b \div 16
    BY <2>1, SMT
  <2> QED BY <2>1, <2>2
<1> DEFINE h == (b \div 16) % 16
           l == b % 16
<1>3. UnicodeEscape(b) = [form |-> "unicode", high |-> h, low |-> l]
  BY DEF UnicodeEscape, Unicode
<1> HIDE DEF h, l
<1>4. h \in Digit /\ l \in Digit
  BY <1>2 DEF h, l, Digit
<1>5. CodeOf(UnicodeEscape(b)) = 16 * h + l
  BY <1>3, SMT DEF CodeOf
<1>6. UnicodeEscape(b) \in Pieces
  <2>1. UnicodeEscape(b) \in [form : {"unicode"}, high : Digit, low : Digit]
    BY <1>3, <1>4, SMT
  <2> QED BY <2>1 DEF Pieces
<1>7. UnicodeEscape(b).form = "unicode"
  BY <1>3, SMT
<1>8. 16 * h + l = b
  BY <1>2 DEF h, l
<1> QED BY <1>5, <1>6, <1>7, <1>8

\* The letter after the backslash stands for the byte it escapes.
LEMMA ShortLetters ==
  ASSUME NEW b \in ShortBytes
  PROVE  /\ Short(ShortLetter(b)) \in Pieces /\ Short(ShortLetter(b)).form = "short"
         /\ CodeOf(Short(ShortLetter(b))) = b /\ b \in Byte /\ b < 128
<1>1. \/ b = 8 \/ b = 9 \/ b = 10 \/ b = 12 \/ b = 13 \/ b = 34 \/ b = 92
  BY DEF ShortBytes
<1>2. b \in Byte /\ b < 128
  BY <1>1, SMT DEF Byte
<1> DEFINE l == ShortLetter(b)
<1>3. /\ ShortLetter(92) = "\\" /\ ShortLetter(34) = "\"" /\ ShortLetter(8) = "b"
      /\ ShortLetter(12) = "f" /\ ShortLetter(10) = "n" /\ ShortLetter(13) = "r"
      /\ ShortLetter(9) = "t"
  BY SMT DEF ShortLetter
<1>4. /\ CodeOf(Short("\\")) = 92 /\ CodeOf(Short("\"")) = 34 /\ CodeOf(Short("b")) = 8
      /\ CodeOf(Short("f")) = 12 /\ CodeOf(Short("n")) = 10 /\ CodeOf(Short("r")) = 13
      /\ CodeOf(Short("t")) = 9
  BY SMT DEF CodeOf, Short
<1>5. l \in Letters /\ CodeOf(Short(l)) = b
  <2>1. CASE b = 92
    BY <2>1, <1>3, <1>4 DEF Letters
  <2>2. CASE b = 34
    BY <2>2, <1>3, <1>4 DEF Letters
  <2>3. CASE b = 8
    BY <2>3, <1>3, <1>4 DEF Letters
  <2>4. CASE b = 12
    BY <2>4, <1>3, <1>4 DEF Letters
  <2>5. CASE b = 10
    BY <2>5, <1>3, <1>4 DEF Letters
  <2>6. CASE b = 13
    BY <2>6, <1>3, <1>4 DEF Letters
  <2>7. CASE b = 9
    BY <2>7, <1>3, <1>4 DEF Letters
  <2> QED BY <1>1, <2>1, <2>2, <2>3, <2>4, <2>5, <2>6, <2>7
<1> HIDE DEF l
<1>6. Short(l) = [form |-> "short", letter |-> l]
  BY DEF Short
<1>7. Short(l).form = "short"
  BY <1>6
<1>8. Short(l) \in [form : {"short"}, letter : Letters]
  BY <1>5, <1>6, SMT
<1>9. Short(l) \in Pieces
  BY <1>8 DEF Pieces
<1> QED BY <1>2, <1>5, <1>7, <1>9 DEF l

\* One byte of the text.
LEMMA ByteAt ==
  ASSUME text \in Seq(Byte), NEW i \in 1..Len(text)
  PROVE  text[i] \in Byte /\ SubSeq(text, i, i + 1 - 1) = <<text[i]>>
<1>1. Len(text) \in Nat /\ text[i] \in Byte
  BY LenProperties, ElementOfSeq
<1>2. i + 1 - 1 = i /\ i \in i - 1..Len(text) /\ i - i + 1 = 1 /\ i + 1 - 1 = i
  BY <1>1, SMT
<1> DEFINE s == SubSeq(text, i, i)
<1>3. s \in Seq(Byte) /\ Len(s) = 1 /\ s[1] = text[i]
  BY <1>2, SubBytes, SMT
<1> HIDE DEF s
<1>4. s = <<text[i]>>
  BY <1>3, SMT
<1> QED BY <1>1, <1>2, <1>4 DEF s

\* An ASCII byte is a character and stands for itself.
LEMMA DecodeOne ==
  ASSUME NEW b \in Byte PROVE Decode(<<b>>) = b /\ (b < 128 => IsCharacter(<<b>>))
<1>1. Decode(<<b>>) = b
  BY SMT DEF Decode
<1> QED BY <1>1, IsCharacter1

\* A character of several bytes is no ASCII character.
LEMMA LongNotAscii ==
  ASSUME NEW s \in Seq(Byte), Len(s) \in 2..4, IsCharacter(s)
  PROVE  Decode(s) \in Nat /\ Decode(s) >= 128
<1> DEFINE c == Decode(s)
<1>1. \A m \in 1..Len(s) : s[m] \in Int
  BY BytesAreNumbers
<1>2. c \in Int
  <2>1. CASE Len(s) = 2
    BY <1>1, <2>1, Decode2, SMT
  <2>2. CASE Len(s) = 3
    BY <1>1, <2>2, Decode3, SMT
  <2>3. CASE Len(s) = 4
    <3>1. s[1] \in Int /\ s[2] \in Int /\ s[3] \in Int /\ s[4] \in Int
      BY <1>1, <2>3, SMT
    <3>2. \A w, x, y, z \in Int :
            (w - 240) * 262144 + (x - 128) * 4096 + (y - 128) * 64 + (z - 128) \in Int
      BY SMT
    <3>3. c = (s[1] - 240) * 262144 + (s[2] - 128) * 4096 + (s[3] - 128) * 64 + (s[4] - 128)
      BY <2>3, Decode4
    <3> HIDE DEF c
    <3> QED BY <3>1, <3>2, <3>3
  <2> QED BY <2>1, <2>2, <2>3, SMT
<1>3. Encode(c) = s /\ c >= 0
  BY DEF IsCharacter, IsScalar
<1> HIDE DEF c
<1>4. c \in Nat
  BY <1>2, <1>3, SMT
<1>5. ~(c < 128)
  BY <1>3, <1>4, EncodedLength, SMT
<1> QED BY <1>2, <1>4, <1>5, SMT DEF c

\* A turn of the loop: a piece is written for the n bytes at index, a character or one
\* byte at which none begins.
Turned(piece, n) ==
  /\ index \in 1..Len(text) /\ index + n - 1 <= Len(text)
  /\ escaped' = Append(escaped, piece) /\ index' = index + n /\ text' = text
  /\ LET bytes == SubSeq(text, index, index + n - 1)
     IN  \/ IsCharacter(bytes) /\ CodeOf(piece) = Decode(bytes)
         \/ n = 1 /\ ~BeginsCharacter(RestAt(index)) /\ CodeOf(piece) = text[index]
  /\ piece.form = "raw" =>
       IsCharacter(piece.bytes) /\ CodeOf(piece) >= 32 /\ CodeOf(piece) \notin {34, 92}

\* Every turn of the loop that changes anything reads a character or a stray byte.
LEMMA OneTurn ==
  ASSUME EscapeTypeOK, EscapeNext
  PROVE  UNCHANGED escaping \/ \E piece \in Pieces, n \in 1..4 : Turned(piece, n)
<1> USE DEF EscapeTypeOK
<1>0. Len(text) \in Nat
  BY LenProperties
<1> DEFINE b == text[index]
<1>1. ASSUME More
      PROVE  /\ index \in 1..Len(text) /\ index + 1 - 1 <= Len(text)
             /\ b \in Byte /\ SubSeq(text, index, index + 1 - 1) = <<b>>
             /\ Decode(<<b>>) = b /\ (b < 128 => IsCharacter(<<b>>))
             /\ Rest = RestAt(index) /\ Rest \in Seq(Byte) /\ Rest # <<>>
             /\ Len(Rest) = Len(text) - index + 1
  <2>1. index \in 1..Len(text) /\ index + 1 - 1 <= Len(text)
    BY <1>0, <1>1, SMT DEF More
  <2>2. b \in Byte /\ SubSeq(text, index, index + 1 - 1) = <<b>>
    BY <2>1, ByteAt
  <2>3. Rest = RestAt(index)
    BY DEF Rest, RestAt
  <2> QED BY <2>1, <2>2, <2>3, RestBytes, DecodeOne
<1> HIDE DEF b
<1>2. CASE EscapeShort
  <2> DEFINE piece == Short(ShortLetter(b))
  <2>1. More /\ b \in ShortBytes /\ Write(piece, 1)
    BY <1>2 DEF EscapeShort, Current, b
  <2>2. piece \in Pieces /\ piece.form = "short" /\ CodeOf(piece) = b /\ b < 128
    BY <2>1, ShortLetters
  <2>3. Turned(piece, 1)
    BY <1>1, <2>1, <2>2 DEF Turned, Write
  <2>4. 1 \in 1..4
    BY SMT
  <2> HIDE DEF piece
  <2> QED BY <2>2, <2>3, <2>4
<1>3. CASE EscapeControl
  <2> DEFINE piece == UnicodeEscape(b)
  <2>1. More /\ b < 32 /\ Write(piece, 1)
    BY <1>3 DEF EscapeControl, Current, b
  <2>2. b \in Byte /\ b < 128
    <3>1. b \in 0..255
      BY <1>1, <2>1 DEF Byte
    <3> QED BY <2>1, <3>1, SMT DEF Byte
  <2>3. piece \in Pieces /\ piece.form = "unicode" /\ CodeOf(piece) = b
    BY <2>2, HexDigits
  <2>4. Turned(piece, 1)
    BY <1>1, <2>1, <2>2, <2>3 DEF Turned, Write
  <2>5. 1 \in 1..4
    BY SMT
  <2> HIDE DEF piece
  <2> QED BY <2>3, <2>4, <2>5
<1>4. CASE CopySequence
  <2> DEFINE n == ValidLength(Rest)
             s == SubSeq(text, index, index + n - 1)
             piece == Raw(s)
  <2>1. More /\ b >= 32 /\ b \notin ShortBytes /\ n > 0 /\ Write(piece, n)
    BY <1>4 DEF CopySequence, Copied, Current, Sequence, b
  <2>2. /\ n \in 1..4 /\ n <= Len(Rest) /\ IsCharacter(SubSeq(Rest, 1, n))
    <3>1. n \in 0..4
      BY <1>1, <2>1, LengthRight
    <3>2. n \in 1..4
      BY <2>1, <3>1, SMT
    <3> QED BY <1>1, <2>1, <3>2, LengthRight
  <2>3. index + n - 1 <= Len(text) /\ index + n - 1 \in index - 1..Len(text)
        /\ index + n - 1 - index + 1 = n
    <3> HIDE DEF n
    <3> QED BY <1>0, <1>1, <2>1, <2>2, SMT
  <2>4. IsCharacter(s)
    <3>1. Starts(n, RestAt(index))
      BY <1>1, <2>1, <2>2, FrontCharacter
    <3> HIDE DEF n
    <3> QED BY <1>1, <2>1, <2>2, <2>3, <3>1, CharacterAt
  <2>5. s \in Seq(Byte) /\ Len(s) = n
    <3> DEFINE k == index + n - 1
    <3> HIDE DEF n
    <3>1. k \in index - 1..Len(text) /\ k - index + 1 = n
      BY <1>0, <1>1, <2>1, <2>2, <2>3, SMT
    <3> HIDE DEF k
    <3>2. SubSeq(text, index, k) \in Seq(Byte) /\ Len(SubSeq(text, index, k)) = k - index + 1
      BY <1>1, <2>1, <3>1, SubBytes
    <3> QED BY <3>1, <3>2 DEF k
  <2> HIDE DEF n, s
  <2>6. piece.form = "raw" /\ piece.bytes = s /\ CodeOf(piece) = Decode(s)
    BY DEF Raw, CodeOf
  <2>7. piece \in Pieces
    <3>1. Len(s) > 0
      BY <2>2, <2>5, SMT
    <3>2. s # <<>>
      BY <3>1, SMT
    <3>3. piece \in [form : {"raw"}, bytes : Seq(Byte) \ {<<>>}]
      BY <2>5, <3>2 DEF Raw
    <3> QED BY <3>3 DEF Pieces
  <2>8. Decode(s) >= 32 /\ Decode(s) \notin {34, 92}
    <3>1. CASE n = 1
      <4>1. s = <<b>> /\ Decode(s) = b
        BY <1>1, <2>1, <3>1 DEF s
      <4> QED BY <2>1, <4>1 DEF ShortBytes
    <3>2. CASE n # 1
      <4>1. Len(s) \in 2..4
        BY <2>2, <2>5, <3>2, SMT
      <4>2. Decode(s) \in Nat /\ Decode(s) >= 128
        BY <2>4, <2>5, <4>1, LongNotAscii
      <4> QED BY <4>2, SMT
    <3> QED BY <3>1, <3>2
  <2> HIDE DEF piece
  <2>9. Turned(piece, n)
    BY <1>1, <2>1, <2>3, <2>4, <2>6, <2>8 DEF Turned, Write, s
  <2> QED BY <2>2, <2>7, <2>9
<1>5. CASE EscapeStray
  <2> DEFINE piece == UnicodeEscape(b)
  <2>1. More /\ ValidLength(Rest) = 0 /\ Write(piece, 1)
    BY <1>5 DEF EscapeStray, Current, b
  <2>2. ~BeginsCharacter(RestAt(index))
    BY <1>1, <2>1, LengthRight
  <2>3. piece \in Pieces /\ piece.form = "unicode" /\ CodeOf(piece) = b
    BY <1>1, <2>1, HexDigits
  <2>4. Turned(piece, 1)
    BY <1>1, <2>1, <2>2, <2>3 DEF Turned, Write, b
  <2>5. 1 \in 1..4
    BY SMT
  <2> HIDE DEF piece
  <2> QED BY <2>3, <2>4, <2>5
<1> QED BY <1>2, <1>3, <1>4, <1>5 DEF EscapeNext, Finished

\* The state stays well formed: the index never passes the end of the text.
LEMMA EscapeTypeStep == EscapeTypeOK /\ [EscapeNext]_escaping => EscapeTypeOK'
<1> SUFFICES ASSUME EscapeTypeOK, [EscapeNext]_escaping PROVE EscapeTypeOK'
  OBVIOUS
<1>1. CASE UNCHANGED escaping
  BY <1>1 DEF EscapeTypeOK, escaping
<1>2. ASSUME NEW piece \in Pieces, NEW n \in 1..4, Turned(piece, n) PROVE EscapeTypeOK'
  <2>1. escaped' \in Seq(Pieces)
    BY <1>2, AppendPiece DEF Turned
  <2>2. text' \in Seq(Byte) /\ text' = text
    BY <1>2 DEF Turned, EscapeTypeOK
  <2>3. /\ Len(text) \in Nat /\ index \in 1..Len(text)
        /\ index + n - 1 <= Len(text) /\ index' = index + n
    BY <1>2, LenProperties DEF Turned, EscapeTypeOK
  <2>4. index' \in 1..Len(text') + 1
    BY <2>2, <2>3, SMT
  <2> QED BY <2>1, <2>2, <2>4 DEF EscapeTypeOK
<1> QED BY <1>1, <1>2, OneTurn

\* Whatever bytes a command prints, all that is written is pieces of a JSON string: what
\* is copied raw is whole characters that need no escape (CommandDispatcher.cpp:174-235).
THEOREM DocumentIsJson == EscapeSpec => []OutputIsJson
<1>1. EscapeInit => OutputIsJson
  BY SMT DEF EscapeInit, OutputIsJson
<1>2. EscapeTypeOK /\ OutputIsJson /\ [EscapeNext]_escaping => OutputIsJson'
  <2> SUFFICES ASSUME EscapeTypeOK, OutputIsJson, [EscapeNext]_escaping PROVE OutputIsJson'
    OBVIOUS
  <2>1. CASE UNCHANGED escaping
    BY <2>1 DEF OutputIsJson, escaping
  <2>2. ASSUME NEW piece \in Pieces, NEW n \in 1..4, Turned(piece, n) PROVE OutputIsJson'
    <3> DEFINE Fine(p) == /\ IsPiece(p)
                          /\ p.form = "raw" => /\ IsCharacter(p.bytes)
                                               /\ CodeOf(p) >= 32 /\ CodeOf(p) \notin {34, 92}
    <3>1. Fine(piece)
      <4>1. IsPiece(piece)
        BY SMT DEF Pieces, IsPiece
      <4> QED BY <2>2, <4>1 DEF Turned
    <3>2. /\ Len(escaped) \in Nat /\ escaped'[Len(escaped) + 1] = piece
          /\ \A i \in 1..Len(escaped) : escaped'[i] = escaped[i]
          /\ DOMAIN escaped = 1..Len(escaped) /\ DOMAIN escaped' = 1..Len(escaped) + 1
      BY <2>2, AppendPiece DEF Turned
    <3>3. \A i \in DOMAIN escaped : Fine(escaped[i])
      BY DEF OutputIsJson
    <3> HIDE DEF Fine
    <3>4. \A i \in 1..Len(escaped) + 1 : i \in 1..Len(escaped) \/ i = Len(escaped) + 1
      BY <3>2, SMT
    <3>5. \A i \in DOMAIN escaped' : Fine(escaped'[i])
      BY <3>1, <3>2, <3>3, <3>4, Zenon
    <3> QED BY <3>5 DEF OutputIsJson, Fine
  <2> QED BY <2>1, <2>2, OneTurn
<1> QED BY <1>1, <1>2, EscapeTypeInit, EscapeTypeStep, PTL DEF EscapeSpec

\* No later byte of a character has the value of a first byte.
LEMMA LaterByte ==
  ASSUME NEW s, NEW n \in 1..4, \A i \in 1..n : s[i] \in Int /\ 0 <= s[i], Starts(n, s),
         NEW k \in 2..n
  PROVE  128 <= s[k] /\ s[k] < 192
  BY FirstByte, SMT

\* The value of a first byte.
LEMMA FirstValue ==
  ASSUME NEW s, NEW n \in 1..4, \A i \in 1..n : s[i] \in Int /\ 0 <= s[i], Starts(n, s)
  PROVE  s[1] \in Int /\ (s[1] < 128 \/ 194 <= s[1])
  BY FirstByte, SMT

\* Bytes that a character is made of begin no other.
LEMMA NoOverlap ==
  ASSUME text \in Seq(Byte), NEW i \in 1..Len(text), NEW n \in 1..4, i + n - 1 <= Len(text),
         Starts(n, RestAt(i)), NEW j \in i..i + n - 1, NEW m \in 1..4, j + m - 1 <= Len(text),
         Starts(m, RestAt(j))
  PROVE  j = i /\ m = n
<1>1. /\ Len(text) \in Nat /\ j \in 1..Len(text)
      /\ \A k \in 1..Len(text) : text[k] \in Int /\ 0 <= text[k]
  BY BytesAreNumbers, SMT
<1>2. PICK s : s = RestAt(i)
  OBVIOUS
<1>3. PICK t : t = RestAt(j)
  OBVIOUS
<1>4. Starts(n, s) /\ \A k \in 1..n : s[k] = text[i + k - 1] /\ s[k] \in Int /\ 0 <= s[k]
  <2>1. \A k \in 1..n : k \in 1..Len(text) - i + 1 /\ i + k - 1 \in 1..Len(text)
    BY <1>1, SMT
  <2> QED BY <1>1, <1>2, <2>1, RestBytes, Zenon
<1>5. Starts(m, t) /\ \A k \in 1..m : t[k] = text[j + k - 1] /\ t[k] \in Int /\ 0 <= t[k]
  <2>1. \A k \in 1..m : k \in 1..Len(text) - j + 1 /\ j + k - 1 \in 1..Len(text)
    BY <1>1, SMT
  <2> QED BY <1>1, <1>3, <2>1, RestBytes, Zenon
<1>6. CASE j = i
  BY <1>2, <1>3, <1>4, <1>5, <1>6, OneLength
<1>7. CASE j # i
  <2> DEFINE k == j - i + 1
  <2>1. k \in 2..n /\ k \in 1..n /\ i + k - 1 = j /\ 1 \in 1..m /\ j + 1 - 1 = j
    BY <1>1, <1>7, SMT
  <2> HIDE DEF k
  <2>2. 128 <= s[k] /\ s[k] < 192
    <3>1. \A q \in 1..n : s[q] \in Int /\ 0 <= s[q]
      BY <1>4
    <3> QED BY <1>4, <2>1, <3>1, LaterByte, Zenon
  <2>3. t[1] < 128 \/ 194 <= t[1]
    <3>1. \A q \in 1..m : t[q] \in Int /\ 0 <= t[q]
      BY <1>5
    <3> QED BY <1>5, <3>1, FirstValue, Zenon
  <2>4. s[k] = text[j] /\ t[1] = text[j] /\ text[j] \in Int
    BY <1>1, <1>4, <1>5, <2>1
  <2> QED BY <2>2, <2>3, <2>4, SMT
<1> QED BY <1>6, <1>7

\* What begins at a position is a character of one of the four lengths.
\* Where no character begins no test holds.
LEMMA BeginsAt ==
  ASSUME text \in Seq(Byte), NEW i \in 1..Len(text), NEW n \in 1..4, i + n - 1 <= Len(text),
         ~BeginsCharacter(RestAt(i))
  PROVE  ~Starts(n, RestAt(i))
<1>1. RestAt(i) \in Seq(Byte) /\ Len(RestAt(i)) = Len(text) - i + 1 /\ Len(text) \in Nat
  BY RestBytes, LenProperties
<1>2. n <= Len(RestAt(i))
  BY <1>1, SMT
<1> QED BY <1>1, <1>2, FrontCharacter DEF BeginsCharacter

\* A turn leaves no character half read.
LEMMA BoundaryStep ==
  ASSUME EscapeTypeOK, Boundary, NEW piece \in Pieces, NEW n \in 1..4, Turned(piece, n)
  PROVE  Boundary'
<1>1. /\ text \in Seq(Byte) /\ Len(text) \in Nat /\ index \in 1..Len(text)
      /\ index + n - 1 <= Len(text) /\ index' = index + n /\ text' = text
  BY LenProperties DEF Turned, EscapeTypeOK
<1> SUFFICES ASSUME NEW j \in 1..index' - 1, NEW m \in 1..4, j + m - 1 <= Len(text'),
                    IsCharacter(SubSeq(text', j, j + m - 1))
             PROVE  j + m <= index'
  BY DEF Boundary
<1>2. j \in 1..Len(text) /\ j + m - 1 <= Len(text) /\ IsCharacter(SubSeq(text, j, j + m - 1))
  BY <1>1, SMT
<1>3. Starts(m, RestAt(j))
  BY <1>1, <1>2, CharacterAt
<1>4. CASE j < index
  <2>1. j \in 1..index - 1
    BY <1>1, <1>4, SMT
  <2>2. j + m <= index
    BY <1>2, <2>1 DEF Boundary
  <2> QED BY <1>1, <1>2, <2>2, SMT
<1>5. CASE index <= j
  <2>1. j \in index..index + n - 1
    BY <1>1, <1>5, SMT
  <2>2. CASE Starts(n, RestAt(index))
    <3>1. j = index /\ m = n
      BY <1>1, <1>2, <1>3, <2>1, <2>2, NoOverlap
    <3> QED BY <1>1, <3>1, SMT
  <2>3. CASE ~Starts(n, RestAt(index))
    <3>1. n = 1 /\ ~BeginsCharacter(RestAt(index))
      BY <1>1, <2>3, CharacterAt DEF Turned
    <3>2. j = index
      BY <1>1, <2>1, <3>1, SMT
    <3>3. ~Starts(m, RestAt(index))
      BY <1>1, <1>2, <3>1, <3>2, BeginsAt
    <3> QED BY <1>3, <3>2, <3>3
  <2> QED BY <2>2, <2>3
<1> QED BY <1>1, <1>2, <1>4, <1>5, SMT

\* A byte at which no character begins belongs to none that began before it.
LEMMA StrayAt ==
  ASSUME EscapeTypeOK, Boundary, index \in 1..Len(text), ~BeginsCharacter(RestAt(index))
  PROVE  IsStray(index)
<1>1. text \in Seq(Byte) /\ Len(text) \in Nat
  BY LenProperties DEF EscapeTypeOK
<1> SUFFICES ASSUME NEW j \in 1..index, NEW n \in 1..4, j + n > index, j + n - 1 <= Len(text),
                    IsCharacter(SubSeq(text, j, j + n - 1))
             PROVE  FALSE
  BY DEF IsStray
<1>2. CASE j = index
  <2>1. Starts(n, RestAt(index))
    BY <1>1, <1>2, CharacterAt
  <2> QED BY <1>1, <1>2, <2>1, BeginsAt
<1>3. CASE j # index
  <2>1. j \in 1..index - 1
    BY <1>1, <1>3, SMT
  <2>2. j + n <= index
    BY <2>1 DEF Boundary
  <2> QED BY <1>1, <2>2, SMT
<1> QED BY <1>2, <1>3

\* The piece of a turn stands for the bytes the turn reads.
LEMMA ReadsStep ==
  ASSUME EscapeTypeOK, Boundary, NEW piece \in Pieces, NEW n \in 1..4, Turned(piece, n)
  PROVE  Reads(piece, index, index + n)
<1>1. index \in Nat /\ n \in 1..4 /\ index \in 1..Len(text)
  BY LenProperties, SMT DEF Turned, EscapeTypeOK
<1> DEFINE to == index + n
           bytes == SubSeq(text, index, to - 1)
<1>2. bytes = SubSeq(text, index, index + n - 1) /\ to - index = n
  <2>1. to - 1 = index + n - 1 /\ to - index = n
    BY <1>1, SMT
  <2> HIDE DEF to
  <2> QED BY <2>1
<1> HIDE DEF bytes, to
<1>3. \/ IsCharacter(bytes) /\ CodeOf(piece) = Decode(bytes)
      \/ n = 1 /\ IsStray(index) /\ CodeOf(piece) = text[index]
  BY <1>1, <1>2, StrayAt DEF Turned
<1>4. to - index \in 1..4
  BY <1>2
<1>5. Reads(piece, index, to)
  BY <1>2, <1>3, <1>4 DEF Reads, bytes
<1> QED BY <1>5 DEF to

\* The pieces stand for all that has been read.
LEMMA ReadsBackStep ==
  ASSUME EscapeTypeOK, Boundary, ReadsBack, NEW piece \in Pieces, NEW n \in 1..4, Turned(piece, n)
  PROVE  ReadsBack'
<1> DEFINE L == Len(escaped)
<1>1. PICK at \in [0..L -> 1..Len(text) + 1] :
         /\ at[0] = 1 /\ at[L] = index
         /\ \A i \in DOMAIN escaped : Reads(escaped[i], at[i - 1], at[i])
  BY DEF ReadsBack
<1>2. /\ L \in Nat /\ Len(escaped') = L + 1 /\ escaped'[L + 1] = piece
      /\ \A i \in 1..L : escaped'[i] = escaped[i]
      /\ DOMAIN escaped = 1..L /\ DOMAIN escaped' = 1..L + 1
  BY AppendPiece DEF Turned
<1>3. /\ text' = text /\ index' = index + n /\ index' \in 1..Len(text) + 1
      /\ Reads(piece, index, index')
  <2>1. text' = text /\ index' = index + n /\ Reads(piece, index, index')
    BY ReadsStep DEF Turned
  <2>2. Len(text) \in Nat /\ index \in 1..Len(text) /\ index + n - 1 <= Len(text)
    BY LenProperties DEF Turned, EscapeTypeOK
  <2>3. index' \in 1..Len(text) + 1
    BY <2>1, <2>2, SMT
  <2> QED BY <2>1, <2>3
<1> HIDE DEF L
<1>4. PICK next \in [0..L + 1 -> 1..Len(text) + 1] :
        next[0] = 1 /\ next[L + 1] = index' /\ \A i \in 0..L : next[i] = at[i]
  <2> DEFINE f == [i \in 0..L + 1 |-> IF i <= L THEN at[i] ELSE index']
  <2>1. \A i \in 0..L + 1 : i <= L => i \in 0..L
    BY <1>2, SMT
  <2>2. f \in [0..L + 1 -> 1..Len(text) + 1]
    BY <1>1, <1>3, <2>1, Zenon
  <2>3. 0 \in 0..L /\ L + 1 \in 0..L + 1 /\ ~(L + 1 <= L)
        /\ \A i \in 0..L : i \in 0..L + 1 /\ i <= L
    BY <1>2, SMT
  <2>4. f[0] = 1 /\ f[L + 1] = index' /\ \A i \in 0..L : f[i] = at[i]
    BY <1>1, <2>3, Zenon
  <2> HIDE DEF f
  <2> QED BY <2>2, <2>4
<1>5. ASSUME NEW i \in 1..L + 1 PROVE Reads(escaped'[i], next[i - 1], next[i])
  <2>1. CASE i \in 1..L
    <3>1. i - 1 \in 0..L /\ i \in 0..L
      BY <1>2, <2>1, SMT
    <3> QED BY <1>1, <1>2, <1>4, <2>1, <3>1
  <2>2. CASE i \notin 1..L
    <3>1. i = L + 1 /\ i - 1 = L /\ L \in 0..L
      BY <1>2, <2>2, SMT
    <3> QED BY <1>1, <1>2, <1>3, <1>4, <3>1
  <2> QED BY <2>1, <2>2
<1>6. ASSUME NEW i \in 1..L + 1 PROVE Reads(escaped[i], next[i - 1], next[i])'
  BY <1>3, <1>5 DEF Reads, IsStray
<1>7. next \in [0..Len(escaped') -> 1..Len(text') + 1]
  BY <1>2, <1>3
<1> QED BY <1>2, <1>4, <1>6, <1>7 DEF ReadsBack

\* Whatever bytes a command prints, a JSON parser reads every character of it back, and a
\* stray byte as the character of its number, in order and without a gap
\* (CommandDispatcher.cpp:174-235).
THEOREM OutputReadsBack == EscapeSpec => []ReadsBack
<1>1. EscapeInit => Boundary /\ ReadsBack
  <2> SUFFICES ASSUME EscapeInit PROVE Boundary /\ ReadsBack
    OBVIOUS
  <2>1. index = 1 /\ escaped = <<>> /\ Len(text) \in Nat
    BY TextAssumption, LenProperties DEF TextAssumption, EscapeInit
  <2>2. Boundary
    BY <2>1, SMT DEF Boundary
  <2>3. ReadsBack
    <3> DEFINE at == [i \in 0..0 |-> 1]
    <3>1. Len(escaped) = 0 /\ DOMAIN escaped = {}
      BY <2>1
    <3>2. at \in [0..0 -> 1..Len(text) + 1] /\ at[0] = 1
      BY <2>1, SMT
    <3> HIDE DEF at
    <3> QED BY <2>1, <3>1, <3>2 DEF ReadsBack
  <2> QED BY <2>2, <2>3
<1>2. EscapeTypeOK /\ Boundary /\ ReadsBack /\ [EscapeNext]_escaping => Boundary' /\ ReadsBack'
  <2> SUFFICES ASSUME EscapeTypeOK, Boundary, ReadsBack, [EscapeNext]_escaping
               PROVE Boundary' /\ ReadsBack'
    OBVIOUS
  <2>1. CASE UNCHANGED escaping
    BY <2>1 DEF Boundary, ReadsBack, Reads, IsStray, escaping
  <2>2. ASSUME NEW piece \in Pieces, NEW n \in 1..4, Turned(piece, n)
        PROVE  Boundary' /\ ReadsBack'
    BY <2>2, BoundaryStep, ReadsBackStep
  <2> QED BY <2>1, <2>2, OneTurn
<1> QED BY <1>1, <1>2, EscapeTypeInit, EscapeTypeStep, PTL DEF EscapeSpec
=============================================================================
