------------------------ MODULE InteractiveShellProofs ------------------------
(***************************************************************************)
(* Proofs about InteractiveShell: for every buffer and window size, every  *)
(* amount of input and output and every way the connection may fail.       *)
(***************************************************************************)
EXTENDS InteractiveShell, TLAPS

SettingUp == {"newChannel", "openSession", "requestPty", "requestShell", "setRaw"}

PCs == SettingUp \cup Looping \cup {"restore", "returned", "threw"}

TypeOK ==
  /\ pc \in PCs
  /\ running \in BOOLEAN
  /\ stdin \in {"open", "eof", "hungup"}
  /\ typed \in Nat /\ consumed \in 0..typed
  /\ pending \in 0..ReadSize
  /\ forwarded \in Nat /\ received \in 0..forwarded
  /\ printed \in [Streams -> Nat]
  /\ sent \in [Streams -> Nat]
  /\ shown \in [Streams -> Nat]
  /\ credit \in 0..OutWindow
  /\ eof \in BOOLEAN /\ closed \in BOOLEAN
  /\ link \in {"up"} \cup LinkFaults

\* The channel and the terminal at each point of the function.
Setup ==
  /\ pc = "newChannel" => channel = "none" /\ terminal = "cooked"
  /\ pc = "openSession" => channel = "allocated" /\ terminal = "cooked"
  /\ pc \in {"requestPty", "requestShell", "setRaw"} => channel = "open" /\ terminal = "cooked"
  /\ pc = "restore" => channel = "open" /\ terminal = "raw"

\* libssh holds unsent bytes only inside ssh_channel_write.
WritesFinish == pc \notin {"write", "sending"} => pending = 0

\* The loop reads only what poll announced, so that a read of nothing is the end
\* of standard input, and only that clears the flag while the loop goes on.
LeavesForAReason ==
  /\ pc = "read" => typed > consumed \/ stdin = "eof"
  /\ running \/ stdin = "eof" \/ pc \in {"restore", "returned"}

IInv ==
  /\ TypeOK /\ Setup /\ WritesFinish /\ LeavesForAReason
  /\ TerminalRestored /\ LastWordsShown /\ InputNotLost

-----------------------------------------------------------------------------

\* What the two calls take at most: never more than either bound.
LEMMA LeastBound ==
  ASSUME NEW a \in Nat, NEW b \in Nat
  PROVE  /\ Least(a, b) \in Nat /\ Least(a, b) <= a /\ Least(a, b) <= b
         /\ Least(a, b) = 0 => a = 0 \/ b = 0
  BY DEF Least

\* The invariant holds at first.
LEMMA InitIInv == Init => IInv
<1> SUFFICES ASSUME Init PROVE IInv
  OBVIOUS
<1>1. Zero \in [Streams -> Nat]
  BY DEF Zero
<1>2. TypeOK
  <2>1. credit \in 0..OutWindow
    BY ShellAssumption DEF ShellAssumption, Init
  <2>2. pending \in 0..ReadSize
    BY ShellAssumption DEF ShellAssumption, Init
  <2>3. typed \in Nat /\ consumed \in 0..typed /\ forwarded \in Nat /\ received \in 0..forwarded
    BY DEF Init
  <2>4. pc \in PCs /\ stdin \in {"open", "eof", "hungup"} /\ link \in {"up"} \cup LinkFaults
    BY DEF Init, PCs, SettingUp
  <2> QED
    BY <1>1, <2>1, <2>2, <2>3, <2>4 DEF Init, TypeOK
<1> QED
  BY <1>2
  DEF Init, IInv, Setup, WritesFinish, LeavesForAReason, TerminalRestored, LastWordsShown,
      InputNotLost, Looping, Done

\* Every step of the shell keeps the types.
LEMMA TypeStep == TypeOK /\ [Next]_vars => TypeOK'
<1> SUFFICES ASSUME TypeOK, [Next]_vars PROVE TypeOK'
  OBVIOUS
<1> USE ShellAssumption
    DEF ShellAssumption, TypeOK, PCs, SettingUp, Looping, Goto, loop, input, remote
<1>1. CASE ReadStdin
  <2> DEFINE n == Least(ReadSize, typed - consumed)
  <2>1. n \in Nat /\ n <= ReadSize /\ n <= typed - consumed
    BY LeastBound
  <2>2. consumed' = consumed + n /\ pending' = n /\ running' \in BOOLEAN /\ pc' \in PCs
    BY <1>1 DEF ReadStdin, GoesOn
  <2> HIDE DEF n
  <2> QED
    BY <1>1, <2>1, <2>2 DEF ReadStdin
<1>2. CASE WriteSome
  <2>1. PICK n \in 0..pending : forwarded' = forwarded + n /\ pending' = pending - n
                                /\ pc' \in PCs
    BY <1>2, LeastBound DEF WriteSome, InCredit, Left
  <2> QED
    BY <1>2, <2>1 DEF WriteSome
<1>3. CASE StartWrite \/ WriteFails
  BY <1>3 DEF StartWrite, WriteFails
<1>4. ASSUME NEW s \in Streams, DrainSome(s) PROVE TypeOK'
  <2>1. Unread(s) \in Nat
    BY <1>4 DEF DrainSome, Unread
  <2>2. Least(ReadSize, Unread(s)) \in Nat
    BY <2>1 DEF Least
  <2> QED
    BY <1>4, <2>2 DEF DrainSome
<1>5. ASSUME NEW s \in Streams, Drained(s) PROVE TypeOK'
  BY <1>5 DEF Drained, DrainPc
<1>6. CASE NewChannel \/ OpenSession \/ RequestPtyAndShell \/ SetupFails \/ SetRaw \/ Restore
  BY <1>6 DEF NewChannel, OpenSession, RequestPtyAndShell, SetupFails, SetRaw, Restore
<1>7. CASE Poll \/ TestEof
  BY <1>7 DEF Poll, TestEof, IsEof
<1>8. CASE Type \/ CloseStdin
  BY <1>8 DEF Type, CloseStdin
<1>9. CASE Echo
  BY <1>9 DEF Echo, Streams
<1>10. CASE ShellEnds \/ SendClose \/ LinkFails
  <2>1. CASE ShellEnds
    BY <2>1 DEF ShellEnds
  <2>2. CASE SendClose
    BY <2>2 DEF SendClose
  <2>3. CASE LinkFails
    BY <2>3 DEF LinkFails
  <2> QED
    BY <1>10, <2>1, <2>2, <2>3
<1>11. ASSUME NEW s \in Streams, PrintOutput(s) PROVE TypeOK'
  BY <1>11 DEF PrintOutput
<1>12. CASE Terminated \/ UNCHANGED vars
  BY <1>12 DEF Terminated, vars
<1> QED
  BY <1>1, <1>2, <1>3, <1>4, <1>5, <1>6, <1>7, <1>8, <1>9, <1>10, <1>11, <1>12
  DEF Next, Client

\* Channel and terminal stay what each point of the function expects, and the terminal is restored.
LEMMA SetupStep == IInv /\ [Next]_vars => Setup' /\ TerminalRestored'
<1> SUFFICES ASSUME IInv, [Next]_vars PROVE Setup' /\ TerminalRestored'
  OBVIOUS
<1> USE DEF IInv, Setup, TerminalRestored, Done, Looping, Goto, loop
<1>1. CASE NewChannel \/ OpenSession \/ RequestPtyAndShell \/ SetupFails
  BY <1>1 DEF NewChannel, OpenSession, RequestPtyAndShell, SetupFails
<1>2. CASE SetRaw \/ Restore
  BY <1>2 DEF SetRaw, Restore, Restored
<1>3. CASE Poll \/ TestEof
  BY <1>3 DEF Poll, TestEof
<1>4. CASE ReadStdin
  BY <1>4 DEF ReadStdin
<1>5. CASE StartWrite \/ WriteSome \/ WriteFails
  BY <1>5 DEF StartWrite, WriteSome, WriteFails
<1>6. ASSUME NEW s \in Streams, DrainSome(s) \/ Drained(s)
      PROVE  Setup' /\ TerminalRestored'
  BY <1>6 DEF DrainSome, Drained, DrainPc
<1>7. CASE UNCHANGED <<pc, loop>>
  BY <1>7
<1>8. CASE Type \/ CloseStdin \/ Echo \/ ShellEnds \/ SendClose \/ LinkFails \/ Terminated
  BY <1>7, <1>8 DEF Type, CloseStdin, Echo, ShellEnds, SendClose, LinkFails, Terminated, vars
<1>9. ASSUME NEW s \in Streams, PrintOutput(s) PROVE Setup' /\ TerminalRestored'
  BY <1>7, <1>9 DEF PrintOutput
<1>10. CASE UNCHANGED vars
  BY <1>7, <1>10 DEF vars
<1> QED
  BY <1>1, <1>2, <1>3, <1>4, <1>5, <1>6, <1>8, <1>9, <1>10 DEF Next, Client

\* No step loses input that has been read.
LEMMA InputStep == IInv /\ [Next]_vars => WritesFinish' /\ InputNotLost'
<1> SUFFICES ASSUME IInv, [Next]_vars PROVE WritesFinish' /\ InputNotLost'
  OBVIOUS
<1> USE ShellAssumption
    DEF ShellAssumption, IInv, TypeOK, WritesFinish, InputNotLost, Goto, input, remote
<1>1. CASE ReadStdin
  <2> DEFINE n == Least(ReadSize, typed - consumed)
  <2>1. n \in Nat
    BY LeastBound
  <2>2. consumed' = consumed + n /\ pending' = n /\ (n > 0 => pc' = "write")
    BY <1>1 DEF ReadStdin
  <2> HIDE DEF n
  <2> QED
    BY <1>1, <2>1, <2>2 DEF ReadStdin
<1>2. CASE WriteSome
  <2>1. PICK n \in 0..pending : forwarded' = forwarded + n /\ pending' = pending - n
                                /\ (pending' = 0 \/ pc' = "sending")
    BY <1>2, LeastBound DEF WriteSome, InCredit, Left
  <2> QED
    BY <1>2, <2>1 DEF WriteSome
<1>3. CASE StartWrite \/ WriteFails
  BY <1>3 DEF StartWrite, WriteFails, ChannelClosed
<1>4. ASSUME NEW s \in Streams, DrainSome(s) \/ Drained(s)
      PROVE  WritesFinish' /\ InputNotLost'
  BY <1>4 DEF DrainSome, Drained, DrainPc
<1>5. CASE NewChannel \/ OpenSession \/ RequestPtyAndShell \/ SetupFails \/ SetRaw \/ Restore
  BY <1>5 DEF NewChannel, OpenSession, RequestPtyAndShell, SetupFails, SetRaw, Restore
<1>6. CASE Poll \/ TestEof
  BY <1>6 DEF Poll, TestEof
<1>7. CASE Type \/ CloseStdin \/ Echo \/ ShellEnds \/ SendClose
  BY <1>7 DEF Type, CloseStdin, Echo, ShellEnds, SendClose
<1>8. CASE LinkFails
  BY <1>8 DEF LinkFails
<1>9. ASSUME NEW s \in Streams, PrintOutput(s) PROVE WritesFinish' /\ InputNotLost'
  BY <1>9 DEF PrintOutput
<1>10. CASE Terminated \/ UNCHANGED vars
  BY <1>10 DEF Terminated, vars
<1> QED
  BY <1>1, <1>2, <1>3, <1>4, <1>5, <1>6, <1>7, <1>8, <1>9, <1>10 DEF Next, Client

\* While the loop runs nothing need be shown; its last step compares what has
\* arrived with what was shown, and after it nothing arrives.
LEMMA OutputStep == IInv /\ [Next]_vars => LeavesForAReason' /\ LastWordsShown'
<1> SUFFICES ASSUME IInv, [Next]_vars PROVE LeavesForAReason' /\ LastWordsShown'
  OBVIOUS
<1> USE DEF IInv, LeavesForAReason, LastWordsShown, Goto, input, remote
<1>1. CASE Poll
  BY <1>1 DEF Poll, Readable
<1>2. CASE ReadStdin
  <2>1. typed - consumed \in Nat /\ (typed - consumed = 0 => ~(typed > consumed))
    BY DEF TypeOK
  <2>2. Least(ReadSize, typed - consumed) > 0 \/ ~(typed > consumed)
    BY <2>1, LeastBound, ShellAssumption DEF ShellAssumption
  <2>3. running' = (Least(ReadSize, typed - consumed) > 0)
        /\ pc' \in {"write", "drainStdout"} /\ UNCHANGED stdin /\ pc = "read"
    BY <1>2 DEF ReadStdin, GoesOn
  <2> QED
    BY <2>2, <2>3
<1>3. CASE StartWrite \/ WriteSome \/ WriteFails
  BY <1>3 DEF StartWrite, WriteSome, WriteFails
<1>4. ASSUME NEW s \in Streams, DrainSome(s) \/ Drained(s)
      PROVE  LeavesForAReason' /\ LastWordsShown'
  BY <1>4 DEF DrainSome, Drained, DrainPc
<1>5. CASE TestEof
  <2>1. LeavesForAReason'
    BY <1>5 DEF TestEof
  <2>2. ASSUME pc' = "restore", stdin # "eof" PROVE shown = sent /\ (eof \/ closed)
    <3>1. IsEof
      BY <1>5, <2>2 DEF TestEof
    <3>2. ASSUME NEW s \in Streams PROVE shown[s] = sent[s]
      <4>1. sent[s] \in Nat /\ shown[s] \in Nat
        BY DEF TypeOK
      <4>2. sent[s] - shown[s] = 0
        BY <3>1 DEF IsEof, Unread
      <4> QED
        BY <4>1, <4>2
    <3> QED
      BY <3>1, <3>2 DEF IsEof, TypeOK
  <2> QED
    BY <1>5, <2>1, <2>2 DEF TestEof
<1>6. CASE NewChannel \/ OpenSession \/ RequestPtyAndShell \/ SetupFails \/ SetRaw \/ Restore
  BY <1>6 DEF NewChannel, OpenSession, RequestPtyAndShell, SetupFails, SetRaw, Restore
<1>7. CASE Type \/ CloseStdin
  BY <1>7 DEF Type, CloseStdin, TypeOK
<1>8. CASE Echo \/ ShellEnds \/ SendClose \/ (\E s \in Streams : PrintOutput(s))
  <2>1. pc \in Looping /\ UNCHANGED <<pc, running, stdin, typed, consumed>>
    BY <1>8 DEF Echo, ShellEnds, SendClose, PrintOutput, Alive, Attached
  <2> QED
    BY <2>1 DEF Looping
<1>9. CASE LinkFails \/ Terminated \/ UNCHANGED vars
  BY <1>9 DEF LinkFails, Terminated, vars
<1> QED
  BY <1>1, <1>2, <1>3, <1>4, <1>5, <1>6, <1>7, <1>8, <1>9 DEF Next, Client

\* The invariant holds in every reachable state.
LEMMA Invariance == Spec => []IInv
<1>1. IInv /\ [Next]_vars => IInv'
  BY TypeStep, SetupStep, InputStep, OutputStep DEF IInv
<1> QED
  BY InitIInv, <1>1, PTL DEF Spec

-----------------------------------------------------------------------------

\* However start_interactive_shell ends the terminal is as it was found and the
\* channel is freed; while keys are forwarded the terminal is raw.
THEOREM TerminalAsFound == Spec => []TerminalRestored
<1>1. IInv => TerminalRestored
  BY DEF IInv
<1> QED
  BY Invariance, <1>1, PTL

\* A session that the remote side ends has shown all of its output.
THEOREM NoLastWordsLost == Spec => []LastWordsShown
<1>1. IInv => LastWordsShown
  BY DEF IInv
<1> QED
  BY Invariance, <1>1, PTL

\* What is read from the keyboard is sent or about to be, while the session lives.
THEOREM NoInputLost == Spec => []InputNotLost
<1>1. IInv => InputNotLost
  BY DEF IInv
<1> QED
  BY Invariance, <1>1, PTL
=============================================================================
