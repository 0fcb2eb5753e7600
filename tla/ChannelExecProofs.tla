-------------------------- MODULE ChannelExecProofs --------------------------
(***************************************************************************)
(* Proofs about ChannelExec: its invariants and that it implements         *)
(* RemoteExec, for every set of outputs and exit codes, every window, every*)
(* buffer size and every way the connection may fail.                      *)
(***************************************************************************)
EXTENDS ChannelExec, TLAPS

Setup == {"newChannel", "openSession", "requestExec"}

\* Before the command runs nothing has come from it.
QuietSetup ==
  /\ pc \in Setup => process = "idle"
  /\ process = "idle" => ~Ended
  /\ pc \in Setup \cup {"threw"} => delivered = [s \in Streams |-> 0]

\* Bytes are delivered after they arrive and arrive after they are written.
Conserved == \A s \in Streams : delivered[s] <= sent[s] /\ sent[s] <= output[s]

\* What the server's messages say about the command.
Truthful ==
  /\ Ended => OutputOver
  /\ status # NoStatus => process = "exited" /\ status = exitCode

\* The channel object at each point of exec.
ChannelLife ==
  /\ pc = "newChannel" => channel = "none"
  /\ pc = "openSession" => channel = "allocated"
  /\ pc \in {"requestExec", "loopTest", "readStdout", "readStderr", "exitStatus"}
       => channel = "open"
  /\ Done => channel \in {"none", "freed"}

\* Why the loop was left, and what is returned.
Answer ==
  /\ pc = "exitStatus" => link = "broken" \/ (Ended /\ AllRead)
  /\ pc # "returned" => code = NoStatus
  /\ CompleteOnStatus

IInv == TypeOK /\ QuietSetup /\ Conserved /\ Truthful /\ ChannelLife /\ Answer

-----------------------------------------------------------------------------

\* A chunk is never empty and never longer than what is unread
\* (LibsshAdapter.cpp:170-175: out_bytes of at most sizeof(buffer)).
LEMMA ChunkFits ==
  ASSUME NEW n \in Nat, n > 0
  PROVE  /\ Least(ReadSize, n) \in Nat
         /\ Least(ReadSize, n) > 0
         /\ Least(ReadSize, n) <= n
  BY ExecAssumption DEF ExecAssumption, Least

\* The invariant holds at first.
LEMMA InitIInv == Init => IInv
<1> SUFFICES ASSUME Init PROVE IInv
  OBVIOUS
<1> USE DEF Init
<1>1. output \in [Streams -> Nat]
  BY ExecAssumption DEF ExecAssumption
<1>2. TypeOK
  <2>1. credit \in 0..Window
    BY ExecAssumption DEF ExecAssumption
  <2> QED BY <1>1, <2>1 DEF TypeOK, PCs
<1>3. Conserved
  BY <1>1 DEF Conserved
<1>4. CompleteOnStatus
  BY DEF CompleteOnStatus
<1> QED
  BY <1>2, <1>3, <1>4 DEF IInv, QuietSetup, Truthful, ChannelLife, Answer, Done, Ended, Setup

\* Every step of exec keeps the types.
LEMMA TypeStep == TypeOK /\ [Next]_vars => TypeOK'
<1> SUFFICES ASSUME TypeOK, [Next]_vars PROVE TypeOK'
  OBVIOUS
<1> USE ExecAssumption DEF ExecAssumption, TypeOK, PCs
<1>1. CASE NewChannel BY <1>1 DEF NewChannel, server, command
<1>2. CASE OpenSession BY <1>2 DEF OpenSession, server, command
<1>3. CASE RequestExec BY <1>3 DEF RequestExec, server, command
<1>4. CASE SetupFails BY <1>4 DEF SetupFails, Fail, Released, server, command
<1>5. CASE LoopTest BY <1>5 DEF LoopTest, server, command
<1>6. ASSUME NEW s \in Streams, Read(s) PROVE TypeOK'
  <2>1. CASE ReadChunk(s)
    <3>1. Unread(s) \in Nat /\ Unread(s) > 0
      BY <2>1 DEF ReadChunk, Unread
    <3>2. delivered' \in [Streams -> Nat]
      BY <2>1, <3>1, ChunkFits DEF ReadChunk, Taken
    <3> QED
      BY <2>1, <3>2 DEF ReadChunk, AfterRead, server, command
  <2>2. CASE ReadNothing(s)
    BY <2>2 DEF ReadNothing, AfterRead, server, command
  <2> QED BY <1>6, <2>1, <2>2 DEF Read
<1>7. CASE Finish BY <1>7 DEF Finish, Reported, server, command
<1>8. ASSUME NEW s \in Streams, NEW n \in 1..Window, Send(s, n) PROVE TypeOK'
  BY <1>8 DEF Send, client, command
<1>9. CASE Exit BY <1>9 DEF Exit, client, command
<1>10. CASE Kill BY <1>10 DEF Kill, client, command
<1>11. CASE SendEof BY <1>11 DEF SendEof, client, command
<1>12. CASE SendClose BY <1>12 DEF SendClose, client, command
<1>13. CASE LinkFails BY <1>13 DEF LinkFails, client, server, command
<1>14. CASE UNCHANGED vars BY <1>14 DEF vars, client, server, command
<1> QED
  BY <1>1, <1>2, <1>3, <1>4, <1>5, <1>6, <1>7, <1>8, <1>9, <1>10, <1>11, <1>12, <1>13, <1>14
  DEF Next, Client, Server, SendSome, Terminated
\* Nothing comes from a command that has not been requested.
LEMMA QuietStep == IInv /\ TypeOK' /\ [Next]_vars => QuietSetup'
<1> SUFFICES ASSUME IInv, TypeOK', [Next]_vars PROVE QuietSetup'
  OBVIOUS
<1> USE DEF IInv, QuietSetup, Setup, Ended
<1>1. CASE NewChannel BY <1>1 DEF NewChannel, server
<1>2. CASE OpenSession BY <1>2 DEF OpenSession, server
<1>3. CASE RequestExec BY <1>3 DEF RequestExec
<1>4. CASE SetupFails BY <1>4 DEF SetupFails, Fail, server
<1>5. CASE LoopTest BY <1>5 DEF LoopTest, server
<1>6. ASSUME NEW s \in Streams, Read(s) PROVE QuietSetup'
  BY <1>6 DEF Read, ReadChunk, ReadNothing, AfterRead, server
<1>7. CASE Finish BY <1>7 DEF Finish, server
<1>8. ASSUME NEW s \in Streams, NEW n \in 1..Window, Send(s, n) PROVE QuietSetup'
  BY <1>8 DEF Send, client
<1>9. CASE Exit BY <1>9 DEF Exit, Connected, client
<1>10. CASE Kill BY <1>10 DEF Kill, Connected, client
<1>11. CASE SendEof BY <1>11 DEF SendEof, Connected, client
<1>12. CASE SendClose BY <1>12 DEF SendClose, Connected, client
<1>13. CASE LinkFails BY <1>13 DEF LinkFails, client, server
<1>14. CASE UNCHANGED vars BY <1>14 DEF vars, client, server
<1> QED
  BY <1>1, <1>2, <1>3, <1>4, <1>5, <1>6, <1>7, <1>8, <1>9, <1>10, <1>11, <1>12, <1>13, <1>14
  DEF Next, Client, Server, SendSome, Terminated

\* No more is delivered than has arrived, nor more arrives than was written.
LEMMA ConservedStep == IInv /\ TypeOK' /\ [Next]_vars => Conserved'
<1> SUFFICES ASSUME IInv, TypeOK', [Next]_vars PROVE Conserved'
  OBVIOUS
<1> USE DEF IInv, Conserved
<1>1. CASE UNCHANGED <<delivered, sent, output>>
  BY <1>1
<1>2. ASSUME NEW s \in Streams, ReadChunk(s) PROVE Conserved'
  <2>1. Unread(s) \in Nat /\ Unread(s) > 0
    BY <1>2 DEF ReadChunk, Unread, TypeOK
  <2>2. delivered[s] + Least(ReadSize, Unread(s)) <= sent[s]
    BY <2>1, ChunkFits DEF Unread, TypeOK
  <2> QED
    BY <1>2, <2>2 DEF ReadChunk, Taken, TypeOK, server, command
<1>3. ASSUME NEW s \in Streams, NEW n \in 1..Window, Send(s, n) PROVE Conserved'
  BY <1>3, ExecAssumption DEF ExecAssumption, Send, TypeOK, client, command
<1>4. CASE NewChannel \/ OpenSession \/ RequestExec \/ SetupFails \/ LoopTest \/ Finish
  BY <1>4, <1>1
  DEF NewChannel, OpenSession, RequestExec, SetupFails, Fail, LoopTest, Finish, server, command
<1>5. ASSUME NEW s \in Streams, ReadNothing(s) PROVE Conserved'
  BY <1>5, <1>1 DEF ReadNothing, server, command
<1>6. CASE Exit \/ Kill \/ SendEof \/ SendClose \/ LinkFails \/ UNCHANGED vars
  BY <1>6, <1>1 DEF Exit, Kill, SendEof, SendClose, LinkFails, vars, client, server, command
<1> QED
  BY <1>2, <1>3, <1>4, <1>5, <1>6 DEF Next, Client, Read, Server, SendSome, Terminated

\* What the server's messages say of the command stays true.
LEMMA TruthfulStep == IInv /\ TypeOK' /\ [Next]_vars => Truthful'
<1> SUFFICES ASSUME IInv, TypeOK', [Next]_vars PROVE Truthful'
  OBVIOUS
<1> USE DEF IInv, Truthful, OutputOver, Ended
<1>1. CASE UNCHANGED <<server, command>>
  BY <1>1 DEF server, command
<1>2. CASE RequestExec
  BY <1>2 DEF RequestExec, QuietSetup, Setup, Ended, command
<1>3. ASSUME NEW s \in Streams, NEW n \in 1..Window, Send(s, n) PROVE Truthful'
  <2>1. ~closed /\ ~eof
    BY <1>3 DEF Send, Connected
  <2> QED BY <1>3, <2>1 DEF Send, command
<1>4. CASE Exit BY <1>4 DEF Exit, command
<1>5. CASE Kill BY <1>5 DEF Kill, command
<1>6. CASE SendEof BY <1>6 DEF SendEof, command
<1>7. CASE SendClose BY <1>7 DEF SendClose, command
<1>8. CASE NewChannel \/ OpenSession \/ SetupFails \/ LoopTest \/ Finish
  BY <1>8, <1>1 DEF NewChannel, OpenSession, SetupFails, Fail, LoopTest, Finish
<1>9. ASSUME NEW s \in Streams, Read(s) PROVE Truthful'
  BY <1>9, <1>1 DEF Read, ReadChunk, ReadNothing
<1>10. CASE LinkFails \/ UNCHANGED vars
  BY <1>10, <1>1 DEF LinkFails, vars
<1> QED
  BY <1>2, <1>3, <1>4, <1>5, <1>6, <1>7, <1>8, <1>9, <1>10
  DEF Next, Client, Server, SendSome, Terminated

\* The channel object stays what each point of exec expects.
LEMMA ChannelLifeStep == IInv /\ [Next]_vars => ChannelLife'
<1> SUFFICES ASSUME IInv, [Next]_vars PROVE ChannelLife'
  OBVIOUS
<1> USE DEF IInv, ChannelLife, Done
<1>1. CASE UNCHANGED client
  BY <1>1 DEF client
<1>2. CASE NewChannel \/ OpenSession \/ RequestExec \/ LoopTest \/ Finish
  BY <1>2 DEF NewChannel, OpenSession, RequestExec, LoopTest, Finish
<1>3. CASE SetupFails
  BY <1>3 DEF SetupFails, Fail, Released
<1>4. ASSUME NEW s \in Streams, Read(s) PROVE ChannelLife'
  BY <1>4 DEF Read, ReadChunk, ReadNothing, AfterRead, ReadPc
<1>5. CASE Server
  BY <1>5, <1>1 DEF Server, SendSome, Send, Exit, Kill, SendEof, SendClose
<1>6. CASE LinkFails \/ UNCHANGED vars
  BY <1>6, <1>1 DEF LinkFails, vars
<1> QED
  BY <1>2, <1>3, <1>4, <1>5, <1>6 DEF Next, Client, Terminated
\* Once everything that was sent is read and the output is over, the callbacks
\* have seen all of the output of a command that was not killed.
LEMMA DrainedIsComplete ==
  ASSUME TypeOK, AllRead, OutputOver, process # "killed"
  PROVE  delivered = output
<1>1. sent = output
  BY DEF OutputOver
<1>2. ASSUME NEW s \in Streams PROVE delivered[s] = sent[s]
  <2>1. sent[s] - delivered[s] = 0
    BY DEF AllRead, Unread
  <2>2. sent[s] \in Nat /\ delivered[s] \in Nat
    BY DEF TypeOK
  <2> QED BY <2>1, <2>2
<1> QED
  BY <1>1, <1>2 DEF TypeOK

\* The loop is left on a broken link or when all output has been read.
LEMMA AnswerStep == IInv /\ TypeOK' /\ [Next]_vars => Answer'
<1> SUFFICES ASSUME IInv, TypeOK', [Next]_vars PROVE Answer'
  OBVIOUS
<1> USE DEF IInv, Answer, CompleteOnStatus
<1>1. CASE UNCHANGED <<client, link, server, command>>
  BY <1>1 DEF client, server, command, Ended, AllRead, Unread
<1>2. CASE NewChannel \/ OpenSession \/ RequestExec
  BY <1>2 DEF NewChannel, OpenSession, RequestExec
<1>3. CASE SetupFails
  BY <1>3 DEF SetupFails, Fail
<1>4. CASE LoopTest
  BY <1>4 DEF LoopTest, GoesOn, IsOpen, IsEof, Ended, AllRead, Unread, server
<1>5. ASSUME NEW s \in Streams, Read(s) PROVE Answer'
  BY <1>5 DEF Read, ReadChunk, ReadNothing, AfterRead, ReadPc
<1>6. CASE Finish
  <2>1. code' # NoStatus => process' = "exited" /\ code' = exitCode' /\ delivered' = output'
    <3>1. SUFFICES ASSUME code' # NoStatus
                   PROVE  process = "exited" /\ status = exitCode /\ delivered = output
      BY <1>6 DEF Finish, Answered, Reported, server, command
    <3>2. link # "broken" /\ status # NoStatus
      BY <1>6, <3>1 DEF Finish, Answered, Reported
    <3>3. process = "exited" /\ status = exitCode
      BY <3>2 DEF Truthful
    <3>4. AllRead /\ OutputOver
      BY <1>6, <3>2 DEF Finish, Truthful
    <3> QED
      BY <3>3, <3>4, DrainedIsComplete
  <2> QED
    BY <1>6, <2>1 DEF Finish
<1>7. CASE Server
  <2>1. channel = "open" /\ UNCHANGED <<client, link, command>>
    BY <1>7 DEF Server, SendSome, Send, Exit, Kill, SendEof, SendClose, Connected
  <2>2. pc # "returned"
    BY <2>1 DEF ChannelLife, Done
  <2>3. pc = "exitStatus" => link = "broken" \/ (Ended' /\ AllRead')
    <3>1. SUFFICES ASSUME pc = "exitStatus", link # "broken" PROVE Ended' /\ AllRead'
      OBVIOUS
    <3>2. Ended /\ AllRead
      BY <3>1
    <3>3. sent' = sent
      BY <1>7, <3>2 DEF Server, SendSome, Send, Exit, Kill, SendEof, SendClose, Connected, Ended
    <3>4. Ended'
      BY <1>7, <3>2 DEF Server, SendSome, Send, Exit, Kill, SendEof, SendClose, Ended
    <3> QED
      BY <2>1, <3>2, <3>3, <3>4 DEF AllRead, Unread, client
  <2> QED
    BY <2>1, <2>2, <2>3 DEF client
<1>8. CASE LinkFails
  BY <1>8, ExecAssumption
  DEF ExecAssumption, LinkFails, Done, client, server, command, Ended, AllRead, Unread
<1>9. CASE UNCHANGED vars
  BY <1>9, <1>1 DEF vars
<1> QED
  BY <1>2, <1>3, <1>4, <1>5, <1>6, <1>7, <1>8, <1>9 DEF Next, Client, Terminated

\* The invariant holds in every reachable state.
LEMMA Invariance == Spec => []IInv
<1>1. IInv /\ [Next]_vars => IInv'
  BY TypeStep, QuietStep, ConservedStep, TruthfulStep, ChannelLifeStep, AnswerStep DEF IInv
<1> QED
  BY InitIInv, <1>1, PTL DEF Spec

-----------------------------------------------------------------------------

\* exec's variables keep their types (LibsshAdapter.cpp:137-191).
THEOREM TypeCorrect == Spec => []TypeOK
<1>1. IInv => TypeOK
  BY DEF IInv
<1> QED
  BY Invariance, <1>1, PTL

\* An exit code is never reported for output that was cut short
\* (LibsshAdapter.cpp:166-191).
THEOREM StatusMeansComplete == Spec => []CompleteOnStatus
<1>1. IInv => CompleteOnStatus
  BY DEF IInv, Answer
<1> QED
  BY Invariance, <1>1, PTL

\* Every way out of exec frees the channel, and none uses it before it is open
\* (LibsshAdapter.cpp:140-164, 187-188).
THEOREM ChannelAlwaysReleased == Spec => []ChannelReleased
<1>1. IInv => ChannelReleased
  BY DEF IInv, ChannelLife, ChannelReleased
<1> QED
  BY Invariance, <1>1, PTL

\* The loop is left with bytes undelivered only on a dead session
\* (LibsshAdapter.cpp:166).
THEOREM LoopDrains == Spec => []DrainedBeforeExit
<1>1. IInv => DrainedBeforeExit
  BY DrainedIsComplete DEF IInv, Answer, Truthful, DrainedBeforeExit
<1> QED
  BY Invariance, <1>1, PTL

-----------------------------------------------------------------------------

\* exec as libssh runs it implements the call its callers rely on.
THEOREM RefinesRemoteExec == Spec => ImplementsRemoteExec
<1> USE DEF Remote!Streams, Remote!NoStatus, Remote!Nothing, Streams, NoStatus
<1>1. Init => Remote!Init
  BY DEF Init, Remote!Init, Phase, Done
<1>2. ASSUME IInv, IInv', [Next]_vars PROVE [Remote!Next]_Remote!vars
  <2> USE <1>2 DEF Remote!vars, Phase, Done
  <2>1. CASE UNCHANGED <<client, command>>
    BY <2>1 DEF client, command
  <2>2. CASE NewChannel \/ OpenSession \/ RequestExec \/ LoopTest
    BY <2>2 DEF NewChannel, OpenSession, RequestExec, LoopTest, command
  <2>3. CASE SetupFails
    BY <2>3 DEF SetupFails, Fail, command, Remote!Next, Remote!Throw, IInv, QuietSetup, Setup
  <2>4. ASSUME NEW s \in Streams, ReadChunk(s) PROVE Remote!Next
    <3> DEFINE n == Least(ReadSize, Unread(s))
    <3>1. Unread(s) \in Nat /\ Unread(s) > 0
      BY <2>4 DEF ReadChunk, Unread, IInv, TypeOK
    <3>2. n \in Nat /\ n > 0 /\ n <= Unread(s)
      BY <3>1, ChunkFits
    <3>3. delivered[s] + n <= output[s] /\ n \in 1..output[s]
      BY <3>2 DEF Unread, IInv, TypeOK, Conserved
    <3>4. Remote!Deliver(s, n)
      BY <2>4, <3>3 DEF ReadChunk, Taken, AfterRead, ReadPc, command, Remote!Deliver
    <3> QED
      BY <3>3, <3>4 DEF Remote!Next
  <2>5. ASSUME NEW s \in Streams, ReadNothing(s) PROVE UNCHANGED Remote!vars
    BY <2>5 DEF ReadNothing, AfterRead, ReadPc, command
  <2>6. CASE Finish
    <3>1. CASE code' = NoStatus
      BY <2>6, <3>1 DEF Finish, command, IInv, Answer, Remote!Next, Remote!ReturnUnknown
    <3>2. CASE code' # NoStatus
      <4>1. code' = exitCode' /\ delivered' = output'
        BY <2>6, <3>2 DEF Finish, IInv, Answer, CompleteOnStatus
      <4> QED
        BY <2>6, <4>1 DEF Finish, command, Remote!Next, Remote!Return
    <3> QED BY <3>1, <3>2
  <2>7. CASE Server \/ LinkFails \/ UNCHANGED vars
    BY <2>7, <2>1
    DEF Server, SendSome, Send, Exit, Kill, SendEof, SendClose, LinkFails, vars
  <2> QED
    BY <2>2, <2>3, <2>4, <2>5, <2>6, <2>7 DEF Next, Client, Read, Terminated
<1> QED
  BY Invariance, <1>1, <1>2, PTL DEF Spec, ImplementsRemoteExec, Remote!Spec
=============================================================================
