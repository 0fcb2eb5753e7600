--------------------------- MODULE SshSessionProofs ---------------------------
(***************************************************************************)
(* Proofs about SshSession: for every set of configurations, every server  *)
(* and a connection that may drop at any moment.                           *)
(***************************************************************************)
EXTENDS SshSession, TLAPS

Offering == {"keyFile", "auto", "agent", "password"}

PCs ==
  Offering \cup {"construct", "connect", "ready", "sftpInit", "unwind", "freeSession", "destroyed"}

TypeOK ==
  /\ pc \in PCs
  /\ auth \in AuthConfigs
  /\ accepts \in SUBSET Credentials
  /\ tried \in SUBSET Credentials
  /\ readable \in BOOLEAN /\ dropped \in BOOLEAN

\* The session and its SFTP session, while the adapter owns both.
Owned(states) ==
  session = "connected" /\ session_ = "set" /\ frees = 0 /\ sftp \in states

\* connect has freed the session, and nothing was built on it.
GivenUp == session = "freed" /\ session_ = "null" /\ frees = 1 /\ sftp = "none"

\* The objects at each point of the adapter's life.
Life ==
  /\ pc = "construct" => session = "none" /\ session_ = "null" /\ frees = 0 /\ sftp = "none"
  /\ pc = "connect" => session = "new" /\ session_ = "set" /\ frees = 0 /\ sftp = "none"
  /\ pc \in Offering => Owned({"none"})
  /\ pc = "ready" => Owned({"none", "cached"})
  /\ pc = "sftpInit" => Owned({"starting"})
  /\ pc = "unwind" => Owned({"none", "cached", "freed"}) \/ GivenUp
  /\ pc = "freeSession" => Owned({"none", "freed"}) \/ GivenUp
  /\ pc = "destroyed" =>
       \/ session = "none" /\ frees = 0 /\ sftp = "none"
       \/ session = "freed" /\ frees = 1 /\ sftp \in {"none", "freed"}

\* Each step of authenticate belongs to one method.
OnMethod ==
  /\ pc \in {"keyFile", "auto", "agent"} => auth.method = "publickey"
  /\ pc = "password" => auth.method = "password"

KeyFileTried == auth.key_path /\ readable => "keyFile" \in tried

\* What has been offered by the time a step of authenticate is reached, and when
\* a publickey profile unwinds from a session that connect has opened.
OfferedSoFar ==
  /\ pc \in {"auto", "agent"} => KeyFileTried
  /\ pc = "agent" => AutoCredentials \subseteq tried
  /\ pc = "unwind" /\ session = "connected" /\ auth.method = "publickey" =>
       tried \cap accepts # {} \/ (KeyFileTried /\ AutoCredentials \subseteq tried)

\* What has not been offered yet, and what it means that the next step is reached:
\* the key file was refused, or the connection is gone.
NotYetOffered ==
  /\ pc \in {"construct", "connect", "keyFile", "password"} => tried = {}
  /\ pc = "keyFile" => auth.key_path
  /\ pc = "password" => auth.password_command
  /\ pc \in {"auto", "agent"} =>
       tried \subseteq Configured /\ (dropped \/ "keyFile" \notin Configured \cap accepts)

IInv == TypeOK /\ Life /\ OnMethod /\ OfferedSoFar /\ NotYetOffered /\ UsedOnlyAuthenticated

-----------------------------------------------------------------------------

\* The invariant holds at first.
LEMMA InitIInv == Init => IInv
  BY SessionAssumption
  DEF SessionAssumption, Init, IInv, TypeOK, Life, OnMethod, OfferedSoFar, NotYetOffered,
      UsedOnlyAuthenticated, Credentials, Offering, PCs

\* Every step of the adapter keeps the types.
LEMMA TypeStep == TypeOK /\ [Next]_vars => TypeOK'
<1> SUFFICES ASSUME TypeOK, [Next]_vars PROVE TypeOK'
  OBVIOUS
<1> USE DEF TypeOK, PCs, Offering, Goto
<1>1. CASE OfferKeyFile \/ OfferAuto \/ OfferAgent \/ OfferPassword
  BY <1>1
  DEF OfferKeyFile, OfferAuto, OfferAgent, OfferPassword, Offer, AutoCredentials, server,
      Credentials, Keys, Passwords
<1>2. CASE Connect
  BY <1>2 DEF Connect, FirstStep, server
<1>3. CASE ImportFails
  BY <1>3 DEF ImportFails, WithoutKey, server
<1>4. CASE Drop \/ Terminated \/ UNCHANGED vars
  BY <1>4 DEF Drop, Terminated, vars, server
<1> QED
  BY <1>1, <1>2, <1>3, <1>4
  DEF Next, Construct, ConstructFails, ConnectFails, SftpNew, SftpInit, SftpInitFails,
      LeaveScope, DestroySftp, DestroySession, server

\* The objects stay what each point of the adapter's life expects.
LEMMA LifeStep == IInv /\ [Next]_vars => Life'
<1> SUFFICES ASSUME IInv, [Next]_vars PROVE Life'
  OBVIOUS
<1> USE DEF IInv, Life, Owned, GivenUp, Offering, Goto, objects
<1>1. CASE Construct \/ ConstructFails
  BY <1>1 DEF Construct, ConstructFails
<1>2. CASE Connect
  BY <1>2 DEF Connect, FirstStep
<1>3. CASE ConnectFails
  BY <1>3 DEF ConnectFails, Cleared
<1>4. CASE OfferKeyFile \/ OfferAuto \/ OfferAgent \/ OfferPassword
  BY <1>4 DEF OfferKeyFile, OfferAuto, OfferAgent, OfferPassword, Offer
<1>5. CASE ImportFails
  BY <1>5 DEF ImportFails, WithoutKey
<1>6. CASE SftpNew \/ SftpInit \/ SftpInitFails \/ LeaveScope
  BY <1>6 DEF SftpNew, SftpInit, SftpInitFails, LeaveScope
<1>7. CASE DestroySftp \/ DestroySession
  BY <1>7 DEF DestroySftp, DestroySession
<1>8. CASE Drop \/ Terminated \/ UNCHANGED vars
  BY <1>8 DEF Drop, Terminated, vars
<1> QED
  BY <1>1, <1>2, <1>3, <1>4, <1>5, <1>6, <1>7, <1>8 DEF Next

\* Each step of authenticate belongs to the method of the profile.
LEMMA OnMethodStep == IInv /\ [Next]_vars => OnMethod'
<1> SUFFICES ASSUME IInv, [Next]_vars PROVE OnMethod'
  OBVIOUS
<1> USE DEF IInv, OnMethod, Goto
<1>1. CASE Connect
  BY <1>1 DEF Connect, FirstStep
<1>2. CASE OfferKeyFile \/ OfferAuto \/ OfferAgent \/ OfferPassword
  BY <1>2 DEF OfferKeyFile, OfferAuto, OfferAgent, OfferPassword, Offer
<1>3. CASE ImportFails
  BY <1>3 DEF ImportFails, WithoutKey
<1>4. CASE Drop \/ Terminated \/ UNCHANGED vars
  BY <1>4 DEF Drop, Terminated, vars
<1>5. CASE pc' \in {"connect", "unwind", "ready", "sftpInit", "freeSession", "destroyed"}
  BY <1>5
<1> QED
  BY <1>1, <1>2, <1>3, <1>4, <1>5
  DEF Next, Construct, ConstructFails, ConnectFails, SftpNew, SftpInit, SftpInitFails,
      LeaveScope, DestroySftp, DestroySession

\* What is to be offered before a step of authenticate has been offered.
LEMMA OfferedStep == IInv /\ [Next]_vars => OfferedSoFar'
<1> SUFFICES ASSUME IInv, [Next]_vars PROVE OfferedSoFar'
  OBVIOUS
<1> USE DEF IInv, OfferedSoFar, KeyFileTried, Goto
<1>1. CASE Connect
  BY <1>1 DEF Connect, FirstStep, server
<1>2. CASE ConnectFails
  BY <1>2 DEF ConnectFails
<1>3. CASE OfferKeyFile
  BY <1>3 DEF OfferKeyFile, Offer, server
<1>4. CASE ImportFails
  BY <1>4 DEF ImportFails, WithoutKey, server
<1>5. CASE OfferAuto
  BY <1>5 DEF OfferAuto, Offer, AutoCredentials, server, objects
<1>6. CASE OfferAgent
  BY <1>6 DEF OfferAgent, Offer, AutoCredentials, server, objects
<1>7. CASE OfferPassword
  BY <1>7 DEF OfferPassword, Offer, OnMethod
<1>8. CASE SftpInitFails \/ LeaveScope
  <2>1. tried \cap accepts # {}
    BY <1>8 DEF SftpInitFails, LeaveScope, UsedOnlyAuthenticated
  <2> QED
    BY <1>8, <2>1 DEF SftpInitFails, LeaveScope, server
<1>9. CASE Drop \/ Terminated \/ UNCHANGED vars
  BY <1>9 DEF Drop, Terminated, vars, objects, server
<1>10. CASE pc' \in {"connect", "ready", "sftpInit", "freeSession", "destroyed"}
  BY <1>10
<1> QED
  BY <1>1, <1>2, <1>3, <1>4, <1>5, <1>6, <1>7, <1>8, <1>9, <1>10
  DEF Next, Construct, ConstructFails, SftpNew, SftpInit, DestroySftp, DestroySession

\* What the profile allows does not change.
LEMMA ConfiguredStays ==
  ASSUME UNCHANGED <<auth, readable>>
  PROVE  Configured' = Configured
  BY DEF Configured

\* No step changes the profile or the server.
LEMMA ServerStays == [Next]_vars => UNCHANGED <<auth, accepts, readable>>
  BY DEF Next, vars, server, Construct, ConstructFails, Connect, ConnectFails, OfferKeyFile,
         ImportFails, OfferAuto, OfferAgent, OfferPassword, Offer, Drop, SftpNew, SftpInit,
         SftpInitFails, LeaveScope, DestroySftp, DestroySession, Terminated

\* A step offers only what the profile allows, and goes on only where it was refused.
LEMMA OfferingStep == IInv /\ [Next]_vars => NotYetOffered' /\ UsedOnlyAuthenticated'
<1> SUFFICES ASSUME IInv, [Next]_vars PROVE NotYetOffered' /\ UsedOnlyAuthenticated'
  OBVIOUS
<1> USE DEF IInv, NotYetOffered, UsedOnlyAuthenticated, Goto
<1>1. Configured' = Configured /\ auth' = auth /\ accepts' = accepts
  BY ServerStays, ConfiguredStays
<1>2. CASE Connect
  <2>1. /\ tried = {} /\ tried' = tried /\ pc' \in {"keyFile", "auto", "password", "unwind"}
        /\ pc' = "keyFile" => auth.key_path
        /\ pc' = "password" => auth.password_command
        /\ pc' = "auto" => auth.method = "publickey" /\ ~auth.key_path
    BY <1>2 DEF Connect, FirstStep
  <2>2. pc' = "auto" => "keyFile" \notin Configured
    BY <2>1 DEF Configured, AutoCredentials
  <2> QED
    BY <1>1, <2>1, <2>2
<1>3. CASE OfferKeyFile
  <2>1. tried' = {"keyFile"} /\ dropped' = dropped
        /\ pc' = IF Lets({"keyFile"}) THEN "ready" ELSE "auto"
    BY <1>3 DEF OfferKeyFile, Offer
  <2>2. "keyFile" \in Configured
    BY <1>3 DEF OfferKeyFile, Configured, OnMethod
  <2> QED
    BY <1>1, <2>1, <2>2 DEF Lets
<1>4. CASE ImportFails
  <2>1. "keyFile" \notin Configured /\ tried' = {} /\ pc' = "auto"
    BY <1>4 DEF ImportFails, WithoutKey, Configured, AutoCredentials, OnMethod
  <2> QED
    BY <1>1, <2>1
<1>5. CASE OfferAuto \/ OfferAgent
  <2>1. PICK offered \in SUBSET AutoCredentials :
          /\ tried' = tried \cup offered /\ dropped' = dropped
          /\ pc' = "ready" => Lets(offered)
          /\ pc' \in {"ready", "agent", "unwind"} /\ pc \in {"auto", "agent"}
    BY <1>5 DEF OfferAuto, OfferAgent, Offer, AutoCredentials
  <2>2. AutoCredentials \subseteq Configured
    BY <2>1 DEF Configured, OnMethod
  <2> QED
    BY <1>1, <2>1, <2>2 DEF Lets
<1>6. CASE OfferPassword
  <2>1. tried' = {"commandText"} /\ pc' = IF Lets({"commandText"}) THEN "ready" ELSE "unwind"
    BY <1>6 DEF OfferPassword, Offer
  <2>2. Configured = {"commandText"}
    BY <1>6 DEF OfferPassword, Configured, OnMethod
  <2> QED
    BY <1>1, <2>1, <2>2 DEF Lets
<1>7. CASE SftpNew \/ SftpInit \/ Construct
  BY <1>1, <1>7 DEF SftpNew, SftpInit, Construct
<1>8. CASE Drop \/ Terminated \/ UNCHANGED vars
  BY <1>1, <1>8 DEF Drop, Terminated, vars
<1>9. CASE pc' \in {"unwind", "freeSession", "destroyed"}
  BY <1>9
<1> QED
  BY <1>2, <1>3, <1>4, <1>5, <1>6, <1>7, <1>8, <1>9
  DEF Next, ConstructFails, ConnectFails, SftpInitFails, LeaveScope, DestroySftp,
      DestroySession

\* The invariant holds in every reachable state.
LEMMA Invariance == Spec => []IInv
<1>1. IInv /\ [Next]_vars => IInv'
  BY TypeStep, LifeStep, OnMethodStep, OfferedStep, OfferingStep DEF IInv
<1> QED
  BY InitIInv, <1>1, PTL DEF Spec

-----------------------------------------------------------------------------

\* The session is freed once, by connect or by the destructor, and the SFTP session
\* before it (LibsshAdapter.cpp:39-47, 67-69, 297-303).
THEOREM SessionReleasedOnce == Spec => []ReleasedOnceInOrder
<1>1. IInv => ReleasedOnceInOrder
  BY DEF IInv, TypeOK, PCs, Life, Owned, GivenUp, Offering, ReleasedOnceInOrder
<1> QED
  BY Invariance, <1>1, PTL

\* No operation runs on a session the server has not let in on a credential of the
\* profile, and none more is offered than it takes (LibsshAdapter.cpp:76-132).
THEOREM NothingUnauthenticated == Spec => []UsedOnlyAuthenticated
<1>1. IInv => UsedOnlyAuthenticated
  BY DEF IInv
<1> QED
  BY Invariance, <1>1, PTL

\* A publickey profile is refused only after every key it may offer
\* (LibsshAdapter.cpp:77-108).
THEOREM EveryKeyOffered == Spec => []DenialIsExhaustive
<1>1. IInv => DenialIsExhaustive
  BY DEF IInv, OfferedSoFar, KeyFileTried, Configured, DenialIsExhaustive
<1> QED
  BY Invariance, <1>1, PTL
=============================================================================
