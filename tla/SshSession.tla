------------------------------ MODULE SshSession ------------------------------
(***************************************************************************)
(* The life of a LibsshAdapter: its ssh_session and its lazily made SFTP    *)
(* session from the constructor to the destructor, and how connect          *)
(* authenticates.  The program connects an adapter once; an exception out   *)
(* of any call unwinds to the destructor.                                   *)
(*                                                                         *)
(* The server is the set of credentials it would accept.  libssh, by how    *)
(* authenticate uses it: ssh_userauth_publickey_auto offers the agent's     *)
(* keys, then the default identities of the user.                          *)
(***************************************************************************)
EXTENDS Integers

CONSTANT Configs  (* SshAuthConfig: method, key_path, password_command,    *)
                  (* use_agent; a path or a command is given or is empty   *)

Methods == {"publickey", "password", "other"}
AuthConfigs == [method : Methods, key_path : BOOLEAN,
                password_command : BOOLEAN, use_agent : BOOLEAN]

ASSUME SessionAssumption == Configs \subseteq AuthConfigs

\* What can be offered: the key of key_path, the keys of the agent, the default
\* identities, what password_command prints and the text of the command itself.
Keys == {"keyFile", "agent", "identities"}
Passwords == {"password", "commandText"}
Credentials == Keys \cup Passwords

VARIABLES
  pc,        (* where the adapter's user is                                *)
  session,   (* the ssh_session object                                     *)
  session_,  (* the member: "set" or "null"                                *)
  frees,     (* calls of ssh_free                                          *)
  sftp,      (* the SFTP session: sftp_ is set while it is "cached"        *)
  auth,      (* connection.auth                                            *)
  accepts,   (* credentials the server accepts                             *)
  readable,  (* key_path names a private key that can be imported          *)
  tried,     (* credentials offered to the server, or left because the     *)
             (* same libssh call had already succeeded with another        *)
  dropped    (* the server has dropped the connection                      *)

server == <<accepts, readable>>
objects == <<session, session_, frees, sftp>>
vars == <<pc, objects, auth, server, tried, dropped>>

Init ==
  /\ pc = "construct"
  /\ session = "none" /\ session_ = "null" /\ frees = 0 /\ sftp = "none"
  /\ auth \in Configs
  /\ accepts \in SUBSET Credentials
  /\ readable \in BOOLEAN
  /\ tried = {} /\ dropped = FALSE

Goto(from, to) == pc = from /\ pc' = to

-----------------------------------------------------------------------------
(* Constructor and connect.                                                 *)

Construct ==
  /\ Goto("construct", "connect")
  /\ session' = "new" /\ session_' = "set"
  /\ UNCHANGED <<frees, sftp, auth, server, tried, dropped>>

\* The constructor throws: there is nothing to destroy.
ConstructFails ==
  /\ Goto("construct", "destroyed")
  /\ UNCHANGED <<objects, auth, server, tried, dropped>>

\* The first step authenticate takes for a method; "unwind" where it throws.
FirstStep ==
  CASE auth.method = "publickey" /\ auth.key_path -> "keyFile"
    [] auth.method = "publickey" /\ ~auth.key_path -> "auto"
    [] auth.method = "password" /\ auth.password_command -> "password"
    [] OTHER -> "unwind"

Connect ==
  /\ Goto("connect", FirstStep)
  /\ session' = "connected"
  /\ UNCHANGED <<session_, frees, sftp, auth, server, tried, dropped>>

\* Faulty Cleared: the pointer survives its object.
ClearedNever == session_

Cleared == "null"

ConnectFails ==
  /\ Goto("connect", "unwind")
  /\ session' = "freed" /\ frees' = frees + 1
  /\ session_' = Cleared
  /\ UNCHANGED <<sftp, auth, server, tried, dropped>>

-----------------------------------------------------------------------------
(* authenticate.                                                            *)

Lets(offered) == ~dropped /\ offered \cap accepts # {}

\* Offering a set of credentials: on success connect returns, else the step `to`
\* is next, or an exception.
Offer(offered, to) ==
  /\ tried' = tried \cup offered
  /\ pc' = IF Lets(offered) THEN "ready" ELSE to
  /\ UNCHANGED <<objects, auth, server, dropped>>

\* Faulty OfferKeyFile: authentication goes on although the key was accepted.
OfferKeyFileGoesOn ==
  /\ pc = "keyFile" /\ readable
  /\ tried' = tried \cup {"keyFile"}
  /\ pc' = "auto"
  /\ UNCHANGED <<objects, auth, server, dropped>>

OfferKeyFile ==
  /\ pc = "keyFile" /\ readable
  /\ Offer({"keyFile"}, "auto")

\* Faulty WithoutKey: an unreadable key ends authentication.
WithoutKeyThrows == "unwind"

WithoutKey == "auto"

ImportFails ==
  /\ Goto("keyFile", WithoutKey)
  /\ ~readable
  /\ UNCHANGED <<objects, auth, server, tried, dropped>>

AutoCredentials == {"agent", "identities"}

OfferAuto ==
  /\ pc = "auto"
  /\ Offer(AutoCredentials, IF auth.use_agent THEN "agent" ELSE "unwind")

OfferAgent ==
  /\ pc = "agent"
  /\ Offer({"agent"}, "unwind")

\* password_command is passed as the password; nothing runs it.
OfferPassword ==
  /\ pc = "password"
  /\ Offer({"commandText"}, "unwind")

Drop ==
  /\ session = "connected" /\ ~dropped /\ pc \in {"keyFile", "auto", "agent", "password", "ready"}
  /\ dropped' = TRUE
  /\ UNCHANGED <<pc, objects, auth, server, tried>>

-----------------------------------------------------------------------------
(* Use and destruction.                                                     *)

\* ensure_sftp_session makes one SFTP session and every operation shares it.
SftpNew ==
  /\ Goto("ready", "sftpInit")
  /\ sftp = "none"
  /\ sftp' = "starting"
  /\ UNCHANGED <<session, session_, frees, auth, server, tried, dropped>>

SftpInit ==
  /\ Goto("sftpInit", "ready") /\ ~dropped
  /\ sftp' = "cached"
  /\ UNCHANGED <<session, session_, frees, auth, server, tried, dropped>>

SftpInitFails ==
  /\ Goto("sftpInit", "unwind")
  /\ sftp' = "freed"
  /\ UNCHANGED <<session, session_, frees, auth, server, tried, dropped>>

\* Every operation has returned, or one of them throws.
LeaveScope ==
  /\ Goto("ready", "unwind")
  /\ UNCHANGED <<objects, auth, server, tried, dropped>>

DestroySftp ==
  /\ Goto("unwind", "freeSession")
  /\ sftp' = IF sftp = "cached" THEN "freed" ELSE sftp
  /\ UNCHANGED <<session, session_, frees, auth, server, tried, dropped>>

DestroySession ==
  /\ Goto("freeSession", "destroyed")
  /\ IF session_ = "set" THEN session' = "freed" /\ frees' = frees + 1
                         ELSE UNCHANGED <<session, frees>>
  /\ UNCHANGED <<session_, sftp, auth, server, tried, dropped>>

Terminated == pc = "destroyed" /\ UNCHANGED vars

Next ==
  \/ Construct \/ ConstructFails \/ Connect \/ ConnectFails
  \/ OfferKeyFile \/ ImportFails \/ OfferAuto \/ OfferAgent \/ OfferPassword \/ Drop
  \/ SftpNew \/ SftpInit \/ SftpInitFails \/ LeaveScope
  \/ DestroySftp \/ DestroySession \/ Terminated

Spec == Init /\ [][Next]_vars

-----------------------------------------------------------------------------
(* Properties.                                                              *)

\* Whether connect freed the session or the destructor did, it is freed once, and
\* the SFTP session, in use only inside a live session, goes before it
\* (LibsshAdapter.cpp:39-47, 67-69, 297-303).
ReleasedOnceInOrder ==
  /\ sftp \in {"starting", "cached"} => session = "connected"
  /\ pc = "destroyed" =>
       /\ session \in {"none", "freed"} /\ frees = (IF session = "none" THEN 0 ELSE 1)
       /\ sftp \in {"none", "freed"}

\* What the profile allows to be offered: its key, those of the agent and the
\* default identities; or the text of its password_command.
Configured ==
  CASE auth.method = "publickey" ->
         AutoCredentials \cup {k \in {"keyFile"} : auth.key_path /\ readable}
    [] auth.method = "password" -> {c \in {"commandText"} : auth.password_command}
    [] OTHER -> {}

\* Operations run only on a session the server let in on a credential the profile
\* allows; none it does not allow was offered on the way and, where the key file
\* was enough, nothing else (LibsshAdapter.cpp:76-132).
UsedOnlyAuthenticated ==
  pc \in {"ready", "sftpInit"} =>
    /\ tried \cap accepts # {} /\ tried \subseteq Configured
    /\ "keyFile" \in Configured \cap accepts => tried = {"keyFile"}

\* A publickey profile is refused only when none of its keys would have opened a
\* connection that was still up: an unreadable key file or a refused key does not
\* keep the agent and the identities from being tried (LibsshAdapter.cpp:77-108).
DenialIsExhaustive ==
  pc = "unwind" /\ session = "connected" /\ auth.method = "publickey"
    /\ tried \cap accepts = {} /\ ~dropped =>
    accepts \cap Configured = {}
=============================================================================
