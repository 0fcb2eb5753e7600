------------------------------ MODULE SftpAdapter ------------------------------
(***************************************************************************)
(* The SFTP operations of LibsshAdapter on one directory of a server.      *)
(*                                                                         *)
(* An operation is a request and its answer.  The server carries out what  *)
(* it can, or refuses (permissions, quota, ...); the connection may drop   *)
(* before the request arrives or, worse, after it was carried out: the     *)
(* caller gets the same exception in all these cases.                      *)
(***************************************************************************)
EXTENDS HostFiles

CONSTANTS
  Names,    (* paths in the directory                                      *)
  Handles   (* values of SftpHandle                                        *)

VARIABLES
  sftp_,    (* ensure_sftp_session has cached a session                    *)
  link,     (* "up" or "down"                                              *)
  remote,   (* the directory: files (a host) and dirs (a set of names)     *)
  handles,  (* the open handles: of which path, at which position          *)
  call      (* the last operation, as its caller sees it                   *)

adapter == <<sftp_, link, remote, handles, call>>

NoHandles == [h \in {} |-> 0]
NoCall == <<"none", FALSE, "none", 0, 0>>

\* The parts of call: the operation, whether it threw, its path, what else it was
\* given and what it returned.
Op == call[1]
Threw == call[2]
Path == call[3]
Given == call[4]
Value == call[5]

Exists(path) == path \in DOMAIN remote.files \cup remote.dirs
IsFile(path) == path \in DOMAIN remote.files
File(path) == Content(remote.files, path)

WithFile(path, file) == [remote EXCEPT !.files = Put(@, path, file)]
Without(host, path) == [p \in DOMAIN host \ {path} |-> host[p]]

-----------------------------------------------------------------------------
(* Requests and answers.                                                    *)

Returns(op, path, given, value) ==
  call' = <<op, FALSE, path, given, value>>

Throws(op, path, given) == call' = <<op, TRUE, path, given, 0>>

\* The server carries the request out, and its answer arrives.
Answered(effect) == link = "up" /\ remote' = effect /\ UNCHANGED link

\* No answer but an error: refused, or lost with the connection.
Failed(effect) ==
  \/ UNCHANGED <<link, remote>>
  \/ link = "up" /\ link' = "down" /\ remote' \in {remote, effect}

\* Any operation that needs the SFTP session and cannot make it throws.
EnsureFails(op, path, given) ==
  /\ ~sftp_
  /\ Throws(op, path, given)
  /\ UNCHANGED <<sftp_, link, remote, handles>>

\* An operation that the server can carry out if possible holds.
Ask(op, path, given, possible, effect) ==
  /\ sftp_' = TRUE
  /\ \/ possible /\ Answered(effect) /\ Returns(op, path, given, 0)
     \/ Failed(IF possible THEN effect ELSE remote) /\ Throws(op, path, given)
  /\ UNCHANGED handles

-----------------------------------------------------------------------------
(* Operations on paths.                                                     *)

Absent == [size |-> 0, is_directory |-> FALSE, exists |-> FALSE]

Attributes(path) ==
  [size |-> Len(File(path)), is_directory |-> path \in remote.dirs, exists |-> Exists(path)]

\* sftp_stat answers the same for a file that is not there and for any error.
Stat(path) ==
  /\ sftp_' = TRUE
  /\ \/ Answered(remote) /\ Returns("stat", path, 0, Attributes(path))
     \/ Failed(remote) /\ Returns("stat", path, 0, Absent)
  /\ UNCHANGED handles

\* sftp_readdir returns null at the end of the directory and on any error: a
\* listing that breaks off is returned as if it were whole.
ListDirectory ==
  /\ sftp_' = TRUE
  /\ \/ Answered(remote) /\ Returns("list", "none", 0, DOMAIN remote.files \cup remote.dirs)
     \/ \E some \in SUBSET (DOMAIN remote.files \cup remote.dirs) :
          link = "up" /\ Failed(remote) /\ Returns("list", "none", 0, some)
     \/ Failed(remote) /\ Throws("list", "none", 0)
  /\ UNCHANGED handles

Mkdir(path) ==
  Ask("mkdir", path, 0, ~Exists(path), [remote EXCEPT !.dirs = @ \cup {path}])

Remove(path) ==
  Ask("remove", path, 0, IsFile(path), [remote EXCEPT !.files = Without(@, path)])

\* Faulty Resized: the size is never flagged.
ResizedNever(file, size) == file

\* SSH_FXP_SETSTAT sets the size if it is flagged, which a size of 0 is not.
Resized(file, size) ==
  IF size = 0 THEN file ELSE [i \in 1..size |-> IF i <= Len(file) THEN file[i] ELSE 0]

SetAttributes(path, size) ==
  Ask("set_attributes", path, size, IsFile(path), WithFile(path, Resized(File(path), size)))

-----------------------------------------------------------------------------
(* Handles.                                                                 *)

\* An answered open yields a handle at the offset.
Open(op, path, offset, possible, effect) ==
  /\ sftp_' = TRUE
  /\ \/ \E h \in Handles \ DOMAIN handles :
          /\ possible /\ Answered(effect) /\ Returns(op, path, offset, h)
          /\ handles' = Put(handles, h, [path |-> path, position |-> offset])
     \/ /\ Failed(IF possible THEN effect ELSE remote) /\ Throws(op, path, offset)
        /\ UNCHANGED handles

OpenRead(path, offset) == Open("open_read", path, offset, IsFile(path), remote)

OpenWrite(path, offset) ==
  Open("open_write", path, offset, path \notin remote.dirs,
       WithFile(path, Opened(File(path), offset)))

Advanced(h, n) == [handles EXCEPT ![h].position = @ + n]

\* What a read of up to count bytes may find: some of the bytes that are left,
\* none only at the end of the file.
Found(h, count) ==
  LET path == handles[h].path
      at == handles[h].position
      most == Least(count, Len(File(path)) - at)
  IN  IF most <= 0 THEN {<<>>} ELSE {SubSeq(File(path), at + 1, at + n) : n \in 1..most}

Read(h, count) ==
  /\ \/ \E bytes \in Found(h, count) :
          /\ IsFile(handles[h].path) /\ Answered(remote)
          /\ Returns("read", handles[h].path, count, bytes)
          /\ handles' = Advanced(h, Len(bytes))
     \/ Failed(remote) /\ Throws("read", handles[h].path, count) /\ UNCHANGED handles
  /\ UNCHANGED sftp_

\* A write takes as many of the bytes as the server likes.
Write(h, bytes) ==
  LET path == handles[h].path
      at == handles[h].position
      given == [at |-> at, bytes |-> bytes]
      Written(n) == IF n = 0 THEN remote
                    ELSE WithFile(path, Overwrite(File(path), at, Prefix(bytes, n)))
  IN  /\ \E n \in 0..Len(bytes) :
           \/ /\ IsFile(path) /\ Answered(Written(n)) /\ Returns("write", path, given, n)
              /\ handles' = Advanced(h, n)
           \/ /\ Failed(IF IsFile(path) THEN Written(n) ELSE remote)
              /\ Throws("write", path, given) /\ UNCHANGED handles
      /\ UNCHANGED sftp_

\* sftp_close ignores what the server says; the handle is gone in any case.
Close(h) ==
  /\ Failed(remote)
  /\ Returns("close", handles[h].path, 0, 0)
  /\ handles' = Without(handles, h)
  /\ UNCHANGED sftp_
=============================================================================
