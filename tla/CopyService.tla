----------------------------- MODULE CopyService -----------------------------
(***************************************************************************)
(* CopyService::run with TransferPlanner::plan and the SFTP operations of  *)
(* LibsshAdapter: one request, copied chunk by chunk in either direction,  *)
(* with reads and writes that may be short, stop early or throw.           *)
(*                                                                         *)
(* Files and hosts are those of HostFiles.                                 *)
(***************************************************************************)
EXTENDS HostFiles, FiniteSets

CONSTANTS
  MaxSize,     (* bound: longest file                                     *)
  ChunkSize,   (* buffer.size()                                           *)
  Directions,  (* subset of "upload" (LocalToRemote), "download"          *)
  Resumes,     (* values of request.resume                                *)
  StaleSizes   (* sizes of unrelated files found at the destination       *)

ASSUME CopyAssumption ==
  /\ MaxSize \in Nat
  /\ ChunkSize \in Nat \ {0}
  /\ Directions \subseteq {"upload", "download"}
  /\ Resumes \subseteq BOOLEAN
  /\ StaleSizes \subseteq 0..MaxSize

Paths == {"source", "destination"}    \* request.source_path, destination_path

VARIABLES
  pc,          (* where run is                                            *)
  request,     (* direction, resume; whether local_write was given        *)
  directory,   (* request.source_path is a directory                      *)
  local, remote,   (* the files of the two hosts                          *)
  total,       (* item.total_bytes                                        *)
  resumed,     (* item.resume_offset                                      *)
  offset,      (* bytes copied, as run counts them                        *)
  cursor,      (* bytes taken so far from the side that is read           *)
  position,    (* where the next byte goes on the side that is written    *)
  buffer,      (* bytes read and not yet written                          *)
  handle,      (* the SFTP handle: "none", "open" or "closed"             *)
  progress,    (* bytes_transferred of the last on_progress               *)
  completions, (* results given to on_file_complete                       *)
  summaries,   (* summaries given to on_transfer_complete                 *)
  result       (* what run returned; FALSE before                         *)

hosts == <<local, remote>>
item == <<total, resumed>>
copying == <<offset, cursor, position, buffer>>
sink == <<progress, completions, summaries>>
input == <<request, directory>>
vars == <<pc, input, hosts, item, copying, handle, sink, result>>

Requests == [direction : Directions, resume : Resumes, writer : BOOLEAN]

Uploading == request.direction = "upload"

\* What may be at the destination of n bytes: nothing, an unrelated file, or the
\* beginning of the source that an interrupted copy has left.
Destinations(n) ==
  {<<>>} \cup {[p \in {"destination"} |-> f] :
                 f \in {Stale(m) : m \in StaleSizes} \cup {Numbered(m) : m \in 0..n}}

Source(n) == [p \in {"source"} |-> Numbered(n)]
Both(f, g) == [p \in DOMAIN f \cup DOMAIN g |-> IF p \in DOMAIN f THEN f[p] ELSE g[p]]

Init ==
  /\ pc = "plan"
  /\ request \in Requests
  /\ directory \in BOOLEAN
  /\ \E n \in 0..MaxSize : \E d \in Destinations(n) :
       IF Uploading THEN local = Source(n) /\ remote = d
                    ELSE local = <<>> /\ remote = Both(Source(n), d)
  /\ total = 0 /\ resumed = 0
  /\ offset = 0 /\ cursor = 0 /\ position = 0 /\ buffer = <<>>
  /\ handle = "none"
  /\ progress = 0 /\ completions = <<>> /\ summaries = <<>>
  /\ result = FALSE

-----------------------------------------------------------------------------
(* TransferPlanner::plan.  Whatever the direction, local_path is the        *)
(* request's source_path and remote_path its destination_path.              *)

LocalPath == "source"
RemotePath == "destination"

Size(host, path) == IF path \in DOMAIN host THEN Len(host[path]) ELSE 0

\* A directory plans nothing, recursive or not.
PlanNothing ==
  /\ pc = "plan" /\ directory
  /\ pc' = "finish"
  /\ UNCHANGED <<input, hosts, item, copying, handle, sink, result>>

\* local_stat is the caller's: for a download it may answer anything.  sftp_stat
\* answers size 0 for a file that is not there, and for one it cannot ask about.
\* The first on_progress says 0.
PlanFile ==
  /\ pc = "plan" /\ ~directory
  /\ \E n \in 0..MaxSize :
       /\ Uploading => n = Size(local, LocalPath)
       /\ total' = n
       /\ \E size \in {0, Size(remote, RemotePath)} :
            resumed' = IF request.resume THEN Least(size, n) ELSE 0
  /\ pc' = "open"
  /\ UNCHANGED <<input, hosts, copying, handle, sink, result>>

\* The server's files once it has opened the destination, and once it has taken
\* n bytes of the buffer.
OpenedRemote == Put(remote, RemotePath, Opened(Content(remote, RemotePath), resumed))
Written(n) ==
  Put(remote, RemotePath, Overwrite(remote[RemotePath], position, SubSeq(buffer, 1, n)))

\* An SFTP operation throws out of run; nothing closes an open handle.  The server
\* may have carried out the open or the write whose answer was lost.
Throw ==
  /\ pc \in {"plan", "open", "read", "write"}
  /\ pc = "plan" => request.resume
  /\ pc = "read" => ~Uploading
  /\ pc = "write" => Uploading
  /\ \/ UNCHANGED remote
     \/ pc = "open" /\ Uploading /\ remote' = OpenedRemote
     \/ pc = "write" /\ \E n \in 1..Len(buffer) : remote' = Written(n)
  /\ pc' = "threw"
  /\ UNCHANGED <<input, local, item, copying, handle, sink, result>>

-----------------------------------------------------------------------------
(* run, for the one item of the plan.                                       *)

\* sftp_open_write seeks to the offset.
OpenWrite ==
  /\ pc = "open" /\ Uploading
  /\ handle' = "open"
  /\ remote' = OpenedRemote
  /\ offset' = resumed /\ position' = resumed
  /\ pc' = "read"
  /\ UNCHANGED <<input, local, item, cursor, buffer, sink, result>>

\* Faulty Sought: the offset is not sought.
SoughtNever == 0

\* Where sftp_open_read seeks to.
Sought == resumed

\* run counts from 0 wherever it reads from.
OpenRead ==
  /\ pc = "open" /\ ~Uploading
  /\ RemotePath \in DOMAIN remote
  /\ handle' = "open"
  /\ cursor' = Sought
  /\ pc' = "read"
  /\ UNCHANGED <<input, hosts, item, offset, position, buffer, sink, result>>

Origin == IF Uploading THEN Content(local, LocalPath) ELSE Content(remote, RemotePath)

\* local_read (which is given no offset: it continues where it stopped) or
\* sftp_read: some of the bytes that are left, at most a chunk.
ReadChunk ==
  /\ pc = "read" /\ total > offset
  /\ \E n \in 1..ChunkSize :
       /\ n <= total - offset /\ cursor + n <= Len(Origin)
       /\ buffer' = SubSeq(Origin, cursor + 1, cursor + n)
       /\ cursor' = cursor + n
  /\ pc' = "write"
  /\ UNCHANGED <<input, hosts, item, offset, position, handle, sink, result>>

\* All counted bytes are done, or the read returned 0.
ReadDone ==
  /\ pc = "read"
  /\ pc' = "close"
  /\ UNCHANGED <<input, hosts, item, copying, handle, sink, result>>

\* sftp_write took n bytes; the rest of the buffer is forgotten.
WriteRemote ==
  /\ pc = "write" /\ Uploading
  /\ \E n \in 1..Len(buffer) :
       /\ remote' = Written(n)
       /\ position' = position + n
       /\ offset' = offset + n
       /\ progress' = offset + n
  /\ buffer' = <<>>
  /\ pc' = "read"
  /\ UNCHANGED <<input, local, item, cursor, handle, completions, summaries, result>>

\* local_write, if there is one, took n bytes; run counts all that were read.
WriteLocal ==
  /\ pc = "write" /\ ~Uploading
  /\ IF request.writer
     THEN \E n \in 1..Len(buffer) :
            /\ local' = Put(local, LocalPath,
                            Content(local, LocalPath) \o SubSeq(buffer, 1, n))
            /\ position' = position + n
     ELSE UNCHANGED <<local, position>>
  /\ offset' = offset + Len(buffer)
  /\ progress' = offset + Len(buffer)
  /\ buffer' = <<>>
  /\ pc' = "read"
  /\ UNCHANGED <<input, remote, item, cursor, handle, completions, summaries, result>>

\* A write that returns 0 ends the copy.
WriteRefused ==
  /\ pc = "write"
  /\ Uploading \/ request.writer
  /\ buffer' = <<>>
  /\ pc' = "close"
  /\ UNCHANGED <<input, hosts, item, offset, cursor, position, handle, sink, result>>

\* Faulty FileOk: an upload counts as a download does.
FileOkAnyByte == offset > 0

FileOk == IF Uploading THEN offset = total ELSE offset > 0

\* Faulty Heard: only a success reaches the sink.
HeardSuccess == IF FileOk THEN <<TRUE>> ELSE <<>>

\* What on_file_complete is given.
Heard == <<FileOk>>

Close ==
  /\ pc = "close"
  /\ handle' = "closed"
  /\ completions' = completions \o Heard
  /\ pc' = "finish"
  /\ UNCHANGED <<input, hosts, item, copying, progress, summaries, result>>

Count(b) == Cardinality({i \in DOMAIN completions : completions[i] = b})

Finish ==
  /\ pc = "finish"
  /\ summaries' = Append(summaries,
       [total_files |-> IF directory THEN 0 ELSE 1, succeeded |-> Count(TRUE),
        failed |-> Count(FALSE), total_bytes |-> progress])
  /\ result' = (Count(FALSE) = 0)
  /\ pc' = "returned"
  /\ UNCHANGED <<input, hosts, item, copying, handle, progress, completions>>

Done == pc \in {"returned", "threw"}
Terminated == Done /\ UNCHANGED vars

Next ==
  \/ PlanNothing \/ PlanFile \/ Throw
  \/ OpenWrite \/ OpenRead
  \/ ReadChunk \/ ReadDone \/ WriteRemote \/ WriteLocal \/ WriteRefused
  \/ Close \/ Finish
  \/ Terminated

Spec == Init /\ [][Next]_vars

-----------------------------------------------------------------------------
(* Properties.                                                              *)

Succeeded == pc = "returned" /\ result /\ ~directory

\* An upload from the beginning that reports success has copied the file, and
\* nothing of what was there before is left, though reads and writes may be short
\* (CopyService.cpp:38-61, LibsshAdapter.cpp:368-386).
UploadSuccessIsCopy ==
  Succeeded /\ Uploading /\ ~request.resume =>
    Content(remote, "destination") = Content(local, "source")

\* An upload from the beginning whose remote writes are whole has at every moment a
\* beginning of the source at the destination: exactly the bytes it counts or, once
\* an exception has left the handle open, also some of the chunk whose answer was
\* lost (CopyService.cpp:38-58, LibsshAdapter.cpp:368-421).
UploadInOrder ==
  Uploading /\ resumed = 0 /\ handle # "none" /\ cursor = position + Len(buffer) =>
    \E n \in 0..Len(buffer) :
      /\ n > 0 => pc = "threw"
      /\ Content(remote, "destination") = Prefix(Content(local, "source"), position + n)

\* The sink hears of each planned file once, then of the transfer once, and the
\* summary, the file results and the return value agree (CopyService.cpp:84-101).
ReportsAgree ==
  /\ summaries # <<>> <=> pc = "returned"
  /\ \A i \in DOMAIN summaries :
       /\ i = 1
       /\ summaries[i].total_files = Len(completions)
       /\ summaries[i].succeeded + summaries[i].failed = summaries[i].total_files
       /\ result = (summaries[i].failed = 0)
       /\ summaries[i].total_bytes = progress
  /\ pc = "returned" => handle # "open"

\* A resumed upload does not touch the bytes it resumes after
\* (LibsshAdapter.cpp:368-386: O_TRUNC only for offset 0).
ResumeKeepsPrefix ==
  [][resumed' > 0 /\ Uploading =>
       Prefix(Content(remote', "destination"), resumed') =
       Prefix(Content(remote, "destination"), resumed')]_vars

\* A resumed upload that reports success leaves the whole file
\* (TransferPlannerTest.cpp:36-54: it continues at the remote file's size).
ResumedUploadIsCopy ==
  Succeeded /\ Uploading /\ request.resume =>
    Content(remote, "destination") = Content(local, "source")

\* However short the reads, a download whose local writes are whole writes the
\* remote bytes from the resume offset on, in order and without a gap
\* (CopyService.cpp:63-82, LibsshAdapter.cpp:352-366).
DownloadInOrder ==
  ~Uploading /\ request.writer /\ position = offset =>
    LET got == Content(local, LocalPath)
        all == Content(remote, RemotePath)
    IN  /\ Len(got) = offset /\ resumed + offset <= Len(all)
        /\ \A i \in 1..offset : got[i] = all[resumed + i]
=============================================================================
