----------------------------- MODULE SftpTransfer -----------------------------
(***************************************************************************)
(* SftpTransfer::upload_file and download_file on the SFTP operations, and *)
(* the operations in any order by any other caller of the adapter.         *)
(***************************************************************************)
EXTENDS SftpAdapter

CONSTANTS
  Target,       (* remote_path of the transfer                             *)
  MaxSize,      (* bound: bytes of a file that is transferred              *)
  OtherSize,    (* bound: bytes of a file in the hands of another caller   *)
  kChunkSize

ASSUME TransferAssumption ==
  /\ Target \in Names
  /\ MaxSize \in Nat /\ OtherSize \in Nat
  /\ kChunkSize \in Nat \ {0}

VARIABLES
  job,      (* "upload" (upload_file), "download" (download_file), "other" *)
  pc,       (* where the transfer is                                       *)
  size,     (* size of data, or buffer_size                                *)
  offset,   (* offset of upload_file, total of download_file               *)
  buffer,   (* what download_file has put into the caller's buffer         *)
  origin    (* the remote file as it was found                             *)

input == <<job, size, origin>>
transfer == <<pc, offset, buffer>>
vars == <<adapter, input, transfer>>

Init ==
  /\ sftp_ = FALSE /\ link = "up"
  /\ handles = NoHandles /\ call = NoCall
  /\ job \in {"upload", "download", "other"}
  /\ size \in IF job = "other" THEN {0} ELSE 0..MaxSize
  /\ \E n \in IF job = "other" THEN {0} ELSE 0..MaxSize :
       \/ remote = [files |-> [p \in {Target} |-> Numbered(n)], dirs |-> {}]
       \/ n = 0 /\ remote = [files |-> [p \in {} |-> <<>>], dirs |-> {}]
       \/ n = 0 /\ remote = [files |-> [p \in {} |-> <<>>], dirs |-> {Target}]
  /\ origin = File(Target)
  /\ pc = "open" /\ offset = 0 /\ buffer = <<>>

-----------------------------------------------------------------------------
(* The two transfers.                                                       *)

Goto(next) == pc' = IF Threw' THEN "threw" ELSE next

BeginUpload ==
  /\ job = "upload" /\ pc = "open"
  /\ OpenWrite(Target, 0) \/ EnsureFails("open_write", Target, 0)
  /\ Goto("loop")
  /\ UNCHANGED <<input, offset, buffer>>

BeginDownload ==
  /\ job = "download" /\ pc = "open"
  /\ OpenRead(Target, 0) \/ EnsureFails("open_read", Target, 0)
  /\ Goto("loop")
  /\ UNCHANGED <<input, offset, buffer>>

Chunk == Least(kChunkSize, size - offset)
Handle == CHOOSE h \in DOMAIN handles : TRUE

\* Faulty Taken: the whole chunk is counted.
TakenWhole == Chunk

\* Bytes by which the last call has moved the transfer on; 0 ends the loop.
Taken == IF job = "upload" THEN Value' ELSE Len(Value')

UploadChunk ==
  /\ job = "upload" /\ pc = "loop" /\ offset < size
  /\ Write(Handle, SubSeq(Numbered(size), offset + 1, offset + Chunk))
  /\ IF Threw' THEN UNCHANGED offset ELSE offset' = offset + Taken
  /\ Goto(IF offset' = offset THEN "stopped" ELSE "loop")
  /\ UNCHANGED <<input, buffer>>

DownloadChunk ==
  /\ job = "download" /\ pc = "loop" /\ offset < size
  /\ Read(Handle, Chunk)
  /\ IF Threw' THEN UNCHANGED <<offset, buffer>>
              ELSE offset' = offset + Taken /\ buffer' = buffer \o Value'
  /\ Goto(IF offset' = offset THEN "stopped" ELSE "loop")
  /\ UNCHANGED input

\* Faulty CloseHandle: a write that took nothing returns before sftp_close.
CloseOnlyWhole == IF pc = "loop" THEN Close(Handle) ELSE UNCHANGED adapter

CloseHandle == Close(Handle)

\* upload_file returns whether all was written, download_file how much was read.
CloseAndReturn ==
  /\ pc = "stopped" \/ (pc = "loop" /\ offset = size)
  /\ CloseHandle
  /\ pc' = IF job = "upload" /\ pc = "stopped" THEN "failed" ELSE "succeeded"
  /\ UNCHANGED <<input, offset, buffer>>

Step == BeginUpload \/ BeginDownload \/ UploadChunk \/ DownloadChunk \/ CloseAndReturn

-----------------------------------------------------------------------------
(* Any other caller.                                                        *)

Requests(path) ==
  \/ Stat(path) \/ Mkdir(path) \/ Remove(path)
  \/ \E n \in 0..OtherSize : SetAttributes(path, n) \/ OpenRead(path, n) \/ OpenWrite(path, n)
  \/ EnsureFails("any", path, 0)

OnHandle(h) ==
  \/ \E n \in 1..OtherSize : Read(h, n)
  \/ \E n \in 1..OtherSize - handles[h].position : Write(h, Numbered(n))
  \/ Close(h)

OtherCall ==
  /\ job = "other"
  /\ \/ \E path \in Names : Requests(path)
     \/ ListDirectory
     \/ \E h \in DOMAIN handles : OnHandle(h)
  /\ UNCHANGED <<input, transfer>>

Done == pc \in {"succeeded", "failed", "threw"}
Terminated == Done /\ UNCHANGED vars

Next == Step \/ OtherCall \/ Terminated

\* The thread that runs the transfer is scheduled, and every request is answered
\* or found to be lost: a silent link is left out here.
Spec == Init /\ [][Next]_vars /\ WF_vars(Step)

-----------------------------------------------------------------------------
(* Properties.                                                              *)

\* An operation that returns has been carried out, whatever was refused or lost
\* before: the directory is there, the file gone, the size set (unless it is 0),
\* the opened file fresh, the bytes where the handle was; what stat and list say
\* exists does (LibsshAdapter.cpp:307-433).
ReturnedMeansDone ==
  ~Threw =>
    /\ Op = "mkdir" => Path \in remote.dirs
    /\ Op = "remove" => ~Exists(Path)
    /\ Op = "set_attributes" /\ Given > 0 => Len(File(Path)) = Given
    /\ Op = "open_write" => IsFile(Path) /\ (Given = 0 => File(Path) = <<>>)
    /\ Op = "stat" /\ Value.exists => Value = Attributes(Path)
    /\ Op = "list" => \A p \in Value : Exists(p)
    /\ Op = "write" =>
         SubSeq(File(Path), Given.at + 1, Given.at + Value) = Prefix(Given.bytes, Value)

\* A transfer that returns, on whichever of its ways, has closed its handle; only
\* an exception leaves it open (SftpTransfer.cpp:9-45).
HandleClosed ==
  job # "other" =>
    /\ DOMAIN handles # {} => pc \in {"loop", "stopped", "threw"}
    /\ pc = "loop" => DOMAIN handles # {}

\* Both transfers keep the promise of Transfer: short writes and reads lose and
\* repeat nothing, and both end (SftpTransfer.cpp:9-45).
Phase ==
  IF job = "other" THEN "idle" ELSE IF Done THEN pc ELSE "running"
Whole == IF job = "upload" THEN Numbered(size) ELSE Prefix(origin, size)
Destination == IF job = "upload" THEN File(Target) ELSE buffer

\* The destination counts once it is open: as a beginning of the file, or as none.
IsOpened == DOMAIN handles # {} \/ pc \in {"succeeded", "failed"}
Copied ==
  IF job = "other" \/ ~IsOpened THEN 0
  ELSE IF Destination = Prefix(Whole, Len(Destination)) THEN Len(Destination) ELSE -1

Abstract == INSTANCE Transfer WITH phase <- Phase, file <- Whole, copied <- Copied
ImplementsTransfer == Abstract!Spec
=============================================================================
