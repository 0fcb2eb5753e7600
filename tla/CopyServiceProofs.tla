--------------------------- MODULE CopyServiceProofs ---------------------------
(***************************************************************************)
(* Proofs about CopyService: for files of every length, every chunk size,  *)
(* whatever is at the destination and however short a read or a write is.  *)
(***************************************************************************)
EXTENDS CopyService, FiniteSetTheorems, TLAPS

PCs == {"plan", "open", "read", "write", "close", "finish", "returned", "threw"}

Bytes == Seq(Nat)
Files(host) == DOMAIN host \subseteq Paths /\ \A p \in DOMAIN host : host[p] \in Bytes

\* What is at the two ends of an upload.
Here == Content(local, "source")
There == Content(remote, "destination")

TypeOK ==
  /\ pc \in PCs
  /\ request \in Requests /\ directory \in BOOLEAN
  /\ Files(local) /\ Files(remote)
  /\ total \in Nat /\ resumed \in Nat
  /\ offset \in Nat /\ cursor \in Nat /\ position \in Nat
  /\ buffer \in Bytes

\* Where the handle is open, and what holds before it is.
Stages ==
  /\ handle \in {"none", "open", "closed"}
  /\ pc \in {"plan", "open"} => handle = "none"
  /\ pc \in {"read", "write", "close"} => handle = "open"
  /\ pc \in {"finish", "returned"} => handle = IF directory THEN "none" ELSE "closed"
  /\ pc \in {"open", "read", "write", "close"} => ~directory
  /\ pc \notin {"write", "threw"} => buffer = <<>>
  /\ handle = "none" => offset = 0 /\ cursor = 0 /\ position = 0 /\ buffer = <<>>
  /\ pc = "plan" => resumed = 0

\* What the sink has heard of the file.
Heard1 ==
  /\ pc \notin {"finish", "returned"} => completions = <<>>
  /\ pc \in {"finish", "returned"} => completions = IF directory THEN <<>> ELSE <<FileOk>>
  /\ Succeeded => FileOk

\* What the plan says of the files, and goes on saying.
Planned ==
  /\ Uploading /\ handle # "none" => total = Len(Here)
  /\ Uploading /\ pc = "open" => total = Len(Here)
  /\ ~request.resume => resumed = 0
  /\ resumed <= Len(There)

\* The bytes of an upload: read in order from the beginning of the source, and
\* written from the resume offset on.
UploadAccount ==
  Uploading /\ handle # "none" =>
    /\ "destination" \in DOMAIN remote
    /\ offset = position /\ resumed <= position
    /\ cursor <= Len(Here) /\ Len(buffer) <= cursor
    /\ \A i \in 1..Len(buffer) : buffer[i] = Here[cursor - Len(buffer) + i]
    /\ resumed = 0 => position + Len(buffer) <= cursor

\* The bytes of a download: read from the resume offset on, appended to what is
\* written.
DownloadAccount ==
  ~Uploading =>
    /\ Len(Here) = position /\ position <= offset
    /\ resumed + offset <= Len(There)
    /\ pc \in {"read", "write"} =>
         cursor = resumed + offset + Len(buffer) /\ cursor <= Len(There)
    /\ \A i \in 1..Len(buffer) : pc = "write" => buffer[i] = There[resumed + offset + i]

IInv ==
  /\ TypeOK /\ Stages /\ Heard1 /\ Planned /\ UploadAccount /\ DownloadAccount
  /\ UploadInOrder /\ DownloadInOrder /\ ReportsAgree

-----------------------------------------------------------------------------
(* Files and hosts.                                                         *)

\* What is read at a path is a sequence of bytes.
LEMMA ContentBytes ==
  ASSUME NEW host, Files(host), NEW path
  PROVE  Content(host, path) \in Bytes
  BY DEF Files, Content, Bytes

\* A file that is put at a path is what is read there.
LEMMA PutContent ==
  ASSUME NEW host, Files(host), NEW path \in Paths, NEW file \in Bytes
  PROVE  /\ Files(Put(host, path, file))
         /\ path \in DOMAIN Put(host, path, file)
         /\ Put(host, path, file)[path] = file
         /\ Content(Put(host, path, file), path) = file
  BY DEF Files, Put, Content

\* Files of one length that agree at every byte are equal.
LEMMA SameBytes ==
  ASSUME NEW f \in Bytes, NEW g \in Bytes, Len(f) = Len(g), \A i \in 1..Len(f) : f[i] = g[i]
  PROVE  f = g
  BY DEF Bytes

\* The n bytes after the first at of a file.
LEMMA SliceBytes ==
  ASSUME NEW f \in Bytes, NEW at \in Nat, NEW n \in Nat, at + n <= Len(f)
  PROVE  /\ SubSeq(f, at + 1, at + n) \in Bytes /\ Len(SubSeq(f, at + 1, at + n)) = n
         /\ \A i \in 1..n : SubSeq(f, at + 1, at + n)[i] = f[at + i]
<1>1. Len(f) \in Nat /\ f \in Seq(Nat)
  BY DEF Bytes
<1>2. SubSeq(f, at + 1, at + n) = [i \in 1..n |-> f[at + i]]
  <2>1. at + n - (at + 1) + 1 = n
    OBVIOUS
  <2>2. \A i \in 1..n : at + 1 + i - 1 = at + i
    OBVIOUS
  <2> QED
    BY <1>1, <2>1, <2>2
<1>3. ASSUME NEW i \in 1..n PROVE f[at + i] \in Nat
  BY <1>1
<1>4. [i \in 1..n |-> f[at + i]] \in Seq(Nat) /\ Len([i \in 1..n |-> f[at + i]]) = n
  BY <1>3
<1> QED
  BY <1>2, <1>4 DEF Bytes

\* The first n bytes of a file.
LEMMA FrontBytes ==
  ASSUME NEW f \in Bytes, NEW n \in Nat, n <= Len(f)
  PROVE  /\ SubSeq(f, 1, n) \in Bytes /\ Len(SubSeq(f, 1, n)) = n
         /\ \A i \in 1..n : SubSeq(f, 1, n)[i] = f[i]
<1>1. 0 + 1 = 1 /\ 0 + n = n /\ \A i \in 1..n : 0 + i = i
  OBVIOUS
<1>2. /\ SubSeq(f, 0 + 1, 0 + n) \in Bytes /\ Len(SubSeq(f, 0 + 1, 0 + n)) = n
      /\ \A i \in 1..n : SubSeq(f, 0 + 1, 0 + n)[i] = f[0 + i]
  BY <1>1, SliceBytes
<1>3. ASSUME NEW i \in 1..n PROVE SubSeq(f, 1, n)[i] = f[i]
  BY Zenon, <1>1, <1>2, <1>3
<1> QED
  BY Zenon, <1>1, <1>2, <1>3

\* The bytes of two files joined.
LEMMA JoinBytes ==
  ASSUME NEW f \in Bytes, NEW g \in Bytes
  PROVE  /\ f \o g \in Bytes /\ Len(f \o g) = Len(f) + Len(g)
         /\ \A i \in 1..Len(f) : (f \o g)[i] = f[i]
         /\ \A i \in Len(f) + 1..Len(f) + Len(g) : (f \o g)[i] = g[i - Len(f)]
<1>1. f \in Seq(Nat) /\ g \in Seq(Nat) /\ Len(f) \in Nat /\ Len(g) \in Nat
  BY DEF Bytes
<1>2. f \o g \in Bytes /\ Len(f \o g) = Len(f) + Len(g)
  BY <1>1 DEF Bytes
<1>3. ASSUME NEW i \in 1..Len(f) PROVE (f \o g)[i] = f[i]
  BY <1>1
<1>4. ASSUME NEW i \in Len(f) + 1..Len(f) + Len(g) PROVE (f \o g)[i] = g[i - Len(f)]
  BY <1>1
<1> QED
  BY <1>2, <1>3, <1>4

\* The prefix of n bytes has the first n bytes of the file.
LEMMA PrefixBytes ==
  ASSUME NEW f \in Bytes, NEW n \in Nat, n <= Len(f)
  PROVE  /\ Prefix(f, n) \in Bytes /\ Len(Prefix(f, n)) = n
         /\ \A i \in 1..n : Prefix(f, n)[i] = f[i]
<1>1. Prefix(f, n) = SubSeq(f, 1, n)
  BY DEF Prefix, Least
<1> QED
  BY <1>1, FrontBytes

\* The prefix of full length is the file.
LEMMA WholePrefix ==
  ASSUME NEW f \in Bytes
  PROVE  Prefix(f, Len(f)) = f
<1>1. Len(f) \in Nat
  BY DEF Bytes
<1> QED
  BY <1>1, PrefixBytes, SameBytes

\* Overwriting at an offset leaves what is before it and puts the bytes from there on.
LEMMA OverwriteBytes ==
  ASSUME NEW f \in Bytes, NEW at \in Nat, NEW b \in Bytes
  PROVE  /\ Overwrite(f, at, b) \in Bytes
         /\ Len(f) <= Len(Overwrite(f, at, b))
         /\ Len(f) <= at + Len(b) => Len(Overwrite(f, at, b)) = at + Len(b)
         /\ \A i \in 1..Len(f) : i <= at => Overwrite(f, at, b)[i] = f[i]
         /\ \A i \in at + 1..at + Len(b) : Overwrite(f, at, b)[i] = b[i - at]
<1> DEFINE m == IF Len(f) > at + Len(b) THEN Len(f) ELSE at + Len(b)
           byte(i) == IF i \in at + 1..at + Len(b) THEN b[i - at]
                      ELSE IF i <= Len(f) THEN f[i] ELSE 0
<1>1. Len(f) \in Nat /\ Len(b) \in Nat
  BY DEF Bytes
<1>2. m \in Nat /\ Len(f) <= m /\ at + Len(b) <= m /\ (Len(f) <= at + Len(b) => m = at + Len(b))
  BY <1>1
<1>3. Overwrite(f, at, b) = [i \in 1..m |-> byte(i)]
  BY DEF Overwrite
<1>4. ASSUME NEW i \in 1..m PROVE byte(i) \in Nat
  <2>1. CASE i \in at + 1..at + Len(b)
    <3>1. i - at \in 1..Len(b)
      BY <1>1, <2>1
    <3> QED
      BY <2>1, <3>1 DEF Bytes
  <2>2. CASE i \notin at + 1..at + Len(b) /\ i <= Len(f)
    BY <1>1, <1>2, <2>2 DEF Bytes
  <2>3. CASE i \notin at + 1..at + Len(b) /\ ~(i <= Len(f))
    BY <2>3
  <2> QED
    BY <2>1, <2>2, <2>3
<1>5. ASSUME NEW i \in 1..Len(f), i <= at PROVE i \in 1..m /\ byte(i) = f[i]
  BY <1>1, <1>2, <1>5
<1>6. ASSUME NEW i \in at + 1..at + Len(b) PROVE i \in 1..m /\ byte(i) = b[i - at]
  BY <1>1, <1>2
<1> HIDE DEF m, byte
<1> DEFINE file == [i \in 1..m |-> byte(i)]
<1>7. file \in Seq(Nat) /\ Len(file) = m
  BY <1>2, <1>4
<1>8. \A i \in 1..m : file[i] = byte(i)
  OBVIOUS
<1> HIDE DEF file
<1> QED
  BY <1>2, <1>3, <1>5, <1>6, <1>7, <1>8 DEF Bytes, file

-----------------------------------------------------------------------------
(* The invariant.                                                           *)

\* The files of the initial states are sequences of bytes.
LEMMA NumberedBytes ==
  ASSUME NEW n \in Nat
  PROVE  Numbered(n) \in Bytes /\ Stale(n) \in Bytes
  BY DEF Numbered, Stale, Bytes

\* At first both hosts have files, and the local one has none before a download.
LEMMA InitFiles == Init => Files(local) /\ Files(remote) /\ (~Uploading => local = <<>>)
<1> SUFFICES ASSUME Init PROVE Files(local) /\ Files(remote) /\ (~Uploading => local = <<>>)
  OBVIOUS
<1>1. PICK n \in 0..MaxSize : \E d \in Destinations(n) :
        IF Uploading THEN local = Source(n) /\ remote = d
                     ELSE local = <<>> /\ remote = Both(Source(n), d)
  BY DEF Init
<1>2. PICK d \in Destinations(n) :
        IF Uploading THEN local = Source(n) /\ remote = d
                     ELSE local = <<>> /\ remote = Both(Source(n), d)
  BY <1>1
<1>3. n \in Nat /\ \A m \in StaleSizes : m \in Nat
  BY CopyAssumption DEF CopyAssumption
<1>4. Files(Source(n))
  BY <1>3, NumberedBytes DEF Files, Source, Paths
<1>5. Files(<<>>)
  BY DEF Files
<1>6. Files(d)
  <2>1. CASE d = <<>>
    BY <1>5, <2>1
  <2>2. ASSUME NEW f \in Bytes, d = [p \in {"destination"} |-> f] PROVE Files(d)
    BY <2>2 DEF Files, Paths
  <2>3. \A m \in StaleSizes : Stale(m) \in Bytes
    BY <1>3, NumberedBytes
  <2>4. \A m \in 0..n : Numbered(m) \in Bytes
    BY <1>3, NumberedBytes
  <2> QED
    BY <2>1, <2>2, <2>3, <2>4 DEF Destinations
<1>7. Files(Both(Source(n), d))
  BY <1>4, <1>6 DEF Files, Both
<1> QED
  BY <1>2, <1>4, <1>5, <1>6, <1>7

\* The invariant holds at first.
LEMMA InitIInv == Init => IInv
<1> SUFFICES ASSUME Init PROVE IInv
  OBVIOUS
<1>1. /\ pc = "plan" /\ request \in Requests /\ directory \in BOOLEAN
      /\ total = 0 /\ resumed = 0 /\ offset = 0 /\ cursor = 0 /\ position = 0
      /\ buffer = <<>> /\ handle = "none" /\ completions = <<>> /\ summaries = <<>>
  BY DEF Init
<1>2. Files(local) /\ Files(remote) /\ (~Uploading => local = <<>>)
  BY InitFiles
<1>3. TypeOK
  BY <1>1, <1>2 DEF TypeOK, PCs, Bytes
<1>4. Here \in Bytes /\ There \in Bytes /\ Len(Here) \in Nat /\ Len(There) \in Nat
  BY <1>2, ContentBytes DEF Here, There, Bytes
<1>5. ~Uploading => Here = <<>>
  BY <1>2 DEF Here, Content
<1>6. DownloadAccount /\ DownloadInOrder
  BY <1>1, <1>4, <1>5 DEF DownloadAccount, DownloadInOrder, Here, There, LocalPath, RemotePath
<1>7. Stages /\ Heard1 /\ Planned
  BY <1>1, <1>4 DEF Stages, Heard1, Planned, Succeeded
<1>8. UploadAccount /\ UploadInOrder /\ ReportsAgree
  BY <1>1 DEF UploadAccount, UploadInOrder, ReportsAgree
<1> QED
  BY <1>3, <1>6, <1>7, <1>8 DEF IInv

\* While run goes on the destination of an upload from the beginning is exactly
\* what has been counted.
LEMMA InOrderExactly ==
  ASSUME IInv, pc # "threw", Uploading, resumed = 0, handle # "none",
         cursor = position + Len(buffer)
  PROVE  There = Prefix(Here, position)
<1>1. PICK n \in 0..Len(buffer) : /\ n > 0 => pc = "threw"
                                  /\ There = Prefix(Here, position + n)
  BY DEF IInv, UploadInOrder, There, Here
<1>2. n = 0 /\ position + n = position
  <2>1. n \in Nat /\ position \in Nat
    BY DEF IInv, TypeOK, Bytes
  <2> QED
    BY <1>1, <2>1
<1> QED
  BY <1>1, <1>2

\* And a step after which it is so keeps an upload in order.
LEMMA InOrderAfter ==
  ASSUME position' \in Nat, Len(buffer') \in Nat,
         Uploading' /\ resumed' = 0 /\ handle' # "none" /\ cursor' = position' + Len(buffer')
           => There' = Prefix(Here', position')
  PROVE  UploadInOrder'
<1>1. \A n, m \in Nat : 0 \in 0..n /\ m + 0 = m
  OBVIOUS
<1>2. 0 \in 0..Len(buffer)' /\ position' + 0 = position'
  BY <1>1
<1>3. ASSUME (Uploading /\ resumed = 0 /\ handle # "none" /\ cursor = position + Len(buffer))'
      PROVE  (\E n \in 0..Len(buffer) : /\ n > 0 => pc = "threw"
                                        /\ There = Prefix(Here, position + n))'
  <2>1. There' = Prefix(Here', position' + 0)
    BY <1>2, <1>3
  <2>2. 0 > 0 => pc' = "threw"
    BY SMT
  <2> QED
    BY <1>2, <2>1, <2>2, Zenon
<1> QED
  BY <1>3, Zenon DEF UploadInOrder, Here, There

\* The steps that neither plan, copy nor report.
LEMMA QuietStep ==
  ASSUME IInv, PlanNothing \/ (Throw /\ UNCHANGED remote) \/ ReadDone \/ WriteRefused
  PROVE  IInv'
<1> USE DEF PlanNothing, Throw, ReadDone, WriteRefused, input, hosts, item, copying, sink
<1>1. /\ UNCHANGED <<request, directory, local, remote, total, resumed, offset, cursor>>
      /\ UNCHANGED <<position, handle, progress, completions, summaries, result>>
      /\ Uploading' = Uploading /\ Here' = Here /\ There' = There
      /\ buffer' = buffer \/ (buffer' = <<>> /\ pc' = "close")
      /\ pc \in PCs \ {"returned", "threw", "finish", "close"}
      /\ pc' \in {"finish", "threw", "close"}
      /\ pc' = "close" => pc \in {"read", "write"}
      /\ pc' = "finish" => directory /\ pc = "plan"
  BY DEF Uploading, Here, There, PCs, IInv, Stages, TypeOK
<1>2. TypeOK'
  <2>1. buffer' \in Bytes
    <3>1. <<>> \in Bytes
      BY DEF Bytes
    <3> QED
      BY <1>1, <3>1 DEF IInv, TypeOK
  <2>2. Files(local)' /\ Files(remote)'
    BY <1>1 DEF IInv, TypeOK, Files
  <2> QED
    BY <1>1, <2>1, <2>2 DEF IInv, TypeOK, PCs
<1>3. Stages' /\ Heard1' /\ Planned'
  BY <1>1 DEF IInv, Stages, Heard1, Planned, Succeeded
<1>4. Len(buffer) \in Nat /\ (buffer' = <<>> => Len(buffer') = 0)
  BY DEF IInv, TypeOK, Bytes
<1>5. DownloadAccount'
  BY <1>1 DEF IInv, DownloadAccount
<1>6. UploadAccount' /\ UploadInOrder'
  <2>1. Len(buffer') \in Nat /\ cursor \in Nat /\ position \in Nat
    BY <1>1, <1>4 DEF IInv, TypeOK
  <2>2. UploadAccount'
    <3>1. CASE buffer' = buffer
      BY <1>1, <3>1 DEF IInv, UploadAccount
    <3>2. CASE buffer' = <<>>
      BY <1>1, <1>4, <2>1, <3>2 DEF IInv, UploadAccount
    <3> QED
      BY <1>1, <3>1, <3>2
  <2>3. ASSUME Uploading, resumed = 0, handle # "none", cursor = position + Len(buffer')
        PROVE  There = Prefix(Here, position)
    <3>1. cursor = position + Len(buffer)
      <4>1. CASE buffer' = buffer
        BY <2>3, <4>1
      <4>2. CASE buffer' = <<>>
        BY <1>4, <2>1, <2>3, <4>2 DEF IInv, UploadAccount
      <4> QED
        BY <1>1, <4>1, <4>2
    <3>2. pc # "threw"
      BY <1>1
    <3> QED
      BY <2>3, <3>1, <3>2, InOrderExactly
  <2>4. UploadInOrder'
    BY <1>1, <2>1, <2>3, InOrderAfter
  <2> QED
    BY <2>2, <2>4
<1>7. DownloadInOrder' /\ ReportsAgree'
  BY <1>1 DEF IInv, DownloadInOrder, ReportsAgree, Uploading
<1> QED
  BY <1>2, <1>3, <1>5, <1>6, <1>7 DEF IInv

\* A step that changes nothing keeps the invariant.
LEMMA StillStep ==
  ASSUME IInv, Terminated \/ UNCHANGED vars
  PROVE  IInv'
<1>1. UNCHANGED vars
  BY DEF Terminated
<1> USE <1>1 DEF vars, input, hosts, item, copying, sink
<1>2. Uploading' = Uploading /\ Here' = Here /\ There' = There /\ Files(local)' /\ Files(remote)'
  BY DEF Uploading, Here, There, IInv, TypeOK, Files
<1>3. TypeOK' /\ Stages'
  BY <1>2 DEF IInv, TypeOK, Stages
<1>4. Heard1' /\ Planned'
  BY <1>2 DEF IInv, Heard1, Planned, FileOk, Succeeded
<1>5. UploadAccount' /\ DownloadAccount'
  BY <1>2 DEF IInv, UploadAccount, DownloadAccount
<1>6. UploadInOrder' /\ DownloadInOrder' /\ ReportsAgree'
  BY DEF IInv, UploadInOrder, DownloadInOrder, ReportsAgree, Uploading
<1> QED
  BY <1>3, <1>4, <1>5, <1>6 DEF IInv

\* The resume offset is never beyond what is at the destination.
LEMMA PlanStep ==
  ASSUME IInv, PlanFile
  PROVE  IInv'
<1>1. /\ pc = "plan" /\ ~directory /\ pc' = "open" /\ handle = "none"
      /\ UNCHANGED <<request, directory, local, remote, offset, cursor, position, buffer>>
      /\ UNCHANGED <<handle, progress, completions, summaries, result>>
      /\ Uploading' = Uploading /\ Here' = Here /\ There' = There
  BY DEF PlanFile, input, hosts, copying, sink, Uploading, Here, There, IInv, Stages
<1>2. Here \in Bytes /\ There \in Bytes /\ Len(Here) \in Nat /\ Len(There) \in Nat
  BY ContentBytes DEF IInv, TypeOK, Here, There, Bytes
<1>3. Size(remote, RemotePath) = Len(There) /\ Size(local, LocalPath) = Len(Here)
  <2>1. Len(<<>>) = 0
    OBVIOUS
  <2> QED
    BY <2>1 DEF Size, There, Here, Content, RemotePath, LocalPath
<1>4. PICK n \in 0..MaxSize :
        /\ Uploading => n = Len(Here)
        /\ total' = n
        /\ \E size \in {0, Len(There)} : resumed' = IF request.resume THEN Least(size, n) ELSE 0
  BY <1>3 DEF PlanFile
<1>5. n \in Nat
  BY CopyAssumption DEF CopyAssumption
<1>6. resumed' \in Nat /\ resumed' <= Len(There) /\ (~request.resume => resumed' = 0)
  BY <1>2, <1>4, <1>5 DEF Least
<1>7. TypeOK'
  <2>1. Files(local)' /\ Files(remote)'
    BY <1>1 DEF IInv, TypeOK, Files
  <2> QED
    BY <1>1, <1>4, <1>5, <1>6, <2>1 DEF IInv, TypeOK, PCs
<1>8. Stages' /\ Heard1'
  BY <1>1 DEF IInv, Stages, Heard1, Succeeded
<1>9. Planned'
  BY <1>1, <1>4, <1>6 DEF IInv, Planned
<1>10. UploadAccount' /\ UploadInOrder'
  BY <1>1 DEF UploadAccount, UploadInOrder
<1>11. /\ offset = 0 /\ cursor = 0 /\ position = 0 /\ buffer = <<>> /\ Len(buffer) = 0
  BY <1>1 DEF IInv, Stages
<1>12. DownloadAccount'
  BY <1>1, <1>2, <1>6, <1>11 DEF IInv, DownloadAccount
<1>13. DownloadInOrder'
  BY <1>1, <1>2, <1>6, <1>11
  DEF IInv, DownloadInOrder, DownloadAccount, Here, There, LocalPath, RemotePath
<1>14. ReportsAgree'
  BY <1>1 DEF IInv, ReportsAgree
<1> QED
  BY <1>7, <1>8, <1>9, <1>10, <1>12, <1>13, <1>14 DEF IInv

\* Only an upload from the beginning empties what it opens.
LEMMA OpenedBytes ==
  ASSUME IInv
  PROVE  LET file == Content(OpenedRemote, "destination")
         IN  /\ file \in Bytes /\ Files(OpenedRemote) /\ "destination" \in DOMAIN OpenedRemote
             /\ (resumed = 0 => file = <<>>) /\ (resumed # 0 => file = There)
             /\ resumed <= Len(file)
<1>1. There \in Bytes /\ Files(remote) /\ RemotePath \in Paths /\ <<>> \in Bytes
  BY ContentBytes DEF IInv, TypeOK, There, RemotePath, Paths, Bytes
<1>2. Opened(There, resumed) \in Bytes
  BY <1>1 DEF Opened
<1>3. OpenedRemote = Put(remote, RemotePath, Opened(There, resumed))
  BY DEF OpenedRemote, There, RemotePath
<1>4. /\ Files(OpenedRemote) /\ RemotePath \in DOMAIN OpenedRemote
      /\ Content(OpenedRemote, RemotePath) = Opened(There, resumed)
  BY <1>1, <1>2, <1>3, PutContent
<1>5. resumed \in Nat /\ resumed <= Len(There) /\ Len(<<>>) = 0
  BY DEF IInv, TypeOK, Planned
<1> QED
  BY <1>1, <1>2, <1>4, <1>5 DEF Opened, RemotePath

\* The same of the file as it is after the open.
LEMMA OpenedThere ==
  ASSUME IInv, remote' = OpenedRemote
  PROVE  /\ There' \in Bytes /\ Files(remote)' /\ "destination" \in DOMAIN remote'
         /\ (resumed = 0 => There' = <<>>) /\ (resumed # 0 => There' = There)
         /\ resumed <= Len(There')
<1>1. There' = Content(OpenedRemote, "destination") /\ (Files(remote)' <=> Files(OpenedRemote))
  BY DEF There, Files
<1> QED
  BY <1>1, OpenedBytes

\* Opening the file to write keeps the invariant.
LEMMA OpenWriteStep ==
  ASSUME IInv, OpenWrite
  PROVE  IInv'
<1>1. /\ pc = "open" /\ pc' = "read" /\ Uploading /\ handle = "none" /\ handle' = "open"
      /\ UNCHANGED <<request, directory, local, total, resumed, cursor, buffer>>
      /\ UNCHANGED <<progress, completions, summaries, result>>
      /\ offset' = resumed /\ position' = resumed
      /\ Uploading' = Uploading /\ Here' = Here
  BY DEF OpenWrite, input, item, sink, Uploading, Here, IInv, Stages
<1>2. /\ There' \in Bytes /\ Files(remote)' /\ "destination" \in DOMAIN remote'
      /\ (resumed = 0 => There' = <<>>) /\ resumed <= Len(There')
  BY OpenedThere DEF OpenWrite
<1>3. cursor = 0 /\ buffer = <<>> /\ Len(buffer) = 0 /\ resumed \in Nat
  BY <1>1 DEF IInv, Stages, TypeOK
<1>4. Here \in Bytes /\ Len(Here) \in Nat
  BY ContentBytes DEF IInv, TypeOK, Here, Bytes
<1>5. TypeOK'
  <2>1. Files(local)'
    BY <1>1 DEF IInv, TypeOK, Files
  <2> QED
    BY <1>1, <1>2, <2>1 DEF IInv, TypeOK, PCs
<1>6. Stages' /\ Heard1' /\ Planned'
  BY <1>1, <1>2 DEF IInv, Stages, Heard1, Planned, Succeeded
<1>7. UploadAccount' /\ DownloadAccount' /\ DownloadInOrder'
  BY <1>1, <1>2, <1>3, <1>4 DEF UploadAccount, DownloadAccount, DownloadInOrder
<1>8. UploadInOrder'
  <2>1. Prefix(Here, 0) \in Bytes /\ Len(Prefix(Here, 0)) = 0
    BY <1>4, PrefixBytes
  <2>2. Prefix(Here, 0) = <<>>
    BY <2>1 DEF Bytes
  <2>3. resumed = 0 => position' + 0 = 0
    BY <1>1
  <2>4. resumed = 0 => There' = Prefix(Here, position' + 0)
    BY <1>2, <2>2, <2>3
  <2>5. Len(buffer') = 0 /\ 0 \in 0..Len(buffer')
    BY <1>1, <1>3
  <2> QED
    BY <1>1, <2>4, <2>5 DEF UploadInOrder, Here, There
<1>9. ReportsAgree'
  BY <1>1 DEF IInv, ReportsAgree
<1> QED
  BY <1>5, <1>6, <1>7, <1>8, <1>9 DEF IInv

\* Opening the file to read keeps the invariant.
LEMMA OpenReadStep ==
  ASSUME IInv, OpenRead
  PROVE  IInv'
<1>1. /\ pc = "open" /\ pc' = "read" /\ ~Uploading /\ handle = "none" /\ handle' = "open"
      /\ UNCHANGED <<request, directory, local, remote, total, resumed, offset, position>>
      /\ UNCHANGED <<buffer, progress, completions, summaries, result>>
      /\ cursor' = resumed
      /\ Uploading' = Uploading /\ Here' = Here /\ There' = There
  BY DEF OpenRead, Sought, input, hosts, item, sink, Uploading, Here, There, IInv, Stages
<1>2. /\ offset = 0 /\ position = 0 /\ buffer = <<>> /\ Len(buffer) = 0
      /\ resumed \in Nat /\ resumed <= Len(There)
  BY <1>1 DEF IInv, Stages, TypeOK, Planned
<1>3. TypeOK'
  <2>1. Files(local)' /\ Files(remote)'
    BY <1>1 DEF IInv, TypeOK, Files
  <2> QED
    BY <1>1, <1>2, <2>1 DEF IInv, TypeOK, PCs
<1>4. Stages' /\ Heard1' /\ Planned'
  BY <1>1 DEF IInv, Stages, Heard1, Planned, Succeeded
<1>5. UploadAccount' /\ DownloadAccount' /\ UploadInOrder'
  BY <1>1, <1>2 DEF IInv, UploadAccount, DownloadAccount, UploadInOrder
<1>6. DownloadInOrder' /\ ReportsAgree'
  BY <1>1 DEF IInv, DownloadInOrder, ReportsAgree
<1> QED
  BY <1>3, <1>4, <1>5, <1>6 DEF IInv

\* What is read is what comes next on the side that is read.
LEMMA ReadChunkStep ==
  ASSUME IInv, ReadChunk
  PROVE  IInv'
<1>1. /\ pc = "read" /\ pc' = "write" /\ handle = "open" /\ buffer = <<>>
      /\ UNCHANGED <<request, directory, local, remote, total, resumed, offset, position>>
      /\ UNCHANGED <<handle, progress, completions, summaries, result>>
      /\ Uploading' = Uploading /\ Here' = Here /\ There' = There
  BY DEF ReadChunk, input, hosts, item, sink, Uploading, Here, There, IInv, Stages
<1>2. Origin = IF Uploading THEN Here ELSE There
  BY DEF Origin, Here, There, LocalPath, RemotePath
<1>3. Here \in Bytes /\ There \in Bytes /\ Origin \in Bytes /\ Len(Origin) \in Nat
  BY <1>2, ContentBytes DEF IInv, TypeOK, Here, There, Bytes
<1>4. PICK n \in 1..ChunkSize :
        /\ cursor + n <= Len(Origin) /\ cursor' = cursor + n
        /\ buffer' = SubSeq(Origin, cursor + 1, cursor + n)
  BY DEF ReadChunk
<1>5. n \in Nat /\ 1 <= n /\ cursor \in Nat /\ position \in Nat /\ Len(buffer) = 0
  BY <1>1, CopyAssumption DEF CopyAssumption, IInv, TypeOK
<1>6. /\ buffer' \in Bytes /\ Len(buffer') = n
      /\ \A i \in 1..n : buffer'[i] = Origin[cursor + i]
  BY <1>3, <1>4, <1>5, SliceBytes
<1>7. TypeOK'
  <2>1. Files(local)' /\ Files(remote)'
    BY <1>1 DEF IInv, TypeOK, Files
  <2> QED
    BY <1>1, <1>4, <1>5, <1>6, <2>1 DEF IInv, TypeOK, PCs
<1>8. Stages' /\ Heard1' /\ Planned'
  BY <1>1 DEF IInv, Stages, Heard1, Planned, Succeeded
<1>9. UploadAccount' /\ UploadInOrder'
  <2> SUFFICES ASSUME Uploading PROVE UploadAccount' /\ UploadInOrder'
    BY <1>1 DEF UploadAccount, UploadInOrder
  <2>1. \A i \in 1..n : buffer'[i] = Here[cursor' - n + i]
    BY <1>2, <1>4, <1>5, <1>6
  <2>2. resumed = 0 => position <= cursor
    BY <1>1, <1>5 DEF IInv, UploadAccount
  <2>3. UploadAccount'
    BY <1>1, <1>2, <1>4, <1>5, <1>6, <2>1, <2>2 DEF IInv, UploadAccount
  <2>4. resumed = 0 /\ cursor' = position + n => There = Prefix(Here, position)
    <3>1. cursor' = position + n => cursor = position + Len(buffer)
      BY <1>4, <1>5
    <3> QED
      BY <1>1, <3>1, InOrderExactly
  <2>5. UploadInOrder'
    BY <1>1, <1>5, <1>6, <2>4, InOrderAfter
  <2> QED
    BY <2>3, <2>5
<1>10. DownloadAccount'
  <2> SUFFICES ASSUME ~Uploading PROVE DownloadAccount'
    BY <1>1 DEF DownloadAccount
  <2>1. cursor = resumed + offset /\ resumed \in Nat /\ offset \in Nat
    BY <1>1, <1>5 DEF IInv, DownloadAccount, TypeOK
  <2> QED
    BY <1>1, <1>2, <1>4, <1>5, <1>6, <2>1 DEF IInv, DownloadAccount
<1>11. DownloadInOrder' /\ ReportsAgree'
  BY <1>1 DEF IInv, DownloadInOrder, ReportsAgree
<1> QED
  BY <1>7, <1>8, <1>9, <1>10, <1>11 DEF IInv

\* What the server took of the buffer is over the destination from the position on:
\* nothing before the resume offset changes, and where the destination held the
\* beginning of the source it still does.
LEMMA WrittenBytes ==
  ASSUME IInv, pc = "write", Uploading, NEW n \in 1..Len(buffer)
  PROVE  LET file == Content(Written(n), "destination")
         IN  /\ file \in Bytes /\ Files(Written(n)) /\ "destination" \in DOMAIN Written(n)
             /\ resumed <= Len(file)
             /\ Prefix(file, resumed) = Prefix(There, resumed)
             /\ resumed = 0 /\ cursor = position + Len(buffer) =>
                  file = Prefix(Here, position + n)
<1>1. /\ Here \in Bytes /\ There \in Bytes /\ buffer \in Bytes
      /\ Len(Here) \in Nat /\ Len(There) \in Nat /\ Len(buffer) \in Nat
  BY ContentBytes DEF IInv, TypeOK, Here, There, Bytes
<1>2. /\ handle = "open" /\ "destination" \in DOMAIN remote
      /\ resumed <= position /\ cursor <= Len(Here)
      /\ \A i \in 1..Len(buffer) : buffer[i] = Here[cursor - Len(buffer) + i]
      /\ resumed <= Len(There)
  BY DEF IInv, Stages, UploadAccount, Planned
<1>3. /\ n \in Nat /\ 1 <= n /\ n <= Len(buffer)
      /\ position \in Nat /\ resumed \in Nat /\ cursor \in Nat
  BY <1>1 DEF IInv, TypeOK
<1> DEFINE b == SubSeq(buffer, 1, n)
           w == Overwrite(There, position, b)
<1>4. b \in Bytes /\ Len(b) = n /\ \A i \in 1..n : b[i] = buffer[i]
  BY <1>1, <1>3, FrontBytes
<1>5. Written(n) = Put(remote, RemotePath, w)
  BY <1>2 DEF Written, There, Content, RemotePath
<1> HIDE DEF b
<1>6. /\ w \in Bytes /\ Len(There) <= Len(w) /\ Len(w) \in Nat
      /\ Len(There) <= position + n => Len(w) = position + n
      /\ \A i \in 1..Len(There) : i <= position => w[i] = There[i]
      /\ \A i \in position + 1..position + n : w[i] = b[i - position]
  <2>1. /\ w \in Bytes /\ Len(There) <= Len(w)
        /\ Len(There) <= position + Len(b) => Len(w) = position + Len(b)
        /\ \A i \in 1..Len(There) : i <= position => w[i] = There[i]
        /\ \A i \in position + 1..position + Len(b) : w[i] = b[i - position]
    <3>1. There \in Bytes /\ position \in Nat /\ b \in Bytes
      BY <1>1, <1>3, <1>4
    <3> QED
      BY Zenon, <3>1, OverwriteBytes
  <2> HIDE DEF w
  <2>2. Len(w) \in Nat
    BY <2>1 DEF Bytes
  <2> QED
    BY <1>4, <2>1, <2>2
<1> HIDE DEF w
<1>7. /\ Files(Written(n)) /\ "destination" \in DOMAIN Written(n)
      /\ Content(Written(n), "destination") = w
  <2>1. RemotePath \in Paths /\ Files(remote)
    BY DEF RemotePath, Paths, IInv, TypeOK
  <2> QED
    BY <1>5, <1>6, <2>1, PutContent DEF RemotePath
<1>8. resumed <= Len(w)
  BY <1>1, <1>2, <1>3, <1>6
<1>9. Prefix(w, resumed) = Prefix(There, resumed)
  <2>1. /\ Prefix(There, resumed) \in Bytes /\ Len(Prefix(There, resumed)) = resumed
        /\ \A i \in 1..resumed : Prefix(There, resumed)[i] = There[i]
    BY <1>1, <1>2, <1>3, PrefixBytes
  <2>2. /\ Prefix(w, resumed) \in Bytes /\ Len(Prefix(w, resumed)) = resumed
        /\ \A i \in 1..resumed : Prefix(w, resumed)[i] = w[i]
    BY <1>3, <1>6, <1>8, PrefixBytes
  <2>3. \A i \in 1..resumed : w[i] = There[i]
    BY <1>1, <1>2, <1>3, <1>6
  <2> QED
    BY <2>1, <2>2, <2>3, SameBytes
<1>10. ASSUME resumed = 0, cursor = position + Len(buffer) PROVE w = Prefix(Here, position + n)
  <2>1. There = Prefix(Here, position)
    BY <1>2, <1>10, InOrderExactly
  <2>2. position + n <= Len(Here) /\ position <= Len(Here)
    BY <1>1, <1>2, <1>3, <1>10
  <2>3. Len(There) = position /\ \A i \in 1..position : There[i] = Here[i]
    BY <1>1, <1>3, <2>1, <2>2, PrefixBytes
  <2> DEFINE p == Prefix(Here, position + n)
  <2>4. p \in Bytes /\ Len(p) = position + n /\ \A i \in 1..position + n : p[i] = Here[i]
    BY <1>1, <1>3, <2>2, PrefixBytes
  <2> HIDE DEF p
  <2>5. Len(w) = position + n
    BY <1>3, <1>6, <2>3
  <2>6. ASSUME NEW i \in 1..position + n PROVE w[i] = Here[i]
    <3>1. CASE i <= position
      BY <1>3, <1>6, <2>3, <3>1
    <3>2. CASE i > position
      <4>1. i \in position + 1..position + n /\ i - position \in 1..n
        BY <1>3, <3>2
      <4>2. w[i] = buffer[i - position]
        BY <1>4, <1>6, <4>1
      <4>3. cursor - Len(buffer) + (i - position) = i /\ i - position \in 1..Len(buffer)
        BY <1>1, <1>3, <1>10, <4>1
      <4> QED
        BY <1>2, <4>2, <4>3
    <3> QED
      BY <1>3, <3>1, <3>2
  <2> QED
    BY <1>6, <2>4, <2>5, <2>6, SameBytes DEF p
<1> QED
  BY <1>6, <1>7, <1>8, <1>9, <1>10

\* Writing a chunk to the server keeps the invariant.
LEMMA WriteRemoteStep ==
  ASSUME IInv, WriteRemote
  PROVE  IInv'
<1>1. /\ pc = "write" /\ pc' = "read" /\ Uploading /\ handle = "open" /\ buffer' = <<>>
      /\ UNCHANGED <<request, directory, local, total, resumed, cursor, handle>>
      /\ UNCHANGED <<completions, summaries, result>>
      /\ Uploading' = Uploading /\ Here' = Here
  BY DEF WriteRemote, input, item, Uploading, Here, IInv, Stages
<1>2. PICK n \in 1..Len(buffer) :
        remote' = Written(n) /\ position' = position + n /\ offset' = offset + n
  BY DEF WriteRemote
<1>3. /\ There' \in Bytes /\ Files(remote)' /\ "destination" \in DOMAIN remote'
      /\ resumed <= Len(There')
      /\ resumed = 0 /\ cursor = position + Len(buffer) => There' = Prefix(Here, position + n)
  <2>1. /\ There' = Content(Written(n), "destination")
        /\ Files(remote)' <=> Files(Written(n))
    BY <1>2 DEF There, Files
  <2> QED
    BY <1>1, <1>2, <2>1, WrittenBytes
<1>4. /\ offset = position /\ resumed <= position
      /\ cursor <= Len(Here) /\ Len(buffer) <= cursor
      /\ resumed = 0 => position + Len(buffer) <= cursor
  BY <1>1 DEF IInv, UploadAccount
<1>5. /\ n \in Nat /\ n <= Len(buffer) /\ position \in Nat /\ offset \in Nat
      /\ resumed \in Nat /\ cursor \in Nat /\ Len(buffer) \in Nat /\ Len(buffer') = 0
  BY <1>1 DEF IInv, TypeOK, Bytes
<1>6. TypeOK'
  <2>1. Files(local)' /\ <<>> \in Bytes
    BY <1>1 DEF IInv, TypeOK, Files, Bytes
  <2> QED
    BY <1>1, <1>2, <1>3, <1>5, <2>1 DEF IInv, TypeOK, PCs
<1>7. Stages' /\ Heard1'
  BY <1>1 DEF IInv, Stages, Heard1, Succeeded
<1>8. Planned'
  BY <1>1, <1>3 DEF IInv, Planned
<1>9. UploadAccount'
  BY <1>1, <1>2, <1>3, <1>4, <1>5 DEF UploadAccount
<1>10. UploadInOrder'
  <2>1. resumed = 0 /\ cursor = position + n => cursor = position + Len(buffer)
    BY <1>4, <1>5
  <2>2. resumed = 0 /\ cursor' = position' + Len(buffer') => There' = Prefix(Here, position')
    BY <1>1, <1>2, <1>3, <1>5, <2>1
  <2> QED
    BY <1>1, <1>2, <1>5, <2>2, InOrderAfter
<1>11. DownloadAccount' /\ DownloadInOrder'
  BY <1>1 DEF DownloadAccount, DownloadInOrder
<1>12. ReportsAgree'
  BY <1>1 DEF IInv, ReportsAgree
<1> QED
  BY <1>6, <1>7, <1>8, <1>9, <1>10, <1>11, <1>12 DEF IInv

\* An exception out of the open or the write of an upload keeps the invariant,
\* though the server has carried it out.
LEMMA LostAnswerStep ==
  ASSUME IInv, Throw, Uploading,
         \/ pc = "open" /\ remote' = OpenedRemote
         \/ pc = "write" /\ \E n \in 1..Len(buffer) : remote' = Written(n)
  PROVE  IInv'
<1>1. /\ pc' = "threw" /\ pc \in {"open", "write"}
      /\ UNCHANGED <<request, directory, local, total, resumed, offset, cursor>>
      /\ UNCHANGED <<position, buffer, handle, progress, completions, summaries, result>>
      /\ Uploading' = Uploading /\ Here' = Here
  BY DEF Throw, input, item, copying, sink, Uploading, Here
<1>2. /\ There' \in Bytes /\ Files(remote)' /\ "destination" \in DOMAIN remote'
      /\ resumed <= Len(There')
  <2>1. CASE remote' = OpenedRemote
    BY <2>1, OpenedThere
  <2>2. ASSUME pc = "write", NEW n \in 1..Len(buffer), remote' = Written(n)
        PROVE  /\ There' \in Bytes /\ Files(remote)' /\ "destination" \in DOMAIN remote'
               /\ resumed <= Len(There')
    <3>1. There' = Content(Written(n), "destination") /\ (Files(remote)' <=> Files(Written(n)))
      BY <2>2 DEF There, Files
    <3> QED
      BY <2>2, <3>1, WrittenBytes
  <2> QED
    BY <2>1, <2>2
<1>3. TypeOK'
  <2>1. Files(local)'
    BY <1>1 DEF IInv, TypeOK, Files
  <2> QED
    BY <1>1, <1>2, <2>1 DEF IInv, TypeOK, PCs
<1>4. Stages' /\ Heard1'
  BY <1>1 DEF IInv, Stages, Heard1, Succeeded
<1>5. Planned'
  BY <1>1, <1>2 DEF IInv, Planned
<1>6. UploadAccount'
  BY <1>1, <1>2 DEF IInv, UploadAccount
<1>7. UploadInOrder'
  <2> SUFFICES ASSUME resumed = 0, handle # "none", cursor = position + Len(buffer)
               PROVE  \E n \in 0..Len(buffer) : There' = Prefix(Here, position + n)
    BY <1>1 DEF UploadInOrder, Here, There
  <2>1. pc = "write"
    BY <1>1 DEF IInv, Stages
  <2>2. PICK n \in 1..Len(buffer) : remote' = Written(n)
    BY <2>1
  <2>3. There' = Prefix(Here, position + n)
    <3>1. There' = Content(Written(n), "destination")
      BY <2>2 DEF There
    <3> QED
      BY <2>1, <3>1, WrittenBytes
  <2>4. n \in 0..Len(buffer)
    BY DEF IInv, TypeOK, Bytes
  <2> QED
    BY <2>3, <2>4
<1>8. DownloadAccount' /\ DownloadInOrder'
  BY <1>1 DEF DownloadAccount, DownloadInOrder
<1>9. ReportsAgree'
  BY <1>1 DEF IInv, ReportsAgree
<1> QED
  BY <1>3, <1>4, <1>5, <1>6, <1>7, <1>8, <1>9 DEF IInv

\* Every way out by an exception keeps the invariant.
LEMMA ThrowStep ==
  ASSUME IInv, Throw
  PROVE  IInv'
<1>1. pc = "write" => Uploading
  BY DEF Throw
<1> QED
  BY <1>1, QuietStep, LostAnswerStep DEF Throw

\* Writing a chunk to the local file keeps the invariant.
LEMMA WriteLocalStep ==
  ASSUME IInv, WriteLocal
  PROVE  IInv'
<1>1. /\ pc = "write" /\ pc' = "read" /\ ~Uploading /\ handle = "open" /\ buffer' = <<>>
      /\ UNCHANGED <<request, directory, remote, total, resumed, cursor, handle>>
      /\ UNCHANGED <<completions, summaries, result>>
      /\ offset' = offset + Len(buffer)
      /\ Uploading' = Uploading /\ There' = There
  BY DEF WriteLocal, input, item, Uploading, There, IInv, Stages
<1>2. /\ Here \in Bytes /\ There \in Bytes /\ buffer \in Bytes
      /\ Len(Here) \in Nat /\ Len(There) \in Nat /\ Len(buffer) \in Nat
  BY ContentBytes DEF IInv, TypeOK, Here, There, Bytes
<1>3. /\ Len(Here) = position /\ position <= offset
      /\ cursor = resumed + offset + Len(buffer) /\ cursor <= Len(There)
      /\ \A i \in 1..Len(buffer) : buffer[i] = There[resumed + offset + i]
  BY <1>1 DEF IInv, DownloadAccount
<1>4. position \in Nat /\ offset \in Nat /\ resumed \in Nat /\ cursor \in Nat
  BY DEF IInv, TypeOK
<1>5. Len(buffer') = 0 /\ <<>> \in Bytes
  BY <1>1 DEF Bytes
<1>6. Stages' /\ Heard1' /\ Planned' /\ ReportsAgree' /\ UploadAccount' /\ UploadInOrder'
  BY <1>1
  DEF IInv, Stages, Heard1, Planned, Succeeded, ReportsAgree, UploadAccount, UploadInOrder
<1>7. CASE request.writer
  <2>1. PICK n \in 1..Len(buffer) :
          /\ local' = Put(local, LocalPath, Content(local, LocalPath) \o SubSeq(buffer, 1, n))
          /\ position' = position + n
    BY <1>7 DEF WriteLocal
  <2>2. n \in Nat /\ n <= Len(buffer)
    BY <1>2
  <2> DEFINE b == SubSeq(buffer, 1, n)
             w == Here \o b
  <2>3. b \in Bytes /\ Len(b) = n /\ \A i \in 1..n : b[i] = buffer[i]
    BY <1>2, <2>2, FrontBytes
  <2>4. local' = Put(local, LocalPath, w)
    BY <2>1 DEF Here, LocalPath
  <2> HIDE DEF b
  <2>5. /\ w \in Bytes /\ Len(w) = position + n
        /\ \A i \in 1..position : w[i] = Here[i]
        /\ \A i \in position + 1..position + n : w[i] = b[i - position]
    <3>1. /\ w \in Bytes /\ Len(w) = Len(Here) + Len(b)
          /\ \A i \in 1..Len(Here) : w[i] = Here[i]
          /\ \A i \in Len(Here) + 1..Len(Here) + Len(b) : w[i] = b[i - Len(Here)]
      BY <1>2, <2>3, JoinBytes
    <3>2. Len(Here) = position
      BY <1>3
    <3> HIDE DEF w
    <3> QED
      BY <2>3, <3>1, <3>2
  <2> HIDE DEF w
  <2>6. Files(local)' /\ Here' = w
    <3>1. LocalPath \in Paths /\ Files(local)
      BY DEF LocalPath, Paths, IInv, TypeOK
    <3>2. Files(Put(local, LocalPath, w)) /\ Content(Put(local, LocalPath, w), LocalPath) = w
      BY <2>5, <3>1, PutContent
    <3> QED
      BY <2>4, <3>2 DEF Here, LocalPath, Files
  <2>7. TypeOK'
    <3>1. Files(remote)'
      BY <1>1 DEF IInv, TypeOK, Files
    <3> QED
      BY <1>1, <1>2, <1>4, <1>5, <2>1, <2>2, <2>6, <3>1 DEF IInv, TypeOK, PCs
  <2>8. DownloadAccount'
    BY <1>1, <1>2, <1>3, <1>4, <1>5, <2>1, <2>2, <2>5, <2>6 DEF DownloadAccount
  <2>9. DownloadInOrder'
    <3> SUFFICES ASSUME position + n = offset + Len(buffer)
                 PROVE  /\ Len(w) = position + n /\ resumed + (position + n) <= Len(There)
                        /\ \A i \in 1..position + n : w[i] = There[resumed + i]
      BY <1>1, <2>1, <2>6 DEF DownloadInOrder, Here, There, LocalPath, RemotePath
    <3>1. position = offset /\ n = Len(buffer) /\ resumed + (position + n) <= Len(There)
      <4>1. position <= offset /\ cursor = resumed + offset + Len(buffer) /\ cursor <= Len(There)
        BY <1>3
      <4> QED
        BY <1>2, <1>4, <2>2, <4>1
    <3>2. \A i \in 1..position : Here[i] = There[resumed + i]
      BY <1>1, <1>7, <3>1 DEF IInv, DownloadInOrder, Here, There, LocalPath, RemotePath
    <3>3. ASSUME NEW i \in 1..position + n PROVE w[i] = There[resumed + i]
      <4>1. CASE i <= position
        BY <1>4, <2>5, <3>2, <4>1
      <4>2. CASE i > position
        <5>1. i \in position + 1..position + n /\ i - position \in 1..n
          BY <1>4, <2>2, <4>2
        <5>2. w[i] = buffer[i - position]
          BY <2>3, <2>5, <5>1
        <5>3. resumed + offset + (i - position) = resumed + i
          BY <1>4, <3>1
        <5>4. buffer[i - position] = There[resumed + offset + (i - position)]
          BY <1>3, <3>1, <5>1
        <5> QED
          BY <5>2, <5>3, <5>4
      <4> QED
        BY <1>4, <2>2, <4>1, <4>2
    <3> QED
      BY <2>5, <3>1, <3>3
  <2> QED
    BY <1>6, <2>7, <2>8, <2>9 DEF IInv
<1>8. CASE ~request.writer
  <2>1. UNCHANGED <<local, position>> /\ Here' = Here
    BY <1>8 DEF WriteLocal, Here
  <2>2. Files(local)' /\ Files(remote)'
    BY <1>1, <2>1 DEF IInv, TypeOK, Files
  <2>3. TypeOK'
    BY <1>1, <1>2, <1>4, <1>5, <2>1, <2>2 DEF IInv, TypeOK, PCs
  <2>4. DownloadAccount'
    BY <1>1, <1>2, <1>3, <1>4, <1>5, <2>1 DEF DownloadAccount
  <2>5. DownloadInOrder'
    BY <1>1, <1>8 DEF DownloadInOrder
  <2> QED
    BY <1>6, <2>3, <2>4, <2>5 DEF IInv
<1> QED
  BY <1>7, <1>8

\* Closing keeps the invariant.
LEMMA CloseStep ==
  ASSUME IInv, Close
  PROVE  IInv'
<1>1. /\ pc = "close" /\ pc' = "finish" /\ handle' = "closed" /\ ~directory
      /\ UNCHANGED <<request, directory, local, remote, total, resumed, offset, cursor>>
      /\ UNCHANGED <<position, buffer, progress, summaries, result>>
      /\ handle = "open" /\ completions = <<>>
      /\ completions' = completions \o <<FileOk>>
      /\ Uploading' = Uploading /\ Here' = Here /\ There' = There
  BY DEF Close, Heard, input, hosts, item, copying, Uploading, Here, There, IInv, Stages, Heard1
<1>2. completions' = <<FileOk>> /\ FileOk' = FileOk
  BY <1>1 DEF FileOk
<1>3. TypeOK'
  <2>1. Files(local)' /\ Files(remote)'
    BY <1>1 DEF IInv, TypeOK, Files
  <2> QED
    BY <1>1, <2>1 DEF IInv, TypeOK, PCs
<1>4. Stages' /\ Heard1' /\ Planned'
  BY <1>1, <1>2 DEF IInv, Stages, Heard1, Planned, Succeeded
<1>5. UploadAccount' /\ DownloadAccount'
  BY <1>1 DEF IInv, UploadAccount, DownloadAccount
<1>6. UploadInOrder' /\ DownloadInOrder'
  BY <1>1 DEF IInv, UploadInOrder, DownloadInOrder
<1>7. ReportsAgree'
  <2>1. summaries = <<>>
    BY <1>1 DEF IInv, ReportsAgree
  <2> QED
    BY <1>1, <2>1 DEF ReportsAgree
<1> QED
  BY <1>3, <1>4, <1>5, <1>6, <1>7 DEF IInv

\* A single completion counts once, for its outcome.
LEMMA CountOne ==
  ASSUME NEW c \in BOOLEAN, completions = <<c>>
  PROVE  /\ Count(TRUE) = (IF c THEN 1 ELSE 0)
         /\ Count(FALSE) = (IF c THEN 0 ELSE 1)
<1>1. Cardinality({}) = 0 /\ Cardinality({1}) = 1
  BY FS_EmptySet, FS_Singleton
<1>2. DOMAIN completions = {1} /\ completions[1] = c
  OBVIOUS
<1>3. \A b \in BOOLEAN :
        {i \in DOMAIN completions : completions[i] = b} = IF b = c THEN {1} ELSE {}
  BY <1>2
<1> QED
  BY <1>1, <1>3 DEF Count

\* Without a completion none is counted.
LEMMA CountNone ==
  ASSUME completions = <<>>
  PROVE  Count(TRUE) = 0 /\ Count(FALSE) = 0
<1>1. \A b : {i \in DOMAIN completions : completions[i] = b} = {}
  OBVIOUS
<1> QED
  BY <1>1, FS_EmptySet DEF Count

\* The end of an item keeps the invariant.
LEMMA FinishStep ==
  ASSUME IInv, Finish
  PROVE  IInv'
<1>1. /\ pc = "finish" /\ pc' = "returned"
      /\ UNCHANGED <<request, directory, local, remote, total, resumed, offset, cursor>>
      /\ UNCHANGED <<position, buffer, handle, progress, completions>>
      /\ Uploading' = Uploading /\ Here' = Here /\ There' = There /\ FileOk' = FileOk
  BY DEF Finish, input, hosts, item, copying, Uploading, Here, There, FileOk
<1>2. summaries = <<>>
  BY <1>1 DEF IInv, ReportsAgree
<1>3. completions = IF directory THEN <<>> ELSE <<FileOk>>
  BY <1>1 DEF IInv, Heard1
<1>4. (FileOk = TRUE) \/ (FileOk = FALSE)
  <2>1. CASE Uploading
    BY <2>1 DEF FileOk
  <2>2. CASE ~Uploading
    <3>1. offset \in Nat
      BY DEF IInv, TypeOK
    <3>2. FileOk = (offset > 0)
      BY <2>2 DEF FileOk
    <3> QED
      BY <3>1, <3>2
  <2> QED
    BY <2>1, <2>2
<1> DEFINE n == IF directory THEN 0 ELSE 1
           yes == Count(TRUE)
           no == Count(FALSE)
<1>5. /\ Len(completions) = n
      /\ yes \in Nat /\ no \in Nat /\ yes + no = n
      /\ ~directory /\ no = 0 => FileOk
  <2>1. CASE directory
    <3>1. completions = <<>> /\ Len(completions) = 0 /\ n = 0
      BY <1>3, <2>1
    <3>2. yes = 0 /\ no = 0
      BY <3>1, CountNone
    <3> HIDE DEF n, yes, no
    <3> QED
      BY <2>1, <3>1, <3>2
  <2>2. CASE ~directory
    <3>1. completions = <<FileOk>> /\ Len(completions) = 1 /\ n = 1
      BY <1>3, <2>2
    <3>2. CASE FileOk = TRUE
      <4>1. yes = 1 /\ no = 0
        BY <3>1, <3>2, CountOne
      <4> HIDE DEF n, yes, no
      <4> QED
        BY <3>1, <3>2, <4>1
    <3>3. CASE FileOk = FALSE
      <4>1. yes = 0 /\ no = 1
        BY <3>1, <3>3, CountOne
      <4> HIDE DEF n, yes, no
      <4> QED
        BY <3>1, <4>1
    <3> QED
      BY <1>4, <3>2, <3>3
  <2> QED
    BY <2>1, <2>2
<1>6. /\ summaries' = Append(<<>>, [total_files |-> n, succeeded |-> yes,
                                    failed |-> no, total_bytes |-> progress])
      /\ result' = (no = 0)
  BY <1>2 DEF Finish
<1> HIDE DEF n, yes, no
<1>7. summaries' = <<[total_files |-> n, succeeded |-> yes, failed |-> no,
                     total_bytes |-> progress]>>
  BY <1>6
<1>8. TypeOK'
  <2>1. Files(local)' /\ Files(remote)'
    BY <1>1 DEF IInv, TypeOK, Files
  <2> QED
    BY <1>1, <2>1 DEF IInv, TypeOK, PCs
<1>9. Stages' /\ Planned'
  BY <1>1 DEF IInv, Stages, Planned
<1>10. Heard1'
  <2>1. Succeeded' => ~directory /\ no = 0
    BY <1>1, <1>6 DEF Succeeded
  <2> QED
    BY <1>1, <1>3, <1>5, <2>1 DEF Heard1
<1>11. UploadAccount' /\ DownloadAccount'
  BY <1>1 DEF IInv, UploadAccount, DownloadAccount
<1>12. UploadInOrder' /\ DownloadInOrder'
  BY <1>1 DEF IInv, UploadInOrder, DownloadInOrder
<1>13. ReportsAgree'
  <2>1. handle # "open"
    BY <1>1 DEF IInv, Stages
  <2>2. DOMAIN summaries' = {1} /\ summaries' # <<>>
    BY <1>7
  <2>3. /\ summaries'[1].total_files = n /\ summaries'[1].succeeded = yes
        /\ summaries'[1].failed = no /\ summaries'[1].total_bytes = progress
    BY <1>7
  <2> HIDE <1>6, <1>7
  <2> QED
    BY <1>1, <1>5, <1>6, <2>1, <2>2, <2>3 DEF ReportsAgree
<1> QED
  BY <1>8, <1>9, <1>10, <1>11, <1>12, <1>13 DEF IInv

\* The invariant holds in every reachable state.
LEMMA Invariance == Spec => []IInv
<1>1. IInv /\ [Next]_vars => IInv'
  BY QuietStep, ThrowStep, StillStep, PlanStep, OpenWriteStep, OpenReadStep, ReadChunkStep,
     WriteRemoteStep, WriteLocalStep, CloseStep, FinishStep
  DEF Next
<1> QED
  BY InitIInv, <1>1, PTL DEF Spec

-----------------------------------------------------------------------------

\* The sink hears of each file once and of the transfer once, and what it hears
\* agrees with what run returns.
THEOREM ReportsTrue == Spec => []ReportsAgree
<1>1. IInv => ReportsAgree
  BY DEF IInv
<1> QED
  BY Invariance, <1>1, PTL

\* At every moment of an upload, and however it ends, a beginning of the source is
\* at the destination.
THEOREM UploadOrdered == Spec => []UploadInOrder
<1>1. IInv => UploadInOrder
  BY DEF IInv
<1> QED
  BY Invariance, <1>1, PTL

\* A download appends the remote bytes in order, from the resume offset on.
THEOREM DownloadOrdered == Spec => []DownloadInOrder
<1>1. IInv => DownloadInOrder
  BY DEF IInv
<1> QED
  BY Invariance, <1>1, PTL

\* An upload from the beginning that reports success has copied the file.
THEOREM SuccessIsCopy == Spec => []UploadSuccessIsCopy
<1>1. IInv => UploadSuccessIsCopy
  <2> SUFFICES ASSUME IInv, Succeeded, Uploading, ~request.resume PROVE There = Here
    BY DEF UploadSuccessIsCopy, Here, There
  <2>1. Here \in Bytes /\ Len(Here) \in Nat
    BY ContentBytes DEF IInv, TypeOK, Here, Bytes
  <2>2. pc = "returned" /\ ~directory /\ handle = "closed" /\ buffer = <<>>
    BY DEF IInv, Succeeded, Stages
  <2>3. resumed = 0 /\ total = Len(Here) /\ offset = total
    BY <2>2 DEF IInv, Planned, Heard1, FileOk
  <2>4. /\ offset = position /\ cursor <= Len(Here) /\ Len(buffer) = 0
        /\ position + Len(buffer) <= cursor /\ cursor \in Nat /\ position \in Nat
    BY <2>2, <2>3 DEF IInv, UploadAccount, TypeOK
  <2>5. cursor = position + Len(buffer) /\ position = Len(Here)
    BY <2>1, <2>3, <2>4
  <2>6. There = Prefix(Here, position)
    BY <2>2, <2>3, <2>5, InOrderExactly
  <2> QED
    BY <2>1, <2>5, <2>6, WholePrefix
<1> QED
  BY Invariance, <1>1, PTL

\* No step of a resumed upload changes the bytes before the resume offset.
THEOREM ResumeKeeps == Spec => ResumeKeepsPrefix
<1> DEFINE A == resumed' > 0 /\ Uploading =>
                  Prefix(Content(remote', "destination"), resumed') =
                  Prefix(Content(remote, "destination"), resumed')
<1>1. IInv /\ [Next]_vars => [A]_vars
  <2> SUFFICES ASSUME IInv, Next, resumed' > 0, Uploading
               PROVE  Prefix(There', resumed') = Prefix(There, resumed')
    BY DEF There
  <2>1. CASE (OpenWrite \/ Throw) /\ remote' = OpenedRemote
    <3>1. resumed' = resumed /\ resumed \in Nat
      BY <2>1 DEF OpenWrite, Throw, item, IInv, TypeOK
    <3> QED
      BY <2>1, <3>1, OpenedThere
  <2>2. ASSUME WriteRemote \/ (Throw /\ pc = "write"),
               NEW n \in 1..Len(buffer), remote' = Written(n)
        PROVE  Prefix(There', resumed') = Prefix(There, resumed')
    <3>1. resumed' = resumed /\ pc = "write" /\ There' = Content(Written(n), "destination")
      BY <2>2 DEF WriteRemote, Throw, item, There
    <3> QED
      BY <3>1, WrittenBytes
  <2>3. CASE UNCHANGED remote
    BY <2>3 DEF There
  <2> QED
    BY <2>1, <2>2, <2>3
    DEF Next, PlanNothing, PlanFile, Throw, OpenWrite, OpenRead, ReadChunk, ReadDone,
        WriteRemote, WriteLocal, WriteRefused, Close, Finish, Terminated, hosts, vars
<1> QED
  BY Invariance, <1>1, PTL DEF Spec, ResumeKeepsPrefix
=============================================================================
