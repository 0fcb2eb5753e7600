-------------------------- MODULE SftpTransferProofs --------------------------
(***************************************************************************)
(* Proofs about SftpAdapter and SftpTransfer: for every set of paths and   *)
(* handles, files and chunks of every size, and a server that refuses what *)
(* it likes over a connection that may drop around any request.            *)
(***************************************************************************)
EXTENDS SftpTransfer, SequenceTheorems, TLAPS

Bytes == Seq(Nat)
Files(host) == DOMAIN host \subseteq Names /\ \A p \in DOMAIN host : host[p] \in Bytes

\* A name is a file's or a directory's.
Server(r) ==
  /\ r = [files |-> r.files, dirs |-> r.dirs]
  /\ Files(r.files) /\ r.dirs \subseteq Names /\ DOMAIN r.files \cap r.dirs = {}

Opening == [path : Names, position : Nat]

AdapterOK ==
  /\ sftp_ \in BOOLEAN
  /\ Server(remote)
  /\ DOMAIN handles \subseteq Handles
  /\ \A h \in DOMAIN handles : handles[h] \in Opening

TypeOK ==
  /\ job \in {"upload", "download", "other"}
  /\ pc \in {"open", "loop", "stopped", "succeeded", "failed", "threw"}
  /\ size \in Nat /\ offset \in Nat /\ buffer \in Bytes /\ origin \in Bytes
  /\ AdapterOK

\* A transfer has one handle, where the transfer is, from the open to the close.
OneHandle ==
  job # "other" =>
    /\ pc \in {"open", "succeeded", "failed"} => DOMAIN handles = {}
    /\ pc \in {"loop", "stopped"} =>
         \E h \in Handles :
           DOMAIN handles = {h} /\ handles[h].path = Target /\ handles[h].position = offset

\* The destination is the first offset bytes of what is transferred; the loop is
\* left early by an upload that is not whole and by a download that is.
Progress ==
  /\ pc = "open" => offset = 0 /\ buffer = <<>>
  /\ job # "other" /\ pc \in {"loop", "stopped"} =>
       offset <= Len(Whole) /\ Destination = Prefix(Whole, offset)
  /\ job = "upload" /\ pc = "stopped" => offset < size
  /\ job = "download" => File(Target) = origin
  /\ job = "download" /\ pc = "stopped" => offset = Len(Whole)
  /\ job = "other" => pc = "open"

IInv == TypeOK /\ OneHandle /\ Progress /\ HandleClosed /\ ReturnedMeansDone

-----------------------------------------------------------------------------
(* Files.                                                                   *)

\* The first n bytes of a file are its prefix.
LEMMA Front ==
  ASSUME NEW f \in Bytes, NEW n \in 0..Len(f)
  PROVE  /\ SubSeq(f, 1, n) \in Bytes /\ Len(SubSeq(f, 1, n)) = n
         /\ \A i \in 1..n : SubSeq(f, 1, n)[i] = f[i]
         /\ Prefix(f, n) = SubSeq(f, 1, n)
<1>1. Len(f) \in Nat /\ n \in Nat /\ n <= Len(f) /\ f \in Seq(Nat)
  BY LenProperties DEF Bytes
<1>2. \A i \in 1..n : f[i] \in Nat
  BY <1>1, ElementOfSeq
<1>3. /\ SubSeq(f, 1, n) \in Seq(Nat)
      /\ Len(SubSeq(f, 1, n)) = IF 1 <= n THEN n - 1 + 1 ELSE 0
      /\ \A i \in 1..n - 1 + 1 : SubSeq(f, 1, n)[i] = f[1 + i - 1]
  BY <1>1, <1>2, SubSeqProperties
<1>4. Prefix(f, n) = SubSeq(f, 1, n)
  BY <1>1 DEF Prefix, Least
<1> QED
  BY <1>1, <1>3, <1>4 DEF Bytes

\* The n bytes after the first at of a file.
LEMMA Slice ==
  ASSUME NEW f \in Bytes, NEW at \in Nat, NEW n \in Nat, at + n <= Len(f)
  PROVE  /\ SubSeq(f, at + 1, at + n) \in Bytes /\ Len(SubSeq(f, at + 1, at + n)) = n
         /\ \A i \in 1..n : SubSeq(f, at + 1, at + n)[i] = f[at + i]
<1>1. Len(f) \in Nat /\ f \in Seq(Nat)
  BY LenProperties DEF Bytes
<1>2. \A i \in at + 1..at + n : f[i] \in Nat
  BY <1>1, ElementOfSeq
<1>3. LET m == at + 1
          k == at + n
      IN  /\ SubSeq(f, m, k) \in Seq(Nat)
          /\ Len(SubSeq(f, m, k)) = IF m <= k THEN k - m + 1 ELSE 0
          /\ \A i \in 1..k - m + 1 : SubSeq(f, m, k)[i] = f[m + i - 1]
  BY <1>1, <1>2, SubSeqProperties
<1>4. at + n - (at + 1) + 1 = n /\ \A i \in 1..n : at + 1 + i - 1 = at + i
  OBVIOUS
<1> QED
  BY <1>1, <1>3, <1>4 DEF Bytes

\* Overwriting at an offset leaves what is before it and puts the bytes from there on.
LEMMA OverwriteBytes ==
  ASSUME NEW f \in Bytes, NEW at \in Nat, NEW b \in Bytes
  PROVE  /\ Overwrite(f, at, b) \in Bytes
         /\ at + Len(b) <= Len(Overwrite(f, at, b))
         /\ Len(f) <= at + Len(b) => Len(Overwrite(f, at, b)) = at + Len(b)
         /\ \A i \in 1..Len(f) : i <= at => Overwrite(f, at, b)[i] = f[i]
         /\ \A i \in at + 1..at + Len(b) : Overwrite(f, at, b)[i] = b[i - at]
<1> DEFINE m == IF Len(f) > at + Len(b) THEN Len(f) ELSE at + Len(b)
           byte(i) == IF i \in at + 1..at + Len(b) THEN b[i - at]
                      ELSE IF i <= Len(f) THEN f[i] ELSE 0
<1>1. Len(f) \in Nat /\ Len(b) \in Nat
  BY DEF Bytes
<1>2. m \in Nat /\ Len(f) <= m /\ at + Len(b) <= m /\ (Len(f) <= at + Len(b) => m = at + Len(b))
  BY <1>1
<1>3. Overwrite(f, at, b) = [i \in 1..m |-> byte(i)]
  BY DEF Overwrite
<1>4. ASSUME NEW i \in 1..m PROVE byte(i) \in Nat
  <2>1. CASE i \in at + 1..at + Len(b)
    <3>1. i - at \in 1..Len(b)
      BY <1>1, <2>1
    <3> QED
      BY <2>1, <3>1 DEF Bytes
  <2>2. CASE i \notin at + 1..at + Len(b) /\ i <= Len(f)
    BY <1>1, <1>2, <2>2 DEF Bytes
  <2>3. CASE i \notin at + 1..at + Len(b) /\ ~(i <= Len(f))
    BY <2>3
  <2> QED
    BY <2>1, <2>2, <2>3
<1>5. ASSUME NEW i \in 1..Len(f), i <= at PROVE i \in 1..m /\ byte(i) = f[i]
  BY <1>1, <1>2, <1>5
<1>6. ASSUME NEW i \in at + 1..at + Len(b) PROVE i \in 1..m /\ byte(i) = b[i - at]
  BY <1>1, <1>2
<1> HIDE DEF m, byte
<1> DEFINE file == [i \in 1..m |-> byte(i)]
<1>7. file \in Seq(Nat) /\ Len(file) = m
  BY <1>2, <1>4
<1>8. \A i \in 1..m : file[i] = byte(i)
  OBVIOUS
<1> HIDE DEF file
<1> QED
  BY <1>2, <1>3, <1>5, <1>6, <1>7, <1>8 DEF Bytes, file

\* A prefix to which the next n bytes are written is the prefix n bytes longer.
LEMMA Grown ==
  ASSUME NEW f \in Bytes, NEW at \in Nat, NEW c \in Nat, at + c <= Len(f), NEW n \in 0..c
  PROVE  /\ Prefix(SubSeq(f, at + 1, at + c), n) = SubSeq(f, at + 1, at + n)
         /\ Overwrite(Prefix(f, at), at, SubSeq(f, at + 1, at + n)) = Prefix(f, at + n)
         /\ Prefix(f, at) \o SubSeq(f, at + 1, at + n) = Prefix(f, at + n)
<1> DEFINE chunk == SubSeq(f, at + 1, at + c)
           piece == SubSeq(f, at + 1, at + n)
           front == Prefix(f, at)
           more == Prefix(f, at + n)
<1>1. /\ n \in Nat /\ n <= c /\ Len(f) \in Nat
      /\ at \in 0..Len(f) /\ at + n \in 0..Len(f)
      /\ at + n <= Len(f)
  BY DEF Bytes
<1>2. /\ front \in Bytes /\ Len(front) = at
      /\ \A i \in 1..at : front[i] = f[i]
  BY <1>1, Front
<1>3. /\ more \in Bytes /\ Len(more) = at + n
      /\ \A i \in 1..at + n : more[i] = f[i]
  BY <1>1, Front
<1>4. /\ chunk \in Bytes /\ Len(chunk) = c
      /\ \A i \in 1..c : chunk[i] = f[at + i]
  BY Slice
<1>5. /\ piece \in Bytes /\ Len(piece) = n
      /\ \A i \in 1..n : piece[i] = f[at + i]
  BY <1>1, Slice
<1> HIDE DEF chunk, piece, front, more
<1>6. Prefix(chunk, n) = piece
  <2>1. /\ Prefix(chunk, n) \in Bytes /\ Len(Prefix(chunk, n)) = n
        /\ \A i \in 1..n : Prefix(chunk, n)[i] = chunk[i]
    BY <1>4, Front
  <2>2. \A i \in 1..n : Prefix(chunk, n)[i] = piece[i]
    BY <1>1, <1>4, <1>5, <2>1
  <2> QED
    BY <1>5, <2>1, <2>2, SeqEqual DEF Bytes
<1>7. Overwrite(front, at, piece) = more
  <2> DEFINE file == Overwrite(front, at, piece)
  <2>1. /\ file \in Bytes /\ Len(file) = at + n
        /\ \A i \in 1..at : file[i] = front[i]
        /\ \A i \in at + 1..at + n : file[i] = piece[i - at]
    <3>1. /\ file \in Bytes
          /\ Len(front) <= at + Len(piece) => Len(file) = at + Len(piece)
          /\ \A i \in 1..Len(front) : i <= at => file[i] = front[i]
          /\ \A i \in at + 1..at + Len(piece) : file[i] = piece[i - at]
      BY <1>2, <1>5, OverwriteBytes
    <3> HIDE DEF file
    <3> QED
      BY <1>1, <1>2, <1>5, <3>1
  <2> HIDE DEF file
  <2>2. ASSUME NEW i \in 1..at + n PROVE file[i] = more[i]
    <3>1. CASE i <= at
      <4>1. i \in 1..at
        BY <1>1, <3>1
      <4> QED
        BY <1>2, <1>3, <2>1, <4>1
    <3>2. CASE i > at
      <4>1. i \in at + 1..at + n /\ i - at \in 1..n /\ at + (i - at) = i
        BY <1>1, <3>2
      <4>2. file[i] = piece[i - at] /\ piece[i - at] = f[i]
        BY <1>5, <2>1, <4>1
      <4> QED
        BY <1>3, <4>2
    <3> QED BY <1>1, <3>1, <3>2
  <2> QED
    BY <1>1, <1>3, <2>1, <2>2, SeqEqual DEF Bytes, file
<1>8. front \o piece = more
  <2>1. /\ front \o piece \in Bytes /\ Len(front \o piece) = at + n
        /\ \A i \in 1..at + n :
             (front \o piece)[i] = IF i <= at THEN front[i] ELSE piece[i - at]
    <3>1. /\ front \o piece \in Bytes /\ Len(front \o piece) = Len(front) + Len(piece)
          /\ \A i \in 1..Len(front) + Len(piece) : (front \o piece)[i] =
               IF i <= Len(front) THEN front[i] ELSE piece[i - Len(front)]
      BY <1>2, <1>5, ConcatProperties DEF Bytes
    <3> QED
      BY <1>2, <1>5, <3>1
  <2>2. ASSUME NEW i \in 1..at + n PROVE (front \o piece)[i] = more[i]
    <3>1. CASE i <= at
      <4>1. i \in 1..at
        BY <1>1, <3>1
      <4> QED
        BY <1>2, <1>3, <2>1, <4>1
    <3>2. CASE i > at
      <4>1. i - at \in 1..n /\ at + (i - at) = i
        BY <1>1, <3>2
      <4>2. (front \o piece)[i] = piece[i - at] /\ piece[i - at] = f[i]
        BY <1>5, <2>1, <3>2, <4>1
      <4> QED
        BY <1>3, <4>2
    <3>3. i <= at \/ i > at
      BY <1>1
    <3> QED BY <3>1, <3>2, <3>3
  <2> QED
    BY <1>1, <1>3, <2>1, <2>2, SeqEqual DEF Bytes
<1> QED
  BY <1>6, <1>7, <1>8 DEF chunk, piece, front, more

\* What is read at a path of the server is a sequence of bytes.
LEMMA FileBytes == ASSUME Server(remote), NEW path PROVE File(path) \in Bytes
  BY DEF Server, Files, File, Content, Bytes

\* A server with one more file is a server, and the file is what is read there.
LEMMA WithFileServer ==
  ASSUME Server(remote), NEW path \in Names, path \notin remote.dirs, NEW file \in Bytes
  PROVE  /\ Server(WithFile(path, file)) /\ WithFile(path, file).dirs = remote.dirs
         /\ path \in DOMAIN WithFile(path, file).files
         /\ Content(WithFile(path, file).files, path) = file
<1>1. WithFile(path, file) = [files |-> Put(remote.files, path, file), dirs |-> remote.dirs]
  BY DEF Server, WithFile
<1>2. /\ Files(Put(remote.files, path, file))
      /\ DOMAIN Put(remote.files, path, file) = DOMAIN remote.files \cup {path}
  BY DEF Server, Files, Put
<1>3. Content(Put(remote.files, path, file), path) = file
  BY DEF Content, Put
<1> QED
  BY <1>1, <1>2, <1>3 DEF Server

-----------------------------------------------------------------------------
(* The operations.                                                          *)

\* What a call that throws, or returns, leaves in the record of the last call.
LEMMA Outcome ==
  ASSUME NEW op, NEW path, NEW given
  PROVE  /\ Throws(op, path, given) =>
              Op' = op /\ Threw' = TRUE /\ Path' = path /\ Given' = given
         /\ \A value : Returns(op, path, given, value) =>
              Op' = op /\ Threw' = FALSE /\ Path' = path /\ Given' = given /\ Value' = value
<1>1. ASSUME Throws(op, path, given)
      PROVE  Op' = op /\ Threw' = TRUE /\ Path' = path /\ Given' = given
  BY <1>1 DEF Throws, Op, Threw, Path, Given
<1>2. ASSUME NEW value, Returns(op, path, given, value)
      PROVE  Op' = op /\ Threw' = FALSE /\ Path' = path /\ Given' = given /\ Value' = value
  BY <1>2 DEF Returns, Op, Threw, Path, Given, Value
<1> QED
  BY <1>1, <1>2

\* An operation on a path that returns has had its effect.
LEMMA AskStep ==
  ASSUME AdapterOK, NEW op, NEW path, NEW given, NEW possible, NEW effect,
         possible => Server(effect),
         Ask(op, path, given, possible, effect)
  PROVE  /\ AdapterOK'
         /\ Threw' \/ (possible /\ remote' = effect)
         /\ Op' = op /\ Path' = path /\ Given' = given
<1>1. sftp_' = TRUE /\ handles' = handles
  BY DEF Ask
<1>2. CASE possible /\ Answered(effect) /\ Returns(op, path, given, 0)
  BY <1>1, <1>2 DEF Answered, Returns, AdapterOK, Server, Op, Path, Given
<1>3. CASE Failed(IF possible THEN effect ELSE remote) /\ Throws(op, path, given)
  <2>1. remote' = remote \/ (possible /\ remote' = effect)
    BY <1>3 DEF Failed
  <2> QED
    BY <1>1, <1>3, <2>1 DEF Throws, AdapterOK, Server, Op, Path, Given, Threw
<1> QED
  BY <1>2, <1>3 DEF Ask

\* An operation without a session throws and leaves the server as it is.
LEMMA EnsureStep ==
  ASSUME AdapterOK, NEW op, NEW path, NEW given, EnsureFails(op, path, given)
  PROVE  AdapterOK' /\ ReturnedMeansDone' /\ Threw' = TRUE /\ UNCHANGED <<remote, handles>>
<1>1. /\ UNCHANGED <<sftp_, link, remote, handles>> /\ Threw' = TRUE
  BY DEF EnsureFails, Throws, Threw
<1> QED
  BY <1>1 DEF AdapterOK, Server, ReturnedMeansDone

\* mkdir keeps the server and the handles what they are, and reports what it did.
LEMMA MkdirStep ==
  ASSUME AdapterOK, NEW path \in Names, Mkdir(path)
  PROVE  AdapterOK' /\ ReturnedMeansDone'
<1> DEFINE effect == [remote EXCEPT !.dirs = @ \cup {path}]
<1>1. Server(remote)
  BY DEF AdapterOK
<1>2. effect = [files |-> remote.files, dirs |-> remote.dirs \cup {path}]
  BY <1>1 DEF Server
<1>3. path \in effect.dirs /\ (~Exists(path) => Server(effect))
  BY <1>1, <1>2 DEF Server, Exists
<1>4. Ask("mkdir", path, 0, ~Exists(path), effect)
  BY DEF Mkdir
<1> HIDE DEF effect
<1>5. AdapterOK' /\ (Threw' \/ remote' = effect) /\ Op' = "mkdir" /\ Path' = path
  BY <1>3, <1>4, AskStep
<1> QED
  BY <1>3, <1>5 DEF ReturnedMeansDone

\* remove keeps the server and the handles what they are, and reports what it did.
LEMMA RemoveStep ==
  ASSUME AdapterOK, NEW path \in Names, Remove(path)
  PROVE  AdapterOK' /\ ReturnedMeansDone'
<1> DEFINE effect == [remote EXCEPT !.files = Without(@, path)]
<1>1. Server(remote)
  BY DEF AdapterOK
<1>2. effect = [files |-> Without(remote.files, path), dirs |-> remote.dirs]
  BY <1>1 DEF Server
<1>3. /\ Files(Without(remote.files, path))
      /\ DOMAIN Without(remote.files, path) = DOMAIN remote.files \ {path}
  BY <1>1 DEF Server, Files, Without
<1>4. Server(effect) /\ (IsFile(path) => path \notin DOMAIN effect.files \cup effect.dirs)
  BY <1>1, <1>2, <1>3 DEF Server, IsFile
<1>5. Ask("remove", path, 0, IsFile(path), effect)
  BY DEF Remove
<1> HIDE DEF effect
<1>6. AdapterOK' /\ (Threw' \/ (IsFile(path) /\ remote' = effect)) /\ Op' = "remove" /\ Path' = path
  BY <1>4, <1>5, AskStep
<1> QED
  BY <1>4, <1>6 DEF ReturnedMeansDone, Exists

\* set_attributes keeps the server and the handles what they are, and reports what it did.
LEMMA SetAttributesStep ==
  ASSUME AdapterOK, NEW path \in Names, NEW n \in Nat, SetAttributes(path, n)
  PROVE  AdapterOK' /\ ReturnedMeansDone'
<1> DEFINE file == Resized(File(path), n)
           effect == WithFile(path, file)
<1>1. Server(remote) /\ File(path) \in Bytes
  BY FileBytes DEF AdapterOK
<1>2. file \in Bytes /\ (n > 0 => Len(file) = n)
  <2>1. CASE n = 0
    BY <1>1, <2>1 DEF Resized
  <2>2. CASE n # 0
    <3>1. file = [i \in 1..n |-> IF i <= Len(File(path)) THEN File(path)[i] ELSE 0]
      BY <2>2 DEF Resized
    <3>2. \A i \in 1..n : (IF i <= Len(File(path)) THEN File(path)[i] ELSE 0) \in Nat
      BY <1>1 DEF Bytes
    <3> QED
      BY <3>1, <3>2 DEF Bytes
  <2> QED BY <2>1, <2>2
<1> HIDE DEF file
<1>3. IsFile(path) => /\ Server(effect)
                      /\ Content(effect.files, path) = file
  BY <1>1, <1>2, WithFileServer DEF IsFile, Server
<1>4. Ask("set_attributes", path, n, IsFile(path), effect)
  BY DEF SetAttributes, file
<1> HIDE DEF effect
<1>5. /\ AdapterOK' /\ (Threw' \/ (IsFile(path) /\ remote' = effect))
      /\ Op' = "set_attributes" /\ Path' = path /\ Given' = n
  BY <1>3, <1>4, AskStep
<1> QED
  BY <1>2, <1>3, <1>5 DEF ReturnedMeansDone, File

\* stat reports what is there.
LEMMA StatStep ==
  ASSUME AdapterOK, NEW path \in Names, Stat(path)
  PROVE  AdapterOK' /\ ReturnedMeansDone'
<1>1. sftp_' = TRUE /\ handles' = handles /\ remote' = remote
  BY DEF Stat, Answered, Failed
<1>2. AdapterOK'
  BY <1>1 DEF AdapterOK, Server
<1>3. /\ Op' = "stat" /\ Path' = path
      /\ Value' = Attributes(path) \/ Value' = Absent
  BY Outcome DEF Stat
<1>4. Attributes(path)' = Attributes(path)
  BY <1>1 DEF Attributes, File, Exists
<1> QED
  BY <1>2, <1>3, <1>4 DEF ReturnedMeansDone, Absent, Attributes

\* list_directory reports what is there.
LEMMA ListStep ==
  ASSUME AdapterOK, ListDirectory
  PROVE  AdapterOK' /\ ReturnedMeansDone'
<1>1. sftp_' = TRUE /\ handles' = handles /\ remote' = remote
  BY DEF ListDirectory, Answered, Failed
<1>2. AdapterOK'
  BY <1>1 DEF AdapterOK, Server
<1>3. /\ Op' = "list"
      /\ Threw' = TRUE \/ Value' \subseteq DOMAIN remote.files \cup remote.dirs
  BY Outcome DEF ListDirectory
<1> QED
  BY <1>1, <1>2, <1>3 DEF ReturnedMeansDone, Exists

\* Opening adds one handle at the offset, or throws and adds none.
LEMMA OpenStep ==
  ASSUME AdapterOK, NEW op, NEW path \in Names, NEW at \in Nat, NEW possible, NEW effect,
         possible => Server(effect),
         Open(op, path, at, possible, effect)
  PROVE  /\ AdapterOK'
         /\ Op' = op /\ Path' = path /\ Given' = at
         /\ \/ Threw' = TRUE /\ UNCHANGED handles /\ remote' \in {remote, IF possible THEN effect ELSE remote}
            \/ /\ Threw' = FALSE /\ possible /\ remote' = effect
               /\ \E h \in Handles \ DOMAIN handles :
                    handles' = Put(handles, h, [path |-> path, position |-> at])
<1>1. sftp_' = TRUE
  BY DEF Open
<1>2. CASE /\ Failed(IF possible THEN effect ELSE remote) /\ Throws(op, path, at)
           /\ UNCHANGED handles
  <2>1. remote' \in {remote, IF possible THEN effect ELSE remote}
    BY <1>2 DEF Failed
  <2>2. Server(remote')
    BY <2>1 DEF AdapterOK
  <2> QED
    BY <1>1, <1>2, <2>1, <2>2, Outcome DEF AdapterOK, Server
<1>3. ASSUME NEW h \in Handles \ DOMAIN handles,
             possible /\ Answered(effect) /\ Returns(op, path, at, h),
             handles' = Put(handles, h, [path |-> path, position |-> at])
      PROVE  /\ AdapterOK'
             /\ Op' = op /\ Path' = path /\ Given' = at
             /\ Threw' = FALSE /\ possible /\ remote' = effect
  <2>1. remote' = effect /\ Server(remote')
    BY <1>3 DEF Answered
  <2>2. /\ DOMAIN handles' = DOMAIN handles \cup {h}
        /\ \A g \in DOMAIN handles' : handles'[g] \in Opening
    BY <1>3 DEF Put, AdapterOK, Opening
  <2>3. AdapterOK'
    BY <1>1, <2>1, <2>2 DEF AdapterOK, Server
  <2> QED
    BY <1>3, <2>1, <2>3, Outcome
<1> QED
  BY <1>2, <1>3 DEF Open

\* Opening to read leaves the server as it is.
LEMMA OpenReadStep ==
  ASSUME AdapterOK, NEW path \in Names, NEW at \in Nat, OpenRead(path, at)
  PROVE  /\ AdapterOK' /\ ReturnedMeansDone' /\ UNCHANGED remote
         /\ \/ Threw' = TRUE /\ UNCHANGED handles
            \/ /\ Threw' = FALSE
               /\ \E h \in Handles \ DOMAIN handles :
                    handles' = Put(handles, h, [path |-> path, position |-> at])
<1>1. Open("open_read", path, at, IsFile(path), remote) /\ Server(remote)
  BY DEF OpenRead, AdapterOK
<1>2. /\ AdapterOK' /\ Op' = "open_read" /\ remote' = remote
      /\ \/ Threw' = TRUE /\ UNCHANGED handles
         \/ /\ Threw' = FALSE
            /\ \E h \in Handles \ DOMAIN handles :
                 handles' = Put(handles, h, [path |-> path, position |-> at])
  BY <1>1, OpenStep
<1> QED
  BY <1>2 DEF ReturnedMeansDone

\* Opening to write leaves the file as the offset asks.
LEMMA OpenWriteStep ==
  ASSUME AdapterOK, NEW path \in Names, NEW at \in Nat, OpenWrite(path, at)
  PROVE  /\ AdapterOK' /\ ReturnedMeansDone'
         /\ \/ Threw' = TRUE /\ UNCHANGED handles
            \/ /\ Threw' = FALSE /\ File(path)' = Opened(File(path), at)
               /\ \E h \in Handles \ DOMAIN handles :
                    handles' = Put(handles, h, [path |-> path, position |-> at])
<1> DEFINE file == Opened(File(path), at)
           effect == WithFile(path, file)
<1>1. Server(remote) /\ File(path) \in Bytes
  BY FileBytes DEF AdapterOK
<1>2. file \in Bytes /\ (at = 0 => file = <<>>)
  BY <1>1 DEF Opened, Bytes
<1> HIDE DEF file
<1>3. path \notin remote.dirs =>
        /\ Server(effect) /\ path \in DOMAIN effect.files
        /\ Content(effect.files, path) = file
  BY <1>1, <1>2, WithFileServer
<1>4. Open("open_write", path, at, path \notin remote.dirs, effect)
  BY DEF OpenWrite, file
<1> HIDE DEF effect
<1>5. /\ AdapterOK' /\ Op' = "open_write" /\ Path' = path /\ Given' = at
      /\ \/ Threw' = TRUE /\ UNCHANGED handles
         \/ /\ Threw' = FALSE /\ path \notin remote.dirs /\ remote' = effect
            /\ \E h \in Handles \ DOMAIN handles :
                 handles' = Put(handles, h, [path |-> path, position |-> at])
  BY <1>3, <1>4, OpenStep
<1>6. Threw' = FALSE => IsFile(path)' /\ File(path)' = file
  BY <1>3, <1>5 DEF IsFile, File
<1>7. ReturnedMeansDone'
  BY <1>2, <1>5, <1>6 DEF ReturnedMeansDone
<1> QED
  BY <1>5, <1>6, <1>7 DEF file

\* A handle that advances does so alone and by n.
LEMMA Advance ==
  ASSUME AdapterOK, NEW h \in DOMAIN handles, NEW n \in Nat
  PROVE  /\ DOMAIN Advanced(h, n) = DOMAIN handles
         /\ Advanced(h, n)[h].path = handles[h].path
         /\ Advanced(h, n)[h].position = handles[h].position + n
         /\ \A g \in DOMAIN handles : Advanced(h, n)[g] \in Opening
<1>1. handles[h] \in Opening /\ handles[h].position + n \in Nat
  BY DEF AdapterOK, Opening
<1>2. Advanced(h, n) =
        [g \in DOMAIN handles |->
           IF g = h THEN [path |-> handles[h].path, position |-> handles[h].position + n]
           ELSE handles[g]]
  BY <1>1 DEF Advanced, Opening
<1> QED
  BY <1>1, <1>2 DEF AdapterOK, Opening

\* A read returns what is at the handle's position, and nothing only at the end.
LEMMA ReadStep ==
  ASSUME AdapterOK, NEW h \in DOMAIN handles, NEW count \in Nat \ {0}, Read(h, count)
  PROVE  /\ AdapterOK' /\ ReturnedMeansDone' /\ UNCHANGED remote
         /\ \/ Threw' = TRUE /\ UNCHANGED handles
            \/ \E n \in 0..count :
                 LET at == handles[h].position
                     file == File(handles[h].path)
                 IN  /\ Threw' = FALSE /\ handles' = Advanced(h, n)
                     /\ IF n = 0 THEN Value' = <<>> /\ Len(file) <= at
                        ELSE at + n <= Len(file) /\ Value' = SubSeq(file, at + 1, at + n)
<1> DEFINE path == handles[h].path
           at == handles[h].position
           file == File(path)
<1>1. sftp_' = sftp_ /\ remote' = remote
  BY DEF Read, Answered, Failed
<1>2. /\ path \in Names /\ at \in Nat /\ file \in Bytes /\ Len(file) \in Nat
  BY FileBytes DEF AdapterOK, Opening, Bytes
<1>3. CASE Failed(remote) /\ Throws("read", path, count) /\ UNCHANGED handles
  BY <1>1, <1>3, Outcome DEF AdapterOK, Server, ReturnedMeansDone
<1>4. ASSUME NEW bytes \in Found(h, count),
             Returns("read", path, count, bytes), handles' = Advanced(h, Len(bytes))
      PROVE  /\ AdapterOK' /\ ReturnedMeansDone'
             /\ \E n \in 0..count :
                  /\ Threw' = FALSE /\ handles' = Advanced(h, n)
                  /\ IF n = 0 THEN Value' = <<>> /\ Len(file) <= at
                     ELSE at + n <= Len(file) /\ Value' = SubSeq(file, at + 1, at + n)
  <2>1. \E n \in 0..count :
          /\ Len(bytes) = n
          /\ IF n = 0 THEN bytes = <<>> /\ Len(file) <= at
             ELSE at + n <= Len(file) /\ bytes = SubSeq(file, at + 1, at + n)
    <3> DEFINE most == Least(count, Len(file) - at)
    <3>1. most \in Int /\ most <= count /\ most <= Len(file) - at /\ (most <= 0 => Len(file) <= at)
      BY <1>2 DEF Least
    <3>2. bytes \in IF most <= 0 THEN {<<>>} ELSE {SubSeq(file, at + 1, at + n) : n \in 1..most}
      BY DEF Found
    <3> HIDE DEF most, file, at, path
    <3>3. CASE most <= 0
      <4>1. bytes = <<>> /\ Len(bytes) = 0 /\ 0 \in 0..count
        BY <3>2, <3>3
      <4> QED
        BY <3>1, <3>3, <4>1
    <3>4. CASE ~(most <= 0)
      <4>1. PICK n \in 1..most : bytes = SubSeq(file, at + 1, at + n)
        BY <3>2, <3>4
      <4>2. n \in Nat /\ n # 0 /\ n \in 0..count /\ at + n <= Len(file)
        BY <1>2, <3>1
      <4>3. Len(bytes) = n
        BY <1>2, <4>1, <4>2, Slice
      <4> QED
        BY <4>1, <4>2, <4>3
    <3> QED BY <3>3, <3>4
  <2>2. PICK n \in 0..count :
          /\ Len(bytes) = n
          /\ IF n = 0 THEN bytes = <<>> /\ Len(file) <= at
             ELSE at + n <= Len(file) /\ bytes = SubSeq(file, at + 1, at + n)
    BY <2>1
  <2>3. Op' = "read" /\ Threw' = FALSE /\ Value' = bytes
    BY <1>4, Outcome
  <2>4. handles' = Advanced(h, n) /\ n \in Nat
    BY <1>4, <2>2
  <2>5. AdapterOK'
    BY <1>1, <2>4, Advance DEF AdapterOK, Server
  <2>6. ReturnedMeansDone'
    BY <2>3 DEF ReturnedMeansDone
  <2> QED
    BY <2>2, <2>3, <2>4, <2>5, <2>6
<1> QED
  BY <1>1, <1>3, <1>4 DEF Read

\* Closing removes the handle and changes nothing on the server.
LEMMA CloseStep ==
  ASSUME AdapterOK, NEW h \in DOMAIN handles, Close(h)
  PROVE  /\ AdapterOK' /\ ReturnedMeansDone' /\ UNCHANGED remote
         /\ DOMAIN handles' = DOMAIN handles \ {h} /\ Threw' = FALSE
<1>1. sftp_' = sftp_ /\ remote' = remote /\ handles' = Without(handles, h)
  BY DEF Close, Failed
<1>2. Op' = "close" /\ Threw' = FALSE
  BY Outcome DEF Close
<1>3. /\ DOMAIN handles' = DOMAIN handles \ {h}
      /\ \A g \in DOMAIN handles' : handles'[g] = handles[g]
  BY <1>1 DEF Without
<1>4. AdapterOK'
  BY <1>1, <1>3 DEF AdapterOK, Server
<1> QED
  BY <1>1, <1>2, <1>3, <1>4 DEF ReturnedMeansDone

\* The directory after the server has taken n of the bytes of a write.
AfterWrite(h, bytes, n) ==
  IF n = 0 THEN remote
  ELSE WithFile(handles[h].path,
                Overwrite(File(handles[h].path), handles[h].position, Prefix(bytes, n)))

\* A write of n bytes puts them at the position of the handle.
LEMMA AfterWriteFile ==
  ASSUME AdapterOK, NEW h \in DOMAIN handles, NEW bytes \in Bytes, NEW n \in 0..Len(bytes),
         n = 0 \/ IsFile(handles[h].path)
  PROVE  LET r == AfterWrite(h, bytes, n)
             at == handles[h].position
             file == Content(r.files, handles[h].path)
         IN  /\ Server(r)
             /\ n > 0 => file = Overwrite(File(handles[h].path), at, Prefix(bytes, n))
             /\ SubSeq(file, at + 1, at + n) = Prefix(bytes, n)
<1>0. PICK at \in Nat : at = handles[h].position
  BY DEF AdapterOK, Opening
<1> DEFINE path == handles[h].path
           taken == Prefix(bytes, n)
           file == Overwrite(File(path), at, taken)
           r == AfterWrite(h, bytes, n)
<1>1. Server(remote) /\ path \in Names /\ File(path) \in Bytes /\ n \in Nat
  BY FileBytes DEF AdapterOK, Opening
<1>2. taken \in Bytes /\ Len(taken) = n
  BY Front
<1>3. CASE n = 0
  <2>1. r = remote
    BY <1>3 DEF AfterWrite
  <2>2. SubSeq(Content(r.files, path), at + 1, at + n) = <<>>
    BY <1>1, <1>3, SubSeqEmpty
  <2>3. taken = <<>>
    BY <1>2, <1>3 DEF Bytes
  <2>4. Server(r)
    BY <1>1, <2>1
  <2> HIDE DEF taken, r, file
  <2>5. SubSeq(Content(r.files, path), at + 1, at + n) = taken
    BY <2>2, <2>3
  <2>6. ~(n > 0)
    BY <1>3
  <2> QED
    BY <1>0, <2>4, <2>5, <2>6 DEF taken, r
<1>4. CASE n > 0
  <2>1. IsFile(path) /\ path \notin remote.dirs
    BY <1>1, <1>4 DEF IsFile, Server
  <2>2. r = WithFile(path, file)
    BY <1>0, <1>4 DEF AfterWrite
  <2> HIDE DEF taken
  <2>3. /\ file \in Bytes /\ at + Len(taken) <= Len(file)
        /\ \A i \in at + 1..at + Len(taken) : file[i] = taken[i - at]
    BY <1>1, <1>2, OverwriteBytes
  <2>4. Server(r) /\ Content(r.files, path) = file
    BY <1>1, <2>1, <2>2, <2>3, WithFileServer
  <2> HIDE DEF file, r
  <2>5. /\ SubSeq(file, at + 1, at + n) \in Bytes /\ Len(SubSeq(file, at + 1, at + n)) = n
        /\ \A i \in 1..n : SubSeq(file, at + 1, at + n)[i] = file[at + i]
    BY <1>1, <1>2, <2>3, Slice
  <2>6. ASSUME NEW i \in 1..n PROVE file[at + i] = taken[i]
    <3>1. at + i \in at + 1..at + n /\ at + i - at = i
      BY <1>1
    <3>2. at + i \in at + 1..at + Len(taken)
      BY <1>2, <3>1
    <3>3. \A k \in at + 1..at + Len(taken) : file[k] = taken[k - at]
      BY <2>3
    <3>4. file[at + i] = taken[at + i - at]
      BY <3>2, <3>3
    <3> QED
      BY <3>1, <3>4
  <2>7. \A i \in 1..n : SubSeq(file, at + 1, at + n)[i] = taken[i]
    BY <2>5, <2>6
  <2>8. SubSeq(file, at + 1, at + n) = taken
    BY <1>2, <2>5, <2>7, SeqEqual DEF Bytes
  <2> QED
    BY <1>0, <2>4, <2>8 DEF file, taken, r
<1> QED BY <1>1, <1>3, <1>4

\* A write puts some n of the bytes there and says so, or throws.
LEMMA WriteStep ==
  ASSUME AdapterOK, NEW h \in DOMAIN handles, NEW bytes \in Bytes, Write(h, bytes)
  PROVE  /\ AdapterOK' /\ ReturnedMeansDone'
         /\ \E n \in 0..Len(bytes) :
              /\ n = 0 \/ IsFile(handles[h].path)
              /\ remote' = AfterWrite(h, bytes, n)
              /\ \/ Threw' = TRUE /\ UNCHANGED handles
                 \/ Threw' = FALSE /\ Value' = n /\ handles' = Advanced(h, n)
<1> DEFINE path == handles[h].path
           at == handles[h].position
           given == [at |-> at, bytes |-> bytes]
<1>1. PICK n \in 0..Len(bytes) :
        \/ /\ IsFile(path) /\ Answered(AfterWrite(h, bytes, n)) /\ Returns("write", path, given, n)
           /\ handles' = Advanced(h, n)
        \/ /\ Failed(IF IsFile(path) THEN AfterWrite(h, bytes, n) ELSE remote)
           /\ Throws("write", path, given) /\ UNCHANGED handles
  BY DEF Write, AfterWrite
<1>2. sftp_' = sftp_ /\ 0 \in 0..Len(bytes) /\ n \in Nat
  BY DEF Write, Bytes
<1>3. CASE /\ Failed(IF IsFile(path) THEN AfterWrite(h, bytes, n) ELSE remote)
           /\ Throws("write", path, given) /\ UNCHANGED handles
  <2>1. Threw' = TRUE
    BY <1>3, Outcome
  <2>2. \E m \in 0..Len(bytes) :
          (m = 0 \/ IsFile(path)) /\ remote' = AfterWrite(h, bytes, m)
    <3>1. CASE remote' = remote
      BY <1>2, <3>1 DEF AfterWrite
    <3>2. CASE IsFile(path) /\ remote' = AfterWrite(h, bytes, n)
      BY <3>2
    <3> QED BY <1>3, <3>1, <3>2 DEF Failed
  <2>3. Server(remote')
    BY <2>2, AfterWriteFile
  <2>4. AdapterOK' /\ ReturnedMeansDone'
    BY <1>2, <1>3, <2>1, <2>3 DEF AdapterOK, Server, ReturnedMeansDone
  <2> QED
    BY <1>3, <2>1, <2>2, <2>4
<1>4. CASE /\ IsFile(path) /\ Answered(AfterWrite(h, bytes, n)) /\ Returns("write", path, given, n)
           /\ handles' = Advanced(h, n)
  <2>1. /\ Op' = "write" /\ Threw' = FALSE /\ Path' = path /\ Value' = n
        /\ Given' = given
    BY <1>4, Outcome
  <2>2. remote' = AfterWrite(h, bytes, n) /\ IsFile(path)
    BY <1>4 DEF Answered
  <2>3. /\ Server(remote')
        /\ SubSeq(Content(remote'.files, path), at + 1, at + n) = Prefix(bytes, n)
    BY <2>2, AfterWriteFile
  <2>4. AdapterOK'
    BY <1>2, <1>4, <2>3, Advance DEF AdapterOK, Server
  <2>5. Given'.at = at /\ Given'.bytes = bytes
    BY <2>1
  <2> HIDE DEF path, at, given
  <2>6. ReturnedMeansDone'
    BY <2>1, <2>3, <2>5 DEF ReturnedMeansDone, File
  <2> QED
    BY <1>4, <2>1, <2>2, <2>4, <2>6 DEF path
<1> QED BY <1>1, <1>3, <1>4

-----------------------------------------------------------------------------
(* The transfers.                                                           *)

\* What is transferred: all that was given, or that much of the remote file.
LEMMA WholeBytes ==
  ASSUME TypeOK
  PROVE  /\ Whole \in Bytes /\ Len(Whole) \in Nat /\ Len(Whole) <= size
         /\ job = "upload" => Len(Whole) = size
         /\ job # "upload" =>
              /\ Len(Whole) = Least(size, Len(origin))
              /\ \A n \in 0..Len(Whole) : Prefix(Whole, n) = Prefix(origin, n)
<1>1. size \in Nat /\ origin \in Bytes /\ Len(origin) \in Nat
  BY DEF TypeOK, Bytes
<1>2. CASE job = "upload"
  BY <1>1, <1>2 DEF Whole, Numbered, Bytes
<1>3. CASE job # "upload"
  <2>1. PICK k \in 0..Len(origin) : k = Least(size, Len(origin)) /\ k <= size
    BY <1>1 DEF Least
  <2>2. Whole = SubSeq(origin, 1, k)
    BY <1>3, <2>1 DEF Whole, Prefix
  <2>3. Whole \in Bytes /\ Len(Whole) = k
    BY <1>1, <2>2, Front
  <2>4. ASSUME NEW n \in 0..k PROVE Prefix(Whole, n) = Prefix(origin, n)
    <3>1. PICK at \in Nat : at = 0
      OBVIOUS
    <3>2. k \in Nat /\ at + k <= Len(origin)
      BY <1>1, <3>1
    <3>3. Prefix(SubSeq(origin, at + 1, at + k), n) = SubSeq(origin, at + 1, at + n)
      BY <1>1, <3>2, Grown
    <3>4. at + 1 = 1 /\ at + k = k /\ at + n = n
      BY <3>1
    <3>5. Prefix(SubSeq(origin, 1, k), n) = SubSeq(origin, 1, n)
      BY <3>3, <3>4
    <3>6. n \in 0..Len(origin)
      BY <1>1
    <3>7. Prefix(origin, n) = SubSeq(origin, 1, n)
      BY <1>1, <3>6, Front
    <3> QED
      BY <2>2, <3>5, <3>7
  <2> QED
    BY <1>1, <1>3, <2>1, <2>3, <2>4
<1> QED BY <1>2, <1>3

\* While a transfer is on, its handle is the only one and stands at the offset.
LEMMA TheHandle ==
  ASSUME TypeOK, OneHandle, job # "other", pc \in {"loop", "stopped"}
  PROVE  /\ DOMAIN handles = {Handle} /\ Handle \in DOMAIN handles
         /\ handles[Handle].path = Target /\ handles[Handle].position = offset
<1>1. PICK h \in Handles :
        DOMAIN handles = {h} /\ handles[h].path = Target /\ handles[h].position = offset
  BY DEF OneHandle
<1>2. Handle = h
  BY <1>1 DEF Handle
<1> QED
  BY <1>1, <1>2

\* A chunk is never empty and never goes beyond the source.
LEMMA ChunkFits ==
  ASSUME TypeOK, offset < size
  PROVE  Chunk \in Nat \ {0} /\ offset + Chunk <= size
BY TransferAssumption DEF Chunk, Least, TypeOK

\* An upload is open with an empty file, a download with an empty buffer.
LEMMA BeginEffect ==
  ASSUME IInv, BeginUpload \/ BeginDownload
  PROVE  /\ AdapterOK' /\ ReturnedMeansDone' /\ UNCHANGED <<input, offset, buffer>>
         /\ job = "download" => UNCHANGED remote
         /\ \/ pc' = "threw" /\ UNCHANGED handles
            \/ /\ pc' = "loop" /\ Destination' = <<>>
               /\ \E h \in Handles :
                    /\ DOMAIN handles' = {h}
                    /\ handles'[h].path = Target /\ handles'[h].position = 0
<1> USE TransferAssumption
<1>1. AdapterOK /\ DOMAIN handles = {} /\ job # "other" /\ offset = 0 /\ buffer = <<>>
  BY DEF IInv, TypeOK, OneHandle, Progress, BeginUpload, BeginDownload
<1>2. UNCHANGED <<input, offset, buffer>> /\ pc' = IF Threw' THEN "threw" ELSE "loop"
  BY DEF BeginUpload, BeginDownload, Goto
<1>3. ASSUME NEW h \in Handles \ DOMAIN handles,
             handles' = Put(handles, h, [path |-> Target, position |-> 0])
      PROVE  /\ DOMAIN handles' = {h}
             /\ handles'[h].path = Target /\ handles'[h].position = 0
  BY <1>1, <1>3 DEF Put
<1>4. CASE BeginUpload /\ OpenWrite(Target, 0)
  <2>1. /\ AdapterOK' /\ ReturnedMeansDone'
        /\ \/ Threw' = TRUE /\ UNCHANGED handles
           \/ /\ Threw' = FALSE /\ File(Target)' = Opened(File(Target), 0)
              /\ \E h \in Handles \ DOMAIN handles :
                   handles' = Put(handles, h, [path |-> Target, position |-> 0])
    BY <1>1, <1>4, OpenWriteStep
  <2>2. job = "upload" /\ job' = job
    BY <1>4, <1>2 DEF BeginUpload, input
  <2> QED
    BY <1>2, <1>3, <2>1, <2>2 DEF Destination, Opened
<1>5. CASE BeginDownload /\ OpenRead(Target, 0)
  <2>1. /\ AdapterOK' /\ ReturnedMeansDone' /\ UNCHANGED remote
        /\ \/ Threw' = TRUE /\ UNCHANGED handles
           \/ /\ Threw' = FALSE
              /\ \E h \in Handles \ DOMAIN handles :
                   handles' = Put(handles, h, [path |-> Target, position |-> 0])
    BY <1>1, <1>5, OpenReadStep
  <2>2. job = "download" /\ job' = job
    BY <1>5, <1>2 DEF BeginDownload, input
  <2> QED
    BY <1>1, <1>2, <1>3, <2>1, <2>2 DEF Destination
<1>6. CASE \E op : EnsureFails(op, Target, 0)
  BY <1>1, <1>2, <1>6, EnsureStep
<1> QED
  BY <1>4, <1>5, <1>6 DEF BeginUpload, BeginDownload

\* Taken bytes of the chunk are at the destination, whether or not an exception
\* hides it from upload_file; the loop is left when there were none.
ChunkCopied(n) ==
  /\ n \in 0..Chunk /\ offset + n <= Len(Whole)
  /\ Destination' = Prefix(Whole, offset + n)
  /\ \/ pc' = "threw" /\ UNCHANGED handles
     \/ /\ pc' = IF n = 0 THEN "stopped" ELSE "loop"
        /\ offset' = offset + n /\ DOMAIN handles' = DOMAIN handles
        /\ handles'[Handle].path = Target /\ handles'[Handle].position = offset'

\* A turn of the upload copies some n bytes of the chunk.
LEMMA UploadEffect ==
  ASSUME IInv, UploadChunk
  PROVE  /\ AdapterOK' /\ ReturnedMeansDone' /\ UNCHANGED <<input, buffer>>
         /\ offset' \in Nat
         /\ \E n \in 0..Chunk : ChunkCopied(n)
<1> DEFINE c == Chunk
           bytes == SubSeq(Numbered(size), offset + 1, offset + c)
<1>1. /\ TypeOK /\ AdapterOK /\ OneHandle /\ Progress /\ offset \in Nat
      /\ job = "upload" /\ pc = "loop" /\ offset < size /\ UNCHANGED <<input, buffer>>
  BY DEF IInv, TypeOK, UploadChunk
<1>2. /\ Handle \in DOMAIN handles /\ handles[Handle].path = Target
      /\ handles[Handle].position = offset
  BY <1>1, TheHandle
<1>3. /\ Whole = Numbered(size) /\ Whole \in Bytes /\ Len(Whole) = size
      /\ Destination = File(Target) /\ Destination = Prefix(Whole, offset)
      /\ Destination' = File(Target)'
  BY <1>1, WholeBytes DEF Whole, Destination, Progress, input
<1>4. c \in Nat \ {0} /\ offset + c <= Len(Whole)
  BY <1>1, <1>3, ChunkFits
<1> HIDE DEF c
<1>5. bytes \in Bytes /\ Len(bytes) = c
  BY <1>1, <1>3, <1>4, Slice
<1>6. /\ Write(Handle, bytes)
      /\ IF Threw' THEN UNCHANGED offset ELSE offset' = offset + Value'
      /\ pc' = IF Threw' THEN "threw" ELSE IF offset' = offset THEN "stopped" ELSE "loop"
  BY <1>1 DEF UploadChunk, Goto, Taken, c
<1> HIDE DEF bytes
<1>7. AdapterOK' /\ ReturnedMeansDone'
  BY <1>1, <1>2, <1>5, <1>6, WriteStep
<1>8. PICK n \in 0..c :
        /\ n = 0 \/ IsFile(handles[Handle].path)
        /\ remote' = AfterWrite(Handle, bytes, n)
        /\ \/ Threw' = TRUE /\ UNCHANGED handles
           \/ Threw' = FALSE /\ Value' = n /\ handles' = Advanced(Handle, n)
  BY <1>1, <1>2, <1>5, <1>6, WriteStep
<1>9. n \in Nat /\ n <= c /\ offset + n <= Len(Whole)
  BY <1>1, <1>3, <1>4
<1>10. File(Target)' = Prefix(Whole, offset + n)
  <2>1. CASE n = 0
    <3>1. File(Target)' = File(Target) /\ offset + n = offset
      BY <1>1, <1>8, <2>1 DEF AfterWrite, File
    <3> QED
      BY <1>3, <3>1
  <2>2. CASE n > 0
    <3>1. Content(AfterWrite(Handle, bytes, n).files, Target)
            = Overwrite(File(Target), offset, Prefix(bytes, n))
      BY <1>1, <1>2, <1>5, <1>8, <2>2, AfterWriteFile
    <3>2. /\ Prefix(bytes, n) = SubSeq(Whole, offset + 1, offset + n)
          /\ Overwrite(Prefix(Whole, offset), offset, SubSeq(Whole, offset + 1, offset + n))
               = Prefix(Whole, offset + n)
      BY <1>1, <1>3, <1>4, Grown DEF bytes
    <3> QED
      BY <1>3, <1>8, <3>1, <3>2 DEF File
  <2> QED BY <1>9, <2>1, <2>2
<1>11. CASE Threw' = TRUE
  <2>1. pc' = "threw" /\ offset' = offset /\ UNCHANGED handles
    BY <1>6, <1>8, <1>11
  <2> QED
    BY <1>1, <1>3, <1>7, <1>9, <1>10, <2>1 DEF ChunkCopied, c
<1>12. CASE Threw' = FALSE
  <2>1. /\ offset' = offset + n /\ handles' = Advanced(Handle, n)
        /\ pc' = IF offset' = offset THEN "stopped" ELSE "loop"
    BY <1>6, <1>8, <1>12
  <2>2. /\ DOMAIN handles' = DOMAIN handles /\ handles'[Handle].path = Target
        /\ handles'[Handle].position = offset'
    BY <1>1, <1>2, <1>9, <2>1, Advance
  <2>3. offset' = offset <=> n = 0
    BY <1>1, <1>9, <2>1
  <2> QED
    BY <1>1, <1>3, <1>7, <1>9, <1>10, <2>1, <2>2, <2>3 DEF ChunkCopied, c
<1> QED BY <1>8, <1>11, <1>12

\* A turn of the download copies some n bytes of the chunk.
LEMMA DownloadEffect ==
  ASSUME IInv, DownloadChunk
  PROVE  /\ AdapterOK' /\ ReturnedMeansDone' /\ UNCHANGED <<input, remote>>
         /\ offset' \in Nat /\ buffer' \in Bytes
         /\ \E n \in 0..Chunk : ChunkCopied(n)
         /\ pc' = "stopped" => offset' = Len(Whole)
<1> DEFINE c == Chunk
<1>1. /\ TypeOK /\ AdapterOK /\ OneHandle /\ Progress
      /\ offset \in Nat /\ size \in Nat /\ buffer \in Bytes
      /\ job = "download" /\ pc = "loop" /\ offset < size /\ UNCHANGED input
  BY DEF IInv, TypeOK, DownloadChunk
<1>2. /\ Handle \in DOMAIN handles /\ handles[Handle].path = Target
      /\ handles[Handle].position = offset
  BY <1>1, TheHandle
<1>3. File(Target) = origin /\ origin \in Bytes /\ Len(origin) \in Nat
  BY <1>1 DEF Progress, TypeOK, Bytes
<1>4. /\ Whole \in Bytes /\ Len(Whole) \in Nat /\ Len(Whole) = Least(size, Len(origin))
      /\ \A n \in 0..Len(Whole) : Prefix(Whole, n) = Prefix(origin, n)
      /\ offset <= Len(Whole) /\ Destination = buffer /\ Destination' = buffer'
      /\ buffer = Prefix(Whole, offset)
  BY <1>1, WholeBytes DEF Destination, Progress, input
<1>5. c \in Nat \ {0} /\ offset + c <= size
  BY <1>1, ChunkFits
<1> HIDE DEF c
<1>6. /\ Read(Handle, c)
      /\ IF Threw' THEN UNCHANGED <<offset, buffer>>
         ELSE offset' = offset + Len(Value') /\ buffer' = buffer \o Value'
      /\ pc' = IF Threw' THEN "threw" ELSE IF offset' = offset THEN "stopped" ELSE "loop"
  BY <1>1 DEF DownloadChunk, Goto, Taken, c
<1>7. /\ AdapterOK' /\ ReturnedMeansDone' /\ UNCHANGED remote
      /\ \/ Threw' = TRUE /\ UNCHANGED handles
         \/ \E n \in 0..c :
              /\ Threw' = FALSE /\ handles' = Advanced(Handle, n)
              /\ IF n = 0 THEN Value' = <<>> /\ Len(origin) <= offset
                 ELSE /\ offset + n <= Len(origin)
                      /\ Value' = SubSeq(origin, offset + 1, offset + n)
  BY <1>1, <1>2, <1>3, <1>5, <1>6, ReadStep
<1>8. CASE Threw' = TRUE /\ UNCHANGED handles
  <2>1. pc' = "threw" /\ offset' = offset /\ buffer' = buffer
    BY <1>6, <1>8
  <2>2. 0 \in 0..c /\ offset + 0 = offset
    BY <1>1, <1>5
  <2>3. ChunkCopied(0)
    BY <1>4, <1>8, <2>1, <2>2 DEF ChunkCopied, c
  <2> QED
    BY <1>1, <1>7, <2>1, <2>2, <2>3 DEF c
<1>9. ASSUME NEW n \in 0..c,
             Threw' = FALSE /\ handles' = Advanced(Handle, n),
             IF n = 0 THEN Value' = <<>> /\ Len(origin) <= offset
             ELSE offset + n <= Len(origin) /\ Value' = SubSeq(origin, offset + 1, offset + n)
      PROVE  /\ offset' \in Nat /\ buffer' \in Bytes
             /\ ChunkCopied(n)
             /\ pc' = "stopped" => offset' = Len(Whole)
  <2>1. /\ offset' = offset + Len(Value') /\ buffer' = buffer \o Value'
        /\ pc' = IF offset' = offset THEN "stopped" ELSE "loop"
    BY <1>6, <1>9
  <2>2. /\ n \in Nat /\ n <= c /\ offset + n <= Len(Whole)
        /\ n = 0 => offset = Len(Whole)
    BY <1>1, <1>3, <1>4, <1>5, <1>9 DEF Least
  <2>3. Len(Value') = n /\ buffer' = Prefix(Whole, offset + n)
    <3>1. CASE n = 0
      <4>1. Value' = <<>> /\ offset + n = offset
        BY <1>1, <1>9, <3>1
      <4>2. buffer \o <<>> = buffer
        BY <1>1 DEF Bytes
      <4> QED
        BY <1>4, <2>1, <3>1, <4>1, <4>2
    <3>2. CASE n > 0
      <4>1. offset + n <= Len(origin) /\ Value' = SubSeq(origin, offset + 1, offset + n)
        BY <1>9, <2>2, <3>2
      <4>2. Len(Value') = n
        BY <1>1, <1>3, <2>2, <4>1, Slice
      <4>3. Prefix(origin, offset) \o SubSeq(origin, offset + 1, offset + n)
              = Prefix(origin, offset + n)
        <5>1. n \in 0..n
          BY <2>2
        <5> QED
          BY <1>1, <1>3, <2>2, <4>1, <5>1, Grown
      <4>4. offset \in 0..Len(Whole) /\ offset + n \in 0..Len(Whole)
        BY <1>1, <1>4, <2>2
      <4> QED
        BY <1>4, <2>1, <4>1, <4>2, <4>3, <4>4
    <3> QED BY <2>2, <3>1, <3>2
  <2>4. offset' = offset + n /\ offset' \in Nat /\ (offset' = offset <=> n = 0)
    BY <1>1, <2>1, <2>2, <2>3
  <2>5. buffer' \in Bytes
    <3>1. offset + n \in 0..Len(Whole)
      BY <1>1, <1>4, <2>2
    <3> QED
      BY <1>4, <2>3, <3>1, Front
  <2>6. /\ DOMAIN handles' = DOMAIN handles /\ handles'[Handle].path = Target
        /\ handles'[Handle].position = offset'
    BY <1>1, <1>2, <1>9, <2>2, <2>4, Advance
  <2>7. ChunkCopied(n)
    BY <1>1, <1>4, <2>1, <2>2, <2>3, <2>4, <2>6 DEF ChunkCopied, c
  <2>8. pc' = "stopped" => offset' = Len(Whole)
    BY <2>1, <2>2, <2>4
  <2> QED
    BY <2>4, <2>5, <2>7, <2>8
<1> QED
  BY <1>1, <1>7, <1>8, <1>9 DEF c

\* The end closes the handle, and succeeds for a whole copy only.
LEMMA CloseEffect ==
  ASSUME IInv, CloseAndReturn
  PROVE  /\ AdapterOK' /\ ReturnedMeansDone' /\ UNCHANGED <<input, remote, offset, buffer>>
         /\ job # "other" /\ DOMAIN handles' = {} /\ pc \in {"loop", "stopped"}
         /\ \/ pc' = "failed" /\ job = "upload" /\ offset < Len(Whole)
            \/ pc' = "succeeded" /\ offset = Len(Whole)
<1>1. /\ TypeOK /\ AdapterOK /\ OneHandle /\ Progress
      /\ size \in Nat /\ pc \in {"loop", "stopped"} /\ Close(Handle)
      /\ UNCHANGED <<input, offset, buffer>>
  BY DEF IInv, TypeOK, CloseAndReturn, CloseHandle
<1>2. job # "other"
  BY <1>1 DEF Progress
<1>3. DOMAIN handles = {Handle} /\ Handle \in DOMAIN handles
  BY <1>1, <1>2, TheHandle
<1>4. /\ AdapterOK' /\ ReturnedMeansDone' /\ UNCHANGED remote
      /\ DOMAIN handles' = DOMAIN handles \ {Handle}
  BY <1>1, <1>3, CloseStep
<1>5. DOMAIN handles' = {}
  BY <1>3, <1>4
<1>6. \/ pc' = "failed" /\ job = "upload" /\ offset < Len(Whole)
      \/ pc' = "succeeded" /\ offset = Len(Whole)
  <2>1. Len(Whole) \in Nat /\ Len(Whole) <= size /\ offset <= Len(Whole) /\ offset \in Nat
    BY <1>1, <1>2, WholeBytes DEF Progress, TypeOK
  <2>2. CASE pc = "stopped" /\ job = "upload"
    BY <1>1, <2>2, WholeBytes DEF CloseAndReturn, Progress
  <2>3. CASE pc = "stopped" /\ job # "upload"
    BY <1>1, <1>2, <2>3 DEF CloseAndReturn, Progress, TypeOK
  <2>4. CASE pc = "loop"
    BY <1>1, <2>1, <2>4 DEF CloseAndReturn
  <2> QED BY <1>1, <2>2, <2>3, <2>4
<1> QED
  BY <1>1, <1>2, <1>4, <1>5, <1>6

-----------------------------------------------------------------------------
(* The invariant.                                                           *)

\* The invariant holds at first.
LEMMA InitIInv == Init => IInv
<1> SUFFICES ASSUME Init PROVE IInv
  OBVIOUS
<1> USE TransferAssumption
<1>1. /\ sftp_ = FALSE /\ DOMAIN handles = {} /\ call = NoCall
      /\ job \in {"upload", "download", "other"} /\ pc = "open"
      /\ offset = 0 /\ buffer = <<>> /\ origin = File(Target)
  BY DEF Init, NoHandles
<1>2. size \in Nat
  BY DEF Init
<1>3. Server(remote)
  <2>1. PICK n \in Nat :
          \/ remote = [files |-> [p \in {Target} |-> Numbered(n)], dirs |-> {}]
          \/ remote = [files |-> [p \in {} |-> <<>>], dirs |-> {}]
          \/ remote = [files |-> [p \in {} |-> <<>>], dirs |-> {Target}]
    BY DEF Init
  <2>2. Numbered(n) \in Bytes
    BY DEF Numbered, Bytes
  <2>3. CASE remote = [files |-> [p \in {Target} |-> Numbered(n)], dirs |-> {}]
    BY <2>2, <2>3 DEF Server, Files
  <2>4. CASE remote.files = [p \in {} |-> <<>>] /\ remote.dirs \subseteq Names
             /\ remote = [files |-> remote.files, dirs |-> remote.dirs]
    BY <2>4 DEF Server, Files
  <2> QED BY <2>1, <2>3, <2>4
<1>4. TypeOK
  <2>1. origin \in Bytes /\ <<>> \in Bytes
    BY <1>1, <1>3, FileBytes DEF Bytes
  <2> QED
    BY <1>1, <1>2, <1>3, <2>1 DEF TypeOK, AdapterOK
<1>5. ReturnedMeansDone
  BY <1>1 DEF ReturnedMeansDone, NoCall, Op
<1> QED
  BY <1>1, <1>4, <1>5 DEF IInv, OneHandle, Progress, HandleClosed

\* Only the destination of an upload moves; what is transferred is fixed.
LEMMA SameWhole ==
  ASSUME UNCHANGED input
  PROVE  Whole' = Whole /\ (UNCHANGED <<remote, buffer>> => Destination' = Destination)
  BY DEF input, Whole, Destination, File

\* The beginning of a transfer keeps the invariant.
LEMMA BeginKeeps ==
  ASSUME IInv, BeginUpload \/ BeginDownload
  PROVE  (TypeOK /\ OneHandle /\ Progress /\ ReturnedMeansDone)'
<1>1. /\ TypeOK /\ OneHandle /\ Progress /\ pc = "open" /\ offset = 0 /\ buffer = <<>>
      /\ job # "other" /\ DOMAIN handles = {}
  BY DEF IInv, BeginUpload, BeginDownload, OneHandle, Progress
<1>2. /\ AdapterOK' /\ ReturnedMeansDone' /\ UNCHANGED <<input, offset, buffer>>
      /\ job = "download" => UNCHANGED remote
      /\ \/ pc' = "threw" /\ UNCHANGED handles
         \/ /\ pc' = "loop" /\ Destination' = <<>>
            /\ \E h \in Handles :
                 /\ DOMAIN handles' = {h}
                 /\ handles'[h].path = Target /\ handles'[h].position = 0
  BY BeginEffect
<1>3. job' = job /\ size' = size /\ origin' = origin
  BY <1>2 DEF input
<1>4. TypeOK'
  BY <1>1, <1>2, <1>3 DEF TypeOK
<1>5. OneHandle'
  BY <1>1, <1>2, <1>3 DEF OneHandle
<1>6. Progress'
  <2>1. job = "download" => File(Target)' = origin'
    BY <1>1, <1>2, <1>3 DEF Progress, File
  <2>2. CASE pc' = "threw"
    BY <1>1, <1>3, <2>1, <2>2 DEF Progress
  <2>3. CASE pc' = "loop" /\ Destination' = <<>>
    <3>1. Whole' \in Bytes /\ Len(Whole') \in Nat /\ 0 \in 0..Len(Whole')
      BY <1>1, <1>2, WholeBytes, SameWhole
    <3>2. Prefix(Whole', 0) = <<>>
      <4>1. Prefix(Whole', 0) \in Bytes /\ Len(Prefix(Whole', 0)) = 0
        BY <3>1, Front
      <4> QED
        BY <4>1 DEF Bytes
    <3> QED
      BY <1>1, <1>2, <1>3, <2>1, <2>3, <3>1, <3>2 DEF Progress
  <2> QED BY <1>2, <2>2, <2>3
<1> QED
  BY <1>2, <1>4, <1>5, <1>6

\* A turn of a loop keeps the invariant.
LEMMA ChunkKeeps ==
  ASSUME IInv, UploadChunk \/ DownloadChunk
  PROVE  (TypeOK /\ OneHandle /\ Progress /\ ReturnedMeansDone)'
<1>1. /\ TypeOK /\ OneHandle /\ Progress /\ pc = "loop" /\ job # "other"
      /\ \/ job = "upload" /\ UploadChunk
         \/ job = "download" /\ DownloadChunk
      /\ offset < size /\ size \in Nat /\ offset \in Nat
  BY DEF IInv, UploadChunk, DownloadChunk, TypeOK
<1>2. /\ AdapterOK' /\ ReturnedMeansDone' /\ UNCHANGED input
      /\ offset' \in Nat /\ buffer' \in Bytes
      /\ \E n \in 0..Chunk : ChunkCopied(n)
      /\ job = "download" => UNCHANGED remote /\ (pc' = "stopped" => offset' = Len(Whole))
  BY <1>1, UploadEffect, DownloadEffect DEF IInv, TypeOK
<1>3. PICK n \in 0..Chunk : ChunkCopied(n)
  BY <1>2
<1>4. job' = job /\ size' = size /\ origin' = origin /\ Whole' = Whole
  BY <1>2, SameWhole DEF input
<1>5. pc' \in {"threw", "stopped", "loop"}
  BY <1>3 DEF ChunkCopied
<1>6. TypeOK'
  BY <1>1, <1>2, <1>4, <1>5 DEF TypeOK
<1>7. OneHandle'
  <2>1. DOMAIN handles = {Handle} /\ Handle \in Handles
    BY <1>1, TheHandle DEF TypeOK, AdapterOK
  <2>2. CASE pc' = "threw"
    BY <2>2 DEF OneHandle
  <2>3. CASE pc' # "threw"
    <3>1. /\ DOMAIN handles' = {Handle} /\ handles'[Handle].path = Target
          /\ handles'[Handle].position = offset'
      BY <1>3, <2>1, <2>3 DEF ChunkCopied
    <3>2. PICK h \in Handles : h = Handle
      BY <2>1
    <3> QED
      BY <1>5, <2>3, <3>1, <3>2 DEF OneHandle
  <2> QED BY <2>2, <2>3
<1>8. Progress'
  <2>1. job = "download" => File(Target)' = origin'
    BY <1>1, <1>2, <1>4 DEF Progress, File
  <2>2. pc' # "threw" => offset' <= Len(Whole) /\ Destination' = Prefix(Whole, offset')
    BY <1>3 DEF ChunkCopied
  <2>3. pc' = "stopped" => offset' < size
    BY <1>1, <1>3 DEF ChunkCopied
  <2> QED
    BY <1>1, <1>2, <1>4, <1>5, <2>1, <2>2, <2>3 DEF Progress
<1> QED
  BY <1>2, <1>6, <1>7, <1>8

\* The end of a transfer keeps the invariant.
LEMMA CloseKeeps ==
  ASSUME IInv, CloseAndReturn
  PROVE  (TypeOK /\ OneHandle /\ Progress /\ ReturnedMeansDone)'
<1>1. TypeOK /\ OneHandle /\ Progress
  BY DEF IInv
<1>2. /\ AdapterOK' /\ ReturnedMeansDone' /\ UNCHANGED <<input, remote, offset, buffer>>
      /\ job # "other" /\ DOMAIN handles' = {} /\ pc' \in {"failed", "succeeded"}
  BY CloseEffect
<1>3. job' = job /\ size' = size /\ origin' = origin
  BY <1>2 DEF input
<1> QED
  BY <1>1, <1>2, <1>3 DEF TypeOK, OneHandle, Progress, File

\* Any other operation keeps the invariant.
LEMMA OtherKeeps ==
  ASSUME IInv, OtherCall
  PROVE  (TypeOK /\ OneHandle /\ Progress /\ ReturnedMeansDone)'
<1>1. /\ TypeOK /\ AdapterOK /\ Progress /\ job = "other" /\ pc = "open"
      /\ UNCHANGED <<job, size, origin, pc, offset, buffer>>
  BY DEF IInv, TypeOK, Progress, OtherCall, input, transfer
<1>2. ASSUME NEW path \in Names, Requests(path) PROVE AdapterOK' /\ ReturnedMeansDone'
  <2> USE TransferAssumption
  <2>1. CASE Stat(path)
    BY <1>1, <2>1, StatStep
  <2>2. CASE Mkdir(path)
    BY <1>1, <2>2, MkdirStep
  <2>3. CASE Remove(path)
    BY <1>1, <2>3, RemoveStep
  <2>4. ASSUME NEW n \in 0..OtherSize, SetAttributes(path, n) PROVE AdapterOK' /\ ReturnedMeansDone'
    BY <1>1, <2>4, SetAttributesStep
  <2>5. ASSUME NEW n \in 0..OtherSize, OpenRead(path, n) PROVE AdapterOK' /\ ReturnedMeansDone'
    <3>1. n \in Nat
      OBVIOUS
    <3> QED
      BY <1>1, <2>5, <3>1, OpenReadStep
  <2>6. ASSUME NEW n \in 0..OtherSize, OpenWrite(path, n) PROVE AdapterOK' /\ ReturnedMeansDone'
    <3>1. n \in Nat
      OBVIOUS
    <3> QED
      BY <1>1, <2>6, <3>1, OpenWriteStep
  <2>7. CASE EnsureFails("any", path, 0)
    BY <1>1, <2>7, EnsureStep
  <2> QED
    BY <1>2, <2>1, <2>2, <2>3, <2>4, <2>5, <2>6, <2>7 DEF Requests
<1>3. ASSUME NEW h \in DOMAIN handles, OnHandle(h) PROVE AdapterOK' /\ ReturnedMeansDone'
  <2>1. ASSUME NEW n \in 1..OtherSize, Read(h, n) PROVE AdapterOK' /\ ReturnedMeansDone'
    <3>1. n \in Nat \ {0}
      BY TransferAssumption
    <3> QED
      BY <1>1, <2>1, <3>1, ReadStep
  <2>2. ASSUME NEW n \in Nat, Write(h, Numbered(n)) PROVE AdapterOK' /\ ReturnedMeansDone'
    <3>1. Numbered(n) \in Bytes
      BY DEF Numbered, Bytes
    <3> QED
      BY <1>1, <2>2, <3>1, WriteStep
  <2>3. CASE Close(h)
    BY <1>1, <2>3, CloseStep
  <2>4. \A n \in 1..OtherSize - handles[h].position : n \in Nat
    OBVIOUS
  <2> QED
    BY <1>3, <2>1, <2>2, <2>3, <2>4 DEF OnHandle
<1>4. AdapterOK' /\ ReturnedMeansDone'
  BY <1>1, <1>2, <1>3, ListStep DEF OtherCall
<1> QED
  BY <1>1, <1>4 DEF TypeOK, OneHandle, Progress

\* The invariant holds in every reachable state.
LEMMA Invariance == Spec => []IInv
<1>1. ASSUME IInv, [Next]_vars PROVE IInv'
  <2> SUFFICES (TypeOK /\ OneHandle /\ Progress /\ ReturnedMeansDone)'
    BY DEF IInv, TypeOK, OneHandle, HandleClosed
  <2>1. CASE BeginUpload \/ BeginDownload
    BY <1>1, <2>1, BeginKeeps
  <2>2. CASE UploadChunk \/ DownloadChunk
    BY <1>1, <2>2, ChunkKeeps
  <2>3. CASE CloseAndReturn
    BY <1>1, <2>3, CloseKeeps
  <2>4. CASE OtherCall
    BY <1>1, <2>4, OtherKeeps
  <2>5. CASE UNCHANGED vars
    <3>1. UNCHANGED <<sftp_, remote, handles, call, job, size, origin, pc, offset, buffer>>
      BY <2>5 DEF vars, adapter, input, transfer
    <3>2. AdapterOK'
      BY <1>1, <3>1 DEF IInv, TypeOK, AdapterOK, Server
    <3>3. ReturnedMeansDone'
      BY <1>1, <3>1
      DEF IInv, ReturnedMeansDone, Threw, Op, Path, Given, Value, Exists, IsFile, File, Attributes
    <3>4. TypeOK' /\ OneHandle'
      BY <1>1, <3>1, <3>2 DEF IInv, TypeOK, OneHandle
    <3>5. Progress'
      BY <1>1, <3>1 DEF IInv, Progress, Whole, Destination, File
    <3> QED
      BY <3>3, <3>4, <3>5
  <2> QED
    BY <1>1, <2>1, <2>2, <2>3, <2>4, <2>5 DEF Next, Step, Terminated
<1> QED
  BY InitIInv, <1>1, PTL DEF Spec

\* Whatever was refused or lost before, an operation of the adapter that returns
\* has been carried out (LibsshAdapter.cpp:307-433).
THEOREM ReturnedIsDone == Spec => []ReturnedMeansDone
<1>1. IInv => ReturnedMeansDone
  BY DEF IInv
<1> QED
  BY Invariance, <1>1, PTL

\* A transfer that returns has closed its handle (SftpTransfer.cpp:9-45).
THEOREM HandlesClosed == Spec => []HandleClosed
<1>1. IInv => HandleClosed
  BY DEF IInv
<1> QED
  BY Invariance, <1>1, PTL

-----------------------------------------------------------------------------
(* The refinement.                                                          *)

\* What counts as copied of a destination that is a beginning of the file.
LEMMA CopiedSoFar ==
  ASSUME IInv, pc \in {"loop", "stopped"}, job # "other"
  PROVE  IsOpened /\ Copied = offset /\ offset \in 0..Len(Whole)
<1>1. /\ TypeOK /\ Whole \in Bytes /\ Len(Whole) \in Nat /\ DOMAIN handles # {}
      /\ offset \in 0..Len(Whole) /\ Destination = Prefix(Whole, offset)
  BY WholeBytes, TheHandle DEF IInv, TypeOK, Progress
<1>2. Len(Destination) = offset
  BY <1>1, Front
<1> QED
  BY <1>1, <1>2 DEF IsOpened, Copied

\* A destination that holds n bytes of the source counts as n copied.
LEMMA CopiedNext ==
  ASSUME TypeOK, job # "other", UNCHANGED input, IsOpened',
         NEW n \in 0..Len(Whole), Destination' = Prefix(Whole, n)
  PROVE  Copied' = n
<1>1. Whole' = Whole /\ job' = job /\ Whole \in Bytes
  BY SameWhole, WholeBytes DEF input
<1>2. Len(Destination') = n
  BY <1>1, Front
<1> QED
  BY <1>1, <1>2 DEF Copied

\* The beginning of a transfer is a step of Transfer or none.
LEMMA BeginRefines ==
  ASSUME IInv, BeginUpload \/ BeginDownload
  PROVE  Abstract!Next \/ UNCHANGED Abstract!vars
<1>1. /\ TypeOK /\ pc = "open" /\ job # "other" /\ DOMAIN handles = {}
  BY DEF IInv, BeginUpload, BeginDownload, OneHandle
<1>2. /\ UNCHANGED input
      /\ \/ pc' = "threw" /\ UNCHANGED handles
         \/ /\ pc' = "loop" /\ Destination' = <<>>
            /\ \E h \in Handles : DOMAIN handles' = {h}
  BY BeginEffect
<1>3. job' = job /\ Whole' = Whole /\ Phase = "running" /\ Copied = 0
  BY <1>1, <1>2, SameWhole DEF input, Phase, Done, Copied, IsOpened
<1>4. 0 \in 0..Len(Whole) /\ Whole \in Bytes
  BY <1>1, WholeBytes
<1>5. CASE pc' = "threw" /\ UNCHANGED handles
  <2>1. Phase' = "threw" /\ Copied' = 0
    BY <1>1, <1>3, <1>5 DEF Phase, Done, Copied, IsOpened
  <2>2. Abstract!Throw(0)
    BY <1>3, <2>1 DEF Abstract!Throw
  <2> QED
    BY <1>3, <1>4, <2>2 DEF Abstract!Next
<1>6. CASE pc' = "loop" /\ Destination' = <<>> /\ \E h \in Handles : DOMAIN handles' = {h}
  <2>1. IsOpened' /\ Phase' = "running"
    BY <1>1, <1>3, <1>6 DEF IsOpened, Phase, Done
  <2>2. Prefix(Whole, 0) = <<>>
    <3>1. Prefix(Whole, 0) \in Bytes /\ Len(Prefix(Whole, 0)) = 0
      BY <1>4, Front
    <3> QED
      BY <3>1 DEF Bytes
  <2>3. Copied' = 0
    BY <1>1, <1>2, <1>4, <1>6, <2>1, <2>2, CopiedNext
  <2> QED
    BY <1>3, <2>1, <2>3 DEF Abstract!vars
<1> QED BY <1>2, <1>5, <1>6

\* A turn of a loop is a step of Transfer or none.
LEMMA ChunkRefines ==
  ASSUME IInv, UploadChunk \/ DownloadChunk
  PROVE  Abstract!Next \/ UNCHANGED Abstract!vars
<1>1. TypeOK /\ pc = "loop" /\ job # "other"
  BY DEF IInv, UploadChunk, DownloadChunk
<1>2. UNCHANGED input /\ \E n \in 0..Chunk : ChunkCopied(n)
  BY UploadEffect, DownloadEffect
<1>3. PICK n \in 0..Chunk : ChunkCopied(n)
  BY <1>2
<1>4. /\ job' = job /\ Whole' = Whole /\ Phase = "running" /\ Len(Whole) \in Nat
      /\ DOMAIN handles # {} /\ Copied = offset /\ offset \in 0..Len(Whole)
  BY <1>1, <1>2, SameWhole, WholeBytes, TheHandle, CopiedSoFar DEF input, Phase, Done, IInv
<1>5. /\ n \in Nat /\ offset + n \in offset..Len(Whole)
      /\ n > 0 => offset + n \in offset + 1..Len(Whole)
  BY <1>3, <1>4 DEF ChunkCopied
<1>6. DOMAIN handles' = DOMAIN handles
  BY <1>3 DEF ChunkCopied
<1>7. IsOpened' /\ Destination' = Prefix(Whole, offset + n)
  BY <1>3, <1>4, <1>6 DEF ChunkCopied, IsOpened
<1>8. PICK m \in 0..Len(Whole) : m = offset + n
  BY <1>4, <1>5
<1>9. Copied' = m
  BY <1>1, <1>2, <1>7, <1>8, CopiedNext
<1>10. CASE pc' = "threw"
  <2>1. Phase' = "threw"
    BY <1>1, <1>4, <1>10 DEF Phase, Done
  <2>2. Abstract!Throw(m)
    BY <1>4, <1>9, <2>1 DEF Abstract!Throw
  <2> QED
    BY <1>4, <1>5, <1>8, <2>2 DEF Abstract!Next
<1>11. CASE pc' = IF n = 0 THEN "stopped" ELSE "loop"
  <2>1. Phase' = "running"
    BY <1>1, <1>4, <1>11 DEF Phase, Done
  <2>2. CASE n = 0
    BY <1>4, <1>8, <1>9, <2>1, <2>2 DEF Abstract!vars
  <2>3. CASE n > 0
    <3>1. Abstract!Grow(m)
      BY <1>4, <1>9, <2>1 DEF Abstract!Grow
    <3> QED
      BY <1>4, <1>5, <1>8, <2>3, <3>1 DEF Abstract!Next
  <2> QED BY <1>5, <2>2, <2>3
<1> QED BY <1>3, <1>10, <1>11 DEF ChunkCopied

\* The end of a transfer is a step of Transfer.
LEMMA CloseRefines ==
  ASSUME IInv, CloseAndReturn
  PROVE  Abstract!Next
<1>1. /\ TypeOK /\ UNCHANGED <<input, remote, buffer>>
      /\ job # "other" /\ pc \in {"loop", "stopped"}
      /\ \/ pc' = "failed" /\ offset < Len(Whole)
         \/ pc' = "succeeded" /\ offset = Len(Whole)
  BY CloseEffect DEF IInv
<1>2. /\ job' = job /\ Whole' = Whole /\ Destination' = Destination
      /\ Phase = "running" /\ Phase' = pc' /\ IsOpened'
  BY <1>1, SameWhole DEF input, Phase, Done, IsOpened
<1>3. Copied = offset /\ IsOpened
  BY <1>1, CopiedSoFar
<1>4. Copied' = Copied
  BY <1>2, <1>3 DEF Copied
<1>5. Abstract!Succeed \/ Abstract!Fail
  BY <1>1, <1>2, <1>3, <1>4 DEF Abstract!Succeed, Abstract!Fail
<1> QED
  BY <1>5 DEF Abstract!Next

\* Both transfers keep the promise of Transfer, but for its last part: what is at
\* the destination is at every step a beginning of the file, it never shrinks, and
\* success is reported of the whole file only (SftpTransfer.cpp:9-45).
THEOREM TransferIsSafe == Spec => Abstract!Safety
<1>1. Init => Abstract!Init
  BY DEF Init, NoHandles, Abstract!Init, Phase, Done, Copied, IsOpened
<1>2. ASSUME IInv, [Next]_vars PROVE [Abstract!Next]_Abstract!vars
  <2>1. CASE BeginUpload \/ BeginDownload
    BY <1>2, <2>1, BeginRefines
  <2>2. CASE UploadChunk \/ DownloadChunk
    BY <1>2, <2>2, ChunkRefines
  <2>3. CASE CloseAndReturn
    BY <1>2, <2>3, CloseRefines
  <2>4. CASE OtherCall
    BY <2>4 DEF OtherCall, input, Abstract!vars, Phase, Whole, Copied
  <2>5. CASE UNCHANGED vars
    BY <2>5
    DEF vars, adapter, input, transfer, Abstract!vars, Phase, Done, Whole, Copied, IsOpened,
        Destination, File
  <2> QED
    BY <1>2, <2>1, <2>2, <2>3, <2>4, <2>5 DEF Next, Step, Terminated
<1> QED
  BY Invariance, <1>1, <1>2, PTL DEF Spec, Abstract!Safety
=============================================================================
