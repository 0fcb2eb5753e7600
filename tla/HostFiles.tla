------------------------------- MODULE HostFiles -------------------------------
(***************************************************************************)
(* The files of a host, for the modules that copy them.  A file is a       *)
(* sequence of bytes, a host a function from paths to files: a path        *)
(* outside its domain does not exist there.                                *)
(***************************************************************************)
EXTENDS Integers, Sequences

Least(a, b) == IF a <= b THEN a ELSE b

\* The file to be copied is 1, 2, 3, ...; bytes of any other file are 0.
Numbered(n) == [i \in 1..n |-> i]
Stale(n) == [i \in 1..n |-> 0]

Prefix(file, n) == SubSeq(file, 1, Least(n, Len(file)))

Put(host, path, file) ==
  [p \in DOMAIN host \cup {path} |-> IF p = path THEN file ELSE host[p]]

Content(host, path) == IF path \in DOMAIN host THEN host[path] ELSE <<>>

\* bytes written over file from position at; a gap reads as stale bytes.
Overwrite(file, at, bytes) ==
  LET n == IF Len(file) > at + Len(bytes) THEN Len(file) ELSE at + Len(bytes)
  IN  [i \in 1..n |-> IF i \in at + 1..at + Len(bytes) THEN bytes[i - at]
                      ELSE IF i <= Len(file) THEN file[i] ELSE 0]

\* Faulty Opened: O_TRUNC is never, or always, given.
OpenedKeeping(file, offset) == file
OpenedTruncating(file, offset) == <<>>

\* What sftp_open_write finds in the file it has opened: O_TRUNC is given unless
\* there is an offset.
Opened(file, offset) == IF offset = 0 THEN <<>> ELSE file
=============================================================================
