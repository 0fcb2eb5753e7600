------------------------------ MODULE JsonEscape ------------------------------
(***************************************************************************)
(* escape_json of CommandDispatcher.cpp with valid_utf8_sequence_length:    *)
(* one pass over the captured bytes of a remote command, which need not be  *)
(* text, that must leave a JSON string.                                     *)
(*                                                                         *)
(* A byte is a number.  What is written is a sequence of pieces: bytes      *)
(* copied raw, a backslash and a letter, or \u00 and two hexadecimal digits.*)
(***************************************************************************)
EXTENDS Integers, Sequences

CONSTANT Texts    \* the byte strings given to escape_json

Byte == 0..255

ASSUME TextAssumption == Texts \subseteq Seq(Byte)

VARIABLES
  text,     (* the argument                                                *)
  index,    (* position of the next byte, from 1                           *)
  escaped   (* the pieces written                                          *)

escaping == <<text, index, escaped>>

Letters == {"\\", "\"", "b", "f", "n", "r", "t"}
Digit == 0..15

Raw(bytes) == [form |-> "raw", bytes |-> bytes]
Short(letter) == [form |-> "short", letter |-> letter]
Unicode(high, low) == [form |-> "unicode", high |-> high, low |-> low]

IsPiece(p) ==
  \/ p.form = "raw" /\ p.bytes \in Seq(Byte) /\ p.bytes # <<>>
  \/ p.form = "short" /\ p.letter \in Letters
  \/ p.form = "unicode" /\ p.high \in Digit /\ p.low \in Digit

EscapeInit == text \in Texts /\ index = 1 /\ escaped = <<>>

-----------------------------------------------------------------------------
(* valid_utf8_sequence_length, for the text from a position on.             *)

IsContinuation(b) == b \in 128..191    \* is_continuation_byte

\* Faulty Sequence3: surrogates and overlong forms are let through.
Sequence3Loose(b) == b[1] \in 224..239 /\ IsContinuation(b[2]) /\ IsContinuation(b[3])

Sequence2(b) == b[1] \in 194..223 /\ IsContinuation(b[2])

\* The lead byte narrows what may follow: no overlong form, no surrogate.
Sequence3(b) ==
  /\ IsContinuation(b[3])
  /\ \/ b[1] = 224 /\ b[2] \in 160..191
     \/ b[1] \in 225..236 \cup 238..239 /\ IsContinuation(b[2])
     \/ b[1] = 237 /\ b[2] \in 128..159

Sequence4(b) ==
  /\ IsContinuation(b[3]) /\ IsContinuation(b[4])
  /\ \/ b[1] = 240 /\ b[2] \in 144..191
     \/ b[1] \in 241..243 /\ IsContinuation(b[2])
     \/ b[1] = 244 /\ b[2] \in 128..143

\* The length of the sequence rest begins with, 0 for none.
ValidLength(rest) ==
  CASE rest[1] < 128 -> 1
    [] Len(rest) >= 2 /\ Sequence2(rest) -> 2
    [] Len(rest) >= 3 /\ Sequence3(rest) -> 3
    [] Len(rest) >= 4 /\ Sequence4(rest) -> 4
    [] OTHER -> 0

-----------------------------------------------------------------------------
(* escape_json: what one turn of its loop does with the byte at index.      *)

\* Faulty ShortBytes: the backslash of the input is not escaped.
ShortBytesUnescaped == {8, 9, 10, 12, 13, 34}

ShortBytes == {8, 9, 10, 12, 13, 34, 92}

\* The letter after the backslash.
ShortLetter(b) ==
  CASE b = 92 -> "\\" [] b = 34 -> "\"" [] b = 8 -> "b" [] b = 12 -> "f"
    [] b = 10 -> "n"  [] b = 13 -> "r"  [] b = 9 -> "t"

\* append_unicode_escape: two digits of four bits.
UnicodeEscape(b) == Unicode((b \div 16) % 16, b % 16)

Rest == SubSeq(text, index, Len(text))

More == index <= Len(text)
Current == text[index]

\* A piece is written for the next n bytes.
Write(piece, n) ==
  /\ escaped' = Append(escaped, piece)
  /\ index' = index + n
  /\ UNCHANGED text

EscapeShort == More /\ Current \in ShortBytes /\ Write(Short(ShortLetter(Current)), 1)

EscapeControl ==
  More /\ Current < 32 /\ Current \notin ShortBytes /\ Write(UnicodeEscape(Current), 1)

Sequence == SubSeq(text, index, index + ValidLength(Rest) - 1)
Copied == More /\ Current >= 32 /\ Current \notin ShortBytes /\ ValidLength(Rest) > 0

\* Faulty CopySequence: the index moves on by one byte.
CopySequenceStuttering == Copied /\ Write(Raw(Sequence), 1)

\* ASCII, or a well-formed sequence as a whole.
CopySequence == Copied /\ Write(Raw(Sequence), ValidLength(Rest))

\* A byte that begins no sequence becomes the character of its number.
EscapeStray ==
  More /\ Current >= 128 /\ ValidLength(Rest) = 0 /\ Write(UnicodeEscape(Current), 1)

Done == index > Len(text)
Finished == Done /\ UNCHANGED escaping

EscapeNext == EscapeShort \/ EscapeControl \/ CopySequence \/ EscapeStray \/ Finished

EscapeSpec == EscapeInit /\ [][EscapeNext]_escaping

-----------------------------------------------------------------------------
(* Reference: UTF-8 and JSON strings by their definitions.                  *)

\* A Unicode scalar value: no surrogate.
IsScalar(c) == 0 <= c /\ c <= 1114111 /\ ~(55296 <= c /\ c <= 57343)

Tail6(c) == 128 + (c % 64)    \* a continuation byte for the last six bits

Encode(c) ==
  CASE c < 128 -> <<c>>
    [] 128 <= c /\ c < 2048 -> <<192 + c \div 64, Tail6(c)>>
    [] 2048 <= c /\ c < 65536 -> <<224 + c \div 4096, Tail6(c \div 64), Tail6(c)>>
    [] OTHER -> <<240 + c \div 262144, Tail6(c \div 4096), Tail6(c \div 64), Tail6(c)>>

Decode(s) ==
  CASE Len(s) = 1 -> s[1]
    [] Len(s) = 2 -> (s[1] - 192) * 64 + (s[2] - 128)
    [] Len(s) = 3 -> (s[1] - 224) * 4096 + (s[2] - 128) * 64 + (s[3] - 128)
    [] Len(s) = 4 -> (s[1] - 240) * 262144 + (s[2] - 128) * 4096
                       + (s[3] - 128) * 64 + (s[4] - 128)

\* Some scalar value is encoded as s.
IsCharacter(s) == IsScalar(Decode(s)) /\ Encode(Decode(s)) = s

BeginsCharacter(s) == \E n \in 1..4 : n <= Len(s) /\ IsCharacter(SubSeq(s, 1, n))

\* The character a JSON parser reads for a piece.
CodeOf(p) ==
  CASE p.form = "raw" -> Decode(p.bytes)
    [] p.form = "unicode" -> 16 * p.high + p.low
    [] p.form = "short" ->
         (CASE p.letter = "\\" -> 92 [] p.letter = "\"" -> 34 [] p.letter = "b" -> 8
            [] p.letter = "f" -> 12  [] p.letter = "n" -> 10  [] p.letter = "r" -> 13
            [] p.letter = "t" -> 9)

-----------------------------------------------------------------------------
(* Properties.                                                              *)

\* Whatever bytes a command prints, the document is a JSON text: what is copied
\* raw is whole UTF-8 characters, none of them a control character, a quote or a
\* backslash (CommandDispatcher.cpp:174-235; ExecJsonCliTest.cpp:242-304).
OutputIsJson ==
  \A i \in DOMAIN escaped :
    /\ IsPiece(escaped[i])
    /\ escaped[i].form = "raw" =>
      /\ IsCharacter(escaped[i].bytes)
      /\ CodeOf(escaped[i]) >= 32 /\ CodeOf(escaped[i]) \notin {34, 92}

\* At every byte the sequence test agrees with the definition of UTF-8, whatever
\* follows and however soon the text ends (CommandDispatcher.cpp:123-172).
LengthIsUtf8 ==
  \A i \in DOMAIN text :
    LET rest == SubSeq(text, i, Len(text))
        n == ValidLength(rest)
    IN  IF BeginsCharacter(rest) THEN n > 0 /\ IsCharacter(SubSeq(rest, 1, n)) ELSE n = 0

\* Byte i of the text belongs to no character of it.
IsStray(i) ==
  \A j \in 1..i, n \in 1..4 :
    j + n > i /\ j + n - 1 <= Len(text) => ~IsCharacter(SubSeq(text, j, j + n - 1))

\* The piece stands for the bytes from..to-1: a character, or one stray byte.
Reads(piece, from, to) ==
  /\ to - from \in 1..4
  /\ LET bytes == SubSeq(text, from, to - 1)
     IN  \/ IsCharacter(bytes) /\ CodeOf(piece) = Decode(bytes)
         \/ to - from = 1 /\ IsStray(from) /\ CodeOf(piece) = text[from]

\* A JSON parser reads back what the command printed: the pieces are, in order and
\* without a gap, the characters of the text as they were, and a stray byte b as the
\* character U+00b.  Piece i ends before at[i] (CommandDispatcher.cpp:174-235).
ReadsBack ==
  \E at \in [0..Len(escaped) -> 1..Len(text) + 1] :
    /\ at[0] = 1 /\ at[Len(escaped)] = index
    /\ \A i \in DOMAIN escaped : Reads(escaped[i], at[i - 1], at[i])
=============================================================================
