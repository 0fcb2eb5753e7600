------------------------------- MODULE CliParser -------------------------------
(***************************************************************************)
(* parse_command_line: from the command line to a CommandRequest or an       *)
(* exception.                                                                *)
(*                                                                           *)
(* A token is a record: its kind, and for a number its value.  The flags are *)
(* kinds; "word" stands for any other text, "blank" for text of white space, *)
(* "huge" for a number no int holds.                                         *)
(***************************************************************************)
EXTENDS Integers, Sequences, FiniteSets

Kinds == {"connect", "exec", "config", "keygen", "proxy", "copy"}
PortFlags == {"--local-port", "--remote-port"}
Flags == PortFlags \cup {"--json"}
TokenKinds == Flags \cup {"--", "word", "blank", "number", "huge"}
Tokens == [kind : TokenKinds, value : Int]

\* profile is "absent" and args empty if argc is 2.
CommandLines == [verb : STRING, profile : STRING, args : Seq(Tokens)]

VARIABLES
  pc,            (* "start", "loop", "check", "returned" or "threw"         *)
  verb, profile, args,   (* the command line; profile is absent if argc = 2 *)
  i,             (* next of args                                            *)
  payload_only,  (* the delimiter has been seen                             *)
  json_output, local_port, remote_port, positional_args  (* of the request  *)

commandLine == <<verb, profile, args>>
flags == <<json_output, local_port, remote_port>>
vars == <<pc, commandLine, i, payload_only, flags, positional_args>>

Init(line) ==
  /\ pc = "start"
  /\ verb = line.verb /\ profile = line.profile /\ args = line.args
  /\ i = 1 /\ payload_only = FALSE
  /\ json_output = FALSE /\ local_port = 0 /\ remote_port = 0
  /\ positional_args = <<>>

-----------------------------------------------------------------------------

Start ==
  /\ pc = "start"
  /\ pc' = IF profile \in {"absent", "blank"} \/ verb \notin Kinds THEN "threw" ELSE "loop"
  /\ UNCHANGED <<commandLine, i, payload_only, flags, positional_args>>

Looping == pc = "loop" /\ i <= Len(args)
Token == args[i]

Delimiter ==
  /\ Looping /\ ~payload_only /\ Token.kind = "--"
  /\ payload_only' = TRUE
  /\ i' = i + 1
  /\ UNCHANGED <<pc, commandLine, flags, positional_args>>

JsonFlag ==
  /\ Looping /\ ~payload_only /\ Token.kind = "--json"
  /\ json_output' = TRUE
  /\ i' = i + 1
  /\ UNCHANGED <<pc, commandLine, payload_only, local_port, remote_port, positional_args>>

\* Faulty TakesValue: the delimiter is not asked for.
TakesValueAnywhere == Token.kind \in PortFlags /\ i + 1 <= Len(args)

\* A port flag takes the next token for its value; the last token is no flag.
TakesValue == ~payload_only /\ Token.kind \in PortFlags /\ i + 1 <= Len(args)

\* The cast to uint16_t.
Uint16(value) == value % 2^16

\* Faulty Store: the branch of one flag is a copy of the other's.
StorePasted(flag, port) == local_port' = port /\ UNCHANGED remote_port

Store(flag, port) ==
  IF flag = "--local-port" THEN local_port' = port /\ UNCHANGED remote_port
                           ELSE remote_port' = port /\ UNCHANGED local_port

\* stoi, then the cast.
PortFlag ==
  /\ Looping /\ TakesValue /\ args[i + 1].kind = "number"
  /\ Store(Token.kind, Uint16(args[i + 1].value))
  /\ i' = i + 2
  /\ UNCHANGED <<pc, commandLine, payload_only, json_output, positional_args>>

\* stoi throws.
PortFlagThrows ==
  /\ Looping /\ TakesValue /\ args[i + 1].kind # "number"
  /\ pc' = "threw"
  /\ UNCHANGED <<commandLine, i, payload_only, flags, positional_args>>

Positional ==
  /\ Looping /\ ~TakesValue
  /\ ~payload_only => Token.kind \notin {"--", "--json"}
  /\ positional_args' = Append(positional_args, Token)
  /\ i' = i + 1
  /\ UNCHANGED <<pc, commandLine, payload_only, flags>>

EndOfLine ==
  /\ pc = "loop" /\ i > Len(args)
  /\ pc' = "check"
  /\ UNCHANGED <<commandLine, i, payload_only, flags, positional_args>>

\* remote_command, the tokens joined with spaces, is blank.
BlankCommand == \A n \in DOMAIN positional_args : positional_args[n].kind = "blank"

\* What a kind of command demands of its request.
Acceptable ==
  CASE verb = "exec" -> ~BlankCommand
    [] verb = "connect" -> ~json_output /\ positional_args = <<>>
    [] verb = "copy" -> Len(positional_args) >= 2
    [] verb = "proxy" -> local_port # 0
    [] OTHER -> TRUE

Check ==
  /\ pc = "check"
  /\ pc' = IF Acceptable THEN "returned" ELSE "threw"
  /\ UNCHANGED <<commandLine, i, payload_only, flags, positional_args>>

Next ==
  \/ Start \/ Delimiter \/ JsonFlag \/ PortFlag \/ PortFlagThrows \/ Positional
  \/ EndOfLine \/ Check

-----------------------------------------------------------------------------
(* Properties.                                                              *)

\* The delimiter of the line: its first "--", or one past its end.
Delimiters == {n \in DOMAIN args : args[n].kind = "--"}
First ==
  IF Delimiters = {} THEN Len(args) + 1
  ELSE CHOOSE n \in Delimiters : Delimiters \cap 1..n - 1 = {}

\* Token n before the delimiter belongs to a flag.
OfFlag(n) ==
  \/ args[n].kind = "--json"
  \/ args[n].kind \in PortFlags /\ n < Len(args)
  \/ n > 1 /\ args[n - 1].kind \in PortFlags

\* Token n is kept: it follows the delimiter, whatever it looks like, or belongs to
\* no flag before it.
Kept(n) == n > First \/ (n < First /\ ~OfFlag(n))
KeptUpTo(m) == {n \in 1..m : Kept(n)}

JsonAsked == \E n \in 1..First - 1 : args[n].kind = "--json"

\* The payload is the tokens that are kept, each verbatim and in its place among
\* them, and nothing else; the flags count only before the delimiter
\* (CliParser.cpp:81-107; CliParserTest.cpp:6-59).
PayloadIsKept ==
  pc = "returned" =>
    /\ Len(positional_args) = Cardinality(KeptUpTo(Len(args)))
    /\ \A n \in KeptUpTo(Len(args)) : positional_args[Cardinality(KeptUpTo(n))] = args[n]
    /\ json_output <=> JsonAsked

\* The uses of a port flag up to token m: before the delimiter, with a token to follow.
UsesUpTo(flag, m) == {n \in 1..m : n < First /\ n < Len(args) /\ args[n].kind = flag}

\* The port that these uses name: the last one's, cut to 16 bits, or 0.
NamesPort(uses, port) ==
  IF uses = {} THEN port = 0
  ELSE \E n \in uses : (\A k \in uses : k <= n) /\ port = Uint16(args[n + 1].value)

\* A line to be accepted: it names a profile and a known command, every port is a
\* number, and what its tokens leave is right for the command: for exec more than white
\* space, for connect no payload and no --json, for copy two paths, for proxy a local
\* port that is not 0 when it is cut to 16 bits.
LineIsGood ==
  /\ profile \notin {"absent", "blank"} /\ verb \in Kinds
  /\ \A flag \in PortFlags : \A n \in UsesUpTo(flag, Len(args)) : args[n + 1].kind = "number"
  /\ verb = "exec" => \E n \in KeptUpTo(Len(args)) : args[n].kind # "blank"
  /\ verb = "connect" => KeptUpTo(Len(args)) = {} /\ ~JsonAsked
  /\ verb = "copy" => Cardinality(KeptUpTo(Len(args))) >= 2
  /\ verb = "proxy" => ~NamesPort(UsesUpTo("--local-port", Len(args)), 0)

\* A request the dispatcher gets comes of a line that is good as a whole, and has the
\* ports that the line names: of several uses of a flag the last one's, none after the
\* delimiter, and a proxy's never 0, not even as 65536 (CliParser.cpp:62-76, 92-102 and
\* 113-139).
RequestIsRunnable ==
  pc = "returned" =>
    /\ LineIsGood
    /\ NamesPort(UsesUpTo("--local-port", Len(args)), local_port)
    /\ NamesPort(UsesUpTo("--remote-port", Len(args)), remote_port)
=============================================================================
