---------------------------- MODULE StartupProofs ----------------------------
(***************************************************************************)
(* Proofs about Startup, with the parser and the loader it composes: for   *)
(* every set of command lines of any length, and of worlds whose files     *)
(* hold any number of profiles.                                            *)
(***************************************************************************)
EXTENDS Startup, SequenceTheorems, FiniteSetTheorems, WellFoundedInduction, TLAPS

CliTypeOK ==
  /\ parsing \in {"start", "loop", "check", "returned", "threw"}
  /\ args \in Seq(Cli!Tokens) /\ i \in Nat \ {0} /\ positional_args \in Seq(Cli!Tokens)
  /\ payload_only \in BOOLEAN /\ json_output \in BOOLEAN

LoaderTypeOK ==
  /\ loading \in {"open", "defaults", "profiles", "returned", "threw"}
  /\ document = Missing \/ document \in Loader!Documents
  /\ next \in Nat \ {0}

TypeOK ==
  /\ stage \in {"parse", "resolve", "load", "lookup", "connect", "print", "noConfig", "threw"}
  /\ world.given \subseteq {"override", "home", "user_profile", "appdata"}
  /\ \A c \in DOMAIN world.files : world.files[c] \in Loader!Documents
  /\ CliTypeOK /\ LoaderTypeOK

-----------------------------------------------------------------------------
(* The parser.                                                              *)

\* The loop has read the tokens before i, each at most once, and knows whether the
\* delimiter is among them.
CliInv ==
  /\ parsing = "start" => i = 1
  /\ i <= Len(args) + 1
  /\ Len(positional_args) < i
  /\ parsing \in {"check", "returned"} => i = Len(args) + 1
  /\ parsing \in {"loop", "check", "returned"} =>
       profile \notin {"absent", "blank"} /\ verb \in Cli!Kinds
  /\ parsing = "returned" => Cli!Acceptable
  /\ IF payload_only THEN Cli!First \in 1..i - 1
     ELSE \A n \in 1..i - 1 : args[n].kind # "--"

-----------------------------------------------------------------------------
(* The loader.                                                              *)

\* The entries that have been read are the profiles, all valid and of different names.
Entries == document.profiles
Read(n) ==
  /\ Loader!ValidProfile(Entries[n].name, Entries[n].node)
  /\ profiles[Entries[n].name] = Loader!Loaded(Entries[n].node)
  /\ \A m \in 1..n - 1 : Entries[m].name # Entries[n].name

Loadable(file) == Loader!SchemaValid(file) /\ ~Loader!Beyond(file)

LoaderInv ==
  /\ loading \in {"open", "defaults"} => next = 1 /\ profiles = <<>>
  /\ loading \in {"defaults", "profiles", "returned"} =>
       document # Missing /\ document.root = "mapping" /\ ~document.unknown_key
  /\ loading \in {"profiles", "returned"} =>
       /\ Loader!ValidDefaults(document.defaults)
       /\ next <= Len(Entries) + 1
       /\ DOMAIN profiles = {Entries[n].name : n \in 1..next - 1}
       /\ \A n \in 1..next - 1 : Read(n)
  /\ loading = "returned" => next = Len(Entries) + 1
  /\ loading = "threw" => document = Missing \/ ~Loadable(document)

-----------------------------------------------------------------------------
(* Startup.                                                                 *)

AtPath == IF path \in DOMAIN world.files THEN world.files[path] ELSE Missing

Stages ==
  /\ stage \in {"parse", "resolve"} =>
       loading = "open" /\ document = Missing /\ connection = NoConnection
  /\ stage \in {"load", "lookup", "connect", "print"} =>
       path \in DOMAIN Rank /\ Chosen(path) /\ document = AtPath
  /\ stage = "load" => loading \notin {"threw", "returned"}
  /\ stage \in {"lookup", "connect", "print"} => loading = "returned"

\* Why a run stopped: what the parser and the dispatcher say, or the file that counts.
Reasons ==
  stage = "threw" =>
    \/ parsing = "threw" \/ (parsing = "returned" /\ verb = "config" /\ ~json_output)
    \/ \A c \in DOMAIN world.files : ~Chosen(c)
    \/ \E c \in DOMAIN world.files :
         Chosen(c) /\ (Loadable(world.files[c]) => Named(world.files[c]) = {})

IInv == TypeOK /\ CliInv /\ LoaderInv /\ Stages /\ ConnectsAsConfigured /\ Reasons

-----------------------------------------------------------------------------
(* Steps of the parser.                                                     *)

\* The delimiter that no other precedes is the first.
LEMMA FirstIs ==
  ASSUME args \in Seq(Cli!Tokens), NEW n \in 1..Len(args), args[n].kind = "--",
         \A m \in 1..n - 1 : args[m].kind # "--"
  PROVE  Cli!First = n
<1>1. n \in Cli!Delimiters /\ Cli!Delimiters \cap 1..n - 1 = {}
  BY DEF Cli!Delimiters
<1>2. ASSUME NEW m \in Cli!Delimiters, Cli!Delimiters \cap 1..m - 1 = {} PROVE m = n
  BY <1>1, <1>2 DEF Cli!Delimiters
<1> QED
  BY <1>1, <1>2 DEF Cli!First

\* A line without a delimiter has its first one after its end.
LEMMA FirstIsNone ==
  ASSUME args \in Seq(Cli!Tokens), \A m \in 1..Len(args) : args[m].kind # "--"
  PROVE  Cli!First = Len(args) + 1
<1>1. Cli!Delimiters = {}
  BY DEF Cli!Delimiters
<1> QED
  BY <1>1 DEF Cli!First

\* The delimiter stays while the line does.
LEMMA SameFirst == ASSUME UNCHANGED args PROVE Cli!First' = Cli!First
  BY DEF Cli!First, Cli!Delimiters

\* Every step of the parser keeps its part of the invariant, and the line.
LEMMA CliStep ==
  ASSUME CliTypeOK, CliInv, Cli!Next
  PROVE  CliTypeOK' /\ CliInv' /\ UNCHANGED <<verb, profile, args>>
<1> USE DEF CliTypeOK
<1>1. CliInv /\ Len(args) \in Nat
  OBVIOUS
<1>2. UNCHANGED <<verb, profile, args>>
  BY DEF Cli!Next, Cli!Start, Cli!Delimiter, Cli!JsonFlag, Cli!PortFlag, Cli!PortFlagThrows,
         Cli!Positional, Cli!EndOfLine, Cli!Check, Cli!commandLine
<1>3. Cli!First' = Cli!First
  BY <1>2, SameFirst
<1>4. CASE Cli!Start \/ Cli!EndOfLine \/ Cli!Check \/ Cli!PortFlagThrows
  <2>1. /\ UNCHANGED <<i, payload_only, json_output, local_port, positional_args>>
        /\ parsing' \in {"loop", "check", "returned", "threw"}
        /\ parsing' = "loop" =>
             parsing = "start" /\ profile \notin {"absent", "blank"} /\ verb \in Cli!Kinds
        /\ parsing' \in {"check", "returned"} => parsing \in {"loop", "check"} /\ i = Len(args) + 1
        /\ parsing' = "returned" => Cli!Acceptable
    BY <1>1, <1>4
    DEF Cli!Start, Cli!EndOfLine, Cli!Check, Cli!PortFlagThrows, Cli!flags, CliInv
  <2>2. Cli!Acceptable' = Cli!Acceptable
    BY <1>2, <2>1 DEF Cli!Acceptable, Cli!BlankCommand
  <2> QED
    BY <1>1, <1>2, <1>3, <2>1, <2>2 DEF CliInv
<1>5. CASE Cli!Delimiter
  <2>1. /\ parsing = "loop" /\ parsing' = parsing /\ i <= Len(args) /\ args[i].kind = "--"
        /\ payload_only = FALSE /\ payload_only' = TRUE /\ i' = i + 1
        /\ UNCHANGED <<json_output, positional_args>>
    BY <1>5 DEF Cli!Delimiter, Cli!Looping, Cli!Token, Cli!flags
  <2>2. Cli!First = i
    BY <1>1, <2>1, FirstIs DEF CliInv
  <2> QED
    BY <1>1, <1>2, <1>3, <2>1, <2>2 DEF CliInv
<1>6. CASE Cli!JsonFlag
  <2>1. /\ parsing = "loop" /\ parsing' = parsing /\ i <= Len(args) /\ args[i].kind = "--json"
        /\ payload_only = FALSE /\ payload_only' = FALSE /\ i' = i + 1 /\ json_output' = TRUE
        /\ UNCHANGED positional_args
    BY <1>6 DEF Cli!JsonFlag, Cli!Looping, Cli!Token, Cli!flags
  <2>2. \A n \in 1..i' - 1 : args[n].kind # "--"
    BY <1>1, <2>1 DEF CliInv
  <2>3. CliInv'
    BY <1>1, <1>2, <1>3, <2>1, <2>2 DEF CliInv
  <2>4. CliTypeOK'
    <3>1. payload_only' \in BOOLEAN /\ json_output' \in BOOLEAN
      BY <2>1, Zenon
    <3>2. i' \in Nat \ {0}
      BY <2>1
    <3> QED
      BY <1>2, <2>1, <3>1, <3>2
  <2> QED
    BY <1>2, <2>3, <2>4
<1>7. CASE Cli!PortFlag
  <2>1. /\ parsing = "loop" /\ parsing' = parsing /\ i + 1 <= Len(args)
        /\ args[i].kind \in Cli!PortFlags /\ args[i + 1].kind = "number"
        /\ payload_only = FALSE /\ payload_only' = FALSE /\ i' = i + 2
        /\ UNCHANGED <<json_output, positional_args>>
    BY <1>7 DEF Cli!PortFlag, Cli!Looping, Cli!Token, Cli!TakesValue, Cli!flags
  <2>2. args[i].kind \in {"--local-port", "--remote-port"}
    BY <2>1 DEF Cli!PortFlags
  <2>3. CliInv'
    BY <1>1, <1>2, <1>3, <2>1, <2>2 DEF CliInv
  <2>4. CliTypeOK'
    <3>1. payload_only' \in BOOLEAN /\ json_output' \in BOOLEAN
      BY <2>1, Zenon
    <3>2. i' \in Nat \ {0}
      BY <2>1
    <3> QED
      BY <1>2, <2>1, <3>1, <3>2
  <2> QED
    BY <1>2, <2>3, <2>4
<1>8. CASE Cli!Positional
  <2>1. /\ parsing = "loop" /\ parsing' = parsing /\ i <= Len(args)
        /\ payload_only \/ args[i].kind # "--"
        /\ i' = i + 1 /\ positional_args' = Append(positional_args, args[i])
        /\ UNCHANGED <<payload_only, json_output>>
    BY <1>8 DEF Cli!Positional, Cli!Looping, Cli!Token, Cli!flags
  <2>2. /\ positional_args' \in Seq(Cli!Tokens)
        /\ Len(positional_args') = Len(positional_args) + 1
    BY <2>1, AppendProperties
  <2>3. CliInv'
    <3>1. /\ payload_only => Cli!First' \in 1..i' - 1
          /\ ~payload_only => \A n \in 1..i' - 1 : args'[n].kind # "--"
      BY <1>1, <1>2, <1>3, <2>1 DEF CliInv
    <3>2. Len(positional_args') < i' /\ i' <= Len(args) + 1 /\ i' \in Nat \ {0}
      BY <1>1, <2>1, <2>2 DEF CliInv
    <3> QED
      BY <1>1, <1>2, <2>1, <3>1, <3>2 DEF CliInv
  <2>4. CliTypeOK'
    <3>1. UNCHANGED <<parsing, args, payload_only, json_output>>
      BY <1>2, <2>1
    <3>2. i' \in Nat \ {0}
      BY <2>1
    <3> QED
      BY <2>2, <3>1, <3>2
  <2> QED
    BY <1>2, <2>3, <2>4
<1> QED
  BY <1>4, <1>5, <1>6, <1>7, <1>8 DEF Cli!Next

-----------------------------------------------------------------------------
(* The payload.                                                             *)

\* What has been read has been kept, in its place, or left out.
InPlace ==
  /\ Len(positional_args) = Cardinality(Cli!KeptUpTo(i - 1))
  /\ \A n \in Cli!KeptUpTo(i - 1) : positional_args[Cardinality(Cli!KeptUpTo(n))] = args[n]

\* Before the delimiter a port flag is never the token last read, unless it ends the
\* line; --json has been seen iff it stands before the delimiter.
Payload ==
  /\ InPlace
  /\ ~payload_only /\ 1 < i /\ i <= Len(args) => args[i - 1].kind \notin Cli!PortFlags
  /\ json_output <=> \E n \in 1..i - 1 : n < Cli!First /\ args[n].kind = "--json"

\* A set of naturals that is not empty has a least element.
LEMMA Least ==
  ASSUME NEW T, T \subseteq Nat, T # {}
  PROVE  \E x \in T : \A y \in T : x <= y
<1> DEFINE R == OpToRel(<, Nat)
<1>1. PICK x \in T : \A y \in T : ~ (<<y, x>> \in R)
  BY NatLessThanWellFounded, WFMin
<1>2. \A v, w \in Nat : <<w, v>> \in R <=> w < v
  BY DEF OpToRel
<1> HIDE DEF R
<1>3. ASSUME NEW y \in T PROVE x <= y
  <2>1. x \in Nat /\ y \in Nat
    OBVIOUS
  <2>2. ~ (y < x)
    BY <1>1, <1>2, <2>1
  <2> QED BY <2>1, <2>2
<1> QED BY <1>3

\* The first delimiter is the first.
LEMMA FirstIsFirst ==
  ASSUME args \in Seq(Cli!Tokens)
  PROVE  /\ Cli!First \in 1..Len(args) + 1
         /\ \A n \in 1..Len(args) : args[n].kind = "--" => Cli!First <= n
         /\ Cli!First <= Len(args) => args[Cli!First].kind = "--"
<1>0. Len(args) \in Nat /\ DOMAIN args = 1..Len(args)
  BY LenProperties
<1>1. CASE \A n \in 1..Len(args) : args[n].kind # "--"
  <2>1. Cli!First = Len(args) + 1
    BY <1>1, FirstIsNone
  <2> QED BY <1>0, <1>1, <2>1
<1>2. CASE \E n \in 1..Len(args) : args[n].kind = "--"
  <2> DEFINE T == {n \in 1..Len(args) : args[n].kind = "--"}
  <2>1. T \subseteq Nat /\ T # {}
    BY <1>0, <1>2
  <2>2. PICK n \in T : \A m \in T : n <= m
    BY <2>1, Least
  <2>3. n \in 1..Len(args) /\ args[n].kind = "--" /\ \A m \in 1..n - 1 : args[m].kind # "--"
    BY <1>0, <2>2
  <2>4. Cli!First = n
    BY <2>3, FirstIs
  <2> QED BY <1>0, <2>2, <2>3, <2>4
<1> QED BY <1>1, <1>2

\* The number of tokens kept grows by one with each of them.
LEMMA KeptCount ==
  ASSUME NEW m \in Nat
  PROVE  /\ IsFiniteSet(Cli!KeptUpTo(m)) /\ Cardinality(Cli!KeptUpTo(m)) \in Nat
         /\ Cli!Kept(m + 1) =>
              /\ Cli!KeptUpTo(m + 1) = Cli!KeptUpTo(m) \cup {m + 1}
              /\ Cardinality(Cli!KeptUpTo(m + 1)) = Cardinality(Cli!KeptUpTo(m)) + 1
         /\ ~Cli!Kept(m + 1) => Cli!KeptUpTo(m + 1) = Cli!KeptUpTo(m)
<1>1. IsFiniteSet(Cli!KeptUpTo(m)) /\ Cardinality(Cli!KeptUpTo(m)) \in Nat
  <2>1. Cli!KeptUpTo(m) \in SUBSET (1..m)
    BY DEF Cli!KeptUpTo
  <2>2. IsFiniteSet(1..m)
    BY FS_Interval
  <2> QED BY <2>1, <2>2, FS_Subset, FS_CardinalityType
<1>2. \A n : n \in 1..m + 1 <=> n \in 1..m \/ n = m + 1
  BY SMT
<1>3. ASSUME Cli!Kept(m + 1)
      PROVE  /\ Cli!KeptUpTo(m + 1) = Cli!KeptUpTo(m) \cup {m + 1}
             /\ Cardinality(Cli!KeptUpTo(m + 1)) = Cardinality(Cli!KeptUpTo(m)) + 1
  <2>1. Cli!KeptUpTo(m + 1) = Cli!KeptUpTo(m) \cup {m + 1}
    BY <1>2, <1>3 DEF Cli!KeptUpTo
  <2>2. m + 1 \notin Cli!KeptUpTo(m)
    BY SMT DEF Cli!KeptUpTo
  <2> QED BY <1>1, <2>1, <2>2, FS_AddElement
<1>4. ASSUME ~Cli!Kept(m + 1) PROVE Cli!KeptUpTo(m + 1) = Cli!KeptUpTo(m)
  BY <1>2, <1>4 DEF Cli!KeptUpTo
<1> QED BY <1>1, <1>3, <1>4

\* The place of a token that is kept is one of those taken.
LEMMA KeptPlace ==
  ASSUME NEW m \in Nat, NEW n \in Cli!KeptUpTo(m)
  PROVE  Cardinality(Cli!KeptUpTo(n)) \in 1..Cardinality(Cli!KeptUpTo(m))
<1>1. n \in 1..m /\ n \in Nat /\ n \in Cli!KeptUpTo(n)
  BY SMT DEF Cli!KeptUpTo
<1>2. Cli!KeptUpTo(n) \in SUBSET Cli!KeptUpTo(m)
  BY <1>1, SMT DEF Cli!KeptUpTo
<1>3. Cardinality(Cli!KeptUpTo(n)) <= Cardinality(Cli!KeptUpTo(m))
  BY <1>2, KeptCount, FS_Subset
<1>4. /\ IsFiniteSet(Cli!KeptUpTo(n))
      /\ Cardinality(Cli!KeptUpTo(n)) \in Nat /\ Cardinality(Cli!KeptUpTo(m)) \in Nat
  BY <1>1, KeptCount
<1>5. Cardinality(Cli!KeptUpTo(n)) # 0
  BY <1>1, <1>4, FS_EmptySet
<1> QED BY <1>3, <1>4, <1>5

\* On the same line the same tokens are kept.
LEMMA SameKept ==
  ASSUME UNCHANGED args
  PROVE  /\ Cli!First' = Cli!First /\ \A m : Cli!KeptUpTo(m)' = Cli!KeptUpTo(m)
         /\ (Cli!KeptUpTo(i - 1))' = Cli!KeptUpTo(i' - 1)
  BY DEF Cli!First, Cli!Delimiters, Cli!Kept, Cli!KeptUpTo, Cli!OfFlag

\* Nothing is taken for tokens that are not kept.
LEMMA LeftOut ==
  ASSUME InPlace, UNCHANGED <<args, positional_args>>,
         Cli!KeptUpTo(i' - 1) = Cli!KeptUpTo(i - 1)
  PROVE  InPlace'
  BY SameKept DEF InPlace

\* A token that is kept goes to the end.
LEMMA TakenIn ==
  ASSUME CliTypeOK, InPlace, UNCHANGED args, i <= Len(args), i' = i + 1,
         positional_args' = Append(positional_args, args[i]), Cli!Kept(i)
  PROVE  InPlace'
<1>1. Len(positional_args) \in Nat /\ i \in Nat /\ i - 1 \in Nat /\ i' - 1 = i
  BY LenProperties DEF CliTypeOK
<1> DEFINE c == Len(positional_args)
<1>2. /\ Cli!KeptUpTo(i) = Cli!KeptUpTo(i - 1) \cup {i}
      /\ Cardinality(Cli!KeptUpTo(i)) = c + 1
  <2>1. (i - 1) + 1 = i
    BY <1>1
  <2> QED BY <1>1, <2>1, KeptCount DEF InPlace
<1>3. /\ Len(positional_args') = c + 1 /\ positional_args'[c + 1] = args[i]
      /\ \A k \in 1..c : positional_args'[k] = positional_args[k]
  BY AppendProperties DEF CliTypeOK
<1> HIDE DEF c
<1>4. ASSUME NEW n \in Cli!KeptUpTo(i)
      PROVE  positional_args'[Cardinality(Cli!KeptUpTo(n))] = args[n]
  <2>1. CASE n \in Cli!KeptUpTo(i - 1)
    <3>1. Cardinality(Cli!KeptUpTo(n)) \in 1..c
      BY <1>1, <2>1, KeptPlace DEF InPlace, c
    <3> QED BY <1>3, <2>1, <3>1 DEF InPlace
  <2>2. CASE n = i
    BY <1>2, <1>3, <2>2
  <2> QED BY <1>2, <2>1, <2>2
<1> QED BY <1>1, <1>2, <1>3, <1>4, SameKept DEF InPlace

\* A token that goes to the payload is one that is kept.
LEMMA PositionalIsKept ==
  ASSUME CliTypeOK, CliInv, Payload, Cli!Positional
  PROVE  Cli!Kept(i)
<1>1. /\ Len(args) \in Nat /\ i \in Nat \ {0} /\ i <= Len(args)
      /\ Cli!First \in 1..Len(args) + 1
      /\ payload_only => Cli!First \in 1..i - 1
      /\ ~payload_only => \A n \in 1..i - 1 : args[n].kind # "--"
      /\ Cli!First <= Len(args) => args[Cli!First].kind = "--"
  BY FirstIsFirst DEF CliTypeOK, CliInv, Cli!Positional, Cli!Looping
<1>2. ~payload_only /\ 1 < i => args[i - 1].kind \notin Cli!PortFlags
  BY <1>1 DEF Payload
<1>3. ~payload_only => /\ args[i].kind \notin {"--", "--json"}
                       /\ ~(args[i].kind \in Cli!PortFlags /\ i + 1 <= Len(args))
  BY DEF Cli!Positional, Cli!Token, Cli!TakesValue
<1>4. CASE payload_only
  BY <1>1, <1>4 DEF Cli!Kept
<1>5. CASE ~payload_only
  <2>1. i < Cli!First
    BY <1>1, <1>3, <1>5
  <2>2. ~Cli!OfFlag(i)
    BY <1>1, <1>2, <1>3, <1>5 DEF Cli!OfFlag
  <2> QED BY <2>1, <2>2 DEF Cli!Kept
<1> QED BY <1>4, <1>5

\* Every step of the parser keeps what it has read in its place.
LEMMA PayloadStep ==
  ASSUME CliTypeOK, CliInv, Payload, Cli!Next
  PROVE  Payload'
<1>1. /\ Len(args) \in Nat /\ i \in Nat \ {0} /\ args \in Seq(Cli!Tokens)
      /\ Cli!First \in 1..Len(args) + 1
      /\ payload_only => Cli!First \in 1..i - 1
      /\ ~payload_only => \A n \in 1..i - 1 : args[n].kind # "--"
      /\ \A n \in 1..Len(args) : args[n].kind = "--" => Cli!First <= n
      /\ Cli!First <= Len(args) => args[Cli!First].kind = "--"
  BY FirstIsFirst DEF CliTypeOK, CliInv
<1>2. UNCHANGED args /\ Cli!First' = Cli!First
  <2>1. UNCHANGED args
    BY DEF Cli!Next, Cli!Start, Cli!Delimiter, Cli!JsonFlag, Cli!PortFlag, Cli!PortFlagThrows,
           Cli!Positional, Cli!EndOfLine, Cli!Check, Cli!commandLine
  <2> QED BY <2>1, SameKept
<1>3. /\ InPlace
      /\ ~payload_only /\ 1 < i /\ i <= Len(args) => args[i - 1].kind \notin Cli!PortFlags
      /\ json_output <=> \E n \in 1..i - 1 : n < Cli!First /\ args[n].kind = "--json"
  BY DEF Payload
<1>4. ~Cli!Kept(i) => Cli!KeptUpTo(i) = Cli!KeptUpTo(i - 1)
  <2>1. i - 1 \in Nat /\ (i - 1) + 1 = i
    BY <1>1
  <2> QED BY <2>1, KeptCount
<1>5. CASE Cli!Start \/ Cli!EndOfLine \/ Cli!Check \/ Cli!PortFlagThrows
  <2>1. UNCHANGED <<i, payload_only, json_output, positional_args>>
    BY <1>5 DEF Cli!Start, Cli!EndOfLine, Cli!Check, Cli!PortFlagThrows, Cli!flags
  <2>2. InPlace'
    BY <1>2, <1>3, <2>1, LeftOut
  <2> QED
    BY <1>2, <1>3, <2>1, <2>2 DEF Payload
<1>6. CASE Cli!Delimiter
  <2>1. /\ i <= Len(args) /\ args[i].kind = "--" /\ payload_only = FALSE /\ payload_only' = TRUE
        /\ i' = i + 1 /\ UNCHANGED <<json_output, positional_args>>
    BY <1>6 DEF Cli!Delimiter, Cli!Looping, Cli!Token, Cli!flags
  <2>2. Cli!First = i
    BY <1>1, <2>1
  <2>3. ~Cli!Kept(i) /\ i' - 1 = i
    BY <1>1, <2>1, <2>2 DEF Cli!Kept
  <2>4. InPlace'
    BY <1>2, <1>3, <1>4, <2>1, <2>3, LeftOut
  <2>5. (\E n \in 1..i' - 1 : n < Cli!First /\ args[n].kind = "--json") <=> json_output
    BY <1>1, <1>3, <2>2, <2>3
  <2> QED
    BY <1>2, <2>1, <2>4, <2>5 DEF Payload
<1>7. CASE Cli!JsonFlag
  <2>1. /\ i <= Len(args) /\ args[i].kind = "--json" /\ payload_only = FALSE
        /\ payload_only' = FALSE /\ i' = i + 1 /\ json_output' = TRUE
        /\ UNCHANGED positional_args
    BY <1>7 DEF Cli!JsonFlag, Cli!Looping, Cli!Token
  <2>2. i < Cli!First
    BY <1>1, <2>1
  <2>3. ~Cli!Kept(i) /\ i' - 1 = i
    BY <1>1, <2>1, <2>2 DEF Cli!Kept, Cli!OfFlag
  <2>4. InPlace'
    BY <1>2, <1>3, <1>4, <2>1, <2>3, LeftOut
  <2>5. args[i'-1].kind \notin Cli!PortFlags
    BY <2>1, <2>3 DEF Cli!PortFlags
  <2>6. \E n \in 1..i' - 1 : n < Cli!First /\ args[n].kind = "--json"
    BY <1>1, <2>1, <2>2, <2>3
  <2> QED
    BY <1>2, <2>1, <2>4, <2>5, <2>6 DEF Payload
<1>8. CASE Cli!PortFlag
  <2>1. /\ i + 1 <= Len(args) /\ args[i].kind \in Cli!PortFlags /\ args[i + 1].kind = "number"
        /\ payload_only = FALSE /\ payload_only' = FALSE /\ i' = i + 2
        /\ UNCHANGED <<json_output, positional_args>>
    BY <1>8 DEF Cli!PortFlag, Cli!Looping, Cli!Token, Cli!TakesValue, Cli!flags
  <2>2. args[i].kind # "--" /\ args[i].kind # "--json"
    BY <2>1 DEF Cli!PortFlags
  <2>3. i + 1 < Cli!First
    BY <1>1, <2>1, <2>2
  <2>4. ~Cli!Kept(i)
    BY <1>1, <2>1, <2>3 DEF Cli!Kept, Cli!OfFlag
  <2>5. ~Cli!Kept(i + 1)
    <3>1. args[(i + 1) - 1].kind \in Cli!PortFlags /\ i + 1 > 1
      <4>1. (i + 1) - 1 = i
        BY <1>1
      <4> QED BY <1>1, <2>1, <4>1
    <3>2. Cli!OfFlag(i + 1)
      BY <3>1 DEF Cli!OfFlag
    <3> QED BY <1>1, <2>3, <3>2 DEF Cli!Kept
  <2>6. Cli!KeptUpTo(i' - 1) = Cli!KeptUpTo(i - 1) /\ i' - 1 = i + 1
    <3>1. i' - 1 = i + 1
      BY <1>1, <2>1
    <3> QED BY <1>1, <1>4, <2>4, <2>5, <3>1, KeptCount
  <2>7. InPlace'
    BY <1>2, <1>3, <2>1, <2>6, LeftOut
  <2>8. args[i' - 1].kind \notin Cli!PortFlags
    BY <2>1, <2>6 DEF Cli!PortFlags
  <2>9. (\E n \in 1..i' - 1 : n < Cli!First /\ args[n].kind = "--json") <=> json_output
    BY <1>1, <1>3, <2>1, <2>2, <2>6
  <2> QED
    BY <1>2, <2>1, <2>7, <2>8, <2>9 DEF Payload
<1>9. CASE Cli!Positional
  <2>1. /\ i <= Len(args) /\ i' = i + 1 /\ positional_args' = Append(positional_args, args[i])
        /\ UNCHANGED <<payload_only, json_output>>
        /\ ~payload_only => /\ args[i].kind \notin {"--", "--json"}
                            /\ ~(args[i].kind \in Cli!PortFlags /\ i + 1 <= Len(args))
    BY <1>9 DEF Cli!Positional, Cli!Looping, Cli!Token, Cli!TakesValue, Cli!flags
  <2>3. Cli!Kept(i) /\ i' - 1 = i
    BY <1>1, <1>9, <2>1, PositionalIsKept
  <2>4. InPlace'
    BY <1>2, <1>3, <2>1, <2>3, TakenIn
  <2>5. ~payload_only' /\ i' <= Len(args) => args[i' - 1].kind \notin Cli!PortFlags
    BY <1>1, <2>1, <2>3
  <2>6. (\E n \in 1..i' - 1 : n < Cli!First /\ args[n].kind = "--json") <=> json_output
    BY <1>1, <1>3, <2>1, <2>3
  <2> QED
    BY <1>2, <2>1, <2>4, <2>5, <2>6 DEF Payload
<1> QED
  BY <1>5, <1>6, <1>7, <1>8, <1>9 DEF Cli!Next

\* The parser's instance counts as this module does.
LEMMA SameCardinality == \A S : Cli!Cardinality(S) = Cardinality(S)
<1> SUFFICES ASSUME NEW S PROVE Cli!Cardinality(S) = Cardinality(S)
  OBVIOUS
<1>1. Cli!IsFiniteSet(S) = IsFiniteSet(S)
  BY DEF Cli!IsFiniteSet, IsFiniteSet
<1> QED BY <1>1 DEF Cli!Cardinality, Cardinality

\* The payload of a request that is returned is all that is kept of the line.
LEMMA KeptOnReturn == ASSUME CliTypeOK, CliInv, Payload PROVE PayloadIsKept
<1> SUFFICES ASSUME parsing = "returned" PROVE PayloadIsKept
  BY DEF PayloadIsKept, Cli!PayloadIsKept
<1>1. i - 1 = Len(args) /\ Len(args) \in Nat /\ Cli!First \in 1..Len(args) + 1
  BY FirstIsFirst DEF CliTypeOK, CliInv
<1>2. (\E n \in 1..i - 1 : n < Cli!First /\ args[n].kind = "--json")
        <=> \E n \in 1..Cli!First - 1 : args[n].kind = "--json"
  BY <1>1
<1>3. /\ Len(positional_args) = Cardinality(Cli!KeptUpTo(Len(args)))
      /\ \A n \in Cli!KeptUpTo(Len(args)) :
           positional_args[Cardinality(Cli!KeptUpTo(n))] = args[n]
  <2>1. InPlace /\ i - 1 = Len(args)
    BY <1>1 DEF Payload
  <2> QED BY Zenon, <2>1 DEF InPlace
<1>4. json_output <=> \E n \in 1..Cli!First - 1 : args[n].kind = "--json"
  <2>1. json_output <=> \E n \in 1..i - 1 : n < Cli!First /\ args[n].kind = "--json"
    BY Zenon DEF Payload
  <2> QED BY Zenon, <1>2, <2>1
<1> QED
  BY Zenon, <1>3, <1>4, SameCardinality DEF PayloadIsKept, Cli!PayloadIsKept, Cli!JsonAsked

-----------------------------------------------------------------------------
(* The line.                                                                *)

\* What has been read of the ports is in the request, every port so far was a number,
\* and no token of the payload is made up; a line that was refused is not good.
PortsRead ==
  /\ Cli!NamesPort(Cli!UsesUpTo("--local-port", i - 1), local_port)
  /\ Cli!NamesPort(Cli!UsesUpTo("--remote-port", i - 1), remote_port)
Numbers == \A f \in Cli!PortFlags : \A n \in Cli!UsesUpTo(f, i - 1) : args[n + 1].kind = "number"
NothingMadeUp ==
  \A k \in 1..Len(positional_args) : \E n \in Cli!KeptUpTo(i - 1) : positional_args[k] = args[n]

LineInv ==
  /\ PortsRead /\ Numbers /\ NothingMadeUp
  /\ parsing = "threw" => ~Cli!LineIsGood

\* A set of uses grows by the tokens that are one.
LEMMA UsesGrow ==
  ASSUME NEW f, NEW m \in Nat
  PROVE  /\ Cli!UsesUpTo(f, m) \subseteq 1..m
         /\ IF m + 1 < Cli!First /\ m + 1 < Len(args) /\ args[m + 1].kind = f
            THEN Cli!UsesUpTo(f, m + 1) = Cli!UsesUpTo(f, m) \cup {m + 1}
            ELSE Cli!UsesUpTo(f, m + 1) = Cli!UsesUpTo(f, m)
<1>1. \A n : n \in 1..m + 1 <=> n \in 1..m \/ n = m + 1
  BY SMT
<1> QED
  BY <1>1 DEF Cli!UsesUpTo

\* On the same line the same uses name the same ports.
LEMMA SameUses ==
  ASSUME UNCHANGED args
  PROVE  /\ \A f, m : Cli!UsesUpTo(f, m)' = Cli!UsesUpTo(f, m)
         /\ \A S, p : Cli!NamesPort(S, p)' = Cli!NamesPort(S, p)
         /\ PortsRead' <=>
              /\ Cli!NamesPort(Cli!UsesUpTo("--local-port", i' - 1), local_port')
              /\ Cli!NamesPort(Cli!UsesUpTo("--remote-port", i' - 1), remote_port')
         /\ Numbers' <=> \A f \in Cli!PortFlags : \A n \in Cli!UsesUpTo(f, i' - 1) :
                           args[n + 1].kind = "number"
<1>1. Cli!First' = Cli!First
  BY SameFirst
<1>2. \A f, m : Cli!UsesUpTo(f, m)' = Cli!UsesUpTo(f, m)
  BY <1>1 DEF Cli!UsesUpTo
<1>3. \A S, p : Cli!NamesPort(S, p)' = Cli!NamesPort(S, p)
  BY DEF Cli!NamesPort
<1>4. PortsRead' <=>
        /\ Cli!NamesPort(Cli!UsesUpTo("--local-port", i' - 1), local_port')
        /\ Cli!NamesPort(Cli!UsesUpTo("--remote-port", i' - 1), remote_port')
  BY <1>1 DEF PortsRead, Cli!NamesPort, Cli!UsesUpTo
<1>5. Numbers' <=> \A f \in Cli!PortFlags : \A n \in Cli!UsesUpTo(f, i' - 1) :
                     args[n + 1].kind = "number"
  BY <1>1 DEF Numbers, Cli!UsesUpTo
<1> QED BY <1>2, <1>3, <1>4, <1>5

\* Whether a line is good depends on the line alone.
LEMMA LineStays ==
  ASSUME UNCHANGED <<verb, profile, args>>
  PROVE  Cli!LineIsGood' = Cli!LineIsGood /\ Cli!JsonAsked' = Cli!JsonAsked
<1>1. /\ Cli!First' = Cli!First /\ Len(args)' = Len(args)
      /\ (Cli!KeptUpTo(Len(args)))' = Cli!KeptUpTo(Len(args))
      /\ \A f : (Cli!UsesUpTo(f, Len(args)))' = Cli!UsesUpTo(f, Len(args))
  BY DEF Cli!First, Cli!Delimiters, Cli!Kept, Cli!KeptUpTo, Cli!OfFlag, Cli!UsesUpTo
<1>2. Cli!JsonAsked' = Cli!JsonAsked
  BY <1>1 DEF Cli!JsonAsked
<1>3. (Cli!NamesPort(Cli!UsesUpTo("--local-port", Len(args)), 0))'
        = Cli!NamesPort(Cli!UsesUpTo("--local-port", Len(args)), 0)
  BY <1>1 DEF Cli!NamesPort
<1> QED
  BY <1>1, <1>2, <1>3 DEF Cli!LineIsGood

\* At the end of the line, the uses read are all there are and so is what is kept.
LEMMA AtTheEnd ==
  ASSUME CliTypeOK, CliInv, Payload, LineInv, i = Len(args) + 1
  PROVE  /\ PortsRead /\ i - 1 = Len(args)
         /\ json_output <=> Cli!JsonAsked
         /\ verb = "exec" => (Cli!BlankCommand <=>
              \A n \in Cli!KeptUpTo(Len(args)) : args[n].kind = "blank")
         /\ positional_args = <<>> <=> Cli!KeptUpTo(Len(args)) = {}
         /\ Len(positional_args) = Cardinality(Cli!KeptUpTo(Len(args)))
         /\ \A f \in Cli!PortFlags : \A n \in Cli!UsesUpTo(f, Len(args)) :
              args[n + 1].kind = "number"
<1>1. /\ i - 1 = Len(args) /\ Len(args) \in Nat /\ Cli!First \in 1..Len(args) + 1
      /\ Len(positional_args) \in Nat /\ DOMAIN positional_args = 1..Len(positional_args)
  BY FirstIsFirst DEF CliTypeOK
<1>2. json_output <=> Cli!JsonAsked
  <2>1. (\E n \in 1..i - 1 : n < Cli!First /\ args[n].kind = "--json")
          <=> \E n \in 1..Cli!First - 1 : args[n].kind = "--json"
    BY <1>1
  <2>2. json_output <=> \E n \in 1..i - 1 : n < Cli!First /\ args[n].kind = "--json"
    BY Zenon DEF Payload
  <2> QED BY Zenon, <2>1, <2>2 DEF Cli!JsonAsked
<1>3. /\ Len(positional_args) = Cardinality(Cli!KeptUpTo(Len(args)))
      /\ \A n \in Cli!KeptUpTo(Len(args)) :
           positional_args[Cardinality(Cli!KeptUpTo(n))] = args[n]
      /\ \A k \in 1..Len(positional_args) :
           \E n \in Cli!KeptUpTo(Len(args)) : positional_args[k] = args[n]
  <2>1. InPlace /\ NothingMadeUp
    BY DEF Payload, LineInv
  <2> QED BY Zenon, <1>1, <2>1 DEF InPlace, NothingMadeUp
<1>4. Cli!BlankCommand <=> \A n \in Cli!KeptUpTo(Len(args)) : args[n].kind = "blank"
  <2>1. ASSUME Cli!BlankCommand, NEW n \in Cli!KeptUpTo(Len(args)) PROVE args[n].kind = "blank"
    <3>1. Cardinality(Cli!KeptUpTo(n)) \in 1..Len(positional_args)
      BY <1>1, <1>3, KeptPlace
    <3> QED BY <1>1, <1>3, <2>1, <3>1 DEF Cli!BlankCommand
  <2>2. ASSUME \A n \in Cli!KeptUpTo(Len(args)) : args[n].kind = "blank" PROVE Cli!BlankCommand
    BY <1>1, <1>3, <2>2 DEF Cli!BlankCommand
  <2> QED BY <2>1, <2>2
<1>5. positional_args = <<>> <=> Cli!KeptUpTo(Len(args)) = {}
  <2>1. IsFiniteSet(Cli!KeptUpTo(Len(args)))
    BY <1>1, KeptCount
  <2>2. Cardinality(Cli!KeptUpTo(Len(args))) = 0 <=> Cli!KeptUpTo(Len(args)) = {}
    BY <2>1, FS_EmptySet
  <2>3. positional_args = <<>> <=> Len(positional_args) = 0
    BY EmptySeq DEF CliTypeOK
  <2> QED BY <1>3, <2>2, <2>3
<1>6. PortsRead /\ \A f \in Cli!PortFlags : \A n \in Cli!UsesUpTo(f, Len(args)) :
        args[n + 1].kind = "number"
  BY <1>1 DEF LineInv, Numbers
<1> QED BY <1>1, <1>2, <1>3, <1>4, <1>5, <1>6

\* One set of uses names one port.
LEMMA OnePort ==
  ASSUME NEW m \in Nat, NEW f, NEW p, NEW q,
         Cli!NamesPort(Cli!UsesUpTo(f, m), p), Cli!NamesPort(Cli!UsesUpTo(f, m), q)
  PROVE  p = q
<1> DEFINE S == Cli!UsesUpTo(f, m)
<1>1. S \subseteq 1..m
  BY UsesGrow
<1> HIDE DEF S
<1>2. CASE S = {}
  BY <1>2 DEF Cli!NamesPort, S
<1>3. CASE S # {}
  <2>1. PICK n \in S : (\A k \in S : k <= n) /\ p = Cli!Uint16(args[n + 1].value)
    BY <1>3 DEF Cli!NamesPort, S
  <2>2. PICK l \in S : (\A k \in S : k <= l) /\ q = Cli!Uint16(args[l + 1].value)
    BY <1>3 DEF Cli!NamesPort, S
  <2>3. n = l
    BY <1>1, <2>1, <2>2
  <2> QED BY <2>1, <2>2, <2>3
<1> QED BY <1>2, <1>3

\* At the end of the line the last checks pass exactly on a good line.
LEMMA ChecksAreRight ==
  ASSUME CliTypeOK, CliInv, Payload, LineInv, i = Len(args) + 1,
         profile \notin {"absent", "blank"}, verb \in Cli!Kinds
  PROVE  Cli!Acceptable <=> Cli!LineIsGood
<1>1. /\ PortsRead /\ i - 1 = Len(args)
      /\ json_output <=> Cli!JsonAsked
      /\ verb = "exec" => (Cli!BlankCommand <=>
           \A n \in Cli!KeptUpTo(Len(args)) : args[n].kind = "blank")
      /\ positional_args = <<>> <=> Cli!KeptUpTo(Len(args)) = {}
      /\ Len(positional_args) = Cli!Cardinality(Cli!KeptUpTo(Len(args)))
      /\ \A f \in Cli!PortFlags : \A n \in Cli!UsesUpTo(f, Len(args)) :
           args[n + 1].kind = "number"
  BY AtTheEnd, SameCardinality
<1>2. Cli!NamesPort(Cli!UsesUpTo("--local-port", Len(args)), 0) <=> local_port = 0
  <2>1. Cli!NamesPort(Cli!UsesUpTo("--local-port", Len(args)), local_port) /\ Len(args) \in Nat
    BY <1>1 DEF PortsRead, CliTypeOK
  <2> QED BY <2>1, OnePort
<1>3. CASE verb = "exec"
  BY <1>1, <1>3 DEF Cli!Acceptable, Cli!LineIsGood
<1>4. CASE verb = "connect"
  BY Zenon, <1>1, <1>4 DEF Cli!Acceptable, Cli!LineIsGood
<1>5. CASE verb = "copy"
  BY <1>1, <1>5 DEF Cli!Acceptable, Cli!LineIsGood
<1>6. CASE verb = "proxy"
  BY <1>1, <1>2, <1>6 DEF Cli!Acceptable, Cli!LineIsGood
<1>7. CASE verb \notin {"exec", "connect", "copy", "proxy"}
  BY <1>1, <1>7 DEF Cli!Acceptable, Cli!LineIsGood
<1> QED BY <1>3, <1>4, <1>5, <1>6, <1>7

\* Every step of the parser keeps what is said of the line.
LEMMA LineStep ==
  ASSUME CliTypeOK, CliInv, Payload, LineInv, Cli!Next
  PROVE  LineInv'
<1>1. /\ Len(args) \in Nat /\ i \in Nat \ {0} /\ i - 1 \in Nat /\ (i - 1) + 1 = i
      /\ args \in Seq(Cli!Tokens) /\ positional_args \in Seq(Cli!Tokens)
      /\ PortsRead /\ Numbers /\ NothingMadeUp
      /\ Cli!First \in 1..Len(args) + 1
      /\ payload_only => Cli!First \in 1..i - 1
      /\ ~payload_only => \A n \in 1..i - 1 : args[n].kind # "--"
      /\ Cli!First <= Len(args) => args[Cli!First].kind = "--"
  BY FirstIsFirst DEF CliTypeOK, CliInv, LineInv
<1>2. UNCHANGED <<verb, profile, args>> /\ Cli!First' = Cli!First
  BY CliStep, SameFirst
<1>3. /\ Cli!LineIsGood' = Cli!LineIsGood
      /\ \A f, m : Cli!UsesUpTo(f, m)' = Cli!UsesUpTo(f, m)
      /\ PortsRead' <=>
           /\ Cli!NamesPort(Cli!UsesUpTo("--local-port", i' - 1), local_port')
           /\ Cli!NamesPort(Cli!UsesUpTo("--remote-port", i' - 1), remote_port')
      /\ Numbers' <=> \A f \in Cli!PortFlags : \A n \in Cli!UsesUpTo(f, i' - 1) :
                        args[n + 1].kind = "number"
      /\ (Cli!KeptUpTo(i - 1))' = Cli!KeptUpTo(i' - 1)
  BY <1>2, SameUses, LineStays, SameKept
<1>4. \A k \in Nat : Cli!KeptUpTo(k) \subseteq Cli!KeptUpTo(k + 1)
  BY KeptCount
<1>5. CASE Cli!Start \/ Cli!EndOfLine \/ Cli!Check \/ Cli!PortFlagThrows
  <2>1. UNCHANGED <<i, local_port, remote_port, positional_args>>
    BY <1>5 DEF Cli!Start, Cli!EndOfLine, Cli!Check, Cli!PortFlagThrows, Cli!flags
  <2>2. PortsRead' /\ Numbers'
    BY <1>1, <1>3, <2>1 DEF PortsRead, Numbers
  <2>3. NothingMadeUp'
    BY <1>1, <1>2, <1>3, <2>1 DEF NothingMadeUp
  <2>4. parsing' = "threw" => ~Cli!LineIsGood
    <3>1. CASE Cli!Start
      BY <3>1 DEF Cli!Start, Cli!LineIsGood
    <3>2. CASE Cli!EndOfLine
      BY <3>2 DEF Cli!EndOfLine
    <3>3. CASE Cli!Check
      <4>1. /\ i = Len(args) + 1 /\ profile \notin {"absent", "blank"} /\ verb \in Cli!Kinds
            /\ parsing' = "threw" => ~Cli!Acceptable
        BY <3>3 DEF Cli!Check, CliInv
      <4> QED BY <4>1, ChecksAreRight
    <3>4. CASE Cli!PortFlagThrows
      <4>1. /\ i + 1 <= Len(args) /\ args[i].kind \in Cli!PortFlags /\ payload_only = FALSE
            /\ args[i + 1].kind # "number"
        BY <3>4 DEF Cli!PortFlagThrows, Cli!Looping, Cli!Token, Cli!TakesValue
      <4>2. args[i].kind # "--"
        BY <4>1 DEF Cli!PortFlags
      <4>3. i < Cli!First
        BY <1>1, <4>1, <4>2
      <4>4. i \in Cli!UsesUpTo(args[i].kind, Len(args))
        BY <1>1, <4>1, <4>3 DEF Cli!UsesUpTo
      <4> QED BY <4>1, <4>4 DEF Cli!LineIsGood
    <3> QED BY <1>5, <3>1, <3>2, <3>3, <3>4
  <2> QED BY <1>3, <2>2, <2>3, <2>4 DEF LineInv
<1>6. CASE Cli!Delimiter \/ Cli!JsonFlag \/ Cli!Positional
  <2>1. /\ i <= Len(args) /\ i' = i + 1 /\ i' - 1 = i /\ parsing' = "loop"
        /\ UNCHANGED <<local_port, remote_port>>
        /\ ~(~payload_only /\ args[i].kind \in Cli!PortFlags /\ i + 1 <= Len(args))
    <3>1. i <= Len(args) /\ i' = i + 1 /\ parsing' = "loop" /\ UNCHANGED <<local_port, remote_port>>
      BY <1>6 DEF Cli!Delimiter, Cli!JsonFlag, Cli!Positional, Cli!Looping, Cli!flags
    <3>2. ~(~payload_only /\ args[i].kind \in Cli!PortFlags /\ i + 1 <= Len(args))
      BY <1>6 DEF Cli!Delimiter, Cli!JsonFlag, Cli!Positional, Cli!TakesValue, Cli!Token,
                  Cli!PortFlags
    <3> QED BY <1>1, <3>1, <3>2
  <2>2. \A f \in Cli!PortFlags : ~(i < Cli!First /\ i < Len(args) /\ args[i].kind = f)
    BY <1>1, <2>1
  <2>3. \A f \in Cli!PortFlags : Cli!UsesUpTo(f, i' - 1) = Cli!UsesUpTo(f, i - 1)
    BY <1>1, <2>1, <2>2, UsesGrow
  <2>4. PortsRead' /\ Numbers'
    BY <1>1, <1>3, <2>1, <2>3 DEF PortsRead, Numbers, Cli!PortFlags
  <2>5. Cli!KeptUpTo(i - 1) \subseteq Cli!KeptUpTo(i' - 1)
    BY <1>1, <1>4, <2>1
  <2>6. NothingMadeUp'
    <3>1. CASE UNCHANGED positional_args
      BY <1>1, <1>2, <1>3, <2>5, <3>1 DEF NothingMadeUp
    <3>2. CASE Cli!Positional
      <4>1. positional_args' = Append(positional_args, args[i])
        BY <3>2 DEF Cli!Positional, Cli!Token
      <4>2. Cli!Kept(i)
        BY <1>1, <3>2, PositionalIsKept
      <4>3. i \in Cli!KeptUpTo(i' - 1)
        BY <1>1, <2>1, <4>2 DEF Cli!KeptUpTo
      <4>4. /\ Len(positional_args) \in Nat /\ Len(positional_args') = Len(positional_args) + 1
            /\ positional_args'[Len(positional_args) + 1] = args[i]
            /\ \A k \in 1..Len(positional_args) : positional_args'[k] = positional_args[k]
        BY <1>1, <2>1, <4>1, AppendProperties
      <4>5. ASSUME NEW k \in 1..Len(positional_args')
            PROVE  \E n \in Cli!KeptUpTo(i' - 1) : positional_args'[k] = args[n]
        <5>1. CASE k = Len(positional_args) + 1
          BY <4>3, <4>4, <5>1
        <5>2. CASE k # Len(positional_args) + 1
          <6>1. k \in 1..Len(positional_args)
            BY <4>4, <5>2
          <6> QED BY <1>1, <2>5, <4>4, <6>1 DEF NothingMadeUp
        <5> QED BY <5>1, <5>2
      <4> QED BY <1>2, <1>3, <4>5 DEF NothingMadeUp
    <3> QED BY <1>6, <3>1, <3>2 DEF Cli!Delimiter, Cli!JsonFlag
  <2> QED BY <2>1, <2>4, <2>6 DEF LineInv
<1>7. CASE Cli!PortFlag
  <2>1. /\ i + 1 <= Len(args) /\ args[i].kind \in Cli!PortFlags /\ args[i + 1].kind = "number"
        /\ payload_only = FALSE /\ i' = i + 2 /\ parsing' = "loop"
        /\ UNCHANGED positional_args
        /\ Cli!Store(args[i].kind, Cli!Uint16(args[i + 1].value))
    BY <1>7 DEF Cli!PortFlag, Cli!Looping, Cli!Token, Cli!TakesValue
  <2>2. args[i].kind # "--" /\ i < Cli!First /\ i < Len(args) /\ i' - 1 = i + 1 /\ i \in Nat
    <3>1. args[i].kind # "--"
      BY <2>1 DEF Cli!PortFlags
    <3> QED BY <1>1, <2>1, <3>1
  <2>3. ASSUME NEW f \in Cli!PortFlags
        PROVE  Cli!UsesUpTo(f, i' - 1) =
                 IF args[i].kind = f THEN Cli!UsesUpTo(f, i - 1) \cup {i}
                 ELSE Cli!UsesUpTo(f, i - 1)
    <3>1. args[i + 1].kind # f
      BY <2>1 DEF Cli!PortFlags
    <3>2. Cli!UsesUpTo(f, i + 1) = Cli!UsesUpTo(f, i)
      BY <2>2, <3>1, UsesGrow
    <3>3. Cli!UsesUpTo(f, i) = IF args[i].kind = f THEN Cli!UsesUpTo(f, i - 1) \cup {i}
                               ELSE Cli!UsesUpTo(f, i - 1)
      BY <1>1, <2>2, UsesGrow
    <3> QED BY <2>2, <3>2, <3>3
  <2>4. \A f : Cli!NamesPort(Cli!UsesUpTo(f, i - 1) \cup {i}, Cli!Uint16(args[i + 1].value))
    <3>1. \A f : \A k \in Cli!UsesUpTo(f, i - 1) \cup {i} : k <= i
      BY <1>1, UsesGrow
    <3> QED BY <3>1 DEF Cli!NamesPort
  <2>5. PortsRead'
    <3>1. CASE args[i].kind = "--local-port"
      <4>1. local_port' = Cli!Uint16(args[i + 1].value) /\ remote_port' = remote_port
        BY <2>1, <3>1 DEF Cli!Store
      <4> QED BY <1>1, <1>3, <2>3, <2>4, <3>1, <4>1 DEF PortsRead, Cli!PortFlags
    <3>2. CASE args[i].kind = "--remote-port"
      <4>1. remote_port' = Cli!Uint16(args[i + 1].value) /\ local_port' = local_port
        BY <2>1, <3>2 DEF Cli!Store
      <4> QED BY <1>1, <1>3, <2>3, <2>4, <3>2, <4>1 DEF PortsRead, Cli!PortFlags
    <3> QED BY <2>1, <3>1, <3>2 DEF Cli!PortFlags
  <2>6. Numbers'
    BY <1>1, <1>3, <2>1, <2>3 DEF Numbers
  <2>7. NothingMadeUp'
    <3>1. Cli!KeptUpTo(i - 1) \subseteq Cli!KeptUpTo(i' - 1)
      BY <1>1, <1>4, <2>2
    <3> QED BY <1>1, <1>2, <1>3, <2>1, <3>1 DEF NothingMadeUp
  <2> QED BY <2>1, <2>5, <2>6, <2>7 DEF LineInv
<1> QED
  BY <1>5, <1>6, <1>7 DEF Cli!Next

\* What is said of the line holds while the request stays.
LEMMA LineSame == ASSUME LineInv, UNCHANGED request PROVE LineInv'
<1>1. UNCHANGED <<parsing, verb, profile, args, i, local_port, remote_port, positional_args>>
  BY DEF request
<1>2. /\ Cli!LineIsGood' = Cli!LineIsGood
      /\ PortsRead' <=>
           /\ Cli!NamesPort(Cli!UsesUpTo("--local-port", i' - 1), local_port')
           /\ Cli!NamesPort(Cli!UsesUpTo("--remote-port", i' - 1), remote_port')
      /\ Numbers' <=> \A f \in Cli!PortFlags : \A n \in Cli!UsesUpTo(f, i' - 1) :
                        args[n + 1].kind = "number"
      /\ (Cli!KeptUpTo(i - 1))' = Cli!KeptUpTo(i' - 1)
  BY <1>1, SameUses, LineStays, SameKept
<1>3. PortsRead' /\ Numbers'
  BY <1>1, <1>2 DEF LineInv, PortsRead, Numbers
<1>4. NothingMadeUp'
  BY <1>1, <1>2 DEF LineInv, NothingMadeUp
<1> QED BY <1>1, <1>2, <1>3, <1>4 DEF LineInv

\* A request that is returned comes of a good line and has its ports.
LEMMA RunnableOnReturn ==
  ASSUME CliTypeOK, CliInv, Payload, LineInv
  PROVE  RequestIsRunnable
<1> SUFFICES ASSUME parsing = "returned" PROVE RequestIsRunnable
  BY DEF RequestIsRunnable, Cli!RequestIsRunnable
<1>1. /\ i = Len(args) + 1 /\ Cli!Acceptable
      /\ profile \notin {"absent", "blank"} /\ verb \in Cli!Kinds
  BY DEF CliInv
<1>2. PortsRead /\ i - 1 = Len(args)
  BY <1>1, AtTheEnd
<1>3. Cli!LineIsGood
  BY <1>1, ChecksAreRight
<1> QED
  BY <1>2, <1>3 DEF RequestIsRunnable, Cli!RequestIsRunnable, PortsRead

\* What stopped a run is to be seen on the line or in the file that counts.
LEMMA RefusedForReason ==
  ASSUME CliTypeOK, CliInv, Payload, LineInv, Reasons
  PROVE  RefusalHasReason
<1> SUFFICES ASSUME stage = "threw" PROVE RefusalHasReason
  BY DEF RefusalHasReason
<1>1. CASE parsing = "threw"
  BY <1>1 DEF LineInv, RefusalHasReason
<1>2. CASE parsing = "returned" /\ verb = "config" /\ ~json_output
  <2>1. json_output <=> Cli!JsonAsked
    BY <1>2, AtTheEnd DEF CliInv
  <2> QED BY <1>2, <2>1 DEF RefusalHasReason
<1>3. CASE \/ \A c \in DOMAIN world.files : ~Chosen(c)
           \/ \E c \in DOMAIN world.files :
                Chosen(c) /\ (Loadable(world.files[c]) => Named(world.files[c]) = {})
  BY <1>3 DEF RefusalHasReason, Loadable
<1> QED BY <1>1, <1>2, <1>3 DEF Reasons

-----------------------------------------------------------------------------
(* Steps of the loader.                                                     *)

\* What the schema allows, the loader takes.
LEMMA SchemaAllows ==
  ASSUME NEW name, NEW node \in Loader!Nodes, Loader!SchemaProfile(name, node)
  PROVE  Loader!ValidProfile(name, node)
<1>0. Loader!SchemaAuth(node.auth)
  BY DEF Loader!SchemaProfile
<1>1. node.auth.method \in {"publickey", "password"} /\ Loader!SchemaAuth(node.auth)
  BY <1>0 DEF Loader!SchemaAuth, Loader!Methods
<1>2. \A s : Loader!IsString(s) => Loader!Required(s)
  BY DEF Loader!IsString, Loader!Required, Loader!IsStringScalar
<1>3. \A s : Loader!OrAbsent(s) => Loader!Optional(s)
  BY <1>2 DEF Loader!OrAbsent, Loader!Optional
<1>4. Loader!HasCredential(node.auth)
  BY <1>1 DEF Loader!SchemaAuth, Loader!HasCredential, Loader!UseAgentOf
<1>5. Loader!ValidAuth(node.auth)
  BY <1>1, <1>2, <1>3, <1>4
  DEF Loader!SchemaAuth, Loader!ValidAuth, Loader!Supported, Loader!Methods, Loader!IsStringScalar
<1>6. Loader!PortOf(node.port) \in 1..Loader!MaxPort
  <2>1. Loader!MaxPort \in Nat /\ 22 <= Loader!MaxPort
    BY DEF Loader!MaxPort
  <2>2. \/ node.port.kind = "absent"
        \/ node.port.kind = "number" /\ node.port.value \in 1..Loader!MaxPort
    BY DEF Loader!SchemaProfile
  <2> QED
    BY <2>1, <2>2 DEF Loader!PortOf
<1> QED
  BY <1>2, <1>3, <1>5, <1>6 DEF Loader!SchemaProfile, Loader!ValidProfile

\* Defaults that the schema allows, with no watermark beyond 32 bits, the loader takes.
LEMMA DefaultsAllowed ==
  ASSUME NEW file, Loadable(file)
  PROVE  Loader!ValidDefaults(file.defaults)
BY DEF Loadable, Loader!SchemaValid, Loader!SchemaDefaults, Loader!Beyond, Loader!ValidDefaults

\* The entries of a document are numbered, and each has a node.
LEMMA EntryTypes ==
  ASSUME document \in Loader!Documents
  PROVE  /\ Len(Entries) \in Nat /\ DOMAIN Entries = 1..Len(Entries)
         /\ \A n \in 1..Len(Entries) : Entries[n].node \in Loader!Nodes
<1>1. Entries \in Seq([name : STRING, node : Loader!Nodes])
  BY DEF Loader!Documents, Entries
<1>2. Len(Entries) \in Nat /\ DOMAIN Entries = 1..Len(Entries)
  BY <1>1
<1>3. \A n \in 1..Len(Entries) : Entries[n] \in [name : STRING, node : Loader!Nodes]
  BY <1>1, ElementOfSeq
<1> QED
  BY <1>2, <1>3

\* Every step of the loader keeps its part of the invariant.
LEMMA LoaderStep ==
  ASSUME LoaderTypeOK, LoaderInv, Loader!Next
  PROVE  LoaderTypeOK' /\ LoaderInv' /\ document' = document /\ loading' # "open"
<1> USE DEF LoaderTypeOK
<1>1. document' = document
  BY DEF Loader!Next, Loader!Open, Loader!ReadDefaults, Loader!ReadProfile, Loader!Return,
         Loader!Throw
<1>2. /\ Entries' = Entries /\ (Loadable(document))' = Loadable(document)
      /\ (Loader!ValidDefaults(document.defaults))' = Loader!ValidDefaults(document.defaults)
  BY <1>1 DEF Entries, Loadable, Loader!SchemaValid, Loader!Beyond, Loader!ValidDefaults
<1>3. CASE Loader!Open
  <2>1. /\ loading = "open" /\ next = 1 /\ profiles = <<>> /\ next' = next /\ profiles' = profiles
        /\ loading' \in {"defaults", "threw"}
        /\ loading' = "defaults" => document.root = "mapping" /\ ~document.unknown_key
        /\ loading' = "threw" => ~(document.root = "mapping" /\ ~document.unknown_key)
    BY <1>3 DEF Loader!Open, Loader!Throw, LoaderInv
  <2>2. document.root = "mapping" => document # Missing
    BY DEF Missing
  <2>3. loading' = "threw" => ~Loadable(document)
    BY <2>1 DEF Loadable, Loader!SchemaValid
  <2> QED
    BY <1>1, <1>2, <2>1, <2>2, <2>3 DEF LoaderInv
<1>4. CASE Loader!ReadDefaults
  <2>1. /\ loading = "defaults" /\ next = 1 /\ profiles = <<>> /\ next' = next /\ profiles' = profiles
        /\ loading' \in {"profiles", "threw"}
        /\ document # Missing /\ document.root = "mapping" /\ ~document.unknown_key
        /\ loading' = "profiles" => Loader!ValidDefaults(document.defaults)
        /\ loading' = "threw" =>
             ~(Loader!ValidDefaults(document.defaults) /\ document.profiles_kind = "mapping")
    BY <1>4 DEF Loader!ReadDefaults, Loader!Throw, LoaderInv
  <2>2. loading' = "threw" => ~Loadable(document)
    BY <2>1, DefaultsAllowed DEF Loadable, Loader!SchemaValid
  <2>3. Len(Entries) \in Nat
    BY <2>1, EntryTypes
  <2>4. DOMAIN profiles' = {Entries[n].name : n \in 1..next' - 1}
    BY <2>1
  <2> QED
    BY <1>1, <1>2, <2>1, <2>2, <2>3, <2>4 DEF LoaderInv
<1>5. CASE Loader!ReadProfile
  <2> DEFINE name == Entries[next].name
             node == Entries[next].node
  <2>1. /\ loading = "profiles" /\ next <= Len(Entries)
        /\ document # Missing /\ document.root = "mapping" /\ ~document.unknown_key
        /\ Loader!ValidDefaults(document.defaults)
        /\ DOMAIN profiles = {Entries[n].name : n \in 1..next - 1}
        /\ \A n \in 1..next - 1 : Read(n)
    BY <1>5 DEF Loader!ReadProfile, LoaderInv, Entries
  <2>2. /\ document \in Loader!Documents /\ Len(Entries) \in Nat /\ next \in 1..Len(Entries)
        /\ DOMAIN Entries = 1..Len(Entries) /\ node \in Loader!Nodes
    BY <2>1, EntryTypes
  <2>3. Loader!IsNew(name) <=> \A m \in 1..next - 1 : Entries[m].name # name
    BY <2>1 DEF Loader!IsNew
  <2>4. CASE Loader!ValidProfile(name, node) /\ Loader!IsNew(name)
    <3>1. /\ profiles' = [p \in DOMAIN profiles \cup {name} |->
                            IF p = name THEN Loader!Loaded(node) ELSE profiles[p]]
          /\ next' = next + 1 /\ loading' = loading
      BY <1>5, <2>4 DEF Loader!ReadProfile, Loader!Entry, Entries
    <3>2. DOMAIN profiles' = {Entries[n].name : n \in 1..next' - 1}
      BY <2>1, <2>2, <3>1
    <3>3. ASSUME NEW n \in 1..next' - 1 PROVE Read(n)'
      <4>1. CASE n = next
        BY <1>2, <2>3, <2>4, <3>1, <4>1 DEF Read
      <4>2. CASE n # next
        <5>1. n \in 1..next - 1 /\ Entries[n].name # name /\ Entries[n].name \in DOMAIN profiles
          BY <2>1, <2>3, <2>4, <3>1, <4>2
        <5> QED
          BY <1>2, <2>1, <3>1, <5>1 DEF Read
      <4> QED BY <4>1, <4>2
    <3> QED
      BY <1>1, <1>2, <2>1, <2>2, <3>1, <3>2, <3>3 DEF LoaderInv
  <2>5. CASE ~(Loader!ValidProfile(name, node) /\ Loader!IsNew(name))
    <3>1. loading' = "threw" /\ next' = next
      BY <1>5, <2>5 DEF Loader!ReadProfile, Loader!Entry, Loader!Throw, Entries
    <3>2. ~Loadable(document)
      BY <2>2, <2>3, <2>5, SchemaAllows DEF Loadable, Loader!SchemaValid, Entries
    <3> QED
      BY <1>1, <1>2, <3>1, <3>2 DEF LoaderInv
  <2> QED BY <2>4, <2>5
<1>6. CASE Loader!Return
  <2>1. /\ loading = "profiles" /\ loading' = "returned" /\ next > Len(Entries)
        /\ next' = next /\ profiles' = profiles /\ document # Missing
    BY <1>6 DEF Loader!Return, Entries, LoaderInv
  <2>2. Len(Entries) \in Nat
    BY <2>1, EntryTypes
  <2>3. \A n : Read(n)' <=> Read(n)
    BY <1>2, <2>1 DEF Read
  <2> QED
    BY <1>1, <1>2, <2>1, <2>2, <2>3 DEF LoaderInv
<1> QED
  BY <1>3, <1>4, <1>5, <1>6 DEF Loader!Next

\* A configuration that is returned is its file's.
LEMMA WholeOnReturn == ASSUME LoaderTypeOK, LoaderInv PROVE LoadedIsWhole
<1> SUFFICES ASSUME loading = "returned" PROVE LoadedIsWhole
  BY DEF LoadedIsWhole, Loader!LoadedIsWhole
<1>1. /\ document \in Loader!Documents /\ next = Len(Entries) + 1
      /\ DOMAIN profiles = {Entries[n].name : n \in 1..next - 1}
      /\ \A n \in 1..next - 1 : Read(n)
      /\ ~document.unknown_key /\ Loader!ValidDefaults(document.defaults)
  BY DEF LoaderTypeOK, LoaderInv
<1>2. Len(Entries) \in Nat /\ DOMAIN Entries = 1..Len(Entries) /\ next - 1 = Len(Entries)
  BY <1>1, EntryTypes
<1>3. ASSUME NEW n \in DOMAIN Entries
      PROVE  LET node == Entries[n].node
             IN  /\ profiles[Entries[n].name] = Loader!Loaded(node)
                 /\ ~node.unknown_key /\ ~node.auth.unknown_key
                 /\ "blank" \notin {node.host, node.theme, node.auth.username,
                                    node.auth.password_command, node.auth.key_path}
  <2>1. Read(n)
    BY <1>1, <1>2
  <2> QED
    BY <2>1 DEF Read, Loader!ValidProfile, Loader!ValidAuth, Loader!Required, Loader!Optional
<1> QED
  BY <1>1, <1>2, <1>3 DEF LoadedIsWhole, Loader!LoadedIsWhole, Loader!ValidDefaults, Entries

-----------------------------------------------------------------------------
(* Steps of Startup.                                                        *)

\* The invariant holds at first.
LEMMA InitIInv == Init => IInv
<1> SUFFICES ASSUME Init PROVE IInv
  OBVIOUS
<1>1. PICK start \in Starts : world = start.world /\ Cli!Init(start.line)
  BY DEF Init
<1>2. /\ start.line \in Cli!CommandLines
      /\ world.given \subseteq {"override", "home", "user_profile", "appdata"}
      /\ \A c \in DOMAIN world.files : world.files[c] \in Loader!Documents
  BY <1>1, StartAssumption
<1>3. /\ parsing = "start" /\ args \in Seq(Cli!Tokens) /\ i = 1 /\ positional_args = <<>>
      /\ payload_only = FALSE /\ json_output = FALSE /\ local_port = 0
  BY <1>1, <1>2 DEF Cli!Init, Cli!CommandLines
<1>4. CliTypeOK
  <2>1. payload_only \in BOOLEAN /\ json_output \in BOOLEAN
    BY <1>3
  <2> QED
    BY <1>3, <2>1 DEF CliTypeOK
<1>5. CliInv
  BY <1>3 DEF CliInv
<1>6. /\ stage = "parse" /\ connection = NoConnection
      /\ loading = "open" /\ document = Missing /\ next = 1 /\ profiles = <<>>
  BY DEF Init, Loader!Init
<1>7. LoaderTypeOK /\ LoaderInv
  BY <1>6 DEF LoaderTypeOK, LoaderInv
<1>8. TypeOK /\ Stages
  BY <1>2, <1>4, <1>6, <1>7 DEF TypeOK, Stages
<1> QED
  BY <1>5, <1>6, <1>7, <1>8 DEF IInv, ConnectsAsConfigured, Reasons

\* The parser's part of the invariant holds while the request stays.
LEMMA RequestStays ==
  ASSUME CliTypeOK, CliInv, UNCHANGED request
  PROVE  CliTypeOK' /\ CliInv' /\ UNCHANGED <<parsing, verb, profile, json_output>>
<1>1. UNCHANGED <<parsing, verb, profile, args, i, payload_only, json_output, local_port,
                  positional_args>>
  BY DEF request
<1>2. Cli!First' = Cli!First
  BY <1>1, SameFirst
<1>3. Cli!Acceptable' = Cli!Acceptable
  BY <1>1 DEF Cli!Acceptable, Cli!BlankCommand
<1> QED
  BY <1>1, <1>2, <1>3 DEF CliTypeOK, CliInv

\* The loader's part of the invariant holds while the configuration stays.
LEMMA ConfigStays ==
  ASSUME LoaderTypeOK, LoaderInv, UNCHANGED config
  PROVE  LoaderTypeOK' /\ LoaderInv' /\ UNCHANGED <<loading, document, profiles>>
<1>1. UNCHANGED <<loading, document, next, profiles>>
  BY DEF config
<1>2. Entries' = Entries /\ \A n : Read(n)' <=> Read(n)
  BY <1>1 DEF Entries, Read
<1>3. /\ (Loadable(document))' = Loadable(document)
      /\ (Loader!ValidDefaults(document.defaults))' = Loader!ValidDefaults(document.defaults)
  BY <1>1 DEF Loadable, Loader!SchemaValid, Loader!Beyond, Loader!ValidDefaults
<1> QED
  BY <1>1, <1>2, <1>3 DEF LoaderTypeOK, LoaderInv

\* The file that counts is the same while the world is.
LEMMA ChosenStays ==
  ASSUME UNCHANGED world
  PROVE  /\ \A c : (Chosen(c))' <=> Chosen(c)
         /\ path' = path => AtPath' = AtPath
  BY DEF Chosen, Counts, AtPath

\* The search ends at the file that counts, or there is none.
LEMMA SearchIsRight ==
  ASSUME TypeOK
  PROVE  IF Resolved = <<>> THEN \A c \in DOMAIN world.files : ~Chosen(c)
         ELSE Head(Resolved) \in DOMAIN Rank /\ Chosen(Head(Resolved))
<1>1. /\ DOMAIN Rank = {"override", "cwd", "home", "user_profile", "appdata"}
      /\ Rank["override"] = 1 /\ Rank["cwd"] = 2 /\ Rank["home"] = 3
      /\ Rank["user_profile"] = 4 /\ Rank["appdata"] = 5
  BY DEF Rank
<1>2. world.given \subseteq {"override", "home", "user_profile", "appdata"}
  BY DEF TypeOK
<1>3. CASE "override" \in world.given
  <2>1. Resolved = <<"override">> /\ Resolved # <<>> /\ Head(Resolved) = "override"
    BY <1>3 DEF Resolved
  <2>2. Chosen("override")
    BY <1>1, <1>3 DEF Chosen, Counts
  <2> QED
    BY <1>1, <2>1, <2>2
<1>4. CASE "override" \notin world.given
  <2> DEFINE places == <<"cwd", "home", "user_profile", "appdata">>
             there == {n \in DOMAIN places : Exists(places[n])}
  <2>1. /\ DOMAIN places = 1..4
        /\ places[1] = "cwd" /\ places[2] = "home"
        /\ places[3] = "user_profile" /\ places[4] = "appdata"
    OBVIOUS
  <2>2. Resolved = FirstOf(places)
    BY <1>4 DEF Resolved, Found
  <2>3. \A c : Counts(c) <=> \E n \in there : places[n] = c
    BY <1>2, <1>4, <2>1 DEF Counts, Exists
  <2>4. CASE there = {}
    <3>1. Resolved = <<>>
      BY <2>2, <2>4 DEF FirstOf
    <3> QED
      BY <2>3, <2>4, <3>1 DEF Chosen
  <2>5. CASE there # {}
    <3> DEFINE n == CHOOSE n \in there : there \cap 1..n - 1 = {}
    <3>1. there \subseteq 1..4
      BY <2>1
    <3>2. Resolved = <<places[n]>>
      BY <2>2, <2>5 DEF FirstOf
    <3> HIDE DEF there
    <3>3. \E m \in there : there \cap 1..m - 1 = {}
      <4>1. CASE 1 \in there
        BY <4>1
      <4>2. CASE 1 \notin there /\ 2 \in there
        BY <4>2
      <4>3. CASE 1 \notin there /\ 2 \notin there /\ 3 \in there
        BY <4>3
      <4>4. CASE 1 \notin there /\ 2 \notin there /\ 3 \notin there
        <5>1. \A m \in there : m = 4
          BY <3>1, <4>4
        <5>2. 4 \in there
          BY <2>5, <5>1
        <5> QED
          BY <5>1, <5>2
      <4> QED BY <4>1, <4>2, <4>3, <4>4
    <3>4. n \in there /\ there \cap 1..n - 1 = {}
      BY <3>3
    <3> HIDE DEF n, places
    <3>5. Head(Resolved) = places[n] /\ Resolved # <<>>
      BY <3>2
    <3>6. \A m \in 1..4 : places[m] \in DOMAIN Rank /\ Rank[places[m]] = m + 1
      BY <1>1, <2>1
    <3>7. \A m \in there : n <= m
      BY <3>1, <3>4
    <3>8. \A d \in DOMAIN Rank : Counts(d) => Rank[places[n]] <= Rank[d]
      BY <2>3, <3>1, <3>4, <3>6, <3>7
    <3>9. Counts(places[n])
      BY <2>3, <3>4
    <3> QED
      BY <3>1, <3>4, <3>5, <3>6, <3>8, <3>9 DEF Chosen
  <2> QED BY <2>4, <2>5
<1> QED BY <1>3, <1>4

\* Only one file counts.
LEMMA OneIsChosen ==
  ASSUME NEW c \in DOMAIN Rank, NEW d, Chosen(c), Chosen(d), TypeOK
  PROVE  c = d
<1>1. /\ DOMAIN Rank = {"override", "cwd", "home", "user_profile", "appdata"}
      /\ Rank["override"] = 1 /\ Rank["cwd"] = 2 /\ Rank["home"] = 3
      /\ Rank["user_profile"] = 4 /\ Rank["appdata"] = 5
  BY DEF Rank
<1>2. d \in DOMAIN Rank
  BY <1>1 DEF Chosen, Counts, TypeOK
<1>3. Rank[c] <= Rank[d] /\ Rank[d] <= Rank[c]
  BY <1>2 DEF Chosen
<1> QED
  BY <1>1, <1>2, <1>3

\* A step of the parser keeps the invariant.
LEMMA ParseKeeps == ASSUME IInv, Parse PROVE IInv'
<1>1. /\ CliTypeOK /\ CliInv /\ LoaderTypeOK /\ LoaderInv /\ TypeOK /\ Stages
      /\ stage = "parse" /\ UNCHANGED <<own, config>> /\ Cli!Next
  BY DEF IInv, TypeOK, Parse
<1>2. CliTypeOK' /\ CliInv' /\ UNCHANGED verb
  BY <1>1, CliStep
<1>3. LoaderTypeOK' /\ LoaderInv' /\ UNCHANGED <<loading, document, profiles>>
  BY <1>1, ConfigStays
<1>4. UNCHANGED <<world, path, connection>>
  BY <1>1 DEF own
<1>5. parsing' = "returned" => UNCHANGED json_output
  BY <1>1
  DEF Cli!Next, Cli!Looping, Cli!Start, Cli!Delimiter, Cli!JsonFlag, Cli!PortFlag,
      Cli!PortFlagThrows, Cli!Positional, Cli!EndOfLine, Cli!Check, Cli!flags
<1>6. /\ stage' \in {"parse", "resolve", "noConfig", "threw"}
      /\ stage' = "threw" =>
           parsing' = "threw" \/ (parsing' = "returned" /\ verb' = "config" /\ ~json_output')
  BY <1>1, <1>2, <1>5 DEF Parse, Dispatched
<1>7. TypeOK'
  BY <1>1, <1>2, <1>3, <1>4, <1>6 DEF TypeOK
<1>8. Stages'
  BY <1>1, <1>3, <1>4, <1>6 DEF Stages
<1>9. ConnectsAsConfigured'
  BY <1>6 DEF ConnectsAsConfigured
<1>10. Reasons'
  BY <1>6 DEF Reasons
<1> QED
  BY <1>2, <1>3, <1>7, <1>8, <1>9, <1>10 DEF IInv

\* The search for the configuration keeps the invariant.
LEMMA ResolveKeeps == ASSUME IInv, Resolve PROVE IInv'
<1>1. /\ CliTypeOK /\ CliInv /\ LoaderTypeOK /\ LoaderInv /\ TypeOK /\ Stages
      /\ stage = "resolve" /\ UNCHANGED <<world, connection, request>>
  BY DEF IInv, TypeOK, Resolve
<1>2. CliTypeOK' /\ CliInv'
  BY <1>1, RequestStays
<1>3. \A c : (Chosen(c))' <=> Chosen(c)
  BY <1>1, ChosenStays
<1>4. CASE Resolved = <<>>
  <2>1. stage' = "threw" /\ UNCHANGED <<path, config>>
    BY <1>4 DEF Resolve
  <2>2. LoaderTypeOK' /\ LoaderInv'
    BY <1>1, <2>1, ConfigStays
  <2>3. \A c \in DOMAIN world.files : ~Chosen(c)
    BY <1>1, <1>4, SearchIsRight
  <2>4. TypeOK' /\ Stages'
    BY <1>1, <1>2, <2>1, <2>2 DEF TypeOK, Stages
  <2>5. ConnectsAsConfigured' /\ Reasons'
    BY <1>1, <1>3, <2>1, <2>3 DEF ConnectsAsConfigured, Reasons
  <2> QED
    BY <1>2, <2>2, <2>4, <2>5 DEF IInv
<1>5. CASE Resolved # <<>>
  <2>1. /\ stage' = "load" /\ path' = Head(Resolved)
        /\ document' = IF Head(Resolved) \in DOMAIN world.files
                       THEN world.files[Head(Resolved)] ELSE Missing
        /\ UNCHANGED <<loading, next, profiles>>
    BY <1>5 DEF Resolve
  <2>2. path' \in DOMAIN Rank /\ Chosen(path')
    BY <1>1, <1>5, <2>1, SearchIsRight
  <2>3. document' = AtPath' /\ (document' = Missing \/ document' \in Loader!Documents)
    BY <1>1, <2>1 DEF AtPath, TypeOK
  <2>4. loading = "open"
    BY <1>1 DEF Stages
  <2>5. LoaderTypeOK' /\ LoaderInv'
    BY <1>1, <2>1, <2>3, <2>4 DEF LoaderTypeOK, LoaderInv
  <2>6. TypeOK'
    BY <1>1, <1>2, <2>1, <2>5 DEF TypeOK
  <2>7. Stages'
    BY <1>3, <2>1, <2>2, <2>3, <2>4 DEF Stages
  <2>8. ConnectsAsConfigured' /\ Reasons'
    BY <2>1 DEF ConnectsAsConfigured, Reasons
  <2> QED
    BY <1>2, <2>5, <2>6, <2>7, <2>8 DEF IInv
<1> QED BY <1>4, <1>5

\* A file at the path is a document; a document that is not one is not there.
LEMMA AtPathIs ==
  ASSUME TypeOK, Stages, stage \in {"load", "lookup"}
  PROVE  /\ document = AtPath /\ path \in DOMAIN Rank /\ Chosen(path)
         /\ IF document = Missing THEN path \notin DOMAIN world.files
            ELSE path \in DOMAIN world.files /\ document = world.files[path]
                 /\ document \in Loader!Documents
<1>1. Missing \notin Loader!Documents
  <2>1. "profiles" \notin DOMAIN Missing /\ \A d \in Loader!Documents : "profiles" \in DOMAIN d
    BY DEF Missing, Loader!Documents
  <2> QED
    BY <2>1
<1> QED
  BY <1>1 DEF AtPath, Stages, TypeOK

\* A step of the loader keeps the invariant.
LEMMA LoadKeeps == ASSUME IInv, Load PROVE IInv'
<1>1. /\ CliTypeOK /\ CliInv /\ LoaderTypeOK /\ LoaderInv /\ TypeOK /\ Stages
      /\ stage = "load" /\ UNCHANGED <<own, request>> /\ Loader!Next
  BY DEF IInv, TypeOK, Load
<1>2. CliTypeOK' /\ CliInv'
  BY <1>1, RequestStays
<1>3. LoaderTypeOK' /\ LoaderInv' /\ document' = document
  BY <1>1, LoaderStep
<1>4. UNCHANGED <<world, path, connection>>
  BY <1>1 DEF own
<1>5. /\ \A c : (Chosen(c))' <=> Chosen(c)
      /\ AtPath' = AtPath
  BY <1>4, ChosenStays
<1>6. /\ stage' \in {"load", "lookup", "threw"}
      /\ stage' = "threw" <=> loading' = "threw"
      /\ stage' = "lookup" <=> loading' = "returned"
  BY <1>1 DEF Load
<1>7. TypeOK'
  BY <1>1, <1>2, <1>3, <1>4, <1>6 DEF TypeOK
<1>8. Stages'
  BY <1>1, <1>3, <1>4, <1>5, <1>6 DEF Stages
<1>9. ConnectsAsConfigured'
  BY <1>6 DEF ConnectsAsConfigured
<1>10. Reasons'
  <2> SUFFICES ASSUME stage' = "threw" PROVE Reasons'
    BY DEF Reasons
  <2>1. path \in DOMAIN Rank /\ Chosen(path)
    BY <1>1, AtPathIs
  <2>2. document = Missing \/ ~Loadable(document)
    BY <1>3, <1>6 DEF LoaderInv
  <2>3. CASE document = Missing
    <3>1. path \notin DOMAIN world.files
      BY <1>1, <2>3, AtPathIs
    <3>2. \A c \in DOMAIN world.files : ~Chosen(c)
      BY <1>1, <2>1, <3>1, OneIsChosen
    <3> QED
      BY <1>4, <1>5, <3>2 DEF Reasons
  <2>4. CASE document # Missing
    <3>1. path \in DOMAIN world.files /\ ~Loadable(world.files[path])
      BY <1>1, <2>2, <2>4, AtPathIs
    <3> QED
      BY <1>4, <1>5, <2>1, <3>1 DEF Reasons
  <2> QED BY <2>3, <2>4
<1> QED
  BY <1>2, <1>3, <1>7, <1>8, <1>9, <1>10 DEF IInv

\* The profile of the command line, once it is found, is its only definition.
LEMMA FoundProfile ==
  ASSUME LoaderTypeOK, LoaderInv, loading = "returned", document # Missing
  PROVE  /\ profile \notin DOMAIN profiles => Named(document) = {}
         /\ profile \in DOMAIN profiles =>
              \E n \in Named(document) :
                LET loaded == Loader!Loaded(document.profiles[n].node)
                IN  /\ Named(document) = {n} /\ Loader!Usable(loaded)
                    /\ profiles[profile] = loaded
<1>1. /\ Len(Entries) \in Nat /\ DOMAIN Entries = 1..Len(Entries)
      /\ DOMAIN profiles = {Entries[n].name : n \in 1..Len(Entries)}
      /\ \A n \in 1..Len(Entries) : Read(n)
  <2>1. next = Len(Entries) + 1 /\ Len(Entries) \in Nat /\ DOMAIN Entries = 1..Len(Entries)
    BY EntryTypes DEF LoaderTypeOK, LoaderInv
  <2>2. next - 1 = Len(Entries)
    BY <2>1
  <2> QED
    BY <2>1, <2>2 DEF LoaderInv
<1>2. Named(document) = {n \in 1..Len(Entries) : Entries[n].name = profile}
  BY <1>1 DEF Named, Entries
<1>3. ASSUME NEW n \in 1..Len(Entries), Entries[n].name = profile
      PROVE  /\ Named(document) = {n} /\ Loader!Usable(Loader!Loaded(Entries[n].node))
             /\ profiles[profile] = Loader!Loaded(Entries[n].node)
  <2>1. Read(n)
    BY <1>1
  <2>2. ASSUME NEW m \in 1..Len(Entries), Entries[m].name = profile PROVE m = n
    <3>1. CASE m < n
      <4>1. m \in 1..n - 1
        BY <1>1, <3>1
      <4> QED
        BY <1>3, <2>1, <2>2, <4>1 DEF Read
    <3>2. CASE n < m
      <4>1. n \in 1..m - 1 /\ Read(m)
        BY <1>1, <3>2
      <4> QED
        BY <1>3, <2>2, <4>1 DEF Read
    <3>3. m \in Nat /\ n \in Nat
      BY <1>1
    <3> QED BY <3>1, <3>2, <3>3
  <2>3. Loader!Usable(Loader!Loaded(Entries[n].node))
    <3> DEFINE node == Entries[n].node
               auth == Loader!Loaded(node).auth
    <3>1. Loader!PortOf(node.port) \in 1..Loader!MaxPort /\ Loader!ValidAuth(node.auth)
      BY <2>1 DEF Read, Loader!ValidProfile
    <3>2. /\ node.auth.method \in Loader!Methods
          /\ Loader!HasCredential(node.auth)
      BY <3>1 DEF Loader!ValidAuth, Loader!Supported
    <3>3. /\ Loader!Loaded(node).port = Loader!PortOf(node.port)
          /\ auth.method = node.auth.method
          /\ auth.password_command = (node.auth.password_command # "absent")
          /\ auth.key_path = (node.auth.key_path # "absent")
          /\ auth.use_agent = Loader!UseAgentOf(node.auth.use_agent)
      BY DEF Loader!Loaded
    <3> HIDE DEF node
    <3>4. /\ node.auth.method = "password" => auth.password_command
          /\ node.auth.method = "publickey" => auth.key_path \/ auth.use_agent
      BY <3>2, <3>3 DEF Loader!HasCredential
    <3> HIDE DEF auth
    <3> QED
      BY <3>1, <3>2, <3>3, <3>4 DEF Loader!Usable, auth, node
  <2> QED
    BY <1>2, <1>3, <2>1, <2>2, <2>3 DEF Read
<1>4. CASE profile \notin DOMAIN profiles
  BY <1>1, <1>2, <1>4
<1>5. CASE profile \in DOMAIN profiles
  <2>1. PICK n \in 1..Len(Entries) : Entries[n].name = profile
    BY <1>1, <1>5
  <2>2. n \in Named(document)
    BY <1>2, <2>1
  <2> QED
    BY <1>3, <1>5, <2>1, <2>2 DEF Entries
<1> QED BY <1>4, <1>5

\* Looking the profile up keeps the invariant.
LEMMA LookupKeeps == ASSUME IInv, Lookup PROVE IInv'
<1>1. /\ CliTypeOK /\ CliInv /\ LoaderTypeOK /\ LoaderInv /\ TypeOK /\ Stages
      /\ stage = "lookup" /\ UNCHANGED <<world, path, request, config>>
  BY DEF IInv, TypeOK, Lookup
<1>2. CliTypeOK' /\ CliInv' /\ UNCHANGED <<parsing, verb, profile, json_output>>
  BY <1>1, RequestStays
<1>3. LoaderTypeOK' /\ LoaderInv' /\ UNCHANGED <<loading, document, profiles>>
  BY <1>1, ConfigStays
<1>4. /\ \A c : (Chosen(c))' <=> Chosen(c)
      /\ AtPath' = AtPath
  BY <1>1, ChosenStays
<1>5. stage' \in {"print", "connect", "threw"}
  BY DEF Lookup
<1>6. /\ loading = "returned" /\ path \in DOMAIN Rank /\ Chosen(path)
      /\ document # Missing /\ path \in DOMAIN world.files /\ document = world.files[path]
  BY <1>1, AtPathIs DEF Stages, LoaderInv
<1>7. TypeOK'
  BY <1>1, <1>2, <1>3, <1>5 DEF TypeOK
<1>8. Stages'
  BY <1>1, <1>3, <1>4, <1>5 DEF Stages
<1>9. \A file : (Named(file))' = Named(file)
  BY Zenon, <1>2 DEF Named
<1>10. ConnectsAsConfigured'
  <2> SUFFICES ASSUME stage' = "connect" PROVE ConnectsAsConfigured'
    BY DEF ConnectsAsConfigured
  <2>1. profile \in DOMAIN profiles /\ connection' = Connection
    BY <1>1 DEF Lookup
  <2>2. PICK n \in Named(document) :
          LET loaded == Loader!Loaded(document.profiles[n].node)
          IN  /\ Named(document) = {n} /\ Loader!Usable(loaded)
              /\ profiles[profile] = loaded
    BY <1>1, <1>6, <2>1, FoundProfile
  <2>3. LET loaded == Loader!Loaded(document.profiles[n].node)
        IN  connection' =
              [profile_name |-> profile, port |-> loaded.port, auth |-> loaded.auth]
    BY <2>1, <2>2 DEF Connection
  <2> QED
    BY <1>1, <1>2, <1>4, <1>6, <1>9, <2>2, <2>3 DEF ConnectsAsConfigured
<1>11. Reasons'
  <2> SUFFICES ASSUME stage' = "threw" PROVE Reasons'
    BY DEF Reasons
  <2>1. profile \notin DOMAIN profiles
    BY <1>1 DEF Lookup
  <2>2. Named(document) = {}
    BY <1>1, <1>6, <2>1, FoundProfile
  <2> QED
    BY <1>1, <1>4, <1>6, <1>9, <2>2 DEF Reasons
<1> QED
  BY <1>2, <1>3, <1>7, <1>8, <1>10, <1>11 DEF IInv

\* The invariant holds in every reachable state.
LEMMA Invariance == Spec => []IInv
<1>1. ASSUME IInv, [Next]_vars PROVE IInv'
  <2>1. CASE Parse
    BY <1>1, <2>1, ParseKeeps
  <2>2. CASE Resolve
    BY <1>1, <2>2, ResolveKeeps
  <2>3. CASE Load
    BY <1>1, <2>3, LoadKeeps
  <2>4. CASE Lookup
    BY <1>1, <2>4, LookupKeeps
  <2>5. CASE UNCHANGED vars
    <3>1. UNCHANGED <<stage, world, path, connection, request, config>>
      BY <2>5 DEF vars, own
    <3>2. CliTypeOK' /\ CliInv' /\ UNCHANGED <<parsing, verb, profile, json_output>>
      BY <1>1, <3>1, RequestStays DEF IInv, TypeOK
    <3>3. LoaderTypeOK' /\ LoaderInv' /\ UNCHANGED <<loading, document, profiles>>
      BY <1>1, <3>1, ConfigStays DEF IInv, TypeOK
    <3>4. /\ \A c : (Chosen(c))' <=> Chosen(c)
          /\ AtPath' = AtPath
      BY <3>1, ChosenStays
    <3>5. TypeOK' /\ Stages'
      BY <1>1, <3>1, <3>2, <3>3, <3>4 DEF IInv, TypeOK, Stages
    <3>6. \A file : (Named(file))' = Named(file)
      BY <3>2 DEF Named
    <3>7. ConnectsAsConfigured' /\ Reasons'
      BY <1>1, <3>1, <3>2, <3>4, <3>6 DEF IInv, ConnectsAsConfigured, Reasons
    <3> QED
      BY <3>2, <3>3, <3>5, <3>7 DEF IInv
  <2> QED
    BY <1>1, <2>1, <2>2, <2>3, <2>4, <2>5 DEF Next, Terminated
<1> QED
  BY InitIInv, <1>1, PTL DEF Spec

-----------------------------------------------------------------------------
(* Theorems.                                                                *)

\* What is said of the payload and of the line holds in every reachable state.
LEMMA RequestInvariance == Spec => [](Payload /\ LineInv)
<1>1. Init => Payload /\ LineInv
  <2> SUFFICES ASSUME Init PROVE Payload /\ LineInv
    OBVIOUS
  <2>1. /\ i = 1 /\ positional_args = <<>> /\ json_output = FALSE
        /\ local_port = 0 /\ remote_port = 0 /\ parsing = "start"
    BY DEF Init, Cli!Init
  <2>2. Cli!KeptUpTo(0) = {} /\ Cardinality({}) = 0
    BY FS_EmptySet, SMT DEF Cli!KeptUpTo
  <2>3. Payload
    BY <2>1, <2>2 DEF Payload, InPlace
  <2>4. \A f : Cli!UsesUpTo(f, 0) = {}
    BY SMT DEF Cli!UsesUpTo
  <2>5. LineInv
    BY <2>1, <2>2, <2>4 DEF LineInv, PortsRead, Numbers, NothingMadeUp, Cli!NamesPort
  <2> QED BY <2>3, <2>5
<1>2. IInv /\ Payload /\ LineInv /\ [Next]_vars => Payload' /\ LineInv'
  <2> SUFFICES ASSUME IInv, Payload, LineInv, [Next]_vars PROVE Payload' /\ LineInv'
    OBVIOUS
  <2>1. CASE Cli!Next
    BY <2>1, PayloadStep, LineStep DEF IInv, TypeOK
  <2>2. CASE UNCHANGED request
    <3>1. UNCHANGED <<args, i, payload_only, json_output, positional_args>>
      BY <2>2 DEF request
    <3>2. InPlace' /\ Cli!First' = Cli!First
      BY <3>1, SameKept, LeftOut DEF Payload
    <3>3. Payload'
      BY <3>1, <3>2 DEF Payload
    <3> QED
      BY <2>2, <3>3, LineSame
  <2> QED
    BY <2>1, <2>2 DEF Next, Parse, Resolve, Load, Lookup, Terminated, vars
<1> QED
  BY Invariance, <1>1, <1>2, PTL DEF Spec

\* A request the dispatcher gets comes of a line that is good as a whole and has the
\* ports that the line names (CliParser.cpp:62-76, 92-102 and 113-139).
THEOREM Runnable == Spec => []RequestIsRunnable
<1>1. IInv /\ Payload /\ LineInv => RequestIsRunnable
  BY RunnableOnReturn DEF IInv, TypeOK
<1> QED
  BY Invariance, RequestInvariance, <1>1, PTL

\* The payload of a command is what is kept of its line, in order, whatever it looks
\* like (CliParser.cpp:81-107).
THEOREM PayloadArrives == Spec => []PayloadIsKept
<1>1. IInv /\ Payload => PayloadIsKept
  BY KeptOnReturn DEF IInv, TypeOK
<1> QED
  BY Invariance, RequestInvariance, <1>1, PTL

\* A configuration has all the profiles of its file, each as its only definition says,
\* and none of a file with an unknown field at any level or a watermark that 32 bits do
\* not hold (ConfigLoader.cpp:176-243).
THEOREM LoadIsWhole == Spec => []LoadedIsWhole
<1>1. IInv => LoadedIsWhole
  BY WholeOnReturn DEF IInv, TypeOK
<1> QED
  BY Invariance, <1>1, PTL

\* A connection is made only with what the one file that counts says of the profile of
\* the command line (CommandDispatcher.cpp:33-103, ConfigLoader.cpp:98-161).
THEOREM ConnectionIsConfigured == Spec => []ConnectsAsConfigured
<1>1. IInv => ConnectsAsConfigured
  BY DEF IInv
<1> QED
  BY Invariance, <1>1, PTL

\* A run that stops short has a reason on the line or in the file that counts
\* (CliParser.cpp:64-139, CommandDispatcher.cpp:60-86 and 340-368,
\* ConfigLoader.cpp:26-32 and 165-248).
THEOREM RefusalsAreJust == Spec => []RefusalHasReason
<1>1. IInv /\ Payload /\ LineInv => RefusalHasReason
  BY RefusedForReason DEF IInv, TypeOK
<1> QED
  BY Invariance, RequestInvariance, <1>1, PTL
=============================================================================
