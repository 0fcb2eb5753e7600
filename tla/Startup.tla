------------------------------- MODULE Startup -------------------------------
(***************************************************************************)
(* From the command line to the connection: parse_command_line, then       *)
(* resolve_config_path, load_config, the lookup of the profile and         *)
(* make_connection_config.  It composes CliParser and ConfigLoader.        *)
(***************************************************************************)
EXTENDS Integers, Sequences

CONSTANT
  Starts    (* what the program may be started with: records of a line and *)
            (* a world                                                     *)

VARIABLES
  stage,        (* "parse", "resolve", "load", "lookup"; at the end        *)
                (* "connect", "print", "noConfig" or "threw"               *)
  world,        (* given: names of the variables that are set and not      *)
                (* empty; files: what is at the candidate paths            *)
  path,         (* the candidate load_config was given                     *)
  connection,   (* SshConnectionConfig, or NoConnection                    *)
  parsing, verb, profile, args, i, payload_only,             (* CliParser  *)
  json_output, local_port, remote_port, positional_args,
  loading, document, next, profiles                       (* ConfigLoader  *)

Cli == INSTANCE CliParser WITH pc <- parsing
Loader == INSTANCE ConfigLoader WITH pc <- loading

own == <<world, path, connection>>
request ==
  <<parsing, verb, profile, args, i, payload_only, json_output, local_port, remote_port,
    positional_args>>
config == <<loading, document, next, profiles>>
vars == <<stage, own, request, config>>

NoConnection == [profile_name |-> "none"]
Missing == [root |-> "unreadable"]

ASSUME StartAssumption ==
  \A start \in Starts :
    /\ start.line \in Cli!CommandLines
    /\ start.world.given \subseteq {"override", "home", "user_profile", "appdata"}
    /\ \A c \in DOMAIN start.world.files : start.world.files[c] \in Loader!Documents

\* The program is started with a command line in a world.
Init ==
  /\ stage = "parse"
  /\ \E start \in Starts : world = start.world /\ Cli!Init(start.line)
  /\ path = "none" /\ connection = NoConnection
  /\ Loader!Init(Missing)

-----------------------------------------------------------------------------

\* run_command: keygen and proxy need no configuration, config needs --json.
Dispatched ==
  CASE verb \in {"keygen", "proxy"} -> "noConfig"
    [] verb = "config" /\ ~json_output -> "threw"
    [] OTHER -> "resolve"

Parse ==
  /\ stage = "parse"
  /\ Cli!Next
  /\ stage' = CASE parsing' = "threw" -> "threw"
                [] parsing' = "returned" -> Dispatched
                [] OTHER -> "parse"
  /\ UNCHANGED <<own, config>>

Exists(c) == (c = "cwd" \/ c \in world.given) /\ c \in DOMAIN world.files

\* The first of some places, in the order in which they are looked at, as a
\* sequence of one place or of none.
FirstOf(places) ==
  LET there == {n \in DOMAIN places : Exists(places[n])}
  IN  IF there = {} THEN <<>>
      ELSE <<places[CHOOSE n \in there : there \cap 1..n - 1 = {}]>>

\* Faulty Found: a HOME that is set ends the search.
FoundAtHome ==
  FirstOf(<<"cwd", "home">> \o IF "home" \in world.given THEN <<>>
                              ELSE <<"user_profile", "appdata">>)

\* The candidates after the override: the working directory's, then those of HOME,
\* USERPROFILE and APPDATA, each if it is set.
Found == FirstOf(<<"cwd", "home", "user_profile", "appdata">>)

\* Faulty Resolved: an override that does not exist is passed over.
ResolvedExisting ==
  IF "override" \in world.given /\ "override" \in DOMAIN world.files THEN <<"override">>
  ELSE Found

\* ZSSH_CONFIG_PATH is taken whether or not it exists.
Resolved == IF "override" \in world.given THEN <<"override">> ELSE Found

Resolve ==
  /\ stage = "resolve"
  /\ IF Resolved = <<>>
     THEN stage' = "threw" /\ UNCHANGED <<path, config>>
     ELSE /\ stage' = "load"
          /\ path' = Head(Resolved)
          /\ document' = IF Head(Resolved) \in DOMAIN world.files
                         THEN world.files[Head(Resolved)] ELSE Missing
          /\ UNCHANGED <<loading, next, profiles>>
  /\ UNCHANGED <<world, connection, request>>

Load ==
  /\ stage = "load"
  /\ Loader!Next
  /\ stage' = CASE loading' = "threw" -> "threw"
                [] loading' = "returned" -> "lookup"
                [] OTHER -> "load"
  /\ UNCHANGED <<own, request>>

\* make_connection_config
Connection ==
  [profile_name |-> profile, port |-> profiles[profile].port, auth |-> profiles[profile].auth]

Lookup ==
  /\ stage = "lookup"
  /\ IF profile \in DOMAIN profiles
     THEN IF verb = "config" THEN stage' = "print" /\ UNCHANGED connection
                             ELSE stage' = "connect" /\ connection' = Connection
     ELSE stage' = "threw" /\ UNCHANGED connection
  /\ UNCHANGED <<world, path, request, config>>

Done == stage \in {"connect", "print", "noConfig", "threw"}
Terminated == Done /\ UNCHANGED vars

Next == Parse \/ Resolve \/ Load \/ Lookup \/ Terminated

Spec == Init /\ [][Next]_vars

-----------------------------------------------------------------------------
(* Properties.                                                              *)

\* What CliParser and ConfigLoader promise of their results.
PayloadIsKept == Cli!PayloadIsKept
RequestIsRunnable == Cli!RequestIsRunnable
LoadedIsWhole == Loader!LoadedIsWhole

\* The one file that counts: the override if there is one, else the first that exists.
Rank == [override |-> 1, cwd |-> 2, home |-> 3, user_profile |-> 4, appdata |-> 5]
Counts(c) ==
  /\ c \in world.given \cup {"cwd"}
  /\ c # "override" => c \in DOMAIN world.files
Chosen(c) == Counts(c) /\ \A d \in DOMAIN Rank : Counts(d) => Rank[c] <= Rank[d]

Named(file) == {n \in DOMAIN file.profiles : file.profiles[n].name = profile}

\* A connection is made only with the profile of the command line, as its only
\* definition in the file that counts says, whatever other files say; and
\* authenticate can use it (CommandDispatcher.cpp:33-103, ConfigLoader.cpp:98-161,
\* LibsshAdapter.cpp:111-131).
ConnectsAsConfigured ==
  stage = "connect" =>
    \E c \in DOMAIN world.files \cap DOMAIN Rank :
      /\ Chosen(c)
      /\ \E n \in Named(world.files[c]) :
           LET loaded == Loader!Loaded(world.files[c].profiles[n].node)
           IN  /\ Named(world.files[c]) = {n}
               /\ Loader!Usable(loaded)
               /\ connection =
                    [profile_name |-> profile, port |-> loaded.port, auth |-> loaded.auth]

\* A run that stops short has a reason: the line is not good, or asks for config without
\* --json; no file counts; or the one that does lacks the profile or is against
\* docs/schemas/config.schema.yaml.  One disagreement is left out: the schema has no
\* maximum for a watermark (16-24), and the loader refuses one that 32 bits do not hold
\* (CliParser.cpp:64-139, CommandDispatcher.cpp:60-86 and 340-368,
\* ConfigLoader.cpp:26-32 and 165-248).
RefusalHasReason ==
  stage = "threw" =>
    \/ ~Cli!LineIsGood
    \/ verb = "config" /\ ~Cli!JsonAsked
    \/ \A c \in DOMAIN world.files : ~Chosen(c)
    \/ \E c \in DOMAIN world.files :
         /\ Chosen(c)
         /\ Loader!SchemaValid(world.files[c]) /\ ~Loader!Beyond(world.files[c])
              => Named(world.files[c]) = {}
=============================================================================
