----------------------------- MODULE ConfigLoader -----------------------------
(***************************************************************************)
(* load_config: from a parsed YAML document to an AppConfig or an Error.    *)
(*                                                                         *)
(* A YAML node is abstracted to what the loader can tell apart: absent, or  *)
(* of one of the kinds below.  A plain scalar such as 123 or true has the   *)
(* tag "?" when yaml-cpp loads it, so it is of kind "number" or "truth" for *)
(* the schema and an ordinary string for the loader; "tagged" has an        *)
(* explicit tag such as !!int.                                              *)
(***************************************************************************)
EXTENDS Integers, Sequences

\* Unreadable and unparsable files; nodes that should be mappings.
Roots == {"unreadable", "malformed", "mapping"}
Mappings == {"absent", "other", "mapping"}
StringNodes == {"absent", "null", "collection", "tagged", "blank", "text", "number"}
MethodNodes == StringNodes \cup {"publickey", "password"}
AgentNodes == {"absent", "null", "collection", "text", "true", "false"}

\* A port: a number that fits an int, with its value, or something else.
PortKinds == {"absent", "null", "collection", "text", "huge", "number"}

MaxPort == 65535

Auths ==
  [kind : Mappings, unknown_key : BOOLEAN, method : MethodNodes, username : StringNodes,
   password_command : StringNodes, key_path : StringNodes, use_agent : AgentNodes]

Nodes ==
  [unknown_key : BOOLEAN, host : StringNodes, port : [kind : PortKinds, value : Int],
   theme : StringNodes, auth : Auths]

\* A watermark: a positive number that as<uint32_t> converts; "beyond", an integer from
\* 1 on that it does not (2^32, or 1.0); zero; or something else.
Watermarks == {"absent", "other", "zero", "u32", "beyond"}
WatermarkKeys ==
  {"stdout_high_watermark_bytes", "stderr_high_watermark_bytes", "stdin_low_watermark_bytes"}

Defaults ==
  [kind : Mappings, unknown_key : BOOLEAN, watermarks : [WatermarkKeys -> Watermarks]]

Documents ==
  [root : Roots, unknown_key : BOOLEAN, defaults : Defaults,
   profiles_kind : Mappings, profiles : Seq([name : STRING, node : Nodes])]

VARIABLES
  pc,        (* "open", "defaults", "profiles", "returned", "threw"         *)
  document,  (* the file                                                    *)
  next,      (* the profile entry to be read next                           *)
  profiles   (* config.profiles                                             *)

vars == <<pc, document, next, profiles>>

Methods == {"publickey", "password"}

Init(file) ==
  /\ pc = "open" /\ document = file
  /\ next = 1 /\ profiles = <<>>

-----------------------------------------------------------------------------
(* Reading nodes.                                                           *)

\* require_string_scalar returns rather than throws.
IsStringScalar(node) == node \notin {"absent", "null", "collection", "tagged"}

\* A required and an optional string, with what validates them.
Required(node) == IsStringScalar(node) /\ node # "blank"

Optional(node) == node = "absent" \/ Required(node)

\* as<int>(22) and as<bool>(true): the fallback for a node that is not there, and
\* for one that does not convert.
PortOf(node) == IF node.kind = "number" THEN node.value ELSE 22
UseAgentOf(node) == node # "false"

\* is_supported_auth_method
Supported(method) == method \in Methods

\* The last two tests of validate_auth_config.
HasCredential(auth) ==
  /\ auth.method = "password" => auth.password_command # "absent"
  /\ auth.method = "publickey" => auth.key_path # "absent" \/ UseAgentOf(auth.use_agent)

ValidAuth(auth) ==
  /\ auth.kind = "mapping" /\ ~auth.unknown_key
  /\ IsStringScalar(auth.method) /\ Supported(auth.method)
  /\ Required(auth.username)
  /\ Optional(auth.password_command) /\ Optional(auth.key_path)
  /\ HasCredential(auth)

\* Faulty ValidDefaults: unknown keys are not looked for.
ValidDefaultsAnyKey(defaults) ==
  /\ defaults.kind = "mapping"
  /\ \A key \in WatermarkKeys : defaults.watermarks[key] = "u32"

\* require_map, reject_unknown_keys and require_positive_u32 for each watermark.
ValidDefaults(defaults) ==
  /\ defaults.kind = "mapping" /\ ~defaults.unknown_key
  /\ \A key \in WatermarkKeys : defaults.watermarks[key] = "u32"

\* One entry of profiles passes every test of the loop's body.
ValidProfile(name, node) ==
  /\ name # "blank"
  /\ ~node.unknown_key
  /\ ValidAuth(node.auth)
  /\ Required(node.host)
  /\ PortOf(node.port) \in 1..MaxPort
  /\ Optional(node.theme)

Loaded(node) ==
  [port |-> PortOf(node.port),
   auth |-> [method |-> node.auth.method,
             password_command |-> node.auth.password_command # "absent",
             key_path |-> node.auth.key_path # "absent",
             use_agent |-> UseAgentOf(node.auth.use_agent)]]

-----------------------------------------------------------------------------
(* load_config.                                                             *)

\* YAML's own exceptions are rethrown as Error; the caller sees one kind.
Throw == pc' = "threw" /\ UNCHANGED <<document, next, profiles>>

Open ==
  /\ pc = "open"
  /\ IF document.root = "mapping" /\ ~document.unknown_key
     THEN pc' = "defaults" /\ UNCHANGED <<document, next, profiles>>
     ELSE Throw

\* After the defaults profiles is looked up.
ReadDefaults ==
  /\ pc = "defaults"
  /\ IF ValidDefaults(document.defaults) /\ document.profiles_kind = "mapping"
     THEN pc' = "profiles" /\ UNCHANGED <<document, next, profiles>>
     ELSE Throw

Entry == document.profiles[next]

\* Faulty IsNew: a second definition replaces the first.
IsNewAlways(name) == TRUE

\* emplace does not insert a name that is there already.
IsNew(name) == name \notin DOMAIN profiles

ReadProfile ==
  /\ pc = "profiles" /\ next <= Len(document.profiles)
  /\ IF ValidProfile(Entry.name, Entry.node) /\ IsNew(Entry.name)
     THEN /\ profiles' = [p \in DOMAIN profiles \cup {Entry.name} |->
                            IF p = Entry.name THEN Loaded(Entry.node) ELSE profiles[p]]
          /\ next' = next + 1
          /\ UNCHANGED <<pc, document>>
     ELSE Throw

Return ==
  /\ pc = "profiles" /\ next > Len(document.profiles)
  /\ pc' = "returned"
  /\ UNCHANGED <<document, next, profiles>>

Next == Open \/ ReadDefaults \/ ReadProfile \/ Return

-----------------------------------------------------------------------------
(* Reference: docs/schemas/config.schema.yaml.                              *)

IsString(node) == node \in {"text", "publickey", "password"}    \* with a non-blank
OrAbsent(node) == node = "absent" \/ IsString(node)

SchemaAuth(auth) ==
  /\ auth.kind = "mapping" /\ ~auth.unknown_key
  /\ auth.method \in Methods /\ IsString(auth.username)
  /\ OrAbsent(auth.password_command) /\ OrAbsent(auth.key_path)
  /\ auth.use_agent \in {"absent", "true", "false"}
  /\ auth.method = "password" => auth.password_command # "absent"
  /\ auth.method = "publickey" => auth.key_path # "absent" \/ auth.use_agent # "false"

SchemaProfile(name, node) ==
  /\ name # "blank" /\ ~node.unknown_key
  /\ IsString(node.host) /\ OrAbsent(node.theme)
  /\ \/ node.port.kind = "absent"
     \/ node.port.kind = "number" /\ node.port.value \in 1..MaxPort
  /\ SchemaAuth(node.auth)

SchemaDefaults(defaults) ==
  /\ defaults.kind = "mapping" /\ ~defaults.unknown_key
  /\ \A key \in WatermarkKeys : defaults.watermarks[key] \in {"u32", "beyond"}

\* The schema states no maximum for a watermark.
Beyond(file) == \E key \in WatermarkKeys : file.defaults.watermarks[key] = "beyond"

\* A mapping has each key once: two entries of a name are not one.
SchemaValid(file) ==
  /\ file.root = "mapping" /\ ~file.unknown_key
  /\ SchemaDefaults(file.defaults)
  /\ file.profiles_kind = "mapping"
  /\ \A n \in DOMAIN file.profiles :
       /\ SchemaProfile(file.profiles[n].name, file.profiles[n].node)
       /\ \A m \in 1..n - 1 : file.profiles[m].name # file.profiles[n].name

-----------------------------------------------------------------------------
(* Properties.                                                              *)

\* A configuration has all the profiles of its file, each as its only definition
\* says, and none comes of a file with a field that nobody knows, at any level of it,
\* with an optional field left blank, or with a watermark that 32 bits do not hold
\* (ConfigLoader.cpp:176-243; ConfigLoaderTest.cpp:262-540).
LoadedIsWhole ==
  pc = "returned" =>
    /\ ~document.unknown_key /\ ~document.defaults.unknown_key
    /\ \A key \in WatermarkKeys : document.defaults.watermarks[key] = "u32"
    /\ DOMAIN profiles = {document.profiles[i].name : i \in DOMAIN document.profiles}
    /\ \A i \in DOMAIN document.profiles :
         LET node == document.profiles[i].node
         IN  /\ profiles[document.profiles[i].name] = Loaded(node)
             /\ ~node.unknown_key /\ ~node.auth.unknown_key
             /\ "blank" \notin {node.host, node.theme, node.auth.username,
                                node.auth.password_command, node.auth.key_path}

\* A profile that authenticate can do something with: it never meets an unknown
\* method, nor a password profile without password_command.
Usable(loaded) ==
  /\ loaded.port \in 1..MaxPort
  /\ loaded.auth.method \in Methods
  /\ loaded.auth.method = "password" => loaded.auth.password_command
  /\ loaded.auth.method = "publickey" => loaded.auth.key_path \/ loaded.auth.use_agent
=============================================================================
