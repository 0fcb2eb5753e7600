------------------------------ MODULE MCStartup ------------------------------
(* Startup for TLC: any command line in an ordinary world; ordinary lines in  *)
(* any world of files and variables; and ordinary lines with files that       *)
(* deviate from a good one, in every field by itself, in the four fields      *)
(* about credentials together, and with a second profile.                     *)
EXTENDS Startup, SequencesExt

CONSTANT MaxTokens   \* bound: arguments after the profile

L == INSTANCE ConfigLoader WITH pc <- loading   \* its vocabulary

Names == {"blank", "prod", "staging"}

Port(kind, value) == [kind |-> kind, value |-> value]

GoodAuth ==
  [kind |-> "mapping", unknown_key |-> FALSE, method |-> "publickey", username |-> "text",
   password_command |-> "absent", key_path |-> "text", use_agent |-> "true"]

GoodNode ==
  [unknown_key |-> FALSE, host |-> "text", port |-> Port("absent", 0), theme |-> "absent",
   auth |-> GoodAuth]

Auths ==
  {[GoodAuth EXCEPT !.kind = k] : k \in L!Mappings}
    \cup {[GoodAuth EXCEPT !.unknown_key = u] : u \in BOOLEAN}
    \cup {[GoodAuth EXCEPT !.username = s] : s \in L!StringNodes}
    \cup {[GoodAuth EXCEPT !.method = m, !.password_command = s, !.key_path = k,
                           !.use_agent = a] :
            m \in L!MethodNodes, s, k \in L!StringNodes, a \in L!AgentNodes}

Ports == {Port(k, 0) : k \in L!PortKinds} \cup {Port("number", n) : n \in {-1, 1, 22, 65535, 65536}}

Nodes ==
  {[GoodNode EXCEPT !.auth = a] : a \in Auths}
    \cup {[GoodNode EXCEPT !.host = s] : s \in L!StringNodes}
    \cup {[GoodNode EXCEPT !.theme = s] : s \in L!StringNodes}
    \cup {[GoodNode EXCEPT !.port = p] : p \in Ports}
    \cup {[GoodNode EXCEPT !.unknown_key = TRUE]}

Profile(name, node) == [name |-> name, node |-> node]
PasswordNode ==
  [GoodNode EXCEPT !.auth.method = "password", !.auth.password_command = "text"]

GoodDefaults ==
  [kind |-> "mapping", unknown_key |-> FALSE, watermarks |-> [k \in L!WatermarkKeys |-> "u32"]]

GoodFile ==
  [root |-> "mapping", unknown_key |-> FALSE, defaults |-> GoodDefaults,
   profiles_kind |-> "mapping", profiles |-> <<Profile("prod", GoodNode)>>]

Files ==
  {[GoodFile EXCEPT !.root = r, !.unknown_key = u] : r \in L!Roots, u \in BOOLEAN}
    \cup {[GoodFile EXCEPT !.defaults.kind = d, !.defaults.unknown_key = u, !.profiles_kind = k] :
            d, k \in L!Mappings, u \in BOOLEAN}
    \cup {[GoodFile EXCEPT !.defaults.watermarks = w] : w \in [L!WatermarkKeys -> L!Watermarks]}
    \cup {[GoodFile EXCEPT !.profiles = <<Profile(n, d)>>] : n \in Names, d \in Nodes}
    \cup {[GoodFile EXCEPT !.profiles = <<Profile(n, GoodNode), Profile(m, PasswordNode)>>] :
            n, m \in Names}
    \cup {[GoodFile EXCEPT !.profiles = <<>>]}

-----------------------------------------------------------------------------

Plain(kind) == [kind |-> kind, value |-> 0]
Number(n) == [kind |-> "number", value |-> n]

Tokens ==
  {Plain(k) : k \in Cli!Flags \cup {"--", "word", "blank", "huge"}}
    \cup {Number(n) : n \in {9000, 65536, 70000}}

Line(v, p, a) == [verb |-> v, profile |-> p, args |-> a]
Verbs == Cli!Kinds \cup {"typo"}

OrdinaryLines ==
  {Line("exec", p, <<Plain("word")>>) : p \in {"prod", "ghost"}}
    \cup {Line("config", "prod", <<Plain("--json")>>)}

\* The files at two candidates differ in the port of the profile; one may be broken.
Candidates == {"override", "cwd", "home", "user_profile", "appdata"}
Marked(c) ==
  [GoodFile EXCEPT !.profiles = <<Profile("prod",
     [GoodNode EXCEPT !.port = Port("number", Rank[c])])>>]
Broken == [GoodFile EXCEPT !.root = "malformed"]

Home(file) == [given |-> {"home"}, files |-> [c \in {"home"} |-> file]]
Worlds ==
  {[given |-> g, files |-> [c \in present |-> IF c \in broken THEN Broken ELSE Marked(c)]] :
     g \in SUBSET (Candidates \ {"cwd"}), present \in SUBSET Candidates,
     broken \in {{}} \cup {{c} : c \in Candidates}}

MCStarts ==
  [line : [verb : Verbs, profile : {"absent"}, args : {<<>>}], world : {Home(GoodFile)}]
    \cup [line : [verb : Verbs, profile : {"prod", "blank"}, args : SeqOf(Tokens, MaxTokens)],
          world : {Home(GoodFile)}]
    \cup [line : OrdinaryLines, world : Worlds \cup {Home(file) : file \in Files}]
=============================================================================
