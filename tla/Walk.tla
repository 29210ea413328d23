-------------------------------- MODULE Walk --------------------------------
(***************************************************************************)
(* The walk of the bodies of the Messages API (anthropic_walker.py).       *)
(*                                                                         *)
(* Which strings of a body are substituted, and which are left alone        *)
(* because they are protocol, depends only on the path that leads to them:  *)
(* the keys gone through and, at each object, its type, its role and its    *)
(* media type.  A behaviour of this module goes down one path of a body, of *)
(* any depth, chosen step by step; what holds of every behaviour holds of   *)
(* every string of every body.                                             *)
(*                                                                         *)
(* The path is gone down by the walk of the request and, from the blocks of *)
(* an assistant message on, by the walks that restored the same block when  *)
(* it was an answer, whole or streamed: a client sends the whole            *)
(* conversation again at every turn.                                        *)
(***************************************************************************)

CONSTANTS Keys,    \* the keys of an object
          Types    \* the types an object claims

NONE == "none"     \* a type no rule speaks of, or no type at all

Walks == {"request", "response", "stream"}
Signs == {"signe_ici", "signe_partout"}
Subtrees == {"hors_forme", "nommes", "motifs", "dependances"}
\* The keyword arguments of _walk, and the loops it runs on the entries of a
\* subtree itself.
Flags == {"in_schema", "in_user_data", "protocole", "dans_messages",
          "bloc_message", "dans_outils", "cles_libres"} \cup Signs \cup Subtrees

-----------------------------------------------------------------------------
(* The tables of the source. *)

OpaqueBlockTypes == {"thinking", "redacted_thinking"}
ScalarSkipForms == {"type", "role", "stop_reason", "model", "mimeType",
                    "media_type"}
CacheControlForms == {"type", "ttl"}
RequestControlKeys == {"model", "max_tokens", "temperature", "top_p", "top_k",
                       "stream", "service_tier", "betas", "anthropic_version",
                       "container", "thinking", "output_config",
                       "context_management"}
UserDataKeys == {"input", "metadata"}
ClesLibres == {"input"}
ToolUses == {"tool_use", "server_tool_use", "mcp_tool_use"}
ToolResults == {"tool_result", "mcp_tool_result", "web_search_tool_result",
                "code_execution_tool_result", "bash_code_execution_tool_result",
                "text_editor_code_execution_tool_result"}
ContractBlockTypes ==
  [name |-> ToolUses, id |-> ToolUses \cup {"message"},
   tool_use_id |-> ToolResults,
   server_name |-> {"mcp_tool_use", "mcp_tool_result"},
   file_id |-> {"container_upload", "container_reference", "file", "image",
                "document"}]
ContractKeys == DOMAIN ContractBlockTypes
ProtocolContainers == {"tools", "mcp_servers", "tool_choice"}
ToolNameLists == {"allowed_tools", "disallowed_tools"}
SchemaStructural == {"required", "type", "format", "dependentRequired",
                     "$anchor", "$dynamicAnchor"}
SchemaRefs == {"$ref", "$schema", "$dynamicRef"}
NamedSubschemas == {"properties", "$defs", "definitions", "patternProperties",
                    "dependentSchemas"}
SchemaNested == {"additionalProperties", "items"}
SchemaLiterals == {"default", "const", "example", "examples"}

-----------------------------------------------------------------------------
(* The value under a key: one of its own, or an item of the list it is. A   *)
(* string is a word when it has the shape its key asks for, and data when   *)
(* it does not; an object is known when all it holds has the form its key   *)
(* asks for. Encoded is base64 that decodes to text. Numbers, booleans and  *)
(* null carry no text and every walk leaves them as they are.               *)

Value == [list : {"no"}, is : {"object", "known", "word", "data", "encoded"}]
         \cup [list : {"strings"}, is : {"word", "data"}]
         \cup [list : {"mixed"}, is : {"object", "word", "data"}]

IsObject(v) == v.is \in {"object", "known"}
Single(v) == v.list = "no"
SingleString(v) == Single(v) /\ ~IsObject(v)
SingleWord(v) == Single(v) /\ v.is = "word"

\* What the walk of an object looks at before its keys.
Node == [type : Types \cup {NONE}, assistant : BOOLEAN, binary : BOOLEAN]

\* The node is the one the key under way belongs to.
Consistent(n, key, v) ==
  /\ (key = "type" /\ ~SingleWord(v)) => n.type = NONE
  /\ (key = "role" /\ ~SingleWord(v)) => ~n.assistant

-----------------------------------------------------------------------------
(* One key of one object, in one walk. The fate of its value is a verdict,  *)
(* or to be walked under new flags; key says whether the key itself is      *)
(* renamed.                                                                 *)

Verdicts == {"walking", "named", "decoded", "form", "binary", "contract",
             "structure", "signed", "verbatim", "refused"}
KeyFates == {"kept", "renamed"}

Left(why) == [verdict |-> why, ctx |-> {}, key |-> "kept"]

\* fn is called on a string; an object is gone into.
Walked(v, ctx, key) ==
  [verdict |-> IF IsObject(v) THEN "walking" ELSE "named",
   ctx |-> IF IsObject(v) THEN ctx ELSE {}, key |-> key]

Data == {"in_user_data"}
FreeData == {"in_user_data", "cles_libres"}

If(condition, flag) == IF condition THEN {flag} ELSE {}

\* A block that came signed from the API.
Opaque(c, n) ==
  /\ c \cap Signs # {}
  /\ "in_user_data" \notin c
  /\ n.type \in OpaqueBlockTypes

\* A routing key where the protocol puts one.
Contract(c, n, key) ==
  \/ "protocole" \in c
  \/ "bloc_message" \in c /\ n.type \in ContractBlockTypes[key]

\* The exemptions of the protocol, out of user data.
ProtocolRule(c, key) ==
  /\ "in_user_data" \notin c
  /\ \/ key \in ContractKeys \cup ToolNameLists \cup {"cache_control", "data"}
     \/ key \in ScalarSkipForms /\ "in_schema" \notin c

CacheControl(v) ==
  IF v.is = "known" THEN Left("form")
  ELSE Walked(v, IF Single(v) THEN {"hors_forme"} ELSE Data, "kept")

ScalarForm(v) ==
  IF SingleWord(v) THEN Left("form") ELSE Walked(v, Data, "kept")

Exempt(c, n, key, v) ==
  \/ key = "data" /\ SingleString(v) /\ (n.binary \/ v.is = "encoded")
  \/ key \in ContractKeys /\ SingleString(v) /\ Contract(c, n, key)
  \/ key \in ToolNameLists /\ v.list = "strings" /\ "protocole" \in c

WhyExempt(n, key) ==
  IF key # "data" THEN Left("contract")
  ELSE IF n.binary THEN Left("binary") ELSE Left("decoded")

\* The rules of a JSON Schema: a member of an enum or a literal, which are values
\* the model must write, then what is structure and what is another schema.
LiteralValue(c, key, v) ==
  IF v.is = "word" /\ (key = "enum" \/ Single(v)) THEN Left("form")
  ELSE Walked(v, FreeData \cup (c \cap {"signe_partout"}), "kept")

Reference(v) ==
  IF SingleWord(v) THEN Left("form") ELSE Walked(v, {"in_schema"}, "kept")

Nested(v) ==
  IF SingleString(v) THEN Left("structure") ELSE Walked(v, {"in_schema"}, "kept")

ValueRule(c, key, v) ==
  /\ "in_schema" \in c /\ "in_user_data" \notin c
  /\ (key = "enum" /\ ~Single(v)) \/ key \in SchemaLiterals

SubschemaRule(key, v) ==
  key \in NamedSubschemas \cup {"dependencies"} /\ Single(v) /\ IsObject(v)

Entries(key) ==
  CASE key = "patternProperties" -> {"motifs"}
    [] key = "dependencies" -> {"dependances"}
    [] OTHER -> {"nommes"}

\* (mutant) Any entry of a container of the protocol holds a schema.
EnteringAnywhere(c, key) ==
  "in_schema" \in c \/ (key = "input_schema" /\ "protocole" \in c)

\* A schema is the child of an entry of tools.
Entering(c, key) ==
  "in_schema" \in c \/ (key = "input_schema" /\ "dans_outils" \in c)

\* Every other key: the flags open for what the key and the node say, and close
\* below it unless they are inherited.
Below(c, n, key) ==
  If(Entering(c, key), "in_schema")
  \cup If("in_user_data" \in c \/ key \in UserDataKeys, "in_user_data")
  \cup If(\/ "cles_libres" \in c
          \/ key \in ClesLibres
          \/ (key = "content" /\ n.type \in ToolResults), "cles_libres")
  \cup If(/\ ~Entering(c, key)
          /\ "protocole" \in c \/ key \in ProtocolContainers, "protocole")
  \cup If("dans_messages" \in c /\ key = "content" /\ n.assistant, "signe_ici")
  \cup If("dans_messages" \in c /\ key = "content", "bloc_message")
  \cup (c \cap {"signe_partout"})

Generic(c, n, key, v) ==
  Walked(v, Below(c, n, key), IF "cles_libres" \in c THEN "renamed" ELSE "kept")

\* The entries of a subtree, whose keys no rule looks at.
Entry(c, key, v) ==
  IF "hors_forme" \in c
  THEN IF key \in CacheControlForms /\ SingleWord(v) THEN Left("form")
       ELSE Walked(v, FreeData, "kept")
  ELSE IF "dependances" \in c /\ v.list = "strings" THEN Left("structure")
       ELSE Walked(v, {"in_schema"}, IF "motifs" \in c THEN "renamed" ELSE "kept")

ByProtocol(c, n, key, v) ==
  CASE key = "cache_control" -> CacheControl(v)
    [] key \in ScalarSkipForms -> ScalarForm(v)
    [] Exempt(c, n, key, v) -> WhyExempt(n, key)
    [] OTHER -> Generic(c, n, key, v)

SchemaRule(c, key, v) ==
  /\ "in_schema" \in c
  /\ \/ SubschemaRule(key, v)
     \/ key \in SchemaRefs \cup SchemaStructural \cup SchemaNested

BySchema(key, v) ==
  CASE SubschemaRule(key, v) -> Walked(v, Entries(key), "kept")
    [] key \in SchemaRefs -> Reference(v)
    [] key \in SchemaStructural -> Left("structure")
    [] OTHER -> Nested(v)

Fate(c, n, key, v) ==
  IF c \cap Subtrees # {} THEN Entry(c, key, v)
  ELSE IF ProtocolRule(c, key) THEN ByProtocol(c, n, key, v)
  ELSE IF ValueRule(c, key, v) THEN LiteralValue(c, key, v)
  ELSE IF SchemaRule(c, key, v) THEN BySchema(key, v)
  ELSE Generic(c, n, key, v)

-----------------------------------------------------------------------------
(* The path, and who wrote what it has come to.                             *)

VARIABLES at,        \* where the walks are: at the root, at a value, at a node
          node,      \* the node they are in
          ctx,       \* the flags of each walk that goes down this path
          verdict,   \* what each walk does of the path
          keys,      \* what each walk did of the last key
          position   \* what the protocol has at this place of a request

vars == <<at, node, ctx, verdict, keys, position>>

Positions == {"root", "message", "block", "answer", "third", "tool", "schema",
              "elsewhere"}

\* An answer is a block of an assistant message; what a tool answered was
\* written by a third party, all the way down.
Place(here, n, k) ==
  CASE here = "root" /\ k = "messages" -> "message"
    [] here = "root" /\ k = "tools" -> "tool"
    [] here = "message" /\ k = "content" ->
         IF n.assistant THEN "answer" ELSE "block"
    [] here \in {"block", "answer"} /\ k = "content"
         /\ n.type \in ToolResults -> "third"
    [] here = "tool" /\ k = "input_schema" -> "schema"
    [] here \in {"third", "schema"} -> here
    [] OTHER -> "elsewhere"

walked == DOMAIN ctx
Plain == [type |-> NONE, assistant |-> FALSE, binary |-> FALSE]
Going(f) == \E w \in DOMAIN f : f[w].verdict = "walking"

\* What the walks did of a key, and whether there is anything left to walk.
Take(f, n, k) ==
  /\ ctx' = [w \in DOMAIN f |-> f[w].ctx]
  /\ verdict' = [w \in DOMAIN f |-> f[w].verdict]
  /\ keys' = [w \in DOMAIN f |-> f[w].key]
  /\ at' = IF Going(f) THEN "value" ELSE "done"
  /\ node' = Plain
  /\ position' = Place(position, n, k)

Init ==
  /\ at = "root"
  /\ node = Plain
  /\ ctx = [w \in {"request"} |-> {}]
  /\ verdict = [w \in {"request"} |-> "walking"]
  /\ keys = [w \in {"request"} |-> "kept"]
  /\ position = "root"

\* walk_request: the control parameters that have their form, then the walk.
RootFlags(k) ==
  If(k \in UserDataKeys, "in_user_data")
  \cup If(k \in ProtocolContainers, "protocole")
  \cup If(k \in ClesLibres, "cles_libres")
  \cup If(k = "messages", "dans_messages")
  \cup If(k = "tools", "dans_outils")

RootFate(k, v) ==
  IF k \in RequestControlKeys /\ v.list # "mixed" /\ v.is \in {"word", "known"}
  THEN Left("form") ELSE Walked(v, RootFlags(k), "kept")

Root ==
  /\ at = "root"
  /\ \E k \in Keys, v \in Value :
       Take([w \in {"request"} |-> RootFate(k, v)], Plain, k)

\* An object is reached: a signed block is left as it is.
Enter ==
  /\ at = "value"
  /\ \E n \in Node :
       /\ node' = n
       /\ verdict' = [w \in walked |->
            IF verdict[w] = "walking" /\ Opaque(ctx[w], n) THEN "signed"
            ELSE verdict[w]]
       /\ ctx' = [w \in walked |-> IF verdict'[w] = "walking" THEN ctx[w] ELSE {}]
       /\ at' = IF \E w \in walked : verdict'[w] = "walking" THEN "node" ELSE "done"
  /\ UNCHANGED <<keys, position>>

Fates(n, k, v) ==
  [w \in walked |-> IF verdict[w] = "walking" THEN Fate(ctx[w], n, k, v)
                    ELSE [verdict |-> verdict[w], ctx |-> {}, key |-> keys[w]]]

Step ==
  /\ at = "node"
  /\ \E k \in Keys, v \in Value :
       /\ Consistent(node, k, v)
       /\ Take(Fates(node, k, v), node, k)

\* The content of an assistant message is what walk_response, or the rewriter
\* of the stream, made of the content of an answer.
ResponseFlags == {"signe_partout", "bloc_message"}

Echo ==
  /\ at = "node" /\ position = "message" /\ node.assistant /\ node.type = NONE
  /\ \E v \in Value :
       LET answered == Walked(v, ResponseFlags, "kept")
       IN  /\ v.list = "mixed"
           /\ Take([w \in Walks |-> IF w = "request"
                                    THEN Fates(node, "content", v)[w] ELSE answered],
                   node, "content")

\* (mutant) The keys of the arguments are left as they are.
DeltaFlagsOfValues(k) ==
  IF k = "input" THEN Data ELSE {"signe_partout"}

\* _resolve_tool_args: the arguments of a tool come as text, and are walked
\* from their own root. A citation comes as a delta of its own.
DeltaFlags(k) ==
  IF k = "input" THEN FreeData ELSE {"signe_partout"}

Delta ==
  /\ at = "node" /\ position = "answer"
  /\ "stream" \in walked /\ verdict["stream"] = "walking"
  /\ \E k \in Keys \cap {"input", "citations"}, v \in Value :
       Take([Fates(node, k, v) EXCEPT !["stream"] = Walked(v, DeltaFlags(k), "kept")],
            node, k)

\* _on_delta: a delta of a type the rewriter does not resolve may be signed, and
\* goes out as it came; so do the arguments of a tool that are not JSON.
Passthrough ==
  /\ at = "node" /\ position = "answer"
  /\ "stream" \in walked /\ verdict["stream"] = "walking"
  /\ \E k \in Keys, v \in Value :
       /\ Consistent(node, k, v)
       /\ Take([Fates(node, k, v) EXCEPT !["stream"] = Left("verbatim")], node, k)

\* (mutant) The second key takes the place of the first, whose value is lost.
KeysCollideUnseen ==
  /\ at = "node"
  /\ \E w \in walked : verdict[w] = "walking" /\ "cles_libres" \in ctx[w]
  /\ at' = "done"
  /\ UNCHANGED <<node, ctx, verdict, keys, position>>

\* Two keys of one object get the same name: the body is refused.
KeysCollide ==
  /\ at = "node"
  /\ \E w \in walked : verdict[w] = "walking" /\ "cles_libres" \in ctx[w]
  /\ at' = "done"
  /\ verdict' = [w \in walked |->
       IF verdict[w] = "walking" THEN "refused" ELSE verdict[w]]
  /\ ctx' = [w \in walked |-> {}]
  /\ UNCHANGED <<node, keys, position>>

Next == Root \/ Enter \/ Step \/ Echo \/ Delta \/ Passthrough \/ KeysCollide

Spec == Init /\ [][Next]_vars

-----------------------------------------------------------------------------
(* Properties *)

\* Every variable keeps its type, and a walk that has ended holds no flags.
TypeOK ==
  /\ at \in {"root", "value", "node", "done"}
  /\ node \in Node
  /\ walked \in SUBSET Walks /\ "request" \in walked
  /\ ctx \in [walked -> SUBSET Flags]
  /\ verdict \in [walked -> Verdicts]
  /\ keys \in [walked -> KeyFates]
  /\ position \in Positions
  /\ at = "done" => \A w \in walked : verdict[w] # "walking"
  /\ \A w \in walked : verdict[w] # "walking" => ctx[w] = {}

\* What the walk of an answer leaves as it came although the request substitutes
\* it: a block that claims to be signed below an answer and, in a stream, a delta
\* of an unknown type or arguments that are not JSON.
LeftAsTheyCame(w, why) ==
  why = "signed" \/ (w = "stream" /\ why = "verbatim")

\* What an answer is restored by and what the next request substitutes are the
\* same strings and the same keys (walk_response, SSERewriter, walk_request).
\* A string restored and then left alone would go out in clear at the next
\* turn; one substituted and not restored would reach a tool under its
\* fictitious name. The code makes the exceptions of LeftAsTheyCame, on the side
\* that sends nothing in clear: there the strings are not restored, and the client
\* sees the fictitious names (anthropic_walker.py:1181-1189, 1309-1314).
EchoAgrees ==
  \A w \in walked :
    \/ LeftAsTheyCame(w, verdict[w])
    \/ verdict[w] = verdict["request"] /\ keys[w] = keys["request"]

\* An exemption is where the protocol has one: a block is left alone as signed
\* exactly when it is a block of an assistant message, and what a schema leaves
\* alone without looking at its value is below the schema of a tool. No key, type
\* or role written elsewhere in the body obtains either.
ExemptionsInPlace ==
  /\ verdict["request"] = "structure" => position = "schema"
  /\ at \in {"node", "done"} /\ node # Plain =>
       (verdict["request"] = "signed"
          <=> position = "answer" /\ node.type \in OpaqueBlockTypes)

\* What a third party wrote in the result of a tool is never left alone as a
\* routing key, as a schema or as a signed block: those come from the position
\* only (anthropic_walker.py:559-563).
NothingForged ==
  position = "third" => verdict["request"] \notin {"contract", "structure", "signed"}

=============================================================================
