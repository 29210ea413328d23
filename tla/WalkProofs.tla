----------------------------- MODULE WalkProofs -----------------------------
(***************************************************************************)
(* Theorems on the walk of the bodies, for any set of keys and of types and *)
(* for paths of any length: the types, the places where the protocol's      *)
(* exemptions apply, and the agreement of the walk of a request with the     *)
(* walks that restored the answers it repeats.                              *)
(***************************************************************************)
EXTENDS Walk, TLAPS

----------------------------------------------------------------------------
(* The fate of a key. *)

FateType == {f \in [verdict : {"walking", "named", "decoded", "form", "binary",
                               "contract", "structure"},
                    ctx : SUBSET Flags, key : KeyFates] :
               f.verdict # "walking" => f.ctx = {}}

\* A fate is a verdict, flags and what became of the key.
LEMMA WalkedType ==
  ASSUME NEW v, NEW c \in SUBSET Flags, NEW k \in KeyFates
  PROVE  /\ Walked(v, c, k) \in FateType
         /\ Walked(v, c, k).ctx \subseteq c
         /\ Walked(v, c, k).verdict \in {"walking", "named"}
         /\ Walked(v, c, k).key = k
BY DEF Walked, FateType

\* What is left alone is walked no further.
LEMMA LeftType ==
  ASSUME NEW why \in {"form", "binary", "decoded", "contract", "structure"}
  PROVE  Left(why) \in FateType /\ Left(why).verdict = why /\ Left(why).ctx = {}
         /\ Left(why).key = "kept"
BY DEF Left, FateType, KeyFates

\* The flags below a key are flags.
LEMMA BelowType ==
  ASSUME NEW c \in SUBSET Flags, NEW n, NEW k
  PROVE  Below(c, n, k) \in SUBSET Flags
BY DEF Below, If, Flags, Signs, Subtrees

\* A generic key goes on with the flags below it.
LEMMA GenericType ==
  ASSUME NEW c \in SUBSET Flags, NEW n, NEW k, NEW v
  PROVE  /\ Generic(c, n, k, v) \in FateType
         /\ Generic(c, n, k, v).ctx \subseteq Below(c, n, k)
         /\ Generic(c, n, k, v).verdict \in {"walking", "named"}
<1> DEFINE named == IF "cles_libres" \in c THEN "renamed" ELSE "kept"
<1>1. named \in KeyFates
  BY DEF KeyFates
<1> QED
  BY <1>1, BelowType, WalkedType DEF Generic

\* Every fate is well typed.
LEMMA FateIsTyped ==
  ASSUME NEW c \in SUBSET Flags, NEW n, NEW k, NEW v
  PROVE  Fate(c, n, k, v) \in FateType
<1>1. {"in_schema"} \in SUBSET Flags /\ Data \in SUBSET Flags
      /\ FreeData \in SUBSET Flags /\ {"hors_forme"} \in SUBSET Flags
      /\ Entries(k) \in SUBSET Flags
      /\ FreeData \cup (c \cap {"signe_partout"}) \in SUBSET Flags
      /\ "kept" \in KeyFates /\ "renamed" \in KeyFates
  BY DEF Flags, Signs, Subtrees, Data, FreeData, Entries, KeyFates
<1>2. Entry(c, k, v) \in FateType
  <2>1. CASE "hors_forme" \in c
    BY <2>1, <1>1, WalkedType, LeftType DEF Entry
  <2>2. CASE "hors_forme" \notin c /\ "dependances" \in c /\ v.list = "strings"
    BY <2>2, <1>1, WalkedType, LeftType DEF Entry
  <2>3. CASE "hors_forme" \notin c /\ ~("dependances" \in c /\ v.list = "strings")
    BY <2>3, <1>1, WalkedType, LeftType DEF Entry
  <2> QED
    BY <2>1, <2>2, <2>3
<1>3. CacheControl(v) \in FateType /\ ScalarForm(v) \in FateType
      /\ WhyExempt(n, k) \in FateType /\ Nested(v) \in FateType
      /\ Reference(v) \in FateType /\ LiteralValue(c, k, v) \in FateType
  BY <1>1, WalkedType, LeftType
     DEF CacheControl, ScalarForm, WhyExempt, Nested, Reference, LiteralValue
<1>4. Generic(c, n, k, v) \in FateType
  BY GenericType
<1>5. ByProtocol(c, n, k, v) \in FateType
  BY <1>3, <1>4 DEF ByProtocol
<1>6. BySchema(k, v) \in FateType
  BY <1>1, <1>3, WalkedType, LeftType DEF BySchema
<1> QED
  BY <1>2, <1>3, <1>4, <1>5, <1>6 DEF Fate

----------------------------------------------------------------------------
(* Two walks of the same key. *)

\* The signs apart, the two walks have the same flags.
Alike(c, d) == c \ Signs = d \ Signs

SameFate(f, g) == f.verdict = g.verdict /\ f.key = g.key /\ Alike(f.ctx, g.ctx)

\* Walks that are alike stay so when they go on with flags that are alike.
LEMMA WalkedAlike ==
  ASSUME NEW v, NEW c, NEW d, Alike(c, d), NEW k
  PROVE  SameFate(Walked(v, c, k), Walked(v, d, k))
BY DEF Walked, SameFate, Alike

\* What a key opens below it depends on the signs for the signs only.
LEMMA BelowAlike ==
  ASSUME NEW c \in SUBSET Flags, NEW d \in SUBSET Flags, Alike(c, d), NEW n, NEW k
  PROVE  Alike(Below(c, n, k), Below(d, n, k))
<1>1. \A f : f \notin Signs => (f \in c <=> f \in d)
  BY DEF Alike
<1>2. /\ "in_schema" \in c <=> "in_schema" \in d
      /\ "dans_outils" \in c <=> "dans_outils" \in d
      /\ "in_user_data" \in c <=> "in_user_data" \in d
      /\ "cles_libres" \in c <=> "cles_libres" \in d
      /\ "protocole" \in c <=> "protocole" \in d
      /\ "dans_messages" \in c <=> "dans_messages" \in d
  BY <1>1 DEF Signs
<1>3. Entering(c, k) <=> Entering(d, k)
  BY <1>2 DEF Entering
<1> QED
  BY <1>2, <1>3 DEF Below, If, Alike, Signs

\* The signs do not decide of a key.
LEMMA FateAlike ==
  ASSUME NEW c \in SUBSET Flags, NEW d \in SUBSET Flags, Alike(c, d),
         NEW n, NEW k, NEW v
  PROVE  SameFate(Fate(c, n, k, v), Fate(d, n, k, v))
<1>1. \A f : f \notin Signs => (f \in c <=> f \in d)
  BY DEF Alike
<1>2. /\ "in_schema" \in c <=> "in_schema" \in d
      /\ "in_user_data" \in c <=> "in_user_data" \in d
      /\ "cles_libres" \in c <=> "cles_libres" \in d
      /\ "protocole" \in c <=> "protocole" \in d
      /\ "bloc_message" \in c <=> "bloc_message" \in d
      /\ "hors_forme" \in c <=> "hors_forme" \in d
      /\ "dependances" \in c <=> "dependances" \in d
      /\ "motifs" \in c <=> "motifs" \in d
      /\ c \cap Subtrees = d \cap Subtrees
  BY <1>1 DEF Signs, Subtrees
<1>3. Entry(c, k, v) = Entry(d, k, v)
  BY <1>2 DEF Entry
<1>4. SameFate(Generic(c, n, k, v), Generic(d, n, k, v))
  BY <1>2, BelowAlike, WalkedAlike DEF Generic
<1>5. \A f : SameFate(f, f)
  BY DEF SameFate, Alike
<1>6. SameFate(LiteralValue(c, k, v), LiteralValue(d, k, v))
  <2>1. Alike(FreeData \cup (c \cap {"signe_partout"}),
              FreeData \cup (d \cap {"signe_partout"}))
    BY DEF Alike, Signs, FreeData
  <2> QED
    BY <2>1, <1>5, WalkedAlike DEF LiteralValue
<1>7. Exempt(c, n, k, v) <=> Exempt(d, n, k, v)
  BY <1>2 DEF Exempt, Contract
<1>8. SameFate(ByProtocol(c, n, k, v), ByProtocol(d, n, k, v))
  BY <1>4, <1>5, <1>7 DEF ByProtocol
<1>9. /\ ProtocolRule(c, k) <=> ProtocolRule(d, k)
      /\ ValueRule(c, k, v) <=> ValueRule(d, k, v)
      /\ SchemaRule(c, k, v) <=> SchemaRule(d, k, v)
  BY <1>2 DEF ProtocolRule, ValueRule, SchemaRule
<1> QED
  BY <1>2, <1>3, <1>4, <1>5, <1>6, <1>8, <1>9 DEF Fate

----------------------------------------------------------------------------
(* The flags of a request, by the place it has come to. *)

SchemaFlags == {"in_schema", "nommes", "motifs", "dependances"}

\* The flags that stand for a place are those of this place.
Placed(c, p) ==
  /\ "signe_partout" \notin c
  /\ "signe_ici" \in c => p = "answer"
  /\ p = "answer" => "signe_ici" \in c /\ "in_user_data" \notin c
  /\ "dans_messages" \in c => p = "message"
  /\ p = "message" => c = {"dans_messages"}
  /\ "dans_outils" \in c => p = "tool"
  /\ c \cap SchemaFlags # {} => p = "schema"

\* Flags that stand for no place can be anywhere but on an answer or a message.
LEMMA PlacedAnywhere ==
  ASSUME NEW c, c \cap (Signs \cup SchemaFlags \cup {"dans_messages", "dans_outils"}) = {},
         NEW p, p \notin {"answer", "message"}
  PROVE  Placed(c, p)
BY DEF Placed, Signs, SchemaFlags

\* The flags of a schema are those of a schema.
LEMMA PlacedInSchema ==
  ASSUME NEW c, c \subseteq SchemaFlags
  PROVE  Placed(c, "schema")
BY DEF Placed, SchemaFlags

\* Below a generic key, the flags are those of the place the key leads to.
LEMMA BelowPlaced ==
  ASSUME NEW c \in SUBSET Flags, NEW p \in Positions \ {"root"}, Placed(c, p),
         c \cap Subtrees = {}, NEW n \in Node, NEW k
  PROVE  Placed(Below(c, n, k), Place(p, n, k))
<1> DEFINE b == Below(c, n, k)
           q == Place(p, n, k)
<1>1. q # "message" /\ (q = "answer" <=> p = "message" /\ k = "content" /\ n.assistant)
  BY DEF Place, Positions, Node
<1>2. "signe_partout" \notin b /\ "dans_messages" \notin b /\ "dans_outils" \notin b
  BY DEF Below, If, Placed
<1>3. "signe_ici" \in b <=> ("dans_messages" \in c /\ k = "content" /\ n.assistant)
  BY DEF Below, If, Placed
<1>4. "signe_ici" \in b => q = "answer"
  BY <1>1, <1>3 DEF Placed
<1>5. q = "answer" => "signe_ici" \in b /\ "in_user_data" \notin b
  <2> SUFFICES ASSUME q = "answer" PROVE "signe_ici" \in b /\ "in_user_data" \notin b
    OBVIOUS
  <2>1. c = {"dans_messages"} /\ k = "content" /\ n.assistant
    BY <1>1 DEF Placed
  <2> QED
    BY <1>3, <2>1 DEF Below, If, UserDataKeys
<1>6. b \cap SchemaFlags # {} => "in_schema" \in b
  BY DEF Below, If, SchemaFlags
<1>7. "in_schema" \in b => Entering(c, k)
  BY DEF Below, If, Placed
<1>8. Entering(c, k) => q = "schema"
  BY DEF Entering, Placed, Place, SchemaFlags
<1> QED
  BY <1>1, <1>2, <1>4, <1>5, <1>6, <1>7, <1>8 DEF Placed

\* So they are below any key, and what is left alone as structure is in a schema.
LEMMA FatePlaced ==
  ASSUME NEW c \in SUBSET Flags, NEW p \in Positions \ {"root"}, Placed(c, p),
         NEW n \in Node, NEW k, NEW v
  PROVE  /\ Fate(c, n, k, v).verdict = "walking"
              => Placed(Fate(c, n, k, v).ctx, Place(p, n, k))
         /\ Fate(c, n, k, v).verdict = "structure" => Place(p, n, k) = "schema"
<1> DEFINE q == Place(p, n, k)
           Good(f) == /\ f.verdict = "walking" => Placed(f.ctx, q)
                      /\ f.verdict = "structure" => q = "schema"
<1>1. q # "message" /\ (q = "answer" => p = "message" /\ k = "content")
  BY DEF Place, Positions
<1>2. p = "schema" => q = "schema"
  BY DEF Place
<1>3. ASSUME NEW d, NEW kk, Placed(d, q)
      PROVE  Good(Walked(v, d, kk))
  BY <1>3 DEF Walked
<1>4. \A why \in {"form", "binary", "decoded", "contract"} : Good(Left(why))
  BY DEF Left
<1>5. q # "answer" => Placed(Data, q) /\ Placed(FreeData, q) /\ Placed({"hors_forme"}, q)
  BY <1>1, PlacedAnywhere DEF Data, FreeData, Signs, SchemaFlags
<1>6. q = "answer" => c = {"dans_messages"} /\ k = "content"
  BY <1>1 DEF Placed
<1>7. c \cap Subtrees = {} => Good(Generic(c, n, k, v))
  BY <1>3, BelowPlaced DEF Generic
<1>8. CASE c \cap Subtrees # {}
  <2>1. q # "answer"
    BY <1>6, <1>8 DEF Subtrees
  <2>2. Good(Entry(c, k, v))
    <3>1. CASE "hors_forme" \in c
      BY <3>1, <2>1, <1>3, <1>4, <1>5 DEF Entry
    <3>2. CASE "hors_forme" \notin c
      <4>1. q = "schema"
        BY <3>2, <1>8, <1>2 DEF Placed, SchemaFlags, Subtrees
      <4>2. Placed({"in_schema"}, q)
        BY <4>1, PlacedInSchema DEF SchemaFlags
      <4>3. Good(Left("structure"))
        BY <4>1 DEF Left
      <4> QED
        BY <3>2, <4>2, <4>3, <1>3 DEF Entry
    <3> QED
      BY <3>1, <3>2
  <2> QED
    BY <1>8, <2>2 DEF Fate
<1>9. CASE c \cap Subtrees = {} /\ ProtocolRule(c, k)
  <2>1. q # "answer"
    BY <1>6, <1>9 DEF ProtocolRule, ContractKeys, ContractBlockTypes, ToolNameLists, ScalarSkipForms
  <2>2. Good(CacheControl(v))
    BY <2>1, <1>3, <1>4, <1>5 DEF CacheControl
  <2>3. Good(ScalarForm(v))
    BY <2>1, <1>3, <1>4, <1>5 DEF ScalarForm
  <2>4. Good(WhyExempt(n, k))
    BY <1>4 DEF WhyExempt
  <2>5. Good(ByProtocol(c, n, k, v))
    BY <2>2, <2>3, <2>4, <1>7, <1>9 DEF ByProtocol
  <2> QED
    BY <1>9, <2>5 DEF Fate
<1>10. CASE c \cap Subtrees = {} /\ ~ProtocolRule(c, k) /\ ValueRule(c, k, v)
  <2>1. q = "schema"
    BY <1>10, <1>2 DEF ValueRule, Placed, SchemaFlags
  <2>2. FreeData \cup (c \cap {"signe_partout"}) = FreeData
    BY DEF Placed
  <2>3. Good(LiteralValue(c, k, v))
    BY <2>1, <2>2, <1>3, <1>4, <1>5 DEF LiteralValue
  <2> QED
    BY <1>10, <2>3 DEF Fate
<1>11. CASE /\ c \cap Subtrees = {} /\ ~ProtocolRule(c, k)
            /\ ~ValueRule(c, k, v) /\ SchemaRule(c, k, v)
  <2>1. q = "schema"
    BY <1>11, <1>2 DEF SchemaRule, Placed, SchemaFlags
  <2>2. Placed({"in_schema"}, q) /\ Placed(Entries(k), q)
    BY <2>1, PlacedInSchema DEF SchemaFlags, Entries
  <2>3. Good(Left("structure"))
    BY <2>1 DEF Left
  <2>4. Good(Reference(v)) /\ Good(Nested(v))
    BY <2>2, <2>3, <1>3, <1>4 DEF Reference, Nested
  <2>5. Good(BySchema(k, v))
    BY <2>2, <2>3, <2>4, <1>3 DEF BySchema
  <2> QED
    BY <1>11, <2>5 DEF Fate
<1>12. CASE /\ c \cap Subtrees = {} /\ ~ProtocolRule(c, k)
            /\ ~ValueRule(c, k, v) /\ ~SchemaRule(c, k, v)
  BY <1>12, <1>7 DEF Fate
<1> QED
  BY <1>8, <1>9, <1>10, <1>11, <1>12

----------------------------------------------------------------------------
(* The inductive invariant. *)

Others == walked \ {"request"}

\* The walk of the request ends last, and where it is is told by its flags.
RequestPlaced ==
  /\ at # "done" => verdict["request"] = "walking"
  /\ at = "root" <=> position = "root"
  /\ position \in {"root", "message"} => walked = {"request"}
  /\ at \in {"value", "node"} => Placed(ctx["request"], position)

\* The walks that go on have the same flags but for the signs; on a block of an
\* answer they all still go on.
WalksAlike ==
  /\ \A w \in walked : verdict[w] = "walking" => Alike(ctx[w], ctx["request"])
  /\ at \in {"value", "node"} /\ position = "answer" /\ Others # {} =>
       /\ ctx["request"] = {"signe_ici", "bloc_message"}
       /\ \A w \in Others : verdict[w] = "walking" /\ ctx[w] = ResponseFlags

IInv == TypeOK /\ EchoAgrees /\ ExemptionsInPlace /\ RequestPlaced /\ WalksAlike

\* The functions of TypeOK, at a point.
LEMMA TypesAt ==
  ASSUME TypeOK, NEW w \in walked
  PROVE  /\ ctx[w] \in SUBSET Flags /\ verdict[w] \in Verdicts /\ keys[w] \in KeyFates
         /\ DOMAIN ctx = walked /\ DOMAIN verdict = walked /\ DOMAIN keys = walked
         /\ "request" \in walked
BY DEF TypeOK, walked

\* What Take asks of the fates it is given.
Fitting(f, q) ==
  /\ f = [w \in DOMAIN f |-> f[w]] /\ DOMAIN f \in SUBSET Walks /\ "request" \in DOMAIN f
  /\ \A w \in DOMAIN f :
       /\ f[w].ctx \in SUBSET Flags /\ f[w].verdict \in Verdicts /\ f[w].key \in KeyFates
       /\ f[w].verdict # "walking" => f[w].ctx = {}
       /\ LeftAsTheyCame(w, f[w].verdict) \/ SameFate(f[w], f["request"])
  /\ f["request"].verdict # "signed"
  /\ f["request"].verdict = "structure" => q = "schema"
  /\ f["request"].verdict = "walking" => Placed(f["request"].ctx, q)
  /\ q = "message" => DOMAIN f = {"request"}
  /\ q = "answer" /\ f["request"].verdict = "walking" /\ DOMAIN f # {"request"} =>
       /\ f["request"].ctx = {"signe_ici", "bloc_message"}
       /\ \A w \in DOMAIN f \ {"request"} :
            f[w].verdict = "walking" /\ f[w].ctx = ResponseFlags

\* A key leads to a place, and not back to the root.
LEMMA PlaceType ==
  ASSUME NEW p \in Positions, NEW n \in Node, NEW k
  PROVE  Place(p, n, k) \in Positions \ {"root"}
<1>1. n.assistant \in BOOLEAN
  BY DEF Node
<1> QED
  BY <1>1 DEF Place, Positions

\* Taking fates that fit keeps the invariant.
LEMMA TakeKeeps ==
  ASSUME NEW f, NEW n \in Node, NEW k, position \in Positions,
         Fitting(f, Place(position, n, k)), Take(f, n, k)
  PROVE  IInv'
<1> DEFINE q == Place(position, n, k)
<1>1. /\ DOMAIN ctx' = DOMAIN f /\ DOMAIN verdict' = DOMAIN f /\ DOMAIN keys' = DOMAIN f
      /\ \A w \in DOMAIN f : /\ ctx'[w] = f[w].ctx
                             /\ verdict'[w] = f[w].verdict
                             /\ keys'[w] = f[w].key
      /\ at' = IF Going(f) THEN "value" ELSE "done"
      /\ node' = Plain /\ position' = q
  BY DEF Take
<1>2. walked' = DOMAIN f
  BY <1>1 DEF walked
<1>3. q \in Positions \ {"root"}
  BY PlaceType
<1>4. at' = "value" <=> f["request"].verdict = "walking"
  <2>1. ASSUME NEW w \in DOMAIN f, f[w].verdict = "walking"
        PROVE  f["request"].verdict = "walking"
    BY <2>1 DEF Fitting, SameFate, LeftAsTheyCame
  <2> QED
    BY <2>1, <1>1 DEF Going, Fitting
<1>5. TypeOK'
  <2>1. node' \in Node
    BY <1>1 DEF Plain, Node
  <2>2. /\ ctx' \in [DOMAIN f -> SUBSET Flags] /\ verdict' \in [DOMAIN f -> Verdicts]
        /\ keys' \in [DOMAIN f -> KeyFates]
    BY DEF Take, Fitting
  <2>3. at' = "done" => \A w \in DOMAIN f : verdict'[w] # "walking"
    BY <1>1 DEF Going
  <2>4. \A w \in DOMAIN f : verdict'[w] # "walking" => ctx'[w] = {}
    BY <1>1 DEF Fitting
  <2> QED
    BY <1>1, <1>2, <1>3, <2>1, <2>2, <2>3, <2>4 DEF TypeOK, Fitting
<1>6. EchoAgrees'
  BY <1>1, <1>2 DEF EchoAgrees, Fitting, SameFate
<1>7. ExemptionsInPlace'
  BY <1>1 DEF ExemptionsInPlace, Fitting
<1>8. RequestPlaced'
  BY <1>1, <1>2, <1>3, <1>4 DEF RequestPlaced, Fitting
<1>9. WalksAlike'
  <2>1. \A w \in DOMAIN f : f[w].verdict = "walking" => Alike(f[w].ctx, f["request"].ctx)
    BY DEF Fitting, SameFate, LeftAsTheyCame
  <2>2. at' \in {"value", "node"} => f["request"].verdict = "walking"
    BY <1>1, <1>4
  <2> QED
    BY <1>1, <1>2, <2>1, <2>2 DEF WalksAlike, Others, Fitting
<1> QED
  BY <1>5, <1>6, <1>7, <1>8, <1>9 DEF IInv

\* One key in every walk: the fates fit.
LEMMA FatesFit ==
  ASSUME IInv, at = "node", NEW k, NEW v
  PROVE  Fitting(Fates(node, k, v), Place(position, node, k))
<1> DEFINE f == Fates(node, k, v)
           q == Place(position, node, k)
<1>1. /\ TypeOK /\ node \in Node /\ position \in Positions \ {"root"}
      /\ verdict["request"] = "walking" /\ Placed(ctx["request"], position)
      /\ walked \in SUBSET Walks /\ "request" \in walked
  BY DEF IInv, TypeOK, RequestPlaced
<1>2. DOMAIN f = walked /\ f = [w \in walked |-> f[w]]
  BY DEF Fates
<1>3. \A w \in walked : f[w] = IF verdict[w] = "walking" THEN Fate(ctx[w], node, k, v)
                               ELSE [verdict |-> verdict[w], ctx |-> {}, key |-> keys[w]]
  BY DEF Fates
<1>4. f["request"] = Fate(ctx["request"], node, k, v) /\ ctx["request"] \in SUBSET Flags
  BY <1>1, <1>3, TypesAt
<1>5. ASSUME NEW w \in walked
      PROVE  /\ f[w].ctx \in SUBSET Flags /\ f[w].verdict \in Verdicts
             /\ f[w].key \in KeyFates
             /\ f[w].verdict # "walking" => f[w].ctx = {}
             /\ LeftAsTheyCame(w, f[w].verdict) \/ SameFate(f[w], f["request"])
  <2>1. CASE verdict[w] = "walking"
    <3>1. ctx[w] \in SUBSET Flags /\ Alike(ctx[w], ctx["request"])
      BY <1>1, <2>1, TypesAt DEF IInv, WalksAlike
    <3>2. f[w] = Fate(ctx[w], node, k, v) /\ f[w] \in FateType
      BY <1>3, <2>1, <3>1, FateIsTyped
    <3>3. SameFate(f[w], f["request"])
      BY <1>4, <3>1, <3>2, FateAlike
    <3> QED
      BY <3>2, <3>3 DEF FateType, Verdicts
  <2>2. CASE verdict[w] # "walking"
    <3>1. LeftAsTheyCame(w, verdict[w])
      BY <1>1, <2>2 DEF IInv, EchoAgrees
    <3>2. f[w] = [verdict |-> verdict[w], ctx |-> {}, key |-> keys[w]]
      BY <1>3, <2>2
    <3>3. f[w].verdict = verdict[w] /\ f[w].ctx = {} /\ f[w].key = keys[w]
      BY <3>2
    <3> QED
      BY <1>1, <3>1, <3>3, TypesAt
  <2> QED
    BY <2>1, <2>2
<1>6. f["request"] \in FateType
  BY <1>4, FateIsTyped
<1>7. f["request"].verdict # "signed"
  BY <1>6 DEF FateType
<1>8. /\ f["request"].verdict = "structure" => q = "schema"
      /\ f["request"].verdict = "walking" => Placed(f["request"].ctx, q)
  BY <1>1, <1>4, FatePlaced
<1>9. q # "message" /\ (q = "answer" => position = "message")
  BY <1>1 DEF Place, Positions
<1>10. q = "answer" => walked = {"request"}
  BY <1>9 DEF IInv, RequestPlaced
<1> QED
  BY <1>1, <1>2, <1>5, <1>7, <1>8, <1>9, <1>10 DEF Fitting


----------------------------------------------------------------------------
(* One step. *)

\* The path starts at the root, in the walk of the request.
LEMMA InitInv == Init => IInv
<1> SUFFICES ASSUME Init PROVE IInv
  OBVIOUS
<1>1. /\ walked = {"request"} /\ at = "root" /\ node = Plain /\ position = "root"
      /\ ctx = [w \in {"request"} |-> {}] /\ verdict = [w \in {"request"} |-> "walking"]
      /\ keys = [w \in {"request"} |-> "kept"]
  BY DEF Init, walked
<1>2. TypeOK
  BY <1>1 DEF TypeOK, Node, Plain, Walks, Verdicts, KeyFates, Positions
<1>3. EchoAgrees /\ ExemptionsInPlace /\ RequestPlaced
  BY <1>1 DEF EchoAgrees, ExemptionsInPlace, RequestPlaced
<1>4. WalksAlike
  BY <1>1 DEF WalksAlike, Others, Alike
<1> QED
  BY <1>2, <1>3, <1>4 DEF IInv

\* A key of the root.
LEMMA RootKeeps == IInv /\ Root => IInv'
<1> SUFFICES ASSUME IInv, Root PROVE IInv'
  OBVIOUS
<1>1. PICK k \in Keys, v \in Value :
        Take([w \in {"request"} |-> RootFate(k, v)], Plain, k)
  BY DEF Root
<1> DEFINE f == [w \in {"request"} |-> RootFate(k, v)]
           q == Place(position, Plain, k)
<1>2. position = "root" /\ position \in Positions /\ Plain \in Node
  BY DEF Root, IInv, RequestPlaced, TypeOK, Plain, Node
<1>3. /\ q \in {"message", "tool", "elsewhere"}
      /\ q = "message" <=> k = "messages"
      /\ q = "tool" <=> k = "tools"
  BY <1>2 DEF Place
<1>4. RootFlags(k) \in SUBSET Flags
  BY DEF RootFlags, If, Flags, Signs, Subtrees
<1>5. Placed(RootFlags(k), q)
  <2>1. CASE k = "messages"
    <3>1. RootFlags(k) = {"dans_messages"}
      BY <2>1 DEF RootFlags, If, UserDataKeys, ProtocolContainers, ClesLibres
    <3> QED
      BY <3>1, <2>1, <1>3 DEF Placed, SchemaFlags
  <2>2. CASE k # "messages"
    BY <2>2, <1>3 DEF RootFlags, If, Placed, SchemaFlags
  <2> QED
    BY <2>1, <2>2
<1>6. /\ RootFate(k, v) \in FateType
      /\ RootFate(k, v).verdict # "structure"
      /\ RootFate(k, v).verdict = "walking" => Placed(RootFate(k, v).ctx, q)
  <2>1. CASE RootFate(k, v) = Left("form")
    BY <2>1, LeftType
  <2>2. CASE RootFate(k, v) = Walked(v, RootFlags(k), "kept")
    <3>1. "kept" \in KeyFates
      BY DEF KeyFates
    <3>2. /\ Walked(v, RootFlags(k), "kept") \in FateType
          /\ Walked(v, RootFlags(k), "kept").verdict \in {"walking", "named"}
      BY <3>1, <1>4, WalkedType
    <3>3. RootFate(k, v).verdict = "walking" => RootFate(k, v).ctx = RootFlags(k)
      BY <2>2 DEF Walked
    <3> QED
      BY <2>2, <3>2, <3>3, <1>5
  <2> QED
    BY <2>1, <2>2 DEF RootFate
<1>7. DOMAIN f = {"request"} /\ f["request"] = RootFate(k, v)
  OBVIOUS
<1>8. SameFate(f["request"], f["request"])
  BY DEF SameFate, Alike
<1>9. /\ f["request"].ctx \in SUBSET Flags /\ f["request"].verdict \in Verdicts
      /\ f["request"].key \in KeyFates /\ f["request"].verdict # "signed"
      /\ f["request"].verdict # "walking" => f["request"].ctx = {}
  BY <1>6, <1>7 DEF FateType, Verdicts
<1>10. Fitting(f, q)
  BY <1>6, <1>7, <1>8, <1>9 DEF Fitting, Walks
<1> QED
  BY <1>1, <1>2, <1>10, TakeKeeps

\* A node is reached.
LEMMA EnterKeeps == IInv /\ Enter => IInv'
<1> SUFFICES ASSUME IInv, Enter PROVE IInv'
  OBVIOUS
<1>1. PICK n \in Node :
        /\ node' = n
        /\ verdict' = [w \in walked |->
             IF verdict[w] = "walking" /\ Opaque(ctx[w], n) THEN "signed"
             ELSE verdict[w]]
        /\ ctx' = [w \in walked |-> IF verdict'[w] = "walking" THEN ctx[w] ELSE {}]
        /\ at' = IF \E w \in walked : verdict'[w] = "walking" THEN "node" ELSE "done"
  BY DEF Enter
<1>2. /\ at = "value" /\ keys' = keys /\ position' = position
      /\ walked' = walked
      /\ \A w \in walked : ctx'[w] = IF verdict'[w] = "walking" THEN ctx[w] ELSE {}
  BY <1>1 DEF Enter, walked
<1>3. /\ TypeOK /\ "request" \in walked /\ verdict["request"] = "walking"
      /\ Placed(ctx["request"], position) /\ position # "root"
      /\ ctx["request"] \in SUBSET Flags
  BY <1>2, TypesAt DEF IInv, TypeOK, RequestPlaced
<1>4. \A w \in walked : verdict'[w] = IF verdict[w] = "walking" /\ Opaque(ctx[w], n)
                                      THEN "signed" ELSE verdict[w]
  BY <1>1
<1>5. Opaque(ctx["request"], n) <=> position = "answer" /\ n.type \in OpaqueBlockTypes
  BY <1>3 DEF Opaque, Placed, Signs
<1>6. verdict'["request"] = IF Opaque(ctx["request"], n) THEN "signed" ELSE "walking"
  BY <1>3, <1>4
<1>7. \A w \in walked : verdict'[w] \in Verdicts
  BY <1>3, <1>4, TypesAt DEF Verdicts
<1>8. \A w \in walked : verdict'[w] = "walking" => verdict[w] = "walking"
  BY <1>4
<1>9. Opaque(ctx["request"], n) => \A w \in walked : verdict'[w] = "signed"
  <2> SUFFICES ASSUME Opaque(ctx["request"], n), NEW w \in walked
               PROVE  verdict'[w] = "signed"
    OBVIOUS
  <2>1. CASE w = "request"
    BY <2>1, <1>6
  <2>2. CASE w # "request"
    <3>1. verdict[w] = "walking" /\ ctx[w] = ResponseFlags
      BY <2>2, <1>2, <1>5 DEF IInv, WalksAlike, Others
    <3>2. Opaque(ctx[w], n)
      BY <3>1, <1>5 DEF Opaque, ResponseFlags, Signs
    <3> QED
      BY <3>1, <3>2, <1>4
  <2> QED
    BY <2>1, <2>2
<1>10. at' # "done" => ~Opaque(ctx["request"], n)
  BY <1>1, <1>9
<1>11. TypeOK'
  <2>1. verdict' \in [walked -> Verdicts]
    BY <1>1, <1>7
  <2>2. at' \in {"node", "done"} /\ (at' = "done" => \A w \in walked : verdict'[w] # "walking")
    BY <1>1
  <2>3. ctx' \in [walked -> SUBSET Flags]
    BY <1>1, <1>3, TypesAt
  <2>4. \A w \in walked : verdict'[w] # "walking" => ctx'[w] = {}
    BY <1>2
  <2>5. node' \in Node /\ keys' \in [walked -> KeyFates] /\ position' \in Positions
    BY <1>1, <1>2, <1>3 DEF TypeOK
  <2> QED
    BY <1>2, <1>3, <2>1, <2>2, <2>3, <2>4, <2>5 DEF TypeOK
<1>12. EchoAgrees'
  <2> SUFFICES ASSUME NEW w \in walked
               PROVE  \/ LeftAsTheyCame(w, verdict'[w])
                      \/ verdict'[w] = verdict'["request"] /\ keys[w] = keys["request"]
    BY <1>2 DEF EchoAgrees
  <2>1. \/ LeftAsTheyCame(w, verdict[w])
        \/ verdict[w] = "walking" /\ keys[w] = keys["request"]
    BY <1>3 DEF IInv, EchoAgrees
  <2>2. CASE verdict[w] # "walking"
    BY <2>1, <2>2, <1>4
  <2>3. CASE verdict[w] = "walking" /\ verdict'[w] = "signed"
    BY <2>3 DEF LeftAsTheyCame
  <2>4. CASE verdict[w] = "walking" /\ verdict'[w] # "signed"
    BY <2>1, <2>4, <1>4, <1>6, <1>9 DEF LeftAsTheyCame
  <2> QED
    BY <2>2, <2>3, <2>4
<1>13. ExemptionsInPlace'
  <2>1. verdict'["request"] # "structure"
    BY <1>6
  <2>2. verdict'["request"] = "signed" <=> position = "answer" /\ n.type \in OpaqueBlockTypes
    BY <1>5, <1>6
  <2> QED
    BY <2>1, <2>2, <1>1, <1>2 DEF ExemptionsInPlace
<1>14. RequestPlaced'
  <2>1. at' # "done" => verdict'["request"] = "walking"
    BY <1>6, <1>10
  <2>2. at' # "root"
    BY <1>1
  <2>3. position \in {"root", "message"} => walked = {"request"}
    BY DEF IInv, RequestPlaced
  <2>4. at' # "done" => ctx'["request"] = ctx["request"]
    BY <1>2, <1>3, <2>1
  <2>5. at' \in {"value", "node"} => Placed(ctx'["request"], position)
    BY <1>3, <2>4
  <2> QED
    BY <1>2, <1>3, <2>1, <2>2, <2>3, <2>5 DEF RequestPlaced
<1>15. WalksAlike'
  <2>1. \A w \in walked : verdict'[w] = "walking" => Alike(ctx'[w], ctx'["request"])
    <3> SUFFICES ASSUME NEW w \in walked, verdict'[w] = "walking"
                 PROVE  Alike(ctx'[w], ctx'["request"])
      OBVIOUS
    <3>1. Alike(ctx[w], ctx["request"]) /\ ctx'[w] = ctx[w]
      BY <1>2, <1>8 DEF IInv, WalksAlike
    <3>2. verdict'["request"] = "walking"
      BY <1>6, <1>9
    <3> QED
      BY <1>2, <1>3, <3>1, <3>2
  <2>2. ASSUME at' \in {"value", "node"}, position = "answer", Others # {}
        PROVE  /\ ctx'["request"] = {"signe_ici", "bloc_message"}
               /\ \A w \in Others : verdict'[w] = "walking" /\ ctx'[w] = ResponseFlags
    <3>1. /\ ctx["request"] = {"signe_ici", "bloc_message"}
          /\ \A w \in Others : verdict[w] = "walking" /\ ctx[w] = ResponseFlags
      BY <2>2, <1>2 DEF IInv, WalksAlike
    <3>2. n.type \notin OpaqueBlockTypes
      BY <2>2, <1>5, <1>10
    <3>3. \A w \in Others : ~Opaque(ctx[w], n)
      BY <3>2 DEF Opaque
    <3>4. \A w \in Others : verdict'[w] = "walking"
      BY <3>1, <3>3, <1>4 DEF Others
    <3>5. verdict'["request"] = "walking"
      BY <2>2, <1>6, <1>10
    <3> QED
      BY <3>1, <3>4, <3>5, <1>2, <1>3 DEF Others
  <2>3. Others' = Others
    BY <1>2 DEF Others
  <2> QED
    BY <2>1, <2>2, <2>3, <1>2 DEF WalksAlike
<1> QED
  BY <1>11, <1>12, <1>13, <1>14, <1>15 DEF IInv

\* A key below a node, in the walks that go on.
LEMMA StepKeeps == IInv /\ Step => IInv'
<1> SUFFICES ASSUME IInv, Step PROVE IInv'
  OBVIOUS
<1>1. PICK k \in Keys, v \in Value : Take(Fates(node, k, v), node, k)
  BY DEF Step
<1>2. Fitting(Fates(node, k, v), Place(position, node, k))
  BY FatesFit DEF Step
<1> QED
  BY <1>1, <1>2, TakeKeeps DEF IInv, TypeOK

\* What an answer is walked under when it is restored.
LEMMA AnsweredType ==
  ASSUME NEW v
  PROVE  /\ Walked(v, ResponseFlags, "kept") \in FateType
         /\ Walked(v, ResponseFlags, "kept").verdict = "walking"
              => Walked(v, ResponseFlags, "kept").ctx = ResponseFlags
<1>1. ResponseFlags \in SUBSET Flags /\ "kept" \in KeyFates
  BY DEF ResponseFlags, Flags, Signs, KeyFates
<1> QED
  BY <1>1, WalkedType DEF Walked

\* The content of an assistant message opens the signs and the blocks.
LEMMA ContentFate ==
  ASSUME NEW n \in Node, n.assistant, n.type = NONE, NEW v
  PROVE  Fate({"dans_messages"}, n, "content", v)
           = Walked(v, {"signe_ici", "bloc_message"}, "kept")
<1> DEFINE c == {"dans_messages"}
<1>1. c \cap Subtrees = {}
  BY DEF Subtrees
<1>2. ~ProtocolRule(c, "content")
  BY DEF ProtocolRule, ContractKeys, ContractBlockTypes, ToolNameLists, ScalarSkipForms
<1>3. ~ValueRule(c, "content", v) /\ ~SchemaRule(c, "content", v)
  BY DEF ValueRule, SchemaRule
<1>4. NONE \notin ToolResults
  BY DEF NONE, ToolResults
<1>5. ~Entering(c, "content")
  BY DEF Entering
<1>6. Below(c, n, "content") = {"signe_ici", "bloc_message"}
  BY <1>4, <1>5 DEF Below, If, UserDataKeys, ClesLibres, ProtocolContainers
<1>7. Generic(c, n, "content", v) = Walked(v, {"signe_ici", "bloc_message"}, "kept")
  BY <1>6 DEF Generic
<1> QED
  BY <1>1, <1>2, <1>3, <1>7 DEF Fate

\* The content of an answer comes back in the next request.
LEMMA EchoKeeps == IInv /\ Echo => IInv'
<1> SUFFICES ASSUME IInv, Echo PROVE IInv'
  OBVIOUS
<1>1. PICK v \in Value :
        Take([w \in Walks |-> IF w = "request" THEN Fates(node, "content", v)[w]
                              ELSE Walked(v, ResponseFlags, "kept")],
             node, "content")
  BY DEF Echo
<1> DEFINE out == Fates(node, "content", v)["request"]
           back == Walked(v, ResponseFlags, "kept")
           f == [w \in Walks |-> IF w = "request" THEN Fates(node, "content", v)[w]
                                 ELSE back]
           q == Place(position, node, "content")
<1>2. /\ at = "node" /\ position = "message" /\ node \in Node
      /\ node.assistant /\ node.type = NONE /\ position \in Positions
  BY DEF Echo, IInv, TypeOK
<1>3. /\ walked = {"request"} /\ verdict["request"] = "walking"
      /\ ctx["request"] = {"dans_messages"}
  BY <1>2 DEF IInv, RequestPlaced, Placed
<1>4. q = "answer"
  BY <1>2 DEF Place
<1>5. Fates(node, "content", v)["request"] = Fate(ctx["request"], node, "content", v)
  BY <1>3 DEF Fates
<1>6. out = Walked(v, {"signe_ici", "bloc_message"}, "kept")
  BY <1>2, <1>3, <1>5, ContentFate
<1>7. SameFate(back, out)
  <2>1. Alike(ResponseFlags, {"signe_ici", "bloc_message"})
    BY DEF Alike, ResponseFlags, Signs
  <2> QED
    BY <2>1, <1>6, WalkedAlike
<1>8. out \in FateType
  BY <1>3, <1>5, FateIsTyped, TypesAt DEF IInv
<1>9. back \in FateType /\ (back.verdict = "walking" => back.ctx = ResponseFlags)
  BY AnsweredType
<1>10. out.verdict = "walking" => out.ctx = {"signe_ici", "bloc_message"}
  BY <1>6 DEF Walked
<1>11. out.verdict = "walking" => Placed(out.ctx, q)
  BY <1>4, <1>10 DEF Placed, SchemaFlags
<1>12. out.verdict \in {"walking", "named"}
  BY <1>6 DEF Walked
<1>13. /\ DOMAIN f = Walks /\ f["request"] = out
       /\ \A w \in Walks \ {"request"} : f[w] = back
  BY DEF Walks
<1>14. out.verdict = "walking" => back.verdict = "walking"
  BY <1>7 DEF SameFate
<1>15. Fitting(f, q)
  <2>1. \A w \in Walks : f[w] \in FateType /\ SameFate(f[w], out)
    BY <1>7, <1>8, <1>9, <1>13 DEF SameFate, Alike
  <2>2. \A g \in FateType : /\ g.ctx \in SUBSET Flags /\ g.verdict \in Verdicts
                            /\ g.key \in KeyFates
                            /\ g.verdict # "walking" => g.ctx = {}
    BY DEF FateType, Verdicts
  <2>3. f = [w \in DOMAIN f |-> f[w]] /\ "request" \in Walks
    BY DEF Walks
  <2>4. /\ DOMAIN f = Walks /\ f["request"] = out /\ q = "answer"
        /\ out.verdict = "walking" =>
             \A w \in Walks \ {"request"} :
               f[w].verdict = "walking" /\ f[w].ctx = ResponseFlags
    BY <1>4, <1>9, <1>13, <1>14
  <2> HIDE DEF f, q, out
  <2> QED
    BY <2>1, <2>2, <2>3, <2>4, <1>10, <1>11, <1>12 DEF Fitting
<1> QED
  BY <1>1, <1>2, <1>15, TakeKeeps

\* A block of an answer comes as deltas: its arguments are walked on their own.
LEMMA DeltaFate ==
  ASSUME NEW n \in Node, NEW k \in {"input", "citations"}, NEW v,
         NEW c \in SUBSET Flags, c \subseteq {"bloc_message"} \cup Signs
  PROVE  SameFate(Walked(v, DeltaFlags(k), "kept"), Fate(c, n, k, v))
<1>1. c \cap Subtrees = {} /\ "in_schema" \notin c /\ "cles_libres" \notin c
  BY DEF Subtrees, Signs
<1>2. ~ProtocolRule(c, k)
  BY DEF ProtocolRule, ContractKeys, ContractBlockTypes, ToolNameLists, ScalarSkipForms
<1>3. ~ValueRule(c, k, v) /\ ~SchemaRule(c, k, v)
  BY <1>1 DEF ValueRule, SchemaRule
<1>4. Fate(c, n, k, v) = Walked(v, Below(c, n, k), "kept")
  BY <1>1, <1>2, <1>3 DEF Fate, Generic
<1>5. ~Entering(c, k)
  BY <1>1 DEF Entering
<1>6. Alike(DeltaFlags(k), Below(c, n, k))
  <2>1. CASE k = "input"
    <3>1. \A g : g \in Below(c, n, k) /\ g \notin Signs <=> g \in FreeData
      BY <1>5, <2>1 DEF Below, If, UserDataKeys, ClesLibres, ProtocolContainers, FreeData, Signs
    <3> QED
      BY <3>1, <2>1 DEF Alike, DeltaFlags, FreeData, Signs
  <2>2. CASE k = "citations"
    <3>1. \A g : g \in Below(c, n, k) => g \in Signs
      BY <1>1, <1>5, <2>2 DEF Below, If, UserDataKeys, ClesLibres, ProtocolContainers, Signs
    <3> QED
      BY <3>1, <2>2 DEF Alike, DeltaFlags, Signs
  <2> QED
    BY <2>1, <2>2
<1> QED
  BY <1>4, <1>6, WalkedAlike

\* A delta gives the walk of the stream the fate the others give.
LEMMA DeltaKeeps == IInv /\ Delta => IInv'
<1> SUFFICES ASSUME IInv, Delta PROVE IInv'
  OBVIOUS
<1>1. PICK k \in Keys \cap {"input", "citations"}, v \in Value :
        Take([Fates(node, k, v) EXCEPT !["stream"] = Walked(v, DeltaFlags(k), "kept")],
             node, k)
  BY DEF Delta
<1> DEFINE g == Fates(node, k, v)
           s == Walked(v, DeltaFlags(k), "kept")
           f == [g EXCEPT !["stream"] = s]
           q == Place(position, node, k)
<1>2. /\ at = "node" /\ position = "answer" /\ "stream" \in walked
      /\ node \in Node /\ position \in Positions
  BY DEF Delta, IInv, TypeOK
<1>3. Fitting(g, q)
  BY <1>2, FatesFit
<1>4. DOMAIN g = walked /\ g = [w \in walked |-> g[w]]
  BY DEF Fates
<1>5. /\ verdict["request"] = "walking" /\ "request" \in walked
      /\ ctx["request"] = {"signe_ici", "bloc_message"}
  BY <1>2 DEF IInv, TypeOK, RequestPlaced, WalksAlike, Others
<1>6. g["request"] = Fate(ctx["request"], node, k, v)
  BY <1>5 DEF Fates
<1>7. SameFate(s, g["request"])
  BY <1>2, <1>5, <1>6, DeltaFate DEF Flags, Signs
<1>8. s \in FateType
  <2>1. DeltaFlags(k) \in SUBSET Flags /\ "kept" \in KeyFates
    BY DEF DeltaFlags, FreeData, Flags, Signs, KeyFates
  <2> QED
    BY <2>1, WalkedType
<1>9. /\ s.ctx \in SUBSET Flags /\ s.verdict \in Verdicts /\ s.key \in KeyFates
      /\ s.verdict # "walking" => s.ctx = {}
  BY <1>8 DEF FateType, Verdicts
<1>10. q \notin {"message", "answer"}
  BY <1>2 DEF Place
<1>11. /\ DOMAIN f = walked /\ f = [w \in walked |-> f[w]]
       /\ f["request"] = g["request"] /\ f["stream"] = s
       /\ \A w \in walked \ {"stream"} : f[w] = g[w]
  BY <1>2, <1>4, <1>5
<1>12. Fitting(f, q)
  <2> HIDE DEF f, g, s, q
  <2>1. \A w \in walked :
          /\ f[w].ctx \in SUBSET Flags /\ f[w].verdict \in Verdicts /\ f[w].key \in KeyFates
          /\ f[w].verdict # "walking" => f[w].ctx = {}
          /\ LeftAsTheyCame(w, f[w].verdict) \/ SameFate(f[w], f["request"])
    BY <1>3, <1>4, <1>7, <1>9, <1>11 DEF Fitting
  <2> QED
    BY <1>3, <1>4, <1>10, <1>11, <2>1 DEF Fitting
<1> QED
  BY <1>1, <1>2, <1>12, TakeKeeps

\* A delta that goes out as it came ends the walk of the stream.
LEMMA PassthroughKeeps == IInv /\ Passthrough => IInv'
<1> SUFFICES ASSUME IInv, Passthrough PROVE IInv'
  OBVIOUS
<1>1. PICK k \in Keys, v \in Value :
        Take([Fates(node, k, v) EXCEPT !["stream"] = Left("verbatim")], node, k)
  BY DEF Passthrough
<1> DEFINE g == Fates(node, k, v)
           s == Left("verbatim")
           f == [g EXCEPT !["stream"] = s]
           q == Place(position, node, k)
<1>2. /\ at = "node" /\ position = "answer" /\ "stream" \in walked
      /\ node \in Node /\ position \in Positions
  BY DEF Passthrough, IInv, TypeOK
<1>3. Fitting(g, q)
  BY <1>2, FatesFit
<1>4. DOMAIN g = walked /\ g = [w \in walked |-> g[w]]
  BY DEF Fates
<1>5. /\ s.ctx = {} /\ s.verdict = "verbatim" /\ s.verdict \in Verdicts
      /\ s.key \in KeyFates /\ LeftAsTheyCame("stream", s.verdict)
  BY DEF Left, Verdicts, KeyFates, LeftAsTheyCame
<1>6. q \notin {"message", "answer"}
  BY <1>2 DEF Place
<1>7. /\ DOMAIN f = walked /\ f = [w \in walked |-> f[w]]
      /\ f["request"] = g["request"] /\ f["stream"] = s
      /\ \A w \in walked \ {"stream"} : f[w] = g[w]
  BY <1>2, <1>4
<1>8. Fitting(f, q)
  <2> HIDE DEF f, g, s, q
  <2>1. \A w \in walked :
          /\ f[w].ctx \in SUBSET Flags /\ f[w].verdict \in Verdicts /\ f[w].key \in KeyFates
          /\ f[w].verdict # "walking" => f[w].ctx = {}
          /\ LeftAsTheyCame(w, f[w].verdict) \/ SameFate(f[w], f["request"])
    BY <1>3, <1>4, <1>5, <1>7 DEF Fitting
  <2> QED
    BY <1>3, <1>4, <1>6, <1>7, <2>1 DEF Fitting
<1> QED
  BY <1>1, <1>2, <1>8, TakeKeeps

\* A body that is refused is walked no further.
LEMMA CollisionKeeps == IInv /\ KeysCollide => IInv'
<1> SUFFICES ASSUME IInv, KeysCollide PROVE IInv'
  OBVIOUS
<1>1. /\ at = "node" /\ at' = "done" /\ node' = node /\ keys' = keys
      /\ position' = position /\ walked' = walked /\ ctx' = [w \in walked |-> {}]
      /\ verdict' = [w \in walked |->
           IF verdict[w] = "walking" THEN "refused" ELSE verdict[w]]
  BY DEF KeysCollide, walked
<1>2. /\ TypeOK /\ "request" \in walked /\ verdict["request"] = "walking"
      /\ position # "root"
  BY <1>1 DEF IInv, TypeOK, RequestPlaced
<1>3. /\ verdict'["request"] = "refused"
      /\ \A w \in walked : /\ verdict'[w] \in Verdicts /\ verdict'[w] # "walking"
                           /\ verdict[w] = "walking" => verdict'[w] = "refused"
                           /\ verdict[w] # "walking" => verdict'[w] = verdict[w]
  BY <1>1, <1>2, TypesAt DEF Verdicts
<1>4. TypeOK'
  <2>1. verdict' \in [walked -> Verdicts]
    BY <1>1, <1>3
  <2>2. ctx' \in [walked -> SUBSET Flags] /\ \A w \in walked : ctx'[w] = {}
    BY <1>1
  <2> QED
    BY <1>1, <1>2, <1>3, <2>1, <2>2 DEF TypeOK
<1>5. EchoAgrees'
  <2>1. \A w \in walked : \/ verdict[w] # "walking" /\ LeftAsTheyCame(w, verdict[w])
                          \/ verdict[w] = "walking" /\ keys[w] = keys["request"]
    BY <1>2 DEF IInv, EchoAgrees, LeftAsTheyCame
  <2> QED
    BY <2>1, <1>1, <1>3 DEF EchoAgrees
<1>6. ExemptionsInPlace'
  <2>1. node # Plain => ~(position = "answer" /\ node.type \in OpaqueBlockTypes)
    BY <1>1, <1>2 DEF IInv, ExemptionsInPlace
  <2> QED
    BY <2>1, <1>1, <1>3 DEF ExemptionsInPlace
<1>7. RequestPlaced' /\ WalksAlike'
  <2>1. position = "message" => walked = {"request"}
    BY DEF IInv, RequestPlaced
  <2> QED
    BY <2>1, <1>1, <1>2, <1>3 DEF RequestPlaced, WalksAlike
<1> QED
  BY <1>4, <1>5, <1>6, <1>7 DEF IInv

\* Every step of the walks keeps the invariant.
LEMMA NextInv == IInv /\ [Next]_vars => IInv'
<1> SUFFICES ASSUME IInv, [Next]_vars PROVE IInv'
  OBVIOUS
<1>1. CASE Next
  BY <1>1, RootKeeps, EnterKeeps, StepKeeps, EchoKeeps, DeltaKeeps,
     PassthroughKeeps, CollisionKeeps DEF Next
<1>2. CASE UNCHANGED vars
  BY <1>2 DEF vars, walked, IInv, TypeOK, EchoAgrees, ExemptionsInPlace, RequestPlaced,
              WalksAlike, Others
<1> QED
  BY <1>1, <1>2

\* The inductive invariant holds of every path.
LEMMA Invariant == Spec => []IInv
BY InitInv, NextInv, PTL DEF Spec

----------------------------------------------------------------------------
(* The theorems. *)

\* The walks keep their types at any depth, whatever keys and types a body has.
THEOREM TypeCorrect == Spec => []TypeOK
<1>1. IInv => TypeOK
  BY DEF IInv
<1> QED
  BY <1>1, Invariant, PTL

\* What walk_request substitutes in a turn that comes back is what walk_response,
\* or the rewriter of the stream, restored in it: same strings, same keys, but for
\* what those leave as it came.
THEOREM EchoesAgree == Spec => []EchoAgrees
<1>1. IInv => EchoAgrees
  BY DEF IInv
<1> QED
  BY <1>1, Invariant, PTL

\* The exemption of signed blocks and the one of the structure of a schema apply
\* where the protocol has them, and nowhere else in a body.
THEOREM ExemptionsStay == Spec => []ExemptionsInPlace
<1>1. IInv => ExemptionsInPlace
  BY DEF IInv
<1> QED
  BY <1>1, Invariant, PTL

=============================================================================
