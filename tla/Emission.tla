------------------------------ MODULE Emission -----------------------------
(***************************************************************************)
(* What the entries of a plan write for a message: the code the generator  *)
(* emits for each kind of entry, run on a message that may hold or lack    *)
(* anything its types allow.  An entry offers pairs of a key and a JSON    *)
(* value, in order; what becomes of two offers of one key is up to the     *)
(* collision machinery of ObjectWriter.                                    *)
(*                                                                         *)
(* A path is the sequence of fields leading to a value.  The message is    *)
(* the function held from paths to Unset or Is(value): a nil pointer,      *)
(* slice or map, or a oneof without that branch, is Unset.                 *)
(***************************************************************************)
EXTENDS Values

CONSTANTS
    Info,      \* per field: type, card, optional, oneof, omits
    NoOneof,   \* the oneof of a field that is in none
    Cases,     \* plans, each with the messages it is run on
    MapOrders, \* the orders in which Go may list map keys
    SpreadKey(_, _)  \* the text a prefix and an element's key make: not always another for others

Unset == <<"unset">>
Is(v) == <<"is", v>>

VARIABLES plan, held, order,  \* the plan, the message, Go's map order: fixed by Init
          at,                 \* the next entry
          out,                \* per entry, the pairs of a key and a value it offered
          err                 \* why the encode failed, NoError when it did not

vars == <<plan, held, order, at, out, err>>

NoError == <<"none">>

-----------------------------------------------------------------------------
(* Fields and paths                                                        *)

LeafOf(path) == Info[path[Len(path)]]

IsMessage(f) == f.type \notin Scalars
IsCollection(f) == f.card # "one"

InOneof(f) == f.oneof # NoOneof

(* isScalarBranch *)
IsScalarBranch(f) == InOneof(f) /\ ~IsMessage(f)

Prefix(path, n) == SubSeq(path, 1, n)

ZeroOfField(f) == IF IsCollection(f) THEN <<>> ELSE ZeroOf(f.type)

(* chain: getters, which return the zero value when anything is missing.   *)
Get(m, path) == IF m[path] = Unset THEN ZeroOfField(LeafOf(path)) ELSE m[path][2]

(* The parts a JSON value is put together from, none of which has failed.  *)
Parts(json) == CASE json[1] = "array" -> Range(json[2])
                 [] json[1] = "object" -> {pair[2] : pair \in Range(json[2])}
                 [] OTHER -> {}
WellMade(json) == \A part \in Parts(json) : ~IsFailed(part)

(* What encoders write: keys, any of which may come twice, and values.     *)
ArePairs(pairs) ==
    /\ pairs \in Seq(Range(pairs))
    /\ \A x \in DOMAIN pairs : ~IsFailed(pairs[x][2]) /\ WellMade(pairs[x][2])

(* What a value of a type may be, where the encoder looks into it.         *)
Allowed(type, v) ==
    type \notin Scalars /\ v # Nil =>
        /\ type \in {"Struct", "ListValue", "Value"} => v[2] \in PbValues
        /\ type = "Struct" => v[2][1] = "struct"
        /\ type = "ListValue" => v[2][1] = "list"
        /\ type = "message" => ArePairs(v[2].pairs)
        /\ type = "Any" /\ v[2].payload[1] = "pairs" => ArePairs(v[2].payload[2])

(* A message its types allow: nothing is held inside what is not, only the *)
(* branch of a oneof can be held and nil, and a oneof holds at most one of *)
(* its branches.                                                           *)
Consistent(m) ==
    /\ \A path \in DOMAIN m :
          LET f == LeafOf(path)
          IN  m[path] # Unset /\ IsMessage(f) /\ ~IsCollection(f) /\ ~InOneof(f) =>
                  m[path][2] # Nil
    /\ \A path \in DOMAIN m : \A n \in 1..Len(path) - 1 :
          m[path] # Unset => m[Prefix(path, n)] # Unset /\ m[Prefix(path, n)][2] # Nil
    /\ \A p, q \in DOMAIN m :
          /\ p # q /\ Len(p) = Len(q)
          /\ Prefix(p, Len(p) - 1) = Prefix(q, Len(q) - 1)
          /\ InOneof(LeafOf(p)) /\ LeafOf(p).oneof = LeafOf(q).oneof
          => m[p] = Unset \/ m[q] = Unset
    /\ \A path \in DOMAIN m :
          LET f == LeafOf(path)
              v == m[path][2]
          IN  m[path] # Unset =>
                  /\ f.card = "one" => Allowed(f.type, v)
                  /\ f.card = "list" => v \in Seq(Range(v))
                  /\ f.card = "map" => DOMAIN v \in KeySets
                  /\ IsCollection(f) => \A n \in DOMAIN v : Allowed(f.type, v[n])

-----------------------------------------------------------------------------
(* Elements                                                                *)

(* The encoder of a nested message: its own pairs, or an error.            *)
NestedJSON(v) == IF v = Nil THEN Null
                 ELSE IF v[2].fails THEN Failed("nested") ELSE Obj(v[2].pairs)

(* pickExpr: the value a pick leads to inside an element.                  *)
Picked(v, type) == IF v = Nil \/ v[2].picked = Unset THEN ZeroOf(type) ELSE v[2].picked[2]

JSONOf(type, v, sc, ord) == IF type = "message" THEN NestedJSON(v) ELSE ValueJSON(type, v, sc, ord)

(* element *)
ElementJSON(e, f, v, ord) == IF e.pick = "none" THEN JSONOf(f.type, v, e.sc, ord)
                             ELSE JSONOf(e.pick, Picked(v, e.pick), e.sc, ord)

ElementText(e, f, v) == IF e.pick = "none" THEN StringOf(f.type, v, e.sc)
                        ELSE StringOf(e.pick, Picked(v, e.pick), e.sc)

(* The elements of a list, or of a map by its sorted keys.                 *)
Elements(f, values, ord) ==
    IF f.card = "list" THEN values
    ELSE LET keys == SortedKeys(values, ord) IN [n \in DOMAIN keys |-> values[keys[n]]]

ElementJSONs(e, f, values, ord) ==
    LET elements == Elements(f, values, ord)
    IN  [n \in DOMAIN elements |-> ElementJSON(e, f, elements[n], ord)]

KeyStrings(values, ord) ==
    LET keys == SortedKeys(values, ord) IN [n \in DOMAIN keys |-> KeyString(keys[n])]

JoinJSON(e, f, values, ord) ==
    LET elements == Elements(f, values, ord)
    IN  Str(<<"join", [n \in DOMAIN elements |-> ElementText(e, f, elements[n])]>>)

KeepJSON(e, f, values, ord) ==
    IF f.card = "list" THEN Array(ElementJSONs(e, f, values, ord))
    ELSE Object(KeyStrings(values, ord), ElementJSONs(e, f, values, ord))

(* collectionValue: a collection where the key is already decided on.      *)
CollectionJSON(e, f, values, ord) ==
    CASE e.sc.cardinality = "COUNT" -> Num(Len(Elements(f, values, ord)))
      [] e.sc.cardinality = "JOIN" -> JoinJSON(e, f, values, ord)
      [] OTHER -> KeepJSON(e, f, values, ord)

-----------------------------------------------------------------------------
(* What each kind of entry offers                                          *)

Pair(e, json) == << <<e.key, json>> >>

(* Fault: an optional field is dropped at zero like the others.            *)
WorthUnlessZero(e, m) ==
    LET f == LeafOf(e.path)
    IN  IF IsScalarBranch(f) THEN m[e.path] # Unset
        ELSE e.sc.emitEmpty \/ Get(m, e.path) # ZeroOf(f.type)

(* scalar: when the entry writes its one value.                            *)
Worth(e, m) ==
    LET f == LeafOf(e.path)
        v == Get(m, e.path)
    IN  CASE IsScalarBranch(f) -> m[e.path] # Unset
          [] ~IsScalarBranch(f) /\ e.sc.emitEmpty -> TRUE
          [] ~IsScalarBranch(f) /\ ~e.sc.emitEmpty ->
                /\ v \notin f.omits
                /\ IF f.optional /\ f.omits = {} THEN m[e.path] # Unset
                                                  ELSE v # ZeroOf(f.type)

ScalarOffers(e, m, ord) ==
    IF Worth(e, m)
    THEN Pair(e, ValueJSON(LeafOf(e.path).type, Get(m, e.path), e.sc, ord)) ELSE <<>>

(* object *)
ObjectOffers(e, m, ord) ==
    IF e.sc.emitEmpty \/ Get(m, e.path) # Nil THEN Pair(e, NestedJSON(Get(m, e.path))) ELSE <<>>

(* guardNonEmpty *)
Guarded(e, values, json) ==
    IF e.sc.emitEmpty \/ DOMAIN values # {} THEN Pair(e, json) ELSE <<>>

(* collectionPick: the first or the last element, written for no emptiness.*)
PickOffers(e, f, values, ord) ==
    LET jsons == ElementJSONs(e, f, values, ord)
    IN  IF DOMAIN values = {} THEN <<>>
        ELSE Pair(e, jsons[IF e.sc.cardinality = "LAST" THEN Len(jsons) ELSE 1])

InlineOffers(e, f, values, ord) ==
    LET keys == SortedKeys(values, ord)
    IN  [n \in DOMAIN keys |-> << <<"inline", e.key, KeyString(keys[n])>>,
                                  ElementJSON(e, f, values[keys[n]], ord)>>]

(* Encoded and spread: the pairs of an element's object, renamed.  What is *)
(* not an object, such as the null of a nil element, is an error.          *)
SpreadOffers(v, prefix) ==
    IF v = Nil THEN << <<prefix, Failed("not an object")>> >>
    ELSE IF v[2].fails THEN << <<prefix, Failed("nested")>> >>
    ELSE [n \in DOMAIN v[2].pairs |-> <<SpreadKey(prefix, v[2].pairs[n][1]), v[2].pairs[n][2]>>]

(* Under indices, the elements that are objects themselves are spread.     *)
NumbersObjects(f) == f.card = "list" /\ f.type = "message"

IndexedOffers(e, f, values, ord) ==
    IF NumbersObjects(f)
    THEN FlattenSeq([n \in DOMAIN values |->
            SpreadOffers(values[n], <<"nested", e.key, n - 1>>)])
    ELSE LET jsons == ElementJSONs(e, f, values, ord)
         IN  [n \in DOMAIN jsons |-> << <<"indexed", e.key, n - 1>>, jsons[n]>>]

(* Fault: every element without keys is written under the field's own.     *)
ExplodeEveryOffers(e, f, values, ord) ==
    IF f.type # "message" THEN [n \in DOMAIN values |-> <<e.key, ElementJSON(e, f, values[n], ord)>>]
    ELSE FlattenSeq([n \in DOMAIN values |-> SpreadOffers(values[n], <<"own">>)])

(* Elements without keys leave the first of them the field's own key.      *)
ExplodeOffers(e, f, values, ord) ==
    IF f.type # "message" THEN PickOffers(e, f, values, ord)
    ELSE FlattenSeq([n \in DOMAIN values |-> SpreadOffers(values[n], <<"own">>)])

(* collection *)
CollectionOffers(e, m, ord) ==
    LET f      == LeafOf(e.path)
        values == Get(m, e.path)
    IN  CASE e.sc.cardinality \in {"FIRST", "LAST"} -> PickOffers(e, f, values, ord)
          [] e.sc.cardinality = "INLINE_KEYS" -> InlineOffers(e, f, values, ord)
          [] e.sc.cardinality = "INDEXED" -> IndexedOffers(e, f, values, ord)
          [] e.sc.cardinality = "EXPLODE" -> ExplodeOffers(e, f, values, ord)
          [] e.sc.cardinality = "KEYS" ->
                LET keys == KeyStrings(values, ord)
                IN  Guarded(e, values, Arr([n \in DOMAIN keys |-> Str(keys[n])]))
          [] e.sc.cardinality = "VALUES" ->
                Guarded(e, values, Array(ElementJSONs(e, f, values, ord)))
          [] OTHER -> Guarded(e, values, CollectionJSON(e, f, values, ord))

(* The branch of a oneof the message holds, whose owner the path leads to. *)
ActiveBranches(e, m) == {f \in Range(e.branches) : m[Append(e.path, f)] # Unset}
Branch(e, m) == CHOOSE f \in ActiveBranches(e, m) : TRUE

UnsetOffers(e) == IF e.omitIfUnset THEN <<>> ELSE Pair(e, Null)

(* discriminator *)
DiscriminatorOffers(e, m, ord) ==
    IF ActiveBranches(e, m) = {} THEN UnsetOffers(e)
    ELSE Pair(e, Str(<<"tag", Branch(e, m)>>))

(* oneofValue *)
OneofValueOffers(e, m, ord) ==
    IF ActiveBranches(e, m) = {} THEN UnsetOffers(e)
    ELSE LET path == Append(e.path, Branch(e, m))
         IN  Pair(e, JSONOf(LeafOf(path).type, Get(m, path), e.sc, ord))

StructPickOffers(e, m, ord) ==
    LET picked == PickStruct(Get(m, e.path), e.structPath)
    IN  IF picked = Nil THEN <<>> ELSE Pair(e, PbJSON(ord)[picked])

-----------------------------------------------------------------------------
(* merge                                                                   *)

(* presenceTest *)
Present(m, path) ==
    LET f == LeafOf(path)
    IN  CASE f.card = "map" \/ (f.card = "list" /\ IsMessage(f)) -> m[path] # Unset
          [] f.card = "list" /\ ~IsMessage(f) -> Get(m, path) # <<>>
          [] f.card = "one" /\ f.optional -> m[path] # Unset
          [] OTHER -> Get(m, path) # ZeroOf(f.type)

(* The sources up to the nth that hold a value, one after the other.       *)
LiveTo(e, m) ==
    LET live[n \in 0..Len(e.sources)] ==
            IF n = 0 THEN <<>>
            ELSE IF Present(m, e.sources[n]) THEN Append(live[n - 1], e.sources[n])
                                             ELSE live[n - 1]
    IN  live

Live(e, m) == LiveTo(e, m)[Len(e.sources)]

(* Fault: the sources are tried in declaration order whatever is asked.    *)
TriedInOrder(e) == e.sources

Tried(e) == IF e.conflict = "LAST_NON_EMPTY" THEN Reverse(e.sources) ELSE e.sources

(* Fault: one live source is already one too many.                         *)
ConflictsAtOne(e, m) == e.conflict = "ERROR" /\ Live(e, m) # <<>>

Conflicts(e, m) == e.conflict = "ERROR" /\ Len(Live(e, m)) > 1

SourceJSON(e, m, path, ord) ==
    IF IsCollection(LeafOf(path)) THEN CollectionJSON(e, LeafOf(path), Get(m, path), ord)
    ELSE ValueJSON(LeafOf(path).type, Get(m, path), e.sc, ord)

MergeOffers(e, m, ord) ==
    LET live == {n \in DOMAIN Tried(e) : Present(m, Tried(e)[n])}
    IN  IF live # {} THEN Pair(e, SourceJSON(e, m, Tried(e)[Min(live)], ord))
        ELSE IF e.sc.emitEmpty THEN Pair(e, Null) ELSE <<>>

-----------------------------------------------------------------------------
(* The encoder                                                             *)

(* entry *)
Offers(e, m, ord) ==
    CASE e.kind = "constant"      -> Pair(e, e.const)
      [] e.kind = "scalar"        -> ScalarOffers(e, m, ord)
      [] e.kind = "object"        -> ObjectOffers(e, m, ord)
      [] e.kind = "collection"    -> CollectionOffers(e, m, ord)
      [] e.kind = "discriminator" -> DiscriminatorOffers(e, m, ord)
      [] e.kind = "oneofValue"    -> OneofValueOffers(e, m, ord)
      [] e.kind = "merge"         -> MergeOffers(e, m, ord)
      [] e.kind = "structPick"    -> StructPickOffers(e, m, ord)

(* Fault: only the entry's own branch is looked at.                        *)
ReachedByLeaf(e, m) ==
    e.sc.emitEmpty /\ e.path # <<>> /\ InOneof(LeafOf(e.path)) /\ IsMessage(LeafOf(e.path))
        => Get(m, e.path) # Nil

(* openBranchGuards: under emit_empty the branches on the way are tested;  *)
(* a scalar branch tests itself.                                           *)
Reached(e, m) ==
    e.sc.emitEmpty =>
        \A n \in DOMAIN e.path :
            InOneof(Info[e.path[n]]) /\ ~(n = Len(e.path) /\ ~IsMessage(Info[e.path[n]]))
                => Get(m, Prefix(e.path, n)) # Nil

(* The paths a walk can take through message types: through messages, to   *)
(* a field the message has a place for, and no branch is a collection.     *)
LegalPath(m, path) ==
    /\ path \in Seq(DOMAIN Info)
    /\ \A n \in DOMAIN path :
          /\ Prefix(path, n) \in DOMAIN m
          /\ n < Len(path) => Info[path[n]].type = "message"
          /\ InOneof(Info[path[n]]) => ~IsCollection(Info[path[n]]) /\ ~Info[path[n]].optional

(* What resolveMerges lets a rule merge: sources of one shape.  A branch   *)
(* of a oneof that is a scalar makes code Go refuses (presenceTest).       *)
LegalSources(m, e) ==
    /\ e.pick = "none" /\ e.sources \in Seq(Range(e.sources))
    /\ \A path \in Range(e.sources) :
          path # <<>> /\ LegalPath(m, path) /\ ~IsScalarBranch(LeafOf(path))
    /\ \A p, q \in Range(e.sources) : JSONShape(LeafOf(p), e.sc) = JSONShape(LeafOf(q), e.sc)
    /\ e.sc.time \in TimeFormats /\ e.sc.duration \in DurationFormats

(* What a collection may ask for: keys only maps have, and only a list can *)
(* be exploded in code Go compiles (validateCardinality); and what its     *)
(* pick finds in the elements.                                             *)
LegalCollection(m, e) ==
    LET f == LeafOf(e.path)
    IN  /\ e.sc.cardinality \in {"KEYS", "VALUES", "INLINE_KEYS"} => f.card = "map"
        /\ e.sc.cardinality = "EXPLODE" => f.card = "list"
        /\ e.pick # "none" =>
              \A v \in Range(Get(m, e.path)) : Allowed(e.pick, Picked(v, e.pick))

(* What leads to each kind of entry (walkField, walkOneof, appendMerges).  *)
LegalEntry(m, e) ==
    /\ LegalPath(m, e.path)
    /\ \/ e.kind = "constant" /\ e.path = <<>> /\ ~IsFailed(e.const) /\ WellMade(e.const)
       \/ e.kind = "merge" /\ e.path = <<>> /\ LegalSources(m, e)
       \/ /\ e.kind \in {"discriminator", "oneofValue"}
          /\ e.path # <<>> => LeafOf(e.path).type = "message"
          /\ \A f \in Range(e.branches) : InOneof(Info[f]) /\ LegalPath(m, Append(e.path, f))
       \/ e.kind = "collection" /\ e.path # <<>> /\ IsCollection(LeafOf(e.path))
                                 /\ LegalCollection(m, e)
       \/ /\ e.kind \in {"scalar", "object", "structPick"}
          /\ e.path # <<>> /\ ~IsCollection(LeafOf(e.path))
          /\ e.kind = "object" => LeafOf(e.path).type = "message"
          /\ e.kind = "structPick" =>
                LeafOf(e.path).type = "Struct"
                /\ e.structPath \in Seq({"text"} \X Int) \ {<<>>}

ASSUME InfoAssumption ==
    \A f \in DOMAIN Info : /\ Info[f].type \in Scalars \cup WellKnown \cup {"message"}
                           /\ Info[f].card \in {"one", "list", "map"}

(* Go lists the keys of a map in some order, each of them once.            *)
ASSUME MapOrdersAssumption ==
    \A ord \in MapOrders : \A keys \in KeySets :
        ord[keys] \in Seq(keys) /\ IsInjective(ord[keys]) /\ Range(ord[keys]) = keys

ASSUME CasesAssumption ==
    \A c \in Cases : /\ c.plan \in Seq(Range(c.plan))
                     /\ \A m \in c.messages : \A a \in DOMAIN c.plan : LegalEntry(m, c.plan[a])

Init == /\ \E c \in Cases : plan = c.plan /\ held \in c.messages
        /\ Consistent(held)
        /\ order \in MapOrders
        /\ at = 1
        /\ out = <<>>
        /\ err = NoError

Running == at \in DOMAIN plan /\ err = NoError

SkipInactive == /\ Running
                /\ ~Reached(plan[at], held)
                /\ out' = Append(out, <<>>)
                /\ at' = at + 1
                /\ UNCHANGED <<plan, held, order, err>>

(* Several sources of a merge hold a value: a MergeConflictError.          *)
MergeFails == /\ Running
              /\ Reached(plan[at], held)
              /\ plan[at].kind = "merge"
              /\ Conflicts(plan[at], held)
              /\ err' = <<"conflict", plan[at].key, Live(plan[at], held)>>
              /\ UNCHANGED <<plan, held, order, at, out>>

Emitting == /\ Running
            /\ Reached(plan[at], held)
            /\ plan[at].kind = "merge" => ~Conflicts(plan[at], held)

(* The first of some offers that fails, 0 when none does.                  *)
Failing(offers) == SelectInSeq(offers, LAMBDA offer : IsFailed(offer[2]))

Emit == /\ Emitting
        /\ LET offers == Offers(plan[at], held, order)
           IN  Failing(offers) = 0 /\ out' = Append(out, offers)
        /\ at' = at + 1
        /\ UNCHANGED <<plan, held, order, err>>

(* A value that cannot be written: the encoder returns its error.          *)
EmitFails == /\ Emitting
             /\ LET offers  == Offers(plan[at], held, order)
                    failing == Failing(offers)
                IN  /\ failing # 0
                    /\ err' = offers[failing][2]
                    /\ out' = Append(out, SubSeq(offers, 1, failing - 1))
             /\ UNCHANGED <<plan, held, order, at>>

Next == SkipInactive \/ MergeFails \/ Emit \/ EmitFails

Spec == Init /\ [][Next]_vars

-----------------------------------------------------------------------------
(* Properties                                                              *)

Ended == at > Len(plan)

(* The pairs an entry has offered, and the values among them.              *)
Writes(a) == IF a \in DOMAIN out THEN out[a] ELSE <<>>
Written(a) == {pair[2] : pair \in Range(Writes(a))}

Holds(path) == held[path] # Unset

(* A field holds something to write: what its presence is decided by.      *)
HoldsValue(path) ==
    LET f == LeafOf(path)
    IN  /\ Holds(path)
        /\ \/ IsCollection(f) /\ DOMAIN held[path][2] # {}
           \/ ~IsCollection(f) /\ IsMessage(f) /\ held[path][2] # Nil
           \/ ~IsCollection(f) /\ ~IsMessage(f) /\ (f.optional \/ InOneof(f))
           \/ ~IsCollection(f) /\ ~IsMessage(f) /\ held[path][2] # ZeroOf(f.type)

(* Every oneof branch on the way is the active one and not a nil message.  *)
BranchesActive(path) ==
    \A n \in DOMAIN path :
        InOneof(Info[path[n]]) =>
            /\ Holds(Prefix(path, n))
            /\ IsMessage(Info[path[n]]) => held[Prefix(path, n)][2] # Nil

(* The modes that write one element, which an empty collection has not.    *)
OneElement(e) == e.kind = "collection" /\ e.sc.cardinality \in {"FIRST", "LAST", "EXPLODE"}

Spreads(e) == /\ e.kind = "collection"
              /\ \/ e.sc.cardinality \in {"INLINE_KEYS", "INDEXED"}
                 \/ e.sc.cardinality = "EXPLODE" /\ LeafOf(e.path).type = "message"

(* A field's key is there when the field holds something, or for           *)
(* emit_empty always when the branches it is in are active: an optional    *)
(* zero is written, a value of an inactive branch or below a missing       *)
(* message never.  Left out: enums some values of which are omitted        *)
(* (scalar, object and guardNonEmpty).                                     *)
PresenceDecides ==
    Ended => \A a \in DOMAIN plan :
        LET e == plan[a]
        IN  /\ e.kind \in {"scalar", "object", "collection"}
            /\ ~Spreads(e)
            /\ LeafOf(e.path).omits = {}
            => (Writes(a) # <<>>
                    <=> IF e.sc.emitEmpty /\ ~OneElement(e) THEN BranchesActive(e.path)
                                                            ELSE HoldsValue(e.path))

(* Two paths that part at different branches of one oneof.                 *)
Apart(p, q) ==
    \E n \in DOMAIN p \cap DOMAIN q :
        /\ Prefix(p, n - 1) = Prefix(q, n - 1)
        /\ p[n] # q[n]
        /\ InOneof(Info[p[n]]) /\ Info[p[n]].oneof = Info[q[n]].oneof

(* A oneof's own key is null when the oneof is unset, also when what holds *)
(* it is missing.                                                          *)
WritesUnset(e) == /\ e.kind \in {"discriminator", "oneofValue"}
                  /\ ~e.omitIfUnset /\ ~e.sc.emitEmpty

(* No message makes two entries write that lie in different branches of    *)
(* one oneof: what the collision analysis takes for granted when it lets   *)
(* branches share a key.                                                   *)
BranchesExclusive ==
    \A a, b \in DOMAIN out :
        /\ out[a] # <<>> /\ ~WritesUnset(plan[a])
        /\ out[b] # <<>> /\ ~WritesUnset(plan[b])
        => ~Apart(plan[a].path, plan[b].path)

(* What a merge rule takes for a value: also an empty map, or an empty     *)
(* list of messages, that is not nil.                                      *)
MergeHolds(path) ==
    LET f == LeafOf(path)
    IN  IF f.card = "map" \/ (f.card = "list" /\ IsMessage(f)) THEN Holds(path)
                                                               ELSE HoldsValue(path)

Holding(e) == {n \in DOMAIN e.sources : MergeHolds(e.sources[n])}

(* A merge rule's key has the value of the first source that holds one, or *)
(* the last when the rule says so, never of another and never twice; when  *)
(* an encode ends under MERGE_CONFLICT_ERROR at most one did.              *)
MergeResolves ==
    Ended => \A a \in DOMAIN plan :
        LET e       == plan[a]
            holding == Holding(e)
            chosen  == IF e.conflict = "LAST_NON_EMPTY" THEN Max(holding) ELSE Min(holding)
        IN  e.kind = "merge" =>
                /\ e.conflict = "ERROR" => Cardinality(holding) <= 1
                /\ Len(Writes(a)) = (IF holding # {} \/ e.sc.emitEmpty THEN 1 ELSE 0)
                /\ Len(Writes(a)) = 1 =>
                      Writes(a)[1][2] = IF holding = {} THEN Null
                                          ELSE SourceJSON(e, held, e.sources[chosen], order)

(* What jsonShape misjudges: bytes as an array, a field mask, the text of  *)
(* a number JSON has not, collections reduced to a count or a text.        *)
Misjudged(f, sc) == \/ IsCollection(f) /\ sc.cardinality # "KEEP"
                    \/ ~IsCollection(f) /\ f.type \in {"bytes", "BytesValue"} /\ sc.bytes = "ARRAY"
                    \/ ~IsCollection(f) /\ f.type \in {"FieldMask", "double", "DoubleValue"}

(* A merge rule is refused unless its sources have one shape: whichever    *)
(* source wins, the key has the JSON type that was checked (jsonShape).    *)
ShapeAsChecked ==
    \A a \in DOMAIN out :
        LET e == plan[a]
        IN  e.kind = "merge" /\ (\A p \in Range(e.sources) : ~Misjudged(LeafOf(p), e.sc)) =>
                \A json \in Written(a) \ {Null} : \A p \in Range(e.sources) :
                    JSONShape(LeafOf(p), e.sc) \in {json[1], "any"}

(* A key for each element, made of the entry's and a map key or an index;  *)
(* no key of the element's own, which the others might have too, is in it. *)
KeyPerElement(e) ==
    /\ e.kind = "collection"
    /\ \/ e.sc.cardinality = "INLINE_KEYS"
       \/ e.sc.cardinality = "INDEXED" /\ ~NumbersObjects(LeafOf(e.path))

(* How the entries of PlanEntries may write: at most once, and under its   *)
(* own key, unless the entry spreads; and where each element has one key   *)
(* (inlineKeys, indexed), as many keys as there are elements, all of them  *)
(* different.  The keys of objects that are spread may well be the same.   *)
OffersFitPlan ==
    \A a \in DOMAIN plan :
        LET e     == plan[a]
            pairs == Writes(a)
        IN  /\ ~Spreads(e) => Len(pairs) <= 1 /\ \A n \in DOMAIN pairs : pairs[n][1] = e.key
            /\ KeyPerElement(e) =>
                  /\ \A x, y \in DOMAIN pairs : x # y => pairs[x][1] # pairs[y][1]
                  /\ Ended /\ Reached(e, held) =>
                        Len(pairs) = Cardinality(DOMAIN Get(held, e.path))

(* What is written is the same whatever order Go lists map keys in: fields *)
(* that are maps, the elements of an array of values, the first and the    *)
(* last, the indices, and the members of a Struct (SortedKeys).            *)
Deterministic ==
    \A a \in DOMAIN plan : \A other \in MapOrders :
        Offers(plan[a], held, order) = Offers(plan[a], held, other)

(* A written time is the one the message holds, as far as its format can   *)
(* say it (Timestamp and Duration).                                        *)
TimesReadBack ==
    \A a \in DOMAIN out : \A json \in Written(a) :
        LET e == plan[a]
        IN  e.kind = "scalar" /\ HoldsValue(e.path) =>
                LET v == held[e.path][2][2]
                IN  /\ LeafOf(e.path).type = "Timestamp" => TimestampExact(json, v, e.sc.time)
                    /\ LeafOf(e.path).type = "Duration" => DurationExact(json, v, e.sc.duration)

(* A list names some of the sources, each once, in the order of the rule.  *)
Lists(list, sources, some) ==
    \E place \in [DOMAIN list -> some] :
        /\ \A x, y \in DOMAIN list : x < y => place[x] < place[y]
        /\ Range(place) = some
        /\ \A x \in DOMAIN list : list[x] = sources[place[x]]

(* An encode fails only for a reason in the message, the merge sources in  *)
(* conflict named in the order of the rule, and what failed is never part  *)
(* of a value that is written.                                             *)
FailureHasCause ==
    /\ \A a \in DOMAIN out : \A json \in Written(a) : WellMade(json)
    /\ err[1] = "conflict" =>
          /\ Len(err[3]) > 1
          /\ Lists(err[3], plan[at].sources, Holding(plan[at]))
    /\ err = Failed("not an object") =>
          Spreads(plan[at]) /\ Nil \in Range(held[plan[at].path][2])

(* A pick into a Struct writes what the whole Struct, written, has at that *)
(* path, and nothing when it has nothing there but a nil (PickStruct).     *)
PickReadsStruct ==
    Ended => \A a \in DOMAIN plan :
        plan[a].kind = "structPick" =>
            LET json  == ValueJSON("Struct", Get(held, plan[a].path), plan[a].sc, order)
                found == JSONAt(json, plan[a].structPath)
            IN  IF Writes(a) = <<>> THEN IsFailed(found) \/ found = Null
                ELSE found = Writes(a)[1][2]
=============================================================================
