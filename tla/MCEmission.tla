----------------------------- MODULE MCEmission ----------------------------
(***************************************************************************)
(* Small plans for every kind of entry, each run on all messages its       *)
(* fields allow.  A field is the tuple of its type, its cardinality, its   *)
(* presence (or its oneof) and its name.                                   *)
(***************************************************************************)
EXTENDS Emission

MCInfo == [f \in (Scalars \cup WellKnown \cup {"message"})
                 \X {"one", "list", "map"}
                 \X {"plain", "optional", "o", "p", "omits", "optional omits"}
                 \X {"x", "y"} |->
              [type     |-> f[1],
               card     |-> f[2],
               optional |-> f[3] \in {"optional", "optional omits"},
               oneof    |-> IF f[3] \in {"o", "p"} THEN f[3] ELSE NoOneof,
               omits    |-> IF f[3] \in {"omits", "optional omits"} THEN {0, 2} ELSE {}]]

One(type, presence, name) == <<type, "one", presence, name>>
Field(type) == One(type, "plain", "x")
List(type) == <<type, "list", "plain", "x">>
Map(type) == <<type, "map", "plain", "x">>

(* The branches of oneof o; p is a oneof inside them.                      *)
X == One("message", "o", "x")
Y == One("message", "o", "y")
C == One("int32", "o", "x")
U == One("int32", "p", "x")
V == One("string", "p", "x")

-----------------------------------------------------------------------------
(* Map keys and Struct members                                             *)

Near == <<"text", 1>>
Far == <<"text", 2>>
Low == <<"int", 2>>
High == <<"int", 10>>
MapKeys == {{Near, Far}, {Low, High}, {<<"bool", TRUE>>, <<"bool", FALSE>>}}
MCKeySets == MapKeys \cup {{}, {Near}}

(* All keys, and the order of some among them.                             *)
Listed == <<High, Far, <<"bool", TRUE>>, Low, Near, <<"bool", FALSE>> >>
Among(list) == [keys \in MCKeySets |-> SelectSeq(list, LAMBDA k : k \in keys)]
MCMapOrders == {Among(Listed), Among(Reverse(Listed))}

PbLeaves == {<<"number", "1.5">>, <<"number", "NaN">>, <<"null">>, <<"nil">>}
PbLists == {<<"list", <<>> >>, <<"list", << <<"number", "1.5">>, <<"null">> >> >>}
PbInner == {<<"struct", Near :> v>> : v \in PbLeaves}
PbOuter == {<<"struct", (Far :> v) @@ (Near :> w)>> : v \in PbInner \cup PbLeaves, w \in PbInner}
PbOthers == {<<"string", <<"text", 1>> >>, <<"bool", TRUE>>, <<"kindless">>}
MCPbLevels == <<PbLeaves \cup PbOthers, PbLists \cup PbInner, PbOuter>>

-----------------------------------------------------------------------------
(* What fields hold                                                        *)

Message(pairs, fails, picked) == Of([pairs |-> pairs, fails |-> fails, picked |-> picked])
(* One key comes twice, as where a oneof's null is a second one.           *)
Own == << << <<"text", "k">>, Num(1)>>, << <<"text", "l">>, Null>>, << <<"text", "k">>, Null>> >>

(* With two elements at most, the indices have one digit each: the keys of *)
(* one element cannot run into those of the other.                         *)
MCSpreadKey(prefix, key) == Append(prefix, key)

Seconds == {-3, -1, 0, 1, 3}
Nanos == {0, 1, Kilo, 3 * Kilo, Mega, Giga - 1}

Contents(type) ==
    CASE type = "bool" -> BOOLEAN
      [] type \in {"string", "bytes"} -> {<<>>, <<1>>}
      [] type = "enum" -> 0..2
      [] type \in {"int32", "int64"} -> {0, 1}
      [] type = "double" -> {"0", "NaN", "1.5"}
      [] type = "message" -> {Message(Own, FALSE, Unset),
                              Message(<<>>, TRUE, Unset)}
      [] type = "Timestamp" -> {Of([seconds |-> s, nanos |-> n]) : s \in Seconds, n \in Nanos}
      [] type = "Duration" -> {Of(d) : d \in {t \in [seconds : Seconds,
                                                      nanos : Nanos \cup {-n : n \in Nanos}] :
                                                 ValidDuration(t)}}
      [] type = "BoolValue" -> {Of(TRUE)}
      [] type \in {"StringValue", "BytesValue"} -> {Of(<<>>), Of(<<1>>)}
      [] type \in {"Int32Value", "Int64Value"} -> {Of(0), Of(1)}
      [] type = "DoubleValue" -> {Of("Infinity")}
      [] type = "FieldMask" -> {Of(<<"path">>)}
      [] type = "Empty" -> {Of("empty")}
      [] type = "Struct" -> {Of(v) : v \in PbInner \cup PbOuter}
      [] type = "ListValue" -> {Of(v) : v \in PbLists}
      [] type = "Value" -> {Of(v) : v \in PbValues}
      [] type = "Any" -> {Of([url |-> "u", payload |-> p]) :
                             p \in {<<"unknown">>, <<"fails">>, <<"pairs", Own>>}}

(* Fewer of them where several are held at once.                           *)
Few(type) ==
    CASE type = "message" -> {Nil, Message(<<>>, TRUE, Unset), Message(Own, FALSE, Is(1))}
      [] type = "Timestamp" -> {Of([seconds |-> 1, nanos |-> Kilo])}
      [] type = "Any" -> Contents(type)
      [] type = "enum" -> {0, 1}
      [] type \in Scalars \ {"enum"} -> Contents(type)
      [] OTHER -> {CHOOSE v \in Contents(type) : TRUE}

HeldOf(f, many) ==
    {Unset} \cup
    {Is(v) : v \in
        CASE f[2] = "list" -> {<<>>} \cup {<<v>> : v \in Few(f[1])} \cup (Few(f[1]) \X Few(f[1]))
          [] f[2] = "map" -> {<<>>} \cup UNION {[keys -> Few(f[1])] : keys \in MapKeys}
          [] f[2] = "one" /\ many -> Few(f[1])
          [] f[2] = "one" /\ ~many ->
                Contents(f[1]) \cup (IF f[3] = "o" /\ f[1] = "message" THEN {Nil} ELSE {})}

(* The paths an entry can look at, with what leads to them.                *)
Ways(path) == Prefixes(path) \ {<<>>}

PathsOf(e) == Ways(e.path) \cup {Append(e.path, f) : f \in Range(e.branches)}
                               \cup UNION {Ways(path) : path \in Range(e.sources)}

RECURSIVE Assignments(_, _)
Assignments(paths, many) ==
    IF paths = {} THEN {<<>>}
    ELSE LET path == CHOOSE p \in paths : \A q \in paths : Len(p) <= Len(q)
         IN  {m @@ (path :> h) : m \in Assignments(paths \ {path}, many),
                                 h \in HeldOf(path[Len(path)], many)}

(* All that matters of a message on the way is whether it is there.        *)
There(m) == \A p, q \in DOMAIN m : p # q /\ IsPrefix(p, q) => m[p] \in {Unset, Is(Nil), Is(Message(Own, FALSE, Is(1))), Is(Message(Own, FALSE, Unset))}

Case(entries, many) ==
    [plan     |-> entries,
     messages |-> {m \in Assignments(UNION {PathsOf(e) : e \in Range(entries)}, many) :
                      Consistent(m) /\ There(m)}]

-----------------------------------------------------------------------------
(* Scopes and entries                                                      *)

Sc(emitEmpty, cardinality, n) ==
    [emitEmpty   |-> emitEmpty,
     cardinality |-> cardinality,
     enum        |-> IF n = 2 THEN "NUMBER" ELSE "NAME",
     int64       |-> IF n = 2 THEN "NUMBER" ELSE "STRING",
     bytes       |-> <<"BASE64", "BASE64URL", "HEX", "ARRAY", "BASE64">>[n],
     time        |-> <<"RFC3339", "UNIX_SECONDS", "UNIX_MILLI", "UNIX_MICRO", "UNIX_NANO">>[n],
     duration    |-> <<"PROTOJSON", "SECONDS", "MILLIS", "NANOS", "PROTOJSON">>[n]]

Entry(kind, key, path, sc) ==
    [kind |-> kind, key |-> <<"key", key>>, path |-> path, sc |-> sc, pick |-> "none",
     branches |-> <<>>, omitIfUnset |-> FALSE, sources |-> <<>>, conflict |-> "none",
     structPath |-> <<>>, const |-> Null]

OfOneof(kind, key, path, branches, omitIfUnset, sc) ==
    [Entry(kind, key, path, sc) EXCEPT !.branches = branches, !.omitIfUnset = omitIfUnset]

(* A message with a oneof in a oneof, everything in it written.            *)
OneofCases ==
    {Case(<<Entry("scalar", 1, <<X, Field("int32")>>, sc),
            Entry("collection", 2, <<X, List("int32")>>, sc),
            Entry("scalar", 3, <<X, U>>, sc),
            OfOneof("discriminator", 4, <<X>>, <<U, V>>, omit, sc),
            OfOneof("oneofValue", 5, <<X>>, <<U, V>>, omit, sc),
            Entry("object", 6, <<Y>>, sc),
            Entry("scalar", 7, <<C>>, sc),
            OfOneof("discriminator", 8, <<>>, <<X, Y, C>>, omit, sc),
            OfOneof("oneofValue", 9, <<>>, <<X, Y, C>>, omit, sc)>>, TRUE) :
        omit \in BOOLEAN, sc \in {Sc(empty, "KEEP", 1) : empty \in BOOLEAN}}

(* One value of any type, in a message that may be missing.                *)
ValueFields == {One(type, "plain", "x") : type \in Scalars \cup WellKnown}
                   \cup {One(type, "o", "x") : type \in Scalars \cup WellKnown}
                   \cup {One(type, "optional", "x") : type \in Scalars \ {"bytes"}}
                   \cup {One("enum", "omits", "x"), One("enum", "optional omits", "x")}

ScalarCases == {Case(<<Entry("scalar", 1, <<Field("message"), f>>, Sc(empty, "KEEP", n))>>, FALSE) :
                   f \in ValueFields, empty \in BOOLEAN, n \in 1..5}

ObjectCases == {Case(<<[Entry("constant", 1, <<>>, Sc(empty, "KEEP", 1)) EXCEPT !.const = Bool(TRUE)],
                       Entry("object", 2, <<f>>, Sc(empty, "KEEP", 1))>>, FALSE) :
                   f \in {Field("message"), X}, empty \in BOOLEAN}

(* Collections: JOIN and KEYS only where the generator allows them and Go  *)
(* compiles the result.                                                    *)
Collected == {List(t) : t \in {"int32", "string", "Timestamp", "message", "Any"}}
                 \cup {Map(t) : t \in {"enum", "message", "StringValue", "Any"}}

CardinalitiesOf(f, pick) ==
    {"KEEP", "COUNT", "FIRST", "LAST", "INDEXED"}
        \cup (IF f[2] = "map" THEN {"KEYS", "VALUES", "INLINE_KEYS"} ELSE {"EXPLODE"})
        \cup (IF f[1] \in Scalars \/ pick \in Scalars THEN {"JOIN"} ELSE {})

CollectionCases ==
    {Case(<<[Entry("collection", 1, <<X, f>>, Sc(empty, c, 1)) EXCEPT !.pick = pick]>>, TRUE) :
        <<f, pick, c, empty>> \in
            {t \in Collected \X {"none", "int32"}
                   \X {"KEEP", "COUNT", "FIRST", "LAST", "INDEXED", "KEYS", "VALUES",
                       "INLINE_KEYS", "EXPLODE", "JOIN"} \X BOOLEAN :
                /\ t[2] # "none" => t[1][1] = "message"
                /\ t[3] \in CardinalitiesOf(t[1], t[2])}}

(* Merge rules over two or three sources of one shape.                     *)
Sources == {<<Field("int32")>>, <<One("int32", "optional", "x")>>,
            <<X, One("int32", "optional", "y")>>, <<Field("string")>>, <<Field("StringValue")>>,
            <<Field("int64")>>, <<Field("Timestamp")>>, <<Field("message")>>, <<Field("Struct")>>,
            <<List("int32")>>, <<List("message")>>, <<Map("enum")>>, <<Field("enum")>>}

SameShape(sources, sc) == \A p, q \in Range(sources) : JSONShape(LeafOf(p), sc) = JSONShape(LeafOf(q), sc)

SourceLists ==
    {s \in Sources \X Sources : s[1] # s[2]}
        \cup {<< <<One("int32", "optional", "x")>>, <<Field("int32")>>,
                 <<X, One("int32", "optional", "y")>> >>}

MergeCases ==
    {Case(<<[Entry("merge", 1, <<>>, sc) EXCEPT !.sources = s, !.conflict = c]>>, TRUE) :
        <<s, c, sc>> \in
            {t \in SourceLists \X {"FIRST_NON_EMPTY", "LAST_NON_EMPTY", "ERROR"}
                   \X ({Sc(empty, "KEEP", n) : empty \in BOOLEAN, n \in 1..2}
                           \cup {Sc(FALSE, "COUNT", 1), Sc(FALSE, "JOIN", 1)}) :
                /\ SameShape(t[1], t[3])
                /\ t[3].cardinality = "JOIN" =>
                      \A p \in Range(t[1]) : IsCollection(LeafOf(p)) => LeafOf(p).type \in Scalars}}

StructCases ==
    {Case(<<[Entry("structPick", 1, <<Field("message"), Field("Struct")>>, Sc(empty, "KEEP", 1))
                EXCEPT !.structPath = path]>>, FALSE) :
        empty \in BOOLEAN, path \in {<<Near>>, <<Far>>, <<Far, Near>>, <<Near, Near>>, <<Near, Far>>}}

MCCases == OneofCases \cup ScalarCases \cup ObjectCases \cup CollectionCases
               \cup MergeCases \cup StructCases
=============================================================================
