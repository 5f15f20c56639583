------------------------------- MODULE Values ------------------------------
(***************************************************************************)
(* The JSON value of one protobuf value: scalars under the formats of a    *)
(* scope, the well-known types, and the maps inside them, whose keys are   *)
(* sorted because Go lists them in any order.                              *)
(*                                                                         *)
(* A message-shaped value is Nil or Of(content).  "int32", "int64" and     *)
(* "double" stand for their families of types too.                         *)
(***************************************************************************)
EXTENDS Formats, SequencesExt

CONSTANTS
    KeySets,  \* the sets of keys a map may have
    PbLevels  \* the google.protobuf.Values considered, by how deep they nest

PbValues == UNION Range(PbLevels)

(* Map keys: <<"bool", b>>, <<"int", n>> or <<"text", rank>>               *)
OneKind(keys) == \/ keys \subseteq {"bool"} \X BOOLEAN
                 \/ keys \subseteq {"int"} \X Int
                 \/ keys \subseteq {"text"} \X Int

ASSUME KeySetsAssumption == {} \in KeySets /\ \A keys \in KeySets : OneKind(keys)

(* The parts of a value nest less deep than the value.                     *)
ASSUME PbAssumption ==
    /\ PbLevels \in Seq(Range(PbLevels))
    /\ \A n \in DOMAIN PbLevels : \A v \in PbLevels[n] :
          /\ v[1] = "struct" => DOMAIN v[2] \in KeySets /\ DOMAIN v[2] \subseteq {"text"} \X Int
          /\ v[1] = "list" => v[2] \in Seq(Range(v[2]))
          /\ v[1] \in {"struct", "list"} =>
                \A part \in DOMAIN v[2] : \E k \in 1..n - 1 : v[2][part] \in PbLevels[k]

Nil == <<"nil">>
Of(content) == <<"of", content>>

(* An encode that fails while it writes a value.                           *)
Failed(why) == <<"failed", why>>
IsFailed(json) == json[1] = "failed"

(* Arrays and objects are written part by part: the first failure ends it. *)
Failures(jsons) == {n \in DOMAIN jsons : IsFailed(jsons[n])}
Array(jsons) == IF Failures(jsons) # {} THEN jsons[Min(Failures(jsons))] ELSE Arr(jsons)
Object(keys, jsons) ==
    IF Failures(jsons) # {} THEN jsons[Min(Failures(jsons))]
    ELSE Obj([n \in DOMAIN jsons |-> <<keys[n], jsons[n]>>])

-----------------------------------------------------------------------------
KeyLess(a, b) == IF a[1] = "bool" THEN ~a[2] /\ b[2] ELSE a[2] < b[2]

(* Fault: the keys are taken as Go lists them.                             *)
KeysAsListed(map, order) == order[DOMAIN map]

InOrder(keys) == \A m, n \in DOMAIN keys : m < n => ~KeyLess(keys[n], keys[m])
Rearranged(keys, places) == [n \in DOMAIN keys |-> keys[places[n]]]

(* order is how Go happens to list a set of keys, each of them once.  Of   *)
(* the places keys are sorted into only their order is promised.           *)
SortedKeys(map, order) ==
    LET keys   == order[DOMAIN map]
        places == CHOOSE p \in Bijection(DOMAIN keys, DOMAIN keys) : InOrder(Rearranged(keys, p))
    IN  Rearranged(keys, places)

KeyString(k) == IF k[1] = "bool" THEN <<"text", k[2]>>
                ELSE IF k[1] = "int" THEN <<"decimal", k[2]>> ELSE k

-----------------------------------------------------------------------------
(* google.protobuf.Value, Struct and ListValue                             *)

(* json gives the values of the parts.                                     *)
PbFromParts(v, json, order) ==
    CASE v[1] = "number" -> FloatJSON(v[2])
      [] v[1] = "string" -> Str(v[2])
      [] v[1] = "bool" -> Bool(v[2])
      [] v[1] = "struct" ->
            LET keys == SortedKeys(v[2], order)
            IN  Object([n \in DOMAIN keys |-> KeyString(keys[n])],
                       [n \in DOMAIN keys |-> json[v[2][keys[n]]]])
      [] v[1] = "list" -> Array([n \in DOMAIN v[2] |-> json[v[2][n]]])
      [] OTHER -> Null  \* a null, no kind at all, or a nil Value

PbJSON(order) == LET json[v \in PbValues] == PbFromParts(v, json, order) IN json

(* Fault: a part that is not there is skipped.                             *)
MemberOrSame(v, part) == IF v[1] = "struct" /\ part \in DOMAIN v[2] THEN v[2][part] ELSE v

(* One part of a path: what is not a Struct has no members.                *)
Member(v, part) == IF v[1] = "struct" /\ part \in DOMAIN v[2] THEN v[2][part] ELSE Nil

(* The Values on the way down a path, from v on.                           *)
Down(v, path) == LET way[n \in 0..Len(path)] == IF n = 0 THEN v ELSE Member(way[n - 1], path[n])
                 IN  way

(* PickStruct: the Value at a path, Nil when there is none.                *)
PickStruct(struct, path) == IF struct = Nil THEN Nil ELSE Down(struct[2], path)[Len(path)]

(* An Any holds its type URL and what resolving and marshaling its payload *)
(* comes to: "pairs" and the payload's own, or "fails", or nothing that    *)
(* plainjson knows.                                                        *)
AnyJSON(any) ==
    LET type == << <<"text", "@type">>, Str(<<"url", any.url>>) >>
    IN  CASE any.payload[1] = "fails" -> Failed("payload")
          [] any.payload[1] = "pairs" -> Obj(<<type>> \o any.payload[2])
          [] OTHER -> Obj(<<type>>)

-----------------------------------------------------------------------------
(* writer.value                                                            *)

Scalars == {"bool", "string", "bytes", "enum", "int32", "int64", "double"}

Wrapped == [BoolValue |-> "bool", StringValue |-> "string", BytesValue |-> "bytes",
            Int32Value |-> "int32", Int64Value |-> "int64", DoubleValue |-> "double"]

(* isWellKnown                                                             *)
WellKnown == DOMAIN Wrapped \cup {"Timestamp", "Duration", "FieldMask", "Empty", "Struct",
                                  "Value", "ListValue", "Any"}

ZeroOf(type) == CASE type = "bool" -> FALSE
                  [] type \in {"string", "bytes"} -> <<>>
                  [] type = "double" -> "0"
                  [] type \in {"enum", "int32", "int64"} -> 0
                  [] OTHER -> Nil

EnumJSON(v, format) == IF format = "NUMBER" THEN Num(v) ELSE Str(<<"name", v>>)

ScalarJSON(type, v, sc) ==
    CASE type = "bool" -> Bool(v)
      [] type = "string" -> Str(<<"text", v>>)
      [] type = "bytes" -> BytesJSON(v, sc.bytes)
      [] type = "enum" -> EnumJSON(v, sc.enum)
      [] type = "int32" -> Num(v)
      [] type = "int64" -> Int64JSON(v, sc.int64)
      [] type = "double" -> FloatJSON(v)

(* A nil wrapper is read through its getter.                               *)
Unwrap(type, v) == IF v = Nil THEN ZeroOf(Wrapped[type]) ELSE v[2]

ContentJSON(type, content, sc, order) ==
    CASE type = "Timestamp" -> TimestampJSON(content, sc.time)
      [] type = "Duration" -> DurationJSON(content, sc.duration)
      [] type = "FieldMask" -> Str(<<"mask", content>>)
      [] type = "Any" -> AnyJSON(content)
      [] OTHER -> PbJSON(order)[content]

WellKnownJSON(type, v, sc, order) ==
    CASE type \in DOMAIN Wrapped -> ScalarJSON(Wrapped[type], Unwrap(type, v), sc)
      [] type = "Empty" -> Obj(<<>>)
      [] OTHER -> IF v = Nil THEN Null ELSE ContentJSON(type, v[2], sc, order)

(* Of a message that is not well-known nothing is known: an empty object.  *)
ValueJSON(type, v, sc, order) ==
    CASE type \in Scalars -> ScalarJSON(type, v, sc)
      [] type \in WellKnown -> WellKnownJSON(type, v, sc, order)
      [] OTHER -> Obj(<<>>)

(* stringOf: an element of a JOIN.                                         *)
StringOf(type, v, sc) ==
    CASE type = "string" -> <<"text", v>>
      [] type = "enum" -> IF sc.enum = "NUMBER" THEN <<"decimal", v>> ELSE <<"name", v>>
      [] type = "bool" -> <<"boolean", v>>
      [] type = "double" -> <<"float", v>>
      [] OTHER -> <<"decimal", v>>

-----------------------------------------------------------------------------
(* jsonShape: what the generator takes a field to land on                  *)

(* Fault: all integers are taken for numbers.                              *)
IntegerShapeNumber(sc) == "number"

IntegerShape(sc) == IF sc.int64 = "NUMBER" THEN "number" ELSE "string"

ScalarShape(type, sc) ==
    CASE type = "bool" -> "boolean"
      [] type \in {"string", "bytes"} -> "string"
      [] type = "enum" -> IF sc.enum = "NUMBER" THEN "number" ELSE "string"
      [] type = "int64" -> IntegerShape(sc)
      [] OTHER -> "number"

WellKnownShape(type, sc) ==
    CASE type \in DOMAIN Wrapped -> ScalarShape(Wrapped[type], sc)
      [] type = "Timestamp" -> IF sc.time = "RFC3339" THEN "string" ELSE "number"
      [] type = "Duration" -> IF sc.duration = "PROTOJSON" THEN "string" ELSE "number"
      [] type = "ListValue" -> "array"
      [] type = "Value" -> "any"
      [] OTHER -> "object"

TypeShape(type, sc) ==
    CASE type = "message" -> "object"
      [] type \in WellKnown -> WellKnownShape(type, sc)
      [] OTHER -> ScalarShape(type, sc)

(* f is a field: its type and whether it is "one" value, a list or a map.  *)
JSONShape(f, sc) ==
    CASE f.card = "map" -> "object"
      [] f.card = "list" /\ sc.cardinality = "KEEP" -> "array"
      [] OTHER -> TypeShape(f.type, sc)

(* The JSON at a path inside an object that is written, Failed for none.   *)
Named(json, key) == IF json[1] = "object" THEN {n \in DOMAIN json[2] : json[2][n][1] = key} ELSE {}

Inside(json, part) ==
    LET named == Named(json, KeyString(part))
    IN  IF named = {} THEN Failed("no member") ELSE json[2][Min(named)][2]

Inwards(json, path) ==
    LET way[n \in 0..Len(path)] == IF n = 0 THEN json ELSE Inside(way[n - 1], path[n])
    IN  way

JSONAt(json, path) == Inwards(json, path)[Len(path)]
=============================================================================
