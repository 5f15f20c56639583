------------------------------ MODULE Schemas ------------------------------
(***************************************************************************)
(* The message types the plugin is run on, as the walk sees them: for each *)
(* message its options, its fields in declaration order, its oneofs and    *)
(* the rules declared on it.  A field of a message is named by the pair of *)
(* the message and the field's position; a path is a sequence of those.    *)
(***************************************************************************)
EXTENDS Scopes, Analysis, FiniteSets

CONSTANTS Msg,      \* message types
          Name,     \* key segments: field names or their name option
          NoMsg     \* the message type of a field that has none

ASSUME MsgAssumption == NoMsg \notin Msg /\ IsFiniteSet(Msg)

ASSUME OptionAssumption == {"cardinality", "enumFormat"} \subseteq FormatOption

(* "leaf" a scalar or enum, "struct" a well-known type, "list" a repeated  *)
(* scalar, "message" and "messages" a singular and a repeated message.     *)
FieldKinds == {"leaf", "struct", "list", "message", "messages"}

OneofModes == {"INLINE", "BRANCH_KEY", "TAGGED", "SINGLE_KEY", "DISCRIMINATOR_ONLY", "OMIT"}

Step == Msg \X (Nat \ {0})
Path == Seq(Step)

Field == [name   : Name,
          kind   : FieldKinds,
          type   : Msg \cup {NoMsg},
          oneof  : Nat,                    \* its oneof, 0 when it has none
          omit   : BOOLEAN,
          invalid : BOOLEAN,               \* a tag, prefix or cardinality it cannot have
          enum   : Optional(FormatValue),  \* the enum type's own format
          opts   : Options,
          pick   : Path,                   \* <<>>: no pick
          lift   : Seq([path : Path, as : Name])]

Oneof == [name : Name, tag : Name, mode : Optional(OneofModes), opts : Options]

Message == [file      : Options,
            own       : Options,
            generate  : BOOLEAN,
            symbol    : Seq(Name \cup Nat),  \* its Go identifier, cut before a final _N
            fields    : Seq(Field),
            oneofs    : Seq(Oneof),
            constants : Seq([name : Name, valid : BOOLEAN]),
            merges    : Seq([name : Name, from : Seq(Path), opts : Options]),
            groups    : Seq(Seq(Path))]      \* exclusive_groups

Schema == [Msg -> Message]

Elements(s) == {s[n] : n \in DOMAIN s}

(* The fields of a oneof are declared one after another.                   *)
Consecutive(fields) ==
    \A i, j, k \in DOMAIN fields :
        /\ i < j /\ j < k
        /\ fields[i].oneof # 0 /\ fields[i].oneof = fields[k].oneof
        => fields[j].oneof = fields[i].oneof

(* What protoc has checked: message fields have a message type, a field is *)
(* a branch of a oneof its message has, and a oneof's fields are declared  *)
(* together.                                                               *)
WellFormed(schema) ==
    \A m \in Msg :
        /\ \A f \in Elements(schema[m].fields) :
              /\ f.kind \in {"message", "messages"} <=> f.type \in Msg
              /\ f.oneof \in 0..Len(schema[m].oneofs)
        /\ Consecutive(schema[m].fields)

FieldOf(schema, step) == schema[step[1]].fields[step[2]]

Last_(path) == path[Len(path)]

(* resolvePath: each part names a field of the message the part before it  *)
(* leads to.                                                               *)
IsPath(schema, m, path) ==
    /\ path # <<>>
    /\ path[1][1] = m
    /\ \A n \in DOMAIN path : path[n][2] \in DOMAIN schema[path[n][1]].fields
    /\ \A n \in 1..Len(path) - 1 : FieldOf(schema, path[n]).type = path[n + 1][1]

(* requireLeaf: only values can be picked and lifted.                      *)
IsLeafPath(schema, m, path) ==
    IsPath(schema, m, path) /\ FieldOf(schema, Last_(path)).kind # "message"

Interior(schema, m) == InteriorScope(schema[m].file, schema[m].own)

RootOf(schema, m, outer) == RootScope(schema[m].file, schema[m].own, outer)

(* The cardinalities whose keys are only known at run time.                *)
Spreading(sc) == sc.format["cardinality"] \in {"INLINE_KEYS", "INDEXED", "EXPLODE"}

(* jsonShape: what a merge source lands on.                                *)
JsonShape(f, sc) ==
    CASE f.kind \in {"list", "messages"} /\ sc.format["cardinality"] = "KEEP" -> "array"
      [] f.kind = "message" -> "object"
      [] f.kind = "messages" /\ sc.format["cardinality"] # "KEEP" -> "object"
      [] f.kind = "struct" -> "struct"
      [] OTHER -> "scalar"

(* What a merge rule formats its value with: the message's own scope and   *)
(* the rule's options.                                                     *)
MergeScope(schema, m, rule) == ApplyOneof(Interior(schema, m), rule.opts)

(* The constants, merge rules and exclusive groups of a message that make  *)
(* no sense: an error before the walk begins.                              *)
RulesFail(schema, m) ==
    LET msg     == schema[m]
        sources == UNION {{<<r, a>> : a \in DOMAIN msg.merges[r].from} : r \in DOMAIN msg.merges}
        declared(ra) == msg.merges[ra[1]].from[ra[2]]
    IN  \/ \E c \in Elements(msg.constants) : ~c.valid
        \/ \E r, s \in DOMAIN msg.merges : r # s /\ msg.merges[r].name = msg.merges[s].name
        \/ \E ra, sb \in sources : ra # sb /\ declared(ra) = declared(sb)
        \/ \E ra \in sources : ~IsPath(schema, m, declared(ra))
        \/ \E g \in Elements(msg.groups) : \E p \in Elements(g) : ~IsPath(schema, m, p)
        \/ \E ra, sb \in sources :
              /\ ra[1] = sb[1]
              /\ LET sc == MergeScope(schema, m, msg.merges[ra[1]])
                 IN  JsonShape(FieldOf(schema, Last_(declared(ra))), sc)
                        # JsonShape(FieldOf(schema, Last_(declared(sb))), sc)

(* validateFieldOptions                                                    *)
InvalidField(f) == \/ f.invalid
                   \/ f.pick # <<>> /\ f.lift # <<>>
                   \/ f.opts.flatten # Unset /\ f.kind \notin {"message", "messages"}

IsMerged(schema, m, path) ==
    \E r \in Elements(schema[m].merges) : path \in Elements(r.from)

(* idFor: the declared group of a path, else the id inherited.             *)
ExclusiveId(schema, m, path, inherited) ==
    LET ids == {g \in DOMAIN schema[m].groups : path \in Elements(schema[m].groups[g])}
    IN  IF ids = {} THEN inherited ELSE Max(ids)
=============================================================================
