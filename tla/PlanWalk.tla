------------------------------ MODULE PlanWalk -----------------------------
(***************************************************************************)
(* Building the plan of one message: the walk over its fields that         *)
(* flattens the message tree into an ordered list of entries, and the      *)
(* collision analysis that ends it.  The recursion of walkMessage,         *)
(* walkOneof, walkField and descend is an explicit stack of frames, one    *)
(* per message level or oneof being walked.                                *)
(*                                                                         *)
(* An entry's key is its last segment: KEY_FROM_LEAF, with no prefix.      *)
(***************************************************************************)
EXTENDS Schemas

CONSTANTS Schemas,   \* the schemas considered
          Tops,      \* the messages a plan is built for
          MaxBound   \* the largest max_depth any of them sets

ASSUME SchemasAssumption == /\ Schemas \subseteq Schema
                            /\ \A s \in Schemas : WellFormed(s)
                            /\ Tops \subseteq Msg

ASSUME BoundAssumption ==
    /\ MaxBound \in Nat
    /\ \A s \in Schemas : \A m \in Msg :
          \A o \in {s[m].file, s[m].own} \cup {f.opts : f \in Elements(s[m].fields)} :
              o.maxDepth = Unset \/ o.maxDepth <= MaxBound

VARIABLES schema,    \* the message types, fixed
          top, root, \* plan.msg and plan.root: the message and its scope
          phase,     \* "start", "walk", "planned", "failed"; "idle" between plans
          stack,     \* the levels being walked, innermost first
          entries,   \* plan.entries
          oneofSeq,  \* plan.oneofSeq
          err        \* why the plan failed, "none" when it did not

planVars == <<top, root, phase, stack, entries, oneofSeq, err>>
vars     == <<schema, planVars>>

Entry_(kind, name, path, excl, sc) ==
    [kind |-> kind, name |-> name, path |-> path, excl |-> excl, sc |-> sc,
     dynamic |-> FALSE, oneof |-> <<>>, pickPath |-> <<>>, sources |-> <<>>]

(* A level: the positions of the fields still to walk, which are walked in *)
(* order; whether they are the branches of one oneof; the oneofs already   *)
(* walked; and walkCtx.                                                    *)
Frame(m, fields, branch, ctx) ==
    [msg |-> m, fields |-> fields, branch |-> branch, done |-> {}, ctx |-> ctx]

AllFields(m) == DOMAIN schema[m].fields

Failure(why) == /\ phase' = "failed"
                /\ err' = why
                /\ UNCHANGED <<schema, top, root, stack, entries, oneofSeq>>

(* buildPlanIn, as far as the walk of the message itself.                  *)
PlanOf(m, sc) == /\ top = m
                 /\ root = sc
                 /\ phase = "start"
                 /\ stack = <<>>
                 /\ entries = <<>>
                 /\ oneofSeq = 0
                 /\ err = "none"

(* Plans are built for messages no one has bounded, and for messages past  *)
(* the depth bound of the place they are used at.                          *)
Init == /\ schema \in Schemas
        /\ \E m \in Tops, x \in BOOLEAN :
              PlanOf(m, RootOf(schema, m, [Interior(schema, m) EXCEPT !.exhausted = x]))

Constants == [n \in DOMAIN schema[top].constants |->
                 Entry_("constant", schema[top].constants[n].name, <<>>, 0, root)]

Begin == /\ phase = "start"
         /\ ~RulesFail(schema, top)
         /\ entries' = Constants
         /\ stack' = <<Frame(top, AllFields(top), FALSE,
                             [sc |-> root, path |-> <<>>, depth |-> 0,
                              seen |-> {top}, excl |-> 0])>>
         /\ phase' = "walk"
         /\ UNCHANGED <<schema, top, root, oneofSeq, err>>

RejectRules == phase = "start" /\ RulesFail(schema, top) /\ Failure("rules")

-----------------------------------------------------------------------------
(* The field whose turn it is                                              *)

Here    == Head(stack)
ctx     == Here.ctx
turn    == <<Here.msg, Min(Here.fields)>>
field   == FieldOf(schema, turn)
path    == Append(ctx.path, turn)
Walking == phase = "walk" /\ Here.fields # {}

(* Here with the field behind it.                                          *)
Past == [Here EXCEPT !.fields = @ \ {turn[2]}]

Onward == stack' = <<Past>> \o Tail(stack)

(* Fault: a new entry goes before the others.                              *)
AddFirst(new) == entries' = <<new>> \o entries

Add(new) == entries' = Append(entries, new)

-----------------------------------------------------------------------------
(* walkOneof                                                               *)

OneofTurn == Walking /\ ~Here.branch /\ field.oneof # 0

oneof == schema[Here.msg].oneofs[field.oneof]

OneofScope == ApplyOneof(ctx.sc, oneof.opts)

OneofMode == Or(oneof.mode, IF ctx.sc.flatten = "NONE" THEN "BRANCH_KEY" ELSE "INLINE")

(* Fault: every oneof of a plan gets the first id.                         *)
NextExclusiveStuck == 1001

(* Ids of declared groups start at 1, those of oneofs above 1000.          *)
NextExclusive == 1001 + oneofSeq

(* Fault: the options of a oneof reach the fields after it.                *)
PastOneofLeaking == [Past EXCEPT !.done = @ \cup {field.oneof}, !.ctx.sc = OneofScope]

(* Fault: a oneof is walked again at its next branch.                      *)
PastOneofAgain == Past

PastOneof == [Past EXCEPT !.done = @ \cup {field.oneof}]

(* Fault: the walk does not move on from a branch of a oneof it has met.   *)
SkipOneofStuck == /\ OneofTurn
                  /\ field.oneof \in Here.done
                  /\ UNCHANGED vars

(* A oneof takes the position of its first branch: the others are skipped. *)
SkipOneof == /\ OneofTurn
             /\ field.oneof \in Here.done
             /\ Onward
             /\ UNCHANGED <<schema, top, root, phase, entries, oneofSeq, err>>

NewOneof == OneofTurn /\ field.oneof \notin Here.done

OmitOneof == /\ NewOneof
             /\ OneofMode = "OMIT"
             /\ stack' = <<PastOneof>> \o Tail(stack)
             /\ UNCHANGED <<schema, top, root, phase, entries, oneofSeq, err>>

OneofEntry(kind, name, excl) ==
    [Entry_(kind, name, ctx.path, excl, OneofScope)
        EXCEPT !.oneof = <<Here.msg, field.oneof>>]

(* The tag is written beside the oneof's branches, under the enclosing id. *)
Discriminator == OneofEntry("discriminator", oneof.tag, ctx.excl)

TagOneof == /\ NewOneof
            /\ OneofMode = "DISCRIMINATOR_ONLY"
            /\ Add(Discriminator)
            /\ oneofSeq' = oneofSeq + 1
            /\ stack' = <<PastOneof>> \o Tail(stack)
            /\ UNCHANGED <<schema, top, root, phase, err>>

SingleKey == /\ NewOneof
             /\ OneofMode = "SINGLE_KEY"
             /\ Add(OneofEntry("oneofValue", oneof.name, NextExclusive))
             /\ oneofSeq' = oneofSeq + 1
             /\ stack' = <<PastOneof>> \o Tail(stack)
             /\ UNCHANGED <<schema, top, root, phase, err>>

(* Fault: only the branch that was met first is walked.                    *)
BranchFieldsFirst == {turn[2]}

BranchFields == {n \in AllFields(Here.msg) : schema[Here.msg].fields[n].oneof = field.oneof}

BranchScope == IF OneofMode = "BRANCH_KEY" THEN [OneofScope EXCEPT !.flatten = "NONE"]
                                           ELSE OneofScope

(* INLINE, BRANCH_KEY and TAGGED walk the branches as fields.              *)
WalkBranches ==
    /\ NewOneof
    /\ OneofMode \in {"INLINE", "BRANCH_KEY", "TAGGED"}
    /\ entries' = IF OneofMode = "TAGGED" THEN Append(entries, Discriminator) ELSE entries
    /\ oneofSeq' = oneofSeq + 1
    /\ stack' = <<Frame(Here.msg, BranchFields, TRUE,
                        [ctx EXCEPT !.sc = BranchScope, !.excl = NextExclusive]),
                  PastOneof>> \o Tail(stack)
    /\ UNCHANGED <<schema, top, root, phase, err>>

-----------------------------------------------------------------------------
(* walkField                                                               *)

FieldTurn == Walking /\ (Here.branch \/ field.oneof = 0)

Dropped == field.omit \/ IsMerged(schema, top, path)

DropField == /\ FieldTurn
             /\ Dropped
             /\ Onward
             /\ UNCHANGED <<schema, top, root, phase, entries, oneofSeq, err>>

KeptField == FieldTurn /\ ~Dropped /\ ~InvalidField(field)

RejectField == FieldTurn /\ ~Dropped /\ InvalidField(field) /\ Failure("field")

(* The enum type's own format sits between the scope and the field.        *)
FieldScope == ApplyField([ctx.sc EXCEPT !.format["enumFormat"] = Or(field.enum, @)], field.opts)

(* Fault: a field does not inherit the id of what encloses it.             *)
exclFresh == ExclusiveId(schema, top, path, 0)

excl == ExclusiveId(schema, top, path, ctx.excl)

Emit(new) == /\ Add(new)
             /\ Onward
             /\ UNCHANGED <<schema, top, root, phase, oneofSeq, err>>

Collection(name, p) == Entry_("collection", name, p, excl, FieldScope)

Plain == field.pick = <<>> /\ field.lift = <<>>

WriteLeaf == /\ KeptField /\ Plain
             /\ field.kind \in {"leaf", "struct"}
             /\ Emit(Entry_("scalar", field.name, path, excl, FieldScope))

(* markDynamic: INLINE_KEYS, INDEXED and EXPLODE invent their keys.        *)
WriteCollection ==
    /\ KeptField /\ Plain
    /\ field.kind \in {"list", "messages"}
    /\ Emit([Collection(field.name, path) EXCEPT !.dynamic = Spreading(FieldScope)])

(* addPick: one value from inside the field, or from inside each element.  *)
PickOk == field.kind = "struct" \/ IsLeafPath(schema, field.type, field.pick)

PickEnd == FieldOf(schema, Last_(field.pick))

Picked ==
    CASE field.kind = "struct" -> Entry_("structPick", field.name, path, excl, FieldScope)
      [] field.kind = "messages" -> [Collection(field.name, path)
                                        EXCEPT !.dynamic = Spreading(FieldScope),
                                               !.pickPath = field.pick]
      [] OTHER -> [Collection(field.name, path \o field.pick)
                      EXCEPT !.kind = IF PickEnd.kind \in {"list", "messages"}
                                      THEN "collection" ELSE "scalar"]

Pick == KeptField /\ field.pick # <<>> /\ PickOk /\ Emit(Picked)

RejectPick == KeptField /\ field.pick # <<>> /\ ~PickOk /\ Failure("field")

(* addLifts: chosen values from inside the field, the rest is dropped.     *)
LiftOk == \A l \in Elements(field.lift) : IsLeafPath(schema, field.type, l.path)

Lift ==
    /\ KeptField /\ field.pick = <<>> /\ field.lift # <<>>
    /\ LiftOk
    /\ entries' = entries \o [n \in DOMAIN field.lift |->
                      Entry_("scalar", field.lift[n].as, path \o field.lift[n].path,
                             excl, FieldScope)]
    /\ Onward
    /\ UNCHANGED <<schema, top, root, phase, oneofSeq, err>>

RejectLift == KeptField /\ field.pick = <<>> /\ ~LiftOk /\ Failure("field")

-----------------------------------------------------------------------------
(* descend                                                                 *)

Boundary == Or(field.opts.flatten, ctx.sc.flatten)

depth == ctx.depth + 1

BeyondDepth == FieldScope.maxDepth # 0 /\ depth > FieldScope.maxDepth

Inline == Boundary # "NONE" /\ ~BeyondDepth

(* Fault: only the message the plan is for closes a cycle.                 *)
RepeatsTop == field.type = top

Repeats == field.type \in ctx.seen

Descends == KeptField /\ Plain /\ field.kind = "message"

(* The object keeps its key and is written by its own encoder.             *)
Nest ==
    /\ Descends
    /\ ~Inline
    /\ Emit(Entry_("object", field.name, path, excl,
                   IF BeyondDepth THEN [FieldScope EXCEPT !.exhausted = TRUE] ELSE FieldScope))

(* A type that flattens into itself with nothing to bound the descent.     *)
Cycle == /\ Descends
         /\ Inline /\ Repeats /\ FieldScope.maxDepth = 0
         /\ Failure("cycle")

InnerScope ==
    [FieldScope EXCEPT !.flatten = IF Boundary = "SHALLOW" THEN "NONE"
                                   ELSE Interior(schema, field.type).flatten]

Descend ==
    /\ Descends
    /\ Inline /\ ~(Repeats /\ FieldScope.maxDepth = 0)
    /\ stack' = <<Frame(field.type, AllFields(field.type), FALSE,
                        [sc |-> InnerScope, path |-> path, depth |-> depth,
                         seen |-> ctx.seen \cup {field.type}, excl |-> excl]),
                  Past>> \o Tail(stack)
    /\ UNCHANGED <<schema, top, root, phase, entries, oneofSeq, err>>

-----------------------------------------------------------------------------
(* The end of a level, and of the plan                                     *)

Return == /\ phase = "walk"
          /\ Len(stack) > 1 /\ Here.fields = {}
          /\ stack' = Tail(stack)
          /\ UNCHANGED <<schema, top, root, phase, entries, oneofSeq, err>>

(* Merged keys come after everything the walk produced.                    *)
Merges == [n \in DOMAIN schema[top].merges |->
              LET rule == schema[top].merges[n]
              IN  [Entry_("merge", rule.name, <<>>, 0, MergeScope(schema, top, rule))
                      EXCEPT !.sources = rule.from]]

Walked == phase = "walk" /\ Len(stack) = 1 /\ Here.fields = {}

(* The plan as plan.analyse reads it.                                      *)
Analysed(es) == [n \in DOMAIN es |-> [key  |-> es[n].name,
                                      mode |-> IF es[n].dynamic THEN "spread" ELSE "static",
                                      excl |-> es[n].excl]]

Refused(es) == root.policy = "ERROR_GENERATE" /\ Conflicts(Analysed(es)) # {}

Finish == /\ Walked
          /\ ~Refused(entries \o Merges)
          /\ entries' = entries \o Merges
          /\ stack' = <<>>
          /\ phase' = "planned"
          /\ UNCHANGED <<schema, top, root, oneofSeq, err>>

Refuse == /\ Walked
          /\ Refused(entries \o Merges)
          /\ entries' = entries \o Merges
          /\ phase' = "failed"
          /\ err' = "collision"
          /\ UNCHANGED <<schema, top, root, stack, oneofSeq>>

Next == \/ Begin \/ RejectRules
        \/ SkipOneof \/ OmitOneof \/ TagOneof \/ SingleKey \/ WalkBranches
        \/ DropField \/ RejectField \/ WriteLeaf \/ WriteCollection
        \/ Pick \/ RejectPick \/ Lift \/ RejectLift
        \/ Nest \/ Cycle \/ Descend
        \/ Return \/ Finish \/ Refuse

(* The plugin builds a plan in one goroutine and does nothing else.        *)
Spec == Init /\ [][Next]_vars /\ WF_vars(Next)

-----------------------------------------------------------------------------
(* Properties                                                              *)

EntryKinds == {"constant", "scalar", "object", "collection", "structPick",
               "discriminator", "oneofValue", "merge"}

Entry == [kind : EntryKinds, name : Name, path : Path, excl : Nat, sc : Scope,
          dynamic : BOOLEAN, oneof : {<<>>} \cup (Msg \X Nat),
          pickPath : Path, sources : Seq(Path)]

Level == [msg : Msg, fields : SUBSET Nat, branch : BOOLEAN, done : SUBSET Nat,
          ctx : [sc : Scope, path : Path, depth : Nat, seen : SUBSET Msg, excl : Nat]]

(* Every variable keeps its type while the plan is built.                  *)
TypeOK == /\ schema \in Schema
          /\ top \in Msg
          /\ root \in Scope
          /\ phase \in {"start", "walk", "planned", "failed"}
          /\ stack \in Seq(Level)
          /\ entries \in Seq(Entry)
          /\ oneofSeq \in Nat
          /\ err \in {"none", "rules", "field", "cycle", "collision"}

(* Between two messages inlined without a bound no type repeats, and a     *)
(* bounded descent stops at its bound: whatever the types, and however     *)
(* bounds are set and lifted along a path, the walk never gets deeper than *)
(* the largest bound plus one level per type it has met.                   *)
DepthBounded ==
    \A n \in DOMAIN stack :
        stack[n].ctx.depth < MaxBound + Cardinality(stack[n].ctx.seen)

Prefix(p, n) == SubSeq(p, 1, n)

IsPrefixOf(p, q) == Len(p) <= Len(q) /\ p = Prefix(q, Len(p))

OneofAt(step) == FieldOf(schema, step).oneof

(* The oneofs an entry's value is inside of: the path of the message and   *)
(* the oneof.                                                              *)
OneofsOf(e) ==
    {<<Prefix(e.path, n - 1), <<e.path[n][1], OneofAt(e.path[n])>> >> :
        n \in {j \in DOMAIN e.path : OneofAt(e.path[j]) # 0}}
    \cup (IF e.kind = "oneofValue" THEN {<<e.path, e.oneof>>} ELSE {})

GroupsOf(e) ==
    {g \in DOMAIN schema[top].groups :
        \E n \in DOMAIN e.path : Prefix(e.path, n) \in Elements(schema[top].groups[g])}

(* The walk has come to its end, in a plan or in an error.                 *)
Ended == phase \in {"planned", "failed"}

(* Entries that share an exclusivity id, which the analysis never reports, *)
(* really are inside one and the same oneof of one message, or inside one  *)
(* declared group.                                                         *)
SharedIdMeansExclusive ==
    Ended =>
        \A x, y \in DOMAIN entries :
            LET e == entries[x]
                f == entries[y]
            IN  x < y /\ ExclusiveOf(e, f) =>
                    \/ OneofsOf(e) \cap OneofsOf(f) # {}
                    \/ GroupsOf(e) \cap GroupsOf(f) # {}

Sourced == {n \in DOMAIN entries :
               entries[n].kind \in {"scalar", "object", "collection", "structPick"}}

(* Where an entry comes in declaration order: its path, or for a oneof's   *)
(* own entries the path of the first branch.                               *)
Position(e) ==
    IF e.oneof = <<>> THEN e.path
    ELSE Append(e.path, <<e.oneof[1], Min({n \in DOMAIN schema[e.oneof[1]].fields :
                                              OneofAt(<<e.oneof[1], n>>) = e.oneof[2]})>>)

(* Where two paths part, the one goes on at an earlier field, or both are  *)
(* below a lift, whose values come in the order it lists them.             *)
Sooner(p, q) ==
    \E n \in DOMAIN p \cap DOMAIN q :
        /\ Prefix(p, n - 1) = Prefix(q, n - 1)
        /\ p[n] # q[n]
        /\ p[n][2] < q[n][2] \/ \E k \in 1..n - 1 : FieldOf(schema, p[k]).lift # <<>>

Earlier(p, q) == IsPrefixOf(p, q) \/ Sooner(p, q)

(* Entries come in the order their fields are declared, depth first, a     *)
(* oneof at its first branch; constants come first and merges last.        *)
InDeclarationOrder ==
    Ended =>
        \A x, y \in DOMAIN entries :
            LET e == entries[x]
                f == entries[y]
            IN  x < y =>
                  /\ f.kind = "constant" => e.kind = "constant"
                  /\ e.kind = "merge" => f.kind = "merge"
                  /\ {e.kind, f.kind} \cap {"constant", "merge"} = {} =>
                        Earlier(Position(e), Position(f))

(* No field is written by two entries, neither itself nor inside the       *)
(* object of a message above it.                                           *)
NoValueTwice ==
    Ended => \A x, y \in Sourced :
                x # y => ~IsPrefixOf(entries[x].path, entries[y].path)

(* The levels the plan shows: the message itself and the ones entries were *)
(* taken from by the walk, not by a pick or a lift.                        *)
ShownLevels ==
    {<<>>} \cup
    {p \in UNION {{Prefix(entries[x].path, n - 1) : n \in DOMAIN entries[x].path} : x \in Sourced} :
        \A n \in DOMAIN p : /\ FieldOf(schema, p[n]).pick = <<>>
                            /\ FieldOf(schema, p[n]).lift = <<>>}

LevelMsg(p) == IF p = <<>> THEN top ELSE FieldOf(schema, Last_(p)).type

(* Nothing goes missing: when a level is flattened, each field on it that  *)
(* is not a message, not omitted and not left to a merge rule has an entry *)
(* of its own, or its oneof has one that stands for it.                    *)
NothingDropped ==
    phase = "planned" =>
        \A p \in ShownLevels : \A n \in DOMAIN schema[LevelMsg(p)].fields :
            LET step == <<LevelMsg(p), n>>
                f    == FieldOf(schema, step)
                mode == schema[step[1]].oneofs[f.oneof].mode
            IN  \/ f.omit \/ f.kind = "message" \/ IsMerged(schema, top, Append(p, step))
                \/ \E x \in Sourced : IsPrefixOf(Append(p, step), entries[x].path)
                \/ /\ f.oneof # 0
                   /\ \/ mode = "OMIT"
                      \/ \E x \in DOMAIN entries :
                            /\ mode \in {"SINGLE_KEY", "DISCRIMINATOR_ONLY"}
                            /\ entries[x].path = p
                            /\ entries[x].oneof = <<step[1], f.oneof>>

(* What a step of a path says about a format: the field, else the enum     *)
(* type, else the oneof the field is a branch of.                          *)
Says(step, option) ==
    LET f == FieldOf(schema, step)
    IN  Or(f.opts.format[option],
           Or(IF option = "enumFormat" THEN f.enum ELSE Unset,
              IF f.oneof = 0 THEN Unset
              ELSE schema[step[1]].oneofs[f.oneof].opts.format[option]))

(* The steps of an entry's path the walk took: up to a pick or a lift.     *)
Walked_(p) ==
    LET stops == {n \in DOMAIN p : \/ FieldOf(schema, p[n]).pick # <<>>
                                   \/ FieldOf(schema, p[n]).lift # <<>>}
    IN  IF stops = {} THEN p ELSE Prefix(p, Min(stops))

(* The format the nearest step of a path sets, or that of the plan's root.  *)
Effective(p, option) ==
    LET setters == {n \in DOMAIN p : Says(p[n], option) # Unset}
    IN  IF setters = {} THEN root.format[option] ELSE Says(p[Max(setters)], option)

(* Formats propagate down the subtree of the field, enum type or oneof     *)
(* that sets them, the nearest one winning, and never to its siblings.     *)
FormatsFromPath ==
    Ended =>
        \A x \in Sourced : \A option \in FormatOption :
            entries[x].sc.format[option] = Effective(Walked_(entries[x].path), option)

(* Building a plan ends, for recursive types too.                          *)
WalkEnds == <>Ended

(* Paths in a merge rule's "from" leave the plan: no other entry writes    *)
(* them.                                                                   *)
MergeSourcesOnce ==
    phase = "planned" =>
        \A r \in Elements(schema[top].merges) : \A src \in Elements(r.from) :
            \A x \in Sourced : ~IsPrefixOf(entries[x].path, src)

(* Past the depth bound a subtree keeps its shape: nothing below a nested  *)
(* object is hoisted into it.                                              *)
ExhaustedStaysNested ==
    root.exhausted => \A x \in Sourced : Len(entries[x].path) = 1

(* The two values are inside different branches of one oneof.              *)
DifferentBranches(e, f) ==
    \E n \in DOMAIN e.path \cap DOMAIN f.path :
        /\ Prefix(e.path, n - 1) = Prefix(f.path, n - 1)
        /\ e.path[n] # f.path[n]
        /\ OneofAt(e.path[n]) # 0
        /\ OneofAt(e.path[n]) = OneofAt(f.path[n])

(* Two sources refused for their key are not in different branches of one  *)
(* oneof.                                                                  *)
RefusalIsJust ==
    err = "collision" =>
        LET ab == FirstConflict(Analysed(entries))
        IN  ~DifferentBranches(entries[ab[1]], entries[ab[2]])
=============================================================================
