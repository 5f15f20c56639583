--------------------------- MODULE PlanWalkProofs --------------------------
(***************************************************************************)
(* Theorems of PlanWalk for all message types, options and depth bounds.   *)
(***************************************************************************)
EXTENDS PlanWalk, ScopesProofs, LeastElements, FiniteSetTheorems

-----------------------------------------------------------------------------
(* What the walk is made of                                                *)

(* The options of a message type that find their way into a scope.         *)
OptionsOf(msg) == {msg.file, msg.own} \cup {f.opts : f \in Elements(msg.fields)}
                  \cup {o.opts : o \in Elements(msg.oneofs)}
                  \cup {r.opts : r \in Elements(msg.merges)}

(* The index separators there are: the built-in one and those options set. *)
IndexSeps ==
    {BuiltinIndexSep} \cup
    {sep \in Seq(Char) :
        \E s \in Schemas, m \in Msg : \E o \in OptionsOf(s[m]) : o.indexSep = sep}

(* A scope whose depth bound and index separator are ones there are.       *)
KnownScope == {sc \in Scope : sc.maxDepth <= MaxBound /\ sc.indexSep \in IndexSeps}

KnownBound(o) == o.maxDepth = Unset \/ o.maxDepth <= MaxBound

KnownSep(o) == o.indexSep = Unset \/ o.indexSep \in IndexSeps

(* The message types that can be reached from one through fields.          *)
Closed(S) ==
    \A m \in S : \A n \in DOMAIN schema[m].fields :
        schema[m].fields[n].type \in Msg => schema[m].fields[n].type \in S

Reachable(m) == {x \in Msg : \A S \in SUBSET Msg : m \in S /\ Closed(S) => x \in S}

(* A field there is, of a message type that can be reached.                *)
SafeStep == {s \in Step : s[1] \in Reachable(top) /\ s[2] \in DOMAIN schema[s[1]].fields}

SafePath == Seq(SafeStep)

(* The kinds of entries that write one field, the one their path ends in.  *)
ValueKinds == {"scalar", "object", "collection", "structPick"}

SafeEntry ==
    {e \in Entry :
        /\ e.sc \in KnownScope
        /\ e.path \in SafePath /\ e.pickPath \in SafePath
        /\ e.sources \in Seq(SafePath \ {<<>>})
        /\ e.kind \in ValueKinds => e.path # <<>>
        /\ e.kind = "object" => FieldOf(schema, Last_(e.path)).kind = "message"
        /\ e.kind = "oneofValue" => e.oneof \in Reachable(top) \X Nat}

(* A level whose fields exist, and which is no deeper than it may be.      *)
SafeLevel ==
    {l \in Level : /\ l.msg \in Reachable(top)
                   /\ l.fields \subseteq DOMAIN schema[l.msg].fields
                   /\ l.ctx.sc \in KnownScope
                   /\ l.ctx.path \in SafePath
                   /\ l.ctx.seen # {}
                   /\ l.ctx.depth < MaxBound + Cardinality(l.ctx.seen)}

(* The inductive invariant: DepthBounded needs to know that every scope's  *)
(* depth bound is one that some option sets, and the types of the levels;  *)
(* what is made of a plan needs to know that its entries are about fields  *)
(* there are.                                                              *)
WalkInv == /\ schema \in Schemas
           /\ TypeOK
           /\ root \in KnownScope
           /\ stack \in Seq(SafeLevel)
           /\ entries \in Seq(SafeEntry)
           /\ phase = "walk" => stack # <<>> /\ ~RulesFail(schema, top)

-----------------------------------------------------------------------------
(* Facts about schemas and scopes                                          *)

(* What an option sets is known.                                           *)
LEMMA KnownOptions ==
    ASSUME NEW s \in Schemas, NEW m \in Msg, NEW o \in OptionsOf(s[m]), o \in Options
    PROVE  KnownSep(o)
<1>1. o.indexSep = Unset \/ o.indexSep \in Seq(Char)
  BY DEF Options, Optional
<1> QED
  BY <1>1 DEF KnownSep, IndexSeps

(* A message of one of the schemas, and its fields, are well formed.       *)
LEMMA SchemaFacts ==
    ASSUME NEW s \in Schemas, NEW m \in Msg
    PROVE  /\ s \in Schema
           /\ s[m] \in Message
           /\ \A n \in DOMAIN s[m].fields :
                 LET f == s[m].fields[n]
                 IN  /\ f \in Field
                     /\ f.kind \in {"message", "messages"} <=> f.type \in Msg
                     /\ f.oneof \in 0..Len(s[m].oneofs)
                     /\ KnownBound(f.opts) /\ KnownSep(f.opts)
           /\ Consecutive(s[m].fields)
           /\ \A o \in {s[m].file, s[m].own} : KnownBound(o) /\ KnownSep(o)
           /\ \A n \in DOMAIN s[m].oneofs :
                 s[m].oneofs[n] \in Oneof /\ KnownSep(s[m].oneofs[n].opts)
           /\ \A n \in DOMAIN s[m].merges :
                 /\ s[m].merges[n] \in [name : Name, from : Seq(Path), opts : Options]
                 /\ KnownSep(s[m].merges[n].opts)
<1>1. s \in Schema /\ WellFormed(s)
  BY SchemasAssumption
<1>2. s[m] \in Message
  BY <1>1 DEF Schema
<1>3. s[m].fields \in Seq(Field)
  BY <1>2 DEF Message
<1>4. ASSUME NEW n \in DOMAIN s[m].fields
      PROVE  LET f == s[m].fields[n]
             IN  /\ f \in Field
                 /\ f.kind \in {"message", "messages"} <=> f.type \in Msg
                 /\ f.oneof \in 0..Len(s[m].oneofs)
                 /\ KnownBound(f.opts) /\ KnownSep(f.opts)
  <2> DEFINE f == s[m].fields[n]
  <2>1. f \in Field
    BY <1>3
  <2>2. f \in Elements(s[m].fields)
    BY DEF Elements
  <2> HIDE DEF f
  <2>3. /\ f.kind \in {"message", "messages"} <=> f.type \in Msg
        /\ f.oneof \in 0..Len(s[m].oneofs)
    BY <1>1, <2>2 DEF WellFormed
  <2>4. KnownBound(f.opts)
    BY <2>2, BoundAssumption DEF KnownBound
  <2>5. f.opts \in OptionsOf(s[m])
    BY <2>2 DEF OptionsOf
  <2>6. f.opts \in Options
    BY <2>1 DEF Field
  <2>7. KnownSep(f.opts)
    BY <2>5, <2>6, KnownOptions
  <2> QED
    BY <2>1, <2>3, <2>4, <2>7 DEF f
<1>5. ASSUME NEW o \in {s[m].file, s[m].own}
      PROVE  KnownBound(o) /\ KnownSep(o)
  <2>1. KnownBound(o)
    BY BoundAssumption DEF KnownBound
  <2>2. o \in Options /\ o \in OptionsOf(s[m])
    BY <1>2 DEF Message, OptionsOf
  <2> QED
    BY <2>1, <2>2, KnownOptions
<1>6. ASSUME NEW n \in DOMAIN s[m].oneofs
      PROVE  s[m].oneofs[n] \in Oneof /\ KnownSep(s[m].oneofs[n].opts)
  <2> DEFINE o == s[m].oneofs[n]
  <2>1. s[m].oneofs \in Seq(Oneof)
    BY <1>2 DEF Message
  <2>2. o \in Oneof /\ o \in Elements(s[m].oneofs)
    BY <2>1 DEF Elements
  <2> HIDE DEF o
  <2>3. o.opts \in Options /\ o.opts \in OptionsOf(s[m])
    BY <2>2 DEF Oneof, OptionsOf
  <2> QED
    BY <2>2, <2>3, KnownOptions DEF o
<1>7. ASSUME NEW n \in DOMAIN s[m].merges
      PROVE  /\ s[m].merges[n] \in [name : Name, from : Seq(Path), opts : Options]
             /\ KnownSep(s[m].merges[n].opts)
  <2> DEFINE r == s[m].merges[n]
             Rule == [name : Name, from : Seq(Path), opts : Options]
  <2>1. s[m].merges \in Seq(Rule)
    BY <1>2 DEF Message
  <2>2. \A x \in Rule : x.opts \in Options
    OBVIOUS
  <2> HIDE DEF Rule
  <2>3. r \in Rule /\ r \in Elements(s[m].merges)
    BY <2>1 DEF Elements
  <2> HIDE DEF r
  <2>4. r.opts \in Options /\ r.opts \in OptionsOf(s[m])
    BY <2>2, <2>3 DEF OptionsOf
  <2>5. KnownSep(r.opts)
    BY <2>4, KnownOptions
  <2> QED
    BY <2>3, <2>5 DEF r, Rule
<1>8. Consecutive(s[m].fields)
  BY <1>1 DEF WellFormed
<1> QED
  BY <1>1, <1>2, <1>4, <1>5, <1>6, <1>7, <1>8

(* The scopes of a message are known ones.                                 *)
LEMMA MessageScopes ==
    ASSUME NEW s \in Schemas, NEW m \in Msg
    PROVE  /\ Interior(s, m) \in KnownScope
           /\ \A outer \in KnownScope : RootOf(s, m, outer) \in KnownScope
<1> DEFINE file == s[m].file
           own  == s[m].own
<1>1. file \in Options /\ own \in Options
  BY SchemaFacts DEF Message
<1>2. KnownBound(file) /\ KnownBound(own) /\ KnownSep(file) /\ KnownSep(own)
  BY SchemaFacts
<1> HIDE DEF file, own
<1>3. Or(own.maxDepth, Or(file.maxDepth, 0)) <= MaxBound
  BY <1>2, BoundAssumption DEF Or, KnownBound
<1>4. Or(own.indexSep, Or(file.indexSep, BuiltinIndexSep)) \in IndexSeps
  BY <1>2 DEF Or, KnownSep, IndexSeps
<1>5. InteriorScope(file, own) \in KnownScope
  BY <1>1, <1>3, <1>4, InteriorScopeType DEF KnownScope
<1>6. ASSUME NEW outer \in KnownScope
      PROVE  RootScope(file, own, outer) \in KnownScope
  <2>1. outer \in Scope /\ outer.indexSep \in IndexSeps
    BY DEF KnownScope
  <2>2. Or(own.indexSep, outer.indexSep) \in IndexSeps
    BY <1>2, <2>1 DEF Or, KnownSep
  <2> QED
    BY <1>1, <1>3, <2>1, <2>2, RootScopeType DEF KnownScope
<1> QED
  BY <1>5, <1>6 DEF Interior, RootOf, file, own

(* A oneof's or a merge rule's options keep a scope known.                 *)
LEMMA OneofKnown ==
    ASSUME NEW sc \in KnownScope, NEW o \in Options, KnownSep(o)
    PROVE  ApplyOneof(sc, o) \in KnownScope
<1>1. sc \in Scope /\ sc.maxDepth <= MaxBound /\ sc.indexSep \in IndexSeps
  BY DEF KnownScope
<1>2. Or(o.indexSep, sc.indexSep) \in IndexSeps
  BY <1>1 DEF Or, KnownSep
<1> QED
  BY <1>1, <1>2, OneofScopeType DEF KnownScope

(* So do a field's.                                                        *)
LEMMA FieldKnown ==
    ASSUME NEW sc \in KnownScope, NEW o \in Options, KnownBound(o), KnownSep(o)
    PROVE  ApplyField(sc, o) \in KnownScope
<1>1. sc \in Scope /\ sc.maxDepth <= MaxBound /\ sc.indexSep \in IndexSeps
  BY DEF KnownScope
<1>2. Or(o.indexSep, sc.indexSep) \in IndexSeps /\ Or(o.maxDepth, sc.maxDepth) <= MaxBound
  BY <1>1 DEF Or, KnownSep, KnownBound
<1> QED
  BY <1>1, <1>2, FieldScopeType DEF KnownScope

(* The other parts of a scope do not matter.                               *)
LEMMA ScopeParts ==
    ASSUME NEW sc \in KnownScope
    PROVE  /\ \A mode \in FlattenMode : [sc EXCEPT !.flatten = mode] \in KnownScope
           /\ \A x \in BOOLEAN : [sc EXCEPT !.exhausted = x] \in KnownScope
           /\ \A f \in [FormatOption -> FormatValue] : [sc EXCEPT !.format = f] \in KnownScope
BY DEF KnownScope, Scope

(* A message can be reached from itself.                                   *)
LEMMA ReachesItself ==
    ASSUME NEW m \in Msg
    PROVE  m \in Reachable(m)
BY DEF Reachable

(* A field leads from a message that can be reached to another one.        *)
LEMMA ReachesField ==
    ASSUME NEW m, NEW x \in Reachable(m), NEW n \in DOMAIN schema[x].fields,
           schema[x].fields[n].type \in Msg
    PROVE  schema[x].fields[n].type \in Reachable(m)
<1> SUFFICES ASSUME NEW S \in SUBSET Msg, m \in S, Closed(S)
             PROVE  schema[x].fields[n].type \in S
  BY DEF Reachable
<1>1. x \in S
  BY DEF Reachable
<1> QED
  BY <1>1 DEF Closed

(* Every step of a path that resolves from a message that can be reached   *)
(* is a field there is.                                                    *)
LEMMA ResolvedPath ==
    ASSUME schema \in Schemas, NEW m \in Reachable(top), NEW p \in Path, IsPath(schema, m, p)
    PROVE  p \in SafePath /\ p # <<>>
<1> DEFINE wrong == {n \in DOMAIN p : p[n][1] \notin Reachable(top)}
<1>1. p \in Seq(Step) /\ DOMAIN p = 1..Len(p) /\ Len(p) \in Nat
  BY DEF Path
<1>2. p # <<>> /\ p[1][1] = m /\ \A n \in DOMAIN p : p[n][2] \in DOMAIN schema[p[n][1]].fields
  BY DEF IsPath
<1>3. wrong = {}
  <2> SUFFICES ASSUME wrong # {} PROVE FALSE
    OBVIOUS
  <2> DEFINE n == Min(wrong)
  <2>1. wrong \in SUBSET Nat
    BY <1>1
  <2>2. n \in wrong /\ \A k \in wrong : n <= k
    BY <2>1, MinMember
  <2> HIDE DEF n
  <2>3. n \in 2..Len(p)
    BY <1>1, <1>2, <2>2
  <2> DEFINE k == n - 1
  <2>4. k \in 1..Len(p) - 1 /\ k + 1 = n /\ k \in DOMAIN p /\ k < n
    BY <1>1, <2>3
  <2>5. p[k][1] \in Reachable(top)
    BY <2>1, <2>2, <2>4
  <2>6. schema[p[k][1]].fields[p[k][2]].type = p[n][1]
    BY <2>4 DEF IsPath, FieldOf
  <2>7. p[n] \in Step
    BY <1>1, <2>3
  <2>8. p[n][1] \in Msg
    BY <2>7 DEF Step
  <2>9. p[n][1] \in Reachable(top)
    BY <1>2, <2>4, <2>5, <2>6, <2>8, ReachesField
  <2> QED
    BY <2>2, <2>9
<1>4. \A n \in 1..Len(p) : p[n] \in SafeStep
  BY <1>1, <1>2, <1>3 DEF SafeStep
<1>5. p \in Seq(SafeStep)
  BY <1>1, <1>4, SeqDef
<1> QED
  BY <1>2, <1>5 DEF SafePath

(* An entry built by the walk.                                             *)
LEMMA EntryType ==
    ASSUME NEW kind \in EntryKinds \ {"oneofValue"}, NEW name \in Name, NEW p \in SafePath,
           NEW x \in Nat, NEW sc \in KnownScope,
           kind \in ValueKinds => p # <<>>,
           kind = "object" => FieldOf(schema, Last_(p)).kind = "message"
    PROVE  Entry_(kind, name, p, x, sc) \in SafeEntry
<1> DEFINE e == Entry_(kind, name, p, x, sc)
<1>1. <<>> \in Path /\ <<>> \in Seq(Path) /\ <<>> \in SafePath
      /\ <<>> \in Seq(SafePath \ {<<>>})
  BY DEF Path, SafePath
<1>2. p \in Path
  <2>1. SafeStep \subseteq Step
    BY DEF SafeStep
  <2> QED
    BY <2>1, SeqMonotonic DEF SafePath, Path
<1>3. sc \in Scope
  BY DEF KnownScope
<1> HIDE DEF Path, SafePath
<1>4. e \in Entry
  BY <1>1, <1>2, <1>3 DEF Entry_, Entry
<1>5. /\ e.sc = sc /\ e.path = p /\ e.pickPath = <<>> /\ e.sources = <<>> /\ e.kind = kind
  BY DEF Entry_
<1> HIDE DEF e
<1> QED
  BY <1>1, <1>4, <1>5 DEF SafeEntry, e

(* An entry stays one when a part is replaced by another of its kind.      *)
LEMMA EntryParts ==
    ASSUME NEW e \in SafeEntry
    PROVE  /\ \A b \in BOOLEAN : [e EXCEPT !.dynamic = b] \in SafeEntry
           /\ \A b \in BOOLEAN, p \in SafePath :
                 [e EXCEPT !.dynamic = b, !.pickPath = p] \in SafeEntry
           /\ \A o \in Msg \X Nat :
                 e.kind # "oneofValue" => [e EXCEPT !.oneof = o] \in SafeEntry
           /\ \A ps \in Seq(SafePath \ {<<>>}) : [e EXCEPT !.sources = ps] \in SafeEntry
           /\ \A k \in {"scalar", "collection"} :
                 e.path # <<>> => [e EXCEPT !.kind = k] \in SafeEntry
<1>1. e \in Entry
  BY DEF SafeEntry
<1>2. SafePath \subseteq Path
  <2>1. SafeStep \subseteq Step
    BY DEF SafeStep
  <2> QED
    BY <2>1, SeqMonotonic DEF SafePath, Path
<1>3. \A ps \in Seq(SafePath \ {<<>>}) : ps \in Seq(Path)
  BY <1>2, SeqMonotonic
<1>4. ASSUME NEW b \in BOOLEAN
      PROVE  [e EXCEPT !.dynamic = b] \in SafeEntry
  BY <1>1 DEF SafeEntry, Entry
<1>5. ASSUME NEW b \in BOOLEAN, NEW p \in SafePath
      PROVE  [e EXCEPT !.dynamic = b, !.pickPath = p] \in SafeEntry
  BY <1>1, <1>2 DEF SafeEntry, Entry
<1>6. ASSUME NEW o \in Msg \X Nat, e.kind # "oneofValue"
      PROVE  [e EXCEPT !.oneof = o] \in SafeEntry
  BY <1>1, <1>6 DEF SafeEntry, Entry
<1>7. ASSUME NEW ps \in Seq(SafePath \ {<<>>})
      PROVE  [e EXCEPT !.sources = ps] \in SafeEntry
  BY <1>1, <1>3 DEF SafeEntry, Entry
<1>8. ASSUME NEW k \in {"scalar", "collection"}, e.path # <<>>
      PROVE  [e EXCEPT !.kind = k] \in SafeEntry
  BY <1>1, <1>8 DEF SafeEntry, Entry, EntryKinds
<1> QED
  BY <1>4, <1>5, <1>6, <1>7, <1>8

-----------------------------------------------------------------------------
(* The level being walked, and the field whose turn it is                  *)

(* The level being walked is a safe one, and so are those below it.        *)
LEMMA HereFacts ==
    ASSUME WalkInv, stack # <<>>
    PROVE  /\ Here \in SafeLevel
           /\ Tail(stack) \in Seq(SafeLevel)
           /\ \A a \in SafeLevel : <<a>> \o Tail(stack) \in Seq(SafeLevel)
           /\ \A a, b \in SafeLevel : <<a, b>> \o Tail(stack) \in Seq(SafeLevel)
<1>1. stack \in Seq(SafeLevel)
  BY DEF WalkInv
<1>2. Head(stack) \in SafeLevel /\ Tail(stack) \in Seq(SafeLevel)
  BY <1>1
<1>3. \A a \in SafeLevel : <<a>> \in Seq(SafeLevel)
  OBVIOUS
<1>4. \A a, b \in SafeLevel : <<a, b>> \in Seq(SafeLevel)
  OBVIOUS
<1> QED
  BY <1>2, <1>3, <1>4, ConcatProperties DEF Here

(* The parts of a level.                                                   *)
LEMMA LevelFacts ==
    ASSUME WalkInv, stack # <<>>
    PROVE  /\ Here.msg \in Msg /\ Here.msg \in Reachable(top)
           /\ Here.fields \subseteq DOMAIN schema[Here.msg].fields
           /\ Here.fields \in SUBSET Nat
           /\ Here.done \in SUBSET Nat
           /\ Here.branch \in BOOLEAN
           /\ ctx \in [sc : Scope, path : Path, depth : Nat, seen : SUBSET Msg, excl : Nat]
           /\ ctx.sc \in KnownScope
           /\ ctx.path \in SafePath
           /\ ctx.seen # {}
           /\ ctx.depth < MaxBound + Cardinality(ctx.seen)
<1>1. Here \in SafeLevel
  BY HereFacts
<1>2. Here \in Level
  BY <1>1 DEF SafeLevel
<1> HIDE DEF Here
<1> QED
  BY <1>1, <1>2 DEF SafeLevel, Level, ctx

(* The field whose turn it is exists.                                      *)
LEMMA TurnFacts ==
    ASSUME WalkInv, stack # <<>>, Walking
    PROVE  /\ turn \in SafeStep /\ turn \in Step
           /\ turn[1] = Here.msg /\ turn[2] \in Here.fields
           /\ \A n \in Here.fields : turn[2] <= n
           /\ path \in SafePath /\ path \in Path /\ path # <<>> /\ Last_(path) = turn
           /\ field \in Field
           /\ field = schema[Here.msg].fields[turn[2]]
           /\ field.kind \in {"message", "messages"} <=> field.type \in Msg
           /\ field.type \in Msg => field.type \in Reachable(top)
           /\ field.oneof \in 0..Len(schema[Here.msg].oneofs)
           /\ field.opts \in Options
           /\ KnownBound(field.opts) /\ KnownSep(field.opts)
<1>1. Here.fields # {}
  BY DEF Walking
<1>2. Here.msg \in Msg /\ Here.msg \in Reachable(top) /\ Here.fields \in SUBSET Nat
      /\ Here.fields \subseteq DOMAIN schema[Here.msg].fields
      /\ ctx.path \in SafePath /\ ctx.path \in Path
  BY LevelFacts
<1>3. Min(Here.fields) \in Here.fields /\ \A n \in Here.fields : Min(Here.fields) <= n
  BY <1>1, <1>2, MinMember
<1>4. turn = <<Here.msg, Min(Here.fields)>>
  BY DEF turn
<1>5. schema \in Schemas
  BY DEF WalkInv
<1>6. schema[Here.msg].fields \in Seq(Field)
  BY <1>2, <1>5, SchemaFacts DEF Message
<1>7. Min(Here.fields) \in DOMAIN schema[Here.msg].fields
  BY <1>2, <1>3
<1>8. Min(Here.fields) \in Nat \ {0}
  BY <1>6, <1>7
<1>9. turn \in Step /\ turn[1] = Here.msg /\ turn[2] \in Here.fields
      /\ \A n \in Here.fields : turn[2] <= n
  BY <1>2, <1>3, <1>4, <1>8 DEF Step
<1>10. turn \in SafeStep
  BY <1>2, <1>9 DEF SafeStep
<1>11. path \in SafePath /\ path # <<>> /\ Last_(path) = turn
  BY <1>2, <1>10 DEF path, SafePath, Last_
<1>12. path \in Path
  BY <1>2, <1>9 DEF path, Path
<1>13. field = schema[Here.msg].fields[turn[2]] /\ turn[2] \in DOMAIN schema[Here.msg].fields
  BY <1>2, <1>9 DEF field, FieldOf
<1>14. /\ field \in Field
       /\ field.kind \in {"message", "messages"} <=> field.type \in Msg
       /\ field.oneof \in 0..Len(schema[Here.msg].oneofs)
       /\ KnownBound(field.opts) /\ KnownSep(field.opts)
  BY <1>2, <1>5, <1>13, SchemaFacts
<1>15. field.type \in Msg => field.type \in Reachable(top)
  BY <1>2, <1>13, ReachesField
<1>16. field.opts \in Options
  BY <1>14 DEF Field
<1> QED
  BY <1>9, <1>10, <1>11, <1>12, <1>13, <1>14, <1>15, <1>16

(* What is put on the stack once the field is behind it.                   *)
LEMMA PastFacts ==
    ASSUME WalkInv, stack # <<>>, Walking
    PROVE  Past \in SafeLevel /\ PastOneof \in SafeLevel
<1>1. Here \in SafeLevel
  BY HereFacts
<1>2. field.oneof \in Nat
  BY TurnFacts
<1>3. Here.done \in SUBSET Nat
  BY LevelFacts
<1>4. ASSUME NEW l \in SafeLevel, NEW fields \in SUBSET l.fields
      PROVE  [l EXCEPT !.fields = fields] \in SafeLevel
  <2>1. l \in Level
    BY DEF SafeLevel
  <2>2. [l EXCEPT !.fields = fields] \in Level
    BY <2>1 DEF Level
  <2> QED
    BY <2>1, <2>2 DEF SafeLevel, Level
<1>5. Past \in SafeLevel
  BY <1>1, <1>4 DEF Past
<1>6. Past.done = Here.done
  BY <1>1 DEF Past, SafeLevel, Level
<1>7. ASSUME NEW l \in SafeLevel, NEW done \in SUBSET Nat
      PROVE  [l EXCEPT !.done = done] \in SafeLevel
  <2>1. l \in Level
    BY DEF SafeLevel
  <2>2. [l EXCEPT !.done = done] \in Level
    BY <2>1 DEF Level
  <2> QED
    BY <2>1, <2>2 DEF SafeLevel, Level
<1> QED
  BY <1>2, <1>3, <1>5, <1>6, <1>7 DEF PastOneof

(* The scope of the field and the id it is under.                          *)
LEMMA FieldScopeFacts ==
    ASSUME WalkInv, stack # <<>>, Walking
    PROVE  FieldScope \in KnownScope
<1> DEFINE format == [ctx.sc.format EXCEPT !["enumFormat"] = Or(field.enum, @)]
           sc == [ctx.sc EXCEPT !.format = format]
<1>1. ctx.sc \in Scope /\ ctx.sc \in KnownScope
  BY LevelFacts
<1>2. format \in [FormatOption -> FormatValue]
  <2>1. field.enum \in Optional(FormatValue)
    BY TurnFacts DEF Field
  <2>2. ctx.sc.format \in [FormatOption -> FormatValue]
    BY <1>1 DEF Scope
  <2>3. Or(field.enum, ctx.sc.format["enumFormat"]) \in FormatValue
    BY <2>1, <2>2, OptionAssumption DEF Or, Optional
  <2> QED
    BY <2>2, <2>3
<1> HIDE DEF format
<1>3. sc \in KnownScope
  BY <1>1, <1>2, ScopeParts
<1>4. FieldScope = ApplyField(sc, field.opts)
  BY DEF FieldScope, format
<1> HIDE DEF sc
<1> QED
  BY <1>3, <1>4, TurnFacts, FieldKnown

LEMMA ExclFacts ==
    ASSUME WalkInv, stack # <<>>
    PROVE  excl \in Nat
<1> DEFINE groups == schema[top].groups
           ids == {g \in DOMAIN groups : path \in Elements(groups[g])}
<1>1. ctx.excl \in Nat
  BY LevelFacts
<1>2. groups \in Seq(Seq(Path))
  BY SchemaFacts DEF WalkInv, TypeOK, Message
<1>3. ids \in SUBSET Nat /\ Len(groups) \in Nat /\ \A g \in ids : g <= Len(groups)
  BY <1>2
<1>4. excl = IF ids = {} THEN ctx.excl ELSE Max(ids)
  BY DEF excl, ExclusiveId
<1> HIDE DEF ids
<1>5. ids # {} => Max(ids) \in ids
  BY <1>3, MaxMember
<1> QED
  BY <1>1, <1>3, <1>4, <1>5

(* The oneof whose turn it is.                                             *)
LEMMA OneofFacts ==
    ASSUME WalkInv, stack # <<>>, OneofTurn
    PROVE  /\ oneof \in Oneof
           /\ OneofScope \in KnownScope
           /\ <<Here.msg, field.oneof>> \in Msg \X Nat
           /\ <<Here.msg, field.oneof>> \in Reachable(top) \X Nat
<1>1. Walking /\ field.oneof # 0
  BY DEF OneofTurn
<1>2. field.oneof \in 0..Len(schema[Here.msg].oneofs)
  BY <1>1, TurnFacts
<1>3. Here.msg \in Msg /\ Here.msg \in Reachable(top) /\ ctx.sc \in KnownScope
  BY LevelFacts
<1>4. schema[Here.msg].oneofs \in Seq(Oneof)
  BY <1>3, SchemaFacts DEF WalkInv, Message
<1>5. field.oneof \in DOMAIN schema[Here.msg].oneofs
  BY <1>1, <1>2, <1>4
<1>6. oneof \in Oneof /\ KnownSep(oneof.opts)
  BY <1>3, <1>5, SchemaFacts DEF oneof, WalkInv
<1>7. oneof.opts \in Options
  BY <1>6 DEF Oneof
<1>8. OneofScope \in KnownScope
  BY <1>3, <1>6, <1>7, OneofKnown DEF OneofScope
<1> QED
  BY <1>2, <1>3, <1>4, <1>6, <1>8

(* A oneof's own entry.                                                    *)
LEMMA OneofEntryType ==
    ASSUME WalkInv, stack # <<>>, OneofTurn,
           NEW kind \in {"discriminator", "oneofValue"}, NEW name \in Name, NEW x \in Nat
    PROVE  OneofEntry(kind, name, x) \in SafeEntry
<1> DEFINE e == OneofEntry(kind, name, x)
           o == <<Here.msg, field.oneof>>
<1>1. ctx.path \in SafePath /\ ctx.path \in Path
  BY LevelFacts
<1>2. OneofScope \in KnownScope /\ o \in Msg \X Nat /\ o \in Reachable(top) \X Nat
  BY OneofFacts
<1>3. OneofScope \in Scope
  BY <1>2 DEF KnownScope
<1>4. <<>> \in Path /\ <<>> \in Seq(Path) /\ <<>> \in SafePath
      /\ <<>> \in Seq(SafePath \ {<<>>})
  BY DEF Path, SafePath
<1>5. kind \in EntryKinds \ ValueKinds
  BY DEF EntryKinds, ValueKinds
<1> DEFINE b == Entry_(kind, name, ctx.path, x, OneofScope)
<1>6. e = [b EXCEPT !.oneof = o]
  BY DEF OneofEntry
<1> HIDE DEF o, Path, SafePath, e
<1>7. b \in Entry /\ b.kind = kind /\ b.path = ctx.path /\ b.sc = OneofScope
      /\ b.pickPath = <<>> /\ b.sources = <<>>
  BY <1>1, <1>3, <1>4, <1>5 DEF Entry, Entry_
<1> HIDE DEF b
<1>8. e \in Entry /\ e.kind = kind /\ e.path = ctx.path /\ e.sc = OneofScope
      /\ e.pickPath = <<>> /\ e.sources = <<>> /\ e.oneof = o
  BY <1>2, <1>6, <1>7 DEF Entry
<1>9. e \in SafeEntry
  BY <1>1, <1>2, <1>4, <1>5, <1>8 DEF SafeEntry, ValueKinds
<1> QED
  BY <1>9 DEF e

LEMMA DiscriminatorType ==
    ASSUME WalkInv, stack # <<>>, OneofTurn
    PROVE  Discriminator \in SafeEntry
<1>1. oneof.tag \in Name
  BY OneofFacts DEF Oneof
<1>2. ctx.excl \in Nat
  BY LevelFacts
<1> QED
  BY <1>1, <1>2, OneofEntryType DEF Discriminator

(* A level pushed on the stack is safe when its parts are.                 *)
LEMMA FrameFacts ==
    ASSUME NEW m \in Msg, m \in Reachable(top),
           NEW fields \in SUBSET Nat, NEW branch \in BOOLEAN,
           NEW c \in [sc : Scope, path : Path, depth : Nat, seen : SUBSET Msg, excl : Nat],
           fields \subseteq DOMAIN schema[m].fields,
           c.sc \in KnownScope, c.path \in SafePath, c.seen # {},
           c.depth < MaxBound + Cardinality(c.seen)
    PROVE  Frame(m, fields, branch, c) \in SafeLevel
<1>1. Frame(m, fields, branch, c) \in Level
  BY DEF Frame, Level
<1> QED
  BY <1>1 DEF Frame, SafeLevel

(* The positions of a message's fields are numbers.                        *)
LEMMA AllFieldsType ==
    ASSUME WalkInv, NEW m \in Msg
    PROVE  AllFields(m) \in SUBSET Nat /\ AllFields(m) = DOMAIN schema[m].fields
<1>1. schema[m].fields \in Seq(Field)
  BY SchemaFacts DEF WalkInv, Message
<1> QED
  BY <1>1 DEF AllFields

-----------------------------------------------------------------------------
(* The steps                                                               *)

Phases == {"start", "walk", "planned", "failed"}
Errors == {"none", "rules", "field", "cycle", "collision"}

(* What a step has to show: the plan it builds is for the same message.    *)
LEMMA Preserved ==
    ASSUME WalkInv,
           schema' = schema, top' = top, root' = root,
           phase' \in Phases, err' \in Errors,
           stack' \in Seq(SafeLevel),
           phase' = "walk" => stack' # <<>> /\ ~RulesFail(schema, top),
           entries' \in Seq(SafeEntry), oneofSeq' \in Nat
    PROVE  WalkInv'
<1>1. (\A m : Reachable(m)' = Reachable(m)) /\ SafeStep' = SafeStep
  BY DEF Reachable, Closed, SafeStep
<1>2. SafePath' = SafePath
  BY <1>1 DEF SafePath
<1>3. SafeLevel' = SafeLevel
  BY <1>1, <1>2 DEF SafeLevel
<1>4. SafeEntry' = SafeEntry
  BY <1>1, <1>2 DEF SafeEntry
<1>5. stack' \in Seq(Level)
  <2>1. SafeLevel \subseteq Level
    BY DEF SafeLevel
  <2> QED
    BY <2>1, SeqMonotonic
<1>6. entries' \in Seq(Entry)
  <2>1. SafeEntry \subseteq Entry
    BY DEF SafeEntry
  <2> QED
    BY <2>1, SeqMonotonic
<1> QED
  BY <1>3, <1>4, <1>5, <1>6 DEF WalkInv, TypeOK, Phases, Errors

LEMMA FailureStep ==
    ASSUME WalkInv, NEW why \in Errors, Failure(why)
    PROVE  WalkInv'
BY Preserved DEF Failure, WalkInv, TypeOK, Phases

(* What every step of the walk leaves alone, and how its entries grow.     *)
LEMMA WalkStep ==
    ASSUME WalkInv,
           phase = "walk", UNCHANGED <<schema, top, root, phase, err>>,
           stack' \in Seq(SafeLevel), stack' # <<>>,
           \/ entries' = entries
           \/ \E e \in SafeEntry : Add(e)
           \/ \E es \in Seq(SafeEntry) : entries' = entries \o es,
           oneofSeq' \in {oneofSeq, oneofSeq + 1}
    PROVE  WalkInv'
<1>1. entries \in Seq(SafeEntry) /\ oneofSeq \in Nat /\ phase \in Phases /\ err \in Errors
      /\ ~RulesFail(schema, top)
  BY DEF WalkInv, TypeOK, Phases, Errors
<1>2. entries' \in Seq(SafeEntry)
  <2>1. CASE entries' = entries
    BY <1>1, <2>1
  <2>2. ASSUME NEW e \in SafeEntry, Add(e)
        PROVE  entries' \in Seq(SafeEntry)
    BY <1>1, <2>2 DEF Add
  <2>3. ASSUME NEW es \in Seq(SafeEntry), entries' = entries \o es
        PROVE  entries' \in Seq(SafeEntry)
    BY <1>1, <2>3, ConcatProperties
  <2> QED
    BY <2>1, <2>2, <2>3
<1>3. oneofSeq' \in Nat
  BY <1>1
<1> QED
  BY <1>1, <1>2, <1>3, Preserved

(* The two ways of putting the field behind.                               *)
LEMMA OnwardStack ==
    ASSUME WalkInv, stack # <<>>, Walking,
           Onward \/ stack' = <<PastOneof>> \o Tail(stack)
    PROVE  stack' \in Seq(SafeLevel) /\ stack' # <<>>
<1>1. \A l \in SafeLevel : <<l>> \o Tail(stack) \in Seq(SafeLevel)
  BY HereFacts
<1>2. \A l \in SafeLevel : <<l>> \o Tail(stack) # <<>>
  <2>1. Tail(stack) \in Seq(SafeLevel)
    BY HereFacts
  <2> QED
    BY <2>1
<1> QED
  BY <1>1, <1>2, PastFacts DEF Onward

LEMMA PushedStack ==
    ASSUME WalkInv, stack # <<>>, Walking, NEW level \in SafeLevel, NEW past \in {Past, PastOneof},
           stack' = <<level, past>> \o Tail(stack)
    PROVE  stack' \in Seq(SafeLevel) /\ stack' # <<>>
<1>1. past \in SafeLevel
  BY PastFacts
<1>2. stack' \in Seq(SafeLevel)
  BY <1>1, HereFacts
<1>3. Tail(stack) \in Seq(SafeLevel)
  BY HereFacts
<1>4. Len(<<level, past>> \o Tail(stack)) > 0
  BY <1>1, <1>3
<1> QED
  BY <1>2, <1>4

(* The level of the message itself.                                        *)
TopLevel == Frame(top, AllFields(top), FALSE,
                  [sc |-> root, path |-> <<>>, depth |-> 0, seen |-> {top}, excl |-> 0])

LEMMA TopLevelSafe ==
    ASSUME WalkInv
    PROVE  TopLevel \in SafeLevel
<1> DEFINE c == [sc |-> root, path |-> <<>>, depth |-> 0, seen |-> {top}, excl |-> 0]
<1>1. top \in Msg /\ root \in Scope /\ root \in KnownScope /\ top \in Reachable(top)
  BY ReachesItself DEF WalkInv, TypeOK
<1>2. <<>> \in Path /\ <<>> \in SafePath
  BY DEF Path, SafePath
<1>3. c \in [sc : Scope, path : Path, depth : Nat, seen : SUBSET Msg, excl : Nat]
  BY <1>1, <1>2
<1>4. c.depth < MaxBound + Cardinality(c.seen)
  <2>1. c.depth = 0 /\ c.seen = {top}
    OBVIOUS
  <2>2. Cardinality(c.seen) = 1
    BY <2>1, FS_Singleton
  <2> QED
    BY <2>1, <2>2, BoundAssumption
<1>5. c.sc \in KnownScope /\ c.path \in SafePath /\ c.seen # {}
  BY <1>1, <1>2
<1>6. TopLevel = Frame(top, AllFields(top), FALSE, c)
  BY DEF TopLevel
<1> HIDE DEF c
<1> QED
  BY <1>1, <1>3, <1>4, <1>5, <1>6, AllFieldsType, FrameFacts

LEMMA BeginStep ==
    ASSUME WalkInv, Begin
    PROVE  WalkInv' /\ stack' = <<TopLevel>>
<1>1. top \in Msg /\ root \in Scope /\ root \in KnownScope /\ schema \in Schemas
  BY DEF WalkInv, TypeOK
<1>2. <<>> \in Path /\ <<>> \in SafePath
  BY DEF Path, SafePath
<1>5. stack' = <<TopLevel>> /\ TopLevel \in SafeLevel
  BY TopLevelSafe DEF Begin, TopLevel
<1>6. stack' \in Seq(SafeLevel) /\ stack' # <<>>
  <2> HIDE DEF TopLevel
  <2> QED
    BY <1>5
<1>7. Constants \in Seq(SafeEntry)
  <2> DEFINE Constant == [name : Name, valid : BOOLEAN]
             cs == schema[top].constants
  <2>1. cs \in Seq(Constant)
    BY <1>1, SchemaFacts DEF Message
  <2>2. \A d \in Constant : d.name \in Name
    OBVIOUS
  <2> HIDE DEF cs, Constant
  <2>3. DOMAIN cs = 1..Len(cs) /\ Len(cs) \in Nat
    BY <2>1
  <2>4. ASSUME NEW n \in DOMAIN cs
        PROVE  Entry_("constant", cs[n].name, <<>>, 0, root) \in SafeEntry
    <3>1. cs[n] \in Constant
      BY <2>1
    <3> QED
      BY <1>1, <1>2, <2>2, <3>1, EntryType DEF EntryKinds, ValueKinds
  <2>5. [n \in DOMAIN cs |-> Entry_("constant", cs[n].name, <<>>, 0, root)] \in Seq(SafeEntry)
    BY <2>3, <2>4, IsASeq
  <2> QED
    BY <2>5 DEF Constants, cs
<1> QED
  BY <1>5, <1>6, <1>7, Preserved DEF Begin, WalkInv, TypeOK, Phases, Errors

(* The steps of walkOneof.                                                 *)
LEMMA OneofTurnSteps ==
    ASSUME WalkInv, SkipOneof \/ OmitOneof \/ TagOneof \/ SingleKey
    PROVE  WalkInv'
<1>1. OneofTurn /\ Walking /\ stack # <<>> /\ phase = "walk"
  BY DEF SkipOneof, OmitOneof, TagOneof, SingleKey, NewOneof, OneofTurn, Walking, WalkInv
<1>2. Onward \/ stack' = <<PastOneof>> \o Tail(stack)
  BY DEF SkipOneof, OmitOneof, TagOneof, SingleKey
<1>3. stack' \in Seq(SafeLevel) /\ stack' # <<>>
  BY <1>1, <1>2, OnwardStack
<1>4. oneof.name \in Name
  BY <1>1, OneofFacts DEF Oneof
<1>5. OneofEntry("oneofValue", oneof.name, NextExclusive) \in SafeEntry
  BY <1>1, <1>4, OneofEntryType DEF NextExclusive, WalkInv, TypeOK
<1>6. Discriminator \in SafeEntry
  BY <1>1, DiscriminatorType
<1>7. CASE SkipOneof
  BY <1>1, <1>3, <1>7, WalkStep DEF SkipOneof
<1>8. CASE OmitOneof
  BY <1>1, <1>3, <1>8, WalkStep DEF OmitOneof
<1>9. CASE TagOneof
  BY <1>1, <1>3, <1>6, <1>9, WalkStep DEF TagOneof
<1>10. CASE SingleKey
  BY <1>1, <1>3, <1>5, <1>10, WalkStep DEF SingleKey
<1> QED
  BY <1>7, <1>8, <1>9, <1>10

(* The level of the branches of a oneof.                                   *)
BranchLevel == Frame(Here.msg, BranchFields, TRUE,
                     [ctx EXCEPT !.sc = BranchScope, !.excl = NextExclusive])

LEMMA BranchLevelSafe ==
    ASSUME WalkInv, OneofTurn
    PROVE  BranchLevel \in SafeLevel
<1> DEFINE c == [ctx EXCEPT !.sc = BranchScope, !.excl = NextExclusive]
           frame == Frame(Here.msg, BranchFields, TRUE, c)
<1>1. OneofTurn /\ Walking /\ stack # <<>>
  BY DEF OneofTurn, Walking, WalkInv
<1>2. BranchScope \in KnownScope /\ BranchScope \in Scope
  BY <1>1, OneofFacts, ScopeParts DEF BranchScope, FlattenMode, KnownScope
<1>3. NextExclusive \in Nat
  BY DEF NextExclusive, WalkInv, TypeOK
<1>4. /\ c \in [sc : Scope, path : Path, depth : Nat, seen : SUBSET Msg, excl : Nat]
      /\ c.sc = BranchScope /\ c.path = ctx.path
      /\ c.depth = ctx.depth /\ c.seen = ctx.seen
  BY <1>1, <1>2, <1>3, LevelFacts
<1>5. /\ Here.msg \in Msg /\ Here.msg \in Reachable(top)
      /\ BranchFields \in SUBSET Nat
      /\ BranchFields \subseteq DOMAIN schema[Here.msg].fields
  BY <1>1, LevelFacts, AllFieldsType DEF BranchFields
<1>6. frame \in SafeLevel
  <2> HIDE DEF c
  <2> QED
    BY <1>1, <1>2, <1>4, <1>5, LevelFacts, FrameFacts
<1> QED
  BY <1>6 DEF BranchLevel

LEMMA WalkBranchesStep ==
    ASSUME WalkInv, WalkBranches
    PROVE  WalkInv' /\ stack' = <<BranchLevel, PastOneof>> \o Tail(stack)
<1>1. OneofTurn /\ Walking /\ stack # <<>> /\ phase = "walk"
  BY DEF WalkBranches, NewOneof, OneofTurn, Walking, WalkInv
<1>6. BranchLevel \in SafeLevel
  BY <1>1, BranchLevelSafe
<1>7. stack' = <<BranchLevel, PastOneof>> \o Tail(stack)
  BY DEF WalkBranches, BranchLevel
<1>8. stack' \in Seq(SafeLevel) /\ stack' # <<>>
  <2> HIDE DEF BranchLevel
  <2> QED
    BY <1>1, <1>6, <1>7, PushedStack
<1>9. Discriminator \in SafeEntry
  BY <1>1, DiscriminatorType
<1>10. entries' = entries \/ \E e \in SafeEntry : Add(e)
  BY <1>9 DEF WalkBranches, Add
<1> QED
  BY <1>1, <1>7, <1>8, <1>10, WalkStep DEF WalkBranches

(* The entries of walkField, addPick, addLifts and addCollection.          *)
LEMMA FieldEntries ==
    ASSUME WalkInv, stack # <<>>, FieldTurn
    PROVE  /\ \A kind \in {"scalar", "collection", "structPick"}, p \in SafePath :
                 p # <<>> => Entry_(kind, field.name, p, excl, FieldScope) \in SafeEntry
           /\ [Collection(field.name, path) EXCEPT !.dynamic = Spreading(FieldScope)]
                 \in SafeEntry
           /\ PickOk => Picked \in SafeEntry
           /\ LiftOk => \A n \in DOMAIN field.lift :
                 Entry_("scalar", field.lift[n].as, path \o field.lift[n].path,
                        excl, FieldScope) \in SafeEntry
           /\ field.lift \in Seq([path : Path, as : Name])
<1>1. Walking
  BY DEF FieldTurn
<1>2. FieldScope \in KnownScope /\ excl \in Nat /\ path \in SafePath /\ path # <<>>
  BY <1>1, FieldScopeFacts, ExclFacts, TurnFacts
<1>3. field.name \in Name /\ field.pick \in Path /\ field.lift \in Seq([path : Path, as : Name])
  BY <1>1, TurnFacts DEF Field
<1>4. \A kind \in {"scalar", "collection", "structPick"}, name \in Name, p \in SafePath :
          p # <<>> => Entry_(kind, name, p, excl, FieldScope) \in SafeEntry
  BY <1>2, EntryType DEF EntryKinds
<1>5. \A p, q \in SafePath : p # <<>> => p \o q \in SafePath /\ p \o q # <<>>
  BY ConcatProperties, ConcatSimplifications DEF SafePath
<1>6. ASSUME NEW p \in Path, IsLeafPath(schema, field.type, p)
      PROVE  p \in SafePath
  <2>1. IsPath(schema, field.type, p)
    BY <1>6 DEF IsLeafPath
  <2>2. p # <<>> /\ p[1][1] = field.type
    BY <2>1 DEF IsPath
  <2>3. p[1] \in Step
    BY <2>2 DEF Path
  <2>4. field.type \in Msg
    BY <2>2, <2>3 DEF Step
  <2>5. field.type \in Reachable(top)
    BY <1>1, <2>4, TurnFacts
  <2> QED
    BY <2>1, <2>5, ResolvedPath DEF WalkInv
<1>7. Spreading(FieldScope) \in BOOLEAN
  BY DEF Spreading
<1>8. \A p \in SafePath : p # <<>> => Collection(field.name, p) \in SafeEntry
  BY <1>3, <1>4 DEF Collection
<1>9. [Collection(field.name, path) EXCEPT !.dynamic = Spreading(FieldScope)] \in SafeEntry
  BY <1>2, <1>7, <1>8, EntryParts
<1>10. ASSUME PickOk
       PROVE  Picked \in SafeEntry
  <2>1. CASE field.kind = "struct"
    BY <1>2, <1>3, <1>4, <2>1 DEF Picked
  <2>2. CASE field.kind # "struct"
    <3>1. field.pick \in SafePath
      BY <1>3, <1>6, <1>10, <2>2 DEF PickOk
    <3>2. [Collection(field.name, path) EXCEPT !.dynamic = Spreading(FieldScope),
                                               !.pickPath = field.pick] \in SafeEntry
      BY <1>2, <1>7, <1>8, <3>1, EntryParts
    <3> DEFINE full == path \o field.pick
    <3>3. full \in SafePath /\ full # <<>>
      BY <1>2, <1>5, <3>1
    <3> HIDE DEF full
    <3>4. Collection(field.name, full) \in SafeEntry /\ Collection(field.name, full).path = full
      BY <1>8, <3>3 DEF Collection, Entry_
    <3>5. \A k \in {"collection", "scalar"} :
              [Collection(field.name, full) EXCEPT !.kind = k] \in SafeEntry
      BY <3>3, <3>4, EntryParts
    <3> QED
      BY <2>2, <3>2, <3>5 DEF Picked, full
  <2> QED
    BY <2>1, <2>2
<1>11. ASSUME LiftOk, NEW n \in DOMAIN field.lift
       PROVE  Entry_("scalar", field.lift[n].as, path \o field.lift[n].path,
                     excl, FieldScope) \in SafeEntry
  <2> DEFINE Lifted == [path : Path, as : Name]
  <2>1. \A l \in Lifted : l.path \in Path /\ l.as \in Name
    OBVIOUS
  <2>2. field.lift \in Seq(Lifted)
    BY <1>3
  <2> HIDE DEF Lifted
  <2>3. field.lift[n] \in Lifted
    BY <2>2
  <2>4. field.lift[n] \in Elements(field.lift)
    BY DEF Elements
  <2>5. field.lift[n].path \in SafePath
    BY <1>6, <1>11, <2>1, <2>3, <2>4 DEF LiftOk
  <2>6. path \o field.lift[n].path \in SafePath /\ path \o field.lift[n].path # <<>>
    BY <1>2, <1>5, <2>5
  <2> QED
    BY <1>4, <2>1, <2>3, <2>6
<1>12. \A kind \in {"scalar", "collection", "structPick"}, p \in SafePath :
          p # <<>> => Entry_(kind, field.name, p, excl, FieldScope) \in SafeEntry
  BY <1>3, <1>4
<1> QED
  BY <1>3, <1>9, <1>10, <1>11, <1>12

(* The steps that move past a field.                                       *)
LEMMA FieldSteps ==
    ASSUME WalkInv,
           DropField \/ WriteLeaf \/ WriteCollection \/ Pick \/ Lift \/ Nest
    PROVE  WalkInv'
<1>1. FieldTurn /\ Walking /\ stack # <<>> /\ phase = "walk"
  BY DEF DropField, WriteLeaf, WriteCollection, Pick, Lift, Nest, Descends, KeptField,
         FieldTurn, Walking, WalkInv
<1>2. Onward
  BY DEF DropField, WriteLeaf, WriteCollection, Pick, Lift, Nest, Emit
<1>3. stack' \in Seq(SafeLevel) /\ stack' # <<>>
  BY <1>1, <1>2, OnwardStack
<1>4. UNCHANGED <<schema, top, root, phase, err, oneofSeq>>
  BY DEF DropField, WriteLeaf, WriteCollection, Pick, Lift, Nest, Emit
<1>5. CASE DropField
  BY <1>1, <1>3, <1>4, <1>5, WalkStep DEF DropField
<1>6. ASSUME NEW e \in SafeEntry, Emit(e)
      PROVE  WalkInv'
  <2>1. Add(e)
    BY <1>6 DEF Emit
  <2>2. oneofSeq' \in {oneofSeq, oneofSeq + 1}
    BY <1>4
  <2> QED
    BY <1>1, <1>3, <1>4, <2>1, <2>2, WalkStep
<1>7. path \in SafePath /\ path # <<>> /\ Last_(path) = turn /\ field.name \in Name
      /\ field = FieldOf(schema, turn)
  BY <1>1, TurnFacts DEF Field, field
<1>8. CASE WriteLeaf
  <2>1. Entry_("scalar", field.name, path, excl, FieldScope) \in SafeEntry
    BY <1>1, <1>7, FieldEntries
  <2> QED
    BY <1>6, <1>8, <2>1 DEF WriteLeaf
<1>9. CASE WriteCollection
  BY <1>1, <1>6, <1>9, FieldEntries DEF WriteCollection
<1>10. CASE Pick
  BY <1>1, <1>6, <1>10, FieldEntries DEF Pick
<1>11. CASE Lift
  <2> DEFINE Lifted(n) == Entry_("scalar", field.lift[n].as, path \o field.lift[n].path,
                                 excl, FieldScope)
             es == [n \in DOMAIN field.lift |-> Lifted(n)]
  <2>1. entries' = entries \o es
    BY <1>11 DEF Lift
  <2>2. \A n \in DOMAIN field.lift : Lifted(n) \in SafeEntry
    BY <1>1, <1>11, FieldEntries DEF Lift
  <2>3. DOMAIN field.lift = 1..Len(field.lift) /\ Len(field.lift) \in Nat
    BY <1>1, FieldEntries
  <2> HIDE DEF Lifted
  <2>4. es \in Seq(SafeEntry)
    BY <2>2, <2>3, IsASeq
  <2>5. oneofSeq' \in {oneofSeq, oneofSeq + 1}
    BY <1>4
  <2> QED
    BY <1>1, <1>3, <1>4, <2>1, <2>4, <2>5, WalkStep
<1>12. CASE Nest
  <2> DEFINE sc == IF BeyondDepth THEN [FieldScope EXCEPT !.exhausted = TRUE] ELSE FieldScope
  <2>1. FieldScope \in KnownScope
    BY <1>1, FieldScopeFacts
  <2>2. sc \in KnownScope
    BY <2>1, ScopeParts
  <2>3. excl \in Nat
    BY <1>1, ExclFacts
  <2>4. field.kind = "message"
    BY <1>12 DEF Nest, Descends
  <2>5. Entry_("object", field.name, path, excl, sc) \in SafeEntry
    <3> HIDE DEF sc
    <3> QED
      BY <1>7, <2>2, <2>3, <2>4, EntryType DEF EntryKinds
  <2> QED
    BY <1>6, <1>12, <2>5 DEF Nest
<1> QED
  BY <1>5, <1>8, <1>9, <1>10, <1>11, <1>12

(* descend: a message inlined without a bound is of a type not met before, *)
(* and with one it is within the bound.                                    *)
(* The level of a message that is descended into.                          *)
InnerLevel == Frame(field.type, AllFields(field.type), FALSE,
                    [sc |-> InnerScope, path |-> path, depth |-> depth,
                     seen |-> ctx.seen \cup {field.type}, excl |-> excl])

LEMMA InnerLevelSafe ==
    ASSUME WalkInv, Descend
    PROVE  InnerLevel \in SafeLevel
<1> DEFINE c == [sc |-> InnerScope, path |-> path, depth |-> depth,
                 seen |-> ctx.seen \cup {field.type}, excl |-> excl]
           frame == Frame(field.type, AllFields(field.type), FALSE, c)
<1>1. FieldTurn /\ Walking /\ stack # <<>>
  BY DEF Descend, Descends, KeptField, FieldTurn, Walking, WalkInv
<1>2. field.type \in Msg /\ field.type \in Reachable(top)
  BY <1>1, TurnFacts DEF Descend, Descends
<1>3. FieldScope \in KnownScope /\ FieldScope \in Scope /\ FieldScope.maxDepth <= MaxBound
  BY <1>1, FieldScopeFacts DEF KnownScope
<1>4. InnerScope \in KnownScope /\ InnerScope \in Scope
  <2>1. Interior(schema, field.type) \in Scope
    BY <1>2, MessageScopes DEF WalkInv, KnownScope
  <2>2. Interior(schema, field.type).flatten \in FlattenMode
    BY <2>1 DEF Scope
  <2>3. InnerScope \in KnownScope
    BY <1>3, <2>2, ScopeParts DEF InnerScope, FlattenMode
  <2> QED
    BY <2>3 DEF KnownScope
<1>5. /\ ctx \in [sc : Scope, path : Path, depth : Nat, seen : SUBSET Msg, excl : Nat]
      /\ ctx.seen # {} /\ ctx.depth < MaxBound + Cardinality(ctx.seen)
  BY <1>1, LevelFacts
<1>6. path \in Path /\ path \in SafePath /\ excl \in Nat
  BY <1>1, TurnFacts, ExclFacts
<1>7. c \in [sc : Scope, path : Path, depth : Nat, seen : SUBSET Msg, excl : Nat]
  BY <1>2, <1>4, <1>5, <1>6 DEF depth
<1>8. c.depth < MaxBound + Cardinality(c.seen)
  <2>1. IsFiniteSet(ctx.seen)
    BY <1>5, MsgAssumption, FS_Subset
  <2>2. /\ Cardinality(ctx.seen) \in Nat /\ Cardinality(ctx.seen) # 0
        /\ Cardinality(ctx.seen \cup {field.type}) =
              IF field.type \in ctx.seen THEN Cardinality(ctx.seen)
                                         ELSE Cardinality(ctx.seen) + 1
    BY <1>5, <2>1, FS_CardinalityType, FS_EmptySet, FS_AddElement
  <2>3. depth = ctx.depth + 1 /\ ctx.depth \in Nat /\ MaxBound \in Nat
    BY <1>5, BoundAssumption DEF depth
  <2>4. CASE field.type \notin ctx.seen
    BY <1>5, <2>2, <2>3, <2>4
  <2>5. CASE field.type \in ctx.seen
    <3>1. FieldScope.maxDepth # 0 /\ ~(depth > FieldScope.maxDepth)
      BY <2>5 DEF Descend, Repeats, Inline, BeyondDepth
    <3>2. FieldScope.maxDepth \in Nat
      BY <1>3 DEF Scope
    <3>3. depth <= MaxBound
      BY <1>3, <2>3, <3>1, <3>2
    <3> QED
      BY <2>2, <2>3, <3>3
  <2> QED
    BY <2>4, <2>5
<1>9. frame \in SafeLevel
  <2>1. c.sc \in KnownScope /\ c.path \in SafePath /\ c.seen # {}
    BY <1>4, <1>6
  <2> HIDE DEF c
  <2> QED
    BY <1>2, <1>7, <1>8, <2>1, AllFieldsType, FrameFacts
<1> QED
  BY <1>9 DEF InnerLevel

LEMMA DescendStep ==
    ASSUME WalkInv, Descend
    PROVE  WalkInv' /\ stack' = <<InnerLevel, Past>> \o Tail(stack)
<1>1. Walking /\ stack # <<>> /\ phase = "walk"
  BY DEF Descend, Descends, KeptField, FieldTurn, Walking, WalkInv
<1>2. InnerLevel \in SafeLevel
  BY InnerLevelSafe
<1>3. stack' = <<InnerLevel, Past>> \o Tail(stack)
  BY DEF Descend, InnerLevel
<1>4. stack' \in Seq(SafeLevel) /\ stack' # <<>>
  <2> HIDE DEF InnerLevel
  <2> QED
    BY <1>1, <1>2, <1>3, PushedStack
<1> QED
  BY <1>1, <1>3, <1>4, WalkStep DEF Descend

LEMMA ReturnStep ==
    ASSUME WalkInv, Return
    PROVE  WalkInv'
<1>1. stack \in Seq(SafeLevel) /\ Len(stack) > 1 /\ stack' = Tail(stack) /\ phase = "walk"
  BY DEF WalkInv, Return
<1>2. Tail(stack) \in Seq(SafeLevel) /\ Len(Tail(stack)) > 0
  BY <1>1
<1>3. Tail(stack) # <<>>
  <2> DEFINE t == Tail(stack)
  <2>1. t \in Seq(SafeLevel) /\ Len(t) > 0
    BY <1>2
  <2> HIDE DEF t
  <2>2. t # <<>>
    BY <2>1, EmptySeq
  <2> QED
    BY <2>2 DEF t
<1> QED
  BY <1>1, <1>2, <1>3, WalkStep DEF Return

(* Merged keys are entries, and their sources fields there are.            *)
LEMMA MergesType ==
    ASSUME WalkInv, ~RulesFail(schema, top)
    PROVE  Merges \in Seq(SafeEntry)
<1> DEFINE Rule == [name : Name, from : Seq(Path), opts : Options]
           rules == schema[top].merges
           merge(r) == [Entry_("merge", r.name, <<>>, 0, MergeScope(schema, top, r))
                           EXCEPT !.sources = r.from]
<1>1. top \in Msg /\ schema \in Schemas /\ top \in Reachable(top)
  BY ReachesItself DEF WalkInv, TypeOK
<1>2. rules \in Seq(Rule)
  BY <1>1, SchemaFacts DEF Message
<1>3. \A r \in Rule : r.name \in Name /\ r.from \in Seq(Path) /\ r.opts \in Options
  OBVIOUS
<1>4. DOMAIN rules = 1..Len(rules) /\ Len(rules) \in Nat
      /\ \A n \in DOMAIN rules : rules[n] \in Rule
  <2> HIDE DEF rules, Rule
  <2> QED
    BY <1>2
<1>5. <<>> \in SafePath
  BY DEF SafePath
<1>6. Interior(schema, top) \in KnownScope
  BY <1>1, MessageScopes
<1> HIDE DEF Rule
<1>7. ASSUME NEW n \in DOMAIN rules
      PROVE  merge(rules[n]) \in SafeEntry
  <2> DEFINE r == rules[n]
  <2>1. r \in Rule
    BY <1>4
  <2>2. r.name \in Name /\ r.from \in Seq(Path) /\ r.opts \in Options
    BY <1>3, <2>1
  <2>3. KnownSep(r.opts)
    BY <1>1, SchemaFacts
  <2>4. MergeScope(schema, top, r) \in KnownScope
    BY <1>6, <2>2, <2>3, OneofKnown DEF MergeScope
  <2>5. ASSUME NEW a \in DOMAIN r.from
        PROVE  r.from[a] \in SafePath \ {<<>>}
    <3>1. IsPath(schema, top, schema[top].merges[n].from[a])
      <4>1. <<n, a>> \in UNION {{<<k, b>> : b \in DOMAIN schema[top].merges[k].from} :
                                    k \in DOMAIN schema[top].merges}
        OBVIOUS
      <4> QED
        BY <4>1 DEF RulesFail
    <3>2. r.from[a] \in Path
      BY <2>2
    <3> QED
      BY <1>1, <3>1, <3>2, ResolvedPath
  <2> HIDE DEF r
  <2>6. r.from \in Seq(SafePath \ {<<>>})
    BY <2>2, <2>5
  <2>7. Entry_("merge", r.name, <<>>, 0, MergeScope(schema, top, r)) \in SafeEntry
    BY <1>5, <2>2, <2>4, EntryType DEF EntryKinds, ValueKinds
  <2> QED
    BY <2>6, <2>7, EntryParts DEF r
<1> HIDE DEF rules, merge
<1>8. [n \in DOMAIN rules |-> merge(rules[n])] \in Seq(SafeEntry)
  BY <1>4, <1>7, IsASeq
<1> QED
  BY <1>8 DEF Merges, rules, merge

LEMMA EndSteps ==
    ASSUME WalkInv, Finish \/ Refuse
    PROVE  WalkInv'
<1>1. entries \in Seq(SafeEntry) /\ stack \in Seq(SafeLevel) /\ oneofSeq \in Nat
      /\ err \in Errors
  BY DEF WalkInv, TypeOK, Errors
<1>2. ~RulesFail(schema, top)
  BY DEF Finish, Refuse, Walked, WalkInv
<1>3. entries \o Merges \in Seq(SafeEntry)
  BY <1>1, <1>2, MergesType, ConcatProperties
<1>4. <<>> \in Seq(SafeLevel)
  OBVIOUS
<1>5. CASE Finish
  BY <1>1, <1>3, <1>4, <1>5, Preserved DEF Finish, Phases
<1>6. CASE Refuse
  BY <1>1, <1>3, <1>6, Preserved DEF Refuse, Phases, Errors
<1> QED
  BY <1>5, <1>6

-----------------------------------------------------------------------------
(* The invariant and its consequences                                      *)

LEMMA InitInv == Init => WalkInv
<1> SUFFICES ASSUME Init PROVE WalkInv
  OBVIOUS
<1>1. PICK m \in Tops, x \in BOOLEAN :
          PlanOf(m, RootOf(schema, m, [Interior(schema, m) EXCEPT !.exhausted = x]))
  BY DEF Init
<1>2. schema \in Schemas /\ schema \in Schema /\ m \in Msg
  BY SchemasAssumption DEF Init
<1>3. Interior(schema, m) \in KnownScope
  BY <1>2, MessageScopes
<1>4. [Interior(schema, m) EXCEPT !.exhausted = x] \in KnownScope
  BY <1>3, ScopeParts
<1>5. root \in KnownScope /\ root \in Scope /\ top \in Msg
  BY <1>1, <1>2, <1>4, MessageScopes DEF PlanOf, KnownScope
<1>6. stack = <<>> /\ entries = <<>> /\ oneofSeq = 0 /\ err = "none" /\ phase = "start"
  BY <1>1 DEF PlanOf
<1>7. /\ stack \in Seq(SafeLevel) /\ stack \in Seq(Level)
      /\ entries \in Seq(SafeEntry) /\ entries \in Seq(Entry)
  BY <1>6
<1> QED
  BY <1>2, <1>5, <1>6, <1>7 DEF WalkInv, TypeOK

(* The same for a plan that a generated file is waiting for.               *)
LEMMA PlanStepInv ==
    ASSUME WalkInv, Next
    PROVE  WalkInv'
<1>1. CASE Begin
  BY <1>1, BeginStep
<1>2. CASE RejectRules \/ RejectField \/ RejectPick \/ RejectLift \/ Cycle
  BY <1>2, FailureStep DEF RejectRules, RejectField, RejectPick, RejectLift, Cycle, Errors
<1>3. CASE SkipOneof \/ OmitOneof \/ TagOneof \/ SingleKey
  BY <1>3, OneofTurnSteps
<1>4. CASE WalkBranches
  BY <1>4, WalkBranchesStep
<1>5. CASE DropField \/ WriteLeaf \/ WriteCollection \/ Pick \/ Lift \/ Nest
  BY <1>5, FieldSteps
<1>6. CASE Descend
  BY <1>6, DescendStep
<1>7. CASE Return
  BY <1>7, ReturnStep
<1>8. CASE Finish \/ Refuse
  BY <1>8, EndSteps
<1> QED
  BY <1>1, <1>2, <1>3, <1>4, <1>5, <1>6, <1>7, <1>8 DEF Next

LEMMA NextInv == WalkInv /\ [Next]_vars => WalkInv'
<1>1. ASSUME WalkInv, UNCHANGED vars
      PROVE  WalkInv'
  BY <1>1, Preserved DEF vars, planVars, WalkInv, TypeOK, Phases, Errors
<1> QED
  BY <1>1, PlanStepInv

THEOREM WalkInvariant == Spec => []WalkInv
BY InitInv, NextInv, PTL DEF Spec

(* Every variable of the walk keeps its type, whatever the message types.  *)
THEOREM WalkTypeCorrect == Spec => []TypeOK
<1>1. WalkInv => TypeOK
  BY DEF WalkInv
<1> QED
  BY <1>1, WalkInvariant, PTL

(* No level gets deeper than the largest bound plus one level per type met *)
(* on the way, so no recursive type is walked forever.                     *)
THEOREM WalkDepthBounded == Spec => []DepthBounded
<1>1. WalkInv => DepthBounded
  <2> SUFFICES ASSUME WalkInv, NEW n \in DOMAIN stack
               PROVE  stack[n].ctx.depth < MaxBound + Cardinality(stack[n].ctx.seen)
    BY DEF DepthBounded
  <2>1. stack \in Seq(SafeLevel)
    BY DEF WalkInv
  <2>2. stack[n] \in SafeLevel
    BY <2>1
  <2> QED
    BY <2>2 DEF SafeLevel
<1> QED
  BY <1>1, WalkInvariant, PTL
=============================================================================
