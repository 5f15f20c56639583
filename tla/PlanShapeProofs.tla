--------------------------- MODULE PlanShapeProofs -------------------------
(***************************************************************************)
(* What a plan looks like, for all message types and options: its formats, *)
(* its ids, the order of its entries, that it has them all, and refusals.  *)
(***************************************************************************)
EXTENDS PlanWalkProofs

-----------------------------------------------------------------------------
(* Paths                                                                   *)

(* Path q goes on where path p ends.                                       *)
Begins(p, q) == /\ p \in Path /\ q \in Path
                /\ Len(p) <= Len(q)
                /\ \A n \in DOMAIN p : q[n] = p[n]

(* The prefixes of a path.                                                 *)
LEMMA PrefixFacts ==
    ASSUME NEW p \in Path, NEW n \in 0..Len(p)
    PROVE  /\ Prefix(p, n) \in Path
           /\ Len(Prefix(p, n)) = n
           /\ \A k \in 1..n : Prefix(p, n)[k] = p[k]
<1>1. p \in Seq(Step) /\ Len(p) \in Nat /\ n \in Nat /\ n <= Len(p)
  BY DEF Path
<1>2. \A k \in 1..n : p[k] \in Step
  BY <1>1
<1> QED
  BY <1>1, <1>2, SubSeqProperties DEF Prefix, Path

(* Two paths that agree up to a place have one prefix there.               *)
LEMMA PrefixesAgree ==
    ASSUME NEW p \in Path, NEW q \in Path, NEW n \in Nat, n <= Len(p), n <= Len(q)
    PROVE  Prefix(p, n) = Prefix(q, n) <=> \A k \in 1..n : p[k] = q[k]
<1>1. n \in 0..Len(p) /\ n \in 0..Len(q)
  BY DEF Path
<1>2. /\ Prefix(p, n) \in Seq(Step) /\ Prefix(q, n) \in Seq(Step)
      /\ Len(Prefix(p, n)) = n /\ Len(Prefix(q, n)) = n
      /\ \A k \in 1..n : Prefix(p, n)[k] = p[k] /\ Prefix(q, n)[k] = q[k]
  BY <1>1, PrefixFacts DEF Path
<1>3. ASSUME \A k \in 1..n : p[k] = q[k]
      PROVE  Prefix(p, n) = Prefix(q, n)
  BY <1>2, <1>3, SeqEqual
<1>4. ASSUME Prefix(p, n) = Prefix(q, n), NEW k \in 1..n
      PROVE  p[k] = q[k]
  BY <1>2, <1>4
<1> QED
  BY <1>3, <1>4

(* The prefixes of a path are those of the paths it begins.                *)
LEMMA BeginsFacts ==
    ASSUME NEW p, NEW q, Begins(p, q)
    PROVE  /\ p \in Path /\ q \in Path
           /\ DOMAIN p \subseteq DOMAIN q
           /\ \A n \in 0..Len(p) : Prefix(q, n) = Prefix(p, n)
           /\ Prefix(q, Len(p)) = p
<1>1. /\ p \in Path /\ q \in Path /\ Len(p) <= Len(q) /\ Len(p) \in Nat /\ Len(q) \in Nat
      /\ DOMAIN p = 1..Len(p) /\ DOMAIN q = 1..Len(q)
      /\ \A n \in DOMAIN p : q[n] = p[n]
  BY DEF Begins, Path
<1>2. ASSUME NEW n \in 0..Len(p)
      PROVE  Prefix(q, n) = Prefix(p, n)
  <2>1. n \in Nat /\ n <= Len(p) /\ n <= Len(q) /\ \A k \in 1..n : q[k] = p[k]
    BY <1>1
  <2> QED
    BY <1>1, <2>1, PrefixesAgree
<1>3. Prefix(q, Len(p)) = Prefix(p, Len(p)) /\ Len(p) \in 0..Len(p)
  BY <1>1, <1>2
<1>4. Prefix(p, Len(p)) = p
  <2>1. p \in Seq(Step)
    BY <1>1 DEF Path
  <2> QED
    BY <2>1, SubSeqFull DEF Prefix
<1> QED
  BY <1>1, <1>2, <1>3, <1>4

LEMMA BeginsItself ==
    ASSUME NEW p \in Path
    PROVE  Begins(p, p)
BY DEF Begins, Path

(* A path begins those that add steps to it.                               *)
LEMMA BeginsLonger ==
    ASSUME NEW p \in Path
    PROVE  /\ \A s \in Step : /\ Begins(p, Append(p, s))
                              /\ Len(Append(p, s)) = Len(p) + 1
                              /\ Append(p, s)[Len(p) + 1] = s
                              /\ DOMAIN Append(p, s) = DOMAIN p \cup {Len(p) + 1}
           /\ \A q \in Path : Begins(p, p \o q)
<1>1. p \in Seq(Step) /\ Len(p) \in Nat /\ DOMAIN p = 1..Len(p)
  BY DEF Path
<1>2. ASSUME NEW s \in Step
      PROVE  /\ Begins(p, Append(p, s))
             /\ Len(Append(p, s)) = Len(p) + 1
             /\ Append(p, s)[Len(p) + 1] = s
             /\ DOMAIN Append(p, s) = DOMAIN p \cup {Len(p) + 1}
  <2>1. /\ Append(p, s) \in Seq(Step) /\ Len(Append(p, s)) = Len(p) + 1
        /\ Append(p, s)[Len(p) + 1] = s
        /\ \A n \in 1..Len(p) : Append(p, s)[n] = p[n]
        /\ DOMAIN Append(p, s) = 1..Len(p) + 1
    BY <1>1
  <2> HIDE DEF Path
  <2>2. Begins(p, Append(p, s))
    BY <1>1, <2>1 DEF Begins, Path
  <2> QED
    BY <1>1, <2>1, <2>2
<1>3. ASSUME NEW q \in Path
      PROVE  Begins(p, p \o q)
  <2>1. q \in Seq(Step) /\ Len(q) \in Nat
    BY DEF Path
  <2>2. /\ p \o q \in Seq(Step) /\ Len(p \o q) = Len(p) + Len(q)
        /\ \A n \in 1..Len(p) + Len(q) :
              (p \o q)[n] = IF n <= Len(p) THEN p[n] ELSE q[n - Len(p)]
    BY <1>1, <2>1, ConcatProperties
  <2> QED
    BY <1>1, <2>1, <2>2 DEF Begins, Path
<1> QED
  BY <1>2, <1>3

LEMMA BeginsFurther ==
    ASSUME NEW p, NEW q, NEW r, Begins(p, q), Begins(q, r)
    PROVE  Begins(p, r)
<1>1. /\ p \in Path /\ q \in Path /\ r \in Path
      /\ Len(p) \in Nat /\ Len(q) \in Nat /\ Len(r) \in Nat
      /\ DOMAIN p = 1..Len(p) /\ DOMAIN q = 1..Len(q)
  BY DEF Begins, Path
<1> QED
  BY <1>1 DEF Begins

(* What a prefix is a prefix of, it begins.                                *)
LEMMA PrefixBegins ==
    ASSUME NEW p \in Path, NEW q \in Path
    PROVE  IsPrefixOf(p, q) <=> Begins(p, q)
<1>1. Len(p) \in Nat /\ Len(q) \in Nat /\ DOMAIN p = 1..Len(p)
  BY DEF Path
<1>2. ASSUME Begins(p, q)
      PROVE  IsPrefixOf(p, q)
  BY <1>2, BeginsFacts DEF IsPrefixOf, Begins
<1>3. ASSUME IsPrefixOf(p, q)
      PROVE  Begins(p, q)
  <2>1. Len(p) <= Len(q) /\ p = Prefix(q, Len(p))
    BY <1>3 DEF IsPrefixOf
  <2>2. Len(p) \in 0..Len(q)
    BY <1>1, <2>1
  <2>3. \A k \in 1..Len(p) : Prefix(q, Len(p))[k] = q[k]
    BY <2>2, PrefixFacts
  <2> QED
    BY <1>1, <2>1, <2>3 DEF Begins
<1> QED
  BY <1>2, <1>3

-----------------------------------------------------------------------------
(* What the steps of the walk do                                           *)

(* What is taken from inside a field when it is not taken itself.          *)
Taken(f) == {f.pick} \cup {l.path : l \in Elements(f.lift)}

(* An entry of the field whose turn it is: about the field itself, or      *)
(* about what a pick or a lift takes from inside it.                       *)
FieldEntry(e) ==
    /\ e \in SafeEntry
    /\ e.kind \in ValueKinds /\ e.oneof = <<>>
    /\ e.excl = excl /\ e.sc.format = FieldScope.format
    /\ Begins(path, e.path)
    /\ e.path # path => /\ field.pick # <<>> \/ field.lift # <<>>
                        /\ \E q \in Taken(field) : e.path = path \o q

LiftOnly(es) ==
    \A n, k \in DOMAIN es :
        n # k => /\ n \in DOMAIN field.lift /\ k \in DOMAIN field.lift
                 /\ es[n].path = path \o field.lift[n].path
                 /\ es[k].path = path \o field.lift[k].path

(* The elements of a sequence put together from others.                    *)
LEMMA ElementsOfConcat ==
    ASSUME NEW S, NEW s \in Seq(S), NEW t \in Seq(S)
    PROVE  Elements(s \o t) = Elements(s) \cup Elements(t)
<1>1. /\ s \o t \in Seq(S) /\ Len(s \o t) = Len(s) + Len(t)
      /\ \A i \in 1..Len(s) + Len(t) : (s \o t)[i] = IF i <= Len(s) THEN s[i] ELSE t[i - Len(s)]
  BY ConcatProperties
<1>2. /\ DOMAIN s = 1..Len(s) /\ DOMAIN t = 1..Len(t) /\ Len(s) \in Nat /\ Len(t) \in Nat
      /\ DOMAIN (s \o t) = 1..Len(s) + Len(t)
  BY <1>1, LenProperties
<1>3. ASSUME NEW i \in DOMAIN (s \o t)
      PROVE  (s \o t)[i] \in Elements(s) \cup Elements(t)
  <2>1. CASE i <= Len(s)
    BY <1>1, <1>2, <2>1 DEF Elements
  <2>2. CASE ~(i <= Len(s))
    <3>1. i - Len(s) \in DOMAIN t
      BY <1>2, <2>2
    <3> QED
      BY <1>1, <1>2, <2>2, <3>1 DEF Elements
  <2> QED
    BY <2>1, <2>2
<1>4. ASSUME NEW i \in DOMAIN s
      PROVE  s[i] \in Elements(s \o t)
  <2>1. i \in DOMAIN (s \o t) /\ (s \o t)[i] = s[i]
    BY <1>1, <1>2
  <2> QED
    BY <2>1 DEF Elements
<1>5. ASSUME NEW i \in DOMAIN t
      PROVE  t[i] \in Elements(s \o t)
  <2>1. Len(s) + i \in DOMAIN (s \o t) /\ (s \o t)[Len(s) + i] = t[i]
    BY <1>1, <1>2
  <2> QED
    BY <2>1 DEF Elements
<1>6. Elements(s \o t) \subseteq Elements(s) \cup Elements(t)
  BY <1>3 DEF Elements
<1>7. Elements(s) \subseteq Elements(s \o t) /\ Elements(t) \subseteq Elements(s \o t)
  <2>1. \A e \in Elements(s) : \E i \in DOMAIN s : e = s[i]
    BY DEF Elements
  <2>2. \A e \in Elements(t) : \E i \in DOMAIN t : e = t[i]
    BY DEF Elements
  <2> QED
    BY <1>4, <1>5, <2>1, <2>2
<1> QED
  BY <1>6, <1>7

(* Entries built by walkField, whatever their kind.                        *)
LEMMA FieldEntryOf ==
    ASSUME WalkInv, stack # <<>>, Walking,
           NEW e \in SafeEntry, NEW kind \in ValueKinds, NEW name, NEW p, NEW sc,
           e.kind = kind, e.oneof = <<>>, e.path = p, e.excl = excl, e.sc = sc,
           sc.format = FieldScope.format,
           p = path \/ \E q \in Taken(field) : /\ q \in Path /\ p = path \o q
                                               /\ field.pick # <<>> \/ field.lift # <<>>
    PROVE  FieldEntry(e)
<1>1. path \in Path
  BY TurnFacts
<1> HIDE DEF path, field, FieldScope, excl
<1>2. CASE p = path
  BY <1>1, <1>2, BeginsItself DEF FieldEntry
<1>3. CASE p # path
  <2>1. PICK q \in Taken(field) : /\ q \in Path /\ p = path \o q
                                  /\ field.pick # <<>> \/ field.lift # <<>>
    BY <1>3
  <2>2. Begins(path, p)
    BY <1>1, <2>1, BeginsLonger
  <2>3. \E r \in Taken(field) : e.path = path \o r
    BY <2>1
  <2> QED
    BY <2>1, <2>2, <2>3 DEF FieldEntry
<1> QED
  BY <1>2, <1>3

(* walkField, addPick and descend add one entry of the field.              *)
LEMMA OneFieldEntry ==
    ASSUME WalkInv, stack # <<>>, Walking, WriteLeaf \/ WriteCollection \/ Pick \/ Nest
    PROVE  \E e : FieldEntry(e) /\ Emit(e)
<1>1. FieldTurn
  BY DEF WriteLeaf, WriteCollection, Pick, Nest, Descends, KeptField
<1>2. path \in SafePath /\ path \in Path /\ path # <<>> /\ Last_(path) = turn
      /\ field = FieldOf(schema, turn) /\ field.name \in Name /\ field.pick \in Path
  BY TurnFacts DEF Field, field
<1>3. CASE WriteLeaf
  <2> DEFINE e == Entry_("scalar", field.name, path, excl, FieldScope)
  <2>1. e \in SafeEntry
    BY <1>1, <1>2, FieldEntries
  <2>2. e.kind = "scalar" /\ e.oneof = <<>> /\ e.path = path /\ e.excl = excl
        /\ e.sc = FieldScope
    BY DEF Entry_
  <2>3. Emit(e)
    BY <1>3 DEF WriteLeaf
  <2> HIDE DEF e
  <2>4. FieldEntry(e)
    BY <2>1, <2>2, FieldEntryOf DEF ValueKinds
  <2> QED
    BY <2>3, <2>4
<1>4. CASE WriteCollection
  <2> DEFINE e == [Collection(field.name, path) EXCEPT !.dynamic = Spreading(FieldScope)]
  <2>1. e \in SafeEntry
    BY <1>1, FieldEntries
  <2>2. e.kind = "collection" /\ e.oneof = <<>> /\ e.path = path /\ e.excl = excl
        /\ e.sc = FieldScope
    BY DEF Collection, Entry_
  <2>3. Emit(e)
    BY <1>4 DEF WriteCollection
  <2> HIDE DEF e
  <2>4. FieldEntry(e)
    BY <2>1, <2>2, FieldEntryOf DEF ValueKinds
  <2> QED
    BY <2>3, <2>4
<1>5. CASE Pick
  <2>1. Picked \in SafeEntry /\ Emit(Picked) /\ field.pick # <<>>
    BY <1>1, <1>5, FieldEntries DEF Pick
  <2>2. CASE field.kind = "struct"
    <3>1. Picked = Entry_("structPick", field.name, path, excl, FieldScope)
      BY <2>2 DEF Picked
    <3>2. Picked.kind = "structPick" /\ Picked.oneof = <<>> /\ Picked.path = path
          /\ Picked.excl = excl /\ Picked.sc = FieldScope
      BY <3>1 DEF Entry_
    <3> QED
      BY <2>1, <3>2, FieldEntryOf DEF ValueKinds
  <2>3. CASE field.kind = "messages"
    <3>1. Picked = [Collection(field.name, path) EXCEPT !.dynamic = Spreading(FieldScope),
                                                        !.pickPath = field.pick]
      BY <2>3 DEF Picked
    <3>2. Picked.kind = "collection" /\ Picked.oneof = <<>> /\ Picked.path = path
          /\ Picked.excl = excl /\ Picked.sc = FieldScope
      BY <3>1 DEF Collection, Entry_
    <3> QED
      BY <2>1, <3>2, FieldEntryOf DEF ValueKinds
  <2>4. CASE field.kind \notin {"struct", "messages"}
    <3>4. field.pick \in Taken(field)
      BY DEF Taken
    <3> DEFINE kind == IF PickEnd.kind \in {"list", "messages"} THEN "collection" ELSE "scalar"
               full == path \o field.pick
    <3>1. Picked = [Collection(field.name, full) EXCEPT !.kind = kind]
      BY <2>4 DEF Picked
    <3>2. kind \in ValueKinds
      BY DEF ValueKinds
    <3> HIDE DEF kind, full
    <3>3. Picked.kind = kind /\ Picked.oneof = <<>> /\ Picked.path = full
          /\ Picked.excl = excl /\ Picked.sc = FieldScope
      BY <3>1 DEF Collection, Entry_
    <3> QED
      BY <1>2, <2>1, <3>2, <3>3, <3>4, FieldEntryOf DEF full
  <2> QED
    BY <2>2, <2>3, <2>4
<1>6. CASE Nest
  <2> DEFINE sc == IF BeyondDepth THEN [FieldScope EXCEPT !.exhausted = TRUE] ELSE FieldScope
             e  == Entry_("object", field.name, path, excl, sc)
  <2>1. FieldScope \in KnownScope /\ FieldScope \in Scope
    BY FieldScopeFacts DEF KnownScope
  <2>2. sc \in KnownScope
    BY <2>1, ScopeParts
  <2>3. sc.format = FieldScope.format
    BY <2>1 DEF Scope
  <2>4. Emit(e) /\ field.kind = "message"
    BY <1>6 DEF Nest, Descends
  <2>5. excl \in Nat
    BY ExclFacts
  <2> HIDE DEF sc
  <2>6. e \in SafeEntry
    BY <1>2, <2>2, <2>4, <2>5, EntryType DEF EntryKinds
  <2>7. e.kind = "object" /\ e.oneof = <<>> /\ e.path = path /\ e.excl = excl /\ e.sc = sc
    BY DEF Entry_
  <2> HIDE DEF e
  <2>8. FieldEntry(e)
    BY <2>3, <2>6, <2>7, FieldEntryOf DEF ValueKinds
  <2> QED
    BY <2>4, <2>8
<1> QED
  BY <1>3, <1>4, <1>5, <1>6

(* addLifts adds one for each lifted value.                                *)
LEMMA LiftedEntries ==
    ASSUME WalkInv, stack # <<>>, Walking, Lift
    PROVE  \E es \in Seq(SafeEntry) : /\ entries' = entries \o es
                                      /\ DOMAIN es # {}
                                      /\ \A n \in DOMAIN es : FieldEntry(es[n])
                                      /\ LiftOnly(es)
<1> DEFINE Lifted(n) == Entry_("scalar", field.lift[n].as, path \o field.lift[n].path,
                               excl, FieldScope)
           es == [n \in DOMAIN field.lift |-> Lifted(n)]
           Rec == [path : Path, as : Name]
<1>1. FieldTurn /\ LiftOk /\ field.lift # <<>> /\ entries' = entries \o es
  BY DEF Lift, KeptField
<1>2. \A n \in DOMAIN field.lift : Lifted(n) \in SafeEntry
  BY <1>1, FieldEntries
<1>3. field.lift \in Seq(Rec) /\ \A r \in Rec : r.path \in Path
  BY <1>1, FieldEntries
<1> HIDE DEF Rec
<1>4. DOMAIN field.lift = 1..Len(field.lift) /\ Len(field.lift) \in Nat
      /\ \A n \in DOMAIN field.lift : field.lift[n].path \in Path
  BY <1>3
<1>5. ASSUME NEW n \in DOMAIN field.lift
      PROVE  /\ FieldEntry(Lifted(n))
             /\ Lifted(n).path = path \o field.lift[n].path
  <2> DEFINE e == Lifted(n)
             p == path \o field.lift[n].path
  <2>1. e.kind = "scalar" /\ e.oneof = <<>> /\ e.path = p /\ e.excl = excl
        /\ e.sc = FieldScope
    BY DEF Entry_
  <2>2. e \in SafeEntry
    BY <1>2
  <2>3. \E q \in Taken(field) : q \in Path /\ p = path \o q
    BY <1>4 DEF Taken, Elements
  <2> HIDE DEF e, p
  <2>4. FieldEntry(e)
    BY <1>1, <2>1, <2>2, <2>3, FieldEntryOf DEF ValueKinds
  <2> QED
    BY <2>1, <2>4 DEF e, p
<1> HIDE DEF Lifted
<1>6. es \in Seq(SafeEntry)
  BY <1>2, <1>4, IsASeq
<1>7. DOMAIN es = DOMAIN field.lift /\ \A n \in DOMAIN es : es[n] = Lifted(n)
  OBVIOUS
<1>8. LiftOnly(es) /\ \A n \in DOMAIN es : FieldEntry(es[n])
  BY <1>5, <1>7 DEF LiftOnly
<1>9. DOMAIN field.lift # {}
  <2>1. Len(field.lift) # 0
    BY <1>1, <1>3, EmptySeq
  <2> QED
    BY <1>4, <2>1
<1> QED
  BY <1>1, <1>6, <1>7, <1>8, <1>9

(* A step past a field adds entries of the field, or none.                 *)
LEMMA FieldEffect ==
    ASSUME WalkInv,
           SkipOneof \/ DropField \/ WriteLeaf \/ WriteCollection \/ Pick \/ Lift \/ Nest
    PROVE  /\ Walking /\ stack # <<>> /\ phase = "walk" /\ Onward
           /\ UNCHANGED <<schema, top, root, phase, oneofSeq>>
           /\ \E es \in Seq(SafeEntry) :
                 /\ entries' = entries \o es
                 /\ es # <<>> => FieldTurn
                 /\ \A n \in DOMAIN es : FieldEntry(es[n])
                 /\ LiftOnly(es)
<1>1. Walking /\ stack # <<>> /\ phase = "walk" /\ Onward
      /\ UNCHANGED <<schema, top, root, phase, oneofSeq>>
  BY DEF SkipOneof, OneofTurn, DropField, WriteLeaf, WriteCollection, Pick, Lift, Nest, Descends,
         KeptField, FieldTurn, Walking, WalkInv, Emit
<1>2. entries \in Seq(SafeEntry)
  BY DEF WalkInv
<1>3. CASE SkipOneof \/ DropField
  <2>1. entries' = entries
    BY <1>3 DEF SkipOneof, DropField
  <2>2. <<>> \in Seq(SafeEntry) /\ entries \o <<>> = entries
    BY <1>2, ConcatEmptySeq
  <2>3. DOMAIN <<>> = {}
    OBVIOUS
  <2>4. LiftOnly(<<>>)
    BY <2>3 DEF LiftOnly
  <2> QED
    BY <1>1, <2>1, <2>2, <2>3, <2>4
<1>4. CASE WriteLeaf \/ WriteCollection \/ Pick \/ Nest
  <2>1. FieldTurn
    BY <1>4 DEF WriteLeaf, WriteCollection, Pick, Nest, Descends, KeptField
  <2>2. PICK e : FieldEntry(e) /\ Emit(e)
    BY <1>1, <1>4, OneFieldEntry
  <2>3. e \in SafeEntry
    BY <2>2 DEF FieldEntry
  <2>4. <<e>> \in Seq(SafeEntry) /\ entries' = entries \o <<e>>
    BY <1>2, <2>2, <2>3 DEF Emit, Add
  <2>5. DOMAIN <<e>> = {1} /\ <<e>>[1] = e
    OBVIOUS
  <2>6. LiftOnly(<<e>>)
    BY <2>5 DEF LiftOnly
  <2> QED
    BY <1>1, <2>1, <2>2, <2>4, <2>5, <2>6
<1>5. CASE Lift
  BY <1>1, <1>5, LiftedEntries DEF Lift, KeptField
<1> QED
  BY <1>3, <1>4, <1>5

(* The levels on the stack after a step were there or have been pushed.    *)
LEMMA StackElements ==
    ASSUME WalkInv, stack # <<>>
    PROVE  /\ Here \in Elements(stack)
           /\ Elements(Tail(stack)) \subseteq Elements(stack)
           /\ \A a \in SafeLevel :
                 Elements(<<a>> \o Tail(stack)) \subseteq {a} \cup Elements(stack)
           /\ \A a, b \in SafeLevel :
                 Elements(<<a, b>> \o Tail(stack)) \subseteq {a, b} \cup Elements(stack)
<1>1. stack \in Seq(SafeLevel) /\ Len(stack) \in Nat \ {0} /\ DOMAIN stack = 1..Len(stack)
  BY EmptySeq, LenProperties DEF WalkInv
<1>2. Here = stack[1] /\ 1 \in DOMAIN stack
  BY <1>1 DEF Here
<1>3. /\ Tail(stack) \in Seq(SafeLevel) /\ Len(Tail(stack)) = Len(stack) - 1
      /\ \A i \in 1..Len(Tail(stack)) : Tail(stack)[i] = stack[i + 1]
  BY <1>1, HeadTailProperties
<1>4. Elements(Tail(stack)) \subseteq Elements(stack)
  <2>1. ASSUME NEW i \in DOMAIN Tail(stack)
        PROVE  Tail(stack)[i] \in Elements(stack)
    <3>1. i \in 1..Len(Tail(stack))
      BY <1>3, LenProperties
    <3>2. Tail(stack)[i] = stack[i + 1] /\ i + 1 \in DOMAIN stack
      BY <1>1, <1>3, <3>1
    <3> QED
      BY <3>2 DEF Elements
  <2> QED
    BY <2>1 DEF Elements
<1> DEFINE rest == Tail(stack)
<1>5. rest \in Seq(SafeLevel) /\ Elements(rest) \subseteq Elements(stack)
  BY <1>3, <1>4
<1> HIDE DEF rest
<1>6. \A new \in Seq(SafeLevel) :
          Elements(new \o rest) \subseteq Elements(new) \cup Elements(stack)
  BY <1>5, ElementsOfConcat
<1>7. \A a \in SafeLevel : <<a>> \in Seq(SafeLevel) /\ Elements(<<a>>) = {a}
  BY DEF Elements
<1>8. \A a, b \in SafeLevel :
          <<a, b>> \in Seq(SafeLevel) /\ Elements(<<a, b>>) \subseteq {a, b}
  BY DEF Elements
<1>9. \A a \in SafeLevel : Elements(<<a>> \o rest) \subseteq {a} \cup Elements(stack)
  BY <1>6, <1>7
<1>10. \A a, b \in SafeLevel :
          Elements(<<a, b>> \o rest) \subseteq {a, b} \cup Elements(stack)
  BY <1>6, <1>8
<1>11. Here \in Elements(stack)
  BY <1>2 DEF Elements
<1> QED
  BY <1>4, <1>9, <1>10, <1>11 DEF rest

(* The level with the field, or the oneof, behind it.                      *)
LEMMA PastParts ==
    ASSUME WalkInv, stack # <<>>, Walking
    PROVE  /\ \A l \in {Past, PastOneof} :
                 /\ l \in SafeLevel
                 /\ l.msg = Here.msg /\ l.branch = Here.branch /\ l.ctx = ctx
                 /\ l.fields = Here.fields \ {turn[2]}
           /\ Past.done = Here.done
           /\ PastOneof.done = Here.done \cup {field.oneof}
           /\ \A k \in Past.fields : turn[2] < k
<1>1. Here \in Level
  BY HereFacts DEF SafeLevel
<1>2. /\ Past.msg = Here.msg /\ Past.branch = Here.branch /\ Past.ctx = ctx
      /\ Past.fields = Here.fields \ {turn[2]} /\ Past.done = Here.done
      /\ Past \in Level
  BY <1>1 DEF Past, Level, ctx
<1>3. /\ PastOneof.msg = Past.msg /\ PastOneof.branch = Past.branch
      /\ PastOneof.ctx = Past.ctx /\ PastOneof.fields = Past.fields
      /\ PastOneof.done = Past.done \cup {field.oneof}
  BY <1>2 DEF PastOneof, Level
<1>4. Past \in SafeLevel /\ PastOneof \in SafeLevel
  BY PastFacts
<1>5. \A k \in Here.fields : turn[2] <= k /\ k \in Nat /\ turn[2] \in Nat
  BY TurnFacts, LevelFacts
<1> QED
  BY <1>2, <1>3, <1>4, <1>5

(* The step of the field whose turn it is.                                 *)
LEMMA TurnStep ==
    ASSUME WalkInv, stack # <<>>, Walking
    PROVE  /\ turn = <<Here.msg, turn[2]>>
           /\ turn[2] \in Here.fields /\ turn[2] \in Nat
           /\ FieldOf(schema, turn) = field /\ OneofAt(turn) = field.oneof
           /\ path = Append(ctx.path, turn)
           /\ Begins(ctx.path, path)
           /\ Len(path) = Len(ctx.path) + 1 /\ path[Len(path)] = turn
           /\ DOMAIN path = DOMAIN ctx.path \cup {Len(path)}
<1>1. turn = <<Here.msg, Min(Here.fields)>>
  BY DEF turn
<1>2. turn[2] \in Here.fields /\ Here.fields \in SUBSET Nat /\ turn \in Step
  BY TurnFacts, LevelFacts
<1>3. FieldOf(schema, turn) = field /\ OneofAt(turn) = field.oneof
  BY DEF field, OneofAt
<1>4. ctx.path \in Path
  BY LevelFacts
<1>5. path = Append(ctx.path, turn)
  BY DEF path
<1> HIDE DEF path, turn
<1>6. /\ Begins(ctx.path, path) /\ Len(path) = Len(ctx.path) + 1
      /\ path[Len(ctx.path) + 1] = turn
      /\ DOMAIN path = DOMAIN ctx.path \cup {Len(ctx.path) + 1}
  BY <1>2, <1>4, <1>5, BeginsLonger
<1> QED
  BY <1>1, <1>2, <1>3, <1>5, <1>6

-----------------------------------------------------------------------------
(* Levels are walked in order                                              *)

(* A level of branches has those of one oneof.  Any other level has only   *)
(* fields left that come after those it is past, and it has met the oneofs *)
(* of these.                                                               *)
LevelShape(l) ==
    IF l.branch THEN /\ l.done = {}
                     /\ \A n, k \in l.fields : /\ OneofAt(<<l.msg, n>>) # 0
                                               /\ OneofAt(<<l.msg, n>>) = OneofAt(<<l.msg, k>>)
                ELSE /\ 0 \notin l.done
                     /\ \A n \in AllFields(l.msg) \ l.fields :
                           /\ \A k \in l.fields : n < k
                           /\ OneofAt(<<l.msg, n>>) \in l.done \cup {0}

LevelsInv == \A l \in Elements(stack) : LevelShape(l)

LEMMA PastShape ==
    ASSUME WalkInv, stack # <<>>, Walking, LevelShape(Here)
    PROVE  /\ FieldTurn \/ field.oneof \in Here.done => LevelShape(Past)
           /\ OneofTurn => LevelShape(PastOneof)
<1>1. /\ \A l \in {Past, PastOneof} :
            /\ l.msg = Here.msg /\ l.branch = Here.branch
            /\ l.fields = Here.fields \ {turn[2]}
      /\ Past.done = Here.done
      /\ PastOneof.done = Here.done \cup {field.oneof}
      /\ \A k \in Past.fields : turn[2] < k
  BY PastParts
<1>2. turn = <<Here.msg, turn[2]>> /\ OneofAt(turn) = field.oneof
  BY TurnStep
<1> HIDE DEF Past, PastOneof, turn, OneofAt
<1>3. CASE Here.branch
  <2>1. LevelShape(Past)
    BY <1>1, <1>3 DEF LevelShape
  <2>2. ~OneofTurn
    BY <1>3 DEF OneofTurn
  <2> QED
    BY <2>1, <2>2
<1>4. CASE ~Here.branch
  <2>1. /\ 0 \notin Here.done
        /\ \A n \in AllFields(Here.msg) \ Here.fields :
              /\ \A k \in Here.fields : n < k
              /\ OneofAt(<<Here.msg, n>>) \in Here.done \cup {0}
    BY <1>4 DEF LevelShape
  <2>2. ASSUME NEW n \in AllFields(Here.msg) \ Past.fields
        PROVE  /\ \A k \in Past.fields : n < k
               /\ n \in AllFields(Here.msg) \ Here.fields \/ n = turn[2]
    BY <1>1, <2>1
  <2>3. ASSUME FieldTurn \/ field.oneof \in Here.done
        PROVE  LevelShape(Past)
    <3>1. OneofAt(<<Here.msg, turn[2]>>) \in Here.done \cup {0}
      BY <1>2, <1>4, <2>3 DEF FieldTurn
    <3> QED
      BY <1>1, <1>4, <2>1, <2>2, <3>1 DEF LevelShape
  <2>4. ASSUME OneofTurn
        PROVE  LevelShape(PastOneof)
    <3>1. OneofAt(<<Here.msg, turn[2]>>) = field.oneof /\ field.oneof # 0
      BY <1>2, <2>4 DEF OneofTurn
    <3> QED
      BY <1>1, <1>4, <2>1, <2>2, <3>1 DEF LevelShape
  <2> QED
    BY <2>3, <2>4
<1> QED
  BY <1>3, <1>4

(* Every level on the stack after a step was there, is past the field or   *)
(* the oneof whose turn it was, or has been pushed.                        *)
LEMMA StackStep ==
    ASSUME WalkInv, Next
    PROVE  /\ schema' = schema /\ top' = top /\ root' = root
           /\ \A l \in Elements(stack') :
                 \/ l \in Elements(stack)
                 \/ Begin /\ l = TopLevel
                 \/ /\ Walking /\ stack # <<>>
                    /\ \/ l = Past /\ (FieldTurn \/ (OneofTurn /\ field.oneof \in Here.done))
                       \/ l = PastOneof /\ OneofTurn
                       \/ l = BranchLevel /\ OneofTurn /\ WalkBranches
                       \/ l = InnerLevel /\ Descend
<1>1. CASE Begin
  <2>1. stack' = <<TopLevel>>
    BY <1>1, BeginStep
  <2>2. Elements(<<TopLevel>>) = {TopLevel}
    BY DEF Elements
  <2> QED
    BY <1>1, <2>1, <2>2 DEF Begin
<1>2. CASE RejectRules \/ RejectField \/ RejectPick \/ RejectLift \/ Cycle \/ Refuse
  BY <1>2 DEF RejectRules, RejectField, RejectPick, RejectLift, Cycle, Refuse, Failure
<1>3. CASE Return
  <2>1. stack # <<>>
    BY <1>3 DEF Return, WalkInv
  <2> QED
    BY <1>3, <2>1, StackElements DEF Return
<1>4. CASE Finish
  <2>1. Elements(<<>>) = {}
    BY DEF Elements
  <2> QED
    BY <1>4, <2>1 DEF Finish
<1>5. CASE SkipOneof \/ DropField \/ WriteLeaf \/ WriteCollection \/ Pick \/ Lift \/ Nest
  <2>1. Walking /\ stack # <<>> /\ Onward /\ UNCHANGED <<schema, top, root>>
    BY <1>5, FieldEffect
  <2>2. FieldTurn \/ (OneofTurn /\ field.oneof \in Here.done)
    BY <1>5 DEF SkipOneof, DropField, WriteLeaf, WriteCollection, Pick, Lift, Nest, Descends,
                KeptField
  <2>3. Elements(stack') \subseteq {Past} \cup Elements(stack)
    BY <2>1, StackElements, PastFacts DEF Onward
  <2> QED
    BY <2>1, <2>2, <2>3
<1>6. CASE OmitOneof \/ TagOneof \/ SingleKey
  <2>1. OneofTurn /\ Walking /\ stack # <<>> /\ stack' = <<PastOneof>> \o Tail(stack)
        /\ UNCHANGED <<schema, top, root>>
    BY <1>6 DEF OmitOneof, TagOneof, SingleKey, NewOneof, OneofTurn, Walking, WalkInv
  <2>2. Elements(stack') \subseteq {PastOneof} \cup Elements(stack)
    BY <2>1, StackElements, PastFacts
  <2> QED
    BY <2>1, <2>2
<1>7. CASE WalkBranches
  <2>1. OneofTurn /\ Walking /\ stack # <<>> /\ UNCHANGED <<schema, top, root>>
    BY <1>7 DEF WalkBranches, NewOneof, OneofTurn, Walking, WalkInv
  <2>2. stack' = <<BranchLevel, PastOneof>> \o Tail(stack)
    BY <1>7, WalkBranchesStep
  <2>3. Elements(stack') \subseteq {BranchLevel, PastOneof} \cup Elements(stack)
    BY <2>1, <2>2, StackElements, PastFacts, BranchLevelSafe
  <2> QED
    BY <1>7, <2>1, <2>3
<1>8. CASE Descend
  <2>1. FieldTurn /\ Walking /\ stack # <<>> /\ UNCHANGED <<schema, top, root>>
    BY <1>8 DEF Descend, Descends, KeptField, FieldTurn, Walking, WalkInv
  <2>2. stack' = <<InnerLevel, Past>> \o Tail(stack)
    BY <1>8, DescendStep
  <2>3. Elements(stack') \subseteq {InnerLevel, Past} \cup Elements(stack)
    BY <1>8, <2>1, <2>2, StackElements, PastFacts, InnerLevelSafe
  <2> QED
    BY <1>8, <2>1, <2>3
<1> QED
  BY <1>1, <1>2, <1>3, <1>4, <1>5, <1>6, <1>7, <1>8 DEF Next

(* Every entry after a step was there, or is one of those it adds.         *)
LEMMA EntriesStep ==
    ASSUME WalkInv, Next
    PROVE  \A e \in Elements(entries') :
              \/ e \in Elements(entries)
              \/ Begin /\ e \in Elements(Constants)
              \/ (Finish \/ Refuse) /\ e \in Elements(Merges)
              \/ /\ Walking /\ stack # <<>>
                 /\ \/ FieldTurn /\ FieldEntry(e)
                    \/ (TagOneof \/ WalkBranches) /\ OneofTurn /\ e = Discriminator
                    \/ /\ SingleKey /\ OneofTurn
                       /\ e = OneofEntry("oneofValue", oneof.name, NextExclusive)
<1>1. entries \in Seq(SafeEntry)
  BY DEF WalkInv
<1>2. \A e : e \in SafeEntry =>
          entries \o <<e>> = Append(entries, e) /\ Elements(<<e>>) = {e} /\ <<e>> \in Seq(SafeEntry)
  BY <1>1 DEF Elements
<1>3. ASSUME NEW e \in SafeEntry, Add(e)
      PROVE  Elements(entries') = Elements(entries) \cup {e}
  <2>1. entries' = entries \o <<e>> /\ Elements(<<e>>) = {e} /\ <<e>> \in Seq(SafeEntry)
    BY <1>2, <1>3 DEF Add
  <2> DEFINE new == <<e>>
  <2> HIDE DEF new
  <2>2. Elements(entries \o new) = Elements(entries) \cup Elements(new)
    BY <1>1, <2>1, ElementsOfConcat DEF new
  <2> QED
    BY <2>1, <2>2 DEF new
<1>4. CASE Begin
  BY <1>4 DEF Begin
<1>5. CASE Finish \/ Refuse
  <2>1. Merges \in Seq(SafeEntry) /\ entries' = entries \o Merges
    BY <1>5, MergesType DEF Finish, Refuse, Walked, WalkInv
  <2>2. Elements(entries') = Elements(entries) \cup Elements(Merges)
    BY <1>1, <2>1, ElementsOfConcat
  <2> QED
    BY <1>5, <2>2
<1>6. CASE SkipOneof \/ DropField \/ WriteLeaf \/ WriteCollection \/ Pick \/ Lift \/ Nest
  <2>1. Walking /\ stack # <<>>
    BY <1>6, FieldEffect
  <2>2. PICK es \in Seq(SafeEntry) : /\ entries' = entries \o es
                                     /\ es # <<>> => FieldTurn
                                     /\ \A n \in DOMAIN es : FieldEntry(es[n])
    BY <1>6, FieldEffect
  <2>3. Elements(entries') = Elements(entries) \cup Elements(es)
    BY <1>1, <2>2, ElementsOfConcat
  <2>4. \A e \in Elements(es) : FieldTurn /\ FieldEntry(e)
    <3>1. DOMAIN <<>> = {}
      OBVIOUS
    <3> QED
      BY <2>2, <3>1 DEF Elements
  <2> QED
    BY <2>1, <2>3, <2>4
<1>7. CASE TagOneof \/ WalkBranches
  <2>1. Walking /\ stack # <<>> /\ OneofTurn
    BY <1>7 DEF TagOneof, WalkBranches, NewOneof, OneofTurn, Walking, WalkInv
  <2>2. entries' = entries \/ Add(Discriminator)
    BY <1>7 DEF TagOneof, WalkBranches, Add
  <2> QED
    BY <1>3, <1>7, <2>1, <2>2, DiscriminatorType
<1>8. CASE SingleKey
  <2>1. Walking /\ stack # <<>> /\ OneofTurn
    BY <1>8 DEF SingleKey, NewOneof, OneofTurn, Walking, WalkInv
  <2>2. oneof.name \in Name /\ NextExclusive \in Nat
    BY <2>1, OneofFacts DEF Oneof, NextExclusive, WalkInv, TypeOK
  <2>3. OneofEntry("oneofValue", oneof.name, NextExclusive) \in SafeEntry
    BY <2>1, <2>2, OneofEntryType
  <2> QED
    BY <1>3, <1>8, <2>1, <2>3 DEF SingleKey
<1>9. CASE entries' = entries
  BY <1>9
<1>10. CASE \/ RejectRules \/ RejectField \/ RejectPick \/ RejectLift \/ Cycle
            \/ OmitOneof \/ Descend \/ Return
  BY <1>10 DEF RejectRules, RejectField, RejectPick, RejectLift, Cycle, Failure,
               OmitOneof, Descend, Return
<1> QED
  BY <1>4, <1>5, <1>6, <1>7, <1>8, <1>10 DEF Next

(* The levels pushed are walked in order too.                              *)
LEMMA PushedShape ==
    ASSUME WalkInv
    PROVE  /\ LevelShape(TopLevel)
           /\ Walking /\ OneofTurn => LevelShape(BranchLevel)
           /\ LevelShape(InnerLevel)
<1>1. ASSUME NEW m, NEW c
      PROVE  LevelShape(Frame(m, AllFields(m), FALSE, c))
  <2> DEFINE l == Frame(m, AllFields(m), FALSE, c)
  <2>1. l.msg = m /\ l.fields = AllFields(m) /\ l.branch = FALSE /\ l.done = {}
    BY DEF Frame
  <2> HIDE DEF l
  <2>2. LevelShape(l)
    BY <2>1 DEF LevelShape
  <2> QED
    BY <2>2 DEF l
<1>2. ASSUME OneofTurn
      PROVE  LevelShape(BranchLevel)
  <2>1. /\ BranchLevel.msg = Here.msg /\ BranchLevel.fields = BranchFields
        /\ BranchLevel.branch = TRUE /\ BranchLevel.done = {}
    BY DEF BranchLevel, Frame
  <2>2. \A n \in BranchFields : OneofAt(<<Here.msg, n>>) = field.oneof
    BY DEF BranchFields, OneofAt, FieldOf
  <2>3. field.oneof # 0
    BY <1>2 DEF OneofTurn
  <2> HIDE DEF BranchLevel
  <2> QED
    BY <2>1, <2>2, <2>3 DEF LevelShape
<1> QED
  BY <1>1, <1>2 DEF TopLevel, InnerLevel

LEMMA LevelsInit == Init => LevelsInv
<1> SUFFICES ASSUME Init PROVE LevelsInv
  OBVIOUS
<1>1. stack = <<>>
  BY DEF Init, PlanOf
<1>2. Elements(<<>>) = {}
  BY DEF Elements
<1> QED
  BY <1>1, <1>2 DEF LevelsInv

LEMMA LevelsStep ==
    ASSUME WalkInv, LevelsInv, [Next]_vars
    PROVE  LevelsInv'
<1>1. CASE UNCHANGED vars
  BY <1>1 DEF vars, planVars, LevelsInv, LevelShape, AllFields, OneofAt, FieldOf, Elements
<1>2. CASE Next
  <2>1. schema' = schema
    BY <1>2, StackStep
  <2>2. \A l \in Elements(stack') : LevelShape(l)
    <3>1. stack # <<>> => LevelShape(Here)
      BY StackElements DEF LevelsInv
    <3> QED
      BY <1>2, <3>1, StackStep, PushedShape, PastShape DEF LevelsInv
  <2>3. \A l : LevelShape(l)' <=> LevelShape(l)
    BY <2>1 DEF LevelShape, AllFields, OneofAt, FieldOf
  <2> QED
    BY <2>2, <2>3 DEF LevelsInv, Elements
<1> QED
  BY <1>1, <1>2

-----------------------------------------------------------------------------
(* Formats                                                                 *)

Untaken(p) ==
    \A n \in DOMAIN p : FieldOf(schema, p[n]).pick = <<>> /\ FieldOf(schema, p[n]).lift = <<>>

OneofFormat(step, option) == schema[step[1]].oneofs[OneofAt(step)].opts.format[option]

(* A level's formats are those of its path, below the oneof of its         *)
(* branches.                                                               *)
LevelFormats(l) ==
    /\ Untaken(l.ctx.path)
    /\ \A option \in FormatOption :
          IF l.branch
          THEN \A n \in l.fields : l.ctx.sc.format[option] =
                  Or(OneofFormat(<<l.msg, n>>, option), Effective(l.ctx.path, option))
          ELSE l.ctx.sc.format[option] = Effective(l.ctx.path, option)

EntryFormats(e) ==
    e.kind \in ValueKinds =>
        \A option \in FormatOption :
            e.sc.format[option] = Effective(Walked_(e.path), option)

FormatsInv == /\ \A l \in Elements(stack) : LevelFormats(l)
              /\ \A e \in Elements(entries) : EntryFormats(e)

(* What a path gets one step further on.                                   *)
LEMMA EffectiveFurther ==
    ASSUME NEW p \in Path, NEW s \in Step, NEW option
    PROVE  Effective(Append(p, s), option) = Or(Says(s, option), Effective(p, option))
<1> DEFINE q == Append(p, s)
           before == {n \in DOMAIN p : Says(p[n], option) # Unset}
           setters == {n \in DOMAIN q : Says(q[n], option) # Unset}
<1>1. /\ Len(p) \in Nat /\ DOMAIN p = 1..Len(p) /\ Len(q) = Len(p) + 1
      /\ q[Len(p) + 1] = s /\ DOMAIN q = DOMAIN p \cup {Len(p) + 1}
      /\ \A n \in DOMAIN p : q[n] = p[n]
  BY BeginsLonger DEF Begins, Path
<1>2. /\ Effective(p, option) = IF before = {} THEN root.format[option]
                                ELSE Says(p[Max(before)], option)
      /\ Effective(q, option) = IF setters = {} THEN root.format[option]
                                ELSE Says(q[Max(setters)], option)
  BY DEF Effective
<1> SUFFICES Effective(q, option) = Or(Says(s, option), Effective(p, option))
  OBVIOUS
<1> HIDE DEF q, Says, Effective
<1>3. setters \in SUBSET Nat /\ \A n \in setters : n <= Len(p) + 1
  BY <1>1
<1>4. before \in SUBSET Nat /\ \A n \in before : n <= Len(p)
  BY <1>1
<1>5. CASE Says(s, option) = Unset
  <2>1. setters = before
    BY <1>1, <1>5
  <2>2. setters # {} => Max(setters) \in DOMAIN p
    BY <1>1, <1>4, <2>1, MaxMember
  <2> HIDE DEF setters, before
  <2> QED
    BY <1>1, <1>2, <1>5, <2>1, <2>2 DEF Or
<1>6. CASE Says(s, option) # Unset
  <2>1. Len(p) + 1 \in setters
    BY <1>1, <1>6
  <2>2. Max(setters) \in setters /\ Max(setters) >= Len(p) + 1 /\ Max(setters) \in Nat
    BY <1>1, <1>3, <2>1, MaxMember
  <2>3. Max(setters) = Len(p) + 1
    BY <1>1, <1>3, <2>2
  <2> HIDE DEF setters, before
  <2> QED
    BY <1>1, <1>2, <1>6, <2>1, <2>3 DEF Or
<1> QED
  BY <1>5, <1>6

(* The formats of the field whose turn it is are those of its path.        *)
LEMMA FieldFormats ==
    ASSUME WalkInv, stack # <<>>, FieldTurn, LevelShape(Here), LevelFormats(Here),
           NEW option \in FormatOption
    PROVE  FieldScope.format[option] = Effective(path, option)
<1> DEFINE enum == IF option = "enumFormat" THEN field.enum ELSE Unset
           outer == IF field.oneof = 0 THEN Unset
                    ELSE schema[Here.msg].oneofs[field.oneof].opts.format[option]
           own == field.opts.format[option]
           above == Effective(ctx.path, option)
<1>1. /\ Walking /\ turn \in Step /\ turn[1] = Here.msg /\ turn[2] \in Here.fields
      /\ ctx.path \in Path /\ path = Append(ctx.path, turn)
      /\ turn = <<Here.msg, turn[2]>> /\ FieldOf(schema, turn) = field
      /\ OneofAt(turn) = field.oneof
  BY TurnFacts, TurnStep, LevelFacts DEF FieldTurn
<1>2. Says(turn, option) = Or(own, Or(enum, outer))
  BY <1>1 DEF Says
<1>3. Effective(path, option) = Or(Says(turn, option), above)
  BY <1>1, EffectiveFurther
<1>4. ctx.sc.format[option] = Or(outer, above)
  <2>1. CASE Here.branch
    <3>1. field.oneof # 0
      BY <1>1, <2>1 DEF LevelShape
    <3>2. ctx.sc.format[option] = Or(OneofFormat(turn, option), above)
      BY <1>1, <2>1 DEF LevelFormats, ctx
    <3> QED
      BY <1>1, <3>1, <3>2 DEF OneofFormat
  <2>2. CASE ~Here.branch
    <3>1. field.oneof = 0
      BY <2>2 DEF FieldTurn
    <3>2. ctx.sc.format[option] = above
      BY <2>2 DEF LevelFormats, ctx
    <3> QED
      BY <3>1, <3>2 DEF Or
  <2> QED
    BY <2>1, <2>2
<1>5. ctx.sc \in Scope
  BY LevelFacts DEF KnownScope
<1>6. FieldScope.format[option] = Or(own, Or(enum, ctx.sc.format[option]))
  <2> DEFINE format == [ctx.sc.format EXCEPT !["enumFormat"] = Or(field.enum, @)]
             sc == [ctx.sc EXCEPT !.format = format]
  <2>1. ctx.sc.format \in [FormatOption -> FormatValue]
    BY <1>5 DEF Scope
  <2>2. format[option] = Or(enum, ctx.sc.format[option])
    BY <2>1 DEF Or
  <2>3. FieldScope = ApplyField(sc, field.opts)
    BY DEF FieldScope
  <2> HIDE DEF format
  <2>4. sc.format = format
    BY <1>5 DEF Scope
  <2>5. DOMAIN sc = DOMAIN ctx.sc
    OBVIOUS
  <2>6. ApplyField(sc, field.opts).format = OverrideFormat(format, field.opts)
    <3>1. /\ "format" \in DOMAIN sc /\ "joinSep" # "format" /\ "indexSep" # "format"
          /\ "maxDepth" # "format"
      BY <1>5 DEF Scope
    <3> HIDE DEF sc
    <3> QED
      BY <2>4, <3>1 DEF ApplyField, ApplyOneof
  <2> QED
    BY <2>2, <2>3, <2>6 DEF OverrideFormat
<1> HIDE DEF enum, outer, own, above
<1>7. FieldScope.format[option] = Or(own, Or(enum, Or(outer, above)))
  BY <1>4, <1>6
<1>8. Effective(path, option) = Or(Or(own, Or(enum, outer)), above)
  BY <1>2, <1>3
<1> QED
  BY <1>7, <1>8 DEF Or

(* The walked part of a field's entries is the path of the field.          *)
LEMMA WalkedPart ==
    ASSUME WalkInv, stack # <<>>, Walking, Untaken(ctx.path), NEW e, FieldEntry(e)
    PROVE  Walked_(e.path) = path
<1> DEFINE q == e.path
           last == Len(path)
           stops == {n \in DOMAIN q : \/ FieldOf(schema, q[n]).pick # <<>>
                                      \/ FieldOf(schema, q[n]).lift # <<>>}
<1>1. /\ Begins(path, q) /\ path \in Path /\ q \in Path
      /\ q # path => field.pick # <<>> \/ field.lift # <<>>
  BY BeginsFacts DEF FieldEntry
<1>2. /\ last \in Nat /\ Len(q) \in Nat /\ last <= Len(q) /\ last \in DOMAIN q
      /\ DOMAIN path = 1..last /\ DOMAIN q = 1..Len(q)
      /\ \A n \in 1..last : q[n] = path[n]
      /\ Prefix(q, last) = path
  <2>1. path # <<>>
    BY TurnFacts
  <2> QED
    BY <1>1, <2>1, BeginsFacts DEF Begins, Path
<1>3. q[last] = turn /\ FieldOf(schema, turn) = field
  BY <1>2, TurnStep
<1>4. ASSUME NEW n \in stops
      PROVE  n >= last
  <2>1. ASSUME n < last
        PROVE  n \in DOMAIN ctx.path /\ q[n] = ctx.path[n]
    <3>1. last = Len(ctx.path) + 1 /\ Begins(ctx.path, path)
      BY TurnStep
    <3>2. DOMAIN ctx.path = 1..Len(ctx.path) /\ Len(ctx.path) \in Nat
          /\ \A k \in DOMAIN ctx.path : path[k] = ctx.path[k]
      BY <3>1 DEF Begins, Path
    <3> QED
      BY <1>2, <2>1, <3>1, <3>2
  <2> QED
    BY <1>2, <2>1 DEF Untaken
<1>5. stops \in SUBSET Nat
  BY <1>2
<1>6. q # path => last \in stops
  BY <1>1, <1>2, <1>3
<1>7. q = path => stops \subseteq {last}
  BY <1>2, <1>4
<1>8. Walked_(q) = IF stops = {} THEN q ELSE Prefix(q, Min(stops))
  BY DEF Walked_
<1> HIDE DEF stops, q, last
<1>9. CASE stops = {}
  BY <1>6, <1>8, <1>9 DEF q
<1>10. CASE stops # {}
  <2>1. Min(stops) \in stops /\ \A n \in stops : Min(stops) <= n
    BY <1>5, <1>10, MinMember
  <2>2. last \in stops
    BY <1>6, <1>7, <1>10
  <2>3. Min(stops) = last
    <3>1. Min(stops) >= last
      BY <1>4, <2>1
    <3>2. Min(stops) <= last /\ Min(stops) \in Nat
      BY <1>5, <2>1, <2>2
    <3> QED
      BY <1>2, <3>1, <3>2
  <2> QED
    BY <1>2, <1>8, <1>10, <2>3 DEF q
<1> QED
  BY <1>9, <1>10

LEMMA FieldEntryFormats ==
    ASSUME WalkInv, stack # <<>>, FieldTurn, LevelShape(Here), LevelFormats(Here),
           NEW e, FieldEntry(e)
    PROVE  EntryFormats(e)
<1>1. Walking /\ Untaken(ctx.path)
  BY DEF FieldTurn, LevelFormats, ctx
<1>2. Walked_(e.path) = path
  BY <1>1, WalkedPart
<1>3. e.sc.format = FieldScope.format
  BY DEF FieldEntry
<1> QED
  BY <1>2, <1>3, FieldFormats DEF EntryFormats

(* The levels pushed have the formats of their paths.                      *)
LEMMA PushedFormats ==
    ASSUME WalkInv, LevelsInv, \A l \in Elements(stack) : LevelFormats(l)
    PROVE  /\ LevelFormats(TopLevel)
           /\ Walking /\ stack # <<>> =>
                 /\ OneofTurn => LevelFormats(BranchLevel)
                 /\ Descend => LevelFormats(InnerLevel)
                 /\ LevelFormats(Past) /\ LevelFormats(PastOneof)
<1>1. LevelFormats(TopLevel)
  <2>1. TopLevel.ctx.path = <<>> /\ TopLevel.ctx.sc = root /\ TopLevel.branch = FALSE
    BY DEF TopLevel, Frame
  <2>2. DOMAIN <<>> = {}
    OBVIOUS
  <2>3. \A option : Effective(<<>>, option) = root.format[option]
    BY <2>2 DEF Effective
  <2> HIDE DEF TopLevel
  <2> QED
    BY <2>1, <2>2, <2>3 DEF LevelFormats, Untaken
<1> SUFFICES ASSUME Walking, stack # <<>>
             PROVE  /\ OneofTurn => LevelFormats(BranchLevel)
                    /\ Descend => LevelFormats(InnerLevel)
                    /\ LevelFormats(Past) /\ LevelFormats(PastOneof)
  BY <1>1
<1>2. LevelFormats(Here) /\ LevelShape(Here)
  BY StackElements DEF LevelsInv
<1>3. LevelFormats(Past) /\ LevelFormats(PastOneof)
  <2>1. \A l \in {Past, PastOneof} :
           /\ l.msg = Here.msg /\ l.branch = Here.branch /\ l.ctx = Here.ctx
           /\ l.fields \subseteq Here.fields
    BY PastParts DEF ctx
  <2> QED
    BY <1>2, <2>1 DEF LevelFormats
<1>4. ASSUME OneofTurn
      PROVE  LevelFormats(BranchLevel)
  <2> DEFINE c == [ctx EXCEPT !.sc = BranchScope, !.excl = NextExclusive]
  <2>1. ctx \in [sc : Scope, path : Path, depth : Nat, seen : SUBSET Msg, excl : Nat]
        /\ ctx.sc \in Scope /\ ctx.path \in Path
    BY LevelFacts DEF KnownScope
  <2>2. BranchLevel = Frame(Here.msg, BranchFields, TRUE, c)
    BY DEF BranchLevel
  <2>3. c.sc = BranchScope /\ c.path = ctx.path
    BY <2>1
  <2> HIDE DEF c
  <2>4. /\ BranchLevel.msg = Here.msg /\ BranchLevel.fields = BranchFields
        /\ BranchLevel.branch = TRUE
        /\ BranchLevel.ctx.path = ctx.path /\ BranchLevel.ctx.sc = BranchScope
    BY <2>2, <2>3 DEF Frame
  <2>5. OneofScope \in Scope /\ oneof.opts \in Options
    BY <1>4, OneofFacts DEF KnownScope, Oneof
  <2>6. BranchScope.format = OneofScope.format
    BY <2>5 DEF BranchScope, Scope
  <2>7. OneofScope.format = OverrideFormat(ctx.sc.format, oneof.opts)
    BY <2>1 DEF OneofScope, ApplyOneof, Scope
  <2>8. ~Here.branch
    BY <1>4 DEF OneofTurn
  <2>9. \A option \in FormatOption :
            BranchScope.format[option] =
                Or(oneof.opts.format[option], Effective(ctx.path, option))
    BY <1>2, <2>6, <2>7, <2>8 DEF LevelFormats, ctx, OverrideFormat
  <2>10. \A n \in BranchFields, option \in FormatOption :
            OneofFormat(<<Here.msg, n>>, option) = oneof.opts.format[option]
    BY DEF BranchFields, OneofFormat, OneofAt, FieldOf, oneof
  <2>11. Untaken(ctx.path)
    BY <1>2 DEF LevelFormats, ctx
  <2> HIDE DEF BranchLevel
  <2> QED
    BY <2>4, <2>9, <2>10, <2>11 DEF LevelFormats
<1>5. ASSUME Descend
      PROVE  LevelFormats(InnerLevel)
  <2>1. /\ InnerLevel.branch = FALSE /\ InnerLevel.ctx.path = path
        /\ InnerLevel.ctx.sc = InnerScope
    BY DEF InnerLevel, Frame
  <2>2. FieldScope \in Scope
    BY FieldScopeFacts DEF KnownScope
  <2>3. InnerScope.format = FieldScope.format
    BY <2>2 DEF InnerScope, Scope
  <2>4. FieldTurn /\ field.pick = <<>> /\ field.lift = <<>>
    BY <1>5 DEF Descend, Descends, KeptField, Plain
  <2>5. \A option \in FormatOption : InnerScope.format[option] = Effective(path, option)
    BY <1>2, <2>3, <2>4, FieldFormats
  <2>6. Untaken(path)
    <3>1. /\ Begins(ctx.path, path) /\ path[Len(path)] = turn
          /\ DOMAIN path = DOMAIN ctx.path \cup {Len(path)}
          /\ FieldOf(schema, turn) = field
      BY TurnStep
    <3>2. \A n \in DOMAIN ctx.path : path[n] = ctx.path[n]
      BY <3>1 DEF Begins
    <3> QED
      BY <1>2, <2>4, <3>1, <3>2 DEF LevelFormats, Untaken, ctx
  <2> HIDE DEF InnerLevel
  <2> QED
    BY <2>1, <2>5, <2>6 DEF LevelFormats
<1> QED
  BY <1>3, <1>4, <1>5

LEMMA FormatsInit == Init => FormatsInv
<1> SUFFICES ASSUME Init PROVE FormatsInv
  OBVIOUS
<1>1. stack = <<>> /\ entries = <<>>
  BY DEF Init, PlanOf
<1>2. Elements(<<>>) = {}
  BY DEF Elements
<1> QED
  BY <1>1, <1>2 DEF FormatsInv

LEMMA FormatsStep ==
    ASSUME WalkInv, LevelsInv, FormatsInv, [Next]_vars
    PROVE  FormatsInv'
<1>1. schema' = schema /\ root' = root
  BY StackStep DEF vars, planVars
<1>2. /\ \A p, option : Effective(p, option)' = Effective(p, option)
      /\ \A p : Walked_(p)' = Walked_(p) /\ Untaken(p)' = Untaken(p)
      /\ \A step, option : OneofFormat(step, option)' = OneofFormat(step, option)
  BY <1>1 DEF Effective, Says, Walked_, Untaken, OneofFormat, OneofAt, FieldOf, Prefix
<1>3. /\ \A l : LevelFormats(l)' <=> LevelFormats(l)
      /\ \A e : EntryFormats(e)' <=> EntryFormats(e)
  BY <1>2 DEF LevelFormats, EntryFormats
<1>4. CASE UNCHANGED vars
  BY <1>3, <1>4 DEF vars, planVars, FormatsInv, Elements
<1>5. CASE Next
  <2>1. \A l \in Elements(stack') : LevelFormats(l)
    BY <1>5, StackStep, PushedFormats DEF FormatsInv
  <2>2. ASSUME NEW e \in Elements(entries')
        PROVE  EntryFormats(e)
    <3>1. CASE e \in Elements(entries)
      BY <3>1 DEF FormatsInv
    <3>2. CASE e.kind \notin ValueKinds
      BY <3>2 DEF EntryFormats
    <3>3. CASE stack # <<>> /\ FieldTurn /\ FieldEntry(e)
      <4>1. LevelFormats(Here) /\ LevelShape(Here)
        BY <3>3, StackElements DEF LevelsInv, FormatsInv
      <4> QED
        BY <3>3, <4>1, FieldEntryFormats
    <3>4. \A d \in Elements(Constants) \cup Elements(Merges) : d.kind \notin ValueKinds
      <4>1. \A d \in Elements(Constants) : d.kind = "constant"
        <5>1. \A n \in DOMAIN Constants : Constants[n].kind = "constant"
          BY DEF Constants, Entry_
        <5> QED
          BY <5>1 DEF Elements
      <4>2. \A d \in Elements(Merges) : d.kind = "merge"
        BY DEF Merges, Entry_, Elements
      <4> QED
        BY <4>1, <4>2 DEF ValueKinds
    <3>5. \A kind \in {"discriminator", "oneofValue"} : \A name, x :
              OneofEntry(kind, name, x).kind \notin ValueKinds
      BY DEF OneofEntry, Entry_, ValueKinds
    <3> QED
      BY <1>5, <3>1, <3>2, <3>3, <3>4, <3>5, EntriesStep DEF Discriminator
  <2> QED
    BY <1>3, <2>1, <2>2 DEF FormatsInv, Elements
<1> QED
  BY <1>4, <1>5

(* Formats propagate down the subtree of the field, enum type or oneof     *)
(* that sets them, the nearest one winning, and never to its siblings: for *)
(* all message types and options.                                          *)
THEOREM FormatsPropagate == Spec => []FormatsFromPath
<1>1. FormatsInv => FormatsFromPath
  <2> SUFFICES ASSUME FormatsInv, NEW x \in Sourced
               PROVE  EntryFormats(entries[x])
    BY DEF FormatsFromPath, EntryFormats, Sourced, ValueKinds
  <2>1. entries[x] \in Elements(entries)
    BY DEF Sourced, Elements
  <2> QED
    BY <2>1 DEF FormatsInv
<1>2. WalkInv /\ LevelsInv /\ [Next]_vars => LevelsInv'
  BY LevelsStep
<1>3. WalkInv /\ LevelsInv /\ FormatsInv /\ [Next]_vars => FormatsInv'
  BY FormatsStep
<1> QED
  BY <1>1, <1>2, <1>3, LevelsInit, FormatsInit, WalkInvariant, PTL DEF Spec

-----------------------------------------------------------------------------
(* Exclusivity ids                                                         *)

(* The last id there is for a declared group: those of oneofs come above.  *)
LastGroupId == 1000

(* No message declares more groups than there are ids for.                 *)
FewGroups == \A s \in Schemas, m \in Msg : Len(s[m].groups) <= LastGroupId

(* The last oneof a path goes through, and the groups it is in.            *)
LastOneof(p) ==
    {n \in DOMAIN p : OneofAt(p[n]) # 0 /\ \A k \in DOMAIN p : k > n => OneofAt(p[k]) = 0}

Innermost(p) ==
    {<<Prefix(p, n - 1), <<p[n][1], OneofAt(p[n])>> >> : n \in LastOneof(p)}

GroupsAlong(p) ==
    {g \in DOMAIN schema[top].groups :
        \E n \in DOMAIN p : Prefix(p, n) \in Elements(schema[top].groups[g])}

(* The oneof the walk is in, and the one it was in at an entry.            *)
LevelOneofs(l) ==
    IF l.branch THEN {<<l.ctx.path, <<l.msg, OneofAt(<<l.msg, n>>)>> >> : n \in l.fields}
                ELSE Innermost(l.ctx.path)

EntryOneofs(e) ==
    IF e.kind = "oneofValue" THEN {<<e.path, e.oneof>>} ELSE Innermost(Walked_(e.path))

(* What bears an id: a level with fields to walk, and an entry.            *)
Bearer(id, oneofs, groups) == [id |-> id, oneofs |-> oneofs, groups |-> groups]

LevelBearer(l) == Bearer(l.ctx.excl, LevelOneofs(l), GroupsAlong(l.ctx.path))

EntryBearer(e) == Bearer(e.excl, EntryOneofs(e), GroupsOf(e))

Bearers == {LevelBearer(l) : l \in {k \in Elements(stack) : k.fields # {}}}
           \cup {EntryBearer(e) : e \in Elements(entries)}

(* A group's id is borne inside the group only, and the id of a oneof only *)
(* where one instance of it is the innermost one.                          *)
IdsMean(bs, last) ==
    /\ \A b \in bs : /\ b.id \in Nat /\ b.id <= last
                     /\ b.id \in 1..LastGroupId => b.id \in b.groups
    /\ \A a, b \in bs : a.id = b.id /\ a.id > LastGroupId => a.oneofs \cap b.oneofs # {}

IdsInv == IdsMean(Bearers, LastGroupId + oneofSeq)

(* A bearer inside another one, with the id of that.                       *)
Inherits(b, a) == b.id = a.id /\ a.oneofs \subseteq b.oneofs /\ a.groups \subseteq b.groups

(* The oneof whose turn it is, on the path it is on.                       *)
ThisOneof == <<ctx.path, <<Here.msg, field.oneof>> >>

(* Ids keep their meaning when every bearer inherits its id, has none, has *)
(* that of a group it is in, or has a new one given to the oneof.          *)
LEMMA NewIds ==
    ASSUME NEW old, NEW new, NEW last \in Nat, NEW last2 \in {last, last + 1},
           last >= LastGroupId, LastGroupId \in Nat,
           IdsMean(old, last),
           \A b \in new : \/ \E a \in old : Inherits(b, a)
                          \/ b.id = 0
                          \/ b.id \in 1..LastGroupId /\ b.id \in b.groups
                          \/ last2 = last + 1 /\ b.id = last + 1 /\ ThisOneof \in b.oneofs
    PROVE  IdsMean(new, last2)
<1>1. ASSUME NEW b \in new
      PROVE  /\ b.id \in Nat /\ b.id <= last2
             /\ b.id \in 1..LastGroupId => b.id \in b.groups
             /\ b.id > LastGroupId =>
                   \/ b.id <= last /\ \E a \in old : Inherits(b, a)
                   \/ b.id = last + 1 /\ ThisOneof \in b.oneofs
  BY DEF IdsMean, Inherits
<1>2. ASSUME NEW a \in new, NEW b \in new, a.id = b.id, a.id > LastGroupId
      PROVE  a.oneofs \cap b.oneofs # {}
  <2>1. a.id \in Nat /\ ((\E x \in old : Inherits(a, x)) \/ (a.id = last + 1 /\ ThisOneof \in a.oneofs))
        /\ (a.id <= last \/ (a.id = last + 1 /\ ThisOneof \in a.oneofs))
    BY <1>1, <1>2
  <2>2. ((\E y \in old : Inherits(b, y)) \/ (a.id = last + 1 /\ ThisOneof \in b.oneofs))
        /\ (a.id <= last \/ (a.id = last + 1 /\ ThisOneof \in b.oneofs))
    <3>1. b.id > LastGroupId
      BY <1>2
    <3> QED
      BY <1>1, <1>2, <3>1
  <2>3. CASE a.id = last + 1
    <3>1. ~(a.id <= last)
      BY <2>3
    <3> QED
      BY <2>1, <2>2, <3>1
  <2>4. CASE a.id # last + 1
    <3>1. PICK x \in old : Inherits(a, x)
      BY <2>1, <2>4
    <3>2. PICK y \in old : Inherits(b, y)
      BY <2>2, <2>4
    <3>3. /\ x.id = a.id /\ y.id = b.id
          /\ x.oneofs \subseteq a.oneofs /\ y.oneofs \subseteq b.oneofs
      BY <3>1, <3>2 DEF Inherits
    <3>4. x.id = y.id /\ x.id > LastGroupId
      BY <1>2, <3>3
    <3>5. x.oneofs \cap y.oneofs # {}
      BY <3>4 DEF IdsMean
    <3> QED
      BY <3>3, <3>5
  <2> QED
    BY <2>3, <2>4
<1> QED
  BY <1>1, <1>2 DEF IdsMean

(* The groups a path is in, longer paths are in too.                       *)
LEMMA AlongBegins ==
    ASSUME NEW p, NEW q, Begins(p, q)
    PROVE  GroupsAlong(p) \subseteq GroupsAlong(q)
<1>1. /\ DOMAIN p \subseteq DOMAIN q /\ DOMAIN p = 1..Len(p) /\ Len(p) \in Nat
      /\ \A n \in 0..Len(p) : Prefix(q, n) = Prefix(p, n)
  BY BeginsFacts DEF Begins, Path
<1>2. ASSUME NEW n \in DOMAIN p
      PROVE  n \in DOMAIN q /\ Prefix(q, n) = Prefix(p, n)
  BY <1>1
<1> QED
  BY <1>2 DEF GroupsAlong

(* What the walk went through of an entry's path begins it.                *)
LEMMA WalkedBegins ==
    ASSUME NEW e \in SafeEntry
    PROVE  Begins(Walked_(e.path), e.path)
<1> DEFINE p == e.path
           stops == {n \in DOMAIN p : \/ FieldOf(schema, p[n]).pick # <<>>
                                      \/ FieldOf(schema, p[n]).lift # <<>>}
<1>1. p \in Path
  BY DEF SafeEntry, Entry
<1>2. DOMAIN p = 1..Len(p) /\ Len(p) \in Nat
  BY <1>1 DEF Path
<1>3. stops # {} => Min(stops) \in 0..Len(p)
  <2>1. stops \in SUBSET Nat /\ stops \subseteq 0..Len(p)
    BY <1>2
  <2> HIDE DEF stops
  <2> QED
    BY <2>1, MinMember
<1>4. Walked_(p) = IF stops = {} THEN p ELSE Prefix(p, Min(stops))
  BY DEF Walked_
<1> HIDE DEF stops
<1>5. \A n \in 0..Len(p) : Begins(Prefix(p, n), p)
  <2> SUFFICES ASSUME NEW n \in 0..Len(p) PROVE Begins(Prefix(p, n), p)
    OBVIOUS
  <2>1. /\ Prefix(p, n) \in Path /\ Len(Prefix(p, n)) = n
        /\ \A k \in 1..n : Prefix(p, n)[k] = p[k]
    BY <1>1, PrefixFacts
  <2>2. DOMAIN Prefix(p, n) = 1..n /\ n <= Len(p)
    BY <1>2, <2>1 DEF Path
  <2> HIDE DEF p
  <2> QED
    BY <1>1, <2>1, <2>2 DEF Begins
<1> HIDE DEF p
<1>6. Begins(Walked_(p), p)
  BY <1>1, <1>3, <1>4, <1>5, BeginsItself
<1> QED
  BY <1>6 DEF p

(* The innermost oneof of the walked part of an entry is one it is in.     *)
LEMMA WalkedOneofs ==
    ASSUME NEW e \in SafeEntry
    PROVE  EntryOneofs(e) \subseteq OneofsOf(e)
<1> DEFINE p == e.path
           q == Walked_(p)
<1>1. /\ DOMAIN q \subseteq DOMAIN p /\ DOMAIN q = 1..Len(q) /\ Len(q) \in Nat
      /\ \A n \in 0..Len(q) : Prefix(p, n) = Prefix(q, n)
      /\ \A n \in DOMAIN q : p[n] = q[n]
  <2> HIDE DEF q
  <2>1. Begins(q, p)
    BY WalkedBegins DEF q
  <2> HIDE DEF p
  <2> QED
    BY <2>1, BeginsFacts DEF Begins, Path
<1> HIDE DEF q
<1>2. ASSUME NEW n \in DOMAIN q, OneofAt(q[n]) # 0
      PROVE  <<Prefix(q, n - 1), <<q[n][1], OneofAt(q[n])>> >> \in OneofsOf(e)
  <2>1. n \in DOMAIN p /\ p[n] = q[n] /\ n - 1 \in 0..Len(q)
    BY <1>1
  <2>2. Prefix(p, n - 1) = Prefix(q, n - 1)
    BY <1>1, <2>1
  <2> QED
    BY <1>2, <2>1, <2>2 DEF OneofsOf
<1>3. Innermost(q) \subseteq OneofsOf(e)
  BY <1>2 DEF Innermost, LastOneof
<1> QED
  BY <1>3 DEF EntryOneofs, OneofsOf, q

(* The field whose turn it is is in the oneof its level is in.             *)
LEMMA AlongField ==
    ASSUME WalkInv, stack # <<>>, FieldTurn, LevelShape(Here)
    PROVE  /\ LevelOneofs(Here) \subseteq Innermost(path)
           /\ GroupsAlong(ctx.path) \subseteq GroupsAlong(path)
<1> DEFINE last == Len(path)
<1>1. /\ Begins(ctx.path, path) /\ path[last] = turn /\ last \in DOMAIN path
      /\ last = Len(ctx.path) + 1 /\ turn = <<Here.msg, turn[2]>>
      /\ turn[2] \in Here.fields /\ OneofAt(turn) = field.oneof
      /\ DOMAIN path = DOMAIN ctx.path \cup {last}
  BY TurnStep DEF FieldTurn
<1>2. GroupsAlong(ctx.path) \subseteq GroupsAlong(path)
  BY <1>1, AlongBegins
<1>3. /\ DOMAIN ctx.path = 1..Len(ctx.path) /\ Len(ctx.path) \in Nat
      /\ \A n \in 0..Len(ctx.path) : Prefix(path, n) = Prefix(ctx.path, n)
      /\ \A n \in DOMAIN ctx.path : path[n] = ctx.path[n]
      /\ Prefix(path, Len(ctx.path)) = ctx.path
  BY <1>1, BeginsFacts DEF Begins, Path
<1>4. CASE Here.branch
  <2>1. \A n \in Here.fields : OneofAt(<<Here.msg, n>>) = OneofAt(turn) /\ OneofAt(turn) # 0
    BY <1>1, <1>4 DEF LevelShape
  <2>2. last \in LastOneof(path)
    <3>1. \A k \in DOMAIN path : ~(k > last)
      BY <1>1, <1>3
    <3> QED
      BY <1>1, <2>1, <3>1 DEF LastOneof
  <2>3. Prefix(path, last - 1) = ctx.path /\ path[last][1] = Here.msg
    BY <1>1, <1>3
  <2>4. <<ctx.path, <<Here.msg, OneofAt(turn)>> >> \in Innermost(path)
    BY <1>1, <2>2, <2>3 DEF Innermost
  <2>5. LevelOneofs(Here) \subseteq {<<ctx.path, <<Here.msg, OneofAt(turn)>> >>}
    BY <1>4, <2>1 DEF LevelOneofs, ctx
  <2> QED
    BY <1>2, <2>4, <2>5
<1>5. CASE ~Here.branch
  <2>1. OneofAt(path[last]) = 0
    BY <1>1, <1>5 DEF FieldTurn
  <2>2. ASSUME NEW n \in LastOneof(ctx.path)
        PROVE  /\ n \in LastOneof(path) /\ path[n] = ctx.path[n]
               /\ Prefix(path, n - 1) = Prefix(ctx.path, n - 1)
    <3>1. n \in DOMAIN ctx.path /\ n - 1 \in 0..Len(ctx.path)
      BY <1>3 DEF LastOneof
    <3>2. \A k \in DOMAIN path : k > n => OneofAt(path[k]) = 0
      BY <1>1, <1>3, <2>1 DEF LastOneof
    <3> QED
      BY <1>1, <1>3, <3>1, <3>2 DEF LastOneof
  <2>3. Innermost(ctx.path) \subseteq Innermost(path)
    BY <2>2 DEF Innermost
  <2> QED
    BY <1>2, <1>5, <2>3 DEF LevelOneofs, ctx
<1> QED
  BY <1>4, <1>5

(* The id of the field whose turn it is: its level's or its group's.       *)
LEMMA FieldId ==
    ASSUME FewGroups, WalkInv, stack # <<>>, FieldTurn, LevelShape(Here), NEW b,
           b.id = excl, Innermost(path) \subseteq b.oneofs, GroupsAlong(path) \subseteq b.groups
    PROVE  Inherits(b, LevelBearer(Here)) \/ (b.id \in 1..LastGroupId /\ b.id \in b.groups)
<1> USE DEF FieldTurn
<1> DEFINE groups == schema[top].groups
           ids == {g \in DOMAIN groups : path \in Elements(groups[g])}
<1>1. groups \in Seq(Seq(Path)) /\ Len(groups) <= LastGroupId
  BY SchemaFacts DEF WalkInv, TypeOK, Message, FewGroups
<1>2. DOMAIN groups = 1..Len(groups) /\ Len(groups) \in Nat
  BY <1>1
<1>3. excl = IF ids = {} THEN ctx.excl ELSE Max(ids)
  BY DEF excl, ExclusiveId
<1>4. ids \in SUBSET Nat /\ \A g \in ids : g <= Len(groups)
  BY <1>2
<1>5. CASE ids = {}
  <2>1. b.id = ctx.excl
    BY <1>3, <1>5
  <2>2. /\ LevelBearer(Here).id = ctx.excl
        /\ LevelBearer(Here).oneofs = LevelOneofs(Here)
        /\ LevelBearer(Here).groups = GroupsAlong(ctx.path)
    BY DEF LevelBearer, Bearer, ctx
  <2> QED
    BY <2>1, <2>2, AlongField DEF Inherits
<1>6. CASE ids # {}
  <2>1. Max(ids) \in ids
    BY <1>2, <1>4, <1>6, MaxMember
  <2>2. Max(ids) \in DOMAIN groups /\ path \in Elements(groups[Max(ids)])
    BY <2>1
  <2>3. b.id = Max(ids)
    BY <1>3, <1>6
  <2> HIDE DEF ids
  <2>4. Prefix(path, Len(path)) = path /\ Len(path) \in DOMAIN path
    BY TurnFacts, TurnStep, BeginsItself, BeginsFacts
  <2>5. Max(ids) \in GroupsAlong(path)
    BY <2>2, <2>4 DEF GroupsAlong
  <2>6. Max(ids) \in 1..Len(groups)
    BY <1>2, <2>2
  <2>7. Max(ids) \in 1..LastGroupId
    <3>1. LastGroupId \in Nat
      BY DEF LastGroupId
    <3> QED
      BY <1>1, <1>2, <2>6, <3>1
  <2> QED
    BY <2>3, <2>5, <2>7
<1> QED
  BY <1>5, <1>6

(* What a step may make of ids.                                            *)
KeepsIds(b) ==
    \/ \E a \in Bearers : Inherits(b, a)
    \/ b.id = 0
    \/ b.id \in 1..LastGroupId /\ b.id \in b.groups
    \/ /\ SingleKey \/ WalkBranches
       /\ b.id = LastGroupId + oneofSeq + 1 /\ ThisOneof \in b.oneofs

LEMMA NextId ==
    ASSUME WalkInv
    PROVE  NextExclusive = LastGroupId + oneofSeq + 1 /\ LastGroupId \in Nat
BY DEF NextExclusive, LastGroupId, WalkInv, TypeOK

(* The level being walked bears its id.                                    *)
LEMMA HereBearer ==
    ASSUME WalkInv, stack # <<>>, Walking
    PROVE  /\ LevelBearer(Here) \in Bearers
           /\ LevelBearer(Here).id = ctx.excl
           /\ LevelBearer(Here).oneofs = LevelOneofs(Here)
           /\ LevelBearer(Here).groups = GroupsAlong(ctx.path)
<1>1. Here \in Elements(stack) /\ Here.fields # {}
  BY StackElements DEF Walking
<1>2. LevelBearer(Here) \in Bearers
  BY <1>1 DEF Bearers
<1> QED
  BY <1>2 DEF LevelBearer, Bearer, ctx

LEMMA LevelIds ==
    ASSUME FewGroups, WalkInv, LevelsInv, Next, NEW l \in Elements(stack'), l.fields # {}
    PROVE  KeepsIds(LevelBearer(l))
<1> DEFINE b == LevelBearer(l)
<1>1. /\ b.id = l.ctx.excl /\ b.oneofs = LevelOneofs(l) /\ b.groups = GroupsAlong(l.ctx.path)
  BY DEF LevelBearer, Bearer
<1>2. CASE l \in Elements(stack)
  <2>1. b \in Bearers
    BY <1>2 DEF Bearers
  <2> QED
    BY <2>1 DEF KeepsIds, Inherits
<1>3. CASE l = TopLevel
  <2>1. l.ctx.excl = 0
    BY <1>3 DEF TopLevel, Frame
  <2> HIDE DEF b
  <2> QED
    BY <1>1, <2>1 DEF KeepsIds, b
<1>4. CASE Walking /\ stack # <<>> /\ l \in {Past, PastOneof}
  <2>1. /\ l.msg = Here.msg /\ l.branch = Here.branch /\ l.ctx = Here.ctx
        /\ l.fields \subseteq Here.fields
    BY <1>4, PastParts DEF ctx
  <2>2. LevelShape(Here)
    BY <1>4, StackElements DEF LevelsInv
  <2>3. PICK k \in l.fields : TRUE
    OBVIOUS
  <2>4. Here.branch =>
            \A n \in Here.fields : OneofAt(<<Here.msg, n>>) = OneofAt(<<Here.msg, k>>)
    BY <2>1, <2>2, <2>3 DEF LevelShape
  <2>5. LevelOneofs(Here) \subseteq LevelOneofs(l)
    BY <2>1, <2>3, <2>4 DEF LevelOneofs
  <2>6. Inherits(b, LevelBearer(Here))
    BY <1>1, <1>4, <2>1, <2>5, HereBearer DEF Inherits, ctx
  <2> QED
    BY <1>4, <2>6, HereBearer DEF KeepsIds
<1>5. CASE Walking /\ stack # <<>> /\ l = BranchLevel /\ OneofTurn /\ WalkBranches
  <2> DEFINE c == [ctx EXCEPT !.sc = BranchScope, !.excl = NextExclusive]
  <2>1. ctx \in [sc : Scope, path : Path, depth : Nat, seen : SUBSET Msg, excl : Nat]
    BY <1>5, LevelFacts
  <2>2. c.excl = NextExclusive /\ c.path = ctx.path
    BY <2>1
  <2>3. l = Frame(Here.msg, BranchFields, TRUE, c)
    BY <1>5 DEF BranchLevel
  <2> HIDE DEF c
  <2>4. /\ l.ctx.excl = NextExclusive /\ l.ctx.path = ctx.path
        /\ l.msg = Here.msg /\ l.branch = TRUE /\ l.fields = BranchFields
    BY <2>2, <2>3 DEF Frame
  <2>5. PICK n \in BranchFields : TRUE
    BY <2>4
  <2>6. OneofAt(<<Here.msg, n>>) = field.oneof
    BY <2>5 DEF BranchFields, OneofAt, FieldOf
  <2>7. ThisOneof \in LevelOneofs(l)
    BY <2>4, <2>5, <2>6 DEF LevelOneofs, ThisOneof
  <2> QED
    BY <1>1, <1>5, <2>4, <2>7, NextId DEF KeepsIds
<1>6. CASE Walking /\ stack # <<>> /\ l = InnerLevel /\ Descend
  <2>1. l.ctx.excl = excl /\ l.ctx.path = path /\ l.branch = FALSE /\ FieldTurn
    BY <1>6 DEF InnerLevel, Frame, Descend, Descends, KeptField
  <2>2. LevelShape(Here)
    BY <1>6, StackElements DEF LevelsInv
  <2>3. LevelOneofs(l) = Innermost(path)
    BY <2>1 DEF LevelOneofs
  <2>4. \/ Inherits(b, LevelBearer(Here))
        \/ b.id \in 1..LastGroupId /\ b.id \in b.groups
    <3> HIDE DEF b
    <3> QED
      BY <1>1, <1>6, <2>1, <2>2, <2>3, FieldId
  <2> QED
    BY <1>6, <2>4, HereBearer DEF KeepsIds
<1> QED
  BY <1>2, <1>3, <1>4, <1>5, <1>6, StackStep

LEMMA EntryIds ==
    ASSUME FewGroups, WalkInv, LevelsInv, FormatsInv, Next, NEW e \in Elements(entries')
    PROVE  KeepsIds(EntryBearer(e))
<1> DEFINE b == EntryBearer(e)
<1>1. /\ b.id = e.excl /\ b.oneofs = EntryOneofs(e) /\ b.groups = GroupsAlong(e.path)
  BY DEF EntryBearer, Bearer, GroupsOf, GroupsAlong
<1>2. CASE e \in Elements(entries)
  <2>1. b \in Bearers
    BY <1>2 DEF Bearers
  <2> QED
    BY <2>1 DEF KeepsIds, Inherits
<1>3. CASE e.excl = 0
  BY <1>1, <1>3 DEF KeepsIds
<1>4. \A d \in Elements(Constants) \cup Elements(Merges) : d.excl = 0
  <2>1. \A n \in DOMAIN Constants : Constants[n].excl = 0
    BY DEF Constants, Entry_
  <2>2. \A n \in DOMAIN Merges : Merges[n].excl = 0
    BY DEF Merges, Entry_
  <2> QED
    BY <2>1, <2>2 DEF Elements
<1>5. CASE Walking /\ stack # <<>> /\ FieldTurn /\ FieldEntry(e)
  <2>1. e.excl = excl /\ Begins(path, e.path) /\ e.kind # "oneofValue"
    BY <1>5 DEF FieldEntry, ValueKinds
  <2>2. LevelShape(Here) /\ Untaken(ctx.path)
    BY <1>5, StackElements DEF LevelsInv, FormatsInv, LevelFormats, ctx
  <2>3. Innermost(path) \subseteq b.oneofs /\ GroupsAlong(path) \subseteq b.groups
    BY <1>1, <1>5, <2>1, <2>2, AlongBegins, WalkedPart DEF EntryOneofs
  <2>4. \/ Inherits(b, LevelBearer(Here))
        \/ b.id \in 1..LastGroupId /\ b.id \in b.groups
    <3> HIDE DEF b
    <3> QED
      BY <1>1, <1>5, <2>1, <2>2, <2>3, FieldId
  <2> QED
    BY <1>5, <2>4, HereBearer DEF KeepsIds
<1>6. CASE Walking /\ stack # <<>> /\ OneofTurn /\ e = Discriminator
  <2>1. e.excl = ctx.excl /\ e.path = ctx.path /\ e.kind # "oneofValue"
    BY <1>6 DEF Discriminator, OneofEntry, Entry_
  <2>2. LevelOneofs(Here) = Innermost(ctx.path)
    BY <1>6 DEF OneofTurn, LevelOneofs, ctx
  <2>3. Walked_(ctx.path) = ctx.path
    <3>1. Untaken(ctx.path)
      BY <1>6, StackElements DEF FormatsInv, LevelFormats, ctx
    <3> QED
      BY <3>1 DEF Walked_, Untaken
  <2>4. Inherits(b, LevelBearer(Here))
    BY <1>1, <1>6, <2>1, <2>2, <2>3, HereBearer DEF Inherits, EntryOneofs
  <2> QED
    BY <1>6, <2>4, HereBearer DEF KeepsIds
<1>7. CASE /\ Walking /\ stack # <<>> /\ SingleKey
           /\ e = OneofEntry("oneofValue", oneof.name, NextExclusive)
  <2>1. /\ e.excl = NextExclusive /\ e.path = ctx.path /\ e.kind = "oneofValue"
        /\ e.oneof = <<Here.msg, field.oneof>>
    BY <1>7 DEF OneofEntry, Entry_
  <2>2. ThisOneof \in EntryOneofs(e)
    BY <2>1 DEF EntryOneofs, ThisOneof
  <2> QED
    BY <1>1, <1>7, <2>1, <2>2, NextId DEF KeepsIds
<1> QED
  BY <1>2, <1>3, <1>4, <1>5, <1>6, <1>7, EntriesStep

LEMMA IdsInit == Init => IdsInv
<1> SUFFICES ASSUME Init PROVE IdsInv
  OBVIOUS
<1>1. stack = <<>> /\ entries = <<>>
  BY DEF Init, PlanOf
<1>2. Elements(<<>>) = {}
  BY DEF Elements
<1>3. Bearers = {}
  BY <1>1, <1>2 DEF Bearers
<1> QED
  BY <1>3 DEF IdsInv, IdsMean

LEMMA IdsStep ==
    ASSUME FewGroups, WalkInv, LevelsInv, FormatsInv, IdsInv, [Next]_vars
    PROVE  IdsInv'
<1>1. schema' = schema /\ top' = top
  BY StackStep DEF vars, planVars
<1>2. /\ \A l : LevelBearer(l)' = LevelBearer(l)
      /\ \A e : EntryBearer(e)' = EntryBearer(e)
  BY <1>1 DEF LevelBearer, EntryBearer, Bearer, LevelOneofs, EntryOneofs, Innermost, LastOneof,
              Walked_, GroupsAlong, GroupsOf, OneofAt, FieldOf, Prefix
<1>3. CASE UNCHANGED vars
  <2>1. Bearers' = Bearers /\ oneofSeq' = oneofSeq
    BY <1>2, <1>3 DEF vars, planVars, Bearers, Elements
  <2> QED
    BY <2>1 DEF IdsInv, IdsMean, LastGroupId
<1>4. CASE Next
  <2> DEFINE new == {LevelBearer(l) : l \in {k \in Elements(stack') : k.fields # {}}}
                    \cup {EntryBearer(e) : e \in Elements(entries')}
  <2>1. Bearers' = new
    BY <1>2 DEF Bearers, Elements
  <2>2. \A b \in new : KeepsIds(b)
    BY <1>4, LevelIds, EntryIds
  <2>3. oneofSeq' \in {oneofSeq, oneofSeq + 1}
        /\ (SingleKey \/ WalkBranches => oneofSeq' = oneofSeq + 1)
    <3>1. TagOneof \/ SingleKey \/ WalkBranches => oneofSeq' = oneofSeq + 1
      BY DEF TagOneof, SingleKey, WalkBranches
    <3>2. Begin \/ RejectRules \/ SkipOneof \/ OmitOneof \/ DropField \/ RejectField
            => oneofSeq' = oneofSeq
      BY DEF Begin, RejectRules, SkipOneof, OmitOneof, DropField, RejectField, Failure
    <3>3. WriteLeaf \/ WriteCollection \/ Pick \/ RejectPick \/ Lift \/ RejectLift
            => oneofSeq' = oneofSeq
      BY DEF WriteLeaf, WriteCollection, Pick, RejectPick, Lift, RejectLift, Failure, Emit
    <3>4. Nest \/ Cycle \/ Descend \/ Return \/ Finish \/ Refuse => oneofSeq' = oneofSeq
      BY DEF Nest, Cycle, Descend, Return, Finish, Refuse, Failure, Emit
    <3> QED
      BY <1>4, <3>1, <3>2, <3>3, <3>4 DEF Next
  <2>4. oneofSeq \in Nat /\ LastGroupId \in Nat
    BY NextId DEF WalkInv, TypeOK
  <2> DEFINE last == LastGroupId + oneofSeq
             last2 == LastGroupId + oneofSeq'
  <2>5. /\ last \in Nat /\ last2 \in {last, last + 1} /\ last >= LastGroupId
        /\ oneofSeq' = oneofSeq + 1 => last2 = last + 1
        /\ LastGroupId + oneofSeq + 1 = last + 1
    <3>1. last \in Nat /\ last >= LastGroupId
      BY <2>4
    <3>2. oneofSeq' = oneofSeq => last2 = last
      OBVIOUS
    <3>3. oneofSeq' = oneofSeq + 1 => last2 = last + 1
      BY <2>4
    <3>4. LastGroupId + oneofSeq + 1 = last + 1
      OBVIOUS
    <3> QED
      BY <2>3, <3>1, <3>2, <3>3, <3>4
  <2>6. IdsMean(Bearers, last)
    BY DEF IdsInv
  <2> HIDE DEF new, last, last2
  <2>7. \A b \in new : \/ \E a \in Bearers : Inherits(b, a)
                       \/ b.id = 0
                       \/ b.id \in 1..LastGroupId /\ b.id \in b.groups
                       \/ last2 = last + 1 /\ b.id = last + 1 /\ ThisOneof \in b.oneofs
    BY <2>2, <2>3, <2>5 DEF KeepsIds
  <2>8. IdsMean(new, last2)
    BY <2>4, <2>5, <2>6, <2>7, NewIds
  <2>9. IdsMean(new, last2) <=> IdsInv'
    BY <2>1 DEF IdsInv, IdsMean, Inherits, LastGroupId, last2
  <2> QED
    BY <2>8, <2>9
<1> QED
  BY <1>3, <1>4

(* What two entries that share an id are both in.                          *)
LEMMA SharedIds ==
    ASSUME IdsInv, NEW x \in DOMAIN entries, NEW y \in DOMAIN entries,
           entries[x].excl # 0, entries[x].excl = entries[y].excl
    PROVE  \/ EntryOneofs(entries[x]) \cap EntryOneofs(entries[y]) # {}
           \/ /\ entries[x].excl \in 1..LastGroupId
              /\ GroupsOf(entries[x]) \cap GroupsOf(entries[y]) # {}
<1> DEFINE a == EntryBearer(entries[x])
           b == EntryBearer(entries[y])
<1>1. a \in Bearers /\ b \in Bearers
  BY DEF Bearers, Elements
<1>2. /\ a.id = entries[x].excl /\ b.id = entries[y].excl
      /\ a.oneofs = EntryOneofs(entries[x]) /\ b.oneofs = EntryOneofs(entries[y])
      /\ a.groups = GroupsOf(entries[x]) /\ b.groups = GroupsOf(entries[y])
  BY DEF EntryBearer, Bearer
<1> HIDE DEF a, b
<1>3. a.id = b.id /\ a.id # 0
  BY <1>2
<1>4. /\ a.id \in Nat
      /\ a.id \in 1..LastGroupId => a.id \in a.groups /\ b.id \in b.groups
      /\ a.id > LastGroupId => a.oneofs \cap b.oneofs # {}
  BY <1>1, <1>3 DEF IdsInv, IdsMean
<1>5. LastGroupId \in Nat
  BY DEF LastGroupId
<1> QED
  BY <1>2, <1>3, <1>4, <1>5

LEMMA IdsInvariant ==
    ASSUME FewGroups
    PROVE  Spec => [](WalkInv /\ IdsInv)
<1>1. WalkInv /\ LevelsInv /\ [Next]_vars => LevelsInv'
  BY LevelsStep
<1>2. WalkInv /\ LevelsInv /\ FormatsInv /\ [Next]_vars => FormatsInv'
  BY FormatsStep
<1>3. WalkInv /\ LevelsInv /\ FormatsInv /\ IdsInv /\ [Next]_vars => IdsInv'
  BY IdsStep
<1> QED
  BY <1>1, <1>2, <1>3, LevelsInit, FormatsInit, IdsInit, WalkInvariant, PTL DEF Spec

(* Entries that share an exclusivity id really are inside one and the same *)
(* oneof of one message, or inside one declared group: for all message     *)
(* types that do not declare more groups than there are ids for.           *)
THEOREM SharedIdsExclude ==
    ASSUME FewGroups
    PROVE  Spec => []SharedIdMeansExclusive
<1>1. WalkInv /\ IdsInv => SharedIdMeansExclusive
  <2> SUFFICES ASSUME WalkInv, IdsInv, NEW x \in DOMAIN entries, NEW y \in DOMAIN entries,
                      ExclusiveOf(entries[x], entries[y])
               PROVE  \/ OneofsOf(entries[x]) \cap OneofsOf(entries[y]) # {}
                      \/ GroupsOf(entries[x]) \cap GroupsOf(entries[y]) # {}
    BY DEF SharedIdMeansExclusive
  <2>1. \/ EntryOneofs(entries[x]) \cap EntryOneofs(entries[y]) # {}
        \/ GroupsOf(entries[x]) \cap GroupsOf(entries[y]) # {}
    BY SharedIds DEF ExclusiveOf
  <2>2. entries[x] \in SafeEntry /\ entries[y] \in SafeEntry
    BY DEF WalkInv
  <2> QED
    BY <2>1, <2>2, WalkedOneofs
<1> QED
  BY <1>1, IdsInvariant, PTL

-----------------------------------------------------------------------------
(* Ids of oneofs written under one key                                     *)

(* The id of such a oneof is borne by its one entry only, and rules have   *)
(* no id.                                                                  *)
OneofKey(e) == e.kind = "oneofValue"

IdsApart ==
    \A e \in Elements(entries) :
        /\ e.kind \in {"constant", "merge"} => e.excl = 0
        /\ OneofKey(e) =>
              /\ e.excl \in Nat /\ e.excl > LastGroupId
              /\ \A f \in Elements(entries) : f.excl = e.excl => f = e
              /\ \A l \in Elements(stack) : l.fields # {} => l.ctx.excl # e.excl

(* An id the level being walked hands on, that of a group, or none.        *)
OldId(id) == id \in 0..LastGroupId \/ (stack # <<>> /\ Here.fields # {} /\ id = ctx.excl)

LEMMA FieldExcl ==
    ASSUME FewGroups, WalkInv, stack # <<>>, Walking
    PROVE  OldId(excl)
<1> DEFINE groups == schema[top].groups
           ids == {g \in DOMAIN groups : path \in Elements(groups[g])}
<1>1. groups \in Seq(Seq(Path)) /\ Len(groups) <= LastGroupId
  BY SchemaFacts DEF WalkInv, TypeOK, Message, FewGroups
<1>2. DOMAIN groups = 1..Len(groups) /\ Len(groups) \in Nat
  BY <1>1
<1>3. excl = IF ids = {} THEN ctx.excl ELSE Max(ids)
  BY DEF excl, ExclusiveId
<1>4. CASE ids = {}
  BY <1>3, <1>4 DEF OldId, Walking
<1>5. CASE ids # {}
  <2>1. ids \in SUBSET Nat /\ \A g \in ids : g <= Len(groups)
    BY <1>2
  <2>2. LastGroupId \in Nat
    BY DEF LastGroupId
  <2> HIDE DEF ids
  <2>3. Max(ids) \in ids
    BY <1>2, <1>5, <2>1, MaxMember
  <2>4. Max(ids) \in 1..Len(groups)
    BY <1>2, <2>3 DEF ids
  <2>5. Max(ids) \in 0..LastGroupId
    BY <1>1, <1>2, <2>2, <2>4
  <2> QED
    BY <1>3, <1>5, <2>5 DEF OldId
<1> QED
  BY <1>4, <1>5

(* The ids of the levels and the entries a step adds.                      *)
LEMMA LevelExcl ==
    ASSUME FewGroups, WalkInv, Next, NEW l \in Elements(stack'), l.fields # {}
    PROVE  \/ \E k \in Elements(stack) : k.fields # {} /\ k.ctx.excl = l.ctx.excl
           \/ OldId(l.ctx.excl)
           \/ WalkBranches /\ l.ctx.excl = NextExclusive
<1>1. CASE l \in Elements(stack)
  BY <1>1
<1>2. CASE l = TopLevel
  <2>1. l.ctx.excl = 0 /\ 0 \in 0..LastGroupId
    BY <1>2 DEF TopLevel, Frame, LastGroupId
  <2> QED
    BY <2>1 DEF OldId
<1>3. CASE Walking /\ stack # <<>> /\ l \in {Past, PastOneof}
  <2>1. l.ctx = ctx
    BY <1>3, PastParts
  <2> QED
    BY <1>3, <2>1 DEF OldId, Walking
<1>4. CASE Walking /\ stack # <<>> /\ l = BranchLevel /\ OneofTurn /\ WalkBranches
  <2> DEFINE c == [ctx EXCEPT !.sc = BranchScope, !.excl = NextExclusive]
  <2>1. ctx \in [sc : Scope, path : Path, depth : Nat, seen : SUBSET Msg, excl : Nat]
    BY <1>4, LevelFacts
  <2>2. c.excl = NextExclusive
    BY <2>1
  <2>3. l = Frame(Here.msg, BranchFields, TRUE, c)
    BY <1>4 DEF BranchLevel
  <2> HIDE DEF c
  <2>4. l.ctx.excl = NextExclusive
    BY <2>2, <2>3 DEF Frame
  <2> QED
    BY <1>4, <2>4
<1>5. CASE Walking /\ stack # <<>> /\ l = InnerLevel /\ Descend
  <2>1. l.ctx.excl = excl
    BY <1>5 DEF InnerLevel, Frame
  <2> QED
    BY <1>5, <2>1, FieldExcl
<1> QED
  BY <1>1, <1>2, <1>3, <1>4, <1>5, StackStep

LEMMA EntryExcl ==
    ASSUME FewGroups, WalkInv, Next, NEW e \in Elements(entries')
    PROVE  \/ e \in Elements(entries)
           \/ ~OneofKey(e) /\ OldId(e.excl)
                           /\ (e.kind \in {"constant", "merge"} => e.excl = 0)
           \/ /\ SingleKey
              /\ e = OneofEntry("oneofValue", oneof.name, NextExclusive)
<1>1. CASE e \in Elements(Constants) \cup Elements(Merges)
  <2>1. \A n \in DOMAIN Constants : Constants[n].excl = 0 /\ Constants[n].kind = "constant"
    BY DEF Constants, Entry_
  <2>2. \A n \in DOMAIN Merges : Merges[n].excl = 0 /\ Merges[n].kind = "merge"
    BY DEF Merges, Entry_
  <2>3. e.excl = 0 /\ e.kind \in {"constant", "merge"}
    BY <1>1, <2>1, <2>2 DEF Elements
  <2>4. 0 \in 0..LastGroupId
    BY DEF LastGroupId
  <2> QED
    BY <2>3, <2>4 DEF OldId, OneofKey
<1>2. CASE Walking /\ stack # <<>> /\ FieldEntry(e)
  <2>1. e.excl = excl /\ e.kind \in ValueKinds
    BY <1>2 DEF FieldEntry
  <2> QED
    BY <1>2, <2>1, FieldExcl DEF ValueKinds, OneofKey
<1>3. CASE Walking /\ stack # <<>> /\ e = Discriminator
  <2>1. e.excl = ctx.excl /\ e.kind = "discriminator"
    BY <1>3 DEF Discriminator, OneofEntry, Entry_
  <2> QED
    BY <1>3, <2>1 DEF OldId, OneofKey, Walking
<1> QED
  BY <1>1, <1>2, <1>3, EntriesStep

LEMMA IdsApartStep ==
    ASSUME FewGroups, WalkInv, IdsInv, IdsApart, [Next]_vars
    PROVE  IdsApart'
<1>1. CASE UNCHANGED vars
  BY <1>1 DEF vars, planVars, IdsApart, Elements, OneofKey, LastGroupId
<1>2. CASE Next
  <2> DEFINE last == LastGroupId + oneofSeq
  <2>1. /\ last \in Nat /\ last >= LastGroupId /\ NextExclusive = last + 1
        /\ LastGroupId \in Nat
    BY NextId DEF WalkInv, TypeOK
  <2> HIDE DEF last
  <2>2. /\ \A e \in Elements(entries) : e.excl \in Nat /\ e.excl <= last
        /\ \A l \in Elements(stack) : l.fields # {} => l.ctx.excl \in Nat /\ l.ctx.excl <= last
    <3>1. \A e : EntryBearer(e).id = e.excl
      BY DEF EntryBearer, Bearer
    <3>2. \A l : LevelBearer(l).id = l.ctx.excl
      BY DEF LevelBearer, Bearer
    <3> QED
      BY <3>1, <3>2 DEF IdsInv, IdsMean, Bearers, last
  <2>3. stack # <<>> => Here \in Elements(stack)
    BY StackElements
  <2>4. \A id : OldId(id) => id \in Nat /\ id <= last
    BY <2>1, <2>2, <2>3 DEF OldId, ctx
  <2>5. \A e \in Elements(entries) : OneofKey(e) =>
            /\ e.excl \in Nat /\ e.excl > LastGroupId
            /\ \A id : OldId(id) => id # e.excl
    <3> SUFFICES ASSUME NEW e \in Elements(entries), OneofKey(e), NEW id, OldId(id)
                 PROVE  e.excl \in Nat /\ e.excl > LastGroupId /\ id # e.excl
      BY DEF IdsApart
    <3>1. e.excl \in Nat /\ e.excl > LastGroupId
      BY DEF IdsApart
    <3>2. CASE id \in 0..LastGroupId
      BY <2>1, <3>1, <3>2
    <3>3. CASE stack # <<>> /\ Here.fields # {} /\ id = ctx.excl
      BY <2>3, <3>1, <3>3 DEF IdsApart, ctx
    <3> QED
      BY <3>2, <3>3 DEF OldId
  <2> DEFINE key == OneofEntry("oneofValue", oneof.name, NextExclusive)
  <2>6. key.kind = "oneofValue" /\ key.excl = last + 1 /\ OneofKey(key)
    BY <2>1 DEF OneofEntry, Entry_, OneofKey
  <2>7. ~(SingleKey /\ WalkBranches)
    BY DEF SingleKey, WalkBranches
  <2> HIDE DEF key
  <2>8. \A e \in Elements(entries') :
            \/ e \in Elements(entries)
            \/ ~OneofKey(e) /\ OldId(e.excl)
                            /\ (e.kind \in {"constant", "merge"} => e.excl = 0)
            \/ SingleKey /\ e = key
    BY <1>2, EntryExcl DEF key
  <2>9. \A l \in Elements(stack') : l.fields # {} =>
            \/ \E k \in Elements(stack) : k.fields # {} /\ k.ctx.excl = l.ctx.excl
            \/ OldId(l.ctx.excl)
            \/ WalkBranches /\ l.ctx.excl = last + 1
    BY <1>2, <2>1, LevelExcl
  <2>10. ASSUME NEW e \in Elements(entries')
         PROVE  e.kind \in {"constant", "merge"} => e.excl = 0
    BY <2>6, <2>8, <2>10 DEF IdsApart
  <2>11. ASSUME NEW e \in Elements(entries'), OneofKey(e)
         PROVE  e \in Elements(entries) \/ (SingleKey /\ e = key)
    BY <2>8, <2>11
  <2>12. ASSUME NEW e \in Elements(entries'), OneofKey(e)
         PROVE  e.excl \in Nat /\ e.excl > LastGroupId
    BY <2>1, <2>5, <2>6, <2>11, <2>12
  <2>13. ASSUME NEW e \in Elements(entries'), OneofKey(e),
                NEW f \in Elements(entries'), f.excl = e.excl
         PROVE  f = e
    <3>1. CASE e \in Elements(entries)
      <4>1. f # key
        BY <2>1, <2>2, <2>6, <2>13, <3>1
      <4>2. ~OldId(f.excl)
        BY <2>5, <2>13, <3>1
      <4>3. f \in Elements(entries)
        BY <2>8, <4>1, <4>2
      <4> QED
        BY <2>13, <3>1, <4>3 DEF IdsApart
    <3>2. CASE e = key
      <4>1. f \notin Elements(entries) /\ ~OldId(f.excl)
        BY <2>1, <2>2, <2>4, <2>6, <2>13, <3>2
      <4> QED
        BY <2>8, <3>2, <4>1
    <3> QED
      BY <2>11, <2>13, <3>1, <3>2
  <2>14. ASSUME NEW e \in Elements(entries'), OneofKey(e),
                NEW l \in Elements(stack'), l.fields # {}
         PROVE  l.ctx.excl # e.excl
    <3>1. CASE e \in Elements(entries)
      <4>1. e.excl # last + 1
        BY <2>1, <2>2, <3>1
      <4>2. \A k \in Elements(stack) : k.fields # {} => k.ctx.excl # e.excl
        BY <2>14, <3>1 DEF IdsApart
      <4> QED
        BY <2>5, <2>9, <2>14, <3>1, <4>1, <4>2
    <3>2. CASE SingleKey /\ e = key
      BY <2>1, <2>2, <2>4, <2>6, <2>7, <2>9, <2>14, <3>2
    <3> QED
      BY <2>11, <2>14, <3>1, <3>2
  <2>15. LastGroupId' = LastGroupId /\ \A e : OneofKey(e)' = OneofKey(e)
    BY DEF LastGroupId, OneofKey
  <2>16. /\ Elements(entries)' = Elements(entries')
         /\ Elements(stack)' = Elements(stack')
    BY DEF Elements
  <2> QED
    BY <2>10, <2>12, <2>13, <2>14, <2>15, <2>16 DEF IdsApart
<1> QED
  BY <1>1, <1>2

LEMMA IdsApartInit == Init => IdsApart
<1> SUFFICES ASSUME Init PROVE IdsApart
  OBVIOUS
<1>1. Elements(entries) = {}
  BY DEF Init, PlanOf, Elements
<1> QED
  BY <1>1 DEF IdsApart

-----------------------------------------------------------------------------
(* Declaration order                                                       *)

(* No field lifts a value twice, or one from inside another.               *)
LiftsApart ==
    \A s \in Schemas, m \in Msg : \A n \in DOMAIN s[m].fields :
        LET lift == s[m].fields[n].lift
        IN  \A a, b \in DOMAIN lift : a # b => ~IsPrefixOf(lift[a].path, lift[b].path)

(* The fields of a level that may still have entries, and where those come. *)
Pending(l) == {n \in l.fields : OneofAt(<<l.msg, n>>) \notin l.done}

Place(l, n) == Append(l.ctx.path, <<l.msg, n>>)

Ahead(l, k) ==
    \A n \in Pending(l), j \in Pending(k) : Sooner(Place(l, n), Place(k, j))

(* What is pending on a level was pending on another one, as the field     *)
(* itself or as what it is inside of.                                      *)
Covered(l, k) == \A n \in Pending(l) : \E j \in Pending(k) : Begins(Place(k, j), Place(l, n))

(* An entry comes before what is at a path; a oneof's discriminator stands *)
(* where its first branch does.                                            *)
Precedes(e, q) == \/ Sooner(Position(e), q)
                  \/ e.kind = "discriminator" /\ Begins(Position(e), q)

EntryAhead(e, l) == \A n \in Pending(l) : Precedes(e, Place(l, n))

(* Entries the walk makes, as opposed to constants and merged keys.        *)
Walks(e) == e.kind \notin {"constant", "merge"}

OrderedStack(st) == \A i, j \in DOMAIN st : i < j => Ahead(st[i], st[j])

PlacesOrdered == OrderedStack(stack)

EntriesAhead == \A e \in Elements(entries) : Walks(e) =>
                    \A l \in Elements(stack) : EntryAhead(e, l)

OrderedEntries(es) == \A x, y \in DOMAIN es :
                          x < y /\ Walks(es[x]) /\ Walks(es[y]) =>
                              Precedes(es[x], Position(es[y]))

EntriesOrdered == OrderedEntries(entries)

KindsOrdered ==
    /\ \A x, y \in DOMAIN entries : x < y =>
          /\ entries[y].kind = "constant" => entries[x].kind = "constant"
          /\ entries[x].kind = "merge" => entries[y].kind = "merge"
    /\ phase \in {"start", "walk"} => \A e \in Elements(entries) : e.kind # "merge"
    /\ \A e \in Elements(entries) : e.kind \in ValueKinds => e.oneof = <<>>

AheadInv == PlacesOrdered /\ EntriesAhead

OrderInv == AheadInv /\ EntriesOrdered /\ KindsOrdered

(* Where two paths part, longer ones part too.                             *)
LEMMA SoonerFurther ==
    ASSUME NEW p, NEW q, NEW r, NEW s, Sooner(p, q), Begins(p, r), Begins(q, s)
    PROVE  Sooner(r, s)
<1>1. PICK n \in DOMAIN p \cap DOMAIN q :
          /\ Prefix(p, n - 1) = Prefix(q, n - 1)
          /\ p[n] # q[n]
          /\ p[n][2] < q[n][2] \/ \E k \in 1..n - 1 : FieldOf(schema, p[k]).lift # <<>>
  BY DEF Sooner
<1>2. /\ DOMAIN p = 1..Len(p) /\ Len(p) \in Nat /\ DOMAIN q = 1..Len(q) /\ Len(q) \in Nat
      /\ DOMAIN p \subseteq DOMAIN r /\ DOMAIN q \subseteq DOMAIN s
      /\ \A k \in DOMAIN p : r[k] = p[k]
      /\ \A k \in DOMAIN q : s[k] = q[k]
      /\ \A k \in 0..Len(p) : Prefix(r, k) = Prefix(p, k)
      /\ \A k \in 0..Len(q) : Prefix(s, k) = Prefix(q, k)
  <2>1. ASSUME NEW a, NEW b, Begins(a, b)
        PROVE  /\ DOMAIN a = 1..Len(a) /\ Len(a) \in Nat
               /\ DOMAIN a \subseteq DOMAIN b
               /\ \A k \in DOMAIN a : b[k] = a[k]
               /\ \A k \in 0..Len(a) : Prefix(b, k) = Prefix(a, k)
    <3>1. a \in Seq(Step) /\ \A k \in DOMAIN a : b[k] = a[k]
      BY <2>1 DEF Begins, Path
    <3> QED
      BY <2>1, <3>1, BeginsFacts
  <2> QED
    BY <2>1
<1>3. n - 1 \in 0..Len(p) /\ n - 1 \in 0..Len(q)
  BY <1>2
<1>4. Prefix(r, n - 1) = Prefix(s, n - 1)
  BY <1>1, <1>2, <1>3
<1>5. \A k \in 1..n - 1 : r[k] = p[k]
  BY <1>2, <1>3
<1>6. n \in DOMAIN r \cap DOMAIN s /\ r[n] = p[n] /\ s[n] = q[n]
  BY <1>2
<1> QED
  BY <1>1, <1>4, <1>5, <1>6 DEF Sooner

(* Paths that part do not begin each other.                                *)
LEMMA SoonerApart ==
    ASSUME NEW p, NEW q, Sooner(p, q)
    PROVE  ~Begins(p, q) /\ ~Begins(q, p)
BY DEF Sooner, Begins

(* Paths neither of which begins the other part somewhere.                 *)
LEMMA PathsPart ==
    ASSUME NEW p \in Path, NEW q \in Path, ~Begins(p, q), ~Begins(q, p)
    PROVE  \E n \in DOMAIN p \cap DOMAIN q : /\ Prefix(p, n - 1) = Prefix(q, n - 1)
                                             /\ p[n] # q[n]
<1> DEFINE apart == {n \in DOMAIN p \cap DOMAIN q : p[n] # q[n]}
<1>1. /\ DOMAIN p = 1..Len(p) /\ Len(p) \in Nat
      /\ DOMAIN q = 1..Len(q) /\ Len(q) \in Nat
  BY DEF Path
<1>2. apart # {}
  BY <1>1 DEF Begins
<1>3. apart \in SUBSET Nat
  BY <1>1
<1>4. Min(apart) \in apart /\ \A n \in apart : Min(apart) <= n
  BY <1>2, <1>3, MinMember
<1>5. PICK n : n = Min(apart)
  OBVIOUS
<1>6. n \in DOMAIN p \cap DOMAIN q /\ p[n] # q[n] /\ \A k \in apart : n <= k
  BY <1>4, <1>5
<1>7. n - 1 \in Nat /\ n - 1 <= Len(p) /\ n - 1 <= Len(q)
  BY <1>1, <1>6
<1>8. \A k \in 1..n - 1 : p[k] = q[k]
  BY <1>1, <1>6
<1>9. Prefix(p, n - 1) = Prefix(q, n - 1)
  BY <1>7, <1>8, PrefixesAgree
<1> QED
  BY <1>6, <1>9

(* The places of two fields of one level.                                  *)
LEMMA PlacesOfLevel ==
    ASSUME NEW p \in Path, NEW m \in Msg, NEW n \in Nat \ {0}, NEW k \in Nat \ {0}, n < k
    PROVE  Sooner(Append(p, <<m, n>>), Append(p, <<m, k>>))
<1> DEFINE a == Append(p, <<m, n>>)
           b == Append(p, <<m, k>>)
           last == Len(p) + 1
<1>1. <<m, n>> \in Step /\ <<m, k>> \in Step
  BY DEF Step
<1>2. /\ Begins(p, a) /\ Begins(p, b)
      /\ DOMAIN a = DOMAIN p \cup {last} /\ DOMAIN b = DOMAIN p \cup {last}
      /\ a[last] = <<m, n>> /\ b[last] = <<m, k>>
  BY <1>1, BeginsLonger
<1>3. Prefix(a, Len(p)) = p /\ Prefix(b, Len(p)) = p
  BY <1>2, BeginsFacts
<1>4. last - 1 = Len(p)
  BY DEF Path
<1> HIDE DEF a, b, last
<1>5. Prefix(a, last - 1) = Prefix(b, last - 1)
  BY <1>3, <1>4
<1>6. a[last] # b[last] /\ a[last][2] < b[last][2]
  BY <1>2
<1>7. Sooner(a, b)
  BY <1>2, <1>5, <1>6 DEF Sooner
<1> QED
  BY <1>7 DEF a, b

(* The places of a level are paths.                                        *)
LEMMA PlaceFacts ==
    ASSUME WalkInv, NEW l \in SafeLevel, NEW n \in l.fields
    PROVE  /\ l.msg \in Msg /\ l.ctx.path \in Path /\ n \in Nat \ {0}
           /\ <<l.msg, n>> \in Step
           /\ Place(l, n) \in Path /\ Begins(l.ctx.path, Place(l, n))
<1>1. l \in Level /\ l.fields \subseteq DOMAIN schema[l.msg].fields
  BY DEF SafeLevel
<1>2. l.msg \in Msg /\ l.ctx.path \in Path /\ schema \in Schemas
  BY <1>1 DEF Level, WalkInv
<1>3. schema[l.msg].fields \in Seq(Field)
  BY <1>2, SchemaFacts DEF Message
<1>4. n \in Nat \ {0}
  BY <1>1, <1>3
<1>5. <<l.msg, n>> \in Step
  BY <1>2, <1>4 DEF Step
<1>6. Begins(l.ctx.path, Place(l, n))
  BY <1>2, <1>5, BeginsLonger DEF Place
<1> QED
  BY <1>2, <1>4, <1>5, <1>6, BeginsFacts

(* What comes before a level comes before the levels it covers.            *)
LEMMA CoveredAhead ==
    ASSUME NEW a, NEW b, NEW k, NEW l, Covered(a, k), Covered(b, l), Ahead(k, l)
    PROVE  Ahead(a, b)
BY SoonerFurther DEF Covered, Ahead

LEMMA CoveredItself ==
    ASSUME WalkInv, NEW l \in SafeLevel
    PROVE  Covered(l, l)
BY PlaceFacts, BeginsItself DEF Covered, Pending

LEMMA PrecedesFurther ==
    ASSUME NEW e, NEW q, NEW r, Precedes(e, q), Begins(q, r)
    PROVE  Precedes(e, r)
<1>1. CASE Sooner(Position(e), q)
  <2>1. PICK n \in DOMAIN Position(e) \cap DOMAIN q :
            /\ Prefix(Position(e), n - 1) = Prefix(q, n - 1)
            /\ Position(e)[n] # q[n]
            /\ Position(e)[n][2] < q[n][2]
               \/ \E k \in 1..n - 1 : FieldOf(schema, Position(e)[k]).lift # <<>>
    BY <1>1 DEF Sooner
  <2>2. n - 1 \in 0..Len(q) /\ q[n] = r[n] /\ n \in DOMAIN r
    BY BeginsFacts DEF Begins, Path
  <2>3. Prefix(q, n - 1) = Prefix(r, n - 1)
    BY <2>2, BeginsFacts
  <2>4. Sooner(Position(e), r)
    BY <2>1, <2>2, <2>3 DEF Sooner
  <2> QED
    BY <2>4 DEF Precedes
<1>2. CASE e.kind = "discriminator" /\ Begins(Position(e), q)
  BY <1>2, BeginsFurther DEF Precedes
<1> QED
  BY <1>1, <1>2 DEF Precedes

LEMMA CoveredEntry ==
    ASSUME NEW e, NEW l, NEW k, EntryAhead(e, k), Covered(l, k)
    PROVE  EntryAhead(e, l)
BY PrecedesFurther DEF EntryAhead, Covered

(* The field whose turn it is, when it may have entries.                   *)
LEMMA PendingTurn ==
    ASSUME WalkInv, stack # <<>>, Walking, LevelShape(Here), FieldTurn \/ NewOneof
    PROVE  turn[2] \in Pending(Here) /\ path = Place(Here, turn[2])
<1>1. turn = <<Here.msg, turn[2]>> /\ turn[2] \in Here.fields /\ OneofAt(turn) = field.oneof
      /\ path = Append(Here.ctx.path, turn)
  BY TurnStep DEF ctx
<1>2. field.oneof \notin Here.done
  BY DEF LevelShape, FieldTurn, NewOneof
<1> QED
  BY <1>1, <1>2 DEF Pending, Place

(* What is pending comes after the field whose turn it is.                 *)
LEMMA PathAhead ==
    ASSUME WalkInv, stack # <<>>, Walking, PlacesOrdered, LevelShape(Here),
           FieldTurn \/ NewOneof
    PROVE  \A l \in {Past, PastOneof} \cup Elements(Tail(stack)) :
              \A n \in Pending(l) : Sooner(path, Place(l, n))
<1>1. turn[2] \in Pending(Here) /\ path = Place(Here, turn[2])
  BY PendingTurn
<1>2. /\ \A l \in {Past, PastOneof} :
            /\ l.msg = Here.msg /\ l.ctx = Here.ctx /\ l.fields = Here.fields \ {turn[2]}
      /\ Past.done = Here.done /\ PastOneof.done = Here.done \cup {field.oneof}
      /\ \A k \in Past.fields : turn[2] < k
  BY PastParts DEF ctx
<1>3. Here \in SafeLevel
  BY HereFacts
<1>4. \A l \in {Past, PastOneof} : Pending(l) \subseteq Pending(Here) \ {turn[2]}
  BY <1>2 DEF Pending
<1>5. \A l \in {Past, PastOneof} : \A n : Place(l, n) = Place(Here, n)
  BY <1>2 DEF Place
<1>6. ASSUME NEW l \in {Past, PastOneof}, NEW n \in Pending(l)
      PROVE  Sooner(path, Place(l, n))
  <2>1. turn[2] < n /\ n \in Here.fields /\ turn[2] \in Here.fields
    BY <1>1, <1>2 DEF Pending
  <2>2. /\ Here.msg \in Msg /\ Here.ctx.path \in Path
        /\ n \in Nat \ {0} /\ turn[2] \in Nat \ {0}
    BY <1>3, <2>1, PlaceFacts
  <2>3. Sooner(Place(Here, turn[2]), Place(Here, n))
    BY <2>1, <2>2, PlacesOfLevel DEF Place
  <2> QED
    BY <1>1, <1>5, <2>3
<1>7. ASSUME NEW l \in Elements(Tail(stack)), NEW n \in Pending(l)
      PROVE  Sooner(path, Place(l, n))
  <2>1. PICK i \in DOMAIN Tail(stack) : l = Tail(stack)[i]
    BY DEF Elements
  <2>2. /\ stack \in Seq(SafeLevel) /\ Len(stack) \in Nat \ {0}
        /\ DOMAIN stack = 1..Len(stack) /\ Here = stack[1]
    BY EmptySeq, LenProperties DEF WalkInv, Here
  <2>3. i \in 1..Len(stack) - 1 /\ Tail(stack)[i] = stack[i + 1]
    BY <2>1, <2>2, HeadTailProperties, LenProperties
  <2>4. 1 \in DOMAIN stack /\ i + 1 \in DOMAIN stack /\ 1 < i + 1
    BY <2>2, <2>3
  <2>5. Ahead(Here, l)
    BY <2>1, <2>2, <2>3, <2>4 DEF PlacesOrdered, OrderedStack
  <2> QED
    BY <1>1, <2>5 DEF Ahead
<1> QED
  BY <1>6, <1>7

(* A level past a oneof that was met before is covered too.                *)
LEMMA PastCovered ==
    ASSUME WalkInv, stack # <<>>, Walking
    PROVE  \A l \in {Past, PastOneof} : Covered(l, Here)
<1>1. ASSUME NEW l \in {Past, PastOneof}, NEW n \in Pending(l)
      PROVE  n \in Pending(Here) /\ Begins(Place(Here, n), Place(l, n))
  <2>1. /\ l.msg = Here.msg /\ l.ctx = Here.ctx /\ l.fields \subseteq Here.fields
        /\ Here.done \subseteq l.done
    BY PastParts DEF ctx
  <2>2. n \in Pending(Here) /\ n \in Here.fields
    BY <2>1 DEF Pending
  <2>3. Place(l, n) = Place(Here, n)
    BY <2>1 DEF Place
  <2>4. Place(Here, n) \in Path
    BY <2>2, HereFacts, PlaceFacts
  <2> QED
    BY <2>2, <2>3, <2>4, BeginsItself
<1> QED
  BY <1>1 DEF Covered

(* The branches of a oneof that is met are all still pending, and come     *)
(* before anything else of their message: its first branch is met first.   *)
LEMMA BranchesPending ==
    ASSUME WalkInv, stack # <<>>, Walking, NewOneof, LevelShape(Here)
    PROVE  /\ BranchFields \subseteq Pending(Here)
           /\ turn[2] \in BranchFields /\ \A n \in BranchFields : turn[2] <= n
           /\ \A n \in BranchFields, k \in Pending(PastOneof) : n < k
<1>1. /\ ~Here.branch /\ field.oneof # 0 /\ field.oneof \notin Here.done
  BY DEF NewOneof, OneofTurn
<1>2. /\ turn = <<Here.msg, turn[2]>> /\ turn[2] \in Here.fields /\ turn[2] \in Nat
      /\ OneofAt(turn) = field.oneof
  BY TurnStep
<1>3. /\ Here.msg \in Msg /\ Here.fields \subseteq AllFields(Here.msg)
      /\ AllFields(Here.msg) \in SUBSET Nat
      /\ AllFields(Here.msg) = DOMAIN schema[Here.msg].fields
      /\ \A n \in Here.fields : turn[2] <= n
  BY LevelFacts, TurnFacts, AllFieldsType
<1>4. \A n : n \in BranchFields <=> /\ n \in AllFields(Here.msg)
                                   /\ OneofAt(<<Here.msg, n>>) = field.oneof
  BY DEF BranchFields, OneofAt, FieldOf
<1>5. ASSUME NEW n \in BranchFields
      PROVE  n \in Pending(Here)
  <2>1. n \in AllFields(Here.msg) /\ OneofAt(<<Here.msg, n>>) = field.oneof
    BY <1>4
  <2>2. n \notin Here.fields => OneofAt(<<Here.msg, n>>) \in Here.done \cup {0}
    BY <1>1, <2>1 DEF LevelShape
  <2>3. n \in Here.fields
    BY <1>1, <2>1, <2>2
  <2> QED
    BY <1>1, <2>1, <2>3 DEF Pending
<1>6. turn[2] \in BranchFields /\ \A n \in BranchFields : turn[2] <= n
  BY <1>2, <1>3, <1>4, <1>5 DEF Pending
<1>7. ASSUME NEW n \in BranchFields, NEW k \in Pending(PastOneof), ~(n < k)
      PROVE  FALSE
  <2>1. /\ k \in Here.fields /\ k # turn[2]
        /\ OneofAt(<<Here.msg, k>>) # field.oneof
    BY PastParts DEF Pending
  <2>2. k \in Nat /\ n \in Nat /\ turn[2] < k /\ k <= n /\ k # n
    <3>1. k \in Nat /\ turn[2] <= k
      BY <1>3, <2>1
    <3>2. n \in Nat /\ n # k
      BY <1>3, <1>4, <2>1
    <3> QED
      BY <1>2, <1>7, <2>1, <3>1, <3>2
  <2>3. Consecutive(schema[Here.msg].fields)
    BY <1>3, SchemaFacts DEF WalkInv
  <2>4. /\ turn[2] \in DOMAIN schema[Here.msg].fields
        /\ k \in DOMAIN schema[Here.msg].fields
        /\ n \in DOMAIN schema[Here.msg].fields
        /\ schema[Here.msg].fields[turn[2]].oneof = field.oneof
        /\ schema[Here.msg].fields[n].oneof = field.oneof
        /\ schema[Here.msg].fields[k].oneof # field.oneof
    BY <1>2, <1>3, <1>4, <2>1, TurnFacts DEF OneofAt, FieldOf
  <2> QED
    BY <1>1, <2>2, <2>3, <2>4 DEF Consecutive
<1> QED
  BY <1>5, <1>6, <1>7

(* What is pushed is covered by the level it is pushed on, and comes       *)
(* before what is left of that.                                            *)
LEMMA BranchesAhead ==
    ASSUME WalkInv, stack # <<>>, Walking, NewOneof, LevelShape(Here)
    PROVE  /\ Covered(BranchLevel, Here) /\ Ahead(BranchLevel, PastOneof)
           /\ \A n \in Pending(BranchLevel) :
                 Sooner(path, Place(BranchLevel, n)) \/ Begins(path, Place(BranchLevel, n))
<1>1. /\ BranchLevel.msg = Here.msg /\ BranchLevel.fields = BranchFields
      /\ BranchLevel.done = {} /\ BranchLevel.ctx.path = Here.ctx.path
  <2> DEFINE c == [ctx EXCEPT !.sc = BranchScope, !.excl = NextExclusive]
  <2>1. c.path = ctx.path
    BY LevelFacts
  <2>2. BranchLevel = Frame(Here.msg, BranchFields, TRUE, c)
    BY DEF BranchLevel
  <2> HIDE DEF c
  <2> QED
    BY <2>1, <2>2 DEF Frame, ctx
<1>2. /\ BranchFields \subseteq Pending(Here)
      /\ turn[2] \in BranchFields /\ \A n \in BranchFields : turn[2] <= n
      /\ \A n \in BranchFields, k \in Pending(PastOneof) : n < k
  BY BranchesPending
<1>3. Pending(BranchLevel) = BranchFields
  BY <1>1 DEF Pending
<1>4. \A n : Place(BranchLevel, n) = Place(Here, n) /\ Place(PastOneof, n) = Place(Here, n)
  BY <1>1, PastParts DEF Place, ctx
<1>5. path = Place(Here, turn[2])
  BY PendingTurn
<1>6. ASSUME NEW n \in Here.fields
      PROVE  /\ Here.msg \in Msg /\ Here.ctx.path \in Path /\ n \in Nat \ {0}
             /\ Begins(Place(Here, n), Place(Here, n))
  BY HereFacts, PlaceFacts, BeginsItself
<1>7. ASSUME NEW n \in Here.fields, NEW k \in Here.fields, n < k
      PROVE  Sooner(Place(Here, n), Place(Here, k))
  BY <1>6, <1>7, PlacesOfLevel DEF Place
<1>8. BranchFields \subseteq Here.fields /\ Pending(PastOneof) \subseteq Here.fields
  BY <1>2, PastParts DEF Pending
<1>9. Covered(BranchLevel, Here)
  BY <1>2, <1>3, <1>4, <1>6, <1>8 DEF Covered
<1>10. Ahead(BranchLevel, PastOneof)
  BY <1>2, <1>3, <1>4, <1>7, <1>8 DEF Ahead
<1>11. ASSUME NEW n \in BranchFields
       PROVE  Sooner(path, Place(Here, n)) \/ Begins(path, Place(Here, n))
  <2>1. CASE n = turn[2]
    BY <1>5, <1>6, <1>8, <2>1
  <2>2. CASE n # turn[2]
    <3>1. turn[2] < n
      BY <1>2, <1>6, <1>8, <2>2
    <3> QED
      BY <1>2, <1>5, <1>7, <1>8, <3>1
  <2> QED
    BY <2>1, <2>2
<1> QED
  BY <1>3, <1>4, <1>9, <1>10, <1>11

LEMMA InnerAhead ==
    ASSUME WalkInv, stack # <<>>, Walking, Descend, PlacesOrdered, LevelShape(Here)
    PROVE  Covered(InnerLevel, Here) /\ Ahead(InnerLevel, Past)
<1>1. FieldTurn
  BY DEF Descend, Descends, KeptField
<1>2. InnerLevel.ctx.path = path /\ InnerLevel \in SafeLevel
  BY InnerLevelSafe DEF InnerLevel, Frame
<1>3. \A n \in Pending(InnerLevel) : Begins(path, Place(InnerLevel, n))
  BY <1>2, PlaceFacts DEF Pending
<1>4. turn[2] \in Pending(Here) /\ path = Place(Here, turn[2])
  BY <1>1, PendingTurn
<1>5. \A k \in Pending(Past) : /\ Sooner(path, Place(Past, k))
                              /\ Begins(Place(Past, k), Place(Past, k))
  BY <1>1, PathAhead, PastFacts, PlaceFacts, BeginsItself DEF Pending
<1>6. Covered(InnerLevel, Here)
  BY <1>3, <1>4 DEF Covered
<1>7. Ahead(InnerLevel, Past)
  BY <1>3, <1>5, SoonerFurther DEF Ahead
<1> QED
  BY <1>6, <1>7

(* The order of the levels, when the innermost is replaced or left.        *)
LEMMA StackOrder ==
    ASSUME WalkInv, stack # <<>>, PlacesOrdered
    PROVE  /\ OrderedStack(Tail(stack))
           /\ \A a \in SafeLevel :
                 Covered(a, Here) => OrderedStack(<<a>> \o Tail(stack))
           /\ \A a, b \in SafeLevel :
                 Covered(a, Here) /\ Covered(b, Here) /\ Ahead(a, b) =>
                     OrderedStack(<<a, b>> \o Tail(stack))
<1> DEFINE rest == Tail(stack)
<1>1. /\ stack \in Seq(SafeLevel) /\ Len(stack) \in Nat \ {0}
      /\ DOMAIN stack = 1..Len(stack) /\ Here = stack[1]
  BY EmptySeq, LenProperties DEF WalkInv, Here
<1>2. /\ rest \in Seq(SafeLevel) /\ Len(rest) = Len(stack) - 1
      /\ DOMAIN rest = 1..Len(rest)
      /\ \A i \in 1..Len(rest) : rest[i] = stack[i + 1]
  BY <1>1, HeadTailProperties, LenProperties
<1> HIDE DEF rest
<1>3. ASSUME NEW i \in DOMAIN rest
      PROVE  /\ rest[i] \in SafeLevel /\ Covered(rest[i], rest[i]) /\ Ahead(Here, rest[i])
             /\ \A j \in DOMAIN rest : i < j => Ahead(rest[i], rest[j])
  <2>1. rest[i] = stack[i + 1] /\ 1 \in DOMAIN stack /\ i + 1 \in DOMAIN stack /\ 1 < i + 1
    BY <1>1, <1>2
  <2>2. rest[i] \in SafeLevel
    BY <1>2
  <2>3. Ahead(Here, rest[i])
    BY <1>1, <2>1 DEF PlacesOrdered, OrderedStack
  <2>4. ASSUME NEW j \in DOMAIN rest, i < j
        PROVE  Ahead(rest[i], rest[j])
    <3>1. rest[j] = stack[j + 1] /\ j + 1 \in DOMAIN stack /\ i + 1 < j + 1
      BY <1>1, <1>2, <2>4
    <3> QED
      BY <2>1, <3>1 DEF PlacesOrdered, OrderedStack
  <2> QED
    BY <2>2, <2>3, <2>4, CoveredItself
<1>4. OrderedStack(rest)
  BY <1>3 DEF OrderedStack
<1>5. ASSUME NEW a \in SafeLevel, Covered(a, Here), NEW i \in DOMAIN rest
      PROVE  Ahead(a, rest[i])
  BY <1>3, <1>5, CoveredAhead
<1>6. ASSUME NEW a \in SafeLevel, Covered(a, Here)
      PROVE  OrderedStack(<<a>> \o rest)
  <2> DEFINE new == <<a>>
             st == new \o rest
  <2>1. new \in Seq(SafeLevel)
    OBVIOUS
  <2>2. Len(new) = 1 /\ new[1] = a
    OBVIOUS
  <2> HIDE DEF new
  <2>3. /\ DOMAIN st = 1..1 + Len(rest) /\ st[1] = a
        /\ \A i \in DOMAIN st : i # 1 => i - 1 \in DOMAIN rest /\ st[i] = rest[i - 1]
    <3>1. /\ Len(st) = Len(new) + Len(rest) /\ st \in Seq(SafeLevel)
          /\ \A i \in 1..Len(new) + Len(rest) :
                st[i] = IF i <= Len(new) THEN new[i] ELSE rest[i - Len(new)]
      BY <1>2, <2>1, ConcatProperties
    <3>2. DOMAIN st = 1..1 + Len(rest) /\ Len(rest) \in Nat
      BY <1>2, <2>1, <2>2, <3>1, LenProperties
    <3> HIDE DEF st
    <3> QED
      BY <1>2, <2>2, <3>1, <3>2
  <2> HIDE DEF st
  <2>4. ASSUME NEW i \in DOMAIN st, NEW j \in DOMAIN st, i < j
        PROVE  Ahead(st[i], st[j])
    <3>1. j # 1 /\ i \in Nat /\ j \in Nat
      BY <1>2, <2>3, <2>4
    <3>2. CASE i = 1
      BY <1>5, <1>6, <2>3, <3>1, <3>2
    <3>3. CASE i # 1
      <4>1. i - 1 < j - 1
        BY <2>4, <3>1
      <4> QED
        BY <1>3, <2>3, <3>1, <3>3, <4>1
    <3> QED
      BY <3>2, <3>3
  <2>5. OrderedStack(st)
    BY <2>4 DEF OrderedStack
  <2> QED
    BY <2>5 DEF st, new
<1>7. ASSUME NEW a \in SafeLevel, NEW b \in SafeLevel,
             Covered(a, Here), Covered(b, Here), Ahead(a, b)
      PROVE  OrderedStack(<<a, b>> \o rest)
  <2> DEFINE new == <<a, b>>
             st == new \o rest
  <2>1. new \in Seq(SafeLevel) /\ Len(new) = 2 /\ new[1] = a /\ new[2] = b
    OBVIOUS
  <2> HIDE DEF new
  <2>2. /\ DOMAIN st = 1..2 + Len(rest) /\ st[1] = a /\ st[2] = b
        /\ \A i \in DOMAIN st : i > 2 => i - 2 \in DOMAIN rest /\ st[i] = rest[i - 2]
    <3>1. /\ Len(st) = Len(new) + Len(rest) /\ st \in Seq(SafeLevel)
          /\ \A i \in 1..Len(new) + Len(rest) :
                st[i] = IF i <= Len(new) THEN new[i] ELSE rest[i - Len(new)]
      BY <1>2, <2>1, ConcatProperties
    <3>2. DOMAIN st = 1..2 + Len(rest) /\ Len(rest) \in Nat
      BY <1>2, <2>1, <3>1, LenProperties
    <3> HIDE DEF st
    <3> QED
      BY <1>2, <2>1, <3>1, <3>2
  <2> HIDE DEF st
  <2>3. ASSUME NEW i \in DOMAIN st, NEW j \in DOMAIN st, i < j
        PROVE  Ahead(st[i], st[j])
    <3>1. /\ i \in Nat /\ j \in Nat /\ j # 1 /\ (i = 1 \/ i = 2 \/ i > 2)
          /\ j = 2 \/ j > 2
      BY <1>2, <2>2, <2>3
    <3>2. CASE j = 2
      BY <1>7, <2>2, <2>3, <3>1, <3>2
    <3>3. CASE j > 2 /\ i <= 2
      <4>1. j - 2 \in DOMAIN rest /\ st[j] = rest[j - 2]
        BY <2>2, <3>3
      <4>2. st[i] \in {a, b}
        BY <2>2, <3>1, <3>3
      <4> QED
        BY <1>5, <1>7, <4>1, <4>2
    <3>4. CASE j > 2 /\ i > 2
      <4>1. i - 2 < j - 2
        BY <2>3, <3>1
      <4> QED
        BY <1>3, <2>2, <3>1, <3>4, <4>1
    <3> QED
      BY <3>1, <3>2, <3>3, <3>4
  <2>4. OrderedStack(st)
    BY <2>3 DEF OrderedStack
  <2> QED
    BY <2>4 DEF st, new
<1> QED
  BY <1>4, <1>6, <1>7 DEF rest

(* The levels of a step stay in order.                                     *)
LEMMA PlacesStep ==
    ASSUME WalkInv, LevelsInv, PlacesOrdered, Next
    PROVE  OrderedStack(stack')
<1>1. stack # <<>> => LevelShape(Here)
  BY StackElements DEF LevelsInv
<1>2. CASE Begin
  <2>1. stack' = <<TopLevel>>
    BY <1>2, BeginStep
  <2>2. DOMAIN <<TopLevel>> = {1}
    OBVIOUS
  <2> QED
    BY <2>1, <2>2 DEF OrderedStack
<1>3. CASE RejectRules \/ RejectField \/ RejectPick \/ RejectLift \/ Cycle \/ Refuse
  BY <1>3 DEF RejectRules, RejectField, RejectPick, RejectLift, Cycle, Refuse, Failure,
              PlacesOrdered
<1>4. CASE Return
  BY <1>4, StackOrder DEF Return, WalkInv
<1>5. CASE Finish
  <2>1. DOMAIN <<>> = {}
    OBVIOUS
  <2> QED
    BY <1>5, <2>1 DEF Finish, OrderedStack
<1>6. CASE SkipOneof \/ DropField \/ WriteLeaf \/ WriteCollection \/ Pick \/ Lift \/ Nest
  <2>1. Walking /\ stack # <<>> /\ Onward
    BY <1>6, FieldEffect
  <2> QED
    BY <2>1, PastFacts, PastCovered, StackOrder DEF Onward
<1>7. CASE OmitOneof \/ TagOneof \/ SingleKey
  <2>1. Walking /\ stack # <<>> /\ stack' = <<PastOneof>> \o Tail(stack)
    BY <1>7 DEF OmitOneof, TagOneof, SingleKey, NewOneof, OneofTurn, Walking, WalkInv
  <2> QED
    BY <2>1, PastFacts, PastCovered, StackOrder
<1>8. CASE WalkBranches
  <2>1. OneofTurn /\ NewOneof /\ Walking /\ stack # <<>>
    BY <1>8 DEF WalkBranches, NewOneof, OneofTurn, Walking, WalkInv
  <2>2. stack' = <<BranchLevel, PastOneof>> \o Tail(stack)
    BY <1>8, WalkBranchesStep
  <2>3. BranchLevel \in SafeLevel /\ PastOneof \in SafeLevel
    BY <2>1, BranchLevelSafe, PastFacts
  <2>4. Covered(BranchLevel, Here) /\ Ahead(BranchLevel, PastOneof) /\ Covered(PastOneof, Here)
    BY <1>1, <2>1, BranchesAhead, PastCovered
  <2> QED
    BY <2>1, <2>2, <2>3, <2>4, StackOrder
<1>9. CASE Descend
  <2>1. Walking /\ stack # <<>>
    BY <1>9 DEF Descend, Descends, KeptField, FieldTurn, Walking, WalkInv
  <2>2. stack' = <<InnerLevel, Past>> \o Tail(stack)
    BY <1>9, DescendStep
  <2>3. InnerLevel \in SafeLevel /\ Past \in SafeLevel
    BY <1>9, <2>1, InnerLevelSafe, PastFacts
  <2>4. Covered(InnerLevel, Here) /\ Ahead(InnerLevel, Past) /\ Covered(Past, Here)
    BY <1>1, <1>9, <2>1, InnerAhead, PastCovered
  <2> QED
    BY <2>1, <2>2, <2>3, <2>4, StackOrder
<1> QED
  BY <1>2, <1>3, <1>4, <1>5, <1>6, <1>7, <1>8, <1>9 DEF Next

(* An entry that comes before all that is pending still does.              *)
LEMMA OldEntriesAhead ==
    ASSUME WalkInv, LevelsInv, PlacesOrdered, Next, ~Begin,
           NEW e, \A l \in Elements(stack) : EntryAhead(e, l),
           NEW l \in Elements(stack')
    PROVE  EntryAhead(e, l)
<1>1. CASE l \in Elements(stack)
  BY <1>1
<1>2. CASE Walking /\ stack # <<>> /\ Covered(l, Here)
  BY <1>2, StackElements, CoveredEntry
<1>3. CASE Walking /\ stack # <<>> /\ l \in {Past, PastOneof}
  BY <1>2, <1>3, PastCovered
<1>4. stack # <<>> => LevelShape(Here)
  BY StackElements DEF LevelsInv
<1>5. CASE Walking /\ stack # <<>> /\ l = BranchLevel /\ WalkBranches
  BY <1>2, <1>4, <1>5, BranchesAhead DEF WalkBranches
<1>6. CASE Walking /\ stack # <<>> /\ l = InnerLevel /\ Descend
  BY <1>2, <1>4, <1>6, InnerAhead
<1> QED
  BY <1>1, <1>3, <1>5, <1>6, StackStep

(* New entries come after the others, in the order they are added.         *)
LEMMA AddedOrder ==
    ASSUME WalkInv, EntriesAhead, EntriesOrdered, stack # <<>>, Walking,
           turn[2] \in Pending(Here), path = Place(Here, turn[2]),
           NEW es \in Seq(SafeEntry),
           \A n \in DOMAIN es : Begins(path, Position(es[n])),
           OrderedEntries(es)
    PROVE  OrderedEntries(entries \o es)
<1> DEFINE all == entries \o es
<1>1. entries \in Seq(SafeEntry) /\ DOMAIN entries = 1..Len(entries) /\ Len(entries) \in Nat
      /\ DOMAIN es = 1..Len(es) /\ Len(es) \in Nat
  BY LenProperties DEF WalkInv
<1>2. /\ Len(all) = Len(entries) + Len(es) /\ all \in Seq(SafeEntry)
      /\ \A i \in 1..Len(entries) + Len(es) :
            all[i] = IF i <= Len(entries) THEN entries[i] ELSE es[i - Len(entries)]
  BY <1>1, ConcatProperties
<1>3. DOMAIN all = 1..Len(entries) + Len(es)
  BY <1>2, LenProperties
<1> HIDE DEF all
<1>4. \A i \in DOMAIN all :
          \/ i \in DOMAIN entries /\ all[i] = entries[i]
          \/ /\ i - Len(entries) \in DOMAIN es /\ all[i] = es[i - Len(entries)]
             /\ i > Len(entries)
  BY <1>1, <1>2, <1>3
<1>5. ASSUME NEW x \in DOMAIN entries, Walks(entries[x])
      PROVE  Precedes(entries[x], path)
  <2>1. Here \in Elements(stack) /\ entries[x] \in Elements(entries)
    BY StackElements DEF Elements
  <2> QED
    BY <1>5, <2>1 DEF EntriesAhead, EntryAhead
<1>6. ASSUME NEW x \in DOMAIN all, NEW y \in DOMAIN all, x < y, Walks(all[x]), Walks(all[y])
      PROVE  Precedes(all[x], Position(all[y]))
  <2>1. x \in Nat /\ y \in Nat
    BY <1>1, <1>3
  <2>2. CASE y \in DOMAIN entries /\ all[y] = entries[y]
    <3>1. x \in DOMAIN entries /\ all[x] = entries[x]
      BY <1>1, <1>4, <1>6, <2>1, <2>2
    <3> QED
      BY <1>6, <2>2, <3>1 DEF EntriesOrdered, OrderedEntries
  <2>3. CASE y - Len(entries) \in DOMAIN es /\ all[y] = es[y - Len(entries)]
    <3>1. Begins(path, Position(all[y]))
      BY <2>3
    <3>2. CASE x \in DOMAIN entries /\ all[x] = entries[x]
      BY <1>5, <1>6, <3>1, <3>2, PrecedesFurther
    <3>3. CASE x - Len(entries) \in DOMAIN es /\ all[x] = es[x - Len(entries)]
      <4>1. x - Len(entries) < y - Len(entries)
        BY <1>1, <1>6, <2>1
      <4> QED
        BY <1>6, <2>3, <3>3, <4>1 DEF OrderedEntries
    <3> QED
      BY <1>4, <3>2, <3>3
  <2> QED
    BY <1>4, <2>2, <2>3
<1> QED
  BY <1>6 DEF OrderedEntries, all

(* The values a field lifts are told apart where their paths part.         *)
LEMMA LiftedOrder ==
    ASSUME LiftsApart, WalkInv, stack # <<>>, Walking,
           NEW es \in Seq(SafeEntry), LiftOnly(es), \A n \in DOMAIN es : FieldEntry(es[n])
    PROVE  OrderedEntries(es)
<1> SUFFICES ASSUME NEW x \in DOMAIN es, NEW y \in DOMAIN es, x < y
             PROVE  Sooner(es[x].path, es[y].path)
  BY DEF OrderedEntries, Precedes, Position, FieldEntry
<1> DEFINE u == field.lift[x].path
           v == field.lift[y].path
           Rec == [path : Path, as : Name]
<1>1. x # y
  BY LenProperties
<1>2. /\ x \in DOMAIN field.lift /\ y \in DOMAIN field.lift
      /\ es[x].path = path \o u /\ es[y].path = path \o v
  BY <1>1 DEF LiftOnly
<1>3. /\ field.lift \in Seq(Rec) /\ \A r \in Rec : r.path \in Path
  BY TurnFacts DEF Field
<1> HIDE DEF Rec
<1>4. u \in Path /\ v \in Path
  BY <1>2, <1>3
<1>5. ~Begins(u, v) /\ ~Begins(v, u)
  <2>1. /\ schema \in Schemas /\ Here.msg \in Msg
        /\ turn[2] \in DOMAIN schema[Here.msg].fields
        /\ field = schema[Here.msg].fields[turn[2]]
    BY TurnFacts, LevelFacts DEF WalkInv
  <2>2. ~IsPrefixOf(u, v) /\ ~IsPrefixOf(v, u)
    BY <1>1, <1>2, <2>1 DEF LiftsApart
  <2> QED
    BY <1>4, <2>2, PrefixBegins
<1> HIDE DEF u, v
<1> DEFINE p == path \o u
           q == path \o v
<1>6. /\ path \in Path /\ Len(path) \in Nat
      /\ u \in Seq(Step) /\ v \in Seq(Step) /\ path \in Seq(Step)
      /\ Len(u) \in Nat /\ Len(v) \in Nat
      /\ DOMAIN u = 1..Len(u) /\ DOMAIN v = 1..Len(v)
  BY <1>4, TurnFacts DEF Path
<1>7. /\ p \in Seq(Step) /\ Len(p) = Len(path) + Len(u)
      /\ \A i \in 1..Len(path) + Len(u) :
            p[i] = IF i <= Len(path) THEN path[i] ELSE u[i - Len(path)]
  BY <1>6, ConcatProperties
<1>8. /\ q \in Seq(Step) /\ Len(q) = Len(path) + Len(v)
      /\ \A i \in 1..Len(path) + Len(v) :
            q[i] = IF i <= Len(path) THEN path[i] ELSE v[i - Len(path)]
  BY <1>6, ConcatProperties
<1>9. DOMAIN p = 1..Len(path) + Len(u) /\ DOMAIN q = 1..Len(path) + Len(v)
  BY <1>7, <1>8, LenProperties
<1> HIDE DEF p, q
<1>10. /\ \A i \in DOMAIN u : Len(path) + i \in DOMAIN p /\ p[Len(path) + i] = u[i]
       /\ \A i \in DOMAIN v : Len(path) + i \in DOMAIN q /\ q[Len(path) + i] = v[i]
  <2>1. ASSUME NEW i \in DOMAIN u
        PROVE  Len(path) + i \in DOMAIN p /\ p[Len(path) + i] = u[i]
    <3>1. /\ Len(path) + i \in 1..Len(path) + Len(u) /\ ~(Len(path) + i <= Len(path))
          /\ (Len(path) + i) - Len(path) = i
      BY <1>6
    <3> QED
      BY <1>7, <1>9, <3>1
  <2>2. ASSUME NEW i \in DOMAIN v
        PROVE  Len(path) + i \in DOMAIN q /\ q[Len(path) + i] = v[i]
    <3>1. /\ Len(path) + i \in 1..Len(path) + Len(v) /\ ~(Len(path) + i <= Len(path))
          /\ (Len(path) + i) - Len(path) = i
      BY <1>6
    <3> QED
      BY <1>8, <1>9, <3>1
  <2> QED
    BY <2>1, <2>2
<1>11. ~Begins(p, q)
  <2> SUFFICES ASSUME Begins(p, q) PROVE Begins(u, v)
    BY <1>5
  <2>1. Len(u) <= Len(v)
    BY <1>6, <1>7, <1>8 DEF Begins
  <2>2. ASSUME NEW i \in DOMAIN u
        PROVE  v[i] = u[i]
    <3>1. q[Len(path) + i] = p[Len(path) + i]
      BY <1>10 DEF Begins
    <3>2. i \in DOMAIN v
      BY <1>6, <2>1
    <3> QED
      BY <1>10, <3>1, <3>2
  <2> QED
    BY <1>4, <2>1, <2>2 DEF Begins
<1>12. ~Begins(q, p)
  <2> SUFFICES ASSUME Begins(q, p) PROVE Begins(v, u)
    BY <1>5
  <2>1. Len(v) <= Len(u)
    BY <1>6, <1>7, <1>8 DEF Begins
  <2>2. ASSUME NEW i \in DOMAIN v
        PROVE  u[i] = v[i]
    <3>1. p[Len(path) + i] = q[Len(path) + i]
      BY <1>10 DEF Begins
    <3>2. i \in DOMAIN u
      BY <1>6, <2>1
    <3> QED
      BY <1>10, <3>1, <3>2
  <2> QED
    BY <1>4, <2>1, <2>2 DEF Begins
<1>13. p \in Path /\ q \in Path
  BY <1>7, <1>8 DEF Path
<1>14. PICK n \in DOMAIN p \cap DOMAIN q : /\ Prefix(p, n - 1) = Prefix(q, n - 1)
                                           /\ p[n] # q[n]
  BY <1>11, <1>12, <1>13, PathsPart
<1>15. Len(path) \in 1..n - 1
  <2>1. n \in Nat /\ n > Len(path)
    <3>1. n \in 1..Len(path) + Len(u) /\ n \in 1..Len(path) + Len(v)
      BY <1>9, <1>14
    <3>2. n <= Len(path) => p[n] = path[n] /\ q[n] = path[n]
      BY <1>7, <1>8, <3>1
    <3> QED
      BY <1>6, <1>14, <3>1, <3>2
  <2>2. Len(path) # 0
    BY <1>6, TurnStep, LevelFacts DEF Path
  <2> QED
    BY <1>6, <2>1, <2>2
<1>16. FieldOf(schema, p[Len(path)]).lift # <<>>
  <2>1. path[Len(path)] = turn /\ FieldOf(schema, turn) = field
    BY TurnStep
  <2>2. p[Len(path)] = turn
    BY <1>6, <1>7, <1>15, <2>1
  <2>3. DOMAIN <<>> = {}
    OBVIOUS
  <2> QED
    BY <1>2, <2>1, <2>2, <2>3
<1> QED
  BY <1>2, <1>14, <1>15, <1>16 DEF Sooner, p, q

(* A oneof's own entry stands at its first branch, the one met first.      *)
LEMMA OneofPlace ==
    ASSUME WalkInv, stack # <<>>, Walking, NewOneof, LevelShape(Here),
           NEW kind, NEW name, NEW x
    PROVE  Position(OneofEntry(kind, name, x)) = path
<1> DEFINE e == OneofEntry(kind, name, x)
           o == <<Here.msg, field.oneof>>
<1>1. e.path = ctx.path /\ e.oneof = o
  BY DEF OneofEntry, Entry_
<1>2. o # <<>> /\ o[1] = Here.msg /\ o[2] = field.oneof
  OBVIOUS
<1> HIDE DEF e, o
<1>3. Position(e) = Append(ctx.path, <<Here.msg, Min({n \in DOMAIN schema[Here.msg].fields :
                                              OneofAt(<<Here.msg, n>>) = field.oneof})>>)
  BY <1>1, <1>2 DEF Position
<1>4. BranchFields = {n \in DOMAIN schema[Here.msg].fields :
                         OneofAt(<<Here.msg, n>>) = field.oneof}
  BY DEF BranchFields, AllFields, OneofAt, FieldOf
<1>5. turn[2] \in BranchFields /\ \A n \in BranchFields : turn[2] <= n
  BY BranchesPending
<1>6. BranchFields \in SUBSET Nat
  BY LevelFacts, AllFieldsType DEF BranchFields
<1>7. Min(BranchFields) = turn[2]
  <2>1. Min(BranchFields) \in BranchFields /\ Min(BranchFields) <= turn[2]
    BY <1>5, <1>6, MinMember
  <2>2. turn[2] <= Min(BranchFields) /\ turn[2] \in Nat /\ Min(BranchFields) \in Nat
    BY <1>5, <1>6, <2>1
  <2> QED
    BY <2>1, <2>2
<1>8. Position(e) = Append(ctx.path, <<Here.msg, turn[2]>>)
  BY <1>3, <1>4, <1>7
<1> QED
  BY <1>8, TurnStep DEF e

(* What is left after the field or the oneof comes after it.               *)
LEMMA LeftBehind ==
    ASSUME WalkInv, stack # <<>>, Walking, PlacesOrdered, LevelShape(Here),
           FieldTurn \/ NewOneof,
           NEW past \in {Past, PastOneof}, NEW l \in Elements(<<past>> \o Tail(stack)),
           NEW n \in Pending(l)
    PROVE  Sooner(path, Place(l, n)) /\ Begins(Place(l, n), Place(l, n))
<1> DEFINE new == <<past>>
           rest == Tail(stack)
<1>1. past \in SafeLevel
  BY PastFacts
<1>2. new \in Seq(SafeLevel) /\ rest \in Seq(SafeLevel)
  BY <1>1, HereFacts
<1>3. Elements(new) = {past}
  BY DEF Elements
<1>4. Elements(new \o rest) = Elements(new) \cup Elements(rest)
  <2> HIDE DEF new, rest
  <2> QED
    BY <1>2, ElementsOfConcat
<1>5. l \in {Past, PastOneof} \cup Elements(Tail(stack))
  BY <1>3, <1>4
<1>6. Elements(rest) \subseteq SafeLevel
  <2> HIDE DEF rest
  <2> QED
    BY <1>2 DEF Elements
<1>7. l \in SafeLevel /\ n \in l.fields
  BY <1>5, <1>6, PastFacts DEF Pending
<1> QED
  BY <1>5, <1>7, PathAhead, PlaceFacts, BeginsItself

(* Entries that are not the walk's do not matter.                          *)
LEMMA OthersOrder ==
    ASSUME WalkInv, EntriesOrdered, NEW es \in Seq(SafeEntry), \A e \in Elements(es) : ~Walks(e)
    PROVE  OrderedEntries(entries \o es)
<1> DEFINE all == entries \o es
<1>1. entries \in Seq(SafeEntry) /\ DOMAIN entries = 1..Len(entries) /\ Len(entries) \in Nat
      /\ DOMAIN es = 1..Len(es) /\ Len(es) \in Nat
  BY LenProperties DEF WalkInv
<1>2. /\ Len(all) = Len(entries) + Len(es) /\ all \in Seq(SafeEntry)
      /\ \A i \in 1..Len(entries) + Len(es) :
            all[i] = IF i <= Len(entries) THEN entries[i] ELSE es[i - Len(entries)]
  BY <1>1, ConcatProperties
<1>3. DOMAIN all = 1..Len(entries) + Len(es)
  BY <1>2, LenProperties
<1> HIDE DEF all
<1>4. ASSUME NEW i \in DOMAIN all, Walks(all[i])
      PROVE  i \in DOMAIN entries /\ all[i] = entries[i]
  <2>1. CASE i <= Len(entries)
    BY <1>1, <1>2, <1>3, <2>1
  <2>2. CASE ~(i <= Len(entries))
    <3>1. i - Len(entries) \in DOMAIN es /\ all[i] = es[i - Len(entries)]
      BY <1>1, <1>2, <1>3, <2>2
    <3> QED
      BY <1>4, <3>1 DEF Elements
  <2> QED
    BY <2>1, <2>2
<1>5. OrderedEntries(all)
  BY <1>4 DEF OrderedEntries, EntriesOrdered
<1> QED
  BY <1>5 DEF all

(* One entry of a oneof, at the place of its first branch.                 *)
LEMMA OneofOrder ==
    ASSUME WalkInv, LevelsInv, OrderInv, stack # <<>>, Walking, NewOneof,
           NEW e \in SafeEntry, Position(e) = path, Add(e)
    PROVE  OrderedEntries(entries')
<1>1. LevelShape(Here)
  BY StackElements DEF LevelsInv
<1>2. entries \in Seq(SafeEntry)
  BY DEF WalkInv
<1> DEFINE new == <<e>>
<1>3. entries' = entries \o new /\ new \in Seq(SafeEntry)
  BY <1>2 DEF Add
<1>4. DOMAIN new = {1} /\ new[1] = e
  OBVIOUS
<1>5. path \in Path
  BY TurnFacts
<1> HIDE DEF new
<1>6. \A n \in DOMAIN new : Begins(path, Position(new[n]))
  BY <1>4, <1>5, BeginsItself
<1>7. OrderedEntries(new)
  BY <1>4 DEF OrderedEntries
<1>8. OrderedEntries(entries \o new)
  BY <1>1, <1>3, <1>6, <1>7, PendingTurn, AddedOrder DEF OrderInv, AheadInv
<1> QED
  BY <1>3, <1>8

(* One entry more.                                                         *)
LEMMA AddedEntry ==
    ASSUME WalkInv, NEW e \in SafeEntry, Add(e)
    PROVE  Elements(entries') = Elements(entries) \cup {e}
<1> DEFINE new == <<e>>
<1>1. entries \in Seq(SafeEntry)
  BY DEF WalkInv
<1>2. entries' = entries \o new /\ new \in Seq(SafeEntry) /\ Elements(new) = {e}
  BY <1>1 DEF Add, Elements
<1> HIDE DEF new
<1> QED
  BY <1>1, <1>2, ElementsOfConcat

(* What the entries of a step have to come before.                         *)
AllAhead == \A e \in Elements(entries') : Walks(e) =>
                \A l \in Elements(stack') : EntryAhead(e, l)

LEMMA FieldsAhead ==
    ASSUME WalkInv, LevelsInv, AheadInv, Next, ~Begin,
           SkipOneof \/ DropField \/ WriteLeaf \/ WriteCollection \/ Pick \/ Lift \/ Nest
    PROVE  AllAhead
<1>1. Walking /\ stack # <<>> /\ Onward
  BY FieldEffect
<1>2. PICK es \in Seq(SafeEntry) : /\ entries' = entries \o es
                                   /\ es # <<>> => FieldTurn
                                   /\ \A n \in DOMAIN es : FieldEntry(es[n])
  BY FieldEffect
<1>3. LevelShape(Here) /\ entries \in Seq(SafeEntry)
  BY <1>1, StackElements DEF LevelsInv, WalkInv
<1>4. \A e : FieldEntry(e) => Begins(path, Position(e))
  BY DEF FieldEntry, Position
<1>6. ASSUME NEW n \in DOMAIN es, NEW l \in Elements(stack')
      PROVE  EntryAhead(es[n], l)
  <2>1. FieldTurn
    <3>1. DOMAIN <<>> = {}
      OBVIOUS
    <3> QED
      BY <1>2, <3>1
  <2>2. Begins(path, Position(es[n]))
    BY <1>2, <1>4
  <2>3. ASSUME NEW k \in Pending(l)
        PROVE  Sooner(path, Place(l, k)) /\ Begins(Place(l, k), Place(l, k))
    BY <1>1, <1>3, <2>1, LeftBehind DEF AheadInv, Onward
  <2> QED
    BY <2>2, <2>3, SoonerFurther DEF EntryAhead, Precedes
<1>7. Elements(entries') = Elements(entries) \cup Elements(es)
  BY <1>2, <1>3, ElementsOfConcat
<1>8. ASSUME NEW e \in Elements(entries), Walks(e), NEW l \in Elements(stack')
      PROVE  EntryAhead(e, l)
  BY <1>8, OldEntriesAhead DEF AheadInv, EntriesAhead
<1>9. ASSUME NEW e \in Elements(es), NEW l \in Elements(stack')
      PROVE  EntryAhead(e, l)
  BY <1>6 DEF Elements
<1> QED
  BY <1>7, <1>8, <1>9 DEF AllAhead

LEMMA FieldsOrderStep ==
    ASSUME LiftsApart, WalkInv, LevelsInv, OrderInv,
           SkipOneof \/ DropField \/ WriteLeaf \/ WriteCollection \/ Pick \/ Lift \/ Nest
    PROVE  OrderedEntries(entries')
<1>1. Walking /\ stack # <<>>
  BY FieldEffect
<1>2. PICK es \in Seq(SafeEntry) : /\ entries' = entries \o es
                                   /\ es # <<>> => FieldTurn
                                   /\ \A n \in DOMAIN es : FieldEntry(es[n])
                                   /\ LiftOnly(es)
  BY FieldEffect
<1>3. LevelShape(Here) /\ entries \in Seq(SafeEntry)
  BY <1>1, StackElements DEF LevelsInv, WalkInv
<1>4. \A e : FieldEntry(e) => Begins(path, Position(e))
  BY DEF FieldEntry, Position
<1>5. CASE es = <<>>
  BY <1>2, <1>3, <1>5, ConcatEmptySeq DEF OrderInv, EntriesOrdered
<1>6. CASE es # <<>>
  <2>1. turn[2] \in Pending(Here) /\ path = Place(Here, turn[2])
    BY <1>1, <1>2, <1>3, <1>6, PendingTurn
  <2>2. OrderedEntries(es)
    BY <1>1, <1>2, LiftedOrder
  <2> QED
    BY <1>1, <1>2, <1>4, <2>1, <2>2, AddedOrder DEF OrderInv, AheadInv
<1> QED
  BY <1>5, <1>6

LEMMA OneofsAhead ==
    ASSUME WalkInv, LevelsInv, AheadInv, Next, ~Begin, TagOneof \/ SingleKey \/ WalkBranches
    PROVE  AllAhead
<1>1. Walking /\ stack # <<>> /\ NewOneof /\ OneofTurn
  BY DEF TagOneof, SingleKey, WalkBranches, NewOneof, OneofTurn, Walking, WalkInv
<1>2. LevelShape(Here)
  BY <1>1, StackElements DEF LevelsInv
<1> DEFINE single == OneofEntry("oneofValue", oneof.name, NextExclusive)
<1>3. Discriminator \in SafeEntry /\ Position(Discriminator) = path
      /\ Discriminator.kind = "discriminator"
  BY <1>1, <1>2, DiscriminatorType, OneofPlace DEF Discriminator, OneofEntry, Entry_
<1>4. single \in SafeEntry /\ Position(single) = path
  <2>1. oneof.name \in Name /\ NextExclusive \in Nat
    BY <1>1, OneofFacts DEF Oneof, NextExclusive, WalkInv, TypeOK
  <2> QED
    BY <1>1, <1>2, <2>1, OneofEntryType, OneofPlace
<1>5. ASSUME NEW e \in Elements(entries), Walks(e), NEW l \in Elements(stack')
      PROVE  EntryAhead(e, l)
  BY <1>5, OldEntriesAhead DEF AheadInv, EntriesAhead
<1>6. ASSUME NEW e, Position(e) = path, NEW l \in Elements(<<PastOneof>> \o Tail(stack))
      PROVE  EntryAhead(e, l)
  <2>1. \A n \in Pending(l) : Sooner(path, Place(l, n))
    BY <1>1, <1>2, LeftBehind DEF AheadInv
  <2> QED
    BY <1>6, <2>1 DEF EntryAhead, Precedes
<1> HIDE DEF single
<1>7. CASE TagOneof \/ SingleKey
  <2>1. stack' = <<PastOneof>> \o Tail(stack)
    BY <1>7 DEF TagOneof, SingleKey
  <2>2. PICK e \in {Discriminator, single} : Add(e)
    BY <1>7 DEF TagOneof, SingleKey, single
  <2>3. e \in SafeEntry /\ Position(e) = path
    BY <1>3, <1>4
  <2>4. Elements(entries') = Elements(entries) \cup {e}
    BY <2>2, <2>3, AddedEntry
  <2> QED
    BY <1>5, <1>6, <2>1, <2>3, <2>4 DEF AllAhead
<1>8. CASE WalkBranches
  <2>1. stack' = <<BranchLevel, PastOneof>> \o Tail(stack)
    BY <1>8, WalkBranchesStep
  <2>2. CASE entries' = entries
    BY <1>5, <2>2 DEF AllAhead
  <2>3. CASE Add(Discriminator)
    <3>1. Elements(entries') = Elements(entries) \cup {Discriminator}
      BY <1>3, <2>3, AddedEntry
    <3>2. EntryAhead(Discriminator, BranchLevel)
      BY <1>1, <1>2, <1>3, BranchesAhead DEF EntryAhead, Precedes
    <3>3. ASSUME NEW l \in Elements(stack'), l # BranchLevel
          PROVE  l \in Elements(<<PastOneof>> \o Tail(stack))
      <4> DEFINE a == <<BranchLevel, PastOneof>>
                 b == <<PastOneof>>
                 rest == Tail(stack)
      <4>1. BranchLevel \in SafeLevel /\ PastOneof \in SafeLevel
        BY <1>1, BranchLevelSafe, PastFacts
      <4>2. /\ a \in Seq(SafeLevel) /\ b \in Seq(SafeLevel) /\ rest \in Seq(SafeLevel)
            /\ Elements(a) \subseteq {BranchLevel, PastOneof} /\ Elements(b) = {PastOneof}
        BY <1>1, <4>1, HereFacts DEF Elements
      <4>3. stack' = a \o rest
        BY <2>1
      <4> HIDE DEF a, b, rest
      <4>4. /\ Elements(a \o rest) = Elements(a) \cup Elements(rest)
            /\ Elements(b \o rest) = Elements(b) \cup Elements(rest)
        BY <4>2, ElementsOfConcat
      <4>5. l \in Elements(b \o rest)
        BY <3>3, <4>2, <4>3, <4>4
      <4> QED
        BY <4>5 DEF b, rest
    <3> QED
      BY <1>3, <1>5, <1>6, <3>1, <3>2, <3>3 DEF AllAhead
  <2> QED
    BY <1>8, <2>2, <2>3 DEF WalkBranches, Add
<1> QED
  BY <1>7, <1>8

LEMMA OneofsOrderStep ==
    ASSUME WalkInv, LevelsInv, OrderInv, TagOneof \/ SingleKey \/ WalkBranches
    PROVE  OrderedEntries(entries')
<1>1. Walking /\ stack # <<>> /\ NewOneof /\ OneofTurn
  BY DEF TagOneof, SingleKey, WalkBranches, NewOneof, OneofTurn, Walking, WalkInv
<1>2. LevelShape(Here)
  BY <1>1, StackElements DEF LevelsInv
<1> DEFINE single == OneofEntry("oneofValue", oneof.name, NextExclusive)
<1>3. Discriminator \in SafeEntry /\ Position(Discriminator) = path
  BY <1>1, <1>2, DiscriminatorType, OneofPlace DEF Discriminator
<1>4. single \in SafeEntry /\ Position(single) = path
  <2>1. oneof.name \in Name /\ NextExclusive \in Nat
    BY <1>1, OneofFacts DEF Oneof, NextExclusive, WalkInv, TypeOK
  <2> QED
    BY <1>1, <1>2, <2>1, OneofEntryType, OneofPlace
<1>5. entries' = entries \/ \E e \in {Discriminator, single} : Add(e)
  BY DEF TagOneof, SingleKey, WalkBranches, Add
<1> HIDE DEF single
<1>6. CASE entries' = entries
  BY <1>6 DEF OrderInv, EntriesOrdered, OrderedEntries
<1>7. ASSUME NEW e \in {Discriminator, single}, Add(e)
      PROVE  OrderedEntries(entries')
  BY <1>1, <1>3, <1>4, <1>7, OneofOrder
<1> QED
  BY <1>5, <1>6, <1>7

(* What the steps after the first add: merged keys when the walk is done,  *)
(* and entries of its own before.                                          *)
Added(es) ==
    \/ /\ Finish \/ Refuse
       /\ \A e \in Elements(es) : e.kind = "merge"
    \/ /\ ~(Finish \/ Refuse)
       /\ \A e \in Elements(es) : Walks(e) /\ (e.kind \in ValueKinds => e.oneof = <<>>)

LEMMA Appended ==
    ASSUME WalkInv, Next, ~Begin
    PROVE  \E es \in Seq(SafeEntry) : entries' = entries \o es /\ Added(es)
<1>1. entries \in Seq(SafeEntry)
  BY DEF WalkInv
<1>2. <<>> \in Seq(SafeEntry) /\ entries \o <<>> = entries /\ Elements(<<>>) = {}
  BY <1>1, ConcatEmptySeq DEF Elements
<1>3. CASE Finish \/ Refuse
  <2>1. Merges \in Seq(SafeEntry) /\ entries' = entries \o Merges
    BY <1>3, MergesType DEF Finish, Refuse, Walked, WalkInv
  <2>2. \A e \in Elements(Merges) : e.kind = "merge"
    BY DEF Merges, Entry_, Elements
  <2> QED
    BY <1>3, <2>1, <2>2 DEF Added
<1>4. ASSUME ~(Finish \/ Refuse), entries' = entries
      PROVE  \E es \in Seq(SafeEntry) : entries' = entries \o es /\ Added(es)
  <2>1. Added(<<>>)
    BY <1>2, <1>4 DEF Added
  <2> QED
    BY <1>2, <1>4, <2>1
<1>5. ASSUME ~(Finish \/ Refuse),
             SkipOneof \/ DropField \/ WriteLeaf \/ WriteCollection \/ Pick \/ Lift \/ Nest
      PROVE  \E es \in Seq(SafeEntry) : entries' = entries \o es /\ Added(es)
  <2>1. PICK es \in Seq(SafeEntry) : /\ entries' = entries \o es
                                     /\ \A n \in DOMAIN es : FieldEntry(es[n])
    BY <1>5, FieldEffect
  <2>2. \A e : FieldEntry(e) => Walks(e) /\ e.oneof = <<>>
    BY DEF FieldEntry, Walks, ValueKinds
  <2>3. Added(es)
    BY <1>5, <2>1, <2>2 DEF Added, Elements
  <2> QED
    BY <2>1, <2>3
<1>6. ASSUME ~(Finish \/ Refuse), TagOneof \/ SingleKey \/ WalkBranches
      PROVE  \E es \in Seq(SafeEntry) : entries' = entries \o es /\ Added(es)
  <2> DEFINE single == OneofEntry("oneofValue", oneof.name, NextExclusive)
  <2>1. stack # <<>> /\ Walking /\ OneofTurn
    BY <1>6 DEF TagOneof, SingleKey, WalkBranches, NewOneof, OneofTurn, Walking, WalkInv
  <2>2. Discriminator \in SafeEntry /\ Discriminator.kind = "discriminator"
    BY <2>1, DiscriminatorType DEF Discriminator, OneofEntry, Entry_
  <2>3. single \in SafeEntry /\ single.kind = "oneofValue"
    <3>1. oneof.name \in Name /\ NextExclusive \in Nat
      BY <2>1, OneofFacts DEF Oneof, NextExclusive, WalkInv, TypeOK
    <3>2. single \in SafeEntry
      BY <2>1, <3>1, OneofEntryType
    <3> QED
      BY <3>2 DEF OneofEntry, Entry_
  <2>4. entries' = entries \/ \E e \in {Discriminator, single} : entries' = Append(entries, e)
    BY <1>6 DEF TagOneof, SingleKey, WalkBranches, Add
  <2> HIDE DEF single
  <2>5. ASSUME NEW e \in {Discriminator, single}, entries' = Append(entries, e)
        PROVE  \E es \in Seq(SafeEntry) : entries' = entries \o es /\ Added(es)
    <3>1. e \in SafeEntry /\ Walks(e) /\ e.kind \notin ValueKinds
      BY <2>2, <2>3 DEF Walks, ValueKinds
    <3>2. <<e>> \in Seq(SafeEntry) /\ entries' = entries \o <<e>> /\ Elements(<<e>>) = {e}
      BY <1>1, <2>5, <3>1 DEF Elements
    <3>3. Added(<<e>>)
      BY <1>6, <3>1, <3>2 DEF Added
    <3> QED
      BY <3>2, <3>3
  <2> QED
    BY <1>4, <1>6, <2>4, <2>5
<1>7. CASE \/ RejectRules \/ RejectField \/ RejectPick \/ RejectLift \/ Cycle
           \/ OmitOneof \/ Descend \/ Return
  <2>1. entries' = entries
    BY <1>7 DEF RejectRules, RejectField, RejectPick, RejectLift, Cycle, Failure,
                OmitOneof, Descend, Return
  <2> QED
    BY <1>3, <1>4, <2>1
<1> QED
  BY <1>3, <1>5, <1>6, <1>7 DEF Next

(* Entries stay ahead of what is pending, whatever lifts take.             *)
LEMMA EntriesAheadStep ==
    ASSUME WalkInv, LevelsInv, AheadInv, Next
    PROVE  AllAhead
<1>1. CASE Begin
  <2>1. entries' = Constants /\ \A n \in DOMAIN Constants : ~Walks(Constants[n])
    BY <1>1 DEF Begin, Constants, Entry_, Walks
  <2> QED
    BY <2>1 DEF AllAhead, Elements
<1>2. CASE ~Begin /\ (SkipOneof \/ DropField \/ WriteLeaf \/ WriteCollection \/ Pick \/ Lift \/ Nest)
  BY <1>2, FieldsAhead
<1>3. CASE ~Begin /\ (TagOneof \/ SingleKey \/ WalkBranches)
  BY <1>3, OneofsAhead
<1>4. ASSUME ~Begin, \A e \in Elements(entries') : Walks(e) => e \in Elements(entries)
      PROVE  AllAhead
  BY <1>4, OldEntriesAhead DEF AllAhead, AheadInv, EntriesAhead
<1>5. CASE ~Begin /\ (Finish \/ Refuse)
  <2>1. PICK es \in Seq(SafeEntry) : entries' = entries \o es /\ Added(es)
    BY <1>5, Appended
  <2>2. \A e \in Elements(es) : ~Walks(e)
    BY <1>5, <2>1 DEF Added, Walks
  <2>3. Elements(entries') = Elements(entries) \cup Elements(es)
    BY <2>1, ElementsOfConcat DEF WalkInv
  <2> QED
    BY <1>4, <1>5, <2>2, <2>3
<1>6. CASE ~Begin /\ (\/ RejectRules \/ RejectField \/ RejectPick \/ RejectLift \/ Cycle
                      \/ OmitOneof \/ Descend \/ Return)
  <2>1. entries' = entries
    BY <1>6 DEF RejectRules, RejectField, RejectPick, RejectLift, Cycle, Failure,
                OmitOneof, Descend, Return
  <2> QED
    BY <1>4, <1>6, <2>1 DEF Elements
<1> QED
  BY <1>1, <1>2, <1>3, <1>5, <1>6 DEF Next

LEMMA EntriesOrderStep ==
    ASSUME LiftsApart, WalkInv, LevelsInv, OrderInv, Next
    PROVE  OrderedEntries(entries')
<1>1. CASE Begin
  <2>1. entries' = Constants /\ \A n \in DOMAIN Constants : ~Walks(Constants[n])
    BY <1>1 DEF Begin, Constants, Entry_, Walks
  <2> QED
    BY <2>1 DEF OrderedEntries
<1>2. CASE ~Begin /\ (SkipOneof \/ DropField \/ WriteLeaf \/ WriteCollection \/ Pick \/ Lift \/ Nest)
  BY <1>2, FieldsOrderStep
<1>3. CASE ~Begin /\ (TagOneof \/ SingleKey \/ WalkBranches)
  BY <1>3, OneofsOrderStep
<1>4. ASSUME NEW es \in Seq(SafeEntry), entries' = entries \o es,
             \A e \in Elements(es) : ~Walks(e)
      PROVE  OrderedEntries(entries')
  BY <1>4, OthersOrder DEF OrderInv
<1>5. CASE ~Begin /\ (Finish \/ Refuse)
  <2>1. PICK es \in Seq(SafeEntry) : entries' = entries \o es /\ Added(es)
    BY <1>5, Appended
  <2>2. \A e \in Elements(es) : ~Walks(e)
    BY <1>5, <2>1 DEF Added, Walks
  <2> QED
    BY <1>4, <1>5, <2>1, <2>2
<1>6. CASE ~Begin /\ (\/ RejectRules \/ RejectField \/ RejectPick \/ RejectLift \/ Cycle
                      \/ OmitOneof \/ Descend \/ Return)
  <2>1. entries' = entries
    BY <1>6 DEF RejectRules, RejectField, RejectPick, RejectLift, Cycle, Failure,
                OmitOneof, Descend, Return
  <2>2. <<>> \in Seq(SafeEntry) /\ entries \o <<>> = entries /\ Elements(<<>>) = {}
    BY ConcatEmptySeq DEF Elements, WalkInv
  <2> QED
    BY <1>4, <1>6, <2>1, <2>2
<1> QED
  BY <1>1, <1>2, <1>3, <1>5, <1>6 DEF Next

(* Constants come first, merged keys last.                                 *)
LEMMA KindsStep ==
    ASSUME WalkInv, KindsOrdered, Next
    PROVE  KindsOrdered'
<1>1. CASE Begin
  <2>1. entries' = Constants /\ \A n \in DOMAIN Constants : Constants[n].kind = "constant"
    BY <1>1 DEF Begin, Constants, Entry_
  <2> QED
    BY <2>1 DEF KindsOrdered, ValueKinds, Elements
<1>2. CASE ~Begin
  <2>1. PICK es \in Seq(SafeEntry) : entries' = entries \o es /\ Added(es)
    BY <1>2, Appended
  <2>2. phase \in {"start", "walk"} /\ (Finish \/ Refuse => phase' \notin {"start", "walk"})
    BY DEF Next, Begin, RejectRules, SkipOneof, OmitOneof, TagOneof, SingleKey, WalkBranches,
           NewOneof, OneofTurn, DropField, RejectField, WriteLeaf, WriteCollection, Pick,
           RejectPick, Lift, RejectLift, Nest, Cycle, Descend, Descends, KeptField, FieldTurn,
           Walking, Return, Finish, Refuse, Walked
  <2>3. entries \in Seq(SafeEntry)
    BY DEF WalkInv
  <2>4. Elements(entries') = Elements(entries) \cup Elements(es)
    BY <2>1, <2>3, ElementsOfConcat
  <2>5. /\ \A e \in Elements(es) : e.kind # "constant" /\ (e.kind \in ValueKinds => e.oneof = <<>>)
        /\ \/ Finish \/ Refuse
           \/ \A e \in Elements(es) : e.kind # "merge"
        /\ \/ \A e \in Elements(es) : e.kind = "merge"
           \/ \A e \in Elements(es) : e.kind # "merge"
    BY <2>1 DEF Added, Walks, ValueKinds
  <2>6. \A e \in Elements(entries) : e.kind # "merge" /\ (e.kind \in ValueKinds => e.oneof = <<>>)
    BY <2>2 DEF KindsOrdered
  <2> DEFINE all == entries \o es
  <2>7. DOMAIN all = 1..Len(entries) + Len(es)
    BY <2>1, <2>3, ConcatProperties, LenProperties
  <2>8. /\ DOMAIN entries = 1..Len(entries) /\ Len(entries) \in Nat
        /\ DOMAIN es = 1..Len(es) /\ Len(es) \in Nat
        /\ \A i \in 1..Len(entries) + Len(es) :
              all[i] = IF i <= Len(entries) THEN entries[i] ELSE es[i - Len(entries)]
    BY <2>1, <2>3, ConcatProperties, LenProperties
  <2> HIDE DEF all
  <2>9. \A i \in DOMAIN all :
            /\ i \in Nat
            /\ \/ i \in DOMAIN entries /\ all[i] = entries[i]
               \/ i > Len(entries) /\ all[i] \in Elements(es)
    <3>1. ASSUME NEW i \in DOMAIN all, ~(i <= Len(entries))
          PROVE  i - Len(entries) \in DOMAIN es /\ all[i] = es[i - Len(entries)]
      BY <2>7, <2>8, <3>1
    <3> QED
      BY <2>7, <2>8, <3>1 DEF Elements
  <2>10. ASSUME NEW x \in DOMAIN all, NEW y \in DOMAIN all, x < y
         PROVE  /\ all[y].kind = "constant" => all[x].kind = "constant"
                /\ all[x].kind = "merge" => all[y].kind = "merge"
    <3>1. CASE y \in DOMAIN entries /\ all[y] = entries[y]
      <4>1. x \in DOMAIN entries /\ all[x] = entries[x]
        BY <2>8, <2>9, <2>10, <3>1
      <4> QED
        BY <2>10, <3>1, <4>1 DEF KindsOrdered
    <3>2. CASE all[y] \in Elements(es)
      <4>1. all[x] \in Elements(entries) \cup Elements(es)
        BY <2>9 DEF Elements
      <4> QED
        BY <2>5, <2>6, <3>2, <4>1
    <3> QED
      BY <2>9, <3>1, <3>2
  <2>11. all = entries'
    BY <2>1 DEF all
  <2>12. phase' \in {"start", "walk"} => \A e \in Elements(entries') : e.kind # "merge"
    BY <2>2, <2>4, <2>5, <2>6
  <2>13. \A e \in Elements(entries') : e.kind \in ValueKinds => e.oneof = <<>>
    BY <2>4, <2>5, <2>6
  <2>14. \A x, y \in DOMAIN entries' : x < y =>
            /\ entries'[y].kind = "constant" => entries'[x].kind = "constant"
            /\ entries'[x].kind = "merge" => entries'[y].kind = "merge"
    BY <2>10, <2>11
  <2> QED
    BY <2>12, <2>13, <2>14 DEF KindsOrdered, Elements, ValueKinds
<1> QED
  BY <1>1, <1>2

LEMMA OrderInit == Init => OrderInv
<1> SUFFICES ASSUME Init PROVE OrderInv
  OBVIOUS
<1>1. stack = <<>> /\ entries = <<>>
  BY DEF Init, PlanOf
<1>2. DOMAIN <<>> = {} /\ Elements(<<>>) = {}
  BY DEF Elements
<1> QED
  BY <1>1, <1>2 DEF OrderInv, AheadInv, PlacesOrdered, OrderedStack, EntriesAhead,
                    EntriesOrdered, OrderedEntries, KindsOrdered

(* What is ahead of what depends on the message types only.                *)
LEMMA PlacesStay ==
    ASSUME WalkInv, [Next]_vars
    PROVE  /\ \A e : Position(e)' = Position(e)
           /\ \A e, q : Precedes(e, q)' <=> Precedes(e, q)
           /\ \A l, k : Ahead(l, k)' <=> Ahead(l, k)
           /\ \A e, l : EntryAhead(e, l)' <=> EntryAhead(e, l)
<1>1. schema' = schema
  BY StackStep DEF vars, planVars
<1>2. /\ \A p, q : Sooner(p, q)' <=> Sooner(p, q)
      /\ \A e : Position(e)' = Position(e)
      /\ \A l : Pending(l)' = Pending(l)
      /\ \A l, n : Place(l, n)' = Place(l, n)
  BY <1>1 DEF Sooner, Position, Pending, Place, OneofAt, FieldOf, Prefix
<1>3. \A e, q : Precedes(e, q)' <=> Precedes(e, q)
  BY <1>2 DEF Precedes, Begins
<1> QED
  BY <1>2, <1>3 DEF Ahead, EntryAhead

LEMMA AheadStep ==
    ASSUME WalkInv, LevelsInv, AheadInv, [Next]_vars
    PROVE  AheadInv'
<1>1. CASE UNCHANGED vars
  <2>1. stack' = stack /\ entries' = entries
    BY <1>1 DEF vars, planVars
  <2>2. PlacesOrdered'
    BY <2>1, PlacesStay DEF AheadInv, PlacesOrdered, OrderedStack
  <2>3. EntriesAhead'
    BY <2>1, PlacesStay DEF AheadInv, EntriesAhead, Elements, Walks
  <2> QED
    BY <2>2, <2>3 DEF AheadInv
<1>2. CASE Next
  <2>1. OrderedStack(stack')
    BY <1>2, PlacesStep DEF AheadInv
  <2>2. AllAhead
    BY <1>2, EntriesAheadStep
  <2>3. PlacesOrdered'
    BY <2>1, PlacesStay DEF PlacesOrdered, OrderedStack
  <2>4. EntriesAhead'
    BY <2>2, PlacesStay DEF EntriesAhead, AllAhead, Elements, Walks
  <2> QED
    BY <2>3, <2>4 DEF AheadInv
<1> QED
  BY <1>1, <1>2

LEMMA OrderStep ==
    ASSUME LiftsApart, WalkInv, LevelsInv, OrderInv, [Next]_vars
    PROVE  OrderInv'
<1>1. AheadInv'
  BY AheadStep DEF OrderInv
<1>2. CASE UNCHANGED vars
  <2>1. entries' = entries /\ phase' = phase
    BY <1>2 DEF vars, planVars
  <2>4. EntriesOrdered'
    BY <2>1, PlacesStay DEF OrderInv, EntriesOrdered, OrderedEntries, Walks
  <2>5. KindsOrdered'
    BY <2>1 DEF OrderInv, KindsOrdered, Elements, ValueKinds
  <2> QED
    BY <1>1, <2>4, <2>5 DEF OrderInv
<1>3. CASE Next
  <2>1. OrderedEntries(entries')
    BY <1>3, EntriesOrderStep
  <2>2. KindsOrdered'
    BY <1>3, KindsStep DEF OrderInv
  <2>3. EntriesOrdered'
    BY <2>1, PlacesStay DEF EntriesOrdered, OrderedEntries, Walks
  <2> QED
    BY <1>1, <2>2, <2>3 DEF OrderInv
<1> QED
  BY <1>2, <1>3

(* What the walk has written is in order, and in separate places.          *)
LEMMA OrderInvariant ==
    ASSUME LiftsApart
    PROVE  Spec => [](WalkInv /\ OrderInv)
<1>1. WalkInv /\ LevelsInv /\ [Next]_vars => LevelsInv'
  BY LevelsStep
<1>2. WalkInv /\ LevelsInv /\ OrderInv /\ [Next]_vars => OrderInv'
  BY OrderStep
<1> QED
  BY <1>1, <1>2, LevelsInit, OrderInit, WalkInvariant, PTL DEF Spec

(* Precedence of entries is what declaration order asks.                   *)
LEMMA PrecedenceOrders == WalkInv /\ OrderInv => InDeclarationOrder
<1> SUFFICES ASSUME OrderInv, NEW x \in DOMAIN entries, NEW y \in DOMAIN entries, x < y
             PROVE  /\ entries[y].kind = "constant" => entries[x].kind = "constant"
                    /\ entries[x].kind = "merge" => entries[y].kind = "merge"
                    /\ {entries[x].kind, entries[y].kind} \cap {"constant", "merge"} = {} =>
                          Earlier(Position(entries[x]), Position(entries[y]))
  BY DEF InDeclarationOrder
<1>1. /\ entries[y].kind = "constant" => entries[x].kind = "constant"
      /\ entries[x].kind = "merge" => entries[y].kind = "merge"
  BY DEF OrderInv, KindsOrdered
<1>2. ASSUME {entries[x].kind, entries[y].kind} \cap {"constant", "merge"} = {}
      PROVE  Earlier(Position(entries[x]), Position(entries[y]))
  <2>1. Precedes(entries[x], Position(entries[y]))
    BY <1>2 DEF OrderInv, EntriesOrdered, OrderedEntries, Walks
  <2>2. \A p, q : Begins(p, q) => IsPrefixOf(p, q)
    BY PrefixBegins DEF Begins
  <2> QED
    BY <2>1, <2>2 DEF Precedes, Earlier
<1> QED
  BY <1>1, <1>2

(* Entries come in the order their fields are declared, depth first, a     *)
(* oneof at its first branch and what a lift takes in the order it lists   *)
(* it; constants come first and merged keys last: for all message types    *)
(* whose lifts do not take one value twice.                                *)
THEOREM DeclarationOrder ==
    ASSUME LiftsApart
    PROVE  Spec => []InDeclarationOrder
BY OrderInvariant, PrecedenceOrders, PTL

(* No field is written by two entries, neither itself nor inside the       *)
(* object of a message above it: for all message types whose lifts do not  *)
(* take one value twice.                                                   *)
THEOREM ValuesWrittenOnce ==
    ASSUME LiftsApart
    PROVE  Spec => []NoValueTwice
<1>1. WalkInv /\ OrderInv => NoValueTwice
  <2> SUFFICES ASSUME WalkInv, OrderInv, NEW x \in Sourced, NEW y \in Sourced, x # y
               PROVE  ~IsPrefixOf(entries[x].path, entries[y].path)
    BY DEF NoValueTwice
  <2>1. \A z \in Sourced : z \in DOMAIN entries /\ entries[z].kind \in ValueKinds
    BY DEF Sourced, ValueKinds
  <2>2. entries \in Seq(SafeEntry)
    BY DEF WalkInv
  <2>3. \A z \in Sourced : entries[z].path \in Path
    BY <2>1, <2>2 DEF SafeEntry, Entry
  <2>4. \A z \in Sourced : /\ Position(entries[z]) = entries[z].path
                           /\ Walks(entries[z]) /\ entries[z].kind # "discriminator"
    BY <2>1 DEF OrderInv, KindsOrdered, Position, Walks, ValueKinds, Elements
  <2>5. \A i, j \in Sourced : i < j => Sooner(entries[i].path, entries[j].path)
    BY <2>1, <2>4 DEF OrderInv, EntriesOrdered, OrderedEntries, Precedes
  <2>6. x < y \/ y < x
    BY <2>1, <2>2
  <2>7. ~Begins(entries[x].path, entries[y].path)
    BY <2>5, <2>6, SoonerApart
  <2> QED
    BY <2>3, <2>7, PrefixBegins
<1> QED
  BY <1>1, OrderInvariant, PTL

-----------------------------------------------------------------------------
(* Nothing is dropped                                                      *)

(* The field of a step that is left out of the plan on purpose, or has an  *)
(* entry, or a oneof that has one.                                         *)
ModeAt(s) == schema[s[1]].oneofs[OneofAt(s)].mode

Written(q) == \E e \in Elements(entries) : e.kind \in ValueKinds /\ Begins(q, e.path)

OneofWritten(p, s) ==
    /\ OneofAt(s) # 0
    /\ \/ ModeAt(s) = "OMIT"
       \/ /\ ModeAt(s) \in {"SINGLE_KEY", "DISCRIMINATOR_ONLY"}
          /\ \E e \in Elements(entries) : e.path = p /\ e.oneof = <<s[1], OneofAt(s)>>

Accounted(p, s) ==
    \/ FieldOf(schema, s).omit
    \/ FieldOf(schema, s).kind = "message"
    \/ IsMerged(schema, top, Append(p, s))
    \/ Written(Append(p, s))
    \/ OneofWritten(p, s)

(* The field is still to come on a level of its path.                      *)
Awaits(p, n) == \E l \in Elements(stack) : l.ctx.path = p /\ n \in Pending(l)

(* The paths the walk has been to: those of levels, and of entries up to a *)
(* pick or a lift.                                                         *)
Trail(p) ==
    \/ p = <<>>
    \/ \E l \in Elements(stack) : Begins(p, l.ctx.path)
    \/ \E e \in Elements(entries) : /\ e.kind \in ValueKinds
                                    /\ Untaken(p)
                                    /\ Begins(p, e.path) /\ Len(p) < Len(e.path)

Settled(p) == \A n \in AllFields(LevelMsg(p)) : Accounted(p, <<LevelMsg(p), n>>) \/ Awaits(p, n)

SettledInv == /\ phase = "planned" => stack = <<>>
              /\ \A l \in Elements(stack) : l.msg = LevelMsg(l.ctx.path)
              /\ phase \in {"walk", "planned"} => \A p : Trail(p) => Settled(p)

(* A path that begins another one, begins what that one begins with when   *)
(* it is no longer.                                                        *)
LEMMA BeginsShorter ==
    ASSUME NEW p, NEW q, NEW r, Begins(p, r), Begins(q, r), Len(p) <= Len(q)
    PROVE  Begins(p, q)
<1>1. /\ p \in Path /\ q \in Path
      /\ DOMAIN p = 1..Len(p) /\ DOMAIN q = 1..Len(q)
      /\ Len(p) \in Nat /\ Len(q) \in Nat
  BY DEF Begins, Path
<1>2. \A n \in DOMAIN p : n \in DOMAIN q /\ r[n] = p[n] /\ r[n] = q[n]
  BY <1>1 DEF Begins
<1> QED
  BY <1>1, <1>2 DEF Begins

(* The levels that stay on the stack when its top is replaced.             *)
LEMMA StackKept ==
    ASSUME WalkInv, stack # <<>>
    PROVE  /\ Elements(stack) \subseteq {Here} \cup Elements(Tail(stack))
           /\ \A a \in SafeLevel :
                 {a} \cup Elements(Tail(stack)) \subseteq Elements(<<a>> \o Tail(stack))
           /\ \A a, b \in SafeLevel :
                 {a, b} \cup Elements(Tail(stack)) \subseteq Elements(<<a, b>> \o Tail(stack))
<1>1. stack \in Seq(SafeLevel) /\ Len(stack) \in Nat \ {0} /\ DOMAIN stack = 1..Len(stack)
  BY EmptySeq, LenProperties DEF WalkInv
<1>2. Here = stack[1] /\ 1 \in DOMAIN stack
  BY <1>1 DEF Here
<1> DEFINE rest == Tail(stack)
<1>3. /\ rest \in Seq(SafeLevel) /\ DOMAIN rest = 1..Len(stack) - 1
      /\ \A n \in 1..Len(stack) - 1 : rest[n] = stack[n + 1]
  BY <1>1, HeadTailProperties, LenProperties
<1> HIDE DEF rest
<1>4. ASSUME NEW n \in DOMAIN stack, n # 1
      PROVE  stack[n] \in Elements(rest)
  <2>1. n - 1 \in DOMAIN rest /\ rest[n - 1] = stack[n]
    BY <1>1, <1>3, <1>4
  <2> QED
    BY <2>1 DEF Elements
<1>5. Elements(stack) \subseteq {Here} \cup Elements(rest)
  BY <1>2, <1>4 DEF Elements
<1>6. \A new \in Seq(SafeLevel) : Elements(new \o rest) = Elements(new) \cup Elements(rest)
  BY <1>3, ElementsOfConcat
<1>7. \A a \in SafeLevel : <<a>> \in Seq(SafeLevel) /\ Elements(<<a>>) = {a}
  BY DEF Elements
<1>8. ASSUME NEW a \in SafeLevel, NEW b \in SafeLevel
      PROVE  <<a, b>> \in Seq(SafeLevel) /\ {a, b} \subseteq Elements(<<a, b>>)
  <2>1. DOMAIN <<a, b>> = 1..2 /\ <<a, b>>[1] = a /\ <<a, b>>[2] = b
    OBVIOUS
  <2>2. <<a, b>> \in Seq(SafeLevel)
    OBVIOUS
  <2> DEFINE two == <<a, b>>
  <2> HIDE DEF two
  <2>3. 1 \in DOMAIN two /\ 2 \in DOMAIN two /\ two[1] = a /\ two[2] = b
    BY <2>1 DEF two
  <2>4. {a, b} \subseteq Elements(two)
    BY <2>3 DEF Elements
  <2> QED
    BY <2>2, <2>4 DEF two
<1>9. \A a \in SafeLevel : {a} \cup Elements(rest) \subseteq Elements(<<a>> \o rest)
  BY <1>6, <1>7
<1>10. \A a, b \in SafeLevel : {a, b} \cup Elements(rest) \subseteq Elements(<<a, b>> \o rest)
  BY <1>6, <1>8
<1> QED
  BY <1>5, <1>9, <1>10 DEF rest

(* What is accounted for stays so: entries only come to the plan.          *)
LEMMA AccountedStays ==
    ASSUME WalkInv, Next, ~Begin
    PROVE  \A p, s : Accounted(p, s) => Accounted(p, s)'
<1>1. schema' = schema /\ top' = top
  BY StackStep
<1>2. PICK es \in Seq(SafeEntry) : entries' = entries \o es
  BY Appended
<1>3. Elements(entries) \subseteq Elements(entries')
  BY <1>2, ElementsOfConcat DEF WalkInv
<1>4. \A q : Written(q) => Written(q)'
  BY <1>3 DEF Written, Elements
<1>5. \A p, s : OneofWritten(p, s) => OneofWritten(p, s)'
  BY <1>1, <1>3 DEF OneofWritten, ModeAt, OneofAt, FieldOf, Elements
<1>6. \A p, s : /\ FieldOf(schema, s)' = FieldOf(schema, s)
                /\ IsMerged(schema, top, Append(p, s))' = IsMerged(schema, top, Append(p, s))
  BY <1>1
<1> QED
  BY <1>4, <1>5, <1>6 DEF Accounted

(* A step past a field on a turn of its own leaves it out on purpose, or   *)
(* writes it.                                                              *)
LEMMA FieldAccounted ==
    ASSUME WalkInv, Next, stack # <<>>, NEW p, p = ctx.path, NEW s, s = turn,
           DropField \/ WriteLeaf \/ WriteCollection \/ Pick \/ Lift \/ Nest \/ Descend
    PROVE  Accounted(p, s)'
<1>1. Walking /\ ~Begin
  BY DEF DropField, WriteLeaf, WriteCollection, Pick, Lift, Nest, Descend, Descends, KeptField,
         FieldTurn, Begin, Walking
<1>2. FieldOf(schema, s) = field /\ path = Append(p, s)
  BY <1>1, TurnStep
<1>3. schema' = schema /\ top' = top
  BY StackStep
<1>4. CASE DropField \/ Nest \/ Descend
  <2>1. field.omit \/ field.kind = "message" \/ IsMerged(schema, top, path)
    BY <1>4 DEF DropField, Dropped, Nest, Descend, Descends
  <2>2. Accounted(p, s)
    BY <1>2, <2>1 DEF Accounted
  <2> QED
    BY <1>1, <1>2, <2>2, AccountedStays
<1>5. CASE WriteLeaf \/ WriteCollection \/ Pick \/ Lift
  <2>1. \E e \in Elements(entries') : FieldEntry(e)
    <3>1. CASE Lift
      <4>1. PICK es \in Seq(SafeEntry) : /\ entries' = entries \o es
                                         /\ DOMAIN es # {}
                                         /\ \A n \in DOMAIN es : FieldEntry(es[n])
        BY <1>1, <3>1, LiftedEntries
      <4>2. PICK n \in DOMAIN es : FieldEntry(es[n])
        BY <4>1
      <4>3. Elements(es) \subseteq Elements(entries')
        BY <4>1, ElementsOfConcat DEF WalkInv
      <4>4. es[n] \in Elements(es)
        BY DEF Elements
      <4> QED
        BY <4>2, <4>3, <4>4
    <3>2. CASE ~Lift
      <4>1. PICK e : FieldEntry(e) /\ Emit(e)
        BY <1>1, <1>5, <3>2, OneFieldEntry
      <4>2. e \in SafeEntry /\ entries \in Seq(SafeEntry) /\ entries' = Append(entries, e)
        BY <4>1 DEF FieldEntry, Emit, Add, WalkInv
      <4>3. Len(entries) + 1 \in DOMAIN entries' /\ entries'[Len(entries) + 1] = e
        BY <4>2
      <4>4. e \in Elements(entries')
        BY <4>3 DEF Elements
      <4> QED
        BY <4>1, <4>4
    <3> QED
      BY <3>1, <3>2
  <2>2. Written(Append(p, s))'
    BY <1>2, <2>1 DEF Written, FieldEntry, Elements
  <2> QED
    BY <2>2 DEF Accounted
<1> QED
  BY <1>4, <1>5

(* A oneof that is left out, or has one entry for all its branches.        *)
LEMMA OneofAccounted ==
    ASSUME WalkInv, stack # <<>>, OmitOneof \/ TagOneof \/ SingleKey,
           NEW p, p = ctx.path, NEW s, s[1] = Here.msg, OneofAt(s) = field.oneof
    PROVE  Accounted(p, s)'
<1>1. OneofTurn /\ schema' = schema /\ top' = top
  BY DEF OmitOneof, TagOneof, SingleKey, NewOneof
<1>2. OneofAt(s) # 0 /\ ModeAt(s) = oneof.mode
  BY <1>1 DEF OneofTurn, ModeAt, oneof
<1>3. OneofMode \in {"OMIT", "SINGLE_KEY", "DISCRIMINATOR_ONLY"} => oneof.mode = OneofMode
  BY DEF OneofMode, Or
<1>4. CASE OmitOneof
  <2>1. ModeAt(s) = "OMIT"
    BY <1>2, <1>3, <1>4 DEF OmitOneof
  <2>2. OneofWritten(p, s)'
    BY <1>1, <1>2, <2>1 DEF OneofWritten, OneofAt, ModeAt, FieldOf
  <2> QED
    BY <2>2 DEF Accounted
<1>5. CASE TagOneof \/ SingleKey
  <2>1. ModeAt(s) \in {"SINGLE_KEY", "DISCRIMINATOR_ONLY"}
    BY <1>2, <1>3, <1>5 DEF TagOneof, SingleKey
  <2>2. PICK e : /\ e \in SafeEntry /\ Add(e)
                 /\ e.path = p /\ e.oneof = <<s[1], OneofAt(s)>>
    <3>1. \A kind, name, x : /\ OneofEntry(kind, name, x).path = ctx.path
                             /\ OneofEntry(kind, name, x).oneof = <<Here.msg, field.oneof>>
      BY DEF OneofEntry, Entry_
    <3>2. CASE TagOneof
      BY <1>1, <3>1, <3>2, DiscriminatorType DEF TagOneof, Discriminator
    <3>3. CASE SingleKey
      <4>1. oneof.name \in Name /\ NextExclusive \in Nat
        BY <1>1, OneofFacts DEF Oneof, NextExclusive, WalkInv, TypeOK
      <4> QED
        BY <1>1, <3>1, <3>3, <4>1, OneofEntryType DEF SingleKey
    <3> QED
      BY <1>5, <3>2, <3>3
  <2>3. e \in Elements(entries')
    <3>1. entries \in Seq(SafeEntry) /\ entries' = Append(entries, e)
      BY <2>2 DEF Add, WalkInv
    <3>2. Len(entries) + 1 \in DOMAIN entries' /\ entries'[Len(entries) + 1] = e
      BY <2>2, <3>1
    <3> QED
      BY <3>2 DEF Elements
  <2>4. OneofWritten(p, s)'
    BY <1>1, <1>2, <2>1, <2>2, <2>3 DEF OneofWritten, OneofAt, ModeAt, FieldOf, Elements
  <2> QED
    BY <2>4 DEF Accounted
<1> QED
  BY <1>4, <1>5

(* The walk comes to a new level only when it descends.                    *)
LEMMA NewTrail ==
    ASSUME WalkInv, Next, ~Begin, NEW p, Trail(p)'
    PROVE  Trail(p) \/ (Descend /\ Walking /\ stack # <<>> /\ p = path)
<1>1. schema' = schema
  BY StackStep
<1>2. ASSUME stack # <<>>
      PROVE  Here \in Elements(stack) /\ ctx = Here.ctx
  BY <1>2, StackElements DEF ctx
<1>3. ASSUME NEW l \in Elements(stack'), Begins(p, l.ctx.path)
      PROVE  Trail(p) \/ (Descend /\ Walking /\ stack # <<>> /\ p = path)
  <2>1. CASE l \in Elements(stack)
    BY <1>3, <2>1 DEF Trail
  <2>2. CASE Walking /\ stack # <<>> /\ l \in {Past, PastOneof}
    BY <1>2, <1>3, <2>2, PastParts DEF Trail
  <2>3. CASE Walking /\ stack # <<>> /\ l = BranchLevel
    <3>1. BranchLevel.ctx.path = ctx.path
      BY <2>3, LevelFacts DEF BranchLevel, Frame
    <3> QED
      BY <1>2, <1>3, <2>3, <3>1 DEF Trail
  <2>4. CASE Walking /\ stack # <<>> /\ l = InnerLevel /\ Descend
    <3>1. l.ctx.path = path
      BY <2>4 DEF InnerLevel, Frame
    <3>2. Begins(ctx.path, path) /\ Len(path) = Len(ctx.path) + 1
      BY <2>4, TurnStep
    <3>3. Begins(p, path) /\ Len(p) \in Nat /\ Len(ctx.path) \in Nat /\ Len(p) <= Len(path)
      BY <1>3, <3>1, <3>2 DEF Begins, Path
    <3>4. CASE Len(p) <= Len(ctx.path)
      <4>1. Begins(p, ctx.path)
        BY <3>2, <3>3, <3>4, BeginsShorter
      <4> QED
        BY <1>2, <2>4, <4>1 DEF Trail
    <3>5. CASE ~(Len(p) <= Len(ctx.path))
      <4>1. Len(p) = Len(path)
        BY <3>2, <3>3, <3>5
      <4>2. Prefix(path, Len(p)) = p
        BY <3>3, BeginsFacts
      <4>3. Prefix(path, Len(path)) = path
        BY <3>3, BeginsItself, BeginsFacts
      <4> QED
        BY <2>4, <4>1, <4>2, <4>3
    <3> QED
      BY <3>4, <3>5
  <2> QED
    BY <2>1, <2>2, <2>3, <2>4, StackStep
<1>4. ASSUME NEW e \in Elements(entries'), e.kind \in ValueKinds,
             Untaken(p), Begins(p, e.path), Len(p) < Len(e.path)
      PROVE  Trail(p)
  <2>1. CASE e \in Elements(entries)
    BY <1>4, <2>1 DEF Trail
  <2>2. CASE Walking /\ stack # <<>> /\ FieldEntry(e)
    <3>1. /\ Begins(ctx.path, path) /\ Len(path) = Len(ctx.path) + 1
          /\ path[Len(path)] = turn /\ FieldOf(schema, turn) = field
      BY <2>2, TurnStep
    <3>2. Begins(path, e.path) /\ (e.path # path => field.pick # <<>> \/ field.lift # <<>>)
      BY <2>2 DEF FieldEntry
    <3>3. /\ Len(p) \in Nat /\ Len(ctx.path) \in Nat /\ Len(path) \in Nat
          /\ DOMAIN p = 1..Len(p) /\ DOMAIN path = 1..Len(path)
      BY <1>4, <3>1 DEF Begins, Path
    <3>4. CASE Len(p) <= Len(ctx.path)
      <4>1. Begins(ctx.path, e.path)
        BY <3>1, <3>2, BeginsFurther
      <4>2. Begins(p, ctx.path)
        BY <1>4, <3>4, <4>1, BeginsShorter
      <4> QED
        BY <1>2, <2>2, <4>2 DEF Trail
    <3>5. CASE ~(Len(p) <= Len(ctx.path))
      <4>1. Len(path) <= Len(p)
        BY <3>1, <3>3, <3>5
      <4>2. Begins(path, p)
        BY <1>4, <3>2, <4>1, BeginsShorter
      <4>3. Len(path) \in DOMAIN path /\ Len(path) \in DOMAIN p
        BY <3>1, <3>3, <4>1
      <4>4. p[Len(path)] = turn
        BY <3>1, <4>2, <4>3 DEF Begins
      <4>5. field.pick = <<>> /\ field.lift = <<>>
        BY <1>4, <3>1, <4>3, <4>4 DEF Untaken
      <4>6. e.path = path
        BY <3>2, <4>5
      <4> QED
        BY <1>4, <3>3, <4>1, <4>6
    <3> QED
      BY <3>4, <3>5
  <2>3. \A d \in Elements(Merges) : d.kind \notin ValueKinds
    BY DEF Merges, Entry_, Elements, ValueKinds
  <2>4. \A kind \in {"discriminator", "oneofValue"} : \A name, x :
            OneofEntry(kind, name, x).kind \notin ValueKinds
    BY DEF OneofEntry, Entry_, ValueKinds
  <2> QED
    BY <1>4, <2>1, <2>2, <2>3, <2>4, EntriesStep DEF Discriminator
<1>5. \/ p = <<>>
      \/ \E l \in Elements(stack') : Begins(p, l.ctx.path)
      \/ \E e \in Elements(entries') : /\ e.kind \in ValueKinds
                                       /\ Untaken(p)
                                       /\ Begins(p, e.path) /\ Len(p) < Len(e.path)
  BY <1>1 DEF Trail, Elements, Untaken, FieldOf
<1>6. CASE p = <<>>
  BY <1>6 DEF Trail
<1> QED
  BY <1>3, <1>4, <1>5, <1>6

(* The fields still to come on the levels further out, after a step that   *)
(* puts others in the place of the innermost one.                          *)
LEMMA OuterKept ==
    ASSUME WalkInv, LevelsInv, Next, ~Begin, phase' \in {"walk", "planned"}
    PROVE  Elements(Tail(stack)) \subseteq Elements(stack')
<1>1. CASE SkipOneof \/ DropField \/ WriteLeaf \/ WriteCollection \/ Pick \/ Lift \/ Nest
  BY <1>1, FieldEffect, StackKept, PastFacts DEF Onward
<1>2. CASE OmitOneof \/ TagOneof \/ SingleKey
  <2>1. Walking /\ stack # <<>> /\ stack' = <<PastOneof>> \o Tail(stack)
    BY <1>2 DEF OmitOneof, TagOneof, SingleKey, NewOneof, OneofTurn, Walking, WalkInv
  <2> QED
    BY <2>1, StackKept, PastFacts
<1>3. CASE WalkBranches
  <2>1. OneofTurn /\ Walking /\ stack # <<>>
    BY <1>3 DEF WalkBranches, NewOneof, OneofTurn, Walking, WalkInv
  <2> QED
    BY <1>3, <2>1, WalkBranchesStep, StackKept, PastFacts, BranchLevelSafe
<1>4. CASE Descend
  <2>1. Walking /\ stack # <<>>
    BY <1>4 DEF Descend, Descends, KeptField, FieldTurn, Walking, WalkInv
  <2> QED
    BY <1>4, <2>1, DescendStep, StackKept, PastFacts, InnerLevelSafe
<1>5. CASE Return
  BY <1>5 DEF Return
<1>6. CASE Finish
  <2>1. stack \in Seq(SafeLevel) /\ stack # <<>> /\ Len(stack) = 1
    BY <1>6 DEF Finish, Walked, WalkInv
  <2> DEFINE rest == Tail(stack)
  <2>2. rest \in Seq(SafeLevel) /\ Len(rest) = 0
    BY <2>1, HeadTailProperties
  <2> HIDE DEF rest
  <2>3. DOMAIN rest = 1..0
    BY <2>2, LenProperties
  <2>4. DOMAIN rest = {}
    BY <2>3
  <2> QED
    BY <2>4 DEF Elements, rest
<1>7. CASE RejectRules \/ RejectField \/ RejectPick \/ RejectLift \/ Cycle \/ Refuse
  BY <1>7 DEF RejectRules, RejectField, RejectPick, RejectLift, Cycle, Refuse, Failure
<1> QED
  BY <1>1, <1>2, <1>3, <1>4, <1>5, <1>6, <1>7 DEF Next

(* A field still to come on the level being walked stays so, or is         *)
(* accounted for by the step.                                              *)
LEMMA HereAwaits ==
    ASSUME WalkInv, LevelsInv, Next, ~Begin, phase' \in {"walk", "planned"}, stack # <<>>,
           NEW p, p = ctx.path, NEW n \in Pending(Here), NEW s, s = <<Here.msg, n>>
    PROVE  Accounted(p, s)' \/ \E l \in Elements(stack') : l.ctx.path = p /\ n \in Pending(l)'
<1>1. n \in Here.fields /\ OneofAt(s) \notin Here.done /\ schema' = schema
  BY StackStep DEF Pending
<1>2. \A l : Pending(l)' = Pending(l)
  BY <1>1 DEF Pending, OneofAt, FieldOf
<1>3. Walking \/ Return \/ Finish \/ phase' = "failed"
  BY DEF Next, RejectRules, SkipOneof, OmitOneof, TagOneof, SingleKey, WalkBranches, DropField,
         RejectField, WriteLeaf, WriteCollection, Pick, RejectPick, Lift, RejectLift, Nest, Cycle,
         Descend, Descends, KeptField, FieldTurn, NewOneof, OneofTurn, Refuse, Failure
<1>4. Walking
  BY <1>1, <1>3 DEF Return, Finish, Walked
<1>5. /\ Past.ctx = ctx /\ PastOneof.ctx = ctx
      /\ Past.msg = Here.msg /\ PastOneof.msg = Here.msg
      /\ Past.fields = Here.fields \ {turn[2]} /\ PastOneof.fields = Here.fields \ {turn[2]}
      /\ Past.done = Here.done /\ PastOneof.done = Here.done \cup {field.oneof}
  BY <1>4, PastParts
<1>6. turn = <<Here.msg, turn[2]>> /\ OneofAt(turn) = field.oneof
  BY <1>4, TurnStep
<1>7. n # turn[2] => n \in Pending(Past)
  BY <1>1, <1>5 DEF Pending
<1>8. OneofAt(s) # field.oneof => n \in Pending(PastOneof)
  BY <1>1, <1>5, <1>6 DEF Pending
<1>9. CASE SkipOneof \/ DropField \/ WriteLeaf \/ WriteCollection \/ Pick \/ Lift \/ Nest \/ Descend
  <2>1. Past \in Elements(stack')
    <3>1. CASE Descend
      BY <1>4, <3>1, DescendStep, StackKept, PastFacts, InnerLevelSafe
    <3>2. CASE ~Descend
      BY <1>4, <1>9, <3>2, FieldEffect, StackKept, PastFacts DEF Onward
    <3> QED
      BY <3>1, <3>2
  <2>2. CASE n # turn[2]
    BY <1>2, <1>5, <1>7, <2>1, <2>2
  <2>3. CASE n = turn[2]
    <3>1. s = turn
      BY <1>6, <2>3
    <3>2. ~SkipOneof
      BY <1>1, <1>6, <3>1 DEF SkipOneof
    <3> QED
      BY <1>9, <3>1, <3>2, FieldAccounted
  <2> QED
    BY <2>2, <2>3
<1>10. CASE OmitOneof \/ TagOneof \/ SingleKey
  <2>1. stack' = <<PastOneof>> \o Tail(stack)
    BY <1>10 DEF OmitOneof, TagOneof, SingleKey
  <2>2. PastOneof \in Elements(stack')
    BY <1>4, <2>1, StackKept, PastFacts
  <2>3. CASE OneofAt(s) # field.oneof
    BY <1>2, <1>5, <1>8, <2>2, <2>3
  <2>4. CASE OneofAt(s) = field.oneof
    BY <1>10, <2>4, OneofAccounted
  <2> QED
    BY <2>3, <2>4
<1>11. CASE WalkBranches
  <2>1. OneofTurn
    BY <1>11 DEF WalkBranches, NewOneof
  <2>2. PastOneof \in Elements(stack') /\ BranchLevel \in Elements(stack')
    BY <1>4, <1>11, <2>1, WalkBranchesStep, StackKept, PastFacts, BranchLevelSafe
  <2>3. CASE OneofAt(s) # field.oneof
    BY <1>2, <1>5, <1>8, <2>2, <2>3
  <2>4. CASE OneofAt(s) = field.oneof
    <3>1. n \in DOMAIN schema[Here.msg].fields
      BY <1>1, LevelFacts
    <3>2. n \in BranchFields
      BY <2>4, <3>1 DEF BranchFields, OneofAt, FieldOf, AllFields
    <3>3. /\ BranchLevel.ctx.path = ctx.path /\ BranchLevel.done = {}
          /\ BranchLevel.fields = BranchFields
      BY LevelFacts DEF BranchLevel, Frame
    <3>4. n \in Pending(BranchLevel)
      BY <3>2, <3>3 DEF Pending
    <3> QED
      BY <1>2, <2>2, <3>3, <3>4
  <2> QED
    BY <2>3, <2>4
<1> QED
  BY <1>1, <1>4, <1>9, <1>10, <1>11
     DEF Next, RejectRules, RejectField, RejectPick, RejectLift, Cycle, Refuse, Finish, Walked,
         Return, Failure

(* The levels are of the messages their paths lead to.                     *)
LEMMA LevelMessages ==
    ASSUME WalkInv, Next, \A l \in Elements(stack) : l.msg = LevelMsg(l.ctx.path),
           NEW l \in Elements(stack')
    PROVE  l.msg = LevelMsg(l.ctx.path)
<1>1. CASE l \in Elements(stack)
  BY <1>1
<1>2. CASE l = TopLevel
  BY <1>2 DEF TopLevel, Frame, LevelMsg
<1>3. CASE Walking /\ stack # <<>> /\ l \in {Past, PastOneof, BranchLevel}
  <2>1. Here.msg = LevelMsg(ctx.path)
    BY <1>3, StackElements DEF ctx
  <2>2. BranchLevel.msg = Here.msg /\ BranchLevel.ctx.path = ctx.path
    BY <1>3, LevelFacts DEF BranchLevel, Frame
  <2> QED
    BY <1>3, <2>1, <2>2, PastParts
<1>4. CASE Walking /\ stack # <<>> /\ l = InnerLevel
  <2>1. path # <<>> /\ Last_(path) = turn /\ FieldOf(schema, turn) = field
    BY <1>4, TurnFacts, TurnStep
  <2>2. l.msg = field.type /\ l.ctx.path = path
    BY <1>4 DEF InnerLevel, Frame
  <2> QED
    BY <2>1, <2>2 DEF LevelMsg
<1> QED
  BY <1>1, <1>2, <1>3, <1>4, StackStep

LEMMA SettledInit == Init => SettledInv
<1> SUFFICES ASSUME Init PROVE SettledInv
  OBVIOUS
<1>1. phase = "start" /\ stack = <<>>
  BY DEF Init, PlanOf
<1>2. Elements(<<>>) = {}
  BY DEF Elements
<1> QED
  BY <1>1, <1>2 DEF SettledInv

(* When a walk begins all fields of the message itself are to come.        *)
LEMMA SettledBegin ==
    ASSUME WalkInv, Begin, NEW p, Trail(p)'
    PROVE  Settled(p)'
<1>1. stack' = <<TopLevel>> /\ entries' = Constants /\ schema' = schema /\ top' = top
  BY BeginStep DEF Begin
<1>2. Elements(stack') = {TopLevel}
  BY <1>1 DEF Elements
<1>3. \A e \in Elements(entries') : e.kind \notin ValueKinds
  <2>1. \A n \in DOMAIN Constants : Constants[n].kind = "constant"
    BY DEF Constants, Entry_
  <2> QED
    BY <1>1, <2>1 DEF Elements, ValueKinds
<1>4. /\ TopLevel.ctx.path = <<>> /\ TopLevel.msg = top
      /\ TopLevel.fields = AllFields(top) /\ TopLevel.done = {}
  BY DEF TopLevel, Frame
<1>5. \/ p = <<>>
      \/ \E l \in Elements(stack') : Begins(p, l.ctx.path)
      \/ \E e \in Elements(entries') : e.kind \in ValueKinds
  BY DEF Trail, Elements
<1>6. p = <<>>
  <2>1. ASSUME Begins(p, <<>>)
        PROVE  p = <<>>
    <3>1. p \in Seq(Step) /\ Len(p) = 0
      BY <2>1 DEF Begins, Path
    <3> QED
      BY <3>1, EmptySeq
  <2> QED
    BY <1>2, <1>3, <1>4, <1>5, <2>1
<1>7. \A n \in AllFields(top) : n \in Pending(TopLevel)
  BY <1>4 DEF Pending
<1>8. /\ AllFields(top)' = AllFields(top) /\ LevelMsg(p)' = top
      /\ \A l : Pending(l)' = Pending(l)
  BY <1>1, <1>6 DEF AllFields, LevelMsg, Pending, OneofAt, FieldOf
<1>9. \A n \in AllFields(top) : \E l \in Elements(stack') : l.ctx.path = p /\ n \in Pending(l)'
  BY <1>2, <1>4, <1>6, <1>7, <1>8
<1>10. (\A n \in AllFields(LevelMsg(p)) : Awaits(p, n))'
  BY <1>1, <1>6, <1>9 DEF Awaits, Elements, LevelMsg, AllFields
<1> QED
  BY <1>10 DEF Settled

(* Each step keeps what is settled, and settles the level it descends to.  *)
LEMMA SettledKept ==
    ASSUME WalkInv, LevelsInv, SettledInv, Next, ~Begin, phase' \in {"walk", "planned"},
           NEW p, Trail(p)'
    PROVE  Settled(p)'
<1>1. schema' = schema /\ top' = top /\ phase = "walk"
  BY StackStep DEF Next, RejectRules, SkipOneof, OmitOneof, TagOneof, SingleKey, WalkBranches,
         DropField, RejectField, WriteLeaf, WriteCollection, Pick, RejectPick, Lift, RejectLift,
         Nest, Cycle, Descend, Descends, KeptField, FieldTurn, NewOneof, OneofTurn, Walking,
         Return, Finish, Refuse, Walked, Failure
<1>2. /\ LevelMsg(p)' = LevelMsg(p) /\ \A m : AllFields(m)' = AllFields(m)
      /\ \A l : Pending(l)' = Pending(l)
  BY <1>1 DEF LevelMsg, AllFields, Pending, OneofAt, FieldOf
<1>3. ASSUME NEW n \in AllFields(LevelMsg(p)), NEW s, s = <<LevelMsg(p), n>>
      PROVE  Accounted(p, s)' \/ \E l \in Elements(stack') : l.ctx.path = p /\ n \in Pending(l)'
  <2>1. CASE Trail(p)
    <3>1. Accounted(p, s) \/ Awaits(p, n)
      BY <1>1, <1>3, <2>1 DEF SettledInv, Settled
    <3>2. CASE Accounted(p, s)
      BY <3>2, AccountedStays
    <3>3. CASE Awaits(p, n)
      <4>1. PICK l \in Elements(stack) : l.ctx.path = p /\ n \in Pending(l)
        BY <3>3 DEF Awaits
      <4>2. stack # <<>>
        BY <1>1 DEF WalkInv
      <4>3. CASE l \in Elements(Tail(stack))
        BY <1>2, <4>1, <4>3, OuterKept
      <4>4. CASE l = Here
        <5>1. p = ctx.path /\ s = <<Here.msg, n>>
          BY <1>3, <4>1, <4>4 DEF SettledInv, ctx
        <5> QED
          BY <4>1, <4>2, <4>4, <5>1, HereAwaits
      <4> QED
        BY <4>1, <4>2, <4>3, <4>4, StackKept
    <3> QED
      BY <3>1, <3>2, <3>3
  <2>2. CASE Descend /\ Walking /\ stack # <<>> /\ p = path
    <3>1. path # <<>> /\ Last_(path) = turn /\ FieldOf(schema, turn) = field
      BY <2>2, TurnFacts, TurnStep
    <3>2. LevelMsg(p) = field.type
      BY <2>2, <3>1 DEF LevelMsg
    <3>3. /\ InnerLevel.ctx.path = path /\ InnerLevel.done = {}
          /\ InnerLevel.fields = AllFields(field.type)
      BY DEF InnerLevel, Frame
    <3>4. n \in Pending(InnerLevel)
      BY <1>3, <3>2, <3>3 DEF Pending
    <3>5. InnerLevel \in Elements(stack')
      BY <2>2, DescendStep, StackKept, PastFacts, InnerLevelSafe
    <3> QED
      BY <1>2, <2>2, <3>3, <3>4, <3>5
  <2> QED
    BY <2>1, <2>2, NewTrail
<1>4. ASSUME NEW n \in AllFields(LevelMsg(p))
      PROVE  (Accounted(p, <<LevelMsg(p), n>>) \/ Awaits(p, n))'
  <2> DEFINE s == <<LevelMsg(p), n>>
  <2>1. s' = s
    BY <1>2
  <2>2. PICK t : t = s
    OBVIOUS
  <2>3. Accounted(p, t)' \/ \E l \in Elements(stack') : l.ctx.path = p /\ n \in Pending(l)'
    BY <1>3, <2>2
  <2>4. Awaits(p, n)' <=> \E l \in Elements(stack') : l.ctx.path = p /\ n \in Pending(l)'
    BY DEF Awaits, Elements
  <2>5. s' = t
    BY <2>1, <2>2
  <2> HIDE DEF s
  <2>6. (t = s)'
    BY <2>5
  <2>7. Accounted(p, t)' => Accounted(p, s)'
    BY <2>6
  <2> QED
    BY <2>3, <2>4, <2>7 DEF s
<1> QED
  BY <1>2, <1>4 DEF Settled

LEMMA SettledStep ==
    ASSUME WalkInv, LevelsInv, SettledInv, [Next]_vars
    PROVE  SettledInv'
<1>1. CASE UNCHANGED vars
  <2>1. UNCHANGED <<schema, top, phase, stack, entries>>
    BY <1>1 DEF vars, planVars
  <2>2. /\ \A p : LevelMsg(p)' = LevelMsg(p)
        /\ \A m : AllFields(m)' = AllFields(m)
        /\ \A l : Pending(l)' = Pending(l)
        /\ \A s : FieldOf(schema, s)' = FieldOf(schema, s)
    BY <2>1 DEF LevelMsg, AllFields, Pending, OneofAt, FieldOf
  <2>3. \A p : Trail(p)' <=> Trail(p)
    BY <2>1 DEF Trail, Elements, Untaken, FieldOf
  <2>4. \A p, s : Accounted(p, s)' <=> Accounted(p, s)
    <3>1. \A q : Written(q)' <=> Written(q)
      BY <2>1 DEF Written, Elements
    <3>2. \A p, s : OneofWritten(p, s)' <=> OneofWritten(p, s)
      BY <2>1 DEF OneofWritten, ModeAt, OneofAt, FieldOf, Elements
    <3>3. \A q : IsMerged(schema, top, q)' <=> IsMerged(schema, top, q)
      BY <2>1 DEF IsMerged, Elements
    <3> QED
      BY <2>2, <3>1, <3>2, <3>3 DEF Accounted
  <2>5. \A p, n : Awaits(p, n)' <=> Awaits(p, n)
    BY <2>1, <2>2 DEF Awaits, Elements
  <2>6. \A p : Settled(p)' <=> Settled(p)
    BY <2>2, <2>4, <2>5 DEF Settled
  <2> QED
    BY <2>1, <2>2, <2>3, <2>6 DEF SettledInv, Elements
<1>2. CASE Next
  <2>1. schema' = schema /\ top' = top
    BY <1>2, StackStep
  <2>2. (\A l \in Elements(stack) : l.msg = LevelMsg(l.ctx.path))'
    <3>1. \A l \in Elements(stack') : l.msg = LevelMsg(l.ctx.path)
      BY <1>2, LevelMessages DEF SettledInv
    <3> QED
      BY <2>1, <3>1 DEF LevelMsg, Elements
  <2>3. (phase = "planned" => stack = <<>>)'
    BY <1>2 DEF SettledInv, Next, Begin, RejectRules, SkipOneof, OmitOneof, TagOneof, SingleKey,
         WalkBranches, DropField, RejectField, WriteLeaf, WriteCollection, Pick, RejectPick, Lift,
         RejectLift, Nest, Cycle, Descend, Descends, KeptField, FieldTurn, NewOneof, OneofTurn,
         Walking, Emit, Return, Finish, Refuse, Walked, Failure
  <2>4. ASSUME NEW p, phase' \in {"walk", "planned"}, Trail(p)'
        PROVE  Settled(p)'
    BY <1>2, <2>4, SettledBegin, SettledKept
  <2>5. (phase \in {"walk", "planned"} => \A p : Trail(p) => Settled(p))'
    BY <2>4
  <2> QED
    BY <2>2, <2>3, <2>5 DEF SettledInv
<1> QED
  BY <1>1, <1>2

(* What NothingDropped says of a field on a level that is shown.           *)
Shown(p, step) ==
    LET f    == FieldOf(schema, step)
        mode == schema[step[1]].oneofs[f.oneof].mode
    IN  \/ f.omit \/ f.kind = "message" \/ IsMerged(schema, top, Append(p, step))
        \/ \E x \in Sourced : IsPrefixOf(Append(p, step), entries[x].path)
        \/ /\ f.oneof # 0
           /\ \/ mode = "OMIT"
              \/ \E x \in DOMAIN entries :
                    /\ mode \in {"SINGLE_KEY", "DISCRIMINATOR_ONLY"}
                    /\ entries[x].path = p
                    /\ entries[x].oneof = <<step[1], f.oneof>>

(* Nothing goes missing: when a level is flattened, each field on it that  *)
(* is not a message, not omitted and not left to a merge rule has an entry *)
(* of its own, or its oneof has one that stands for it: for all message    *)
(* types and options.                                                      *)
THEOREM FieldsAccountedFor == Spec => []NothingDropped
<1>1. WalkInv /\ SettledInv => NothingDropped
  <2> SUFFICES ASSUME WalkInv, SettledInv, phase = "planned",
                      NEW p \in ShownLevels, NEW n \in DOMAIN schema[LevelMsg(p)].fields
               PROVE  Shown(p, <<LevelMsg(p), n>>)
    BY DEF NothingDropped, Shown
  <2> DEFINE s == <<LevelMsg(p), n>>
  <2>1. Sourced = {x \in DOMAIN entries : entries[x].kind \in ValueKinds}
    BY DEF Sourced, ValueKinds
  <2>2. \A x \in Sourced : entries[x] \in Elements(entries) /\ entries[x].path \in Path
    <3>1. entries \in Seq(SafeEntry)
      BY DEF WalkInv
    <3>2. \A x \in DOMAIN entries : entries[x] \in SafeEntry
      BY <3>1
    <3> QED
      BY <2>1, <3>2 DEF SafeEntry, Entry, Elements
  <2>3. Trail(p)
    <3>1. CASE p = <<>>
      BY <3>1 DEF Trail
    <3>2. CASE p # <<>>
      <4>1. PICK x \in Sourced :
               \E k \in DOMAIN entries[x].path : p = Prefix(entries[x].path, k - 1)
        BY <3>2 DEF ShownLevels
      <4>2. PICK k \in DOMAIN entries[x].path : p = Prefix(entries[x].path, k - 1)
        BY <4>1
      <4>3. Untaken(p)
        BY <3>2 DEF ShownLevels, Untaken
      <4> DEFINE q == entries[x].path
      <4>4. q \in Path
        BY <2>2
      <4> HIDE DEF q
      <4>5. Len(q) \in Nat /\ DOMAIN q = 1..Len(q)
        BY <4>4 DEF Path
      <4>6. k \in 1..Len(q)
        BY <4>2, <4>5 DEF q
      <4>7. k - 1 \in 0..Len(q) /\ k - 1 < Len(q)
        BY <4>5, <4>6
      <4>8. /\ p \in Path /\ Len(p) = k - 1
            /\ \A j \in 1..k - 1 : p[j] = q[j]
        BY <4>2, <4>4, <4>7, PrefixFacts DEF q
      <4>9. DOMAIN p = 1..k - 1
        BY <4>8 DEF Path
      <4>10. Begins(p, q) /\ Len(p) < Len(q)
        BY <4>4, <4>7, <4>8, <4>9 DEF Begins
      <4> QED
        BY <2>1, <2>2, <4>3, <4>10 DEF Trail, q
    <3> QED
      BY <3>1, <3>2
  <2>4. Accounted(p, s)
    <3>1. Accounted(p, s) \/ Awaits(p, n)
      BY <2>3 DEF SettledInv, Settled, AllFields
    <3> HIDE DEF s
    <3>2. Elements(<<>>) = {}
      BY DEF Elements
    <3> QED
      BY <3>1, <3>2 DEF SettledInv, Awaits
  <2>5. Written(Append(p, s)) => \E x \in Sourced : IsPrefixOf(Append(p, s), entries[x].path)
    <3>1. \A q, r : Begins(q, r) => IsPrefixOf(q, r)
      BY PrefixBegins DEF Begins
    <3>2. ASSUME NEW q, Written(q)
          PROVE  \E x \in Sourced : IsPrefixOf(q, entries[x].path)
      BY <2>1, <3>1, <3>2 DEF Written, Elements
    <3> QED
      BY <3>2
  <2> HIDE DEF s
  <2>6. OneofWritten(p, s) =>
            /\ FieldOf(schema, s).oneof # 0
            /\ \/ ModeAt(s) = "OMIT"
               \/ \E x \in DOMAIN entries :
                     /\ ModeAt(s) \in {"SINGLE_KEY", "DISCRIMINATOR_ONLY"}
                     /\ entries[x].path = p
                     /\ entries[x].oneof = <<s[1], FieldOf(schema, s).oneof>>
    BY DEF OneofWritten, OneofAt, Elements
  <2>7. Shown(p, s)
    BY <2>4, <2>5, <2>6 DEF Accounted, Shown, ModeAt, OneofAt
  <2> QED
    BY <2>7 DEF s
<1>2. WalkInv /\ LevelsInv /\ [Next]_vars => LevelsInv'
  BY LevelsStep
<1>3. WalkInv /\ LevelsInv /\ SettledInv /\ [Next]_vars => SettledInv'
  BY SettledStep
<1> QED
  BY <1>1, <1>2, <1>3, LevelsInit, SettledInit, WalkInvariant, PTL DEF Spec

-----------------------------------------------------------------------------
(* Refusals are just                                                       *)

(* A path that fields may be inlined along.                                *)
InlinePath(s, m, p) == /\ IsPath(s, m, p)
                       /\ \A n \in 1..Len(p) - 1 : FieldOf(s, p[n]).kind = "message"

(* No oneof comes to be inside a branch of another one.                    *)
FlatOneofs ==
    \A s \in Schemas, m \in Msg, p \in Path : InlinePath(s, m, p) =>
        \A j, k \in DOMAIN p :
            FieldOf(s, p[j]).oneof # 0 /\ FieldOf(s, p[k]).oneof # 0 => j = k

OutsideOneofs(s, p) == \A n \in DOMAIN p : FieldOf(s, p[n]).oneof = 0

(* Declared groups have no members inside oneofs, whose ids they would     *)
(* replace, and lifts take nothing from inside a oneof of their field,     *)
(* which is given no id.                                                   *)
GroupsOutside ==
    \A s \in Schemas, m \in Msg : \A g \in Elements(s[m].groups) : \A p \in Elements(g) :
        OutsideOneofs(s, p)

LiftsOutside ==
    \A s \in Schemas, m \in Msg : \A n \in DOMAIN s[m].fields :
        \A l \in Elements(s[m].fields[n].lift) : OutsideOneofs(s, l.path)

(* Each step of the path is a field of the message the steps before it     *)
(* lead into.                                                              *)
Leads(p) == p # <<>> => FieldOf(schema, Last_(p)).kind = "message"

Chained(p) == \A n \in DOMAIN p : /\ p[n][1] = LevelMsg(Prefix(p, n - 1))
                                  /\ n > 1 => FieldOf(schema, p[n - 1]).kind = "message"

LevelChained(l) == /\ l.msg = LevelMsg(l.ctx.path)
                   /\ Chained(l.ctx.path) /\ Leads(l.ctx.path)

BranchStep(o, step) == step \in SafeStep /\ step[1] = o[1] /\ OneofAt(step) # 0

(* An entry of the walk is at a path the walk took or is taken from inside *)
(* the field that path ends in; a oneof's entry is where its branches are. *)
EntryChained(e) ==
    LET w == Walked_(e.path)
    IN  /\ Chained(w)
        /\ ~Walks(e) => e.path = <<>>
        /\ e.path # w => w # <<>> /\ \E q \in Taken(FieldOf(schema, Last_(w))) : e.path = w \o q
        /\ e.kind = "discriminator" => e.oneof # <<>>
        /\ e.kind = "oneofValue" =>
              /\ w = e.path
              /\ \E n \in AllFields(e.oneof[1]) : /\ BranchStep(e.oneof, <<e.oneof[1], n>>)
                                                  /\ Chained(Append(e.path, <<e.oneof[1], n>>))

ChainsInv == /\ \A l \in Elements(stack) : LevelChained(l)
             /\ \A e \in Elements(entries) : EntryChained(e)

LEMMA ChainFurther ==
    ASSUME NEW p \in Path, NEW s \in Step, Chained(p), Leads(p), s[1] = LevelMsg(p)
    PROVE  Chained(Append(p, s))
<1> DEFINE q == Append(p, s)
<1>1. /\ Begins(p, q) /\ q[Len(p) + 1] = s /\ DOMAIN q = DOMAIN p \cup {Len(p) + 1}
  BY BeginsLonger
<1>2. DOMAIN p = 1..Len(p) /\ Len(p) \in Nat
  BY DEF Path
<1> HIDE DEF q
<1>3. /\ \A n \in 0..Len(p) : Prefix(q, n) = Prefix(p, n)
      /\ Prefix(q, Len(p)) = p
      /\ \A n \in DOMAIN p : q[n] = p[n]
  BY <1>1, BeginsFacts DEF Begins
<1>4. ASSUME NEW n \in DOMAIN p
      PROVE  /\ q[n][1] = LevelMsg(Prefix(q, n - 1))
             /\ n > 1 => FieldOf(schema, q[n - 1]).kind = "message"
  <2>1. n - 1 \in 0..Len(p) /\ (n > 1 => n - 1 \in DOMAIN p)
    BY <1>2
  <2>2. /\ p[n][1] = LevelMsg(Prefix(p, n - 1))
        /\ n > 1 => FieldOf(schema, p[n - 1]).kind = "message"
    BY DEF Chained
  <2> QED
    BY <1>3, <2>1, <2>2
<1>5. ASSUME Len(p) + 1 > 1
      PROVE  FieldOf(schema, q[Len(p)]).kind = "message"
  <2>1. p # <<>> /\ Len(p) \in DOMAIN p
    BY <1>2, <1>5
  <2> QED
    BY <1>3, <2>1 DEF Leads, Last_
<1>6. q[Len(p) + 1][1] = LevelMsg(Prefix(q, Len(p)))
  BY <1>1, <1>3
<1>7. ASSUME NEW n \in {Len(p) + 1}
      PROVE  /\ q[n][1] = LevelMsg(Prefix(q, n - 1))
             /\ n > 1 => FieldOf(schema, q[n - 1]).kind = "message"
  <2>1. n - 1 = Len(p)
    BY <1>2
  <2> QED
    BY <1>5, <1>6, <2>1
<1>8. Chained(q)
  BY <1>1, <1>4, <1>7 DEF Chained
<1> QED
  BY <1>8 DEF q

(* Such a path is one of the top message's.                                *)
LEMMA ChainedPath ==
    ASSUME NEW p \in SafePath, p \in Path, p # <<>>, Chained(p)
    PROVE  InlinePath(schema, top, p)
<1>1. /\ DOMAIN p = 1..Len(p) /\ Len(p) \in Nat \ {0}
      /\ \A n \in DOMAIN p : p[n] \in SafeStep
  BY EmptySeq DEF SafePath
<1>2. p[1][1] = top
  <2>1. 0 \in 0..Len(p) /\ 1 \in DOMAIN p
    BY <1>1
  <2>2. Prefix(p, 0) \in Seq(Step) /\ Len(Prefix(p, 0)) = 0
    BY <2>1, PrefixFacts DEF Path
  <2>3. Prefix(p, 0) = <<>>
    BY <2>2, EmptySeq
  <2>4. p[1][1] = LevelMsg(Prefix(p, 1 - 1))
    BY <2>1 DEF Chained
  <2> QED
    BY <2>3, <2>4 DEF LevelMsg
<1>3. ASSUME NEW n \in 1..Len(p) - 1
      PROVE  /\ FieldOf(schema, p[n]).type = p[n + 1][1]
             /\ FieldOf(schema, p[n]).kind = "message"
  <2>1. n + 1 \in DOMAIN p /\ n \in 0..Len(p) /\ n \in 1..n /\ (n + 1) - 1 = n /\ n + 1 > 1
    BY <1>1
  <2>2. Len(Prefix(p, n)) = n /\ Prefix(p, n)[n] = p[n]
    BY <2>1, PrefixFacts
  <2>3. Prefix(p, n) # <<>> /\ Last_(Prefix(p, n)) = p[n]
    <3>1. Len(<<>>) = 0 /\ n # 0
      BY <2>1
    <3> QED
      BY <2>2, <3>1 DEF Last_
  <2>4. p[n + 1][1] = LevelMsg(Prefix(p, n)) /\ FieldOf(schema, p[n]).kind = "message"
    BY <2>1 DEF Chained
  <2> QED
    BY <2>3, <2>4 DEF LevelMsg
<1>4. \A n \in DOMAIN p : p[n][2] \in DOMAIN schema[p[n][1]].fields
  BY <1>1 DEF SafeStep
<1>5. IsPath(schema, top, p)
  BY <1>2, <1>3, <1>4 DEF IsPath
<1> QED
  BY <1>3, <1>5 DEF InlinePath

LEMMA LevelChains ==
    ASSUME WalkInv, ChainsInv, Next, NEW l \in Elements(stack')
    PROVE  LevelChained(l)
<1>1. l.msg = LevelMsg(l.ctx.path)
  BY LevelMessages DEF ChainsInv, LevelChained
<1>2. CASE l \in Elements(stack)
  BY <1>2 DEF ChainsInv
<1>3. CASE l = TopLevel
  <2>1. l.ctx.path = <<>>
    BY <1>3 DEF TopLevel, Frame
  <2> QED
    BY <1>1, <2>1 DEF LevelChained, Chained, Leads
<1>4. ASSUME Walking, stack # <<>>
      PROVE  /\ Here.msg = LevelMsg(ctx.path)
             /\ Chained(ctx.path) /\ Leads(ctx.path)
  BY <1>4, StackElements DEF ChainsInv, LevelChained, ctx
<1>5. CASE Walking /\ stack # <<>> /\ l \in {Past, PastOneof, BranchLevel}
  <2>1. BranchLevel.ctx.path = ctx.path
    BY <1>5, LevelFacts DEF BranchLevel, Frame
  <2>2. l.ctx.path = ctx.path
    BY <1>5, <2>1, PastParts
  <2> QED
    BY <1>1, <1>4, <1>5, <2>2 DEF LevelChained
<1>6. CASE Walking /\ stack # <<>> /\ l = InnerLevel /\ Descend
  <2>1. l.ctx.path = path /\ field.kind = "message"
    BY <1>6 DEF InnerLevel, Frame, Descend, Descends
  <2>2. /\ path # <<>> /\ Last_(path) = turn /\ FieldOf(schema, turn) = field
        /\ turn[1] = Here.msg /\ turn \in Step /\ ctx.path \in Path
        /\ path = Append(ctx.path, turn)
    BY <1>6, TurnFacts, TurnStep, LevelFacts
  <2>3. Chained(path)
    BY <1>4, <1>6, <2>2, ChainFurther
  <2> QED
    BY <1>1, <2>1, <2>2, <2>3 DEF LevelChained, Leads
<1> QED
  BY <1>2, <1>3, <1>5, <1>6, StackStep

LEMMA EntryChains ==
    ASSUME WalkInv, ChainsInv, FormatsInv, Next, NEW e \in Elements(entries')
    PROVE  EntryChained(e)
<1>1. CASE e \in Elements(entries)
  BY <1>1 DEF ChainsInv
<1>2. CASE e \in Elements(Constants) \cup Elements(Merges)
  <2>1. \A n \in DOMAIN Constants : Constants[n].path = <<>> /\ Constants[n].kind = "constant"
    BY DEF Constants, Entry_
  <2>2. \A n \in DOMAIN Merges : Merges[n].path = <<>> /\ Merges[n].kind = "merge"
    BY DEF Merges, Entry_
  <2>3. e.path = <<>> /\ e.kind \in {"constant", "merge"}
    BY <1>2, <2>1, <2>2 DEF Elements
  <2>4. Walked_(<<>>) = <<>> /\ Chained(<<>>)
    BY DEF Walked_, Chained
  <2> QED
    BY <2>3, <2>4 DEF EntryChained
<1>3. ASSUME Walking, stack # <<>>
      PROVE  /\ Untaken(ctx.path) /\ Chained(ctx.path) /\ Chained(path)
             /\ Walked_(ctx.path) = ctx.path
             /\ turn = <<Here.msg, turn[2]>> /\ turn[2] \in AllFields(Here.msg)
             /\ path = Append(ctx.path, turn) /\ OneofAt(turn) = field.oneof
             /\ turn \in SafeStep
  <2>1. /\ Here.msg = LevelMsg(ctx.path) /\ Chained(ctx.path) /\ Leads(ctx.path)
        /\ Untaken(ctx.path)
    BY <1>3, StackElements DEF ChainsInv, LevelChained, FormatsInv, LevelFormats, ctx
  <2>2. /\ turn[1] = Here.msg /\ turn \in Step /\ ctx.path \in Path
        /\ path = Append(ctx.path, turn) /\ turn \in SafeStep
        /\ turn = <<Here.msg, turn[2]>> /\ turn[2] \in Here.fields
        /\ Here.fields \subseteq AllFields(Here.msg) /\ OneofAt(turn) = field.oneof
    BY <1>3, TurnFacts, TurnStep, LevelFacts DEF AllFields
  <2>3. Chained(path)
    BY <2>1, <2>2, ChainFurther
  <2>4. Walked_(ctx.path) = ctx.path
    BY <2>1 DEF Walked_, Untaken
  <2> QED
    BY <2>1, <2>2, <2>3, <2>4
<1>4. CASE Walking /\ stack # <<>> /\ FieldTurn /\ FieldEntry(e)
  <2>1. Walked_(e.path) = path
    BY <1>3, <1>4, WalkedPart
  <2>2. /\ e.kind \in ValueKinds
        /\ e.path # path => \E q \in Taken(field) : e.path = path \o q
    BY <1>4 DEF FieldEntry
  <2>3. path # <<>> /\ Last_(path) = turn /\ FieldOf(schema, turn) = field
    BY <1>4, TurnFacts, TurnStep
  <2> QED
    BY <1>3, <1>4, <2>1, <2>2, <2>3 DEF EntryChained, Walks, ValueKinds
<1>5. CASE Walking /\ stack # <<>> /\ e = Discriminator
  <2>1. /\ e.path = ctx.path /\ e.kind = "discriminator"
        /\ e.oneof = <<Here.msg, field.oneof>>
    BY <1>5 DEF Discriminator, OneofEntry, Entry_
  <2>2. <<Here.msg, field.oneof>> # <<>>
    OBVIOUS
  <2> QED
    BY <1>3, <1>5, <2>1, <2>2 DEF EntryChained, Walks
<1>6. CASE /\ Walking /\ stack # <<>> /\ OneofTurn
           /\ e = OneofEntry("oneofValue", oneof.name, NextExclusive)
  <2>1. /\ e.path = ctx.path /\ e.kind = "oneofValue"
        /\ e.oneof = <<Here.msg, field.oneof>>
    BY <1>6 DEF OneofEntry, Entry_
  <2>2. e.oneof[1] = Here.msg /\ field.oneof # 0
    BY <1>6, <2>1 DEF OneofTurn
  <2>3. /\ BranchStep(e.oneof, <<e.oneof[1], turn[2]>>)
        /\ Chained(Append(e.path, <<e.oneof[1], turn[2]>>))
        /\ turn[2] \in AllFields(e.oneof[1])
    BY <1>3, <1>6, <2>1, <2>2 DEF BranchStep
  <2> QED
    BY <1>3, <1>6, <2>1, <2>3 DEF EntryChained, Walks
<1> QED
  BY <1>1, <1>2, <1>4, <1>5, <1>6, EntriesStep

LEMMA ChainsStep ==
    ASSUME WalkInv, ChainsInv, FormatsInv, [Next]_vars
    PROVE  ChainsInv'
<1>1. schema' = schema /\ top' = top
  BY StackStep DEF vars, planVars
<1>2. /\ \A p : Chained(p)' <=> Chained(p)
      /\ \A p : Walked_(p)' = Walked_(p)
      /\ \A l : LevelChained(l)' <=> LevelChained(l)
  BY <1>1 DEF LevelChained, Chained, Leads, LevelMsg, Walked_, FieldOf, Prefix, Last_
<1>3. \A o, s : BranchStep(o, s)' <=> BranchStep(o, s)
  BY <1>1 DEF BranchStep, SafeStep, Reachable, Closed, OneofAt, FieldOf
<1>4. \A e : EntryChained(e)' <=> EntryChained(e)
  BY <1>1, <1>2, <1>3 DEF EntryChained, Walks, Taken, FieldOf, Last_, AllFields
<1>5. CASE UNCHANGED vars
  <2>1. stack' = stack /\ entries' = entries
    BY <1>5 DEF vars, planVars
  <2> QED
    BY <1>2, <1>4, <2>1 DEF ChainsInv, Elements
<1>6. CASE Next
  <2>1. /\ \A l \in Elements(stack') : LevelChained(l)
        /\ \A e \in Elements(entries') : EntryChained(e)
    BY <1>6, LevelChains, EntryChains
  <2> QED
    BY <1>2, <1>4, <2>1 DEF ChainsInv, Elements
<1> QED
  BY <1>5, <1>6

(* What bears an id while it matters: a level with something pending, and  *)
(* an entry.                                                               *)
Holders == {LevelBearer(l) : l \in {k \in Elements(stack) : Pending(k) # {}}}
           \cup {EntryBearer(e) : e \in Elements(entries)}

(* All that is inside one instance of a oneof, and inside no other one     *)
(* within it, bears one id.                                                *)
OneId(bs) == \A a, b \in bs : a.oneofs \cap b.oneofs # {} => a.id = b.id /\ a.id # 0

OneIdInv == OneId(Holders)

(* No one bears the id of the oneof whose turn it is yet.                  *)
Unmet == \A a \in Holders : ThisOneof \notin a.oneofs

KeepsOneId(b) == \/ \E a \in Holders : b.id = a.id /\ b.oneofs \subseteq a.oneofs
                 \/ b.oneofs = {}
                 \/ b.id = NextExclusive /\ b.oneofs \subseteq {ThisOneof} /\ Unmet

LEMMA NewOneIds ==
    ASSUME WalkInv, OneIdInv, NEW new, \A b \in new : KeepsOneId(b)
    PROVE  OneId(new)
<1> SUFFICES ASSUME NEW a \in new, NEW b \in new, NEW o \in a.oneofs \cap b.oneofs
             PROVE  a.id = b.id /\ a.id # 0
  BY DEF OneId
<1>1. NextExclusive # 0
  BY DEF NextExclusive, WalkInv, TypeOK
<1>2. \A c \in {a, b} : \/ \E x \in Holders : c.id = x.id /\ o \in x.oneofs
                        \/ c.id = NextExclusive /\ o = ThisOneof /\ Unmet
  BY DEF KeepsOneId
<1>3. CASE Unmet /\ o = ThisOneof
  BY <1>1, <1>2, <1>3 DEF Unmet
<1>4. CASE ~(Unmet /\ o = ThisOneof)
  <2>1. PICK x \in Holders : a.id = x.id /\ o \in x.oneofs
    BY <1>2, <1>4
  <2>2. PICK y \in Holders : b.id = y.id /\ o \in y.oneofs
    BY <1>2, <1>4
  <2>3. x.oneofs \cap y.oneofs # {}
    BY <2>1, <2>2
  <2> QED
    BY <2>1, <2>2, <2>3 DEF OneIdInv, OneId
<1> QED
  BY <1>3, <1>4

(* What begins a path of fields there are is one.                          *)
LEMMA SafeBegins ==
    ASSUME NEW p, NEW q \in SafePath, Begins(p, q)
    PROVE  p \in SafePath
<1>1. /\ p \in Path /\ DOMAIN p = 1..Len(p) /\ Len(p) \in Nat /\ Len(q) \in Nat
      /\ DOMAIN q = 1..Len(q) /\ Len(p) <= Len(q)
      /\ \A n \in DOMAIN p : q[n] = p[n]
      /\ \A n \in DOMAIN q : q[n] \in SafeStep
  BY DEF Begins, SafePath, Path
<1>2. \A n \in 1..Len(p) : p[n] \in SafeStep
  BY <1>1
<1>3. p \in Seq(Step)
  BY <1>1 DEF Path
<1>4. p = [n \in 1..Len(p) |-> p[n]]
  BY <1>3
<1> QED
  BY <1>1, <1>2, <1>4, IsASeq DEF SafePath

LEMMA PlaceLength ==
    ASSUME WalkInv, NEW l \in SafeLevel, NEW n \in l.fields
    PROVE  /\ Place(l, n) \in Path
           /\ Len(l.ctx.path) \in Nat /\ Len(Place(l, n)) = Len(l.ctx.path) + 1
<1>1. /\ l.ctx.path \in Path /\ <<l.msg, n>> \in Step /\ Place(l, n) \in Path
  BY PlaceFacts
<1>2. Len(l.ctx.path) \in Nat
  BY <1>1 DEF Path
<1> QED
  BY <1>1, <1>2, BeginsLonger DEF Place

(* A path whose innermost oneof is the one whose turn it is goes through   *)
(* one of its branches.                                                    *)
LEMMA ThroughBranch ==
    ASSUME WalkInv, stack # <<>>, Walking, NEW p \in SafePath, p \in Path,
           ThisOneof \in Innermost(p)
    PROVE  \E k \in BranchFields : Begins(Place(Here, k), p)
<1>1. PICK n \in LastOneof(p) :
          ThisOneof = <<Prefix(p, n - 1), <<p[n][1], OneofAt(p[n])>> >>
  BY DEF Innermost
<1>2. Prefix(p, n - 1) = ctx.path /\ p[n][1] = Here.msg /\ OneofAt(p[n]) = field.oneof
  BY <1>1 DEF ThisOneof
<1>3. /\ DOMAIN p = 1..Len(p) /\ Len(p) \in Nat /\ n \in DOMAIN p
      /\ p[n] \in SafeStep
  BY <1>1 DEF SafePath, LastOneof
<1>4. /\ p[n] \in Step /\ p[n] = <<p[n][1], p[n][2]>>
      /\ p[n][2] \in DOMAIN schema[p[n][1]].fields
  BY <1>3 DEF SafeStep, Step
<1> DEFINE k == p[n][2]
           q == Append(ctx.path, p[n])
<1>5. k \in BranchFields
  BY <1>2, <1>4 DEF BranchFields, AllFields, OneofAt, FieldOf
<1>6. Place(Here, k) = q
  BY <1>2, <1>4 DEF Place, ctx
<1>7. n - 1 \in 0..Len(p)
  BY <1>3
<1>8. Len(ctx.path) = n - 1 /\ ctx.path \in Path /\ \A i \in 1..n - 1 : ctx.path[i] = p[i]
  BY <1>2, <1>7, PrefixFacts
<1>9. /\ Begins(ctx.path, q) /\ Len(q) = n /\ q[n] = p[n] /\ DOMAIN q = 1..n
      /\ DOMAIN ctx.path = 1..n - 1
  BY <1>3, <1>4, <1>8, BeginsLonger DEF Path
<1> HIDE DEF q, k
<1>10. \A i \in 1..n : q[i] = p[i]
  <2>1. \A i \in 1..n - 1 : q[i] = ctx.path[i]
    BY <1>9 DEF Begins
  <2>2. \A i \in 1..n : i = n \/ i \in 1..n - 1
    BY <1>3
  <2> QED
    BY <1>8, <1>9, <2>1, <2>2
<1>11. Begins(q, p)
  BY <1>3, <1>9, <1>10 DEF Begins
<1> QED
  BY <1>5, <1>6, <1>11

(* An entry does not come before a place its path goes through.            *)
LEMMA NotBeforeItself ==
    ASSUME NEW e \in SafeEntry, NEW q, Begins(q, e.path),
           e.kind = "discriminator" => e.oneof # <<>>
    PROVE  ~Precedes(e, q)
<1> DEFINE p == e.path
           last == <<e.oneof[1], Min({n \in DOMAIN schema[e.oneof[1]].fields :
                                         OneofAt(<<e.oneof[1], n>>) = e.oneof[2]})>>
<1>1. /\ p \in Path /\ q \in Path /\ Len(q) <= Len(p)
      /\ DOMAIN p = 1..Len(p) /\ DOMAIN q = 1..Len(q) /\ Len(p) \in Nat /\ Len(q) \in Nat
      /\ \A n \in DOMAIN q : p[n] = q[n]
  BY DEF Begins, Path
<1>2. Position(e) = IF e.oneof = <<>> THEN p ELSE Append(p, last)
  BY DEF Position
<1> HIDE DEF p, last
<1>3. /\ Append(p, last) \in Seq(Step \cup {last}) /\ Len(Append(p, last)) = Len(p) + 1
      /\ \A n \in DOMAIN p : Append(p, last)[n] = p[n]
  <2>1. p \in Seq(Step \cup {last}) /\ last \in Step \cup {last}
    BY <1>1 DEF Path
  <2> QED
    BY <1>1, <2>1
<1>4. \A n \in DOMAIN q : Position(e)[n] = q[n]
  BY <1>1, <1>2, <1>3
<1>5. ~Sooner(Position(e), q)
  BY <1>4 DEF Sooner
<1>6. ASSUME e.kind = "discriminator"
      PROVE  ~Begins(Position(e), q)
  <2>1. Len(Position(e)) = Len(p) + 1
    BY <1>2, <1>3, <1>6
  <2> QED
    BY <1>1, <2>1 DEF Begins
<1> QED
  BY <1>5, <1>6 DEF Precedes

(* A oneof that is met for the first time on a level has been met nowhere. *)
LEMMA UnmetLevels ==
    ASSUME WalkInv, LevelsInv, PlacesOrdered, stack # <<>>, Walking, NewOneof,
           NEW l \in Elements(stack), Pending(l) # {}
    PROVE  ThisOneof \notin LevelOneofs(l)
<1> SUFFICES ASSUME ThisOneof \in LevelOneofs(l)
             PROVE  FALSE
  OBVIOUS
<1>1. PICK i \in DOMAIN stack : l = stack[i]
  BY DEF Elements
<1>2. /\ DOMAIN stack = 1..Len(stack) /\ Len(stack) \in Nat \ {0} /\ Here = stack[1]
      /\ 1 \in DOMAIN stack /\ l \in SafeLevel /\ Here \in SafeLevel
  BY <1>1, EmptySeq, LenProperties, HereFacts DEF WalkInv, Here
<1>3. /\ l.ctx.path \in SafePath /\ l.ctx.path \in Path /\ l.msg \in Msg
      /\ l.fields \subseteq DOMAIN schema[l.msg].fields
      /\ Here.ctx.path \in Path
  BY <1>2 DEF SafeLevel, Level
<1>4. ~Here.branch /\ LevelShape(Here) /\ LevelShape(l) /\ Here \in Elements(stack)
  BY StackElements DEF NewOneof, OneofTurn, LevelsInv
<1>5. BranchFields \subseteq Pending(Here)
  BY <1>4, BranchesPending
<1>6. \A k \in Pending(Here) : Place(Here, k) \in Path /\ Len(Place(Here, k)) = Len(ctx.path) + 1
  BY <1>2, PlaceLength DEF Pending, ctx
<1>7. CASE i = 1
  <2>1. ThisOneof \in Innermost(ctx.path)
    BY <1>1, <1>2, <1>4, <1>7 DEF LevelOneofs, ctx
  <2>2. PICK k \in BranchFields : Begins(Place(Here, k), ctx.path)
    BY <1>1, <1>2, <1>3, <1>7, <2>1, ThroughBranch DEF ctx
  <2>3. Len(Place(Here, k)) <= Len(ctx.path) /\ Len(ctx.path) \in Nat
    BY <1>3, <2>2 DEF Begins, Path, ctx
  <2> QED
    BY <1>5, <1>6, <2>3
<1>8. CASE i # 1
  <2>1. 1 < i
    BY <1>2, <1>8
  <2>2. \A n \in Pending(Here), j \in Pending(l) : Sooner(Place(Here, n), Place(l, j))
    BY <1>1, <1>2, <2>1 DEF PlacesOrdered, OrderedStack, Ahead
  <2>3. CASE l.branch
    <3>1. PICK n \in l.fields : ThisOneof = <<l.ctx.path, <<l.msg, OneofAt(<<l.msg, n>>)>> >>
      BY <2>3 DEF LevelOneofs
    <3>2. l.ctx.path = ctx.path /\ l.msg = Here.msg /\ OneofAt(<<Here.msg, n>>) = field.oneof
      BY <3>1 DEF ThisOneof
    <3>3. n \in BranchFields
      BY <1>3, <3>1, <3>2 DEF BranchFields, AllFields, OneofAt, FieldOf
    <3>4. n \in Pending(l) /\ Place(l, n) = Place(Here, n)
      BY <1>4, <2>3, <3>1, <3>2 DEF LevelShape, Pending, Place, ctx
    <3>5. Sooner(Place(Here, n), Place(Here, n))
      BY <1>5, <2>2, <3>3, <3>4
    <3> QED
      BY <1>5, <1>6, <3>3, <3>5, SoonerApart, BeginsItself
  <2>4. CASE ~l.branch
    <3>1. PICK k \in BranchFields : Begins(Place(Here, k), l.ctx.path)
      BY <1>3, <2>4, ThroughBranch DEF LevelOneofs
    <3>2. PICK j \in Pending(l) : TRUE
      OBVIOUS
    <3>3. Begins(l.ctx.path, Place(l, j))
      BY <1>2, <3>2, PlaceFacts DEF Pending
    <3>4. Begins(Place(Here, k), Place(l, j))
      BY <3>1, <3>3, BeginsFurther
    <3>5. Sooner(Place(Here, k), Place(l, j))
      BY <1>5, <2>2
    <3> QED
      BY <3>4, <3>5, SoonerApart
  <2> QED
    BY <2>3, <2>4
<1> QED
  BY <1>7, <1>8

LEMMA UnmetEntries ==
    ASSUME WalkInv, LevelsInv, EntriesAhead, ChainsInv, stack # <<>>, Walking, NewOneof,
           NEW e \in Elements(entries)
    PROVE  ThisOneof \notin EntryOneofs(e)
<1> SUFFICES ASSUME ThisOneof \in EntryOneofs(e)
             PROVE  FALSE
  OBVIOUS
<1>1. e \in SafeEntry /\ EntryChained(e)
  BY DEF WalkInv, Elements, ChainsInv
<1>2. Here \in Elements(stack) /\ LevelShape(Here)
  BY StackElements DEF LevelsInv
<1>3. /\ BranchFields \subseteq Pending(Here) /\ turn[2] \in Pending(Here)
      /\ path = Place(Here, turn[2]) /\ path \in Path
  BY <1>2, BranchesPending, PendingTurn, TurnFacts
<1>4. ASSUME Walks(e), NEW n \in Pending(Here)
      PROVE  Precedes(e, Place(Here, n))
  BY <1>2, <1>4 DEF EntriesAhead, EntryAhead
<1>5. CASE e.kind = "oneofValue"
  <2>1. ThisOneof = <<e.path, e.oneof>>
    BY <1>5 DEF EntryOneofs
  <2>2. e.path = ctx.path /\ e.oneof = <<Here.msg, field.oneof>>
    BY <2>1 DEF ThisOneof
  <2> DEFINE d == OneofEntry("oneofValue", oneof.name, NextExclusive)
  <2>3. d.path = ctx.path /\ d.oneof = <<Here.msg, field.oneof>> /\ Position(d) = path
    BY <1>2, OneofPlace DEF OneofEntry, Entry_
  <2> HIDE DEF d
  <2>4. Position(e) = path
    BY <2>2, <2>3 DEF Position
  <2>5. Precedes(e, path)
    BY <1>3, <1>4, <1>5 DEF Walks
  <2>6. Sooner(path, path)
    BY <1>5, <2>4, <2>5 DEF Precedes
  <2> QED
    BY <1>3, <2>6, SoonerApart, BeginsItself
<1>6. CASE e.kind # "oneofValue"
  <2> DEFINE w == Walked_(e.path)
  <2>1. ThisOneof \in Innermost(w)
    BY <1>6 DEF EntryOneofs
  <2>2. Begins(w, e.path)
    BY <1>1, WalkedBegins
  <2>3. w \in Path /\ w \in SafePath
    BY <1>1, <2>2, SafeBegins DEF Begins, SafeEntry
  <2> HIDE DEF w
  <2>4. PICK k \in BranchFields : Begins(Place(Here, k), w)
    BY <2>1, <2>3, ThroughBranch
  <2>5. Begins(Place(Here, k), e.path)
    BY <2>2, <2>4, BeginsFurther
  <2>6. Walks(e)
    <3>1. k \in Here.fields
      BY <1>3 DEF Pending
    <3>2. e.path # <<>>
      <4>1. Len(Place(Here, k)) >= 1 /\ Len(Place(Here, k)) <= Len(e.path)
        BY <2>5, <3>1, HereFacts, PlaceLength DEF Begins
      <4> QED
        BY <4>1
    <3> QED
      BY <1>1, <3>2 DEF EntryChained
  <2>7. Precedes(e, Place(Here, k))
    BY <1>3, <1>4, <2>6
  <2>8. e.kind = "discriminator" => e.oneof # <<>>
    BY <1>1 DEF EntryChained
  <2> QED
    BY <1>1, <2>5, <2>7, <2>8, NotBeforeItself
<1> QED
  BY <1>5, <1>6

LEMMA OneofUnmet ==
    ASSUME WalkInv, LevelsInv, AheadInv, ChainsInv, stack # <<>>, Walking, NewOneof
    PROVE  Unmet
<1>1. ASSUME NEW l \in Elements(stack), Pending(l) # {}
      PROVE  ThisOneof \notin LevelBearer(l).oneofs
  BY <1>1, UnmetLevels DEF AheadInv, LevelBearer, Bearer
<1>2. ASSUME NEW e \in Elements(entries)
      PROVE  ThisOneof \notin EntryBearer(e).oneofs
  BY UnmetEntries DEF AheadInv, EntryBearer, Bearer
<1> QED
  BY <1>1, <1>2 DEF Unmet, Holders

(* The level being walked holds its id, and so do the fields on it that    *)
(* are in no group.                                                        *)
LEMMA HereHolds ==
    ASSUME Pending(Here) # {}, WalkInv, stack # <<>>
    PROVE  \E a \in Holders : a.id = ctx.excl /\ a.oneofs = LevelOneofs(Here)
<1>1. Here \in Elements(stack)
  BY StackElements
<1>2. LevelBearer(Here) \in Holders
  BY <1>1 DEF Holders
<1> QED
  BY <1>2 DEF LevelBearer, Bearer, ctx

LEMMA InnermostField ==
    ASSUME WalkInv, stack # <<>>, FieldTurn, LevelShape(Here)
    PROVE  Innermost(path) \subseteq LevelOneofs(Here)
<1> DEFINE last == Len(path)
<1>1. /\ Begins(ctx.path, path) /\ path[last] = turn /\ last \in DOMAIN path
      /\ last = Len(ctx.path) + 1 /\ turn = <<Here.msg, turn[2]>>
      /\ turn[2] \in Here.fields /\ OneofAt(turn) = field.oneof
      /\ DOMAIN path = DOMAIN ctx.path \cup {last}
  BY TurnStep DEF FieldTurn
<1>2. /\ DOMAIN ctx.path = 1..Len(ctx.path) /\ Len(ctx.path) \in Nat
      /\ \A n \in 0..Len(ctx.path) : Prefix(path, n) = Prefix(ctx.path, n)
      /\ \A n \in DOMAIN ctx.path : path[n] = ctx.path[n]
      /\ Prefix(path, Len(ctx.path)) = ctx.path
  BY <1>1, BeginsFacts DEF Begins, Path
<1>3. \A n \in LastOneof(path) : n = last \/ (n \in DOMAIN ctx.path /\ OneofAt(turn) = 0)
  BY <1>1, <1>2 DEF LastOneof
<1>4. CASE Here.branch
  <2>1. OneofAt(turn) # 0
    BY <1>1, <1>4 DEF LevelShape
  <2>2. Prefix(path, last - 1) = ctx.path /\ path[last][1] = Here.msg
    BY <1>1, <1>2
  <2>3. Innermost(path) \subseteq {<<ctx.path, <<Here.msg, OneofAt(turn)>> >>}
    BY <1>1, <1>3, <2>1, <2>2 DEF Innermost
  <2>4. <<ctx.path, <<Here.msg, OneofAt(turn)>> >> \in LevelOneofs(Here)
    BY <1>1, <1>4 DEF LevelOneofs, ctx
  <2> QED
    BY <2>3, <2>4
<1>5. CASE ~Here.branch
  <2>1. OneofAt(path[last]) = 0
    BY <1>1, <1>5 DEF FieldTurn
  <2>2. ASSUME NEW n \in LastOneof(path)
        PROVE  /\ n \in LastOneof(ctx.path) /\ path[n] = ctx.path[n]
               /\ Prefix(path, n - 1) = Prefix(ctx.path, n - 1)
    <3>1. OneofAt(path[n]) # 0 /\ \A k \in DOMAIN path : k > n => OneofAt(path[k]) = 0
      BY DEF LastOneof
    <3>2. n \in DOMAIN ctx.path
      BY <1>3, <2>1, <3>1
    <3>3. n - 1 \in 0..Len(ctx.path)
      BY <1>2, <3>2
    <3>4. n \in LastOneof(ctx.path)
      BY <1>1, <1>2, <3>1, <3>2 DEF LastOneof
    <3> QED
      BY <1>2, <3>2, <3>3, <3>4
  <2>3. Innermost(path) \subseteq Innermost(ctx.path)
    BY <2>2 DEF Innermost
  <2> QED
    BY <1>5, <2>3 DEF LevelOneofs, ctx
<1> QED
  BY <1>4, <1>5

LEMMA FieldHolds ==
    ASSUME GroupsOutside, WalkInv, stack # <<>>, FieldTurn, LevelShape(Here), NEW b,
           b.id = excl, b.oneofs = Innermost(path)
    PROVE  KeepsOneId(b)
<1> DEFINE groups == schema[top].groups
           ids == {g \in DOMAIN groups : path \in Elements(groups[g])}
<1>1. excl = IF ids = {} THEN ctx.excl ELSE Max(ids)
  BY DEF excl, ExclusiveId
<1>2. CASE ids = {}
  <2>1. Pending(Here) # {}
    BY PendingTurn DEF FieldTurn
  <2>2. PICK a \in Holders : a.id = ctx.excl /\ a.oneofs = LevelOneofs(Here)
    BY <2>1, HereHolds
  <2> QED
    BY <1>1, <1>2, <2>2, InnermostField DEF KeepsOneId
<1>3. CASE ids # {}
  <2>1. PICK g \in DOMAIN groups : path \in Elements(groups[g])
    BY <1>3
  <2>2. schema \in Schemas /\ top \in Msg
    BY DEF WalkInv, TypeOK
  <2>3. OutsideOneofs(schema, path)
    BY <2>1, <2>2 DEF GroupsOutside, Elements
  <2>4. Innermost(path) = {}
    BY <2>3 DEF Innermost, LastOneof, OutsideOneofs, OneofAt
  <2> QED
    BY <2>4 DEF KeepsOneId
<1> QED
  BY <1>2, <1>3

LEMMA LevelHolds ==
    ASSUME GroupsOutside, WalkInv, LevelsInv, AheadInv, ChainsInv, Next,
           NEW l \in Elements(stack'), Pending(l) # {}
    PROVE  KeepsOneId(LevelBearer(l))
<1> DEFINE b == LevelBearer(l)
<1>1. b.id = l.ctx.excl /\ b.oneofs = LevelOneofs(l)
  BY DEF LevelBearer, Bearer
<1> HIDE DEF b
<1>2. CASE l \in Elements(stack)
  <2>1. b \in Holders
    BY <1>2 DEF Holders, b
  <2> QED
    BY <2>1 DEF KeepsOneId, b
<1>3. CASE l = TopLevel
  <2>1. l.ctx.path = <<>> /\ l.branch = FALSE
    BY <1>3 DEF TopLevel, Frame
  <2>2. LevelOneofs(l) = {}
    BY <2>1 DEF LevelOneofs, Innermost, LastOneof
  <2> QED
    BY <1>1, <2>2 DEF KeepsOneId, b
<1>4. CASE Walking /\ stack # <<>> /\ l \in {Past, PastOneof}
  <2>1. /\ l.msg = Here.msg /\ l.branch = Here.branch /\ l.ctx = Here.ctx
        /\ l.fields \subseteq Here.fields /\ Here.done \subseteq l.done
    BY <1>4, PastParts DEF ctx
  <2>2. Pending(Here) # {}
    BY <2>1 DEF Pending
  <2>3. LevelOneofs(l) \subseteq LevelOneofs(Here)
    BY <2>1 DEF LevelOneofs
  <2>4. PICK a \in Holders : a.id = ctx.excl /\ a.oneofs = LevelOneofs(Here)
    BY <1>4, <2>2, HereHolds
  <2> QED
    BY <1>1, <2>1, <2>3, <2>4 DEF KeepsOneId, ctx, b
<1>5. CASE Walking /\ stack # <<>> /\ l = BranchLevel /\ OneofTurn /\ WalkBranches
  <2> DEFINE c == [ctx EXCEPT !.sc = BranchScope, !.excl = NextExclusive]
  <2>1. ctx \in [sc : Scope, path : Path, depth : Nat, seen : SUBSET Msg, excl : Nat]
    BY <1>5, LevelFacts
  <2>2. c.excl = NextExclusive /\ c.path = ctx.path
    BY <2>1
  <2>3. l = Frame(Here.msg, BranchFields, TRUE, c)
    BY <1>5 DEF BranchLevel
  <2> HIDE DEF c
  <2>4. /\ l.ctx.excl = NextExclusive /\ l.ctx.path = ctx.path
        /\ l.msg = Here.msg /\ l.branch = TRUE /\ l.fields = BranchFields
    BY <2>2, <2>3 DEF Frame
  <2>5. \A n \in BranchFields : OneofAt(<<Here.msg, n>>) = field.oneof
    BY DEF BranchFields, OneofAt, FieldOf
  <2>6. LevelOneofs(l) \subseteq {ThisOneof}
    BY <2>4, <2>5 DEF LevelOneofs, ThisOneof
  <2>7. Unmet
    BY <1>5, OneofUnmet DEF WalkBranches
  <2> QED
    BY <1>1, <2>4, <2>6, <2>7 DEF KeepsOneId, b
<1>6. CASE Walking /\ stack # <<>> /\ l = InnerLevel /\ Descend
  <2>1. l.ctx.excl = excl /\ l.ctx.path = path /\ l.branch = FALSE /\ FieldTurn
    BY <1>6 DEF InnerLevel, Frame, Descend, Descends, KeptField
  <2>2. LevelShape(Here)
    BY <1>6, StackElements DEF LevelsInv
  <2>3. LevelOneofs(l) = Innermost(path)
    BY <2>1 DEF LevelOneofs
  <2>4. KeepsOneId(b)
    BY <1>1, <1>6, <2>1, <2>2, <2>3, FieldHolds
  <2> QED
    BY <2>4 DEF b
<1> QED
  BY <1>2, <1>3, <1>4, <1>5, <1>6, StackStep

LEMMA EntryHolds ==
    ASSUME GroupsOutside, WalkInv, LevelsInv, FormatsInv, AheadInv, ChainsInv, Next,
           NEW e \in Elements(entries')
    PROVE  KeepsOneId(EntryBearer(e))
<1> DEFINE b == EntryBearer(e)
<1>1. b.id = e.excl /\ b.oneofs = EntryOneofs(e)
  BY DEF EntryBearer, Bearer
<1> HIDE DEF b
<1>2. CASE e \in Elements(entries)
  <2>1. b \in Holders
    BY <1>2 DEF Holders, b
  <2> QED
    BY <2>1 DEF KeepsOneId, b
<1>3. CASE e \in Elements(Constants) \cup Elements(Merges)
  <2>1. \A n \in DOMAIN Constants : Constants[n].path = <<>> /\ Constants[n].kind = "constant"
    BY DEF Constants, Entry_
  <2>2. \A n \in DOMAIN Merges : Merges[n].path = <<>> /\ Merges[n].kind = "merge"
    BY DEF Merges, Entry_
  <2>3. e.path = <<>> /\ e.kind # "oneofValue"
    BY <1>3, <2>1, <2>2 DEF Elements
  <2>4. Walked_(<<>>) = <<>> /\ Innermost(<<>>) = {}
    BY DEF Walked_, Innermost, LastOneof
  <2> QED
    BY <1>1, <2>3, <2>4 DEF KeepsOneId, EntryOneofs, b
<1>4. CASE Walking /\ stack # <<>> /\ FieldTurn /\ FieldEntry(e)
  <2>1. e.excl = excl /\ e.kind # "oneofValue"
    BY <1>4 DEF FieldEntry, ValueKinds
  <2>2. LevelShape(Here) /\ Untaken(ctx.path)
    BY <1>4, StackElements DEF LevelsInv, FormatsInv, LevelFormats, ctx
  <2>3. b.oneofs = Innermost(path)
    BY <1>1, <1>4, <2>1, <2>2, WalkedPart DEF EntryOneofs
  <2>4. KeepsOneId(b)
    BY <1>1, <1>4, <2>1, <2>2, <2>3, FieldHolds
  <2> QED
    BY <2>4 DEF b
<1>5. CASE /\ Walking /\ stack # <<>> /\ OneofTurn /\ (TagOneof \/ WalkBranches)
           /\ e = Discriminator
  <2>1. e.excl = ctx.excl /\ e.path = ctx.path /\ e.kind # "oneofValue"
    BY <1>5 DEF Discriminator, OneofEntry, Entry_
  <2>2. LevelOneofs(Here) = Innermost(ctx.path)
    BY <1>5 DEF OneofTurn, LevelOneofs, ctx
  <2>3. Walked_(ctx.path) = ctx.path /\ LevelShape(Here)
    <3>1. Untaken(ctx.path) /\ LevelShape(Here)
      BY <1>5, StackElements DEF LevelsInv, FormatsInv, LevelFormats, ctx
    <3> QED
      BY <3>1 DEF Walked_, Untaken
  <2>4. Pending(Here) # {}
    BY <1>5, <2>3, PendingTurn DEF TagOneof, WalkBranches
  <2>5. PICK a \in Holders : a.id = ctx.excl /\ a.oneofs = LevelOneofs(Here)
    BY <1>5, <2>4, HereHolds
  <2> QED
    BY <1>1, <2>1, <2>2, <2>3, <2>5 DEF KeepsOneId, EntryOneofs, b
<1>6. CASE /\ Walking /\ stack # <<>> /\ SingleKey
           /\ e = OneofEntry("oneofValue", oneof.name, NextExclusive)
  <2>1. /\ e.excl = NextExclusive /\ e.path = ctx.path /\ e.kind = "oneofValue"
        /\ e.oneof = <<Here.msg, field.oneof>>
    BY <1>6 DEF OneofEntry, Entry_
  <2>2. EntryOneofs(e) = {ThisOneof}
    BY <2>1 DEF EntryOneofs, ThisOneof
  <2>3. Unmet
    BY <1>6, OneofUnmet DEF SingleKey
  <2> QED
    BY <1>1, <2>1, <2>2, <2>3 DEF KeepsOneId, b
<1> QED
  BY <1>2, <1>3, <1>4, <1>5, <1>6, EntriesStep

LEMMA OneIdStep ==
    ASSUME GroupsOutside, WalkInv, LevelsInv, FormatsInv, AheadInv, ChainsInv, OneIdInv,
           [Next]_vars
    PROVE  OneIdInv'
<1>1. schema' = schema /\ top' = top
  BY StackStep DEF vars, planVars
<1>2. /\ \A l : LevelBearer(l)' = LevelBearer(l)
      /\ \A e : EntryBearer(e)' = EntryBearer(e)
      /\ \A l : Pending(l)' = Pending(l)
  BY <1>1 DEF LevelBearer, EntryBearer, Bearer, LevelOneofs, EntryOneofs, Innermost, LastOneof,
              Walked_, GroupsAlong, GroupsOf, OneofAt, FieldOf, Prefix, Pending
<1>3. CASE UNCHANGED vars
  <2>1. Holders' = Holders
    BY <1>2, <1>3 DEF vars, planVars, Holders, Elements
  <2> QED
    BY <2>1 DEF OneIdInv, OneId
<1>4. CASE Next
  <2> DEFINE new == {LevelBearer(l) : l \in {k \in Elements(stack') : Pending(k) # {}}}
                    \cup {EntryBearer(e) : e \in Elements(entries')}
  <2>1. Holders' = new
    BY <1>2 DEF Holders, Elements
  <2>2. \A b \in new : KeepsOneId(b)
    BY <1>4, LevelHolds, EntryHolds
  <2> HIDE DEF new
  <2>3. OneId(new)
    BY <2>2, NewOneIds
  <2> QED
    BY <2>1, <2>3 DEF OneIdInv, OneId
<1> QED
  BY <1>3, <1>4

LEMMA JustInit == Init => AheadInv /\ ChainsInv /\ OneIdInv
<1> SUFFICES ASSUME Init PROVE AheadInv /\ ChainsInv /\ OneIdInv
  OBVIOUS
<1>1. stack = <<>> /\ entries = <<>>
  BY DEF Init, PlanOf
<1>2. Elements(<<>>) = {}
  BY DEF Elements
<1>3. Holders = {}
  BY <1>1, <1>2 DEF Holders
<1> QED
  BY <1>1, <1>2, <1>3, OrderInit DEF OrderInv, ChainsInv, OneIdInv, OneId

(* A plan refused for a key has a conflict.                                *)
CollisionInv == err = "collision" => phase = "failed" /\ Conflicts(Analysed(entries)) # {}

LEMMA CollisionInit == Init => CollisionInv
BY DEF Init, PlanOf, CollisionInv

LEMMA CollisionStep ==
    ASSUME CollisionInv, [Next]_vars
    PROVE  CollisionInv'
<1>1. CASE UNCHANGED vars
  <2>1. err' = err /\ phase' = phase /\ entries' = entries
    BY <1>1 DEF vars, planVars
  <2>2. Analysed(entries)' = Analysed(entries)
    BY <2>1 DEF Analysed
  <2> QED
    BY <1>1, <2>1, <2>2 DEF CollisionInv
<1>2. CASE Next
  <2>1. phase \in {"start", "walk"}
    BY <1>2 DEF Next, Begin, RejectRules, SkipOneof, OmitOneof, TagOneof, SingleKey,
           WalkBranches, NewOneof, OneofTurn, DropField, RejectField, WriteLeaf,
           WriteCollection, Pick, RejectPick, Lift, RejectLift, Nest, Cycle, Descend,
           Descends, KeptField, FieldTurn, Walking, Return, Finish, Refuse, Walked
  <2>2. err # "collision"
    BY <2>1 DEF CollisionInv
  <2>3. err' \in {err, "rules", "field", "cycle"} \/ Refuse
    BY <1>2 DEF Next, Begin, RejectRules, SkipOneof, OmitOneof, TagOneof, SingleKey,
           WalkBranches, DropField, RejectField, WriteLeaf, WriteCollection, Emit, Pick,
           RejectPick, Lift, RejectLift, Nest, Cycle, Descend, Return, Finish, Failure
  <2>4. CASE Refuse
    <3>1. phase' = "failed" /\ entries' = entries \o Merges /\ Refused(entries \o Merges)
      BY <2>4 DEF Refuse
    <3>2. Conflicts(Analysed(entries')) # {}
      BY <3>1 DEF Refused
    <3> QED
      BY <3>1, <3>2 DEF CollisionInv
  <2> QED
    BY <2>2, <2>3, <2>4 DEF CollisionInv
<1> QED
  BY <1>1, <1>2

(* What is reported of a plan with conflicts is one of them.               *)
LEMMA ReportedConflict ==
    ASSUME NEW p, DOMAIN p \subseteq Nat, Conflicts(p) # {}
    PROVE  FirstConflict(p) \in Conflicts(p)
<1> DEFINE heads == {a \in DOMAIN p : ~Dynamic(p[a]) /\ p[a].key \in ContestedKeys(p)}
           key == p[Min(heads)].key
           firsts == {a \in DOMAIN p : /\ p[a].key = key
                                       /\ \E b \in DOMAIN p : <<a, b>> \in Conflicts(p)}
           seconds == {b \in DOMAIN p : <<Min(firsts), b>> \in Conflicts(p)}
<1>1. ASSUME NEW ab \in Conflicts(p)
      PROVE  /\ ab[1] \in DOMAIN p /\ ab[2] \in DOMAIN p
             /\ ab = <<ab[1], ab[2]>>
             /\ ~Dynamic(p[ab[1]])
             /\ p[ab[1]].key \in ContestedKeys(p)
  BY DEF Conflicts, ContestedKeys
<1>2. heads # {} /\ heads \in SUBSET Nat
  BY <1>1
<1>3. Min(heads) \in heads
  BY <1>2, MinMember
<1>4. firsts # {} /\ firsts \in SUBSET Nat
  <2>1. PICK ab \in Conflicts(p) : p[ab[1]].key = key
    BY <1>3 DEF ContestedKeys
  <2>2. ab[1] \in firsts
    BY <1>1, <2>1
  <2> QED
    BY <2>2
<1>5. Min(firsts) \in firsts
  BY <1>4, MinMember
<1>6. seconds # {} /\ seconds \in SUBSET Nat
  BY <1>5
<1>7. Min(seconds) \in seconds
  BY <1>6, MinMember
<1>8. FirstConflict(p) = <<Min(firsts), Min(seconds)>>
  BY DEF FirstConflict
<1> QED
  BY <1>7, <1>8

(* Paths that part only where the walk of the one had stopped are walked   *)
(* alike.                                                                  *)
LEMMA WalkedSame ==
    ASSUME NEW p \in Path, NEW q \in Path, NEW n \in DOMAIN p \cap DOMAIN q,
           Prefix(p, n - 1) = Prefix(q, n - 1), n \notin DOMAIN Walked_(p)
    PROVE  Walked_(q) = Walked_(p)
<1> DEFINE stops(r) == {k \in DOMAIN r : \/ FieldOf(schema, r[k]).pick # <<>>
                                         \/ FieldOf(schema, r[k]).lift # <<>>}
<1>1. /\ DOMAIN p = 1..Len(p) /\ DOMAIN q = 1..Len(q) /\ Len(p) \in Nat /\ Len(q) \in Nat
      /\ n - 1 \in Nat /\ n - 1 <= Len(p) /\ n - 1 <= Len(q) /\ n \in Nat
  BY DEF Path
<1>2. \A k \in 1..n - 1 : p[k] = q[k]
  BY <1>1, PrefixesAgree
<1>3. \A k \in 1..n - 1 : k \in stops(p) <=> k \in stops(q)
  BY <1>1, <1>2
<1>4. /\ Walked_(p) = IF stops(p) = {} THEN p ELSE Prefix(p, Min(stops(p)))
      /\ Walked_(q) = IF stops(q) = {} THEN q ELSE Prefix(q, Min(stops(q)))
  BY DEF Walked_
<1>5. /\ stops(p) \in SUBSET Nat /\ stops(p) \subseteq 1..Len(p)
      /\ stops(q) \in SUBSET Nat /\ stops(q) \subseteq 1..Len(q)
  BY <1>1
<1> HIDE DEF stops
<1>6. stops(p) # {}
  BY <1>4
<1> DEFINE m == Min(stops(p))
<1>7. m \in stops(p) /\ m \in 1..Len(p) /\ \A k \in stops(p) : m <= k
  BY <1>5, <1>6, MinMember
<1>8. m <= n - 1
  <2>1. m \in 0..Len(p)
    BY <1>1, <1>7
  <2>2. Prefix(p, m) \in Path /\ Len(Prefix(p, m)) = m
    BY <2>1, PrefixFacts
  <2>3. DOMAIN Prefix(p, m) = 1..m
    BY <2>2 DEF Path
  <2> QED
    BY <1>1, <1>4, <1>6, <1>7, <2>3
<1>9. m \in 1..n - 1 /\ m \in stops(q)
  BY <1>1, <1>3, <1>7, <1>8
<1>10. Min(stops(q)) \in stops(q) /\ Min(stops(q)) <= m
  BY <1>5, <1>9, MinMember
<1>11. Min(stops(q)) \in 1..n - 1
  BY <1>1, <1>5, <1>9, <1>10
<1>12. Min(stops(q)) = m
  <2>1. Min(stops(q)) \in stops(p)
    BY <1>3, <1>10, <1>11
  <2>2. m <= Min(stops(q))
    BY <1>7, <2>1
  <2> QED
    BY <1>9, <1>10, <1>11, <2>2
<1>13. Prefix(p, m) = Prefix(q, m)
  <2>1. m \in Nat /\ m <= Len(p) /\ m <= Len(q) /\ \A k \in 1..m : p[k] = q[k]
    BY <1>1, <1>2, <1>9
  <2> QED
    BY <2>1, PrefixesAgree
<1> QED
  BY <1>4, <1>6, <1>9, <1>12, <1>13

(* Without oneofs inside oneofs, an entry bears the id of the one oneof    *)
(* the walk went through on the way to it.                                 *)
LEMMA SoleOneof ==
    ASSUME FlatOneofs, WalkInv, NEW e \in SafeEntry, EntryChained(e),
           NEW n \in DOMAIN Walked_(e.path), OneofAt(e.path[n]) # 0
    PROVE  /\ e.path[n][1] = LevelMsg(Prefix(e.path, n - 1))
           /\ <<Prefix(e.path, n - 1), <<e.path[n][1], OneofAt(e.path[n])>> >> \in EntryOneofs(e)
<1> DEFINE w == Walked_(e.path)
<1>1. Begins(w, e.path) /\ n \in DOMAIN w /\ Chained(w)
  BY WalkedBegins DEF EntryChained
<1>2. /\ schema \in Schemas /\ top \in Msg
      /\ e.path \in SafePath
  BY DEF WalkInv, TypeOK, SafeEntry
<1>3. w \in SafePath /\ w \in Path
  BY <1>1, <1>2, SafeBegins DEF Begins
<1> HIDE DEF w
<1>4. /\ DOMAIN w = 1..Len(w) /\ Len(w) \in Nat /\ n - 1 \in 0..Len(w)
      /\ \A k \in 0..Len(w) : Prefix(e.path, k) = Prefix(w, k)
      /\ \A k \in DOMAIN w : e.path[k] = w[k]
  <2>1. /\ \A k \in 0..Len(w) : Prefix(e.path, k) = Prefix(w, k)
        /\ \A k \in DOMAIN w : e.path[k] = w[k]
    BY <1>1, BeginsFacts DEF Begins
  <2>2. DOMAIN w = 1..Len(w) /\ Len(w) \in Nat
    BY <1>3 DEF Path
  <2> QED
    BY <1>1, <2>1, <2>2
<1>5. Prefix(e.path, n - 1) = Prefix(w, n - 1) /\ e.path[n] = w[n]
  BY <1>1, <1>4
<1>6. w[n][1] = LevelMsg(Prefix(w, n - 1))
  BY <1>1 DEF Chained
<1>7. CASE e.kind # "oneofValue"
  <2>1. w # <<>>
    BY <1>1, <1>4
  <2>2. InlinePath(schema, top, w)
    BY <1>1, <1>3, <2>1, ChainedPath
  <2>3. \A k \in DOMAIN w : OneofAt(w[k]) # 0 => k = n
    BY <1>1, <1>2, <1>3, <1>5, <2>2 DEF FlatOneofs, OneofAt
  <2>4. \A k \in DOMAIN w : k > n => OneofAt(w[k]) = 0
    BY <1>4, <2>3
  <2>5. n \in LastOneof(w)
    BY <1>1, <1>5, <2>4 DEF LastOneof
  <2>6. EntryOneofs(e) = Innermost(w)
    BY <1>7 DEF EntryOneofs, w
  <2> QED
    BY <1>5, <1>6, <2>5, <2>6 DEF Innermost
<1>8. CASE e.kind = "oneofValue"
  <2>1. w = e.path
    BY <1>8 DEF EntryChained, w
  <2>2. PICK m \in AllFields(e.oneof[1]) : /\ BranchStep(e.oneof, <<e.oneof[1], m>>)
                                           /\ Chained(Append(e.path, <<e.oneof[1], m>>))
    BY <1>8 DEF EntryChained
  <2> DEFINE s == <<e.oneof[1], m>>
             r == Append(w, s)
  <2>3. s \in SafeStep /\ s \in Step /\ OneofAt(s) # 0
    BY <2>2 DEF BranchStep, SafeStep
  <2>4. Chained(r)
    BY <2>1, <2>2
  <2> HIDE DEF s
  <2>5. r \in SafePath /\ r # <<>>
    BY <1>3, <2>3 DEF SafePath
  <2>6. /\ Begins(w, r) /\ r[Len(w) + 1] = s /\ DOMAIN r = DOMAIN w \cup {Len(w) + 1}
    BY <1>3, <2>3, BeginsLonger
  <2> HIDE DEF r
  <2>7. InlinePath(schema, top, r) /\ r \in Path
    BY <2>4, <2>5, <2>6, ChainedPath DEF Begins
  <2>8. r[n] = w[n] /\ n \in DOMAIN r /\ Len(w) + 1 \in DOMAIN r
    BY <1>1, <2>6 DEF Begins
  <2>9. n = Len(w) + 1
    BY <1>2, <1>5, <2>3, <2>6, <2>7, <2>8 DEF FlatOneofs, OneofAt
  <2> QED
    BY <1>1, <1>4, <2>9
<1> QED
  BY <1>7, <1>8

(* Where paths part beyond the walk of the one, they do so in one lift,    *)
(* which takes nothing from inside a oneof.                                *)
LEMMA BeyondWalk ==
    ASSUME LiftsOutside, WalkInv,
           NEW e \in SafeEntry, NEW f \in SafeEntry, EntryChained(e), EntryChained(f),
           NEW n \in DOMAIN e.path \cap DOMAIN f.path,
           Prefix(e.path, n - 1) = Prefix(f.path, n - 1), n \notin DOMAIN Walked_(e.path)
    PROVE  e.path[n] = f.path[n] \/ OneofAt(e.path[n]) = 0 \/ OneofAt(f.path[n]) = 0
<1> DEFINE w == Walked_(e.path)
           F == FieldOf(schema, Last_(w))
<1>1. e.path \in Path /\ f.path \in Path
  BY DEF SafeEntry, Entry
<1>2. Walked_(f.path) = w
  BY <1>1, WalkedSame
<1>3. e.path # w /\ f.path # w
  OBVIOUS
<1>4. w # <<>>
  BY <1>3 DEF EntryChained
<1>5. PICK t \in Taken(F) : e.path = w \o t
  BY <1>3 DEF EntryChained
<1>6. PICK u \in Taken(F) : f.path = w \o u
  BY <1>2, <1>3 DEF EntryChained
<1>7. schema \in Schemas /\ w \in Path /\ w \in SafePath
  <2>1. Begins(w, e.path) /\ e.path \in SafePath
    BY WalkedBegins DEF SafeEntry
  <2> QED
    BY <2>1, SafeBegins DEF Begins, WalkInv
<1> HIDE DEF w
<1>8. /\ DOMAIN w = 1..Len(w) /\ Len(w) \in Nat \ {0} /\ Last_(w) \in SafeStep
  BY <1>4, <1>7, EmptySeq DEF SafePath, Last_
<1>9. /\ Last_(w)[1] \in Msg /\ Last_(w)[2] \in DOMAIN schema[Last_(w)[1]].fields
      /\ F = schema[Last_(w)[1]].fields[Last_(w)[2]]
  BY <1>8 DEF SafeStep, Step, FieldOf
<1>10. F \in Field
  <2>1. schema \in Schema
    BY DEF WalkInv, TypeOK
  <2>2. schema[Last_(w)[1]].fields \in Seq(Field)
    BY <1>9, <2>1 DEF Schema, Message
  <2> QED
    BY <1>9, <2>2
<1>11. F.pick \in Path /\ F.lift \in Seq([path : Path, as : Name])
  BY <1>10 DEF Field
<1>12. \A l \in Elements(F.lift) : l.path \in Path /\ OutsideOneofs(schema, l.path)
  <2>1. /\ \A l \in Elements(F.lift) : l \in [path : Path, as : Name]
        /\ \A l \in Elements(F.lift) : OutsideOneofs(schema, l.path)
    <3> DEFINE m == Last_(w)[1]
               k == Last_(w)[2]
    <3>1. m \in Msg /\ k \in DOMAIN schema[m].fields /\ F = schema[m].fields[k]
      BY <1>9
    <3> HIDE DEF m, k, F
    <3>2. \A l \in Elements(F.lift) : OutsideOneofs(schema, l.path)
      BY <1>7, <3>1 DEF LiftsOutside
    <3>3. \A j \in DOMAIN F.lift : F.lift[j] \in [path : Path, as : Name]
      <4> DEFINE s == F.lift
                 L == [path : Path, as : Name]
      <4>1. s \in Seq(L)
        BY <1>11
      <4> HIDE DEF s, L
      <4>2. \A j \in DOMAIN s : s[j] \in L
        BY <4>1
      <4> QED
        BY <4>2 DEF s, L
    <3>4. \A l \in Elements(F.lift) : l \in [path : Path, as : Name]
      BY <3>3 DEF Elements
    <3> QED
      BY <3>2, <3>4
  <2> QED
    BY <2>1
<1> HIDE DEF F
<1>13. \A v \in Taken(F) : v \in Path /\ (v = F.pick \/ OutsideOneofs(schema, v))
  BY <1>11, <1>12 DEF Taken
<1>14. ASSUME NEW v \in Taken(F), n \in DOMAIN (w \o v)
       PROVE  n - Len(w) \in DOMAIN v /\ (w \o v)[n] = v[n - Len(w)]
  <2>1. v \in Seq(Step) /\ w \in Seq(Step) /\ Len(v) \in Nat /\ DOMAIN v = 1..Len(v)
    BY <1>7, <1>13 DEF Path
  <2>2. n \in 1..Len(w) + Len(v) /\ n \notin 1..Len(w)
    BY <1>8, <1>14, <2>1 DEF w
  <2> QED
    BY <1>8, <2>1, <2>2, ConcatProperties
<1>15. /\ n - Len(w) \in DOMAIN t /\ e.path[n] = t[n - Len(w)]
       /\ n - Len(w) \in DOMAIN u /\ f.path[n] = u[n - Len(w)]
  BY <1>5, <1>6, <1>14
<1> QED
  BY <1>13, <1>15 DEF OutsideOneofs, OneofAt

(* Entries inside different branches of one oneof share its id.            *)
LEMMA BranchesShareId ==
    ASSUME FlatOneofs, LiftsOutside, WalkInv, ChainsInv, OneIdInv,
           NEW x \in DOMAIN entries, NEW y \in DOMAIN entries,
           DifferentBranches(entries[x], entries[y])
    PROVE  ExclusiveOf(entries[x], entries[y])
<1> DEFINE e == entries[x]
           f == entries[y]
<1>1. /\ e \in SafeEntry /\ f \in SafeEntry /\ EntryChained(e) /\ EntryChained(f)
      /\ EntryBearer(e) \in Holders /\ EntryBearer(f) \in Holders
  BY DEF WalkInv, ChainsInv, Elements, Holders
<1>2. PICK n \in DOMAIN e.path \cap DOMAIN f.path :
          /\ Prefix(e.path, n - 1) = Prefix(f.path, n - 1)
          /\ e.path[n] # f.path[n]
          /\ OneofAt(e.path[n]) # 0
          /\ OneofAt(e.path[n]) = OneofAt(f.path[n])
  BY DEF DifferentBranches
<1> HIDE DEF e, f
<1>3. n \in DOMAIN Walked_(e.path) /\ n \in DOMAIN Walked_(f.path)
  BY <1>1, <1>2, BeyondWalk
<1>4. EntryOneofs(e) \cap EntryOneofs(f) # {}
  BY <1>1, <1>2, <1>3, SoleOneof
<1>5. /\ EntryBearer(e).oneofs = EntryOneofs(e) /\ EntryBearer(e).id = e.excl
      /\ EntryBearer(f).oneofs = EntryOneofs(f) /\ EntryBearer(f).id = f.excl
  BY DEF EntryBearer, Bearer
<1>6. e.excl = f.excl /\ e.excl # 0
  BY <1>1, <1>4, <1>5 DEF OneIdInv, OneId
<1> QED
  BY <1>6 DEF ExclusiveOf, e, f

(* Two sources refused for their key are not in different branches of one  *)
(* oneof: for all message types where no oneof comes to be inside another, *)
(* groups have no members inside oneofs and lifts take nothing from inside *)
(* oneofs.                                                                 *)
THEOREM RefusalsJust ==
    ASSUME FlatOneofs, GroupsOutside, LiftsOutside
    PROVE  Spec => []RefusalIsJust
<1>1. WalkInv /\ ChainsInv /\ OneIdInv /\ CollisionInv => RefusalIsJust
  <2> SUFFICES ASSUME WalkInv, ChainsInv, OneIdInv, CollisionInv, err = "collision"
               PROVE  LET ab == FirstConflict(Analysed(entries))
                      IN  ~DifferentBranches(entries[ab[1]], entries[ab[2]])
    BY DEF RefusalIsJust
  <2> DEFINE plan == Analysed(entries)
             ab == FirstConflict(plan)
  <2>1. /\ DOMAIN plan = DOMAIN entries /\ DOMAIN plan \subseteq Nat
        /\ \A n \in DOMAIN plan : plan[n].excl = entries[n].excl
    BY DEF WalkInv, Analysed
  <2>2. Conflicts(plan) # {}
    BY DEF CollisionInv
  <2> HIDE DEF plan
  <2>3. ab \in Conflicts(plan)
    BY <2>1, <2>2, ReportedConflict
  <2>4. /\ ab[1] \in DOMAIN plan /\ ab[2] \in DOMAIN plan
        /\ ~ExclusiveOf(plan[ab[1]], plan[ab[2]])
    BY <2>3 DEF Conflicts
  <2> HIDE DEF ab
  <2>5. ~ExclusiveOf(entries[ab[1]], entries[ab[2]])
    BY <2>1, <2>4 DEF ExclusiveOf
  <2>6. ~DifferentBranches(entries[ab[1]], entries[ab[2]])
    BY <2>1, <2>4, <2>5, BranchesShareId
  <2> QED
    BY <2>6 DEF ab, plan
<1>2. WalkInv /\ LevelsInv /\ [Next]_vars => LevelsInv'
  BY LevelsStep
<1>3. WalkInv /\ LevelsInv /\ FormatsInv /\ [Next]_vars => FormatsInv'
  BY FormatsStep
<1>4. WalkInv /\ LevelsInv /\ AheadInv /\ [Next]_vars => AheadInv'
  BY AheadStep
<1>5. WalkInv /\ ChainsInv /\ FormatsInv /\ [Next]_vars => ChainsInv'
  BY ChainsStep
<1>6. /\ WalkInv /\ LevelsInv /\ FormatsInv /\ AheadInv /\ ChainsInv /\ OneIdInv
      /\ [Next]_vars
      => OneIdInv'
  BY OneIdStep
<1>7. CollisionInv /\ [Next]_vars => CollisionInv'
  BY CollisionStep
<1> QED
  BY <1>1, <1>2, <1>3, <1>4, <1>5, <1>6, <1>7, LevelsInit, FormatsInit, JustInit, CollisionInit,
     WalkInvariant, PTL DEF Spec
=============================================================================
