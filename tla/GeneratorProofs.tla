--------------------------- MODULE GeneratorProofs -------------------------
(***************************************************************************)
(* Theorems of Generator for all files, message types and options.         *)
(***************************************************************************)
EXTENDS Generator, PlanWalkProofs

-----------------------------------------------------------------------------
(* The inductive invariant                                                 *)

(* Where declareEnums' walk may be: at a message, or at a field it has.    *)
Place == {s \in Msg \X Nat : s[2] = 0 \/ s[2] \in DOMAIN schema[s[1]].fields}

OnAgenda(place) == \E k \in DOMAIN agenda : agenda[k] = place

Helped(enum, does) == \E h \in helpers : h.enum = enum /\ h.does = does

(* The enum a field holds has the helpers its values are written with.     *)
Resolved(step) ==
    \A enum \in EnumsOf(step) :
        Helped(enum, "name") /\ (enum \in Omitting => Helped(enum, "omit"))

(* A message declareEnums has met, or still will.                          *)
Met(m) == m \in seen \/ OnAgenda(<<m, 0>>)

(* Helpers of the same use have different names.                           *)
GoodHelpers(declared) ==
    /\ declared \subseteq [enum : DOMAIN EnumSymbol, does : {"name", "omit"}, name : Ident]
    /\ IsFiniteSet(declared)
    /\ \A g, h \in declared : g # h => <<g.does, g.name>> # <<h.does, h.name>>

(* Everything that can be reached from the file has its helpers by the     *)
(* time the first encoder is named.                                        *)
DeclInv ==
    /\ roots \subseteq Asking /\ left \subseteq Asking
    /\ agenda \in Seq(Place)
    /\ seen \subseteq Msg
    /\ GoodHelpers(helpers)
    /\ \A n \in Asking : n \in roots \/ Met(FileOrder[n])
    /\ \A m \in seen : \A n \in DOMAIN schema[m].fields :
          \/ OnAgenda(<<m, n>>)
          \/ /\ Resolved(<<m, n>>)
             /\ schema[m].fields[n].type \in Msg => Met(schema[m].fields[n].type)

KnownEncoder == {x \in Encoder : x.sc \in KnownScope}

(* Names are handed out once: the message's own or numbered below the size *)
(* of the table.                                                           *)
NamesInv ==
    /\ names \subseteq [msg : Msg, print : Fingerprints, name : Ident]
    /\ IsFiniteSet(names)
    /\ \A n \in names :
          \/ n.name = schema[n.msg].symbol
          \/ \E c \in 0..Cardinality(names) - 1 : n.name = Append(schema[n.msg].symbol, c)

(* Every call is of a named encoder; the first call of one queued it, and  *)
(* every name belongs to an encoder that is queued, being written or       *)
(* written.                                                                *)
JobsInv ==
    /\ queue \in Seq(KnownEncoder)
    /\ current \in KnownEncoder
    /\ bodies \in Seq([name : Ident, msg : Msg, root : Scope])
    /\ calls \subseteq KnownEncoder
    /\ \A c \in calls :
          /\ [msg |-> c.msg, print |-> Fingerprint(c.sc), name |-> c.name] \in names
          /\ c.msg \in seen
    /\ \A x \in DOMAIN queue : queue[x] \in calls
    /\ phase # "idle" => current \in calls
    /\ \A x \in DOMAIN bodies :
          \E c \in calls : bodies[x] = [name |-> c.name, msg |-> c.msg,
                                       root |-> RootOf(schema, c.msg, c.sc)]
    /\ \A n \in names : \/ \E x \in DOMAIN queue : queue[x].name = n.name
                        \/ \E x \in DOMAIN bodies : bodies[x].name = n.name
                        \/ phase # "idle" /\ current.name = n.name

(* The plan of the encoder being written is that of its message.           *)
PlanInv ==
    /\ schema \in Schemas
    /\ phase # "idle" => /\ WalkInv
                         /\ top = current.msg /\ root = RootOf(schema, top, current.sc)
    /\ at \in Nat /\ call \in Nat
    /\ ~AllDeclared => queue = <<>> /\ phase = "idle" /\ names = {}

GenInv == DeclInv /\ NamesInv /\ JobsInv /\ PlanInv

(* No message's Go name is another's with a number at its end.             *)
NoNumberedSymbols ==
    \A s \in Schemas : \A m, k \in Msg : \A n \in Nat :
        s[m].symbol # Append(s[k].symbol, n)

(* The encoders that are queued, being written and written have different  *)
(* names.                                                                  *)
Apart ==
    /\ \A a, b \in names : a.name = b.name => a = b
    /\ \A x, y \in DOMAIN queue : x # y => queue[x].name # queue[y].name
    /\ \A x, y \in DOMAIN bodies : x # y => bodies[x].name # bodies[y].name
    /\ \A x \in DOMAIN queue : \A y \in DOMAIN bodies : queue[x].name # bodies[y].name
    /\ phase # "idle" =>
          /\ \A x \in DOMAIN queue : queue[x].name # current.name
          /\ \A x \in DOMAIN bodies : bodies[x].name # current.name

-----------------------------------------------------------------------------
(* The enum helpers                                                        *)

(* A sequence and a number at its end determine each other.                *)
LEMMA NumberedName ==
    ASSUME NEW T, NEW s \in Seq(T), NEW t \in Seq(T), NEW m, NEW n,
           Append(s, m) = Append(t, n)
    PROVE  m = n
<1>1. Len(s) = Len(t)
  <2>1. Len(Append(s, m)) = Len(s) + 1 /\ Len(Append(t, n)) = Len(t) + 1
    OBVIOUS
  <2>2. Len(s) \in Nat /\ Len(t) \in Nat
    OBVIOUS
  <2> QED
    BY <2>1, <2>2
<1>2. Append(s, m)[Len(s) + 1] = m /\ Append(t, n)[Len(t) + 1] = n
  OBVIOUS
<1> QED
  BY <1>1, <1>2

(* uniqueEnumName: the number it looks for exists, so no declared helper   *)
(* of the same use has the name.                                           *)
LEMMA HelperNameIsFree ==
    ASSUME NEW declared, GoodHelpers(declared), NEW does \in {"name", "omit"},
           NEW symbol \in Ident
    PROVE  /\ HelperName(does, symbol, declared) \in Ident
           /\ \A h \in declared :
                 h.does = does => h.name # HelperName(does, symbol, declared)
<1> DEFINE taken(name) == \E h \in declared : h.does = does /\ h.name = name
           last == Cardinality(declared) + 2
           free == {i \in 2..last : ~taken(Append(symbol, i))}
           number == CHOOSE i \in 2..last : /\ ~taken(Append(symbol, i))
                                            /\ \A j \in 2..i - 1 : taken(Append(symbol, j))
<1>1. IsFiniteSet(declared) /\ Cardinality(declared) \in Nat
  BY FS_CardinalityType DEF GoodHelpers
<1>2. free # {}
  <2> SUFFICES ASSUME \A i \in 2..last : taken(Append(symbol, i)) PROVE FALSE
    OBVIOUS
  <2> DEFINE holder == [i \in 2..last |-> CHOOSE h \in declared : h.does = does
                                              /\ h.name = Append(symbol, i)]
  <2>1. \A i \in 2..last : holder[i] \in declared /\ holder[i].name = Append(symbol, i)
    OBVIOUS
  <2>2. holder \in [2..last -> declared]
    BY <2>1
  <2>3. IsFiniteSet(2..last) /\ Cardinality(2..last) = Cardinality(declared) + 1
    BY <1>1, FS_Interval
  <2> HIDE DEF holder
  <2>4. PICK x, y \in 2..last : x # y /\ holder[x] = holder[y]
    <3> DEFINE S == 2..last
    <3>1. Cardinality(declared) < Cardinality(S) /\ IsFiniteSet(S) /\ holder \in [S -> declared]
      BY <1>1, <2>2, <2>3
    <3> HIDE DEF S
    <3>2. \E x, y \in S : x # y /\ holder[x] = holder[y]
      BY <1>1, <3>1, FS_PigeonHole
    <3> QED
      BY <3>2 DEF S
  <2>5. Append(symbol, x) = Append(symbol, y)
    BY <2>1, <2>4
  <2> QED
    BY <2>4, <2>5, NumberedName DEF Ident
<1>3. number \in 2..last /\ ~taken(Append(symbol, number))
  <2>1. free \in SUBSET Nat
    BY <1>1
  <2>2. Min(free) \in free /\ \A j \in free : Min(free) <= j
    BY <1>2, <2>1, MinMember
  <2> HIDE DEF taken
  <2>3. Min(free) \in 2..last /\ ~taken(Append(symbol, Min(free)))
    BY <2>2
  <2>4. ASSUME NEW j \in 2..Min(free) - 1
        PROVE  taken(Append(symbol, j))
    <3>1. Min(free) \in Nat /\ last \in Nat
      BY <1>1, <2>3
    <3>2. j \in 2..last /\ ~(Min(free) <= j)
      <4> HIDE DEF free, last
      <4> QED
        BY <2>3, <3>1
    <3> QED
      BY <2>2, <3>2
  <2> HIDE DEF last, free
  <2> QED
    BY <2>3, <2>4
<1>4. Append(symbol, number) \in Ident
  <2>1. number \in Name \cup Nat
    BY <1>1, <1>3
  <2> HIDE DEF number
  <2> QED
    BY <2>1 DEF Ident
<1>5. HelperName(does, symbol, declared) =
          IF taken(symbol) THEN Append(symbol, number) ELSE symbol
  BY DEF HelperName
<1> HIDE DEF number
<1> QED
  BY <1>3, <1>4, <1>5

(* Declaring a helper keeps the table good and gives the enum its helper.  *)
LEMMA DeclaredFacts ==
    ASSUME NEW declared, GoodHelpers(declared), NEW does \in {"name", "omit"},
           NEW enum \in DOMAIN EnumSymbol
    PROVE  LET after == Declared(enum, does, declared)
           IN  /\ GoodHelpers(after)
               /\ declared \subseteq after
               /\ \E h \in after : h.enum = enum /\ h.does = does
<1> DEFINE name == HelperName(does, EnumSymbol[enum], declared)
           new  == [enum |-> enum, does |-> does, name |-> name]
<1>1. EnumSymbol[enum] \in Ident
  BY EnumAssumption DEF Range, Ident
<1>2. name \in Ident /\ \A h \in declared : h.does = does => h.name # name
  BY <1>1, HelperNameIsFree
<1> HIDE DEF name
<1>3. CASE \E h \in declared : h.enum = enum /\ h.does = does
  BY <1>3 DEF Declared
<1>4. CASE ~(\E h \in declared : h.enum = enum /\ h.does = does)
  <2>1. Declared(enum, does, declared) = declared \cup {new}
    BY <1>4 DEF Declared, name
  <2>2. IsFiniteSet(declared \cup {new})
    BY FS_AddElement DEF GoodHelpers
  <2>3. GoodHelpers(declared \cup {new})
    BY <1>2, <2>2 DEF GoodHelpers
  <2>4. new \in declared \cup {new} /\ new.enum = enum /\ new.does = does
    OBVIOUS
  <2> HIDE DEF new
  <2> QED
    BY <2>1, <2>3, <2>4
<1> QED
  BY <1>3, <1>4

(* declareEnum and declareEnumOmitter give an enum what it needs.          *)
LEMMA WithHelpersFacts ==
    ASSUME GoodHelpers(helpers), NEW enum \in DOMAIN EnumSymbol
    PROVE  /\ GoodHelpers(WithHelpers(enum))
           /\ helpers \subseteq WithHelpers(enum)
           /\ \E h \in WithHelpers(enum) : h.enum = enum /\ h.does = "name"
           /\ enum \in Omitting =>
                 \E h \in WithHelpers(enum) : h.enum = enum /\ h.does = "omit"
<1> DEFINE named == Declared(enum, "name", helpers)
<1>1. GoodHelpers(named) /\ helpers \subseteq named
      /\ \E h \in named : h.enum = enum /\ h.does = "name"
  BY DeclaredFacts
<1> HIDE DEF named
<1>2. LET after == Declared(enum, "omit", named)
      IN  /\ GoodHelpers(after)
          /\ named \subseteq after
          /\ \E h \in after : h.enum = enum /\ h.does = "omit"
  BY <1>1, DeclaredFacts
<1> QED
  BY <1>1, <1>2 DEF WithHelpers, named

-----------------------------------------------------------------------------
(* declareEnums                                                            *)

(* The field a place stands for.                                           *)
LEMMA PlaceField ==
    ASSUME schema \in Schemas, NEW m \in Msg, NEW n \in DOMAIN schema[m].fields
    PROVE  /\ n \in Nat \ {0}
           /\ FieldOf(schema, <<m, n>>) = schema[m].fields[n]
           /\ schema[m].fields[n].type \in Msg \cup {NoMsg}
           /\ <<m, n>> \in Place
<1>1. schema[m].fields \in Seq(Field) /\ schema[m].fields[n] \in Field
  BY SchemaFacts DEF Message
<1>2. n \in Nat \ {0}
  BY <1>1
<1> QED
  BY <1>1, <1>2 DEF FieldOf, Field, Place

(* The walk takes the first place off its agenda and puts others before    *)
(* the rest.                                                               *)
LEMMA AgendaMoves ==
    ASSUME agenda \in Seq(Place), agenda # <<>>, NEW new \in Seq(Place),
           agenda' = new \o Tail(agenda)
    PROVE  /\ agenda' \in Seq(Place)
           /\ \A place : place \in Elements(new) => OnAgenda(place)'
           /\ \A place : OnAgenda(place) /\ place # Head(agenda) => OnAgenda(place)'
<1> DEFINE rest == Tail(agenda)
<1>1. rest \in Seq(Place) /\ Len(rest) = Len(agenda) - 1
      /\ \A n \in 1..Len(rest) : rest[n] = agenda[n + 1]
  BY DEF rest
<1>2. Head(agenda) = agenda[1] /\ Len(agenda) \in Nat \ {0} /\ DOMAIN agenda = 1..Len(agenda)
  OBVIOUS
<1>3. agenda' \in Seq(Place) /\ Len(agenda') = Len(new) + Len(rest)
  BY <1>1, ConcatProperties
<1>4. DOMAIN agenda' = 1..Len(new) + Len(rest) /\ DOMAIN new = 1..Len(new)
      /\ Len(new) \in Nat /\ Len(rest) \in Nat
  BY <1>1, <1>3
<1>5. ASSUME NEW place \in Elements(new)
      PROVE  OnAgenda(place)'
  <2>0. PICK n \in DOMAIN new : place = new[n]
    BY DEF Elements
  <2>1. agenda'[n] = place /\ n \in DOMAIN agenda'
    BY <1>1, <1>4, <2>0, ConcatProperties DEF rest
  <2> QED
    BY <2>1 DEF OnAgenda
<1>6. ASSUME NEW place, OnAgenda(place), place # Head(agenda)
      PROVE  OnAgenda(place)'
  <2>1. PICK k \in DOMAIN agenda : agenda[k] = place
    BY <1>6 DEF OnAgenda
  <2>2. k \in 2..Len(agenda)
    BY <1>2, <1>6, <2>1
  <2>3. k - 1 \in 1..Len(rest) /\ rest[k - 1] = place
    BY <1>1, <1>2, <2>1, <2>2
  <2> DEFINE i == Len(new) + (k - 1)
  <2>4. i \in Len(new) + 1..Len(new) + Len(rest) /\ i - Len(new) = k - 1
    BY <1>4, <2>2, <2>3
  <2>5. agenda'[i] = rest[k - 1]
    <3> HIDE DEF i, rest
    <3>1. (new \o rest)[i] = rest[i - Len(new)]
      BY <1>1, <2>4
    <3> QED
      BY <2>4, <3>1 DEF rest
  <2>6. i \in DOMAIN agenda'
    BY <1>4, <2>4
  <2> QED
    BY <2>3, <2>5, <2>6 DEF OnAgenda
<1> QED
  BY <1>3, <1>5, <1>6

(* What declareEnums changes leaves names, jobs and plans alone.           *)
LEMMA OthersKept ==
    ASSUME GenInv, ~AllDeclared, seen \subseteq seen',
           UNCHANGED <<vars, left, names, queue, current, at, call, bodies, calls>>
    PROVE  NamesInv' /\ JobsInv' /\ PlanInv'
<1>1. queue = <<>> /\ phase = "idle" /\ names = {} /\ phase' = "idle" /\ schema' = schema
  BY DEF GenInv, PlanInv, vars, planVars
<1>2. NamesInv'
  BY <1>1 DEF GenInv, NamesInv
<1>3. PlanInv'
  BY <1>1 DEF GenInv, PlanInv
<1>4. JobsInv'
  BY <1>1 DEF GenInv, JobsInv, KnownEncoder, RootOf
<1> QED
  BY <1>2, <1>3, <1>4

LEMMA DeclareRootStep ==
    ASSUME GenInv, DeclareRoot
    PROVE  GenInv'
<1>1. roots \subseteq Asking /\ roots # {} /\ agenda = <<>> /\ ~AllDeclared
  BY DEF GenInv, DeclInv, DeclareRoot, AllDeclared
<1>2. FileOrder \in Seq(Msg)
  BY FileAssumption
<1>3. roots \in SUBSET Nat
  BY <1>1, <1>2 DEF Asking
<1>4. PICK r \in roots : r = Min(roots) /\ r \in DOMAIN FileOrder /\ FileOrder[r] \in Msg
  <2>1. Min(roots) \in roots
    BY <1>1, <1>3, MinMember
  <2>2. Min(roots) \in DOMAIN FileOrder /\ FileOrder[Min(roots)] \in Msg
    BY <1>1, <1>2, <2>1 DEF Asking
  <2> QED
    BY <2>1, <2>2
<1>5. /\ agenda' = << <<FileOrder[r], 0>> >> /\ roots' = roots \ {r}
      /\ UNCHANGED <<vars, seen, helpers, left, names, queue, current, at, call, bodies, calls>>
  BY <1>4 DEF DeclareRoot
<1>6. schema' = schema /\ Asking' = Asking /\ Place' = Place
  BY <1>5 DEF vars, Asking, Place
<1>7. \A place : ~OnAgenda(place)
  BY <1>1 DEF OnAgenda
<1>8. OnAgenda(<<FileOrder[r], 0>>)'
  BY <1>5 DEF OnAgenda
<1>9. \A m : Met(m) => Met(m)'
  BY <1>5, <1>7 DEF Met
<1>10. \A step : Resolved(step) => Resolved(step)'
  BY <1>5, <1>6 DEF Resolved, EnumsOf, Helped, FieldOf
<1>11. agenda' \in Seq(Place)
  <2>1. <<FileOrder[r], 0>> \in Place
    BY <1>4 DEF Place
  <2> QED
    BY <1>5, <2>1
<1>12. DeclInv'
  <2>1. \A n \in Asking : n \in roots' \/ Met(FileOrder[n])'
    <3>1. \A n \in Asking : n \in roots \/ Met(FileOrder[n])
      BY DEF GenInv, DeclInv
    <3>2. Met(FileOrder[r])'
      BY <1>8 DEF Met
    <3> QED
      BY <1>5, <1>9, <3>1, <3>2
  <2>2. \A m \in seen : \A n \in DOMAIN schema[m].fields :
           /\ Resolved(<<m, n>>)'
           /\ schema[m].fields[n].type \in Msg => Met(schema[m].fields[n].type)'
    BY <1>6, <1>7, <1>9, <1>10 DEF GenInv, DeclInv
  <2> QED
    BY <1>5, <1>6, <1>11, <2>1, <2>2 DEF GenInv, DeclInv, GoodHelpers
<1> QED
  BY <1>1, <1>5, <1>12, OthersKept DEF GenInv

LEMMA DeclareMessageStep ==
    ASSUME GenInv, DeclareMessage
    PROVE  GenInv'
<1>1. agenda \in Seq(Place) /\ agenda # <<>> /\ ~AllDeclared /\ schema \in Schemas
  BY DEF GenInv, DeclInv, PlanInv, DeclareMessage, AllDeclared
<1>2. Head(agenda) \in Place
  BY <1>1
<1>3. PICK m \in Msg : Head(agenda) = <<m, 0>>
  BY <1>2 DEF DeclareMessage, Place
<1> DEFINE fields == [n \in DOMAIN schema[m].fields |-> <<m, n>>]
           new == IF m \in seen THEN <<>> ELSE fields
<1>4. fields \in Seq(Place) /\ DOMAIN fields = DOMAIN schema[m].fields
  <2>1. schema[m].fields \in Seq(Field)
    BY <1>1, <1>3, SchemaFacts DEF Message
  <2>2. DOMAIN schema[m].fields = 1..Len(schema[m].fields) /\ Len(schema[m].fields) \in Nat
    BY <2>1
  <2>3. \A n \in DOMAIN schema[m].fields : <<m, n>> \in Place
    BY <1>1, <1>3, PlaceField
  <2>4. fields \in Seq(Place)
    BY <2>2, <2>3, IsASeq
  <2> QED
    BY <2>4
<1>5. /\ agenda' = new \o Tail(agenda)
      /\ seen' = seen \cup {m}
      /\ UNCHANGED <<vars, roots, helpers, left, names, queue, current, at, call, bodies, calls>>
  <2>1. <<>> \o Tail(agenda) = Tail(agenda)
    BY <1>1
  <2>2. Head(agenda)[1] = m
    BY <1>3
  <2>3. agenda' = IF m \in seen THEN Tail(agenda) ELSE fields \o Tail(agenda)
    BY <2>2 DEF DeclareMessage
  <2>4. seen' = seen \cup {m}
    BY <2>2 DEF DeclareMessage
  <2>5. agenda' = new \o Tail(agenda)
    BY <2>1, <2>3
  <2> QED
    BY <2>4, <2>5 DEF DeclareMessage
<1>6. schema' = schema /\ Asking' = Asking /\ Place' = Place
  BY <1>5 DEF vars, Asking, Place
<1>7. new \in Seq(Place)
  BY <1>4
<1>8. /\ agenda' \in Seq(Place)
      /\ \A place : place \in Elements(new) => OnAgenda(place)'
      /\ \A place : OnAgenda(place) /\ place # <<m, 0>> => OnAgenda(place)'
  <2> HIDE DEF new
  <2> QED
    BY <1>1, <1>3, <1>5, <1>7, AgendaMoves
<1>9. \A x : Met(x) => Met(x)'
  <2> HIDE DEF new
  <2> QED
    BY <1>5, <1>8 DEF Met
<1>10. \A step : Resolved(step) => Resolved(step)'
  BY <1>5, <1>6 DEF Resolved, EnumsOf, Helped, FieldOf
<1>11. DeclInv'
  <2>1. ASSUME NEW x \in seen', NEW n \in DOMAIN schema[x].fields
        PROVE  \/ OnAgenda(<<x, n>>)'
               \/ /\ Resolved(<<x, n>>)'
                  /\ schema[x].fields[n].type \in Msg => Met(schema[x].fields[n].type)'
    <3>1. CASE x \in seen
      <4>1. n # 0
        BY <1>1, <3>1, PlaceField DEF GenInv, DeclInv
      <4>2. \/ OnAgenda(<<x, n>>)
            \/ /\ Resolved(<<x, n>>)
               /\ schema[x].fields[n].type \in Msg => Met(schema[x].fields[n].type)
        BY <3>1 DEF GenInv, DeclInv
      <4> HIDE DEF new
      <4>3. OnAgenda(<<x, n>>) => OnAgenda(<<x, n>>)'
        BY <1>8, <4>1
      <4> QED
        BY <1>6, <1>9, <1>10, <4>2, <4>3
    <3>2. CASE x \notin seen
      <4>1. x = m /\ new = fields
        BY <1>5, <3>2
      <4>2. new[n] = <<x, n>> /\ n \in DOMAIN new
        BY <1>4, <4>1
      <4>3. <<x, n>> \in Elements(new)
        BY <4>2 DEF Elements
      <4> QED
        BY <1>8, <4>3
    <3> QED
      BY <3>1, <3>2
  <2>2. \A n \in Asking : n \in roots \/ Met(FileOrder[n])'
    BY <1>9 DEF GenInv, DeclInv
  <2>3. seen' \subseteq Msg
    BY <1>3, <1>5 DEF GenInv, DeclInv
  <2> HIDE DEF new, fields
  <2> QED
    BY <1>5, <1>6, <1>8, <2>1, <2>2, <2>3 DEF GenInv, DeclInv, GoodHelpers
<1> QED
  BY <1>1, <1>5, <1>11, OthersKept DEF GenInv

LEMMA DeclareFieldStep ==
    ASSUME GenInv, DeclareField
    PROVE  GenInv'
<1>1. agenda \in Seq(Place) /\ agenda # <<>> /\ ~AllDeclared /\ schema \in Schemas
      /\ GoodHelpers(helpers)
  BY DEF GenInv, DeclInv, PlanInv, DeclareField, AllDeclared
<1>2. Head(agenda) \in Place /\ Head(agenda)[2] # 0
  BY <1>1 DEF DeclareField
<1>3a. PICK m \in Msg : \E n \in DOMAIN schema[m].fields : Head(agenda) = <<m, n>>
  BY <1>2 DEF Place
<1>3. PICK n \in DOMAIN schema[m].fields : Head(agenda) = <<m, n>>
  BY <1>3a
<1>4. PICK f : f = schema[m].fields[n]
  OBVIOUS
<1>5. f = FieldOf(schema, <<m, n>>) /\ f.type \in Msg \cup {NoMsg} /\ n # 0
  BY <1>1, <1>4, PlaceField
<1>6. PICK enums : enums = EnumsOf(<<m, n>>)
  OBVIOUS
<1>7. /\ agenda' = Entered(f) \o Tail(agenda)
      /\ helpers' = helpers \cup UNION {WithHelpers(enum) : enum \in enums}
      /\ UNCHANGED <<vars, roots, seen, left, names, queue, current, at, call, bodies, calls>>
  BY <1>3, <1>5, <1>6 DEF DeclareField
<1>8. schema' = schema /\ Asking' = Asking /\ Place' = Place
  BY <1>7 DEF vars, Asking, Place
<1>9. \A step : EnumsOf(step)' = EnumsOf(step)
  BY <1>8 DEF EnumsOf, FieldOf
<1>10. Entered(f) \in Seq(Place) /\ (f.type \in Msg => <<f.type, 0>> \in Elements(Entered(f)))
  <2>1. f.type \in Msg => <<f.type, 0>> \in Place
    BY DEF Place
  <2>2. CASE f.type = NoMsg
    BY <2>2, MsgAssumption DEF Entered
  <2>3. CASE f.type \in Msg
    <3>1. Entered(f) = << <<f.type, 0>> >>
      BY <2>3, MsgAssumption DEF Entered
    <3>2. 1 \in DOMAIN Entered(f) /\ Entered(f)[1] = <<f.type, 0>>
      BY <3>1
    <3> QED
      BY <2>1, <2>3, <3>1, <3>2 DEF Elements
  <2> QED
    BY <1>5, <2>2, <2>3
<1>11. /\ agenda' \in Seq(Place)
       /\ \A place : place \in Elements(Entered(f)) => OnAgenda(place)'
       /\ \A place : OnAgenda(place) /\ place # <<m, n>> => OnAgenda(place)'
  BY <1>1, <1>3, <1>7, <1>10, AgendaMoves
<1>12. f.type \in Msg => Met(f.type)'
  BY <1>10, <1>11 DEF Met
<1>13. GoodHelpers(helpers') /\ helpers \subseteq helpers' /\ Resolved(<<m, n>>)'
  <2>1. CASE enums = {}
    BY <1>1, <1>6, <1>7, <1>9, <2>1 DEF Resolved
  <2>2. CASE enums # {}
    <3>1. EnumsOf(<<m, n>>) = {EnumTypes[<<m, n>>]} /\ <<m, n>> \in DOMAIN EnumTypes
      BY <1>6, <2>2 DEF EnumsOf
    <3>2. EnumTypes[<<m, n>>] \in DOMAIN EnumSymbol
      BY <3>1, EnumAssumption DEF Range
    <3>3. PICK enum \in DOMAIN EnumSymbol : enums = {enum}
      BY <1>6, <3>1, <3>2
    <3>4. /\ GoodHelpers(WithHelpers(enum))
          /\ helpers \subseteq WithHelpers(enum)
          /\ \E h \in WithHelpers(enum) : h.enum = enum /\ h.does = "name"
          /\ enum \in Omitting =>
                \E h \in WithHelpers(enum) : h.enum = enum /\ h.does = "omit"
      BY <1>1, WithHelpersFacts
    <3>5. helpers' = WithHelpers(enum)
      BY <1>7, <3>3, <3>4
    <3>6. Resolved(<<m, n>>)'
      BY <1>6, <1>9, <3>3, <3>4, <3>5 DEF Resolved, Helped
    <3> QED
      BY <3>4, <3>5, <3>6
  <2> QED
    BY <2>1, <2>2
<1>14. \A x : Met(x) => Met(x)'
  BY <1>5, <1>7, <1>11 DEF Met
<1>15. \A step : Resolved(step) => Resolved(step)'
  BY <1>9, <1>13 DEF Resolved, Helped
<1>16. DeclInv'
  <2>1. ASSUME NEW x \in seen, NEW k \in DOMAIN schema[x].fields
        PROVE  \/ OnAgenda(<<x, k>>)'
               \/ /\ Resolved(<<x, k>>)'
                  /\ schema[x].fields[k].type \in Msg => Met(schema[x].fields[k].type)'
    <3>1. CASE x = m /\ k = n
      BY <1>4, <1>8, <1>12, <1>13, <3>1
    <3>2. CASE ~(x = m /\ k = n)
      <4>1. \/ OnAgenda(<<x, k>>)
            \/ /\ Resolved(<<x, k>>)
               /\ schema[x].fields[k].type \in Msg => Met(schema[x].fields[k].type)
        BY DEF GenInv, DeclInv
      <4>2. OnAgenda(<<x, k>>) => OnAgenda(<<x, k>>)'
        BY <1>11, <3>2
      <4> QED
        BY <1>8, <1>14, <1>15, <4>1, <4>2
    <3> QED
      BY <3>1, <3>2
  <2>2. \A k \in Asking : k \in roots \/ Met(FileOrder[k])'
    BY <1>14 DEF GenInv, DeclInv
  <2> QED
    BY <1>7, <1>8, <1>11, <1>13, <2>1, <2>2 DEF GenInv, DeclInv, GoodHelpers
<1> QED
  BY <1>1, <1>7, <1>16, OthersKept DEF GenInv

-----------------------------------------------------------------------------
(* encoderName                                                             *)

(* A fingerprint is a print, and a new name an identifier.                 *)
LEMMA NewNameType ==
    ASSUME GenInv, NEW m \in Msg, NEW sc \in KnownScope
    PROVE  Fingerprint(sc) \in Fingerprints /\ schema[m].symbol \in Ident /\ NewName(m) \in Ident
<1>1. Fingerprint(sc) \in Fingerprints
  <2>1. sc \in Scope
    BY DEF KnownScope
  <2>2. sc.joinSep \in Seq(Char) /\ sc.indexSep \in Seq(Char) /\ Comma \in Char
        /\ sc.format \in [FormatOption -> FormatValue] /\ sc.exhausted \in BOOLEAN
    BY <2>1, SeparatorAssumption DEF Scope
  <2>3. sc.joinSep \o <<Comma>> \o sc.indexSep \in Seq(Char)
    BY <2>2, ConcatProperties
  <2> QED
    BY <2>2, <2>3 DEF Fingerprint, Fingerprints
<1>2. schema[m].symbol \in Ident
  BY SchemaFacts DEF GenInv, PlanInv, Message, Ident
<1>3. Cardinality(names) \in Nat
  BY FS_CardinalityType DEF GenInv, NamesInv
<1>4. Append(schema[m].symbol, Cardinality(names)) \in Ident
  <2>1. Cardinality(names) \in Name \cup Nat
    BY <1>3
  <2> QED
    BY <1>2, <2>1 DEF Ident
<1> QED
  BY <1>1, <1>2, <1>4 DEF NewName

(* A call names the encoder the first time and keeps to that name.         *)
LEMMA RequestCases ==
    ASSUME GenInv, NEW m \in Msg, NEW sc \in KnownScope, Request(m, sc)
    PROVE  \E name \in Ident :
              LET record == [msg |-> m, print |-> Fingerprint(sc), name |-> name]
                  job    == [name |-> name, msg |-> m, sc |-> sc]
              IN  /\ calls' = calls \cup {job}
                  /\ \/ record \in names /\ names' = names /\ queue' = queue
                     \/ /\ record \notin names /\ names' = names \cup {record}
                        /\ queue' = Append(queue, job) /\ name = NewName(m)
<1>1. names \subseteq [msg : Msg, print : Fingerprints, name : Ident]
  BY DEF GenInv, NamesInv
<1>2. CASE Known(m, sc) # {}
  <2> DEFINE k == CHOOSE n \in Known(m, sc) : TRUE
  <2>1. k \in Known(m, sc)
    BY <1>2
  <2>2. k \in names /\ k.msg = m /\ k.print = Fingerprint(sc)
    BY <2>1 DEF Known
  <2>3. EncoderName(m, sc) = k.name
    BY <1>2 DEF EncoderName
  <2> HIDE DEF k
  <2>4. k.name \in Ident /\ k = [msg |-> m, print |-> Fingerprint(sc), name |-> k.name]
    BY <1>1, <2>2
  <2>5. names' = names /\ queue' = queue
    BY <1>2, <2>2, <2>3, <2>4 DEF Request, Queued
  <2>6. calls' = calls \cup {[name |-> k.name, msg |-> m, sc |-> sc]}
    BY <2>3 DEF Request
  <2> QED
    BY <2>2, <2>4, <2>5, <2>6
<1>3. CASE Known(m, sc) = {}
  <2>1. EncoderName(m, sc) = NewName(m) /\ NewName(m) \in Ident
    BY <1>3, NewNameType DEF EncoderName
  <2>2. [msg |-> m, print |-> Fingerprint(sc), name |-> NewName(m)] \notin names
    <3> DEFINE record == [msg |-> m, print |-> Fingerprint(sc), name |-> NewName(m)]
    <3>1. record.msg = m /\ record.print = Fingerprint(sc)
      OBVIOUS
    <3> HIDE DEF record
    <3>2. record \notin names
      BY <1>3, <3>1 DEF Known
    <3> QED
      BY <3>2 DEF record
  <2> QED
    BY <1>3, <2>1, <2>2 DEF Request, Queued
<1> QED
  BY <1>2, <1>3

(* A call keeps the invariant of the names.                                *)
LEMMA RequestNames ==
    ASSUME GenInv, NEW m \in Msg, NEW sc \in KnownScope, Request(m, sc), schema' = schema
    PROVE  NamesInv'
<1>1. PICK name \in Ident :
          LET record == [msg |-> m, print |-> Fingerprint(sc), name |-> name]
          IN  \/ record \in names /\ names' = names
              \/ record \notin names /\ names' = names \cup {record} /\ name = NewName(m)
  BY RequestCases
<1> DEFINE record == [msg |-> m, print |-> Fingerprint(sc), name |-> name]
<1>2. Cardinality(names) \in Nat /\ IsFiniteSet(names)
  BY FS_CardinalityType DEF GenInv, NamesInv
<1>3. CASE names' = names
  BY <1>3 DEF GenInv, NamesInv
<1>4. CASE record \notin names /\ names' = names \cup {record} /\ name = NewName(m)
  <2>1. record \in [msg : Msg, print : Fingerprints, name : Ident]
    BY NewNameType
  <2>2. record.msg = m /\ record.name = name
    OBVIOUS
  <2> HIDE DEF record
  <2>3. IsFiniteSet(names') /\ Cardinality(names') = Cardinality(names) + 1
    BY <1>2, <1>4, FS_AddElement
  <2>4. \/ record.name = schema[record.msg].symbol
        \/ record.name = Append(schema[record.msg].symbol, Cardinality(names))
    BY <1>4, <2>2 DEF NewName
  <2>5. ASSUME NEW n \in names'
        PROVE  \/ n.name = schema[n.msg].symbol
               \/ \E c \in 0..Cardinality(names') - 1 : n.name = Append(schema[n.msg].symbol, c)
    <3>1. CASE n = record
      BY <1>2, <2>3, <2>4, <3>1
    <3>2. CASE n \in names
      <4>1. \/ n.name = schema[n.msg].symbol
            \/ \E c \in 0..Cardinality(names) - 1 : n.name = Append(schema[n.msg].symbol, c)
        BY <3>2 DEF GenInv, NamesInv
      <4>2. \A c \in 0..Cardinality(names) - 1 : c \in 0..Cardinality(names') - 1
        BY <1>2, <2>3
      <4> QED
        BY <4>1, <4>2
    <3> QED
      BY <1>4, <3>1, <3>2
  <2>6. names' \subseteq [msg : Msg, print : Fingerprints, name : Ident]
    BY <1>4, <2>1 DEF GenInv, NamesInv
  <2> QED
    BY <2>3, <2>5, <2>6 DEF NamesInv
<1> QED
  BY <1>1, <1>3, <1>4

(* And that of the jobs.                                                   *)
LEMMA RequestJobs ==
    ASSUME GenInv, NEW m \in seen, NEW sc \in KnownScope, Request(m, sc),
           UNCHANGED <<vars, seen, current, bodies>>
    PROVE  JobsInv'
<1>0. m \in Msg
  BY DEF GenInv, DeclInv
<1>1. PICK name \in Ident :
          LET record == [msg |-> m, print |-> Fingerprint(sc), name |-> name]
              job    == [name |-> name, msg |-> m, sc |-> sc]
          IN  /\ calls' = calls \cup {job}
              /\ \/ record \in names /\ names' = names /\ queue' = queue
                 \/ /\ record \notin names /\ names' = names \cup {record}
                    /\ queue' = Append(queue, job)
  BY <1>0, RequestCases
<1> DEFINE record == [msg |-> m, print |-> Fingerprint(sc), name |-> name]
           job    == [name |-> name, msg |-> m, sc |-> sc]
<1>2. schema' = schema /\ phase' = phase /\ KnownScope' = KnownScope
  BY DEF vars, planVars
<1>3. job \in KnownEncoder /\ job.msg = m /\ job.sc = sc /\ job.name = name
  BY <1>0 DEF KnownEncoder, Encoder, KnownScope
<1>4. KnownEncoder' = KnownEncoder
  BY <1>2 DEF KnownEncoder
<1>5. names \subseteq names' /\ record \in names' /\ record.name = name
  BY <1>1
<1>6. /\ calls' = calls \cup {job}
      /\ \/ names' = names /\ queue' = queue
         \/ names' = names \cup {record} /\ queue' = Append(queue, job)
  BY <1>1
<1>7. JobsInv
  BY DEF GenInv
<1>8. ASSUME NEW c \in calls'
      PROVE  /\ [msg |-> c.msg, print |-> Fingerprint(c.sc), name |-> c.name] \in names'
             /\ c.msg \in seen'
  <2>1. CASE c \in calls
    BY <1>5, <1>7, <2>1 DEF JobsInv
  <2>2. CASE c = job
    BY <1>3, <1>5, <2>2
  <2> QED
    BY <1>6, <2>1, <2>2
<1> HIDE DEF job, record
<1>9. queue' \in Seq(KnownEncoder) /\ \A x \in DOMAIN queue' : queue'[x] \in calls'
  <2>1. queue \in Seq(KnownEncoder) /\ \A x \in DOMAIN queue : queue[x] \in calls
    BY <1>7 DEF JobsInv
  <2>2. CASE queue' = queue
    BY <1>6, <2>1, <2>2
  <2>3. CASE queue' = Append(queue, job)
    <3>1. queue' \in Seq(KnownEncoder)
      BY <1>3, <2>1, <2>3
    <3>2. \A x \in DOMAIN queue' : queue'[x] = job \/ (x \in DOMAIN queue /\ queue'[x] = queue[x])
      BY <2>1, <2>3
    <3> QED
      BY <1>6, <2>1, <3>1, <3>2
  <2> QED
    BY <1>6, <2>2, <2>3
<1>10. ASSUME NEW n \in names'
       PROVE  \/ \E x \in DOMAIN queue' : queue'[x].name = n.name
              \/ \E x \in DOMAIN bodies : bodies[x].name = n.name
              \/ phase # "idle" /\ current.name = n.name
  <2>1. queue \in Seq(KnownEncoder)
    BY <1>7 DEF JobsInv
  <2>2. \A x \in DOMAIN queue : x \in DOMAIN queue' /\ queue'[x] = queue[x]
    BY <1>6, <2>1
  <2>3. CASE n \in names
    BY <1>7, <2>2, <2>3 DEF JobsInv
  <2>4. CASE n \notin names
    <3>1. n = record /\ queue' = Append(queue, job)
      BY <1>6, <2>4
    <3>2. Len(queue) + 1 \in DOMAIN queue' /\ queue'[Len(queue) + 1] = job
      BY <2>1, <3>1
    <3>3. queue'[Len(queue) + 1].name = n.name
      BY <1>3, <1>5, <3>1, <3>2
    <3> QED
      BY <3>2, <3>3
  <2> QED
    BY <2>3, <2>4
<1>11. /\ current' \in KnownEncoder
       /\ bodies' \in Seq([name : Ident, msg : Msg, root : Scope])
       /\ calls' \subseteq KnownEncoder
       /\ phase' # "idle" => current' \in calls'
  BY <1>2, <1>3, <1>6, <1>7 DEF JobsInv
<1>12. \A x \in DOMAIN bodies' :
          \E c \in calls' : bodies'[x] = [name |-> c.name, msg |-> c.msg,
                                          root |-> RootOf(schema', c.msg, c.sc)]
  BY <1>2, <1>6, <1>7 DEF JobsInv
<1> QED
  BY <1>2, <1>4, <1>8, <1>9, <1>10, <1>11, <1>12 DEF JobsInv

(* Unless symbols are numbered, a new name is new, so the encoders keep    *)
(* apart.                                                                  *)
LEMMA RequestApart ==
    ASSUME GenInv, Apart, NoNumberedSymbols,
           NEW m \in Msg, NEW sc \in KnownScope, Request(m, sc),
           UNCHANGED <<vars, current, bodies>>
    PROVE  Apart'
<1>1. PICK name \in Ident :
          LET record == [msg |-> m, print |-> Fingerprint(sc), name |-> name]
              job    == [name |-> name, msg |-> m, sc |-> sc]
          IN  \/ names' = names /\ queue' = queue
              \/ /\ names' = names \cup {record}
                 /\ queue' = Append(queue, job) /\ name = NewName(m)
  BY RequestCases
<1> DEFINE record == [msg |-> m, print |-> Fingerprint(sc), name |-> name]
           job    == [name |-> name, msg |-> m, sc |-> sc]
<1>2. phase' = phase
  BY DEF vars, planVars
<1>3. CASE names' = names /\ queue' = queue
  BY <1>2, <1>3 DEF Apart
<1>4. CASE names' = names \cup {record} /\ queue' = Append(queue, job) /\ name = NewName(m)
  <2>1. \A n \in names : n.name # name
    <3> SUFFICES ASSUME NEW n \in names, n.name = NewName(m) PROVE FALSE
      BY <1>4
    <3>1. /\ schema \in Schemas
          /\ n.msg \in Msg
          /\ \/ n.name = schema[n.msg].symbol
             \/ \E c \in 0..Cardinality(names) - 1 : n.name = Append(schema[n.msg].symbol, c)
      BY DEF GenInv, PlanInv, NamesInv
    <3>2. Cardinality(names) \in Nat
      BY FS_CardinalityType DEF GenInv, NamesInv
    <3>3. n.name = Append(schema[m].symbol, Cardinality(names))
      BY DEF NewName
    <3>4. n.name # schema[n.msg].symbol
      BY <3>1, <3>2, <3>3 DEF NoNumberedSymbols
    <3>5. PICK c \in 0..Cardinality(names) - 1 : n.name = Append(schema[n.msg].symbol, c)
      BY <3>1, <3>4
    <3>6. schema[m].symbol \in Ident /\ schema[n.msg].symbol \in Ident
      BY <3>1, NewNameType
    <3>7. Append(schema[m].symbol, Cardinality(names)) = Append(schema[n.msg].symbol, c)
      BY <3>3, <3>5
    <3>8. schema[m].symbol \in Seq(Name \cup Nat) /\ schema[n.msg].symbol \in Seq(Name \cup Nat)
      BY <3>6 DEF Ident
    <3>9. c = Cardinality(names)
      <4> DEFINE s == schema[m].symbol
                 u == schema[n.msg].symbol
                 last == Cardinality(names)
                 T == Name \cup Nat
      <4>1. Append(s, last) = Append(u, c) /\ s \in Seq(T) /\ u \in Seq(T)
        BY <3>7, <3>8
      <4> HIDE DEF s, u, last, T
      <4>2. last = c
        BY <4>1, NumberedName
      <4> QED
        BY <4>2 DEF last
    <3> QED
      BY <3>2, <3>9
  <2>2. record.name = name /\ job.name = name
    OBVIOUS
  <2> HIDE DEF record, job
  <2>3. /\ JobsInv
        /\ queue \in Seq(KnownEncoder)
    BY DEF GenInv, JobsInv
  <2>4. \A c \in calls : c.name # name
    <3> SUFFICES ASSUME NEW c \in calls PROVE c.name # name
      OBVIOUS
    <3> DEFINE r == [msg |-> c.msg, print |-> Fingerprint(c.sc), name |-> c.name]
    <3>1. r \in names /\ r.name = c.name
      BY <2>3 DEF JobsInv
    <3> QED
      BY <2>1, <3>1
  <2>5. \A x \in DOMAIN queue : queue[x].name # name
    BY <2>3, <2>4 DEF JobsInv
  <2>6. \A x \in DOMAIN bodies : bodies[x].name # name
    <3> SUFFICES ASSUME NEW x \in DOMAIN bodies PROVE bodies[x].name # name
      OBVIOUS
    <3>1. PICK c \in calls : bodies[x] = [name |-> c.name, msg |-> c.msg,
                                          root |-> RootOf(schema, c.msg, c.sc)]
      BY <2>3 DEF JobsInv
    <3>2. bodies[x].name = c.name
      BY <3>1
    <3> QED
      BY <2>4, <3>2
  <2>7. phase # "idle" => current.name # name
    BY <2>3, <2>4 DEF JobsInv
  <2>8. \A x \in DOMAIN queue' : \/ queue'[x] = job /\ x = Len(queue) + 1
                                 \/ x \in DOMAIN queue /\ queue'[x] = queue[x]
    BY <1>4, <2>3
  <2>9. \A a, b \in names' : a.name = b.name => a = b
    BY <1>4, <2>1, <2>2 DEF Apart
  <2>10. \A x, y \in DOMAIN queue' : x # y => queue'[x].name # queue'[y].name
    BY <2>2, <2>5, <2>8 DEF Apart
  <2>11. \A x \in DOMAIN queue' : \A y \in DOMAIN bodies : queue'[x].name # bodies[y].name
    BY <2>2, <2>6, <2>8 DEF Apart
  <2>12. phase # "idle" => \A x \in DOMAIN queue' : queue'[x].name # current.name
    BY <2>2, <2>7, <2>8 DEF Apart
  <2> QED
    BY <1>2, <2>9, <2>10, <2>11, <2>12 DEF Apart
<1> QED
  BY <1>1, <1>3, <1>4

-----------------------------------------------------------------------------
(* Methods, bodies and calls                                               *)

(* Once everything is declared, what can be reached has been seen.         *)
LEMMA ReachedIsSeen ==
    ASSUME GenInv, AllDeclared, NEW m \in seen
    PROVE  Reachable(m) \subseteq seen
<1>1. seen \in SUBSET Msg /\ agenda = <<>>
  BY DEF GenInv, DeclInv, AllDeclared
<1>2. \A place : ~OnAgenda(place)
  BY <1>1 DEF OnAgenda
<1>3. Closed(seen)
  BY <1>2 DEF GenInv, DeclInv, Met, Closed
<1> QED
  BY <1>1, <1>3 DEF Reachable

(* The message whose encoder is being written has been seen.               *)
LEMMA TopIsSeen ==
    ASSUME GenInv, phase # "idle"
    PROVE  /\ AllDeclared /\ WalkInv /\ schema \in Schemas
           /\ current \in calls /\ top = current.msg /\ top \in seen
           /\ Reachable(top) \subseteq seen
           /\ root = RootOf(schema, top, current.sc)
<1>1. AllDeclared /\ WalkInv /\ schema \in Schemas
      /\ top = current.msg /\ root = RootOf(schema, top, current.sc)
  BY DEF GenInv, PlanInv
<1>2. current \in calls /\ current.msg \in seen
  BY DEF GenInv, JobsInv
<1> QED
  BY <1>1, <1>2, ReachedIsSeen

(* The fields of a oneof's message.                                        *)
LEMMA BranchSteps ==
    ASSUME schema \in Schemas, NEW o \in Reachable(top) \X Nat
    PROVE  /\ Branches(o) \subseteq Nat
           /\ \A n \in Branches(o) : <<o[1], n>> \in SafeStep
<1>1. o[1] \in Msg /\ o[1] \in Reachable(top)
  BY DEF Reachable
<1>2. DOMAIN schema[o[1]].fields \subseteq Nat \ {0}
  <2>1. schema[o[1]].fields \in Seq(Field)
    BY <1>1, SchemaFacts DEF Message
  <2> QED
    BY <2>1
<1>3. ASSUME NEW n \in Branches(o)
      PROVE  <<o[1], n>> \in SafeStep
  <2>1. n \in DOMAIN schema[o[1]].fields /\ n \in Nat \ {0}
    BY <1>2 DEF Branches
  <2> QED
    BY <1>1, <2>1 DEF SafeStep, Step
<1> QED
  BY <1>2, <1>3 DEF Branches

(* The last step of a path.                                                *)
LEMMA LastStep ==
    ASSUME NEW p \in SafePath, p # <<>>
    PROVE  Last_(p) \in SafeStep
<1>1. p \in Seq(SafeStep) /\ Len(p) \in Nat \ {0}
  BY DEF SafePath
<1> QED
  BY <1>1 DEF Last_

(* The element of a collection is a field there is.                        *)
LEMMA ElementIsField ==
    ASSUME NEW e \in SafeEntry, e.kind = "collection"
    PROVE  ElementStep(e) \in SafeStep
<1>1. e.path \in SafePath /\ e.path # <<>> /\ e.pickPath \in SafePath
  BY DEF SafeEntry, ValueKinds
<1> QED
  BY <1>1, LastStep DEF ElementStep

(* The sources of a merge are fields there are.                            *)
LEMMA SourcesAreFields ==
    ASSUME NEW e \in SafeEntry
    PROVE  /\ DOMAIN e.sources \subseteq Nat
           /\ \A n \in DOMAIN e.sources : Last_(e.sources[n]) \in SafeStep
<1>1. e.sources \in Seq(SafePath \ {<<>>})
  BY DEF SafeEntry
<1>2. \A n \in DOMAIN e.sources : e.sources[n] \in SafePath /\ e.sources[n] # <<>>
  BY <1>1
<1>3. DOMAIN e.sources \subseteq Nat
  BY <1>1
<1> QED
  BY <1>2, <1>3, LastStep

(* What an entry's code calls encoders for are fields of message type.     *)
LEMMA CallFacts ==
    ASSUME schema \in Schemas, NEW e \in SafeEntry
    PROVE  /\ DOMAIN CallSteps(e) \subseteq Nat
           /\ \A n \in DOMAIN CallSteps(e) : /\ CallSteps(e)[n] \in SafeStep
                                             /\ Callee(e, n) \in Msg
                                             /\ Callee(e, n) \in Reachable(top)
<1>1. ASSUME NEW step \in SafeStep, FieldOf(schema, step).kind \in {"message", "messages"}
      PROVE  FieldOf(schema, step).type \in Msg /\ FieldOf(schema, step).type \in Reachable(top)
  <2>1. step[1] \in Msg /\ step[1] \in Reachable(top) /\ step[2] \in DOMAIN schema[step[1]].fields
    BY DEF SafeStep, Step
  <2>2. FieldOf(schema, step).type \in Msg
    BY <1>1, <2>1, SchemaFacts DEF FieldOf
  <2> QED
    BY <2>1, <2>2, ReachesField DEF FieldOf
<1>2. SUFFICES /\ DOMAIN CallSteps(e) \subseteq Nat
               /\ \A n \in DOMAIN CallSteps(e) :
                     /\ CallSteps(e)[n] \in SafeStep
                     /\ FieldOf(schema, CallSteps(e)[n]).kind \in {"message", "messages"}
  BY <1>1 DEF Callee
<1>3. \A steps : DOMAIN Repeated(steps) \subseteq DOMAIN steps /\
          \A n \in DOMAIN Repeated(steps) : /\ Repeated(steps)[n] = steps[n]
                                            /\ FieldOf(schema, steps[n]).kind = "messages"
  BY DEF Repeated
<1>4. e.kind \in EntryKinds
  BY DEF SafeEntry, Entry
<1>5. CASE e.kind = "object"
  <2>1. e.path \in SafePath /\ e.path # <<>> /\ FieldOf(schema, Last_(e.path)).kind = "message"
    BY <1>5 DEF SafeEntry, ValueKinds
  <2>2. CallSteps(e) = <<Last_(e.path)>>
    BY <1>5 DEF CallSteps
  <2> QED
    BY <2>1, <2>2, LastStep
<1>6. CASE e.kind = "collection"
  <2>1. CallSteps(e) = <<>> \/ CallSteps(e) = Repeated(<<ElementStep(e)>>)
    BY <1>6 DEF CallSteps
  <2>2. ElementStep(e) \in SafeStep
    BY <1>6, ElementIsField
  <2> DEFINE one == <<ElementStep(e)>>
  <2>3. DOMAIN one \subseteq Nat /\ \A n \in DOMAIN one : one[n] \in SafeStep
    BY <2>2
  <2> HIDE DEF one
  <2>4. CallSteps(e) = <<>> \/ CallSteps(e) = Repeated(one)
    BY <2>1 DEF one
  <2>5. CASE CallSteps(e) = Repeated(one)
    BY <1>3, <2>3, <2>5
  <2>6. CASE CallSteps(e) = <<>>
    BY <2>6
  <2> QED
    BY <2>4, <2>5, <2>6
<1>7. CASE e.kind = "oneofValue"
  <2>1. CallSteps(e) = [n \in MessageBranches(e.oneof) |-> <<e.oneof[1], n>>]
    BY <1>7 DEF CallSteps
  <2>2. e.oneof \in Reachable(top) \X Nat
    BY <1>7 DEF SafeEntry
  <2>3. MessageBranches(e.oneof) \subseteq Branches(e.oneof)
    BY DEF MessageBranches
  <2>4. \A n \in DOMAIN CallSteps(e) :
            /\ CallSteps(e)[n] = <<e.oneof[1], n>>
            /\ n \in Branches(e.oneof)
            /\ FieldOf(schema, <<e.oneof[1], n>>).kind = "message"
    BY <2>1 DEF MessageBranches
  <2>5. DOMAIN CallSteps(e) \subseteq Nat
    BY <2>1, <2>2, <2>3, BranchSteps
  <2> QED
    BY <2>2, <2>4, <2>5, BranchSteps
<1>8. CASE e.kind = "merge"
  <2> DEFINE last == [n \in DOMAIN e.sources |-> Last_(e.sources[n])]
  <2>1. CallSteps(e) = <<>> \/ CallSteps(e) = Repeated(last)
    BY <1>8 DEF CallSteps
  <2>2. DOMAIN last \subseteq Nat /\ \A n \in DOMAIN last : last[n] \in SafeStep
    BY SourcesAreFields
  <2> HIDE DEF last
  <2>3. CASE CallSteps(e) = Repeated(last)
    BY <1>3, <2>2, <2>3
  <2>4. CASE CallSteps(e) = <<>>
    BY <2>4
  <2> QED
    BY <2>1, <2>3, <2>4
<1>9. CASE e.kind \notin {"object", "collection", "oneofValue", "merge"}
  <2>1. CallSteps(e) = <<>>
    BY <1>9 DEF CallSteps
  <2> QED
    BY <2>1
<1> QED
  BY <1>5, <1>6, <1>7, <1>8, <1>9

(* The table of helpers is done with.                                      *)
LEMMA DeclKept ==
    ASSUME GenInv, UNCHANGED <<schema, declVars>>, left' \subseteq left
    PROVE  DeclInv'
<1>1. UNCHANGED <<roots, agenda, seen, helpers>> /\ Asking' = Asking /\ Place' = Place
  BY DEF declVars, Asking, Place
<1>2. /\ \A place : OnAgenda(place)' = OnAgenda(place)
      /\ \A m : Met(m)' = Met(m)
      /\ \A step : Resolved(step)' = Resolved(step)
  BY <1>1 DEF OnAgenda, Met, Resolved, EnumsOf, FieldOf, Helped
<1>3. GoodHelpers(helpers)'
  BY <1>1 DEF GenInv, DeclInv, GoodHelpers
<1> QED
  BY <1>1, <1>2, <1>3 DEF GenInv, DeclInv

(* A call leaves the plan as it is.                                        *)
LEMMA PlanKept ==
    ASSUME GenInv, AllDeclared, UNCHANGED <<vars, declVars, current>>,
           at' \in Nat, call' \in Nat
    PROVE  PlanInv'
<1>1. UNCHANGED <<schema, top, root, phase>> /\ AllDeclared'
  BY DEF vars, planVars, declVars, AllDeclared
<1>2. phase # "idle" => WalkInv'
  BY NextInv DEF GenInv, PlanInv
<1> QED
  BY <1>1, <1>2 DEF GenInv, PlanInv, RootOf

LEMMA EmitMethodsStep ==
    ASSUME GenInv, EmitMethods
    PROVE  GenInv'
<1>1. AllDeclared /\ left # {} /\ left \subseteq Asking /\ schema \in Schemas
  BY DEF EmitMethods, GenInv, DeclInv, PlanInv
<1>2. FileOrder \in Seq(Msg)
  BY FileAssumption
<1>3. left \in SUBSET Nat
  BY <1>1, <1>2 DEF Asking
<1>4. Min(left) \in Asking
  BY <1>1, <1>3, MinMember
<1>5. PICK m \in Msg : m = FileOrder[Min(left)]
  BY <1>2, <1>4 DEF Asking
<1>6. m \in seen
  BY <1>1, <1>4, <1>5 DEF GenInv, DeclInv, Met, OnAgenda, AllDeclared
<1>7. PICK sc \in KnownScope : sc = Interior(schema, m)
  BY <1>1, MessageScopes
<1>8. Request(m, sc)
  BY <1>5, <1>7 DEF EmitMethods
<1>9. /\ UNCHANGED <<vars, declVars, current, at, call, bodies>>
      /\ schema' = schema /\ seen' = seen /\ left' \subseteq left
  BY DEF EmitMethods, vars, declVars
<1>10. NamesInv' /\ JobsInv'
  BY <1>6, <1>8, <1>9, RequestNames, RequestJobs
<1>11. PlanInv'
  BY <1>1, <1>9, PlanKept DEF GenInv, PlanInv
<1> QED
  BY <1>9, <1>10, <1>11, DeclKept DEF GenInv

(* The call EmitCall makes.                                                *)
LEMMA NextCall ==
    ASSUME GenInv, EmitCall
    PROVE  /\ \E m \in seen, sc \in KnownScope : Request(m, sc)
           /\ call' \in Nat /\ phase # "idle"
<1>1. phase = "planned" /\ at \in DOMAIN entries
  BY DEF EmitCall
<1>2. WalkInv /\ schema \in Schemas /\ Reachable(top) \subseteq seen
  BY <1>1, TopIsSeen
<1>3. entries[at] \in SafeEntry
  BY <1>1, <1>2 DEF WalkInv
<1>4. PICK e \in SafeEntry : e = entries[at]
  BY <1>3
<1>5. Uncalled(e) \in SUBSET Nat /\ Uncalled(e) # {} /\ Uncalled(e) \subseteq DOMAIN CallSteps(e)
  BY <1>2, <1>4, CallFacts DEF Uncalled, EmitCall
<1>6. Min(Uncalled(e)) \in Uncalled(e)
  BY <1>5, MinMember
<1>7. PICK n \in DOMAIN CallSteps(e) : n = Min(Uncalled(e)) /\ n \in Nat
  BY <1>5, <1>6
<1>8. Callee(e, n) \in seen
  BY <1>2, CallFacts
<1>9. e.sc \in KnownScope
  BY DEF SafeEntry
<1>10. call' = n /\ Request(Callee(e, n), e.sc)
  BY <1>4, <1>7 DEF EmitCall
<1> QED
  BY <1>1, <1>7, <1>8, <1>9, <1>10

LEMMA EmitCallStep ==
    ASSUME GenInv, EmitCall
    PROVE  GenInv'
<1>1. AllDeclared
  BY TopIsSeen DEF EmitCall
<1>2. /\ UNCHANGED <<vars, declVars, left, current, at, bodies>>
      /\ schema' = schema /\ seen' = seen
  BY DEF EmitCall, vars, declVars
<1>3. PICK m \in seen, sc \in KnownScope : Request(m, sc)
  BY NextCall
<1>4. m \in Msg
  BY DEF GenInv, DeclInv
<1>5. NamesInv' /\ JobsInv'
  BY <1>2, <1>3, <1>4, RequestNames, RequestJobs
<1>6. PlanInv'
  BY <1>1, <1>2, NextCall, PlanKept DEF GenInv, PlanInv
<1> QED
  BY <1>2, <1>5, <1>6, DeclKept DEF GenInv

(* Steps that name no encoder.                                             *)
LEMMA JobsKept ==
    ASSUME GenInv, UNCHANGED <<schema, seen, names, queue, current, bodies, calls>>,
           phase' = "idle" <=> phase = "idle"
    PROVE  NamesInv' /\ JobsInv'
<1>1. KnownEncoder' = KnownEncoder
  BY DEF KnownEncoder
<1>2. NamesInv'
  BY DEF GenInv, NamesInv
<1>3. JobsInv'
  BY <1>1 DEF GenInv, JobsInv, RootOf
<1> QED
  BY <1>2, <1>3

LEMMA EmitEntryStep ==
    ASSUME GenInv, EmitEntry
    PROVE  GenInv'
<1>1. AllDeclared
  BY TopIsSeen DEF EmitEntry
<1>2. /\ UNCHANGED <<vars, declVars, left, names, queue, current, bodies, calls>>
      /\ UNCHANGED <<schema, seen, phase>>
  BY DEF EmitEntry, vars, planVars, declVars
<1>3. at' \in Nat /\ call' \in Nat
  BY DEF EmitEntry, GenInv, PlanInv
<1>4. NamesInv' /\ JobsInv'
  BY <1>2, JobsKept
<1>5. PlanInv'
  BY <1>1, <1>2, <1>3, PlanKept
<1> QED
  BY <1>2, <1>4, <1>5, DeclKept DEF GenInv

(* A step of the walk: of a plan that has been started and is not done.    *)
LEMMA PlanStepFacts ==
    ASSUME Next
    PROVE  phase \in {"start", "walk"} /\ UNCHANGED <<schema, top, root>>
<1> USE DEF Next, Failure, Walking, OneofTurn, NewOneof, FieldTurn, KeptField, Walked, Descends, Emit
<1>1. phase \in {"start", "walk"}
  BY DEF Begin, RejectRules, SkipOneof, OmitOneof, TagOneof, SingleKey, WalkBranches,
         DropField, RejectField, WriteLeaf, WriteCollection, Pick, RejectPick, Lift, RejectLift,
         Nest, Cycle, Descend, Return, Finish, Refuse
<1>2. UNCHANGED <<schema, top, root>>
  BY DEF Begin, RejectRules, SkipOneof, OmitOneof, TagOneof, SingleKey, WalkBranches,
         DropField, RejectField, WriteLeaf, WriteCollection, Pick, RejectPick, Lift, RejectLift,
         Nest, Cycle, Descend, Return, Finish, Refuse
<1> QED
  BY <1>1, <1>2

LEMMA PlanStepStep ==
    ASSUME GenInv, PlanStep
    PROVE  GenInv'
<1>1. Next /\ UNCHANGED genVars
  BY DEF PlanStep
<1>2. phase # "idle" /\ UNCHANGED <<schema, top, root>>
  BY <1>1, PlanStepFacts
<1>3. UNCHANGED <<roots, agenda, seen, helpers, left, names, queue, current, at, call, bodies, calls>>
  BY <1>1 DEF genVars, declVars
<1>4. WalkInv'
  BY <1>1, <1>2, PlanStepInv DEF GenInv, PlanInv
<1>5. phase' # "idle"
  BY <1>4 DEF WalkInv, TypeOK
<1>6. NamesInv' /\ JobsInv'
  BY <1>2, <1>3, <1>5, JobsKept
<1>7. PlanInv'
  BY <1>2, <1>3, <1>4, TopIsSeen DEF GenInv, PlanInv, AllDeclared, RootOf
<1>8. DeclInv'
  BY <1>2, <1>3, DeclKept DEF declVars
<1> QED
  BY <1>6, <1>7, <1>8 DEF GenInv

LEMMA StartBodyStep ==
    ASSUME GenInv, StartBody
    PROVE  GenInv'
<1>1. AllDeclared /\ phase = "idle" /\ queue # <<>> /\ schema \in Schemas
      /\ queue \in Seq(KnownEncoder) /\ \A x \in DOMAIN queue : queue[x] \in calls
  BY DEF StartBody, GenInv, PlanInv, JobsInv
<1>2. PICK job \in KnownEncoder : job = Head(queue) /\ job \in calls
  <2>1. Head(queue) = queue[1] /\ 1 \in DOMAIN queue
    BY <1>1
  <2> QED
    BY <1>1, <2>1
<1>3. /\ current' = job /\ queue' = Tail(queue)
      /\ top' = job.msg /\ root' = RootOf(schema, job.msg, job.sc)
      /\ phase' = "start" /\ stack' = <<>> /\ entries' = <<>> /\ oneofSeq' = 0 /\ err' = "none"
      /\ at' = 1 /\ call' = 0
      /\ UNCHANGED <<schema, declVars, left, names, bodies, calls>>
  BY <1>2 DEF StartBody
<1>4. job.msg \in Msg /\ job.sc \in KnownScope
  BY DEF KnownEncoder, Encoder
<1>5. root' \in KnownScope /\ root' \in Scope
  BY <1>1, <1>3, <1>4, MessageScopes DEF KnownScope
<1>6. WalkInv'
  <2>1. schema \in Schema
    BY <1>1, SchemasAssumption
  <2>2. /\ stack' \in Seq(SafeLevel') /\ stack' \in Seq(Level)
        /\ entries' \in Seq(SafeEntry') /\ entries' \in Seq(Entry)
    BY <1>3
  <2> QED
    BY <1>1, <1>3, <1>4, <1>5, <2>1, <2>2 DEF WalkInv, TypeOK
<1>7. DeclInv'
  BY <1>3, DeclKept
<1>8. NamesInv'
  BY <1>3 DEF GenInv, NamesInv
<1>9. PlanInv'
  BY <1>1, <1>3, <1>6 DEF PlanInv, AllDeclared, declVars, RootOf
<1>10. JobsInv'
  <2>1. /\ queue' \in Seq(KnownEncoder) /\ Len(queue) \in Nat \ {0}
        /\ Len(queue') = Len(queue) - 1
        /\ \A x \in 1..Len(queue) - 1 : queue'[x] = queue[x + 1]
    BY <1>1, <1>3
  <2>2. \A x \in DOMAIN queue' : queue'[x] \in calls
    <3>1. \A x \in DOMAIN queue' : x + 1 \in DOMAIN queue /\ queue'[x] = queue[x + 1]
      BY <1>1, <2>1
    <3> QED
      BY <1>1, <3>1
  <2>3. ASSUME NEW n \in names
        PROVE  \/ \E x \in DOMAIN queue' : queue'[x].name = n.name
               \/ \E x \in DOMAIN bodies : bodies[x].name = n.name
               \/ job.name = n.name
    <3>1. ASSUME NEW x \in DOMAIN queue, queue[x].name = n.name
          PROVE  \/ \E y \in DOMAIN queue' : queue'[y].name = n.name
                 \/ job.name = n.name
      <4>1. CASE x = 1
        BY <1>1, <1>2, <3>1, <4>1
      <4>2. CASE x # 1
        <5>1. x - 1 \in 1..Len(queue) - 1 /\ (x - 1) + 1 = x
          BY <1>1, <2>1, <4>2
        <5>2. x - 1 \in DOMAIN queue' /\ queue'[x - 1] = queue[x]
          <6>1. DOMAIN queue' = 1..Len(queue')
            BY <2>1
          <6> QED
            BY <2>1, <5>1, <6>1
        <5> QED
          BY <3>1, <5>2
      <4> QED
        BY <4>1, <4>2
    <3> QED
      BY <1>1, <3>1 DEF GenInv, JobsInv
  <2>4. KnownEncoder' = KnownEncoder /\ seen' = seen
    BY <1>3 DEF KnownEncoder, declVars
  <2> QED
    BY <1>2, <1>3, <2>1, <2>2, <2>3, <2>4 DEF GenInv, JobsInv, RootOf
<1> QED
  BY <1>7, <1>8, <1>9, <1>10 DEF GenInv

LEMMA EndBodyStep ==
    ASSUME GenInv, EndBody
    PROVE  GenInv'
<1>1. phase = "planned" /\ phase' = "idle"
  BY DEF EndBody
<1>2. /\ AllDeclared /\ schema \in Schemas /\ current \in calls /\ top = current.msg
      /\ root = RootOf(schema, top, current.sc) /\ WalkInv
  BY <1>1, TopIsSeen
<1> DEFINE body == [name |-> current.name, msg |-> top, root |-> root]
<1>3. /\ bodies' = Append(bodies, body)
      /\ UNCHANGED <<schema, top, root, declVars, left, names, queue, current, at, call, calls>>
  BY DEF EndBody
<1>4. DeclInv'
  BY <1>3, DeclKept
<1>5. NamesInv'
  BY <1>3 DEF GenInv, NamesInv
<1>6. PlanInv'
  BY <1>1, <1>2, <1>3 DEF GenInv, PlanInv, AllDeclared, declVars
<1>7. JobsInv'
  <2>1. JobsInv /\ KnownEncoder' = KnownEncoder /\ seen' = seen
    BY <1>3 DEF GenInv, KnownEncoder, declVars
  <2>2. body \in [name : Ident, msg : Msg, root : Scope] /\ body.name = current.name
    <3>1. current.name \in Ident
      BY <2>1 DEF JobsInv, KnownEncoder, Encoder
    <3>2. top \in Msg /\ root \in Scope
      BY <1>2 DEF WalkInv, TypeOK
    <3> QED
      BY <3>1, <3>2
  <2>3. \E c \in calls : body = [name |-> c.name, msg |-> c.msg,
                                 root |-> RootOf(schema, c.msg, c.sc)]
    BY <1>2
  <2> HIDE DEF body
  <2>4. bodies \in Seq([name : Ident, msg : Msg, root : Scope])
    BY <2>1 DEF JobsInv
  <2> DEFINE Body == [name : Ident, msg : Msg, root : Scope]
  <2>5. bodies \in Seq(Body) /\ body \in Body
    BY <2>2, <2>4
  <2> HIDE DEF Body
  <2>6. /\ bodies' \in Seq(Body)
        /\ \A x \in DOMAIN bodies' :
              bodies'[x] = body \/ (x \in DOMAIN bodies /\ bodies'[x] = bodies[x])
        /\ \A x \in DOMAIN bodies : x \in DOMAIN bodies' /\ bodies'[x] = bodies[x]
        /\ Len(bodies) + 1 \in DOMAIN bodies' /\ bodies'[Len(bodies) + 1] = body
    BY <1>3, <2>5
  <2>7. \A x \in DOMAIN bodies' :
            \E c \in calls : bodies'[x] = [name |-> c.name, msg |-> c.msg,
                                           root |-> RootOf(schema, c.msg, c.sc)]
    BY <2>1, <2>3, <2>6 DEF JobsInv
  <2>8. ASSUME NEW n \in names
        PROVE  \/ \E x \in DOMAIN queue : queue[x].name = n.name
               \/ \E x \in DOMAIN bodies' : bodies'[x].name = n.name
    <3>1. \/ \E x \in DOMAIN queue : queue[x].name = n.name
          \/ \E x \in DOMAIN bodies : bodies[x].name = n.name
          \/ current.name = n.name
      BY <2>1 DEF JobsInv
    <3>2. current.name = n.name => bodies'[Len(bodies) + 1].name = n.name
      BY <2>2, <2>6
    <3> QED
      BY <2>6, <3>1, <3>2
  <2>9. bodies' \in Seq([name : Ident, msg : Msg, root : Scope])
    BY <2>6 DEF Body
  <2> QED
    BY <1>1, <1>3, <2>1, <2>7, <2>8, <2>9 DEF JobsInv, RootOf
<1> QED
  BY <1>4, <1>5, <1>6, <1>7 DEF GenInv

-----------------------------------------------------------------------------
(* The invariant and its consequences                                      *)

LEMMA GenInitInv == GenInit => GenInv
<1> SUFFICES ASSUME GenInit PROVE GenInv
  OBVIOUS
<1>1. FileOrder \in Seq(Msg) /\ FileOrder # <<>>
  BY FileAssumption
<1>2. FileOrder[1] \in Msg
  BY <1>1
<1>3. BuiltinDefaults \in KnownScope
  <2>1. BuiltinDefaults.maxDepth = 0 /\ BuiltinDefaults.indexSep = BuiltinIndexSep
    BY DEF BuiltinDefaults
  <2> QED
    BY <2>1, BuiltinDefaultsType, BoundAssumption DEF KnownScope, IndexSeps
<1>4. current \in KnownEncoder
  <2>1. <<>> \in Ident
    BY DEF Ident
  <2> QED
    BY <1>2, <1>3, <2>1 DEF GenInit, KnownEncoder, Encoder, KnownScope
<1>5. DeclInv
  <2>1. GoodHelpers({})
    BY FS_EmptySet DEF GoodHelpers
  <2> QED
    BY <2>1 DEF GenInit, DeclInv
<1>6. NamesInv
  BY FS_EmptySet DEF GenInit, NamesInv
<1>7. JobsInv
  BY <1>4 DEF GenInit, Idle, JobsInv
<1>8. PlanInv
  BY DEF GenInit, Idle, PlanInv
<1> QED
  BY <1>5, <1>6, <1>7, <1>8 DEF GenInv

LEMMA GenNextInv == GenInv /\ [GenNext]_<<vars, genVars>> => GenInv'
<1> SUFFICES ASSUME GenInv, [GenNext]_<<vars, genVars>>
             PROVE  GenInv'
  OBVIOUS
<1>1. CASE GenNext
  BY <1>1, DeclareRootStep, DeclareMessageStep, DeclareFieldStep, EmitMethodsStep, StartBodyStep,
     PlanStepStep, EmitCallStep, EmitEntryStep, EndBodyStep DEF GenNext
<1>2. CASE UNCHANGED <<vars, genVars>>
  <2>1. UNCHANGED <<vars, declVars, left, names, queue, current, at, call, bodies, calls>>
        /\ UNCHANGED <<schema, top, root, phase, roots, agenda, seen>>
    BY <1>2 DEF vars, planVars, genVars, declVars
  <2>2. NamesInv' /\ JobsInv' /\ DeclInv'
    BY <2>1, JobsKept, DeclKept
  <2>3. phase # "idle" => WalkInv'
    BY <2>1, NextInv DEF GenInv, PlanInv
  <2>4. PlanInv'
    BY <2>1, <2>3 DEF GenInv, PlanInv, AllDeclared, RootOf
  <2> QED
    BY <2>2, <2>4 DEF GenInv
<1> QED
  BY <1>1, <1>2

LEMMA GenInvariant == GenSpec => []GenInv
BY GenInitInv, GenNextInv, PTL DEF GenSpec

(* Every variable of the emitter keeps its type, whatever the file and its *)
(* message types.                                                          *)
THEOREM GenTypeCorrect == GenSpec => []GenTypeOK
<1>1. GenInv => GenTypeOK
  <2> SUFFICES ASSUME GenInv PROVE GenTypeOK
    OBVIOUS
  <2>1. KnownEncoder \subseteq Encoder /\ Place \subseteq Msg \X Nat
    BY DEF KnownEncoder, Place
  <2>2. queue \in Seq(Encoder)
    BY <2>1, SeqMonotonic DEF GenInv, JobsInv
  <2>3. agenda \in Seq(Msg \X Nat)
    BY <2>1, SeqMonotonic DEF GenInv, DeclInv
  <2> QED
    BY <2>1, <2>2, <2>3
       DEF GenTypeOK, GenInv, DeclInv, GoodHelpers, NamesInv, JobsInv, PlanInv, Asking
<1> QED
  BY <1>1, GenInvariant, PTL

(* Generation that ends without an error has written every encoder that a  *)
(* method or another encoder calls.                                        *)
THEOREM EveryCallResolves == GenSpec => []CallsResolve
<1>1. GenInv => CallsResolve
  <2> SUFFICES ASSUME GenInv, Generated, NEW c \in calls
               PROVE  \E x \in DOMAIN bodies : bodies[x].name = c.name
    BY DEF CallsResolve
  <2> DEFINE record == [msg |-> c.msg, print |-> Fingerprint(c.sc), name |-> c.name]
  <2>1. record \in names /\ record.name = c.name
    BY DEF GenInv, JobsInv
  <2>2. DOMAIN queue = {} /\ phase = "idle"
    BY DEF Generated
  <2> HIDE DEF record
  <2> QED
    BY <2>1, <2>2 DEF GenInv, JobsInv
<1> QED
  BY <1>1, GenInvariant, PTL

(* An entry writes the values of fields there are.                         *)
LEMMA ValuesAreFields ==
    ASSUME schema \in Schemas, NEW e \in SafeEntry
    PROVE  ValueSteps(e) \subseteq SafeStep
<1>1. CASE e.kind = "scalar"
  <2>1. e.path \in SafePath /\ e.path # <<>>
    BY <1>1 DEF SafeEntry, ValueKinds
  <2> QED
    BY <1>1, <2>1, LastStep DEF ValueSteps
<1>2. CASE e.kind = "collection"
  BY <1>2, ElementIsField DEF ValueSteps
<1>3. CASE e.kind = "oneofValue"
  <2>1. e.oneof \in Reachable(top) \X Nat
    BY <1>3 DEF SafeEntry
  <2> QED
    BY <1>3, <2>1, BranchSteps DEF ValueSteps
<1>4. CASE e.kind = "merge"
  BY <1>4, SourcesAreFields DEF ValueSteps
<1>5. CASE e.kind \notin {"scalar", "collection", "oneofValue", "merge"}
  BY <1>5 DEF ValueSteps
<1> QED
  BY <1>1, <1>2, <1>3, <1>4, <1>5

(* Whatever an encoder writes, the helpers for its enums were declared     *)
(* before the first encoder, and no two of them have one name.             *)
THEOREM EveryHelperResolves == GenSpec => []HelpersResolve
<1>1. GenInv => HelpersResolve
  <2> SUFFICES ASSUME GenInv PROVE HelpersResolve
    OBVIOUS
  <2>1. ASSUME phase = "planned", at \in DOMAIN entries, NEW c \in HelperCalls(entries[at])
        PROVE  \E h \in helpers : h.enum = c.enum /\ h.does = c.does
    <3>1. /\ AllDeclared /\ WalkInv /\ schema \in Schemas /\ top \in seen
          /\ Reachable(top) \subseteq seen
      BY <2>1, TopIsSeen
    <3>2. PICK e \in SafeEntry : e = entries[at]
      BY <2>1, <3>1 DEF WalkInv
    <3>3. \/ c.does = "name" /\ \E step \in ValueSteps(e) : c.enum \in EnumsOf(step)
          \/ /\ c.does = "omit" /\ c.enum \in Omitting
             /\ \E step \in ValueSteps(e) : c.enum \in EnumsOf(step)
      <4> DEFINE enums == UNION {EnumsOf(step) : step \in ValueSteps(e)}
      <4>1. \A enum \in enums : \E step \in ValueSteps(e) : enum \in EnumsOf(step)
        OBVIOUS
      <4>2. \/ \E enum \in enums : c = [enum |-> enum, does |-> "name"]
            \/ \E enum \in enums \cap Omitting : c = [enum |-> enum, does |-> "omit"]
        <5>1. c \in HelperCalls(e)
          BY <2>1, <3>2
        <5> HIDE DEF enums
        <5>2. \/ c \in {[enum |-> enum, does |-> "name"] : enum \in enums}
              \/ c \in {[enum |-> enum, does |-> "omit"] : enum \in enums \cap Omitting}
          BY <5>1 DEF HelperCalls, enums
        <5> QED
          BY <5>2
      <4> HIDE DEF enums
      <4> QED
        BY <4>1, <4>2
    <3>4. PICK step \in ValueSteps(e) : c.enum \in EnumsOf(step)
      BY <3>3
    <3>5. step \in SafeStep
      BY <3>1, ValuesAreFields
    <3>6. step[1] \in seen /\ step[2] \in DOMAIN schema[step[1]].fields
          /\ step = <<step[1], step[2]>>
      BY <3>1, <3>5 DEF SafeStep, Step
    <3>7. ~OnAgenda(step)
      BY <3>1 DEF AllDeclared, OnAgenda
    <3>8. Resolved(step)
      BY <3>6, <3>7 DEF GenInv, DeclInv
    <3> QED
      BY <3>3, <3>4, <3>8 DEF Resolved, Helped
  <2> QED
    BY <2>1 DEF HelpersResolve, GenInv, DeclInv, GoodHelpers
<1> QED
  BY <1>1, GenInvariant, PTL

-----------------------------------------------------------------------------
(* Names                                                                   *)

(* No step puts two encoders under one name.                               *)
LEMMA ApartStep ==
    ASSUME NoNumberedSymbols, GenInv, Apart, [GenNext]_<<vars, genVars>>
    PROVE  Apart'
<1>1. ASSUME UNCHANGED <<names, queue, current, bodies>>, phase' = "idle" <=> phase = "idle"
      PROVE  Apart'
  BY <1>1 DEF Apart
<1>2. CASE DeclareRoot \/ DeclareMessage \/ DeclareField \/ EmitEntry \/ UNCHANGED <<vars, genVars>>
  BY <1>1, <1>2 DEF DeclareRoot, DeclareMessage, DeclareField, EmitEntry, vars, planVars, genVars
<1>3. CASE EmitMethods \/ EmitCall
  <2>1. UNCHANGED <<vars, current, bodies>>
    BY <1>3 DEF EmitMethods, EmitCall
  <2>2. CASE EmitMethods
    <3>1. schema \in Schemas /\ left # {} /\ left \subseteq Asking /\ FileOrder \in Seq(Msg)
      BY <2>2, FileAssumption DEF GenInv, DeclInv, PlanInv, EmitMethods
    <3>2. left \in SUBSET Nat
      BY <3>1 DEF Asking
    <3>3. Min(left) \in Asking
      BY <3>1, <3>2, MinMember
    <3>4. PICK m \in Msg : m = FileOrder[Min(left)]
      BY <3>1, <3>3 DEF Asking
    <3>5. PICK sc \in KnownScope : sc = Interior(schema, m)
      BY <3>1, MessageScopes
    <3>6. Request(m, sc)
      BY <2>2, <3>4, <3>5 DEF EmitMethods
    <3> QED
      BY <2>1, <3>6, RequestApart
  <2>3. CASE EmitCall
    <3>1. PICK m \in seen, sc \in KnownScope : Request(m, sc)
      BY <2>3, NextCall
    <3>2. m \in Msg
      BY DEF GenInv, DeclInv
    <3> QED
      BY <2>1, <3>1, <3>2, RequestApart
  <2> QED
    BY <1>3, <2>2, <2>3
<1>4. CASE PlanStep
  <2>1. GenInv' /\ UNCHANGED <<names, queue, current, bodies>>
    BY <1>4, PlanStepStep DEF PlanStep, genVars
  <2>2. phase # "idle"
    BY <1>4, PlanStepFacts DEF PlanStep
  <2> QED
    BY <1>4, <2>1, <2>2 DEF Apart
<1>5. CASE StartBody
  <2>1. queue \in Seq(KnownEncoder) /\ queue # <<>> /\ phase = "idle"
    BY <1>5 DEF StartBody, GenInv, JobsInv
  <2>2. /\ current' = queue[1] /\ 1 \in DOMAIN queue
        /\ \A x \in DOMAIN queue' : x + 1 \in DOMAIN queue /\ queue'[x] = queue[x + 1]
                                    /\ x + 1 # 1 /\ x \in Nat
        /\ UNCHANGED <<names, bodies>>
    BY <1>5, <2>1 DEF StartBody
  <2>3. \A x, y \in DOMAIN queue' : x # y => x + 1 # y + 1
    BY <2>2
  <2> QED
    BY <2>1, <2>2, <2>3 DEF Apart
<1>6. CASE EndBody
  <2> DEFINE Body == [name : Ident, msg : Msg, root : Scope]
             body == [name |-> current.name, msg |-> top, root |-> root]
  <2>1. bodies \in Seq(Body) /\ phase = "planned" /\ phase' = "idle"
    BY <1>6 DEF EndBody, GenInv, JobsInv
  <2>2. bodies' = Append(bodies, body) /\ body.name = current.name
        /\ UNCHANGED <<names, queue, current>>
    BY <1>6 DEF EndBody
  <2> HIDE DEF Body, body
  <2>3. \A x \in DOMAIN bodies' :
            \/ bodies'[x] = body /\ x = Len(bodies) + 1
            \/ x \in DOMAIN bodies /\ bodies'[x] = bodies[x]
    BY <2>1, <2>2
  <2>4. \A x, y \in DOMAIN bodies' : x # y => bodies'[x].name # bodies'[y].name
    BY <2>1, <2>2, <2>3 DEF Apart
  <2>5. \A x \in DOMAIN queue : \A y \in DOMAIN bodies' : queue[x].name # bodies'[y].name
    BY <2>1, <2>2, <2>3 DEF Apart
  <2> QED
    BY <2>1, <2>2, <2>4, <2>5 DEF Apart
<1> QED
  BY <1>2, <1>3, <1>4, <1>5, <1>6 DEF GenNext

LEMMA ApartInvariant ==
    ASSUME NoNumberedSymbols
    PROVE  GenSpec => [](GenInv /\ Apart)
<1>1. GenInit => Apart
  BY DEF GenInit, Idle, Apart
<1>2. GenInv /\ Apart /\ [GenNext]_<<vars, genVars>> => GenInv' /\ Apart'
  BY GenNextInv, ApartStep
<1> QED
  BY <1>1, <1>2, GenInitInv, PTL DEF GenSpec

(* No two encoders of a file have one name, and none is written twice,     *)
(* unless a message is named as another one with a number at its end.      *)
THEOREM EncoderNamesDistinct ==
    ASSUME NoNumberedSymbols
    PROVE  GenSpec => []NamesDistinct
<1>1. Apart => NamesDistinct
  BY DEF Apart, NamesDistinct
<1> QED
  BY <1>1, ApartInvariant, PTL

(* No index separator has a comma.                                         *)
NoCommaSeps == \A sep \in IndexSeps : CommaFree(sep)

(* An encoder that is shared is the one each of its callers would have had *)
(* planned for it, where names cannot be confused and fingerprints cannot  *)
(* either: the one needs symbols without numbers, the other index          *)
(* separators without commas.                                              *)
THEOREM SharedEncodersAgree ==
    ASSUME NoNumberedSymbols, NoCommaSeps
    PROVE  GenSpec => []SharedEncoderAgrees
<1>1. GenInv /\ Apart => SharedEncoderAgrees
  <2> SUFFICES ASSUME GenInv, Apart, NEW c \in calls, NEW x \in DOMAIN bodies,
                      bodies[x].name = c.name
               PROVE  /\ bodies[x].msg = c.msg
                      /\ bodies[x].root = RootOf(schema, c.msg, c.sc)
    BY DEF SharedEncoderAgrees
  <2>1. PICK d \in calls : bodies[x] = [name |-> d.name, msg |-> d.msg,
                                        root |-> RootOf(schema, d.msg, d.sc)]
    BY DEF GenInv, JobsInv
  <2>2. bodies[x].name = d.name /\ bodies[x].msg = d.msg
        /\ bodies[x].root = RootOf(schema, d.msg, d.sc)
    BY <2>1
  <2> DEFINE record(j) == [msg |-> j.msg, print |-> Fingerprint(j.sc), name |-> j.name]
  <2>3. record(c) \in names /\ record(d) \in names
    BY DEF GenInv, JobsInv
  <2>4. record(c).name = c.name /\ record(d).name = d.name
        /\ record(c).msg = c.msg /\ record(d).msg = d.msg
        /\ record(c).print = Fingerprint(c.sc) /\ record(d).print = Fingerprint(d.sc)
    OBVIOUS
  <2> HIDE DEF record
  <2>5. record(c) = record(d)
    BY <2>2, <2>3, <2>4 DEF Apart
  <2>6. c.msg = d.msg /\ Fingerprint(c.sc) = Fingerprint(d.sc)
    BY <2>4, <2>5
  <2>7. c.msg \in Msg /\ c.sc \in KnownScope /\ d.sc \in KnownScope /\ schema \in Schemas
    BY DEF GenInv, JobsInv, PlanInv, KnownEncoder, Encoder
  <2>8. schema[c.msg].file \in Options /\ schema[c.msg].own \in Options
    BY <2>7, SchemaFacts DEF Message
  <2>9. c.sc \in Scope /\ d.sc \in Scope /\ CommaFree(c.sc.indexSep) /\ CommaFree(d.sc.indexSep)
    BY <2>7 DEF KnownScope, NoCommaSeps
  <2>10. RootOf(schema, c.msg, d.sc) = RootOf(schema, c.msg, c.sc)
    BY <2>6, <2>8, <2>9, SharedScopeSound DEF RootOf
  <2> QED
    BY <2>2, <2>6, <2>10
<1> QED
  BY <1>1, ApartInvariant, PTL
=============================================================================
