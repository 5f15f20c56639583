----------------------------- MODULE Generator -----------------------------
(***************************************************************************)
(* Generating one file: every generated message gets its methods, which    *)
(* call an encoder; every encoder that is called for the first time is     *)
(* queued; and the queue is emptied by planning and writing one encoder    *)
(* after another, which queues the encoders of nested messages.  Encoders  *)
(* are shared: keyed by the message and the fingerprint of the scope.      *)
(*                                                                         *)
(* Each encoder's plan is built by the walk of PlanWalk.                   *)
(***************************************************************************)
EXTENDS PlanWalk

CONSTANTS FileOrder,   \* the messages of the file, in declaration order
          EnumTypes,   \* the enum type of each field that holds enum values
          EnumSymbol,  \* the Go identifier of each enum type, cut before a final _N
          Omitting     \* the enum types some values of which are omitted

ASSUME FileAssumption == FileOrder \in Seq(Msg) /\ FileOrder # <<>>

ASSUME EnumAssumption ==
    /\ DOMAIN EnumTypes \subseteq Step
    /\ Range(EnumTypes) \subseteq DOMAIN EnumSymbol
    /\ Range(EnumSymbol) \subseteq Seq(Name \cup Nat)
    /\ Omitting \subseteq DOMAIN EnumSymbol

VARIABLES roots,    \* the messages declareEnums is still to be started on
          agenda,   \* what its walk has left: messages <<m, 0>>, fields <<m, n>>
          seen,     \* the messages it has walked
          helpers,  \* emitter.enums: the enum, what the helper does, and its name
          left,     \* the messages whose methods are still to be written
          names,    \* emitter.names: message, fingerprint and name of each encoder
          queue,    \* emitter.queue
          current,  \* the encoder being written
          at, call, \* the entry being written, and the last of its calls written
          bodies,   \* the encoders written
          calls     \* the calls written, each with the scope it was meant for

declVars == <<roots, agenda, seen, helpers>>
genVars  == <<declVars, left, names, queue, current, at, call, bodies, calls>>

Idle == /\ top = FileOrder[1]
        /\ root = BuiltinDefaults
        /\ phase = "idle"
        /\ stack = <<>> /\ entries = <<>> /\ oneofSeq = 0
        /\ err = "none"

(* generatedMessages: where the file has those that ask for marshalers.    *)
Asking == {n \in DOMAIN FileOrder : schema[FileOrder[n]].generate}

(* GenerateFile                                                            *)
GenInit == /\ schema \in Schemas
           /\ Idle
           /\ roots = Asking /\ agenda = <<>>
           /\ seen = {} /\ helpers = {}
           /\ left = Asking
           /\ names = {}
           /\ queue = <<>>
           /\ current = [name |-> <<>>, msg |-> FileOrder[1], sc |-> BuiltinDefaults]
           /\ at = 1 /\ call = 0
           /\ bodies = <<>>
           /\ calls = {}

-----------------------------------------------------------------------------
(* declareEnums                                                            *)

EnumsOf(step) == IF /\ FieldOf(schema, step).kind \in {"leaf", "list"}
                    /\ step \in DOMAIN EnumTypes
                 THEN {EnumTypes[step]} ELSE {}

(* uniqueEnumName *)
HelperName(does, symbol, declared) ==
    LET taken(name) == \E h \in declared : h.does = does /\ h.name = name
        number == CHOOSE i \in 2..Cardinality(declared) + 2 :
                     /\ ~taken(Append(symbol, i))
                     /\ \A j \in 2..i - 1 : taken(Append(symbol, j))
    IN  IF taken(symbol) THEN Append(symbol, number) ELSE symbol

Declared(enum, does, declared) ==
    IF \E h \in declared : h.enum = enum /\ h.does = does THEN declared
    ELSE declared \cup {[enum |-> enum, does |-> does,
                         name |-> HelperName(does, EnumSymbol[enum], declared)]}

(* declareEnum and declareEnumOmitter                                      *)
WithHelpers(enum) ==
    LET named == Declared(enum, "name", helpers)
    IN  IF enum \in Omitting THEN Declared(enum, "omit", named) ELSE named

(* Fault: only singular messages are entered.                              *)
EnteredIfSingular(f) == IF f.kind = "message" THEN << <<f.type, 0>> >> ELSE <<>>

Entered(f) == IF f.type # NoMsg THEN << <<f.type, 0>> >> ELSE <<>>

(* The walk of declareEnums starts on the next message of the file.        *)
DeclareRoot ==
    /\ agenda = <<>> /\ roots # {}
    /\ agenda' = << <<FileOrder[Min(roots)], 0>> >>
    /\ roots' = roots \ {Min(roots)}
    /\ UNCHANGED <<vars, seen, helpers, left, names, queue, current, at, call, bodies, calls>>

(* It arrives at a message.                                                *)
DeclareMessage ==
    /\ agenda # <<>> /\ Head(agenda)[2] = 0
    /\ LET m == Head(agenda)[1]
       IN  /\ agenda' = IF m \in seen THEN Tail(agenda)
                        ELSE [n \in DOMAIN schema[m].fields |-> <<m, n>>] \o Tail(agenda)
           /\ seen' = seen \cup {m}
    /\ UNCHANGED <<vars, roots, helpers, left, names, queue, current, at, call, bodies, calls>>

(* It arrives at a field.                                                  *)
DeclareField ==
    /\ agenda # <<>> /\ Head(agenda)[2] # 0
    /\ helpers' = helpers \cup UNION {WithHelpers(enum) : enum \in EnumsOf(Head(agenda))}
    /\ agenda' = Entered(FieldOf(schema, Head(agenda))) \o Tail(agenda)
    /\ UNCHANGED <<vars, roots, seen, left, names, queue, current, at, call, bodies, calls>>

-----------------------------------------------------------------------------
(* encoderName                                                             *)

AllDeclared == roots = {} /\ agenda = <<>>

(* Fault: a message is known by any of its encoders.                       *)
KnownByMessage(m, sc) == {n \in names : n.msg = m}

Known(m, sc) == {n \in names : n.msg = m /\ n.print = Fingerprint(sc)}

(* Fault: a name is not checked against the others.                        *)
NewNameUnchecked(m) == schema[m].symbol

(* A name that is taken is numbered with the size of the table.            *)
NewName(m) == IF \E n \in names : n.name = schema[m].symbol
              THEN Append(schema[m].symbol, Cardinality(names))
              ELSE schema[m].symbol

EncoderName(m, sc) ==
    IF Known(m, sc) # {} THEN (CHOOSE n \in Known(m, sc) : TRUE).name ELSE NewName(m)

(* Fault: an encoder first called when others are queued is not queued.    *)
QueuedAlone(m, sc) == IF Known(m, sc) = {} /\ queue = <<>>
                      THEN <<[name |-> NewName(m), msg |-> m, sc |-> sc]>> ELSE queue

Queued(m, sc) == IF Known(m, sc) = {}
                 THEN Append(queue, [name |-> NewName(m), msg |-> m, sc |-> sc]) ELSE queue

(* A call of the encoder of m under sc, queueing it the first time.        *)
Request(m, sc) ==
    /\ calls' = calls \cup {[name |-> EncoderName(m, sc), msg |-> m, sc |-> sc]}
    /\ names' = names \cup {[msg |-> m, print |-> Fingerprint(sc), name |-> EncoderName(m, sc)]}
    /\ queue' = Queued(m, sc)

(* emitMethods: the exported methods call the encoder of the type's own    *)
(* scope.                                                                  *)
EmitMethods == /\ AllDeclared
               /\ left # {}
               /\ LET m == FileOrder[Min(left)] IN Request(m, Interior(schema, m))
               /\ left' = left \ {Min(left)}
               /\ UNCHANGED <<vars, declVars, current, at, call, bodies>>

-----------------------------------------------------------------------------
(* flush and emitBody                                                      *)

StartBody == /\ AllDeclared /\ left = {}
             /\ phase = "idle"
             /\ queue # <<>>
             /\ current' = Head(queue)
             /\ queue' = Tail(queue)
             /\ top' = Head(queue).msg
             /\ root' = RootOf(schema, Head(queue).msg, Head(queue).sc)
             /\ phase' = "start"
             /\ stack' = <<>> /\ entries' = <<>> /\ oneofSeq' = 0 /\ err' = "none"
             /\ at' = 1 /\ call' = 0
             /\ UNCHANGED <<schema, declVars, left, names, bodies, calls>>

PlanStep == Next /\ UNCHANGED genVars

(* Among some fields those that are repeated messages.                     *)
Repeated(steps) ==
    [n \in {k \in DOMAIN steps : FieldOf(schema, steps[k]).kind = "messages"} |-> steps[n]]

Branches(o) == {n \in DOMAIN schema[o[1]].fields : OneofAt(<<o[1], n>>) = o[2]}

MessageBranches(o) == {n \in Branches(o) : FieldOf(schema, <<o[1], n>>).kind = "message"}

(* The cardinalities that write no element of a collection and of a merge, *)
(* and those that take an element's keys apart and never look at a pick.   *)
Elementless(e) == IF e.kind = "merge" THEN {"COUNT", "JOIN"} ELSE {"COUNT", "KEYS", "JOIN"}
Unpicked == {"INDEXED", "EXPLODE"}

(* The field whose type the elements of a collection are encoded as.       *)
ElementStep(e) == IF e.pickPath = <<>> \/ e.sc.format["cardinality"] \in Unpicked
                  THEN Last_(e.path) ELSE Last_(e.pickPath)

Counted(e, step) == /\ e.sc.format["cardinality"] = "COUNT"
                    /\ FieldOf(schema, step).kind \in {"list", "messages"}

(* The fields whose values an entry's code writes itself.  To a merge the  *)
(* cardinality only says whether a collection is counted: what is singular *)
(* it writes all the same, and under KEYS the elements themselves.         *)
ValueSteps(e) ==
    CASE e.kind = "scalar" -> {Last_(e.path)}
      [] e.kind = "collection" ->
            IF e.sc.format["cardinality"] \in {"COUNT", "KEYS"} THEN {} ELSE {ElementStep(e)}
      [] e.kind = "oneofValue" -> {<<e.oneof[1], n>> : n \in Branches(e.oneof)}
      [] e.kind = "merge" -> {step \in {Last_(e.sources[n]) : n \in DOMAIN e.sources} :
                                ~Counted(e, step)}
      [] OTHER -> {}

(* The enum helpers they call: enumNamer for names, and enumOmitter where  *)
(* a scalar that is no branch may be left out (without emit_empty).        *)
HelperCalls(e) ==
    LET enums == UNION {EnumsOf(step) : step \in ValueSteps(e)}
    IN  {[enum |-> enum, does |-> "name"] :
            enum \in IF e.sc.format["enumFormat"] = "NUMBER" THEN {} ELSE enums}
        \cup {[enum |-> enum, does |-> "omit"] :
                enum \in IF e.kind = "scalar" /\ OneofAt(Last_(e.path)) = 0
                         THEN enums \cap Omitting ELSE {}}

(* The fields an entry's code calls encoders for, by position: a nested    *)
(* object, the elements of a collection or of what is picked from them,    *)
(* the message branches under a single key, a merge's repeated sources.    *)
CallSteps(e) ==
    CASE e.kind = "object" -> <<Last_(e.path)>>
      [] /\ e.kind \in {"collection", "merge"}
         /\ e.sc.format["cardinality"] \in Elementless(e) -> <<>>
      [] e.kind = "collection" -> Repeated(<<ElementStep(e)>>)
      [] e.kind = "oneofValue" -> [n \in MessageBranches(e.oneof) |-> <<e.oneof[1], n>>]
      [] e.kind = "merge" -> Repeated([n \in DOMAIN e.sources |-> Last_(e.sources[n])])
      [] OTHER -> <<>>

Callee(e, n) == FieldOf(schema, CallSteps(e)[n]).type

Uncalled(e) == {n \in DOMAIN CallSteps(e) : n > call}

(* writer.entry, as far as it calls encoders.                              *)
EmitCall == /\ phase = "planned"
            /\ at \in DOMAIN entries
            /\ Uncalled(entries[at]) # {}
            /\ call' = Min(Uncalled(entries[at]))
            /\ Request(Callee(entries[at], call'), entries[at].sc)
            /\ UNCHANGED <<vars, declVars, left, current, at, bodies>>

EmitEntry == /\ phase = "planned"
             /\ at \in DOMAIN entries
             /\ Uncalled(entries[at]) = {}
             /\ at' = at + 1
             /\ call' = 0
             /\ UNCHANGED <<vars, declVars, left, names, queue, current, bodies, calls>>

(* Fault: one entry too many is waited for.                                *)
BodyDoneLate == at > Len(entries) + 1

BodyDone == at > Len(entries)

EndBody == /\ phase = "planned"
           /\ BodyDone
           /\ bodies' = Append(bodies, [name |-> current.name, msg |-> top, root |-> root])
           /\ phase' = "idle"
           /\ UNCHANGED <<schema, top, root, stack, entries, oneofSeq, err,
                          declVars, left, names, queue, current, at, call, calls>>

(* A plan that fails ends the generation: nothing is enabled any more.     *)
GenNext == \/ DeclareRoot \/ DeclareMessage \/ DeclareField
           \/ EmitMethods
           \/ StartBody \/ PlanStep \/ EmitCall \/ EmitEntry \/ EndBody

GenSpec == GenInit /\ [][GenNext]_<<vars, genVars>> /\ WF_<<vars, genVars>>(GenNext)

-----------------------------------------------------------------------------
(* Properties                                                              *)

Generated == AllDeclared /\ left = {} /\ queue = <<>> /\ phase = "idle"

Ident == Seq(Name \cup Nat)

Fingerprints == [format : [FormatOption -> FormatValue], separators : Seq(Char), exhausted : BOOLEAN]

Encoder == [name : Ident, msg : Msg, sc : Scope]

(* Every variable of the emitter keeps its type.                           *)
GenTypeOK ==
    /\ roots \cup left \subseteq DOMAIN FileOrder
    /\ agenda \in Seq(Msg \X Nat)
    /\ seen \subseteq Msg
    /\ helpers \subseteq [enum : DOMAIN EnumSymbol, does : {"name", "omit"}, name : Ident]
    /\ names \subseteq [msg : Msg, print : Fingerprints, name : Ident]
    /\ queue \in Seq(Encoder)
    /\ current \in Encoder
    /\ at \in Nat /\ call \in Nat
    /\ bodies \in Seq([name : Ident, msg : Msg, root : Scope])
    /\ calls \subseteq Encoder

(* No two encoders of the file have one name, which Go would refuse, and   *)
(* no encoder is written twice.                                            *)
NamesDistinct ==
    \A x, y \in DOMAIN bodies : x # y => bodies[x].name # bodies[y].name

(* The helpers a body calls for its enums have all been declared before    *)
(* the first body, for fields of every message that can be reached, and no *)
(* two helpers have one name.                                              *)
HelpersResolve ==
    /\ phase = "planned" /\ at \in DOMAIN entries =>
          \A c \in HelperCalls(entries[at]) :
             \E h \in helpers : h.enum = c.enum /\ h.does = c.does
    /\ \A g, h \in helpers : g # h => <<g.does, g.name>> # <<h.does, h.name>>

(* When the generation ends without an error, every encoder called by a    *)
(* method or by another encoder has been written.                          *)
CallsResolve ==
    Generated => \A c \in calls : \E x \in DOMAIN bodies : bodies[x].name = c.name

(* A shared encoder is right for every place that calls it: it was planned *)
(* for that message, under the root scope that place would have given it,  *)
(* although the fingerprint leaves out shape, depth and collision options. *)
SharedEncoderAgrees ==
    \A c \in calls : \A x \in DOMAIN bodies :
        bodies[x].name = c.name =>
            /\ bodies[x].msg = c.msg
            /\ bodies[x].root = RootOf(schema, c.msg, c.sc)

(* Generation ends, with an encoder for everything or with an error, for   *)
(* recursive types too: a type comes back under finitely many              *)
(* fingerprints.                                                           *)
GenerationEnds == <>(Generated \/ phase = "failed")
=============================================================================
