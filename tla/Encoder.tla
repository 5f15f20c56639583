------------------------------ MODULE Encoder ------------------------------
(***************************************************************************)
(* From a message type to the bytes of a message: the walk of PlanWalk     *)
(* builds the plan, and the encoder generated from that plan is called     *)
(* with a message and writes it through the machinery of ObjectWriter.     *)
(* ObjectWriter takes its plans and messages as given; here the plan is    *)
(* the one the walk made, and the message any that Go's types allow: of    *)
(* each oneof it holds one branch at most.                                 *)
(*                                                                         *)
(* The types declare no exclusive groups, whose promises are the user's.   *)
(***************************************************************************)
EXTENDS PlanWalk

CONSTANTS SpreadRuns,   \* the keys a spreading entry may produce
          OmitIfUnset   \* omit_if_unset of every oneof

ASSUME RunsAssumption == SpreadRuns \subseteq Seq(Name)

VARIABLES
    plan,                        \* the plan the encoder is generated from
    writes,                      \* what each entry has to write for the message
    pc,                          \* "none" until the encoder is called
    needsTracker, needsBuffer, guarded,
    i, k, wrote, seen, order, values, out,
    failure                      \* the error of the encode

writerVars  == <<plan, writes, pc, needsTracker, needsBuffer, guarded, i, k, wrote, seen,
                 order, values, out, failure>>
encoderVars == <<vars, writerVars>>

-----------------------------------------------------------------------------
(* The plan, as the encoder is generated from it                           *)

OneofSteps(p) == {n \in DOMAIN p : OneofAt(p[n]) # 0}

(* The branch of the innermost oneof the walk was in: the one its id is    *)
(* of.  What a pick or a lift passes through has no id.                    *)
BranchOf(e) == LET p == Walked_(e.path)
               IN  IF OneofSteps(p) = {} THEN <<>> ELSE Prefix(p, Max(OneofSteps(p)))

(* EXPLODE over scalars writes one key, its own, though it is dynamic.     *)
ModeOf(e) == IF ~e.dynamic THEN "static"
             ELSE IF /\ e.sc.format["cardinality"] = "EXPLODE"
                     /\ FieldOf(schema, Last_(e.path)).kind = "list"
                  THEN "pick" ELSE "spread"

Planned == [n \in DOMAIN entries |-> [key    |-> entries[n].name,
                                      mode   |-> ModeOf(entries[n]),
                                      excl   |-> entries[n].excl,
                                      branch |-> BranchOf(entries[n])]]

Writer == INSTANCE ObjectWriter WITH
              Key <- Name, Branch <- Path, Plans <- {},
              policy <- root.policy, wins <- root.wins, err <- failure

-----------------------------------------------------------------------------
(* The message                                                             *)

(* A oneof of the message: the path of its owner, and the oneof.           *)
OwnOneof(e) == <<e.path, e.oneof>>

OneofsOnPath(e) ==
    {<<Prefix(e.path, n - 1), <<e.path[n][1], OneofAt(e.path[n])>> >> : n \in OneofSteps(e.path)}
    \cup (IF e.oneof = <<>> THEN {} ELSE {OwnOneof(e)})

NoBranch == 0

BranchesOf(oneof_) == {n \in AllFields(oneof_[2][1]) : OneofAt(<<oneof_[2][1], n>>) = oneof_[2][2]}

(* The branch each oneof holds, by the field's position.                   *)
Holdings ==
    LET oneofs == UNION {OneofsOnPath(e) : e \in Elements(entries)}
    IN  {held \in [oneofs -> UNION {BranchesOf(o) \cup {NoBranch} : o \in oneofs}] :
            \A o \in oneofs : held[o] \in BranchesOf(o) \cup {NoBranch}}

(* Every branch on the way to the entry is the one held.                   *)
Reached(e, held) ==
    \A n \in OneofSteps(e.path) :
        held[<<Prefix(e.path, n - 1), <<e.path[n][1], OneofAt(e.path[n])>> >>] = e.path[n][2]

(* What the code emitted for an entry, without emit_empty, has to write in *)
(* any case: a constant, and a oneof's own key when the oneof holds a      *)
(* branch, or is not there and its null is not omitted.                    *)
MustWrite(e, held) ==
    \/ e.kind = "constant"
    \/ /\ e.oneof # <<>>
       /\ OmitIfUnset => Reached(e, held) /\ held[OwnOneof(e)] # NoBranch

(* Fault: a field of a branch is read whichever branch is held.            *)
MayWriteIgnoringBranch(e, held) == e.oneof = <<>>

(* And what it may write, or not: a merged key, and any other value when   *)
(* the entry is reached.                                                   *)
MayWrite(e, held) == e.kind = "merge" \/ (e.oneof = <<>> /\ Reached(e, held))

Spreads == {n \in DOMAIN entries : ModeOf(entries[n]) = "spread"}

(* What all entries write when these do, and spreading ones make these     *)
(* keys of their values.                                                   *)
WrittenBy(writers, runs) ==
    [n \in DOMAIN entries |-> IF n \notin writers THEN <<>>
                              ELSE IF n \in Spreads THEN runs[n]
                              ELSE <<entries[n].name>>]

-----------------------------------------------------------------------------
(* The whole                                                               *)

EncoderInit == /\ Init
               /\ plan = <<>> /\ writes = <<>>
               /\ pc = "none"
               /\ needsTracker = FALSE /\ needsBuffer = FALSE /\ guarded = {}
               /\ i = 1 /\ k = 1
               /\ wrote = {}
               /\ seen = [key \in Name |-> 0]
               /\ order = <<>>
               /\ values = [key \in Name |-> Writer!NoValue]
               /\ out = <<>>
               /\ failure = Writer!NoError

Walk == Next /\ UNCHANGED writerVars

(* The encoder is generated and its MarshalPlainJSON called with a message. *)
Call == /\ phase = "planned"
        /\ pc = "none"
        /\ plan' = Planned
        /\ \E held \in Holdings :
              LET must == {n \in DOMAIN entries : MustWrite(entries[n], held)}
                  may  == {n \in DOMAIN entries : MayWrite(entries[n], held)}
              IN  \E some \in SUBSET may, runs \in [Spreads -> SpreadRuns] :
                      writes' = WrittenBy(must \cup some, runs)
        /\ pc' = "analyse"
        /\ UNCHANGED <<vars, needsTracker, needsBuffer, guarded, i, k, wrote, seen, order,
                       values, out, failure>>

Write == UNCHANGED vars /\ Writer!Next

EncoderNext == Walk \/ Call \/ Write

EncoderSpec == EncoderInit /\ [][EncoderNext]_encoderVars

-----------------------------------------------------------------------------
(* Properties                                                              *)

Called == pc # "none"

(* The promises ObjectWriter assumes of its plans are kept by those of the *)
(* walk: entries given one id (walkOneof, nextExclusive) never both write, *)
(* however oneofs are nested, reached and tagged.                          *)
PromisesKept == Called => Writer!PromiseKept(plan, writes)

(* No object has a key twice: the ids of the walk, the machinery the       *)
(* analysis chose from them and the message fit together.  Left out are    *)
(* types one branch of which has a key twice (plan.analyse).               *)
ObjectKeysOnce ==
    Called /\ Writer!BranchKeysDistinct(plan) => Writer!NoDuplicateKeys

(* The entries that write the key for this message.                        *)
WritersOf(key) == {n \in DOMAIN entries : key \in Elements(writes[n])}

(* A key tracker never lets go of a key, whatever COLLISION_WINS says.     *)
LastWins == needsBuffer /\ ~needsTracker

(* Among the fields that hold a value for one key the finished object has  *)
(* that of the first declared, or with COLLISION_WINS_LAST and no key      *)
(* tracker that of the last: the order of the walk is the order of the     *)
(* winners (OPTIONS.md, collision_wins).                                   *)
DeclaredFirstWins ==
    pc = "done" /\ Writer!BranchKeysDistinct(plan) =>
        \A x \in DOMAIN out : \A n \in WritersOf(out[x].key) :
            LET e == entries[out[x].val[1]]
                f == entries[n]
            IN  \/ e = f \/ {e.kind, f.kind} \cap {"constant", "merge"} # {}
                \/ LastWins /\ Earlier(Position(f), Position(e))
                \/ ~LastWins /\ Earlier(Position(e), Position(f))
=============================================================================
