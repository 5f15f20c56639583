--------------------------- MODULE EncoderProofs ---------------------------
(***************************************************************************)
(* From a message type to the object written.  Of two entries the walk     *)
(* gave one id, and whose branches differ, one has nothing to write for    *)
(* any message: the promise the collision machinery rests on.  With it,    *)
(* what is proved of that machinery for all plans holds of the plans of    *)
(* the walk: an object has each key once, with the value of the field      *)
(* declared first (or last, where that is asked for).                      *)
(***************************************************************************)
EXTENDS Encoder, PlanShapeProofs

(* No message type declares exclusive groups: their promises are the       *)
(* user's, and no message is bound to keep them.                           *)
NoGroups == \A s \in Schemas, m \in Msg : s[m].groups = <<>>

LEMMA NoGroupsAreFew == NoGroups => FewGroups
<1>1. Len(<<>>) = 0 /\ 0 <= LastGroupId
  BY DEF LastGroupId
<1> QED
  BY <1>1 DEF NoGroups, FewGroups

-----------------------------------------------------------------------------
(* The branch of an entry                                                  *)

(* Where the innermost oneof on the walked part of an entry's path is.     *)
LEMMA BranchPlace ==
    ASSUME NEW e \in SafeEntry, NEW n \in LastOneof(Walked_(e.path))
    PROVE  /\ n \in OneofSteps(e.path)
           /\ e.path[n] = Walked_(e.path)[n]
           /\ Prefix(e.path, n - 1) = Prefix(Walked_(e.path), n - 1)
           /\ BranchOf(e) = Prefix(Walked_(e.path), n)
<1> DEFINE w == Walked_(e.path)
<1>1. Begins(w, e.path)
  BY WalkedBegins
<1>2. /\ DOMAIN w \subseteq DOMAIN e.path
      /\ \A x \in 0..Len(w) : Prefix(e.path, x) = Prefix(w, x)
      /\ DOMAIN w = 1..Len(w) /\ Len(w) \in Nat
      /\ \A x \in DOMAIN w : e.path[x] = w[x]
  <2> HIDE DEF w
  <2> QED
    BY <1>1, BeginsFacts DEF Begins, Path
<1>3. /\ n \in DOMAIN w /\ OneofAt(w[n]) # 0
      /\ \A x \in DOMAIN w : x > n => OneofAt(w[x]) = 0
  BY DEF LastOneof
<1>4. Max(OneofSteps(w)) = n
  <2> DEFINE S == OneofSteps(w)
  <2>1. S \in SUBSET Nat /\ n \in S /\ \A x \in S : x <= n
    BY <1>2, <1>3 DEF OneofSteps
  <2>2. n \in Nat
    BY <2>1
  <2> HIDE DEF S
  <2>3. Max(S) \in S /\ n <= Max(S)
    BY <2>1, <2>2, MaxMember
  <2>4. Max(S) \in Nat /\ Max(S) <= n
    BY <2>1, <2>3
  <2>5. Max(S) = n
    BY <2>2, <2>3, <2>4
  <2> QED
    BY <2>5 DEF S
<1>5. OneofSteps(w) # {}
  BY <1>3 DEF OneofSteps
<1>6. BranchOf(e) = Prefix(w, n)
  BY <1>4, <1>5 DEF BranchOf
<1>7. n - 1 \in 0..Len(w) /\ n \in DOMAIN e.path /\ e.path[n] = w[n]
  BY <1>2, <1>3
<1> QED
  BY <1>2, <1>3, <1>6, <1>7 DEF OneofSteps

(* Entries of different branches of their innermost oneof are reached by   *)
(* no message both.                                                        *)
LEMMA OneBranchHeld ==
    ASSUME NEW e \in SafeEntry, NEW f \in SafeEntry, NEW held,
           Innermost(Walked_(e.path)) \cap Innermost(Walked_(f.path)) # {},
           Reached(e, held), Reached(f, held)
    PROVE  BranchOf(e) = BranchOf(f)
<1> DEFINE v == Walked_(e.path)
           w == Walked_(f.path)
<1>1. PICK n \in LastOneof(v), x \in LastOneof(w) :
          <<Prefix(v, n - 1), <<v[n][1], OneofAt(v[n])>> >>
              = <<Prefix(w, x - 1), <<w[x][1], OneofAt(w[x])>> >>
  BY DEF Innermost
<1>2. /\ n \in OneofSteps(e.path) /\ e.path[n] = v[n]
      /\ Prefix(e.path, n - 1) = Prefix(v, n - 1) /\ BranchOf(e) = Prefix(v, n)
  BY BranchPlace
<1>3. /\ x \in OneofSteps(f.path) /\ f.path[x] = w[x]
      /\ Prefix(f.path, x - 1) = Prefix(w, x - 1) /\ BranchOf(f) = Prefix(w, x)
  BY BranchPlace
<1>4. e.path \in Path /\ f.path \in Path /\ v \in Path /\ w \in Path
  BY WalkedBegins DEF Begins
<1>5. n \in DOMAIN v /\ x \in DOMAIN w
  BY DEF LastOneof
<1> HIDE DEF v, w
<1>6. /\ DOMAIN v = 1..Len(v) /\ Len(v) \in Nat /\ v[n] \in Step
      /\ DOMAIN w = 1..Len(w) /\ Len(w) \in Nat /\ w[x] \in Step
  BY <1>4, <1>5 DEF Path
<1>7. Prefix(v, n - 1) = Prefix(w, x - 1) /\ v[n][1] = w[x][1] /\ OneofAt(v[n]) = OneofAt(w[x])
  BY <1>1
<1>8. n = x
  <2>1. n - 1 \in 0..Len(v) /\ x - 1 \in 0..Len(w)
    BY <1>5, <1>6
  <2>2. Len(Prefix(v, n - 1)) = n - 1 /\ Len(Prefix(w, x - 1)) = x - 1
    BY <1>4, <2>1, PrefixFacts
  <2>3. n \in Nat /\ x \in Nat
    BY <1>5, <1>6
  <2> QED
    BY <1>7, <2>2, <2>3
<1>9. v[n][2] = w[n][2]
  <2>1. held[<<Prefix(v, n - 1), <<v[n][1], OneofAt(v[n])>> >>] = v[n][2]
    BY <1>2 DEF Reached
  <2>2. held[<<Prefix(w, x - 1), <<w[x][1], OneofAt(w[x])>> >>] = w[x][2]
    BY <1>3 DEF Reached
  <2> QED
    BY <1>7, <1>8, <2>1, <2>2
<1>10. v[n] = w[n]
  BY <1>6, <1>7, <1>8, <1>9 DEF Step
<1>11. Prefix(v, n) = Prefix(w, n)
  <2>1. n - 1 \in Nat /\ n - 1 <= Len(v) /\ n - 1 <= Len(w) /\ n \in Nat /\ n <= Len(v) /\ n <= Len(w)
    BY <1>5, <1>6, <1>8
  <2>2. \A k_ \in 1..(n - 1) : v[k_] = w[k_]
    BY <1>4, <1>7, <1>8, <2>1, PrefixesAgree
  <2>3. \A k_ \in 1..n : v[k_] = w[k_]
    BY <1>10, <2>1, <2>2
  <2> QED
    BY <1>4, <2>1, <2>3, PrefixesAgree
<1> QED
  BY <1>2, <1>3, <1>8, <1>11

-----------------------------------------------------------------------------
(* What entries write                                                      *)

(* The writes are those of a message that holds these branches: only what  *)
(* has to or may write does.                                               *)
Answers(w, held) ==
    \A n \in DOMAIN entries :
        w[n] # <<>> => MustWrite(entries[n], held) \/ MayWrite(entries[n], held)

(* The promise, from what the walk knows of the ids it gave.               *)
LEMMA IdsPromise ==
    ASSUME NoGroups, OmitIfUnset, WalkInv, IdsInv, IdsApart, NEW held,
           NEW w, Answers(w, held)
    PROVE  Writer!PromiseKept(Planned, w)
<1> SUFFICES ASSUME NEW x \in DOMAIN entries, NEW y \in DOMAIN entries,
                    entries[x].excl # 0, entries[x].excl = entries[y].excl,
                    w[x] # <<>>, w[y] # <<>>
             PROVE  BranchOf(entries[x]) = BranchOf(entries[y])
  <2>1. /\ DOMAIN Planned = DOMAIN entries
        /\ \A n \in DOMAIN entries : /\ Planned[n].excl = entries[n].excl
                                     /\ Planned[n].branch = BranchOf(entries[n])
    BY DEF Planned
  <2> QED
    BY <2>1 DEF Writer!PromiseKept, Writer!CanBothWrite, Writer!SameGroup
<1> DEFINE e == entries[x]
           f == entries[y]
<1>1. e \in SafeEntry /\ f \in SafeEntry /\ e \in Elements(entries) /\ f \in Elements(entries)
  BY DEF WalkInv, Elements
<1>2. CASE OneofKey(e) \/ OneofKey(f)
  <2>1. e = f
    BY <1>1, <1>2 DEF IdsApart
  <2> QED
    BY <2>1
<1>3. CASE ~OneofKey(e) /\ ~OneofKey(f)
  <2>1. Reached(e, held) /\ Reached(f, held)
    <3>1. e.kind \notin {"constant", "merge"} /\ f.kind \notin {"constant", "merge"}
      BY <1>1 DEF IdsApart
    <3> QED
      BY <3>1 DEF Answers, MustWrite, MayWrite
  <2>2. GroupsOf(e) = {}
    <3>1. schema[top].groups = <<>>
      BY DEF NoGroups, WalkInv, TypeOK
    <3> QED
      BY <3>1 DEF GroupsOf
  <2>3. EntryOneofs(e) \cap EntryOneofs(f) # {}
    BY <2>2, SharedIds
  <2>4. Innermost(Walked_(e.path)) \cap Innermost(Walked_(f.path)) # {}
    BY <1>3, <2>3 DEF EntryOneofs, OneofKey
  <2> QED
    BY <1>1, <2>1, <2>4, OneBranchHeld
<1> QED
  BY <1>2, <1>3

-----------------------------------------------------------------------------
(* The encoder                                                             *)

(* What the encoder is called with is one message, for the plan as it is.  *)
CallInv == Called => /\ phase = "planned"
                     /\ plan = Planned
                     /\ \E held \in Holdings : Answers(writes, held)

EncoderInv == WalkInv /\ LevelsInv /\ FormatsInv /\ IdsInv /\ IdsApart /\ CallInv

(* A step of the encoder is one of the walk, or leaves the walk alone.     *)
LEMMA EncoderWalks == [EncoderNext]_encoderVars => [Next]_vars
BY DEF EncoderNext, encoderVars, Walk, Call, Write

LEMMA PlannedStays == ~(phase = "planned" /\ Next)
BY DEF Next, Begin, RejectRules, SkipOneof, OmitOneof, TagOneof, SingleKey, WalkBranches,
       NewOneof, OneofTurn, DropField, RejectField, WriteLeaf, WriteCollection, Pick,
       RejectPick, Lift, RejectLift, Nest, Cycle, Descend, Descends, KeptField, FieldTurn,
       Walking, Return, Finish, Refuse, Walked

(* The encoder's own steps change neither the plan nor the message.        *)
LEMMA WriterStep ==
    ASSUME Writer!Next
    PROVE  plan' = plan /\ writes' = writes /\ Called
<1>1. ASSUME Writer!Reject \/ Writer!Accept
      PROVE  UNCHANGED Writer!fixed /\ Called
  BY <1>1 DEF Writer!Reject, Writer!Accept, Called
<1>2. ASSUME \/ Writer!SkipGuarded \/ Writer!ClaimRefused \/ Writer!ClaimFails
             \/ Writer!WriteField \/ Writer!SetField \/ Writer!ValueFails
             \/ Writer!ElementFails
      PROVE  UNCHANGED Writer!fixed /\ Called
  BY <1>2 DEF Writer!SkipGuarded, Writer!ClaimRefused, Writer!ClaimFails, Writer!WriteField,
              Writer!SetField, Writer!ValueFails, Writer!ElementFails, Writer!Writing, Called
<1>3. ASSUME Writer!NextEntry \/ Writer!Close
      PROVE  UNCHANGED Writer!fixed /\ Called
  BY <1>3 DEF Writer!NextEntry, Writer!Close, Called
<1>4. UNCHANGED Writer!fixed /\ Called
  BY <1>1, <1>2, <1>3 DEF Writer!Next
<1> QED
  BY <1>4 DEF Writer!fixed

(* The plan and the messages there are for it depend on the walk alone.    *)
LEMMA SameWalk ==
    ASSUME UNCHANGED vars
    PROVE  /\ Planned' = Planned
           /\ Holdings' = Holdings
           /\ \A w, held : Answers(w, held)' = Answers(w, held)
<1>1. schema' = schema /\ entries' = entries
  BY DEF vars, planVars
<1>2. Planned' = Planned
  BY <1>1 DEF Planned, ModeOf, BranchOf, Walked_, OneofSteps, OneofAt, FieldOf, Prefix, Last_
<1>3. Holdings' = Holdings
  BY <1>1 DEF Holdings, OneofsOnPath, OwnOneof, BranchesOf, AllFields, OneofSteps, OneofAt,
              FieldOf, Prefix, Elements, NoBranch
<1>4. ASSUME NEW w, NEW held
      PROVE  Answers(w, held)' = Answers(w, held)
  BY <1>1 DEF Answers, MustWrite, MayWrite, Reached, OneofSteps, OneofAt, FieldOf, Prefix,
              OwnOneof, NoBranch
<1> QED
  BY <1>2, <1>3, <1>4

LEMMA CallStep ==
    ASSUME CallInv, [EncoderNext]_encoderVars
    PROVE  CallInv'
<1>1. CASE Walk
  <2>1. ~Called /\ Called' = Called
    BY <1>1, PlannedStays DEF Walk, writerVars, CallInv, Called
  <2> QED
    BY <2>1 DEF CallInv
<1>2. CASE Call
  <2>1. phase = "planned" /\ UNCHANGED vars /\ plan' = Planned
    BY <1>2 DEF Call
  <2>2. PICK held \in Holdings, writers \in SUBSET DOMAIN entries :
            /\ \A n \in writers : \/ MustWrite(entries[n], held)
                                  \/ MayWrite(entries[n], held)
            /\ \E runs : writes' = WrittenBy(writers, runs)
    <3>1. PICK held \in Holdings :
              LET must == {n \in DOMAIN entries : MustWrite(entries[n], held)}
                  may  == {n \in DOMAIN entries : MayWrite(entries[n], held)}
              IN  \E some \in SUBSET may, runs \in [Spreads -> SpreadRuns] :
                      writes' = WrittenBy(must \cup some, runs)
      BY <1>2 DEF Call
    <3> DEFINE must == {n \in DOMAIN entries : MustWrite(entries[n], held)}
               may  == {n \in DOMAIN entries : MayWrite(entries[n], held)}
    <3>2. PICK some \in SUBSET may, runs \in [Spreads -> SpreadRuns] :
              writes' = WrittenBy(must \cup some, runs)
      BY <3>1
    <3>3. must \cup some \in SUBSET DOMAIN entries
      BY <3>2
    <3>4. \A n \in must \cup some : MustWrite(entries[n], held) \/ MayWrite(entries[n], held)
      BY <3>2
    <3> QED
      BY <3>2, <3>3, <3>4
  <2>3. Answers(writes', held)
    BY <2>2 DEF Answers, WrittenBy
  <2>4. plan' = Planned' /\ Holdings' = Holdings
    BY <2>1, SameWalk
  <2>5. Answers(writes, held)'
    BY <2>1, <2>3 DEF vars, planVars, Answers, MustWrite, MayWrite, Reached, OneofSteps, OneofAt,
                      FieldOf, Prefix, OwnOneof, NoBranch
  <2> QED
    BY <2>1, <2>4, <2>5 DEF CallInv, vars, planVars
<1>3. CASE Write \/ UNCHANGED encoderVars
  <2>1. UNCHANGED <<vars, plan, writes>> /\ (Called' => Called)
    BY <1>3, WriterStep DEF Write, encoderVars, writerVars, Called
  <2> QED
    BY <2>1, SameWalk DEF CallInv, vars, planVars
<1> QED
  BY <1>1, <1>2, <1>3 DEF EncoderNext

LEMMA EncoderInvariant ==
    ASSUME NoGroups
    PROVE  EncoderSpec => []EncoderInv
<1>1. EncoderInit => EncoderInv
  BY InitInv, LevelsInit, FormatsInit, IdsInit, IdsApartInit
     DEF EncoderInit, EncoderInv, CallInv, Called
<1>2. EncoderInv /\ [EncoderNext]_encoderVars => EncoderInv'
  BY NoGroupsAreFew, EncoderWalks, NextInv, LevelsStep, FormatsStep, IdsStep, IdsApartStep,
     CallStep DEF EncoderInv
<1> QED
  BY <1>1, <1>2, PTL DEF EncoderSpec

(* The exclusivity ids of a plan keep their promise for every message: of  *)
(* two entries of one id in different branches one has nothing to write,   *)
(* wherever walkOneof met the oneof and whatever it is nested in, when     *)
(* oneofs omit what is unset.                                              *)
THEOREM PromisesAreKept ==
    ASSUME NoGroups, OmitIfUnset
    PROVE  EncoderSpec => []PromisesKept
<1>1. EncoderInv => PromisesKept
  BY IdsPromise DEF EncoderInv, CallInv, PromisesKept
<1> QED
  BY <1>1, EncoderInvariant, PTL

-----------------------------------------------------------------------------
(* The encoder of a walked plan is one of ObjectWriter: what is proved of  *)
(* the machinery for all plans holds of it.                                *)

Machine == INSTANCE ObjectWriterProofs WITH
              Key <- Name, Branch <- Path, Plans <- {},
              policy <- root.policy, wins <- root.wins, err <- failure

LEMMA NoPlans == {} \subseteq Seq(Machine!Entry)
OBVIOUS

LEMMA MachineTypes == Machine!TypeOK /\ [Machine!Next]_(Machine!vars) => Machine!TypeOK'
BY RunsAssumption, NoPlans, Machine!TypeStep

LEMMA MachineWinners ==
    Machine!WinnersInv /\ [Machine!Next]_(Machine!vars) => Machine!WinnersInv'
BY RunsAssumption, NoPlans, Machine!WinnersStep

LEMMA SamePlans ==
    ASSUME NEW p
    PROVE  /\ Writer!Conflicts(p) = Machine!Conflicts(p)
           /\ Writer!ContestedKeys(p) = Machine!ContestedKeys(p)
           /\ Writer!FirstConflict(p) = Machine!FirstConflict(p)
           /\ \A w : Writer!PromiseKept(p, w) <=> Machine!PromiseKept(p, w)
           /\ Writer!BranchKeysDistinct(p) <=> Machine!BranchKeysDistinct(p)
<1>1. Writer!Conflicts(p) = Machine!Conflicts(p)
  BY DEF Writer!Conflicts, Machine!Conflicts, Writer!Dynamic, Machine!Dynamic,
         Writer!ExclusiveOf, Machine!ExclusiveOf
<1>2. Writer!ContestedKeys(p) = Machine!ContestedKeys(p)
  BY <1>1 DEF Writer!ContestedKeys, Machine!ContestedKeys
<1>3. Writer!FirstConflict(p) = Machine!FirstConflict(p)
  BY <1>1, <1>2 DEF Writer!FirstConflict, Machine!FirstConflict, Writer!Dynamic, Machine!Dynamic,
                    Writer!Min, Machine!Min
<1>4. ASSUME NEW w PROVE Writer!PromiseKept(p, w) <=> Machine!PromiseKept(p, w)
  BY DEF Writer!PromiseKept, Machine!PromiseKept, Writer!CanBothWrite, Machine!CanBothWrite,
         Writer!SameGroup, Machine!SameGroup
<1>5. Writer!BranchKeysDistinct(p) <=> Machine!BranchKeysDistinct(p)
  BY DEF Writer!BranchKeysDistinct, Machine!BranchKeysDistinct, Writer!SameGroup,
         Machine!SameGroup, Writer!Dynamic, Machine!Dynamic
<1> QED
  BY <1>1, <1>2, <1>3, <1>4, <1>5

(* What the encoder does is what the machinery does.                       *)
LEMMA SameSteps == Writer!Next => Machine!Next
<1> SUFFICES ASSUME Writer!Next PROVE Machine!Next
  OBVIOUS
<1>1. CASE Writer!Reject
  BY <1>1, SamePlans
     DEF Writer!Reject, Machine!Reject, Machine!Next, Writer!ErrorOf, Machine!ErrorOf,
         Writer!fixed, Machine!fixed, Writer!analysis, Machine!analysis,
         Writer!written, Machine!written
<1>2. CASE Writer!Accept
  BY <1>2, SamePlans
     DEF Writer!Accept, Machine!Accept, Machine!Next, Writer!NeedsTracker, Machine!NeedsTracker,
         Writer!NeedsBuffer, Machine!NeedsBuffer, Writer!Guarded, Machine!Guarded,
         Writer!Dynamic, Machine!Dynamic, Writer!fixed, Machine!fixed,
         Writer!written, Machine!written
<1>3. /\ Writer!Writing <=> Machine!Writing
      /\ Writer!Blocked <=> Machine!Blocked
      /\ Writer!Claimed <=> Machine!Claimed
      /\ Writer!Register <=> Machine!Register
      /\ Writer!Flag <=> Machine!Flag
      /\ Writer!key_ = Machine!key_
  BY DEF Writer!Writing, Machine!Writing, Writer!Blocked, Machine!Blocked, Writer!Claimed,
         Machine!Claimed, Writer!Register, Machine!Register, Writer!Flag, Machine!Flag,
         Writer!ViaWrite, Machine!ViaWrite, Writer!key_, Machine!key_
<1>4. CASE Writer!SkipGuarded
  BY <1>3, <1>4 DEF Writer!SkipGuarded, Machine!SkipGuarded, Machine!Next,
         Writer!fixed, Machine!fixed, Writer!analysis, Machine!analysis,
         Writer!written, Machine!written
<1>5. CASE Writer!ClaimRefused
  BY <1>3, <1>5 DEF Writer!ClaimRefused, Machine!ClaimRefused, Machine!Next,
         Writer!fixed, Machine!fixed, Writer!analysis, Machine!analysis,
         Writer!written, Machine!written
<1>6. CASE Writer!ClaimFails
  BY <1>3, <1>6 DEF Writer!ClaimFails, Machine!ClaimFails, Machine!Next,
         Writer!Collision, Machine!Collision, Writer!ErrorOf, Machine!ErrorOf,
         Writer!fixed, Machine!fixed, Writer!analysis, Machine!analysis,
         Writer!written, Machine!written
<1>7. CASE Writer!WriteField
  BY <1>3, <1>7 DEF Writer!WriteField, Machine!WriteField, Machine!Next,
         Writer!fixed, Machine!fixed, Writer!analysis, Machine!analysis
<1>8. CASE Writer!SetField
  BY <1>3, <1>8 DEF Writer!SetField, Machine!SetField, Machine!Next,
         Writer!OrderAfterSet, Machine!OrderAfterSet, Writer!NoValue, Machine!NoValue,
         Writer!fixed, Machine!fixed, Writer!analysis, Machine!analysis
<1>9. CASE Writer!ValueFails \/ Writer!ElementFails
  BY <1>3, <1>9 DEF Writer!ValueFails, Machine!ValueFails, Writer!ElementFails,
         Machine!ElementFails, Machine!Next, Writer!ErrorOf, Machine!ErrorOf,
         Writer!fixed, Machine!fixed, Writer!analysis, Machine!analysis,
         Writer!written, Machine!written
<1>10. CASE Writer!NextEntry \/ Writer!Close
  BY <1>10 DEF Writer!NextEntry, Machine!NextEntry, Writer!Close, Machine!Close, Machine!Next,
         Writer!EntryDone, Machine!EntryDone, Writer!Pairs, Machine!Pairs,
         Writer!fixed, Machine!fixed, Writer!analysis, Machine!analysis,
         Writer!written, Machine!written
<1> QED
  BY <1>1, <1>2, <1>4, <1>5, <1>6, <1>7, <1>8, <1>9, <1>10 DEF Writer!Next

(* The encoder has done nothing until it is called.                        *)
Uncalled == ~Called => /\ i = 1 /\ k = 1
                       /\ wrote = {} /\ order = <<>> /\ out = <<>> /\ guarded = {}
                       /\ seen = [key \in Name |-> 0]
                       /\ values = [key \in Name |-> Writer!NoValue]
                       /\ failure = Writer!NoError
                       /\ needsTracker = FALSE /\ needsBuffer = FALSE

(* Once called it is in a state of the machinery.                          *)
MachineInv ==
    Called => /\ Machine!TypeOK
              /\ Machine!BranchKeysDistinct(plan) => Machine!WinnersInv

(* The plan the walk made is one the machinery takes.                      *)
LEMMA PlannedType ==
    ASSUME WalkInv
    PROVE  Planned \in Seq(Machine!Entry)
<1>1. entries \in Seq(SafeEntry) /\ DOMAIN entries = 1..Len(entries) /\ Len(entries) \in Nat
  BY DEF WalkInv
<1>2. ASSUME NEW e \in SafeEntry
      PROVE  BranchOf(e) \in Path
  <2> DEFINE w == Walked_(e.path)
  <2>1. w \in Path /\ DOMAIN w = 1..Len(w) /\ Len(w) \in Nat
    BY WalkedBegins DEF Begins, Path
  <2>2. CASE OneofSteps(w) = {}
    BY <2>2 DEF BranchOf, Path
  <2>3. CASE OneofSteps(w) # {}
    <3>1. OneofSteps(w) \in SUBSET Nat /\ OneofSteps(w) \subseteq 1..Len(w)
      BY <2>1 DEF OneofSteps
    <3>2. Max(OneofSteps(w)) \in OneofSteps(w)
      <4> DEFINE S == OneofSteps(w)
      <4>1. S \subseteq Nat /\ S # {} /\ \A x \in S : x <= Len(w)
        BY <2>1, <2>3, <3>1
      <4> HIDE DEF S, w
      <4>2. PICK x \in S : TRUE
        BY <4>1
      <4>3. x \in Nat /\ Len(w) \in Nat
        BY <2>1, <4>1, <4>2
      <4>4. Max(S) \in S
        BY <4>1, <4>2, <4>3, <2>1, MaxMember
      <4> QED
        BY <4>4 DEF S
    <3>3. Prefix(w, Max(OneofSteps(w))) \in Path
      <4>1. Max(OneofSteps(w)) \in 0..Len(w)
        BY <2>1, <3>1, <3>2
      <4> QED
        BY <2>1, <4>1, PrefixFacts
    <3> QED
      BY <2>3, <3>3 DEF BranchOf
  <2> QED
    BY <2>2, <2>3
<1>3. ASSUME NEW n \in 1..Len(entries)
      PROVE  Planned[n] \in Machine!Entry
  <2>1. entries[n] \in SafeEntry /\ n \in DOMAIN entries
    BY <1>1
  <2>2. entries[n].name \in Name /\ entries[n].excl \in Nat /\ BranchOf(entries[n]) \in Path
    BY <1>2, <2>1 DEF SafeEntry, Entry
  <2>3. ModeOf(entries[n]) \in {"static", "spread", "pick"}
    BY DEF ModeOf
  <2>4. Planned[n] = [key |-> entries[n].name, mode |-> ModeOf(entries[n]),
                      excl |-> entries[n].excl, branch |-> BranchOf(entries[n])]
    BY <2>1 DEF Planned
  <2> QED
    BY <2>2, <2>3, <2>4 DEF Machine!Entry, Machine!Modes
<1>4. DOMAIN Planned = 1..Len(entries)
  BY <1>1 DEF Planned
<1>5. Planned = [n \in 1..Len(entries) |-> Planned[n]]
  BY <1>1 DEF Planned
<1> QED
  BY <1>1, <1>3, <1>5

(* And the message is one there is for this plan.                          *)
LEMMA CalledMessage ==
    ASSUME NEW writers \in SUBSET DOMAIN entries, NEW runs \in [Spreads -> SpreadRuns]
    PROVE  WrittenBy(writers, runs) \in Machine!Messages(Planned)
<1> DEFINE w == WrittenBy(writers, runs)
<1>1. DOMAIN Planned = DOMAIN entries
  BY DEF Planned
<1>2. ASSUME NEW n \in DOMAIN entries
      PROVE  w[n] \in Machine!Runs(Planned[n])
  <2>1. /\ Planned[n].mode = ModeOf(entries[n]) /\ Planned[n].key = entries[n].name
    BY DEF Planned
  <2>2. w[n] = IF n \notin writers THEN <<>>
               ELSE IF n \in Spreads THEN runs[n] ELSE <<entries[n].name>>
    BY DEF WrittenBy
  <2>3. n \in Spreads <=> Planned[n].mode = "spread"
    BY <2>1 DEF Spreads
  <2> QED
    BY <2>1, <2>2, <2>3 DEF Machine!Runs
<1>3. w = [n \in DOMAIN entries |-> w[n]]
  BY DEF WrittenBy
<1> HIDE DEF w
<1>4. w \in [DOMAIN Planned -> UNION {Machine!Runs(Planned[a]) : a \in DOMAIN Planned}]
  BY <1>1, <1>2, <1>3
<1>5. w \in Machine!Messages(Planned)
  BY <1>1, <1>2, <1>4 DEF Machine!Messages
<1> QED
  BY <1>5 DEF w

(* The machinery is called as it starts.                                   *)
LEMMA MachineStarts ==
    ASSUME WalkInv, WalkInv', PromisesKept', Uncalled, Call
    PROVE  MachineInv'
<1>1. /\ UNCHANGED vars /\ ~Called /\ pc' = "analyse"
      /\ UNCHANGED <<needsTracker, needsBuffer, guarded, i, k, wrote, seen, order, values, out,
                     failure>>
  BY DEF Call, Called
<1>2. plan' = Planned /\ plan' \in Seq(Machine!Entry)
  BY PlannedType DEF Call
<1>3. writes' \in Machine!Messages(plan')
  <2>1. PICK held \in Holdings :
            LET must == {n \in DOMAIN entries : MustWrite(entries[n], held)}
                may  == {n \in DOMAIN entries : MayWrite(entries[n], held)}
            IN  \E some \in SUBSET may, runs \in [Spreads -> SpreadRuns] :
                    writes' = WrittenBy(must \cup some, runs)
    BY DEF Call
  <2> DEFINE must == {n \in DOMAIN entries : MustWrite(entries[n], held)}
             may  == {n \in DOMAIN entries : MayWrite(entries[n], held)}
  <2>2. PICK some \in SUBSET may, runs \in [Spreads -> SpreadRuns] :
            writes' = WrittenBy(must \cup some, runs)
    BY <2>1
  <2>3. must \cup some \in SUBSET DOMAIN entries
    BY <2>2
  <2> QED
    BY <1>2, <2>2, <2>3, CalledMessage
<1>4. root'.policy \in Machine!Policies /\ root'.wins \in Machine!Wins
  BY DEF WalkInv, TypeOK, Scope, CollisionPolicy, CollisionWins, Machine!Policies, Machine!Wins
<1>5. /\ i' = 1 /\ k' = 1 /\ wrote' = {} /\ order' = <<>> /\ out' = <<>> /\ guarded' = {}
      /\ seen' = [key \in Name |-> 0] /\ values' = [key \in Name |-> <<0, 0>>]
      /\ failure' = [kind |-> "none", first |-> 0, second |-> 0]
      /\ needsTracker' = FALSE /\ needsBuffer' = FALSE
  BY <1>1 DEF Uncalled, Writer!NoValue, Writer!NoError
<1>6. Machine!TypeOK'
  <2>1. /\ i' \in Nat /\ k' \in Nat /\ pc' \in {"analyse", "encode"} \cup Machine!Stopped
        /\ wrote' \in SUBSET Name /\ guarded' \in SUBSET Name
    BY <1>1, <1>5
  <2>5. needsTracker' \in BOOLEAN /\ needsBuffer' \in BOOLEAN
    BY <1>5
  <2>2. seen' \in [Name -> Nat] /\ values' \in [Name -> Nat \X Nat]
    BY <1>5
  <2>3. order' \in Seq(Name) /\ out' \in Seq(Machine!Pair)
    BY <1>5
  <2>4. failure' \in [kind : {"none", "generate", "collision", "value"},
                      first : Nat, second : Nat]
    BY <1>5
  <2> QED
    BY <1>2, <1>3, <1>4, <2>1, <2>2, <2>3, <2>4, <2>5 DEF Machine!TypeOK
<1>7. ASSUME Machine!BranchKeysDistinct(plan')
      PROVE  Machine!WinnersInv'
  <2>1. Machine!PromiseKept(plan', writes')
    <3>1. Called'
      BY <1>1 DEF Called
    <3> QED
      BY <3>1, SamePlans DEF PromisesKept
  <2>2. Machine!DistinctInv'
    BY <1>1, <1>5, <1>6, <1>7, <2>1
       DEF Machine!DistinctInv, Machine!Honest, Machine!Analysed, Machine!Fresh,
           Machine!FromEarlier, Machine!Tracked, Machine!Flagged, Machine!OrderSound,
           Machine!NoDuplicateKeys
  <2>3. Machine!KeptInv'
    BY <1>1, <1>5, <1>6
       DEF Machine!KeptInv, Machine!Unused, Machine!Remembered, Machine!Kept,
           Machine!NoKeyLost, Machine!NoValue
  <2> QED
    BY <1>1, <2>2, <2>3 DEF Machine!WinnersInv, Machine!SeenAll, Machine!Winning,
           Machine!WinnersDecided
<1> QED
  BY <1>6, <1>7 DEF MachineInv

LEMMA UncalledStep ==
    ASSUME CallInv, Uncalled, [EncoderNext]_encoderVars
    PROVE  Uncalled'
<1>1. CASE Walk \/ UNCHANGED encoderVars
  BY <1>1 DEF Walk, encoderVars, writerVars, Uncalled, Called, Writer!NoValue, Writer!NoError
<1>2. CASE Call
  BY <1>2 DEF Call, Uncalled, Called
<1>3. CASE Write
  <2>1. Called'
    BY <1>3 DEF Write, Called, Writer!Next, Writer!Reject, Writer!Accept, Writer!SkipGuarded,
           Writer!ClaimRefused, Writer!ClaimFails, Writer!WriteField, Writer!SetField,
           Writer!ValueFails, Writer!ElementFails, Writer!NextEntry, Writer!Close,
           Writer!Writing
  <2> QED
    BY <2>1 DEF Uncalled
<1> QED
  BY <1>1, <1>2, <1>3 DEF EncoderNext

LEMMA MachineStep ==
    ASSUME EncoderInv, EncoderInv', PromisesKept', Uncalled, MachineInv,
           [EncoderNext]_encoderVars
    PROVE  MachineInv'
<1>1. CASE Walk
  <2>1. ~Called'
    BY <1>1, PlannedStays DEF Walk, writerVars, EncoderInv, CallInv, Called
  <2> QED
    BY <2>1 DEF MachineInv
<1>2. CASE Call
  BY <1>2, MachineStarts DEF EncoderInv
<1>3. CASE Write \/ UNCHANGED encoderVars
  <2>1. CASE ~Called'
    BY <2>1 DEF MachineInv
  <2>2. CASE Called'
    <3>1. Called /\ plan' = plan /\ root' = root
      BY <1>3, <2>2, WriterStep DEF Write, encoderVars, writerVars, vars, planVars, Called
    <3>2. [Machine!Next]_(Machine!vars)
      <4>1. CASE Write
        BY <4>1, SameSteps DEF Write
      <4>2. CASE UNCHANGED encoderVars
        BY <4>2, <3>1 DEF encoderVars, writerVars, Machine!vars, Machine!fixed,
               Machine!analysis, Machine!written
      <4> QED
        BY <1>3, <4>1, <4>2
    <3>3. Machine!TypeOK'
      BY <3>1, <3>2, MachineTypes DEF MachineInv
    <3>4. Machine!BranchKeysDistinct(plan)' => Machine!BranchKeysDistinct(plan)
      BY <3>1 DEF Machine!BranchKeysDistinct, Machine!SameGroup, Machine!Dynamic
    <3>5. Machine!BranchKeysDistinct(plan)' => Machine!WinnersInv'
      BY <3>1, <3>2, <3>4, MachineWinners DEF MachineInv
    <3> QED
      BY <3>3, <3>5 DEF MachineInv
  <2> QED
    BY <2>1, <2>2
<1> QED
  BY <1>1, <1>2, <1>3 DEF EncoderNext

LEMMA MachineInvariant ==
    ASSUME NoGroups, OmitIfUnset
    PROVE  EncoderSpec => [](EncoderInv /\ MachineInv)
<1>1. EncoderInit => Uncalled /\ MachineInv
  BY DEF EncoderInit, Uncalled, MachineInv, Called
<1>2. EncoderInv /\ Uncalled /\ [EncoderNext]_encoderVars => Uncalled'
  BY UncalledStep DEF EncoderInv
<1>3. /\ EncoderInv /\ EncoderInv' /\ PromisesKept' /\ Uncalled /\ MachineInv
      /\ [EncoderNext]_encoderVars
      => MachineInv'
  BY MachineStep
<1> QED
  BY <1>1, <1>2, <1>3, EncoderInvariant, PromisesAreKept, PTL DEF EncoderSpec

(* No object the encoder writes has a key twice, whatever message type the *)
(* plan was walked from and whatever message it is called with, when       *)
(* oneofs omit what is unset and no branch has a key twice: the ids of the *)
(* walk, the machinery of plan.analyse and the writers fit together.       *)
THEOREM KeysOncePerObject ==
    ASSUME NoGroups, OmitIfUnset
    PROVE  EncoderSpec => []ObjectKeysOnce
<1>1. MachineInv => ObjectKeysOnce
  BY SamePlans DEF MachineInv, ObjectKeysOnce, Machine!WinnersInv, Machine!DistinctInv,
                   Machine!NoDuplicateKeys, Writer!NoDuplicateKeys
<1> QED
  BY <1>1, MachineInvariant, PTL

LEMMA OrderHolds ==
    ASSUME NoGroups, LiftsApart
    PROVE  EncoderSpec => []OrderInv
<1>1. EncoderInit => OrderInv
  BY OrderInit DEF EncoderInit
<1>2. EncoderInv /\ OrderInv /\ [EncoderNext]_encoderVars => OrderInv'
  BY EncoderWalks, OrderStep DEF EncoderInv
<1> QED
  BY <1>1, <1>2, EncoderInvariant, PTL DEF EncoderSpec

(* The value a key has in the finished object is that of the field         *)
(* declared first among those that write the key for this message, or for  *)
(* COLLISION_WINS_LAST without a tracker of the one declared last: the     *)
(* order of the walk is the order of the winners.                          *)
THEOREM DeclaredFirst ==
    ASSUME NoGroups, OmitIfUnset, LiftsApart
    PROVE  EncoderSpec => []DeclaredFirstWins
<1>1. EncoderInv /\ MachineInv /\ OrderInv => DeclaredFirstWins
  <2> SUFFICES ASSUME EncoderInv, MachineInv, OrderInv, pc = "done",
                      Writer!BranchKeysDistinct(plan),
                      NEW x \in DOMAIN out, NEW n \in WritersOf(out[x].key)
               PROVE  LET e == entries[out[x].val[1]]
                          f == entries[n]
                      IN  \/ e = f \/ {e.kind, f.kind} \cap {"constant", "merge"} # {}
                          \/ LastWins /\ Earlier(Position(f), Position(e))
                          \/ ~LastWins /\ Earlier(Position(e), Position(f))
    BY DEF DeclaredFirstWins
  <2> DEFINE a == out[x].val[1]
  <2>1. Called /\ phase = "planned" /\ plan = Planned /\ entries \in Seq(SafeEntry)
    BY DEF Called, EncoderInv, CallInv, WalkInv
  <2>2. Machine!TypeOK /\ Machine!WinnersInv
    BY <2>1, SamePlans DEF MachineInv
  <2>3. Machine!Won(out[x].val, out[x].key)
    BY <2>2 DEF Machine!WinnersInv, Machine!WinnersDecided
  <2>4. DOMAIN plan = DOMAIN entries
    BY <2>1 DEF Planned
  <2>5. a \in DOMAIN entries
    BY <2>3, <2>4 DEF Machine!Won, Machine!IsWrite
  <2>6. n \in DOMAIN entries /\ n \in Nat /\ a \in Nat
    BY <2>1, <2>5 DEF WritersOf
  <2>7. PICK b \in DOMAIN writes[n] : writes[n][b] = out[x].key
    BY DEF WritersOf, Elements
  <2>8. Machine!IsWrite(n, b)
    BY <2>4, <2>6 DEF Machine!IsWrite
  <2>9. IF LastWins THEN n <= a ELSE a <= n
    <3>1. IF LastWins THEN ~Machine!Before(a, out[x].val[2], n, b)
                      ELSE ~Machine!Before(n, b, a, out[x].val[2])
      BY <2>3, <2>7, <2>8 DEF Machine!Won, Machine!LastKept, LastWins
    <3> QED
      BY <2>6, <3>1 DEF Machine!Before
  <2>10. InDeclarationOrder
    BY PrecedenceOrders DEF EncoderInv
  <2>11. \A c, d \in DOMAIN entries :
            c < d /\ {entries[c].kind, entries[d].kind} \cap {"constant", "merge"} = {} =>
                Earlier(Position(entries[c]), Position(entries[d]))
    BY <2>1, <2>10 DEF InDeclarationOrder, Ended
  <2>12. CASE a = n
    BY <2>12
  <2>13. CASE a < n /\ ~LastWins
    BY <2>5, <2>6, <2>11, <2>13
  <2>14. CASE n < a /\ LastWins
    BY <2>5, <2>6, <2>11, <2>14
  <2>15. a = n \/ (a < n /\ ~LastWins) \/ (n < a /\ LastWins)
    BY <2>6, <2>9
  <2> QED
    BY <2>12, <2>13, <2>14, <2>15
<1> QED
  BY <1>1, MachineInvariant, OrderHolds, PTL
=============================================================================
