------------------------- MODULE ObjectWriterProofs ------------------------
(***************************************************************************)
(* Theorems of ObjectWriter for every set of keys, branches and plans, and *)
(* that it implements the policy of FlatObject.                            *)
(***************************************************************************)
EXTENDS ObjectWriter, LeastElements, SequenceTheorems

-----------------------------------------------------------------------------
(* Facts about plans and messages                                          *)

(* Nothing, or one key, is a sequence of keys.                             *)
LEMMA AtMostOne ==
    ASSUME NEW S, NEW x \in S, NEW w \in {<<>>, <<x>>}
    PROVE  w \in Seq(S)
<1>1. <<>> \in Seq(S)
  OBVIOUS
<1>2. <<x>> \in Seq(S)
  OBVIOUS
<1> QED
  BY <1>1, <1>2, Zenon

(* An entry's writes are keys, at most one of them unless it spreads.      *)
LEMMA MessageShape ==
    ASSUME NEW p \in Seq(Entry), NEW w \in Messages(p)
    PROVE  /\ DOMAIN w = DOMAIN p
           /\ \A a \in DOMAIN p : /\ p[a] \in Entry
                                  /\ w[a] \in Seq(Key)
                                  /\ p[a].mode # "spread" =>
                                        w[a] = <<>> \/ w[a] = <<p[a].key>>
<1>1. p \in Seq(Entry)
  OBVIOUS
<1>2. DOMAIN w = DOMAIN p /\ \A a \in DOMAIN p : w[a] \in Runs(p[a])
  BY DEF Messages
<1>3. ASSUME NEW a \in DOMAIN p
      PROVE  /\ p[a] \in Entry
             /\ w[a] \in Seq(Key)
             /\ p[a].mode # "spread" => w[a] = <<>> \/ w[a] = <<p[a].key>>
  <2>1. p[a] \in Entry
    BY <1>1
  <2>2. w[a] \in Runs(p[a])
    BY <1>2
  <2>3. p[a].key \in Key
    BY <2>1 DEF Entry
  <2>4. CASE p[a].mode = "spread"
    <3>1. w[a] \in SpreadRuns \cup {<<>>}
      BY <2>2, <2>4 DEF Runs
    <3>2. w[a] \in Seq(Key)
      BY <2>3, <3>1, AtMostOne, SpreadAssumption, Zenon
    <3> QED
      BY <2>1, <2>4, <3>2
  <2>5. CASE p[a].mode # "spread"
    <3>1. w[a] \in {<<>>, <<p[a].key>>}
      BY <2>2, <2>5 DEF Runs
    <3>2. w[a] \in Seq(Key)
      BY <2>3, <3>1, AtMostOne, Zenon
    <3> QED
      BY <2>1, <3>1, <3>2
  <2> QED
    BY <2>4, <2>5
<1> QED
  BY <1>1, <1>2, <1>3

(* The pair reported for a refused plan is a conflict of that plan.        *)
LEMMA FirstConflictIsConflict ==
    ASSUME NEW p \in Seq(Entry), Conflicts(p) # {}
    PROVE  FirstConflict(p) \in Conflicts(p)
<1> DEFINE heads == {a \in DOMAIN p : ~Dynamic(p[a]) /\ p[a].key \in ContestedKeys(p)}
           key == p[Min(heads)].key
           firsts == {a \in DOMAIN p : /\ p[a].key = key
                                       /\ \E b \in DOMAIN p : <<a, b>> \in Conflicts(p)}
           first == Min(firsts)
           seconds == {b \in DOMAIN p : <<first, b>> \in Conflicts(p)}
<1>1. DOMAIN p \subseteq Nat
  OBVIOUS
<1>2. ASSUME NEW ab \in Conflicts(p)
      PROVE  /\ ab[1] \in DOMAIN p /\ ab[2] \in DOMAIN p
             /\ ab = <<ab[1], ab[2]>>
             /\ ~Dynamic(p[ab[1]])
             /\ p[ab[1]].key \in ContestedKeys(p)
  BY DEF Conflicts, ContestedKeys
<1>3. heads # {} /\ heads \subseteq Nat
  BY <1>1, <1>2
<1>4. Min(heads) \in heads
  BY <1>3, MinMember
<1>5. firsts # {} /\ firsts \subseteq Nat
  <2>1. PICK ab \in Conflicts(p) : p[ab[1]].key = key
    BY <1>4 DEF ContestedKeys
  <2>2. ab[1] \in firsts
    BY <2>1, <1>2
  <2> QED
    BY <2>2, <1>1
<1>6. first \in firsts
  BY <1>5, MinMember
<1>7. seconds # {} /\ seconds \subseteq Nat
  BY <1>1, <1>6
<1>8. Min(seconds) \in seconds
  BY <1>7, MinMember
<1>9. FirstConflict(p) = <<first, Min(seconds)>>
  BY DEF FirstConflict
<1> QED
  BY <1>8, <1>9

-----------------------------------------------------------------------------
(* Type correctness                                                        *)

(* What holds of the write an entry is about to make.                      *)
LEMMA WritingFacts ==
    ASSUME TypeOK, Writing
    PROVE  /\ i \in DOMAIN plan /\ i \in Nat /\ i > 0
           /\ k \in Nat /\ k > 0
           /\ key_ \in Key
           /\ plan[i].mode # "spread" => k = 1 /\ key_ = plan[i].key
<1>1. plan \in Seq(Entry) /\ writes \in Messages(plan)
  BY DEF TypeOK
<1>2. plan \in Seq(Entry) /\ i \in DOMAIN plan /\ k \in DOMAIN writes[i]
  BY <1>1, MessageShape DEF Writing
<1>3. writes[i] \in Seq(Key)
  BY <1>1, <1>2, MessageShape
<1>4. ASSUME plan[i].mode # "spread"
      PROVE  k = 1 /\ key_ = plan[i].key
  <2>1. writes[i] = <<>> \/ writes[i] = <<plan[i].key>>
    BY <1>1, <1>2, <1>4, MessageShape
  <2>2. CASE writes[i] = <<>>
    BY <2>2, <1>2
  <2>3. CASE writes[i] = <<plan[i].key>>
    BY <2>3, <1>2 DEF key_
  <2> QED
    BY <2>1, <2>2, <2>3
<1> QED
  BY <1>2, <1>3, <1>4 DEF key_

LEMMA TypeInit == Init => TypeOK
<1> SUFFICES ASSUME Init PROVE TypeOK
  OBVIOUS
<1>1. NoError \in [kind : {"none", "generate", "collision", "value"},
                   first : Nat, second : Nat]
  BY DEF NoError
<1>2. NoValue \in Nat \X Nat
  BY DEF NoValue
<1>3. order \in Seq(Key) /\ out \in Seq(Pair)
  BY DEF Init
<1> QED
  BY <1>1, <1>2, <1>3, PlansAssumption DEF Init, TypeOK

LEMMA TypeStep == TypeOK /\ [Next]_vars => TypeOK'
<1> SUFFICES ASSUME TypeOK, [Next]_vars PROVE TypeOK'
  OBVIOUS
<1> DEFINE Error == [kind : {"none", "generate", "collision", "value"},
                     first : Nat, second : Nat]
<1>1. ASSUME NEW d \in {"generate", "collision", "value"},
             NEW a \in Nat, NEW b \in Nat
      PROVE  ErrorOf(d, a, b) \in Error
  BY <1>1 DEF ErrorOf
<1>2. CASE Reject
  <2>1. plan \in Seq(Entry) /\ Conflicts(plan) # {}
    BY <1>2 DEF TypeOK, Reject
  <2>2. FirstConflict(plan) \in (DOMAIN plan) \X (DOMAIN plan)
    BY <2>1, FirstConflictIsConflict DEF Conflicts
  <2>3. FirstConflict(plan)[1] \in Nat /\ FirstConflict(plan)[2] \in Nat
    BY <2>1, <2>2
  <2>4. err' \in Error
    BY <1>1, <1>2, <2>3 DEF Reject
  <2> QED
    BY <1>2, <2>4 DEF TypeOK, Reject, fixed, analysis, written, Stopped
<1>3. CASE Accept
  <2>1. ContestedKeys(plan) \subseteq Key
    <3>1. plan \in Seq(Entry)
      BY DEF TypeOK
    <3>2. \A ab \in Conflicts(plan) : ab[1] \in DOMAIN plan
      BY DEF Conflicts
    <3>3. ASSUME NEW a \in DOMAIN plan
          PROVE  plan[a].key \in Key
      <4>1. plan[a] \in Entry
        BY <3>1
      <4> QED
        BY <4>1 DEF Entry
    <3> QED
      BY <3>2, <3>3 DEF ContestedKeys
  <2>2. guarded' \in SUBSET Key
    BY <1>3, <2>1 DEF Accept, Guarded
  <2>3. needsTracker' \in BOOLEAN /\ needsBuffer' \in BOOLEAN
    BY <1>3 DEF Accept, NeedsTracker, NeedsBuffer
  <2> QED
    BY <1>3, <2>2, <2>3 DEF TypeOK, Accept, fixed, written, Stopped
<1>4. CASE SkipGuarded
  BY <1>4 DEF TypeOK, SkipGuarded, fixed, analysis, written, Stopped
<1>5. CASE ClaimRefused
  BY <1>5 DEF TypeOK, ClaimRefused, fixed, analysis, written, Stopped
<1>6. CASE ClaimFails
  <2>1. seen[key_] \in Nat /\ i \in Nat
    BY <1>6, WritingFacts DEF ClaimFails, TypeOK
  <2>2. err' \in Error
    BY <1>1, <1>6, <2>1 DEF ClaimFails, Collision
  <2> QED
    BY <1>6, <2>2 DEF TypeOK, ClaimFails, fixed, analysis, written, Stopped
<1>7. ASSUME Writing, Register
      PROVE  seen' \in [Key -> Nat]
  BY <1>7, WritingFacts DEF TypeOK, Register
<1>8. ASSUME Writing, Flag
      PROVE  wrote' \in SUBSET Key
  BY <1>8, WritingFacts DEF TypeOK, Flag
<1>9. CASE WriteField
  <2>1. [key |-> key_, val |-> <<i, k>>] \in Pair
    BY <1>9, WritingFacts DEF WriteField, Pair
  <2>2. out' \in Seq(Pair)
    BY <1>9, <2>1 DEF TypeOK, WriteField
  <2>3. seen' \in [Key -> Nat] /\ wrote' \in SUBSET Key
    BY <1>7, <1>8, <1>9 DEF WriteField
  <2> QED
    BY <1>9, <2>2, <2>3 DEF TypeOK, WriteField, fixed, analysis, Stopped
<1>10. CASE SetField
  <2>1. order' \in Seq(Key) /\ values' \in [Key -> Nat \X Nat]
    BY <1>10, WritingFacts DEF TypeOK, SetField, OrderAfterSet
  <2>2. seen' \in [Key -> Nat] /\ wrote' \in SUBSET Key
    BY <1>7, <1>8, <1>10 DEF SetField
  <2> QED
    BY <1>10, <2>1, <2>2 DEF TypeOK, SetField, fixed, analysis, Stopped
<1>11. CASE ValueFails
  <2>1. err' \in Error
    BY <1>1, <1>11, WritingFacts DEF ValueFails
  <2>2. seen' \in [Key -> Nat]
    BY <1>7, <1>11 DEF ValueFails
  <2> QED
    BY <1>11, <2>1, <2>2 DEF TypeOK, ValueFails, fixed, analysis, Stopped
<1>12. CASE ElementFails
  <2>1. err' \in Error
    BY <1>1, <1>12, WritingFacts DEF ElementFails
  <2> QED
    BY <1>12, <2>1 DEF TypeOK, ElementFails, fixed, analysis, written, Stopped
<1>13. CASE NextEntry
  BY <1>13 DEF TypeOK, NextEntry, fixed, analysis, written, Stopped
<1>14. CASE Close
  <2>1. Pairs \in Seq(Pair)
    <3>1. \A j \in DOMAIN order : order[j] \in Key /\ values[order[j]] \in Nat \X Nat
      BY DEF TypeOK
    <3>2. DOMAIN order = 1..Len(order) /\ Len(order) \in Nat
      BY DEF TypeOK
    <3>3. Pairs \in [1..Len(order) -> Pair]
      BY <3>1, <3>2 DEF Pairs, Pair
    <3> QED
      BY <3>2, <3>3, SeqDef
  <2>2. out' \in Seq(Pair)
    BY <1>14, <2>1 DEF TypeOK, Close
  <2> QED
    BY <1>14, <2>2 DEF TypeOK, Close, fixed, analysis, Stopped
<1>15. CASE UNCHANGED vars
  BY <1>15 DEF TypeOK, vars, fixed, analysis, written
<1> QED
  BY <1>2, <1>3, <1>4, <1>5, <1>6, <1>9, <1>10, <1>11, <1>12, <1>13, <1>14,
     <1>15 DEF Next

(* Generation and encode keep every variable in its type, whatever the     *)
(* plans and the messages (plan.go, analyse.go, object.go).                *)
THEOREM TypeCorrect == Spec => []TypeOK
<1>1. TypeOK /\ [Next]_vars => TypeOK'
  BY TypeStep
<1> QED
  BY TypeInit, <1>1, PTL DEF Spec

-----------------------------------------------------------------------------
(* No key is written twice                                                 *)
(*                                                                         *)
(* NoDuplicateKeys is not inductive: that a key is fresh when FieldStart   *)
(* writes it rests on whichever machinery the analysis chose.  The         *)
(* strengthening says what each piece of machinery knows about the keys    *)
(* already written, and that the pieces are those the analysis asked for.  *)

Analysed == pc = "encode" => /\ needsTracker = NeedsTracker(plan, policy)
                             /\ needsBuffer = NeedsBuffer(plan, policy, wins)
                             /\ guarded = Guarded(plan, policy, wins)
                             /\ policy = "ERROR_GENERATE" => Conflicts(plan) = {}

(* Nothing is written before the encode, nor while it is buffered.         *)
Fresh == pc = "analyse" \/ (pc = "encode" /\ needsBuffer) => out = <<>>

(* Every key written comes from a write that precedes the current one.     *)
FromEarlier ==
    pc = "encode" =>
        \A x \in DOMAIN out :
            \E a \in DOMAIN plan : \E b \in DOMAIN writes[a] :
                writes[a][b] = out[x].key /\ Before(a, b, i, k)

(* A tracker has every key written; without one, every guarded key written *)
(* has its flag set.                                                       *)
Tracked == pc = "encode" /\ needsTracker =>
               \A x \in DOMAIN out : seen[out[x].key] # 0
Flagged == pc = "encode" /\ ~needsTracker =>
               \A x \in DOMAIN out : out[x].key \in guarded => out[x].key \in wrote

(* The buffered object orders a key once, and holds a value for it.        *)
OrderSound == /\ \A x, y \in DOMAIN order : order[x] = order[y] => x = y
              /\ \A x \in DOMAIN order : values[order[x]] # NoValue

DistinctInv == /\ TypeOK /\ Honest
               /\ Analysed /\ Fresh /\ FromEarlier /\ Tracked /\ Flagged
               /\ OrderSound /\ NoDuplicateKeys

LEMMA DistinctInit == Init /\ Honest => DistinctInv
<1> SUFFICES ASSUME Init, Honest PROVE DistinctInv
  OBVIOUS
<1>1. TypeOK
  BY TypeInit
<1>2. pc = "analyse" /\ out = <<>> /\ order = <<>>
  BY DEF Init
<1> QED
  BY <1>1, <1>2 DEF DistinctInv, Analysed, Fresh, FromEarlier, Tracked, Flagged,
     OrderSound, NoDuplicateKeys

(* The heart of the argument: a key that passes the flag and the tracker,  *)
(* in an encode without a buffer, has not been written.                    *)
LEMMA KeyIsNew ==
    ASSUME DistinctInv, Writing, ~Blocked, ~Claimed, ~needsBuffer,
           NEW x \in DOMAIN out
    PROVE  out[x].key # key_
<1> SUFFICES ASSUME out[x].key = key_ PROVE FALSE
  OBVIOUS
<1> USE DEF DistinctInv
<1>1. pc = "encode" /\ plan \in Seq(Entry) /\ writes \in Messages(plan)
  BY DEF Writing, TypeOK
<1>2. PICK a \in DOMAIN plan : \E b \in DOMAIN writes[a] :
          writes[a][b] = key_ /\ Before(a, b, i, k)
  BY <1>1 DEF FromEarlier
<1>3. PICK b \in DOMAIN writes[a] : writes[a][b] = key_ /\ Before(a, b, i, k)
  BY <1>2
<1>4. ~needsTracker
  BY <1>1 DEF Tracked, Claimed
<1>5. \A c \in DOMAIN plan : ~Dynamic(plan[c])
  BY <1>1, <1>4 DEF Analysed, NeedsTracker
<1>6. policy \in {"IGNORE", "ERROR_GENERATE"}
  BY <1>1, <1>4 DEF Analysed, NeedsTracker, TypeOK, Policies
<1>7. i \in DOMAIN plan /\ k = 1 /\ key_ = plan[i].key /\ plan[i].mode # "spread"
  BY <1>5, WritingFacts DEF Dynamic
<1>8. a \in Nat /\ i \in Nat /\ writes[a] \in Seq(Key)
  BY <1>1, <1>7, MessageShape
<1>9. plan[a].key = key_ /\ b = 1
  <2>1. writes[a] = <<>> \/ writes[a] = <<plan[a].key>>
    BY <1>1, <1>5, MessageShape DEF Dynamic
  <2>2. CASE writes[a] = <<>>
    BY <1>3, <2>2
  <2>3. CASE writes[a] = <<plan[a].key>>
    BY <1>3, <2>3
  <2> QED
    BY <2>1, <2>2, <2>3
<1>10. a < i
  BY <1>3, <1>7, <1>8, <1>9 DEF Before
<1>11. writes[a] # <<>> /\ writes[i] # <<>>
  BY <1>3 DEF Writing
<1>12. CASE ExclusiveOf(plan[a], plan[i])
  <2>1. SameGroup(plan[a], plan[i])
    BY <1>12 DEF SameGroup, ExclusiveOf
  <2>2. CASE plan[a].branch = plan[i].branch
    <3>1. plan[a].key # plan[i].key
      BY <1>5, <1>7, <1>8, <1>10, <2>1, <2>2 DEF Honest, BranchKeysDistinct
    <3> QED
      BY <3>1, <1>7, <1>9
  <2>3. CASE plan[a].branch # plan[i].branch
    <3>1. ~CanBothWrite(plan[a], plan[i])
      BY <2>1, <2>3 DEF CanBothWrite
    <3> QED
      BY <3>1, <1>7, <1>11 DEF Honest, PromiseKept
  <2> QED
    BY <2>2, <2>3
<1>13. CASE ~ExclusiveOf(plan[a], plan[i])
  <2>1. <<a, i>> \in Conflicts(plan)
    BY <1>5, <1>7, <1>9, <1>10, <1>13 DEF Conflicts
  <2>2. policy = "IGNORE"
    BY <1>1, <1>6, <2>1 DEF Analysed
  <2>3. wins = "FIRST"
    BY <1>1, <2>1, <2>2 DEF Analysed, NeedsBuffer, TypeOK, Wins
  <2>4. key_ \in ContestedKeys(plan)
    BY <2>1, <1>9 DEF ContestedKeys
  <2>5. key_ \in guarded
    BY <1>1, <2>2, <2>3, <2>4 DEF Analysed, Guarded
  <2>6. key_ \in wrote
    BY <1>1, <1>4, <2>5 DEF Flagged
  <2> QED
    BY <1>7, <2>5, <2>6 DEF Blocked, ViaWrite
<1> QED
  BY <1>12, <1>13

(* A later position keeps every write that precedes the current one.       *)
LEMMA BeforeAdvances ==
    ASSUME NEW a \in Nat, NEW b \in Nat, i \in Nat, k \in Nat, Before(a, b, i, k)
    PROVE  Before(a, b, i, k + 1) /\ Before(a, b, i + 1, 1)
BY DEF Before

(* Steps that leave the encoder's writes alone and move to a later one.    *)
LEMMA AdvancePreserves ==
    ASSUME DistinctInv, TypeOK', UNCHANGED <<fixed, analysis, written, pc>>,
           pc = "encode",
           \/ i' = i /\ k' = k + 1
           \/ i' = i + 1 /\ k' = 1
    PROVE  DistinctInv'
<1> USE DEF DistinctInv, fixed, analysis, written
<1>1. Honest' /\ Analysed' /\ Fresh' /\ Tracked' /\ Flagged' /\ OrderSound' /\ NoDuplicateKeys'
  BY DEF Honest, Analysed, Fresh, Tracked, Flagged, OrderSound, NoDuplicateKeys
<1>2. ASSUME NEW x \in DOMAIN out
      PROVE  \E a \in DOMAIN plan : \E b \in DOMAIN writes[a] :
                 writes[a][b] = out[x].key /\ Before(a, b, i', k')
  <2>1. PICK a \in DOMAIN plan : \E b \in DOMAIN writes[a] :
            writes[a][b] = out[x].key /\ Before(a, b, i, k)
    BY DEF FromEarlier
  <2>2. PICK b \in DOMAIN writes[a] : writes[a][b] = out[x].key /\ Before(a, b, i, k)
    BY <2>1
  <2>3. plan \in Seq(Entry) /\ writes[a] \in Seq(Key) /\ i \in Nat /\ k \in Nat
    BY <2>1, MessageShape DEF TypeOK
  <2>4. a \in Nat /\ b \in Nat
    BY <2>3
  <2>5. Before(a, b, i', k')
    BY <2>2, <2>3, <2>4, BeforeAdvances
  <2> QED
    BY <2>2, <2>5
<1>3. FromEarlier'
  BY <1>2 DEF FromEarlier
<1> QED
  BY <1>1, <1>3

(* Steps that end the encode without touching what was written.            *)
LEMMA StopPreserves ==
    ASSUME DistinctInv, TypeOK', UNCHANGED <<fixed, order, values, out>>,
           pc' \in Stopped
    PROVE  DistinctInv'
BY DEF DistinctInv, fixed, Honest, Analysed, Fresh, FromEarlier, Tracked,
       Flagged, OrderSound, NoDuplicateKeys, Stopped

LEMMA DistinctStep == DistinctInv /\ [Next]_vars => DistinctInv'
<1> SUFFICES ASSUME DistinctInv, [Next]_vars PROVE DistinctInv'
  OBVIOUS
<1>1. TypeOK /\ TypeOK'
  BY TypeStep DEF DistinctInv
<1>2. CASE Reject
  BY <1>1, <1>2, StopPreserves DEF Reject, written, Stopped
<1>3. CASE Accept
  <2>1. out = <<>> /\ out' = <<>>
    BY <1>3 DEF DistinctInv, Fresh, Accept, written
  <2>2. Analysed'
    BY <1>3 DEF Accept, Analysed, fixed
  <2>3. Fresh' /\ FromEarlier' /\ Tracked' /\ Flagged' /\ NoDuplicateKeys'
    BY <2>1 DEF Fresh, FromEarlier, Tracked, Flagged, NoDuplicateKeys
  <2>4. Honest' /\ OrderSound'
    BY <1>3 DEF DistinctInv, Accept, fixed, written, Honest, OrderSound
  <2> QED
    BY <1>1, <2>2, <2>3, <2>4 DEF DistinctInv
<1>4. CASE SkipGuarded
  BY <1>1, <1>4, AdvancePreserves DEF SkipGuarded, Writing
<1>5. CASE ClaimRefused
  BY <1>1, <1>5, AdvancePreserves DEF ClaimRefused, Writing
<1>6. CASE ClaimFails
  BY <1>1, <1>6, StopPreserves DEF ClaimFails, written, Stopped
<1>7. CASE WriteField
  <2> DEFINE pair == [key |-> key_, val |-> <<i, k>>]
  <2>1. /\ Writing /\ ~Blocked /\ ~Claimed /\ ~needsBuffer /\ pc = "encode"
        /\ Register /\ Flag
        /\ out' = Append(out, pair) /\ i' = i /\ k' = k + 1
        /\ UNCHANGED <<fixed, analysis, pc, order, values>>
    BY <1>7 DEF WriteField, Writing
  <2>2. /\ i \in DOMAIN plan /\ i \in Nat /\ k \in Nat /\ k \in DOMAIN writes[i]
        /\ key_ \in Key /\ key_ = writes[i][k]
    BY <1>1, <2>1, WritingFacts DEF Writing, key_
  <2>3. out \in Seq(Pair) /\ pair \in Pair
    BY <1>1, <2>2 DEF TypeOK, Pair
  <2>4. /\ DOMAIN out' = DOMAIN out \cup {Len(out) + 1}
        /\ Len(out) + 1 \notin DOMAIN out
        /\ \A x \in DOMAIN out : out'[x] = out[x]
        /\ out'[Len(out) + 1] = pair
    BY <2>1, <2>3
  <2>5. NoDuplicateKeys'
    <3>1. \A x \in DOMAIN out : out[x].key # pair.key
      BY <2>1, KeyIsNew
    <3> QED
      BY <2>4, <3>1 DEF DistinctInv, NoDuplicateKeys
  <2>6. FromEarlier'
    <3>1. ASSUME NEW x \in DOMAIN out
          PROVE  \E a \in DOMAIN plan : \E b \in DOMAIN writes[a] :
                     writes[a][b] = out[x].key /\ Before(a, b, i, k + 1)
      <4>1. PICK a \in DOMAIN plan : \E b \in DOMAIN writes[a] :
                writes[a][b] = out[x].key /\ Before(a, b, i, k)
        BY <2>1 DEF DistinctInv, FromEarlier
      <4>2. PICK b \in DOMAIN writes[a] :
                writes[a][b] = out[x].key /\ Before(a, b, i, k)
        BY <4>1
      <4>3. plan \in Seq(Entry) /\ writes[a] \in Seq(Key)
        BY <1>1, <4>1, MessageShape DEF TypeOK
      <4>4. Before(a, b, i, k + 1)
        BY <2>2, <4>2, <4>3, BeforeAdvances
      <4> QED
        BY <4>2, <4>4
    <3>2. writes[i][k] = pair.key /\ Before(i, k, i, k + 1)
      BY <2>2 DEF Before
    <3>3. \A x \in DOMAIN out' :
              \E a \in DOMAIN plan : \E b \in DOMAIN writes[a] :
                  writes[a][b] = out'[x].key /\ Before(a, b, i, k + 1)
      BY <2>2, <2>4, <3>1, <3>2
    <3> QED
      BY <2>1, <3>3 DEF FromEarlier, fixed
  <2>7. Tracked'
    <3>1. SUFFICES ASSUME needsTracker, NEW x \in DOMAIN out'
                   PROVE  seen'[out'[x].key] # 0
      BY <2>1 DEF Tracked, analysis
    <3>2. seen' = [seen EXCEPT ![key_] = i] /\ seen \in [Key -> Nat] /\ i # 0
      <4>1. seen \in [Key -> Nat]
        BY <1>1 DEF TypeOK
      <4>2. i \in Nat /\ i > 0
        BY <1>1, <2>1, WritingFacts
      <4> QED
        BY <2>1, <3>1, <4>1, <4>2 DEF Register
    <3>3. CASE x \in DOMAIN out
      <4>1. out[x] \in Pair
        BY <2>3, <3>3
      <4>2. out[x].key \in Key
        BY <4>1 DEF Pair
      <4>3. seen[out[x].key] # 0
        BY <2>1, <3>1, <3>3 DEF DistinctInv, Tracked
      <4> QED
        BY <2>2, <2>4, <3>2, <3>3, <4>2, <4>3
    <3>4. CASE x = Len(out) + 1
      BY <2>2, <2>4, <3>2, <3>4
    <3> QED
      BY <2>4, <3>3, <3>4
  <2>8. Flagged'
    <3>1. SUFFICES ASSUME ~needsTracker, NEW x \in DOMAIN out', out'[x].key \in guarded
                   PROVE  out'[x].key \in wrote'
      BY <2>1 DEF Flagged, analysis
    <3>2. wrote \subseteq wrote'
      BY <2>1 DEF Flag
    <3>3. CASE x \in DOMAIN out
      BY <2>1, <2>4, <3>1, <3>2, <3>3 DEF DistinctInv, Flagged
    <3>4. CASE x = Len(out) + 1
      <4>1. ~Dynamic(plan[i])
        BY <2>1, <2>2, <3>1 DEF DistinctInv, Analysed, NeedsTracker
      <4>2. ViaWrite
        BY <4>1 DEF ViaWrite, Dynamic
      <4> QED
        BY <2>1, <2>4, <3>1, <3>4, <4>2 DEF Flag
    <3> QED
      BY <2>4, <3>3, <3>4
  <2>9. Honest' /\ Analysed' /\ Fresh' /\ OrderSound'
    BY <2>1 DEF DistinctInv, fixed, analysis, Honest, Analysed, Fresh, OrderSound
  <2> QED
    BY <1>1, <2>5, <2>6, <2>7, <2>8, <2>9 DEF DistinctInv
<1>8. CASE SetField
  <2>1. /\ Writing /\ needsBuffer /\ pc = "encode"
        /\ order' = OrderAfterSet /\ values' = [values EXCEPT ![key_] = <<i, k>>]
        /\ UNCHANGED <<fixed, analysis, pc, out>>
    BY <1>8 DEF SetField, Writing
  <2>2. out = <<>> /\ out' = <<>>
    BY <2>1 DEF DistinctInv, Fresh
  <2>3. Fresh' /\ FromEarlier' /\ Tracked' /\ Flagged' /\ NoDuplicateKeys'
    BY <2>2 DEF Fresh, FromEarlier, Tracked, Flagged, NoDuplicateKeys
  <2>4. key_ \in Key /\ i \in Nat /\ i > 0
    BY <1>1, <2>1, WritingFacts
  <2>5. /\ order \in Seq(Key) /\ values \in [Key -> Nat \X Nat]
        /\ \A x \in DOMAIN order : order[x] \in Key /\ values[order[x]] # NoValue
        /\ \A x, y \in DOMAIN order : order[x] = order[y] => x = y
    BY <1>1 DEF TypeOK, DistinctInv, OrderSound
  <2>6. <<i, k>> # NoValue
    BY <2>4 DEF NoValue
  <2>7. \A key \in Key : values'[key] = IF key = key_ THEN <<i, k>> ELSE values[key]
    BY <2>1, <2>5
  <2>8. OrderSound'
    <3>1. CASE values[key_] = NoValue
      <4>1. order' = Append(order, key_)
        BY <2>1, <3>1 DEF OrderAfterSet
      <4>2. /\ DOMAIN order' = DOMAIN order \cup {Len(order) + 1}
            /\ \A x \in DOMAIN order : order'[x] = order[x]
            /\ order'[Len(order) + 1] = key_
        BY <2>4, <2>5, <4>1
      <4>3. \A x \in DOMAIN order : order[x] # key_
        BY <2>5, <3>1
      <4> QED
        BY <2>4, <2>5, <2>6, <2>7, <4>2, <4>3 DEF OrderSound
    <3>2. CASE values[key_] # NoValue
      <4>1. order' = order
        BY <2>1, <3>2 DEF OrderAfterSet
      <4> QED
        BY <2>5, <2>6, <2>7, <4>1 DEF OrderSound
    <3> QED
      BY <3>1, <3>2
  <2>9. Honest' /\ Analysed'
    BY <2>1 DEF DistinctInv, fixed, analysis, Honest, Analysed
  <2> QED
    BY <1>1, <2>3, <2>8, <2>9 DEF DistinctInv
<1>9. CASE ValueFails
  BY <1>1, <1>9, StopPreserves DEF ValueFails, Stopped
<1>10. CASE ElementFails
  BY <1>1, <1>10, StopPreserves DEF ElementFails, written, Stopped
<1>11. CASE NextEntry
  BY <1>1, <1>11, AdvancePreserves DEF NextEntry
<1>12. CASE Close
  <2>1. CASE ~needsBuffer
    BY <1>1, <1>12, <2>1, StopPreserves DEF Close, Stopped
  <2>2. CASE needsBuffer
    <3>1. /\ out' = Pairs /\ pc' = "done"
          /\ UNCHANGED <<fixed, order, values>>
      BY <1>12, <2>2 DEF Close
    <3>2. NoDuplicateKeys'
      BY <3>1 DEF DistinctInv, OrderSound, NoDuplicateKeys, Pairs
    <3>3. Honest' /\ OrderSound'
      BY <3>1 DEF DistinctInv, fixed, Honest, OrderSound
    <3>4. Analysed' /\ Fresh' /\ FromEarlier' /\ Tracked' /\ Flagged'
      BY <3>1 DEF Analysed, Fresh, FromEarlier, Tracked, Flagged
    <3> QED
      BY <1>1, <3>2, <3>3, <3>4 DEF DistinctInv
  <2> QED
    BY <2>1, <2>2
<1>13. CASE UNCHANGED vars
  BY <1>1, <1>13 DEF DistinctInv, vars, fixed, analysis, written, Honest, Analysed,
     Fresh, FromEarlier, Tracked, Flagged, OrderSound, NoDuplicateKeys
<1> QED
  BY <1>2, <1>3, <1>4, <1>5, <1>6, <1>7, <1>8, <1>9, <1>10, <1>11, <1>12, <1>13
     DEF Next

(* The plan, the message and the options are those of Init.                *)
LEMMA FixedKept == [Next]_vars => UNCHANGED fixed
BY DEF Next, vars, Reject, Accept, SkipGuarded, ClaimRefused, ClaimFails, WriteField,
       SetField, ValueFails, ElementFails, NextEntry, Close

(* When every promise of exclusivity is kept, the encoder never writes a   *)
(* key twice: through the flags, the tracker, the buffer, and no machinery *)
(* at all on the keys the analysis left alone (analyse.go, emit.go,        *)
(* object.go; internal/spectest/invariants.go asserts it of every test).   *)
THEOREM KeysDistinct == Spec => []KeysOnce
<1>1. Init => (Honest => DistinctInv)
  BY DistinctInit
<1>2. (Honest => DistinctInv) /\ [Next]_vars => (Honest => DistinctInv)'
  <2> SUFFICES ASSUME Honest => DistinctInv, [Next]_vars, Honest'
               PROVE  DistinctInv'
    OBVIOUS
  <2>1. Honest
    BY FixedKept DEF fixed, Honest
  <2> QED
    BY <2>1, DistinctStep
<1>3. (Honest => DistinctInv) => KeysOnce
  BY DEF DistinctInv, KeysOnce
<1> QED
  BY <1>1, <1>2, <1>3, PTL DEF Spec

(* What the analysis decided holds throughout the encode.                  *)
LEMMA AnalysedStep == Analysed /\ [Next]_vars => Analysed'
<1> SUFFICES ASSUME Analysed, [Next]_vars, ~Accept PROVE Analysed'
  <2>1. CASE Accept
    BY <2>1 DEF Accept, Analysed, fixed
  <2> QED
    BY <2>1
<1>1. pc' = "encode" => pc = "encode" /\ UNCHANGED <<fixed, analysis>>
  BY DEF Next, vars, Reject, SkipGuarded, ClaimRefused, ClaimFails, WriteField, SetField,
         ValueFails, ElementFails, NextEntry, Close, Writing
<1> QED
  BY <1>1 DEF Analysed, fixed, analysis

(* ERROR_GENERATE accepts no plan in which two static entries can both     *)
(* write one key, when each branch keeps its own keys apart (analyse.go).  *)
THEOREM ClashesRefused == Spec => []GenerateRefusesClashes
<1>1. Init => TypeOK /\ Analysed
  BY TypeInit DEF Init, Analysed
<1>2. TypeOK /\ Analysed /\ [Next]_vars => (TypeOK /\ Analysed)'
  BY TypeStep, AnalysedStep
<1>3. TypeOK /\ Analysed => GenerateRefusesClashes
  <2> SUFFICES ASSUME TypeOK, Analysed, BranchKeysDistinct(plan), policy = "ERROR_GENERATE", pc = "encode",
                      StaticClash(plan)
               PROVE  FALSE
    BY DEF GenerateRefusesClashes
  <2>1. PICK a, b \in DOMAIN plan : /\ a < b
                                    /\ ~Dynamic(plan[a]) /\ ~Dynamic(plan[b])
                                    /\ plan[a].key = plan[b].key
                                    /\ CanBothWrite(plan[a], plan[b])
    BY DEF StaticClash
  <2>2. plan \in Seq(Entry)
    BY DEF TypeOK
  <2>3. CASE ExclusiveOf(plan[a], plan[b])
    <3>1. SameGroup(plan[a], plan[b]) /\ plan[a].branch = plan[b].branch
      BY <2>1, <2>3 DEF CanBothWrite, SameGroup, ExclusiveOf
    <3> QED
      BY <2>1, <2>2, <3>1 DEF BranchKeysDistinct
  <2>4. CASE ~ExclusiveOf(plan[a], plan[b])
    <3>1. <<a, b>> \in Conflicts(plan)
      BY <2>1, <2>4 DEF Conflicts
    <3> QED
      BY <3>1 DEF Analysed
  <2> QED
    BY <2>3, <2>4
<1> QED
  BY <1>1, <1>2, <1>3, PTL DEF Spec

-----------------------------------------------------------------------------
(* What a collision may cost and what its error says, promises kept or     *)
(* broken: no key is lost, a strict encoder repeats none, and each error   *)
(* names two sources that really met.                                      *)

(* Generation ends with a conflict of the plan, if it is refused.          *)
RefusedForConflict ==
    err.kind = "generate" => <<err.first, err.second>> \in Conflicts(plan)

LEMMA RefusedStep == TypeOK /\ RefusedForConflict /\ [Next]_vars => RefusedForConflict'
<1> SUFFICES ASSUME TypeOK, RefusedForConflict, [Next]_vars PROVE RefusedForConflict'
  OBVIOUS
<1>1. CASE Reject
  <2>1. plan \in Seq(Entry) /\ Conflicts(plan) # {}
    BY <1>1 DEF Reject, TypeOK
  <2>2. FirstConflict(plan) \in Conflicts(plan)
    BY <2>1, FirstConflictIsConflict
  <2>3. FirstConflict(plan) = <<FirstConflict(plan)[1], FirstConflict(plan)[2]>>
    BY <2>2 DEF Conflicts
  <2>4. err'.first = FirstConflict(plan)[1] /\ err'.second = FirstConflict(plan)[2]
    BY <1>1 DEF Reject, ErrorOf
  <2> QED
    BY <1>1, <2>2, <2>3, <2>4 DEF Reject, RefusedForConflict, fixed
<1>2. CASE ClaimFails \/ ValueFails \/ ElementFails
  <2>1. err'.kind # "generate"
    BY <1>2 DEF ClaimFails, ValueFails, ElementFails, Collision, ErrorOf
  <2> QED
    BY <2>1 DEF RefusedForConflict
<1>3. ASSUME UNCHANGED <<plan, err>>
      PROVE  RefusedForConflict'
  BY <1>3 DEF RefusedForConflict
<1> QED
  BY <1>1, <1>2, <1>3 DEF Next, vars, fixed, Accept, SkipGuarded, ClaimRefused, WriteField,
     SetField, NextEntry, Close

(* A refused plan has two static entries with the key and the sources the  *)
(* error names that can both write (plan.analyse, firstConflict).          *)
THEOREM RefusalsReal == Spec => []RefusalIsReal
<1>1. Init => TypeOK /\ RefusedForConflict
  BY TypeInit DEF Init, NoError, RefusedForConflict
<1>2. TypeOK /\ RefusedForConflict /\ [Next]_vars => (TypeOK /\ RefusedForConflict)'
  BY TypeStep, RefusedStep
<1>3. RefusedForConflict => RefusalIsReal
  BY DEF RefusedForConflict, RefusalIsReal, Conflicts, CanBothWrite, SameGroup, ExclusiveOf
<1> QED
  BY <1>1, <1>2, <1>3, PTL DEF Spec

-----------------------------------------------------------------------------
(* No key is lost                                                          *)

(* The keys of the object so far.                                          *)
Present == IF needsBuffer THEN {order[x] : x \in DOMAIN order}
                          ELSE {out[x].key : x \in DOMAIN out}

(* Nothing is remembered before the encode, and during it only what is in  *)
(* the object: a flag, a claim or a value set is never for nothing.        *)
Unused == pc = "analyse" =>
              /\ i = 1 /\ k = 1 /\ wrote = {}
              /\ \A key \in Key : seen[key] = 0 /\ values[key] = NoValue

Remembered == pc = "encode" =>
                  /\ wrote \subseteq Present
                  /\ \A key \in Key : seen[key] # 0 => key \in Present
                  /\ \A key \in Key : needsBuffer /\ values[key] # NoValue => key \in Present

(* Every write before the current one has its key in the object.           *)
Kept == pc = "encode" =>
            \A a \in DOMAIN plan : \A b \in DOMAIN writes[a] :
                Before(a, b, i, k) => writes[a][b] \in Present

KeptInv == TypeOK /\ Unused /\ Remembered /\ Kept /\ NoKeyLost

LEMMA KeptInit == Init => KeptInv
<1> SUFFICES ASSUME Init PROVE KeptInv
  OBVIOUS
<1>1. TypeOK
  BY TypeInit
<1> QED
  BY <1>1 DEF Init, KeptInv, Unused, Remembered, Kept, NoKeyLost

(* Before the next entry are the writes of this one and those before it.   *)
LEMMA BeforeNext ==
    ASSUME NEW a \in Nat, NEW b \in Nat, i \in Nat, k \in Nat
    PROVE  /\ Before(a, b, i, k + 1) => Before(a, b, i, k) \/ (a = i /\ b = k)
           /\ Before(a, b, i + 1, 1) /\ b >= 1 => Before(a, b, i, k) \/ a = i
BY DEF Before

LEMMA WritesAreKeys ==
    ASSUME TypeOK, NEW a \in DOMAIN plan, NEW b \in DOMAIN writes[a]
    PROVE  a \in Nat /\ b \in Nat /\ b >= 1 /\ b <= Len(writes[a]) /\ writes[a][b] \in Key
<1>1. plan \in Seq(Entry) /\ writes \in Messages(plan)
  BY DEF TypeOK
<1>2. writes[a] \in Seq(Key)
  BY <1>1, MessageShape
<1> QED
  BY <1>1, <1>2

(* A step that goes on with the encode, loses no key and has the write it  *)
(* passes in the object, keeps them all.                                   *)
LEMMA KeptOn ==
    ASSUME KeptInv, TypeOK', pc = "encode", pc' = "encode",
           UNCHANGED <<fixed, needsBuffer>>, Present \subseteq Present',
           \/ i' = i /\ k' = k + 1 /\ key_ \in Present'
           \/ i' = i + 1 /\ k' = 1 /\ EntryDone,
           wrote' \subseteq Present',
           \A key \in Key : seen'[key] # 0 => key \in Present',
           \A key \in Key : needsBuffer /\ values'[key] # NoValue => key \in Present'
    PROVE  KeptInv'
<1>1. TypeOK /\ i \in Nat /\ k \in Nat
  BY DEF KeptInv, TypeOK
<1>2. ASSUME NEW a \in DOMAIN plan, NEW b \in DOMAIN writes[a], Before(a, b, i', k')
      PROVE  writes[a][b] \in Present'
  <2>1. a \in Nat /\ b \in Nat /\ b >= 1 /\ b <= Len(writes[a])
    BY <1>1, WritesAreKeys
  <2>2. Before(a, b, i, k) => writes[a][b] \in Present'
    BY DEF KeptInv, Kept
  <2>3. CASE i' = i /\ k' = k + 1 /\ key_ \in Present'
    <3>1. Before(a, b, i, k) \/ (a = i /\ b = k)
      BY <1>1, <1>2, <2>1, <2>3, BeforeNext
    <3> QED
      BY <2>2, <2>3, <3>1 DEF key_
  <2>4. CASE i' = i + 1 /\ k' = 1 /\ EntryDone
    <3>1. Before(a, b, i, k) \/ a = i
      BY <1>1, <1>2, <2>1, <2>4, BeforeNext
    <3>2. a = i => b < k
      <4>1. a = i => Len(writes[a]) \in Nat
        <5>1. plan \in Seq(Entry) /\ writes \in Messages(plan)
          BY <1>1 DEF TypeOK
        <5>2. writes[a] \in Seq(Key)
          BY <5>1, MessageShape
        <5> QED
          BY <5>2
      <4> QED
        BY <1>1, <2>1, <2>4, <4>1 DEF EntryDone
    <3>3. Before(a, b, i, k)
      BY <3>1, <3>2 DEF Before
    <3> QED
      BY <2>2, <3>3
  <2> QED
    BY <2>3, <2>4
<1>3. Kept'
  BY <1>2 DEF Kept, fixed
<1>4. Unused' /\ NoKeyLost'
  BY DEF Unused, NoKeyLost
<1>5. Remembered'
  BY DEF Remembered
<1> QED
  BY <1>3, <1>4, <1>5 DEF KeptInv

LEMMA KeptStep == KeptInv /\ [Next]_vars => KeptInv'
<1> SUFFICES ASSUME KeptInv, [Next]_vars PROVE KeptInv'
  OBVIOUS
<1>1. TypeOK /\ TypeOK'
  BY TypeStep DEF KeptInv
<1>2. ASSUME pc' \in {"rejected", "failed"} PROVE KeptInv'
  BY <1>1, <1>2 DEF KeptInv, Unused, Remembered, Kept, NoKeyLost
<1>3. CASE Accept
  <2>1. /\ pc = "analyse" /\ pc' = "encode"
        /\ UNCHANGED <<fixed, i, k, wrote, seen, order, values, out>>
    BY <1>3 DEF Accept, written
  <2>2. /\ i = 1 /\ k = 1 /\ wrote = {}
        /\ \A key \in Key : seen[key] = 0 /\ values[key] = NoValue
    BY <2>1 DEF KeptInv, Unused
  <2>3. ASSUME NEW a \in DOMAIN plan, NEW b \in DOMAIN writes[a]
        PROVE  ~Before(a, b, 1, 1)
    <3>1. a \in Nat /\ a >= 1 /\ b \in Nat /\ b >= 1
      <4>1. plan \in Seq(Entry)
        BY <1>1 DEF TypeOK
      <4> QED
        BY <1>1, <4>1, WritesAreKeys
    <3> QED
      BY <3>1 DEF Before
  <2>4. Kept'
    BY <2>1, <2>2, <2>3 DEF Kept, fixed
  <2>5. Remembered'
    BY <2>1, <2>2 DEF Remembered
  <2> QED
    BY <1>1, <2>1, <2>4, <2>5 DEF KeptInv, Unused, NoKeyLost
<1>4. ASSUME Writing, UNCHANGED <<fixed, pc, analysis, i, written>>, k' = k + 1, key_ \in Present
      PROVE  KeptInv'
  <2>1. /\ pc = "encode" /\ pc' = "encode" /\ i' = i /\ Present' = Present
        /\ UNCHANGED <<fixed, needsBuffer, wrote, seen, values>>
    BY <1>4 DEF Writing, Present, analysis, written
  <2> QED
    BY <1>1, <1>4, <2>1, KeptOn DEF KeptInv, Remembered
<1>5. CASE SkipGuarded
  <2>1. Writing /\ key_ \in Present
    BY <1>5 DEF SkipGuarded, Blocked, Writing, KeptInv, Remembered
  <2> QED
    BY <1>4, <1>5, <2>1 DEF SkipGuarded
<1>6. CASE ClaimRefused
  <2>1. Writing /\ seen[key_] # 0
    BY <1>6 DEF ClaimRefused, Claimed
  <2>2. key_ \in Present
    BY <1>1, <2>1, WritingFacts DEF Writing, KeptInv, Remembered
  <2> QED
    BY <1>4, <1>6, <2>1, <2>2 DEF ClaimRefused
<1>7. ASSUME Writing, Register, Flag, Present \subseteq Present', key_ \in Present'
      PROVE  /\ wrote \subseteq Present => wrote' \subseteq Present'
             /\ \A key \in Key : seen'[key] # 0 => key \in Present'
  <2>1. wrote \subseteq Present => wrote' \subseteq Present'
    BY <1>7 DEF Flag
  <2>2. ASSUME NEW key \in Key, seen'[key] # 0
        PROVE  key \in Present'
    <3>1. seen[key] # 0 \/ key = key_
      BY <1>1, <1>7, <2>2, WritingFacts DEF Register, TypeOK
    <3> QED
      BY <1>7, <3>1 DEF KeptInv, Remembered, Writing
  <2> QED
    BY <2>1, <2>2
<1>8. CASE WriteField
  <2> DEFINE pair == [key |-> key_, val |-> <<i, k>>]
  <2>1. /\ Writing /\ Register /\ Flag /\ ~needsBuffer /\ pc = "encode" /\ pc' = "encode"
        /\ out' = Append(out, pair) /\ i' = i /\ k' = k + 1
        /\ UNCHANGED <<fixed, needsBuffer, values>>
    BY <1>8 DEF WriteField, Writing, analysis
  <2>2. out \in Seq(Pair) /\ pair \in Pair
    BY <1>1, <2>1, WritingFacts DEF TypeOK, Pair
  <2>3. /\ DOMAIN out' = DOMAIN out \cup {Len(out) + 1}
        /\ \A x \in DOMAIN out : out'[x] = out[x]
        /\ out'[Len(out) + 1] = pair
    BY <2>1, <2>2
  <2>4. Present \subseteq Present' /\ key_ \in Present'
    BY <2>1, <2>3 DEF Present
  <2>5. wrote' \subseteq Present' /\ \A key \in Key : seen'[key] # 0 => key \in Present'
    BY <1>7, <2>1, <2>4 DEF KeptInv, Remembered
  <2> QED
    BY <1>1, <2>1, <2>4, <2>5, KeptOn
<1>9. CASE SetField
  <2>1. /\ Writing /\ Register /\ Flag /\ needsBuffer /\ pc = "encode" /\ pc' = "encode"
        /\ order' = OrderAfterSet /\ values' = [values EXCEPT ![key_] = <<i, k>>]
        /\ i' = i /\ k' = k + 1
        /\ UNCHANGED <<fixed, needsBuffer>>
    BY <1>9 DEF SetField, Writing, analysis
  <2>2. key_ \in Key /\ order \in Seq(Key) /\ values \in [Key -> Nat \X Nat]
    BY <1>1, <2>1, WritingFacts DEF TypeOK
  <2>3. Present \subseteq Present' /\ key_ \in Present'
    <3>1. CASE values[key_] = NoValue
      <4>1. order' = Append(order, key_)
        BY <2>1, <3>1 DEF OrderAfterSet
      <4>2. /\ DOMAIN order' = DOMAIN order \cup {Len(order) + 1}
            /\ \A x \in DOMAIN order : order'[x] = order[x]
            /\ order'[Len(order) + 1] = key_
        BY <2>2, <4>1
      <4> QED
        BY <2>1, <4>2 DEF Present
    <3>2. CASE values[key_] # NoValue
      <4>1. order' = order /\ Present' = Present
        BY <2>1, <3>2 DEF OrderAfterSet, Present
      <4> QED
        BY <2>1, <2>2, <3>2, <4>1 DEF KeptInv, Remembered
    <3> QED
      BY <3>1, <3>2
  <2>4. wrote' \subseteq Present' /\ \A key \in Key : seen'[key] # 0 => key \in Present'
    BY <1>7, <2>1, <2>3 DEF KeptInv, Remembered
  <2>5. \A key \in Key : needsBuffer /\ values'[key] # NoValue => key \in Present'
    <3>1. \A key \in Key : key # key_ => values'[key] = values[key]
      BY <2>1, <2>2
    <3> QED
      BY <2>1, <2>3, <3>1 DEF KeptInv, Remembered
  <2> QED
    BY <1>1, <2>1, <2>3, <2>4, <2>5, KeptOn
<1>10. CASE NextEntry
  <2>1. /\ pc = "encode" /\ pc' = "encode" /\ Present' = Present /\ EntryDone
        /\ i' = i + 1 /\ k' = 1
        /\ UNCHANGED <<fixed, needsBuffer, wrote, seen, values>>
    BY <1>10 DEF NextEntry, Present, analysis, written
  <2> QED
    BY <1>1, <2>1, KeptOn DEF KeptInv, Remembered
<1>11. CASE Close
  <2>1. /\ pc = "encode" /\ pc' = "done" /\ i > Len(plan)
        /\ UNCHANGED <<fixed, order, values>>
        /\ out' = IF needsBuffer THEN Pairs ELSE out
    BY <1>11 DEF Close
  <2>2. ASSUME NEW key \in Present PROVE \E x \in DOMAIN out' : out'[x].key = key
    <3>1. CASE needsBuffer
      <4>1. PICK x \in DOMAIN order : order[x] = key
        BY <2>2, <3>1 DEF Present
      <4>2. x \in DOMAIN Pairs /\ Pairs[x].key = key
        BY <4>1 DEF Pairs
      <4> QED
        BY <2>1, <3>1, <4>2
    <3>2. CASE ~needsBuffer
      BY <2>1, <2>2, <3>2 DEF Present
    <3> QED
      BY <3>1, <3>2
  <2>3. ASSUME NEW a \in DOMAIN plan, NEW b \in DOMAIN writes[a]
        PROVE  writes[a][b] \in Present
    <3>1. a \in Nat /\ a <= Len(plan) /\ Len(plan) \in Nat /\ i \in Nat
      BY <1>1 DEF TypeOK
    <3>2. Before(a, b, i, k)
      BY <2>1, <3>1 DEF Before
    <3> QED
      BY <2>1, <3>2 DEF KeptInv, Kept
  <2>4. NoKeyLost'
    BY <2>1, <2>2, <2>3 DEF NoKeyLost, fixed
  <2> QED
    BY <1>1, <2>1, <2>4 DEF KeptInv, Unused, Remembered, Kept
<1>12. CASE UNCHANGED vars
  <2>1. Present' = Present
    BY <1>12 DEF vars, analysis, written, Present
  <2> QED
    BY <1>1, <1>12, <2>1 DEF vars, fixed, analysis, written, KeptInv, Unused, Remembered, Kept,
       NoKeyLost
<1> QED
  BY <1>2, <1>3, <1>5, <1>6, <1>8, <1>9, <1>10, <1>11, <1>12
     DEF Next, Reject, ClaimFails, ValueFails, ElementFails

(* A collision costs a write its value, never the object its key: what a   *)
(* flag, the tracker or the buffer drops has been written under that key   *)
(* before (writer.write, Keys.Claim, Object.Set).                          *)
THEOREM KeysKept == Spec => []NoKeyLost
<1>1. KeptInv => NoKeyLost
  BY DEF KeptInv
<1> QED
  BY KeptInit, KeptStep, <1>1, PTL DEF Spec

-----------------------------------------------------------------------------
(* Strict encoders                                                         *)

IsWrite(a, b) == a \in DOMAIN plan /\ b \in DOMAIN writes[a]

(* In a strict encode nothing is dropped: the tracker knows each write so  *)
(* far and nothing else, and no two of them have one key.                  *)
Strict == pc = "encode" /\ policy = "ERROR_RUNTIME"

Claims == Strict =>
    /\ \A a, b : IsWrite(a, b) /\ Before(a, b, i, k) => seen[writes[a][b]] = a
    /\ \A key \in Key : seen[key] # 0 =>
          \E b : IsWrite(seen[key], b) /\ writes[seen[key]][b] = key /\ Before(seen[key], b, i, k)

ApartSoFar ==
    \A a, b, c, d : /\ IsWrite(a, b) /\ IsWrite(c, d)
                    /\ Before(a, b, c, d) /\ Before(c, d, i, k)
                    => writes[a][b] # writes[c][d]

(* Nothing is claimed before the encode, and no error survives a step.     *)
Unfailed == pc \in {"analyse", "encode"} => err = NoError
Nothing == pc = "analyse" => i = 1 /\ k = 1 /\ \A key \in Key : seen[key] = 0

StrictInv == /\ TypeOK /\ Analysed /\ Nothing /\ Unfailed /\ Claims
             /\ Strict => ApartSoFar
             /\ StrictMeansUnique /\ CollisionReportIsFirst

LEMMA StrictInit == Init => StrictInv
<1> SUFFICES ASSUME Init PROVE StrictInv
  OBVIOUS
<1>1. TypeOK
  BY TypeInit
<1> QED
  BY <1>1 DEF Init, NoError, StrictInv, Analysed, Nothing, Unfailed, Claims, Strict, StrictMeansUnique,
     CollisionReportIsFirst

LEMMA WritePositions ==
    ASSUME TypeOK, NEW a, NEW b, IsWrite(a, b)
    PROVE  a \in Nat /\ b \in Nat /\ a >= 1 /\ b >= 1 /\ b <= Len(writes[a]) /\ writes[a][b] \in Key
           /\ Len(writes[a]) \in Nat /\ a <= Len(plan) /\ Len(plan) \in Nat
<1>1. plan \in Seq(Entry) /\ writes \in Messages(plan)
  BY DEF TypeOK
<1>2. a \in DOMAIN plan /\ b \in DOMAIN writes[a]
  BY DEF IsWrite
<1>3. writes[a] \in Seq(Key)
  BY <1>1, <1>2, MessageShape
<1> QED
  BY <1>1, <1>2, <1>3

(* Whatever the encode has passed when it goes on to the next entry.       *)
LEMMA PassedByNext ==
    ASSUME TypeOK, EntryDone, NEW a, NEW b, IsWrite(a, b)
    PROVE  Before(a, b, i + 1, 1) <=> Before(a, b, i, k)
<1>1. /\ a \in Nat /\ b \in Nat /\ b >= 1 /\ i \in Nat /\ k \in Nat
      /\ b <= Len(writes[a]) /\ Len(writes[a]) \in Nat
  BY WritePositions DEF TypeOK
<1>2. a = i => b < k
  BY <1>1 DEF EntryDone
<1> QED
  BY <1>1, <1>2 DEF Before

LEMMA PassedByWrite ==
    ASSUME TypeOK, NEW a, NEW b, IsWrite(a, b)
    PROVE  Before(a, b, i, k + 1) <=> Before(a, b, i, k) \/ (a = i /\ b = k)
<1>1. a \in Nat /\ b \in Nat /\ i \in Nat /\ k \in Nat
  BY WritePositions DEF TypeOK
<1> QED
  BY <1>1 DEF Before

(* A strict encoder has a tracker and no flag.                             *)
LEMMA StrictMachinery ==
    ASSUME StrictInv, Strict
    PROVE  needsTracker /\ guarded = {} /\ ~Blocked
BY DEF StrictInv, Strict, Analysed, NeedsTracker, Guarded, Blocked

(* A write a strict encoder makes is of a key not written before.          *)
LEMMA StrictWrite ==
    ASSUME StrictInv, TypeOK', Strict, Writing, ~Claimed, Register,
           pc' = pc, i' = i, k' = k + 1, UNCHANGED <<fixed, analysis, err>>
    PROVE  StrictInv'
<1>1. TypeOK /\ needsTracker /\ pc = "encode" /\ Strict'
  BY StrictMachinery DEF StrictInv, Strict, fixed
<1>2. /\ IsWrite(i, k) /\ key_ = writes[i][k] /\ key_ \in Key /\ seen[key_] = 0
      /\ i \in Nat /\ i > 0 /\ k \in Nat
  BY <1>1, WritingFacts DEF Writing, IsWrite, key_, Claimed
<1>3. \A key \in Key : seen'[key] = IF key = key_ THEN i ELSE seen[key]
  BY <1>1, <1>2 DEF Register, TypeOK
<1>4. \A a, b : IsWrite(a, b)' <=> IsWrite(a, b)
  BY DEF IsWrite, fixed
<1>5. ASSUME NEW a, NEW b, IsWrite(a, b), Before(a, b, i, k)
      PROVE  writes[a][b] # key_ /\ seen[writes[a][b]] = a /\ writes[a][b] \in Key
  <2>1. seen[writes[a][b]] = a
    BY <1>5 DEF StrictInv, Claims
  <2>2. a # 0 /\ writes[a][b] \in Key
    BY <1>1, <1>5, WritePositions
  <2> QED
    BY <1>2, <2>1, <2>2
<1>6. ASSUME NEW a, NEW b, IsWrite(a, b), Before(a, b, i, k + 1)
      PROVE  seen'[writes[a][b]] = a
  <2>1. CASE Before(a, b, i, k)
    BY <1>3, <1>5, <1>6, <2>1
  <2>2. CASE a = i /\ b = k
    BY <1>2, <1>3, <2>2
  <2> QED
    BY <1>1, <1>6, <2>1, <2>2, PassedByWrite
<1>7. ASSUME NEW key \in Key, seen'[key] # 0
      PROVE  \E b : /\ IsWrite(seen'[key], b) /\ writes[seen'[key]][b] = key
                    /\ Before(seen'[key], b, i, k + 1)
  <2>1. CASE key = key_
    <3>1. Before(i, k, i, k + 1)
      BY <1>2 DEF Before
    <3> QED
      BY <1>2, <1>3, <2>1, <3>1
  <2>2. CASE key # key_
    <3>1. seen'[key] = seen[key]
      BY <1>3, <2>2
    <3>2. PICK b : IsWrite(seen[key], b) /\ writes[seen[key]][b] = key /\ Before(seen[key], b, i, k)
      BY <1>7, <3>1 DEF StrictInv, Claims
    <3>3. Before(seen[key], b, i, k + 1)
      BY <1>1, <3>2, PassedByWrite
    <3> QED
      BY <3>1, <3>2, <3>3
  <2> QED
    BY <2>1, <2>2
<1>8. Claims'
  BY <1>4, <1>6, <1>7 DEF Claims, fixed
<1>9. ASSUME NEW a, NEW b, NEW c, NEW d, IsWrite(a, b), IsWrite(c, d),
             Before(a, b, c, d), Before(c, d, i, k + 1)
      PROVE  writes[a][b] # writes[c][d]
  <2>1. CASE Before(c, d, i, k)
    BY <1>9, <2>1 DEF StrictInv, ApartSoFar
  <2>2. CASE c = i /\ d = k
    <3>1. writes[a][b] # key_
      BY <1>5, <1>9, <2>2
    <3> QED
      BY <1>2, <2>2, <3>1
  <2> QED
    BY <1>1, <1>9, <2>1, <2>2, PassedByWrite
<1>10. ApartSoFar'
  BY <1>4, <1>9 DEF ApartSoFar, fixed
<1>11. Analysed' /\ Nothing' /\ StrictMeansUnique'
  BY <1>1 DEF StrictInv, Analysed, Nothing, StrictMeansUnique, fixed, analysis
<1>12. Unfailed' /\ CollisionReportIsFirst'
  BY <1>1 DEF StrictInv, Unfailed, NoError, CollisionReportIsFirst
<1> QED
  BY <1>8, <1>10, <1>11, <1>12 DEF StrictInv

(* A claim that is refused in a strict encode is the first of its kind.    *)
LEMMA RefusalIsFirst ==
    ASSUME StrictInv, Strict, Writing, Claimed, err' = Collision, UNCHANGED <<fixed, i, k>>
    PROVE  CollisionReportIsFirst'
<1>1. TypeOK /\ key_ \in Key /\ seen[key_] # 0
  BY WritingFacts DEF StrictInv, Claimed
<1>2. PICK b : /\ IsWrite(seen[key_], b) /\ writes[seen[key_]][b] = key_
               /\ Before(seen[key_], b, i, k)
  BY <1>1 DEF StrictInv, Claims
<1>3. err'.first = seen[key_] /\ err'.second = i
  BY DEF Collision, ErrorOf
<1>4. /\ err'.second = i
      /\ \E c \in DOMAIN writes[err'.first] :
            writes[err'.first][c] = writes[i][k] /\ Before(err'.first, c, i, k)
  BY <1>2, <1>3 DEF IsWrite, key_
<1>5. \A a, c \in DOMAIN plan : \A e \in DOMAIN writes[a], d \in DOMAIN writes[c] :
          Before(a, e, c, d) /\ Before(c, d, i, k) => writes[a][e] # writes[c][d]
  BY DEF StrictInv, ApartSoFar, IsWrite
<1> QED
  BY <1>4, <1>5 DEF CollisionReportIsFirst, fixed

LEMMA StrictStep == StrictInv /\ [Next]_vars => StrictInv'
<1> SUFFICES ASSUME StrictInv, [Next]_vars PROVE StrictInv'
  OBVIOUS
<1>1. TypeOK /\ TypeOK' /\ Analysed'
  BY TypeStep, AnalysedStep DEF StrictInv
<1>2. ASSUME pc' \in {"rejected", "failed"}, CollisionReportIsFirst'
      PROVE  StrictInv'
  BY <1>1, <1>2 DEF StrictInv, Nothing, Unfailed, Claims, Strict, StrictMeansUnique
<1>3. CASE Reject \/ ValueFails \/ ElementFails
  <2>1. err'.kind # "collision" /\ pc' \in {"rejected", "failed"}
    BY <1>3 DEF Reject, ValueFails, ElementFails, ErrorOf
  <2> QED
    BY <1>2, <2>1 DEF CollisionReportIsFirst
<1>4. CASE Accept
  <2>1. /\ pc = "analyse" /\ pc' = "encode"
        /\ UNCHANGED <<fixed, i, k, seen, err>>
    BY <1>4 DEF Accept, written
  <2>2. i = 1 /\ k = 1 /\ \A key \in Key : seen[key] = 0
    BY <2>1 DEF StrictInv, Nothing
  <2>3. ASSUME NEW a, NEW b, IsWrite(a, b) PROVE ~Before(a, b, 1, 1)
    BY <1>1, <2>3, WritePositions DEF Before
  <2>4. \A a, b : IsWrite(a, b)' <=> IsWrite(a, b)
    BY <2>1 DEF IsWrite, fixed
  <2>5. Claims' /\ ApartSoFar'
    BY <2>1, <2>2, <2>3, <2>4 DEF Claims, ApartSoFar
  <2> QED
    BY <1>1, <2>1, <2>5 DEF StrictInv, Nothing, Unfailed, StrictMeansUnique,
       CollisionReportIsFirst, NoError
<1>5. ASSUME pc = "encode", pc' = "encode", ~Strict, UNCHANGED <<fixed, err>>
      PROVE  StrictInv'
  <2>1. ~Strict' /\ pc = "encode"
    BY <1>5 DEF Strict, fixed
  <2> QED
    BY <1>1, <1>5, <2>1 DEF StrictInv, Nothing, Unfailed, Claims, StrictMeansUnique,
       CollisionReportIsFirst, NoError
<1>6. CASE SkipGuarded
  <2>1. ~Strict
    BY <1>6, StrictMachinery DEF SkipGuarded
  <2> QED
    BY <1>5, <1>6, <2>1 DEF SkipGuarded, Writing
<1>7. CASE ClaimRefused
  BY <1>5, <1>7 DEF ClaimRefused, Writing, Strict
<1>8. CASE ClaimFails
  <2>1. Strict
    BY <1>8 DEF ClaimFails, Writing, Strict
  <2>2. CollisionReportIsFirst'
    BY <1>8, <2>1, RefusalIsFirst DEF ClaimFails
  <2> QED
    BY <1>2, <1>8, <2>2 DEF ClaimFails
<1>9. CASE WriteField \/ SetField
  <2>1. /\ Writing /\ ~Claimed /\ Register /\ pc = "encode"
        /\ pc' = pc /\ i' = i /\ k' = k + 1 /\ UNCHANGED <<fixed, analysis, err>>
    BY <1>9 DEF WriteField, SetField, Writing
  <2> QED
    BY <1>1, <1>5, <2>1, StrictWrite
<1>10. CASE NextEntry
  <2>1. /\ pc = "encode" /\ pc' = "encode" /\ EntryDone
        /\ i' = i + 1 /\ k' = 1 /\ UNCHANGED <<fixed, seen, err>>
    BY <1>10 DEF NextEntry, written
  <2>2. CASE Strict
    <3>1. Strict'
      BY <2>1, <2>2 DEF Strict, fixed
    <3>2. \A a, b : IsWrite(a, b)' <=> IsWrite(a, b)
      BY <2>1 DEF IsWrite, fixed
    <3>3. \A a, b : IsWrite(a, b) => (Before(a, b, i', k') <=> Before(a, b, i, k))
      BY <1>1, <2>1, PassedByNext
    <3>4. Claims'
      <4>1. \A a, b : IsWrite(a, b) /\ Before(a, b, i, k) => seen[writes[a][b]] = a
        BY <2>2 DEF StrictInv, Claims
      <4>2. \A key \in Key : seen[key] # 0 =>
                \E b : IsWrite(seen[key], b) /\ writes[seen[key]][b] = key /\ Before(seen[key], b, i, k)
        BY <2>2 DEF StrictInv, Claims
      <4> QED
        BY <2>1, <3>2, <3>3, <4>1, <4>2 DEF Claims, fixed
    <3>5. ApartSoFar'
      BY <2>1, <2>2, <3>2, <3>3 DEF StrictInv, ApartSoFar, fixed
    <3> QED
      BY <1>1, <2>1, <3>4, <3>5 DEF StrictInv, Nothing, Unfailed, StrictMeansUnique,
         CollisionReportIsFirst, NoError
  <2>3. CASE ~Strict
    BY <1>5, <2>1, <2>3
  <2> QED
    BY <2>2, <2>3
<1>11. CASE Close
  <2>1. pc = "encode" /\ pc' = "done" /\ i > Len(plan) /\ UNCHANGED <<fixed, err>>
    BY <1>11 DEF Close
  <2>2. ASSUME Strict, NEW a, NEW b, NEW c, NEW d, IsWrite(a, b), IsWrite(c, d),
               Before(a, b, c, d)
        PROVE  writes[a][b] # writes[c][d]
    <3>1. Before(c, d, i, k)
      BY <1>1, <2>1, <2>2, WritePositions DEF Before, TypeOK
    <3> QED
      BY <2>2, <3>1 DEF StrictInv, ApartSoFar
  <2>3. ASSUME Strict, NEW a, NEW b, NEW c, NEW d, IsWrite(a, b), IsWrite(c, d),
               writes[a][b] = writes[c][d]
        PROVE  <<a, b>> = <<c, d>>
    <3>1. a \in Nat /\ b \in Nat /\ c \in Nat /\ d \in Nat
      BY <1>1, <2>3, WritePositions
    <3>2. Before(a, b, c, d) \/ Before(c, d, a, b) \/ (a = c /\ b = d)
      BY <3>1 DEF Before
    <3> QED
      BY <2>2, <2>3, <3>2
  <2>4. StrictMeansUnique'
    BY <2>1, <2>3 DEF StrictMeansUnique, Strict, IsWrite, fixed
  <2> QED
    BY <1>1, <2>1, <2>4 DEF StrictInv, Nothing, Unfailed, Claims, Strict,
       CollisionReportIsFirst, NoError
<1>12. CASE UNCHANGED vars
  BY <1>1, <1>12 DEF StrictInv, vars, fixed, analysis, written, Nothing, Unfailed, Claims,
     Strict, ApartSoFar, IsWrite, StrictMeansUnique, CollisionReportIsFirst
<1> QED
  BY <1>3, <1>4, <1>6, <1>7, <1>8, <1>9, <1>10, <1>11, <1>12 DEF Next

LEMMA StrictAlways == Spec => []StrictInv
BY StrictInit, StrictStep, PTL DEF Spec

(* ERROR_RUNTIME finishes only an encode in which no two writes share a    *)
(* key, among static entries and keys invented at run time alike           *)
(* (Keys.Claim).                                                           *)
THEOREM StrictUnique == Spec => []StrictMeansUnique
<1>1. StrictInv => StrictMeansUnique
  BY DEF StrictInv
<1> QED
  BY StrictAlways, <1>1, PTL

(* A KeyCollisionError names the first repetition of the encode, and its   *)
(* two sources in the order they wrote (Keys.Claim, KeyCollisionError).    *)
THEOREM CollisionFirst == Spec => []CollisionReportIsFirst
<1>1. StrictInv => CollisionReportIsFirst
  BY DEF StrictInv
<1> QED
  BY StrictAlways, <1>1, PTL

-----------------------------------------------------------------------------
(* Who wins                                                                *)

(* A buffer without a tracker takes every value it is given; whatever else *)
(* the analysis chose keeps the first.                                     *)
LastKept == needsBuffer /\ ~needsTracker

(* The value v is the one that counts among those written under a key      *)
(* before the q-th write of entry p.                                       *)
WonAt(v, key, p, q) ==
    /\ IsWrite(v[1], v[2]) /\ writes[v[1]][v[2]] = key /\ Before(v[1], v[2], p, q)
    /\ \A a, b : IsWrite(a, b) /\ writes[a][b] = key /\ Before(a, b, p, q) =>
          IF LastKept THEN ~Before(v[1], v[2], a, b) ELSE ~Before(a, b, v[1], v[2])

(* And among all there are.                                                *)
Won(v, key) ==
    /\ IsWrite(v[1], v[2]) /\ writes[v[1]][v[2]] = key
    /\ \A a, b : IsWrite(a, b) /\ writes[a][b] = key =>
          IF LastKept THEN ~Before(v[1], v[2], a, b) ELSE ~Before(a, b, v[1], v[2])

(* Each pair of a finished object is the first write of its key, or the    *)
(* last for a buffer without a tracker.                                    *)
WinnersDecided == pc = "done" => \A x \in DOMAIN out : Won(out[x].val, out[x].key)

SeenAll == pc = "encode" /\ needsTracker =>
               /\ \A a, b : IsWrite(a, b) /\ Before(a, b, i, k) => seen[writes[a][b]] # 0
               /\ \A key \in wrote : seen[key] # 0

Winning == pc = "encode" =>
               /\ \A x \in DOMAIN out : WonAt(out[x].val, out[x].key, i, k)
               /\ \A key \in Key : values[key] # NoValue => WonAt(values[key], key, i, k)

WinnersInv == DistinctInv /\ KeptInv /\ SeenAll /\ Winning /\ WinnersDecided

LEMMA WinnersInit == Init /\ Honest => WinnersInv
<1> SUFFICES ASSUME Init, Honest PROVE WinnersInv
  OBVIOUS
<1>1. pc = "analyse"
  BY DEF Init
<1> QED
  BY <1>1, DistinctInit, KeptInit DEF WinnersInv, SeenAll, Winning, WinnersDecided

(* What has been passed after a write are this write and those before it.  *)
LEMMA WonPassing ==
    ASSUME TypeOK, NEW v, NEW key, WonAt(v, key, i, k), key_ = key => ~LastKept,
           IsWrite(i, k)
    PROVE  WonAt(v, key, i, k + 1)
<1>1. IsWrite(v[1], v[2]) /\ writes[v[1]][v[2]] = key /\ Before(v[1], v[2], i, k)
  BY DEF WonAt
<1>2. Before(v[1], v[2], i, k + 1)
  BY <1>1, PassedByWrite
<1>3. ASSUME NEW a, NEW b, IsWrite(a, b), writes[a][b] = key, Before(a, b, i, k + 1)
      PROVE  IF LastKept THEN ~Before(v[1], v[2], a, b) ELSE ~Before(a, b, v[1], v[2])
  <2>1. CASE Before(a, b, i, k)
    BY <1>3, <2>1 DEF WonAt
  <2>2. CASE a = i /\ b = k
    <3>1. ~LastKept
      BY <1>3, <2>2 DEF key_
    <3>2. /\ v[1] \in Nat /\ v[2] \in Nat /\ i \in Nat /\ k \in Nat
      BY <1>1, <1>3, <2>2, WritePositions
    <3>3. ~Before(i, k, v[1], v[2])
      BY <1>1, <3>2 DEF Before
    <3> QED
      BY <2>2, <3>1, <3>3
  <2> QED
    BY <1>3, <2>1, <2>2, PassedByWrite
<1> QED
  BY <1>1, <1>2, <1>3 DEF WonAt

LEMMA WonNext ==
    ASSUME TypeOK, EntryDone, NEW v, NEW key, WonAt(v, key, i, k)
    PROVE  WonAt(v, key, i + 1, 1)
BY PassedByNext DEF WonAt

(* The value being written counts: as the first of its key, or in a buffer *)
(* that takes the last.                                                    *)
LEMMA WonWriting ==
    ASSUME TypeOK, IsWrite(i, k),
           LastKept \/ \A a, b : IsWrite(a, b) /\ Before(a, b, i, k) => writes[a][b] # key_
    PROVE  WonAt(<<i, k>>, key_, i, k + 1)
<1>1. i \in Nat /\ k \in Nat
  BY WritePositions
<1>2. Before(i, k, i, k + 1)
  BY <1>1 DEF Before
<1>3. ASSUME NEW a, NEW b, IsWrite(a, b), writes[a][b] = key_, Before(a, b, i, k + 1)
      PROVE  IF LastKept THEN ~Before(i, k, a, b) ELSE ~Before(a, b, i, k)
  <2>1. a \in Nat /\ b \in Nat
    BY <1>3, WritePositions
  <2>2. Before(a, b, i, k) \/ (a = i /\ b = k)
    BY <1>3, PassedByWrite
  <2>3. ~Before(i, k, a, b)
    BY <1>1, <2>1, <2>2 DEF Before
  <2>4. ~LastKept => ~Before(a, b, i, k)
    BY <1>3
  <2> QED
    BY <2>3, <2>4
<1> QED
  BY <1>2, <1>3 DEF WonAt, key_

(* A write that passes the flag and the tracker is the first of its key,   *)
(* unless the buffer takes the last.                                       *)
LEMMA FirstOfItsKey ==
    ASSUME WinnersInv, Writing, ~Blocked, ~Claimed, ~LastKept,
           NEW a, NEW b, IsWrite(a, b), Before(a, b, i, k)
    PROVE  writes[a][b] # key_
<1>1. pc = "encode" /\ TypeOK
  BY DEF Writing, WinnersInv, DistinctInv
<1>2. CASE needsTracker
  BY <1>1, <1>2 DEF WinnersInv, SeenAll, Claimed
<1>3. CASE ~needsBuffer
  <2>1. writes[a][b] \in Present
    BY <1>1 DEF WinnersInv, KeptInv, Kept, IsWrite
  <2>2. PICK x \in DOMAIN out : out[x].key = writes[a][b]
    BY <1>3, <2>1 DEF Present
  <2> QED
    BY <1>3, <2>2, KeyIsNew DEF WinnersInv
<1> QED
  BY <1>2, <1>3 DEF LastKept

(* A buffer that takes the last value is never told to skip a write.       *)
LEMMA LastSkipsNothing ==
    ASSUME WinnersInv, Writing, LastKept
    PROVE  ~Blocked /\ ~Claimed
BY DEF WinnersInv, DistinctInv, Analysed, Writing, LastKept, NeedsBuffer, Guarded, Blocked, Claimed

(* A step on in the encode that keeps what was won, but for the write made.*)
LEMMA WinnersOn ==
    ASSUME WinnersInv, (DistinctInv /\ KeptInv)', pc = "encode", pc' = "encode",
           UNCHANGED <<fixed, analysis>>,
           SeenAll',
           \A x \in DOMAIN out' : WonAt(out'[x].val, out'[x].key, i', k'),
           \A key \in Key : values'[key] # NoValue => WonAt(values'[key], key, i', k')
    PROVE  WinnersInv'
<1>1. LastKept' = LastKept /\ \A a, b : IsWrite(a, b)' = IsWrite(a, b)
  BY DEF LastKept, IsWrite, fixed, analysis
<1>2. ASSUME NEW v, NEW key, NEW p, NEW q
      PROVE  WonAt(v, key, p, q)' = WonAt(v, key, p, q)
  BY <1>1 DEF WonAt, fixed
<1>3. Winning'
  <2> SUFFICES /\ \A x \in DOMAIN out' : WonAt(out[x].val, out[x].key, i, k)'
               /\ \A key \in Key : values'[key] # NoValue => WonAt(values[key], key, i, k)'
    BY DEF Winning
  <2>1. ASSUME NEW x \in DOMAIN out' PROVE WonAt(out[x].val, out[x].key, i, k)'
    BY <1>1 DEF WonAt, fixed
  <2>2. ASSUME NEW key \in Key, values'[key] # NoValue PROVE WonAt(values[key], key, i, k)'
    BY <1>1, <2>2 DEF WonAt, fixed
  <2> QED
    BY <2>1, <2>2
<1> QED
  BY <1>3 DEF WinnersInv, WinnersDecided

LEMMA WinnersStep == WinnersInv /\ [Next]_vars => WinnersInv'
<1> SUFFICES ASSUME WinnersInv, [Next]_vars PROVE WinnersInv'
  OBVIOUS
<1>1. DistinctInv /\ KeptInv /\ DistinctInv' /\ KeptInv' /\ TypeOK /\ TypeOK'
  BY DistinctStep, KeptStep DEF WinnersInv, DistinctInv
<1>2. ASSUME pc' \in {"rejected", "failed"} PROVE WinnersInv'
  BY <1>1, <1>2 DEF WinnersInv, SeenAll, Winning, WinnersDecided
<1>3. CASE Accept
  <2>1. /\ pc = "analyse" /\ pc' = "encode"
        /\ UNCHANGED <<fixed, i, k, wrote, seen, values, out>>
    BY <1>3 DEF Accept, written
  <2>2. /\ i' = 1 /\ k' = 1 /\ wrote' = {} /\ out' = <<>>
        /\ \A key \in Key : values'[key] = NoValue
    BY <1>1, <2>1 DEF KeptInv, Unused, DistinctInv, Fresh
  <2>3. ASSUME NEW a, NEW b, IsWrite(a, b)' PROVE ~Before(a, b, i', k')
    <3>1. IsWrite(a, b)
      BY <2>1, <2>3 DEF IsWrite, fixed
    <3>2. a \in Nat /\ b \in Nat /\ a >= 1 /\ b >= 1
      BY <1>1, <3>1, WritePositions
    <3> QED
      BY <2>2, <3>2 DEF Before
  <2>4. SeenAll'
    BY <2>2, <2>3 DEF SeenAll
  <2>5. Winning' /\ WinnersDecided'
    BY <2>1, <2>2 DEF Winning, WinnersDecided
  <2> QED
    BY <1>1, <2>4, <2>5 DEF WinnersInv
<1>4. ASSUME Writing, k' = k + 1, UNCHANGED <<fixed, analysis, pc, i>>
      PROVE  /\ pc = "encode" /\ pc' = "encode" /\ IsWrite(i, k) /\ i' = i
             /\ \A a, b : IsWrite(a, b)' = IsWrite(a, b)
             /\ \A a, b : IsWrite(a, b) => (Before(a, b, i', k') <=> Before(a, b, i, k)
                                                                 \/ (a = i /\ b = k))
             /\ key_ \in Key /\ i # 0
  BY <1>1, <1>4, PassedByWrite, WritingFacts DEF Writing, IsWrite, fixed
<1>5. CASE SkipGuarded \/ ClaimRefused
  <2>1. /\ Writing /\ (Blocked \/ Claimed) /\ k' = k + 1
        /\ UNCHANGED <<fixed, pc, analysis, i, wrote, seen, values, out>>
    BY <1>5 DEF SkipGuarded, ClaimRefused, written
  <2>2. ~LastKept
    BY <2>1, LastSkipsNothing
  <2>3. needsTracker => seen[key_] # 0
    BY <2>1 DEF Blocked, Claimed, WinnersInv, SeenAll, Writing
  <2>4. SeenAll'
    <3>1. SUFFICES ASSUME needsTracker
                   PROVE  /\ \A a, b : IsWrite(a, b)' /\ Before(a, b, i', k') => seen[writes[a][b]] # 0
                          /\ \A key \in wrote : seen[key] # 0
      BY <2>1 DEF SeenAll, fixed, analysis
    <3> QED
      BY <1>4, <2>1, <2>3, <3>1 DEF WinnersInv, SeenAll, key_
  <2>5. ASSUME NEW v, NEW key, WonAt(v, key, i, k) PROVE WonAt(v, key, i', k')
    BY <1>1, <1>4, <2>1, <2>2, <2>5, WonPassing
  <2> QED
    BY <1>1, <1>4, <2>1, <2>4, <2>5, WinnersOn DEF WinnersInv, Winning
<1>6. ASSUME Writing, Register, Flag, k' = k + 1, UNCHANGED <<fixed, analysis, pc, i>>
      PROVE  SeenAll'
  <2>1. SUFFICES ASSUME needsTracker
                 PROVE  /\ \A a, b : IsWrite(a, b)' /\ Before(a, b, i', k') => seen'[writes[a][b]] # 0
                        /\ \A key \in wrote' : seen'[key] # 0
    BY <1>6 DEF SeenAll, fixed, analysis
  <2>2. /\ \A a, b : IsWrite(a, b) /\ Before(a, b, i, k) => seen[writes[a][b]] # 0
        /\ \A key \in wrote : seen[key] # 0
    BY <1>4, <1>6, <2>1 DEF WinnersInv, SeenAll
  <2>3. \A key \in Key : seen'[key] = IF key = key_ THEN i ELSE seen[key]
    BY <1>1, <1>6, <2>1 DEF Register, TypeOK
  <2>4. \A a, b : IsWrite(a, b) => writes[a][b] \in Key
    BY <1>1, WritePositions
  <2>5. ASSUME NEW a, NEW b, IsWrite(a, b)', Before(a, b, i', k')
        PROVE  seen'[writes[a][b]] # 0
    <3>1. IsWrite(a, b) /\ (Before(a, b, i, k) \/ (a = i /\ b = k))
      BY <1>4, <1>6, <2>5
    <3> QED
      BY <1>4, <1>6, <2>2, <2>3, <2>4, <3>1 DEF key_
  <2>6. wrote' \subseteq wrote \cup {key_} /\ wrote \subseteq Key
    BY <1>1, <1>6 DEF Flag, TypeOK
  <2> QED
    BY <1>4, <1>6, <2>2, <2>3, <2>5, <2>6
<1>7. CASE WriteField
  <2> DEFINE pair == [key |-> key_, val |-> <<i, k>>]
  <2>1. /\ Writing /\ ~Blocked /\ ~Claimed /\ Register /\ Flag /\ ~needsBuffer
        /\ out' = Append(out, pair) /\ k' = k + 1
        /\ UNCHANGED <<fixed, analysis, pc, i, values>>
    BY <1>7 DEF WriteField
  <2>2. ~LastKept
    BY <2>1 DEF LastKept
  <2>3. WonAt(pair.val, pair.key, i', k')
    BY <1>1, <1>4, <2>1, <2>2, FirstOfItsKey, WonWriting
  <2>4. ASSUME NEW v, NEW key, WonAt(v, key, i, k) PROVE WonAt(v, key, i', k')
    BY <1>1, <1>4, <2>1, <2>2, <2>4, WonPassing
  <2>5. out \in Seq(Pair)
    BY <1>1 DEF TypeOK
  <2>6. \A x \in DOMAIN out' : WonAt(out'[x].val, out'[x].key, i', k')
    <3>1. /\ DOMAIN out' = DOMAIN out \cup {Len(out) + 1}
          /\ \A x \in DOMAIN out : out'[x] = out[x]
          /\ out'[Len(out) + 1] = pair
      BY <2>1, <2>5
    <3>2. \A x \in DOMAIN out : WonAt(out[x].val, out[x].key, i', k')
      BY <1>4, <2>1, <2>4 DEF WinnersInv, Winning
    <3> QED
      BY <2>3, <3>1, <3>2
  <2>7. \A key \in Key : values'[key] # NoValue => WonAt(values'[key], key, i', k')
    BY <1>4, <2>1, <2>4 DEF WinnersInv, Winning
  <2> QED
    BY <1>1, <1>4, <1>6, <2>1, <2>6, <2>7, WinnersOn
<1>8. CASE SetField
  <2>1. /\ Writing /\ ~Blocked /\ ~Claimed /\ Register /\ Flag /\ needsBuffer
        /\ values' = [values EXCEPT ![key_] = <<i, k>>] /\ k' = k + 1
        /\ UNCHANGED <<fixed, analysis, pc, i, out>>
    BY <1>8 DEF SetField
  <2>2. \A key \in Key : values'[key] = IF key = key_ THEN <<i, k>> ELSE values[key]
    BY <1>1, <2>1 DEF TypeOK
  <2>3. WonAt(<<i, k>>, key_, i', k')
    BY <1>1, <1>4, <2>1, FirstOfItsKey, WonWriting
  <2>4. ASSUME NEW key \in Key, values'[key] # NoValue
        PROVE  WonAt(values'[key], key, i', k')
    <3>1. CASE key = key_
      BY <2>2, <2>3, <3>1
    <3>2. CASE key # key_
      <4>1. values'[key] = values[key] /\ WonAt(values[key], key, i, k)
        BY <1>4, <2>1, <2>2, <2>4, <3>2 DEF WinnersInv, Winning
      <4>2. WonAt(values[key], key, i, k + 1)
        BY <1>1, <1>4, <2>1, <3>2, <4>1, WonPassing
      <4> QED
        BY <1>4, <2>1, <4>1, <4>2
    <3> QED
      BY <3>1, <3>2
  <2>5. \A x \in DOMAIN out' : WonAt(out'[x].val, out'[x].key, i', k')
    <3>1. out' = <<>>
      BY <1>1, <1>4, <2>1 DEF DistinctInv, Fresh
    <3> QED
      BY <3>1
  <2> QED
    BY <1>1, <1>4, <1>6, <2>1, <2>4, <2>5, WinnersOn
<1>9. CASE NextEntry
  <2>1. /\ pc = "encode" /\ pc' = "encode" /\ EntryDone /\ i' = i + 1 /\ k' = 1
        /\ UNCHANGED <<fixed, analysis, wrote, seen, values, out>>
    BY <1>9 DEF NextEntry, written
  <2>2. ASSUME NEW v, NEW key, WonAt(v, key, i, k) PROVE WonAt(v, key, i', k')
    BY <1>1, <2>1, <2>2, WonNext
  <2>3. \A a, b : IsWrite(a, b) => (Before(a, b, i', k') <=> Before(a, b, i, k))
    BY <1>1, <2>1, PassedByNext
  <2>4. SeenAll'
    BY <2>1, <2>3 DEF WinnersInv, SeenAll, IsWrite, fixed, analysis
  <2> QED
    BY <1>1, <2>1, <2>2, <2>4, WinnersOn DEF WinnersInv, Winning
<1>10. CASE Close
  <2>1. /\ pc = "encode" /\ pc' = "done" /\ i > Len(plan)
        /\ UNCHANGED <<fixed, analysis, order, values>>
        /\ out' = IF needsBuffer THEN Pairs ELSE out
    BY <1>10 DEF Close
  <2>2. \A a, b : IsWrite(a, b) => Before(a, b, i, k)
    <3>1. i \in Nat
      BY <1>1 DEF TypeOK
    <3> QED
      BY <1>1, <2>1, <3>1, WritePositions DEF Before
  <2>3. \A v, key : WonAt(v, key, i, k) => Won(v, key)
    BY <2>2 DEF WonAt, Won
  <2>4. ASSUME NEW x \in DOMAIN out' PROVE Won(out'[x].val, out'[x].key)
    <3>1. CASE ~needsBuffer
      BY <2>1, <2>3, <2>4, <3>1 DEF WinnersInv, Winning
    <3>2. CASE needsBuffer
      <4>1. x \in DOMAIN order /\ out'[x].val = values[order[x]] /\ out'[x].key = order[x]
        BY <2>1, <2>4, <3>2 DEF Pairs
      <4>2. order[x] \in Key /\ values[order[x]] # NoValue
        BY <1>1, <4>1 DEF TypeOK, DistinctInv, OrderSound
      <4> QED
        BY <2>1, <2>3, <4>1, <4>2 DEF WinnersInv, Winning
    <3> QED
      BY <3>1, <3>2
  <2>5. WinnersDecided'
    <3>1. ASSUME NEW x \in DOMAIN out' PROVE Won(out[x].val, out[x].key)'
      <4>1. Won(out'[x].val, out'[x].key)
        BY <2>4
      <4> QED
        BY <2>1, <4>1 DEF Won, IsWrite, LastKept, fixed, analysis
    <3> QED
      BY <3>1 DEF WinnersDecided
  <2> QED
    BY <1>1, <2>1, <2>5 DEF WinnersInv, SeenAll, Winning
<1>11. CASE UNCHANGED vars
  BY <1>1, <1>11 DEF vars, fixed, analysis, written, WinnersInv, SeenAll, Winning, WinnersDecided,
     WonAt, Won, IsWrite, LastKept
<1> QED
  BY <1>2, <1>3, <1>5, <1>7, <1>8, <1>9, <1>10, <1>11
     DEF Next, Reject, ClaimFails, ValueFails, ElementFails

(* When the promises are kept, each pair of a finished object is the first *)
(* write of its key of all there were, or the last if a buffer takes them  *)
(* and no tracker refuses any (collision_wins, writer.write).              *)
THEOREM WinnersAsAsked == Spec => [](Honest => WinnersDecided)
<1>1. Init => (Honest => WinnersInv)
  BY WinnersInit
<1>2. (Honest => WinnersInv) /\ [Next]_vars => (Honest => WinnersInv)'
  <2> SUFFICES ASSUME Honest => WinnersInv, [Next]_vars, Honest' PROVE WinnersInv'
    OBVIOUS
  <2>1. Honest
    BY FixedKept DEF fixed, Honest
  <2> QED
    BY <2>1, WinnersStep
<1>3. (Honest => WinnersInv) => (Honest => WinnersDecided)
  BY DEF WinnersInv
<1> QED
  BY <1>1, <1>2, <1>3, PTL DEF Spec

-----------------------------------------------------------------------------
(* The machinery implements the collision policy: ObjectWriter refines     *)
(* FlatObject when the promises of exclusivity are kept and no dynamic     *)
(* entry meets COLLISION_WINS_LAST.                                        *)

(* What the simulation needs beyond DistinctInv: the flags, the tracker    *)
(* and the buffered values know of no key that was not written.            *)

Running == pc \in {"analyse", "encode"}

WroteSound == Running => \A key \in wrote : \E x \in DOMAIN out : out[x].key = key
SeenSound  == Running => \A key \in Key : seen[key] # 0 =>
                             \E x \in DOMAIN out : out[x].key = key
OrderComplete == \A key \in Key : values[key] # NoValue =>
                     \E x \in DOMAIN order : order[x] = key
Unstarted == pc = "analyse" => order = <<>> /\ ~needsBuffer

SimulationInv == /\ DistinctInv /\ LastUntracked
                 /\ WroteSound /\ SeenSound /\ OrderComplete /\ Unstarted

(* With the promises kept, the conflicts analyse finds are the clashes of  *)
(* static entries that can both write.                                     *)
LEMMA ConflictsAreClashes ==
    ASSUME plan \in Seq(Entry), Honest
    PROVE  Conflicts(plan) # {} <=> StaticClash(plan)
<1>1. ASSUME Conflicts(plan) # {} PROVE StaticClash(plan)
  <2>1. PICK ab \in Conflicts(plan) : TRUE
    BY <1>1
  <2>2. /\ ab[1] \in DOMAIN plan /\ ab[2] \in DOMAIN plan /\ ab[1] < ab[2]
        /\ ~Dynamic(plan[ab[1]]) /\ ~Dynamic(plan[ab[2]])
        /\ plan[ab[1]].key = plan[ab[2]].key
        /\ ~ExclusiveOf(plan[ab[1]], plan[ab[2]])
    BY <2>1 DEF Conflicts
  <2>3. CanBothWrite(plan[ab[1]], plan[ab[2]])
    BY <2>2 DEF CanBothWrite, SameGroup, ExclusiveOf
  <2> QED
    BY <2>2, <2>3 DEF StaticClash
<1>2. ASSUME StaticClash(plan) PROVE Conflicts(plan) # {}
  <2>1. PICK a, b \in DOMAIN plan : /\ a < b
                                    /\ ~Dynamic(plan[a]) /\ ~Dynamic(plan[b])
                                    /\ plan[a].key = plan[b].key
                                    /\ CanBothWrite(plan[a], plan[b])
    BY <1>2 DEF StaticClash
  <2>2. ~ExclusiveOf(plan[a], plan[b])
    <3>1. SUFFICES ASSUME ExclusiveOf(plan[a], plan[b]) PROVE FALSE
      OBVIOUS
    <3>2. SameGroup(plan[a], plan[b]) /\ plan[a].branch = plan[b].branch
      BY <2>1, <3>1 DEF CanBothWrite, SameGroup, ExclusiveOf
    <3> QED
      BY <2>1, <3>2 DEF Honest, BranchKeysDistinct
  <2>3. <<a, b>> \in Conflicts(plan)
    BY <2>1, <2>2 DEF Conflicts
  <2> QED
    BY <2>3
<1> QED
  BY <1>1, <1>2

LEMMA SimulationInit == Init /\ Honest /\ LastUntracked => SimulationInv
<1> SUFFICES ASSUME Init, Honest, LastUntracked PROVE SimulationInv
  OBVIOUS
<1>1. wrote = {} /\ seen = [key \in Key |-> 0] /\ values = [key \in Key |-> NoValue]
      /\ order = <<>> /\ needsBuffer = FALSE
  BY DEF Init
<1> QED
  BY <1>1, DistinctInit DEF SimulationInv, WroteSound, SeenSound, OrderComplete, Unstarted

(* A buffered encode has no tracker and no flag.                           *)
LEMMA BufferAlone ==
    ASSUME SimulationInv, pc = "encode"
    PROVE  /\ needsBuffer => ~needsTracker /\ guarded = {}
           /\ needsBuffer => policy = "IGNORE" /\ wins = "LAST"
           /\ needsTracker /\ policy # "ERROR_RUNTIME" => wins = "FIRST"
           /\ guarded # {} => policy = "IGNORE" /\ wins = "FIRST"
<1>1. /\ needsTracker = NeedsTracker(plan, policy)
      /\ needsBuffer = NeedsBuffer(plan, policy, wins)
      /\ guarded = Guarded(plan, policy, wins)
  BY DEF SimulationInv, DistinctInv, Analysed
<1>2. wins \in {"FIRST", "LAST"}
  BY DEF SimulationInv, DistinctInv, TypeOK, Wins
<1>3. needsBuffer => policy = "IGNORE" /\ wins = "LAST"
  BY <1>1 DEF NeedsBuffer
<1>4. needsTracker /\ policy # "ERROR_RUNTIME" => wins = "FIRST"
  BY <1>1, <1>2 DEF NeedsTracker, SimulationInv, LastUntracked
<1>5. guarded # {} => policy = "IGNORE" /\ wins = "FIRST"
  BY <1>1 DEF Guarded
<1> QED
  BY <1>3, <1>4, <1>5

LEMMA SimulationStep == SimulationInv /\ [Next]_vars => SimulationInv'
<1> SUFFICES ASSUME SimulationInv, [Next]_vars PROVE SimulationInv'
  OBVIOUS
<1>1. DistinctInv /\ DistinctInv' /\ TypeOK
  BY DistinctStep DEF SimulationInv, DistinctInv
<1>2. LastUntracked'
  <2>1. UNCHANGED fixed
    BY DEF Next, Reject, Accept, SkipGuarded, ClaimRefused, ClaimFails, WriteField,
       SetField, ValueFails, ElementFails, NextEntry, Close, vars
  <2> QED
    BY <2>1 DEF fixed, SimulationInv, LastUntracked
<1>3. ASSUME UNCHANGED <<order, values>>, pc' # "analyse", pc' # "encode"
      PROVE  SimulationInv'
  BY <1>1, <1>2, <1>3 DEF SimulationInv, WroteSound, SeenSound, OrderComplete,
     Unstarted, Running
<1>4. ASSUME UNCHANGED written, pc' = "encode", Running
      PROVE  SimulationInv'
  BY <1>1, <1>2, <1>4 DEF SimulationInv, WroteSound, SeenSound, OrderComplete,
     Unstarted, Running, written
<1>5. CASE Reject
  BY <1>3, <1>5 DEF Reject, written
<1>6. CASE Accept
  BY <1>4, <1>6 DEF Accept, Running
<1>7. CASE SkipGuarded
  BY <1>4, <1>7 DEF SkipGuarded, Writing, Running
<1>8. CASE ClaimRefused
  BY <1>4, <1>8 DEF ClaimRefused, Writing, Running
<1>9. CASE ClaimFails
  BY <1>3, <1>9 DEF ClaimFails, written
<1>10. CASE WriteField
  <2> DEFINE pair == [key |-> key_, val |-> <<i, k>>]
  <2>1. /\ pc = "encode" /\ pc' = "encode" /\ Writing /\ Register /\ Flag
        /\ out' = Append(out, pair) /\ UNCHANGED <<order, values>>
    BY <1>10 DEF WriteField, Writing
  <2>2. key_ \in Key /\ i \in Nat /\ k \in Nat
    BY <1>1, <2>1, WritingFacts
  <2>3. out \in Seq(Pair) /\ pair \in Pair
    BY <1>1, <2>2 DEF TypeOK, Pair
  <2>4. /\ \A x \in DOMAIN out : x \in DOMAIN out' /\ out'[x] = out[x]
        /\ Len(out) + 1 \in DOMAIN out' /\ out'[Len(out) + 1].key = key_
    BY <2>1, <2>3
  <2>5. WroteSound'
    <3>1. ASSUME NEW key \in wrote'
          PROVE  \E x \in DOMAIN out' : out'[x].key = key
      <4>1. key \in wrote \/ key = key_
        BY <2>1 DEF Flag
      <4> QED
        BY <2>1, <2>4, <4>1 DEF SimulationInv, WroteSound, Running
    <3> QED
      BY <3>1 DEF WroteSound
  <2>6. SeenSound'
    <3>1. ASSUME NEW key \in Key, seen'[key] # 0
          PROVE  \E x \in DOMAIN out' : out'[x].key = key
      <4>1. seen[key] # 0 \/ key = key_
        BY <1>1, <2>1, <3>1 DEF Register, TypeOK
      <4> QED
        BY <2>1, <2>4, <4>1 DEF SimulationInv, SeenSound, Running
    <3> QED
      BY <3>1 DEF SeenSound
  <2> QED
    BY <1>1, <1>2, <2>1, <2>5, <2>6 DEF SimulationInv, OrderComplete, Unstarted
<1>11. CASE SetField
  <2>1. /\ pc = "encode" /\ pc' = "encode" /\ Writing /\ Register /\ Flag /\ needsBuffer
        /\ order' = OrderAfterSet /\ values' = [values EXCEPT ![key_] = <<i, k>>]
        /\ UNCHANGED out
    BY <1>11 DEF SetField, Writing
  <2>2. ~needsTracker /\ guarded = {}
    BY <2>1, BufferAlone
  <2>3. UNCHANGED <<seen, wrote>>
    BY <2>1, <2>2 DEF Register, Flag
  <2>4. WroteSound' /\ SeenSound'
    BY <2>1, <2>3 DEF SimulationInv, WroteSound, SeenSound, Running
  <2>5. key_ \in Key /\ order \in Seq(Key) /\ values \in [Key -> Nat \X Nat]
    BY <1>1, <2>1, WritingFacts DEF TypeOK
  <2>6. /\ \A x \in DOMAIN order : x \in DOMAIN order' /\ order'[x] = order[x]
        /\ \E x \in DOMAIN order' : order'[x] = key_
    <3>1. CASE values[key_] = NoValue
      <4>1. order' = Append(order, key_)
        BY <2>1, <3>1 DEF OrderAfterSet
      <4>2. /\ \A x \in DOMAIN order : x \in DOMAIN order' /\ order'[x] = order[x]
            /\ Len(order) + 1 \in DOMAIN order' /\ order'[Len(order) + 1] = key_
        BY <2>5, <4>1
      <4> QED
        BY <4>2
    <3>2. CASE values[key_] # NoValue
      BY <2>1, <2>5, <3>2 DEF OrderAfterSet, SimulationInv, OrderComplete
    <3> QED
      BY <3>1, <3>2
  <2>7. OrderComplete'
    <3>1. ASSUME NEW key \in Key, values'[key] # NoValue
          PROVE  \E x \in DOMAIN order' : order'[x] = key
      <4>1. values[key] # NoValue \/ key = key_
        BY <2>1, <2>5, <3>1
      <4> QED
        BY <2>6, <4>1 DEF SimulationInv, OrderComplete
    <3> QED
      BY <3>1 DEF OrderComplete
  <2> QED
    BY <1>1, <1>2, <2>1, <2>4, <2>7 DEF SimulationInv, Unstarted
<1>12. CASE ValueFails
  BY <1>3, <1>12 DEF ValueFails
<1>13. CASE ElementFails
  BY <1>3, <1>13 DEF ElementFails, written
<1>14. CASE NextEntry
  BY <1>4, <1>14 DEF NextEntry, Running
<1>15. CASE Close
  BY <1>3, <1>15 DEF Close
<1>16. CASE UNCHANGED vars
  BY <1>1, <1>2, <1>16 DEF vars, analysis, written, SimulationInv, WroteSound, SeenSound,
     OrderComplete, Unstarted, Running
<1> QED
  BY <1>5, <1>6, <1>7, <1>8, <1>9, <1>10, <1>11, <1>12, <1>13, <1>14, <1>15, <1>16
     DEF Next

-----------------------------------------------------------------------------
(* The refinement                                                          *)

(* The definitions of PlanEntries mean the same on both sides.             *)
LEMMA SharedDefinitions ==
    /\ Policies = Promised!Policies /\ Wins = Promised!Wins
    /\ \A p : Messages(p) = Promised!Messages(p)
    /\ \A p : StaticClash(p) <=> Promised!StaticClash(p)
<1>1. \A e : Runs(e) = Promised!Runs(e)
  BY DEF Runs, Promised!Runs
<1>2. \A p : Messages(p) = Promised!Messages(p)
  BY <1>1, Zenon DEF Messages, Promised!Messages
<1>3. \A p : StaticClash(p) <=> Promised!StaticClash(p)
  BY DEF StaticClash, CanBothWrite, SameGroup, Dynamic, Promised!StaticClash,
     Promised!CanBothWrite, Promised!SameGroup, Promised!Dynamic
<1> QED
  BY <1>2, <1>3 DEF Policies, Promised!Policies, Wins, Promised!Wins

LEMMA MappedInit == Init => Promised!Init
<1> SUFFICES ASSUME Init PROVE Promised!Init
  OBVIOUS
<1>1. pc = "analyse" /\ needsBuffer = FALSE /\ out = <<>>
  BY DEF Init
<1>2. Phase = "plan" /\ Object = <<>>
  BY <1>1 DEF Phase, Object
<1> QED
  BY <1>2, SharedDefinitions DEF Init, Promised!Init

(* The object a refusing, failing or idle step leaves alone.               *)
LEMMA ObjectKept ==
    ASSUME UNCHANGED <<needsBuffer, order, values, out>>
    PROVE  UNCHANGED Object
BY DEF Object, Pairs

(* A key known to the flags or to the tracker is in the object.            *)
LEMMA KnownIsTaken ==
    ASSUME SimulationInv, Writing, Blocked \/ Claimed
    PROVE  /\ ~needsBuffer
           /\ Promised!Taken(key_)
<1>1. pc = "encode" /\ Running
  BY DEF Writing, Running
<1>2. ~needsBuffer
  BY <1>1, BufferAlone DEF Blocked, Claimed
<1>3. key_ \in Key
  BY WritingFacts DEF SimulationInv, DistinctInv
<1>4. \E x \in DOMAIN out : out[x].key = key_
  BY <1>1, <1>3 DEF SimulationInv, WroteSound, SeenSound, Blocked, Claimed
<1> QED
  BY <1>2, <1>4 DEF Promised!Taken, Object

LEMMA MappedStep ==
    ASSUME SimulationInv, SimulationInv', [Next]_vars
    PROVE  [Promised!Next]_(Promised!vars)
<1>1. TypeOK /\ TypeOK' /\ DistinctInv
  BY DEF SimulationInv, DistinctInv
<1>2. ASSUME Writing
      PROVE  Promised!Offering /\ Promised!Pair = [key |-> key_, val |-> <<i, k>>]
  BY <1>2 DEF Writing, Phase, Promised!Offering, Promised!Pair, key_
<1>3. CASE Reject
  <2>1. plan \in Seq(Entry)
    BY <1>1 DEF TypeOK
  <2>2. StaticClash(plan)
    BY <1>3, <2>1, ConflictsAreClashes DEF Reject, SimulationInv, DistinctInv
  <2>3. UNCHANGED Object
    BY <1>3, ObjectKept DEF Reject, analysis, written
  <2>4. Promised!Reject
    BY <1>3, <2>2, <2>3, SharedDefinitions DEF Reject, Promised!Reject, Phase, fixed, Promised!fixed
  <2> QED
    BY <2>4 DEF Promised!Next
<1>4. CASE Accept
  <2>1. plan \in Seq(Entry)
    BY <1>1 DEF TypeOK
  <2>2. policy = "ERROR_GENERATE" => ~StaticClash(plan)
    BY <1>4, <2>1, ConflictsAreClashes DEF Accept, SimulationInv, DistinctInv
  <2>3. out = <<>> /\ out' = <<>> /\ order' = <<>> /\ ~needsBuffer
    BY <1>4 DEF Accept, written, SimulationInv, DistinctInv, Fresh, Unstarted
  <2>4. UNCHANGED Object
    BY <2>3 DEF Object, Pairs
  <2>5. Promised!Accept
    BY <1>4, <2>2, <2>4, SharedDefinitions DEF Accept, Promised!Accept, Phase, fixed, Promised!fixed
  <2> QED
    BY <2>5 DEF Promised!Next
<1>5. CASE SkipGuarded
  <2>1. Promised!Taken(key_) /\ policy # "ERROR_RUNTIME" /\ wins = "FIRST"
    BY <1>5, KnownIsTaken, BufferAlone DEF SkipGuarded, Writing, Blocked
  <2>2. UNCHANGED Object
    BY <1>5, ObjectKept DEF SkipGuarded, analysis, written
  <2>3. Promised!Drop
    BY <1>2, <1>5, <2>1, <2>2 DEF SkipGuarded, Promised!Drop, Phase, fixed, Promised!fixed
  <2> QED
    BY <2>3 DEF Promised!Next
<1>6. CASE ClaimRefused
  <2>1. Promised!Taken(key_) /\ policy # "ERROR_RUNTIME" /\ wins = "FIRST"
    BY <1>6, KnownIsTaken, BufferAlone DEF ClaimRefused, Writing, Claimed
  <2>2. UNCHANGED Object
    BY <1>6, ObjectKept DEF ClaimRefused, analysis, written
  <2>3. Promised!Drop
    BY <1>2, <1>6, <2>1, <2>2 DEF ClaimRefused, Promised!Drop, Phase, fixed, Promised!fixed
  <2> QED
    BY <2>3 DEF Promised!Next
<1>7. CASE ClaimFails
  <2>1. Promised!Taken(key_)
    BY <1>7, KnownIsTaken DEF ClaimFails
  <2>2. UNCHANGED Object
    BY <1>7, ObjectKept DEF ClaimFails, analysis, written
  <2>3. Promised!Collide
    BY <1>2, <1>7, <2>1, <2>2 DEF ClaimFails, Promised!Collide, Phase, fixed, Promised!fixed
  <2> QED
    BY <2>3 DEF Promised!Next
<1>8. CASE WriteField
  <2>1. Writing /\ ~Blocked /\ ~Claimed /\ ~needsBuffer /\ ~needsBuffer'
    BY <1>8 DEF WriteField, analysis
  <2>2. Object = out /\ Object' = out'
    BY <2>1 DEF Object
  <2>3. ~Promised!Taken(key_)
    BY <1>1, <2>1, <2>2, KeyIsNew DEF Promised!Taken
  <2>4. Promised!Add
    BY <1>2, <1>8, <2>1, <2>2, <2>3 DEF WriteField, Promised!Add, Phase, fixed, Promised!fixed
  <2> QED
    BY <2>4 DEF Promised!Next
<1>9. CASE SetField
  <2> DEFINE pair == [key |-> key_, val |-> <<i, k>>]
  <2>1. /\ Writing /\ needsBuffer /\ needsBuffer' /\ pc = "encode"
        /\ order' = OrderAfterSet /\ values' = [values EXCEPT ![key_] = <<i, k>>]
    BY <1>9 DEF SetField, analysis, Writing
  <2>2. Object = Pairs /\ Object' = Pairs'
    BY <2>1 DEF Object
  <2>3. policy # "ERROR_RUNTIME" /\ wins = "LAST"
    BY <2>1, BufferAlone
  <2>4. /\ order \in Seq(Key) /\ values \in [Key -> Nat \X Nat] /\ key_ \in Key
        /\ i \in Nat /\ k \in Nat
    BY <1>1, <2>1, WritingFacts DEF TypeOK
  <2>5. /\ DOMAIN Pairs = DOMAIN order
        /\ \A x \in DOMAIN order : Pairs[x] = [key |-> order[x], val |-> values[order[x]]]
        /\ DOMAIN Pairs' = DOMAIN order'
        /\ \A x \in DOMAIN order' : Pairs'[x] = [key |-> order'[x], val |-> values'[order'[x]]]
    BY DEF Pairs
  <2>6. /\ Promised!Taken(key_) <=> \E x \in DOMAIN order : order[x] = key_
    BY <2>2, <2>5 DEF Promised!Taken
  <2>7. CASE values[key_] = NoValue
    <3>1. order' = Append(order, key_)
      BY <2>1, <2>7 DEF OrderAfterSet
    <3>2. \A x \in DOMAIN order : order[x] # key_
      BY <2>7 DEF SimulationInv, DistinctInv, OrderSound
    <3>3. Pairs' = Append(Pairs, pair)
      <4>1. Pairs \in Seq(Pair) /\ pair \in Pair /\ Len(Pairs) = Len(order)
        <5>1. \A x \in DOMAIN order : order[x] \in Key /\ values[order[x]] \in Nat \X Nat
          BY <2>4
        <5>2. DOMAIN order = 1..Len(order) /\ Len(order) \in Nat
          BY <2>4
        <5>3. Pairs \in [1..Len(order) -> Pair]
          BY <5>1, <5>2 DEF Pairs, Pair
        <5>4. Pairs \in Seq(Pair)
          BY <5>2, <5>3, SeqDef
        <5> QED
          BY <2>4, <5>2, <5>3, <5>4 DEF Pair
      <4>2. /\ Append(Pairs, pair) \in Seq(Pair)
            /\ Len(Append(Pairs, pair)) = Len(order) + 1
            /\ \A x \in 1..Len(order) : Append(Pairs, pair)[x] = Pairs[x]
            /\ Append(Pairs, pair)[Len(order) + 1] = pair
        BY <4>1
      <4>3. /\ order' \in Seq(Key) /\ Len(order') = Len(order) + 1
            /\ \A x \in 1..Len(order) : order'[x] = order[x]
            /\ order'[Len(order) + 1] = key_
            /\ Len(order) \in Nat
        BY <2>4, <3>1
      <4>4. ASSUME NEW x \in 1..Len(order)
            PROVE  Pairs'[x] = Pairs[x]
        <5>1. x \in DOMAIN order /\ x \in DOMAIN order' /\ order'[x] = order[x]
          <6>1. DOMAIN order = 1..Len(order)
            BY <2>4
          <6>2. DOMAIN order' = 1..(Len(order) + 1)
            BY <4>3
          <6>3. 1..Len(order) \subseteq 1..(Len(order) + 1)
            BY <4>3
          <6> QED
            BY <4>3, <6>1, <6>2, <6>3, Zenon
        <5>2. order[x] \in Key /\ order[x] # key_
          BY <2>4, <3>2, <5>1
        <5>3. values'[order[x]] = values[order[x]]
          BY <2>1, <2>4, <5>2
        <5> QED
          BY <2>5, <5>1, <5>3
      <4>5. Pairs'[Len(order) + 1] = pair
        <5>1. Len(order) + 1 \in DOMAIN order'
          BY <4>3
        <5>2. values'[key_] = <<i, k>>
          BY <2>1, <2>4
        <5> QED
          BY <2>5, <4>3, <5>1, <5>2
      <4>6. Pairs' = [x \in DOMAIN order' |-> Pairs'[x]]
        BY DEF Pairs
      <4>7. Append(Pairs, pair) = [x \in 1..(Len(order) + 1) |-> Append(Pairs, pair)[x]]
        BY <4>2, SeqDef
      <4>8. DOMAIN order' = 1..(Len(order) + 1)
        BY <4>3
      <4>9. \A x \in 1..(Len(order) + 1) : Pairs'[x] = Append(Pairs, pair)[x]
        BY <4>2, <4>3, <4>4, <4>5
      <4> QED
        BY <4>6, <4>7, <4>8, <4>9
    <3>4. Promised!Add
      BY <1>2, <1>9, <2>1, <2>2, <2>6, <3>2, <3>3
         DEF SetField, Promised!Add, Phase, fixed, Promised!fixed
    <3> QED
      BY <3>4 DEF Promised!Next
  <2>8. CASE values[key_] # NoValue
    <3>1. order' = order
      BY <2>1, <2>8 DEF OrderAfterSet
    <3>2. Promised!Taken(key_)
      BY <2>4, <2>6, <2>8 DEF SimulationInv, OrderComplete
    <3>3. Pairs' = [x \in DOMAIN Pairs |-> IF Pairs[x].key = key_ THEN pair ELSE Pairs[x]]
      <4>1. ASSUME NEW x \in DOMAIN order
            PROVE  Pairs'[x] = IF Pairs[x].key = key_ THEN pair ELSE Pairs[x]
        <5>1. order[x] \in Key
          BY <2>4
        <5>2. values'[order[x]] = IF order[x] = key_ THEN <<i, k>> ELSE values[order[x]]
          BY <2>1, <2>4, <5>1
        <5> QED
          BY <2>5, <3>1, <5>2
      <4>2. Pairs' = [x \in DOMAIN order' |-> Pairs'[x]]
        BY DEF Pairs
      <4> QED
        BY <2>5, <3>1, <4>1, <4>2
    <3>4. Promised!Replace
      BY <1>2, <1>9, <2>1, <2>2, <2>3, <3>2, <3>3
         DEF SetField, Promised!Replace, Phase, fixed, Promised!fixed
    <3> QED
      BY <3>4 DEF Promised!Next
  <2> QED
    BY <2>7, <2>8
<1>10. CASE ValueFails
  <2>1. UNCHANGED Object
    BY <1>10, ObjectKept DEF ValueFails, analysis
  <2>2. Promised!ValueError
    BY <1>10, <2>1 DEF ValueFails, Writing, Promised!ValueError, Phase, fixed, Promised!fixed
  <2> QED
    BY <2>2 DEF Promised!Next
<1>11. CASE ElementFails
  <2>1. UNCHANGED Object
    BY <1>11, ObjectKept DEF ElementFails, analysis, written
  <2>2. Promised!ValueError
    BY <1>11, <2>1 DEF ElementFails, Writing, Promised!ValueError, Phase, fixed, Promised!fixed
  <2> QED
    BY <2>2 DEF Promised!Next
<1>12. CASE NextEntry
  <2>1. UNCHANGED Object
    BY <1>12, ObjectKept DEF NextEntry, analysis, written
  <2>2. Promised!NextEntry
    BY <1>12, <2>1 DEF NextEntry, EntryDone, Promised!NextEntry, Phase, fixed, Promised!fixed
  <2> QED
    BY <2>2 DEF Promised!Next
<1>13. CASE Close
  <2>1. UNCHANGED Object
    BY <1>13 DEF Close, analysis, Object, Pairs
  <2>2. Promised!Finish
    BY <1>13, <2>1 DEF Close, Promised!Finish, Phase, fixed, Promised!fixed
  <2> QED
    BY <2>2 DEF Promised!Next
<1>14. CASE UNCHANGED vars
  <2>1. UNCHANGED Object
    BY <1>14, ObjectKept DEF vars, analysis, written
  <2> QED
    BY <1>14, <2>1 DEF vars, fixed, Phase, Promised!vars
<1> QED
  BY <1>3, <1>4, <1>5, <1>6, <1>7, <1>8, <1>9, <1>10, <1>11, <1>12, <1>13, <1>14
     DEF Next

(* The encoder's flags, tracker and buffer implement the collision policy: *)
(* the pairs written or buffered are at every step those the policy alone  *)
(* would keep, in the order of the first write of each key.                *)
THEOREM PolicyImplemented == Spec => ImplementsPolicy
<1> DEFINE Applies == Honest /\ LastUntracked
<1>1. Init => Promised!Init /\ (Applies => SimulationInv)
  BY SimulationInit, MappedInit
<1>2. (Applies => SimulationInv) /\ [Next]_vars => (Applies => SimulationInv)'
  <2> SUFFICES ASSUME Applies => SimulationInv, [Next]_vars, Applies'
               PROVE  SimulationInv'
    OBVIOUS
  <2>1. Applies
    BY FixedKept DEF fixed, Honest, LastUntracked
  <2> QED
    BY <2>1, SimulationStep
<1>3. /\ Applies => SimulationInv
      /\ (Applies => SimulationInv)'
      /\ [Next]_vars
      => [Applies => Promised!Next]_(Promised!vars)
  <2> SUFFICES ASSUME Applies => SimulationInv, (Applies => SimulationInv)', [Next]_vars,
                      Applies
               PROVE  [Promised!Next]_(Promised!vars)
    OBVIOUS
  <2>1. Applies'
    BY FixedKept DEF fixed, Honest, LastUntracked
  <2> QED
    BY <2>1, MappedStep
<1> QED
  BY <1>1, <1>2, <1>3, PTL DEF Spec, ImplementsPolicy
=============================================================================
