---------------------------- MODULE ObjectWriter ---------------------------
(***************************************************************************)
(* The collision machinery of one generated encoder: plan.analyse decides  *)
(* from the static entries which machinery the encoder gets (a flag per    *)
(* contested key, a run-time key tracker, a buffered object), and the      *)
(* encoder then writes the entries of the plan in order through it.        *)
(***************************************************************************)
EXTENDS PlanEntries

VARIABLES
    plan, writes, policy, wins,  \* the plan, the message, plan.root: fixed by Init
    pc,                          \* where generation and the encode are
    needsTracker, needsBuffer,   \* what plan.analyse decided
    guarded,                     \* the keys plan.analyse guards with a flag
    i, k,                        \* the next write: the k-th of entry i
    wrote,                       \* the guarded keys whose flag is set
    seen,                        \* Keys.seen: the entry that claimed a key, 0 for none
    order, values,               \* Object.order, Object.values (NoValue when absent)
    out,                         \* the pairs written to the jx encoder
    err                          \* the error returned, NoError for none

fixed    == <<plan, writes, policy, wins>>
analysis == <<needsTracker, needsBuffer, guarded>>
written  == <<wrote, seen, order, values, out>>
vars     == <<fixed, pc, analysis, i, k, written, err>>

NoValue == <<0, 0>>
NoError == [kind |-> "none", first |-> 0, second |-> 0]

ErrorOf(kind, first, second) ==
    [kind |-> kind, first |-> first, second |-> second]

-----------------------------------------------------------------------------
(* plan.analyse                                                            *)

Init == /\ plan \in Plans
        /\ writes \in Messages(plan)
        /\ policy \in Policies
        /\ wins \in Wins
        /\ pc = "analyse"
        /\ needsTracker = FALSE /\ needsBuffer = FALSE /\ guarded = {}
        /\ i = 1 /\ k = 1
        /\ wrote = {}
        /\ seen = [key \in Key |-> 0]
        /\ order = <<>>
        /\ values = [key \in Key |-> NoValue]
        /\ out = <<>>
        /\ err = NoError

(* A contested key under ERROR_GENERATE: no encoder is generated.          *)
Reject == /\ pc = "analyse"
          /\ policy = "ERROR_GENERATE"
          /\ Conflicts(plan) # {}
          /\ pc' = "rejected"
          /\ err' = LET ab == FirstConflict(plan)
                    IN  ErrorOf("generate", ab[1], ab[2])
          /\ UNCHANGED <<fixed, analysis, i, k, written>>

(* Otherwise the encoder is generated with the machinery its plan needs    *)
(* and, when it runs, opens with none of its keys written.                 *)
Accept == /\ pc = "analyse"
          /\ policy = "ERROR_GENERATE" => Conflicts(plan) = {}
          /\ needsTracker' = NeedsTracker(plan, policy)
          /\ needsBuffer' = NeedsBuffer(plan, policy, wins)
          /\ guarded' = Guarded(plan, policy, wins)
          /\ pc' = "encode"
          /\ UNCHANGED <<fixed, i, k, written, err>>

-----------------------------------------------------------------------------
(* The generated encoder                                                   *)

Writing == /\ pc = "encode"
           /\ i \in DOMAIN plan
           /\ k \in DOMAIN writes[i]

key_ == writes[i][k]

(* writer.write tests the flag of a guarded key; writeDynamic and Spread   *)
(* do not know the flags.                                                  *)
ViaWrite == plan[i].mode # "spread"

(* Fault: the flag is taken for set from the start.                        *)
BlockedEarly == ViaWrite /\ key_ \in guarded

Blocked == ViaWrite /\ key_ \in guarded /\ key_ \in wrote

(* Fault: only the keys of a spread are looked up in the tracker.          *)
ClaimedIfSpread == needsTracker /\ seen[key_] # 0 /\ ~ViaWrite

Claimed == needsTracker /\ seen[key_] # 0

(* The flag of a guarded key is set: skip the entry.                       *)
SkipGuarded == /\ Writing
               /\ Blocked
               /\ k' = k + 1
               /\ UNCHANGED <<fixed, pc, analysis, i, written, err>>

(* Keys.Claim refuses a repeated key: the write is dropped.                *)
ClaimRefused == /\ Writing
                /\ ~Blocked
                /\ Claimed
                /\ policy # "ERROR_RUNTIME"
                /\ k' = k + 1
                /\ UNCHANGED <<fixed, pc, analysis, i, written, err>>

(* Fault: the error names the two sources the wrong way round.             *)
CollisionSwapped == ErrorOf("collision", i, seen[key_])

Collision == ErrorOf("collision", seen[key_], i)

(* A strict tracker reports it: a KeyCollisionError naming both sources.   *)
ClaimFails == /\ Writing
              /\ ~Blocked
              /\ Claimed
              /\ policy = "ERROR_RUNTIME"
              /\ pc' = "failed"
              /\ err' = Collision
              /\ UNCHANGED <<fixed, analysis, i, k, written>>

(* Keys.Claim registers a new key for the entry.                           *)
Register == seen' = IF needsTracker THEN [seen EXCEPT ![key_] = i] ELSE seen

(* Fault: the flag is set for the entry instead of for its key.            *)
FlagByEntry == wrote' = IF ViaWrite /\ key_ \in guarded
                        THEN wrote \cup {i} ELSE wrote

Flag == wrote' = IF ViaWrite /\ key_ \in guarded
                 THEN wrote \cup {key_} ELSE wrote

(* FieldStart and the value, straight into the encoder.                    *)
WriteField == /\ Writing
              /\ ~Blocked /\ ~Claimed
              /\ ~needsBuffer
              /\ Register /\ Flag
              /\ out' = Append(out, [key |-> key_, val |-> <<i, k>>])
              /\ k' = k + 1
              /\ UNCHANGED <<fixed, pc, analysis, i, order, values, err>>

(* Fault: setting a key again moves it to the end.                         *)
OrderMovingKey == Append(SelectSeq(order, LAMBDA key : key # key_), key_)

OrderAfterSet == IF values[key_] = NoValue THEN Append(order, key_) ELSE order

(* Object.Set: a new key goes to the end of the order, a known one keeps   *)
(* its place and gets the new value.                                       *)
SetField == /\ Writing
            /\ ~Blocked /\ ~Claimed
            /\ needsBuffer
            /\ Register /\ Flag
            /\ order' = OrderAfterSet
            /\ values' = [values EXCEPT ![key_] = <<i, k>>]
            /\ k' = k + 1
            /\ UNCHANGED <<fixed, pc, analysis, i, out, err>>

(* The value's own encoder fails, after the key was claimed and, without a *)
(* buffer, after FieldStart; MarshalPlainJSON then drops the bytes.        *)
ValueFails == /\ Writing
              /\ ~Blocked /\ ~Claimed
              /\ Register
              /\ pc' = "failed"
              /\ err' = ErrorOf("value", i, 0)
              /\ UNCHANGED <<fixed, analysis, i, k, wrote, order, values, out>>

(* Encoded fails on a spread element, or a merge rule finds two sources    *)
(* holding a value: the error comes before any key is offered.             *)
ElementFails == /\ Writing
                /\ plan[i].mode # "pick"
                /\ pc' = "failed"
                /\ err' = ErrorOf("value", i, 0)
                /\ UNCHANGED <<fixed, analysis, i, k, written>>

(* Fault: an entry waits for one write more than it has.                   *)
EntryDoneLate == k > Len(writes[i]) + 1

EntryDone == k > Len(writes[i])

NextEntry == /\ pc = "encode"
             /\ i \in DOMAIN plan
             /\ EntryDone
             /\ i' = i + 1
             /\ k' = 1
             /\ UNCHANGED <<fixed, pc, analysis, written, err>>

Pairs == [j \in DOMAIN order |-> [key |-> order[j], val |-> values[order[j]]]]

(* Object.Encode when the object was buffered, ObjEnd when it was not.     *)
Close == /\ pc = "encode"
         /\ i > Len(plan)
         /\ pc' = "done"
         /\ out' = IF needsBuffer THEN Pairs ELSE out
         /\ UNCHANGED <<fixed, analysis, i, k, wrote, seen, order, values, err>>

Next == \/ Reject \/ Accept
        \/ SkipGuarded \/ ClaimRefused \/ ClaimFails
        \/ WriteField \/ SetField \/ ValueFails \/ ElementFails
        \/ NextEntry \/ Close

(* Generation and an encode run to their end in one goroutine.             *)
Spec == Init /\ [][Next]_vars /\ WF_vars(Next)

(* The messages and plans the documentation makes its promises about.      *)
Honest == PromiseKept(plan, writes) /\ BranchKeysDistinct(plan)

(* A plan in which COLLISION_WINS_LAST meets no key tracker.               *)
LastUntracked == policy # "ERROR_RUNTIME" /\ wins = "LAST" =>
                     \A a \in DOMAIN plan : ~Dynamic(plan[a])

HonestInit == Init /\ Honest

HonestSpec == HonestInit /\ [][Next]_vars /\ WF_vars(Next)

-----------------------------------------------------------------------------
(* Properties                                                              *)

Stopped == {"rejected", "failed", "done"}

(* Every variable keeps its type through generation and encode.            *)
Pair == [key : Key, val : Nat \X Nat]

TypeOK == /\ plan \in Seq(Entry)
          /\ writes \in Messages(plan)
          /\ policy \in Policies /\ wins \in Wins
          /\ pc \in {"analyse", "encode"} \cup Stopped
          /\ needsTracker \in BOOLEAN /\ needsBuffer \in BOOLEAN
          /\ guarded \in SUBSET Key /\ wrote \in SUBSET Key
          /\ i \in Nat /\ k \in Nat
          /\ seen \in [Key -> Nat]
          /\ order \in Seq(Key)
          /\ values \in [Key -> Nat \X Nat]
          /\ out \in Seq(Pair)
          /\ err \in [kind : {"none", "generate", "collision", "value"},
                     first : Nat, second : Nat]

(* The object written holds no key twice, whatever the policy decided:     *)
(* writer.write, writeDynamic and Spread together.                         *)
NoDuplicateKeys ==
    \A x, y \in DOMAIN out : out[x].key = out[y].key => x = y

(* It holds of every message that keeps the exclusivity promises.          *)
KeysOnce == Honest => NoDuplicateKeys

(* A collision costs a writer its value, never the object a key: every key *)
(* some entry writes for this message is in the finished object.           *)
NoKeyLost ==
    pc = "done" => \A a \in DOMAIN plan : \A b \in DOMAIN writes[a] :
                      \E x \in DOMAIN out : out[x].key = writes[a][b]

Before(a, b, c, d) == a < c \/ (a = c /\ b < d)

(* A KeyCollisionError names two writes of one key that really happened:   *)
(* the entry it blames second is the one writing, and no write before it   *)
(* repeated a key, so the collision is the first one of the encode.        *)
CollisionReportIsFirst ==
    err.kind = "collision" =>
        /\ err.second = i
        /\ \E b \in DOMAIN writes[err.first] :
              /\ writes[err.first][b] = writes[i][k]
              /\ Before(err.first, b, i, k)
        /\ \A a, c \in DOMAIN plan :
              \A b \in DOMAIN writes[a], d \in DOMAIN writes[c] :
                  /\ Before(a, b, c, d) /\ Before(c, d, i, k)
                  => writes[a][b] # writes[c][d]

(* ERROR_RUNTIME finishes an encode only when no two writes share a key.   *)
StrictMeansUnique ==
    policy = "ERROR_RUNTIME" /\ pc = "done" =>
        \A a, c \in DOMAIN plan :
            \A b \in DOMAIN writes[a], d \in DOMAIN writes[c] :
                writes[a][b] = writes[c][d] => <<a, b>> = <<c, d>>

(* A plan ERROR_GENERATE accepts has no two static entries that can both   *)
(* write one key, when each branch keeps its own keys apart.               *)
GenerateRefusesClashes ==
    policy = "ERROR_GENERATE" /\ pc = "encode" /\ BranchKeysDistinct(plan)
        => ~StaticClash(plan)

(* The error of a refused plan names two static sources that can both      *)
(* write the key it names.                                                 *)
RefusalIsReal ==
    err.kind = "generate" =>
        LET e == plan[err.first]
            f == plan[err.second]
        IN  e.key = f.key /\ ~Dynamic(e) /\ ~Dynamic(f) /\ CanBothWrite(e, f)

(* Under IGNORE and LAST, a key only static entries write ends with the    *)
(* value of the last of them.                                              *)
LastWriterWins ==
    policy = "IGNORE" /\ wins = "LAST" /\ pc = "done" =>
        \A x \in DOMAIN out : \A a \in DOMAIN plan :
            (/\ a > out[x].val[1]
             /\ \A b \in DOMAIN plan : out[x].key \in {writes[b][d] : d \in DOMAIN writes[b]}
                                            => ~Dynamic(plan[b]))
            => writes[a] # <<out[x].key>>

(* Generation and an encode always come to an end.                         *)
Terminates == <>(pc \in Stopped)

(* The machinery implements the policy: with the promises kept, and where  *)
(* LAST meets no tracker, the pairs written or buffered are those of       *)
(* FlatObject at every step.                                               *)
Phase  == IF pc = "analyse" THEN "plan" ELSE pc
Object == IF needsBuffer THEN Pairs ELSE out

Promised == INSTANCE FlatObject WITH
                phase  <- Phase,
                object <- Object

ImplementsPolicy ==
    /\ Promised!Init
    /\ [][Honest /\ LastUntracked => Promised!Next]_(Promised!vars)
=============================================================================
