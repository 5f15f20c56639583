---------------------------- MODULE FlatObject -----------------------------
(***************************************************************************)
(* What a collision policy promises, with none of the machinery that       *)
(* enforces it.  The writes of one encode are offered in plan order; the   *)
(* object keeps one pair per key, in the order of the first write of each  *)
(* key, and the policy alone decides what a repeated key does.             *)
(***************************************************************************)
EXTENDS PlanEntries

VARIABLES plan, writes, policy, wins,   \* fixed by Init
          phase,                        \* "plan", "encode", "done", "rejected", "failed"
          i, k,                         \* the next write: the k-th of entry i
          object                        \* the pairs of the object so far

vars == <<plan, writes, policy, wins, phase, i, k, object>>

Init == /\ plan \in Plans
        /\ writes \in Messages(plan)
        /\ policy \in Policies
        /\ wins \in Wins
        /\ phase = "plan"
        /\ i = 1 /\ k = 1
        /\ object = <<>>

fixed == <<plan, writes, policy, wins>>

(* ERROR_GENERATE refuses a plan exactly when two static sources can both  *)
(* write one key.                                                          *)
Reject == /\ phase = "plan"
          /\ policy = "ERROR_GENERATE" /\ StaticClash(plan)
          /\ phase' = "rejected"
          /\ UNCHANGED <<fixed, i, k, object>>

Accept == /\ phase = "plan"
          /\ policy = "ERROR_GENERATE" => ~StaticClash(plan)
          /\ phase' = "encode"
          /\ UNCHANGED <<fixed, i, k, object>>

Offering == /\ phase = "encode"
            /\ i \in DOMAIN plan
            /\ k \in DOMAIN writes[i]

Pair == [key |-> writes[i][k], val |-> <<i, k>>]

Taken(key) == \E j \in DOMAIN object : object[j].key = key

(* A key nobody has written yet always gets its pair, at the end.          *)
Add == /\ Offering
       /\ ~Taken(Pair.key)
       /\ object' = Append(object, Pair)
       /\ k' = k + 1
       /\ UNCHANGED <<fixed, phase, i>>

(* The first writer keeps the key.                                         *)
Drop == /\ Offering
        /\ Taken(Pair.key)
        /\ policy # "ERROR_RUNTIME" /\ wins = "FIRST"
        /\ k' = k + 1
        /\ UNCHANGED <<fixed, phase, i, object>>

(* The last writer takes the key over, in place.                           *)
Replace == /\ Offering
           /\ Taken(Pair.key)
           /\ policy # "ERROR_RUNTIME" /\ wins = "LAST"
           /\ object' = [j \in DOMAIN object |->
                            IF object[j].key = Pair.key THEN Pair ELSE object[j]]
           /\ k' = k + 1
           /\ UNCHANGED <<fixed, phase, i>>

Collide == /\ Offering
           /\ Taken(Pair.key)
           /\ policy = "ERROR_RUNTIME"
           /\ phase' = "failed"
           /\ UNCHANGED <<fixed, i, k, object>>

(* Producing a value can fail, whatever the policy.                        *)
ValueError == /\ phase = "encode"
              /\ i \in DOMAIN plan
              /\ phase' = "failed"
              /\ UNCHANGED <<fixed, i, k, object>>

NextEntry == /\ phase = "encode"
             /\ i \in DOMAIN plan
             /\ k > Len(writes[i])
             /\ i' = i + 1 /\ k' = 1
             /\ UNCHANGED <<fixed, phase, object>>

Finish == /\ phase = "encode"
          /\ i > Len(plan)
          /\ phase' = "done"
          /\ UNCHANGED <<fixed, i, k, object>>

Next == \/ Reject \/ Accept
        \/ Add \/ Drop \/ Replace \/ Collide \/ ValueError
        \/ NextEntry \/ Finish

Spec == Init /\ [][Next]_vars
=============================================================================
