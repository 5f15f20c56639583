---------------------------- MODULE PlanEntries ----------------------------
(***************************************************************************)
(* The flattened plan of one message, as the collision analysis and the    *)
(* generated encoder see it: an ordered list of entries.  What an entry    *)
(* writes is abstracted to the JSON keys it produces; a value is named by  *)
(* the entry that wrote it and by its position among the entry's writes.   *)
(***************************************************************************)
EXTENDS Analysis

CONSTANTS Key,        \* JSON keys
          Branch,     \* oneof branches and members of exclusive groups
          Plans,      \* the plans considered
          SpreadRuns  \* the key sequences a spreading entry may produce

Policies == {"IGNORE", "ERROR_GENERATE", "ERROR_RUNTIME"}
Wins     == {"FIRST", "LAST"}

(* "static": one key known to the plan, written by writer.write.           *)
(* "spread": keys invented at run time (INLINE_KEYS, INDEXED, EXPLODE).    *)
(* "pick":   EXPLODE over scalar elements, which is marked dynamic like a  *)
(*           spread but falls back to writer.write under its own key.      *)
Modes == {"static", "spread", "pick"}

(* excl is the exclusivity id the walk gave the entry, 0 for none; branch  *)
(* is the oneof branch or group member whose field is on the entry's path. *)
Entry == [key : Key, mode : Modes, excl : Nat, branch : Branch]

ASSUME PlansAssumption == Plans \subseteq Seq(Entry)
ASSUME SpreadAssumption == SpreadRuns \subseteq Seq(Key)

(* The sequences of keys an entry may write for some message: nothing when *)
(* its value is empty or its branch is not the active one.                 *)
Runs(e) == IF e.mode = "spread" THEN SpreadRuns \cup {<<>>}
                                ELSE {<<>>, <<e.key>>}

(* What every entry of a plan may write, over all messages.                *)
Messages(p) ==
    {w \in [DOMAIN p -> UNION {Runs(p[a]) : a \in DOMAIN p}] :
        \A a \in DOMAIN p : w[a] \in Runs(p[a])}

SameGroup(e, f) == e.excl # 0 /\ e.excl = f.excl

(* Two entries that can both write in one encode: different branches of    *)
(* one oneof, or different members of one declared group, cannot.          *)
CanBothWrite(e, f) == ~(SameGroup(e, f) /\ e.branch # f.branch)

(* Two static entries that can both write one key.                         *)
StaticClash(p) ==
    \E a, b \in DOMAIN p : /\ a < b
                           /\ ~Dynamic(p[a]) /\ ~Dynamic(p[b])
                           /\ p[a].key = p[b].key
                           /\ CanBothWrite(p[a], p[b])

(* The message keeps every exclusivity promise: of two entries in          *)
(* different branches or members, at most one has something to write.      *)
PromiseKept(p, w) ==
    \A a, b \in DOMAIN p :
        ~CanBothWrite(p[a], p[b]) => w[a] = <<>> \/ w[b] = <<>>

(* No branch produces one static key twice.                                *)
BranchKeysDistinct(p) ==
    \A a, b \in DOMAIN p :
        /\ a # b
        /\ SameGroup(p[a], p[b])
        /\ p[a].branch = p[b].branch
        /\ ~Dynamic(p[a]) /\ ~Dynamic(p[b])
        => p[a].key # p[b].key
=============================================================================
