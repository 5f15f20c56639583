------------------------------ MODULE Analysis -----------------------------
(***************************************************************************)
(* plan.analyse: which entries of a plan collide on their key, and what    *)
(* the generated encoder needs to handle it.  A plan is a sequence of      *)
(* entries with a key, a mode and an exclusivity id.                       *)
(***************************************************************************)
EXTENDS Naturals, Sequences, FiniteSetsExt

(* The keys of a dynamic entry are known at run time only.                 *)
Dynamic(e) == e.mode # "static"

(* Fault: two entries outside every group count as one group.              *)
ExclusiveOfZero(e, f) == e.excl = f.excl

(* Entries sharing a non-zero id never both write, says the analysis.      *)
ExclusiveOf(e, f) == e.excl # 0 /\ e.excl = f.excl

(* The pairs of static entries that conflict on their key.                 *)
Conflicts(p) ==
    {ab \in (DOMAIN p) \X (DOMAIN p) :
        LET e == p[ab[1]]
            f == p[ab[2]]
        IN  /\ ab[1] < ab[2]
            /\ ~Dynamic(e) /\ ~Dynamic(f)
            /\ e.key = f.key
            /\ ~ExclusiveOf(e, f)}

ContestedKeys(p) == {p[ab[1]].key : ab \in Conflicts(p)}

(* The conflict reported: byKey's order puts the keys in the order their   *)
(* first static entry comes, and firstConflict scans the entries of a key  *)
(* for the first pair.                                                     *)
FirstConflict(p) ==
    LET key == p[Min({a \in DOMAIN p : ~Dynamic(p[a]) /\ p[a].key \in ContestedKeys(p)})].key
        first == Min({a \in DOMAIN p : /\ p[a].key = key
                                       /\ \E b \in DOMAIN p : <<a, b>> \in Conflicts(p)})
        second == Min({b \in DOMAIN p : <<first, b>> \in Conflicts(p)})
    IN  <<first, second>>

(* Fault: only a dynamic entry asks for the tracker.                       *)
NeedsTrackerIfDynamic(p, pol) == \E a \in DOMAIN p : Dynamic(p[a])

NeedsTracker(p, pol) == \/ pol = "ERROR_RUNTIME"
                        \/ \E a \in DOMAIN p : Dynamic(p[a])

NeedsBuffer(p, pol, w) == pol = "IGNORE" /\ w = "LAST" /\ Conflicts(p) # {}

Guarded(p, pol, w) ==
    IF pol = "IGNORE" /\ w = "FIRST" THEN ContestedKeys(p) ELSE {}
=============================================================================
