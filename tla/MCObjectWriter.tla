--------------------------- MODULE MCObjectWriter --------------------------
(* Small plans over two keys: every mode, two exclusivity groups of two    *)
(* branches, and spreads that repeat keys of their own and of the others.  *)
EXTENDS ObjectWriter

CONSTANTS k1, k2, b1, b2,
          MaxEntries  \* the length of the longest plan

MCKey == {k1, k2}
MCBranch == {b1, b2}

(* Of the entries outside every group one branch is enough, of the spread  *)
(* entries, whose own key nothing reads, one key.                          *)
MCEntry == {e \in [key : MCKey, mode : {"static", "spread", "pick"},
                   excl : 0..2, branch : MCBranch] :
               /\ e.excl = 0 => e.branch = b1
               /\ e.mode = "spread" => e.key = k1
               /\ e.mode # "static" => e.excl # 2}

(* The plans of three entries have one group, of static entries.           *)
MCEntry3 == {e \in MCEntry : e.excl # 2 /\ (e.mode # "static" => e.excl = 0)}

(* Branches are only compared with each other: it is enough that the first *)
(* entry of every group is in the first branch.                            *)
FirstBranchFirst(p) ==
    \A a \in DOMAIN p : (\A b \in 1..a - 1 : p[b].excl # p[a].excl) => p[a].branch = b1

MCPlans == {p \in UNION {[1..n -> IF n = 3 THEN MCEntry3 ELSE MCEntry] : n \in 1..MaxEntries} :
               FirstBranchFirst(p)}
MCRuns == {<<k1>>, <<k2, k1>>, <<k1, k1>>}

(* The plans whose branches each keep their keys apart.                        *)
DistinctPlans == {p \in MCPlans : BranchKeysDistinct(p)}
=============================================================================
