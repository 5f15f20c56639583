----------------------------- MODULE MCEncoder -----------------------------
(* Messages of three fields whose keys meet in every way: in and out of a  *)
(* oneof, in a nested message, in its oneof, in its tag and in spreads.    *)
EXTENDS Encoder, MCPlanWalk

(* Policies; which writer wins matters where collisions are ignored.       *)
PolicyWins == {<<"IGNORE", "FIRST">>, <<"IGNORE", "LAST">>,
               <<"ERROR_GENERATE", "FIRST">>, <<"ERROR_RUNTIME", "FIRST">>}

Governed(msg) == {[msg EXCEPT !.own.policy = pw[1], !.own.wins = pw[2]] : pw \in PolicyWins}

InnerOneof(mode) == <<[name |-> x, tag |-> y, mode |-> mode, opts |-> NoOptions]>>

(* The message in a branch: plain fields, or a oneof of its own.           *)
Branches_ == {Plain_(<<Leaf(x), Leaf(y)>>)} \cup
             {[Plain_(<<In(Leaf(x), 1), In(Leaf(z), 1)>>) EXCEPT !.oneofs = InnerOneof(mode)] :
                 mode \in {Unset, "TAGGED", "SINGLE_KEY", "DISCRIMINATOR_ONLY"}}

(* The fields of a oneof, and the one behind it.                           *)
Pairs_ == {<<Sub(x, B), Leaf(y)>>, <<Leaf(x), Sub(z, B)>>, <<Sub(y, B), Sub(y, B)>>}

Behind == {Leaf(x), Sub(z, B), Formatted(List(z), "cardinality", "INDEXED"),
           Formatted(List(y), "cardinality", "EXPLODE")}

Holders == UNION {Governed([Plain_(<<In(p[1], 1), In(p[2], 1), h>>) EXCEPT
                                !.oneofs = <<[name |-> y, tag |-> z, mode |-> mode,
                                              opts |-> NoOptions]>>]) :
                     p \in Pairs_, h \in Behind,
                     mode \in {Unset, "BRANCH_KEY", "TAGGED", "SINGLE_KEY"}}

(* A constant and a merge rule whose keys meet those of fields.            *)
Ruled == UNION {Governed([msg EXCEPT !.fields = <<In(Sub(x, B), 1), In(Leaf(y), 1), Leaf(z)>>,
                                     !.oneofs = InnerOneof(Unset)]) :
                   msg \in {[Plain_(<<>>) EXCEPT !.constants = <<[name |-> x, valid |-> TRUE]>>],
                           Merging(Unset, << << <<A, 3>> >> >>)}}

EncoderSchemas == Pairing(Holders \cup Ruled, Branches_)

EncoderFormatValue == MCFormatValue \cup {"EXPLODE"}

MCRuns == {<<x>>, <<y, x>>}
=============================================================================
