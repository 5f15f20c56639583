---------------------------- MODULE MCPlanWalk -----------------------------
(***************************************************************************)
(* Small schemas: two message types, which may contain themselves and each *)
(* other, with two or three fields each.                                   *)
(***************************************************************************)
EXTENDS PlanWalk

CONSTANTS A, B, none, x, y, z, comma, bar

MCMsg == {A, B}
MCName == {x, y, z}
MCFormatOption == {"cardinality", "enumFormat"}
MCFormatValue == {"KEEP", "INDEXED", "NAME", "NUMBER"}
MCBuiltinFormat == [f \in MCFormatOption |-> IF f = "cardinality" THEN "KEEP" ELSE "NAME"]
MCChar == {comma, bar}
MCIndexSep == <<bar>>

Leaf(name) == [name |-> name, kind |-> "leaf", type |-> NoMsg, oneof |-> 0, omit |-> FALSE,
               invalid |-> FALSE, enum |-> Unset, opts |-> NoOptions,
               pick |-> <<>>, lift |-> <<>>]

List(name) == [Leaf(name) EXCEPT !.kind = "list"]

Sub(name, m) == [Leaf(name) EXCEPT !.kind = "message", !.type = m]

Flat(f, mode) == [f EXCEPT !.opts.flatten = mode]
Deep(f, bound) == [f EXCEPT !.opts.maxDepth = bound]
Formatted(f, option, v) == [f EXCEPT !.opts.format[option] = v]
In(f, o) == [f EXCEPT !.oneof = o]

Plain_(fields) == [file |-> NoOptions, own |-> NoOptions, generate |-> TRUE, symbol |-> <<x>>,
                   fields |-> fields, oneofs |-> <<>>, constants |-> <<>>,
                   merges |-> <<>>, groups |-> <<>>]

Pairing(as, bs) == {[m \in MCMsg |-> IF m = A THEN a ELSE b] : a \in as, b \in bs}

-----------------------------------------------------------------------------
(* Recursion, boundaries and depth bounds                                  *)

Subs == {Deep(Flat(Sub(x, m), mode), bound) :
            m \in MCMsg, mode \in {Unset, "SHALLOW", "NONE"}, bound \in {Unset, 0, 2}}

Bounded(msg, bound) == [msg EXCEPT !.own.maxDepth = bound]

(* B's fields are plain ones, or, in a type that is flattened, the         *)
(* branches of one oneof.                                                  *)
DepthSchemas ==
    Pairing({Bounded(Plain_(<<f, g>>), bound) :
                f \in Subs, g \in {Leaf(y), Sub(y, B)}, bound \in {Unset, 1}},
            {[Plain_(<<In(f, om[1]), In(Leaf(z), om[1]), g>>)
                 EXCEPT !.own.flatten = om[2],
                        !.oneofs = <<[name |-> z, tag |-> z, mode |-> Unset, opts |-> NoOptions]>>] :
                f \in {s \in Subs : s.opts.flatten # "NONE"}, g \in {Leaf(y), Sub(y, A)},
                om \in {<<0, Unset>>, <<0, "NONE">>, <<1, Unset>>}})

-----------------------------------------------------------------------------
(* Oneofs, groups, merges, picks and lifts                                 *)

OneofWith(mode, format) ==
    [name |-> z, tag |-> z, mode |-> mode,
     opts |-> [NoOptions EXCEPT !.format["enumFormat"] = format]]

InnerFields == {<<Leaf(x), List(y)>>,
                <<In(Leaf(x), 1), In(List(y), 1)>>,
                <<In(Leaf(x), 1), In(Sub(y, B), 1)>>,
                <<[Leaf(x) EXCEPT !.omit = TRUE], Formatted(List(y), "cardinality", "INDEXED")>>}

Inner == {[Plain_(fs) EXCEPT !.oneofs = <<OneofWith(mode, Unset)>>] :
             fs \in InnerFields, mode \in {Unset, "SINGLE_KEY"}}

First == {Leaf(x), Sub(x, B), [Leaf(x) EXCEPT !.enum = "NUMBER"]}

Second == {Leaf(y), Sub(y, B), Flat(Sub(y, B), "NONE"),
           [Leaf(y) EXCEPT !.kind = "messages", !.type = B],
           Formatted(Sub(y, B), "enumFormat", "NUMBER"),
           Formatted([Sub(y, B) EXCEPT !.pick = << <<B, 2>> >>], "cardinality", "INDEXED"),
           [Sub(y, B) EXCEPT !.lift = <<[path |-> << <<B, 2>> >>, as |-> x],
                                        [path |-> << <<B, 1>> >>, as |-> z]>>]}

Third == {Leaf(z), Sub(z, B), [Leaf(z) EXCEPT !.kind = "struct", !.pick = << <<A, 1>> >>]}

Merging(format, from) ==
    [Plain_(<<>>) EXCEPT !.merges =
        <<[name |-> x, from |-> from, opts |-> [NoOptions EXCEPT !.format["cardinality"] = format]]>>]

Rules == {[Plain_(<<>>) EXCEPT !.constants = <<[name |-> x, valid |-> TRUE]>>],
          [Plain_(<<>>) EXCEPT !.groups = << << << <<A, 1>> >>, << <<A, 3>> >> >> >>],
          [Plain_(<<>>) EXCEPT !.groups = << << << <<A, 2>> >>, << <<A, 3>> >> >>,
                                             << << <<A, 3>> >>, << <<A, 1>> >> >> >>],
          Merging(Unset, << << <<A, 3>> >> >>),
          Merging("INDEXED", << << <<A, 2>>, <<B, 1>> >> >>),
          Merging(Unset, << << <<A, 2>>, <<B, 1>> >>, << <<A, 1>> >> >>)}

Modes_ == OneofModes \cup {Unset}

Policed(msg, policy) == [msg EXCEPT !.own.policy = policy]

Outer(rules, f3, modes, formats) ==
    {[r EXCEPT !.fields = <<In(f, 1), In(g, 1), h>>,
               !.oneofs = <<OneofWith(mode, format)>>] :
        r \in rules, f \in First, g \in Second, h \in f3, mode \in modes, format \in formats}

(* Every mode with every shape of field, and every rule with the modes     *)
(* that walk the branches.                                                 *)
Outers == Outer({Plain_(<<>>)}, {Leaf(z)}, Modes_, {"NUMBER"})
          \cup Outer(Rules, Third, {Unset, "TAGGED"}, {Unset})

(* Messages whose rules, fields, picks or lifts make no sense.             *)
Broken == {[Plain_(<<Leaf(x), [Leaf(y) EXCEPT !.invalid = TRUE]>>)
               EXCEPT !.constants = <<[name |-> x, valid |-> v]>>] : v \in BOOLEAN}
          \cup {Plain_(<<[f EXCEPT !.pick = p, !.lift = l]>>) :
                   f \in {Leaf(x), Sub(x, B)},
                   p \in {<<>>, << <<B, 3>> >>, << <<B, 2>> >>},
                   l \in {<<>>, <<[path |-> << <<A, 1>> >>, as |-> x]>>}}

ShapeSchemas == Pairing(Outers \cup Broken, Inner)

(* Messages that refuse collisions and declare no groups, with one level   *)
(* of oneofs and with oneofs inside branches.                              *)
Strict == {Policed(msg, "ERROR_GENERATE") :
              msg \in Outer({Plain_(<<>>)}, Third, {Unset, "BRANCH_KEY", "TAGGED", "SINGLE_KEY"},
                            {Unset})}

FlatOneofSchemas ==
    Pairing(Strict, {msg \in Inner : \A f \in Elements(msg.fields) : f.oneof = 0})

StrictSchemas == Pairing(Strict, Inner)

(* What the passing run is over.                                           *)
PlanSchemas == DepthSchemas \cup ShapeSchemas \cup FlatOneofSchemas
=============================================================================
