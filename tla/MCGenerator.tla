---------------------------- MODULE MCGenerator ----------------------------
(***************************************************************************)
(* Small files of three message types that nest each other under different *)
(* formats, separators and depth bounds.                                   *)
(***************************************************************************)
EXTENDS Generator, TLC

CONSTANTS A, B, C, none, x, y, z, comma, bar, red, blue

MCMsg == {A, B, C}
MCName == {x, y, z}
MCFormatOption == {"cardinality", "enumFormat"}
MCFormatValue == {"KEEP", "INDEXED", "COUNT", "KEYS", "NAME", "NUMBER"}
MCBuiltinFormat == [f \in MCFormatOption |-> IF f = "cardinality" THEN "KEEP" ELSE "NAME"]
MCChar == {comma, bar}
MCIndexSep == <<bar>>
MCEnumTypes == <<B, 1>> :> red @@ <<C, 1>> :> blue
MCEnumSymbol == red :> <<x>> @@ blue :> <<x>>
MCFileOrder == <<A, B, C>>

Leaf(name) == [name |-> name, kind |-> "leaf", type |-> NoMsg, oneof |-> 0, omit |-> FALSE,
               invalid |-> FALSE, enum |-> Unset, opts |-> NoOptions,
               pick |-> <<>>, lift |-> <<>>]

Sub(name, m) == [Leaf(name) EXCEPT !.kind = "message", !.type = m]

Many(name, m) == [Leaf(name) EXCEPT !.kind = "messages", !.type = m]

Nested(f) == [f EXCEPT !.opts.flatten = "NONE"]
Forced(f) == [f EXCEPT !.opts.flatten = "DEEP"]
Deep(f, bound) == [f EXCEPT !.opts.maxDepth = bound]
Formatted(f, v) == [f EXCEPT !.opts.format["enumFormat"] = v]
Separated(f, join, index) == [f EXCEPT !.opts.joinSep = join, !.opts.indexSep = index]
In(f, o) == [f EXCEPT !.oneof = o]

Of(symbol, generate, fields) ==
    [file |-> NoOptions, own |-> NoOptions, generate |-> generate, symbol |-> symbol,
     fields |-> fields,
     oneofs |-> <<[name |-> z, tag |-> z, mode |-> "SINGLE_KEY", opts |-> NoOptions]>>,
     constants |-> <<>>, merges |-> <<>>, groups |-> <<>>]

Uses(m) == {Sub(x, m), Nested(Sub(x, m)), Formatted(Nested(Sub(x, m)), "NUMBER"),
            Deep(Sub(x, m), 1), Separated(Many(x, m), Unset, <<bar, bar>>),
            In(Sub(x, m), 1)}

Schemas_(as, bs, cs) ==
    {[m \in MCMsg |-> IF m = A THEN a ELSE IF m = B THEN b ELSE c] : a \in as, b \in bs, c \in cs}

Own(msg, bound, format) ==
    [msg EXCEPT !.own.maxDepth = bound, !.own.format["enumFormat"] = format]

(* A uses B and C, B uses itself, A or C, and C may have B's symbol in     *)
(* another package.                                                        *)
GenSchemas ==
    Schemas_({Of(<<x>>, TRUE, <<f, g>>) : f \in Uses(B),
                                         g \in {Formatted(Nested(Sub(y, B)), "NUMBER"),
                                                Deep(Sub(y, B), 1), Sub(y, C)}},
             {Own(Of(<<y>>, TRUE, <<Leaf(x), f>>), bound, format) :
                 f \in {Sub(x, A), Nested(Sub(x, A)), Deep(Sub(x, A), 1),
                       Formatted(Nested(Sub(x, B)), "NUMBER"), In(Sub(x, B), 1),
                       Nested(Sub(y, C))},
                 bound \in {Unset, 1}, format \in {Unset, "NUMBER"}},
             {Of(<<s>>, g, <<Leaf(x), Nested(Sub(y, B))>>) : s \in {y, z}, g \in BOOLEAN})

(* A merge of repeated messages, and a pick from them.                     *)
CollectSchemas ==
    Schemas_({[Of(<<x>>, TRUE, <<Many(x, B), [Many(y, B) EXCEPT
                                                 !.pick = p, !.opts.format["cardinality"] = c]>>)
                  EXCEPT !.merges = <<[name |-> z, from |-> << << <<A, 1>> >> >>,
                                       opts |-> [NoOptions EXCEPT !.format["cardinality"] = c]]>>] :
                 p \in {<<>>, << <<B, 1>> >>, << <<B, 2>> >>}, c \in {Unset, "INDEXED", "COUNT"}},
             {Of(<<y>>, FALSE, <<Leaf(x), Many(y, C)>>)},
             {Of(<<z>>, FALSE, <<Leaf(x)>>)})

(* A merge of an enum and a list of another, whose helpers no other entry  *)
(* of the file's one message calls.                                        *)
MergeSchemas ==
    Schemas_({[Of(<<x>>, TRUE, <<Sub(x, B), Sub(y, C)>>) EXCEPT
                  !.merges = <<[name |-> z, from |-> << << <<A, 1>>, <<B, 1>> >>,
                                                        << <<A, 2>>, <<C, 1>> >> >>,
                                opts |-> [NoOptions EXCEPT !.format["cardinality"] = c,
                                                           !.format["enumFormat"] = format]]>>] :
                 c \in {"INDEXED", "COUNT", "KEYS"}, format \in {Unset, "NUMBER"}},
             {Of(<<y>>, FALSE, <<Leaf(x), Leaf(y)>>)},
             {Of(<<z>>, FALSE, <<[Leaf(x) EXCEPT !.kind = "list"]>>)})

MCSchemas == GenSchemas \cup CollectSchemas \cup MergeSchemas

(* C is past the bound A sets on B, and one of its fields, whose type C    *)
(* bounds itself, asks to be flattened.                                    *)
ForcedSchemas ==
    Schemas_({Of(<<x>>, TRUE, <<Leaf(x), Deep(Sub(y, B), 1)>>)},
             {Of(<<y>>, g, <<Leaf(x), Sub(y, C)>>) : g \in BOOLEAN},
             {Own(Of(<<z>>, g, <<Leaf(x), f>>), 1, Unset) :
                 g \in BOOLEAN, f \in {Sub(y, C), Forced(Sub(y, C))}})
=============================================================================
