------------------------------- MODULE Scopes ------------------------------
(***************************************************************************)
(* Option scopes: every option in effect at one point of the walk, how the *)
(* options of a file, message, oneof and field override them, what a       *)
(* nested message inherits from the place it is used, and the fingerprint  *)
(* by which two places share one generated encoder.                        *)
(*                                                                         *)
(* The options that only propagate and never steer the walk (key_from,     *)
(* key_case, emit_empty, cardinality and the value formats) are the        *)
(* members of FormatOption.                                                *)
(***************************************************************************)
EXTENDS Naturals, Sequences

CONSTANTS FormatOption,     \* the options that propagate down a subtree
          FormatValue,
          BuiltinFormat,    \* their values at the bottom of the chain
          Char, Comma,      \* the characters separators are made of
          BuiltinIndexSep,
          Unset             \* an option that is not set: inherit

ASSUME FormatAssumption == BuiltinFormat \in [FormatOption -> FormatValue]

ASSUME SeparatorAssumption == /\ Comma \in Char
                              /\ BuiltinIndexSep \in Seq(Char)

ASSUME UnsetAssumption == /\ Unset \notin Nat
                          /\ Unset \notin FormatValue
                          /\ Unset \notin Seq(Char)
                          /\ Unset \notin {"NONE", "SHALLOW", "DEEP"}
                          /\ Unset \notin {"IGNORE", "ERROR_GENERATE", "ERROR_RUNTIME"}
                          /\ Unset \notin {"FIRST", "LAST"}

FlattenMode     == {"NONE", "SHALLOW", "DEEP"}
CollisionPolicy == {"IGNORE", "ERROR_GENERATE", "ERROR_RUNTIME"}
CollisionWins   == {"FIRST", "LAST"}

Scope == [flatten   : FlattenMode,
          maxDepth  : Nat,              \* 0: no bound
          format    : [FormatOption -> FormatValue],
          joinSep   : Seq(Char),
          indexSep  : Seq(Char),
          policy    : CollisionPolicy,
          wins      : CollisionWins,
          exhausted : BOOLEAN]          \* past the max_depth bound

Optional(S) == S \cup {Unset}

(* The options of a file, message, oneof or field; each level reads the    *)
(* ones it has.                                                            *)
Options == [flatten  : Optional(FlattenMode),
            maxDepth : Optional(Nat),
            format   : [FormatOption -> Optional(FormatValue)],
            joinSep  : Optional(Seq(Char)),
            indexSep : Optional(Seq(Char)),
            policy   : Optional(CollisionPolicy),
            wins     : Optional(CollisionWins)]

NoOptions == [flatten |-> Unset, maxDepth |-> Unset,
              format |-> [f \in FormatOption |-> Unset],
              joinSep |-> Unset, indexSep |-> Unset,
              policy |-> Unset, wins |-> Unset]

BuiltinDefaults ==
    [flatten |-> "DEEP", maxDepth |-> 0, format |-> BuiltinFormat,
     joinSep |-> <<Comma>>, indexSep |-> BuiltinIndexSep,
     policy |-> "IGNORE", wins |-> "FIRST", exhausted |-> FALSE]

Or(option, inherited) == IF option = Unset THEN inherited ELSE option

(* Fault: an option that is not set overrides too.                         *)
OverrideFormatRaw(format, o) == o.format

OverrideFormat(format, o) == [f \in FormatOption |-> Or(o.format[f], format[f])]

(* What every level overrides: the propagating options and the separators. *)
(* A oneof overrides nothing else.                                         *)
ApplyOneof(s, o) ==
    [s EXCEPT !.format = OverrideFormat(s.format, o),
              !.joinSep = Or(o.joinSep, s.joinSep),
              !.indexSep = Or(o.indexSep, s.indexSep)]

(* A field overrides the depth bound too; its flatten option is a boundary *)
(* decision of the walk.                                                   *)
ApplyField(s, o) ==
    [ApplyOneof(s, o) EXCEPT !.maxDepth = Or(o.maxDepth, s.maxDepth)]

(* A file and a message override everything.                               *)
ApplyMessage(s, o) ==
    [ApplyField(s, o) EXCEPT !.flatten = Or(o.flatten, s.flatten),
                             !.policy = Or(o.policy, s.policy),
                             !.wins = Or(o.wins, s.wins)]

(* The scope inside a message type, wherever it is used.                   *)
InteriorScope(file, own) == ApplyMessage(ApplyMessage(BuiltinDefaults, file), own)

(* Fault: the depth bound of the place of use reaches the nested message.  *)
RootScopeOuterDepth(file, own, outer) ==
    LET in == InteriorScope(file, own)
        s  == ApplyMessage([outer EXCEPT !.flatten = in.flatten,
                                         !.policy = in.policy,
                                         !.wins = in.wins], own)
    IN  IF outer.exhausted THEN [s EXCEPT !.flatten = "NONE"] ELSE s

(* The root scope of a message nested under an outer scope: shape, depth   *)
(* bound and collision handling are its own, formats are inherited and     *)
(* then refined; past the depth bound it is not flattened.                 *)
RootScope(file, own, outer) ==
    LET in == InteriorScope(file, own)
        s  == ApplyMessage([outer EXCEPT !.flatten = in.flatten,
                                         !.maxDepth = in.maxDepth,
                                         !.policy = in.policy,
                                         !.wins = in.wins], own)
    IN  IF outer.exhausted THEN [s EXCEPT !.flatten = "NONE"] ELSE s

(* Fault: exhausted scopes are not told apart.                             *)
FingerprintOpen(s) ==
    [format |-> s.format, separators |-> s.joinSep \o <<Comma>> \o s.indexSep,
     exhausted |-> FALSE]

(* The fingerprint is a string: its options joined with commas.  All but   *)
(* the two separators are numbers and booleans, so the text between them   *)
(* is known, but not where the one separator ends and the other begins.    *)
Fingerprint(s) ==
    [format |-> s.format, separators |-> s.joinSep \o <<Comma>> \o s.indexSep,
     exhausted |-> s.exhausted]
=============================================================================
