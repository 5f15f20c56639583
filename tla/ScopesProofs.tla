---------------------------- MODULE ScopesProofs ---------------------------
(***************************************************************************)
(* What the operators of Scopes return, and when two places that share a   *)
(* fingerprint may share an encoder.                                       *)
(***************************************************************************)
EXTENDS Scopes, TLAPS, SequenceTheorems

(* Overriding a scope gives a scope, for a oneof, a field and a message.   *)
LEMMA OneofScopeType ==
    ASSUME NEW s \in Scope, NEW o \in Options
    PROVE  /\ ApplyOneof(s, o) \in Scope
           /\ ApplyOneof(s, o).maxDepth = s.maxDepth
           /\ ApplyOneof(s, o).indexSep = Or(o.indexSep, s.indexSep)
<1>1. OverrideFormat(s.format, o) \in [FormatOption -> FormatValue]
  BY DEF OverrideFormat, Or, Scope, Options, Optional
<1>2. Or(o.joinSep, s.joinSep) \in Seq(Char) /\ Or(o.indexSep, s.indexSep) \in Seq(Char)
  BY DEF Or, Scope, Options, Optional
<1> QED
  BY <1>1, <1>2 DEF ApplyOneof, Scope

LEMMA FieldScopeType ==
    ASSUME NEW s \in Scope, NEW o \in Options
    PROVE  /\ ApplyField(s, o) \in Scope
           /\ ApplyField(s, o).maxDepth = Or(o.maxDepth, s.maxDepth)
           /\ ApplyField(s, o).indexSep = Or(o.indexSep, s.indexSep)
<1>1. Or(o.maxDepth, s.maxDepth) \in Nat
  BY DEF Or, Scope, Options, Optional
<1>2. ApplyOneof(s, o) \in Scope /\ ApplyOneof(s, o).indexSep = Or(o.indexSep, s.indexSep)
  BY OneofScopeType
<1> HIDE DEF ApplyOneof
<1> QED
  BY <1>1, <1>2 DEF ApplyField, Scope

LEMMA MessageScopeType ==
    ASSUME NEW s \in Scope, NEW o \in Options
    PROVE  /\ ApplyMessage(s, o) \in Scope
           /\ ApplyMessage(s, o).maxDepth = Or(o.maxDepth, s.maxDepth)
           /\ ApplyMessage(s, o).indexSep = Or(o.indexSep, s.indexSep)
<1>1. /\ Or(o.flatten, s.flatten) \in FlattenMode
      /\ Or(o.policy, s.policy) \in CollisionPolicy
      /\ Or(o.wins, s.wins) \in CollisionWins
  BY DEF Or, Scope, Options, Optional
<1>2. /\ ApplyField(s, o) \in Scope
      /\ ApplyField(s, o).maxDepth = Or(o.maxDepth, s.maxDepth)
      /\ ApplyField(s, o).indexSep = Or(o.indexSep, s.indexSep)
  BY FieldScopeType
<1> QED
  BY <1>1, <1>2 DEF ApplyMessage, Scope

LEMMA BuiltinDefaultsType == BuiltinDefaults \in Scope
BY FormatAssumption, SeparatorAssumption
   DEF BuiltinDefaults, Scope, FlattenMode, CollisionPolicy, CollisionWins

LEMMA InteriorScopeType ==
    ASSUME NEW file \in Options, NEW own \in Options
    PROVE  /\ InteriorScope(file, own) \in Scope
           /\ InteriorScope(file, own).maxDepth = Or(own.maxDepth, Or(file.maxDepth, 0))
           /\ InteriorScope(file, own).indexSep =
                 Or(own.indexSep, Or(file.indexSep, BuiltinIndexSep))
<1>1. /\ ApplyMessage(BuiltinDefaults, file) \in Scope
      /\ ApplyMessage(BuiltinDefaults, file).maxDepth = Or(file.maxDepth, 0)
      /\ ApplyMessage(BuiltinDefaults, file).indexSep = Or(file.indexSep, BuiltinIndexSep)
  BY BuiltinDefaultsType, MessageScopeType DEF BuiltinDefaults
<1> QED
  BY <1>1, MessageScopeType DEF InteriorScope

(* What a nested message takes from the place it is used at.               *)
Nested(in, outer) == [flatten |-> in.flatten, maxDepth |-> in.maxDepth,
                      format |-> outer.format, joinSep |-> outer.joinSep,
                      indexSep |-> outer.indexSep, policy |-> in.policy,
                      wins |-> in.wins, exhausted |-> outer.exhausted]

LEMMA NestedType ==
    ASSUME NEW in \in Scope, NEW outer \in Scope
    PROVE  Nested(in, outer) \in Scope
BY DEF Nested, Scope

LEMMA NestedDef ==
    ASSUME NEW in \in Scope, NEW outer \in Scope
    PROVE  [outer EXCEPT !.flatten = in.flatten, !.maxDepth = in.maxDepth,
                         !.policy = in.policy, !.wins = in.wins] = Nested(in, outer)
<1> DEFINE r == [outer EXCEPT !.flatten = in.flatten, !.maxDepth = in.maxDepth,
                              !.policy = in.policy, !.wins = in.wins]
<1>1. r \in Scope
  BY DEF Scope
<1>2. /\ r.flatten = in.flatten /\ r.maxDepth = in.maxDepth
      /\ r.format = outer.format /\ r.joinSep = outer.joinSep
      /\ r.indexSep = outer.indexSep /\ r.policy = in.policy
      /\ r.wins = in.wins /\ r.exhausted = outer.exhausted
  BY DEF Scope
<1> HIDE DEF r
<1>3. r = Nested(in, outer)
  BY <1>1, <1>2 DEF Nested, Scope
<1> QED
  BY <1>3 DEF r

LEMMA RootScopeDef ==
    ASSUME NEW file \in Options, NEW own \in Options, NEW outer \in Scope
    PROVE  RootScope(file, own, outer) =
              LET s == ApplyMessage(Nested(InteriorScope(file, own), outer), own)
              IN  IF outer.exhausted THEN [s EXCEPT !.flatten = "NONE"] ELSE s
BY InteriorScopeType, NestedDef DEF RootScope

LEMMA RootScopeType ==
    ASSUME NEW file \in Options, NEW own \in Options, NEW outer \in Scope
    PROVE  /\ RootScope(file, own, outer) \in Scope
           /\ RootScope(file, own, outer).maxDepth = Or(own.maxDepth, Or(file.maxDepth, 0))
           /\ RootScope(file, own, outer).indexSep = Or(own.indexSep, outer.indexSep)
<1> DEFINE in == InteriorScope(file, own)
           s == ApplyMessage(Nested(in, outer), own)
<1>1. in \in Scope /\ in.maxDepth = Or(own.maxDepth, Or(file.maxDepth, 0))
  BY InteriorScopeType
<1>2. /\ Nested(in, outer) \in Scope
      /\ Nested(in, outer).maxDepth = in.maxDepth
      /\ Nested(in, outer).indexSep = outer.indexSep
  BY <1>1, NestedType DEF Nested
<1>3. /\ s \in Scope
      /\ s.maxDepth = Or(own.maxDepth, in.maxDepth)
      /\ s.indexSep = Or(own.indexSep, outer.indexSep)
  BY <1>2, MessageScopeType
<1>4. s.maxDepth = Or(own.maxDepth, Or(file.maxDepth, 0))
  BY <1>1, <1>3 DEF Or
<1>5. RootScope(file, own, outer) = IF outer.exhausted THEN [s EXCEPT !.flatten = "NONE"] ELSE s
  BY RootScopeDef
<1> HIDE DEF s
<1>6. /\ [s EXCEPT !.flatten = "NONE"] \in Scope
      /\ [s EXCEPT !.flatten = "NONE"].maxDepth = s.maxDepth
      /\ [s EXCEPT !.flatten = "NONE"].indexSep = s.indexSep
  BY <1>3 DEF Scope, FlattenMode
<1> QED
  BY <1>3, <1>4, <1>5, <1>6

-----------------------------------------------------------------------------
(* Two strings joined with a comma can be told apart again when the second *)
(* has none.                                                               *)
CommaFree(s) == \A n \in DOMAIN s : s[n] # Comma

LEMMA SplitAtComma ==
    ASSUME NEW a \in Seq(Char), NEW b \in Seq(Char),
           NEW c \in Seq(Char), NEW d \in Seq(Char),
           a \o <<Comma>> \o b = c \o <<Comma>> \o d,
           CommaFree(b), CommaFree(d)
    PROVE  a = c /\ b = d
<1> DEFINE whole == a \o <<Comma>> \o b
<1>1. Len(a) + 1 + Len(b) = Len(c) + 1 + Len(d)
  <2>1. Len(a \o <<Comma>> \o b) = Len(a) + 1 + Len(b)
    OBVIOUS
  <2>2. Len(c \o <<Comma>> \o d) = Len(c) + 1 + Len(d)
    OBVIOUS
  <2> QED
    BY <2>1, <2>2
<1>2. /\ \A n \in 1..Len(a) : whole[n] = a[n]
      /\ whole[Len(a) + 1] = Comma
      /\ \A n \in 1..Len(b) : whole[Len(a) + 1 + n] = b[n]
  OBVIOUS
<1>3. /\ \A n \in 1..Len(c) : whole[n] = c[n]
      /\ whole[Len(c) + 1] = Comma
      /\ \A n \in 1..Len(d) : whole[Len(c) + 1 + n] = d[n]
  <2>1. whole = c \o <<Comma>> \o d
    OBVIOUS
  <2> HIDE DEF whole
  <2> QED
    BY ONLY <2>1, c \in Seq(Char), d \in Seq(Char)
<1> HIDE DEF whole
<1>0. /\ \A n \in 1..Len(b) : b[n] # Comma
      /\ \A n \in 1..Len(d) : d[n] # Comma
  BY DEF CommaFree
<1>4. ~(Len(a) < Len(c))
  <2> SUFFICES ASSUME Len(a) < Len(c) PROVE FALSE
    OBVIOUS
  <2>1. Len(c) - Len(a) \in 1..Len(b)
    BY <1>1
  <2>2. whole[Len(c) + 1] = b[Len(c) - Len(a)]
    BY <2>1, <1>2
  <2> QED
    BY <2>1, <2>2, <1>3, <1>0
<1>5. ~(Len(c) < Len(a))
  <2> SUFFICES ASSUME Len(c) < Len(a) PROVE FALSE
    OBVIOUS
  <2>1. Len(a) - Len(c) \in 1..Len(d)
    BY <1>1
  <2>2. whole[Len(a) + 1] = d[Len(a) - Len(c)]
    BY <2>1, <1>3
  <2> QED
    BY <2>1, <2>2, <1>2, <1>0
<1>6. Len(a) = Len(c) /\ Len(b) = Len(d)
  BY <1>1, <1>4, <1>5
<1>7. a = c
  BY <1>2, <1>3, <1>6, SeqEqual
<1>8. b = d
  BY <1>2, <1>3, <1>6, SeqEqual
<1> QED
  BY <1>7, <1>8

(* Two places whose fingerprints agree give a nested message one and the   *)
(* same root scope, so the encoder they share is right for both, provided  *)
(* the index separators have no comma: the fingerprint leaves out nothing  *)
(* that reaches into a nested message.                                     *)
THEOREM SharedScopeSound ==
    ASSUME NEW file \in Options, NEW own \in Options,
           NEW s \in Scope, NEW t \in Scope,
           Fingerprint(s) = Fingerprint(t),
           CommaFree(s.indexSep), CommaFree(t.indexSep)
    PROVE  RootScope(file, own, s) = RootScope(file, own, t)
<1>1. /\ s.format = t.format
      /\ s.exhausted = t.exhausted
      /\ s.joinSep \o <<Comma>> \o s.indexSep = t.joinSep \o <<Comma>> \o t.indexSep
  BY DEF Fingerprint
<1>2. /\ s.joinSep \in Seq(Char) /\ s.indexSep \in Seq(Char)
      /\ t.joinSep \in Seq(Char) /\ t.indexSep \in Seq(Char)
  BY DEF Scope
<1>3. s.joinSep = t.joinSep /\ s.indexSep = t.indexSep
  <2> DEFINE a == s.joinSep
             b == s.indexSep
             c == t.joinSep
             d == t.indexSep
  <2>1. /\ a \o <<Comma>> \o b = c \o <<Comma>> \o d
        /\ CommaFree(b) /\ CommaFree(d)
    BY <1>1
  <2>2. a \in Seq(Char) /\ b \in Seq(Char) /\ c \in Seq(Char) /\ d \in Seq(Char)
    BY <1>2
  <2> HIDE DEF a, b, c, d
  <2>3. a = c /\ b = d
    BY <2>1, <2>2, SplitAtComma
  <2> QED
    BY <2>3 DEF a, b, c, d
<1>4. InteriorScope(file, own) \in Scope
  BY InteriorScopeType
<1>5. Nested(InteriorScope(file, own), s) = Nested(InteriorScope(file, own), t)
  BY <1>1, <1>3 DEF Nested
<1> QED
  BY <1>1, <1>5, RootScopeDef

(* The exported methods of a message call the encoder of its own scope,    *)
(* and that encoder is planned under exactly that scope: overriding a      *)
(* scope twice with the same options changes nothing.                      *)
THEOREM OwnScopeIsRoot ==
    ASSUME NEW file \in Options, NEW own \in Options
    PROVE  RootScope(file, own, InteriorScope(file, own)) = InteriorScope(file, own)
<1> DEFINE mid == ApplyMessage(BuiltinDefaults, file)
           in  == InteriorScope(file, own)
<1>1. mid \in Scope /\ in \in Scope
  BY BuiltinDefaultsType, MessageScopeType, InteriorScopeType
<1>2. Nested(in, in) = in
  BY <1>1 DEF Nested, Scope
<1>3. ~in.exhausted
  <2>1. ~BuiltinDefaults.exhausted
    BY DEF BuiltinDefaults
  <2>2. ~mid.exhausted
    BY <2>1, BuiltinDefaultsType DEF ApplyMessage, ApplyField, ApplyOneof, Scope
  <2> HIDE DEF mid
  <2>3. ~ApplyMessage(mid, own).exhausted
    BY <2>2, <1>1 DEF ApplyMessage, ApplyField, ApplyOneof, Scope
  <2> QED
    BY <2>3 DEF InteriorScope, mid
<1>4. ApplyMessage(in, own) = in
  <2> HIDE DEF mid
  <2>1. in = ApplyMessage(mid, own)
    BY DEF InteriorScope, mid
  <2>2. /\ OverrideFormat(in.format, own) = in.format
        /\ Or(own.joinSep, in.joinSep) = in.joinSep
        /\ Or(own.indexSep, in.indexSep) = in.indexSep
        /\ Or(own.maxDepth, in.maxDepth) = in.maxDepth
        /\ Or(own.flatten, in.flatten) = in.flatten
        /\ Or(own.policy, in.policy) = in.policy
        /\ Or(own.wins, in.wins) = in.wins
    <3>1. /\ in.format = OverrideFormat(mid.format, own)
          /\ in.joinSep = Or(own.joinSep, mid.joinSep)
          /\ in.indexSep = Or(own.indexSep, mid.indexSep)
          /\ in.maxDepth = Or(own.maxDepth, mid.maxDepth)
          /\ in.flatten = Or(own.flatten, mid.flatten)
          /\ in.policy = Or(own.policy, mid.policy)
          /\ in.wins = Or(own.wins, mid.wins)
      BY <1>1, <2>1 DEF ApplyMessage, ApplyField, ApplyOneof, Scope
    <3>2. OverrideFormat(OverrideFormat(mid.format, own), own) = OverrideFormat(mid.format, own)
      BY DEF OverrideFormat, Or
    <3> HIDE DEF in
    <3> QED
      BY <3>1, <3>2 DEF Or
  <2> HIDE DEF in
  <2>3. in \in Scope
    BY <1>1
  <2> QED
    BY <2>2, <2>3 DEF ApplyMessage, ApplyField, ApplyOneof, Scope
<1> QED
  <2> HIDE DEF in
  <2>1. RootScope(file, own, in) =
           LET s == ApplyMessage(Nested(in, in), own)
           IN  IF in.exhausted THEN [s EXCEPT !.flatten = "NONE"] ELSE s
    BY <1>1, RootScopeDef DEF in
  <2>2. RootScope(file, own, in) = in
    BY <1>2, <1>3, <1>4, <2>1
  <2> QED
    BY <2>2 DEF in
=============================================================================
