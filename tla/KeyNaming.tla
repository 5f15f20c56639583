----------------------------- MODULE KeyNaming -----------------------------
(***************************************************************************)
(* How names become JSON keys and Go identifiers: the prefixes, suffixes   *)
(* and segments gathered while the walk descends (keyParts), the casings,  *)
(* the flags of contested keys, field masks, and enum names without their  *)
(* type's prefix, and the keys of a list's elements under their indices.   *)
(*                                                                         *)
(* A text is a sequence of characters <<letter, class>>; the class "wide"  *)
(* is for letters of more than one byte that have no case.                 *)
(***************************************************************************)
EXTENDS Naturals, SequencesExt

CONSTANTS Affixes,   \* the prefixes and suffixes considered, <<>> for none
          Segments,  \* the names of fields
          MaxDepth,  \* how many levels the walk descends
          Separators, \* index separators, which are never empty
          Indices    \* the positions of elements considered

Bar == <<"_", "separator">>

IsSeparator(c) == c[2] = "separator"
IsUpper(c) == c[2] = "upper"
IsLower(c) == c[2] = "lower"
IsDigit(c) == c[2] = "digit"

Lower(c) == IF IsUpper(c) THEN <<c[1], "lower">> ELSE c
Upper(c) == IF IsLower(c) THEN <<c[1], "upper">> ELSE c

Lowered(text) == [n \in DOMAIN text |-> Lower(text[n])]
Uppered(text) == [n \in DOMAIN text |-> Upper(text[n])]

Joined(words, separator) ==
    FlattenSeq([n \in DOMAIN words |-> IF n = 1 THEN words[n] ELSE separator \o words[n]])

-----------------------------------------------------------------------------
(* Casing                                                                  *)

(* Fault: what follows a capital is not looked at.                         *)
BoundaryAfterLower(text, n) == IsUpper(text[n]) /\ n > 1 /\ IsLower(text[n - 1])

(* A capital begins a word after a small letter, and before one unless it  *)
(* is at the beginning of its word already ("JSONValue").                  *)
Boundary(text, n) ==
    /\ IsUpper(text[n])
    /\ n > 1
    /\ \/ IsLower(text[n - 1])
       \/ n < Len(text) /\ IsLower(text[n + 1])

BeginsWord(text, n) ==
    /\ ~IsSeparator(text[n])
    /\ n = 1 \/ IsSeparator(text[n - 1]) \/ Boundary(text, n)

(* Fault: a word's last character is left behind.                          *)
WordShort(text, n) ==
    LET ends == {m \in n + 1..Len(text) : IsSeparator(text[m]) \/ BeginsWord(text, m)}
    IN  SubSeq(text, n, IF ends = {} THEN Len(text) ELSE Max({n, Min(ends) - 2}))

Word(text, n) ==
    LET ends == {m \in n + 1..Len(text) : IsSeparator(text[m]) \/ BeginsWord(text, m)}
    IN  SubSeq(text, n, IF ends = {} THEN Len(text) ELSE Min(ends) - 1)

SplitWords(text) ==
    LET starts == SelectSeq([n \in DOMAIN text |-> n], LAMBDA n : BeginsWord(text, n))
    IN  [n \in DOMAIN starts |-> Lowered(Word(text, starts[n]))]

(* Fault: words are put together as they are.                              *)
AsItIs(word) == word

(* The first byte of a word, in upper case: half of a wide letter is none. *)
Capital(word) ==
    <<IF word[1][2] = "wide" THEN <<word[1][1], "broken">> ELSE Upper(word[1])>> \o Tail(word)

Camel(words) ==
    FlattenSeq([n \in DOMAIN words |-> IF n = 1 THEN words[n] ELSE Capital(words[n])])

Snake(words) == Joined(words, <<Bar>>)

Cases == {"ORIGINAL", "SNAKE", "CAMEL"}

ApplyCase(raw, case) ==
    CASE case = "ORIGINAL" -> raw
      [] case = "SNAKE" -> Snake(SplitWords(raw))
      [] OTHER -> Camel(SplitWords(raw))

-----------------------------------------------------------------------------
(* keyParts                                                                *)

VARIABLES parts,  \* keyParts
          levels  \* what was pushed, outermost first

vars == <<parts, levels>>

NonEmpty(text) == IF text = <<>> THEN <<>> ELSE <<text>>

Init == /\ parts = [prefixes |-> <<>>, suffixes |-> <<>>, segments |-> <<>>]
        /\ levels = <<>>

(* push *)
Push(prefix, suffix, segment) ==
    /\ Len(levels) < MaxDepth
    /\ parts' = [prefixes |-> parts.prefixes \o NonEmpty(prefix),
                 suffixes |-> parts.suffixes \o NonEmpty(suffix),
                 segments |-> parts.segments \o NonEmpty(segment)]
    /\ levels' = Append(levels, [prefix |-> prefix, suffix |-> suffix, segment |-> segment])

Next == \E prefix, suffix \in Affixes, segment \in Segments : Push(prefix, suffix, segment)

Spec == Init /\ [][Next]_vars

(* Fault: suffixes are put on outermost first.                             *)
SuffixesOutward == FlattenSeq(parts.suffixes)

SuffixesInward == FlattenSeq(Reverse(parts.suffixes))

(* key, before casing *)
Raw(from) ==
    FlattenSeq(parts.prefixes)
        \o (IF from = "PATH" THEN Joined(parts.segments, <<Bar>>)
            ELSE IF parts.segments = <<>> THEN <<>> ELSE Last(parts.segments))
        \o SuffixesInward

Key(from, case) == ApplyCase(Raw(from), case)

-----------------------------------------------------------------------------
(* Other names                                                             *)

(* guardVar, after "wrote" *)
GuardVar(key) ==
    LET words == SplitWords(key) IN FlattenSeq([n \in DOMAIN words |-> Capital(words[n])])

AfterBar(path, n) == IF n > 1 /\ path[n - 1] = Bar THEN Upper(path[n]) ELSE path[n]

(* lowerCamelPath *)
LowerCamelPath(path) ==
    LET kept == SelectSeq([n \in DOMAIN path |-> n], LAMBDA n : path[n] # Bar)
    IN  [m \in DOMAIN kept |-> AfterBar(path, kept[m])]

ScreamingSnake(name) ==
    LET words == SplitWords(name)
    IN  Joined([n \in DOMAIN words |-> Uppered(words[n])], <<Bar>>)

(* Fault: a value that is the prefix is stripped to nothing.               *)
StripsAll(prefix, value) == IsPrefix(prefix, value)

Strips(prefix, value) == IsPrefix(prefix, value) /\ Len(value) > Len(prefix)

StripEnumPrefix(enum, value) ==
    LET prefix == Append(ScreamingSnake(enum), Bar)
    IN  IF Strips(prefix, value) THEN SubSeq(value, Len(prefix) + 1, Len(value)) ELSE value

Digits == <<"0", "1", "2", "3", "4", "5", "6", "7", "8", "9">>

(* strconv.Itoa *)
Itoa[i \in Nat] ==
    LET digit == <<Digits[(i % 10) + 1], "digit">>
    IN  IF i < 10 THEN <<digit>> ELSE Append(Itoa[i \div 10], digit)

(* The key of element i that is no object: after the key of its field.     *)
IndexedKey(base, separator, i) == base \o separator \o Itoa[i]

(* What the keys of element i begin with when it is an object.             *)
IndexPrefix(base, separator, i) == IndexedKey(base, separator, i) \o separator

-----------------------------------------------------------------------------
(* Properties                                                              *)

(* The letters of a text, whatever their case.                             *)
Letters(text) == Lowered(SelectSeq(text, LAMBDA c : ~IsSeparator(c)))

(* Each level's prefix and suffix enclose what its fields are called.      *)
Enclosed(name) ==
    LET from[n \in 1..Len(levels) + 1] ==
            IF n > Len(levels) THEN name ELSE levels[n].prefix \o from[n + 1] \o levels[n].suffix
    IN  from[1]

(* Prefixes and suffixes nest: an outer level's are outside an inner       *)
(* level's, around the field's own name (keyParts.key).                    *)
AffixesNest == levels # <<>> => Raw("LEAF") = Enclosed(Last(levels).segment)

(* Casing changes separators and case only: no letter or digit of a key is *)
(* lost, added or moved, as long as none is wide (applyCase).              *)
CasingKeepsText ==
    \A from \in {"LEAF", "PATH"}, case \in Cases :
        (\A c \in Range(Raw(from)) : c[2] # "wide")
            => Letters(Key(from, case)) = Letters(Raw(from))

(* The words of a text begin with letters, and go on with small ones.      *)
Plain(words) == \A n \in DOMAIN words : Len(words[n]) > 1 /\ IsLower(words[n][1])
                                                           /\ IsLower(words[n][2])

(* Casing a cased key again changes nothing: for snake case always, for    *)
(* camel case when every word has two letters (splitWords).                *)
CasingStable ==
    \A from \in {"LEAF", "PATH"} :
        /\ ApplyCase(Key(from, "SNAKE"), "SNAKE") = Key(from, "SNAKE")
        /\ Plain(SplitWords(Raw(from))) =>
              /\ ApplyCase(Key(from, "CAMEL"), "CAMEL") = Key(from, "CAMEL")
              /\ ApplyCase(Key(from, "CAMEL"), "SNAKE") = Key(from, "SNAKE")

Names == {levels[n].segment : n \in DOMAIN levels}

(* Keys whose words begin with letters, and which casing tells apart, get  *)
(* flags of two names (guardVar).                                          *)
FlagsApart ==
    \A x, y \in Names :
        /\ \A word \in Range(SplitWords(x)) \cup Range(SplitWords(y)) : IsLower(word[1])
        /\ ApplyCase(x, "SNAKE") # ApplyCase(y, "SNAKE")
        => GuardVar(ApplyCase(x, "SNAKE")) # GuardVar(ApplyCase(y, "SNAKE"))

(* The paths field masks may hold: small letters and digits, and           *)
(* underscores before small letters only.                                  *)
MaskPath(path) ==
    \A n \in DOMAIN path : /\ ~IsUpper(path[n])
                           /\ path[n] = Bar => n < Len(path) /\ IsLower(path[n + 1])

(* Field mask paths are not spelled alike (lowerCamelPath).                *)
MaskPathsApart ==
    \A x, y \in Names :
        MaskPath(x) /\ MaskPath(y) /\ x # y => LowerCamelPath(x) # LowerCamelPath(y)

(* The elements of a list do not share keys under CARDINALITY_INDEXED: not *)
(* when each has one, and not when each brings its own, unless digits of   *)
(* the separator could be the index's (collectionIndexed).                 *)
IndexedKeysApart ==
    LET base == Raw("LEAF")
    IN  \A separator \in Separators : \A i, j \in Indices :
            i < j =>
                /\ IndexedKey(base, separator, i) # IndexedKey(base, separator, j)
                /\ ~IsDigit(separator[1]) =>
                      \A x, y \in Names : IndexPrefix(base, separator, i) \o x
                                             # IndexPrefix(base, separator, j) \o y

(* Names made from two names of one message stay two: the flags of         *)
(* contested keys, the paths of a field mask, and the keys that indices    *)
(* and the keys of elements make.                                          *)
NamesStayApart == FlagsApart /\ MaskPathsApart /\ IndexedKeysApart

(* strip_prefix removes the enum's name in capitals and no more, and never *)
(* leaves a value without a name (stripEnumPrefix).                        *)
StripLeavesName ==
    \A x, y \in Names :
        /\ StripEnumPrefix(x, Append(ScreamingSnake(x), Bar) \o y) = y
        /\ StripEnumPrefix(x, y) # <<>> /\ IsSuffix(StripEnumPrefix(x, y), y)
        /\ StripEnumPrefix(x, Append(ScreamingSnake(x), Bar)) # <<>>
=============================================================================
