---------------------------- MODULE MCKeyNaming ----------------------------
(***************************************************************************)
(* All names of up to two characters and some longer ones, alone and below *)
(* each other.                                                             *)
(***************************************************************************)
EXTENDS KeyNaming

a == <<"a", "lower">>
A == <<"a", "upper">>
b == <<"b", "lower">>
One == <<"1", "digit">>

Texts(chars, lengths) == UNION {[1..n -> chars] : n \in lengths}

w == <<"w", "wide">>

MCSegments == Texts({a, A, b, Bar}, 1..2)
                  \cup {<<w>>, <<a, Bar, w>>, <<One>>, <<a, One>>, <<a, Bar, One>>, <<One, b>>}
                  \cup {<<a, Bar, b>>, <<A, b, A>>, <<A, A, b>>, <<a, A, b>>, <<Bar, a, Bar>>}
                  \cup {<<A, Bar, b, a>>, <<a, b, Bar, a, b>>, <<A, b, A, b>>, <<a, b, One, Bar, b, a>>}

MCSeparators == {<<Bar>>, <<b>>, <<One>>}
MCIndices == {1, 10, 11}
MCAffixes == {<<>>, <<b, Bar>>, <<Bar, a>>}
=============================================================================
