---------------------------- MODULE MCTextStream ----------------------------
(* TextStream for TLC: every text of a few characters, one of them of two bytes. *)
EXTENDS TextStream

CONSTANT MaxCharacters  \* bound: the length of the longest text

Characters == {<<"a">>, <<"b">>, <<"e1", "e2">>}
MCContinuation == {"e2"}

MCTexts == {FlattenSeq(t) : t \in SeqOf(Characters, MaxCharacters)}

e == <<"e1", "e2">>
\* No stop sequence of a list begins or lies inside another of the list.
Disjoint == {{}, {<<"a">>}, {<<"a", "b">>}, {<<"a", "a">>}, {e}, {e \o <<"a">>},
             {<<"b", "a">> \o e}, {<<"a", "a">>, e \o <<"b">>}}
\* One stop sequence lies inside another.
Nested == {{<<"a", "b", "a">>, <<"b">>}}
MCStopLists == Disjoint \cup Nested
=============================================================================
