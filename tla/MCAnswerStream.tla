----------------------------- MODULE MCAnswerStream -----------------------------
(***************************************************************************)
(* Small instances of AnswerStream.                                        *)
(***************************************************************************)
EXTENDS AnswerStream

Strings(n) == UNION {[1..k -> Chars] : k \in 0..n}

\* Every text of up to two characters, and tags beside one another, cut short, with two
\* digits, not closed, opened twice.
MCAnswers ==
  Strings(2) \cup
  {<<"[", "c", "1", "]">>, <<"x", "[", "c", "1", "]", "[", "c", "1", "]">>,
   <<"[", "c", "1", "1", "]", "x">>, <<"[", "c", "]", "[", "c", "1", "]">>,
   <<"[", "c", "1", "[", "c", "1", "]">>, <<"w", "[", "c", "1", "]", "w", "x">>,
   <<"[", "c", "x", "]", "1", "]">>}

\* [chunk:11] is of no excerpt.
MCExcerpts == {<<"1">>}
===============================================================================
