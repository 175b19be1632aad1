------------------------------ MODULE MCBlink ------------------------------
(* Small instances of Blink for TLC. *)
EXTENDS Blink

\* the shades of patterns; a pattern may show the same one twice
A == "amber"
B == "blue"
Colours == {A, B}
Off == {"dark", "white"}

\* no element, one, two, and a pattern that comes back to its first shade
SomePatterns == {<<>>, <<A>>, <<A, B>>, <<B, A, B>>}
TwoPatterns == {<<A>>, <<A, B>>}

\* for ever, once, twice, three times, and the largest int
SomeIterations == {-1, 0, 1, 2, IntMax}
FewIterations == {0, 1}
=============================================================================
