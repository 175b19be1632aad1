------------------------------ MODULE MCPanel ------------------------------
(* Small instances of Panel for TLC. *)
EXTENDS Panel

\* a box without a Record LED, and one with all three
TwoLeds == <<"Message", "Power">>
ThreeLeds == <<"Message", "Record", "Power">>
TwoLevels == {30, 100}
OneLevel == {100}
TwoColours == {"red", "blue"}
OneColour == {"red"}

NoFaults == {{}}
\* PowerManager does not answer, or does
PowerFaults == {{}, {"PowerManager"}}
\* one call of a handler fails, or none
SomeFaults == PowerFaults \cup {{"Power"}, {"Manager"}}
=============================================================================
