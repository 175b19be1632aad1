------------------------------ MODULE MCLights ------------------------------
(* Small instances of Lights for TLC. *)
EXTENDS Lights

Names == {"Record", "Message", "Power", "Remote"}
\* dimmable or not, with colours or without
Kinds == {[levels |-> 10, min |-> 0, max |-> 100, colours |-> {}],
          [levels |-> 1, min |-> 0, max |-> 1, colours |-> {}],
          [levels |-> 10, min |-> 0, max |-> 100, colours |-> {"red", "blue"}],
          [levels |-> 3, min |-> 0, max |-> 100, colours |-> {"green"}]}

Named(name, kind) == [name |-> name, levels |-> kind.levels, min |-> kind.min,
                      max |-> kind.max, colours |-> kind.colours]
Orders(n) == {s \in [1..n -> Names] : \A a, b \in 1..n : s[a] = s[b] => a = b}

\* every box with at most three indicators, in every order
SmallBoxes ==
  UNION {{[k \in 1..n |-> Named(s[k], t[k])] : s \in Orders(n), t \in [1..n -> Kinds]}
         : n \in 0..3}
=============================================================================
