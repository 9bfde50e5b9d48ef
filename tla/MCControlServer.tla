-------------------------- MODULE MCControlServer --------------------------
(* Small instances of ControlServer. *)
EXTENDS ControlServer, TLC

CONSTANTS a, b, r1, r2

\* A chain of three, a sibling of its end and one of its middle.
Tree == {<<a>>, <<a, a>>, <<a, a, a>>, <<a, a, b>>, <<a, b>>}
Vanishing == {<<a, a>>}

\* One request for a path that may vanish, one for a path around it.
TwoWishes == [r \in Requests |->
                IF r = r1 THEN [path |-> <<a, a>>, ro |-> TRUE]
                          ELSE [path |-> <<a>>, ro |-> FALSE]]

=============================================================================
