-------------------------- MODULE MCHeatingControl --------------------------
(* A zone with two rooms, and a scene for leaving the house, which does not *)
(* have its last message retained.                                          *)
EXTENDS HeatingControl, TLC

TwoRooms == <<"den", "study">>

Away == << <<Power("den"), "0", "retained">>, <<Lamp, "off", "once">>, <<Power("study"), "0", "once">> >>
OneScene == {Away}

\* Requests differ in nothing but their names.
Symmetry == Permutations(Requests)

=============================================================================
