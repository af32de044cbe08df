--------------------------- MODULE MCLiveUpdates ---------------------------
(* A small house for LiveUpdates.                                           *)
EXTENDS LiveUpdates

\* A room, here with two of its topics, and a light that shares a bulb with a
\* group of lights.
RoomAndLights == << <<"temp", "power">>, <<"bulb">>, <<"bulb">> >>

=============================================================================
