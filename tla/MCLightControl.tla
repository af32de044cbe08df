--------------------------- MODULE MCLightControl ---------------------------
(* A light with one dimmable bulb beside one that only switches.             *)
EXTENDS LightControl

TwoBulbs == <<"lamp", "plug">>

=============================================================================
