------------------------- MODULE MCBrowserControls -------------------------
(* A zone of two rooms and a light of two bulbs, with the payloads that      *)
(* matter: setpoints that round up or down, bulbs that are offline,          *)
(* cannot be dimmed or report nonsense.                                      *)
EXTENDS BrowserControls

TwoRooms == <<"bedroom", "office">>

TwoReports ==
    {[power |-> "1", temp |-> 185, quiet |-> "0"], [power |-> "0", temp |-> 224, quiet |-> "1"]}

FourStates ==
    {[state |-> "ON", brightness |-> 254, availability |-> "online"],
     [state |-> "ON", brightness |-> 254, availability |-> "offline"],
     [state |-> "OFF", brightness |-> 0, availability |-> "none"],
     [state |-> "bad", brightness |-> NoNumber, availability |-> "none"]}

=============================================================================
