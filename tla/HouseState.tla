----------------------------- MODULE HouseState -----------------------------
(***************************************************************************)
(* What the server makes of the payloads in its cache: the events of rooms  *)
(* and lights (handlers.go), and the readings of a zone and the actions of  *)
(* a light in GET /api (api.go).  All of it are pure functions of the cache.*)
(*                                                                          *)
(* A room's cache is [power, temp, quiet], a bulb's [state, brightness,     *)
(* availability].  Temperatures are in tenths of a degree.                  *)
(***************************************************************************)
EXTENDS Integers, FiniteSets, FiniteSetsExt, Functions

NoNumber == -1   \* nothing received, or not a number

RoomCache == [power : {"none", "0", "1", "2"}, temp : Nat \cup {NoNumber}, quiet : {"none", "0", "1"}]

\* state "bad" stands for a payload that is not the JSON expected.
BulbCache == [state : {"none", "bad", "ON", "OFF"}, brightness : 0..254 \cup {NoNumber},
              availability : {"none", "online", "offline"}]

-----------------------------------------------------------------------------

\* 1 is heating, 2 cooling; a room that never reported a setpoint shows 20.
buildHeatingEvent(room) ==
    [power |-> room.power \in {"1", "2"},
     target_temp |-> IF room.temp = NoNumber THEN 200 ELSE room.temp,
     quiet |-> room.quiet = "1"]

\* What is not an explicit "offline" counts as available.
isEntityAvailable(bulb) == bulb.availability # "offline"

parseLightPayload(bulb) ==
    IF bulb.state = "bad" THEN [on |-> FALSE, brightness |-> NoNumber]
    ELSE [on |-> bulb.state = "ON", brightness |-> bulb.brightness]

\* One round of the loop over the bulbs of a light.
Join(bulb, event) ==
    LET parsed == parseLightPayload(bulb)
    IN  [on |-> event.on \/ parsed.on,
         brightness |-> Max({event.brightness, parsed.brightness}),
         brightness_on |-> event.brightness_on \/ (parsed.on /\ parsed.brightness >= 0)]

NoLight == [on |-> FALSE, brightness |-> NoNumber, brightness_on |-> FALSE]

\* Mutant: bulbs that cannot be reached count, too.
CountUnavailable(bulb, event) == IF bulb.state # "none" THEN Join(bulb, event) ELSE event

\* A bulb that is not available, or not heard from, is skipped.
JoinIfHeard(bulb, event) ==
    IF isEntityAvailable(bulb) /\ bulb.state # "none" THEN Join(bulb, event) ELSE event

\* A light is a group of bulbs.
buildLightEvent(bulbs) == FoldFunction(JoinIfHeard, NoLight, bulbs)

-----------------------------------------------------------------------------

\* The readings of a zone count the rooms that are on, or all if none is.
summarizeHeating(rooms) ==
    LET on == {r \in DOMAIN rooms : rooms[r].power}
        considered == IF on # {} THEN on ELSE DOMAIN rooms
    IN  [target_temp |-> Max({rooms[r].target_temp : r \in considered}),
         quiet |-> \A r \in considered : rooms[r].quiet,
         any_on |-> on # {}]

\* A light of the /api document, from its event.
apiLight(event) ==
    LET dimmable == event.brightness # NoNumber
    IN  [dimmable |-> dimmable,
         set_power |-> IF dimmable THEN event.brightness ELSE NoNumber,
         actions |-> {"set_power"} \cup (IF dimmable THEN {"set_brightness"} ELSE {})]

-----------------------------------------------------------------------------

\* A light "is on if ANY of them is on. Bulbs that are unreachable count as
\* off"; its brightness is "the highest level among the group's dimmable bulbs",
\* absent if no reachable bulb has reported one; brightness_on says "whether any
\* dimmable bulb is on" (api.go:447-453).
LightAsDocumented(bulbs) ==
    LET event == buildLightEvent(bulbs)
        reachable == {b \in DOMAIN bulbs : bulbs[b].availability # "offline"}
        on == {b \in reachable : bulbs[b].state = "ON"}
        dimmable == {b \in reachable : /\ bulbs[b].state \in {"ON", "OFF"}
                                       /\ bulbs[b].brightness # NoNumber}
    IN  /\ event.on <=> on # {}
        /\ IF dimmable = {} THEN event.brightness = NoNumber
           ELSE event.brightness = Max({bulbs[b].brightness : b \in dimmable})
        /\ event.brightness_on <=> on \cap dimmable # {}

=============================================================================
