-------------------------- MODULE BrowserControls --------------------------
(***************************************************************************)
(* The controls of index.html: a heating card (a temperature slider and a   *)
(* quiet toggle for the zone, a power toggle for each room) or a light card *)
(* (a toggle and a brightness slider).  The two share nothing but code, so  *)
(* a behaviour is about one card.                                           *)
(*                                                                          *)
(* The page keeps a mirror of the server's events and renders them into its *)
(* controls, except those that the user is acting on or has just acted on.  *)
(***************************************************************************)
EXTENDS HouseState, Sequences

CONSTANTS Rooms, Bulbs,   \* the rooms of the zone, in order; the bulbs of the light
          RoomReports,    \* the payloads a room's topics may hold
          BulbReports,    \* the payloads of a bulb
          DragValues,     \* the values the user may drag a slider to
          MaxQueue        \* bound: events on their way to the page

ASSUME ReportsAssumption == RoomReports \subseteq RoomCache /\ BulbReports \subseteq BulbCache

VARIABLES card,     \* "heating" or "light"
          cache,    \* the server's cache, by room or bulb
          live,     \* is the event stream open?
          stream,   \* events on their way
          state,    \* the page's mirror
          shown,    \* what each control shows
          dimmer,   \* is the brightness slider shown (has-brightness)?
          held,     \* the slider under the user's finger, or "none"
          timers,   \* sliders whose debounce timer is running
          window,   \* controls whose rendering is suppressed (_suppress)
          chosen,   \* the user's last choice on each slider
          behind    \* controls changed by the user, or not rendered by an
                    \* event, since they were last rendered

pageVars == <<state, shown, dimmer, held, timers, window, chosen, behind>>
vars == <<card, cache, live, stream, pageVars>>

RoomSet == {Rooms[i] : i \in DOMAIN Rooms}

\* A zone has a heating card if it has rooms.  A room's toggle is named by the
\* room, and no room like another control or item.
ASSUME RoomsAssumption ==
    /\ Rooms \in Seq(RoomSet) /\ Rooms # <<>>
    /\ RoomSet \cap {"temp", "quiet", "on", "level", "light"} = {}

ASSUME BulbsAssumption == IsFiniteSet(Bulbs)

Items == IF card = "heating" THEN RoomSet ELSE {"light"}
Sliders == {IF card = "heating" THEN "temp" ELSE "level"}
Toggles == IF card = "heating" THEN {"quiet"} \cup RoomSet ELSE {"on"}
Controls == Sliders \cup Toggles

EventFor(item, c) == IF item = "light" THEN buildLightEvent(c) ELSE buildHeatingEvent(c[item])

Snapshot == [i \in Items |-> EventFor(i, cache)]

\* A range input keeps its value between min and max.
InRange(v, low, high) == IF v < low THEN low ELSE IF v > high THEN high ELSE v

\* The min and max in the markup of the sliders.
SliderRange(s) == IF s = "temp" THEN 16..25 ELSE 1..254

\* Mutant: the setpoint is not rounded to a whole degree.
RawTemperature(t) == t

\* Math.round, into the slider.
Temperature(t) == InRange((t + 5) \div 10, 16, 25)

\* What updateHeatingUI, updateRoomToggle and updateLightUI make of a mirror.
Reading(m) ==
    IF card = "light" THEN [on |-> m["light"].on, level |-> InRange(m["light"].brightness, 1, 254)]
    ELSE LET on == {r \in RoomSet : m[r].power}
             considered == IF on # {} THEN on ELSE RoomSet
         IN  [c \in Controls |->
                CASE c = "temp"  -> Temperature(Max({m[r].target_temp : r \in considered}))
                  [] c = "quiet" -> \A r \in considered : m[r].quiet
                  [] OTHER       -> m[c].power]

\* An event without brightness leaves the brightness slider alone.
Concerned(item, event) ==
    IF item # "light" THEN {"temp", "quiet", item}
    ELSE {"on"} \cup (IF event.brightness = NoNumber THEN {} ELSE {"level"})

HasLevel(m) == card = "light" /\ m["light"].brightness # NoNumber

\* A page as it is loaded, with the embedded snapshot; 254 is in the markup.
LoadedFrom(m) ==
    [c \in Controls |-> IF c = "level" /\ ~HasLevel(m) THEN 254 ELSE Reading(m)[c]]

Init ==
    /\ card \in {"heating", "light"}
    /\ cache \in IF card = "heating" THEN [RoomSet -> RoomReports] ELSE [Bulbs -> BulbReports]
    /\ live = FALSE /\ stream = <<>>
    /\ state = Snapshot
    /\ shown = LoadedFrom(Snapshot)
    /\ dimmer = HasLevel(Snapshot)
    /\ held = "none" /\ timers = {} /\ window = {}
    /\ chosen = [s \in Sliders |-> shown[s]]
    /\ behind = {}

-----------------------------------------------------------------------------
(* The server and the stream.                                               *)

\* A message changes the cache, and an event goes to the open stream.
Report(x, payload) ==
    /\ cache[x] # payload
    /\ cache' = [cache EXCEPT ![x] = payload]
    /\ LET item == IF card = "light" THEN "light" ELSE x
       IN  /\ live => Len(stream) < MaxQueue
           /\ stream' = IF live THEN Append(stream, <<item, EventFor(item, cache')>>) ELSE stream
    /\ UNCHANGED <<card, live, pageVars>>

StreamBreaks ==
    /\ live
    /\ live' = FALSE /\ stream' = <<>>
    /\ UNCHANGED <<card, cache, pageVars>>

\* A stream starts with the snapshot, in the order of the configuration.
StreamOpens ==
    /\ ~live
    /\ live' = TRUE
    /\ stream' = LET order == IF card = "heating" THEN Rooms ELSE <<"light">>
                 IN  [i \in DOMAIN order |-> <<order[i], EventFor(order[i], cache)>>]
    /\ UNCHANGED <<card, cache, pageVars>>

-----------------------------------------------------------------------------
(* The page.                                                                *)

\* Mutant: an event renders the room's own toggle, not the zone's controls.
RenderToggleOnly ==
    /\ stream # <<>>
    /\ LET item == Head(stream)[1]
           event == Head(stream)[2]
           concerned == Concerned(item, event) \ ({"temp", "quiet"} \ {item})
           rendered == concerned \ (window \cup {held})
       IN  /\ state' = [state EXCEPT ![item] = event]
           /\ shown' = [c \in Controls |-> IF c \in rendered THEN Reading(state')[c] ELSE shown[c]]
           /\ behind' = (behind \cup concerned) \ rendered
    /\ dimmer' = (dimmer \/ HasLevel(state'))
    /\ stream' = Tail(stream)
    /\ UNCHANGED <<card, cache, live, held, timers, window, chosen>>

\* onmessage: the mirror is updated, and the controls that the event concerns
\* are rendered, unless they are suppressed or held.
onmessage ==
    /\ stream # <<>>
    /\ LET item == Head(stream)[1]
           event == Head(stream)[2]
           concerned == Concerned(item, event)
           rendered == concerned \ (window \cup {held})
       IN  /\ state' = [state EXCEPT ![item] = event]
           /\ shown' = [c \in Controls |-> IF c \in rendered THEN Reading(state')[c] ELSE shown[c]]
           /\ behind' = (behind \cup concerned) \ rendered
    /\ dimmer' = (dimmer \/ HasLevel(state'))
    /\ stream' = Tail(stream)
    /\ UNCHANGED <<card, cache, live, held, timers, window, chosen>>

\* A slider is dragged: the page follows at once, the request waits 300 ms.
Drag(s, v) ==
    /\ v \in SliderRange(s)
    /\ s = "level" => dimmer
    /\ held \in {"none", s}
    /\ held' = s
    /\ shown' = [shown EXCEPT ![s] = v]
    /\ chosen' = [chosen EXCEPT ![s] = v]
    /\ timers' = timers \cup {s}
    /\ behind' = behind \cup {s}
    /\ UNCHANGED <<card, cache, live, stream, state, dimmer, window>>

Drop ==
    /\ held # "none"
    /\ held' = "none"
    /\ UNCHANGED <<card, cache, live, stream, state, shown, dimmer, timers, window, chosen, behind>>

\* Only now is the control suppressed, and slider.value posted.
DebounceEnds(s) ==
    /\ s \in timers
    /\ timers' = timers \ {s}
    /\ window' = window \cup {s}
    /\ UNCHANGED <<card, cache, live, stream, state, shown, dimmer, held, chosen, behind>>

Suppresses(t) == IF t \in RoomSet THEN {t, "temp", "quiet"} ELSE {t}

\* A toggle is switched, and the request goes out.
Switch(t) ==
    /\ shown' = [shown EXCEPT ![t] = ~@]
    /\ window' = window \cup Suppresses(t)
    /\ behind' = behind \cup {t}
    /\ UNCHANGED <<card, cache, live, stream, state, dimmer, held, timers, chosen>>

\* Mutant: the time of a suppression is never over.
NeverExpire(c) == FALSE /\ UNCHANGED vars

\* 1.5 or 2 seconds after the user's action.
Expire(c) ==
    /\ c \in window
    /\ window' = window \ {c}
    /\ UNCHANGED <<card, cache, live, stream, state, shown, dimmer, held, timers, chosen, behind>>

\* The page is loaded again.
Reload ==
    /\ live' = FALSE /\ stream' = <<>>
    /\ state' = Snapshot
    /\ shown' = LoadedFrom(Snapshot)
    /\ dimmer' = HasLevel(Snapshot)
    /\ held' = "none" /\ timers' = {} /\ window' = {}
    /\ chosen' = [s \in Sliders |-> shown'[s]]
    /\ behind' = {}
    /\ UNCHANGED <<card, cache>>

-----------------------------------------------------------------------------

House == \/ card = "heating" /\ \E r \in RoomSet, p \in RoomReports : Report(r, p)
         \/ card = "light" /\ \E b \in Bulbs, p \in BulbReports : Report(b, p)

UserActs == \/ \E s \in Sliders, v \in DragValues : Drag(s, v)
            \/ \E t \in Toggles : Switch(t)
            \/ Reload

Timing == \/ \E s \in Sliders : DebounceEnds(s)
          \/ \E c \in Controls : Expire(c)

Next == House \/ StreamBreaks \/ StreamOpens \/ onmessage \/ UserActs \/ Drop \/ Timing

Spec == Init /\ [][Next]_vars

\* Timers fire, a slider that is pressed is let go, and events arrive.
FairSpec == /\ Spec
            /\ WF_vars(Drop) /\ WF_vars(Timing) /\ WF_vars(onmessage)

-----------------------------------------------------------------------------
(* Properties.                                                              *)

TypeOK ==
    /\ DOMAIN state = Items /\ DOMAIN shown = Controls
    /\ {live, dimmer} \subseteq BOOLEAN
    /\ \A s \in Sliders : shown[s] \in SliderRange(s)
    /\ \A t \in Toggles : shown[t] \in BOOLEAN
    /\ held \in Sliders \cup {"none"}
    /\ timers \subseteq Sliders /\ window \subseteq Controls /\ behind \subseteq Controls

\* What GET /api says of the card.
Documented ==
    IF card = "heating"
    THEN LET summary == summarizeHeating(Snapshot)
         IN  [c \in Controls |-> CASE c = "temp"  -> Temperature(summary.target_temp)
                                   [] c = "quiet" -> summary.quiet
                                   [] OTHER       -> Snapshot[c].power]
    ELSE LET light == apiLight(Snapshot["light"])
         IN  [on |-> Snapshot["light"].on,
              level |-> IF light.dimmable THEN InRange(light.set_power, 1, 254) ELSE shown["level"]]

\* Once the events are in, the page and GET /api agree on every control that
\* the user has left alone ("Keep these in step", api.go:304), and a light that
\* can be dimmed has its slider.
AgreesWithAPI ==
    live /\ stream = <<>> =>
        /\ \A c \in Controls \ behind : shown[c] = Documented[c]
        /\ card = "light" /\ apiLight(Snapshot["light"]).dimmable => dimmer

\* The events of a light say what the documentation of the API says of it.
LightsAsDocumented == card = "light" => LightAsDocumented(cache)

\* A control that shows something else than the server's state is corrected by
\* later events, once the user stops: "let incoming events correct it"
\* (api.go:309).
Corrected ==
    \A c \in {"temp", "quiet", "on", "level"} :
        (/\ <>[][~UserActs]_vars
         /\ []<><<onmessage /\ c \in Concerned(Head(stream)[1], Head(stream)[2])>>_vars)
        => <>[](c \notin behind)

\* "Don't let incoming events move a control the user is touching or has changed
\* in the last ~1.5-2 s" (api.go:469): what the user chose on a slider is still
\* there when it is posted.
ChoiceStands == \A s \in timers : shown[s] = chosen[s]

=============================================================================
