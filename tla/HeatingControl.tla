--------------------------- MODULE HeatingControl ---------------------------
(***************************************************************************)
(* The commands of handlers.go that are a series of publishes: POST of the   *)
(* global mode, of a room's power, of a zone's temperature and quiet         *)
(* setting, and of a scene.                                                  *)
(*                                                                           *)
(* The server learns of the effect of a publish, and of the mode            *)
(* that power is to be read under, only from the broker's echo on its own    *)
(* subscription.  A request is one handler run; handlers run concurrently    *)
(* with each other and with the echoes.                                      *)
(***************************************************************************)
EXTENDS Naturals, SequencesExt

CONSTANTS Rooms,       \* the heating rooms of the zone, in config order
          Requests,    \* bound: the requests that are made
          Temps,       \* setpoints a request may ask for
          Scenes       \* the scenes, each a sequence of messages

ASSUME RoomsAssumption ==
    Rooms \in Seq(Range(Rooms)) /\ Len(Rooms) > 0 /\ IsInjective(Rooms)

Modes == {"heating", "cooling"}
RoomSet == Range(Rooms)

Mode == <<"mode", "global">>
Power(r) == <<"power", r>>
Temp(r) == <<"temp", r>>
Quiet(r) == <<"quiet", r>>
Topics == {Mode} \cup {<<kind, r>> : kind \in {"power", "temp", "quiet"}, r \in RoomSet}

\* The command topic of a light, which scenes may name: what is sent there is not
\* retained, and this server does not subscribe to it.
Lamp == <<"set", "lamp">>

\* What is published where.  A message is a topic, a value, and whether the broker
\* is to retain it: handlers always ask for that, a scene as it is configured.
Retention == {"retained", "once"}
Values == Modes \cup {"0", "1", "2"} \cup Temps
Stored == Values \cup {"absent"}
Messages == ({Mode} \X Modes \X Retention) \cup ((Topics \ {Mode}) \X Values \X Retention)
            \cup ({Lamp} \X {"on", "off"} \X {"once"})

ASSUME ScenesAssumption == Scenes \subseteq Seq(Messages)

\* Topics that some scene sends to without having it retained.
Passing == {x \in Topics : \E s \in Scenes : \E i \in DOMAIN s : s[i][1] = x /\ s[i][3] = "once"}

\* What power "on" is written as: "1" heats and "2" cools.
OnIn(mode) == IF mode = "cooling" THEN "2" ELSE "1"

VARIABLES latest,    \* what was last published on each topic: what the rooms know
          retained,  \* what the broker keeps for those that subscribe later
          echoes,    \* messages on their way from the broker to this server
          cache,     \* what this server last heard on each topic
          flag,      \* app.coolingMode
          request,   \* the state of each request's handler
          lamp,      \* the latest command the lamp was sent
          answer,    \* the latest answer: what was asked, what failed, the status
          hasty,     \* has a request not waited for earlier ones and their echoes?
          lossy      \* has a publish failed?

ghosts == <<hasty, lossy>>
vars == <<latest, retained, echoes, cache, flag, request, lamp, answer, ghosts>>

\* step: "unused", then "setpoint" or "publish", then "done".  plan: what is
\* still to be published; the first fatal of those end the handler if they fail.
\* failed: the topics whose publish failed.
Handler(step, asked, plan, fatal) ==
    [step |-> step, asked |-> asked, plan |-> plan, fatal |-> fatal, failed |-> {}]

NoRequest == Handler("unused", <<"none", "none">>, <<>>, 0)

\* The server is connected and has received every retained message; rooms may
\* be on, in the mode of the house, and the setpoint may never have been set.
Init ==
    /\ \E m \in Modes, on \in SUBSET RoomSet, t \in Temps \cup {"absent"} :
          latest = [x \in Topics |-> CASE x = Mode -> m
                                       [] x[1] = "power" -> IF x[2] \in on THEN OnIn(m) ELSE "0"
                                       [] x[1] = "temp" -> t
                                       [] x[1] = "quiet" -> "0"]
    /\ retained = latest
    /\ echoes = <<>>
    /\ cache = latest
    /\ flag = latest[Mode]
    /\ request = [q \in Requests |-> NoRequest]
    /\ lamp = "none"
    /\ answer = [asked |-> <<"none", "none">>, failed |-> {}, code |-> 204]
    /\ hasty = FALSE /\ lossy = FALSE

-----------------------------------------------------------------------------
(* Handlers.                                                                *)

Running(q) == request[q].step \in {"setpoint", "publish"}

AtRest == echoes = <<>> /\ ~\E q \in Requests : Running(q)

Begin(q, handler) ==
    /\ request[q].step = "unused"
    /\ request' = [request EXCEPT ![q] = handler]
    /\ hasty' = (hasty \/ ~AtRest)
    /\ UNCHANGED <<latest, retained, echoes, cache, flag, lamp, answer, lossy>>

\* Mutant: the loop leaves out the last room.
AllButLast(kind, value) == [i \in 1..(Len(Rooms) - 1) |-> <<<<kind, Rooms[i]>>, value, "retained">>]

\* One setting for all rooms of the zone; failures are collected.
ZonePlan(kind, value) == [i \in DOMAIN Rooms |-> <<<<kind, Rooms[i]>>, value, "retained">>]

handleZoneTemperature(q, t) == Begin(q, Handler("publish", <<"temp", t>>, ZonePlan("temp", t), 0))

handleZoneQuiet(q, v) == Begin(q, Handler("publish", <<"quiet", v>>, ZonePlan("quiet", v), 0))

\* The mode is read first; when turning on, the setpoint goes out before.
handleRoomPower(q, r, on) ==
    LET value == IF on THEN OnIn(flag) ELSE "0"
    IN  Begin(q, Handler(IF on THEN "setpoint" ELSE "publish",
                         <<"power", value, r>>, <<<<Power(r), value, "retained">>>>, 2))

\* Mutant: the setpoint is re-sent even if none is cached.
ReadAnySetpoint(q) ==
    LET r == request[q].asked[3]
    IN  /\ request[q].step = "setpoint"
        /\ request' = [request EXCEPT ![q].step = "publish",
                                      ![q].plan = <<<<Temp(r), cache[Temp(r)], "retained">>>> \o @]
        /\ UNCHANGED <<latest, retained, echoes, cache, flag, lamp, answer, ghosts>>

\* The setpoint re-sent is the cached one, if any.
ReadSetpoint(q) ==
    LET r == request[q].asked[3]
    IN  /\ request[q].step = "setpoint"
        /\ request' = [request EXCEPT
              ![q].step = "publish",
              ![q].plan = IF cache[Temp(r)] = "absent" THEN @ ELSE <<<<Temp(r), cache[Temp(r)], "retained">>>> \o @]
        /\ UNCHANGED <<latest, retained, echoes, cache, flag, lamp, answer, ghosts>>

\* Mutant: the rooms are left as they are.
SetModeOnly(q, m) ==
    Begin(q, Handler("publish", <<"mode", m>>, IF flag = m THEN <<>> ELSE <<<<Mode, m, "retained">>>>, 1))

\* A new mode is published, and then every room is switched off; asking for
\* the mode the flag already shows is answered at once.
handleSetMode(q, m) ==
    Begin(q, Handler("publish", <<"mode", m>>,
                     IF flag = m THEN <<>> ELSE <<<<Mode, m, "retained">>>> \o ZonePlan("power", "0"), 1))

handleScene(q, scene) == Begin(q, Handler("publish", <<"scene", scene>>, scene, 0))

Fatal(q) == request[q].fatal > 0

\* The broker takes a message and passes it on, to this server too, or hands a
\* light's command to the bridge; what is marked so it retains.
Deliver(message) ==
    IF message[1] = Lamp
    THEN lamp' = message[2] /\ UNCHANGED <<latest, retained, echoes>>
    ELSE /\ latest' = [latest EXCEPT ![message[1]] = message[2]]
         /\ retained' = IF message[3] = "once" THEN retained ELSE [retained EXCEPT ![message[1]] = message[2]]
         /\ echoes' = Append(echoes, message)
         /\ UNCHANGED lamp

Publish(q) ==
    /\ request[q].step = "publish" /\ request[q].plan # <<>>
    /\ Deliver(Head(request[q].plan))
    /\ request' = [request EXCEPT ![q].plan = Tail(@), ![q].fatal = IF @ > 0 THEN @ - 1 ELSE 0]
    /\ UNCHANGED <<cache, flag, answer, ghosts>>

\* Mutant: the handler forgets that a publish failed.
PublishFailsSilently(q) ==
    /\ request[q].step = "publish" /\ request[q].plan # <<>>
    /\ Deliver(Head(request[q].plan)) \/ UNCHANGED <<latest, retained, echoes, lamp>>
    /\ request' = [request EXCEPT ![q].plan = IF Fatal(q) THEN <<>> ELSE Tail(@),
                                  ![q].fatal = 0]
    /\ lossy' = TRUE
    /\ UNCHANGED <<cache, flag, answer, hasty>>

\* Mutant: a failed publish ends the handler, whatever is left of its plan.
StopAtFailure(q) ==
    /\ request[q].step = "publish" /\ request[q].plan # <<>>
    /\ Deliver(Head(request[q].plan)) \/ UNCHANGED <<latest, retained, echoes, lamp>>
    /\ request' = [request EXCEPT ![q].failed = @ \cup {Head(request[q].plan)[1]},
                                  ![q].plan = <<>>, ![q].fatal = 0]
    /\ lossy' = TRUE
    /\ UNCHANGED <<cache, flag, answer, hasty>>

\* publish returns an error; after a timeout the message may have got through.
PublishFails(q) ==
    /\ request[q].step = "publish" /\ request[q].plan # <<>>
    /\ \/ Deliver(Head(request[q].plan))
       \/ UNCHANGED <<latest, retained, echoes, lamp>>
    /\ request' = [request EXCEPT ![q].failed = @ \cup {Head(request[q].plan)[1]},
                                  ![q].plan = IF Fatal(q) THEN <<>> ELSE Tail(@),
                                  ![q].fatal = 0]
    /\ lossy' = TRUE
    /\ UNCHANGED <<cache, flag, answer, hasty>>

Answer(q, code) ==
    /\ request' = [request EXCEPT ![q] = [NoRequest EXCEPT !.step = "done"]]
    /\ answer' = [asked |-> request[q].asked, failed |-> request[q].failed, code |-> code]
    /\ UNCHANGED <<latest, retained, echoes, cache, flag, lamp, ghosts>>

\* 204, or 500 if a publish failed.
Respond(q) ==
    /\ request[q].step = "publish" /\ request[q].plan = <<>>
    /\ Answer(q, IF request[q].failed = {} THEN 204 ELSE 500)

\* The client of a scene has hung up; that is looked at between two messages,
\* and never before the first.
SceneAbandoned(q) ==
    /\ request[q].step = "publish" /\ request[q].asked[1] = "scene"
    /\ request[q].plan \notin {<<>>, request[q].asked[2]}
    /\ Answer(q, 408)

-----------------------------------------------------------------------------

\* Mutant: the flag is left as it was.
handleMessageOnly ==
    /\ echoes # <<>>
    /\ cache' = [cache EXCEPT ![Head(echoes)[1]] = Head(echoes)[2]]
    /\ echoes' = Tail(echoes)
    /\ UNCHANGED <<latest, retained, flag, request, lamp, answer, ghosts>>

\* handleMessage, and TopicToEvent for the flag.
handleMessage ==
    /\ echoes # <<>>
    /\ LET m == Head(echoes)
       IN  /\ cache' = [cache EXCEPT ![m[1]] = m[2]]
           /\ flag' = IF m[1] = Mode THEN m[2] ELSE flag
    /\ echoes' = Tail(echoes)
    /\ UNCHANGED <<latest, retained, request, lamp, answer, ghosts>>

Next ==
    \/ \E q \in Requests :
          \/ \E t \in Temps : handleZoneTemperature(q, t)
          \/ \E v \in {"0", "1"} : handleZoneQuiet(q, v)
          \/ \E r \in RoomSet, on \in BOOLEAN : handleRoomPower(q, r, on)
          \/ \E m \in Modes : handleSetMode(q, m)
          \/ \E scene \in Scenes : handleScene(q, scene)
          \/ ReadSetpoint(q) \/ Publish(q) \/ PublishFails(q) \/ Respond(q) \/ SceneAbandoned(q)
    \/ handleMessage

Spec == Init /\ [][Next]_vars

-----------------------------------------------------------------------------
(* Properties.                                                              *)

TypeOK ==
    /\ latest \in [Topics -> Stored] /\ retained \in [Topics -> Stored]
    /\ echoes \in Seq({m \in Messages : m[1] # Lamp})
    /\ cache \in [Topics -> Stored]
    /\ flag \in Modes
    /\ \A q \in Requests :
          /\ request[q].step \in {"unused", "setpoint", "publish", "done"}
          /\ request[q].plan \in Seq(Messages)
          /\ request[q].failed \subseteq Topics \cup {Lamp}
    /\ {hasty, lossy} \subseteq BOOLEAN
    /\ lamp \in {"none", "on", "off"}
    /\ answer.code \in {204, 408, 500}

\* Every request so far waited for the echoes of the ones before.
Unhurried == ~hasty

\* Once the echoes are in, the cache is what was last published and the flag the
\* mode in it, whatever requests overlapped or failed half-way (mqtt.go:437-453);
\* and it is what the broker retains, so what a server that starts later would
\* hear, but for topics that a scene sends to without that (handlers.go:833-837).
CacheCoherent ==
    echoes = <<>> => /\ cache = latest /\ flag = latest[Mode]
                     /\ \A x \in Topics \ Passing : cache[x] = retained[x]

\* "On means heat or cool depending on the global mode" (api.go:359): at rest no
\* room runs in the other mode, if requests wait for each other's echoes and
\* no publish failed.
PowerMatchesMode ==
    AtRest /\ Unhurried /\ ~lossy
        => \A r \in RoomSet : latest[Power(r)] \in {"0", OnIn(latest[Mode])}

\* A zone has one setpoint: handleZoneTemperature sets it "for ALL rooms in a
\* zone" (handlers.go:383), and the setpoint handleRoomPower sends again changes
\* nothing.  Under the same conditions.
ZoneUniform ==
    AtRest /\ Unhurried /\ ~lossy
        => \A r, o \in RoomSet : latest[Temp(r)] = latest[Temp(o)]

\* What a request asked of each topic, where that is plain to see: the value
\* that it names for the topic, for a scene the last one that it names.
Asked(asked) ==
    LET kind == asked[1]
    IN  CASE kind \in {"temp", "quiet"} -> {<<<<kind, r>>, asked[2], "retained">> : r \in RoomSet}
          [] kind = "power" -> {<<Power(asked[3]), asked[2], "retained">>}
          [] kind = "mode"  -> {<<Mode, asked[2], "retained">>}
          [] kind = "scene" -> {asked[2][i] : i \in {j \in DOMAIN asked[2] :
                                  \A k \in DOMAIN asked[2] : k > j => asked[2][k][1] # asked[2][j][1]}}
          [] OTHER -> {}

Holds(message) == message[2] = IF message[1] = Lamp THEN lamp ELSE latest[message[1]]

\* A 204 is the truth: the command it answers is what the rooms and the lamp were
\* last told.  A handler that lost one publish of several says so
\* (handlers.go:423-426, 782-785, 843-846).
AnswerIsTruthful ==
    AtRest /\ Unhurried /\ answer.code = 204 => \A m \in Asked(answer.asked) : Holds(m)

\* "One or more steps failed to publish (the rest were still sent)"
\* (api.go:408), and so for a zone: a publish that fails takes nothing with it.
\* What could be cut short is cut short only for a client that has gone, with 408.
RestWasSent ==
    AtRest /\ Unhurried /\ answer.code = 500 /\ answer.asked[1] \in {"temp", "quiet", "scene"}
        => \A m \in Asked(answer.asked) : m[1] \notin answer.failed => Holds(m)

\* After a mode request answered with 204, "changed, or already in that mode"
\* (api.go:402), no room runs in the other mode: changing it "TURNS OFF EVERY
\* HEATING ROOM in the house" (api.go:397).
ModeChangeTurnsOff ==
    AtRest /\ Unhurried /\ answer.code = 204 /\ answer.asked[1] = "mode"
        => \A r \in RoomSet : latest[Power(r)] \in {"0", OnIn(answer.asked[2])}

=============================================================================
