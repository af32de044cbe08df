---------------------------- MODULE LightControl ----------------------------
(***************************************************************************)
(* Lights: the handlers that command them (handlers.go), the requests for    *)
(* their state on every connection (mqtt.go), and the bridge that stands in  *)
(* for zigbee2mqtt (cmd/z2m-emulator), which applies commands to bulbs and   *)
(* reports what became of them.                                              *)
(*                                                                           *)
(* Neither commands nor reports are retained: what is published while the    *)
(* other side is not subscribed is lost, and the server knows of a bulb only *)
(* what the latest report to reach it said.                                  *)
(***************************************************************************)
EXTENDS Naturals, SequencesExt

CONSTANTS Entities,    \* the bulbs of one light, in config order
          Dimmable,    \* those that can be dimmed
          Levels,      \* the brightness values requests may ask for
          Requests,    \* bound: the requests that are made
          MaxDisturbances  \* bound: how often the server or the bridge goes
                           \* away, a publish fails, or a request is made
                           \* before all is at rest

ASSUME EntitiesAssumption ==
    /\ Entities \in Seq(Range(Entities)) /\ IsInjective(Entities)
    /\ Dimmable \subseteq Range(Entities)
ASSUME LevelsAssumption == Levels \subseteq 0..254
ASSUME MaxDisturbancesAssumption == MaxDisturbances \in Nat

Bulbs == Range(Entities)

VARIABLES online,    \* the server is connected and subscribed
          gets,      \* the bulbs it has still to ask for their state
          unasked,   \* those it could not ask and has not heard from since
          cache,     \* the latest report on each bulb, NoReport before any
          request,   \* the state of each request's handler
          bridge,    \* the bridge is connected and subscribed
          bulb,      \* the bridge's bulbs
          due,       \* how many publishAll, each a goroutine, have still to begin
          announce,  \* reports of publishAll still to be sent
          timers,    \* reports waiting for the bridge's latency to pass
          commands,  \* messages from the broker to the bridge
          reports,   \* messages from the broker to the server
          mishaps,   \* how often one of the two has gone away or a publish failed
          overtaken, \* has a report been sent before an older one?
          rushed     \* how many requests have been made before all was at rest

serverVars == <<online, gets, unasked, cache, request>>
bridgeVars == <<bridge, bulb, due, announce, timers>>
countVars == <<mishaps, overtaken, rushed>>
vars == <<serverVars, bridgeVars, commands, reports, countVars>>

Full == 254
None == 255  \* no brightness given or reported

NewBulb == [on |-> FALSE, level |-> Full]

\* What is said of a bulb: brightness only if it can be dimmed.
Payload(e, b) == [entity |-> e, on |-> b.on, level |-> IF e \in Dimmable THEN b.level ELSE None]
NoReport(e) == [entity |-> e, on |-> FALSE, level |-> None, absent |-> TRUE]

\* A command: "get", or "set" with a state ("ON", "OFF" or "") and a level.
Set(e, state, level) == [entity |-> e, verb |-> "set", state |-> state, level |-> level]
Get(e) == [entity |-> e, verb |-> "get", state |-> "", level |-> None]

NoRequest == [step |-> "unused", kind |-> "", on |-> FALSE, level |-> None,
              left |-> <<>>, failed |-> FALSE]

Init ==
    /\ online = FALSE /\ gets = <<>> /\ unasked = {}
    /\ cache = [e \in Bulbs |-> NoReport(e)]
    /\ request = [q \in Requests |-> NoRequest]
    /\ bridge = FALSE
    /\ bulb = [e \in Bulbs |-> NewBulb]
    /\ due = 0 /\ announce = {} /\ timers = <<>>
    /\ commands = <<>> /\ reports = <<>>
    /\ mishaps = 0 /\ overtaken = FALSE /\ rushed = 0

Running(q) == request[q].step = "running"

InFlight ==
    \/ commands # <<>> \/ reports # <<>> \/ gets # <<>>
    \/ timers # <<>> \/ due > 0 \/ announce # {}

MoreDisturbance == mishaps + rushed < MaxDisturbances

AtRest == online /\ bridge /\ ~InFlight /\ ~\E q \in Requests : Running(q)

-----------------------------------------------------------------------------
(* The server: subscribeAll and requestLightStates on every connection.     *)

\* Mutant: nobody asks the bulbs for their state.
ConnectOnly ==
    /\ ~online
    /\ online' = TRUE
    /\ UNCHANGED <<gets, unasked, cache, request, bridgeVars, commands, reports, countVars>>

ServerConnect ==
    /\ ~online
    /\ online' = TRUE
    /\ gets' = Entities /\ unasked' = {}
    /\ UNCHANGED <<cache, request, bridgeVars, commands, reports, countVars>>

ToBridge(command) == commands' = IF bridge THEN Append(commands, command) ELSE commands

RequestState ==
    /\ online /\ gets # <<>>
    /\ ToBridge(Get(Head(gets)))
    /\ gets' = Tail(gets)
    /\ UNCHANGED <<online, unasked, cache, request, bridgeVars, reports, countVars>>

Mishap == MoreDisturbance /\ mishaps' = mishaps + 1

\* The publish fails or times out: it is logged, and not tried again before the
\* next connection.  The question may have got through all the same.
RequestStateFails ==
    /\ online /\ gets # <<>>
    /\ Mishap
    /\ ToBridge(Get(Head(gets))) \/ UNCHANGED commands
    /\ gets' = Tail(gets)
    /\ unasked' = unasked \cup {Head(gets)}
    /\ UNCHANGED <<online, cache, request, bridgeVars, reports, overtaken, rushed>>

\* handleMessage
ReceiveReport ==
    /\ reports # <<>>
    /\ cache' = [cache EXCEPT ![Head(reports).entity] = Head(reports)]
    /\ reports' = Tail(reports)
    /\ unasked' = unasked \ {Head(reports).entity}
    /\ UNCHANGED <<online, gets, request, bridgeVars, commands, countVars>>

\* The server loses the broker, or restarts with an empty cache and no request.
ServerGone ==
    /\ online /\ Mishap
    /\ online' = FALSE /\ gets' = <<>> /\ unasked' = {} /\ reports' = <<>>
    /\ \/ UNCHANGED <<cache, request>>
       \/ /\ cache' = [e \in Bulbs |-> NoReport(e)]
          /\ request' = [q \in Requests |-> IF Running(q) THEN NoRequest ELSE request[q]]
    /\ UNCHANGED <<bridgeVars, commands, overtaken, rushed>>

-----------------------------------------------------------------------------
(* The light handlers.                                                      *)

Begin(q, kind, on, level) ==
    /\ online
    /\ request[q].step = "unused"
    /\ AtRest \/ MoreDisturbance
    /\ rushed' = rushed + (IF AtRest THEN 0 ELSE 1)
    /\ request' = [request EXCEPT ![q] = [step |-> "running", kind |-> kind, on |-> on,
                                          level |-> level, left |-> Entities, failed |-> FALSE]]
    /\ UNCHANGED <<online, gets, unasked, cache, bridgeVars, commands, reports, mishaps, overtaken>>

handleLightPower(q, on, level) == Begin(q, "power", on, level)

handleLightBrightness(q, level) == Begin(q, "brightness", FALSE, level)

\* A bulb is taken to be dimmable once it has reported a brightness.
ReportsLevel(e) == cache[e].level # None

\* Mutant: a command with a brightness leaves the state out.
LevelWithoutState(q, e) ==
    LET r == request[q]
        level == IF ReportsLevel(e) THEN r.level ELSE None
    IN  CASE r.kind = "power" /\ ~r.on -> {Set(e, "OFF", None)}
          [] r.kind = "power" /\ r.on  -> {Set(e, IF r.level = None THEN "ON" ELSE "", level)}
          [] r.kind = "brightness"     ->
                {c \in {Set(e, "", r.level)} : ReportsLevel(e) /\ cache[e].on}

\* Mutant: the slider also reaches bulbs that are off.
SliderForAll(q, e) ==
    LET r == request[q]
    IN  CASE r.kind = "power" /\ ~r.on -> {Set(e, "OFF", None)}
          [] r.kind = "power" /\ r.on  -> {Set(e, "ON", IF ReportsLevel(e) THEN r.level ELSE None)}
          [] r.kind = "brightness"     -> {c \in {Set(e, "", r.level)} : ReportsLevel(e)}

\* The command for the next bulb, or none: brightness goes only to bulbs that
\* are dimmable and on, as far as the cache knows.
CommandFor(q, e) ==
    LET r == request[q]
    IN  CASE r.kind = "power" /\ ~r.on -> {Set(e, "OFF", None)}
          [] r.kind = "power" /\ r.on  -> {Set(e, "ON", IF ReportsLevel(e) THEN r.level ELSE None)}
          [] r.kind = "brightness"     ->
                {c \in {Set(e, "", r.level)} : ReportsLevel(e) /\ cache[e].on}

\* One round of the handler's loop.
NextBulb(q, fails) ==
    /\ request' = [request EXCEPT ![q].left = Tail(@), ![q].failed = @ \/ fails]
    /\ UNCHANGED <<online, gets, unasked, cache, bridgeVars, reports, overtaken, rushed>>

\* What the loop has to publish now.
ToPublish(q) == CommandFor(q, Head(request[q].left))

\* A publish fails at once while offline.
HandleNext(q) ==
    /\ Running(q) /\ request[q].left # <<>>
    /\ NextBulb(q, ToPublish(q) # {} /\ ~online)
    /\ IF online /\ ToPublish(q) # {} THEN \E c \in ToPublish(q) : ToBridge(c)
                                     ELSE UNCHANGED commands
    /\ UNCHANGED mishaps

\* While online it may time out, and the command get through all the same.
HandleFails(q) ==
    /\ Running(q) /\ request[q].left # <<>>
    /\ online /\ ToPublish(q) # {}
    /\ Mishap
    /\ NextBulb(q, TRUE)
    /\ UNCHANGED commands \/ \E c \in ToPublish(q) : ToBridge(c)

\* 204, or 500 if a publish failed.
Respond(q) ==
    /\ Running(q) /\ request[q].left = <<>>
    /\ request' = [request EXCEPT ![q].step = IF request[q].failed THEN "error" ELSE "ok"]
    /\ UNCHANGED <<online, gets, unasked, cache, bridgeVars, commands, reports, countVars>>

-----------------------------------------------------------------------------
(* The bridge.                                                              *)

\* It subscribes and then starts publishAll.
BridgeConnect ==
    /\ ~bridge
    /\ bridge' = TRUE
    /\ due' = due + 1
    /\ UNCHANGED <<serverVars, bulb, announce, timers, commands, reports, countVars>>

\* The state of all bulbs is read under the mutex; an earlier publishAll may not
\* be through yet ...
ReadAll ==
    /\ due > 0
    /\ due' = due - 1
    /\ announce' = announce \cup {Payload(e, bulb[e]) : e \in Bulbs}
    /\ overtaken' = (overtaken \/ announce # {})
    /\ UNCHANGED <<serverVars, bridge, bulb, timers, commands, reports, mishaps, rushed>>

ToServer(report) == reports' = IF online THEN Append(reports, report) ELSE reports

\* ... and published one by one, in any order.
AnnounceOne ==
    /\ bridge
    /\ \E p \in announce : ToServer(p) /\ announce' = announce \ {p}
    /\ UNCHANGED <<serverVars, bridge, bulb, due, timers, commands, countVars>>

\* Mutant: brightness 0 is a level like any other.
ApplyZero(e, b, c) ==
    LET switched == [b EXCEPT !.on = IF c.state = "" THEN @ ELSE c.state = "ON"]
    IN  IF c.level = None \/ e \notin Dimmable THEN switched
        ELSE [on |-> TRUE, level |-> c.level]

\* handle: state first, then brightness, which switches a dimmable bulb too.
Apply(e, b, c) ==
    LET switched == [b EXCEPT !.on = IF c.state = "" THEN @ ELSE c.state = "ON"]
    IN  IF c.level = None \/ e \notin Dimmable THEN switched
        ELSE IF c.level = 0 THEN [switched EXCEPT !.on = FALSE]
        ELSE [on |-> TRUE, level |-> c.level]

HandleCommand ==
    /\ commands # <<>>
    /\ LET c == Head(commands)
           e == c.entity
           after == Apply(e, bulb[e], c)
       IN  /\ bulb' = [bulb EXCEPT ![e] = after]
           /\ timers' = Append(timers, Payload(e, after))
    /\ commands' = Tail(commands)
    /\ UNCHANGED <<serverVars, bridge, due, announce, reports, countVars>>

\* The latency of a report is over: each runs on a goroutine of its own.
Due(i) ==
    /\ i \in DOMAIN timers
    /\ timers' = RemoveAt(timers, i)
    /\ overtaken' = (overtaken \/ i > 1 \/ announce # {})

Fire(i) ==
    /\ bridge
    /\ Due(i)
    /\ ToServer(timers[i])
    /\ UNCHANGED <<serverVars, bridge, bulb, due, announce, commands, mishaps, rushed>>

\* A publish without a connection is lost, or the library keeps it until the
\* bridge is back, which is as if its time had not come.
LoseReport(i) ==
    /\ ~bridge
    /\ Due(i)
    /\ UNCHANGED <<serverVars, bridge, bulb, due, announce, commands, reports, mishaps, rushed>>

LoseAnnouncement ==
    /\ ~bridge
    /\ \E p \in announce : announce' = announce \ {p}
    /\ UNCHANGED <<serverVars, bridge, bulb, due, timers, commands, reports, countVars>>

\* The bridge loses the broker, and with it what it has not received yet; its
\* bulbs and goroutines live on.
BridgeLosesBroker ==
    /\ bridge /\ Mishap
    /\ bridge' = FALSE
    /\ \E n \in 0..Len(commands) : commands' = SubSeq(commands, 1, n)
    /\ UNCHANGED <<serverVars, bulb, due, announce, timers, reports, overtaken, rushed>>

\* The bridge restarts: "State is not persisted", and the bulbs start off.
BridgeGone ==
    /\ bridge /\ Mishap
    /\ bridge' = FALSE
    /\ bulb' = [e \in Bulbs |-> NewBulb]
    /\ due' = 0 /\ announce' = {} /\ timers' = <<>> /\ commands' = <<>>
    /\ UNCHANGED <<serverVars, reports, overtaken, rushed>>

-----------------------------------------------------------------------------

Server == \/ ServerConnect \/ RequestState \/ RequestStateFails \/ ReceiveReport \/ ServerGone
          \/ \E q \in Requests :
                \/ \E on \in BOOLEAN, level \in Levels \cup {None} : handleLightPower(q, on, level)
                \/ \E level \in Levels : handleLightBrightness(q, level)
                \/ HandleNext(q) \/ HandleFails(q) \/ Respond(q)

Bridge == \/ BridgeConnect \/ ReadAll \/ AnnounceOne \/ HandleCommand \/ BridgeGone
          \/ BridgeLosesBroker \/ LoseAnnouncement
          \/ \E i \in DOMAIN timers : Fire(i) \/ LoseReport(i)

Next == Server \/ Bridge

Spec == Init /\ [][Next]_vars

-----------------------------------------------------------------------------
(* Properties.                                                              *)

TypeOK ==
    /\ {online, bridge} \subseteq BOOLEAN
    /\ gets \in Seq(Bulbs) /\ unasked \subseteq Bulbs /\ due \in Nat
    /\ \A e \in Bulbs : cache[e].entity = e /\ cache[e].level \in 0..None
    /\ \A q \in Requests : request[q].step \in {"unused", "running", "ok", "error"}
    /\ bulb \in [Bulbs -> [on : BOOLEAN, level : 1..Full]]
    /\ mishaps + rushed \in 0..MaxDisturbances

\* Once nothing is on its way any more, the server knows the state of every
\* bulb, in whichever order the two programs started, restarted and lost the
\* broker: "the order the two programs start in doesn't matter"
\* (cmd/z2m-emulator/main.go:12-14).  That is, of every bulb it has been able to
\* ask or has heard from since, and unless an older report was sent after a
\* newer one.
EveryBulbKnown ==
    AtRest /\ ~overtaken => \A e \in Bulbs \ unasked : cache[e] = Payload(e, bulb[e])

\* Nothing went away, no publish failed, reports kept their order, and requests
\* wait for earlier ones.
Undisturbed == rushed = 0 /\ mishaps = 0 /\ ~overtaken

TurnsOn(e) == bulb'[e].on /\ ~bulb[e].on

\* "Dragging the slider must not turn on a light that is off"
\* (handlers.go:676), if requests wait for the reports of earlier ones.
SliderTurnsNothingOn ==
    [][Undisturbed => \A e \in Bulbs : TurnsOn(e) => Head(commands).state = "ON"]_vars

\* A light that was turned on is on, and "bulbs that support dimming come on at
\* this level" (api.go:372), unless that level is 0.
TurnedOnIsOn ==
    AtRest /\ Undisturbed => \A q \in Requests :
        (request[q].step = "ok" /\ request[q].kind = "power" /\ request[q].on
            /\ request[q].level # 0
            /\ \A p \in Requests \ {q} : request[p].step = "unused")
          => \A e \in Bulbs : /\ bulb[e].on
                              /\ request[q].level # None /\ e \in Dimmable
                                    => bulb[e].level = request[q].level

=============================================================================
