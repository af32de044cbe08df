----------------------- MODULE HeatingControl_proofs -----------------------
(***************************************************************************)
(* Types, the cache, what the answers to commands are worth, and that rooms *)
(* follow the mode and each other's setpoint, for any rooms, requests,      *)
(* setpoints and scenes.                                                    *)
(***************************************************************************)
EXTENDS HeatingControl, SequenceTheorems, TLAPS

\* The topics of rooms, the mode and the lamp are all different.
LEMMA TopicFacts ==
  /\ Mode \in Topics /\ Lamp \notin Topics
  /\ \A r \in RoomSet : /\ Power(r) \in Topics \ {Mode}
                        /\ Temp(r) \in Topics \ {Mode}
                        /\ Quiet(r) \in Topics \ {Mode}
BY DEF Topics, Mode, Lamp, Power, Temp, Quiet

Echoed == {m \in Messages : m[1] # Lamp}

\* A message that does not go to the lamp is one for a topic.
LEMMA MessageFacts ==
  /\ \A m \in Messages : m[1] \in Topics \cup {Lamp}
  /\ \A m \in Messages : m[1] = Lamp => m[2] \in {"on", "off"}
  /\ \A m \in Echoed : m \in Messages /\ m[1] \in Topics /\ m[2] \in Values
  /\ \A m \in Echoed : m[1] = Mode => m[2] \in Modes
<1>1. \A m \in {Mode} \X Modes \X Retention : m[1] = Mode /\ m[2] \in Modes
  OBVIOUS
<1>2. \A m \in (Topics \ {Mode}) \X Values \X Retention : m[1] \in Topics \ {Mode} /\ m[2] \in Values
  OBVIOUS
<1>3. \A m \in {Lamp} \X {"on", "off"} \X {"once"} : m[1] = Lamp /\ m[2] \in {"on", "off"}
  OBVIOUS
<1>4. Modes \subseteq Values
  BY DEF Values
<1>. QED BY <1>1, <1>2, <1>3, <1>4, TopicFacts DEF Messages, Echoed

\* What handlers put into their plans are messages.
LEMMA PlanFacts ==
  /\ \A m \in Modes : <<Mode, m, "retained">> \in Messages
  /\ \A r \in RoomSet, v \in Values : /\ <<Power(r), v, "retained">> \in Messages
                                      /\ <<Temp(r), v, "retained">> \in Messages
                                      /\ <<Quiet(r), v, "retained">> \in Messages
BY TopicFacts DEF Messages, Retention

-----------------------------------------------------------------------------

Questions == {<<"none", "none">>} \cup ({"temp"} \X Temps) \cup ({"quiet"} \X {"0", "1"})
             \cup ({"power"} \X {"0", "1", "2"} \X RoomSet)
             \cup ({"mode"} \X Modes) \cup ({"scene"} \X Scenes)

Steps == {"unused", "setpoint", "publish", "done"}

HandlerStates == [step : Steps, asked : Questions, plan : Seq(Messages), fatal : Nat,
                  failed : SUBSET (Topics \cup {Lamp})]

\* A handler that is about to read a setpoint knows the room.
AsksForRoom(h) == h.step = "setpoint" => h.asked[3] \in RoomSet

RequestsOK == /\ request \in [Requests -> HandlerStates]
              /\ \A q \in Requests : AsksForRoom(request[q])

BrokerOK == /\ latest \in [Topics -> Stored] /\ retained \in [Topics -> Stored]
            /\ echoes \in Seq(Echoed)
            /\ lamp \in {"none", "on", "off"}

ServerOK == cache \in [Topics -> Stored] /\ flag \in Modes

GhostsOK == hasty \in BOOLEAN /\ lossy \in BOOLEAN /\ answer.code \in {204, 408, 500}

TypeInv == RequestsOK /\ BrokerOK /\ ServerOK /\ GhostsOK

LEMMA TypesStrengthened == TypeInv => TypeOK
<1> SUFFICES ASSUME TypeInv PROVE TypeOK
  OBVIOUS
<1>1. \A q \in Requests : /\ request[q].step \in {"unused", "setpoint", "publish", "done"}
                          /\ request[q].plan \in Seq(Messages)
                          /\ request[q].failed \subseteq Topics \cup {Lamp}
  BY DEF TypeInv, RequestsOK, HandlerStates, Steps
<1>2. {hasty, lossy} \subseteq BOOLEAN
  BY DEF TypeInv, GhostsOK
<1>. QED BY <1>1, <1>2 DEF TypeInv, BrokerOK, ServerOK, GhostsOK, TypeOK, Echoed

LEMMA InitiallyTyped == Init => TypeInv
<1> SUFFICES ASSUME Init PROVE TypeInv
  OBVIOUS
<1>1. PICK m \in Modes, on \in SUBSET RoomSet, t \in Temps \cup {"absent"} :
        latest = [x \in Topics |-> CASE x = Mode -> m
                                       [] x[1] = "power" -> IF x[2] \in on THEN OnIn(m) ELSE "0"
                                       [] x[1] = "temp" -> t
                                       [] x[1] = "quiet" -> "0"]
  BY DEF Init
<1>2. m \in Stored /\ OnIn(m) \in Stored /\ "0" \in Stored /\ t \in Stored
  BY DEF Stored, Values, OnIn
<1>3. \A x \in Topics : x # Mode => x[1] \in {"power", "temp", "quiet"}
  BY DEF Topics
<1>4. Mode[1] = "mode"
  BY DEF Mode
<1>5. latest \in [Topics -> Stored]
  <2>1. ASSUME NEW x \in Topics PROVE latest[x] \in Stored
    BY <1>1, <1>2, <1>3, <1>4
  <2>. QED BY <1>1, <2>1
<1>6. latest[Mode] \in Modes
  BY <1>1, <1>4, TopicFacts
<1>7. NoRequest \in HandlerStates /\ AsksForRoom(NoRequest)
  BY DEF NoRequest, Handler, HandlerStates, AsksForRoom, Steps, Questions
<1>8. RequestsOK
  BY <1>7 DEF Init, RequestsOK
<1>9. BrokerOK
  <2>1. echoes = <<>> /\ lamp = "none"
    BY DEF Init
  <2>2. echoes \in Seq(Echoed)
    BY <2>1
  <2>3. retained = latest
    BY DEF Init
  <2>. QED BY <1>5, <2>1, <2>2, <2>3 DEF BrokerOK
<1>10. ServerOK
  BY <1>5, <1>6 DEF Init, ServerOK
<1>11. GhostsOK
  BY DEF Init, GhostsOK
<1>. QED BY <1>8, <1>9, <1>10, <1>11 DEF TypeInv

-----------------------------------------------------------------------------

\* A request begins with a well-typed handler.
LEMMA BeginTyped ==
  ASSUME TypeInv, NEW q \in Requests, NEW h \in HandlerStates, AsksForRoom(h), Begin(q, h)
  PROVE  TypeInv'
<1>1. RequestsOK'
  BY DEF TypeInv, RequestsOK, Begin
<1>2. BrokerOK' /\ ServerOK'
  BY DEF TypeInv, BrokerOK, ServerOK, Begin
<1>3. hasty' \in BOOLEAN
  BY DEF Begin
<1>4. GhostsOK'
  BY <1>3 DEF TypeInv, GhostsOK, Begin
<1>. QED BY <1>1, <1>2, <1>4 DEF TypeInv

\* A plan for all rooms of the zone is a sequence of messages.
LEMMA ZonePlanTyped ==
  ASSUME NEW kind \in {"power", "temp", "quiet"}, NEW v \in Values
  PROVE  ZonePlan(kind, v) \in Seq(Messages)
<1>1. Rooms \in Seq(RoomSet)
  BY RoomsAssumption DEF RoomSet
<1>2. \A r \in RoomSet : <<<<kind, r>>, v, "retained">> \in Messages
  BY PlanFacts DEF Power, Temp, Quiet
<1>3. \A i \in DOMAIN Rooms : Rooms[i] \in RoomSet
  BY <1>1
<1>. QED BY <1>1, <1>2, <1>3 DEF ZonePlan

LEMMA HandlerTyped ==
  ASSUME NEW step \in Steps, NEW asked \in Questions, NEW plan \in Seq(Messages), NEW fatal \in Nat,
         step = "setpoint" => asked[3] \in RoomSet
  PROVE  Handler(step, asked, plan, fatal) \in HandlerStates
         /\ AsksForRoom(Handler(step, asked, plan, fatal))
BY DEF Handler, HandlerStates, AsksForRoom

\* The handlers of all requests begin well typed.
LEMMA BeginningsTyped ==
  ASSUME TypeInv, NEW q \in Requests,
         \/ \E t \in Temps : handleZoneTemperature(q, t)
         \/ \E v \in {"0", "1"} : handleZoneQuiet(q, v)
         \/ \E r \in RoomSet, on \in BOOLEAN : handleRoomPower(q, r, on)
         \/ \E m \in Modes : handleSetMode(q, m)
         \/ \E scene \in Scenes : handleScene(q, scene)
  PROVE  TypeInv'
<1>1. ASSUME NEW t \in Temps, handleZoneTemperature(q, t) PROVE TypeInv'
  <2>1. ZonePlan("temp", t) \in Seq(Messages)
    BY ZonePlanTyped DEF Values
  <2>2. "publish" \in Steps /\ <<"temp", t>> \in Questions
    BY DEF Steps, Questions
  <2>. QED BY <1>1, <2>1, <2>2, HandlerTyped, BeginTyped DEF handleZoneTemperature
<1>2. ASSUME NEW v \in {"0", "1"}, handleZoneQuiet(q, v) PROVE TypeInv'
  <2>1. ZonePlan("quiet", v) \in Seq(Messages)
    BY ZonePlanTyped DEF Values
  <2>2. "publish" \in Steps /\ <<"quiet", v>> \in Questions
    BY DEF Steps, Questions
  <2>. QED BY <1>2, <2>1, <2>2, HandlerTyped, BeginTyped DEF handleZoneQuiet
<1>3. ASSUME NEW r \in RoomSet, NEW on \in BOOLEAN, handleRoomPower(q, r, on) PROVE TypeInv'
  <2> DEFINE value == IF on THEN OnIn(flag) ELSE "0"
             step == IF on THEN "setpoint" ELSE "publish"
             question == <<"power", value, r>>
             plan == <<<<Power(r), value, "retained">>>>
  <2>1. value \in {"0", "1", "2"} /\ value \in Values
    BY DEF OnIn, Values
  <2>2. plan \in Seq(Messages)
    <3>1. <<Power(r), value, "retained">> \in Messages
      <4>. HIDE DEF value
      <4>. QED BY <2>1, PlanFacts
    <3>. HIDE DEF value
    <3>. QED BY <3>1
  <2>3. step \in Steps /\ question \in Questions /\ question[3] \in RoomSet
    BY <2>1 DEF Steps, Questions
  <2>4. Begin(q, Handler(step, question, plan, 2))
    BY <1>3 DEF handleRoomPower
  <2>. HIDE DEF value, step, question, plan
  <2>. QED BY <2>2, <2>3, <2>4, HandlerTyped, BeginTyped
<1>4. ASSUME NEW m \in Modes, handleSetMode(q, m) PROVE TypeInv'
  <2>1. "publish" \in Steps /\ <<"mode", m>> \in Questions
    BY DEF Steps, Questions
  <2>2. CASE flag = m
    <3>1. Begin(q, Handler("publish", <<"mode", m>>, <<>>, 1))
      BY <1>4, <2>2 DEF handleSetMode
    <3>2. <<>> \in Seq(Messages)
      OBVIOUS
    <3>. QED BY <2>1, <3>1, <3>2, HandlerTyped, BeginTyped
  <2>3. CASE flag # m
    <3>1. ZonePlan("power", "0") \in Seq(Messages)
      BY ZonePlanTyped DEF Values
    <3>2. <<<<Mode, m, "retained">>>> \in Seq(Messages)
      BY PlanFacts
    <3>3. <<<<Mode, m, "retained">>>> \o ZonePlan("power", "0") \in Seq(Messages)
      BY <3>1, <3>2, ConcatProperties
    <3>4. Begin(q, Handler("publish", <<"mode", m>>, <<<<Mode, m, "retained">>>> \o ZonePlan("power", "0"), 1))
      BY <1>4, <2>3 DEF handleSetMode
    <3>. QED BY <2>1, <3>3, <3>4, HandlerTyped, BeginTyped
  <2>. QED BY <2>2, <2>3
<1>5. ASSUME NEW scene \in Scenes, handleScene(q, scene) PROVE TypeInv'
  <2>1. scene \in Seq(Messages)
    BY ScenesAssumption
  <2>2. "publish" \in Steps /\ <<"scene", scene>> \in Questions
    BY DEF Steps, Questions
  <2>. QED BY <1>5, <2>1, <2>2, HandlerTyped, BeginTyped DEF handleScene
<1>. QED BY <1>1, <1>2, <1>3, <1>4, <1>5

\* The broker takes messages only.
LEMMA DeliveryTyped ==
  ASSUME BrokerOK, NEW m \in Messages, Deliver(m)
  PROVE  BrokerOK'
<1>1. CASE m[1] = Lamp
  BY <1>1, MessageFacts DEF BrokerOK, Deliver
<1>2. CASE m[1] # Lamp
  <2>1. m \in Echoed /\ m[1] \in Topics /\ m[2] \in Stored
    BY <1>2, MessageFacts DEF Echoed, Stored
  <2>2. latest' \in [Topics -> Stored] /\ echoes' \in Seq(Echoed) /\ lamp' = lamp
    BY <1>2, <2>1 DEF BrokerOK, Deliver
  <2>3. retained' = retained \/ retained' = [retained EXCEPT ![m[1]] = m[2]]
    BY <1>2 DEF Deliver
  <2>4. retained' \in [Topics -> Stored]
    BY <2>1, <2>3 DEF BrokerOK
  <2>. QED BY <2>2, <2>4 DEF BrokerOK
<1>. QED BY <1>1, <1>2

\* The steps of a handler that runs.
LEMMA StepsTyped ==
  ASSUME TypeInv, NEW q \in Requests,
         ReadSetpoint(q) \/ Publish(q) \/ PublishFails(q) \/ Respond(q) \/ SceneAbandoned(q)
  PROVE  TypeInv'
<1>1. CASE ReadSetpoint(q)
  <2> DEFINE r == request[q].asked[3]
  <2>1. r \in RoomSet
    BY <1>1 DEF ReadSetpoint, TypeInv, RequestsOK, AsksForRoom
  <2>2. Temp(r) \in Topics
    BY <2>1, TopicFacts
  <2>3. cache[Temp(r)] # "absent" => <<Temp(r), cache[Temp(r)], "retained">> \in Messages
    BY <2>1, <2>2, PlanFacts DEF TypeInv, ServerOK, Stored
  <2> DEFINE plan == IF cache[Temp(r)] = "absent" THEN request[q].plan
                     ELSE <<<<Temp(r), cache[Temp(r)], "retained">>>> \o request[q].plan
  <2>4. request[q] \in HandlerStates /\ request[q].plan \in Seq(Messages)
    BY DEF TypeInv, RequestsOK, HandlerStates
  <2>5. plan \in Seq(Messages)
    <3>1. CASE cache[Temp(r)] = "absent"
      BY <2>4, <3>1
    <3>2. CASE cache[Temp(r)] # "absent"
      <4>1. <<<<Temp(r), cache[Temp(r)], "retained">>>> \in Seq(Messages)
        BY <2>3, <3>2
      <4>. QED BY <2>4, <3>2, <4>1, ConcatProperties
    <3>. QED BY <3>1, <3>2
  <2>6. request' = [request EXCEPT ![q].step = "publish", ![q].plan = plan]
    BY <1>1 DEF ReadSetpoint, TypeInv, RequestsOK, HandlerStates
  <2>7. RequestsOK'
    <3>. HIDE DEF plan
    <3>. QED BY <2>5, <2>6 DEF TypeInv, RequestsOK, HandlerStates, AsksForRoom, Steps
  <2>8. UNCHANGED <<latest, retained, echoes, cache, flag, lamp, answer, hasty, lossy>>
    BY <1>1 DEF ReadSetpoint, ghosts
  <2>. QED BY <2>7, <2>8 DEF TypeInv, BrokerOK, ServerOK, GhostsOK
<1>2. CASE Publish(q) \/ PublishFails(q)
  <2>1. /\ request[q].plan \in Seq(Messages) /\ request[q].plan # <<>>
        /\ request[q].fatal \in Nat
    BY <1>2 DEF Publish, PublishFails, TypeInv, RequestsOK, HandlerStates
  <2>2. Head(request[q].plan) \in Messages /\ Tail(request[q].plan) \in Seq(Messages)
    BY <2>1
  <2>3. Head(request[q].plan)[1] \in Topics \cup {Lamp}
    BY <2>2, MessageFacts
  <2>4. BrokerOK'
    <3>1. CASE Deliver(Head(request[q].plan))
      BY <2>2, <3>1, DeliveryTyped DEF TypeInv
    <3>2. CASE UNCHANGED <<latest, retained, echoes, lamp>>
      BY <3>2 DEF TypeInv, BrokerOK
    <3>. QED BY <1>2, <3>1, <3>2 DEF Publish, PublishFails
  <2>5. RequestsOK'
    <3>1. CASE Publish(q)
      <4>1. request' = [request EXCEPT
                          ![q].plan = Tail(request[q].plan),
                          ![q].fatal = IF request[q].fatal > 0 THEN request[q].fatal - 1 ELSE 0]
        BY <3>1 DEF Publish, TypeInv, RequestsOK, HandlerStates
      <4>2. (IF request[q].fatal > 0 THEN request[q].fatal - 1 ELSE 0) \in Nat
        BY <2>1
      <4>3. request[q].step = "publish"
        BY <3>1 DEF Publish
      <4>. QED BY <2>2, <4>1, <4>2, <4>3 DEF TypeInv, RequestsOK, HandlerStates, AsksForRoom
    <3>2. CASE PublishFails(q)
      <4> DEFINE failed == request[q].failed \cup {Head(request[q].plan)[1]}
                 plan == IF Fatal(q) THEN <<>> ELSE Tail(request[q].plan)
      <4>1. request' = [request EXCEPT ![q].failed = failed, ![q].plan = plan, ![q].fatal = 0]
        BY <3>2 DEF PublishFails, TypeInv, RequestsOK, HandlerStates
      <4>2. plan \in Seq(Messages)
        BY <2>2
      <4>3. failed \in SUBSET (Topics \cup {Lamp})
        BY <2>3 DEF TypeInv, RequestsOK, HandlerStates
      <4>4. request[q].step = "publish" /\ request \in [Requests -> HandlerStates]
        BY <3>2 DEF PublishFails, TypeInv, RequestsOK
      <4>. HIDE DEF failed, plan
      <4>. QED BY <4>1, <4>2, <4>3, <4>4 DEF TypeInv, RequestsOK, HandlerStates, AsksForRoom
    <3>. QED BY <1>2, <3>1, <3>2
  <2>6. ServerOK'
    BY <1>2 DEF Publish, PublishFails, TypeInv, ServerOK
  <2>7. GhostsOK'
    <3>1. answer' = answer /\ hasty' = hasty /\ (lossy' = lossy \/ lossy' = TRUE)
      BY <1>2 DEF Publish, PublishFails, ghosts
    <3>. QED BY <3>1 DEF TypeInv, GhostsOK
  <2>. QED BY <2>4, <2>5, <2>6, <2>7 DEF TypeInv
<1>3. ASSUME NEW code \in {204, 408, 500}, Answer(q, code) PROVE TypeInv'
  <2>1. [NoRequest EXCEPT !.step = "done"] \in HandlerStates
        /\ AsksForRoom([NoRequest EXCEPT !.step = "done"])
    <3>1. /\ <<"none", "none">> \in Questions /\ "done" \in Steps
          /\ <<>> \in Seq(Messages) /\ "done" # "setpoint"
      BY DEF Questions, Steps
    <3>2. NoRequest \in HandlerStates
      BY DEF NoRequest, Handler, HandlerStates, Steps, Questions
    <3>. QED BY <3>1, <3>2 DEF HandlerStates, AsksForRoom
  <2>2. RequestsOK'
    BY <1>3, <2>1 DEF Answer, TypeInv, RequestsOK
  <2>3. UNCHANGED <<latest, retained, echoes, cache, flag, lamp, hasty, lossy>>
    BY <1>3 DEF Answer, ghosts
  <2>4. answer'.code \in {204, 408, 500}
    BY <1>3 DEF Answer
  <2>. QED BY <2>2, <2>3, <2>4 DEF TypeInv, BrokerOK, ServerOK, GhostsOK
<1>. QED BY <1>1, <1>2, <1>3 DEF Respond, SceneAbandoned

\* An echo brings a value to the cache, and a mode to the flag.
LEMMA EchoTyped == ASSUME TypeInv, handleMessage PROVE TypeInv'
<1>1. echoes \in Seq(Echoed) /\ echoes # <<>>
  BY DEF handleMessage, TypeInv, BrokerOK
<1>2. Head(echoes) \in Echoed /\ Tail(echoes) \in Seq(Echoed)
  BY <1>1
<1>3. /\ Head(echoes)[1] \in Topics /\ Head(echoes)[2] \in Stored
      /\ Head(echoes)[1] = Mode => Head(echoes)[2] \in Modes
  BY <1>2, MessageFacts DEF Stored
<1>4. ServerOK'
  BY <1>3 DEF handleMessage, TypeInv, ServerOK
<1>5. BrokerOK'
  BY <1>2 DEF handleMessage, TypeInv, BrokerOK
<1>6. UNCHANGED <<request, answer, hasty, lossy>>
  BY DEF handleMessage, ghosts
<1>. QED BY <1>4, <1>5, <1>6 DEF TypeInv, RequestsOK, GhostsOK

LEMMA TypeInvariance == Spec => []TypeInv
<1>1. ASSUME TypeInv, [Next]_vars PROVE TypeInv'
  <2>1. CASE UNCHANGED vars
    BY <1>1, <2>1 DEF vars, ghosts, TypeInv, RequestsOK, BrokerOK, ServerOK, GhostsOK
  <2>2. CASE handleMessage
    BY <1>1, <2>2, EchoTyped
  <2>3. CASE Next /\ ~handleMessage
    BY <1>1, <2>3, BeginningsTyped, StepsTyped DEF Next
  <2>. QED BY <1>1, <2>1, <2>2, <2>3
<1>. QED BY <1>1, InitiallyTyped, PTL DEF Spec

\* Every reachable state is well typed: handlers publish messages only, and the
\* flag is a mode, because only modes are published as the mode.
THEOREM TypeCorrect == Spec => []TypeOK
BY TypeInvariance, TypesStrengthened, PTL

-----------------------------------------------------------------------------

\* What the cache lacks is on its way: the last echo of a topic brings what was
\* last published there, and a topic without echoes is up to date.
LastEcho(i) == \A j \in DOMAIN echoes : j > i => echoes[j][1] # echoes[i][1]

EchoesCatchUp ==
    /\ \A t \in Topics : (\A i \in DOMAIN echoes : echoes[i][1] # t) => cache[t] = latest[t]
    /\ \A i \in DOMAIN echoes : LastEcho(i) => echoes[i][2] = latest[echoes[i][1]]

FlagFollows == flag = cache[Mode]

\* A message to a topic is its latest and becomes the topic's last echo.
LEMMA DeliveryCatchesUp ==
  ASSUME BrokerOK, EchoesCatchUp, NEW m \in Messages, Deliver(m), cache' = cache
  PROVE  EchoesCatchUp'
<1>1. CASE m[1] = Lamp
  BY <1>1 DEF Deliver, EchoesCatchUp, LastEcho
<1>2. CASE m[1] # Lamp
  <2>1. m \in Echoed /\ m[1] \in Topics
    BY <1>2, MessageFacts DEF Echoed
  <2>2. /\ echoes \in Seq(Echoed) /\ echoes' = Append(echoes, m)
        /\ latest' = [latest EXCEPT ![m[1]] = m[2]] /\ DOMAIN latest = Topics
    BY <1>2 DEF Deliver, BrokerOK
  <2> DEFINE n == Len(echoes)
  <2>3. /\ n \in Nat /\ DOMAIN echoes = 1..n /\ DOMAIN echoes' = 1..(n + 1)
        /\ echoes'[n + 1] = m
        /\ \A i \in 1..n : echoes'[i] = echoes[i] /\ echoes[i] \in Echoed
    BY <2>1, <2>2
  <2>. HIDE DEF n
  <2>4. ASSUME NEW t \in Topics, \A i \in DOMAIN echoes' : echoes'[i][1] # t
        PROVE  cache'[t] = latest'[t]
    <3>1. m[1] # t /\ \A i \in DOMAIN echoes : echoes[i][1] # t
      BY <2>3, <2>4
    <3>. QED BY <2>2, <3>1 DEF EchoesCatchUp
  <2>5. ASSUME NEW i \in DOMAIN echoes', LastEcho(i)'
        PROVE  echoes'[i][2] = latest'[echoes'[i][1]]
    <3>1. CASE i = n + 1
      BY <2>1, <2>2, <2>3, <3>1
    <3>2. CASE i # n + 1
      <4>1. i \in DOMAIN echoes /\ echoes'[i] = echoes[i] /\ n + 1 > i
        BY <2>3, <3>2
      <4>2. m[1] # echoes[i][1]
        BY <2>3, <2>5, <4>1 DEF LastEcho
      <4>3. LastEcho(i)
        BY <2>3, <2>5, <4>1 DEF LastEcho
      <4>4. echoes[i][1] \in Topics
        BY <2>3, <4>1, MessageFacts
      <4>. QED BY <2>2, <4>1, <4>2, <4>3, <4>4 DEF EchoesCatchUp
    <3>. QED BY <3>1, <3>2
  <2>. QED BY <2>4, <2>5 DEF EchoesCatchUp
<1>. QED BY <1>1, <1>2

\* The server takes the first echo in; the others stay as late as they were.
LEMMA EchoCatchesUp ==
  ASSUME BrokerOK, ServerOK, EchoesCatchUp, FlagFollows, handleMessage
  PROVE  EchoesCatchUp' /\ FlagFollows'
<1> DEFINE n == Len(echoes)
           h == Head(echoes)
<1>1. /\ echoes \in Seq(Echoed) /\ echoes # <<>> /\ echoes' = Tail(echoes)
      /\ cache' = [cache EXCEPT ![h[1]] = h[2]] /\ cache \in [Topics -> Stored]
      /\ flag' = (IF h[1] = Mode THEN h[2] ELSE flag)
      /\ latest' = latest
  BY DEF handleMessage, BrokerOK, ServerOK
<1>2. /\ n \in Nat /\ n > 0 /\ DOMAIN echoes = 1..n /\ DOMAIN echoes' = 1..(n - 1)
      /\ h = echoes[1] /\ h \in Echoed
      /\ \A i \in 1..(n - 1) : echoes'[i] = echoes[i + 1]
  BY <1>1
<1>3. h[1] \in Topics
  BY <1>2, MessageFacts
<1>. HIDE DEF n, h
<1>4. FlagFollows'
  BY <1>1, <1>3, TopicFacts DEF FlagFollows
<1>5. ASSUME NEW t \in Topics, \A i \in DOMAIN echoes' : echoes'[i][1] # t
      PROVE  cache'[t] = latest'[t]
  <2>1. \A j \in 2..n : echoes[j][1] # t
    <3>1. \A j \in 2..n : j - 1 \in 1..(n - 1) /\ echoes'[j - 1] = echoes[j]
      BY <1>2
    <3>. QED BY <1>2, <1>5, <3>1
  <2>2. CASE h[1] = t
    <3>1. 1 \in DOMAIN echoes /\ \A j \in DOMAIN echoes : j > 1 => j \in 2..n
      BY <1>2
    <3>2. LastEcho(1)
      BY <1>2, <2>1, <2>2, <3>1 DEF LastEcho
    <3>3. h[2] = latest[t]
      BY <1>2, <2>2, <3>1, <3>2 DEF EchoesCatchUp
    <3>. QED BY <1>1, <1>3, <2>2, <3>3
  <2>3. CASE h[1] # t
    <3>1. \A j \in DOMAIN echoes : j = 1 \/ j \in 2..n
      BY <1>2
    <3>2. \A j \in DOMAIN echoes : echoes[j][1] # t
      BY <1>2, <2>1, <2>3, <3>1
    <3>. QED BY <1>1, <2>3, <3>2 DEF EchoesCatchUp
  <2>. QED BY <2>2, <2>3
<1>6. ASSUME NEW i \in DOMAIN echoes', LastEcho(i)'
      PROVE  echoes'[i][2] = latest'[echoes'[i][1]]
  <2>1. i \in 1..(n - 1) /\ i + 1 \in DOMAIN echoes /\ echoes'[i] = echoes[i + 1]
    BY <1>2
  <2>2. LastEcho(i + 1)
    <3> SUFFICES ASSUME NEW j \in DOMAIN echoes, j > i + 1 PROVE echoes[j][1] # echoes[i + 1][1]
      BY DEF LastEcho
    <3>1. j - 1 \in DOMAIN echoes' /\ j - 1 > i /\ echoes'[j - 1] = echoes[j]
      BY <1>2, <2>1
    <3>. QED BY <1>6, <2>1, <3>1 DEF LastEcho
  <2>. QED BY <1>1, <2>1, <2>2 DEF EchoesCatchUp
<1>. QED BY <1>4, <1>5, <1>6 DEF EchoesCatchUp

LEMMA CatchUpInvariance == Spec => [](EchoesCatchUp /\ FlagFollows)
<1>1. Init => EchoesCatchUp /\ FlagFollows
  BY DEF Init, EchoesCatchUp, FlagFollows
<1>2. ASSUME TypeInv, EchoesCatchUp, FlagFollows, [Next]_vars
      PROVE  EchoesCatchUp' /\ FlagFollows'
  <2>1. CASE handleMessage
    BY <1>2, <2>1, EchoCatchesUp DEF TypeInv
  <2>2. ASSUME NEW q \in Requests, Publish(q) \/ PublishFails(q)
        PROVE  EchoesCatchUp' /\ FlagFollows'
    <3>1. request[q].plan \in Seq(Messages) /\ request[q].plan # <<>>
      BY <1>2, <2>2 DEF Publish, PublishFails, TypeInv, RequestsOK, HandlerStates
    <3>2. Head(request[q].plan) \in Messages
      BY <3>1
    <3>3. cache' = cache /\ flag' = flag
      BY <2>2 DEF Publish, PublishFails
    <3>4. EchoesCatchUp'
      <4>1. CASE Deliver(Head(request[q].plan))
        BY <1>2, <3>2, <3>3, <4>1, DeliveryCatchesUp DEF TypeInv
      <4>2. CASE UNCHANGED <<latest, retained, echoes, lamp>>
        BY <1>2, <3>3, <4>2 DEF EchoesCatchUp, LastEcho
      <4>. QED BY <2>2, <4>1, <4>2 DEF Publish, PublishFails
    <3>. QED BY <1>2, <3>3, <3>4 DEF FlagFollows
  <2>3. ASSUME UNCHANGED <<latest, retained, echoes, cache, flag>>
        PROVE  EchoesCatchUp' /\ FlagFollows'
    BY <1>2, <2>3 DEF EchoesCatchUp, LastEcho, FlagFollows
  <2>4. ASSUME NEW q \in Requests,
               \/ \E t \in Temps : handleZoneTemperature(q, t)
               \/ \E v \in {"0", "1"} : handleZoneQuiet(q, v)
               \/ \E r \in RoomSet, on \in BOOLEAN : handleRoomPower(q, r, on)
               \/ \E m \in Modes : handleSetMode(q, m)
               \/ \E scene \in Scenes : handleScene(q, scene)
        PROVE  UNCHANGED <<latest, retained, echoes, cache, flag>>
    BY <2>4 DEF handleZoneTemperature, handleZoneQuiet, handleRoomPower, handleSetMode,
                handleScene, Begin
  <2>5. ASSUME NEW q \in Requests, ReadSetpoint(q) \/ Respond(q) \/ SceneAbandoned(q)
        PROVE  UNCHANGED <<latest, retained, echoes, cache, flag>>
    BY <2>5 DEF ReadSetpoint, Respond, SceneAbandoned, Answer
  <2>6. UNCHANGED vars => UNCHANGED <<latest, retained, echoes, cache, flag>>
    BY DEF vars
  <2>. QED BY <1>2, <2>1, <2>2, <2>3, <2>4, <2>5, <2>6 DEF Next
<1>. QED BY <1>1, <1>2, TypeInvariance, PTL DEF Spec

-----------------------------------------------------------------------------
(* Requests that wait for earlier ones and their echoes, one after another.  *)

\* plan sends nothing to topic x.
NothingFor(plan, x) == \A i \in DOMAIN plan : plan[i][1] # x

\* plan sends m, and nothing to the same topic after it.
EndsWith(plan, m) ==
  \E i \in DOMAIN plan : plan[i] = m /\ \A k \in DOMAIN plan : k > i => plan[k][1] # m[1]

\* The handlers that requests begin with.
Opening(h) ==
  \/ \E t \in Temps : h = Handler("publish", <<"temp", t>>, ZonePlan("temp", t), 0)
  \/ \E v \in {"0", "1"} : h = Handler("publish", <<"quiet", v>>, ZonePlan("quiet", v), 0)
  \/ \E r \in RoomSet :
        h = Handler("setpoint", <<"power", OnIn(flag), r>>, <<<<Power(r), OnIn(flag), "retained">>>>, 2)
  \/ \E r \in RoomSet : h = Handler("publish", <<"power", "0", r>>, <<<<Power(r), "0", "retained">>>>, 2)
  \/ \E m \in Modes : flag = m /\ h = Handler("publish", <<"mode", m>>, <<>>, 1)
  \/ \E m \in Modes :
        flag # m /\ h = Handler("publish", <<"mode", m>>, <<<<Mode, m, "retained">>>> \o ZonePlan("power", "0"), 1)
  \/ \E s \in Scenes : h = Handler("publish", <<"scene", s>>, s, 0)

\* Only turning a room on reads a setpoint, and only the parts of a zone's
\* setting or of a scene are sent whatever fails before.
Collects(h) == h.asked[1] \in {"temp", "quiet", "scene"}

KindInv ==
  \A q \in Requests :
    /\ request[q].step = "setpoint" =>
          /\ request[q].asked[1] = "power"
          /\ request[q].plan = <<<<Power(request[q].asked[3]), request[q].asked[2], "retained">>>>
    /\ Running(q) /\ Collects(request[q]) => request[q].fatal = 0

\* At most one handler runs, and a setpoint is read before anything is echoed.
OneAtATime ==
  ~hasty => /\ \A p, q \in Requests : Running(p) /\ Running(q) => p = q
            /\ \A q \in Requests : request[q].step = "setpoint" => echoes = <<>>

\* What a running handler was asked is done, has failed, or is still to be sent and
\* is not overruled by what is sent after it.
Kept(h, m) ==
  \/ EndsWith(h.plan, m)
  \/ NothingFor(h.plan, m[1]) /\ (m[1] \in h.failed \/ Holds(m))

Deeds ==
  ~hasty =>
    /\ \A q \in Requests :
          Running(q) /\ (request[q].failed = {} \/ Collects(request[q]))
             => \A m \in Asked(request[q].asked) : Kept(request[q], m)
    /\ (~\E q \in Requests : Running(q))
          => \A m \in Asked(answer.asked) :
                /\ answer.code = 204 => Holds(m)
                /\ answer.code = 500 /\ Collects(answer) => m[1] \in answer.failed \/ Holds(m)

\* A plan that changes the mode begins with that, and then switches off every room; no
\* other plan turns a room on in another mode than the one of the house.
SwitchesOff(plan, r) == \E i \in DOMAIN plan : plan[i] = <<Power(r), "0", "retained">>

PlanSuits(plan, mode) ==
  \A i \in DOMAIN plan :
    /\ plan[i][1] = Mode => i = 1 /\ \A r \in RoomSet : SwitchesOff(Tail(plan), r)
    /\ \A r \in RoomSet :
          plan[i][1] = Power(r) =>
             plan[i][2] = "0" \/ (plan[i][2] = OnIn(mode) /\ NothingFor(plan, Mode))

\* A room runs in the mode of the house, or is about to be switched off.
ModeInv ==
  ~hasty /\ ~lossy =>
    /\ \A q \in Requests :
          Running(q) => /\ PlanSuits(request[q].plan, latest[Mode])
                        /\ request[q].asked[1] # "mode" => NothingFor(request[q].plan, Mode)
    /\ \A r \in RoomSet :
          \/ latest[Power(r)] \in {"0", OnIn(latest[Mode])}
          \/ \E q \in Requests : /\ Running(q) /\ request[q].asked[1] = "mode"
                                 /\ SwitchesOff(request[q].plan, r)

\* What h is about to send to the setpoint of r is what was asked, or changes nothing.
SetpointsSuit(h, r) ==
  IF h.asked[1] = "temp"
  THEN /\ \A i \in DOMAIN h.plan : h.plan[i][1] = Temp(r) => h.plan[i][2] = h.asked[2]
       /\ latest[Temp(r)] = h.asked[2] \/ ~NothingFor(h.plan, Temp(r))
  ELSE \A i \in DOMAIN h.plan : h.plan[i][1] = Temp(r) => h.plan[i][2] = latest[Temp(r)]

SetpointInv ==
  ~hasty /\ ~lossy =>
    /\ \A q \in Requests, r \in RoomSet : Running(q) => SetpointsSuit(request[q], r)
    /\ \/ \E q \in Requests : Running(q) /\ request[q].asked[1] = "temp"
       \/ \A r, o \in RoomSet : latest[Temp(r)] = latest[Temp(o)]

\* What the configuration has to leave to the handlers: the mode and turning rooms on,
\* and the setpoints.
ScenesLeaveMode ==
  \A s \in Scenes : \A i \in DOMAIN s :
    s[i][1] # Mode /\ \A r \in RoomSet : s[i][1] = Power(r) => s[i][2] = "0"

ScenesLeaveSetpoints ==
  \A s \in Scenes : \A i \in DOMAIN s : \A r \in RoomSet : s[i][1] # Temp(r)

\* What a plan is after its first message has been sent.
LEMMA TailFacts ==
  ASSUME NEW S, NEW plan \in Seq(S), plan # <<>>
  PROVE  /\ 1 \in DOMAIN plan /\ plan[1] = Head(plan) /\ Head(plan) \in S
         /\ Tail(plan) \in Seq(S)
         /\ \A i \in DOMAIN Tail(plan) : i + 1 \in DOMAIN plan /\ Tail(plan)[i] = plan[i + 1]
         /\ \A i \in DOMAIN plan : i # 1 => i - 1 \in DOMAIN Tail(plan) /\ Tail(plan)[i - 1] = plan[i]
         /\ \A i \in DOMAIN plan : i \in Nat /\ i >= 1
         /\ \A i \in DOMAIN Tail(plan) : i \in Nat /\ i >= 1
OBVIOUS

LEMMA NothingInTail ==
  ASSUME NEW S, NEW plan \in Seq(S), plan # <<>>, NEW x, NothingFor(plan, x)
  PROVE  NothingFor(Tail(plan), x) /\ Head(plan)[1] # x
BY TailFacts DEF NothingFor

LEMMA TailEndsWith ==
  ASSUME NEW S, NEW plan \in Seq(S), plan # <<>>, NEW m, EndsWith(plan, m)
  PROVE  EndsWith(Tail(plan), m) \/ (Head(plan) = m /\ NothingFor(Tail(plan), m[1]))
<1>1. PICK i \in DOMAIN plan : plan[i] = m /\ \A k \in DOMAIN plan : k > i => plan[k][1] # m[1]
  BY DEF EndsWith
<1>2. CASE i = 1
  <2>1. \A k \in DOMAIN Tail(plan) : Tail(plan)[k][1] # m[1]
    <3> SUFFICES ASSUME NEW k \in DOMAIN Tail(plan) PROVE Tail(plan)[k][1] # m[1]
      OBVIOUS
    <3>1. k + 1 \in DOMAIN plan /\ k + 1 > i /\ Tail(plan)[k] = plan[k + 1]
      BY <1>2, TailFacts
    <3>. QED BY <1>1, <3>1
  <2>. QED BY <1>1, <1>2, <2>1, TailFacts DEF NothingFor
<1>3. CASE i # 1
  <2>1. i - 1 \in DOMAIN Tail(plan) /\ Tail(plan)[i - 1] = m
    BY <1>1, <1>3, TailFacts
  <2>2. ASSUME NEW k \in DOMAIN Tail(plan), k > i - 1 PROVE Tail(plan)[k][1] # m[1]
    <3>1. i \in Nat /\ k \in Nat
      BY TailFacts
    <3>2. k + 1 \in DOMAIN plan /\ k + 1 > i /\ Tail(plan)[k] = plan[k + 1]
      BY <2>2, <3>1, TailFacts
    <3>. QED BY <1>1, <3>2
  <2>. QED BY <2>1, <2>2 DEF EndsWith
<1>. QED BY <1>2, <1>3

LEMMA LastOfTwo ==
  ASSUME NEW a, NEW b
  PROVE  /\ \A i \in DOMAIN (<<a>> \o <<b>>) : (<<a>> \o <<b>>)[i] \in {b, a}
         /\ EndsWith(<<a>> \o <<b>>, b)
<1> DEFINE S == {a, b}
<1>1. <<a>> \in Seq(S) /\ <<b>> \in Seq(S)
  OBVIOUS
<1>. HIDE DEF S
<1>2. <<a>> \o <<b>> \in Seq(S) /\ Len(<<a>> \o <<b>>) = 2
  BY <1>1
<1>3. DOMAIN (<<a>> \o <<b>>) = 1..2 /\ (<<a>> \o <<b>>)[1] = a /\ (<<a>> \o <<b>>)[2] = b
  BY <1>1, <1>2
<1>. QED BY <1>3 DEF EndsWith

\* Only the topic of a message changes when the broker takes it.
LEMMA DeliveryFacts ==
  ASSUME BrokerOK, NEW m \in Messages, Deliver(m)
  PROVE  /\ \A x \in Topics : latest'[x] = IF x = m[1] THEN m[2] ELSE latest[x]
         /\ (m[1] # Lamp => lamp' = lamp) /\ (m[1] = Lamp => lamp' = m[2])
<1>1. CASE m[1] = Lamp
  BY <1>1, TopicFacts DEF Deliver
<1>2. CASE m[1] # Lamp
  BY <1>2, MessageFacts DEF Deliver, BrokerOK
<1>. QED BY <1>1, <1>2

LEMMA DeliveredHolds ==
  ASSUME BrokerOK, NEW m \in Messages, Deliver(m)
  PROVE  /\ Holds(m)'
         /\ \A n \in Messages : n[1] # m[1] /\ Holds(n) => Holds(n)'
<1>1. \A n \in Messages : n[1] \in Topics \cup {Lamp}
  BY MessageFacts
<1>. QED BY <1>1, DeliveryFacts, TopicFacts DEF Holds

-----------------------------------------------------------------------------

\* A request begins with one of the openings.
LEMMA Beginnings ==
  ASSUME NEW q \in Requests,
         \/ \E t \in Temps : handleZoneTemperature(q, t)
         \/ \E v \in {"0", "1"} : handleZoneQuiet(q, v)
         \/ \E r \in RoomSet, on \in BOOLEAN : handleRoomPower(q, r, on)
         \/ \E m \in Modes : handleSetMode(q, m)
         \/ \E scene \in Scenes : handleScene(q, scene)
  PROVE  \E h : Opening(h) /\ Begin(q, h)
<1>1. ASSUME NEW t \in Temps, handleZoneTemperature(q, t) PROVE \E h : Opening(h) /\ Begin(q, h)
  BY <1>1 DEF handleZoneTemperature, Opening
<1>2. ASSUME NEW v \in {"0", "1"}, handleZoneQuiet(q, v) PROVE \E h : Opening(h) /\ Begin(q, h)
  BY <1>2 DEF handleZoneQuiet, Opening
<1>3. ASSUME NEW r \in RoomSet, NEW on \in BOOLEAN, handleRoomPower(q, r, on)
      PROVE  \E h : Opening(h) /\ Begin(q, h)
  <2>1. CASE on = TRUE
    <3>1. Begin(q, Handler("setpoint", <<"power", OnIn(flag), r>>, <<<<Power(r), OnIn(flag), "retained">>>>, 2))
      BY <1>3, <2>1 DEF handleRoomPower
    <3>. QED BY <3>1 DEF Opening
  <2>2. CASE on = FALSE
    <3>1. Begin(q, Handler("publish", <<"power", "0", r>>, <<<<Power(r), "0", "retained">>>>, 2))
      BY <1>3, <2>2 DEF handleRoomPower
    <3>. QED BY <3>1 DEF Opening
  <2>. QED BY <2>1, <2>2
<1>4. ASSUME NEW m \in Modes, handleSetMode(q, m) PROVE \E h : Opening(h) /\ Begin(q, h)
  <2>1. CASE flag = m
    <3>1. Begin(q, Handler("publish", <<"mode", m>>, <<>>, 1))
      BY <1>4, <2>1 DEF handleSetMode
    <3>. QED BY <2>1, <3>1 DEF Opening
  <2>2. CASE flag # m
    <3>1. Begin(q, Handler("publish", <<"mode", m>>, <<<<Mode, m, "retained">>>> \o ZonePlan("power", "0"), 1))
      BY <1>4, <2>2 DEF handleSetMode
    <3>. QED BY <2>2, <3>1 DEF Opening
  <2>. QED BY <2>1, <2>2
<1>5. ASSUME NEW s \in Scenes, handleScene(q, s) PROVE \E h : Opening(h) /\ Begin(q, h)
  BY <1>5 DEF handleScene, Opening
<1>. QED BY <1>1, <1>2, <1>3, <1>4, <1>5

\* A request that has waited begins when nothing else is under way.
LEMMA BeginFacts ==
  ASSUME TypeInv, NEW q \in Requests, NEW h, Begin(q, h)
  PROVE  /\ request' \in [Requests -> {request'[p] : p \in Requests}]
         /\ request'[q] = h /\ \A p \in Requests : p # q => request'[p] = request[p]
         /\ UNCHANGED <<latest, retained, echoes, cache, flag, lamp, answer, lossy>>
         /\ ~hasty' => ~hasty /\ echoes = <<>> /\ \A p \in Requests : ~Running(p)
BY DEF Begin, AtRest, TypeInv, RequestsOK

\* What a handler is told by its own name.
LEMMA HandlerFacts ==
  ASSUME NEW step, NEW asked, NEW plan, NEW fatal
  PROVE  LET h == Handler(step, asked, plan, fatal)
         IN  /\ h.step = step /\ h.asked = asked /\ h.plan = plan /\ h.fatal = fatal
             /\ h.failed = {}
BY DEF Handler

LEMMA ReadFacts ==
  ASSUME TypeInv, KindInv, NEW q \in Requests, ReadSetpoint(q)
  PROVE  LET r == request[q].asked[3]
             on == <<Power(r), request[q].asked[2], "retained">>
         IN  /\ r \in RoomSet /\ Temp(r) \in Topics
             /\ request[q].step = "setpoint" /\ request'[q].step = "publish"
             /\ request[q].asked[1] = "power"
             /\ request'[q].asked = request[q].asked /\ request'[q].failed = request[q].failed
             /\ request[q].plan = <<on>>
             /\ \A i \in DOMAIN request'[q].plan :
                   request'[q].plan[i] \in {on, <<Temp(r), cache[Temp(r)], "retained">>}
             /\ EndsWith(request'[q].plan, on)
             /\ \A p \in Requests : p # q => request'[p] = request[p]
             /\ UNCHANGED <<latest, retained, echoes, cache, flag, lamp, answer, hasty, lossy>>
<1> DEFINE r == request[q].asked[3]
           on == <<Power(r), request[q].asked[2], "retained">>
<1>1. request[q].step = "setpoint" /\ UNCHANGED <<latest, retained, echoes, cache, flag, lamp, answer, hasty, lossy>>
  BY DEF ReadSetpoint, ghosts
<1>2. r \in RoomSet /\ request[q].asked[1] = "power" /\ request[q].plan = <<on>>
  BY <1>1 DEF KindInv, TypeInv, RequestsOK, AsksForRoom
<1>3. Temp(r) \in Topics
  BY <1>2, TopicFacts
<1>4. request \in [Requests -> HandlerStates] /\ request[q] \in HandlerStates
  BY DEF TypeInv, RequestsOK
<1>5. request' = [request EXCEPT
              ![q].step = "publish",
              ![q].plan = IF cache[Temp(r)] = "absent" THEN request[q].plan
                          ELSE <<<<Temp(r), cache[Temp(r)], "retained">>>> \o request[q].plan]
  BY <1>4 DEF ReadSetpoint, HandlerStates
<1>6. /\ request'[q].step = "publish"
      /\ request'[q].asked = request[q].asked /\ request'[q].failed = request[q].failed
      /\ request'[q].plan = IF cache[Temp(r)] = "absent" THEN request[q].plan
                            ELSE <<<<Temp(r), cache[Temp(r)], "retained">>>> \o request[q].plan
      /\ \A p \in Requests : p # q => request'[p] = request[p]
  <2>. HIDE DEF r
  <2>. QED BY <1>4, <1>5 DEF HandlerStates
<1> DEFINE t == <<Temp(r), cache[Temp(r)], "retained">>
<1>7. /\ \A i \in DOMAIN <<on>> : <<on>>[i] \in {on, t}
      /\ EndsWith(<<on>>, on)
  BY DEF EndsWith
<1>8. /\ \A i \in DOMAIN (<<t>> \o <<on>>) : (<<t>> \o <<on>>)[i] \in {on, t}
      /\ EndsWith(<<t>> \o <<on>>, on)
  BY LastOfTwo
<1>. QED BY <1>1, <1>2, <1>3, <1>6, <1>7, <1>8

LEMMA PublishFacts ==
  ASSUME TypeInv, NEW q \in Requests, Publish(q)
  PROVE  /\ request[q].plan \in Seq(Messages) /\ request[q].plan # <<>>
         /\ Head(request[q].plan) \in Messages
         /\ request[q].step = "publish" /\ request'[q].step = "publish"
         /\ request'[q].asked = request[q].asked /\ request'[q].failed = request[q].failed
         /\ request'[q].plan = Tail(request[q].plan)
         /\ request[q].fatal = 0 => request'[q].fatal = 0
         /\ \A p \in Requests : p # q => request'[p] = request[p]
         /\ Deliver(Head(request[q].plan))
         /\ UNCHANGED <<cache, flag, answer, hasty, lossy>>
<1>1. request \in [Requests -> HandlerStates] /\ request[q] \in HandlerStates
  BY DEF TypeInv, RequestsOK
<1>2. request[q].plan \in Seq(Messages) /\ request[q].plan # <<>>
  BY <1>1 DEF HandlerStates, Publish
<1>. QED BY <1>1, <1>2 DEF Publish, ghosts, HandlerStates

LEMMA PublishFailsFacts ==
  ASSUME TypeInv, NEW q \in Requests, PublishFails(q)
  PROVE  /\ request[q].plan \in Seq(Messages) /\ request[q].plan # <<>>
         /\ Head(request[q].plan) \in Messages
         /\ request[q].step = "publish" /\ request'[q].step = "publish"
         /\ request'[q].asked = request[q].asked
         /\ request'[q].failed = request[q].failed \cup {Head(request[q].plan)[1]}
         /\ request'[q].fatal = 0
         /\ request[q].fatal = 0 => request'[q].plan = Tail(request[q].plan)
         /\ \A p \in Requests : p # q => request'[p] = request[p]
         /\ Deliver(Head(request[q].plan)) \/ UNCHANGED <<latest, retained, echoes, lamp>>
         /\ UNCHANGED <<cache, flag, answer, hasty>> /\ lossy'
<1>1. request \in [Requests -> HandlerStates] /\ request[q] \in HandlerStates
  BY DEF TypeInv, RequestsOK
<1>2. request[q].plan \in Seq(Messages) /\ request[q].plan # <<>> /\ request[q].fatal \in Nat
  BY <1>1 DEF HandlerStates, PublishFails
<1>3. Head(request[q].plan) \in Messages
  BY <1>2
<1>. QED BY <1>1, <1>2, <1>3 DEF PublishFails, HandlerStates, Fatal

LEMMA AnswerFacts ==
  ASSUME TypeInv, NEW q \in Requests, NEW code, Answer(q, code)
  PROVE  /\ request'[q].step = "done" /\ request'[q].plan = <<>>
         /\ \A p \in Requests : p # q => request'[p] = request[p]
         /\ answer' = [asked |-> request[q].asked, failed |-> request[q].failed, code |-> code]
         /\ UNCHANGED <<latest, retained, echoes, cache, flag, lamp, hasty, lossy>>
BY DEF Answer, ghosts, NoRequest, Handler, TypeInv, RequestsOK

\* The steps there are.
LEMMA StepCases ==
  ASSUME [Next]_vars
  PROVE  \/ \E q \in Requests : \E h : Opening(h) /\ Begin(q, h)
         \/ \E q \in Requests : \/ ReadSetpoint(q) \/ Publish(q) \/ PublishFails(q)
                                \/ Respond(q) \/ SceneAbandoned(q)
         \/ handleMessage
         \/ UNCHANGED vars
BY Beginnings DEF Next

LEMMA EchoFacts ==
  ASSUME handleMessage
  PROVE  echoes # <<>> /\ UNCHANGED <<latest, retained, request, lamp, answer, hasty, lossy>>
BY DEF handleMessage, ghosts

LEMMA OpeningKinds ==
  ASSUME NEW h, Opening(h)
  PROVE  /\ h.step \in {"setpoint", "publish"} /\ h.failed = {}
         /\ h.step = "setpoint" => /\ h.asked[1] = "power"
                                   /\ h.plan = <<<<Power(h.asked[3]), h.asked[2], "retained">>>>
         /\ Collects(h) => h.fatal = 0
<1> DEFINE Facts == /\ h.step \in {"setpoint", "publish"} /\ h.failed = {}
                    /\ h.step = "setpoint" => /\ h.asked[1] = "power"
                                              /\ h.plan = <<<<Power(h.asked[3]), h.asked[2], "retained">>>>
                    /\ Collects(h) => h.fatal = 0
<1>1. ASSUME NEW asked, NEW plan, h = Handler("publish", asked, plan, 0) PROVE Facts
  BY <1>1, HandlerFacts
<1>2. ASSUME NEW asked, NEW plan, NEW n, h = Handler("publish", asked, plan, n),
             asked[1] \in {"power", "mode"}
      PROVE  Facts
  BY <1>2, HandlerFacts DEF Collects
<1>3. ASSUME NEW r, NEW v, h = Handler("setpoint", <<"power", v, r>>, <<<<Power(r), v, "retained">>>>, 2)
      PROVE  Facts
  <2>1. h.step = "setpoint" /\ h.failed = {} /\ h.asked = <<"power", v, r>>
        /\ h.plan = <<<<Power(r), v, "retained">>>>
    BY <1>3, HandlerFacts
  <2>. QED BY <2>1 DEF Collects
<1>. HIDE DEF Facts
<1>4. Facts
  <2>1. ASSUME NEW r \in RoomSet, h = Handler("publish", <<"power", "0", r>>, <<<<Power(r), "0", "retained">>>>, 2)
        PROVE  Facts
    <3> DEFINE asked == <<"power", "0", r>>
               plan == <<<<Power(r), "0", "retained">>>>
    <3>1. asked[1] = "power" /\ h = Handler("publish", asked, plan, 2)
      BY <2>1
    <3>. HIDE DEF asked, plan
    <3>. QED BY <1>2, <3>1
  <2>2. ASSUME NEW m \in Modes, NEW plan, h = Handler("publish", <<"mode", m>>, plan, 1) PROVE Facts
    <3> DEFINE asked == <<"mode", m>>
    <3>1. asked[1] = "mode" /\ h = Handler("publish", asked, plan, 1)
      BY <2>2
    <3>. HIDE DEF asked
    <3>. QED BY <1>2, <3>1
  <2>. QED BY <1>1, <1>3, <2>1, <2>2 DEF Opening
<1>. QED BY <1>4 DEF Facts

LEMMA KindInvariance == Spec => []KindInv
<1>1. Init => KindInv
  BY DEF Init, KindInv, NoRequest, Handler, Running
<1>2. ASSUME TypeInv, KindInv, [Next]_vars PROVE KindInv'
  <2>1. ASSUME NEW q \in Requests, NEW h, Opening(h), Begin(q, h) PROVE KindInv'
    <3>1. request'[q] = h /\ \A p \in Requests : p # q => request'[p] = request[p]
      BY <1>2, <2>1, BeginFacts
    <3>. QED BY <1>2, <2>1, <3>1, OpeningKinds DEF KindInv, Running, Collects
  <2>2. ASSUME NEW q \in Requests, ReadSetpoint(q) PROVE KindInv'
    <3>1. /\ request'[q].step = "publish" /\ request'[q].asked[1] = "power"
          /\ \A p \in Requests : p # q => request'[p] = request[p]
      BY <1>2, <2>2, ReadFacts
    <3>. QED BY <1>2, <3>1 DEF KindInv, Running, Collects
  <2>3. ASSUME NEW q \in Requests, Publish(q) PROVE KindInv'
    <3>1. /\ request[q].step = "publish" /\ request'[q].step = "publish"
          /\ request'[q].asked = request[q].asked
          /\ request[q].fatal = 0 => request'[q].fatal = 0
          /\ \A p \in Requests : p # q => request'[p] = request[p]
      BY <1>2, <2>3, PublishFacts
    <3>. QED BY <1>2, <3>1 DEF KindInv, Running, Collects
  <2>4. ASSUME NEW q \in Requests, PublishFails(q) PROVE KindInv'
    <3>1. /\ request'[q].step = "publish" /\ request'[q].fatal = 0
          /\ \A p \in Requests : p # q => request'[p] = request[p]
      BY <1>2, <2>4, PublishFailsFacts
    <3>. QED BY <1>2, <3>1 DEF KindInv, Running, Collects
  <2>5. ASSUME NEW q \in Requests, NEW code, Answer(q, code) PROVE KindInv'
    <3>1. /\ request'[q].step = "done"
          /\ \A p \in Requests : p # q => request'[p] = request[p]
      BY <1>2, <2>5, AnswerFacts
    <3>. QED BY <1>2, <3>1 DEF KindInv, Running, Collects
  <2>6. ASSUME request' = request PROVE KindInv'
    BY <1>2, <2>6 DEF KindInv, Running, Collects
  <2>7. UNCHANGED vars => request' = request
    BY DEF vars
  <2>. QED BY <1>2, <2>1, <2>2, <2>3, <2>4, <2>5, <2>6, <2>7, StepCases, EchoFacts
           DEF Respond, SceneAbandoned
<1>. QED BY <1>1, <1>2, TypeInvariance, PTL DEF Spec

LEMMA OneAtATimeInvariance == Spec => []OneAtATime
<1>1. Init => OneAtATime
  BY DEF Init, OneAtATime, NoRequest, Handler, Running
<1>2. ASSUME TypeInv, KindInv, OneAtATime, [Next]_vars PROVE OneAtATime'
  <2>1. ASSUME NEW q \in Requests, NEW h, Opening(h), Begin(q, h) PROVE OneAtATime'
    <3>1. SUFFICES ASSUME ~hasty' PROVE OneAtATime'
      BY DEF OneAtATime
    <3>2. /\ \A p \in Requests : p # q => request'[p] = request[p]
          /\ echoes' = echoes /\ echoes = <<>> /\ \A p \in Requests : ~Running(p)
      BY <1>2, <2>1, <3>1, BeginFacts
    <3>. QED BY <3>2 DEF OneAtATime, Running
  <2>2. ASSUME NEW q \in Requests, ReadSetpoint(q) PROVE OneAtATime'
    <3>1. /\ request[q].step = "setpoint" /\ request'[q].step = "publish"
          /\ \A p \in Requests : p # q => request'[p] = request[p]
          /\ hasty' = hasty /\ echoes' = echoes
      BY <1>2, <2>2, ReadFacts
    <3>. QED BY <1>2, <3>1 DEF OneAtATime, Running
  <2>3. ASSUME NEW q \in Requests, Publish(q) \/ PublishFails(q) PROVE OneAtATime'
    <3>1. /\ request[q].step = "publish" /\ request'[q].step = "publish"
          /\ \A p \in Requests : p # q => request'[p] = request[p]
          /\ hasty' = hasty
      BY <1>2, <2>3, PublishFacts, PublishFailsFacts
    <3>2. ~hasty' => \A p \in Requests : request'[p].step # "setpoint"
      BY <1>2, <3>1 DEF OneAtATime, Running
    <3>. QED BY <1>2, <3>1, <3>2 DEF OneAtATime, Running
  <2>4. ASSUME NEW q \in Requests, NEW code, Answer(q, code) PROVE OneAtATime'
    <3>1. /\ request'[q].step = "done"
          /\ \A p \in Requests : p # q => request'[p] = request[p]
          /\ hasty' = hasty /\ echoes' = echoes
      BY <1>2, <2>4, AnswerFacts
    <3>. QED BY <1>2, <3>1 DEF OneAtATime, Running
  <2>5. CASE handleMessage
    <3>1. echoes # <<>> /\ request' = request /\ hasty' = hasty
      BY <2>5, EchoFacts
    <3>. QED BY <1>2, <3>1 DEF OneAtATime, Running
  <2>6. CASE UNCHANGED vars
    BY <1>2, <2>6 DEF OneAtATime, Running, vars, ghosts
  <2>. QED BY <1>2, <2>1, <2>2, <2>3, <2>4, <2>5, <2>6, StepCases DEF Respond, SceneAbandoned
<1>. QED BY <1>1, <1>2, TypeInvariance, KindInvariance, PTL DEF Spec

-----------------------------------------------------------------------------

\* What is asked is a set of messages, at most one for a topic of a zone.
LEMMA AskedFacts ==
  ASSUME NEW asked \in Questions
  PROVE  /\ Asked(asked) \subseteq Messages
         /\ asked[1] = "power" => Asked(asked) = {<<Power(asked[3]), asked[2], "retained">>}
<1>1. CASE asked = <<"none", "none">>
  BY <1>1 DEF Asked
<1>2. CASE asked \in {"temp"} \X Temps
  <2>1. asked[1] = "temp" /\ asked[2] \in Values
    BY <1>2 DEF Values
  <2>. QED BY <2>1, PlanFacts DEF Asked, Temp
<1>3. CASE asked \in {"quiet"} \X {"0", "1"}
  <2>1. asked[1] = "quiet" /\ asked[2] \in Values
    BY <1>3 DEF Values
  <2>. QED BY <2>1, PlanFacts DEF Asked, Quiet
<1>4. CASE asked \in {"power"} \X {"0", "1", "2"} \X RoomSet
  <2>1. asked[1] = "power" /\ asked[2] \in Values /\ asked[3] \in RoomSet
    BY <1>4 DEF Values
  <2>. QED BY <2>1, PlanFacts DEF Asked
<1>5. CASE asked \in {"mode"} \X Modes
  <2>1. asked[1] = "mode" /\ asked[2] \in Modes
    BY <1>5
  <2>. QED BY <2>1, PlanFacts DEF Asked
<1>6. CASE asked \in {"scene"} \X Scenes
  <2>1. asked[1] = "scene" /\ asked[2] \in Seq(Messages)
    BY <1>6, ScenesAssumption
  <2>2. \A i \in DOMAIN asked[2] : asked[2][i] \in Messages
    BY <2>1
  <2>. QED BY <2>1, <2>2 DEF Asked
<1>. QED BY <1>1, <1>2, <1>3, <1>4, <1>5, <1>6 DEF Questions

\* A plan for the zone ends, for every room, with what is asked.
LEMMA ZonePlanFacts ==
  ASSUME NEW kind, NEW v
  PROVE  /\ \A i \in DOMAIN ZonePlan(kind, v) :
              \E r \in RoomSet : ZonePlan(kind, v)[i] = <<<<kind, r>>, v, "retained">>
         /\ \A r \in RoomSet : EndsWith(ZonePlan(kind, v), <<<<kind, r>>, v, "retained">>)
<1>1. DOMAIN ZonePlan(kind, v) = DOMAIN Rooms
      /\ \A i \in DOMAIN Rooms : ZonePlan(kind, v)[i] = <<<<kind, Rooms[i]>>, v, "retained">>
  BY DEF ZonePlan
<1>2. RoomSet = {Rooms[i] : i \in DOMAIN Rooms}
  BY DEF RoomSet, Range
<1>3. \A i, j \in DOMAIN Rooms : Rooms[i] = Rooms[j] => i = j
  BY RoomsAssumption DEF IsInjective
<1>4. \A i \in DOMAIN Rooms : i \in Nat
  BY RoomsAssumption
<1>5. ASSUME NEW r \in RoomSet PROVE EndsWith(ZonePlan(kind, v), <<<<kind, r>>, v, "retained">>)
  <2>1. PICK i \in DOMAIN Rooms : Rooms[i] = r
    BY <1>2
  <2>2. \A k \in DOMAIN Rooms : k > i => Rooms[k] # r
    BY <1>3, <1>4, <2>1
  <2>. QED BY <1>1, <2>1, <2>2 DEF EndsWith
<1>. QED BY <1>1, <1>2, <1>5

\* The plan of a change of the mode: the mode, and then every room off.
LEMMA ModePlanFacts ==
  ASSUME NEW m \in Modes
  PROVE  LET off == ZonePlan("power", "0")
             plan == <<<<Mode, m, "retained">>>> \o off
         IN  /\ plan \in Seq(Messages) /\ plan # <<>>
             /\ Head(plan) = <<Mode, m, "retained">> /\ Tail(plan) = off
             /\ plan[1] = <<Mode, m, "retained">>
             /\ \A i \in DOMAIN plan : i # 1 => \E r \in RoomSet : plan[i] = <<Power(r), "0", "retained">>
<1> DEFINE off == ZonePlan("power", "0")
           first == <<Mode, m, "retained">>
<1>1. off \in Seq(Messages)
  BY ZonePlanTyped DEF Values
<1>2. first \in Messages
  BY PlanFacts
<1>3. \A i \in DOMAIN off : \E r \in RoomSet : off[i] = <<Power(r), "0", "retained">>
  BY ZonePlanFacts DEF Power
<1>. HIDE DEF off, first
<1>4. <<first>> \in Seq(Messages) /\ Len(<<first>>) = 1 /\ <<first>>[1] = first
  BY <1>2
<1> DEFINE plan == <<first>> \o off
<1>5. /\ plan \in Seq(Messages) /\ Len(plan) = 1 + Len(off) /\ plan[1] = first
      /\ \A i \in DOMAIN plan : i # 1 => i - 1 \in DOMAIN off /\ plan[i] = off[i - 1]
  BY <1>1, <1>4
<1>6. plan # <<>> /\ Head(plan) = first
  BY <1>1, <1>5
<1>7. Tail(plan) = off
  <2>1. Tail(plan) \in Seq(Messages) /\ Len(Tail(plan)) = Len(off)
    BY <1>1, <1>5, <1>6
  <2>2. \A i \in 1..Len(off) : Tail(plan)[i] = off[i]
    <3> SUFFICES ASSUME NEW i \in 1..Len(off) PROVE Tail(plan)[i] = off[i]
      OBVIOUS
    <3>1. Tail(plan)[i] = plan[i + 1] /\ i + 1 \in DOMAIN plan /\ i + 1 # 1 /\ (i + 1) - 1 = i
      BY <1>1, <1>5, <2>1, TailFacts, <1>6
    <3>. QED BY <1>5, <3>1
  <2>. HIDE DEF plan
  <2>. QED BY <1>1, <2>1, <2>2
<1>. QED BY <1>3, <1>5, <1>6, <1>7 DEF off, first

-----------------------------------------------------------------------------
(* What the broker retains.                                                  *)

\* What plan sends to a topic is retained, unless a scene chooses otherwise.
PlanRetains(plan) ==
    \A i \in DOMAIN plan : plan[i][1] \in Topics \ Passing => plan[i][3] = "retained"

RetentionInv == /\ \A q \in Requests : PlanRetains(request[q].plan)
                /\ \A x \in Topics \ Passing : retained[x] = latest[x]

LEMMA OpeningRetains == ASSUME NEW h, Opening(h) PROVE PlanRetains(h.plan)
<1>1. ASSUME NEW kind, NEW v PROVE PlanRetains(ZonePlan(kind, v))
  BY <1>1, ZonePlanFacts DEF PlanRetains
<1>2. ASSUME NEW r, NEW v PROVE PlanRetains(<<<<Power(r), v, "retained">>>>)
  <2>1. \A i \in DOMAIN <<<<Power(r), v, "retained">>>> :
          <<<<Power(r), v, "retained">>>>[i] = <<Power(r), v, "retained">>
    OBVIOUS
  <2>. QED BY <2>1 DEF PlanRetains
<1>3. ASSUME NEW m \in Modes PROVE PlanRetains(<<<<Mode, m, "retained">>>> \o ZonePlan("power", "0"))
  BY <1>3, ModePlanFacts DEF PlanRetains
<1>4. PlanRetains(<<>>)
  BY DEF PlanRetains
<1>5. ASSUME NEW s \in Scenes PROVE PlanRetains(s)
  <2> SUFFICES ASSUME NEW i \in DOMAIN s, s[i][1] \in Topics \ Passing PROVE s[i][3] = "retained"
    BY DEF PlanRetains
  <2>1. s[i] \in Messages /\ s[i][3] # "once"
    BY <1>5, ScenesAssumption DEF Passing
  <2>2. \A m \in Messages : m[3] \in Retention
    BY DEF Messages, Retention
  <2>. QED BY <2>1, <2>2 DEF Retention
<1>6. ASSUME NEW step, NEW asked, NEW plan, NEW fatal, h = Handler(step, asked, plan, fatal)
      PROVE  h.plan = plan
  BY <1>6, HandlerFacts
<1>7. \/ \E kind, v : h.plan = ZonePlan(kind, v)
      \/ \E r, v : h.plan = <<<<Power(r), v, "retained">>>>
      \/ h.plan = <<>>
      \/ \E m \in Modes : h.plan = <<<<Mode, m, "retained">>>> \o ZonePlan("power", "0")
      \/ \E s \in Scenes : h.plan = s
  BY <1>6 DEF Opening
<1>. QED BY <1>1, <1>2, <1>3, <1>4, <1>5, <1>7

LEMMA RetainedWhenDelivered ==
  ASSUME BrokerOK, NEW m \in Messages, Deliver(m), NEW x \in Topics \ Passing,
         m[1] = x => m[3] = "retained", retained[x] = latest[x]
  PROVE  retained'[x] = latest'[x]
<1>1. CASE m[1] = Lamp
  BY <1>1 DEF Deliver
<1>2. CASE m[1] # Lamp
  <2>1. /\ latest' = [latest EXCEPT ![m[1]] = m[2]]
        /\ retained' = retained \/ retained' = [retained EXCEPT ![m[1]] = m[2]]
        /\ m[1] = x => retained' = [retained EXCEPT ![m[1]] = m[2]]
    BY <1>2 DEF Deliver
  <2>2. DOMAIN latest = Topics /\ DOMAIN retained = Topics
    BY DEF BrokerOK
  <2>. QED BY <2>1, <2>2
<1>. QED BY <1>1, <1>2

LEMMA RetentionInvariance == Spec => []RetentionInv
<1>1. Init => RetentionInv
  BY DEF Init, RetentionInv, PlanRetains, NoRequest, Handler
<1>2. ASSUME TypeInv, KindInv, RetentionInv, [Next]_vars PROVE RetentionInv'
  <2>1. ASSUME NEW q \in Requests, NEW h, Opening(h), Begin(q, h) PROVE RetentionInv'
    <3>1. /\ request'[q] = h /\ \A p \in Requests : p # q => request'[p] = request[p]
          /\ UNCHANGED <<latest, retained>>
      BY <1>2, <2>1, BeginFacts
    <3>. QED BY <1>2, <2>1, <3>1, OpeningRetains DEF RetentionInv, PlanRetains
  <2>2. ASSUME NEW q \in Requests, ReadSetpoint(q) PROVE RetentionInv'
    <3> DEFINE r == request[q].asked[3]
               on == <<Power(r), request[q].asked[2], "retained">>
               t == <<Temp(r), cache[Temp(r)], "retained">>
    <3>1. /\ \A i \in DOMAIN request'[q].plan : request'[q].plan[i] \in {on, t}
          /\ \A p \in Requests : p # q => request'[p] = request[p]
          /\ UNCHANGED <<latest, retained>>
      BY <1>2, <2>2, ReadFacts
    <3>2. on[3] = "retained" /\ t[3] = "retained"
      OBVIOUS
    <3>. HIDE DEF on, t
    <3>3. PlanRetains(request'[q].plan)
      BY <3>1, <3>2 DEF PlanRetains
    <3>. QED BY <1>2, <3>1, <3>3 DEF RetentionInv, PlanRetains
  <2>3. ASSUME NEW q \in Requests, Publish(q) \/ PublishFails(q) PROVE RetentionInv'
    <3> DEFINE plan == request[q].plan
    <3>1. /\ plan \in Seq(Messages) /\ plan # <<>> /\ Head(plan) \in Messages
          /\ request'[q].plan \in {<<>>, Tail(plan)}
          /\ \A p \in Requests : p # q => request'[p] = request[p]
          /\ Deliver(Head(plan)) \/ UNCHANGED <<latest, retained, echoes, lamp>>
      <4>1. request[q] \in HandlerStates /\ request \in [Requests -> HandlerStates]
        BY <1>2 DEF TypeInv, RequestsOK
      <4>2. PublishFails(q) => request'[q].plan \in {<<>>, Tail(plan)}
        BY <4>1 DEF PublishFails, HandlerStates
      <4>. QED BY <1>2, <2>3, <4>2, PublishFacts, PublishFailsFacts
    <3>. HIDE DEF plan
    <3>2. PlanRetains(plan)
      BY <1>2 DEF RetentionInv, plan
    <3>3. PlanRetains(request'[q].plan)
      <4>1. PlanRetains(<<>>)
        BY DEF PlanRetains
      <4>2. \A i \in DOMAIN Tail(plan) : i + 1 \in DOMAIN plan /\ Tail(plan)[i] = plan[i + 1]
        BY <3>1, TailFacts
      <4>3. PlanRetains(Tail(plan))
        BY <3>2, <4>2 DEF PlanRetains
      <4>. QED BY <3>1, <4>1, <4>3
    <3>4. ASSUME NEW x \in Topics \ Passing PROVE retained'[x] = latest'[x]
      <4>1. Head(plan)[1] = x => Head(plan)[3] = "retained"
        BY <3>1, <3>2, TailFacts DEF PlanRetains
      <4>2. retained[x] = latest[x] /\ BrokerOK
        BY <1>2 DEF RetentionInv, TypeInv
      <4>. QED BY <3>1, <4>1, <4>2, RetainedWhenDelivered
    <3>. QED BY <1>2, <3>1, <3>3, <3>4 DEF RetentionInv, PlanRetains
  <2>4. ASSUME NEW q \in Requests, NEW code, Answer(q, code) PROVE RetentionInv'
    <3>1. /\ request'[q].plan = <<>> /\ \A p \in Requests : p # q => request'[p] = request[p]
          /\ UNCHANGED <<latest, retained>>
      BY <1>2, <2>4, AnswerFacts
    <3>. QED BY <1>2, <3>1 DEF RetentionInv, PlanRetains
  <2>5. ASSUME UNCHANGED <<request, latest, retained>> PROVE RetentionInv'
    BY <1>2, <2>5 DEF RetentionInv, PlanRetains
  <2>6. UNCHANGED vars => UNCHANGED <<request, latest, retained>>
    BY DEF vars
  <2>. QED BY <1>2, <2>1, <2>2, <2>3, <2>4, <2>5, <2>6, StepCases, EchoFacts
           DEF Respond, SceneAbandoned
<1>. QED BY <1>1, <1>2, TypeInvariance, KindInvariance, PTL DEF Spec

\* Whatever requests overlapped, failed or were abandoned: as soon as no echo is on
\* its way, the server has in its cache what was last published on each topic, and
\* as its flag the mode that power is read under; and the broker retains just that,
\* where scenes have what they send retained.
THEOREM CacheIsCoherent == Spec => []CacheCoherent
<1>1. TypeInv /\ EchoesCatchUp /\ FlagFollows /\ RetentionInv => CacheCoherent
  <2> SUFFICES ASSUME TypeInv, EchoesCatchUp, FlagFollows, RetentionInv, echoes = <<>>
               PROVE  /\ cache = latest /\ flag = latest[Mode]
                      /\ \A x \in Topics \ Passing : cache[x] = retained[x]
    BY DEF CacheCoherent
  <2>1. \A t \in Topics : cache[t] = latest[t]
    BY DEF EchoesCatchUp
  <2>2. cache = latest
    BY <2>1 DEF TypeInv, ServerOK, BrokerOK
  <2>. QED BY <2>2 DEF FlagFollows, RetentionInv
<1>. QED BY <1>1, TypeInvariance, CatchUpInvariance, RetentionInvariance, PTL

-----------------------------------------------------------------------------

\* A handler begins with all that is asked still to be sent, or with nothing to do.
LEMMA OpeningDeeds ==
  ASSUME TypeInv, flag = latest[Mode], NEW h, Opening(h), NEW m \in Asked(h.asked)
  PROVE  Kept(h, m)
<1>1. ASSUME NEW kind \in {"temp", "quiet"}, NEW v,
             h = Handler("publish", <<kind, v>>, ZonePlan(kind, v), 0)
      PROVE  Kept(h, m)
  <2>1. h.asked = <<kind, v>> /\ h.plan = ZonePlan(kind, v)
    BY <1>1, HandlerFacts
  <2>2. PICK r \in RoomSet : m = <<<<kind, r>>, v, "retained">>
    <3>1. h.asked[1] = kind /\ h.asked[2] = v
      BY <2>1
    <3>. QED BY <3>1 DEF Asked
  <2>. QED BY <2>1, <2>2, ZonePlanFacts DEF Kept
<1>2. ASSUME NEW step, NEW r, NEW v, h = Handler(step, <<"power", v, r>>, <<<<Power(r), v, "retained">>>>, 2)
      PROVE  Kept(h, m)
  <2>1. h.asked = <<"power", v, r>> /\ h.plan = <<<<Power(r), v, "retained">>>>
    BY <1>2, HandlerFacts
  <2>2. m = <<Power(r), v, "retained">>
    <3>1. h.asked[1] = "power" /\ h.asked[2] = v /\ h.asked[3] = r
      BY <2>1
    <3>. QED BY <3>1 DEF Asked
  <2>. QED BY <2>1, <2>2 DEF Kept, EndsWith
<1>3. ASSUME NEW n \in Modes, NEW plan, h = Handler("publish", <<"mode", n>>, plan, 1),
             \/ flag = n /\ plan = <<>>
             \/ plan = <<<<Mode, n, "retained">>>> \o ZonePlan("power", "0")
      PROVE  Kept(h, m)
  <2>1. h.asked = <<"mode", n>> /\ h.plan = plan
    BY <1>3, HandlerFacts
  <2>2. m = <<Mode, n, "retained">>
    <3>1. h.asked[1] = "mode" /\ h.asked[2] = n
      BY <2>1
    <3>. QED BY <3>1 DEF Asked
  <2>3. CASE flag = n /\ plan = <<>>
    <3>1. m[1] = Mode /\ m[2] = latest[Mode] /\ Mode # Lamp
      BY <2>2, <2>3, TopicFacts
    <3>2. Holds(m)
      BY <3>1 DEF Holds
    <3>3. NothingFor(h.plan, m[1])
      BY <2>1, <2>3 DEF NothingFor
    <3>. QED BY <3>2, <3>3 DEF Kept
  <2>4. CASE plan = <<<<Mode, n, "retained">>>> \o ZonePlan("power", "0")
    <3>1. /\ plan \in Seq(Messages) /\ plan # <<>> /\ plan[1] = m
          /\ \A i \in DOMAIN plan : i # 1 => \E r \in RoomSet : plan[i] = <<Power(r), "0", "retained">>
      BY <2>2, <2>4, ModePlanFacts
    <3>2. \A i \in DOMAIN plan : i # 1 => plan[i][1] # m[1]
      BY <2>2, <3>1, TopicFacts
    <3>3. 1 \in DOMAIN plan
      BY <3>1
    <3>4. EndsWith(plan, m)
      BY <3>1, <3>2, <3>3 DEF EndsWith
    <3>. QED BY <2>1, <3>4 DEF Kept
  <2>. QED BY <1>3, <2>3, <2>4
<1>4. ASSUME NEW s \in Scenes, h = Handler("publish", <<"scene", s>>, s, 0) PROVE Kept(h, m)
  <2>1. h.asked = <<"scene", s>> /\ h.plan = s
    BY <1>4, HandlerFacts
  <2>2. PICK i \in DOMAIN s : m = s[i] /\ \A k \in DOMAIN s : k > i => s[k][1] # s[i][1]
    <3>1. h.asked[1] = "scene" /\ h.asked[2] = s
      BY <2>1
    <3>. QED BY <3>1 DEF Asked
  <2>. QED BY <2>1, <2>2 DEF Kept, EndsWith
<1>5. ASSUME NEW r \in RoomSet, h = Handler("setpoint", <<"power", OnIn(flag), r>>,
                                            <<<<Power(r), OnIn(flag), "retained">>>>, 2)
      PROVE  Kept(h, m)
  <2> DEFINE v == OnIn(flag)
  <2>1. h = Handler("setpoint", <<"power", v, r>>, <<<<Power(r), v, "retained">>>>, 2)
    BY <1>5
  <2>. HIDE DEF v
  <2>. QED BY <1>2, <2>1
<1>6. ASSUME NEW r \in RoomSet, h = Handler("publish", <<"power", "0", r>>, <<<<Power(r), "0", "retained">>>>, 2)
      PROVE  Kept(h, m)
  BY <1>2, <1>6
<1>7. ASSUME NEW n \in Modes, flag = n, h = Handler("publish", <<"mode", n>>, <<>>, 1) PROVE Kept(h, m)
  BY <1>3, <1>7
<1>8. ASSUME NEW n \in Modes,
             h = Handler("publish", <<"mode", n>>, <<<<Mode, n, "retained">>>> \o ZonePlan("power", "0"), 1)
      PROVE  Kept(h, m)
  BY <1>3, <1>8
<1>. QED BY <1>1, <1>4, <1>5, <1>6, <1>7, <1>8 DEF Opening

\* Sending the next message of a plan keeps what was asked, or notes its failure.
LEMMA SendingKeeps ==
  ASSUME BrokerOK, NEW plan \in Seq(Messages), plan # <<>>, NEW m \in Messages,
         NEW failed, NEW failedNow, failed \subseteq failedNow,
         \/ EndsWith(plan, m)
         \/ NothingFor(plan, m[1]) /\ (m[1] \in failed \/ Holds(m)),
         \/ Deliver(Head(plan))
         \/ UNCHANGED <<latest, retained, lamp>> /\ Head(plan)[1] \in failedNow
  PROVE  \/ EndsWith(Tail(plan), m)
         \/ NothingFor(Tail(plan), m[1]) /\ (m[1] \in failedNow \/ Holds(m)')
<1>1. Head(plan) \in Messages
  BY TailFacts
<1>2. CASE EndsWith(plan, m)
  <2>1. CASE EndsWith(Tail(plan), m)
    BY <2>1
  <2>2. CASE Head(plan) = m /\ NothingFor(Tail(plan), m[1])
    <3>1. m[1] \in failedNow \/ Holds(m)'
      BY <1>1, <2>2, DeliveredHolds
    <3>. QED BY <2>2, <3>1
  <2>. QED BY <1>2, <2>1, <2>2, TailEndsWith
<1>3. CASE NothingFor(plan, m[1]) /\ (m[1] \in failed \/ Holds(m))
  <2>1. NothingFor(Tail(plan), m[1]) /\ Head(plan)[1] # m[1]
    BY <1>3, NothingInTail
  <2>2. Holds(m) => Holds(m)'
    <3>1. CASE Deliver(Head(plan))
      BY <1>1, <2>1, <3>1, DeliveredHolds
    <3>2. CASE UNCHANGED <<latest, retained, lamp>>
      BY <3>2 DEF Holds
    <3>. QED BY <3>1, <3>2
  <2>. QED BY <1>3, <2>1, <2>2
<1>. QED BY <1>2, <1>3

LEMMA DeedsInvariance == Spec => []Deeds
<1>1. Init => Deeds
  <2> SUFFICES ASSUME Init PROVE Deeds
    OBVIOUS
  <2>1. \A q \in Requests : ~Running(q)
    BY DEF Init, NoRequest, Handler, Running
  <2>2. Asked(answer.asked) = {}
    BY DEF Init, Asked
  <2>. QED BY <2>1, <2>2 DEF Deeds
<1>2. ASSUME TypeInv, EchoesCatchUp, FlagFollows, KindInv, OneAtATime, Deeds, [Next]_vars PROVE Deeds'
  <2> SUFFICES ASSUME ~hasty' PROVE Deeds'
    BY DEF Deeds
  <2>1. ASSUME NEW q \in Requests, NEW h, Opening(h), Begin(q, h) PROVE Deeds'
    <3>1. /\ request'[q] = h /\ \A p \in Requests : p # q => request'[p] = request[p]
          /\ UNCHANGED <<latest, retained, lamp, answer>>
          /\ echoes = <<>> /\ \A p \in Requests : ~Running(p)
      BY <1>2, <2>1, BeginFacts
    <3>2. flag = latest[Mode]
      BY <1>2, <3>1, TopicFacts DEF EchoesCatchUp, FlagFollows
    <3>3. \A p \in Requests : Running(p)' <=> p = q
      BY <2>1, <3>1, OpeningKinds DEF Running
    <3>4. ASSUME NEW m \in Asked(h.asked) PROVE Kept(h, m) /\ (Holds(m)' <=> Holds(m))
      BY <1>2, <2>1, <3>1, <3>2, <3>4, OpeningDeeds DEF Holds
    <3>. QED BY <2>1, <3>1, <3>3, <3>4 DEF Deeds, Kept
  <2>2. ASSUME NEW q \in Requests, ~hasty, Running(q), Running(q)',
               request'[q].asked = request[q].asked,
               \A p \in Requests : p # q => request'[p] = request[p],
               request'[q].failed = {} \/ Collects(request[q])
                 => \A m \in Asked(request[q].asked) :
                       \/ EndsWith(request'[q].plan, m)
                       \/ NothingFor(request'[q].plan, m[1])
                          /\ (m[1] \in request'[q].failed \/ Holds(m)')
        PROVE  Deeds'
    <3>1. \A p \in Requests : Running(p)' => p = q
      BY <1>2, <2>2 DEF OneAtATime, Running
    <3>2. Collects(request[q])' <=> Collects(request[q])
      BY <2>2 DEF Collects
    <3>. QED BY <2>2, <3>1, <3>2 DEF Deeds, Kept
  <2>3. \A q \in Requests : request[q].asked \in Questions /\ Asked(request[q].asked) \subseteq Messages
    BY <1>2, AskedFacts DEF TypeInv, RequestsOK, HandlerStates
  <2>4. ASSUME NEW q \in Requests, ReadSetpoint(q) PROVE Deeds'
    <3> DEFINE r == request[q].asked[3]
               on == <<Power(r), request[q].asked[2], "retained">>
    <3>1. /\ request[q].step = "setpoint" /\ request'[q].step = "publish"
          /\ request[q].asked[1] = "power"
          /\ request'[q].asked = request[q].asked
          /\ EndsWith(request'[q].plan, on)
          /\ \A p \in Requests : p # q => request'[p] = request[p]
          /\ hasty' = hasty
      BY <1>2, <2>4, ReadFacts
    <3>2. Asked(request[q].asked) = {on}
      BY <2>3, <3>1, AskedFacts
    <3>3. Running(q) /\ Running(q)' /\ ~hasty
      BY <3>1 DEF Running
    <3>. HIDE DEF on
    <3>. QED BY <2>2, <3>1, <3>2, <3>3
  <2>5. ASSUME NEW q \in Requests, Publish(q) PROVE Deeds'
    <3>1. /\ request[q].plan \in Seq(Messages) /\ request[q].plan # <<>>
          /\ request[q].step = "publish" /\ request'[q].step = "publish"
          /\ request'[q].asked = request[q].asked /\ request'[q].failed = request[q].failed
          /\ request'[q].plan = Tail(request[q].plan)
          /\ \A p \in Requests : p # q => request'[p] = request[p]
          /\ Deliver(Head(request[q].plan)) /\ hasty' = hasty
      BY <1>2, <2>5, PublishFacts
    <3>2. Running(q) /\ Running(q)' /\ ~hasty
      BY <3>1 DEF Running
    <3>3. ASSUME request'[q].failed = {} \/ Collects(request[q]), NEW m \in Asked(request[q].asked)
          PROVE  \/ EndsWith(request'[q].plan, m)
                 \/ NothingFor(request'[q].plan, m[1])
                    /\ (m[1] \in request'[q].failed \/ Holds(m)')
      <4>1. \/ EndsWith(request[q].plan, m)
            \/ NothingFor(request[q].plan, m[1]) /\ (m[1] \in request[q].failed \/ Holds(m))
        BY <1>2, <3>1, <3>2, <3>3 DEF Deeds, Kept
      <4>. QED BY <1>2, <2>3, <3>1, <4>1, SendingKeeps DEF TypeInv
    <3>. QED BY <2>2, <3>1, <3>2, <3>3
  <2>6. ASSUME NEW q \in Requests, PublishFails(q) PROVE Deeds'
    <3>1. /\ request[q].plan \in Seq(Messages) /\ request[q].plan # <<>>
          /\ request[q].step = "publish" /\ request'[q].step = "publish"
          /\ request'[q].asked = request[q].asked
          /\ request'[q].failed = request[q].failed \cup {Head(request[q].plan)[1]}
          /\ request[q].fatal = 0 => request'[q].plan = Tail(request[q].plan)
          /\ \A p \in Requests : p # q => request'[p] = request[p]
          /\ Deliver(Head(request[q].plan)) \/ UNCHANGED <<latest, retained, echoes, lamp>>
          /\ hasty' = hasty
      BY <1>2, <2>6, PublishFailsFacts
    <3>2. Running(q) /\ Running(q)' /\ ~hasty
      BY <3>1 DEF Running
    <3>3. ASSUME request'[q].failed = {} \/ Collects(request[q]), NEW m \in Asked(request[q].asked)
          PROVE  \/ EndsWith(request'[q].plan, m)
                 \/ NothingFor(request'[q].plan, m[1])
                    /\ (m[1] \in request'[q].failed \/ Holds(m)')
      <4>1. Collects(request[q])
        BY <3>1, <3>3
      <4>2. request'[q].plan = Tail(request[q].plan)
        BY <1>2, <3>1, <3>2, <4>1 DEF KindInv
      <4>3. \/ EndsWith(request[q].plan, m)
            \/ NothingFor(request[q].plan, m[1]) /\ (m[1] \in request[q].failed \/ Holds(m))
        BY <1>2, <3>1, <3>2, <3>3, <4>1 DEF Deeds, Kept
      <4>. QED BY <1>2, <2>3, <3>1, <4>2, <4>3, SendingKeeps DEF TypeInv
    <3>. QED BY <2>2, <3>1, <3>2, <3>3
  <2>7. ASSUME NEW q \in Requests, Respond(q) \/ SceneAbandoned(q) PROVE Deeds'
    <3>1. PICK code : /\ Answer(q, code) /\ request[q].step = "publish"
                      /\ code = 204 => request[q].failed = {} /\ request[q].plan = <<>>
                      /\ code = 500 => request[q].plan = <<>>
      BY <2>7 DEF Respond, SceneAbandoned
    <3>2. /\ request'[q].step = "done"
          /\ \A p \in Requests : p # q => request'[p] = request[p]
          /\ answer' = [asked |-> request[q].asked, failed |-> request[q].failed, code |-> code]
          /\ UNCHANGED <<latest, retained, lamp, hasty>>
      BY <1>2, <3>1, AnswerFacts
    <3>3. Running(q) /\ ~hasty
      BY <3>1, <3>2 DEF Running
    <3>4. \A p \in Requests : ~Running(p)'
      BY <1>2, <3>2, <3>3 DEF OneAtATime, Running
    <3>5. /\ answer'.asked = request[q].asked /\ answer'.failed = request[q].failed
          /\ answer'.code = code
      BY <3>2
    <3>6. ASSUME NEW m \in Asked(request[q].asked), code \in {204, 500},
                 request[q].failed = {} \/ Collects(request[q])
          PROVE  m[1] \in request[q].failed \/ Holds(m)'
      <4>1. Kept(request[q], m) /\ request[q].plan = <<>>
        BY <1>2, <3>1, <3>3, <3>6 DEF Deeds
      <4>2. Holds(m)' <=> Holds(m)
        BY <3>2 DEF Holds
      <4>. QED BY <4>1, <4>2 DEF Kept, EndsWith
    <3>7. Collects(answer)' <=> Collects(request[q])
      BY <3>5 DEF Collects
    <3>8. ASSUME NEW m \in Asked(request[q].asked)
          PROVE  /\ code = 204 => Holds(m)'
                 /\ code = 500 /\ Collects(request[q]) => m[1] \in request[q].failed \/ Holds(m)'
      BY <3>1, <3>6, <3>8
    <3>. QED BY <3>4, <3>5, <3>7, <3>8 DEF Deeds
  <2>8. ASSUME UNCHANGED <<latest, retained, request, lamp, answer, hasty>> PROVE Deeds'
    BY <1>2, <2>8 DEF Deeds, Kept, Holds, Running, Collects
  <2>9. UNCHANGED vars => UNCHANGED <<latest, retained, request, lamp, answer, hasty>>
    BY DEF vars, ghosts
  <2>. QED BY <1>2, <2>1, <2>4, <2>5, <2>6, <2>7, <2>8, <2>9, StepCases, EchoFacts
<1>. QED BY <1>1, <1>2, TypeInvariance, CatchUpInvariance, KindInvariance, OneAtATimeInvariance, PTL
         DEF Spec

\* A 204 is the truth: what was asked is what the broker holds and the lamp was told, for
\* any rooms and scenes and whatever failed before, if requests wait for each other's echoes.
THEOREM AnswersAreTrue == Spec => []AnswerIsTruthful
<1>1. Deeds => AnswerIsTruthful
  BY DEF Deeds, AnswerIsTruthful, AtRest, Unhurried
<1>. QED BY <1>1, DeedsInvariance, PTL

\* A publish that fails takes nothing with it: behind a 500 for a zone or a scene, what
\* is not among the failures has been done.
THEOREM TheRestIsSent == Spec => []RestWasSent
<1>1. Deeds => RestWasSent
  BY DEF Deeds, RestWasSent, AtRest, Unhurried, Collects
<1>. QED BY <1>1, DeedsInvariance, PTL

-----------------------------------------------------------------------------

Suits(r) == latest[Power(r)] \in {"0", OnIn(latest[Mode])}

\* Topics of different kinds, or of different rooms, are different.
LEMMA KindsDiffer ==
  /\ \A r, o \in RoomSet : /\ Power(r) # Temp(o) /\ Power(r) # Quiet(o) /\ Temp(r) # Quiet(o)
                           /\ Power(r) = Power(o) => r = o
  /\ \A r \in RoomSet : Power(r) # Mode /\ Temp(r) # Mode /\ Quiet(r) # Mode
BY DEF Power, Temp, Quiet, Mode

LEMMA OpeningSuits ==
  ASSUME ScenesLeaveMode, NEW h, Opening(h)
  PROVE  /\ PlanSuits(h.plan, flag)
         /\ h.asked[1] # "mode" => NothingFor(h.plan, Mode)
<1> DEFINE Fine == /\ PlanSuits(h.plan, flag)
                   /\ h.asked[1] # "mode" => NothingFor(h.plan, Mode)
<1>1. ASSUME \A i \in DOMAIN h.plan :
                /\ h.plan[i][1] # Mode
                /\ \A r \in RoomSet : h.plan[i][1] = Power(r) => h.plan[i][2] \in {"0", OnIn(flag)}
      PROVE  Fine
  BY <1>1 DEF PlanSuits, NothingFor
<1>. HIDE DEF Fine
<1>2. ASSUME NEW t, h = Handler("publish", <<"temp", t>>, ZonePlan("temp", t), 0) PROVE Fine
  <2>1. h.plan = ZonePlan("temp", t)
    BY <1>2, HandlerFacts
  <2>2. \A i \in DOMAIN h.plan : \E o \in RoomSet : h.plan[i] = <<Temp(o), t, "retained">>
    BY <2>1, ZonePlanFacts DEF Temp
  <2>. QED BY <1>1, <2>2, KindsDiffer
<1>3. ASSUME NEW v, h = Handler("publish", <<"quiet", v>>, ZonePlan("quiet", v), 0) PROVE Fine
  <2>1. h.plan = ZonePlan("quiet", v)
    BY <1>3, HandlerFacts
  <2>2. \A i \in DOMAIN h.plan : \E o \in RoomSet : h.plan[i] = <<Quiet(o), v, "retained">>
    BY <2>1, ZonePlanFacts DEF Quiet
  <2>. QED BY <1>1, <2>2, KindsDiffer
<1>4. ASSUME NEW step, NEW asked, NEW r \in RoomSet, NEW v \in {"0", OnIn(flag)},
             h = Handler(step, asked, <<<<Power(r), v, "retained">>>>, 2)
      PROVE  Fine
  <2>1. h.plan = <<<<Power(r), v, "retained">>>>
    BY <1>4, HandlerFacts
  <2>2. \A i \in DOMAIN h.plan : h.plan[i] = <<Power(r), v, "retained">>
    BY <2>1
  <2>. QED BY <1>1, <2>2, KindsDiffer
<1>5. ASSUME NEW m \in Modes, h = Handler("publish", <<"mode", m>>, <<>>, 1) PROVE Fine
  <2>1. h.plan = <<>>
    BY <1>5, HandlerFacts
  <2>. QED BY <1>1, <2>1
<1>6. ASSUME NEW m \in Modes,
             h = Handler("publish", <<"mode", m>>, <<<<Mode, m, "retained">>>> \o ZonePlan("power", "0"), 1)
      PROVE  Fine
  <2> DEFINE off == ZonePlan("power", "0")
             plan == <<<<Mode, m, "retained">>>> \o off
             asked == <<"mode", m>>
  <2>1. h.plan = plan /\ h.asked = asked
    <3>1. h = Handler("publish", asked, plan, 1)
      BY <1>6
    <3>. HIDE DEF plan, asked
    <3>. QED BY <3>1, HandlerFacts
  <2>2. /\ Tail(plan) = off /\ plan[1] = <<Mode, m, "retained">>
        /\ \A i \in DOMAIN plan : i # 1 => \E r \in RoomSet : plan[i] = <<Power(r), "0", "retained">>
    BY ModePlanFacts
  <2>3. ASSUME NEW r \in RoomSet PROVE SwitchesOff(off, r)
    <3>1. EndsWith(off, <<Power(r), "0", "retained">>)
      BY ZonePlanFacts DEF Power
    <3>. HIDE DEF off
    <3>. QED BY <3>1 DEF EndsWith, SwitchesOff
  <2>. HIDE DEF off, plan
  <2>4. PlanSuits(plan, flag)
    <3>1. ASSUME NEW i \in DOMAIN plan, plan[i][1] = Mode PROVE i = 1
      BY <2>2, <3>1, KindsDiffer
    <3>2. ASSUME NEW i \in DOMAIN plan, NEW r \in RoomSet, plan[i][1] = Power(r) PROVE plan[i][2] = "0"
      <4>1. i # 1
        BY <2>2, <3>2, KindsDiffer
      <4>. QED BY <2>2, <4>1
    <3>. QED BY <2>2, <2>3, <3>1, <3>2 DEF PlanSuits
  <2>5. h.asked[1] = "mode"
    BY <2>1
  <2>. QED BY <2>1, <2>4, <2>5 DEF Fine
<1>7. ASSUME NEW s \in Scenes, h = Handler("publish", <<"scene", s>>, s, 0) PROVE Fine
  <2>1. h.plan = s
    BY <1>7, HandlerFacts
  <2>. QED BY <1>1, <2>1 DEF ScenesLeaveMode
<1>8. ASSUME NEW r \in RoomSet, h = Handler("setpoint", <<"power", OnIn(flag), r>>,
                                            <<<<Power(r), OnIn(flag), "retained">>>>, 2)
      PROVE  Fine
  <2> DEFINE v == OnIn(flag)
             asked == <<"power", v, r>>
  <2>1. v \in {"0", OnIn(flag)} /\ h = Handler("setpoint", asked, <<<<Power(r), v, "retained">>>>, 2)
    BY <1>8
  <2>. HIDE DEF v, asked
  <2>. QED BY <1>4, <2>1
<1>9. ASSUME NEW r \in RoomSet, h = Handler("publish", <<"power", "0", r>>, <<<<Power(r), "0", "retained">>>>, 2)
      PROVE  Fine
  <2> DEFINE asked == <<"power", "0", r>>
  <2>1. h = Handler("publish", asked, <<<<Power(r), "0", "retained">>>>, 2)
    BY <1>9
  <2>. HIDE DEF asked
  <2>. QED BY <1>4, <2>1
<1>10. Fine
  BY <1>2, <1>3, <1>5, <1>6, <1>7, <1>8, <1>9 DEF Opening
<1>. QED BY <1>10 DEF Fine

\* Sending the next message leaves no room in the wrong mode that is not to be
\* switched off later in the plan.
LEMMA SendingSuits ==
  ASSUME BrokerOK, NEW plan \in Seq(Messages), plan # <<>>, PlanSuits(plan, latest[Mode]),
         Deliver(Head(plan))
  PROVE  /\ PlanSuits(Tail(plan), latest'[Mode])
         /\ NothingFor(plan, Mode) => NothingFor(Tail(plan), Mode) /\ latest'[Mode] = latest[Mode]
         /\ \A r \in RoomSet :
               Suits(r) \/ SwitchesOff(plan, r)
                 => \/ Suits(r)'
                    \/ SwitchesOff(Tail(plan), r) /\ (Suits(r) => ~NothingFor(plan, Mode))
<1>1. Head(plan) \in Messages /\ 1 \in DOMAIN plan /\ plan[1] = Head(plan)
  BY TailFacts
<1>2. NothingFor(Tail(plan), Mode)
  <2>1. ASSUME NEW i \in DOMAIN Tail(plan) PROVE Tail(plan)[i][1] # Mode
    <3>1. i + 1 \in DOMAIN plan /\ Tail(plan)[i] = plan[i + 1] /\ i + 1 # 1
      BY TailFacts
    <3>. QED BY <3>1 DEF PlanSuits
  <2>. QED BY <2>1 DEF NothingFor
<1>3. CASE Head(plan)[1] = Mode
  <2>1. \A r \in RoomSet : SwitchesOff(Tail(plan), r)
    BY <1>1, <1>3 DEF PlanSuits
  <2>2. ~NothingFor(plan, Mode)
    BY <1>1, <1>3 DEF NothingFor
  <2>3. ASSUME NEW i \in DOMAIN Tail(plan), NEW r \in RoomSet, Tail(plan)[i][1] = Power(r)
        PROVE  Tail(plan)[i][2] = "0"
    <3>1. i + 1 \in DOMAIN plan /\ Tail(plan)[i] = plan[i + 1]
      BY TailFacts
    <3>. QED BY <2>2, <2>3, <3>1 DEF PlanSuits
  <2>4. PlanSuits(Tail(plan), latest'[Mode])
    BY <1>2, <2>3 DEF PlanSuits, NothingFor
  <2>. QED BY <2>1, <2>2, <2>4
<1>4. CASE Head(plan)[1] # Mode
  <2>1. latest'[Mode] = latest[Mode]
    BY <1>1, <1>4, DeliveryFacts, TopicFacts
  <2>2. ASSUME NEW i \in DOMAIN Tail(plan), NEW r \in RoomSet, Tail(plan)[i][1] = Power(r)
        PROVE  Tail(plan)[i][2] = "0" \/ Tail(plan)[i][2] = OnIn(latest[Mode])
    <3>1. i + 1 \in DOMAIN plan /\ Tail(plan)[i] = plan[i + 1]
      BY TailFacts
    <3>. QED BY <2>2, <3>1 DEF PlanSuits
  <2>3. PlanSuits(Tail(plan), latest'[Mode])
    BY <1>2, <2>1, <2>2 DEF PlanSuits, NothingFor
  <2>4. ASSUME NEW r \in RoomSet, Head(plan)[1] = Power(r) PROVE Suits(r)'
    <3>1. Head(plan)[2] \in {"0", OnIn(latest[Mode])}
      BY <1>1, <2>4 DEF PlanSuits
    <3>2. latest'[Power(r)] = Head(plan)[2]
      BY <1>1, <2>4, DeliveryFacts, TopicFacts
    <3>. QED BY <2>1, <3>1, <3>2 DEF Suits
  <2>5. ASSUME NEW r \in RoomSet, Head(plan)[1] # Power(r)
        PROVE  /\ Suits(r) => Suits(r)'
               /\ SwitchesOff(plan, r) => SwitchesOff(Tail(plan), r)
    <3>1. latest'[Power(r)] = latest[Power(r)]
      BY <1>1, <2>5, DeliveryFacts, TopicFacts
    <3>2. ASSUME SwitchesOff(plan, r) PROVE SwitchesOff(Tail(plan), r)
      <4>1. PICK i \in DOMAIN plan : plan[i] = <<Power(r), "0", "retained">>
        BY <3>2 DEF SwitchesOff
      <4>2. i # 1
        BY <1>1, <2>5, <4>1
      <4>3. i - 1 \in DOMAIN Tail(plan) /\ Tail(plan)[i - 1] = plan[i]
        BY <4>2, TailFacts
      <4>. QED BY <4>1, <4>3 DEF SwitchesOff
    <3>. QED BY <2>1, <3>1, <3>2 DEF Suits
  <2>6. ASSUME NEW r \in RoomSet, Suits(r) \/ SwitchesOff(plan, r)
        PROVE  Suits(r)' \/ (SwitchesOff(Tail(plan), r) /\ ~Suits(r))
    BY <2>4, <2>5, <2>6
  <2>. QED BY <1>2, <2>1, <2>3, <2>6
<1>. QED BY <1>3, <1>4

LEMMA ModeInvariance == ASSUME ScenesLeaveMode PROVE Spec => []ModeInv
<1>1. Init => ModeInv
  <2> SUFFICES ASSUME Init PROVE ModeInv
    OBVIOUS
  <2>1. \A q \in Requests : ~Running(q)
    BY DEF Init, NoRequest, Handler, Running
  <2>2. PICK m \in Modes, on \in SUBSET RoomSet, t \in Temps \cup {"absent"} :
          latest = [x \in Topics |-> CASE x = Mode -> m
                                       [] x[1] = "power" -> IF x[2] \in on THEN OnIn(m) ELSE "0"
                                       [] x[1] = "temp" -> t
                                       [] x[1] = "quiet" -> "0"]
    BY DEF Init
  <2>3. latest[Mode] = m
    BY <2>2, TopicFacts DEF Mode
  <2>4. ASSUME NEW r \in RoomSet PROVE latest[Power(r)] \in {"0", OnIn(m)}
    <3>1. Power(r) \in Topics /\ Power(r) # Mode /\ Power(r)[1] = "power"
      BY TopicFacts DEF Power
    <3>. QED BY <2>2, <3>1
  <2>. QED BY <2>1, <2>3, <2>4 DEF ModeInv
<1>2. ASSUME TypeInv, EchoesCatchUp, FlagFollows, KindInv, OneAtATime, ModeInv, [Next]_vars
      PROVE  ModeInv'
  <2> SUFFICES ASSUME ~hasty', ~lossy' PROVE ModeInv'
    BY DEF ModeInv
  <2>1. ASSUME NEW q \in Requests, NEW h, Opening(h), Begin(q, h) PROVE ModeInv'
    <3>1. /\ request'[q] = h /\ \A p \in Requests : p # q => request'[p] = request[p]
          /\ UNCHANGED <<latest, retained, lossy>> /\ ~hasty
          /\ echoes = <<>> /\ \A p \in Requests : ~Running(p)
      BY <1>2, <2>1, BeginFacts
    <3>2. flag = latest[Mode]
      BY <1>2, <3>1, TopicFacts DEF EchoesCatchUp, FlagFollows
    <3>3. \A p \in Requests : Running(p)' <=> p = q
      BY <2>1, <3>1, OpeningKinds DEF Running
    <3>4. PlanSuits(h.plan, latest[Mode]) /\ (h.asked[1] # "mode" => NothingFor(h.plan, Mode))
      BY <2>1, <3>2, OpeningSuits
    <3>5. \A r \in RoomSet : Suits(r)
      BY <1>2, <3>1 DEF ModeInv, Suits
    <3>. QED BY <3>1, <3>3, <3>4, <3>5 DEF ModeInv, Suits
  <2>2. ASSUME NEW q \in Requests, ReadSetpoint(q) PROVE ModeInv'
    <3> DEFINE o == request[q].asked[3]
               on == <<Power(o), request[q].asked[2], "retained">>
               re == <<Temp(o), cache[Temp(o)], "retained">>
    <3>1. /\ request[q].step = "setpoint" /\ request'[q].step = "publish"
          /\ request[q].asked[1] = "power" /\ request'[q].asked = request[q].asked
          /\ o \in RoomSet /\ request[q].plan = <<on>>
          /\ \A i \in DOMAIN request'[q].plan : request'[q].plan[i] \in {on, re}
          /\ \A p \in Requests : p # q => request'[p] = request[p]
          /\ UNCHANGED <<latest, retained, hasty, lossy>>
      BY <1>2, <2>2, ReadFacts
    <3>2. Running(q) /\ \A p \in Requests : Running(p)' => p = q
      BY <1>2, <3>1 DEF OneAtATime, Running
    <3>3. on[2] \in {"0", OnIn(latest[Mode])}
      <4>1. PlanSuits(<<on>>, latest[Mode])
        BY <1>2, <3>1, <3>2 DEF ModeInv
      <4>2. 1 \in DOMAIN <<on>> /\ <<on>>[1] = on /\ on[1] = Power(o)
        OBVIOUS
      <4>. QED BY <3>1, <4>1, <4>2 DEF PlanSuits
    <3>4. NothingFor(request'[q].plan, Mode)
      BY <3>1, KindsDiffer DEF NothingFor
    <3>5. ASSUME NEW i \in DOMAIN request'[q].plan, NEW r \in RoomSet,
                 request'[q].plan[i][1] = Power(r)
          PROVE  request'[q].plan[i][2] \in {"0", OnIn(latest[Mode])}
      BY <3>1, <3>3, <3>5, KindsDiffer
    <3>6. PlanSuits(request'[q].plan, latest[Mode])
      BY <3>4, <3>5 DEF PlanSuits, NothingFor
    <3>7. \A r \in RoomSet : Suits(r)
      <4>1. \A p \in Requests : Running(p) => p = q
        BY <1>2, <3>1, <3>2 DEF OneAtATime
      <4>. QED BY <1>2, <3>1, <4>1 DEF ModeInv, Suits
    <3>. QED BY <3>1, <3>2, <3>4, <3>6, <3>7 DEF ModeInv, Suits
  <2>3. ASSUME NEW q \in Requests, Publish(q) PROVE ModeInv'
    <3>1. /\ request[q].plan \in Seq(Messages) /\ request[q].plan # <<>>
          /\ request[q].step = "publish" /\ request'[q].step = "publish"
          /\ request'[q].asked = request[q].asked
          /\ request'[q].plan = Tail(request[q].plan)
          /\ \A p \in Requests : p # q => request'[p] = request[p]
          /\ Deliver(Head(request[q].plan)) /\ UNCHANGED <<hasty, lossy>>
      BY <1>2, <2>3, PublishFacts
    <3>2. Running(q) /\ Running(q)' /\ \A p \in Requests : Running(p) \/ Running(p)' => p = q
      BY <1>2, <3>1 DEF OneAtATime, Running
    <3>3. /\ PlanSuits(request[q].plan, latest[Mode])
          /\ request[q].asked[1] # "mode" => NothingFor(request[q].plan, Mode)
      BY <1>2, <3>1, <3>2 DEF ModeInv
    <3>4. /\ PlanSuits(request'[q].plan, latest'[Mode])
          /\ request'[q].asked[1] # "mode" => NothingFor(request'[q].plan, Mode)
      BY <1>2, <3>1, <3>3, SendingSuits DEF TypeInv
    <3>5. ASSUME NEW r \in RoomSet
          PROVE  Suits(r)' \/ (request'[q].asked[1] = "mode" /\ SwitchesOff(request'[q].plan, r))
      <4>1. Suits(r) \/ (request[q].asked[1] = "mode" /\ SwitchesOff(request[q].plan, r))
        BY <1>2, <3>1, <3>2 DEF ModeInv, Suits
      <4>. QED BY <1>2, <3>1, <3>3, <4>1, SendingSuits DEF TypeInv
    <3>. QED BY <3>2, <3>4, <3>5 DEF ModeInv, Suits
  <2>4. ASSUME NEW q \in Requests, PublishFails(q) PROVE ModeInv'
    BY <1>2, <2>4, PublishFailsFacts
  <2>5. ASSUME NEW q \in Requests, Respond(q) \/ SceneAbandoned(q) PROVE ModeInv'
    <3>1. PICK code : Answer(q, code) /\ request[q].step = "publish"
      BY <2>5 DEF Respond, SceneAbandoned
    <3>2. /\ request'[q].step = "done"
          /\ \A p \in Requests : p # q => request'[p] = request[p]
          /\ UNCHANGED <<latest, retained, hasty, lossy>>
      BY <1>2, <3>1, AnswerFacts
    <3>3. \A p \in Requests : Running(p) => p = q
      BY <1>2, <3>1, <3>2 DEF OneAtATime, Running
    <3>4. \A p \in Requests : ~Running(p)'
      BY <3>2, <3>3 DEF Running
    <3>5. ASSUME NEW r \in RoomSet PROVE ~(request[q].asked[1] = "mode" /\ SwitchesOff(request[q].plan, r))
      <4>1. CASE Respond(q)
        BY <4>1 DEF Respond, SwitchesOff
      <4>2. CASE SceneAbandoned(q)
        BY <4>2 DEF SceneAbandoned
      <4>. QED BY <2>5, <4>1, <4>2
    <3>6. \A r \in RoomSet : Suits(r)
      BY <1>2, <3>2, <3>3, <3>5 DEF ModeInv, Suits
    <3>. QED BY <3>2, <3>4, <3>6 DEF ModeInv, Suits
  <2>6. ASSUME UNCHANGED <<latest, retained, request, hasty, lossy>> PROVE ModeInv'
    BY <1>2, <2>6 DEF ModeInv, Running
  <2>7. UNCHANGED vars => UNCHANGED <<latest, retained, request, hasty, lossy>>
    BY DEF vars, ghosts
  <2>. QED BY <1>2, <2>1, <2>2, <2>3, <2>4, <2>5, <2>6, <2>7, StepCases, EchoFacts
<1>. QED BY <1>1, <1>2, TypeInvariance, CatchUpInvariance, KindInvariance, OneAtATimeInvariance, PTL
         DEF Spec

\* "On means heat or cool depending on the global mode": at rest no room runs in the other
\* mode, for any rooms, if requests wait for each other's echoes, no publish failed, and no
\* scene turns a room on or sets the mode.
THEOREM RoomsFollowTheMode == ASSUME ScenesLeaveMode PROVE Spec => []PowerMatchesMode
<1>1. ModeInv => PowerMatchesMode
  BY DEF ModeInv, PowerMatchesMode, AtRest, Unhurried
<1>. QED BY <1>1, ModeInvariance, PTL

-----------------------------------------------------------------------------

LEMMA OpeningSetpoints ==
  ASSUME ScenesLeaveSetpoints, NEW h, Opening(h), NEW r \in RoomSet
  PROVE  SetpointsSuit(h, r)
<1>1. ASSUME h.asked[1] # "temp", \A i \in DOMAIN h.plan : h.plan[i][1] # Temp(r)
      PROVE  SetpointsSuit(h, r)
  BY <1>1 DEF SetpointsSuit
<1>2. ASSUME NEW t, h = Handler("publish", <<"temp", t>>, ZonePlan("temp", t), 0)
      PROVE  SetpointsSuit(h, r)
  <2>1. h.plan = ZonePlan("temp", t) /\ h.asked = <<"temp", t>>
    BY <1>2, HandlerFacts
  <2>2. h.asked[1] = "temp" /\ h.asked[2] = t
    BY <2>1
  <2>3. \A i \in DOMAIN h.plan : h.plan[i][2] = t
    BY <2>1, ZonePlanFacts
  <2>4. EndsWith(h.plan, <<Temp(r), t, "retained">>)
    BY <2>1, ZonePlanFacts DEF Temp
  <2>5. ~NothingFor(h.plan, Temp(r))
    BY <2>4 DEF EndsWith, NothingFor
  <2>. QED BY <2>2, <2>3, <2>5 DEF SetpointsSuit
<1>3. ASSUME NEW v, h = Handler("publish", <<"quiet", v>>, ZonePlan("quiet", v), 0)
      PROVE  SetpointsSuit(h, r)
  <2>1. h.plan = ZonePlan("quiet", v) /\ h.asked = <<"quiet", v>>
    BY <1>3, HandlerFacts
  <2>2. \A i \in DOMAIN h.plan : \E o \in RoomSet : h.plan[i] = <<Quiet(o), v, "retained">>
    BY <2>1, ZonePlanFacts DEF Quiet
  <2>. QED BY <1>1, <2>1, <2>2, KindsDiffer
<1>4. ASSUME NEW step, NEW v, NEW o \in RoomSet,
             h = Handler(step, <<"power", v, o>>, <<<<Power(o), v, "retained">>>>, 2)
      PROVE  SetpointsSuit(h, r)
  <2>1. h.plan = <<<<Power(o), v, "retained">>>> /\ h.asked = <<"power", v, o>>
    BY <1>4, HandlerFacts
  <2>2. \A i \in DOMAIN h.plan : h.plan[i] = <<Power(o), v, "retained">>
    BY <2>1
  <2>. QED BY <1>1, <2>1, <2>2, KindsDiffer
<1>5. ASSUME NEW m \in Modes, h = Handler("publish", <<"mode", m>>, <<>>, 1)
      PROVE  SetpointsSuit(h, r)
  <2>1. h.plan = <<>> /\ h.asked = <<"mode", m>>
    BY <1>5, HandlerFacts
  <2>. QED BY <1>1, <2>1
<1>6. ASSUME NEW m \in Modes,
             h = Handler("publish", <<"mode", m>>, <<<<Mode, m, "retained">>>> \o ZonePlan("power", "0"), 1)
      PROVE  SetpointsSuit(h, r)
  <2> DEFINE plan == <<<<Mode, m, "retained">>>> \o ZonePlan("power", "0")
             asked == <<"mode", m>>
  <2>1. h.plan = plan /\ h.asked = asked
    <3>1. h = Handler("publish", asked, plan, 1)
      BY <1>6
    <3>. HIDE DEF plan, asked
    <3>. QED BY <3>1, HandlerFacts
  <2>2. /\ plan[1] = <<Mode, m, "retained">>
        /\ \A i \in DOMAIN plan : i # 1 => \E o \in RoomSet : plan[i] = <<Power(o), "0", "retained">>
    BY ModePlanFacts
  <2>3. asked[1] # "temp"
    OBVIOUS
  <2>. HIDE DEF plan, asked
  <2>4. \A i \in DOMAIN plan : plan[i][1] # Temp(r)
    BY <2>2, KindsDiffer
  <2>. QED BY <1>1, <2>1, <2>3, <2>4
<1>7. ASSUME NEW s \in Scenes, h = Handler("publish", <<"scene", s>>, s, 0)
      PROVE  SetpointsSuit(h, r)
  <2>1. h.plan = s /\ h.asked = <<"scene", s>>
    BY <1>7, HandlerFacts
  <2>. QED BY <1>1, <2>1 DEF ScenesLeaveSetpoints
<1>8. ASSUME NEW o \in RoomSet, h = Handler("setpoint", <<"power", OnIn(flag), o>>,
                                            <<<<Power(o), OnIn(flag), "retained">>>>, 2)
      PROVE  SetpointsSuit(h, r)
  <2> DEFINE v == OnIn(flag)
  <2>1. h = Handler("setpoint", <<"power", v, o>>, <<<<Power(o), v, "retained">>>>, 2)
    BY <1>8
  <2>. HIDE DEF v
  <2>. QED BY <1>4, <2>1
<1>9. ASSUME NEW o \in RoomSet, h = Handler("publish", <<"power", "0", o>>, <<<<Power(o), "0", "retained">>>>, 2)
      PROVE  SetpointsSuit(h, r)
  BY <1>4, <1>9
<1>. QED BY <1>2, <1>3, <1>5, <1>6, <1>7, <1>8, <1>9 DEF Opening

\* Sending the next message of a plan that suits leaves one that suits; one that sets
\* no setpoint for the zone leaves all setpoints as they are.
LEMMA SendingSetpoints ==
  ASSUME BrokerOK, NEW r \in RoomSet, NEW h, NEW h2, h.plan \in Seq(Messages), h.plan # <<>>,
         SetpointsSuit(h, r), h2.asked = h.asked, h2.plan = Tail(h.plan), Deliver(Head(h.plan))
  PROVE  /\ SetpointsSuit(h2, r)'
         /\ h.asked[1] # "temp" => latest'[Temp(r)] = latest[Temp(r)]
<1> DEFINE plan == h.plan
<1>1. Head(plan) \in Messages /\ 1 \in DOMAIN plan /\ plan[1] = Head(plan)
  BY TailFacts
<1>2. \A i \in DOMAIN Tail(plan) : i + 1 \in DOMAIN plan /\ Tail(plan)[i] = plan[i + 1]
  BY TailFacts
<1>3. latest'[Temp(r)] = IF Head(plan)[1] = Temp(r) THEN Head(plan)[2] ELSE latest[Temp(r)]
  BY <1>1, DeliveryFacts, TopicFacts
<1>4. CASE h.asked[1] = "temp"
  <2>1. \A i \in DOMAIN Tail(plan) : Tail(plan)[i][1] = Temp(r) => Tail(plan)[i][2] = h.asked[2]
    BY <1>2, <1>4 DEF SetpointsSuit
  <2>2. latest'[Temp(r)] = h.asked[2] \/ ~NothingFor(Tail(plan), Temp(r))
    <3>1. CASE Head(plan)[1] = Temp(r)
      BY <1>1, <1>3, <1>4, <3>1 DEF SetpointsSuit
    <3>2. CASE Head(plan)[1] # Temp(r)
      <4>1. ASSUME ~NothingFor(plan, Temp(r)) PROVE ~NothingFor(Tail(plan), Temp(r))
        <5>1. PICK i \in DOMAIN plan : plan[i][1] = Temp(r)
          BY <4>1 DEF NothingFor
        <5>2. i # 1
          BY <1>1, <3>2, <5>1
        <5>3. i - 1 \in DOMAIN Tail(plan) /\ Tail(plan)[i - 1] = plan[i]
          BY <5>2, TailFacts
        <5>. QED BY <5>1, <5>3 DEF NothingFor
      <4>. QED BY <1>3, <1>4, <3>2, <4>1 DEF SetpointsSuit
    <3>. QED BY <3>1, <3>2
  <2>. QED BY <1>4, <2>1, <2>2 DEF SetpointsSuit
<1>5. CASE h.asked[1] # "temp"
  <2>1. \A i \in DOMAIN plan : plan[i][1] = Temp(r) => plan[i][2] = latest[Temp(r)]
    BY <1>5 DEF SetpointsSuit
  <2>2. latest'[Temp(r)] = latest[Temp(r)]
    BY <1>1, <1>3, <2>1
  <2>3. \A i \in DOMAIN Tail(plan) : Tail(plan)[i][1] = Temp(r) => Tail(plan)[i][2] = latest'[Temp(r)]
    BY <1>2, <2>1, <2>2
  <2>. QED BY <1>5, <2>2, <2>3 DEF SetpointsSuit
<1>. QED BY <1>4, <1>5

LEMMA SetpointInvariance == ASSUME ScenesLeaveSetpoints PROVE Spec => []SetpointInv
<1> DEFINE Uniform == \A r, o \in RoomSet : latest[Temp(r)] = latest[Temp(o)]
<1>1. Init => SetpointInv
  <2> SUFFICES ASSUME Init PROVE SetpointInv
    OBVIOUS
  <2>1. \A q \in Requests : ~Running(q)
    BY DEF Init, NoRequest, Handler, Running
  <2>2. PICK m \in Modes, on \in SUBSET RoomSet, t \in Temps \cup {"absent"} :
          latest = [x \in Topics |-> CASE x = Mode -> m
                                       [] x[1] = "power" -> IF x[2] \in on THEN OnIn(m) ELSE "0"
                                       [] x[1] = "temp" -> t
                                       [] x[1] = "quiet" -> "0"]
    BY DEF Init
  <2>3. ASSUME NEW r \in RoomSet PROVE latest[Temp(r)] = t
    <3>1. Temp(r) \in Topics /\ Temp(r) # Mode /\ Temp(r)[1] = "temp"
      BY TopicFacts DEF Temp
    <3>. QED BY <2>2, <3>1
  <2>. QED BY <2>1, <2>3 DEF SetpointInv
<1>2. ASSUME TypeInv, EchoesCatchUp, KindInv, OneAtATime, SetpointInv, [Next]_vars
      PROVE  SetpointInv'
  <2> SUFFICES ASSUME ~hasty', ~lossy' PROVE SetpointInv'
    BY DEF SetpointInv
  <2>1. ASSUME NEW q \in Requests, NEW h, Opening(h), Begin(q, h) PROVE SetpointInv'
    <3>1. /\ request'[q] = h /\ \A p \in Requests : p # q => request'[p] = request[p]
          /\ UNCHANGED <<latest, retained, lossy>> /\ ~hasty /\ \A p \in Requests : ~Running(p)
      BY <1>2, <2>1, BeginFacts
    <3>2. \A p \in Requests : Running(p)' <=> p = q
      BY <2>1, <3>1, OpeningKinds DEF Running
    <3>3. \A r \in RoomSet : SetpointsSuit(h, r)
      BY <2>1, OpeningSetpoints
    <3>4. \A r \in RoomSet : SetpointsSuit(request[q], r)'
      BY <3>1, <3>3 DEF SetpointsSuit
    <3>5. Uniform
      BY <1>2, <3>1 DEF SetpointInv
    <3>. QED BY <3>1, <3>2, <3>4, <3>5 DEF SetpointInv
  <2>2. ASSUME NEW q \in Requests, ReadSetpoint(q) PROVE SetpointInv'
    <3> DEFINE o == request[q].asked[3]
               on == <<Power(o), request[q].asked[2], "retained">>
               re == <<Temp(o), cache[Temp(o)], "retained">>
    <3>1. /\ request[q].step = "setpoint" /\ request'[q].step = "publish"
          /\ request[q].asked[1] = "power" /\ request'[q].asked = request[q].asked
          /\ o \in RoomSet /\ Temp(o) \in Topics
          /\ \A i \in DOMAIN request'[q].plan : request'[q].plan[i] \in {on, re}
          /\ \A p \in Requests : p # q => request'[p] = request[p]
          /\ UNCHANGED <<latest, retained, hasty, lossy>>
      BY <1>2, <2>2, ReadFacts
    <3>2. /\ \A p \in Requests : Running(p) \/ Running(p)' => p = q
          /\ echoes = <<>>
      BY <1>2, <3>1 DEF OneAtATime, Running
    <3>3. cache[Temp(o)] = latest[Temp(o)]
      BY <1>2, <3>1, <3>2 DEF EchoesCatchUp
    <3>4. Uniform
      BY <1>2, <3>1, <3>2 DEF SetpointInv
    <3>5. ASSUME NEW i \in DOMAIN request'[q].plan, NEW r \in RoomSet, request'[q].plan[i][1] = Temp(r)
          PROVE  request'[q].plan[i][2] = latest[Temp(r)]
      <4>1. request'[q].plan[i] = re
        BY <3>1, <3>5, KindsDiffer
      <4>. QED BY <3>1, <3>3, <3>4, <4>1
    <3>6. \A r \in RoomSet : SetpointsSuit(request[q], r)'
      BY <3>1, <3>5 DEF SetpointsSuit
    <3>. QED BY <3>1, <3>2, <3>4, <3>6 DEF SetpointInv
  <2>3. ASSUME NEW q \in Requests, Publish(q) PROVE SetpointInv'
    <3>1. /\ request[q].plan \in Seq(Messages) /\ request[q].plan # <<>>
          /\ request[q].step = "publish" /\ request'[q].step = "publish"
          /\ request'[q].asked = request[q].asked
          /\ request'[q].plan = Tail(request[q].plan)
          /\ \A p \in Requests : p # q => request'[p] = request[p]
          /\ Deliver(Head(request[q].plan)) /\ UNCHANGED <<hasty, lossy>>
      BY <1>2, <2>3, PublishFacts
    <3>2. Running(q) /\ Running(q)' /\ \A p \in Requests : Running(p) \/ Running(p)' => p = q
      BY <1>2, <3>1 DEF OneAtATime, Running
    <3>3. \A r \in RoomSet : SetpointsSuit(request[q], r)
      BY <1>2, <3>1, <3>2 DEF SetpointInv
    <3>4. ASSUME NEW r \in RoomSet
          PROVE  /\ SetpointsSuit(request[q], r)'
                 /\ request[q].asked[1] # "temp" => latest'[Temp(r)] = latest[Temp(r)]
      BY <1>2, <3>1, <3>3, SendingSetpoints DEF TypeInv
    <3>5. request[q].asked[1] # "temp" => Uniform'
      <4>1. request[q].asked[1] # "temp" => Uniform
        BY <1>2, <3>1, <3>2 DEF SetpointInv
      <4>. QED BY <3>4, <4>1
    <3>. QED BY <3>1, <3>2, <3>4, <3>5 DEF SetpointInv
  <2>4. ASSUME NEW q \in Requests, PublishFails(q) PROVE SetpointInv'
    BY <1>2, <2>4, PublishFailsFacts
  <2>5. ASSUME NEW q \in Requests, Respond(q) \/ SceneAbandoned(q) PROVE SetpointInv'
    <3>1. PICK code : Answer(q, code) /\ request[q].step = "publish"
      BY <2>5 DEF Respond, SceneAbandoned
    <3>2. /\ request'[q].step = "done"
          /\ \A p \in Requests : p # q => request'[p] = request[p]
          /\ UNCHANGED <<latest, retained, hasty, lossy>>
      BY <1>2, <3>1, AnswerFacts
    <3>3. Running(q) /\ \A p \in Requests : Running(p) => p = q
      BY <1>2, <3>1, <3>2 DEF OneAtATime, Running
    <3>4. \A p \in Requests : ~Running(p)'
      BY <3>2, <3>3 DEF Running
    <3>5. Uniform
      <4>1. CASE request[q].asked[1] = "temp"
        <5>1. request[q].plan = <<>>
          BY <2>5, <4>1 DEF Respond, SceneAbandoned
        <5>2. \A r \in RoomSet : latest[Temp(r)] = request[q].asked[2]
          BY <1>2, <3>2, <3>3, <4>1, <5>1 DEF SetpointInv, SetpointsSuit, NothingFor
        <5>. QED BY <5>2
      <4>2. CASE request[q].asked[1] # "temp"
        BY <1>2, <3>2, <3>3, <4>2 DEF SetpointInv
      <4>. QED BY <4>1, <4>2
    <3>. QED BY <3>2, <3>4, <3>5 DEF SetpointInv
  <2>6. ASSUME UNCHANGED <<latest, retained, request, hasty, lossy>> PROVE SetpointInv'
    BY <1>2, <2>6 DEF SetpointInv, SetpointsSuit, Running
  <2>7. UNCHANGED vars => UNCHANGED <<latest, retained, request, hasty, lossy>>
    BY DEF vars, ghosts
  <2>. QED BY <1>2, <2>1, <2>2, <2>3, <2>4, <2>5, <2>6, <2>7, StepCases, EchoFacts
<1>. QED BY <1>1, <1>2, TypeInvariance, CatchUpInvariance, KindInvariance, OneAtATimeInvariance, PTL
         DEF Spec

\* The rooms of a zone have one setpoint, for any rooms, if requests wait for each other's
\* echoes, no publish failed, and no scene sets it: what handleRoomPower sends again changes
\* nothing.
THEOREM OneSetpoint == ASSUME ScenesLeaveSetpoints PROVE Spec => []ZoneUniform
<1>1. SetpointInv => ZoneUniform
  BY DEF SetpointInv, ZoneUniform, AtRest, Unhurried
<1>. QED BY <1>1, SetpointInvariance, PTL

=============================================================================
