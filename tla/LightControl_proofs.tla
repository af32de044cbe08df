------------------------ MODULE LightControl_proofs ------------------------
(***************************************************************************)
(* What becomes of lights, for any bulbs, levels and requests and any       *)
(* number of restarts, lost connections and failed publishes.               *)
(***************************************************************************)
EXTENDS LightControl, TLAPS

(* What a receive, a send and the firing of a timer do to a queue.          *)

\* A receive takes the first element and moves the others up by one.
LEMMA TailElements ==
  ASSUME NEW S, NEW q \in Seq(S), q # <<>>
  PROVE  /\ Len(q) \in Nat /\ 1 <= Len(q) /\ Head(q) = q[1] /\ Head(q) \in S
         /\ Tail(q) \in Seq(S) /\ Len(Tail(q)) = Len(q) - 1
         /\ \A i \in 1..(Len(q) - 1) : Tail(q)[i] = q[i + 1]
OBVIOUS

\* A send adds one element at the end and leaves the others where they are.
LEMMA AppendElements ==
  ASSUME NEW S, NEW q \in Seq(S), NEW x \in S
  PROVE  /\ Len(q) \in Nat /\ Append(q, x) \in Seq(S) /\ Len(Append(q, x)) = Len(q) + 1
         /\ Append(q, x)[Len(q) + 1] = x
         /\ \A i \in 1..Len(q) : Append(q, x)[i] = q[i]
OBVIOUS

\* What is left when one element is taken out; of the first, the tail.
LEMMA RemoveAtElements ==
  ASSUME NEW S, NEW q \in Seq(S), NEW i \in DOMAIN q
  PROVE  /\ RemoveAt(q, i) \in Seq(S)
         /\ i = 1 => RemoveAt(q, i) = Tail(q)
<1>1. i \in 1..Len(q) /\ Len(q) \in Nat
  OBVIOUS
<1>2. SubSeq(q, 1, i - 1) \in Seq(S)
  BY <1>1
<1>3. SubSeq(q, i + 1, Len(q)) \in Seq(S)
  BY <1>1
<1>4. RemoveAt(q, i) \in Seq(S)
  BY <1>2, <1>3 DEF RemoveAt
<1>5. ASSUME i = 1 PROVE RemoveAt(q, i) = Tail(q)
  <2>1. SubSeq(q, 1, 0) = <<>>
    BY <1>1
  <2>2. SubSeq(q, 2, Len(q)) = Tail(q)
    BY <1>1
  <2>. QED BY <1>3, <1>5, <2>1, <2>2 DEF RemoveAt
<1>. QED BY <1>4, <1>5

\* Something in the queue is about e.
Mentions(q, e) == \E i \in 1..Len(q) : q[i].entity = e

\* The last thing in the queue that is about e, if any, is p.
EndsWith(q, e, p) ==
    \A i \in 1..Len(q) :
        q[i].entity = e /\ (\A j \in 1..Len(q) : i < j => q[j].entity # e) => q[i] = p

\* The head of a queue is the last about e only if its tail is not about e.
LEMMA ReceiveLast ==
  ASSUME NEW S, NEW q \in Seq(S), q # <<>>, NEW e, NEW p
  PROVE  /\ Mentions(q, e) <=> Head(q).entity = e \/ Mentions(Tail(q), e)
         /\ EndsWith(q, e, p) => /\ EndsWith(Tail(q), e, p)
                                 /\ Head(q).entity = e /\ ~Mentions(Tail(q), e) => Head(q) = p
<1> DEFINE L == Len(q)
           r == Tail(q)
<1>1. /\ L \in Nat /\ 1 <= L /\ Head(q) = q[1] /\ Len(r) = L - 1
      /\ \A i \in 1..(L - 1) : r[i] = q[i + 1]
  BY TailElements
<1> HIDE DEF r
<1>2. \A i \in 1..(L - 1) : i + 1 \in 1..L
  BY <1>1
<1>3. \A i \in 1..L : i = 1 \/ (i - 1 \in 1..(L - 1) /\ q[i] = r[i - 1])
  BY <1>1
<1> HIDE DEF L
<1>4. Mentions(q, e) <=> Head(q).entity = e \/ Mentions(r, e)
  <2>1. ASSUME NEW i \in 1..(L - 1), r[i].entity = e PROVE \E j \in 1..L : q[j].entity = e
    BY <1>1, <1>2, <2>1
  <2>2. ASSUME NEW i \in 1..L, q[i].entity = e
        PROVE  q[1].entity = e \/ \E j \in 1..(L - 1) : r[j].entity = e
    BY <1>3, <2>2
  <2>3. 1 \in 1..L
    BY <1>1
  <2>. QED BY <1>1, <2>1, <2>2, <2>3 DEF Mentions, L
<1>5. ASSUME EndsWith(q, e, p) PROVE EndsWith(r, e, p)
  <2> SUFFICES ASSUME NEW i \in 1..(L - 1), r[i].entity = e,
                      \A j \in 1..(L - 1) : i < j => r[j].entity # e
               PROVE  r[i] = p
    BY <1>1 DEF EndsWith
  <2>1. ASSUME NEW j \in 1..L, i + 1 < j PROVE q[j].entity # e
    <3>1. j - 1 \in 1..(L - 1) /\ i < j - 1 /\ q[j] = r[j - 1]
      BY <1>1, <1>3, <2>1
    <3>. QED BY <3>1
  <2>2. i + 1 \in 1..L /\ q[i + 1] = r[i]
    BY <1>1
  <2>. QED BY <1>5, <2>1, <2>2 DEF EndsWith, L
<1>6. ASSUME EndsWith(q, e, p), Head(q).entity = e, ~Mentions(r, e) PROVE Head(q) = p
  <2>1. ASSUME NEW j \in 1..L, 1 < j PROVE q[j].entity # e
    <3>1. j - 1 \in 1..(L - 1) /\ q[j] = r[j - 1]
      BY <1>1, <1>3, <2>1
    <3>. QED BY <1>1, <1>6, <3>1 DEF Mentions
  <2>2. 1 \in 1..L
    BY <1>1
  <2>. QED BY <1>1, <1>6, <2>1, <2>2 DEF EndsWith, L
<1>. QED BY <1>4, <1>5, <1>6 DEF r

\* What is sent last is the last about its bulb, and changes nothing for others.
LEMMA SendLast ==
  ASSUME NEW S, NEW q \in Seq(S), NEW x \in S, NEW e, NEW p
  PROVE  /\ Mentions(Append(q, x), e) <=> x.entity = e \/ Mentions(q, e)
         /\ x.entity = e /\ x = p => EndsWith(Append(q, x), e, p)
         /\ x.entity # e /\ EndsWith(q, e, p) => EndsWith(Append(q, x), e, p)
<1> DEFINE L == Len(q)
           r == Append(q, x)
<1>1. L \in Nat /\ Len(r) = L + 1 /\ r[L + 1] = x /\ \A i \in 1..L : r[i] = q[i]
  BY AppendElements
<1> HIDE DEF r
<1>2. \A i \in 1..(L + 1) : i \in 1..L \/ i = L + 1
  BY <1>1
<1>3. L + 1 \in 1..(L + 1) /\ \A i \in 1..L : i \in 1..(L + 1) /\ i < L + 1
  BY <1>1
<1> HIDE DEF L
<1>4. Mentions(r, e) <=> x.entity = e \/ Mentions(q, e)
  BY <1>1, <1>2, <1>3 DEF Mentions, L
<1>5. ASSUME x.entity = e, x = p PROVE EndsWith(r, e, p)
  BY <1>1, <1>2, <1>3, <1>5 DEF EndsWith
<1>6. ASSUME x.entity # e, EndsWith(q, e, p) PROVE EndsWith(r, e, p)
  <2> SUFFICES ASSUME NEW i \in 1..(L + 1), r[i].entity = e,
                      \A j \in 1..(L + 1) : i < j => r[j].entity # e
               PROVE  r[i] = p
    BY <1>1 DEF EndsWith
  <2>1. i \in 1..L /\ q[i].entity = e
    BY <1>1, <1>2, <1>6
  <2>2. ASSUME NEW j \in 1..L, i < j PROVE q[j].entity # e
    BY <1>1, <1>3, <2>2
  <2>. QED BY <1>1, <1>6, <2>1, <2>2 DEF EndsWith, L
<1>. QED BY <1>4, <1>5, <1>6 DEF r

-----------------------------------------------------------------------------
(* Types.                                                                   *)

BulbState == [on : BOOLEAN, level : 1..Full]
Report == [entity : Bulbs, on : BOOLEAN, level : 1..None]
Command == {c \in [entity : Bulbs, verb : {"set", "get"}, state : {"ON", "OFF", ""}, level : 0..None] :
                c.state = "OFF" => c.level = None}
Handler == [step : {"unused", "running", "ok", "error"}, kind : {"", "power", "brightness"},
            on : BOOLEAN, level : 0..None, left : Seq(Bulbs), failed : BOOLEAN]

\* The server's part of the state, its requests, the bridge's part and the rest.
CacheTypes ==
    /\ online \in BOOLEAN /\ gets \in Seq(Bulbs) /\ unasked \subseteq Bulbs
    /\ DOMAIN cache = Bulbs
    /\ \A e \in Bulbs : cache[e] = NoReport(e) \/ (cache[e] \in Report /\ cache[e].entity = e)
RequestTypes ==
    /\ request \in [Requests -> Handler]
    /\ \A q \in Requests : request[q].kind = "" => request[q].step = "unused"
BridgeTypes ==
    /\ bridge \in BOOLEAN /\ due \in Nat
    /\ bulb \in [Bulbs -> BulbState]
    /\ announce \subseteq Report /\ timers \in Seq(Report)
OtherTypes ==
    /\ commands \in Seq(Command) /\ reports \in Seq(Report)
    /\ mishaps \in Nat /\ rushed \in Nat /\ mishaps + rushed <= MaxDisturbances
    /\ overtaken \in BOOLEAN
Types == CacheTypes /\ RequestTypes /\ BridgeTypes /\ OtherTypes

LEMMA PayloadIsReport ==
  ASSUME NEW e \in Bulbs, NEW b \in BulbState
  PROVE  Payload(e, b) \in Report /\ Payload(e, b).entity = e
BY DEF Payload, Report, BulbState, None, Full

LEMMA GetIsCommand ==
  ASSUME NEW e \in Bulbs
  PROVE  Get(e) \in Command /\ Get(e).entity = e /\ Get(e).level = None
<1>1. None \in 0..None
  BY DEF None
<1>2. Get(e) \in [entity : Bulbs, verb : {"set", "get"}, state : {"ON", "OFF", ""}, level : 0..None]
  BY <1>1 DEF Get
<1>3. Get(e).entity = e /\ Get(e).level = None
  BY DEF Get
<1>. QED BY <1>2, <1>3 DEF Command

\* A command switches a bulb, and its level too if it has one and can be dimmed.
LEMMA ApplyIsState ==
  ASSUME NEW e, NEW b \in BulbState, NEW c \in Command
  PROVE  Apply(e, b, c) \in BulbState
<1> DEFINE switched == [b EXCEPT !.on = IF c.state = "" THEN @ ELSE c.state = "ON"]
<1>1. switched \in BulbState /\ [switched EXCEPT !.on = FALSE] \in BulbState
  BY DEF BulbState
<1>2. c.level \in 0..None
  BY DEF Command
<1>3. CASE c.level = None \/ e \notin Dimmable
  BY <1>1, <1>3 DEF Apply
<1>4. CASE c.level = 0 /\ e \in Dimmable
  BY <1>1, <1>4 DEF Apply, None
<1>5. CASE c.level \notin {0, None} /\ e \in Dimmable
  <2>1. [on |-> TRUE, level |-> c.level] \in BulbState
    BY <1>2, <1>5 DEF BulbState, None, Full
  <2>. QED BY <1>5, <2>1 DEF Apply
<1>. QED BY <1>3, <1>4, <1>5

LEMMA CommandForIsCommand ==
  ASSUME RequestTypes, NEW q \in Requests, Running(q), NEW e \in Bulbs
  PROVE  \A c \in CommandFor(q, e) : c \in Command /\ c.entity = e
<1>1. request[q] \in Handler /\ request[q].level \in 0..None
  BY DEF RequestTypes, Handler
<1>2. ASSUME NEW s \in {"ON", "OFF", ""}, NEW l \in 0..None, s = "OFF" => l = None
      PROVE  Set(e, s, l) \in Command /\ Set(e, s, l).entity = e
  <2>1. Set(e, s, l) \in [entity : Bulbs, verb : {"set", "get"}, state : {"ON", "OFF", ""},
                          level : 0..None]
    BY DEF Set
  <2>2. Set(e, s, l).state = s /\ Set(e, s, l).level = l /\ Set(e, s, l).entity = e
    BY DEF Set
  <2>. QED BY <1>2, <2>1, <2>2 DEF Command
<1>3. None \in 0..None
  BY DEF None
<1>4. ASSUME NEW c \in CommandFor(q, e)
      PROVE  \E s \in {"ON", "OFF", ""}, l \in 0..None : c = Set(e, s, l) /\ (s = "OFF" => l = None)
  <2>1. CASE request[q].kind = "power" /\ ~request[q].on
    BY <1>3, <2>1 DEF CommandFor
  <2>2. CASE request[q].kind = "power" /\ request[q].on
    BY <1>1, <1>3, <2>2 DEF CommandFor
  <2>3. CASE request[q].kind = "brightness"
    BY <1>1, <2>3 DEF CommandFor
  <2>4. request[q].kind \in {"power", "brightness"}
    BY <1>1 DEF RequestTypes, Handler, Running
  <2>. QED BY <1>1, <2>1, <2>2, <2>3, <2>4 DEF Handler
<1>5. ASSUME NEW c \in CommandFor(q, e) PROVE c \in Command /\ c.entity = e
  <2>1. PICK s \in {"ON", "OFF", ""}, l \in 0..None : c = Set(e, s, l) /\ (s = "OFF" => l = None)
    BY <1>4
  <2>. QED BY <1>2, <2>1
<1>. QED BY <1>5

\* Sending puts one more message into a queue, or none.
LEMMA CommandsTypes ==
  ASSUME NEW c \in Command, commands \in Seq(Command), ToBridge(c)
  PROVE  commands' \in Seq(Command)
BY AppendElements DEF ToBridge

LEMMA ReportsTypes ==
  ASSUME NEW r \in Report, reports \in Seq(Report), ToServer(r)
  PROVE  reports' \in Seq(Report)
BY AppendElements DEF ToServer

\* Beginning a request: its handler has all the bulbs still to do.
LEMMA BeginRequest ==
  ASSUME RequestTypes, NEW q \in Requests, NEW kind \in {"power", "brightness"},
         NEW on \in BOOLEAN, NEW level \in Levels \cup {None}, Begin(q, kind, on, level)
  PROVE  /\ RequestTypes'
         /\ request'[q].step = "running" /\ request'[q].kind = kind /\ request'[q].on = on
         /\ request'[q].level = level /\ request'[q].left = Entities
         /\ \A p \in Requests \ {q} : request'[p] = request[p]
<1> DEFINE h == [step |-> "running", kind |-> kind, on |-> on, level |-> level,
                 left |-> Entities, failed |-> FALSE]
<1>1. level \in 0..None
  BY LevelsAssumption DEF None
<1>2. Entities \in Seq(Bulbs)
  BY EntitiesAssumption DEF Bulbs
<1>3. h \in Handler
  BY <1>1, <1>2 DEF Handler
<1>4. request' = [request EXCEPT ![q] = h]
  BY DEF Begin
<1>5. request'[q] = h /\ \A p \in Requests \ {q} : request'[p] = request[p]
  BY <1>4 DEF RequestTypes
<1>6. RequestTypes'
  BY <1>3, <1>4, <1>5 DEF RequestTypes
<1>. QED BY <1>5, <1>6

\* One round of the loop: the next bulb is done, and nothing else is changed.
LEMMA HandleNextRequest ==
  ASSUME RequestTypes, NEW q \in Requests, HandleNext(q) \/ HandleFails(q)
  PROVE  /\ RequestTypes'
         /\ Running(q) /\ request[q].left # <<>> /\ request[q].left \in Seq(Bulbs)
         /\ request'[q].step = request[q].step /\ request'[q].kind = request[q].kind
         /\ request'[q].on = request[q].on /\ request'[q].level = request[q].level
         /\ request'[q].left = Tail(request[q].left)
         /\ \A p \in Requests \ {q} : request'[p] = request[p]
<1>0. PICK fails \in BOOLEAN : NextBulb(q, fails)
  BY DEF HandleNext, HandleFails
<1> DEFINE f == request[q].failed \/ fails
           h == [request[q] EXCEPT !.left = Tail(@), !.failed = f]
<1>1. request[q] \in Handler /\ Running(q) /\ request[q].left # <<>>
  BY DEF HandleNext, HandleFails, RequestTypes
<1>2. request[q].left \in Seq(Bulbs) /\ Tail(request[q].left) \in Seq(Bulbs) /\ f \in BOOLEAN
  <2>1. request[q].left \in Seq(Bulbs) /\ request[q].failed \in BOOLEAN
    BY <1>1 DEF Handler
  <2>. QED BY <1>1, <2>1, TailElements
<1>3. request' = [request EXCEPT ![q] = h]
  BY <1>0 DEF NextBulb
<1> HIDE DEF f
<1>4. /\ h \in Handler /\ h.step = request[q].step /\ h.kind = request[q].kind
      /\ h.on = request[q].on /\ h.level = request[q].level /\ h.left = Tail(request[q].left)
  BY <1>1, <1>2 DEF Handler
<1> HIDE DEF h
<1>5. request'[q] = h /\ \A p \in Requests \ {q} : request'[p] = request[p]
  BY <1>3 DEF RequestTypes
<1>6. RequestTypes'
  BY <1>3, <1>4, <1>5 DEF RequestTypes
<1>. QED BY <1>1, <1>2, <1>4, <1>5, <1>6

\* What the loop sends is one command for the bulb it has come to, or nothing.
LEMMA HandleNextSends ==
  ASSUME RequestTypes, NEW q \in Requests, HandleNext(q) \/ HandleFails(q)
  PROVE  \/ commands' = commands
         \/ \E c \in ToPublish(q) :
                c \in Command /\ c.entity = Head(request[q].left) /\ ToBridge(c)
<1>1. Running(q) /\ Head(request[q].left) \in Bulbs
  BY HandleNextRequest, TailElements
<1>2. \A c \in ToPublish(q) : c \in Command /\ c.entity = Head(request[q].left)
  BY <1>1, CommandForIsCommand DEF ToPublish
<1>. QED BY <1>2 DEF HandleNext, HandleFails

\* Answering a request only ends it.
LEMMA RespondRequest ==
  ASSUME RequestTypes, NEW q \in Requests, Respond(q)
  PROVE  /\ RequestTypes'
         /\ Running(q) /\ request[q].left = <<>> /\ request'[q].step \in {"ok", "error"}
         /\ request'[q].kind = request[q].kind
         /\ request'[q].on = request[q].on /\ request'[q].level = request[q].level
         /\ request'[q].left = request[q].left
         /\ \A p \in Requests \ {q} : request'[p] = request[p]
<1> DEFINE h == [request[q] EXCEPT !.step = IF request[q].failed THEN "error" ELSE "ok"]
<1>1. request[q] \in Handler /\ Running(q) /\ request[q].left = <<>>
  BY DEF Respond, RequestTypes
<1>2. request' = [request EXCEPT ![q] = h]
  BY DEF Respond
<1>3. /\ h \in Handler /\ h.step \in {"ok", "error"} /\ h.kind = request[q].kind
      /\ h.on = request[q].on /\ h.level = request[q].level /\ h.left = request[q].left
      /\ request[q].kind # ""
  BY <1>1 DEF Handler, Running, RequestTypes
<1> HIDE DEF h
<1>4. request'[q] = h /\ \A p \in Requests \ {q} : request'[p] = request[p]
  BY <1>2 DEF RequestTypes
<1>5. RequestTypes'
  BY <1>2, <1>3, <1>4 DEF RequestTypes
<1>. QED BY <1>1, <1>3, <1>4, <1>5

\* What the bridge does with a command: its bulb changes as commanded, and a
\* report of that is set off.
LEMMA HandleCommandEffect ==
  ASSUME BridgeTypes, OtherTypes, HandleCommand
  PROVE  LET c == Head(commands)
             after == Apply(c.entity, bulb[c.entity], c)
         IN  /\ c \in Command /\ c.entity \in Bulbs
             /\ after \in BulbState /\ Payload(c.entity, after) \in Report
             /\ bulb' = [bulb EXCEPT ![c.entity] = after]
             /\ timers' = Append(timers, Payload(c.entity, after))
             /\ commands # <<>> /\ commands' = Tail(commands)
             /\ UNCHANGED <<serverVars, bridge, due, announce, reports, countVars>>
             /\ BridgeTypes' /\ commands' \in Seq(Command)
<1> DEFINE c == Head(commands)
           after == Apply(c.entity, bulb[c.entity], c)
<1>1. c \in Command /\ Tail(commands) \in Seq(Command)
  BY TailElements DEF HandleCommand, OtherTypes
<1>2. c.entity \in Bulbs /\ bulb[c.entity] \in BulbState
  BY <1>1 DEF Command, BridgeTypes
<1>3. after \in BulbState
  BY <1>1, <1>2, ApplyIsState
<1>4. Payload(c.entity, after) \in Report
  BY <1>2, <1>3, PayloadIsReport
<1>5. /\ bulb' = [bulb EXCEPT ![c.entity] = after]
      /\ timers' = Append(timers, Payload(c.entity, after))
      /\ commands # <<>> /\ commands' = Tail(commands)
      /\ UNCHANGED <<serverVars, bridge, due, announce, reports, countVars>>
  BY DEF HandleCommand
<1> HIDE DEF after, c
<1>6. timers' \in Seq(Report)
  BY <1>4, <1>5, AppendElements DEF BridgeTypes
<1>7. bulb' \in [Bulbs -> BulbState]
  BY <1>3, <1>5 DEF BridgeTypes
<1>8. BridgeTypes'
  BY <1>5, <1>6, <1>7 DEF BridgeTypes
<1>. QED BY <1>1, <1>2, <1>3, <1>4, <1>5, <1>8 DEF c, after

\* A request of either kind begins in the same way.
LEMMA RequestSteps ==
  ASSUME NEW q \in Requests,
         \/ \E on \in BOOLEAN, level \in Levels \cup {None} : handleLightPower(q, on, level)
         \/ \E level \in Levels : handleLightBrightness(q, level)
  PROVE  \E kind \in {"power", "brightness"}, on \in BOOLEAN, level \in Levels \cup {None} :
             Begin(q, kind, on, level)
BY DEF handleLightPower, handleLightBrightness

LEMMA TypesInvariant == Spec => []Types
<1>1. Init => Types
  <2> SUFFICES ASSUME Init PROVE Types
    OBVIOUS
  <2>1. CacheTypes
    <3>1. online \in BOOLEAN
      BY DEF Init
    <3>2. gets \in Seq(Bulbs) /\ unasked \subseteq Bulbs
      BY DEF Init
    <3>3. DOMAIN cache = Bulbs /\ \A e \in Bulbs : cache[e] = NoReport(e)
      BY DEF Init
    <3>. QED BY <3>1, <3>2, <3>3 DEF CacheTypes
  <2>2. NoRequest \in Handler /\ NoRequest.step = "unused" /\ NoRequest.kind = ""
    BY DEF NoRequest, Handler, None
  <2>3. RequestTypes
    BY <2>2 DEF Init, RequestTypes
  <2>4. NewBulb \in BulbState
    BY DEF NewBulb, BulbState, Full
  <2>5. BridgeTypes
    <3>1. bulb \in [Bulbs -> BulbState]
      BY <2>4 DEF Init
    <3>2. announce \subseteq Report
      BY DEF Init
    <3>3. timers \in Seq(Report)
      BY DEF Init
    <3>. QED BY <3>1, <3>2, <3>3 DEF Init, BridgeTypes
  <2>6. OtherTypes
    <3>1. commands \in Seq(Command) /\ reports \in Seq(Report)
      BY DEF Init
    <3>2. mishaps \in Nat /\ rushed \in Nat /\ mishaps + rushed <= MaxDisturbances
      BY MaxDisturbancesAssumption DEF Init
    <3>3. overtaken \in BOOLEAN
      BY DEF Init
    <3>. QED BY <3>1, <3>2, <3>3 DEF OtherTypes
  <2>. QED BY <2>1, <2>3, <2>5, <2>6 DEF Types
<1>2. Types /\ [Next]_vars => Types'
  <2> SUFFICES ASSUME CacheTypes, RequestTypes, BridgeTypes, OtherTypes, [Next]_vars
               PROVE  CacheTypes' /\ RequestTypes' /\ BridgeTypes' /\ OtherTypes'
    BY DEF Types
  <2> DEFINE Goal == CacheTypes' /\ RequestTypes' /\ BridgeTypes' /\ OtherTypes'
  <2>0. /\ UNCHANGED <<online, gets, unasked, cache>> => CacheTypes'
        /\ UNCHANGED request => RequestTypes'
        /\ UNCHANGED bridgeVars => BridgeTypes'
        /\ UNCHANGED <<commands, reports, countVars>> => OtherTypes'
    BY DEF bridgeVars, countVars, CacheTypes, RequestTypes, BridgeTypes, OtherTypes
  <2>m. ASSUME Mishap, rushed' = rushed
        PROVE  mishaps' \in Nat /\ rushed' \in Nat /\ mishaps' + rushed' <= MaxDisturbances
    BY <2>m, MaxDisturbancesAssumption DEF Mishap, MoreDisturbance, OtherTypes
  <2>1. CASE ServerConnect
    <3>1. CacheTypes'
      BY <2>1, EntitiesAssumption DEF ServerConnect, CacheTypes, Bulbs
    <3>. QED BY <2>0, <2>1, <3>1 DEF ServerConnect
  <2>2. CASE RequestState
    <3>1. Head(gets) \in Bulbs /\ Tail(gets) \in Seq(Bulbs)
      BY <2>2, TailElements DEF RequestState, CacheTypes
    <3>2. Get(Head(gets)) \in Command
      BY <3>1, GetIsCommand
    <3>3. CacheTypes'
      BY <2>2, <3>1 DEF RequestState, CacheTypes
    <3>4. OtherTypes'
      BY <2>2, <3>2, CommandsTypes DEF RequestState, OtherTypes, countVars
    <3>. QED BY <2>0, <2>2, <3>3, <3>4 DEF RequestState
  <2>15. CASE RequestStateFails
    <3>1. Head(gets) \in Bulbs /\ Tail(gets) \in Seq(Bulbs)
      BY <2>15, TailElements DEF RequestStateFails, CacheTypes
    <3>2. commands' \in Seq(Command)
      BY <2>15, <3>1, GetIsCommand, CommandsTypes DEF RequestStateFails, OtherTypes
    <3>3. CacheTypes'
      BY <2>15, <3>1 DEF RequestStateFails, CacheTypes
    <3>4. UNCHANGED <<reports, overtaken, rushed>>
      BY <2>15 DEF RequestStateFails
    <3>5. OtherTypes'
      BY <2>15, <2>m, <3>2, <3>4 DEF RequestStateFails, OtherTypes
    <3>. QED BY <2>0, <2>15, <3>3, <3>5 DEF RequestStateFails
  <2>3. CASE ReceiveReport
    <3>1. Head(reports) \in Report /\ Tail(reports) \in Seq(Report)
      BY <2>3, TailElements DEF ReceiveReport, OtherTypes
    <3>2. Head(reports).entity \in Bulbs
      BY <3>1 DEF Report
    <3>3. CacheTypes'
      BY <2>3, <3>1, <3>2 DEF ReceiveReport, CacheTypes
    <3>4. OtherTypes'
      BY <2>3, <3>1 DEF ReceiveReport, OtherTypes, countVars
    <3>. QED BY <2>0, <2>3, <3>3, <3>4 DEF ReceiveReport
  <2>4. CASE ServerGone
    <3>1. CacheTypes'
      <4>1. \/ cache' = cache
            \/ cache' = [e \in Bulbs |-> NoReport(e)]
        BY <2>4 DEF ServerGone
      <4>2. gets' \in Seq(Bulbs) /\ unasked' \subseteq Bulbs
        BY <2>4 DEF ServerGone
      <4>4. online' \in BOOLEAN
        BY <2>4 DEF ServerGone
      <4>3. DOMAIN cache' = Bulbs /\ \A e \in Bulbs :
                cache'[e] = NoReport(e) \/ (cache'[e] \in Report /\ cache'[e].entity = e)
        BY <4>1 DEF CacheTypes
      <4>. QED BY <4>2, <4>3, <4>4 DEF CacheTypes
    <3>2. RequestTypes'
      <4>1. NoRequest \in Handler /\ NoRequest.step = "unused"
        BY DEF NoRequest, Handler, None
      <4>2. \/ request' = request
            \/ request' = [q \in Requests |-> IF Running(q) THEN NoRequest ELSE request[q]]
        BY <2>4 DEF ServerGone
      <4>. QED BY <4>1, <4>2 DEF RequestTypes
    <3>3. OtherTypes'
      BY <2>4, <2>m DEF ServerGone, OtherTypes
    <3>. QED BY <2>0, <2>4, <3>1, <3>2, <3>3 DEF ServerGone
  <2>5. ASSUME NEW q \in Requests, NEW kind \in {"power", "brightness"}, NEW on \in BOOLEAN,
               NEW level \in Levels \cup {None}, Begin(q, kind, on, level)
        PROVE  Goal
    <3>1. RequestTypes'
      BY <2>5, BeginRequest
    <3>2. /\ rushed' = rushed + (IF AtRest THEN 0 ELSE 1) /\ (AtRest \/ MoreDisturbance)
          /\ UNCHANGED <<commands, reports, mishaps, overtaken>>
      BY <2>5 DEF Begin
    <3>3. rushed' \in Nat /\ mishaps + rushed' <= MaxDisturbances
      BY <3>2, MaxDisturbancesAssumption DEF MoreDisturbance, OtherTypes
    <3>4. OtherTypes'
      BY <3>2, <3>3 DEF OtherTypes
    <3>. QED BY <2>0, <2>5, <3>1, <3>4 DEF Begin
  <2>6. ASSUME NEW q \in Requests, HandleNext(q) \/ HandleFails(q) PROVE Goal
    <3>1. RequestTypes'
      BY <2>6, HandleNextRequest
    <3>2. commands' \in Seq(Command)
      <4>1. \/ commands' = commands
            \/ \E c \in Command : ToBridge(c)
        BY <2>6, HandleNextSends
      <4>. QED BY <4>1, CommandsTypes DEF OtherTypes
    <3>3. /\ UNCHANGED <<online, gets, unasked, cache, bridgeVars, reports, overtaken, rushed>>
          /\ mishaps' = mishaps \/ Mishap
      BY <2>6 DEF HandleNext, HandleFails, NextBulb
    <3>4. OtherTypes'
      BY <2>m, <3>2, <3>3 DEF OtherTypes
    <3>. QED BY <2>0, <3>1, <3>3, <3>4
  <2>7. ASSUME NEW q \in Requests, Respond(q) PROVE Goal
    BY <2>0, <2>7, RespondRequest DEF Respond
  <2>8. CASE BridgeConnect
    <3>1. due' \in Nat
      BY <2>8 DEF BridgeConnect, BridgeTypes
    <3>. QED BY <2>0, <2>8, <3>1 DEF BridgeConnect, BridgeTypes, serverVars
  <2>9. CASE ReadAll
    <3>1. \A e \in Bulbs : Payload(e, bulb[e]) \in Report
      BY PayloadIsReport DEF BridgeTypes
    <3>2. due' \in Nat
      BY <2>9 DEF ReadAll, BridgeTypes
    <3>3. BridgeTypes'
      BY <2>9, <3>1, <3>2 DEF ReadAll, BridgeTypes
    <3>4. OtherTypes'
      BY <2>9 DEF ReadAll, OtherTypes
    <3>. QED BY <2>0, <2>9, <3>3, <3>4 DEF ReadAll, serverVars
  <2>10. CASE AnnounceOne
    <3>1. PICK p \in announce : ToServer(p) /\ announce' = announce \ {p}
      BY <2>10 DEF AnnounceOne
    <3>2. reports' \in Seq(Report)
      BY <3>1, ReportsTypes DEF BridgeTypes, OtherTypes
    <3>3. BridgeTypes'
      BY <2>10, <3>1 DEF AnnounceOne, BridgeTypes
    <3>4. OtherTypes'
      BY <2>10, <3>2 DEF AnnounceOne, OtherTypes, countVars
    <3>. QED BY <2>0, <2>10, <3>3, <3>4 DEF AnnounceOne, serverVars
  <2>11. CASE HandleCommand
    <3>1. BridgeTypes' /\ commands' \in Seq(Command)
          /\ UNCHANGED <<serverVars, reports, countVars>>
      BY <2>11, HandleCommandEffect
    <3>2. OtherTypes'
      BY <3>1 DEF OtherTypes, countVars
    <3>. QED BY <2>0, <3>1, <3>2 DEF serverVars
  <2>12. ASSUME NEW i \in DOMAIN timers, Fire(i) PROVE Goal
    <3>1. timers[i] \in Report /\ RemoveAt(timers, i) \in Seq(Report)
      BY RemoveAtElements DEF BridgeTypes
    <3>2. reports' \in Seq(Report)
      BY <2>12, <3>1, ReportsTypes DEF Fire, OtherTypes
    <3>3. BridgeTypes'
      BY <2>12, <3>1 DEF Fire, Due, BridgeTypes
    <3>4. OtherTypes'
      BY <2>12, <3>2 DEF Fire, Due, OtherTypes
    <3>. QED BY <2>0, <2>12, <3>3, <3>4 DEF Fire, serverVars
  <2>13. CASE BridgeGone
    <3>1. NewBulb \in BulbState
      BY DEF NewBulb, BulbState, Full
    <3>2. BridgeTypes'
      <4>1. bulb' \in [Bulbs -> BulbState]
        BY <2>13, <3>1 DEF BridgeGone
      <4>2. bridge' \in BOOLEAN /\ due' \in Nat
        BY <2>13 DEF BridgeGone
      <4>3. announce' \subseteq Report /\ timers' \in Seq(Report)
        BY <2>13 DEF BridgeGone
      <4>. QED BY <4>1, <4>2, <4>3 DEF BridgeTypes
    <3>3. OtherTypes'
      BY <2>13, <2>m DEF BridgeGone, OtherTypes
    <3>. QED BY <2>0, <2>13, <3>2, <3>3 DEF BridgeGone, serverVars
  <2>16. ASSUME NEW i \in DOMAIN timers, LoseReport(i) PROVE Goal
    <3>1. RemoveAt(timers, i) \in Seq(Report)
      BY RemoveAtElements DEF BridgeTypes
    <3>2. BridgeTypes'
      BY <2>16, <3>1 DEF LoseReport, Due, BridgeTypes
    <3>3. OtherTypes'
      BY <2>16 DEF LoseReport, Due, OtherTypes
    <3>. QED BY <2>0, <2>16, <3>2, <3>3 DEF LoseReport, serverVars
  <2>17. CASE LoseAnnouncement
    BY <2>0, <2>17 DEF LoseAnnouncement, BridgeTypes, serverVars
  <2>18. CASE BridgeLosesBroker
    <3>1. commands' \in Seq(Command)
      <4>1. PICK n \in 0..Len(commands) : commands' = SubSeq(commands, 1, n)
        BY <2>18 DEF BridgeLosesBroker
      <4>. QED BY <4>1 DEF OtherTypes
    <3>2. BridgeTypes'
      BY <2>18 DEF BridgeLosesBroker, BridgeTypes
    <3>3. OtherTypes'
      BY <2>18, <2>m, <3>1 DEF BridgeLosesBroker, OtherTypes
    <3>. QED BY <2>0, <2>18, <3>2, <3>3 DEF BridgeLosesBroker, serverVars
  <2>14. CASE UNCHANGED vars
    BY <2>0, <2>14 DEF vars, serverVars
  <2>. QED
    BY <2>1, <2>2, <2>3, <2>4, <2>5, <2>6, <2>7, <2>8, <2>9, <2>10, <2>11, <2>12, <2>13, <2>14,
       <2>15, <2>16, <2>17, <2>18, RequestSteps DEF Next, Server, Bridge
<1>. QED BY <1>1, <1>2, PTL DEF Spec

\* Every reachable state is well typed; in particular brightness 0 never gets
\* into a bulb, and what the cache has of a bulb is about that bulb.
THEOREM TypeCorrect == Spec => []TypeOK
<1>1. ASSUME Types PROVE TypeOK
  <2>1. ASSUME NEW e \in Bulbs PROVE cache[e].entity = e /\ cache[e].level \in 0..None
    <3>1. CASE cache[e] = NoReport(e)
      BY <3>1 DEF NoReport, None
    <3>2. CASE cache[e] \in Report /\ cache[e].entity = e
      BY <3>2 DEF Report, None
    <3>. QED BY <1>1, <3>1, <3>2 DEF Types, CacheTypes
  <2>2. \A q \in Requests : request[q].step \in {"unused", "running", "ok", "error"}
    BY <1>1 DEF Types, RequestTypes, Handler
  <2>3. mishaps + rushed \in 0..MaxDisturbances
    BY <1>1, MaxDisturbancesAssumption DEF Types, OtherTypes
  <2>. QED BY <1>1, <2>1, <2>2, <2>3 DEF Types, CacheTypes, BridgeTypes, BulbState, TypeOK
<1>. QED BY <1>1, TypesInvariant, PTL

-----------------------------------------------------------------------------
(* What the server knows.                                                   *)

\* What the latest report on e should say.
Truth(e) == Payload(e, bulb[e])

Asked(e) == \E i \in 1..Len(gets) : gets[i] = e
Announced(e) == \E p \in announce : p.entity = e

\* The last report set off about a bulb is true, and the state read for
\* publishAll is unless a report was set off since.
LastIsTrue(e) ==
    /\ EndsWith(timers, e, Truth(e))
    /\ ~Mentions(timers, e) => \A p \in announce : p.entity = e => p = Truth(e)

\* The bridge will still send a report on e.
ReportToCome(e) == ~bridge \/ due > 0 \/ Mentions(timers, e) \/ Announced(e)

\* What the server is about to receive of e is true in the end.
ReportsEndTrue(e) == EndsWith(reports, e, Truth(e)) \/ ReportToCome(e)

\* The server knows e, or a connection, a question, a command or a report is
\* still to come, or its question failed.
KnownOrToCome(e) ==
    \/ cache[e] = Truth(e)
    \/ ~online \/ Asked(e) \/ e \in unasked
    \/ Mentions(commands, e) \/ Mentions(reports, e) \/ ReportToCome(e)

\* The inductive form of EveryBulbKnown.
NewsTravels ==
    /\ ~online => reports = <<>>
    /\ ~overtaken => \A e \in Bulbs : LastIsTrue(e) /\ ReportsEndTrue(e) /\ KnownOrToCome(e)

\* Steps that leave the bridge alone.
LEMMA BridgeFrame ==
  ASSUME NEW e, UNCHANGED <<bridge, bulb, due, announce, timers>>
  PROVE  /\ Truth(e)' = Truth(e)
         /\ LastIsTrue(e)' <=> LastIsTrue(e)
         /\ ReportToCome(e)' <=> ReportToCome(e)
BY DEF LastIsTrue, ReportToCome, Announced, Truth, Mentions, EndsWith

\* A true report that is sent while the server listens is the last one; one
\* about another bulb changes nothing, nor does one that nobody listens to.
LEMMA SendingReport ==
  ASSUME OtherTypes, NEW r \in Report, ToServer(r), UNCHANGED bulb, NEW e
  PROVE  /\ Mentions(reports, e) => Mentions(reports, e)'
         /\ online /\ r.entity = e /\ r = Truth(e)
               => Mentions(reports, e)' /\ EndsWith(reports, e, Truth(e))'
         /\ r.entity # e \/ ~online
               => (EndsWith(reports, e, Truth(e)) => EndsWith(reports, e, Truth(e))')
         /\ ~online => reports' = reports
<1>1. Truth(e)' = Truth(e) /\ reports \in Seq(Report)
  BY DEF Truth, OtherTypes
<1>2. CASE online
  <2>1. reports' = Append(reports, r)
    BY <1>2 DEF ToServer
  <2>2. /\ Mentions(reports', e) <=> r.entity = e \/ Mentions(reports, e)
        /\ r.entity = e /\ r = Truth(e) => EndsWith(reports', e, Truth(e))
        /\ r.entity # e /\ EndsWith(reports, e, Truth(e)) => EndsWith(reports', e, Truth(e))
    BY <1>1, <2>1, SendLast
  <2>3. /\ Mentions(reports, e)' <=> Mentions(reports', e)
        /\ EndsWith(reports, e, Truth(e))' <=> EndsWith(reports', e, Truth(e))
    BY <1>1 DEF Mentions, EndsWith
  <2>. QED BY <1>2, <2>2, <2>3
<1>3. CASE ~online
  <2>1. reports' = reports
    BY <1>3 DEF ToServer
  <2>. QED BY <1>1, <1>3, <2>1 DEF Mentions, EndsWith
<1>. QED BY <1>2, <1>3

\* Sending a command only adds to what is to be answered.
LEMMA CommandsStay ==
  ASSUME OtherTypes, NEW c \in Command, ToBridge(c), NEW e
  PROVE  /\ Mentions(commands, e) => Mentions(commands, e)'
         /\ bridge /\ c.entity = e => Mentions(commands, e)'
<1>1. CASE bridge
  <2>1. commands' = Append(commands, c) /\ commands \in Seq(Command)
    BY <1>1 DEF ToBridge, OtherTypes
  <2>2. Mentions(commands', e) <=> c.entity = e \/ Mentions(commands, e)
    BY <2>1, SendLast
  <2>. QED BY <2>2 DEF Mentions
<1>2. CASE ~bridge
  BY <1>2 DEF ToBridge, Mentions
<1>. QED BY <1>1, <1>2

\* Taking the first question off the list leaves the others on it.
LEMMA NextQuestion ==
  ASSUME gets \in Seq(Bulbs), gets # <<>>, gets' = Tail(gets), NEW e, Asked(e)
  PROVE  Head(gets) = e \/ Asked(e)'
<1> SUFFICES ASSUME NEW i \in 1..Len(gets), gets[i] = e, Head(gets) # e
             PROVE  \E j \in 1..Len(gets') : gets'[j] = e
  BY DEF Asked
<1>1. i # 1 /\ i - 1 \in 1..(Len(gets) - 1) /\ (i - 1) + 1 = i
  BY TailElements
<1>2. gets'[i - 1] = e /\ i - 1 \in 1..Len(gets')
  BY <1>1, TailElements
<1>. QED BY <1>2

\* A report whose time has come, if it overtakes none, is the first.
LEMMA DueInOrder ==
  ASSUME BridgeTypes, NEW i \in DOMAIN timers, Due(i), ~overtaken'
  PROVE  /\ ~overtaken /\ announce = {} /\ timers # <<>> /\ i = 1
         /\ Head(timers) = timers[i] /\ timers[i] \in Report /\ timers' = Tail(timers)
<1>1. i = 1 /\ announce = {} /\ ~overtaken
  <2>1. ~(overtaken \/ i > 1 \/ announce # {})
    BY DEF Due
  <2>2. i \in 1..Len(timers)
    BY DEF BridgeTypes
  <2>. QED BY <2>1, <2>2
<1>2. timers \in Seq(Report) /\ timers # <<>> /\ Head(timers) = timers[1] /\ timers[1] \in Report
  BY <1>1 DEF BridgeTypes
<1>3. timers' = Tail(timers)
  BY <1>1, <1>2, RemoveAtElements DEF Due
<1>. QED BY <1>1, <1>2, <1>3

LEMMA NewsTravelsInvariant == Spec => []NewsTravels
<1>1. Init => NewsTravels
  BY DEF Init, NewsTravels, LastIsTrue, ReportsEndTrue, KnownOrToCome, Mentions, EndsWith
<1>2. Types /\ NewsTravels /\ [Next]_vars => (~online' => reports' = <<>>)
  <2> SUFFICES ASSUME Types, NewsTravels, [Next]_vars, ~online' PROVE reports' = <<>>
    OBVIOUS
  <2>0. ~online => reports = <<>>
    BY DEF NewsTravels
  <2>1. CASE UNCHANGED <<online, reports>>
    BY <2>0, <2>1
  <2>2. ASSUME NEW r, ToServer(r), online' = online PROVE reports' = <<>>
    BY <2>0, <2>2 DEF ToServer
  <2>3. CASE ReceiveReport
    BY <2>0, <2>3 DEF ReceiveReport
  <2>4. CASE ServerConnect \/ ServerGone
    BY <2>4 DEF ServerConnect, ServerGone
  <2>5. CASE RequestState \/ RequestStateFails
    BY <2>1, <2>5 DEF RequestState, RequestStateFails
  <2>6. ASSUME NEW q \in Requests, HandleNext(q) \/ HandleFails(q) \/ Respond(q)
        PROVE  reports' = <<>>
    BY <2>1, <2>6 DEF HandleNext, HandleFails, NextBulb, Respond
  <2>7. ASSUME NEW q \in Requests, NEW kind \in {"power", "brightness"}, NEW on \in BOOLEAN,
               NEW level \in Levels \cup {None}, Begin(q, kind, on, level)
        PROVE  reports' = <<>>
    BY <2>1, <2>7 DEF Begin
  <2>8. CASE BridgeConnect \/ ReadAll \/ HandleCommand \/ LoseAnnouncement \/ UNCHANGED vars
    BY <2>1, <2>8 DEF BridgeConnect, ReadAll, HandleCommand, LoseAnnouncement, vars, serverVars
  <2>9. CASE BridgeGone \/ BridgeLosesBroker
    BY <2>1, <2>9 DEF BridgeGone, BridgeLosesBroker, serverVars
  <2>10. CASE AnnounceOne
    BY <2>2, <2>10 DEF AnnounceOne, serverVars
  <2>11. ASSUME NEW i \in DOMAIN timers, Fire(i) \/ LoseReport(i) PROVE reports' = <<>>
    BY <2>1, <2>2, <2>11 DEF Fire, LoseReport, serverVars
  <2>. QED
    BY <2>3, <2>4, <2>5, <2>6, <2>7, <2>8, <2>9, <2>10, <2>11, RequestSteps DEF Next, Server, Bridge
<1>3. Types /\ NewsTravels /\ [Next]_vars
      => (~overtaken' => \A e \in Bulbs : (LastIsTrue(e) /\ ReportsEndTrue(e) /\ KnownOrToCome(e))')
  <2> SUFFICES ASSUME CacheTypes, RequestTypes, BridgeTypes, OtherTypes, NewsTravels,
                      [Next]_vars, ~overtaken', NEW e \in Bulbs
               PROVE  LastIsTrue(e)' /\ ReportsEndTrue(e)' /\ KnownOrToCome(e)'
    BY DEF Types
  <2> DEFINE Goal == LastIsTrue(e)' /\ ReportsEndTrue(e)' /\ KnownOrToCome(e)'
  <2>0. overtaken \in BOOLEAN /\ (~online => reports = <<>>)
    BY DEF OtherTypes, NewsTravels
  <2>h. ASSUME ~overtaken PROVE LastIsTrue(e) /\ ReportsEndTrue(e) /\ KnownOrToCome(e)
    BY <2>h DEF NewsTravels
  <2>c. ASSUME ReportToCome(e)', LastIsTrue(e)' PROVE Goal
    BY <2>c DEF ReportsEndTrue, KnownOrToCome
  \* Steps of the server that take no report.
  <2>s. ASSUME UNCHANGED <<bridgeVars, reports, overtaken>>, KnownOrToCome(e) => KnownOrToCome(e)'
        PROVE  Goal
    <3>1. LastIsTrue(e)' /\ (ReportToCome(e)' <=> ReportToCome(e)) /\ Truth(e)' = Truth(e)
      BY <2>s, <2>h, BridgeFrame DEF bridgeVars
    <3>2. ReportsEndTrue(e)'
      BY <2>s, <2>h, <3>1 DEF ReportsEndTrue, EndsWith
    <3>. QED BY <2>s, <2>h, <3>1, <3>2
  <2>k. ASSUME UNCHANGED <<online, cache, bridgeVars, reports>>,
               Asked(e) => Asked(e)', e \in unasked => e \in unasked',
               Mentions(commands, e) => Mentions(commands, e)'
        PROVE  KnownOrToCome(e) => KnownOrToCome(e)'
    <3>1. (ReportToCome(e)' <=> ReportToCome(e)) /\ Truth(e)' = Truth(e)
      BY <2>k, BridgeFrame DEF bridgeVars
    <3>. QED BY <2>k, <3>1 DEF KnownOrToCome, Mentions
  <2>1. CASE ServerConnect
    <3>1. PICK i \in 1..Len(Entities) : Entities[i] = e
      BY EntitiesAssumption DEF Bulbs, Range
    <3>2. Asked(e)'
      BY <2>1, <3>1 DEF ServerConnect, Asked
    <3>3. UNCHANGED <<bridgeVars, reports, overtaken>>
      BY <2>1 DEF ServerConnect, countVars
    <3>. QED BY <2>s, <3>2, <3>3 DEF KnownOrToCome
  <2>2. CASE RequestState
    <3>1. /\ gets \in Seq(Bulbs) /\ gets # <<>> /\ gets' = Tail(gets) /\ online
          /\ ToBridge(Get(Head(gets)))
          /\ UNCHANGED <<online, unasked, cache, bridgeVars, reports, overtaken>>
      BY <2>2 DEF RequestState, CacheTypes, countVars
    <3>2. Get(Head(gets)) \in Command /\ Get(Head(gets)).entity = Head(gets)
      <4>1. Head(gets) \in Bulbs
        BY <3>1, TailElements
      <4>. QED BY <4>1, GetIsCommand
    <3>3. /\ Mentions(commands, e) => Mentions(commands, e)'
          /\ bridge /\ Head(gets) = e => Mentions(commands, e)'
      BY <3>1, <3>2, CommandsStay
    <3>4. CASE Asked(e) => Asked(e)'
      BY <2>s, <2>k, <3>1, <3>3, <3>4
    <3>5. CASE Head(gets) = e
      <4>1. ~bridge => ReportToCome(e)'
        BY <3>1 DEF ReportToCome, bridgeVars
      <4>2. KnownOrToCome(e)'
        BY <3>3, <3>5, <4>1 DEF KnownOrToCome
      <4>. QED BY <2>s, <3>1, <4>2
    <3>. QED BY <3>1, <3>4, <3>5, NextQuestion
  <2>15. CASE RequestStateFails
    <3>1. /\ gets \in Seq(Bulbs) /\ gets # <<>> /\ gets' = Tail(gets)
          /\ unasked' = unasked \cup {Head(gets)}
          /\ ToBridge(Get(Head(gets))) \/ UNCHANGED commands
          /\ UNCHANGED <<online, cache, bridgeVars, reports, overtaken>>
      BY <2>15 DEF RequestStateFails, CacheTypes
    <3>2. Get(Head(gets)) \in Command
      <4>1. Head(gets) \in Bulbs
        BY <3>1, TailElements
      <4>. QED BY <4>1, GetIsCommand
    <3>3. Mentions(commands, e) => Mentions(commands, e)'
      <4>1. CASE ToBridge(Get(Head(gets)))
        BY <3>2, <4>1, CommandsStay
      <4>2. CASE UNCHANGED commands
        BY <4>2 DEF Mentions
      <4>. QED BY <3>1, <4>1, <4>2
    <3>4. CASE Asked(e) => Asked(e)'
      BY <2>s, <2>k, <3>1, <3>3, <3>4
    <3>5. CASE Head(gets) = e
      BY <2>s, <3>1, <3>5 DEF KnownOrToCome
    <3>. QED BY <3>1, <3>4, <3>5, NextQuestion
  <2>3. CASE ReceiveReport
    <3>1. /\ reports \in Seq(Report) /\ reports # <<>> /\ reports' = Tail(reports)
          /\ cache' = [cache EXCEPT ![Head(reports).entity] = Head(reports)]
          /\ unasked' = unasked \ {Head(reports).entity}
          /\ UNCHANGED <<online, gets, bridgeVars, commands, overtaken>>
      BY <2>3 DEF ReceiveReport, OtherTypes, countVars
    <3>2. (ReportToCome(e)' <=> ReportToCome(e)) /\ Truth(e)' = Truth(e) /\ LastIsTrue(e)'
      BY <2>h, <3>1, BridgeFrame DEF bridgeVars
    <3>3. CASE ReportToCome(e)
      BY <2>c, <3>2, <3>3
    <3>4. CASE ~ReportToCome(e)
      <4>1. EndsWith(reports, e, Truth(e))
        BY <2>h, <3>1, <3>4 DEF ReportsEndTrue
      <4>2. /\ EndsWith(Tail(reports), e, Truth(e))
            /\ Mentions(reports, e) <=> Head(reports).entity = e \/ Mentions(Tail(reports), e)
            /\ Head(reports).entity = e /\ ~Mentions(Tail(reports), e) => Head(reports) = Truth(e)
        BY <3>1, <4>1, ReceiveLast
      <4>3. /\ EndsWith(reports, e, Truth(e))' <=> EndsWith(Tail(reports), e, Truth(e))
            /\ Mentions(reports, e)' <=> Mentions(Tail(reports), e)
        BY <3>1, <3>2 DEF EndsWith, Mentions
      <4>4. cache'[e] = IF Head(reports).entity = e THEN Head(reports) ELSE cache[e]
        BY <3>1 DEF CacheTypes
      <4>5. Head(reports).entity = e => KnownOrToCome(e)'
        BY <3>2, <4>2, <4>3, <4>4 DEF KnownOrToCome
      <4>6. Head(reports).entity # e => KnownOrToCome(e)'
        <5>1. /\ Asked(e)' <=> Asked(e)
              /\ Mentions(commands, e)' <=> Mentions(commands, e)
          BY <3>1 DEF Asked, Mentions
        <5>. QED BY <2>h, <3>1, <3>2, <4>2, <4>3, <4>4, <5>1 DEF KnownOrToCome
      <4>. QED BY <3>2, <4>2, <4>3, <4>5, <4>6 DEF ReportsEndTrue
    <3>. QED BY <3>3, <3>4
  <2>4. CASE ServerGone
    <3>1. /\ ~online' /\ reports' = <<>>
          /\ UNCHANGED <<bridge, bulb, due, timers, announce, overtaken>>
      BY <2>4 DEF ServerGone, bridgeVars
    <3>2. LastIsTrue(e)'
      BY <2>h, <3>1, BridgeFrame
    <3>3. ReportsEndTrue(e)'
      BY <3>1 DEF ReportsEndTrue, EndsWith
    <3>. QED BY <3>1, <3>2, <3>3 DEF KnownOrToCome
  <2>6. ASSUME NEW q \in Requests, HandleNext(q) \/ HandleFails(q) PROVE Goal
    <3>1. commands' = commands \/ \E c \in Command : ToBridge(c)
      BY <2>6, HandleNextSends
    <3>2. Mentions(commands, e) => Mentions(commands, e)'
      <4>1. CASE commands' = commands
        BY <4>1 DEF Mentions
      <4>2. ASSUME NEW c \in Command, ToBridge(c)
            PROVE  Mentions(commands, e) => Mentions(commands, e)'
        BY <4>2, CommandsStay
      <4>. QED BY <3>1, <4>1, <4>2
    <3>3. UNCHANGED <<online, gets, unasked, cache, bridgeVars, reports, overtaken>>
      BY <2>6 DEF HandleNext, HandleFails, NextBulb
    <3>. QED BY <2>s, <2>k, <3>2, <3>3 DEF Asked
  <2>7. ASSUME NEW q \in Requests, NEW kind \in {"power", "brightness"}, NEW on \in BOOLEAN,
               NEW level \in Levels \cup {None}, Begin(q, kind, on, level)
        PROVE  Goal
    <3>1. UNCHANGED <<online, gets, unasked, cache, bridgeVars, reports, overtaken, commands>>
      BY <2>7 DEF Begin
    <3>. QED BY <2>s, <2>k, <3>1 DEF Asked, Mentions
  <2>8. ASSUME UNCHANGED vars \/ \E q \in Requests : Respond(q) PROVE Goal
    <3>1. UNCHANGED <<online, gets, unasked, cache, bridgeVars, reports, overtaken, commands>>
      BY <2>8 DEF Respond, vars, serverVars, bridgeVars, countVars
    <3>. QED BY <2>s, <2>k, <3>1 DEF Asked, Mentions
  <2>9. CASE BridgeConnect
    <3>1. due' > 0 /\ UNCHANGED <<bulb, timers, announce, overtaken>>
      BY <2>9 DEF BridgeConnect, countVars, BridgeTypes
    <3>2. LastIsTrue(e)'
      BY <2>h, <3>1 DEF LastIsTrue, Truth, Mentions, EndsWith
    <3>. QED BY <2>c, <3>1, <3>2 DEF ReportToCome
  <2>10. CASE ReadAll
    <3>1. /\ announce' = {Payload(b, bulb[b]) : b \in Bulbs} /\ ~overtaken
          /\ UNCHANGED <<bulb, timers>>
      BY <2>10 DEF ReadAll
    <3>2. \A p \in announce' : p.entity = e => p = Truth(e)
      BY <3>1 DEF Truth, Payload
    <3>3. Truth(e) \in announce' /\ Truth(e).entity = e
      BY <3>1 DEF Truth, Payload
    <3>4. Announced(e)'
      BY <3>3 DEF Announced
    <3>5. LastIsTrue(e)'
      BY <2>h, <3>1, <3>2 DEF LastIsTrue, Truth, Mentions, EndsWith
    <3>. QED BY <2>c, <3>4, <3>5 DEF ReportToCome
  \* A report is sent, the true one unless another is to come.
  <2>r. ASSUME NEW r \in Report, ToServer(r),
               UNCHANGED <<online, gets, unasked, cache, bridge, bulb, due, commands>>,
               ~overtaken, LastIsTrue(e)',
               ReportToCome(e) => ReportToCome(e)' \/ r.entity = e,
               r.entity = e => r = Truth(e) \/ ReportToCome(e)'
        PROVE  Goal
    <3>0. ReportsEndTrue(e) /\ KnownOrToCome(e) /\ Truth(e)' = Truth(e)
      BY <2>h, <2>r DEF Truth
    <3>1. /\ Mentions(reports, e) => Mentions(reports, e)'
          /\ online /\ r.entity = e /\ r = Truth(e)
                => Mentions(reports, e)' /\ EndsWith(reports, e, Truth(e))'
          /\ r.entity # e \/ ~online
                => (EndsWith(reports, e, Truth(e)) => EndsWith(reports, e, Truth(e))')
          /\ ~online => reports' = reports
      BY <2>r, SendingReport
    <3>2. CASE ReportToCome(e)'
      BY <2>c, <2>r, <3>2
    <3>3. CASE ~ReportToCome(e)' /\ ~online
      <4>1. Len(reports') = 0
        BY <2>0, <3>1, <3>3
      <4>2. EndsWith(reports, e, Truth(e))'
        BY <4>1 DEF EndsWith
      <4>. QED BY <2>r, <3>3, <4>2 DEF ReportsEndTrue, KnownOrToCome
    <3>4. CASE ~ReportToCome(e)' /\ online /\ r.entity = e
      BY <2>r, <3>1, <3>4 DEF ReportsEndTrue, KnownOrToCome
    <3>5. CASE ~ReportToCome(e)' /\ online /\ r.entity # e
      <4>1. /\ Asked(e)' <=> Asked(e)
            /\ Mentions(commands, e)' <=> Mentions(commands, e)
        BY <2>r DEF Asked, Mentions
      <4>. QED BY <2>r, <3>0, <3>1, <3>5, <4>1 DEF ReportsEndTrue, KnownOrToCome
    <3>. QED BY <3>2, <3>3, <3>4, <3>5
  <2>11. CASE AnnounceOne
    <3>1. PICK p \in announce : ToServer(p) /\ announce' = announce \ {p}
      BY <2>11 DEF AnnounceOne
    <3>2. /\ UNCHANGED <<online, gets, unasked, cache, bridge, bulb, due, timers, commands>>
          /\ ~overtaken /\ p \in Report
      BY <2>11 DEF AnnounceOne, serverVars, countVars, BridgeTypes
    <3>3. LastIsTrue(e)'
      BY <2>h, <3>1, <3>2 DEF LastIsTrue, Truth, Mentions, EndsWith
    <3>4. ReportToCome(e) => ReportToCome(e)' \/ p.entity = e
      <4>1. Announced(e) => Announced(e)' \/ p.entity = e
        BY <3>1 DEF Announced
      <4>. QED BY <3>2, <4>1 DEF ReportToCome, Mentions
    <3>5. p.entity = e => p = Truth(e) \/ ReportToCome(e)'
      <4>1. Mentions(timers, e) => ReportToCome(e)'
        BY <3>2 DEF ReportToCome, Mentions
      <4>. QED BY <2>h, <3>2, <4>1 DEF LastIsTrue
    <3>. QED BY <2>r, <3>1, <3>2, <3>3, <3>4, <3>5
  <2>12. CASE HandleCommand
    <3> DEFINE c == Head(commands)
               after == Apply(c.entity, bulb[c.entity], c)
               r == Payload(c.entity, after)
    <3>1. /\ c \in Command /\ c.entity \in Bulbs /\ after \in BulbState /\ r \in Report
          /\ bulb' = [bulb EXCEPT ![c.entity] = after]
          /\ timers' = Append(timers, r)
          /\ commands # <<>> /\ commands' = Tail(commands)
          /\ UNCHANGED <<serverVars, bridge, due, announce, reports, countVars>>
      BY <2>12, HandleCommandEffect
    <3>2. r.entity = c.entity
      BY DEF Payload
    <3>3. UNCHANGED <<online, gets, unasked, cache, bridge, due, announce, reports, overtaken>>
      BY <3>1 DEF serverVars, countVars
    <3>4. timers \in Seq(Report) /\ commands \in Seq(Command) /\ bulb \in [Bulbs -> BulbState]
      BY DEF BridgeTypes, OtherTypes
    <3> HIDE DEF after, c
    <3>5. /\ Mentions(timers', e) <=> r.entity = e \/ Mentions(timers, e)
          /\ \A t : /\ r.entity = e /\ r = t => EndsWith(timers', e, t)
                    /\ r.entity # e /\ EndsWith(timers, e, t) => EndsWith(timers', e, t)
      BY <3>1, <3>4, SendLast
    <3>6. CASE c.entity = e
      <4>1. r = Payload(e, bulb'[e])
        BY <3>1, <3>4, <3>6
      <4>2. Mentions(timers', e) /\ EndsWith(timers', e, Payload(e, bulb'[e]))
        BY <3>2, <3>5, <3>6, <4>1
      <4>3. Mentions(timers, e)' /\ EndsWith(timers, e, Truth(e))'
        BY <4>2 DEF Mentions, EndsWith, Truth
      <4>4. LastIsTrue(e)' /\ ReportToCome(e)'
        BY <4>3 DEF LastIsTrue, ReportToCome
      <4>. QED BY <2>c, <4>4
    <3>7. CASE c.entity # e
      <4>1. Truth(e)' = Truth(e) /\ bulb'[e] = bulb[e]
        BY <3>1, <3>4, <3>7 DEF Truth
      <4>2. LastIsTrue(e)'
        <5>1. /\ Mentions(timers, e)' <=> Mentions(timers', e)
              /\ EndsWith(timers, e, Truth(e))' <=> EndsWith(timers', e, Truth(e))
          BY <4>1 DEF Mentions, EndsWith
        <5>. QED BY <2>h, <3>2, <3>3, <3>5, <3>7, <4>1, <5>1 DEF LastIsTrue
      <4>3. ReportToCome(e) => ReportToCome(e)'
        <5>1. Mentions(timers, e) => Mentions(timers, e)'
          BY <3>5 DEF Mentions
        <5>. QED BY <3>3, <5>1 DEF ReportToCome, Announced
      <4>4. ReportsEndTrue(e)'
        BY <2>h, <3>3, <4>1, <4>3 DEF ReportsEndTrue, EndsWith
      <4>5. Mentions(commands, e) => Mentions(commands, e)'
        <5>1. Mentions(commands, e) <=> c.entity = e \/ Mentions(Tail(commands), e)
          BY <3>1, <3>4, ReceiveLast DEF c
        <5>. QED BY <3>1, <3>7, <5>1 DEF Mentions
      <4>6. Mentions(reports, e)' <=> Mentions(reports, e)
        BY <3>3 DEF Mentions
      <4>7. KnownOrToCome(e)'
        BY <2>h, <3>3, <4>1, <4>3, <4>5, <4>6 DEF KnownOrToCome, Asked
      <4>. QED BY <4>2, <4>4, <4>7
    <3>. QED BY <3>6, <3>7
  \* The first of the timers is taken off.
  <2>t. ASSUME NEW i \in DOMAIN timers, Due(i), UNCHANGED <<bulb, announce>>
        PROVE  /\ ~overtaken /\ LastIsTrue(e)' /\ announce = {}
               /\ Mentions(timers, e) => Mentions(timers, e)' \/ timers[i].entity = e
               /\ timers[i].entity = e => timers[i] = Truth(e) \/ Mentions(timers, e)'
               /\ timers[i] \in Report
    <3>1. /\ ~overtaken /\ announce = {} /\ timers # <<>>
          /\ Head(timers) = timers[i] /\ timers[i] \in Report /\ timers' = Tail(timers)
      BY <2>t, DueInOrder
    <3>2. timers \in Seq(Report) /\ LastIsTrue(e)
      BY <2>h, <3>1 DEF BridgeTypes
    <3>3. /\ Mentions(timers, e) <=> timers[i].entity = e \/ Mentions(Tail(timers), e)
          /\ EndsWith(Tail(timers), e, Truth(e))
          /\ timers[i].entity = e /\ ~Mentions(Tail(timers), e) => timers[i] = Truth(e)
      BY <3>1, <3>2, ReceiveLast DEF LastIsTrue
    <3>4. /\ Truth(e)' = Truth(e)
          /\ Mentions(timers, e)' <=> Mentions(Tail(timers), e)
          /\ EndsWith(timers, e, Truth(e))' <=> EndsWith(Tail(timers), e, Truth(e))
      BY <2>t, <3>1 DEF Truth, Mentions, EndsWith
    <3>5. LastIsTrue(e)'
      BY <2>t, <3>1, <3>3, <3>4 DEF LastIsTrue
    <3>. QED BY <3>1, <3>3, <3>4, <3>5
  <2>13. ASSUME NEW i \in DOMAIN timers, Fire(i) PROVE Goal
    <3>1. /\ Due(i) /\ ToServer(timers[i])
          /\ UNCHANGED <<online, gets, unasked, cache, bridge, bulb, due, announce, commands>>
      BY <2>13 DEF Fire, serverVars
    <3>2. /\ ~overtaken /\ LastIsTrue(e)' /\ timers[i] \in Report
          /\ Mentions(timers, e) => Mentions(timers, e)' \/ timers[i].entity = e
          /\ timers[i].entity = e => timers[i] = Truth(e) \/ Mentions(timers, e)'
      BY <2>t, <3>1
    <3>3. ReportToCome(e) => ReportToCome(e)' \/ timers[i].entity = e
      BY <3>1, <3>2 DEF ReportToCome, Announced
    <3>4. timers[i].entity = e => timers[i] = Truth(e) \/ ReportToCome(e)'
      BY <3>2 DEF ReportToCome
    <3>. QED BY <2>r, <3>1, <3>2, <3>3, <3>4
  <2>16. ASSUME NEW i \in DOMAIN timers, LoseReport(i) PROVE Goal
    <3>1. Due(i) /\ ~bridge' /\ UNCHANGED <<bulb, announce>>
      BY <2>16 DEF LoseReport
    <3>2. LastIsTrue(e)'
      BY <2>t, <3>1
    <3>. QED BY <2>c, <3>1, <3>2 DEF ReportToCome
  <2>17. CASE LoseAnnouncement
    <3>1. /\ ~bridge' /\ announce' \subseteq announce /\ UNCHANGED <<bulb, timers, overtaken>>
      BY <2>17 DEF LoseAnnouncement, countVars
    <3>2. LastIsTrue(e)'
      BY <2>h, <3>1 DEF LastIsTrue, Truth, Mentions, EndsWith
    <3>. QED BY <2>c, <3>1, <3>2 DEF ReportToCome
  <2>18. CASE BridgeLosesBroker
    <3>1. ~bridge' /\ UNCHANGED <<bulb, timers, announce, overtaken>>
      BY <2>18 DEF BridgeLosesBroker
    <3>2. LastIsTrue(e)'
      BY <2>h, <3>1 DEF LastIsTrue, Truth, Mentions, EndsWith
    <3>. QED BY <2>c, <3>1, <3>2 DEF ReportToCome
  <2>14. CASE BridgeGone
    <3>1. ~bridge' /\ timers' = <<>> /\ announce' = {}
      BY <2>14 DEF BridgeGone
    <3>2. LastIsTrue(e)'
      BY <3>1 DEF LastIsTrue, Mentions, EndsWith
    <3>. QED BY <2>c, <3>1, <3>2 DEF ReportToCome
  <2>. QED
    BY <2>1, <2>2, <2>3, <2>4, <2>6, <2>7, <2>8, <2>9, <2>10, <2>11, <2>12, <2>13, <2>14, <2>15,
       <2>16, <2>17, <2>18, RequestSteps DEF Next, Server, Bridge
<1>4. Types /\ NewsTravels /\ [Next]_vars => NewsTravels'
  BY <1>2, <1>3 DEF NewsTravels
<1>. QED BY <1>1, <1>4, TypesInvariant, PTL DEF Spec

\* Whichever of the two programs restarts or loses the broker, in whatever order
\* and however often, once nothing is on its way the server knows every bulb that
\* it could ask or has heard from since, unless a report overtook another
\* (cmd/z2m-emulator/main.go:12-14).
THEOREM BulbsAreKnown == Spec => []EveryBulbKnown
<1>1. Types /\ NewsTravels => EveryBulbKnown
  <2> SUFFICES ASSUME Types, NewsTravels, AtRest, ~overtaken, NEW e \in Bulbs \ unasked
               PROVE  cache[e] = Payload(e, bulb[e])
    BY DEF EveryBulbKnown
  <2>1. /\ online /\ bridge /\ ~(due > 0) /\ announce = {}
        /\ gets = <<>> /\ commands = <<>> /\ timers = <<>> /\ reports = <<>>
    BY DEF AtRest, InFlight
  <2>2. /\ ~ReportToCome(e) /\ ~Asked(e)
        /\ ~Mentions(commands, e) /\ ~Mentions(reports, e)
    BY <2>1 DEF ReportToCome, Asked, Mentions, Announced
  <2>3. KnownOrToCome(e)
    BY DEF NewsTravels
  <2>. QED BY <2>1, <2>2, <2>3 DEF KnownOrToCome, Truth
<1>. QED BY <1>1, TypesInvariant, NewsTravelsInvariant, PTL

\* While no publish has failed, every bulb has been asked.
AskedUnlessFailed == mishaps = 0 => unasked = {}

LEMMA AllAsked == Spec => []AskedUnlessFailed
<1>1. Init => AskedUnlessFailed
  BY DEF Init, AskedUnlessFailed
<1>2. Types /\ AskedUnlessFailed /\ [Next]_vars => AskedUnlessFailed'
  <2> SUFFICES ASSUME OtherTypes, mishaps = 0 => unasked = {}, [Next]_vars, mishaps' = 0
               PROVE  unasked' = {}
    BY DEF Types, AskedUnlessFailed
  <2>1. ~Mishap
    <3>1. mishaps \in Nat
      BY DEF OtherTypes
    <3>. QED BY <3>1 DEF Mishap
  <2>2. CASE UNCHANGED <<unasked, mishaps>>
    BY <2>2
  <2>3. CASE ServerConnect \/ RequestState \/ ReceiveReport
    <3>1. mishaps' = mishaps /\ unasked' \subseteq unasked
      BY <2>3 DEF ServerConnect, RequestState, ReceiveReport, countVars
    <3>. QED BY <3>1
  <2>4. ~RequestStateFails /\ ~ServerGone /\ ~BridgeGone /\ ~BridgeLosesBroker
    BY <2>1 DEF RequestStateFails, ServerGone, BridgeGone, BridgeLosesBroker
  <2>5. ASSUME NEW q \in Requests, NEW kind \in {"power", "brightness"}, NEW on \in BOOLEAN,
               NEW level \in Levels \cup {None}, Begin(q, kind, on, level)
        PROVE  unasked' = {}
    BY <2>2, <2>5 DEF Begin
  <2>6. ASSUME NEW q \in Requests, HandleNext(q) \/ HandleFails(q) \/ Respond(q)
        PROVE  unasked' = {}
    BY <2>1, <2>2, <2>6 DEF HandleNext, HandleFails, NextBulb, Respond, countVars
  <2>7. CASE \/ BridgeConnect \/ ReadAll \/ AnnounceOne \/ HandleCommand \/ LoseAnnouncement
             \/ UNCHANGED vars \/ \E i \in DOMAIN timers : Fire(i) \/ LoseReport(i)
    BY <2>2, <2>7 DEF BridgeConnect, ReadAll, AnnounceOne, HandleCommand, LoseAnnouncement, Fire,
       LoseReport, vars, serverVars, countVars
  <2>. QED BY <2>3, <2>4, <2>5, <2>6, <2>7, RequestSteps DEF Next, Server, Bridge
<1>. QED BY <1>1, <1>2, TypesInvariant, PTL DEF Spec

-----------------------------------------------------------------------------
(* Requests that wait for one another: what their commands do.              *)

\* Nothing is on its way that is not an answer to a request.
Steady == online /\ bridge /\ due = 0 /\ announce = {} /\ gets = <<>>

\* Since all was at rest, nothing has happened to e.
Untouched(e) ==
    /\ ~Mentions(commands, e) /\ ~Mentions(timers, e) /\ ~Mentions(reports, e)
    /\ cache[e] = Truth(e)

\* A brightness command: it says nothing of the state, but switches the bulb.
SliderCommand(c) == c.state = "" /\ c.level # None

Started == \E q \in Requests : request[q].step # "unused"

\* A request runs alone, and what it has still to command is as the cache says.
OneAtATime ==
    /\ Started => Steady
    /\ ~Started => \A i \in 1..Len(commands) : ~SliderCommand(commands[i])
    /\ \A q \in Requests : Running(q) =>
          /\ \A p \in Requests : Running(p) => p = q
          /\ \A i, j \in 1..Len(request[q].left) :
                request[q].left[i] = request[q].left[j] => i = j
          /\ \A i \in 1..Len(request[q].left) : Untouched(request[q].left[i])

\* A brightness command is on its way to a bulb that is on, and no other
\* command to that bulb.
OnlyLit ==
    \A i \in 1..Len(commands) : SliderCommand(commands[i]) =>
        /\ bulb[commands[i].entity].on
        /\ \A j \in 1..Len(commands) : j # i => commands[j].entity # commands[i].entity

\* Whatever was undisturbed after a step was so before, and a request that is
\* begun then is begun when all is at rest.
LEMMA UndisturbedSteps ==
  ASSUME Types, [Next]_vars, Undisturbed'
  PROVE  /\ Undisturbed /\ ~Mishap
         /\ \A i \in DOMAIN timers : Fire(i) => i = 1 /\ announce = {}
         /\ \A q \in Requests, kind \in {"power", "brightness"}, on \in BOOLEAN,
               level \in Levels \cup {None} : Begin(q, kind, on, level) => AtRest
<1>0. /\ rushed \in Nat /\ mishaps \in Nat /\ overtaken \in BOOLEAN
      /\ rushed' = 0 /\ mishaps' = 0 /\ ~overtaken'
  BY DEF Types, OtherTypes, Undisturbed
<1>1. ~Mishap
  BY <1>0 DEF Mishap
<1>2. ASSUME NEW i \in DOMAIN timers, Due(i) PROVE i = 1 /\ announce = {} /\ ~overtaken
  BY <1>0, <1>2, DueInOrder DEF Types
<1>3. ASSUME NEW q \in Requests, NEW kind \in {"power", "brightness"}, NEW on \in BOOLEAN,
             NEW level \in Levels \cup {None}, Begin(q, kind, on, level)
      PROVE  AtRest /\ UNCHANGED <<rushed, mishaps, overtaken>>
  <2>1. rushed' = rushed + (IF AtRest THEN 0 ELSE 1) /\ UNCHANGED <<mishaps, overtaken>>
    BY <1>3 DEF Begin
  <2>. QED BY <1>0, <2>1
<1>4. ASSUME rushed' = rushed, mishaps' = mishaps, overtaken' # overtaken => ~overtaken
      PROVE  Undisturbed
  BY <1>0, <1>4 DEF Undisturbed
<1>5. ASSUME NEW i \in DOMAIN timers, Fire(i) \/ LoseReport(i) PROVE Undisturbed
  BY <1>2, <1>4, <1>5 DEF Fire, LoseReport
<1>6. ASSUME ReadAll PROVE Undisturbed
  <2>1. ~overtaken /\ UNCHANGED <<rushed, mishaps>>
    BY <1>0, <1>6 DEF ReadAll
  <2>. QED BY <1>4, <2>1
<1>7. ASSUME \/ ServerConnect \/ RequestState \/ ReceiveReport \/ BridgeConnect \/ AnnounceOne
             \/ HandleCommand \/ LoseAnnouncement \/ UNCHANGED vars
      PROVE  Undisturbed
  <2>1. UNCHANGED countVars
    BY <1>7 DEF ServerConnect, RequestState, ReceiveReport, BridgeConnect, AnnounceOne,
       HandleCommand, LoseAnnouncement, vars
  <2>. QED BY <1>4, <2>1 DEF countVars
<1>8. ASSUME NEW q \in Requests, HandleNext(q) \/ HandleFails(q) \/ Respond(q) PROVE Undisturbed
  BY <1>1, <1>4, <1>8 DEF HandleNext, HandleFails, NextBulb, Respond, countVars
<1>9. ~RequestStateFails /\ ~ServerGone /\ ~BridgeGone /\ ~BridgeLosesBroker
  BY <1>1 DEF RequestStateFails, ServerGone, BridgeGone, BridgeLosesBroker
<1>10. Undisturbed
  BY <1>3, <1>4, <1>5, <1>6, <1>7, <1>8, <1>9, RequestSteps DEF Next, Server, Bridge
<1>. QED BY <1>1, <1>2, <1>3, <1>10 DEF Fire

\* So these are the steps that are taken while undisturbed.
LEMMA UndisturbedActions ==
  ASSUME Types, [Next]_vars, Undisturbed'
  PROVE  \/ ServerConnect \/ RequestState \/ ReceiveReport
         \/ BridgeConnect \/ ReadAll \/ AnnounceOne \/ LoseAnnouncement \/ HandleCommand
         \/ UNCHANGED vars
         \/ \E q \in Requests : HandleNext(q) \/ Respond(q)
         \/ \E q \in Requests, kind \in {"power", "brightness"}, on \in BOOLEAN,
               level \in Levels \cup {None} : Begin(q, kind, on, level)
         \/ \E i \in DOMAIN timers : Fire(i) \/ LoseReport(i)
<1>1. ~Mishap
  BY UndisturbedSteps
<1>2. ~RequestStateFails /\ ~ServerGone /\ ~BridgeGone /\ ~BridgeLosesBroker
  BY <1>1 DEF RequestStateFails, ServerGone, BridgeGone, BridgeLosesBroker
<1>3. ASSUME NEW q \in Requests PROVE ~HandleFails(q)
  BY <1>1 DEF HandleFails
<1>. QED BY <1>2, <1>3, RequestSteps DEF Next, Server, Bridge

\* Nothing happens to e in a step that takes only messages about others.
LEMMA UntouchedFrame ==
  ASSUME NEW e, Untouched(e), Truth(e)' = Truth(e), cache'[e] = cache[e],
         Mentions(commands, e)' => Mentions(commands, e),
         Mentions(timers, e)' => Mentions(timers, e),
         Mentions(reports, e)' => Mentions(reports, e)
  PROVE  Untouched(e)'
BY DEF Untouched

LEMMA OneAtATimeNext ==
  ASSUME Types, EveryBulbKnown, unasked = {}, OneAtATime, [Next]_vars, Undisturbed, Undisturbed'
  PROVE  OneAtATime'
<1>0. CacheTypes /\ RequestTypes /\ BridgeTypes /\ OtherTypes
  BY DEF Types
\* A step that leaves the requests alone and touches none of their bulbs.
<1>f. ASSUME UNCHANGED request, Steady', Started,
             \A q \in Requests : Running(q) => \A i \in 1..Len(request[q].left) :
                 Untouched(request[q].left[i])'
      PROVE  OneAtATime'
  BY <1>f DEF OneAtATime, Started, Running
<1>g. CASE ~Started /\ UNCHANGED request
  <2>1. ~Started' /\ \A q \in Requests : ~Running(q)'
    BY <1>g DEF Started, Running
  <2> SUFFICES ASSUME NEW i \in 1..Len(commands'), SliderCommand(commands'[i]) PROVE FALSE
    BY <2>1 DEF OneAtATime, SliderCommand
  <2>2. CASE commands' = commands
    BY <1>g, <2>2 DEF OneAtATime
  <2>3. CASE RequestState
    <3>1. gets \in Seq(Bulbs) /\ gets # <<>> /\ ToBridge(Get(Head(gets)))
      BY <1>0, <2>3 DEF RequestState, CacheTypes
    <3>2. Head(gets) \in Bulbs /\ commands \in Seq(Command)
      BY <1>0, <3>1, TailElements DEF OtherTypes
    <3>3. Get(Head(gets)) \in Command /\ ~SliderCommand(Get(Head(gets)))
      BY <3>2, GetIsCommand DEF SliderCommand
    <3>4. commands' = commands \/ commands' = Append(commands, Get(Head(gets)))
      BY <3>1 DEF ToBridge
    <3>5. commands'[i] = Get(Head(gets)) \/ (i \in 1..Len(commands) /\ commands'[i] = commands[i])
      BY <3>2, <3>3, <3>4, AppendElements
    <3>. QED BY <1>g, <3>3, <3>5 DEF OneAtATime
  <2>4. CASE HandleCommand
    <3>1. commands # <<>> /\ commands \in Seq(Command) /\ commands' = Tail(commands)
      BY <1>0, <2>4 DEF HandleCommand, OtherTypes
    <3>2. i + 1 \in 1..Len(commands) /\ commands'[i] = commands[i + 1]
      BY <3>1, TailElements
    <3>. QED BY <1>g, <3>2 DEF OneAtATime
  <2>6. ASSUME NEW q \in Requests PROVE ~HandleNext(q)
    BY <1>g DEF HandleNext, Started, Running
  <2>7. commands' = commands \/ RequestState \/ HandleCommand
    BY <2>6, UndisturbedActions
       DEF ServerConnect, ReceiveReport, Begin, Respond, BridgeConnect, ReadAll, AnnounceOne,
           LoseAnnouncement, Fire, LoseReport, vars
  <2>. QED BY <2>2, <2>3, <2>4, <2>7
<1>1. ASSUME NEW q \in Requests, NEW kind \in {"power", "brightness"}, NEW on \in BOOLEAN,
             NEW level \in Levels \cup {None}, Begin(q, kind, on, level)
      PROVE  OneAtATime'
  <2>1. AtRest
    BY <1>1, UndisturbedSteps
  <2>2. /\ Steady /\ commands = <<>> /\ timers = <<>> /\ reports = <<>>
        /\ \A p \in Requests : ~Running(p)
    <3>1. due = 0
      BY <1>0, <2>1 DEF AtRest, InFlight, BridgeTypes
    <3>. QED BY <2>1, <3>1 DEF AtRest, InFlight, Steady
  <2>3. /\ UNCHANGED <<online, gets, cache, bridgeVars, commands, reports>>
    BY <1>1 DEF Begin
  <2>4. /\ request'[q].step = "running" /\ request'[q].left = Entities
        /\ \A p \in Requests \ {q} : request'[p] = request[p]
    BY <1>0, <1>1, BeginRequest
  <2>5. Started' /\ \A p \in Requests : Running(p)' => p = q
    BY <2>2, <2>4 DEF Started, Running
  <2>6. Steady'
    BY <2>2, <2>3 DEF Steady, bridgeVars
  <2>7. ASSUME NEW e \in Bulbs PROVE Untouched(e)'
    <3>1. cache[e] = Truth(e)
      <4>1. e \in Bulbs \ unasked /\ ~overtaken
        BY DEF Undisturbed
      <4>. QED BY <2>1, <4>1 DEF EveryBulbKnown, Truth
    <3>. QED BY <2>2, <2>3, <3>1 DEF Untouched, Mentions, Truth, bridgeVars
  <2>8. \A i \in 1..Len(Entities) : Entities[i] \in Bulbs
    BY EntitiesAssumption DEF Bulbs
  <2>9. \A i, j \in 1..Len(Entities) : Entities[i] = Entities[j] => i = j
    BY EntitiesAssumption DEF IsInjective
  <2>. QED BY <2>4, <2>5, <2>6, <2>7, <2>8, <2>9 DEF OneAtATime
<1>2. ASSUME NEW q \in Requests, HandleNext(q) PROVE OneAtATime'
  <2> DEFINE left == request[q].left
             e == Head(left)
  <2>1. /\ Running(q) /\ left # <<>> /\ left \in Seq(Bulbs)
        /\ request'[q].step = request[q].step /\ request'[q].left = Tail(left)
        /\ \A p \in Requests \ {q} : request'[p] = request[p]
    BY <1>0, <1>2, HandleNextRequest
  <2>2. /\ Started /\ Steady /\ \A p \in Requests : Running(p) => p = q
        /\ \A i, j \in 1..Len(left) : left[i] = left[j] => i = j
        /\ \A i \in 1..Len(left) : Untouched(left[i])
    BY <2>1 DEF OneAtATime, Started, Running
  <2>3. Started' /\ \A p \in Requests : Running(p)' => p = q
    BY <2>1, <2>2 DEF Started, Running
  <2>4. Steady' /\ UNCHANGED <<cache, bulb, timers, reports>>
    BY <1>2, <2>2 DEF HandleNext, NextBulb, Steady, bridgeVars
  <2>5. /\ Len(left) \in Nat /\ 1 <= Len(left) /\ e = left[1] /\ Len(Tail(left)) = Len(left) - 1
        /\ \A i \in 1..(Len(left) - 1) : Tail(left)[i] = left[i + 1]
    BY <2>1, TailElements
  <2> HIDE DEF left
  <2>6. ASSUME NEW i \in 1..(Len(left) - 1), NEW b, b = left[i + 1] PROVE Untouched(b)'
    <3>1. i + 1 \in 1..Len(left) /\ 1 \in 1..Len(left) /\ i + 1 # 1
      BY <2>5
    <3>2. Untouched(b) /\ b # e
      BY <2>2, <2>5, <2>6, <3>1
    <3>3. Mentions(commands', b) => Mentions(commands, b)
      <4>1. ASSUME NEW c \in Command, c.entity = e, commands' = Append(commands, c)
            PROVE  Mentions(commands', b) => Mentions(commands, b)
        BY <1>0, <3>2, <4>1, SendLast DEF OtherTypes
      <4>2. commands' = commands \/ \E c \in Command : c.entity = e /\ commands' = Append(commands, c)
        BY <1>0, <1>2, <2>2, HandleNextSends DEF left, ToBridge, Steady
      <4>. QED BY <4>1, <4>2
    <3>4. /\ Truth(b)' = Truth(b) /\ cache'[b] = cache[b]
          /\ Mentions(commands, b)' => Mentions(commands, b)
          /\ Mentions(timers, b)' => Mentions(timers, b)
          /\ Mentions(reports, b)' => Mentions(reports, b)
      BY <2>4, <3>3 DEF Truth, Mentions
    <3>. QED BY <3>2, <3>4, UntouchedFrame
  <2>7. \A i, j \in 1..(Len(left) - 1) : Tail(left)[i] = Tail(left)[j] => i = j
    <3> SUFFICES ASSUME NEW i \in 1..(Len(left) - 1), NEW j \in 1..(Len(left) - 1),
                        Tail(left)[i] = Tail(left)[j]
                 PROVE  i = j
      OBVIOUS
    <3>1. i + 1 \in 1..Len(left) /\ j + 1 \in 1..Len(left) /\ left[i + 1] = left[j + 1]
      BY <2>5
    <3>2. i + 1 = j + 1
      BY <2>2, <3>1
    <3>. QED BY <3>2
  <2>8. request'[q].left = Tail(left)
    BY <2>1 DEF left
  <2>9. \A i \in 1..Len(request'[q].left) :
            request'[q].left[i] = left[i + 1] /\ i \in 1..(Len(left) - 1)
    BY <2>5, <2>8
  <2>10. \A i, j \in 1..Len(request'[q].left) : request'[q].left[i] = request'[q].left[j] => i = j
    BY <2>5, <2>7, <2>8
  <2>11. ASSUME NEW i \in 1..Len(request'[q].left), NEW b, b = request'[q].left[i]
         PROVE  Untouched(b)'
    BY <2>6, <2>9, <2>11
  <2>. QED BY <2>3, <2>4, <2>10, <2>11 DEF OneAtATime
<1>3. ASSUME NEW q \in Requests, Respond(q) PROVE OneAtATime'
  <2>1. /\ Running(q) /\ request'[q].step \in {"ok", "error"}
        /\ \A p \in Requests \ {q} : request'[p] = request[p]
    BY <1>0, <1>3, RespondRequest
  <2>2. Started /\ Steady /\ Started' /\ \A p \in Requests : ~Running(p)'
    BY <2>1 DEF OneAtATime, Started, Running
  <2>3. Steady'
    BY <1>3, <2>2 DEF Respond, Steady, bridgeVars
  <2>. QED BY <2>2, <2>3 DEF OneAtATime
<1>4. CASE Started /\ ReceiveReport
  <2>1. /\ reports # <<>> /\ reports \in Seq(Report) /\ reports' = Tail(reports)
        /\ cache' = [cache EXCEPT ![Head(reports).entity] = Head(reports)]
        /\ UNCHANGED <<online, gets, request, bridge, bulb, due, announce, timers, commands>>
    BY <1>0, <1>4 DEF ReceiveReport, OtherTypes, bridgeVars
  <2>2. Steady'
    BY <1>4, <2>1 DEF OneAtATime, Steady
  <2>3. ASSUME NEW e, Untouched(e) PROVE Untouched(e)'
    <3>1. Head(reports).entity # e /\ (Mentions(Tail(reports), e) => Mentions(reports, e))
      BY <2>1, <2>3, ReceiveLast DEF Untouched
    <3>2. cache'[e] = cache[e]
      BY <2>1, <3>1
    <3>. QED BY <2>1, <2>3, <3>1, <3>2, UntouchedFrame DEF Truth, Mentions
  <2>. QED BY <1>4, <1>f, <2>1, <2>2, <2>3 DEF OneAtATime
<1>5. CASE Started /\ HandleCommand
  <2> DEFINE c == Head(commands)
             after == Apply(c.entity, bulb[c.entity], c)
             r == Payload(c.entity, after)
  <2>1. /\ c.entity \in Bulbs /\ r \in Report
        /\ bulb' = [bulb EXCEPT ![c.entity] = after]
        /\ timers' = Append(timers, r)
        /\ commands # <<>> /\ commands' = Tail(commands)
        /\ UNCHANGED <<serverVars, bridge, due, announce, reports, countVars>>
    BY <1>0, <1>5, HandleCommandEffect
  <2>2. r.entity = c.entity
    BY DEF Payload
  <2>3. UNCHANGED <<online, gets, cache, request>>
    BY <2>1 DEF serverVars
  <2>4. Steady'
    BY <1>5, <2>1, <2>3 DEF OneAtATime, Steady
  <2>5. timers \in Seq(Report) /\ commands \in Seq(Command)
    BY <1>0 DEF BridgeTypes, OtherTypes
  <2> HIDE DEF after, c
  <2>6. ASSUME NEW e, Untouched(e) PROVE Untouched(e)'
    <3>1. c.entity # e /\ (Mentions(Tail(commands), e) => Mentions(commands, e))
      BY <2>1, <2>5, <2>6, ReceiveLast DEF Untouched, c
    <3>2. Mentions(timers', e) <=> r.entity = e \/ Mentions(timers, e)
      BY <2>1, <2>5, SendLast
    <3>3. bulb'[e] = bulb[e]
      BY <2>1, <3>1
    <3>4. UNCHANGED <<cache[e], Truth(e)>>
      BY <2>3, <3>3 DEF Truth
    <3>5. /\ Mentions(commands, e)' => Mentions(commands, e)
          /\ Mentions(timers, e)' => Mentions(timers, e)
          /\ Mentions(reports, e)' => Mentions(reports, e)
      BY <2>1, <2>2, <3>1, <3>2 DEF Mentions
    <3>. QED BY <2>6, <3>4, <3>5, UntouchedFrame
  <2>. QED BY <1>5, <1>f, <2>3, <2>4, <2>6 DEF OneAtATime
<1>6. ASSUME Started, NEW i \in DOMAIN timers, Fire(i) PROVE OneAtATime'
  <2>1. i = 1
    BY <1>6, UndisturbedSteps
  <2>2. /\ timers \in Seq(Report) /\ timers # <<>> /\ Head(timers) = timers[1]
        /\ timers[1] \in Report /\ reports \in Seq(Report)
    BY <1>0, <2>1 DEF BridgeTypes, OtherTypes
  <2>3. timers' = Tail(timers) /\ ToServer(Head(timers))
    BY <1>6, <2>1, <2>2, RemoveAtElements DEF Fire, Due
  <2>4. UNCHANGED <<online, gets, cache, request, bridge, bulb, due, announce, commands>>
    BY <1>6 DEF Fire, serverVars
  <2>5. Steady'
    BY <1>6, <2>4 DEF OneAtATime, Steady
  <2>6. ASSUME NEW e, Untouched(e) PROVE Untouched(e)'
    <3>1. Head(timers).entity # e /\ (Mentions(Tail(timers), e) => Mentions(timers, e))
      BY <2>2, <2>6, ReceiveLast DEF Untouched
    <3>2. Mentions(reports', e) => Mentions(reports, e)
      <4>1. CASE online
        <5>1. reports' = Append(reports, Head(timers))
          BY <2>3, <4>1 DEF ToServer
        <5>. QED BY <2>2, <3>1, <5>1, SendLast
      <4>2. CASE ~online
        BY <2>3, <4>2 DEF ToServer
      <4>. QED BY <4>1, <4>2
    <3>3. /\ Mentions(commands, e)' => Mentions(commands, e)
          /\ Mentions(timers, e)' => Mentions(timers, e)
          /\ Mentions(reports, e)' => Mentions(reports, e)
      BY <2>3, <2>4, <3>1, <3>2 DEF Mentions
    <3>. QED BY <2>4, <2>6, <3>3, UntouchedFrame DEF Truth
  <2>. QED BY <1>6, <1>f, <2>4, <2>5, <2>6 DEF OneAtATime
<1>7. CASE Started /\ UNCHANGED vars
  BY <1>7, <1>f DEF OneAtATime, vars, serverVars, bridgeVars, Steady, Untouched, Truth, Mentions
<1>8. ASSUME Started
      PROVE  /\ ~ServerConnect /\ ~RequestState /\ ~BridgeConnect /\ ~ReadAll /\ ~AnnounceOne
             /\ ~LoseAnnouncement /\ \A i \in DOMAIN timers : ~LoseReport(i)
  <2>1. Steady
    BY <1>8 DEF OneAtATime
  <2>. QED
    BY <2>1 DEF Steady, ServerConnect, RequestState, BridgeConnect, ReadAll, AnnounceOne,
       LoseAnnouncement, LoseReport
<1>9. ASSUME ~Started,
             \/ ServerConnect \/ RequestState \/ ReceiveReport \/ BridgeConnect \/ ReadAll
             \/ AnnounceOne \/ LoseAnnouncement \/ HandleCommand \/ UNCHANGED vars
             \/ \E i \in DOMAIN timers : Fire(i) \/ LoseReport(i)
      PROVE  UNCHANGED request
  BY <1>9 DEF ServerConnect, RequestState, ReceiveReport, BridgeConnect, ReadAll, AnnounceOne,
     LoseAnnouncement, HandleCommand, Fire, LoseReport, vars, serverVars
<1>. QED
  BY <1>g, <1>1, <1>2, <1>3, <1>4, <1>5, <1>6, <1>7, <1>8, <1>9, UndisturbedActions

LEMMA OneAtATimeInvariant == Spec => [](Undisturbed => OneAtATime)
<1>1. ASSUME Init PROVE OneAtATime
  <2>1. \A q \in Requests : request[q].step = "unused"
    BY <1>1 DEF Init, NoRequest
  <2>2. Len(commands) = 0
    BY <1>1 DEF Init
  <2>. QED BY <2>1, <2>2 DEF OneAtATime, Started, Running
<1>2. /\ Types /\ EveryBulbKnown /\ AskedUnlessFailed
      /\ (Undisturbed => OneAtATime) /\ [Next]_vars
      => (Undisturbed => OneAtATime)'
  <2> SUFFICES ASSUME Types, EveryBulbKnown, AskedUnlessFailed,
                      Undisturbed => OneAtATime, [Next]_vars, Undisturbed'
               PROVE  OneAtATime'
    OBVIOUS
  <2>1. Undisturbed
    BY UndisturbedSteps
  <2>2. unasked = {}
    BY <2>1 DEF Undisturbed, AskedUnlessFailed
  <2>. QED BY <2>1, <2>2, OneAtATimeNext
<1>. QED BY <1>1, <1>2, TypesInvariant, BulbsAreKnown, AllAsked, PTL DEF Spec

-----------------------------------------------------------------------------
(* Brightness commands.                                                     *)

\* The two ways in which the queue to the bridge changes while undisturbed: a
\* command is sent, or taken and applied.
LEMMA CommandsChange ==
  ASSUME Types, [Next]_vars, Undisturbed'
  PROVE  \/ UNCHANGED <<commands, bulb>>
         \/ RequestState /\ UNCHANGED <<bulb, request>>
         \/ (\E q \in Requests : HandleNext(q)) /\ UNCHANGED bulb
         \/ HandleCommand /\ UNCHANGED request
<1>1. CASE RequestState \/ HandleCommand
  BY <1>1 DEF RequestState, HandleCommand, serverVars, bridgeVars
<1>2. ASSUME NEW q \in Requests, HandleNext(q) PROVE UNCHANGED bulb
  BY <1>2 DEF HandleNext, NextBulb, bridgeVars
<1>3. CASE \/ ServerConnect \/ ReceiveReport \/ BridgeConnect \/ ReadAll \/ AnnounceOne
           \/ LoseAnnouncement \/ UNCHANGED vars \/ \E q \in Requests : Respond(q)
           \/ \E q \in Requests, kind \in {"power", "brightness"}, on \in BOOLEAN,
                 level \in Levels \cup {None} : Begin(q, kind, on, level)
           \/ \E i \in DOMAIN timers : Fire(i) \/ LoseReport(i)
  BY <1>3 DEF ServerConnect, ReceiveReport, Begin, Respond, BridgeConnect, ReadAll, AnnounceOne,
     LoseAnnouncement, Fire, LoseReport, vars, bridgeVars
<1>. QED BY <1>1, <1>2, <1>3, UndisturbedActions

\* A bulb that is to get a brightness command is on, since the cache is true
\* of it.
LEMMA SliderCommandLit ==
  ASSUME Types, NEW q \in Requests, Running(q), NEW e \in Bulbs, Untouched(e),
         NEW c \in CommandFor(q, e), SliderCommand(c)
  PROVE  bulb[e].on
<1>1. request[q].kind \in {"power", "brightness"} /\ request[q].on \in BOOLEAN
  BY DEF Types, RequestTypes, Handler, Running
<1>2. cache[e].on = bulb[e].on
  BY DEF Untouched, Truth, Payload
<1>3. CASE request[q].kind = "power" /\ request[q].on
  <2>1. PICK level : c = Set(e, "ON", level)
    BY <1>3 DEF CommandFor
  <2>. QED BY <2>1 DEF SliderCommand, Set
<1>4. CASE request[q].kind = "power" /\ ~request[q].on
  <2>1. c = Set(e, "OFF", None)
    BY <1>4 DEF CommandFor
  <2>. QED BY <2>1 DEF SliderCommand, Set
<1>5. CASE request[q].kind = "brightness"
  BY <1>2, <1>5 DEF CommandFor
<1>. QED BY <1>1, <1>3, <1>4, <1>5

LEMMA OnlyLitNext ==
  ASSUME Types, OneAtATime, OnlyLit, [Next]_vars, Undisturbed'
  PROVE  OnlyLit'
<1>0. /\ CacheTypes /\ RequestTypes /\ BridgeTypes /\ OtherTypes
      /\ commands \in Seq(Command) /\ Len(commands) \in Nat
  BY DEF Types, OtherTypes
<1>1. CASE UNCHANGED <<commands, bulb>>
  BY <1>1 DEF OnlyLit, SliderCommand
<1>2. CASE RequestState /\ UNCHANGED bulb
  <2>1. ~Started
    BY <1>2 DEF OneAtATime, Steady, RequestState
  <2>2. gets \in Seq(Bulbs) /\ gets # <<>> /\ ToBridge(Get(Head(gets)))
    BY <1>0, <1>2 DEF RequestState, CacheTypes
  <2>3. Head(gets) \in Bulbs
    BY <2>2, TailElements
  <2>4. Get(Head(gets)) \in Command /\ ~SliderCommand(Get(Head(gets)))
    BY <2>3, GetIsCommand DEF SliderCommand
  <2>5. commands' = commands \/ commands' = Append(commands, Get(Head(gets)))
    BY <2>2 DEF ToBridge
  <2>6. ASSUME NEW i \in 1..Len(commands')
        PROVE  \/ commands'[i] = Get(Head(gets))
               \/ i \in 1..Len(commands) /\ commands'[i] = commands[i]
    BY <1>0, <2>4, <2>5, <2>6, AppendElements
  <2>7. \A i \in 1..Len(commands') : ~SliderCommand(commands'[i])
    BY <2>1, <2>4, <2>6 DEF OneAtATime
  <2>. QED BY <2>7 DEF OnlyLit, SliderCommand
<1>3. ASSUME NEW q \in Requests, HandleNext(q), UNCHANGED bulb PROVE OnlyLit'
  <2> DEFINE left == request[q].left
             e == Head(left)
  <2>1. Running(q) /\ left # <<>> /\ left \in Seq(Bulbs)
    BY <1>0, <1>3, HandleNextRequest
  <2>2. e \in Bulbs /\ e = left[1] /\ 1 \in 1..Len(left)
    BY <2>1, TailElements
  <2>3. Started /\ Steady /\ Untouched(e)
    BY <2>1, <2>2 DEF OneAtATime, Started, Running
  <2> HIDE DEF left
  <2>4. ASSUME NEW c \in CommandFor(q, e), c \in Command, c.entity = e,
               commands' = Append(commands, c)
        PROVE  OnlyLit'
    <3> DEFINE n == Len(commands) + 1
    <3>1. /\ Len(commands') = n /\ commands'[n] = c /\ n \in Nat
          /\ \A i \in 1..Len(commands) : commands'[i] = commands[i] /\ i # n
          /\ \A i \in 1..n : i \in 1..Len(commands) \/ i = n
      BY <1>0, <2>4, AppendElements
    <3>2. \A i \in 1..Len(commands) : commands[i].entity # e
      BY <2>3 DEF Untouched, Mentions
    <3>3. SliderCommand(c) => bulb[e].on
      BY <2>1, <2>2, <2>3, <2>4, SliderCommandLit
    <3> HIDE DEF n
    <3> SUFFICES ASSUME NEW i \in 1..n, SliderCommand(commands'[i])
                 PROVE  /\ bulb[commands'[i].entity].on
                        /\ \A j \in 1..n : j # i => commands'[j].entity # commands'[i].entity
      BY <1>3, <3>1 DEF OnlyLit, SliderCommand
    <3>4. CASE i = n
      BY <2>4, <3>1, <3>2, <3>3, <3>4
    <3>5. CASE i \in 1..Len(commands)
      <4>1. /\ bulb[commands[i].entity].on
            /\ \A j \in 1..Len(commands) : j # i => commands[j].entity # commands[i].entity
        BY <3>1, <3>5 DEF OnlyLit
      <4>2. commands'[n].entity # commands'[i].entity
        BY <2>4, <3>1, <3>2, <3>5
      <4>. QED BY <3>1, <3>5, <4>1, <4>2
    <3>. QED BY <3>1, <3>4, <3>5
  <2>. QED BY <1>0, <1>1, <1>3, <2>3, <2>4, HandleNextSends DEF left, ToPublish, ToBridge, Steady
<1>4. CASE HandleCommand
  <2> DEFINE c == Head(commands)
             after == Apply(c.entity, bulb[c.entity], c)
  <2>1. /\ bulb' = [bulb EXCEPT ![c.entity] = after]
        /\ commands # <<>> /\ commands' = Tail(commands)
    BY <1>0, <1>4, HandleCommandEffect
  <2> HIDE DEF after
  <2>2. /\ c = commands[1] /\ 1 \in 1..Len(commands) /\ Len(commands') = Len(commands) - 1
        /\ \A i \in 1..(Len(commands) - 1) : commands'[i] = commands[i + 1]
        /\ \A i \in 1..(Len(commands) - 1) : i + 1 \in 1..Len(commands) /\ i + 1 # 1
    BY <1>0, <2>1, TailElements
  <2> HIDE DEF c
  <2> SUFFICES ASSUME NEW i \in 1..(Len(commands) - 1), SliderCommand(commands'[i])
               PROVE  /\ bulb'[commands'[i].entity].on
                      /\ \A j \in 1..(Len(commands) - 1) :
                            j # i => commands'[j].entity # commands'[i].entity
    BY <2>2 DEF OnlyLit, SliderCommand
  <2>3. /\ bulb[commands[i + 1].entity].on
        /\ \A j \in 1..Len(commands) : j # i + 1 => commands[j].entity # commands[i + 1].entity
    BY <2>2 DEF OnlyLit
  <2>4. commands[i + 1].entity # c.entity
    BY <2>2, <2>3
  <2>5. bulb'[commands'[i].entity].on
    BY <2>1, <2>2, <2>3, <2>4
  <2>6. ASSUME NEW j \in 1..(Len(commands) - 1), j # i
        PROVE  commands'[j].entity # commands'[i].entity
    BY <2>2, <2>3, <2>6
  <2>. QED BY <2>5, <2>6
<1>. QED BY <1>1, <1>2, <1>3, <1>4, CommandsChange

LEMMA OnlyLitInvariant == Spec => [](Undisturbed => OnlyLit)
<1>1. ASSUME Init PROVE OnlyLit
  <2>1. Len(commands) = 0
    BY <1>1 DEF Init
  <2>. QED BY <2>1 DEF OnlyLit
<1>2. Types /\ (Undisturbed => OneAtATime) /\ (Undisturbed => OnlyLit) /\ [Next]_vars
      => (Undisturbed => OnlyLit)'
  BY UndisturbedSteps, OnlyLitNext
<1>. QED BY <1>1, <1>2, TypesInvariant, OneAtATimeInvariant, PTL DEF Spec

\* Dragging the slider turns no bulb on, if requests wait for the reports of
\* earlier ones (handlers.go:676).
THEOREM SliderIsSafe == Spec => SliderTurnsNothingOn
<1>1. ASSUME Types, Undisturbed => OnlyLit, [Next]_vars
      PROVE  [Undisturbed => \A e \in Bulbs : TurnsOn(e) => Head(commands).state = "ON"]_vars
  <2> SUFFICES ASSUME Undisturbed, NEW e \in Bulbs, TurnsOn(e), Next
               PROVE  Head(commands).state = "ON"
    BY <1>1
  <2>0. BridgeTypes /\ OtherTypes /\ OnlyLit
    BY <1>1 DEF Types
  <2>1. bulb'[e].on /\ ~bulb[e].on
    BY DEF TurnsOn
  <2>2. ~BridgeGone
    BY <2>1 DEF BridgeGone, NewBulb
  <2>3. HandleCommand
    <3>1. bulb' # bulb
      BY <2>1
    <3>2. ASSUME NEW q \in Requests PROVE ~HandleNext(q) /\ ~HandleFails(q) /\ ~Respond(q)
      BY <3>1 DEF HandleNext, HandleFails, NextBulb, Respond, bridgeVars
    <3>3. ASSUME NEW q \in Requests, NEW kind, NEW on, NEW level
          PROVE  ~Begin(q, kind, on, level)
      BY <3>1 DEF Begin, bridgeVars
    <3>4. ~ServerConnect /\ ~RequestState /\ ~RequestStateFails /\ ~ReceiveReport /\ ~ServerGone
      BY <3>1 DEF ServerConnect, RequestState, RequestStateFails, ReceiveReport, ServerGone,
         bridgeVars
    <3>5. /\ ~BridgeConnect /\ ~ReadAll /\ ~AnnounceOne /\ ~LoseAnnouncement /\ ~BridgeLosesBroker
          /\ \A i \in DOMAIN timers : ~Fire(i) /\ ~LoseReport(i)
      BY <3>1 DEF BridgeConnect, ReadAll, AnnounceOne, LoseAnnouncement, BridgeLosesBroker, Fire,
         LoseReport
    <3>. QED BY <2>2, <3>2, <3>3, <3>4, <3>5, RequestSteps DEF Next, Server, Bridge
  <2> DEFINE c == Head(commands)
             after == Apply(c.entity, bulb[c.entity], c)
  <2>4. /\ c \in Command /\ after \in BulbState
        /\ bulb' = [bulb EXCEPT ![c.entity] = after] /\ commands # <<>>
    BY <2>0, <2>3, HandleCommandEffect
  <2>5. c.entity = e /\ after.on
    BY <2>0, <2>1, <2>4 DEF BridgeTypes
  <2>6. c = commands[1] /\ 1 \in 1..Len(commands)
    BY <2>0, <2>4, TailElements DEF OtherTypes
  <2>7. ~SliderCommand(c)
    BY <2>0, <2>1, <2>5, <2>6 DEF OnlyLit
  <2>8. c.level = None \/ c.state = "ON"
    BY <2>4, <2>7 DEF Command, SliderCommand
  <2>9. CASE c.level = None /\ c.state # "ON"
    <3>1. bulb[e] \in BulbState
      BY <2>0 DEF BridgeTypes
    <3>2. after = [bulb[e] EXCEPT !.on = IF c.state = "" THEN @ ELSE c.state = "ON"]
      BY <2>5, <2>9 DEF Apply
    <3>3. after.on = IF c.state = "" THEN bulb[e].on ELSE FALSE
      BY <2>9, <3>1, <3>2 DEF BulbState
    <3>. QED BY <2>1, <2>5, <3>3
  <2>. QED BY <2>8, <2>9
<1>. QED BY <1>1, TypesInvariant, OnlyLitInvariant, PTL DEF Spec, SliderTurnsNothingOn

-----------------------------------------------------------------------------
(* Turning a light on.                                                      *)

\* q, and q alone, has turned the light on, at a level that is not 0.
TurnsLightOn(q) ==
    /\ request[q].step \in {"running", "ok"}
    /\ request[q].kind = "power" /\ request[q].on /\ request[q].level # 0
    /\ \A p \in Requests \ {q} : request[p].step = "unused"

\* e is as q wants it.
Lit(q, e) ==
    /\ bulb[e].on
    /\ request[q].level # None /\ e \in Dimmable => bulb[e].level = request[q].level

\* The command that makes it so.
Lights(level, c) == c.state = "ON" /\ (c.entity \in Dimmable => c.level = level)

\* Only such commands are on their way, and each bulb is lit, has one on its
\* way or is still to be sent one.
TurningOn ==
    \A q \in Requests : TurnsLightOn(q) =>
        /\ \A i \in 1..Len(commands) : Lights(request[q].level, commands[i])
        /\ \A e \in Bulbs : \/ Lit(q, e) \/ Mentions(commands, e)
                            \/ \E i \in 1..Len(request[q].left) : request[q].left[i] = e
        /\ request[q].step = "ok" => request[q].left = <<>>

\* The command for the next bulb lights it, as the cache knows what it can do.
LEMMA NextLights ==
  ASSUME Types, NEW q \in Requests, TurnsLightOn(q), NEW e \in Bulbs, Untouched(e)
  PROVE  CommandFor(q, e) # {} /\ \A c \in CommandFor(q, e) : Lights(request[q].level, c)
<1>1. bulb[e].level \in 1..Full
  BY DEF Types, BridgeTypes, BulbState
<1>2. ReportsLevel(e) <=> e \in Dimmable
  BY <1>1 DEF ReportsLevel, Untouched, Truth, Payload, None, Full
<1>3. CommandFor(q, e) = {Set(e, "ON", IF ReportsLevel(e) THEN request[q].level ELSE None)}
  BY DEF CommandFor, TurnsLightOn
<1>. QED BY <1>2, <1>3 DEF Lights, Set

LEMMA TurningOnNext ==
  ASSUME Types, OneAtATime, TurningOn, [Next]_vars, Undisturbed'
  PROVE  TurningOn'
<1>0. /\ CacheTypes /\ RequestTypes /\ BridgeTypes /\ OtherTypes
      /\ commands \in Seq(Command) /\ Len(commands) \in Nat
  BY DEF Types, OtherTypes
<1> SUFFICES ASSUME NEW q \in Requests, TurnsLightOn(q)'
             PROVE  /\ \A i \in 1..Len(commands') : Lights(request'[q].level, commands'[i])
                    /\ \A e \in Bulbs :
                          \/ Lit(q, e)' \/ Mentions(commands, e)'
                          \/ \E i \in 1..Len(request'[q].left) : request'[q].left[i] = e
                    /\ request'[q].step = "ok" => request'[q].left = <<>>
  BY DEF TurningOn, Lights
<1> DEFINE Goal == /\ \A i \in 1..Len(commands') : Lights(request'[q].level, commands'[i])
                   /\ \A e \in Bulbs :
                         \/ Lit(q, e)' \/ Mentions(commands, e)'
                         \/ \E i \in 1..Len(request'[q].left) : request'[q].left[i] = e
                   /\ request'[q].step = "ok" => request'[q].left = <<>>
<1>1. CASE UNCHANGED <<commands, bulb, request>>
  BY <1>1 DEF TurningOn, TurnsLightOn, Lights, Lit, Mentions
<1>2. ASSUME NEW p \in Requests, NEW kind \in {"power", "brightness"}, NEW on \in BOOLEAN,
             NEW level \in Levels \cup {None}, Begin(p, kind, on, level)
      PROVE  Goal
  <2>1. /\ request'[p].step = "running" /\ request'[p].left = Entities
        /\ commands' = commands
    BY <1>0, <1>2, BeginRequest DEF Begin
  <2>2. p = q
    BY <2>1 DEF TurnsLightOn
  <2>3. AtRest
    BY <1>2, UndisturbedSteps
  <2>4. Len(commands') = 0
    BY <2>1, <2>3 DEF AtRest, InFlight
  <2>5. \A e \in Bulbs : \E i \in 1..Len(Entities) : Entities[i] = e
    BY EntitiesAssumption DEF Bulbs, Range
  <2>. QED BY <2>1, <2>2, <2>4, <2>5
<1>3. ASSUME NEW p \in Requests, Respond(p) PROVE Goal
  <2>1. /\ Running(p) /\ request[p].left = <<>> /\ request'[p].step \in {"ok", "error"}
        /\ request'[p].kind = request[p].kind /\ request'[p].left = request[p].left
        /\ request'[p].on = request[p].on /\ request'[p].level = request[p].level
        /\ \A o \in Requests \ {p} : request'[o] = request[o]
        /\ UNCHANGED <<commands, bulb>>
    BY <1>0, <1>3, RespondRequest DEF Respond, bridgeVars
  <2>2. p = q
    BY <2>1 DEF TurnsLightOn
  <2>3. TurnsLightOn(q)
    BY <2>1, <2>2 DEF TurnsLightOn, Running
  <2>. QED BY <2>1, <2>2, <2>3 DEF TurningOn, Lights, Lit, Mentions
<1>4. ASSUME NEW p \in Requests, HandleNext(p), UNCHANGED bulb PROVE Goal
  <2>1. /\ Running(p) /\ request[p].left # <<>> /\ request[p].left \in Seq(Bulbs)
        /\ request'[p].step = request[p].step /\ request'[p].kind = request[p].kind
        /\ request'[p].on = request[p].on /\ request'[p].level = request[p].level
        /\ request'[p].left = Tail(request[p].left)
        /\ \A o \in Requests \ {p} : request'[o] = request[o]
    BY <1>0, <1>4, HandleNextRequest
  <2>2. p = q
    BY <2>1 DEF TurnsLightOn, Running
  <2>3. TurnsLightOn(q)
    BY <2>1, <2>2 DEF TurnsLightOn
  <2> DEFINE left == request[q].left
             f == Head(left)
  <2>4. /\ f \in Bulbs /\ f = left[1] /\ 1 \in 1..Len(left) /\ Len(left) \in Nat
        /\ Len(Tail(left)) = Len(left) - 1
        /\ \A i \in 1..(Len(left) - 1) : Tail(left)[i] = left[i + 1]
    BY <2>1, <2>2, TailElements
  <2>5. Steady /\ Untouched(f)
    BY <2>1, <2>2, <2>4 DEF OneAtATime, Started, Running
  <2>6. /\ CommandFor(q, f) # {}
        /\ \A c \in CommandFor(q, f) : c \in Command /\ c.entity = f /\ Lights(request[q].level, c)
    <3>1. \A c \in CommandFor(q, f) : c \in Command /\ c.entity = f
      BY <1>0, <2>1, <2>2, <2>4, CommandForIsCommand
    <3>2. CommandFor(q, f) # {} /\ \A c \in CommandFor(q, f) : Lights(request[q].level, c)
      BY <2>3, <2>4, <2>5, NextLights
    <3>. QED BY <3>1, <3>2
  <2>7. PICK c \in CommandFor(q, f) : commands' = Append(commands, c)
    BY <1>4, <2>2, <2>5, <2>6 DEF HandleNext, ToPublish, ToBridge, Steady
  <2>8. request'[q].level = request[q].level /\ request'[q].left = Tail(left)
    BY <2>1, <2>2
  <2> HIDE DEF left
  <2>9. /\ \A i \in 1..Len(commands) : Lights(request[q].level, commands[i])
        /\ \A e \in Bulbs : \/ Lit(q, e) \/ Mentions(commands, e)
                            \/ \E i \in 1..Len(left) : left[i] = e
        /\ request[q].step = "running"
    BY <2>1, <2>2, <2>3 DEF TurningOn, Running, left
  <2>10. ASSUME NEW i \in 1..Len(commands') PROVE Lights(request'[q].level, commands'[i])
    <3>1. commands'[i] = c \/ (i \in 1..Len(commands) /\ commands'[i] = commands[i])
      BY <1>0, <2>6, <2>7, AppendElements
    <3>2. Lights(request[q].level, commands'[i])
      BY <2>6, <2>9, <3>1
    <3>. QED BY <2>8, <3>2 DEF Lights
  <2>11. ASSUME NEW e \in Bulbs
         PROVE  \/ Lit(q, e)' \/ Mentions(commands, e)'
                \/ \E i \in 1..Len(request'[q].left) : request'[q].left[i] = e
    <3>1. Mentions(commands', e) <=> c.entity = e \/ Mentions(commands, e)
      BY <1>0, <2>6, <2>7, SendLast
    <3>2. CASE Lit(q, e)
      BY <1>4, <2>8, <3>2 DEF Lit
    <3>3. CASE Mentions(commands, e)
      BY <3>1, <3>3 DEF Mentions
    <3>4. ASSUME NEW i \in 1..Len(left), left[i] = e
          PROVE  \/ Mentions(commands, e)'
                 \/ \E j \in 1..Len(request'[q].left) : request'[q].left[j] = e
      <4>1. CASE i = 1
        BY <2>4, <2>6, <3>1, <3>4, <4>1 DEF Mentions
      <4>2. CASE i # 1
        <5>1. i - 1 \in 1..(Len(left) - 1) /\ (i - 1) + 1 = i
          BY <2>4, <4>2
        <5>2. i - 1 \in 1..Len(request'[q].left) /\ request'[q].left[i - 1] = e
          BY <2>4, <2>8, <3>4, <5>1
        <5>. QED BY <5>2
      <4>. QED BY <4>1, <4>2
    <3>. QED BY <2>9, <3>2, <3>3, <3>4
  <2>12. request'[q].step = "running"
    BY <2>1, <2>2, <2>9
  <2>. QED BY <2>10, <2>11, <2>12
<1>5. CASE HandleCommand /\ UNCHANGED request
  <2>1. TurnsLightOn(q) /\ request'[q] = request[q]
    BY <1>5 DEF TurnsLightOn
  <2>2. /\ \A i \in 1..Len(commands) : Lights(request[q].level, commands[i])
        /\ \A e \in Bulbs : \/ Lit(q, e) \/ Mentions(commands, e)
                            \/ \E i \in 1..Len(request[q].left) : request[q].left[i] = e
        /\ request[q].step = "ok" => request[q].left = <<>>
    BY <2>1 DEF TurningOn
  <2> DEFINE c == Head(commands)
             after == Apply(c.entity, bulb[c.entity], c)
  <2>3. /\ c \in Command /\ c.entity \in Bulbs /\ after \in BulbState
        /\ bulb' = [bulb EXCEPT ![c.entity] = after]
        /\ commands # <<>> /\ commands' = Tail(commands)
    BY <1>0, <1>5, HandleCommandEffect
  <2>4. /\ c = commands[1] /\ 1 \in 1..Len(commands) /\ Len(commands') = Len(commands) - 1
        /\ \A i \in 1..(Len(commands) - 1) :
              commands'[i] = commands[i + 1] /\ i + 1 \in 1..Len(commands)
    BY <1>0, <2>3, TailElements
  <2>5. Lights(request[q].level, c)
    BY <2>2, <2>4
  <2>6. /\ after.on
        /\ request[q].level # None /\ c.entity \in Dimmable => after.level = request[q].level
    <3>1. bulb[c.entity] \in BulbState
      BY <1>0, <2>3 DEF BridgeTypes
    <3>2. c.state = "ON" /\ (c.entity \in Dimmable => c.level = request[q].level /\ c.level # 0)
      BY <2>1, <2>5 DEF Lights, TurnsLightOn
    <3>3. CASE c.level = None \/ c.entity \notin Dimmable
      <4>1. after = [bulb[c.entity] EXCEPT !.on = IF c.state = "" THEN @ ELSE c.state = "ON"]
        BY <3>3 DEF Apply
      <4> HIDE DEF after, c
      <4>2. after.on
        BY <3>1, <3>2, <4>1 DEF BulbState
      <4>. QED BY <3>2, <3>3, <4>2
    <3>4. CASE c.level # None /\ c.entity \in Dimmable
      <4>1. after = [on |-> TRUE, level |-> c.level]
        BY <3>2, <3>4 DEF Apply
      <4>. QED BY <3>2, <4>1
    <3>. QED BY <3>3, <3>4
  <2> HIDE DEF after, c
  <2>7. ASSUME NEW e \in Bulbs
        PROVE  \/ Lit(q, e)' \/ Mentions(commands, e)'
               \/ \E i \in 1..Len(request'[q].left) : request'[q].left[i] = e
    <3>1. Mentions(commands, e) <=> c.entity = e \/ Mentions(commands', e)
      BY <1>0, <2>3, ReceiveLast DEF c
    <3>2. CASE c.entity = e
      <4>1. bulb'[e] = after
        BY <1>0, <2>3, <3>2 DEF BridgeTypes
      <4>. QED BY <2>1, <2>6, <3>2, <4>1 DEF Lit
    <3>3. CASE c.entity # e
      <4>1. bulb'[e] = bulb[e]
        BY <1>0, <2>3, <3>3 DEF BridgeTypes
      <4>2. Lit(q, e) => Lit(q, e)'
        BY <2>1, <4>1 DEF Lit
      <4>3. Mentions(commands, e) => Mentions(commands, e)'
        BY <3>1, <3>3 DEF Mentions
      <4>. QED BY <2>1, <2>2, <4>2, <4>3
    <3>. QED BY <3>2, <3>3
  <2>8. ASSUME NEW i \in 1..Len(commands') PROVE Lights(request'[q].level, commands'[i])
    <3>1. i \in 1..(Len(commands) - 1)
      BY <2>4
    <3>2. Lights(request[q].level, commands'[i])
      BY <2>2, <2>4, <3>1
    <3>. QED BY <2>1, <3>2 DEF Lights
  <2>. QED BY <2>1, <2>2, <2>7, <2>8
<1>6. CASE RequestState /\ UNCHANGED <<bulb, request>>
  <2>1. Started
    BY <1>6 DEF Started, TurnsLightOn
  <2>. QED BY <1>6, <2>1 DEF OneAtATime, Steady, RequestState
<1>7. ASSUME UNCHANGED <<commands, bulb>>
      PROVE  \/ UNCHANGED request
             \/ \E p \in Requests : Respond(p) \/ HandleNext(p)
             \/ \E p \in Requests, kind \in {"power", "brightness"}, on \in BOOLEAN,
                   level \in Levels \cup {None} : Begin(p, kind, on, level)
  BY UndisturbedActions
     DEF ServerConnect, RequestState, ReceiveReport, BridgeConnect, ReadAll, AnnounceOne,
         LoseAnnouncement, HandleCommand, Fire, LoseReport, vars, serverVars
<1>. QED BY <1>1, <1>2, <1>3, <1>4, <1>5, <1>6, <1>7, CommandsChange

LEMMA TurningOnInvariant == Spec => [](Undisturbed => TurningOn)
<1>1. ASSUME Init PROVE TurningOn
  <2>1. \A q \in Requests : request[q].step = "unused"
    BY <1>1 DEF Init, NoRequest
  <2>. QED BY <2>1 DEF TurningOn, TurnsLightOn
<1>2. Types /\ (Undisturbed => OneAtATime) /\ (Undisturbed => TurningOn) /\ [Next]_vars
      => (Undisturbed => TurningOn)'
  BY UndisturbedSteps, TurningOnNext
<1>. QED BY <1>1, <1>2, TypesInvariant, OneAtATimeInvariant, PTL DEF Spec

\* A light that was turned on is on, and its dimmable bulbs have the level that
\* was asked for (api.go:372).
THEOREM LightComesOn == Spec => []TurnedOnIsOn
<1>1. (Undisturbed => TurningOn) => TurnedOnIsOn
  <2> SUFFICES ASSUME TurningOn, AtRest,
                      NEW q \in Requests, request[q].step = "ok", request[q].kind = "power",
                      request[q].on, request[q].level # 0,
                      \A p \in Requests \ {q} : request[p].step = "unused",
                      NEW e \in Bulbs
               PROVE  Lit(q, e)
    BY DEF TurnedOnIsOn, Lit
  <2>1. TurnsLightOn(q) /\ request[q].left = <<>>
    BY DEF TurningOn, TurnsLightOn
  <2>2. commands = <<>>
    BY DEF AtRest, InFlight
  <2>. QED BY <2>1, <2>2 DEF TurningOn, Mentions
<1>. QED BY <1>1, TurningOnInvariant, PTL

=============================================================================
