--------------------------- MODULE MQTTConnection ---------------------------
(***************************************************************************)
(* The connection management of mqtt.go: the connect handler that            *)
(* subscribes, the connection-lost handler, the watchdog, and the connected  *)
(* flag that all request handlers go by.                                     *)
(*                                                                           *)
(* The MQTT library (paho) and the broker are the environment: a link comes  *)
(* up, is lost, is retried or given up on, and the library runs each handler *)
(* on a goroutine of its own.  Links are numbered; link c has one connect    *)
(* handler, worker c, and at most one connection-lost handler, dropper c.    *)
(* The watchdog is dropper 0.                                                *)
(***************************************************************************)
EXTENDS Naturals, FiniteSets

CONSTANTS MaxConns,      \* bound: how many links come up
          Entities       \* how many light entities there are to ask for state

ASSUME MaxConnsAssumption == MaxConns \in Nat \ {0}
ASSUME EntitiesAssumption == Entities \in Nat

Conns == 1..MaxConns
Watchdog == 0
Droppers == Conns \cup {Watchdog}
Lights == 1..Entities

VARIABLES link,         \* "open", "trying" to (re)connect, or "off": given up
          conn,         \* the number of the latest link
          subscribed,   \* the broker holds our subscriptions on this link
          asked,        \* the lights whose answer will reach us on this link
          missed,       \* those whose request on this link has failed
          inFlight,     \* the handlers whose SUBSCRIBE is under way on this link
          lateLoss,     \* the loss of an earlier link took effect on this one
          connGen,      \* the connection generation
          connected,    \* the flag behind IsConnected
          shutdown,     \* "no", "stopping" once m.stop is closed, "down"
          wpc,          \* where each connect handler is
          wgen,         \* the generation it works for
          todo,         \* the next light it asks for its state
          dpc,          \* where each connection-lost handler and the watchdog is
          connects,     \* connection history, for the status page
          disconnects,
          connectedAt   \* does the status page have a time of connection?

brokerVars == <<subscribed, asked, missed, inFlight>>
sessionVars == <<brokerVars, lateLoss>>
envVars == <<link, conn, sessionVars>>
flagVars == <<connGen, connected>>
workerVars == <<wpc, wgen, todo>>
statVars == <<connects, disconnects, connectedAt>>
vars == <<envVars, flagVars, shutdown, workerVars, dpc, statVars>>

Links == {"open", "trying", "off"}
WorkerSteps == {"none", "spawned", "check", "subscribe", "await", "retry",
                "count", "report", "request", "ask", "done"}
DropperSteps == {"none", "idle", "spawned", "flag", "stats", "notify", "revive", "done"}

Stopped == shutdown # "no"

\* NewMQTTClient calls Connect, starts the watchdog and returns; how long it
\* takes until the watchdog first ticks is open.
Init ==
    /\ link = "trying" /\ conn = 0 /\ subscribed = FALSE /\ asked = {} /\ missed = {}
    /\ inFlight = {} /\ lateLoss = FALSE
    /\ connGen = 0 /\ connected = FALSE /\ shutdown = "no"
    /\ wpc = [c \in Conns |-> "none"]
    /\ wgen = [c \in Conns |-> 0]
    /\ todo = [c \in Conns |-> 1]
    /\ dpc = [d \in Droppers |-> IF d = Watchdog THEN "idle" ELSE "none"]
    /\ connects = 0 /\ disconnects = 0 /\ connectedAt = FALSE

WorkerIdle(c) == wpc[c] \in {"none", "done"}
DropperIdle(d) == dpc[d] \in {"none", "idle", "done"}
Settled == \A d \in Droppers : DropperIdle(d)

-----------------------------------------------------------------------------
(* The environment: the library and the broker.                             *)

\* With a clean session, nothing of a link outlives it.
EndSession == subscribed' = FALSE /\ asked' = {} /\ missed' = {}
              /\ inFlight' = {} /\ lateLoss' = FALSE

\* A link comes up, with a clean session, and its connect handler is spawned.
\* Nothing makes it wait for the handling of an earlier loss.
LinkUp ==
    /\ link = "trying"
    /\ conn < MaxConns
    /\ link' = "open"
    /\ conn' = conn + 1
    /\ wpc' = [wpc EXCEPT ![conn + 1] = "spawned"]
    /\ UNCHANGED <<sessionVars, flagVars, shutdown, wgen, todo, dpc, statVars>>

\* A link breaks; the library retries and spawns the connection-lost handler.
\* The last link of the bounded run holds.
LinkLost ==
    /\ link = "open"
    /\ conn < MaxConns
    /\ link' = "trying"
    /\ EndSession
    /\ dpc' = [dpc EXCEPT ![conn] = "spawned"]
    /\ UNCHANGED <<conn, flagVars, shutdown, workerVars, statVars>>

\* The library stops trying (mqtt.go:246-248).
GiveUp ==
    /\ link = "trying"
    /\ link' = "off"
    /\ UNCHANGED <<conn, sessionVars, flagVars, shutdown, workerVars, dpc, statVars>>

-----------------------------------------------------------------------------
(* The connect handler: OnConnect, subscribeAll and requestLightStates.     *)

Goto(c, step) == wpc' = [wpc EXCEPT ![c] = step]

\* Mutant: the connect handler takes the present generation, not a new one.
OnConnectSameGen(c) ==
    /\ wpc[c] = "spawned"
    /\ wgen' = [wgen EXCEPT ![c] = connGen]
    /\ Goto(c, "check")
    /\ UNCHANGED <<envVars, flagVars, shutdown, todo, dpc, statVars>>

OnConnect(c) ==
    /\ wpc[c] = "spawned"
    /\ connGen' = connGen + 1
    /\ wgen' = [wgen EXCEPT ![c] = connGen + 1]
    /\ Goto(c, "check")
    /\ UNCHANGED <<envVars, connected, shutdown, todo, dpc, statVars>>

Current(c) == connGen = wgen[c] /\ link = "open"

\* The head of the retry loop: superseded work is abandoned.
CheckCurrent(c) ==
    /\ wpc[c] = "check"
    /\ Goto(c, IF Current(c) THEN "subscribe" ELSE "done")
    /\ UNCHANGED <<envVars, flagVars, shutdown, wgen, todo, dpc, statVars>>

\* SubscribeMultiple goes out on whichever link is open by now.
Subscribe(c) ==
    /\ wpc[c] = "subscribe"
    /\ inFlight' = IF link = "open" THEN inFlight \cup {c} ELSE inFlight
    /\ Goto(c, "await")
    /\ UNCHANGED <<link, conn, subscribed, asked, missed, lateLoss, flagVars, shutdown, wgen, todo,
                   dpc, statVars>>

\* The broker confirms the subscriptions.
SubAck(c) ==
    /\ wpc[c] = "await"
    /\ c \in inFlight
    /\ subscribed' = TRUE
    /\ inFlight' = inFlight \ {c}
    /\ Goto(c, "count")
    /\ UNCHANGED <<link, conn, asked, missed, lateLoss, flagVars, shutdown, wgen, todo, dpc, statVars>>

\* Mutant: a failed subscription is not tried again.
SubFailForGood(c) ==
    /\ wpc[c] = "await"
    /\ subscribed' \in {subscribed, subscribed \/ c \in inFlight}
    /\ inFlight' = inFlight \ {c}
    /\ Goto(c, "done")
    /\ UNCHANGED <<link, conn, asked, missed, lateLoss, flagVars, shutdown, wgen, todo, dpc, statVars>>

\* The token fails or times out; the broker may have subscribed us all the same.
SubFail(c) ==
    /\ wpc[c] = "await"
    /\ subscribed' \in {subscribed, subscribed \/ c \in inFlight}
    /\ inFlight' = inFlight \ {c}
    /\ Goto(c, "retry")
    /\ UNCHANGED <<link, conn, asked, missed, lateLoss, flagVars, shutdown, wgen, todo, dpc, statVars>>

\* The retry delay ends, or m.stop is closed before it does.
Retry(c) ==
    /\ wpc[c] = "retry"
    /\ Goto(c, "check") \/ (Stopped /\ Goto(c, "done"))
    /\ UNCHANGED <<envVars, flagVars, shutdown, wgen, todo, dpc, statVars>>

Count(c) ==
    /\ wpc[c] = "count"
    /\ connects' = connects + 1 /\ connectedAt' = TRUE
    /\ Goto(c, "report")
    /\ UNCHANGED <<envVars, flagVars, shutdown, wgen, todo, dpc, disconnects>>

\* setConnected(true)
Report(c) ==
    /\ wpc[c] = "report"
    /\ connected' = TRUE
    /\ Goto(c, "request")
    /\ UNCHANGED <<envVars, connGen, shutdown, wgen, todo, dpc, statVars>>

\* The loop over the lights goes on, or the handler returns.
AskOrReturn(c, goOn) ==
    /\ wpc[c] = "request"
    /\ Goto(c, IF goOn THEN "ask" ELSE "done")
    /\ todo' = [todo EXCEPT ![c] = IF goOn THEN @ ELSE 1]
    /\ UNCHANGED <<envVars, flagVars, shutdown, wgen, dpc, statVars>>

\* Mutant: the loop over the lights goes one too far.
RequestTooMany(c) == AskOrReturn(c, todo[c] <= Entities + 1 /\ Current(c))

Request(c) == AskOrReturn(c, todo[c] <= Entities /\ Current(c))

\* A request that gets through is answered; the answer reaches us if we are
\* subscribed on the link that is up by then.
Reached(c) == IF link = "open" /\ subscribed THEN {todo[c]} ELSE {}

AskNext(c) ==
    /\ wpc[c] = "ask"
    /\ todo' = [todo EXCEPT ![c] = @ + 1]
    /\ Goto(c, "request")
    /\ UNCHANGED <<link, conn, subscribed, inFlight, lateLoss, flagVars, shutdown, wgen, dpc, statVars>>

Ask(c) ==
    /\ AskNext(c)
    /\ asked' = asked \cup Reached(c)
    /\ UNCHANGED missed

\* The publish fails or times out, with the link still open or not.  It is
\* logged and not tried again.  (Should it have got through all the same, we know
\* the light as well as after Ask.)
AskFails(c) ==
    /\ AskNext(c)
    /\ missed' = IF Current(c) THEN missed \cup {todo[c]} ELSE missed
    /\ UNCHANGED asked

-----------------------------------------------------------------------------
(* The connection-lost handlers and the watchdog.                           *)

DropperGoto(d, step) == dpc' = [dpc EXCEPT ![d] = step]

\* A history variable: a dropper takes effect, and if a link is open then it is
\* a later one than the link that was lost.
TakesEffect(effect) == lateLoss' = (lateLoss \/ (effect /\ link = "open"))

\* Where setConnected(false) returns to.
AfterDrop(d) == IF d = Watchdog THEN "revive" ELSE "done"

LostHandler(c) ==
    /\ dpc[c] = "spawned"
    /\ connGen' = connGen + 1
    /\ DropperGoto(c, "flag")
    /\ TakesEffect(TRUE)
    /\ UNCHANGED <<link, conn, brokerVars, connected, shutdown, workerVars, statVars>>

\* Mutant: setConnected(false) always counts a loss.
CountEveryDrop(d) ==
    /\ dpc[d] = "flag"
    /\ connected' = FALSE
    /\ DropperGoto(d, "stats")
    /\ TakesEffect(connected)
    /\ UNCHANGED <<link, conn, brokerVars, connGen, shutdown, workerVars, statVars>>

\* Mutant: the watchdog lowers the flag and tells nobody.
SilentWatchdog(d) ==
    /\ dpc[d] = "flag"
    /\ connected' = FALSE
    /\ DropperGoto(d, IF connected /\ d # Watchdog THEN "stats" ELSE AfterDrop(d))
    /\ TakesEffect(connected)
    /\ UNCHANGED <<link, conn, brokerVars, connGen, shutdown, workerVars, statVars>>

\* The critical section of setConnected(false).
SetDisconnected(d) ==
    /\ dpc[d] = "flag"
    /\ connected' = FALSE
    /\ DropperGoto(d, IF connected THEN "stats" ELSE AfterDrop(d))
    /\ TakesEffect(connected)
    /\ UNCHANGED <<link, conn, brokerVars, connGen, shutdown, workerVars, statVars>>

\* Mutant: the callback is not called.
RecordOnly(d) ==
    /\ dpc[d] = "stats"
    /\ disconnects' = disconnects + 1 /\ connectedAt' = FALSE
    /\ DropperGoto(d, AfterDrop(d))
    /\ TakesEffect(TRUE)
    /\ UNCHANGED <<link, conn, brokerVars, flagVars, shutdown, workerVars, connects>>

RecordLoss(d) ==
    /\ dpc[d] = "stats"
    /\ disconnects' = disconnects + 1 /\ connectedAt' = FALSE
    /\ DropperGoto(d, "notify")
    /\ TakesEffect(TRUE)
    /\ UNCHANGED <<link, conn, brokerVars, flagVars, shutdown, workerVars, connects>>

\* onConnectionLost(): main.go disconnects every event stream.
Notify(d) ==
    /\ dpc[d] = "notify"
    /\ DropperGoto(d, AfterDrop(d))
    /\ UNCHANGED <<envVars, flagVars, shutdown, workerVars, statVars>>

\* Mutant: the watchdog steps in only once the library has given up.
TickWhenOff ==
    /\ dpc[Watchdog] = "idle"
    /\ link = "off"
    /\ DropperGoto(Watchdog, "flag")
    /\ UNCHANGED <<envVars, flagVars, shutdown, workerVars, statVars>>

\* A tick finds the link not open; the flag is lowered in a later step.
WatchdogTick ==
    /\ dpc[Watchdog] = "idle"
    /\ link # "open"
    /\ DropperGoto(Watchdog, "flag")
    /\ UNCHANGED <<envVars, flagVars, shutdown, workerVars, statVars>>

\* Mutant: the watchdog leaves it to the library to try again.
NoRevive ==
    /\ dpc[Watchdog] = "revive"
    /\ DropperGoto(Watchdog, "idle")
    /\ UNCHANGED <<envVars, flagVars, shutdown, workerVars, statVars>>

\* Connect is called if the library has given up.
Revive ==
    /\ dpc[Watchdog] = "revive"
    /\ link' = IF link = "off" THEN "trying" ELSE link
    /\ DropperGoto(Watchdog, "idle")
    /\ UNCHANGED <<conn, sessionVars, flagVars, shutdown, workerVars, statVars>>

\* Mutant: m.stop is looked at only after a healthy tick.
ExitWhenOpen ==
    /\ dpc[Watchdog] = "idle"
    /\ Stopped /\ link = "open"
    /\ DropperGoto(Watchdog, "done")
    /\ UNCHANGED <<envVars, flagVars, shutdown, workerVars, statVars>>

WatchdogExit ==
    /\ dpc[Watchdog] = "idle"
    /\ Stopped
    /\ DropperGoto(Watchdog, "done")
    /\ UNCHANGED <<envVars, flagVars, shutdown, workerVars, statVars>>

-----------------------------------------------------------------------------
(* Disconnect, called at shutdown.                                          *)

CloseStop ==
    /\ shutdown = "no"
    /\ shutdown' = "stopping"
    /\ UNCHANGED <<envVars, flagVars, workerVars, dpc, statVars>>

\* A deliberate disconnect runs no connection-lost handler.
DisconnectClient ==
    /\ shutdown = "stopping"
    /\ shutdown' = "down"
    /\ link' = "off"
    /\ EndSession
    /\ UNCHANGED <<conn, flagVars, workerVars, dpc, statVars>>

-----------------------------------------------------------------------------

Environment == LinkUp \/ LinkLost \/ GiveUp

Worker(c) == \/ OnConnect(c) \/ CheckCurrent(c) \/ Subscribe(c) \/ SubAck(c)
             \/ SubFail(c) \/ Retry(c) \/ Count(c) \/ Report(c) \/ Request(c)
             \/ Ask(c) \/ AskFails(c)

\* The steps of a dropper but Notify, in which another component takes part.
DropperStep(d) == SetDisconnected(d) \/ RecordLoss(d)

WatchdogStep == WatchdogTick \/ Revive \/ WatchdogExit

Disconnect == CloseStop \/ DisconnectClient

Next == \/ Environment
        \/ \E c \in Conns : Worker(c) \/ LostHandler(c)
        \/ \E d \in Droppers : DropperStep(d) \/ Notify(d)
        \/ WatchdogStep
        \/ Disconnect

Spec == Init /\ [][Next]_vars

\* Goroutines run.  A broker that is up answers a SUBSCRIBE it is sent again
\* and again (SF).  The watchdog's select, which picks at random among a tick
\* and the closed m.stop, cannot miss the latter forever (SF).  Disconnect goes
\* on once it is called.  Nothing makes a link come up, break or be given up on.
CodeFairness ==
    /\ \A c \in Conns : /\ WF_vars(Worker(c))
                        /\ SF_vars(SubAck(c))
                        /\ WF_vars(LostHandler(c) \/ DropperStep(c) \/ Notify(c))
    /\ WF_vars(WatchdogTick \/ DropperStep(Watchdog) \/ Notify(Watchdog) \/ Revive)
    /\ SF_vars(WatchdogExit)
    /\ WF_vars(DisconnectClient)

FairSpec == Spec /\ CodeFairness

-----------------------------------------------------------------------------
(* Properties.                                                              *)

TypeOK ==
    /\ link \in Links
    /\ conn \in 0..MaxConns
    /\ subscribed \in BOOLEAN
    /\ asked \subseteq Lights
    /\ missed \subseteq Lights
    /\ inFlight \subseteq Conns
    /\ lateLoss \in BOOLEAN
    /\ connGen \in Nat
    /\ connected \in BOOLEAN
    /\ shutdown \in {"no", "stopping", "down"}
    /\ wpc \in [Conns -> WorkerSteps]
    /\ wgen \in [Conns -> Nat]
    /\ todo \in [Conns -> 1..(Entities + 1)]
    /\ \A c \in Conns : wpc[c] = "ask" => todo[c] \in Lights
    /\ dpc \in [Droppers -> DropperSteps]
    /\ connects \in Nat
    /\ disconnects \in Nat
    /\ connectedAt \in BOOLEAN

Started(c) == wpc[c] \notin {"none", "spawned"}

\* Overlapping connect handlers never both take themselves for the current one
\* (mqtt.go:74-79), however they and the connection-lost handlers interleave.
OneCurrentWorker ==
    \A c, e \in Conns : Started(c) /\ Started(e) /\ Current(c) /\ Current(e) => c = e

\* The history on the status page adds up: every loss it counts follows a
\* connect it counts, and the present connection is one more.
StatsConsistent == disconnects + (IF connected THEN 1 ELSE 0) <= connects

\* The inductive forms of the last two: generations in use are distinct, and a
\* connect not yet reported or a loss not yet recorded balances the account.
GenerationsDistinct ==
    \A c, e \in Conns :
        Started(c) => /\ wgen[c] <= connGen
                      /\ (Started(e) /\ wgen[c] = wgen[e] => c = e)

Reporting == {c \in Conns : wpc[c] = "report"}
Recording == {d \in Droppers : dpc[d] = "stats"}

StatsBalance ==
    disconnects + Cardinality(Recording) + Cardinality(Reporting)
        + (IF connected THEN 1 ELSE 0) <= connects

Quiet == Settled /\ \A c \in Conns : WorkerIdle(c)

\* The server says that it is connected, on the status page too, is subscribed,
\* and has left no light out: each has been asked for its state, or its request
\* has failed and been logged.
Serving == connected /\ connectedAt /\ subscribed /\ asked \cup missed = Lights

\* When no handler is at work any more and the link is up, the server serves
\* (mqtt.go:318-328), unless the loss of an earlier link was handled so late that
\* it hit this one: whatever else was retried, abandoned or overtaken.
QuietMeansServing == Quiet /\ link = "open" /\ ~Stopped /\ ~lateLoss => Serving

\* "recovery never depends on someone restarting the service" and the watchdog
\* "reconciles our connected flag with reality" (mqtt.go:249-251).  With all
\* handlers at rest on an open link nothing raises the flag any more.
NeverStuck == Quiet /\ link = "open" /\ ~Stopped => connected

\* A flag that a late handler raised after the link was lost does not stay up:
\* the watchdog lowers it (mqtt.go:250-251).
StaleFlagHealed == (connected /\ link # "open") ~> (~connected \/ link = "open" \/ Stopped)

\* A server whose broker is back, so that a link that is tried again and again
\* comes up, ends up serving, and without a restart (mqtt.go:245-249): whatever
\* was lost, refused or given up on before, and however far the handlers of
\* earlier links have come, unless one of their losses hits the last link.
Recovery == SF_vars(LinkUp) => <>[](link = "open" /\ (Serving \/ lateLoss)) \/ <>Stopped

\* After Disconnect everything comes to rest: the watchdog ends, and a handler
\* that is retrying, or that the last tick's call of Connect has started behind
\* Disconnect's back, does too (mqtt.go:257-275, 348-354).
ShutdownQuiesces == Stopped ~> [](Quiet /\ dpc[Watchdog] = "done")

=============================================================================
