--------------------------- MODULE OfflineSignal ---------------------------
(***************************************************************************)
(* How a lost broker reaches the browsers: the MQTT connection (mqtt.go)    *)
(* and the broadcaster (sse.go) put together by main.go and handleSSE.      *)
(*                                                                          *)
(* A stream is admitted only while the connected flag is up, and the        *)
(* connection-lost callback closes every registered stream, which is how a  *)
(* browser learns that it is to show its offline screen.                    *)
(***************************************************************************)
EXTENDS MQTTConnection, Sequences

CONSTANTS Streams, Cap, MaxEvents  \* see SSEBroadcaster

ASSUME BufferAssumption == Cap \in Nat \ {0} /\ MaxEvents \in Nat

VARIABLES phase, clients, buf, closes, sent, written, dropped,
          admission  \* where handleSSE is with each request

SSE == INSTANCE SSEBroadcaster

sseVars == <<phase, clients, buf, closes, sent, written, dropped>>
streamVars == <<sseVars, admission>>

SystemInit ==
    /\ Init
    /\ SSE!Init
    /\ admission = [s \in Streams |-> "new"]

-----------------------------------------------------------------------------

\* handleSSE looks at the flag: 503 without a broker.
CheckConnected(s) ==
    /\ admission[s] = "new"
    /\ admission' = [admission EXCEPT ![s] = IF connected THEN "admitted" ELSE "refused"]
    /\ UNCHANGED <<vars, sseVars>>

\* ServeHTTP registers the stream, some time after that look; "late" records
\* that the flag had fallen in between.
Register(s) ==
    /\ admission[s] = "admitted"
    /\ admission' = [admission EXCEPT ![s] = IF connected THEN "registered" ELSE "late"]
    /\ SSE!AddClient(s)
    /\ UNCHANGED vars

ServeStream(s) ==
    /\ \/ SSE!WriteSnapshot(s) \/ SSE!Deliver(s) \/ SSE!EndOfStream(s)
       \/ SSE!HangUp(s) \/ SSE!RemoveClient(s) \/ SSE!CloseChannel(s)
    /\ UNCHANGED <<vars, admission>>

Event ==
    /\ SSE!Broadcast
    /\ UNCHANGED <<vars, admission>>

\* onConnectionLost is DisconnectAll (main.go:71-74).
SignalLoss(d) ==
    /\ Notify(d)
    /\ SSE!DisconnectAll
    /\ UNCHANGED admission

\* Shutdown is left out: Disconnect runs as main returns (main.go:80, 147-148), so
\* the process ends with it, and every connection of a browser with that.
ConnectionStep ==
    /\ \/ Environment \/ WatchdogStep
       \/ \E c \in Conns : Worker(c) \/ LostHandler(c)
       \/ \E d \in Droppers : DropperStep(d)
    /\ UNCHANGED streamVars

SystemNext ==
    \/ ConnectionStep
    \/ \E d \in Droppers : SignalLoss(d)
    \/ \E s \in Streams : CheckConnected(s) \/ Register(s) \/ ServeStream(s)
    \/ Event

allVars == <<vars, streamVars>>

SystemSpec == SystemInit /\ [][SystemNext]_allVars

\* Goroutines run; see CodeFairness and SSE!HandlerFairness.
SystemFairness ==
    /\ \A d \in Droppers :
          WF_allVars((DropperStep(d) /\ UNCHANGED streamVars) \/ SignalLoss(d))
    /\ \A s \in Streams :
          WF_allVars(/\ \/ SSE!WriteSnapshot(s) \/ SSE!Deliver(s) \/ SSE!EndOfStream(s)
                        \/ SSE!RemoveClient(s) \/ SSE!CloseChannel(s)
                     /\ UNCHANGED <<vars, admission>>)

SystemFairSpec == SystemSpec /\ SystemFairness

-----------------------------------------------------------------------------
(* Properties.                                                              *)

SystemTypeOK ==
    /\ TypeOK
    /\ SSE!TypeOK
    /\ admission \in [Streams -> {"new", "admitted", "refused", "registered", "late"}]

\* A stream that is open when the loss of the connection is noticed ends, so
\* its browser hears of the loss (main.go:52-53, sse.go:145-147).
LossEndsStreams ==
    \A s \in Streams :
        (s \in clients /\ \E d \in Droppers : dpc[d] \in {"stats", "notify"})
            ~> (phase[s] = "gone")

\* Once a loss has been dealt with, the only streams still open are those whose
\* registration came after the flag they had looked at fell: no interleaving of
\* handlers, watchdog and streams leaves another one open while offline.
OnlyLateStreamsSurvive ==
    ~connected /\ Settled => \A s \in clients : admission[s] = "late"

\* "While the broker is unreachable, the event stream [...] return 503, and open
\* event streams are closed" (api.go:310).
OfflineMeansNoStreams == ~connected /\ Settled => clients = {}

=============================================================================
