------------------------ MODULE OfflineSignal_proofs ------------------------
(***************************************************************************)
(* The connection and the broadcaster put together: each still does what it *)
(* does alone, and the loss of the broker reaches every stream that was     *)
(* registered in time.                                                      *)
(***************************************************************************)
EXTENDS OfflineSignal, MQTTConnection_proofs

SSEProofs == INSTANCE SSEBroadcaster_proofs

\* What the whole does to the connection is what a connection does.
LEMMA ConnectionPart == SystemSpec => Spec
<1>1. SystemInit => Init
  BY DEF SystemInit
<1>2. [SystemNext]_allVars => [Next]_vars
  <2> SUFFICES ASSUME [SystemNext]_allVars PROVE Next \/ UNCHANGED vars
    OBVIOUS
  <2>1. CASE ConnectionStep
    BY <2>1 DEF ConnectionStep, Next
  <2>2. ASSUME NEW d \in Droppers, SignalLoss(d) PROVE Next
    BY <2>2 DEF SignalLoss, Next
  <2>3. ASSUME NEW s \in Streams, CheckConnected(s) \/ Register(s) \/ ServeStream(s)
        PROVE  UNCHANGED vars
    BY <2>3 DEF CheckConnected, Register, ServeStream
  <2>4. CASE Event \/ UNCHANGED allVars
    BY <2>4 DEF Event, allVars
  <2>. QED BY <2>1, <2>2, <2>3, <2>4 DEF SystemNext
<1>. QED BY <1>1, <1>2, PTL DEF SystemSpec, Spec

\* What the whole does to the streams is what a broadcaster does.
LEMMA StreamPart == SystemSpec => SSE!Spec
<1>1. SystemInit => SSE!Init
  BY DEF SystemInit
<1>2. [SystemNext]_allVars => [SSE!Next]_(SSE!vars)
  <2> SUFFICES ASSUME [SystemNext]_allVars PROVE SSE!Next \/ UNCHANGED sseVars
    BY DEF sseVars, SSE!vars
  <2>1. CASE ConnectionStep \/ UNCHANGED allVars
    BY <2>1 DEF ConnectionStep, streamVars, allVars
  <2>2. ASSUME NEW d \in Droppers, SignalLoss(d) PROVE SSE!Next
    BY <2>2 DEF SignalLoss, SSE!Next
  <2>3. ASSUME NEW s \in Streams, CheckConnected(s) PROVE UNCHANGED sseVars
    BY <2>3 DEF CheckConnected
  <2>4. ASSUME NEW s \in Streams, Register(s) \/ ServeStream(s) PROVE SSE!Next
    BY <2>4 DEF Register, ServeStream, SSE!Next, SSE!Handler
  <2>5. CASE Event
    BY <2>5 DEF Event, SSE!Next
  <2>. QED BY <2>1, <2>2, <2>3, <2>4, <2>5 DEF SystemNext
<1>. QED BY <1>1, <1>2, PTL DEF SystemSpec, SSE!Spec

\* main.go adds nothing to its components: seen alone, the connection behaves as
\* MQTTConnection and the streams as SSEBroadcaster, so what is proved of either
\* holds of the server.
THEOREM Composition == SystemSpec => Spec /\ SSE!Spec
BY ConnectionPart, StreamPart

-----------------------------------------------------------------------------

\* The broadcaster whose theorems are used is the one that OfflineSignal is made of.
LEMMA SameBroadcaster == SSE!Spec => SSEProofs!Spec
<1>1. SSE!Init => SSEProofs!Init
  BY DEF SSE!Init, SSEProofs!Init
<1>2. [SSE!Next]_(SSE!vars) => [SSEProofs!Next]_(SSEProofs!vars)
  BY DEF SSE!Next, SSE!vars, SSE!Handler, SSE!AddClient, SSE!WriteSnapshot, SSE!Deliver,
         SSE!EndOfStream, SSE!HangUp, SSE!RemoveClient, SSE!CloseChannel, SSE!Broadcast, SSE!Full,
         SSE!DisconnectAll,
         SSEProofs!Next, SSEProofs!vars, SSEProofs!Handler, SSEProofs!AddClient,
         SSEProofs!WriteSnapshot, SSEProofs!Deliver, SSEProofs!EndOfStream, SSEProofs!HangUp,
         SSEProofs!RemoveClient, SSEProofs!CloseChannel, SSEProofs!Broadcast, SSEProofs!Full,
         SSEProofs!DisconnectAll
<1>. QED BY <1>1, <1>2, PTL DEF SSE!Spec, SSEProofs!Spec

LEMMA StreamsTyped == SystemSpec => []SSE!TypeOK
<1>1. SSEProofs!Spec => []SSEProofs!TypeOK
  BY SSEProofs!TypeCorrect, BufferAssumption
<1>2. SSEProofs!TypeOK => SSE!TypeOK
  BY DEF SSEProofs!TypeOK, SSE!TypeOK, SSE!Phases, SSEProofs!Phases, SSE!Serving, SSEProofs!Serving
<1>. QED BY <1>1, <1>2, SameBroadcaster, StreamPart, PTL

AdmissionOK == admission \in [Streams -> {"new", "admitted", "refused", "registered", "late"}]

LEMMA AdmissionTyped == SystemSpec => []AdmissionOK
<1>1. SystemInit => AdmissionOK
  BY DEF SystemInit, AdmissionOK
<1>2. AdmissionOK /\ [SystemNext]_allVars => AdmissionOK'
  BY DEF AdmissionOK, SystemNext, CheckConnected, Register, ServeStream, Event, SignalLoss,
         ConnectionStep, streamVars, allVars
<1>. QED BY <1>1, <1>2, PTL DEF SystemSpec

\* Every reachable state of the server is well typed, in both its parts.
THEOREM SystemTypeCorrect == SystemSpec => []SystemTypeOK
<1>1. SystemSpec => []TypeOK
  BY ConnectionPart, TypeCorrect, PTL
<1>2. TypeOK /\ SSE!TypeOK /\ AdmissionOK => SystemTypeOK
  BY DEF SystemTypeOK, AdmissionOK
<1>. QED BY <1>1, <1>2, StreamsTyped, AdmissionTyped, PTL

-----------------------------------------------------------------------------

Signalling(d) == dpc[d] \in {"stats", "notify"}

\* A stream that was registered while the flag was up is open only as long as the
\* flag is still up, or as a handler that lowered it has still to signal the loss.
LossIsSignalled ==
    /\ \A s \in clients : admission[s] \in {"registered", "late"}
    /\ \/ connected
       \/ \E d \in Droppers : Signalling(d)
       \/ \A s \in clients : admission[s] = "late"

\* A handler that has still to signal the loss gets there, whatever the others do.
LEMMA SignallingGoesOn ==
  ASSUME TypeOK, FreshLinks, NEW d \in Droppers, Signalling(d), ConnectionStep
  PROVE  Signalling(d)'
<1> USE DEF Signalling
<1>t. dpc \in [Droppers -> DropperSteps]
  BY DEF TypeOK
<1>1. CASE LinkUp \/ GiveUp
  BY <1>1 DEF LinkUp, GiveUp
<1>2. CASE LinkLost
  BY <1>2, <1>t DEF LinkLost, FreshLinks
<1>3. ASSUME NEW c \in Conns, Worker(c) PROVE Signalling(d)'
  BY <1>3, WorkerFrame
<1>4. ASSUME NEW e \in Droppers, (e \in Conns /\ LostHandler(e)) \/ DropperStep(e)
      PROVE  Signalling(d)'
  <2>1. CASE e = d
    BY <1>4, <1>t, <2>1 DEF LostHandler, DropperStep, SetDisconnected, RecordLoss, DropperGoto
  <2>2. CASE e # d
    BY <1>4, <2>2, DropperFrame
  <2>. QED BY <2>1, <2>2
<1>5. CASE WatchdogStep \/ Disconnect
  <2>1. CASE d = Watchdog
    BY <1>5, <1>t, <2>1 DEF WatchdogStep, WatchdogTick, Revive, WatchdogExit,
                            DropperGoto, Disconnect, CloseStop, DisconnectClient
  <2>2. CASE d # Watchdog
    BY <1>5, <2>2, WatchdogFrame DEF Droppers
  <2>. QED BY <2>1, <2>2
<1>. QED BY <1>1, <1>2, <1>3, <1>4, <1>5, Numbers DEF ConnectionStep, Environment

\* Only setConnected(false) lowers the flag.
LEMMA FlagIsLowered ==
  ASSUME TypeOK, ConnectionStep, connected, ~connected'
  PROVE  \E d \in Droppers : SetDisconnected(d)
<1>1. ~Environment
  BY DEF Environment, LinkUp, LinkLost, GiveUp, flagVars
<1>2. \A c \in Conns : ~Worker(c) /\ ~LostHandler(c)
  BY WorkerFrame DEF Growing, LostHandler
<1>3. ~WatchdogStep /\ ~Disconnect
  BY WatchdogFrame DEF flagVars
<1>4. \A d \in Droppers : ~RecordLoss(d)
  BY DEF RecordLoss, flagVars
<1>. QED BY <1>1, <1>2, <1>3, <1>4 DEF ConnectionStep, DropperStep

LEMMA LossIsSignalledInvariant == SystemSpec => []LossIsSignalled
<1>1. SystemInit => LossIsSignalled
  BY DEF SystemInit, SSE!Init, LossIsSignalled
<1>2. SystemTypeOK /\ FreshLinks /\ LossIsSignalled /\ [SystemNext]_allVars => LossIsSignalled'
  <2> SUFFICES ASSUME SystemTypeOK, FreshLinks, LossIsSignalled, [SystemNext]_allVars
               PROVE  LossIsSignalled'
    OBVIOUS
  <2>t. TypeOK /\ AdmissionOK /\ clients \subseteq Streams
    BY DEF SystemTypeOK, AdmissionOK, SSE!TypeOK
  <2>1. CASE ConnectionStep
    <3>1. UNCHANGED <<clients, admission>>
      BY <2>1 DEF ConnectionStep, streamVars, sseVars
    <3>2. CASE connected /\ ~connected'
      <4>1. PICK d \in Droppers : SetDisconnected(d)
        BY <2>1, <2>t, <3>2, FlagIsLowered
      <4>2. dpc'[d] = "stats"
        BY <2>t, <3>2, <4>1 DEF SetDisconnected, DropperGoto, TypeOK
      <4>. QED BY <3>1, <4>2 DEF LossIsSignalled, Signalling
    <3>3. CASE ~connected /\ ~connected'
      BY <2>1, <2>t, <3>1, <3>3, SignallingGoesOn DEF LossIsSignalled
    <3>4. CASE connected'
      BY <3>1, <3>4 DEF LossIsSignalled
    <3>. QED BY <3>2, <3>3, <3>4
  <2>2. ASSUME NEW d \in Droppers, SignalLoss(d) PROVE LossIsSignalled'
    BY <2>2 DEF SignalLoss, SSE!DisconnectAll, LossIsSignalled
  <2>3. ASSUME NEW s \in Streams, CheckConnected(s) PROVE LossIsSignalled'
    <3>1. UNCHANGED <<clients, connected, dpc>>
      BY <2>3 DEF CheckConnected, sseVars, vars, flagVars
    <3>2. \A p \in clients : admission'[p] = admission[p]
      BY <2>3, <2>t DEF CheckConnected, LossIsSignalled, AdmissionOK
    <3>. QED BY <3>1, <3>2 DEF LossIsSignalled, Signalling
  <2>4. ASSUME NEW s \in Streams, Register(s) PROVE LossIsSignalled'
    <3>1. /\ UNCHANGED <<connected, dpc>> /\ clients' = clients \cup {s}
          /\ admission' = [admission EXCEPT ![s] = IF connected THEN "registered" ELSE "late"]
      BY <2>4 DEF Register, SSE!AddClient, vars, flagVars
    <3>. QED BY <2>t, <3>1 DEF LossIsSignalled, Signalling, AdmissionOK
  <2>5. ASSUME UNCHANGED <<connected, dpc, admission>>, clients' \subseteq clients
        PROVE  LossIsSignalled'
    BY <2>5 DEF LossIsSignalled, Signalling
  <2>6. ASSUME NEW s \in Streams, ServeStream(s)
        PROVE  UNCHANGED <<connected, dpc, admission>> /\ clients' \subseteq clients
    BY <2>6 DEF ServeStream, SSE!WriteSnapshot, SSE!Deliver, SSE!EndOfStream, SSE!HangUp,
                SSE!RemoveClient, SSE!CloseChannel, vars, flagVars
  <2>7. Event \/ UNCHANGED allVars
          => UNCHANGED <<connected, dpc, admission>> /\ clients' \subseteq clients
    BY DEF Event, SSE!Broadcast, allVars, streamVars, sseVars, vars, flagVars
  <2>. QED BY <2>1, <2>2, <2>3, <2>4, <2>5, <2>6, <2>7 DEF SystemNext
<1>3. SystemSpec => []FreshLinks
  BY ConnectionPart, FreshLinksInvariant, PTL
<1>. QED BY <1>1, <1>2, <1>3, SystemTypeCorrect, PTL DEF SystemSpec

\* For any number of links and streams: once a loss has been dealt with, no stream
\* is open but those that were registered after the flag had fallen.
THEOREM OthersAreClosed == SystemSpec => []OnlyLateStreamsSurvive
<1>1. LossIsSignalled => OnlyLateStreamsSurvive
  BY DEF LossIsSignalled, OnlyLateStreamsSurvive, Signalling, Settled, DropperIdle
<1>. QED BY <1>1, LossIsSignalledInvariant, PTL

=============================================================================
