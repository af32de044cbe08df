----------------------- MODULE PageConnection_proofs -----------------------
(***************************************************************************)
(* Proofs about the reconnection of the page: its timers never leave it     *)
(* stranded, whatever the server, its broker and the house do.              *)
(***************************************************************************)
EXTENDS PageConnection, TLAPS

\* Once the overlay timer has fired, the reload timer takes over from it.
ReloadFollows ==
    page = "panel" /\ _overlayTimer = "fired" => _reloadTimer = "running" \/ navigating

Inv == TypeOK /\ NeverStranded /\ ReloadFollows

LEMMA Initially == Init => Inv
BY DEF Init, Inv, TypeOK, NeverStranded, ReloadFollows, Timer

\* The environment of the page leaves its timers alone, and closes no
\* EventSource for good.
LEMMA EnvironmentSteps == Inv /\ (Server \/ HouseChanges \/ InstallWorker) => Inv'
<1> SUFFICES ASSUME Inv, Server \/ HouseChanges \/ InstallWorker PROVE Inv'
    OBVIOUS
<1> USE DEF Inv, TypeOK, NeverStranded, ReloadFollows, Timer
<1>1. CASE LoseBroker
      BY <1>1 DEF LoseBroker, timerVars
<1>2. CASE BrokerBack
      BY <1>2 DEF BrokerBack, panelVars, timerVars
<1>3. CASE ServerStops
      BY <1>3 DEF ServerStops, timerVars
<1>4. CASE ServerStarts
      BY <1>4 DEF ServerStarts, panelVars, timerVars
<1>5. CASE HouseChanges
    <2>1. missed' \subseteq Reasons
          BY <1>5 DEF HouseChanges, Reasons
    <2> QED BY <1>5, <2>1 DEF HouseChanges, panelVars, timerVars
<1>6. CASE InstallWorker
      BY <1>6 DEF InstallWorker, panelVars, timerVars
<1> QED BY <1>1, <1>2, <1>3, <1>4, <1>5, <1>6 DEF Server

\* A loss starts the overlay timer, unless one is running or has handed over;
\* a connection stops both.
LEMMA EventSourceSteps == Inv /\ EventSource => Inv'
<1> SUFFICES ASSUME Inv, EventSource PROVE Inv'
    OBVIOUS
<1> USE DEF Inv, TypeOK, NeverStranded, ReloadFollows, Timer
<1>1. CASE StreamBreaks
      BY <1>1 DEF StreamBreaks, sseDisconnected
<1>2. CASE ConnectFails
      BY <1>2 DEF ConnectFails, sseDisconnected
<1>3. CASE sseConnected
    <2>1. missed' \subseteq Reasons
          BY <1>3 DEF sseConnected, StreamOpens, Reasons
    <2>2. page' = page /\ source' \in {"open", "stale"}
          BY <1>3 DEF sseConnected, StreamOpens
    <2> QED BY <1>3, <2>1, <2>2 DEF sseConnected, StreamOpens
<1> QED BY <1>1, <1>2, <1>3 DEF EventSource

\* Each timer starts what ends the state it leaves behind.
LEMMA TimerSteps == Inv /\ Timers => Inv'
<1> SUFFICES ASSUME Inv, Timers PROVE Inv'
    OBVIOUS
<1> USE DEF Inv, TypeOK, NeverStranded, ReloadFollows, Timer
<1>1. CASE ShowOverlay
      BY <1>1 DEF ShowOverlay
<1>2. CASE Reload
      BY <1>2 DEF Reload
<1>3. CASE RetryOffline
      BY <1>3 DEF RetryOffline, panelVars, timerVars
<1> QED BY <1>1, <1>2, <1>3 DEF Timers

\* A navigation ends with a fresh panel or with a page that has no timers.
LEMMA NavigationSteps == Inv /\ (LoadPanel \/ LoadFails) => Inv'
<1> SUFFICES ASSUME Inv, LoadPanel \/ LoadFails PROVE Inv'
    OBVIOUS
<1> USE DEF Inv, TypeOK, NeverStranded, ReloadFollows, Timer
<1>1. CASE LoadPanel
      BY <1>1 DEF LoadPanel, FreshPanel
<1>2. CASE LoadFails
    <2>1. FallBack
          BY <1>2 DEF LoadFails, NetworkError, ServerError, FetchTimesOut
    <2> QED BY <2>1 DEF FallBack
<1> QED BY <1>1, <1>2

LEMMA Invariance == FairSpec => []Inv
<1>1. Inv /\ [Next]_vars => Inv'
    <2> SUFFICES ASSUME Inv, [Next]_vars PROVE Inv'
        OBVIOUS
    <2>1. CASE UNCHANGED vars
          BY <2>1 DEF Inv, TypeOK, NeverStranded, ReloadFollows, Timer, vars, panelVars, timerVars
    <2>2. CASE Next
          BY <2>2, EnvironmentSteps, EventSourceSteps, TimerSteps, NavigationSteps DEF Next
    <2> QED BY <2>1, <2>2
<1> QED BY <1>1, Initially, PTL DEF FairSpec

\* Every reachable state is well typed, and the reload timer only ever runs
\* behind an overlay timer that has fired (index.html:977-991).
THEOREM TypeCorrect == FairSpec => []TypeOK
<1>1. Inv => TypeOK
      BY DEF Inv
<1> QED BY <1>1, Invariance, PTL

\* However the timers race the reconnection, a panel that has lost its stream
\* for good, or shows the spinner, is about to be loaded again
\* (index.html:977-1005).
THEOREM PanelNeverStranded == FairSpec => []NeverStranded
<1>1. Inv => NeverStranded
      BY DEF Inv
<1> QED BY <1>1, Invariance, PTL

=============================================================================
