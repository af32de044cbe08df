----------------------- MODULE MQTTConnection_proofs -----------------------
(***************************************************************************)
(* The generation counter and the connection history of MQTTConnection, and *)
(* that a server at rest serves, for any number of links and lights and     *)
(* however late callbacks come.                                             *)
(***************************************************************************)
EXTENDS MQTTConnection, FiniteSetTheorems, TLAPS

\* Link and dropper numbers.
LEMMA Numbers ==
  /\ MaxConns \in Nat \ {0} /\ Entities \in Nat
  /\ \A c \in Conns : c \in Droppers /\ c \in 0..MaxConns /\ c \in Nat
  /\ Watchdog \in Droppers
  /\ \A n \in 0..MaxConns : (n # 0 => n \in Conns) /\ (n < MaxConns => n + 1 \in Conns)
BY MaxConnsAssumption, EntitiesAssumption DEF Conns, Droppers, Watchdog

\* Every reachable state is well typed.
THEOREM TypeCorrect == Spec => []TypeOK
<1>1. Init => TypeOK
  <2> SUFFICES ASSUME Init PROVE TypeOK
    OBVIOUS
  <2>1. 1 \in 1..(Entities + 1) /\ 0 \in 0..MaxConns
    BY Numbers
  <2>. QED BY <2>1, Numbers DEF Init, TypeOK, Links, WorkerSteps, DropperSteps
<1>2. TypeOK /\ [Next]_vars => TypeOK'
  <2> SUFFICES ASSUME TypeOK, [Next]_vars PROVE TypeOK'
    OBVIOUS
  <2> USE Numbers DEF TypeOK, WorkerSteps, DropperSteps,
                      brokerVars, sessionVars, envVars, flagVars, workerVars, statVars,
                      Goto, DropperGoto
  <2>1. CASE LinkUp
    <3>1. conn + 1 \in Conns /\ conn' \in 0..MaxConns
      BY <2>1 DEF LinkUp
    <3>. QED BY <2>1, <3>1 DEF LinkUp, Links
  <2>2. CASE LinkLost \/ GiveUp
    BY <2>2 DEF LinkLost, GiveUp, Links, EndSession
  <2>3. ASSUME NEW c \in Conns, OnConnect(c) \/ CheckCurrent(c) PROVE TypeOK'
    BY <2>3 DEF OnConnect, CheckCurrent
  <2>4. ASSUME NEW c \in Conns, Subscribe(c) PROVE TypeOK'
    BY <2>4 DEF Subscribe
  <2>5. ASSUME NEW c \in Conns, SubAck(c) \/ SubFail(c) \/ Retry(c) PROVE TypeOK'
    BY <2>5 DEF SubAck, SubFail, Retry
  <2>6. ASSUME NEW c \in Conns, Count(c) PROVE TypeOK'
    BY <2>6 DEF Count
  <2>7. ASSUME NEW c \in Conns, Report(c) PROVE TypeOK'
    BY <2>7 DEF Report
  <2>8. ASSUME NEW c \in Conns, Request(c) PROVE TypeOK'
    <3> DEFINE goOn == todo[c] <= Entities /\ Current(c)
    <3>1. AskOrReturn(c, goOn)
      BY <2>8 DEF Request
    <3>2. goOn => todo[c] \in Lights
      BY DEF Lights
    <3> HIDE DEF goOn
    <3>3. wpc' \in [Conns -> WorkerSteps] /\ todo' \in [Conns -> 1..(Entities + 1)]
      BY <3>1 DEF AskOrReturn
    <3>4. \A e \in Conns : wpc'[e] = "ask" => todo'[e] \in Lights
      BY <3>1, <3>2 DEF AskOrReturn
    <3>. QED BY <3>1, <3>3, <3>4 DEF AskOrReturn
  <2>14. ASSUME NEW c \in Conns, Ask(c) \/ AskFails(c) PROVE TypeOK'
    <3>1. AskNext(c)
      BY <2>14 DEF Ask, AskFails
    <3>2. todo[c] \in Lights /\ todo[c] + 1 \in 1..(Entities + 1)
      BY <3>1 DEF AskNext, Lights
    <3>3. asked' \subseteq Lights /\ missed' \subseteq Lights
      BY <2>14, <3>2 DEF Ask, AskFails, Reached
    <3>4. todo' \in [Conns -> 1..(Entities + 1)]
      BY <3>1, <3>2 DEF AskNext
    <3>5. wpc' \in [Conns -> WorkerSteps]
      BY <3>1 DEF AskNext
    <3>6. \A e \in Conns : wpc'[e] = "ask" => todo'[e] \in Lights
      BY <3>1 DEF AskNext
    <3>. QED BY <3>1, <3>3, <3>4, <3>5, <3>6 DEF AskNext
  <2>9. ASSUME NEW c \in Conns, LostHandler(c) PROVE TypeOK'
    BY <2>9 DEF LostHandler, TakesEffect
  <2>10. ASSUME NEW d \in Droppers, DropperStep(d) \/ Notify(d) PROVE TypeOK'
    <3>1. AfterDrop(d) \in DropperSteps
      BY DEF AfterDrop
    <3>2. CASE SetDisconnected(d)
      BY <3>1, <3>2 DEF SetDisconnected, TakesEffect
    <3>3. CASE RecordLoss(d)
      <4>1. dpc' \in [Droppers -> DropperSteps]
        BY <3>3 DEF RecordLoss
      <4>2. disconnects' \in Nat
        BY <3>3 DEF RecordLoss
      <4>3. /\ connectedAt' = FALSE
            /\ lateLoss' \in BOOLEAN
            /\ UNCHANGED <<link, conn, brokerVars, flagVars, shutdown, workerVars, connects>>
        BY <3>3 DEF RecordLoss, TakesEffect
      <4>. QED BY <4>1, <4>2, <4>3
    <3>4. CASE Notify(d)
      BY <3>1, <3>4 DEF Notify
    <3>. QED BY <2>10, <3>2, <3>3, <3>4 DEF DropperStep
  <2>11. CASE WatchdogStep
    BY <2>11 DEF WatchdogStep, WatchdogTick, Revive, WatchdogExit, Links
  <2>12. CASE Disconnect
    BY <2>12 DEF Disconnect, CloseStop, DisconnectClient, Links, EndSession
  <2>13. CASE UNCHANGED vars
    BY <2>13 DEF vars
  <2>. QED
    BY <2>1, <2>2, <2>3, <2>4, <2>5, <2>6, <2>7, <2>8, <2>9, <2>10, <2>11, <2>12, <2>13, <2>14
       DEF Next, Environment, Worker
<1>. QED
  BY <1>1, <1>2, PTL DEF Spec

-----------------------------------------------------------------------------

\* Started handlers work for distinct generations, none of them in the future.
LEMMA GenerationsInvariant == Spec => []GenerationsDistinct
<1>1. Init => GenerationsDistinct
  BY DEF Init, GenerationsDistinct, Started
<1>2. TypeOK /\ GenerationsDistinct /\ [Next]_vars => GenerationsDistinct'
  <2> SUFFICES ASSUME TypeOK, GenerationsDistinct, [Next]_vars PROVE GenerationsDistinct'
    OBVIOUS
  <2> DEFINE NoNewGeneration ==
               /\ wgen' = wgen
               /\ connGen' = connGen \/ connGen' = connGen + 1
               /\ \A e \in Conns : wpc'[e] \notin {"none", "spawned"} => Started(e)
  <2>t. connGen \in Nat /\ wgen \in [Conns -> Nat] /\ wpc \in [Conns -> WorkerSteps]
    BY DEF TypeOK
  <2>a. ASSUME NoNewGeneration PROVE GenerationsDistinct'
    BY <2>a, <2>t DEF GenerationsDistinct, Started
  <2>1. ASSUME NEW c \in Conns, OnConnect(c) PROVE GenerationsDistinct'
    <3>1. /\ connGen' = connGen + 1 /\ wgen'[c] = connGen + 1
          /\ \A e \in Conns \ {c} : wgen'[e] = wgen[e] /\ wpc'[e] = wpc[e]
      BY <2>1, <2>t DEF OnConnect, Goto
    <3>2. \A e \in Conns \ {c} : Started(e)' => wgen'[e] <= connGen
      BY <3>1 DEF GenerationsDistinct, Started
    <3>. QED BY <3>1, <3>2, <2>t DEF GenerationsDistinct, Started
  <2>2. LinkUp => NoNewGeneration
    BY <2>t DEF LinkUp, Started, flagVars
  <2>3. ASSUME NEW c \in Conns, Worker(c), ~OnConnect(c) PROVE NoNewGeneration
    <3>1. wgen' = wgen /\ connGen' = connGen
      BY <2>3 DEF Worker, CheckCurrent, Subscribe, SubAck, SubFail, Retry,
                  Count, Report, Request, AskOrReturn, Ask, AskFails, AskNext, flagVars
    <3>2. /\ wpc[c] \notin {"none", "spawned"}
          /\ \A e \in Conns \ {c} : wpc'[e] = wpc[e]
      BY <2>3, <2>t DEF Worker, CheckCurrent, Subscribe, SubAck, SubFail, Retry,
                        Count, Report, Request, AskOrReturn, Ask, AskFails, AskNext, Goto
    <3>. QED BY <3>1, <3>2 DEF Started
  <2>4. ASSUME wpc' = wpc, wgen' = wgen, connGen' \in {connGen, connGen + 1}
        PROVE  NoNewGeneration
    BY <2>4 DEF Started
  <2>5. LinkLost \/ GiveUp => wpc' = wpc /\ wgen' = wgen /\ connGen' = connGen
    BY DEF LinkLost, GiveUp, workerVars, flagVars
  <2>6. ASSUME NEW c \in Conns, LostHandler(c)
        PROVE  wpc' = wpc /\ wgen' = wgen /\ connGen' = connGen + 1
    BY <2>6 DEF LostHandler, workerVars
  <2>7. ASSUME NEW d \in Droppers, DropperStep(d) \/ Notify(d)
        PROVE  wpc' = wpc /\ wgen' = wgen /\ connGen' = connGen
    BY <2>7 DEF DropperStep, SetDisconnected, RecordLoss, Notify, workerVars, flagVars
  <2>8. WatchdogStep \/ Disconnect \/ UNCHANGED vars
          => wpc' = wpc /\ wgen' = wgen /\ connGen' = connGen
    BY DEF WatchdogStep, WatchdogTick, Revive, WatchdogExit,
           Disconnect, CloseStop, DisconnectClient, vars, workerVars, flagVars
  <2> HIDE DEF NoNewGeneration
  <2>. QED
    BY <2>a, <2>1, <2>2, <2>3, <2>4, <2>5, <2>6, <2>7, <2>8 DEF Next, Environment
<1>. QED
  BY <1>1, <1>2, TypeCorrect, PTL DEF Spec

\* However connections flap, at most one connect handler takes itself for the
\* current one.
THEOREM AtMostOneCurrent == Spec => []OneCurrentWorker
<1>1. GenerationsDistinct => OneCurrentWorker
  BY DEF GenerationsDistinct, OneCurrentWorker, Current
<1>. QED
  BY <1>1, GenerationsInvariant, PTL

-----------------------------------------------------------------------------
(* The connection history: what one step does to the handlers that owe it.  *)

\* Handlers are finitely many.
LEMMA HandlersFinite ==
  /\ IsFiniteSet(Reporting) /\ IsFiniteSet(Recording)
  /\ Cardinality(Reporting) \in Nat /\ Cardinality(Recording) \in Nat
<1>1. IsFiniteSet(0..MaxConns)
  BY FS_Interval, MaxConnsAssumption
<1>2. Reporting \subseteq 0..MaxConns /\ Recording \subseteq 0..MaxConns
  BY MaxConnsAssumption DEF Reporting, Recording, Conns, Droppers, Watchdog
<1>3. IsFiniteSet(Reporting) /\ IsFiniteSet(Recording)
  BY <1>1, <1>2, FS_Subset
<1>. QED
  BY <1>3, FS_CardinalityType

\* Every connect counted and not yet reported, and every loss not yet recorded,
\* is on the right side of the account.
LEMMA BalanceInvariant == Spec => []StatsBalance
<1>1. ASSUME Init PROVE StatsBalance
  <2>1. Reporting = {} /\ Recording = {}
    BY <1>1 DEF Init, Reporting, Recording
  <2>2. Cardinality(Reporting) = 0 /\ Cardinality(Recording) = 0
    BY <2>1, FS_EmptySet
  <2>. QED BY <1>1, <2>2 DEF Init, StatsBalance
<1>2. ASSUME TypeOK, StatsBalance, [Next]_vars PROVE StatsBalance'
  <2>t. /\ connects \in Nat /\ disconnects \in Nat /\ connected \in BOOLEAN
        /\ wpc \in [Conns -> WorkerSteps] /\ dpc \in [Droppers -> DropperSteps]
    BY <1>2 DEF TypeOK
  <2>f. /\ IsFiniteSet(Reporting) /\ IsFiniteSet(Recording)
        /\ Cardinality(Reporting) \in Nat /\ Cardinality(Recording) \in Nat
    BY HandlersFinite
  <2>b. disconnects + Cardinality(Recording) + Cardinality(Reporting)
          + (IF connected THEN 1 ELSE 0) <= connects
    BY <1>2 DEF StatsBalance
  <2>1. ASSUME NEW c \in Conns, Count(c) PROVE StatsBalance'
    <3>1. Reporting' = Reporting \cup {c} /\ c \notin Reporting
      BY <2>1, <2>t DEF Count, Goto, Reporting
    <3>2. Cardinality(Reporting') = Cardinality(Reporting) + 1
      BY <3>1, <2>f, FS_AddElement
    <3>3. /\ Recording' = Recording /\ connects' = connects + 1
          /\ disconnects' = disconnects /\ connected' = connected
      BY <2>1 DEF Count, Recording, flagVars
    <3>. QED BY <3>2, <3>3, <2>f, <2>t, <2>b DEF StatsBalance
  <2>2. ASSUME NEW c \in Conns, Report(c) PROVE StatsBalance'
    <3>1. Reporting' = Reporting \ {c} /\ c \in Reporting
      BY <2>2, <2>t DEF Report, Goto, Reporting
    <3>2. Cardinality(Reporting') = Cardinality(Reporting) - 1
      BY <3>1, <2>f, FS_RemoveElement
    <3>3. /\ Recording' = Recording /\ connects' = connects
          /\ disconnects' = disconnects /\ connected' = TRUE
      BY <2>2 DEF Report, Recording, statVars
    <3>. QED BY <3>2, <3>3, <2>f, <2>t, <2>b DEF StatsBalance
  <2>3. ASSUME NEW d \in Droppers, SetDisconnected(d) PROVE StatsBalance'
    <3>1. /\ Reporting' = Reporting /\ connects' = connects
          /\ disconnects' = disconnects /\ connected' = FALSE
      BY <2>3 DEF SetDisconnected, Reporting, statVars, workerVars
    <3>2. CASE connected
      <4>1. Recording' = Recording \cup {d} /\ d \notin Recording
        BY <2>3, <2>t, <3>2 DEF SetDisconnected, DropperGoto, Recording
      <4>2. Cardinality(Recording') = Cardinality(Recording) + 1
        BY <4>1, <2>f, FS_AddElement
      <4>. QED BY <3>1, <3>2, <4>2, <2>f, <2>t, <2>b DEF StatsBalance
    <3>3. CASE ~connected
      <4>1. Recording' = Recording
        BY <2>3, <2>t, <3>3 DEF SetDisconnected, DropperGoto, Recording, AfterDrop
      <4>. QED BY <3>1, <3>3, <4>1, <2>f, <2>t, <2>b DEF StatsBalance
    <3>. QED BY <3>2, <3>3
  <2>4. ASSUME NEW d \in Droppers, RecordLoss(d) PROVE StatsBalance'
    <3>1. Recording' = Recording \ {d} /\ d \in Recording
      BY <2>4, <2>t DEF RecordLoss, DropperGoto, Recording
    <3>2. Cardinality(Recording') = Cardinality(Recording) - 1
      BY <3>1, <2>f, FS_RemoveElement
    <3>3. /\ Reporting' = Reporting /\ connects' = connects
          /\ disconnects' = disconnects + 1 /\ connected' = connected
      BY <2>4 DEF RecordLoss, Reporting, flagVars, workerVars
    <3>. QED BY <3>2, <3>3, <2>f, <2>t, <2>b DEF StatsBalance
  <2> DEFINE NoNewDebt == /\ UNCHANGED <<connected, connects, disconnects>>
                          /\ Reporting' \subseteq Reporting
                          /\ Recording' \subseteq Recording
  <2>5. ASSUME NoNewDebt PROVE StatsBalance'
    <3>1. /\ Cardinality(Reporting') <= Cardinality(Reporting)
          /\ Cardinality(Recording') <= Cardinality(Recording)
          /\ Cardinality(Reporting') \in Nat /\ Cardinality(Recording') \in Nat
      BY <2>5, <2>f, FS_Subset, FS_CardinalityType
    <3>. QED BY <2>5, <3>1, <2>b, <2>f, <2>t DEF StatsBalance
  <2>6. ASSUME NEW c \in Conns, Worker(c), ~Count(c), ~Report(c) PROVE NoNewDebt
    <3>1. UNCHANGED <<connected, connects, disconnects, dpc>>
      BY <2>6 DEF Worker, OnConnect, CheckCurrent, Subscribe, SubAck, SubFail, Retry,
                  Request, AskOrReturn, Ask, AskFails, AskNext, flagVars, statVars
    <3>2. /\ wpc'[c] # "report"
          /\ \A e \in Conns \ {c} : wpc'[e] = wpc[e]
      BY <2>6, <2>t DEF Worker, OnConnect, CheckCurrent, Subscribe, SubAck, SubFail, Retry,
                        Request, AskOrReturn, Ask, AskFails, AskNext, Goto
    <3>. QED BY <3>1, <3>2 DEF Reporting, Recording
  <2>7. LinkUp => NoNewDebt
    BY <2>t DEF LinkUp, Reporting, Recording, flagVars, statVars
  <2>8. LinkLost => NoNewDebt
    BY <2>t DEF LinkLost, Reporting, Recording, flagVars, statVars, workerVars
  <2>9. GiveUp \/ Disconnect \/ UNCHANGED vars => NoNewDebt
    BY DEF GiveUp, Disconnect, CloseStop, DisconnectClient, Reporting, Recording,
           vars, flagVars, statVars, workerVars
  <2>10. ASSUME NEW c \in Conns, LostHandler(c) PROVE NoNewDebt
    BY <2>10, <2>t DEF LostHandler, DropperGoto, Reporting, Recording, statVars, workerVars
  <2>11. ASSUME NEW d \in Droppers, Notify(d) PROVE NoNewDebt
    BY <2>11, <2>t DEF Notify, DropperGoto, AfterDrop, Reporting, Recording,
                       flagVars, statVars, workerVars
  <2>12. WatchdogStep => NoNewDebt
    BY <2>t DEF WatchdogStep, WatchdogTick, Revive, WatchdogExit, DropperGoto,
                Reporting, Recording, flagVars, statVars, workerVars
  <2> HIDE DEF NoNewDebt
  <2>. QED
    BY <1>2, <2>1, <2>2, <2>3, <2>4, <2>5, <2>6, <2>7, <2>8, <2>9, <2>10, <2>11, <2>12
       DEF Next, Environment, DropperStep
<1>3. Init => StatsBalance
  BY <1>1
<1>4. TypeOK /\ StatsBalance /\ [Next]_vars => StatsBalance'
  BY <1>2
<1>. QED
  BY <1>3, <1>4, TypeCorrect, PTL DEF Spec

\* The status page never shows more losses than connects, and while connected
\* it shows a connect that no loss has ended.
THEOREM HistoryAddsUp == Spec => []StatsConsistent
<1>1. TypeOK /\ StatsBalance => StatsConsistent
  BY HandlersFinite DEF TypeOK, StatsBalance, StatsConsistent
<1>. QED
  BY <1>1, TypeCorrect, BalanceInvariant, PTL

-----------------------------------------------------------------------------
(* Which steps touch what.                                                  *)

\* What is written of a link while it is open is never taken back: that is left
\* to the loss of the link and to the start of the next.
Growing == /\ subscribed => subscribed'
           /\ connected => connected'
           /\ connectedAt => connectedAt'
           /\ asked \subseteq asked' /\ missed \subseteq missed'

\* A connect handler steps alone, and only adds.
LEMMA WorkerFrame ==
  ASSUME TypeOK, NEW c \in Conns, Worker(c)
  PROVE  /\ UNCHANGED <<link, conn, lateLoss, shutdown, dpc>> /\ Growing
         /\ wpc[c] # "none" /\ wpc'[c] \notin {"none", "spawned"}
         /\ \A e \in Conns \ {c} : wpc'[e] = wpc[e] /\ wgen'[e] = wgen[e] /\ todo'[e] = todo[e]
<1>1. UNCHANGED <<link, conn, lateLoss, shutdown, dpc>> /\ Growing
  BY DEF TypeOK, Worker, OnConnect, CheckCurrent, Subscribe, SubAck, SubFail, Retry, Count, Report,
         Request, AskOrReturn, Ask, AskFails, AskNext, brokerVars, sessionVars, envVars,
         flagVars, statVars, Growing
<1>2. wpc[c] # "none" /\ wpc'[c] \notin {"none", "spawned"}
  BY DEF TypeOK, Worker, OnConnect, CheckCurrent, Subscribe, SubAck, SubFail, Retry, Count, Report,
         Request, AskOrReturn, Ask, AskFails, AskNext, Goto
<1>3. \A e \in Conns \ {c} : wpc'[e] = wpc[e] /\ wgen'[e] = wgen[e] /\ todo'[e] = todo[e]
  BY DEF TypeOK, Worker, OnConnect, CheckCurrent, Subscribe, SubAck, SubFail, Retry, Count, Report,
         Request, AskOrReturn, Ask, AskFails, AskNext, Goto
<1>. QED BY <1>1, <1>2, <1>3

\* A dropper steps alone, and leaves links and connect handlers as they are.  If
\* a link is open, either lateLoss records the step or nothing of it is undone.
LEMMA DropperFrame ==
  ASSUME TypeOK, NEW d \in Droppers, (d \in Conns /\ LostHandler(d)) \/ DropperStep(d) \/ Notify(d)
  PROVE  /\ UNCHANGED <<link, conn, shutdown, brokerVars, workerVars>>
         /\ dpc[d] \in {"spawned", "flag", "stats", "notify"} /\ dpc'[d] # "none"
         /\ \A e \in Droppers \ {d} : dpc'[e] = dpc[e]
         /\ link = "open" /\ ~lateLoss' =>
               ~lateLoss /\ connGen' = connGen /\ connectedAt' = connectedAt
                         /\ (connected => connected')
<1> USE DEF DropperGoto
<1>1. CASE d \in Conns /\ LostHandler(d)
  BY <1>1 DEF TypeOK, LostHandler, TakesEffect
<1>2. CASE SetDisconnected(d)
  BY <1>2 DEF TypeOK, SetDisconnected, TakesEffect, AfterDrop, statVars
<1>3. CASE RecordLoss(d)
  BY <1>3 DEF TypeOK, RecordLoss, TakesEffect
<1>4. CASE Notify(d)
  BY <1>4 DEF TypeOK, Notify, AfterDrop, envVars, sessionVars, flagVars, statVars
<1>. QED BY <1>1, <1>2, <1>3, <1>4 DEF DropperStep

\* The watchdog and Disconnect leave connect handlers as they are, and open no link.
LEMMA WatchdogFrame ==
  ASSUME TypeOK, WatchdogStep \/ Disconnect
  PROVE  /\ UNCHANGED <<conn, flagVars, workerVars, statVars>>
         /\ link' = "open" => link = "open" /\ UNCHANGED sessionVars
         /\ Stopped => Stopped'
         /\ link = "open" => dpc'[Watchdog] \in {dpc[Watchdog], "idle", "done"}
         /\ \A d \in Conns : dpc'[d] = dpc[d]
<1>1. Watchdog \in Droppers /\ \A d \in Conns : d # Watchdog
  BY DEF Conns, Droppers, Watchdog
<1>2. CASE WatchdogStep
  <2>1. /\ UNCHANGED <<conn, shutdown, flagVars, workerVars, statVars>>
        /\ link' = "open" => link = "open" /\ UNCHANGED sessionVars
    BY <1>2 DEF WatchdogStep, WatchdogTick, Revive, WatchdogExit, envVars
  <2>2. /\ link = "open" => dpc'[Watchdog] \in {dpc[Watchdog], "idle", "done"}
        /\ \A d \in Conns : dpc'[d] = dpc[d]
    <3>1. PICK step \in {"idle", "flag", "done"} :
            dpc' = [dpc EXCEPT ![Watchdog] = step] /\ (link = "open" => step # "flag")
      BY <1>2 DEF WatchdogStep, WatchdogTick, Revive, WatchdogExit, DropperGoto
    <3>. QED BY <1>1, <3>1 DEF TypeOK
  <2>. QED BY <2>1, <2>2 DEF Stopped
<1>3. CASE Disconnect
  BY <1>3 DEF Disconnect, CloseStop, DisconnectClient, Stopped, envVars
<1>. QED BY <1>2, <1>3

-----------------------------------------------------------------------------
(* A quiet server serves.                                                   *)

\* A link that has not come up yet has no handlers, and one that is open has not
\* been lost.
FreshLinks ==
    /\ \A c \in Conns : c > conn => wpc[c] = "none" /\ dpc[c] = "none"
    /\ link = "open" => conn \in Conns /\ dpc[conn] = "none"

LEMMA FreshLinksInvariant == Spec => []FreshLinks
<1>1. Init => FreshLinks
  BY Numbers DEF Init, FreshLinks, Conns, Watchdog
<1>2. TypeOK /\ FreshLinks /\ [Next]_vars => FreshLinks'
  <2> SUFFICES ASSUME TypeOK, FreshLinks, [Next]_vars PROVE FreshLinks'
    OBVIOUS
  <2> USE Numbers DEF FreshLinks
  <2>t. /\ wpc \in [Conns -> WorkerSteps] /\ dpc \in [Droppers -> DropperSteps]
        /\ conn \in 0..MaxConns
    BY DEF TypeOK
  <2>1. CASE LinkUp
    BY <2>1, <2>t DEF LinkUp, Conns
  <2>2. CASE LinkLost \/ GiveUp
    BY <2>2, <2>t DEF LinkLost, GiveUp, workerVars
  <2>3. ASSUME NEW c \in Conns, Worker(c) PROVE FreshLinks'
    BY <2>3, WorkerFrame
  <2>4. ASSUME NEW d \in Droppers, (d \in Conns /\ LostHandler(d)) \/ DropperStep(d) \/ Notify(d)
        PROVE  FreshLinks'
    BY <2>4, DropperFrame DEF workerVars
  <2>5. CASE WatchdogStep \/ Disconnect
    BY <2>5, WatchdogFrame DEF workerVars
  <2>6. CASE UNCHANGED vars
    BY <2>6 DEF vars, envVars, workerVars
  <2>. QED
    BY <2>1, <2>2, <2>3, <2>4, <2>5, <2>6 DEF Next, Environment
<1>. QED
  BY <1>1, <1>2, TypeCorrect, PTL DEF Spec

\* No light has been asked for its state before the loop over them begins.
FirstLightNext == \A c \in Conns : wpc[c] \notin {"request", "ask", "done"} => todo[c] = 1

LEMMA FirstLightInvariant == Spec => []FirstLightNext
<1>1. Init => FirstLightNext
  BY DEF Init, FirstLightNext
<1>2. TypeOK /\ FreshLinks /\ FirstLightNext /\ [Next]_vars => FirstLightNext'
  <2> SUFFICES ASSUME TypeOK, FreshLinks, FirstLightNext, [Next]_vars PROVE FirstLightNext'
    OBVIOUS
  <2> USE DEF FirstLightNext
  <2>t. wpc \in [Conns -> WorkerSteps] /\ todo \in [Conns -> 1..(Entities + 1)]
    BY DEF TypeOK
  <2>1. CASE LinkUp
    <3>1. conn + 1 \in Conns /\ conn + 1 > conn
      BY <2>1, Numbers DEF LinkUp, TypeOK
    <3>2. todo[conn + 1] = 1
      BY <3>1 DEF FreshLinks
    <3>. QED BY <2>1, <2>t, <3>1, <3>2 DEF LinkUp
  <2>2. ASSUME NEW c \in Conns, Worker(c) PROVE FirstLightNext'
    <3>1. wpc'[c] \notin {"request", "ask", "done"} => todo'[c] = 1
      BY <2>2, <2>t DEF Worker, OnConnect, CheckCurrent, Subscribe, SubAck, SubFail, Retry, Count,
                        Report, Request, AskOrReturn, Ask, AskFails, AskNext, Goto
    <3>. QED BY <2>2, <3>1, WorkerFrame
  <2>3. CASE UNCHANGED workerVars
    BY <2>3 DEF workerVars
  <2>4. LinkLost \/ GiveUp \/ UNCHANGED vars => UNCHANGED workerVars
    BY DEF LinkLost, GiveUp, vars
  <2>5. ASSUME NEW d \in Droppers, (d \in Conns /\ LostHandler(d)) \/ DropperStep(d) \/ Notify(d)
        PROVE  UNCHANGED workerVars
    BY <2>5, DropperFrame
  <2>6. WatchdogStep \/ Disconnect => UNCHANGED workerVars
    BY WatchdogFrame
  <2>. QED
    BY <2>1, <2>2, <2>3, <2>4, <2>5, <2>6, Numbers DEF Next, Environment
<1>. QED
  BY <1>1, <1>2, TypeCorrect, FreshLinksInvariant, PTL DEF Spec

\* Handler c is the current one, and what it has done so far is still in force.
OnDuty(c) ==
    /\ Started(c) /\ wgen[c] = connGen
    /\ wpc[c] \in {"count", "report", "request", "ask", "done"} => subscribed
    /\ wpc[c] \in {"report", "request", "ask", "done"} => connectedAt
    /\ wpc[c] \in {"request", "ask", "done"} =>
          connected /\ 1..(todo[c] - 1) \subseteq asked \cup missed
    /\ wpc[c] = "done" => asked \cup missed = Lights

\* While a link that no earlier loss has hit is open there is always a handler
\* that sees to it: one that has still to begin, and will then be the current
\* one, or one on duty.
Attended ==
    link = "open" /\ ~Stopped /\ ~lateLoss => \E c \in Conns : wpc[c] = "spawned" \/ OnDuty(c)

\* A step of the handler on duty leaves it on duty.
LEMMA DutyGoesOn ==
  ASSUME TypeOK, FirstLightNext, NEW c \in Conns, OnDuty(c), Worker(c), link = "open", ~Stopped
  PROVE  OnDuty(c)'
<1>t. /\ wpc \in [Conns -> WorkerSteps] /\ wgen \in [Conns -> Nat]
      /\ todo \in [Conns -> 1..(Entities + 1)] /\ todo[c] \in Nat /\ asked \subseteq Lights
      /\ missed \subseteq Lights /\ Entities \in Nat
  BY EntitiesAssumption DEF TypeOK
<1>1. ~OnConnect(c) /\ Current(c)
  BY DEF OnDuty, Started, OnConnect, Current
<1>2. wgen' = wgen /\ connGen' = connGen
  BY <1>1 DEF Worker, CheckCurrent, Subscribe, SubAck, SubFail, Retry, Count, Report,
              Request, AskOrReturn, Ask, AskFails, AskNext, flagVars
<1>3. Started(c)'
  BY WorkerFrame DEF Started
<1> USE DEF OnDuty, Goto
<1>4. CASE CheckCurrent(c) \/ Subscribe(c) \/ SubFail(c) \/ Retry(c)
  BY <1>1, <1>2, <1>3, <1>4, <1>t DEF CheckCurrent, Subscribe, SubFail, Retry
<1>5. CASE SubAck(c)
  BY <1>2, <1>3, <1>5, <1>t DEF SubAck
<1>6. CASE Count(c)
  BY <1>2, <1>3, <1>6, <1>t DEF Count, brokerVars, sessionVars, envVars
<1>7. CASE Report(c)
  <2>1. todo'[c] = 1
    BY <1>7 DEF Report, FirstLightNext
  <2>. QED BY <1>2, <1>3, <1>7, <1>t, <2>1 DEF Report, brokerVars, sessionVars, envVars, statVars
<1>8. CASE Request(c)
  <2> DEFINE goOn == todo[c] <= Entities /\ Current(c)
  <2>1. AskOrReturn(c, goOn)
    BY <1>8 DEF Request
  <2>2. ~goOn => asked \cup missed = Lights
    <3>1. ~goOn => todo[c] - 1 = Entities
      <4>1. ~goOn => ~(todo[c] <= Entities)
        BY <1>1
      <4>2. todo[c] \in 1..(Entities + 1)
        BY <1>t
      <4>. QED BY <1>t, <4>1, <4>2
    <3>2. 1..(todo[c] - 1) \subseteq asked \cup missed
      BY <2>1 DEF AskOrReturn
    <3>. QED BY <1>t, <3>1, <3>2 DEF Lights
  <2> HIDE DEF goOn
  <2>3. /\ UNCHANGED <<subscribed, asked, missed, connected, connectedAt>>
        /\ wpc[c] = "request" /\ wpc'[c] = (IF goOn THEN "ask" ELSE "done")
        /\ todo'[c] = (IF goOn THEN todo[c] ELSE 1)
    BY <2>1, <1>t DEF AskOrReturn, brokerVars, sessionVars, envVars, flagVars, statVars
  <2>4. 1..(todo'[c] - 1) \subseteq asked \cup missed
    BY <2>3, <1>t
  <2>. QED BY <1>2, <1>3, <2>2, <2>3, <2>4
<1>9. CASE Ask(c) \/ AskFails(c)
  <2>1. /\ wpc[c] = "ask" /\ wpc'[c] = "request" /\ todo'[c] = todo[c] + 1
        /\ UNCHANGED <<subscribed, connected, connectedAt>>
    BY <1>9, <1>t DEF Ask, AskFails, AskNext, flagVars, statVars
  <2>2. asked' \cup missed' = asked \cup missed \cup {todo[c]}
    BY <1>9, <1>1, <2>1 DEF Ask, AskFails, Reached
  <2>3. 1..(todo'[c] - 1) \subseteq asked' \cup missed'
    BY <1>t, <2>1, <2>2
  <2>. QED BY <1>2, <1>3, <2>1, <2>3
<1>. QED BY <1>1, <1>4, <1>5, <1>6, <1>7, <1>8, <1>9 DEF Worker

LEMMA AttendedInvariant == Spec => []Attended
<1>1. Init => Attended
  BY DEF Init, Attended
<1>2. TypeOK /\ FirstLightNext /\ Attended /\ [Next]_vars => Attended'
  <2> SUFFICES ASSUME TypeOK, FirstLightNext, Attended, [Next]_vars,
                      link' = "open", ~Stopped', ~lateLoss'
               PROVE  \E c \in Conns : (wpc[c] = "spawned" \/ OnDuty(c))'
    BY DEF Attended
  <2>1. CASE LinkUp
    <3>1. conn + 1 \in Conns
      BY <2>1, Numbers DEF LinkUp, TypeOK
    <3>2. wpc'[conn + 1] = "spawned"
      BY <2>1, <3>1 DEF LinkUp, TypeOK
    <3>. QED BY <3>1, <3>2
  <2>2. ~LinkLost /\ ~GiveUp
    BY DEF LinkLost, GiveUp
  <2>3. ASSUME NEW c \in Conns, Worker(c)
        PROVE  \E e \in Conns : (wpc[e] = "spawned" \/ OnDuty(e))'
    <3>1. link = "open" /\ ~Stopped /\ ~lateLoss
      BY <2>3, WorkerFrame DEF Stopped
    <3>2. PICK e \in Conns : wpc[e] = "spawned" \/ OnDuty(e)
      BY <3>1 DEF Attended
    <3>3. CASE OnConnect(c)
      <4>1. /\ connGen' = connGen + 1 /\ wgen'[c] = connGen + 1 /\ wpc'[c] = "check"
        BY <3>3 DEF OnConnect, Goto, TypeOK
      <4>2. OnDuty(c)'
        BY <4>1 DEF OnDuty, Started
      <4>. QED BY <4>2
    <3>4. CASE ~OnConnect(c) /\ e # c
      <4>1. connGen' = connGen
        BY <2>3, <3>4 DEF Worker, CheckCurrent, Subscribe, SubAck, SubFail, Retry, Count, Report,
                          Request, AskOrReturn, Ask, AskFails, AskNext, flagVars
      <4>2. Growing /\ wpc'[e] = wpc[e] /\ wgen'[e] = wgen[e] /\ todo'[e] = todo[e]
        BY <2>3, <3>4, WorkerFrame
      <4>3. asked' \cup missed' \subseteq Lights
        <5>1. ~Ask(c) /\ ~AskFails(c) => asked' \subseteq Lights /\ missed' \subseteq Lights
          BY <2>3 DEF TypeOK, Worker, OnConnect, CheckCurrent, Subscribe, SubAck, SubFail, Retry,
                      Count, Report, Request, AskOrReturn, brokerVars, sessionVars, envVars
        <5>2. Ask(c) \/ AskFails(c) => asked' \cup missed' \subseteq Lights
          BY DEF TypeOK, Ask, AskFails, AskNext, Reached
        <5>. QED BY <5>1, <5>2
      <4>4. (wpc[e] = "spawned" \/ OnDuty(e))'
        BY <3>2, <4>1, <4>2, <4>3 DEF OnDuty, Started, Growing
      <4>. QED BY <4>4
    <3>5. CASE ~OnConnect(c) /\ e = c
      <4>1. wpc[c] # "spawned"
        BY <2>3, <3>5 DEF Worker, CheckCurrent, Subscribe, SubAck, SubFail, Retry, Count, Report,
                          Request, AskOrReturn, Ask, AskFails, AskNext
      <4>. QED BY <2>3, <3>1, <3>2, <3>5, <4>1, DutyGoesOn
    <3>. QED BY <3>3, <3>4, <3>5
  <2>4. ASSUME NEW d \in Droppers, (d \in Conns /\ LostHandler(d)) \/ DropperStep(d) \/ Notify(d)
        PROVE  \E c \in Conns : (wpc[c] = "spawned" \/ OnDuty(c))'
    <3>1. link = "open" /\ ~Stopped /\ ~lateLoss
      BY <2>4, DropperFrame DEF Stopped
    <3>2. PICK c \in Conns : wpc[c] = "spawned" \/ OnDuty(c)
      BY <3>1 DEF Attended
    <3>3. (wpc[c] = "spawned" \/ OnDuty(c))'
      BY <2>4, <3>1, <3>2, DropperFrame DEF OnDuty, Started, workerVars, brokerVars
    <3>. QED BY <3>3
  <2>5. CASE WatchdogStep \/ Disconnect
    BY <2>5, WatchdogFrame DEF Attended, OnDuty, Started, workerVars, flagVars, statVars,
                               sessionVars, brokerVars
  <2>6. CASE UNCHANGED vars
    BY <2>6 DEF Attended, OnDuty, Started, Stopped, vars, brokerVars, sessionVars,
                   envVars, workerVars, flagVars, statVars
  <2>. QED
    BY <2>1, <2>2, <2>3, <2>4, <2>5, <2>6, Numbers DEF Next, Environment
<1>. QED
  BY <1>1, <1>2, TypeCorrect, FirstLightInvariant, PTL DEF Spec

\* A server on which no handler is at work serves, for any number of links and
\* lights, unless the loss of an earlier link has hit the present one.
THEOREM QuietServerServes == Spec => []QuietMeansServing
<1>1. Attended => QuietMeansServing
  BY DEF Attended, QuietMeansServing, Quiet, WorkerIdle, OnDuty, Started, Serving
<1>. QED
  BY <1>1, AttendedInvariant, PTL

=============================================================================
