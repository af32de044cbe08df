------------------------ MODULE LiveUpdates_proofs ------------------------
(***************************************************************************)
(* What a browser shows, for any house, any number of streams and messages, *)
(* and any capacity.                                                        *)
(***************************************************************************)
EXTENDS LiveUpdates, SSEBroadcaster_proofs, WellFoundedInduction

\* Item 0 alone has the topic of the mode.
LEMMA ItemFacts ==
  /\ Len(ItemTopics) \in Nat /\ Items \subseteq Nat /\ 0 \in Items
  /\ TopicsOf(0) = {ModeTopic} /\ ModeTopic \in Topics
  /\ \A i \in Items : TopicsOf(i) \subseteq Topics /\ (ModeTopic \in TopicsOf(i) => i = 0)
<1>1. Len(ItemTopics) \in Nat /\ DOMAIN ItemTopics = 1..Len(ItemTopics)
  BY ItemTopicsAssumption
<1>2. Items \subseteq Nat /\ 0 \in Items /\ \A i \in Items : i # 0 => i \in DOMAIN ItemTopics
  BY <1>1 DEF Items
<1>3. TopicsOf(0) = {ModeTopic} /\ \A i \in Items : TopicsOf(i) \subseteq Topics
  BY DEF TopicsOf, Topics
<1>. QED BY <1>1, <1>2, <1>3, ItemTopicsAssumption DEF TopicsOf

\* Every topic belongs to a first item.
LEMMA FirstOwner ==
  ASSUME NEW t \in Topics
  PROVE  ItemOf(t) \in Items /\ t \in TopicsOf(ItemOf(t))
<1>1. Owners(t) # {} /\ Owners(t) \subseteq Nat
  BY ItemFacts DEF Owners, Topics
<1>2. PICK i \in Owners(t) : \A j \in Owners(t) : ~(<<j, i>> \in OpToRel(<, Nat))
  BY <1>1, WFMin, NatLessThanWellFounded
<1>3. \A j \in Owners(t) : i <= j
  <2> SUFFICES ASSUME NEW j \in Owners(t), j < i PROVE FALSE
    BY <1>1
  <2>1. <<j, i>> \in Nat \X Nat /\ <<j, i>>[1] < <<j, i>>[2]
    BY <1>1
  <2>2. <<j, i>> \in OpToRel(<, Nat)
    BY <2>1 DEF OpToRel
  <2>. QED BY <1>2, <2>2
<1>4. ItemOf(t) \in Owners(t)
  BY <1>3 DEF ItemOf
<1>. QED BY <1>4 DEF Owners

\* A cell is an item with one of its topics; item 0 and the mode go together.
LEMMA CellFacts ==
  /\ \A c \in Cells : /\ c[1] \in Items /\ c[2] \in TopicsOf(c[1]) /\ c[2] \in Topics
                      /\ (c[1] = 0 <=> c[2] = ModeTopic)
                      /\ c = <<c[1], c[2]>>
  /\ \A i \in Items : /\ {i} \X TopicsOf(i) \subseteq Cells
                      /\ \A c \in Cells : c \in {i} \X TopicsOf(i) <=> c[1] = i
<1>1. ASSUME NEW c \in Cells
      PROVE  /\ c[1] \in Items /\ c[2] \in TopicsOf(c[1]) /\ c[2] \in Topics
             /\ (c[1] = 0 <=> c[2] = ModeTopic)
             /\ c = <<c[1], c[2]>>
  <2>1. PICK i \in Items : c \in {i} \X TopicsOf(i)
    BY DEF Cells
  <2>2. c[1] = i /\ c[2] \in TopicsOf(i) /\ c = <<c[1], c[2]>>
    BY <2>1
  <2>. QED BY <2>2, ItemFacts
<1>2. ASSUME NEW i \in Items PROVE {i} \X TopicsOf(i) \subseteq Cells
  BY DEF Cells
<1>3. ASSUME NEW i \in Items, NEW c \in Cells
      PROVE  c \in {i} \X TopicsOf(i) <=> c[1] = i
  BY <1>1
<1>. QED BY <1>1, <1>2, <1>3

-----------------------------------------------------------------------------

\* Apart from what it does for browsers, the pipeline is the broadcaster: each
\* of its steps is one of the broadcaster's or leaves that alone.
THEOREM IsBroadcaster == LiveSpec => Spec
<1>1. LiveInit => Init
  BY DEF LiveInit
<1>2. [LiveNext]_liveVars => [Next]_vars
  <2> SUFFICES ASSUME [LiveNext]_liveVars PROVE [Next]_vars
    OBVIOUS
  <2>1. CASE Pipe
    BY <2>1 DEF Pipe, Store, NoApp, SetFlag, Announce, Next
  <2>2. CASE Start
    BY <2>2 DEF Start, BuildApp, SyncRead, SyncSet
  <2>3. CASE ConnectionLost
    BY <2>3 DEF ConnectionLost, Next
  <2>4. ASSUME NEW s \in Streams, Browser(s) PROVE [Next]_vars
    BY <2>4 DEF Browser, OpenStream, ReadCell, FinishSnapshot, DeliverEvent, CloseStream,
                Next, Handler
  <2>5. CASE UNCHANGED liveVars
    BY <2>5 DEF liveVars
  <2>. QED BY <2>1, <2>2, <2>3, <2>4, <2>5 DEF LiveNext
<1>. QED BY <1>1, <1>2, PTL DEF LiveSpec, Spec

-----------------------------------------------------------------------------
(* Types.                                                                   *)

Values == Modes \cup {"a", "b", "absent"}
Events == UNION {[item : {i}, state : [{i} \X TopicsOf(i) -> Values]] : i \in Items}

\* What the pipeline itself keeps.
PipeTypes ==
    /\ cache \in [Topics -> Values] /\ cache[ModeTopic] \in Modes \cup {"absent"}
    /\ flag \in Modes
    /\ handling \in Topics /\ at \in {"idle", "stored", "flagged"}
    /\ at = "stored" => cache[handling] # "absent"
    /\ messages \in 0..MaxMessages
    /\ main \in {"starting", "built", "synced", "serving"}
    /\ seed \in Modes \cup {"absent"}

\* What was broadcast, and what the browsers have of it.
ViewTypes ==
    /\ log \in Seq(Events) /\ Len(log) = sent
    /\ unread \in [Streams -> SUBSET Cells]
    /\ view \in [Streams -> [Cells -> Values \cup {"unseen"}]]

LEMMA NowIsValue ==
  ASSUME PipeTypes, NEW c \in Cells
  PROVE  Now(c) \in Values
BY CellFacts DEF PipeTypes, Now, Values

LEMMA PipeTypesInvariant == LiveSpec => []PipeTypes
<1>1. LiveInit => PipeTypes
  BY ItemFacts, MaxMessagesAssumption DEF LiveInit, PipeTypes, Values, Modes
<1>2. PipeTypes /\ [LiveNext]_liveVars => PipeTypes'
  <2> SUFFICES ASSUME PipeTypes, [LiveNext]_liveVars PROVE PipeTypes'
    OBVIOUS
  <2>1. ASSUME NEW t \in Topics, NEW v \in Payloads(t), Store(t, v) PROVE PipeTypes'
    <3>1. v \in Values /\ v # "absent" /\ (t = ModeTopic => v \in Modes)
      BY DEF Payloads, Values, Modes
    <3>. QED BY <2>1, <3>1, ItemFacts, MaxMessagesAssumption DEF PipeTypes, Store, mainVars
  <2>2. CASE NoApp \/ SetFlag \/ Announce
    BY <2>2 DEF NoApp, SetFlag, Announce, PipeTypes, mainVars, Modes
  <2>3. CASE Start
    BY <2>3 DEF Start, BuildApp, SyncRead, SyncSet, PipeTypes, pipeVars, Modes
  <2>4. CASE UNCHANGED <<pipeVars, mainVars>>
    BY <2>4 DEF PipeTypes, pipeVars, mainVars
  <2>5. ConnectionLost \/ (\E s \in Streams : Browser(s)) \/ UNCHANGED liveVars
          => UNCHANGED <<pipeVars, mainVars>>
    BY DEF ConnectionLost, Browser, OpenStream, ReadCell, FinishSnapshot, DeliverEvent,
           CloseStream, liveVars
  <2>. QED BY <2>1, <2>2, <2>3, <2>4, <2>5 DEF LiveNext, Pipe
<1>. QED BY <1>1, <1>2, PTL DEF LiveSpec

\* An event about an item says something of exactly the cells of that item.
LEMMA EventShape ==
  ASSUME NEW e \in Events
  PROVE  /\ e.item \in Items /\ DOMAIN e.state = {e.item} \X TopicsOf(e.item)
         /\ \A c \in DOMAIN e.state : e.state[c] \in Values
<1>1. PICK i \in Items : e \in [item : {i}, state : [{i} \X TopicsOf(i) -> Values]]
  BY DEF Events
<1>2. e.item = i /\ e.state \in [{i} \X TopicsOf(i) -> Values]
  BY <1>1
<1>. QED BY <1>2

LEMMA EventForIsEvent ==
  ASSUME PipeTypes, NEW i \in Items
  PROVE  EventFor(i) \in Events
<1>1. \A c \in {i} \X TopicsOf(i) : Now(c) \in Values
  BY CellFacts, NowIsValue
<1>2. EventFor(i) \in [item : {i}, state : [{i} \X TopicsOf(i) -> Values]]
  BY <1>1 DEF EventFor
<1>. QED BY <1>2 DEF Events

\* A queue without gaps: its head is the event after the last one written.
LEMMA HeadIsBroadcast ==
  ASSUME TypeOK, NEW s \in Streams, QueueOf(s), buf[s] # <<>>
  PROVE  /\ Head(buf[s]) \in 1..sent /\ written[s] < Head(buf[s])
         /\ s \in clients \ dropped => Head(buf[s]) = written[s] + 1
<1>1. /\ Head(buf[s]) = buf[s][1] /\ Head(buf[s]) \in Nat /\ 1 \in 1..Len(buf[s])
      /\ written[s] \in Nat /\ sent \in Nat
  BY DEF TypeOK
<1>2. written[s] < Head(buf[s]) /\ Head(buf[s]) <= sent
  BY <1>1 DEF QueueOf, Ordered
<1>3. s \in clients \ dropped => Head(buf[s]) = written[s] + 1
  BY <1>1 DEF QueueOf, Consecutive
<1>. QED BY <1>1, <1>2, <1>3

LEMMA ViewTypesInvariant == LiveSpec => []ViewTypes
<1>1. LiveInit => ViewTypes
  BY DEF LiveInit, Init, ViewTypes
<1>2. TypeOK /\ PipeTypes /\ ViewTypes /\ (\A s \in Streams : QueueOf(s))
      /\ [LiveNext]_liveVars => ViewTypes'
  <2> SUFFICES ASSUME TypeOK, PipeTypes, ViewTypes, \A s \in Streams : QueueOf(s),
                      [LiveNext]_liveVars
               PROVE  ViewTypes'
    OBVIOUS
  <2>1. CASE Announce
    <3>1. EventFor(ItemOf(handling)) \in Events
      BY FirstOwner, EventForIsEvent DEF PipeTypes
    <3>2. sent \in Nat /\ sent' = sent + 1
      BY <2>1 DEF Announce, Broadcast, TypeOK
    <3>3. log' \in Seq(Events) /\ Len(log') = Len(log) + 1
      BY <2>1, <3>1 DEF Announce, ViewTypes
    <3>. QED BY <2>1, <3>2, <3>3 DEF Announce, viewVars, ViewTypes
  <2>2. ASSUME NEW s \in Streams, NEW c \in Cells, ReadCell(s, c) PROVE ViewTypes'
    <3>1. Now(c) \in Values
      BY NowIsValue
    <3>2. log' = log /\ sent' = sent
      BY <2>2 DEF ReadCell, vars
    <3>3. unread' \in [Streams -> SUBSET Cells]
      BY <2>2 DEF ReadCell, ViewTypes
    <3>4. view' \in [Streams -> [Cells -> Values \cup {"unseen"}]]
      BY <2>2, <3>1 DEF ReadCell, ViewTypes
    <3>. QED BY <3>2, <3>3, <3>4 DEF ViewTypes
  <2>3. ASSUME NEW s \in Streams, DeliverEvent(s) PROVE ViewTypes'
    <3>1. log' = log /\ sent' = sent /\ unread' = unread /\ buf[s] # <<>>
      BY <2>3 DEF DeliverEvent, Deliver
    <3> DEFINE e == log[Head(buf[s])]
    <3>2. e \in Events
      BY <3>1, HeadIsBroadcast DEF ViewTypes
    <3>3. \A c \in DOMAIN e.state : e.state[c] \in Values
      BY <3>2, EventShape
    <3>4. view' = [view EXCEPT ![s] = [c \in Cells |-> IF c \in DOMAIN e.state
                                                        THEN e.state[c] ELSE @[c]]]
      BY <2>3 DEF DeliverEvent
    <3> HIDE DEF e
    <3>5. view' \in [Streams -> [Cells -> Values \cup {"unseen"}]]
      BY <3>3, <3>4 DEF ViewTypes
    <3>. QED BY <3>1, <3>5 DEF ViewTypes
  <2>4. CASE UNCHANGED <<log, sent, viewVars>>
    BY <2>4 DEF ViewTypes, viewVars
  <2>5. ASSUME \/ \E t \in Topics : \E v \in Payloads(t) : Store(t, v)
               \/ NoApp \/ SetFlag \/ Start \/ ConnectionLost \/ UNCHANGED liveVars
        PROVE  UNCHANGED <<log, sent, viewVars>>
    BY <2>5 DEF Store, NoApp, SetFlag, Start, BuildApp, SyncRead, SyncSet, ConnectionLost,
                DisconnectAll, liveVars, vars
  <2>6. ASSUME NEW s \in Streams, OpenStream(s) \/ FinishSnapshot(s) \/ CloseStream(s)
        PROVE  UNCHANGED <<log, sent, viewVars>>
    BY <2>6 DEF OpenStream, AddClient, FinishSnapshot, WriteSnapshot, CloseStream,
                EndOfStream, HangUp, RemoveClient, CloseChannel
  <2>. QED BY <2>1, <2>2, <2>3, <2>4, <2>5, <2>6 DEF LiveNext, Pipe, Browser
<1>. QED
  BY <1>1, <1>2, IsBroadcaster, TypeCorrect, QueueInvariant, PipeTypesInvariant, PTL DEF LiveSpec

\* Every reachable state of the pipeline is well typed: what is in the cache,
\* in events and on pages are payloads of the house's topics, the flag is a
\* mode, and every event that was broadcast is on record.
THEOREM LiveTypeCorrect == LiveSpec => []LiveTypeOK
<1>1. TypeOK /\ PipeTypes /\ ViewTypes => LiveTypeOK
  BY DEF PipeTypes, ViewTypes, LiveTypeOK, Values
<1>. QED
  BY <1>1, IsBroadcaster, TypeCorrect, PipeTypesInvariant, ViewTypesInvariant, PTL

-----------------------------------------------------------------------------
(* The mode flag.                                                           *)

\* The flag follows the cached mode as soon as a mode message is out of
\* SetFlag's hands; only what main has read before it may still replace it.
FlagFollows ==
    cache[ModeTopic] # "absent" /\ ~(at = "stored" /\ handling = ModeTopic) =>
        /\ main = "synced" /\ seed = "absent" => flag = cache[ModeTopic]
        /\ main = "serving" => flag \in {cache[ModeTopic], seed}

LEMMA FlagFollowsInvariant == LiveSpec => []FlagFollows
<1>1. LiveInit => FlagFollows
  BY DEF LiveInit, FlagFollows
<1>2. PipeTypes /\ FlagFollows /\ [LiveNext]_liveVars => FlagFollows'
  <2> SUFFICES ASSUME PipeTypes, FlagFollows, [LiveNext]_liveVars PROVE FlagFollows'
    OBVIOUS
  <2>1. ASSUME NEW t \in Topics, NEW v \in Payloads(t), Store(t, v) PROVE FlagFollows'
    <3>1. t # ModeTopic => cache'[ModeTopic] = cache[ModeTopic]
      BY <2>1, ItemFacts DEF Store, PipeTypes
    <3>. QED BY <2>1, <3>1 DEF Store, mainVars, FlagFollows
  <2>2. CASE NoApp
    BY <2>2 DEF NoApp, mainVars, FlagFollows
  <2>3. CASE SetFlag
    <3>1. flag' = cache'[ModeTopic]
      BY <2>3 DEF SetFlag, PipeTypes, Modes
    <3>. QED BY <2>3, <3>1 DEF SetFlag, FlagFollows
  <2>4. CASE Announce
    BY <2>4 DEF Announce, mainVars, FlagFollows
  <2>5. CASE Start
    BY <2>5 DEF Start, BuildApp, SyncRead, SyncSet, pipeVars, FlagFollows
  <2>6. CASE UNCHANGED <<pipeVars, mainVars>>
    BY <2>6 DEF FlagFollows, pipeVars, mainVars
  <2>7. ConnectionLost \/ (\E s \in Streams : Browser(s)) \/ UNCHANGED liveVars
          => UNCHANGED <<pipeVars, mainVars>>
    BY DEF ConnectionLost, Browser, OpenStream, ReadCell, FinishSnapshot, DeliverEvent,
           CloseStream, liveVars
  <2>. QED BY <2>1, <2>2, <2>3, <2>4, <2>5, <2>6, <2>7 DEF LiveNext, Pipe
<1>. QED BY <1>1, <1>2, PipeTypesInvariant, PTL DEF LiveSpec

\* However the first mode messages race the start of the program, the flag ends
\* as the cached mode or the one that was seeded (handlers.go:292-297).
THEOREM ModeIsSeeded == LiveSpec => []ModeSeeded
<1>1. FlagFollows => ModeSeeded
  BY DEF FlagFollows, ModeSeeded
<1>. QED BY <1>1, FlagFollowsInvariant, PTL

-----------------------------------------------------------------------------
(* What the browsers show.                                                  *)

\* Streams are opened once the program serves, with a snapshot still to read,
\* and have read it when they come to their events.
SnapshotFirst ==
    /\ clients # {} => main = "serving"
    /\ \A s \in Streams : /\ phase[s] = "idle" => unread[s] = Cells
                          /\ phase[s] = "stream" => unread[s] = {}

LEMMA SnapshotFirstInvariant == LiveSpec => []SnapshotFirst
<1>1. LiveInit => SnapshotFirst
  BY DEF LiveInit, Init, SnapshotFirst
<1>2. TypeOK /\ ViewTypes /\ SnapshotFirst /\ [LiveNext]_liveVars => SnapshotFirst'
  <2> SUFFICES ASSUME TypeOK, ViewTypes, SnapshotFirst, [LiveNext]_liveVars
               PROVE  SnapshotFirst'
    OBVIOUS
  <2> USE DEF SnapshotFirst
  <2>1. CASE UNCHANGED <<clients, phase, unread>> /\ (main = "serving" => main' = "serving")
    BY <2>1
  <2>2. CASE Pipe \/ Start \/ UNCHANGED liveVars
    <3>1. UNCHANGED <<clients, phase, unread>> /\ (main = "serving" => main' = "serving")
      BY <2>2 DEF Pipe, Store, NoApp, SetFlag, Announce, Broadcast, Start, BuildApp, SyncRead,
                  SyncSet, vars, mainVars, viewVars, liveVars
    <3>. QED BY <2>1, <3>1
  <2>3. CASE ConnectionLost
    BY <2>3 DEF ConnectionLost, DisconnectAll, mainVars, viewVars
  <2>4. ASSUME NEW s \in Streams, NEW c \in Cells, ReadCell(s, c) PROVE SnapshotFirst'
    BY <2>4 DEF ReadCell, vars, mainVars, ViewTypes
  <2>5. ASSUME NEW s \in Streams, OpenStream(s) \/ FinishSnapshot(s) PROVE SnapshotFirst'
    BY <2>5 DEF OpenStream, AddClient, FinishSnapshot, WriteSnapshot, mainVars, viewVars, TypeOK
  <2>6. ASSUME NEW s \in Streams, DeliverEvent(s) \/ CloseStream(s) PROVE SnapshotFirst'
    BY <2>6 DEF DeliverEvent, Deliver, CloseStream, EndOfStream, HangUp, RemoveClient,
                CloseChannel, mainVars, viewVars, TypeOK
  <2>. QED BY <2>2, <2>3, <2>4, <2>5, <2>6 DEF LiveNext, Browser
<1>. QED
  BY <1>1, <1>2, IsBroadcaster, TypeCorrect, ViewTypesInvariant, PTL DEF LiveSpec

\* A cell whose message the handler still has in hand.
InHand(c) == at # "idle" /\ handling = c[2]

\* Events n that s has still to write, in its queue if it lost none, and that
\* say something of c.
Behind(s, c) == {n \in 1..sent : written[s] < n /\ log[n].item = c[1]}

\* The last such event says what is so now; without one, the page shows it, or
\* the snapshot has still to read it.
Current(s, c) ==
    /\ \A n \in Behind(s, c) :
          (\A m \in Behind(s, c) : m <= n) => log[n].state[c] = Now(c)
    /\ Behind(s, c) = {} => c \in unread[s] \/ view[s][c] = Now(c)

\* The cells that events are about: a topic's at the first item that has it.
FirstCells == {c \in Cells : ItemOf(c[2]) = c[1]}

\* The inductive form of Converged, for streams in any phase.
UpToDate ==
    \A s \in clients \ dropped : \A c \in FirstCells : InHand(c) \/ Current(s, c)

\* A step that changes neither what is so nor what a stream has or awaits.
LEMMA CurrentFrame ==
  ASSUME NEW s, NEW c, Current(s, c),
         UNCHANGED <<log, sent, written[s], unread[s], view[s], Now(c)>>
  PROVE  Current(s, c)'
<1>1. Behind(s, c)' = Behind(s, c)
  BY DEF Behind
<1>. QED BY <1>1 DEF Current

\* Announcing: the new event is the last one about its item and says what is
\* so of all its cells, the one in hand included.
LEMMA AnnounceKeepsUp ==
  ASSUME TypeOK, PipeTypes, ViewTypes, UpToDate, \A s \in Streams : QueueOf(s), Announce
  PROVE  UpToDate'
<1>1. /\ clients' = clients /\ dropped \subseteq dropped' /\ written' = written
      /\ sent \in Nat /\ sent' = sent + 1 /\ written \in [Streams -> Nat]
      /\ unread' = unread /\ view' = view /\ cache' = cache /\ flag' = flag
      /\ clients \subseteq Streams
  BY DEF Announce, Broadcast, viewVars, TypeOK
<1> DEFINE i == ItemOf(handling)
<1>2. i \in Items /\ EventFor(i) \in Events
  BY FirstOwner, EventForIsEvent DEF PipeTypes
<1>3. /\ log'[sent'] = EventFor(i)
      /\ \A n \in 1..sent : log'[n] = log[n]
  BY <1>1, <1>2 DEF Announce, ViewTypes
<1>4. EventFor(i).item = i
  BY DEF EventFor
<1> HIDE DEF i
<1> SUFFICES ASSUME NEW s \in clients \ dropped', NEW c \in FirstCells
             PROVE  Current(s, c)'
  BY <1>1 DEF UpToDate, FirstCells
<1>5. c \in Cells /\ Now(c)' = Now(c) /\ written[s] \in Nat
  BY <1>1 DEF FirstCells, Now
<1>6. CASE c[1] = i
  <2>1. EventFor(i).state[c] = Now(c)
    BY <1>2, <1>5, <1>6, CellFacts DEF EventFor
  <2>2. \A n \in Behind(s, c)' : n \in 1..sent'
    BY DEF Behind
  <2>3. sent' \in Behind(s, c)'
    <3>1. written[s] <= sent
      BY <1>1 DEF QueueOf
    <3>. QED BY <1>1, <1>3, <1>4, <1>5, <1>6, <3>1 DEF Behind
  <2>4. ASSUME NEW n \in Behind(s, c)', \A m \in Behind(s, c)' : m <= n
        PROVE  n = sent'
    BY <1>1, <2>2, <2>3, <2>4
  <2>. QED BY <1>3, <1>5, <2>1, <2>3, <2>4 DEF Current
<1>7. CASE c[1] # i
  <2>1. c[2] # handling
    BY <1>7 DEF FirstCells, i
  <2>2. Current(s, c)
    BY <1>1, <2>1 DEF UpToDate, InHand
  <2>3. Behind(s, c)' = Behind(s, c)
    BY <1>1, <1>3, <1>4, <1>5, <1>7 DEF Behind
  <2>4. \A n \in Behind(s, c) : log'[n] = log[n]
    BY <1>3 DEF Behind
  <2>. QED BY <1>1, <1>5, <2>2, <2>3, <2>4 DEF Current
<1>. QED BY <1>6, <1>7

\* Writing an event: what it says replaces what the page shows of its item.
LEMMA DeliverKeepsUp ==
  ASSUME TypeOK, ViewTypes, UpToDate, NEW s \in Streams, QueueOf(s), DeliverEvent(s)
  PROVE  UpToDate'
<1> SUFFICES ASSUME NEW t \in clients \ dropped, NEW c \in FirstCells, ~InHand(c)
             PROVE  Current(t, c)'
  BY DEF UpToDate, DeliverEvent, Deliver, pipeVars, InHand
<1>1. Current(t, c) /\ c \in Cells /\ t \in Streams
  BY DEF UpToDate, FirstCells, TypeOK
<1>2. /\ buf[s] # <<>> /\ UNCHANGED <<log, sent, unread, clients, dropped>>
      /\ Now(c)' = Now(c)
      /\ written' = [written EXCEPT ![s] = Head(buf[s])]
      /\ written \in [Streams -> Nat] /\ sent \in Nat
  BY DEF DeliverEvent, Deliver, pipeVars, Now, TypeOK
<1> DEFINE h == Head(buf[s])
           e == log[h]
<1>3. /\ view' = [view EXCEPT ![s] = [d \in Cells |-> IF d \in DOMAIN e.state
                                                       THEN e.state[d] ELSE @[d]]]
      /\ view \in [Streams -> [Cells -> Values \cup {"unseen"}]]
  BY DEF DeliverEvent, ViewTypes
<1>4. CASE t # s
  <2>1. written'[t] = written[t] /\ view'[t] = view[t]
    BY <1>1, <1>2, <1>3, <1>4
  <2>. QED BY <1>1, <1>2, <2>1, CurrentFrame
<1>5. CASE t = s
  <2>1. h \in 1..sent /\ h = written[s] + 1 /\ written'[s] = h
    BY <1>2, <1>5, HeadIsBroadcast
  <2>2. e \in Events
    BY <2>1 DEF ViewTypes
  <2>3. c \in DOMAIN e.state <=> e.item = c[1]
    BY <1>1, <2>2, EventShape, CellFacts
  <2>4. view'[s][c] = IF e.item = c[1] THEN e.state[c] ELSE view[s][c]
    BY <1>1, <1>3, <1>5, <2>3
  <2> HIDE DEF h
  <2>5. Behind(s, c)' = Behind(s, c) \ {h}
    BY <1>2, <2>1 DEF Behind
  <2>6. h \in Behind(s, c) <=> e.item = c[1]
    BY <1>2, <2>1 DEF Behind
  <2>7. \A n \in Behind(s, c) : h <= n /\ n \in Nat
    BY <1>2, <2>1 DEF Behind
  <2> HIDE DEF e
  <2>8. ASSUME NEW n \in Behind(s, c) \ {h}, \A m \in Behind(s, c) \ {h} : m <= n
        PROVE  log[n].state[c] = Now(c)
    <3>1. \A m \in Behind(s, c) : m <= n
      BY <2>7, <2>8
    <3>. QED BY <1>1, <1>5, <3>1 DEF Current
  <2>9. ASSUME Behind(s, c) \ {h} = {}
        PROVE  c \in unread[s] \/ view'[s][c] = Now(c)
    <3>1. CASE e.item = c[1]
      <4>1. \A m \in Behind(s, c) : m <= h
        BY <2>7, <2>9
      <4>2. log[h].state[c] = Now(c)
        BY <1>1, <1>5, <2>6, <3>1, <4>1 DEF Current
      <4>. QED BY <2>4, <3>1, <4>2 DEF e
    <3>2. CASE e.item # c[1]
      BY <1>1, <1>5, <2>4, <2>6, <2>9, <3>2 DEF Current
    <3>. QED BY <3>1, <3>2
  <2>. QED BY <1>2, <1>5, <2>5, <2>8, <2>9 DEF Current
<1>. QED BY <1>4, <1>5

\* A message that is stored, and a mode that is set, are in hand until they are
\* announced; of all other cells they change nothing.
LEMMA HandlerKeepsUp ==
  ASSUME PipeTypes, SnapshotFirst, UpToDate,
         \/ \E t \in Topics : \E v \in Payloads(t) : Store(t, v)
         \/ NoApp \/ SetFlag
  PROVE  UpToDate'
<1>1. UNCHANGED <<clients, dropped, log, sent, written, unread, view>>
  BY DEF Store, NoApp, SetFlag, vars, viewVars
<1>2. CASE clients = {}
  BY <1>1, <1>2 DEF UpToDate
<1>3. CASE clients # {}
  <2>1. main = "serving"
    BY <1>3 DEF SnapshotFirst
  <2> SUFFICES ASSUME NEW s \in clients \ dropped, NEW c \in FirstCells, ~InHand(c)'
               PROVE  Current(s, c)'
    BY <1>1 DEF UpToDate
  <2>2. c \in Cells /\ c[2] \in Topics /\ (c[1] = 0 <=> c[2] = ModeTopic)
    BY CellFacts DEF FirstCells
  <2>3. ~InHand(c) /\ Now(c)' = Now(c)
    <3>1. ASSUME NEW t \in Topics, NEW v \in Payloads(t), Store(t, v)
          PROVE  ~InHand(c) /\ Now(c)' = Now(c)
      BY <2>2, <3>1 DEF Store, InHand, Now, PipeTypes
    <3>2. CASE SetFlag
      BY <2>2, <3>2 DEF SetFlag, InHand, Now
    <3>3. ~NoApp
      BY <2>1 DEF NoApp
    <3>. QED BY <3>1, <3>2, <3>3
  <2>. QED BY <1>1, <2>3, CurrentFrame DEF UpToDate
<1>. QED BY <1>2, <1>3

\* A stream begins with everything unread and nothing behind, and reading a
\* cell makes the page show what is so.
LEMMA SnapshotKeepsUp ==
  ASSUME TypeOK, ViewTypes, SnapshotFirst, UpToDate, NEW s \in Streams,
         OpenStream(s) \/ \E d \in Cells : ReadCell(s, d)
  PROVE  UpToDate'
<1> SUFFICES ASSUME NEW t \in clients' \ dropped', NEW c \in FirstCells, ~InHand(c)
             PROVE  Current(t, c)'
  BY DEF UpToDate, OpenStream, ReadCell, pipeVars, InHand
<1>1. /\ UNCHANGED <<log, sent, Now(c), dropped>> /\ c \in Cells
      /\ sent \in Nat /\ written \in [Streams -> Nat]
  BY DEF OpenStream, AddClient, ReadCell, vars, pipeVars, Now, FirstCells, TypeOK
<1>2. CASE OpenStream(s)
  <2>1. /\ UNCHANGED <<unread, view>> /\ clients' = clients \cup {s}
        /\ written' = [written EXCEPT ![s] = sent] /\ phase[s] = "idle"
    BY <1>2 DEF OpenStream, AddClient, viewVars
  <2>2. CASE t = s
    <3>1. Behind(t, c)' = {} /\ c \in unread[t]
      BY <1>1, <2>1, <2>2 DEF Behind, SnapshotFirst
    <3>. QED BY <2>1, <3>1 DEF Current
  <2>3. CASE t # s
    <3>1. t \in clients \ dropped /\ written'[t] = written[t]
      BY <1>1, <2>1, <2>3
    <3>2. Current(t, c)
      BY <3>1 DEF UpToDate
    <3>. QED BY <1>1, <2>1, <3>1, <3>2, CurrentFrame
  <2>. QED BY <2>2, <2>3
<1>3. ASSUME NEW d \in Cells, ReadCell(s, d) PROVE Current(t, c)'
  <2>1. /\ UNCHANGED <<written, clients>> /\ t \in clients \ dropped /\ t \in Streams
        /\ unread' = [unread EXCEPT ![s] = @ \ {d}]
        /\ view' = [view EXCEPT ![s][d] = Now(d)]
    BY <1>1, <1>3 DEF ReadCell, vars, TypeOK
  <2>2. Current(t, c)
    BY <2>1 DEF UpToDate
  <2>3. Behind(t, c)' = Behind(t, c)
    BY <1>1, <2>1 DEF Behind
  <2>4. unread'[t] = (IF t = s THEN unread[t] \ {d} ELSE unread[t])
        /\ view'[t][c] = (IF t = s /\ c = d THEN Now(c) ELSE view[t][c])
    BY <1>1, <2>1 DEF ViewTypes
  <2>5. c \in unread[t] \/ view[t][c] = Now(c)
          => c \in unread'[t] \/ view'[t][c] = Now(c)
    BY <2>4
  <2>. QED BY <1>1, <2>2, <2>3, <2>5 DEF Current
<1>. QED BY <1>2, <1>3

LEMMA UpToDateInvariant == LiveSpec => []UpToDate
<1>1. LiveInit => UpToDate
  BY DEF LiveInit, Init, UpToDate
<1>2. TypeOK /\ PipeTypes /\ ViewTypes /\ SnapshotFirst /\ (\A s \in Streams : QueueOf(s))
      /\ UpToDate /\ [LiveNext]_liveVars => UpToDate'
  <2> SUFFICES ASSUME TypeOK, PipeTypes, ViewTypes, SnapshotFirst,
                      \A s \in Streams : QueueOf(s), UpToDate, [LiveNext]_liveVars
               PROVE  UpToDate'
    OBVIOUS
  <2>1. CASE Pipe
    BY <2>1, HandlerKeepsUp, AnnounceKeepsUp DEF Pipe
  <2>2. CASE Start
    <3>1. clients' = clients /\ main # "serving"
      BY <2>2 DEF Start, BuildApp, SyncRead, SyncSet, vars
    <3>. QED BY <3>1 DEF SnapshotFirst, UpToDate
  <2>3. ASSUME NEW s \in Streams,
               OpenStream(s) \/ DeliverEvent(s) \/ \E c \in Cells : ReadCell(s, c)
        PROVE  UpToDate'
    BY <2>3, SnapshotKeepsUp, DeliverKeepsUp
  <2>4. CASE /\ clients' \subseteq clients
             /\ UNCHANGED <<dropped, log, sent, written, unread, view, cache, flag, at, handling>>
    <3>1. ASSUME NEW s \in clients \ dropped, NEW c \in FirstCells, InHand(c) \/ Current(s, c)
          PROVE  InHand(c)' \/ Current(s, c)'
      <4>1. InHand(c)' <=> InHand(c)
        BY <2>4 DEF InHand
      <4>2. UNCHANGED <<log, sent, written[s], unread[s], view[s], Now(c)>>
        BY <2>4 DEF Now
      <4>. QED BY <3>1, <4>1, <4>2, CurrentFrame
    <3>. QED BY <2>4, <3>1 DEF UpToDate
  <2>5. ASSUME \/ ConnectionLost \/ UNCHANGED liveVars
               \/ \E s \in Streams : FinishSnapshot(s) \/ CloseStream(s)
        PROVE  /\ clients' \subseteq clients
               /\ UNCHANGED <<dropped, log, sent, written, unread, view, cache, flag, at, handling>>
    BY <2>5 DEF ConnectionLost, DisconnectAll, FinishSnapshot, WriteSnapshot, CloseStream,
                EndOfStream, HangUp, RemoveClient, CloseChannel, liveVars, vars, pipeVars, viewVars
  <2>. QED BY <2>1, <2>2, <2>3, <2>4, <2>5 DEF LiveNext, Browser
<1>. QED
  BY <1>1, <1>2, IsBroadcaster, TypeCorrect, QueueInvariant, PipeTypesInvariant,
     ViewTypesInvariant, SnapshotFirstInvariant, PTL DEF LiveSpec

\* A stream that lost no event and has written all it was sent shows exactly
\* what the server knows, however its snapshot, the message handler and its
\* queue interleaved (sse.go:124-128).
THEOREM PagesConverge == LiveSpec => []Converged
<1>1. TypeOK /\ ViewTypes /\ SnapshotFirst /\ (\A s \in Streams : QueueOf(s)) /\ UpToDate
      => Converged
  <2> SUFFICES ASSUME TypeOK, ViewTypes, SnapshotFirst, \A s \in Streams : QueueOf(s), UpToDate,
                      NEW s \in clients \ dropped, Drained(s),
                      NEW c \in Cells, ItemOf(c[2]) = c[1]
               PROVE  view[s][c] = Now(c)
    BY DEF Converged, ShowsTheTruth
  <2>1. s \in Streams /\ phase[s] = "stream" /\ buf[s] = <<>> /\ at = "idle"
    BY DEF Drained, TypeOK
  <2>2. written[s] = sent /\ sent \in Nat
    BY <2>1 DEF QueueOf, Consecutive, TypeOK
  <2>3. Behind(s, c) = {}
    BY <2>2 DEF Behind
  <2>4. unread[s] = {}
    BY <2>1 DEF SnapshotFirst
  <2>. QED BY <2>1, <2>3, <2>4 DEF UpToDate, FirstCells, InHand, Current
<1>. QED
  BY <1>1, IsBroadcaster, TypeCorrect, QueueInvariant, ViewTypesInvariant,
     SnapshotFirstInvariant, UpToDateInvariant, PTL

=============================================================================
