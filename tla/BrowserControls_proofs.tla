---------------------- MODULE BrowserControls_proofs ----------------------
(***************************************************************************)
(* That the page's controls agree with GET /api, that the events of a light *)
(* are what the API says of it, and the types of the page, for any rooms,   *)
(* bulbs, reports and values dragged to.                                    *)
(***************************************************************************)
EXTENDS BrowserControls, FiniteSetTheorems, TLAPS

Caches == IF card = "heating" THEN [RoomSet -> RoomReports] ELSE [Bulbs -> BulbReports]

Events == {EventFor(i, c) : i \in Items, c \in Caches}

PageTypes ==
  /\ card \in {"heating", "light"} /\ live \in BOOLEAN
  /\ cache \in Caches /\ stream \in Seq(Items \X Events)
  /\ state \in [Items -> Events] /\ DOMAIN shown = Controls

\* An open stream brings the page up to date: the last event about an item is the one the
\* server would make of its cache now, and an item without one is shown as it is.
LastOf(i) == \A k \in DOMAIN stream : k > i => stream[k][1] # stream[i][1]

NewsOnItsWay ==
  live => /\ \A i \in DOMAIN stream : LastOf(i) => stream[i][2] = EventFor(stream[i][1], cache)
          /\ \A item \in Items :
                (\A i \in DOMAIN stream : stream[i][1] # item) => state[item] = EventFor(item, cache)

\* A control that is not behind shows the page's mirror; the level of a light that reports
\* none is nobody's business.
ShowsMirror ==
  /\ \A c \in Controls \ behind :
        (card = "light" /\ c = "level" => HasLevel(state)) => shown[c] = Reading(state)[c]
  /\ HasLevel(state) => dimmer

-----------------------------------------------------------------------------

\* What the server has for an item is an event, and the snapshot one for each.
LEMMA SnapshotFacts ==
  ASSUME PageTypes
  PROVE  /\ \A i \in Items : EventFor(i, cache) \in Events /\ Snapshot[i] = EventFor(i, cache)
         /\ Snapshot \in [Items -> Events]
<1>1. \A i \in Items : EventFor(i, cache) \in Events
  BY DEF PageTypes, Events
<1>. QED BY <1>1 DEF Snapshot

\* The event a report brings is about an item of the card.
LEMMA ReportFacts ==
  ASSUME PageTypes, House
  PROVE  \E item \in Items :
           /\ cache' \in Caches
           /\ \A i \in Items : i # item => EventFor(i, cache') = EventFor(i, cache)
           /\ stream' = IF live THEN Append(stream, <<item, EventFor(item, cache')>>) ELSE stream
           /\ UNCHANGED <<card, live, pageVars>>
<1>1. ASSUME card = "heating", NEW r \in RoomSet, NEW p \in RoomReports, Report(r, p)
      PROVE  /\ r \in Items /\ cache' \in Caches
             /\ \A i \in Items : i # r => EventFor(i, cache') = EventFor(i, cache)
             /\ stream' = IF live THEN Append(stream, <<r, EventFor(r, cache')>>) ELSE stream
             /\ UNCHANGED <<card, live, pageVars>>
  <2>1. cache \in [RoomSet -> RoomReports] /\ Items = RoomSet /\ Caches = [RoomSet -> RoomReports]
    BY <1>1 DEF PageTypes, Caches, Items
  <2>2. cache' = [cache EXCEPT ![r] = p]
    BY <1>1 DEF Report
  <2>3. cache' \in Caches
    BY <2>1, <2>2
  <2>4. \A i \in RoomSet : i # r => EventFor(i, cache') = EventFor(i, cache)
    <3>1. \A i \in RoomSet : i # "light"
      BY RoomsAssumption
    <3>2. \A i \in RoomSet : i # r => cache'[i] = cache[i]
      BY <2>1, <2>2
    <3>. QED BY <3>1, <3>2 DEF EventFor
  <2>. QED BY <1>1, <2>1, <2>3, <2>4 DEF Report
<1>2. ASSUME card = "light", NEW b \in Bulbs, NEW p \in BulbReports, Report(b, p)
      PROVE  /\ "light" \in Items /\ cache' \in Caches
             /\ \A i \in Items : i # "light" => EventFor(i, cache') = EventFor(i, cache)
             /\ stream' = IF live THEN Append(stream, <<"light", EventFor("light", cache')>>) ELSE stream
             /\ UNCHANGED <<card, live, pageVars>>
  <2>1. cache \in [Bulbs -> BulbReports] /\ Items = {"light"} /\ Caches = [Bulbs -> BulbReports]
    BY <1>2 DEF PageTypes, Caches, Items
  <2>2. cache' = [cache EXCEPT ![b] = p]
    BY <1>2 DEF Report
  <2>3. cache' \in Caches
    BY <2>1, <2>2
  <2>. QED BY <1>2, <2>1, <2>3 DEF Report
<1>. QED BY <1>1, <1>2 DEF House

\* A stream that opens brings an event for every item, the server's present one.
LEMMA OpeningFacts ==
  ASSUME PageTypes, StreamOpens
  PROVE  /\ live' = TRUE /\ UNCHANGED <<card, cache, pageVars>>
         /\ stream' \in Seq(Items \X Events)
         /\ \A i \in DOMAIN stream' : stream'[i][2] = EventFor(stream'[i][1], cache)
         /\ \A item \in Items : \E i \in DOMAIN stream' : stream'[i][1] = item
<1> DEFINE order == IF card = "heating" THEN Rooms ELSE <<"light">>
<1>1. /\ live' = TRUE /\ UNCHANGED <<card, cache, pageVars>>
      /\ stream' = [i \in DOMAIN order |-> <<order[i], EventFor(order[i], cache)>>]
  BY DEF StreamOpens
<1>2. order \in Seq(Items) /\ \A item \in Items : \E i \in DOMAIN order : order[i] = item
  <2>1. CASE card = "heating"
    <3>1. order = Rooms /\ Items = RoomSet
      BY <2>1 DEF Items
    <3>. HIDE DEF order
    <3>. QED BY <3>1, RoomsAssumption DEF RoomSet
  <2>2. CASE card # "heating"
    <3>1. order = <<"light">> /\ Items = {"light"}
      BY <2>2 DEF Items
    <3>. HIDE DEF order
    <3>. QED BY <3>1
  <2>. QED BY <2>1, <2>2
<1>. HIDE DEF order
<1>3. \A i \in DOMAIN order : order[i] \in Items /\ <<order[i], EventFor(order[i], cache)>> \in Items \X Events
  BY <1>2, SnapshotFacts
<1>4. DOMAIN order = 1..Len(order) /\ Len(order) \in Nat
  BY <1>2
<1>5. stream' \in Seq(Items \X Events)
  BY <1>1, <1>3, <1>4
<1>. QED BY <1>1, <1>2, <1>5

\* An event goes into the mirror; the stream is shorter by it.
LEMMA MessageFacts ==
  ASSUME PageTypes, onmessage
  PROVE  /\ Head(stream) = stream[1] /\ stream[1] \in Items \X Events
         /\ Tail(stream) \in Seq(Items \X Events)
         /\ state' = [state EXCEPT ![stream[1][1]] = stream[1][2]] /\ state' \in [Items -> Events]
         /\ stream' = Tail(stream) /\ UNCHANGED <<card, cache, live>>
<1>1. stream \in Seq(Items \X Events) /\ stream # <<>>
  BY DEF PageTypes, onmessage
<1>2. Head(stream) = stream[1] /\ stream[1] \in Items \X Events /\ Tail(stream) \in Seq(Items \X Events)
  BY <1>1
<1>3. state' = [state EXCEPT ![stream[1][1]] = stream[1][2]] /\ stream' = Tail(stream)
      /\ UNCHANGED <<card, cache, live>>
  BY <1>2 DEF onmessage
<1>. QED BY <1>2, <1>3 DEF PageTypes

\* What the user and the timers do leaves mirror, cache and stream as they are.
Untouched == UNCHANGED <<card, cache, live, stream, state, dimmer>>

\* Drags, switches and timers leave the rest of the card alone.
LEMMA UserFacts ==
  /\ \A s \in Sliders : \A v : Drag(s, v) =>
        Untouched /\ shown' = [shown EXCEPT ![s] = v] /\ behind' = behind \cup {s}
  /\ \A t \in Toggles : Switch(t) =>
        Untouched /\ shown' = [shown EXCEPT ![t] = ~@] /\ behind' = behind \cup {t}
  /\ \A s \in Sliders : DebounceEnds(s) => Untouched /\ UNCHANGED <<shown, behind>>
  /\ \A c \in Controls : Expire(c) => Untouched /\ UNCHANGED <<shown, behind>>
  /\ Drop => Untouched /\ UNCHANGED <<shown, behind>>
  /\ UNCHANGED vars => Untouched /\ UNCHANGED <<shown, behind>>
<1>1. \A s \in Sliders : \A v : Drag(s, v) =>
        Untouched /\ shown' = [shown EXCEPT ![s] = v] /\ behind' = behind \cup {s}
  BY DEF Drag, Untouched
<1>2. \A t \in Toggles : Switch(t) =>
        Untouched /\ shown' = [shown EXCEPT ![t] = ~@] /\ behind' = behind \cup {t}
  BY DEF Switch, Untouched
<1>3. \A s \in Sliders : DebounceEnds(s) => Untouched /\ UNCHANGED <<shown, behind>>
  BY DEF DebounceEnds, Untouched
<1>4. \A c \in Controls : Expire(c) => Untouched /\ UNCHANGED <<shown, behind>>
  BY DEF Expire, Untouched
<1>5. Drop => Untouched /\ UNCHANGED <<shown, behind>>
  BY DEF Drop, Untouched
<1>6. UNCHANGED vars => Untouched /\ UNCHANGED <<shown, behind>>
  BY DEF vars, pageVars, Untouched
<1>. QED BY <1>1, <1>2, <1>3, <1>4, <1>5, <1>6

\* A user's action changes one control, which is then behind.
LEMMA ActionFacts ==
  ASSUME PageTypes,
         \/ \E s \in Sliders, v \in DragValues : Drag(s, v)
         \/ \E t \in Toggles : Switch(t)
         \/ Timing \/ Drop \/ UNCHANGED vars
  PROVE  /\ Untouched /\ DOMAIN shown' = Controls
         /\ \A c \in Controls \ behind' : c \notin behind /\ shown'[c] = shown[c]
<1>1. Untouched
  BY UserFacts DEF Timing
<1>2. \/ \E s, v : shown' = [shown EXCEPT ![s] = v] /\ behind' = behind \cup {s}
      \/ \E t : shown' = [shown EXCEPT ![t] = ~@] /\ behind' = behind \cup {t}
      \/ UNCHANGED <<shown, behind>>
  BY UserFacts DEF Timing
<1>3. DOMAIN shown = Controls
  BY DEF PageTypes
<1>. QED BY <1>1, <1>2, <1>3

-----------------------------------------------------------------------------

\* The messages and the mirror hold events of the card's items.
LEMMA PageTyped == Spec => []PageTypes
<1>1. Init => PageTypes
  <2> SUFFICES ASSUME Init PROVE PageTypes
    OBVIOUS
  <2>1. card \in {"heating", "light"} /\ live \in BOOLEAN /\ cache \in Caches
    BY DEF Init, Caches
  <2>2. stream \in Seq(Items \X Events)
    <3>1. stream = <<>>
      BY DEF Init
    <3>. QED BY <3>1
  <2>3. state \in [Items -> Events]
    <3>1. \A i \in Items : EventFor(i, cache) \in Events
      BY <2>1 DEF Events
    <3>. QED BY <3>1 DEF Init, Snapshot
  <2>4. DOMAIN shown = Controls
    BY DEF Init, LoadedFrom
  <2>. QED BY <2>1, <2>2, <2>3, <2>4 DEF PageTypes
<1>2. ASSUME PageTypes, [Next]_vars PROVE PageTypes'
  <2>0. card' = card => Items' = Items /\ Caches' = Caches /\ Events' = Events /\ Controls' = Controls
    BY DEF Items, Caches, Events, Controls, Sliders, Toggles
  <2>1. CASE House
    <3>1. PICK item \in Items :
             /\ cache' \in Caches
             /\ stream' = IF live THEN Append(stream, <<item, EventFor(item, cache')>>) ELSE stream
             /\ UNCHANGED <<card, live, pageVars>>
      BY <1>2, <2>1, ReportFacts
    <3>2. <<item, EventFor(item, cache')>> \in Items \X Events
      BY <3>1 DEF Events
    <3>3. stream' \in Seq(Items \X Events)
      BY <1>2, <3>1, <3>2 DEF PageTypes
    <3>4. UNCHANGED <<state, shown, card, live>>
      BY <3>1 DEF pageVars
    <3>. QED BY <1>2, <2>0, <3>1, <3>3, <3>4 DEF PageTypes
  <2>2. CASE StreamBreaks
    <3>1. live' \in BOOLEAN /\ stream' \in Seq(Items \X Events) /\ UNCHANGED <<card, cache, state, shown>>
      <4>1. stream' = <<>> /\ live' = FALSE /\ UNCHANGED <<card, cache, state, shown>>
        BY <2>2 DEF StreamBreaks, pageVars
      <4>2. <<>> \in Seq(Items \X Events) /\ FALSE \in BOOLEAN
        OBVIOUS
      <4>3. stream' \in Seq(Items \X Events) /\ live' \in BOOLEAN
        BY <4>1, <4>2
      <4>. QED BY <4>1, <4>3
    <3>. QED BY <1>2, <2>0, <3>1 DEF PageTypes
  <2>3. CASE StreamOpens
    <3>1. live' \in BOOLEAN /\ stream' \in Seq(Items \X Events) /\ UNCHANGED <<card, cache, state, shown>>
      BY <1>2, <2>3, OpeningFacts DEF pageVars
    <3>. QED BY <1>2, <2>0, <3>1 DEF PageTypes
  <2>4. CASE onmessage
    <3>1. /\ state' \in [Items -> Events] /\ stream' \in Seq(Items \X Events)
          /\ UNCHANGED <<card, cache, live>>
      BY <1>2, <2>4, MessageFacts
    <3>2. DOMAIN shown' = Controls
      BY <2>4 DEF onmessage
    <3>. QED BY <1>2, <2>0, <3>1, <3>2 DEF PageTypes
  <2>5. CASE Reload
    <3>1. live' = FALSE /\ stream' = <<>> /\ state' = Snapshot /\ UNCHANGED <<card, cache>>
      BY <2>5 DEF Reload
    <3>2. DOMAIN shown' = Controls
      BY <2>5 DEF Reload, LoadedFrom
    <3>3. state' \in [Items -> Events] /\ stream' \in Seq(Items \X Events)
      BY <1>2, <3>1, SnapshotFacts
    <3>. QED BY <1>2, <2>0, <3>1, <3>2, <3>3 DEF PageTypes
  <2>6. ASSUME \/ \E s \in Sliders, v \in DragValues : Drag(s, v)
               \/ \E t \in Toggles : Switch(t)
               \/ Timing \/ Drop \/ UNCHANGED vars
        PROVE  PageTypes'
    <3>1. Untouched /\ DOMAIN shown' = Controls
      BY <1>2, <2>6, ActionFacts
    <3>. QED BY <1>2, <2>0, <3>1 DEF PageTypes, Untouched
  <2>. QED BY <1>2, <2>1, <2>2, <2>3, <2>4, <2>5, <2>6 DEF Next, UserActs
<1>. QED BY <1>1, <1>2, PTL DEF Spec

\* Nothing but the last event about an item matters, and that is the server's.
LEMMA NewsKeepsComing == Spec => []NewsOnItsWay
<1>1. Init => NewsOnItsWay
  BY DEF Init, NewsOnItsWay
<1>2. ASSUME PageTypes, NewsOnItsWay, [Next]_vars PROVE NewsOnItsWay'
  <2>0. card' = card => Items' = Items
    BY DEF Items
  <2>1. CASE House
    <3> SUFFICES ASSUME live' PROVE NewsOnItsWay'
      BY DEF NewsOnItsWay
    <3>1. PICK item \in Items :
             /\ \A i \in Items : i # item => EventFor(i, cache') = EventFor(i, cache)
             /\ stream' = IF live THEN Append(stream, <<item, EventFor(item, cache')>>) ELSE stream
             /\ UNCHANGED <<card, live, pageVars>>
      BY <1>2, <2>1, ReportFacts
    <3> DEFINE n == Len(stream)
               event == EventFor(item, cache')
    <3>2. /\ live /\ stream' = Append(stream, <<item, event>>) /\ state' = state /\ Items' = Items
          /\ stream \in Seq(Items \X Events) /\ n \in Nat /\ DOMAIN stream = 1..n
      BY <1>2, <2>0, <3>1 DEF PageTypes, pageVars
    <3>. HIDE DEF event
    <3>3. /\ DOMAIN stream' = 1..(n + 1) /\ stream'[n + 1] = <<item, event>>
          /\ \A i \in 1..n : stream'[i] = stream[i] /\ stream[i][1] \in Items
      BY <3>2
    <3>4. ASSUME NEW i \in DOMAIN stream', LastOf(i)'
          PROVE  stream'[i][2] = EventFor(stream'[i][1], cache')
      <4>1. CASE i = n + 1
        BY <3>3, <4>1 DEF event
      <4>2. CASE i \in 1..n
        <5>1. stream[i][1] # item
          <6>1. n + 1 \in DOMAIN stream' /\ n + 1 > i
            BY <3>2, <3>3, <4>2
          <6>2. stream'[n + 1][1] # stream'[i][1]
            BY <3>4, <6>1 DEF LastOf
          <6>. QED BY <3>3, <4>2, <6>2
        <5>2. \A k \in DOMAIN stream : k \in DOMAIN stream' /\ stream'[k] = stream[k]
          BY <3>2, <3>3
        <5>3. LastOf(i)
          BY <3>4, <4>2, <5>2, <3>3 DEF LastOf
        <5>4. stream[i][2] = EventFor(stream[i][1], cache)
          BY <1>2, <3>2, <4>2, <5>3 DEF NewsOnItsWay
        <5>. QED BY <3>1, <3>3, <4>2, <5>1, <5>4
      <4>. QED BY <3>2, <3>3, <3>4, <4>1, <4>2
    <3>5. ASSUME NEW o \in Items, \A i \in DOMAIN stream' : stream'[i][1] # o
          PROVE  state'[o] = EventFor(o, cache')
      <4>1. n + 1 \in DOMAIN stream' /\ \A i \in DOMAIN stream : i \in DOMAIN stream' /\ stream'[i] = stream[i]
        BY <3>2, <3>3
      <4>2. o # item /\ \A i \in DOMAIN stream : stream[i][1] # o
        BY <3>3, <3>5, <4>1
      <4>. QED BY <1>2, <3>1, <3>2, <4>2 DEF NewsOnItsWay
    <3>. QED BY <3>2, <3>4, <3>5 DEF NewsOnItsWay
  <2>2. CASE StreamBreaks \/ Reload
    BY <2>2 DEF StreamBreaks, Reload, NewsOnItsWay
  <2>3. CASE StreamOpens
    <3>1. /\ UNCHANGED <<card, cache>>
          /\ \A i \in DOMAIN stream' : stream'[i][2] = EventFor(stream'[i][1], cache)
          /\ \A item \in Items : \E i \in DOMAIN stream' : stream'[i][1] = item
      BY <1>2, <2>3, OpeningFacts
    <3>. QED BY <2>0, <3>1 DEF NewsOnItsWay
  <2>4. CASE onmessage
    <3> SUFFICES ASSUME live' PROVE NewsOnItsWay'
      BY DEF NewsOnItsWay
    <3>1. /\ stream[1] \in Items \X Events
          /\ state' = [state EXCEPT ![stream[1][1]] = stream[1][2]]
          /\ stream' = Tail(stream) /\ UNCHANGED <<card, cache, live>> /\ Items' = Items
      BY <1>2, <2>0, <2>4, MessageFacts
    <3>2. /\ stream \in Seq(Items \X Events) /\ stream # <<>> /\ state \in [Items -> Events]
      BY <1>2, <2>4 DEF PageTypes, onmessage
    <3>3. /\ 1 \in DOMAIN stream
          /\ \A i \in DOMAIN stream' : /\ i \in Nat /\ i + 1 \in DOMAIN stream
                                       /\ stream'[i] = stream[i + 1]
          /\ \A i \in DOMAIN stream : /\ i \in Nat
                                      /\ i # 1 => i - 1 \in DOMAIN stream' /\ stream'[i - 1] = stream[i]
      BY <3>1, <3>2
    <3>4. ASSUME NEW i \in DOMAIN stream', LastOf(i)'
          PROVE  stream'[i][2] = EventFor(stream'[i][1], cache')
      <4>1. ASSUME NEW k \in DOMAIN stream, k > i + 1 PROVE stream[k][1] # stream[i + 1][1]
        <5>1. k - 1 \in DOMAIN stream' /\ stream'[k - 1] = stream[k] /\ k - 1 > i
          BY <3>3, <3>4, <4>1
        <5>. QED BY <3>3, <3>4, <5>1 DEF LastOf
      <4>2. LastOf(i + 1) /\ i + 1 \in DOMAIN stream
        BY <3>3, <4>1 DEF LastOf
      <4>3. stream[i + 1][2] = EventFor(stream[i + 1][1], cache)
        BY <1>2, <3>1, <4>2 DEF NewsOnItsWay
      <4>. QED BY <3>1, <3>3, <4>3
    <3>5. ASSUME NEW o \in Items, \A i \in DOMAIN stream' : stream'[i][1] # o
          PROVE  state'[o] = EventFor(o, cache')
      <4>1. \A k \in DOMAIN stream : k # 1 => stream[k][1] # o
        BY <3>3, <3>5
      <4>2. CASE stream[1][1] = o
        <5>1. LastOf(1)
          BY <3>3, <4>1, <4>2 DEF LastOf
        <5>2. stream[1][2] = EventFor(o, cache)
          BY <1>2, <3>1, <3>3, <4>2, <5>1 DEF NewsOnItsWay
        <5>. QED BY <3>1, <3>2, <4>2, <5>2
      <4>3. CASE stream[1][1] # o
        <5>1. state[o] = EventFor(o, cache)
          BY <1>2, <3>1, <4>1, <4>3 DEF NewsOnItsWay
        <5>. QED BY <3>1, <3>2, <4>3, <5>1
      <4>. QED BY <4>2, <4>3
    <3>. QED BY <3>1, <3>4, <3>5 DEF NewsOnItsWay
  <2>5. ASSUME Untouched PROVE NewsOnItsWay'
    BY <1>2, <2>0, <2>5 DEF NewsOnItsWay, LastOf, Untouched
  <2>. QED BY <1>2, <2>1, <2>2, <2>3, <2>4, <2>5, ActionFacts DEF Next, UserActs
<1>. QED BY <1>1, <1>2, PageTyped, PTL DEF Spec

-----------------------------------------------------------------------------

\* What an event changes of the reading of the mirror is what it concerns.
LEMMA OnlyConcerned ==
  ASSUME PageTypes, NEW item \in Items, NEW event, NEW m, m = [state EXCEPT ![item] = event],
         NEW c \in Controls, c \notin Concerned(item, event)
  PROVE  \/ Reading(m)[c] = Reading(state)[c] /\ ~(card = "light" /\ c = "level")
         \/ card = "light" /\ c = "level" /\ ~HasLevel(m)
<1>1. CASE card = "heating"
  <2>1. Items = RoomSet /\ Controls = {"temp", "quiet"} \cup RoomSet /\ item # "light"
    BY <1>1, RoomsAssumption DEF Items, Controls, Sliders, Toggles
  <2>2. c \in RoomSet /\ c # item /\ c # "temp" /\ c # "quiet"
    BY <2>1 DEF Concerned
  <2>3. Reading(m)[c] = m[c].power /\ Reading(state)[c] = state[c].power
    BY <1>1, <2>1, <2>2 DEF Reading
  <2>. QED BY <1>1, <2>1, <2>2, <2>3 DEF PageTypes
<1>2. CASE card = "light"
  <2>1. item = "light" /\ Controls = {"level", "on"}
    BY <1>2 DEF Items, Controls, Sliders, Toggles
  <2>2. c = "level" /\ event.brightness = NoNumber
    BY <2>1 DEF Concerned
  <2>3. m["light"] = event
    BY <2>1 DEF PageTypes
  <2>. QED BY <1>2, <2>2, <2>3 DEF HasLevel
<1>. QED BY <1>1, <1>2 DEF PageTypes

\* A page that is loaded shows its mirror.
LEMMA LoadedShowsMirror ==
  ASSUME card \in {"heating", "light"}, NEW m, NEW c \in Controls,
         card = "light" /\ c = "level" => HasLevel(m)
  PROVE  LoadedFrom(m)[c] = Reading(m)[c]
<1>1. ASSUME card = "heating" PROVE c # "level"
  <2>1. Controls = {"temp", "quiet"} \cup RoomSet
    BY <1>1 DEF Controls, Sliders, Toggles
  <2>. QED BY <2>1, RoomsAssumption
<1>. QED BY <1>1 DEF LoadedFrom

\* And what the user does not touch goes on showing it.
LEMMA MirrorIsShown == Spec => []ShowsMirror
<1>1. Init => ShowsMirror
  <2> SUFFICES ASSUME Init PROVE ShowsMirror
    OBVIOUS
  <2>1. /\ card \in {"heating", "light"}
        /\ state = Snapshot /\ shown = LoadedFrom(state) /\ dimmer = HasLevel(state)
    BY DEF Init
  <2>. HIDE DEF Init
  <2>. QED BY <2>1, LoadedShowsMirror DEF ShowsMirror
<1>2. ASSUME PageTypes, ShowsMirror, [Next]_vars PROVE ShowsMirror'
  <2>0. card' = card => /\ Controls' = Controls
                        /\ Reading(state)' = Reading(state')
                        /\ HasLevel(state)' <=> HasLevel(state')
    BY DEF Controls, Sliders, Toggles, Reading, HasLevel
  <2>1. ASSUME UNCHANGED <<card, state, dimmer>>, DOMAIN shown' = Controls,
               \A c \in Controls \ behind' : c \notin behind /\ shown'[c] = shown[c]
        PROVE  ShowsMirror'
    BY <1>2, <2>0, <2>1 DEF ShowsMirror
  <2>2. CASE House \/ StreamBreaks \/ StreamOpens
    <3>1. UNCHANGED <<card, state, dimmer, shown, behind>>
      <4>1. CASE House
        BY <1>2, <4>1, ReportFacts DEF pageVars
      <4>. QED BY <2>2, <4>1 DEF StreamBreaks, StreamOpens, pageVars
    <3>2. DOMAIN shown' = Controls
      BY <1>2, <3>1 DEF PageTypes
    <3>. QED BY <2>1, <3>1, <3>2
  <2>3. CASE onmessage
    <3> DEFINE item == stream[1][1]
               event == stream[1][2]
    <3>1. /\ item \in Items /\ state' = [state EXCEPT ![item] = event]
          /\ card' = card /\ Head(stream) = stream[1]
      BY <1>2, <2>3, MessageFacts
    <3>2. PICK rendered :
            /\ \A c \in rendered : c \in Concerned(item, event)
            /\ shown' = [c \in Controls |-> IF c \in rendered THEN Reading(state')[c] ELSE shown[c]]
            /\ behind' = (behind \cup Concerned(item, event)) \ rendered
            /\ dimmer' = (dimmer \/ HasLevel(state'))
      <4> DEFINE rendered == Concerned(item, event) \ (window \cup {held})
      <4>1. /\ shown' = [c \in Controls |-> IF c \in rendered THEN Reading(state')[c] ELSE shown[c]]
            /\ behind' = (behind \cup Concerned(item, event)) \ rendered
            /\ dimmer' = (dimmer \/ HasLevel(state'))
        BY <2>3, <3>1 DEF onmessage
      <4>. QED BY <4>1
    <3>. HIDE DEF item, event
    <3>3. ASSUME NEW c \in Controls, c \notin behind', card = "light" /\ c = "level" => HasLevel(state')
          PROVE  shown'[c] = Reading(state')[c]
      <4>1. CASE c \in rendered
        BY <3>2, <4>1
      <4>2. CASE c \notin rendered
        <5>1. c \notin Concerned(item, event) /\ c \notin behind /\ shown'[c] = shown[c]
          BY <3>2, <3>3, <4>2
        <5>2. Reading(state')[c] = Reading(state)[c] /\ ~(card = "light" /\ c = "level")
          BY <1>2, <3>1, <3>3, <5>1, OnlyConcerned
        <5>. QED BY <1>2, <5>1, <5>2 DEF ShowsMirror
      <4>. QED BY <4>1, <4>2
    <3>. QED BY <2>0, <3>1, <3>2, <3>3 DEF ShowsMirror
  <2>4. CASE Reload
    <3>1. card' = card /\ shown' = LoadedFrom(state') /\ dimmer' = HasLevel(state')
      BY <2>4 DEF Reload
    <3>. QED BY <1>2, <2>0, <3>1, LoadedShowsMirror DEF ShowsMirror, PageTypes
  <2>5. ASSUME \/ \E s \in Sliders, v \in DragValues : Drag(s, v)
               \/ \E t \in Toggles : Switch(t)
               \/ Timing \/ Drop \/ UNCHANGED vars
        PROVE  ShowsMirror'
    BY <1>2, <2>1, <2>5, ActionFacts DEF Untouched
  <2>. QED BY <1>2, <2>2, <2>3, <2>4, <2>5 DEF Next, UserActs
<1>. QED BY <1>1, <1>2, PageTyped, PTL DEF Spec

\* The page's sums over a mirror that is the server's are those of GET /api: each is
\* written down twice in the code, in index.html and in api.go.
LEMMA SameSums ==
  ASSUME PageTypes, state = Snapshot, NEW c \in Controls,
         card = "light" /\ c = "level" => HasLevel(state)
  PROVE  Reading(state)[c] = Documented[c]
<1>1. CASE card = "heating"
  <2>1. Items = RoomSet /\ Controls = {"temp", "quiet"} \cup RoomSet /\ DOMAIN Snapshot = RoomSet
    BY <1>1 DEF Items, Controls, Sliders, Toggles, Snapshot
  <2> DEFINE on == {r \in RoomSet : Snapshot[r].power}
             considered == IF on # {} THEN on ELSE RoomSet
  <2>2. /\ summarizeHeating(Snapshot).target_temp = Max({Snapshot[r].target_temp : r \in considered})
        /\ summarizeHeating(Snapshot).quiet = \A r \in considered : Snapshot[r].quiet
    BY <2>1 DEF summarizeHeating
  <2>3. Reading(state)[c] = CASE c = "temp"  -> Temperature(Max({Snapshot[r].target_temp : r \in considered}))
                              [] c = "quiet" -> \A r \in considered : Snapshot[r].quiet
                              [] OTHER       -> Snapshot[c].power
    BY <1>1 DEF Reading
  <2>4. Documented[c] = CASE c = "temp"  -> Temperature(summarizeHeating(Snapshot).target_temp)
                          [] c = "quiet" -> summarizeHeating(Snapshot).quiet
                          [] OTHER       -> Snapshot[c].power
    BY <1>1 DEF Documented
  <2>. QED BY <2>2, <2>3, <2>4
<1>2. CASE card = "light"
  <2>1. Controls = {"level", "on"}
    BY <1>2 DEF Controls, Sliders, Toggles
  <2>2. CASE c = "on"
    BY <1>2, <2>2 DEF Reading, Documented
  <2>3. CASE c = "level"
    <3>1. Snapshot["light"].brightness # NoNumber
      BY <1>2, <2>3 DEF HasLevel
    <3>2. /\ apiLight(Snapshot["light"]).dimmable
          /\ apiLight(Snapshot["light"]).set_power = Snapshot["light"].brightness
      BY <3>1 DEF apiLight
    <3>. QED BY <1>2, <2>3, <3>2 DEF Reading, Documented
  <2>. QED BY <2>1, <2>2, <2>3
<1>. QED BY <1>1, <1>2 DEF PageTypes

\* Once the events are in, the page and GET /api agree on every control that the user has
\* left alone, for any rooms, bulbs and reports: whatever order events, drags, toggles, timers,
\* broken streams and reloads come in.
THEOREM PageAgrees == Spec => []AgreesWithAPI
<1>1. PageTypes /\ NewsOnItsWay /\ ShowsMirror => AgreesWithAPI
  <2> SUFFICES ASSUME PageTypes, NewsOnItsWay, ShowsMirror, live, stream = <<>>
               PROVE  /\ \A c \in Controls \ behind : shown[c] = Documented[c]
                      /\ card = "light" /\ apiLight(Snapshot["light"]).dimmable => dimmer
    BY DEF AgreesWithAPI
  <2>1. state = Snapshot
    <3>1. \A item \in Items : state[item] = Snapshot[item]
      BY SnapshotFacts DEF NewsOnItsWay
    <3>2. state \in [Items -> Events] /\ Snapshot \in [Items -> Events]
      BY SnapshotFacts DEF PageTypes
    <3>. QED BY <3>1, <3>2
  <2>2. ASSUME NEW c \in Controls \ behind PROVE shown[c] = Documented[c]
    <3>1. CASE card = "light" /\ c = "level" => HasLevel(state)
      BY <2>1, <3>1, SameSums DEF ShowsMirror
    <3>2. CASE card = "light" /\ c = "level" /\ ~HasLevel(state)
      <4>1. ~apiLight(Snapshot["light"]).dimmable
        BY <2>1, <3>2 DEF HasLevel, apiLight
      <4>. QED BY <3>2, <4>1 DEF Documented
    <3>. QED BY <3>1, <3>2
  <2>3. card = "light" /\ apiLight(Snapshot["light"]).dimmable => HasLevel(state)
    BY <2>1 DEF apiLight, HasLevel
  <2>. QED BY <2>2, <2>3 DEF ShowsMirror
<1>. QED BY <1>1, PageTyped, NewsKeepsComing, MirrorIsShown, PTL

-----------------------------------------------------------------------------

(* The loop of buildLightEvent, one bulb after the other in any order: its   *)
(* result is established by induction on the number of bulbs.               *)

\* A set of numbers that has 0 and the successor of each of its members has them all.
LEMMA Upwards ==
  ASSUME NEW A, 0 \in A, \A n \in Nat : n \in A => n + 1 \in A
  PROVE  Nat \subseteq A
<1> DEFINE T == Nat \ A
<1>1. SUFFICES ASSUME T # {} PROVE FALSE
  OBVIOUS
<1>2. PICK n \in T : \A k \in T : ~ (<<k, n>> \in OpToRel(<, Nat))
  BY <1>1, WFMin, NatLessThanWellFounded
<1>3. n # 0 /\ n - 1 \in Nat
  OBVIOUS
<1>4. <<n - 1, n>> \in OpToRel(<, Nat)
  BY <1>3 DEF OpToRel
<1>5. n - 1 \in A
  BY <1>2, <1>3, <1>4
<1>. QED BY <1>3, <1>5

\* The larger of two.
LEMMA MaxOfTwo ==
  ASSUME NEW a \in Int, NEW b \in Int
  PROVE  Max({a, b}) = IF a >= b THEN a ELSE b
BY DEF Max

\* What is in a set and as large as any of it is its largest.
LEMMA MaxIs ==
  ASSUME NEW S \in SUBSET Int, NEW m \in S, \A x \in S : m >= x
  PROVE  Max(S) = m
<1>1. \A y \in S : (\A x \in S : y >= x) => y = m
  <2> SUFFICES ASSUME NEW y \in S, \A x \in S : y >= x PROVE y = m
    OBVIOUS
  <2>1. y >= m /\ m >= y /\ y \in Int /\ m \in Int
    OBVIOUS
  <2>. QED BY <2>1
<1>. QED BY <1>1 DEF Max

\* A set of numbers that is finite and not empty has a largest.
LEMMA MaxExists ==
  ASSUME NEW S \in SUBSET Int, IsFiniteSet(S), S # {}
  PROVE  Max(S) \in S
<1> DEFINE A == {n \in Nat : \A s \in SUBSET S : s # {} /\ Cardinality(s) <= n
                                => \E m \in s : \A x \in s : m >= x}
<1>0. \A s \in SUBSET S : IsFiniteSet(s) /\ Cardinality(s) \in Nat
  BY FS_Subset, FS_CardinalityType
<1>1. 0 \in A
  <2>1. \A s \in SUBSET S : Cardinality(s) <= 0 => s = {}
    BY <1>0, FS_EmptySet
  <2>. QED BY <2>1
<1>2. ASSUME NEW n \in Nat, n \in A PROVE n + 1 \in A
  <2>1. ASSUME NEW s \in SUBSET S, s # {}, Cardinality(s) <= n + 1
        PROVE  \E m \in s : \A x \in s : m >= x
    <3>1. PICK a \in s : TRUE
      BY <2>1
    <3>2. s \ {a} \in SUBSET S /\ Cardinality(s \ {a}) <= n
      BY <1>0, <2>1, <3>1, FS_RemoveElement
    <3>3. CASE s \ {a} = {}
      <4>1. \A x \in s : x = a
        BY <3>3
      <4>. QED BY <3>1, <4>1
    <3>4. CASE s \ {a} # {}
      <4>1. PICK m \in s \ {a} : \A x \in s \ {a} : m >= x
        BY <1>2, <3>2, <3>4
      <4>2. CASE m >= a
        <5>1. \A x \in s : m >= x
          BY <4>1, <4>2
        <5>. QED BY <5>1
      <4>3. CASE ~(m >= a)
        <5>1. ASSUME NEW x \in s PROVE a >= x
          <6>1. a \in Int /\ m \in Int /\ x \in Int
            OBVIOUS
          <6>2. CASE x = a
            BY <6>1, <6>2
          <6>3. CASE x # a
            BY <4>1, <4>3, <6>1, <6>3
          <6>. QED BY <6>2, <6>3
        <5>. QED BY <5>1
      <4>. QED BY <4>2, <4>3
    <3>. QED BY <3>3, <3>4
  <2>. QED BY <2>1
<1>3. Cardinality(S) \in A
  <2>1. Cardinality(S) \in Nat
    BY <1>0
  <2>. HIDE DEF A
  <2>. QED BY <1>1, <1>2, <2>1, Upwards
<1>4. PICK m \in S : \A x \in S : m >= x
  BY <1>0, <1>3
<1>. QED BY <1>4, MaxIs

\* The bulb that the loop takes next, and what it makes of the bulbs s, given what it
\* makes of fewer.
Picked(s) == CHOOSE x \in s : TRUE
Round(bulbs, g, s) ==
  IF s = {} THEN NoLight ELSE JoinIfHeard(bulbs[Picked(s)], g[s \ {Picked(s)}])

\* The loop gives a result for every set of the bulbs.
LEMMA RoundsExist ==
  ASSUME NEW bulbs, IsFiniteSet(DOMAIN bulbs)
  PROVE  \E g : g = [s \in SUBSET DOMAIN bulbs |-> Round(bulbs, g, s)]
<1> DEFINE S == DOMAIN bulbs
           A == {n \in Nat : \E g : DOMAIN g = SUBSET S
                    /\ \A s \in SUBSET S : Cardinality(s) <= n => g[s] = Round(bulbs, g, s)}
<1>0. \A s \in SUBSET S : IsFiniteSet(s) /\ Cardinality(s) \in Nat /\ Cardinality(s) <= Cardinality(S)
  BY FS_Subset, FS_CardinalityType
<1>1. 0 \in A
  <2> DEFINE g == [s \in SUBSET S |-> NoLight]
  <2>1. ASSUME NEW s \in SUBSET S, Cardinality(s) <= 0 PROVE g[s] = Round(bulbs, g, s)
    <3>1. s = {}
      BY <1>0, <2>1, FS_EmptySet
    <3>. QED BY <3>1 DEF Round
  <2>. QED BY <2>1
<1>2. ASSUME NEW n \in Nat, n \in A PROVE n + 1 \in A
  <2>1. PICK g : DOMAIN g = SUBSET S
                 /\ \A s \in SUBSET S : Cardinality(s) <= n => g[s] = Round(bulbs, g, s)
    BY <1>2
  <2> DEFINE h == [s \in SUBSET S |-> Round(bulbs, g, s)]
  <2>2. \A s \in SUBSET S : Cardinality(s) <= n => h[s] = g[s]
    BY <2>1
  <2>3. ASSUME NEW s \in SUBSET S, Cardinality(s) <= n + 1 PROVE h[s] = Round(bulbs, h, s)
    <3>1. CASE s = {}
      BY <3>1 DEF Round
    <3>2. CASE s # {}
      <4>1. Picked(s) \in s
        BY <3>2 DEF Picked
      <4> DEFINE rest == s \ {Picked(s)}
      <4>2. rest \in SUBSET S /\ Cardinality(rest) <= n
        BY <1>0, <2>3, <4>1, FS_RemoveElement
      <4>3. h[rest] = g[rest]
        BY <2>2, <4>2
      <4>4. h[s] = Round(bulbs, g, s)
        OBVIOUS
      <4>. HIDE DEF h
      <4>. QED BY <3>2, <4>3, <4>4 DEF Round
    <3>. QED BY <3>1, <3>2
  <2>4. DOMAIN h = SUBSET S
    OBVIOUS
  <2>. HIDE DEF h
  <2>. QED BY <2>3, <2>4
<1>3. Cardinality(S) \in A
  <2>. HIDE DEF A
  <2>. QED BY <1>0, <1>1, <1>2, Upwards
<1>4. PICK g : DOMAIN g = SUBSET S
               /\ \A s \in SUBSET S : Cardinality(s) <= Cardinality(S) => g[s] = Round(bulbs, g, s)
  BY <1>3
<1> DEFINE h == [s \in SUBSET S |-> Round(bulbs, g, s)]
<1>5. \A s \in SUBSET S : h[s] = g[s]
  BY <1>0, <1>4
<1>6. ASSUME NEW s \in SUBSET S PROVE Round(bulbs, h, s) = Round(bulbs, g, s)
  <2>1. s \ {Picked(s)} \in SUBSET S
    OBVIOUS
  <2>2. h[s \ {Picked(s)}] = g[s \ {Picked(s)}]
    BY <1>5, <2>1
  <2>. HIDE DEF h
  <2>. QED BY <2>2 DEF Round
<1>7. h = [s \in SUBSET S |-> Round(bulbs, h, s)]
  BY <1>6
<1>. QED BY <1>7

\* The fold of the module is that loop.
LEMMA FoldIsRounds ==
  ASSUME NEW bulbs, IsFiniteSet(DOMAIN bulbs)
  PROVE  \E g : /\ g = [s \in SUBSET DOMAIN bulbs |-> Round(bulbs, g, s)]
                /\ buildLightEvent(bulbs) = g[DOMAIN bulbs]
<1> DEFINE S == DOMAIN bulbs
           g == CHOOSE g : g = [s \in SUBSET S |-> IF s = {} THEN NoLight
                     ELSE JoinIfHeard(bulbs[CHOOSE x \in s : TRUE], g[s \ {CHOOSE x \in s : TRUE}])]
<1>1. g = [s \in SUBSET S |-> IF s = {} THEN NoLight
                     ELSE JoinIfHeard(bulbs[CHOOSE x \in s : TRUE], g[s \ {CHOOSE x \in s : TRUE}])]
  <2>1. \E f : f = [s \in SUBSET S |-> Round(bulbs, f, s)]
    BY RoundsExist, Zenon
  <2>2. \E f : f = [s \in SUBSET S |-> IF s = {} THEN NoLight
                     ELSE JoinIfHeard(bulbs[CHOOSE x \in s : TRUE], f[s \ {CHOOSE x \in s : TRUE}])]
    BY <2>1 DEF Round, Picked
  <2>. QED BY <2>2
<1>2. buildLightEvent(bulbs) = g[S]
  BY DEF buildLightEvent, FoldFunction, FoldFunctionOnSet, MapThenFoldSet
<1>. QED BY <1>1, <1>2 DEF Round, Picked

\* The bulbs of s that are on, and those that report a level, in the words of the API.
Lit(bulbs, s) == {b \in s : bulbs[b].availability # "offline" /\ bulbs[b].state = "ON"}
Dimmable(bulbs, s) == {b \in s : /\ bulbs[b].availability # "offline"
                                 /\ bulbs[b].state \in {"ON", "OFF"}
                                 /\ bulbs[b].brightness # NoNumber}

\* An event that says of the bulbs of s what the API says.
Sums(bulbs, s, event) ==
  /\ event.on \in BOOLEAN
  /\ event.on <=> Lit(bulbs, s) # {}
  /\ event.brightness_on <=> Lit(bulbs, s) \cap Dimmable(bulbs, s) # {}
  /\ event.brightness \in -1..254
  /\ Dimmable(bulbs, s) = {} => event.brightness = NoNumber
  /\ Dimmable(bulbs, s) # {} => \E b \in Dimmable(bulbs, s) : bulbs[b].brightness = event.brightness
  /\ \A b \in Dimmable(bulbs, s) : event.brightness >= bulbs[b].brightness

\* One more round of the loop takes in one more bulb.
LEMMA OneMoreBulb ==
  ASSUME NEW S, NEW bulbs \in [S -> BulbCache], NEW s \in SUBSET S, NEW b \in s, NEW event,
         Sums(bulbs, s \ {b}, event)
  PROVE  Sums(bulbs, s, JoinIfHeard(bulbs[b], event))
<1> DEFINE bulb == bulbs[b]
           rest == s \ {b}
           joined == JoinIfHeard(bulb, event)
<1> SUFFICES Sums(bulbs, s, joined)
  OBVIOUS
<1>0. bulb \in BulbCache /\ event.brightness \in Int /\ event.brightness >= -1
  BY DEF Sums
<1>b. /\ bulb.state \in {"none", "bad", "ON", "OFF"} /\ bulb.brightness \in 0..254 \cup {-1}
      /\ bulb.availability \in {"none", "online", "offline"}
  BY <1>0 DEF BulbCache, NoNumber
<1> DEFINE lit == bulb.availability # "offline" /\ bulb.state = "ON"
           dim == bulb.availability # "offline" /\ bulb.state \in {"ON", "OFF"} /\ bulb.brightness # NoNumber
<1>1. /\ Lit(bulbs, s) = Lit(bulbs, rest) \cup (IF lit THEN {b} ELSE {})
      /\ Dimmable(bulbs, s) = Dimmable(bulbs, rest) \cup (IF dim THEN {b} ELSE {})
      /\ b \notin Lit(bulbs, rest) /\ b \notin Dimmable(bulbs, rest)
  BY DEF Lit, Dimmable
<1> DEFINE parsed == parseLightPayload(bulb)
<1>2. /\ lit => parsed.on
      /\ parsed.on /\ bulb.availability # "offline" => lit
      /\ parsed.brightness \in 0..254 \cup {-1}
      /\ dim => parsed.brightness = bulb.brightness /\ parsed.brightness >= 0
      /\ ~dim /\ bulb.availability # "offline" /\ bulb.state # "none" => parsed.brightness = -1
  <2>1. CASE bulb.state = "bad"
    <3>1. ~parsed.on /\ parsed.brightness = -1
      BY <2>1 DEF parseLightPayload, NoNumber
    <3>. HIDE DEF parsed
    <3>. QED BY <2>1, <3>1
  <2>2. CASE bulb.state # "bad"
    <3>1. (parsed.on <=> bulb.state = "ON") /\ parsed.brightness = bulb.brightness
      BY <2>2 DEF parseLightPayload
    <3>. HIDE DEF parsed
    <3>. QED BY <1>b, <2>2, <3>1 DEF NoNumber
  <2>. QED BY <2>1, <2>2
<1>3. CASE bulb.availability = "offline" \/ bulb.state = "none"
  <2>1. joined = event /\ ~lit /\ ~dim
    BY <1>3 DEF JoinIfHeard, isEntityAvailable
  <2>2. Lit(bulbs, s) = Lit(bulbs, rest) /\ Dimmable(bulbs, s) = Dimmable(bulbs, rest)
    BY <1>1, <2>1
  <2>. HIDE DEF joined
  <2>. QED BY <2>1, <2>2 DEF Sums
<1>4. CASE bulb.availability # "offline" /\ bulb.state # "none"
  <2>1. /\ joined.on <=> (event.on \/ parsed.on)
        /\ joined.brightness = Max({event.brightness, parsed.brightness})
        /\ joined.brightness_on <=> (event.brightness_on \/ (parsed.on /\ parsed.brightness >= 0))
    BY <1>4 DEF JoinIfHeard, isEntityAvailable, Join
  <2>t. joined.on \in BOOLEAN
    <3>1. joined.on = (event.on \/ parsed.on)
      BY <1>4 DEF JoinIfHeard, isEntityAvailable, Join
    <3>. HIDE DEF joined, parsed
    <3>. QED BY <3>1, Zenon
  <2>2. joined.brightness = IF event.brightness >= parsed.brightness
                            THEN event.brightness ELSE parsed.brightness
    <3>. HIDE DEF joined, parsed
    <3>1. event.brightness \in Int /\ parsed.brightness \in Int
      BY <1>0, <1>2
    <3>. QED BY <2>1, <3>1, MaxOfTwo
  <2>3. (parsed.on <=> lit) /\ (parsed.brightness >= 0 <=> dim)
    BY <1>2, <1>4
  <2>. HIDE DEF joined, parsed, lit, dim
  <2>4. joined.on <=> Lit(bulbs, s) # {}
    BY <1>1, <2>1, <2>3 DEF Sums
  <2>5. joined.brightness_on <=> Lit(bulbs, s) \cap Dimmable(bulbs, s) # {}
    <3>1. Lit(bulbs, s) \cap Dimmable(bulbs, s) # {}
            <=> (Lit(bulbs, rest) \cap Dimmable(bulbs, rest) # {} \/ (lit /\ dim))
      BY <1>1
    <3>. QED BY <2>1, <2>3, <3>1 DEF Sums
  <2>6. joined.brightness \in -1..254
    BY <1>2, <2>2 DEF Sums
  <2>7. CASE dim
    <3>1. parsed.brightness = bulb.brightness /\ Dimmable(bulbs, s) = Dimmable(bulbs, rest) \cup {b}
      BY <1>1, <1>2, <2>7
    <3>2. \E x \in Dimmable(bulbs, s) : bulbs[x].brightness = joined.brightness
      <4>1. CASE event.brightness >= parsed.brightness /\ Dimmable(bulbs, rest) # {}
        BY <2>2, <3>1, <4>1 DEF Sums
      <4>2. CASE event.brightness >= parsed.brightness /\ Dimmable(bulbs, rest) = {}
        <5>1. event.brightness = -1
          BY <4>2 DEF Sums, NoNumber
        <5>2. parsed.brightness >= 0 /\ parsed.brightness \in Int
          BY <1>2, <2>7
        <5>. QED BY <4>2, <5>1, <5>2
      <4>3. CASE ~(event.brightness >= parsed.brightness)
        BY <2>2, <3>1, <4>3
      <4>. QED BY <4>1, <4>2, <4>3
    <3>3. \A x \in Dimmable(bulbs, s) : joined.brightness >= bulbs[x].brightness
      <4>1. joined.brightness >= parsed.brightness /\ joined.brightness >= event.brightness
        BY <1>0, <1>2, <2>2
      <4>2. ASSUME NEW x \in Dimmable(bulbs, rest) PROVE joined.brightness >= bulbs[x].brightness
        <5>1. bulbs[x] \in BulbCache
          BY DEF Dimmable
        <5>2. bulbs[x].brightness \in Int
          BY <5>1 DEF BulbCache, NoNumber
        <5>3. event.brightness >= bulbs[x].brightness /\ joined.brightness \in Int
          BY <2>6 DEF Sums
        <5>. QED BY <1>0, <4>1, <5>2, <5>3
      <4>. QED BY <3>1, <4>1, <4>2
    <3>. QED BY <2>t, <2>4, <2>5, <2>6, <3>1, <3>2, <3>3 DEF Sums
  <2>8. CASE ~dim
    <3>1. parsed.brightness = -1 /\ Dimmable(bulbs, s) = Dimmable(bulbs, rest)
      BY <1>1, <1>2, <1>4, <2>8
    <3>2. joined.brightness = event.brightness
      BY <1>0, <2>2, <3>1
    <3>3. /\ Dimmable(bulbs, s) = {} => joined.brightness = NoNumber
          /\ Dimmable(bulbs, s) # {} => \E x \in Dimmable(bulbs, s) : bulbs[x].brightness = joined.brightness
          /\ \A x \in Dimmable(bulbs, s) : joined.brightness >= bulbs[x].brightness
      BY <3>1, <3>2 DEF Sums
    <3>. QED BY <2>t, <2>4, <2>5, <2>6, <3>3 DEF Sums
  <2>. QED BY <2>7, <2>8
<1>. QED BY <1>b, <1>3, <1>4

\* The event of a light sums up all its bulbs.
LEMMA EventSums ==
  ASSUME NEW S, NEW bulbs \in [S -> BulbCache], IsFiniteSet(S)
  PROVE  Sums(bulbs, S, buildLightEvent(bulbs))
<1>1. DOMAIN bulbs = S
  OBVIOUS
<1>2. PICK g : /\ g = [s \in SUBSET S |-> Round(bulbs, g, s)]
               /\ buildLightEvent(bulbs) = g[S]
  BY <1>1, FoldIsRounds
<1>r. \A s \in SUBSET S : g[s] = Round(bulbs, g, s)
  BY <1>2
<1> DEFINE A == {n \in Nat : \A s \in SUBSET S : Cardinality(s) <= n => Sums(bulbs, s, g[s])}
<1>0. \A s \in SUBSET S : IsFiniteSet(s) /\ Cardinality(s) \in Nat
  BY FS_Subset, FS_CardinalityType
<1>3. ASSUME NEW s \in SUBSET S, s = {} PROVE Sums(bulbs, s, g[s])
  <2>1. g[s] = NoLight
    BY <1>r, <1>3 DEF Round
  <2>2. Lit(bulbs, s) = {} /\ Dimmable(bulbs, s) = {}
    BY <1>3 DEF Lit, Dimmable
  <2>3. NoLight.on = FALSE /\ NoLight.brightness_on = FALSE /\ NoLight.brightness = -1 /\ NoNumber = -1
    BY DEF NoLight, NoNumber
  <2>4. g[s].on \in BOOLEAN
    BY <2>1, <2>3, Zenon
  <2>. QED BY <2>1, <2>2, <2>3, <2>4 DEF Sums
<1>4. 0 \in A
  <2>1. ASSUME NEW s \in SUBSET S, Cardinality(s) <= 0 PROVE s = {}
    BY <1>0, <2>1, FS_EmptySet
  <2>. QED BY <1>3, <2>1
<1>5. ASSUME NEW n \in Nat, n \in A PROVE n + 1 \in A
  <2>1. ASSUME NEW s \in SUBSET S, Cardinality(s) <= n + 1, s # {} PROVE Sums(bulbs, s, g[s])
    <3>1. Picked(s) \in s
      BY <2>1 DEF Picked
    <3>2. s \ {Picked(s)} \in SUBSET S /\ Cardinality(s \ {Picked(s)}) <= n
      BY <1>0, <2>1, <3>1, FS_RemoveElement
    <3>3. Sums(bulbs, s \ {Picked(s)}, g[s \ {Picked(s)}])
      BY <1>5, <3>2
    <3>4. g[s] = JoinIfHeard(bulbs[Picked(s)], g[s \ {Picked(s)}])
      BY <1>r, <2>1 DEF Round
    <3>. QED BY <3>1, <3>3, <3>4, OneMoreBulb
  <2>. QED BY <1>3, <2>1
<1>6. Cardinality(S) \in A
  <2>1. Cardinality(S) \in Nat
    BY <1>0
  <2>. HIDE DEF A
  <2>. QED BY <1>4, <1>5, <2>1, Upwards
<1>7. Sums(bulbs, S, g[S])
  BY <1>0, <1>6
<1>. QED BY <1>2, <1>7

\* The bulbs of a light, summed up by the loop, are what the API says of them.
LEMMA EventAsDocumented ==
  ASSUME NEW S, NEW bulbs \in [S -> BulbCache], IsFiniteSet(S)
  PROVE  LightAsDocumented(bulbs)
<1> DEFINE event == buildLightEvent(bulbs)
           levels == {bulbs[b].brightness : b \in Dimmable(bulbs, S)}
<1>1. Sums(bulbs, S, event)
  BY EventSums
<1>. HIDE DEF event
<1>2. ASSUME Dimmable(bulbs, S) # {} PROVE event.brightness = Max(levels)
  <2>1. \A b \in S : bulbs[b].brightness \in Int
    BY DEF BulbCache, NoNumber
  <2>2. levels \in SUBSET Int
    BY <2>1 DEF Dimmable
  <2>3. event.brightness \in levels /\ \A x \in levels : event.brightness >= x
    BY <1>1, <1>2 DEF Sums
  <2>. HIDE DEF levels
  <2>. QED BY <2>2, <2>3, MaxIs
<1>3. DOMAIN bulbs = S
  OBVIOUS
<1> DEFINE reachable == {b \in S : bulbs[b].availability # "offline"}
<1>4. /\ Lit(bulbs, S) = {b \in reachable : bulbs[b].state = "ON"}
      /\ Dimmable(bulbs, S) = {b \in reachable : bulbs[b].state \in {"ON", "OFF"} /\ bulbs[b].brightness # NoNumber}
  BY DEF Lit, Dimmable
<1>. HIDE DEF reachable
<1>5. /\ event.on <=> Lit(bulbs, S) # {}
      /\ IF Dimmable(bulbs, S) = {} THEN event.brightness = NoNumber ELSE event.brightness = Max(levels)
      /\ event.brightness_on <=> Lit(bulbs, S) \cap Dimmable(bulbs, S) # {}
  BY <1>1, <1>2 DEF Sums
<1>. QED BY <1>3, <1>4, <1>5 DEF LightAsDocumented, event, reachable

-----------------------------------------------------------------------------

\* What the events of a card hold.
LEMMA EventTypes ==
  ASSUME card \in {"heating", "light"}, NEW event \in Events
  PROVE  /\ card = "heating" => /\ event.power \in BOOLEAN /\ event.quiet \in BOOLEAN
                                /\ event.target_temp \in Int
         /\ card = "light" => event.on \in BOOLEAN /\ event.brightness \in -1..254
<1>1. PICK i \in Items, c \in Caches : event = EventFor(i, c)
  BY DEF Events
<1>2. CASE card = "heating"
  <2>1. i \in RoomSet /\ i # "light" /\ c \in [RoomSet -> RoomReports]
    BY <1>2, RoomsAssumption DEF Items, Caches
  <2>2. event = buildHeatingEvent(c[i]) /\ c[i] \in RoomCache
    BY <1>1, <2>1, ReportsAssumption DEF EventFor
  <2>3. c[i].temp \in Int
    BY <2>2 DEF RoomCache, NoNumber
  <2>. QED BY <1>2, <2>2, <2>3 DEF buildHeatingEvent
<1>3. CASE card = "light"
  <2>1. i = "light" /\ c \in [Bulbs -> BulbReports]
    BY <1>3 DEF Items, Caches
  <2>2. event = buildLightEvent(c) /\ c \in [Bulbs -> BulbCache]
    BY <1>1, <2>1, ReportsAssumption DEF EventFor
  <2>3. Sums(c, Bulbs, event)
    BY <2>2, EventSums, BulbsAssumption
  <2>. QED BY <1>3, <2>3 DEF Sums
<1>. QED BY <1>2, <1>3

\* The markup keeps a range input between its ends.
LEMMA InRangeFacts ==
  ASSUME NEW v \in Int, NEW low \in Int, NEW high \in Int, low <= high
  PROVE  InRange(v, low, high) \in low..high
BY DEF InRange

\* A function of finitely many arguments has finitely many values.
LEMMA FiniteImage ==
  ASSUME NEW S, NEW T, NEW f \in [S -> T], IsFiniteSet(S)
  PROVE  IsFiniteSet({f[x] : x \in S})
<1> DEFINE I == {f[x] : x \in S}
<1>1. f \in Surjection(S, I)
  BY DEF Surjection
<1>. QED BY <1>1, FS_Surjection

\* Each control gets what it can show.
LEMMA ReadingTypes ==
  ASSUME card \in {"heating", "light"}, NEW m \in [Items -> Events]
  PROVE  /\ \A s \in Sliders : Reading(m)[s] \in SliderRange(s)
         /\ \A t \in Toggles : Reading(m)[t] \in BOOLEAN
<1>1. CASE card = "heating"
  <2>1. /\ Items = RoomSet /\ Controls = {"temp", "quiet"} \cup RoomSet
        /\ Sliders = {"temp"} /\ Toggles = {"quiet"} \cup RoomSet
    BY <1>1 DEF Items, Controls, Sliders, Toggles
  <2> DEFINE on == {r \in RoomSet : m[r].power}
             considered == IF on # {} THEN on ELSE RoomSet
             temps == {m[r].target_temp : r \in considered}
  <2>2. Reading(m) = [c \in Controls |-> CASE c = "temp"  -> Temperature(Max(temps))
                                           [] c = "quiet" -> \A r \in considered : m[r].quiet
                                           [] OTHER       -> m[c].power]
    BY <1>1 DEF Reading
  <2>3. \A r \in RoomSet : m[r].power \in BOOLEAN /\ m[r].target_temp \in Int
    BY <1>1, <2>1, EventTypes
  <2>4. IsFiniteSet(RoomSet) /\ RoomSet # {}
    <3>1. DOMAIN Rooms = 1..Len(Rooms) /\ Len(Rooms) \in Nat /\ Len(Rooms) # 0
      BY RoomsAssumption
    <3>2. IsFiniteSet(1..Len(Rooms))
      BY <3>1, FS_Interval
    <3>3. IsFiniteSet({Rooms[i] : i \in 1..Len(Rooms)})
      <4>1. Rooms \in [1..Len(Rooms) -> RoomSet]
        BY RoomsAssumption
      <4>. QED BY <3>2, <4>1, FiniteImage
    <3>4. RoomSet = {Rooms[i] : i \in 1..Len(Rooms)}
      BY <3>1 DEF RoomSet
    <3>. QED BY <3>1, <3>3, <3>4
  <2>5. considered \subseteq RoomSet /\ considered # {}
    BY <2>4
  <2>. HIDE DEF considered
  <2>6. temps \in SUBSET Int /\ temps # {}
    BY <2>3, <2>5
  <2>7. IsFiniteSet(temps)
    <3>1. IsFiniteSet(considered)
      BY <2>4, <2>5, FS_Subset
    <3> DEFINE f == [r \in considered |-> m[r].target_temp]
    <3>2. temps = {f[r] : r \in considered}
      OBVIOUS
    <3>3. f \in [considered -> Int]
      BY <2>3, <2>5
    <3>. HIDE DEF f
    <3>4. IsFiniteSet({f[r] : r \in considered})
      BY <3>1, <3>3, FiniteImage
    <3>. QED BY <3>2, <3>4
  <2>8. Max(temps) \in Int
    <3>. HIDE DEF temps
    <3>. QED BY <2>6, <2>7, MaxExists
  <2>9. Temperature(Max(temps)) \in 16..25
    <3>. HIDE DEF temps
    <3>1. (Max(temps) + 5) \div 10 \in Int
      BY <2>8
    <3>2. 16 \in Int /\ 25 \in Int /\ 16 <= 25
      OBVIOUS
    <3>3. InRange((Max(temps) + 5) \div 10, 16, 25) \in 16..25
      BY <3>1, <3>2, InRangeFacts
    <3>. QED BY <3>3 DEF Temperature
  <2>10. Reading(m)["temp"] \in SliderRange("temp")
    BY <2>1, <2>2, <2>9 DEF SliderRange
  <2>11. Reading(m)["quiet"] \in BOOLEAN
    BY <2>1, <2>2
  <2>12. \A r \in RoomSet : Reading(m)[r] \in BOOLEAN
    BY <2>1, <2>2, <2>3, RoomsAssumption
  <2>. QED BY <2>1, <2>10, <2>11, <2>12
<1>2. CASE card = "light"
  <2>1. Items = {"light"} /\ Sliders = {"level"} /\ Toggles = {"on"}
    BY <1>2 DEF Items, Sliders, Toggles
  <2>2. m["light"].on \in BOOLEAN /\ m["light"].brightness \in -1..254
    BY <1>2, <2>1, EventTypes
  <2>3. InRange(m["light"].brightness, 1, 254) \in 1..254
    <3>1. m["light"].brightness \in Int /\ 1 \in Int /\ 254 \in Int /\ 1 <= 254
      BY <2>2
    <3>. QED BY <3>1, InRangeFacts
  <2>. QED BY <1>2, <2>1, <2>2, <2>3 DEF Reading, SliderRange
<1>. QED BY <1>1, <1>2

\* A page that is loaded shows what its controls can show.
LEMMA LoadedTypes ==
  ASSUME card \in {"heating", "light"}, NEW m \in [Items -> Events]
  PROVE  /\ DOMAIN LoadedFrom(m) = Controls
         /\ \A s \in Sliders : LoadedFrom(m)[s] \in SliderRange(s)
         /\ \A t \in Toggles : LoadedFrom(m)[t] \in BOOLEAN
<1>1. \A c \in Controls : LoadedFrom(m)[c] = IF c = "level" /\ ~HasLevel(m) THEN 254 ELSE Reading(m)[c]
  BY DEF LoadedFrom
<1>2. 254 \in SliderRange("level")
  BY DEF SliderRange
<1>3. "level" \notin Toggles /\ Sliders \subseteq Controls /\ Toggles \subseteq Controls
  BY RoomsAssumption DEF Toggles, Controls
<1>. QED BY <1>1, <1>2, <1>3, ReadingTypes DEF LoadedFrom

\* The types of the page: a slider stays within the range of its markup, whatever the rooms
\* and bulbs report and however the mirror is summed up.
THEOREM TypeCorrect == Spec => []TypeOK
<1>1. Init => TypeOK
  <2> SUFFICES ASSUME Init PROVE TypeOK
    OBVIOUS
  <2>1. /\ card \in {"heating", "light"} /\ state = Snapshot /\ shown = LoadedFrom(Snapshot)
        /\ live = FALSE /\ dimmer = HasLevel(Snapshot)
        /\ held = "none" /\ timers = {} /\ window = {} /\ behind = {}
    BY DEF Init
  <2>2. Snapshot \in [Items -> Events]
    <3>1. cache \in Caches
      BY DEF Init, Caches
    <3>2. \A i \in Items : EventFor(i, cache) \in Events
      BY <3>1 DEF Events
    <3>. QED BY <3>2 DEF Snapshot
  <2>3. dimmer \in BOOLEAN
    BY <2>1 DEF HasLevel
  <2>. HIDE DEF Init
  <2>. QED BY <2>1, <2>2, <2>3, LoadedTypes DEF TypeOK
<1>2. ASSUME PageTypes, PageTypes', TypeOK, [Next]_vars PROVE TypeOK'
  <2>0. card' = card => /\ Items' = Items /\ Controls' = Controls
                        /\ Sliders' = Sliders /\ Toggles' = Toggles
    BY DEF Items, Controls, Sliders, Toggles
  <2>t. Sliders \subseteq Controls /\ Toggles \subseteq Controls /\ Sliders \cap Toggles = {}
    BY RoomsAssumption DEF Controls, Sliders, Toggles
  <2>1. ASSUME UNCHANGED <<card, pageVars>> PROVE TypeOK'
    BY <1>2, <2>0, <2>1 DEF TypeOK, PageTypes, pageVars
  <2>2. CASE House \/ StreamBreaks \/ StreamOpens
    <3>1. CASE House
      BY <1>2, <2>1, <3>1, ReportFacts
    <3>2. CASE StreamBreaks \/ StreamOpens
      BY <2>1, <3>2 DEF StreamBreaks, StreamOpens
    <3>. QED BY <2>2, <3>1, <3>2
  <2>3. CASE onmessage
    <3> DEFINE item == stream[1][1]
               event == stream[1][2]
               concerned == Concerned(item, event)
    <3>1. /\ item \in Items /\ state' \in [Items -> Events] /\ Head(stream) = stream[1]
          /\ UNCHANGED <<card, live, held, timers, window>>
      BY <1>2, <2>3, MessageFacts DEF onmessage
    <3>2. concerned \subseteq Controls
      BY <1>2, <3>1, RoomsAssumption DEF Concerned, PageTypes, Items, Controls, Sliders, Toggles
    <3>3. PICK rendered :
            /\ shown' = [c \in Controls |-> IF c \in rendered THEN Reading(state')[c] ELSE shown[c]]
            /\ behind' = (behind \cup concerned) \ rendered
            /\ dimmer' = (dimmer \/ HasLevel(state'))
      <4> DEFINE rendered == concerned \ (window \cup {held})
      <4>1. /\ shown' = [c \in Controls |-> IF c \in rendered THEN Reading(state')[c] ELSE shown[c]]
            /\ behind' = (behind \cup concerned) \ rendered
            /\ dimmer' = (dimmer \/ HasLevel(state'))
        BY <2>3, <3>1 DEF onmessage
      <4>. QED BY <4>1
    <3>. HIDE DEF item, event, concerned
    <3>4. /\ \A s \in Sliders : Reading(state')[s] \in SliderRange(s)
          /\ \A t \in Toggles : Reading(state')[t] \in BOOLEAN
      BY <1>2, <3>1, ReadingTypes DEF PageTypes
    <3>5. dimmer' \in BOOLEAN
      BY <3>3, Zenon
    <3>6. /\ DOMAIN shown' = Controls /\ \A s \in Sliders : shown'[s] \in SliderRange(s)
          /\ \A t \in Toggles : shown'[t] \in BOOLEAN
      BY <1>2, <2>t, <3>3, <3>4 DEF TypeOK
    <3>7. behind' \subseteq Controls /\ DOMAIN state' = Items
      BY <1>2, <3>1, <3>2, <3>3 DEF TypeOK
    <3>. QED BY <1>2, <2>0, <3>1, <3>5, <3>6, <3>7 DEF TypeOK
  <2>4. CASE Reload
    <3>1. /\ state' = Snapshot /\ shown' = LoadedFrom(Snapshot) /\ dimmer' = HasLevel(Snapshot)
          /\ live' = FALSE /\ held' = "none" /\ timers' = {} /\ window' = {} /\ behind' = {}
          /\ card' = card
      BY <2>4 DEF Reload
    <3>2. Snapshot \in [Items -> Events] /\ dimmer' \in BOOLEAN
      BY <1>2, <3>1, SnapshotFacts DEF HasLevel
    <3>3. /\ DOMAIN LoadedFrom(Snapshot) = Controls
          /\ \A s \in Sliders : LoadedFrom(Snapshot)[s] \in SliderRange(s)
          /\ \A t \in Toggles : LoadedFrom(Snapshot)[t] \in BOOLEAN
      BY <1>2, <3>2, LoadedTypes DEF PageTypes
    <3>. QED BY <2>0, <3>1, <3>2, <3>3 DEF TypeOK
  <2>5. ASSUME NEW s \in Sliders, NEW v \in DragValues, Drag(s, v) PROVE TypeOK'
    <3>1. /\ v \in SliderRange(s) /\ held' = s /\ shown' = [shown EXCEPT ![s] = v]
          /\ timers' = timers \cup {s} /\ behind' = behind \cup {s}
          /\ UNCHANGED <<card, live, state, dimmer, window>>
      BY <2>5 DEF Drag
    <3>2. \A c \in Controls : shown'[c] = IF c = s THEN v ELSE shown[c]
      BY <1>2, <3>1 DEF TypeOK
    <3>3. DOMAIN shown' = Controls
      BY <1>2, <3>1 DEF TypeOK
    <3>. QED BY <1>2, <2>0, <2>t, <3>1, <3>2, <3>3 DEF TypeOK
  <2>6. ASSUME NEW t \in Toggles, Switch(t) PROVE TypeOK'
    <3>1. /\ shown' = [shown EXCEPT ![t] = ~shown[t]]
          /\ window' = window \cup Suppresses(t) /\ behind' = behind \cup {t}
          /\ UNCHANGED <<card, live, state, dimmer, held, timers>>
      BY <2>6 DEF Switch
    <3>2. Suppresses(t) \subseteq Controls
      BY RoomsAssumption DEF Suppresses, Controls, Sliders, Toggles
    <3>3. \A c \in Controls : shown'[c] = IF c = t THEN ~shown[t] ELSE shown[c]
      BY <1>2, <3>1 DEF TypeOK
    <3>4. DOMAIN shown' = Controls /\ (~shown[t]) \in BOOLEAN
      BY <1>2, <3>1 DEF TypeOK
    <3>5. /\ \A s \in Sliders : shown'[s] \in SliderRange(s)
          /\ \A u \in Toggles : shown'[u] \in BOOLEAN
      <4>1. \A s \in Sliders : s # t
        BY <2>t
      <4>. QED BY <1>2, <2>t, <3>3, <3>4, <4>1 DEF TypeOK
    <3>6. window' \subseteq Controls /\ behind' \subseteq Controls
      BY <1>2, <2>t, <3>1, <3>2 DEF TypeOK
    <3>. QED BY <1>2, <2>0, <3>1, <3>4, <3>5, <3>6 DEF TypeOK
  <2>7. CASE Timing \/ Drop
    <3>1. /\ UNCHANGED <<card, live, state, shown, dimmer, behind>>
          /\ held' \in {held, "none"} /\ timers' \subseteq timers
          /\ \E s \in Sliders : window' \subseteq window \cup {s}
      BY <2>7 DEF Timing, Drop, DebounceEnds, Expire, Sliders
    <3>. QED BY <1>2, <2>0, <2>t, <3>1 DEF TypeOK
  <2>. QED BY <1>2, <2>1, <2>2, <2>3, <2>4, <2>5, <2>6, <2>7 DEF Next, UserActs, vars
<1>. QED BY <1>1, <1>2, PageTyped, PTL DEF Spec

\* The event of a light says what the documentation of the API says of it, for any bulbs and
\* reports, and in whatever order the loop takes them.
THEOREM GroupsAsDocumented == Spec => []LightsAsDocumented
<1>1. PageTypes => LightsAsDocumented
  <2> SUFFICES ASSUME PageTypes, card = "light" PROVE LightAsDocumented(cache)
    BY DEF LightsAsDocumented
  <2>1. cache \in [Bulbs -> BulbCache]
    BY ReportsAssumption DEF PageTypes, Caches
  <2>. QED BY <2>1, EventAsDocumented, BulbsAssumption
<1>. QED BY <1>1, PageTyped, PTL

=============================================================================
