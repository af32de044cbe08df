---------------------------- MODULE LiveUpdates ----------------------------
(***************************************************************************)
(* The way of a device's state to a browser: an MQTT message is stored in    *)
(* the cache, turned into an event about the item it belongs to, and         *)
(* broadcast to the open streams, each of which has begun with a snapshot    *)
(* read from the same cache (mqtt.go, handlers.go, sse.go, main.go).         *)
(*                                                                           *)
(* The library hands messages over one at a time, so one message is stored   *)
(* and announced before the next is; snapshots and the start of the program  *)
(* run beside that.                                                          *)
(***************************************************************************)
EXTENDS SSEBroadcaster, SequencesExt

CONSTANTS ItemTopics,   \* the rooms and lights in the order of the config
                        \* file, each as the sequence of its topics
          ModeTopic,    \* ModeTopicName
          MaxMessages   \* bound: how many messages arrive

ASSUME ItemTopicsAssumption ==
    /\ ItemTopics \in Seq(Range(ItemTopics))
    /\ \A i \in DOMAIN ItemTopics : ModeTopic \notin Range(ItemTopics[i])
ASSUME MaxMessagesAssumption == MaxMessages \in Nat

\* Item 0 is the global mode.
Items == 0..Len(ItemTopics)
TopicsOf(i) == IF i = 0 THEN {ModeTopic} ELSE Range(ItemTopics[i])
Topics == UNION {TopicsOf(i) : i \in Items}

Modes == {"heating", "cooling"}
Payloads(t) == IF t = ModeTopic THEN Modes ELSE {"a", "b"}

\* What an event is about and what it says: one cell per item and topic.
Cells == UNION {{i} \X TopicsOf(i) : i \in Items}

VARIABLES cache,     \* the latest payload of each topic, "absent" before any
          flag,      \* app.coolingMode
          handling,  \* the topic of the message being handled
          at,        \* how far: "idle", "stored" or "flagged"
          messages,  \* how many messages have been handled
          main,      \* main(): "starting", "built", "synced", "serving"
          seed,      \* what SyncModeFromMQTT has read
          log,       \* the events broadcast so far, as SSEBroadcaster numbers them
          unread,    \* the cells a stream's snapshot has still to read
          view       \* the state of each cell as each browser shows it

pipeVars == <<cache, flag, handling, at, messages>>
mainVars == <<main, seed>>
viewVars == <<unread, view>>
liveVars == <<vars, pipeVars, mainVars, viewVars, log>>

LiveInit ==
    /\ Init
    /\ cache = [t \in Topics |-> "absent"]
    /\ flag = "heating"
    /\ handling = ModeTopic /\ at = "idle" /\ messages = 0
    /\ main = "starting" /\ seed = "absent"
    /\ log = <<>>
    /\ unread = [s \in Streams |-> Cells]
    /\ view = [s \in Streams |-> [c \in Cells |-> "unseen"]]

\* What an event built now says of a cell: the mode comes from the flag.
Now(c) == IF c[1] = 0 THEN flag ELSE cache[c[2]]

-----------------------------------------------------------------------------
(* handleMessage and onChange, on the library's message goroutine.          *)

Store(t, v) ==
    /\ at = "idle"
    /\ messages < MaxMessages
    /\ cache' = [cache EXCEPT ![t] = v]
    /\ messages' = messages + 1
    /\ handling' = t
    /\ at' = "stored"
    /\ UNCHANGED <<vars, flag, mainVars, viewVars, log>>

\* The callback returns at once while main has not built the App yet.
NoApp ==
    /\ at = "stored"
    /\ main = "starting"
    /\ at' = "idle"
    /\ UNCHANGED <<vars, cache, flag, handling, messages, mainVars, viewVars, log>>

\* TopicToEvent sets the flag before it builds the mode event.
SetFlag ==
    /\ at = "stored" /\ handling = ModeTopic
    /\ main # "starting"
    /\ flag' = IF cache[ModeTopic] = "cooling" THEN "cooling" ELSE "heating"
    /\ at' = "flagged"
    /\ UNCHANGED <<vars, cache, handling, messages, mainVars, viewVars, log>>

Owners(t) == {i \in Items : t \in TopicsOf(i)}

\* TopicToEvent returns at the first item, in config order, that has the topic.
ItemOf(t) == CHOOSE i \in Owners(t) : \A j \in Owners(t) : i <= j

EventFor(i) == [item |-> i, state |-> [c \in {i} \X TopicsOf(i) |-> Now(c)]]

Announce ==
    /\ \/ at = "flagged"
       \/ at = "stored" /\ handling # ModeTopic /\ main # "starting"
    /\ Broadcast
    /\ log' = Append(log, EventFor(ItemOf(handling)))
    /\ at' = "idle"
    /\ UNCHANGED <<cache, flag, handling, messages, mainVars, viewVars>>

-----------------------------------------------------------------------------
(* main() between creating the MQTT client and serving.                     *)

BuildApp ==
    /\ main = "starting"
    /\ main' = "built"
    /\ UNCHANGED <<vars, pipeVars, seed, viewVars, log>>

\* SyncModeFromMQTT reads the cache ...
SyncRead ==
    /\ main = "built"
    /\ seed' = cache[ModeTopic]
    /\ main' = "synced"
    /\ UNCHANGED <<vars, pipeVars, viewVars, log>>

\* Mutant: the flag is set even if there was no mode message.
SyncSetAlways ==
    /\ main = "synced"
    /\ flag' = seed
    /\ main' = "serving"
    /\ UNCHANGED <<vars, cache, handling, at, messages, seed, viewVars, log>>

\* Mutant: nothing is seeded.
SyncNothing ==
    /\ main = "synced"
    /\ main' = "serving"
    /\ UNCHANGED <<vars, pipeVars, seed, viewVars, log>>

\* ... and then sets the flag, if there was a mode message.
SyncSet ==
    /\ main = "synced"
    /\ flag' = IF seed = "absent" THEN flag ELSE seed
    /\ main' = "serving"
    /\ UNCHANGED <<vars, cache, handling, at, messages, seed, viewVars, log>>

-----------------------------------------------------------------------------
(* A browser's event stream.                                                *)

OpenStream(s) ==
    /\ main = "serving"
    /\ AddClient(s)
    /\ UNCHANGED <<pipeVars, mainVars, viewVars, log>>

\* snapshotEvents reads the cache topic by topic, without a lock around it all.
ReadCell(s, c) ==
    /\ phase[s] = "snapshot"
    /\ c \in unread[s]
    /\ \A d \in unread[s] : c[1] <= d[1]
    /\ unread' = [unread EXCEPT ![s] = @ \ {c}]
    /\ view' = [view EXCEPT ![s][c] = Now(c)]
    /\ UNCHANGED <<vars, pipeVars, mainVars, log>>

FinishSnapshot(s) ==
    /\ unread[s] = {}
    /\ WriteSnapshot(s)
    /\ UNCHANGED <<pipeVars, mainVars, viewVars, log>>

\* The browser replaces what it had about the event's item.
DeliverEvent(s) ==
    /\ Deliver(s)
    /\ LET said == log[Head(buf[s])].state
       IN  view' = [view EXCEPT ![s] = [c \in Cells |-> IF c \in DOMAIN said THEN said[c] ELSE @[c]]]
    /\ UNCHANGED <<pipeVars, mainVars, unread, log>>

CloseStream(s) ==
    /\ EndOfStream(s) \/ HangUp(s) \/ RemoveClient(s) \/ CloseChannel(s)
    /\ UNCHANGED <<pipeVars, mainVars, viewVars, log>>

ConnectionLost ==
    /\ DisconnectAll
    /\ UNCHANGED <<pipeVars, mainVars, viewVars, log>>

-----------------------------------------------------------------------------

Pipe == \/ \E t \in Topics : \E v \in Payloads(t) : Store(t, v)
        \/ NoApp \/ SetFlag \/ Announce

Start == BuildApp \/ SyncRead \/ SyncSet

Browser(s) == \/ OpenStream(s) \/ FinishSnapshot(s) \/ DeliverEvent(s) \/ CloseStream(s)
              \/ \E c \in Cells : ReadCell(s, c)

LiveNext == Pipe \/ Start \/ ConnectionLost \/ \E s \in Streams : Browser(s)

LiveSpec == LiveInit /\ [][LiveNext]_liveVars

-----------------------------------------------------------------------------
(* Properties.                                                              *)

LiveTypeOK ==
    /\ TypeOK
    /\ cache \in [Topics -> Modes \cup {"a", "b", "absent"}]
    /\ flag \in Modes
    /\ handling \in Topics /\ at \in {"idle", "stored", "flagged"}
    /\ messages \in 0..MaxMessages
    /\ main \in {"starting", "built", "synced", "serving"}
    /\ seed \in Modes \cup {"absent"}
    /\ Len(log) = sent
    /\ unread \in [Streams -> SUBSET Cells]
    /\ view \in [Streams -> [Cells -> Modes \cup {"a", "b", "absent", "unseen"}]]

\* The browser of s has written all it was sent, and nothing is on its way.
Drained(s) == phase[s] = "stream" /\ buf[s] = <<>> /\ at = "idle"

ShowsTheTruth(s) ==
    \A c \in Cells : ItemOf(c[2]) = c[1] => view[s][c] = Now(c)

\* A stream that lost no event ends up showing exactly what the server knows,
\* however its snapshot, the message handler and the queue interleaved: an
\* update is in the snapshot or behind it in the queue (sse.go:124-128).  Of a
\* topic that several items share, that is true of the first of them only.
Converged == \A s \in clients \ dropped : Drained(s) => ShowsTheTruth(s)

\* The flag that decides what "on" means is the cached mode or, if a newer mode
\* message slipped in while it was being seeded, the one that was seeded; it is
\* not left at heating "whatever the system was actually set to"
\* (handlers.go:292-293).
ModeSeeded ==
    main = "serving" /\ at = "idle" /\ cache[ModeTopic] # "absent"
        => flag \in {cache[ModeTopic], seed}

=============================================================================
