--------------------------- MODULE SSEBroadcaster ---------------------------
(***************************************************************************)
(* The server-sent-events broadcaster of sse.go: one buffered channel per   *)
(* open event stream, registered in a set that a mutex protects.            *)
(*                                                                          *)
(* A stream is one GET /api/events request, from its registration to the   *)
(* end of its handler.  What an event says does not matter here, so events *)
(* are numbered in the order Broadcast is called.  Every action below is   *)
(* one critical section of the mutex or one channel operation of a handler.*)
(***************************************************************************)
EXTENDS Naturals, Sequences

CONSTANTS Streams,    \* the event-stream requests that may be made
          Cap,        \* the capacity of a stream's channel
          MaxEvents   \* bound: how many events are broadcast

ASSUME CapAssumption == Cap \in Nat \ {0}
ASSUME MaxEventsAssumption == MaxEvents \in Nat

VARIABLES phase,    \* where each stream's handler is
          clients,  \* the registered channels
          buf,      \* the events queued in each channel
          closes,   \* how often each channel was closed; a second time panics
          sent,     \* how many events have been broadcast
          written,  \* the last event each stream wrote, or the number of
                    \* events broadcast before it was registered
          dropped   \* the streams that a full buffer has cost an event

vars == <<phase, clients, buf, closes, sent, written, dropped>>

\* "snapshot" and "stream" are inside ServeHTTP; "ended" (the channel was
\* closed) and "leaving" (the browser hung up) have returned with the deferred
\* removeClient still to run; "closing" is removeClient between its critical
\* section and close(ch).
Serving == {"snapshot", "stream", "ended", "leaving"}
Phases == {"idle", "closing", "gone"} \cup Serving

Init ==
    /\ phase = [s \in Streams |-> "idle"]
    /\ clients = {}
    /\ buf = [s \in Streams |-> <<>>]
    /\ closes = [s \in Streams |-> 0]
    /\ sent = 0
    /\ written = [s \in Streams |-> 0]
    /\ dropped = {}

-----------------------------------------------------------------------------
(* The stream's handler.                                                    *)

AddClient(s) ==
    /\ phase[s] = "idle"
    /\ phase' = [phase EXCEPT ![s] = "snapshot"]
    /\ clients' = clients \cup {s}
    /\ written' = [written EXCEPT ![s] = sent]
    /\ UNCHANGED <<buf, closes, sent, dropped>>

\* The snapshot is written straight to the response, not through the channel.
WriteSnapshot(s) ==
    /\ phase[s] = "snapshot"
    /\ phase' = [phase EXCEPT ![s] = "stream"]
    /\ UNCHANGED <<clients, buf, closes, sent, written, dropped>>

\* Mutant: the latest event is taken first.
DeliverLatest(s) ==
    /\ phase[s] = "stream"
    /\ buf[s] # <<>>
    /\ written' = [written EXCEPT ![s] = buf[s][Len(buf[s])]]
    /\ buf' = [buf EXCEPT ![s] = SubSeq(@, 1, Len(@) - 1)]
    /\ UNCHANGED <<phase, clients, closes, sent, dropped>>

\* A receive yields what is buffered, also after the channel was closed.
Deliver(s) ==
    /\ phase[s] = "stream"
    /\ buf[s] # <<>>
    /\ written' = [written EXCEPT ![s] = Head(buf[s])]
    /\ buf' = [buf EXCEPT ![s] = Tail(buf[s])]
    /\ UNCHANGED <<phase, clients, closes, sent, dropped>>

\* Mutant: the end of the channel is taken for one more event.
IgnoreEnd(s) ==
    /\ phase[s] = "stream"
    /\ buf[s] = <<>>
    /\ closes[s] > 0
    /\ UNCHANGED vars

\* Mutant: the response ends once the channel is closed, whatever it holds.
EndAtOnce(s) ==
    /\ phase[s] = "stream"
    /\ closes[s] > 0
    /\ phase' = [phase EXCEPT ![s] = "ended"]
    /\ UNCHANGED <<clients, buf, closes, sent, written, dropped>>

\* A receive from a closed and empty channel ends the response.
EndOfStream(s) ==
    /\ phase[s] = "stream"
    /\ buf[s] = <<>>
    /\ closes[s] > 0
    /\ phase' = [phase EXCEPT ![s] = "ended"]
    /\ UNCHANGED <<clients, buf, closes, sent, written, dropped>>

\* The request's context is done: the tab was closed or the network dropped.
HangUp(s) ==
    /\ phase[s] = "stream"
    /\ phase' = [phase EXCEPT ![s] = "leaving"]
    /\ UNCHANGED <<clients, buf, closes, sent, written, dropped>>

\* Mutant: removeClient closes the channel without looking whether it still is
\* registered.
RemoveAlways(s) ==
    /\ phase[s] \in {"ended", "leaving"}
    /\ phase' = [phase EXCEPT ![s] = "closing"]
    /\ clients' = clients \ {s}
    /\ UNCHANGED <<buf, closes, sent, written, dropped>>

\* Mutant: removeClient leaves the closing to DisconnectAll.
RemoveWithoutClose(s) ==
    /\ phase[s] \in {"ended", "leaving"}
    /\ phase' = [phase EXCEPT ![s] = "gone"]
    /\ clients' = clients \ {s}
    /\ UNCHANGED <<buf, closes, sent, written, dropped>>

\* removeClient closes the channel only if it still was registered, and does
\* so after it has released the mutex (CloseChannel).
RemoveClient(s) ==
    /\ phase[s] \in {"ended", "leaving"}
    /\ phase' = [phase EXCEPT ![s] = IF s \in clients THEN "closing" ELSE "gone"]
    /\ clients' = clients \ {s}
    /\ UNCHANGED <<buf, closes, sent, written, dropped>>

CloseChannel(s) ==
    /\ phase[s] = "closing"
    /\ phase' = [phase EXCEPT ![s] = "gone"]
    /\ closes' = [closes EXCEPT ![s] = @ + 1]
    /\ UNCHANGED <<clients, buf, sent, written, dropped>>

-----------------------------------------------------------------------------
(* Calls from the MQTT client's callbacks.                                  *)

\* Mutant: a buffer is full one event too late.
Overfull(s) == Len(buf[s]) > Cap

Full(s) == Len(buf[s]) >= Cap

\* Mutant: a stream is registered only after its snapshot was taken.
BroadcastAfterSnapshot ==
    /\ sent < MaxEvents
    /\ sent' = sent + 1
    /\ buf' = [s \in Streams |-> IF s \in clients /\ phase[s] # "snapshot" /\ ~Full(s)
                                 THEN Append(buf[s], sent + 1)
                                 ELSE buf[s]]
    /\ dropped' = dropped \cup {s \in clients : Full(s)}
    /\ UNCHANGED <<phase, clients, closes, written>>

\* A client whose buffer is full is skipped.
Broadcast ==
    /\ sent < MaxEvents
    /\ sent' = sent + 1
    /\ buf' = [s \in Streams |-> IF s \in clients /\ ~Full(s)
                                 THEN Append(buf[s], sent + 1)
                                 ELSE buf[s]]
    /\ dropped' = dropped \cup {s \in clients : Full(s)}
    /\ UNCHANGED <<phase, clients, closes, written>>

\* Mutant: DisconnectAll does not empty the set of clients.
DisconnectKeepingClients ==
    /\ closes' = [s \in Streams |-> IF s \in clients THEN closes[s] + 1 ELSE closes[s]]
    /\ UNCHANGED <<phase, clients, buf, sent, written, dropped>>

DisconnectAll ==
    /\ closes' = [s \in Streams |-> IF s \in clients THEN closes[s] + 1 ELSE closes[s]]
    /\ clients' = {}
    /\ UNCHANGED <<phase, buf, sent, written, dropped>>

-----------------------------------------------------------------------------

Handler(s) == \/ AddClient(s) \/ WriteSnapshot(s) \/ Deliver(s) \/ EndOfStream(s)
              \/ HangUp(s) \/ RemoveClient(s) \/ CloseChannel(s)

Next == \/ \E s \in Streams : Handler(s)
        \/ Broadcast
        \/ DisconnectAll

Spec == Init /\ [][Next]_vars

\* A goroutine that can run does.  Nothing makes a browser ask for a stream
\* or hang up, an event happen or the broker go away.
HandlerFairness ==
    \A s \in Streams :
        WF_vars(WriteSnapshot(s) \/ Deliver(s) \/ EndOfStream(s)
                \/ RemoveClient(s) \/ CloseChannel(s))

FairSpec == Spec /\ HandlerFairness

-----------------------------------------------------------------------------
(* Properties.                                                              *)

TypeOK ==
    /\ phase \in [Streams -> Phases]
    /\ clients \subseteq Streams
    /\ buf \in [Streams -> Seq(Nat)]
    /\ \A s \in Streams : Len(buf[s]) <= Cap
    /\ closes \in [Streams -> Nat]
    /\ sent \in Nat
    /\ written \in [Streams -> Nat]
    /\ dropped \subseteq Streams

\* No channel is closed twice, whichever of removeClient and DisconnectAll
\* gets to it first (sse.go:48-50: closing it twice would panic).
NoDoubleClose == \A s \in Streams : closes[s] <= 1

\* Broadcast sends to registered channels only, and a registered channel is
\* open: a send on a closed channel would panic with the mutex held.
NoSendOnClosed == \A s \in clients : closes[s] = 0

\* A handler that has returned left nothing behind: its channel is closed and
\* no longer registered, so no later Broadcast fills it.
EveryChannelReleased ==
    \A s \in Streams : phase[s] = "gone" => closes[s] = 1 /\ s \notin clients

\* Events reach a stream in the order they were broadcast, without repeats,
\* and none overtakes the snapshot (sse.go:124-128).
InOrder ==
    \A s \in Streams : \A i \in 1..Len(buf[s]) :
        /\ written[s] < buf[s][i]
        /\ \A j \in 1..(i - 1) : buf[s][j] < buf[s][i]

\* A registered stream that never met a full buffer has missed nothing since
\* it was registered: what it has not written yet is what its channel holds.
NothingMissed ==
    \A s \in clients \ dropped :
        /\ written[s] + Len(buf[s]) = sent
        /\ \A i \in 1..Len(buf[s]) : buf[s][i] = written[s] + i

\* The inductive form of the channel properties: which of removeClient and
\* DisconnectAll owns the duty to close a channel, at every point of its life.
ChannelLife ==
    \A s \in Streams :
        /\ s \in clients => closes[s] = 0 /\ phase[s] \in Serving
        /\ phase[s] \in Serving /\ s \notin clients => closes[s] = 1
        /\ phase[s] \in {"idle", "closing"} => closes[s] = 0
        /\ phase[s] = "gone" => closes[s] = 1
        /\ phase[s] = "idle" => buf[s] = <<>>

\* How a stream looks from outside: see EventFeed.
FeedStatus ==
    [s \in Streams |-> CASE phase[s] = "idle" -> "new"
                         [] phase[s] \in {"snapshot", "stream"} ->
                              IF s \in clients THEN "open" ELSE "cut"
                         [] phase[s] = "ended" -> "ended"
                         [] OTHER -> "over"]

\* What a stream is still to be given is what its channel holds, as long as
\* there is somebody to give it to.
FeedLast ==
    [s \in Streams |-> IF phase[s] \in {"snapshot", "stream"} /\ buf[s] # <<>>
                       THEN buf[s][Len(buf[s])]
                       ELSE written[s]]

Feed == INSTANCE EventFeed WITH
            Slack <- Cap, published <- sent, status <- FeedStatus,
            cursor <- written, last <- FeedLast, lossy <- dropped

\* Channels, registration and the two ways to close a channel implement the
\* plain feed: in order, once each, nothing lost by a stream that keeps up, and
\* a stream that the server ends was given all that was published before the
\* broker went away (sse.go:122-147).
ImplementsFeed == Feed!Spec

\* A stream that DisconnectAll has closed ends, even one still writing its
\* snapshot or with events queued (sse.go:145-147).
ClosedStreamEnds ==
    \A s \in Streams :
        (closes[s] > 0 /\ phase[s] \in Serving) ~> (phase[s] = "gone")

=============================================================================
