----------------------------- MODULE EventFeed -----------------------------
(***************************************************************************)
(* What the event stream promises a browser, without channels, registration *)
(* or handlers: whoever opens the stream is given, in order and once each,   *)
(* the events published from then on, until the feed is cut; a stream that   *)
(* was cut is still given what was published before, and is then ended.      *)
(* Only a stream that lags Slack events behind may lose any.                 *)
(*                                                                           *)
(* SSEBroadcaster implements this specification.                             *)
(***************************************************************************)
EXTENDS Naturals

CONSTANTS Streams,  \* the streams that may be opened
          Slack     \* how far a stream may lag without losing an event

VARIABLES published,  \* the number of the latest event
          status,     \* "new", "open", "cut" off from later events, "ended" by
                      \* the server, "over"
          cursor,     \* the last event each stream was given
          last,       \* the last event each stream is to be given as things are
          lossy       \* the streams that have lost an event

vars == <<published, status, cursor, last, lossy>>

Init ==
    /\ published = 0
    /\ status = [s \in Streams |-> "new"]
    /\ cursor = [s \in Streams |-> 0]
    /\ last = [s \in Streams |-> 0]
    /\ lossy = {}

Open(s) ==
    /\ status[s] = "new"
    /\ status' = [status EXCEPT ![s] = "open"]
    /\ cursor' = [cursor EXCEPT ![s] = published]
    /\ last' = [last EXCEPT ![s] = published]
    /\ UNCHANGED <<published, lossy>>

Lagging == {s \in Streams : cursor[s] + Slack <= published}

Publish ==
    \E losing \in SUBSET Lagging :
        /\ published' = published + 1
        /\ last' = [s \in Streams |-> IF status[s] = "open" /\ s \notin losing
                                      THEN published + 1
                                      ELSE last[s]]
        /\ lossy' = lossy \cup losing
        /\ UNCHANGED <<status, cursor>>

\* The next event; a stream that has lost some may skip ahead.
Give(s) ==
    /\ status[s] \in {"open", "cut"}
    /\ \E e \in (cursor[s] + 1)..last[s] :
          /\ s \notin lossy => e = cursor[s] + 1
          /\ cursor' = [cursor EXCEPT ![s] = e]
    /\ UNCHANGED <<published, status, last, lossy>>

Cut ==
    /\ status' = [s \in Streams |-> IF status[s] = "open" THEN "cut" ELSE status[s]]
    /\ UNCHANGED <<published, cursor, last, lossy>>

\* The server ends a stream only if it was cut and has been given everything.
End(s) ==
    /\ status[s] = "cut"
    /\ cursor[s] = last[s]
    /\ status' = [status EXCEPT ![s] = "ended"]
    /\ UNCHANGED <<published, cursor, last, lossy>>

\* The browser goes away: there is nothing more to give.
HangUp(s) ==
    /\ status[s] \in {"open", "cut"}
    /\ status' = [status EXCEPT ![s] = "over"]
    /\ last' = [last EXCEPT ![s] = cursor[s]]
    /\ UNCHANGED <<published, cursor, lossy>>

Forget(s) ==
    /\ status[s] = "ended"
    /\ status' = [status EXCEPT ![s] = "over"]
    /\ UNCHANGED <<published, cursor, last, lossy>>

Next == \/ Publish \/ Cut
        \/ \E s \in Streams : Open(s) \/ Give(s) \/ End(s) \/ HangUp(s) \/ Forget(s)

Spec == Init /\ [][Next]_vars

=============================================================================
