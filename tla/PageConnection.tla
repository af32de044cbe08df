--------------------------- MODULE PageConnection ---------------------------
(***************************************************************************)
(* How a browser follows the server: the EventSource, the overlay and       *)
(* reload timers of index.html, the service worker that answers a failed    *)
(* navigation with offline.html, and the reloads of that page.              *)
(*                                                                          *)
(* The browser is external: an EventSource tries again after a network      *)
(* error, and gives up for good after an HTTP error such as the 503 of a    *)
(* server without its broker.                                               *)
(***************************************************************************)

VARIABLES server,           \* "up", "away": up without its broker, or "down"
          worker,           \* is the service worker active?
          page,             \* "panel", "offline", or "dead": an error of the browser
          navigating,       \* is a reload under way? The old page lives on meanwhile
          source,           \* evtSource: "admitted" if the handler has let it in and
                            \* the broker was lost since, "stale" once its stream is
                            \* dead unnoticed, "failed" if given up, "null" if closed
          _overlayTimer,    \* "none", "running" or "fired"
          _reloadTimer,
          _wasDisconnected,
          overlay,          \* is the spinner visible?
          missed            \* why the panel may lack changes of the house since its
                            \* last snapshot: see Reasons

\* There was no open stream; its buffer was full; or it was opened after
\* DisconnectAll, by a server that hears nothing.
Reasons == {"gap", "dropped", "late"}

timerVars == <<_overlayTimer, _reloadTimer>>
panelVars == <<source, timerVars, _wasDisconnected, overlay>>
vars == <<server, worker, page, navigating, panelVars, missed>>

Timer == {"none", "running", "fired"}

\* The script of index.html as it starts, with the state embedded in the page.
FreshPanel ==
    /\ page' = "panel" /\ source' = "connecting"
    /\ _overlayTimer' = "none" /\ _reloadTimer' = "none"
    /\ _wasDisconnected' = FALSE /\ overlay' = FALSE
    /\ missed' = {}

Init ==
    /\ server = "up" /\ worker = FALSE
    /\ page = "panel" /\ navigating = FALSE /\ source = "connecting"
    /\ _overlayTimer = "none" /\ _reloadTimer = "none"
    /\ _wasDisconnected = FALSE /\ overlay = FALSE /\ missed = {}

-----------------------------------------------------------------------------
(* The server and the service worker.                                       *)

\* The broker is lost: DisconnectAll ends the open stream, but not one that is
\* registered later by a handler that was past its check before.
LoseBroker ==
    /\ server = "up"
    /\ server' = "away"
    /\ source' \in CASE source = "open"       -> {"stale"}
                     [] source = "connecting" -> {"connecting", "admitted"}
                     [] OTHER                 -> {source}
    /\ UNCHANGED <<worker, page, navigating, timerVars, _wasDisconnected, overlay, missed>>

\* The server asks for everything anew, and a stream that is open hears of it.
BrokerBack ==
    /\ server = "away"
    /\ server' = "up"
    /\ missed' \in {missed, missed \ {"late"}}
    /\ UNCHANGED <<worker, page, navigating, panelVars>>

\* The process ends, and its connections are closed.
ServerStops ==
    /\ server # "down"
    /\ server' = "down"
    /\ source' = CASE source = "open"     -> "stale"
                   [] source = "admitted" -> "connecting"
                   [] OTHER               -> source
    /\ UNCHANGED <<worker, page, navigating, timerVars, _wasDisconnected, overlay, missed>>

ServerStarts ==
    /\ server = "down"
    /\ server' \in {"up", "away"}
    /\ UNCHANGED <<worker, page, navigating, panelVars, missed>>

\* Something in the house changes.  Broadcast passes it on to an open stream or,
\* if the buffer of that is full, skips it; without the broker it hears nothing.
HouseChanges ==
    /\ page = "panel"
    /\ missed' \in CASE source = "open" /\ server = "up" -> {missed, missed \cup {"dropped"}}
                     [] source = "open" /\ server # "up" -> {missed \cup {"late"}}
                     [] OTHER                            -> {missed \cup {"gap"}}
    /\ UNCHANGED <<server, worker, page, navigating, panelVars>>

\* The assets are pre-cached; the server has them without its broker too.
InstallWorker ==
    /\ page = "panel" /\ ~worker /\ server # "down"
    /\ worker' = TRUE
    /\ UNCHANGED <<server, page, navigating, panelVars, missed>>

-----------------------------------------------------------------------------
(* The panel: index.html.                                                   *)

sseDisconnected == _overlayTimer' = IF _overlayTimer = "none" THEN "running" ELSE _overlayTimer

\* The browser notices that the stream has ended, and tries again.
StreamBreaks ==
    /\ page = "panel" /\ source = "stale"
    /\ source' = "connecting"
    /\ sseDisconnected
    /\ UNCHANGED <<server, worker, page, navigating, _reloadTimer, _wasDisconnected, overlay, missed>>

\* Mutant: an answer of 503 is not taken for a loss.
RefusedQuietly ==
    /\ page = "panel" /\ source = "connecting" /\ server # "up"
    /\ source' = IF server = "away" THEN "failed" ELSE source
    /\ IF server = "away" THEN UNCHANGED _overlayTimer ELSE sseDisconnected
    /\ UNCHANGED <<server, worker, page, navigating, _reloadTimer, _wasDisconnected, overlay, missed>>

\* A network error is tried again, an answer of 503 is final.
ConnectFails ==
    /\ page = "panel" /\ source = "connecting" /\ server # "up"
    /\ source' = IF server = "away" THEN "failed" ELSE source
    /\ sseDisconnected
    /\ UNCHANGED <<server, worker, page, navigating, _reloadTimer, _wasDisconnected, overlay, missed>>

\* The stream opens with a snapshot.  An admitted one is registered before
\* DisconnectAll, and ended by it, or after; its snapshot may lack what the server
\* has not heard.
StreamOpens ==
    /\ page = "panel"
    /\ \/ source = "connecting" /\ server = "up" /\ source' = "open" /\ missed' = {}
       \/ /\ source = "admitted"
          /\ source' \in {"open", "stale"}
          /\ missed' \in {{}, IF missed = {} THEN {} ELSE {"late"}}
    /\ UNCHANGED <<server, worker, page>>

\* Mutant: the id of the overlay timer is kept.
ConnectedKeepingId ==
    /\ StreamOpens
    /\ _overlayTimer' = IF _overlayTimer = "running" THEN "fired" ELSE _overlayTimer
    /\ _reloadTimer' = "none"
    /\ navigating' = (navigating \/ _wasDisconnected)
    /\ overlay' = (overlay /\ _wasDisconnected)
    /\ UNCHANGED _wasDisconnected

\* Mutant: the reload timer keeps running.
ConnectedKeepingReload ==
    /\ StreamOpens
    /\ _overlayTimer' = "none"
    /\ navigating' = (navigating \/ _wasDisconnected)
    /\ overlay' = (overlay /\ _wasDisconnected)
    /\ UNCHANGED <<_reloadTimer, _wasDisconnected>>

\* onopen: the timers are off; a page that showed the overlay is loaded again.
sseConnected ==
    /\ StreamOpens
    /\ _overlayTimer' = "none" /\ _reloadTimer' = "none"
    /\ navigating' = (navigating \/ _wasDisconnected)
    /\ overlay' = (overlay /\ _wasDisconnected)
    /\ UNCHANGED _wasDisconnected

\* Mutant: the spinner turns, and nothing else happens.
OverlayOnly ==
    /\ page = "panel" /\ _overlayTimer = "running"
    /\ _overlayTimer' = "fired"
    /\ _wasDisconnected' = TRUE /\ overlay' = TRUE
    /\ UNCHANGED <<server, worker, page, navigating, source, _reloadTimer, missed>>

\* 3.5 seconds after the loss.
ShowOverlay ==
    /\ page = "panel" /\ _overlayTimer = "running"
    /\ _overlayTimer' = "fired" /\ _reloadTimer' = "running"
    /\ _wasDisconnected' = TRUE /\ overlay' = TRUE
    /\ UNCHANGED <<server, worker, page, navigating, source, missed>>

\* 3 seconds later.
Reload ==
    /\ page = "panel" /\ _reloadTimer = "running"
    /\ _reloadTimer' = "fired"
    /\ source' = "null"
    /\ navigating' = TRUE
    /\ UNCHANGED <<server, worker, page, _overlayTimer, _wasDisconnected, overlay, missed>>

-----------------------------------------------------------------------------
(* Navigation: sw.js and offline.html.                                      *)

LoadPanel ==
    /\ navigating /\ server = "up"
    /\ navigating' = FALSE
    /\ FreshPanel
    /\ UNCHANGED <<server, worker>>

\* The service worker has offline.html in its cache, with its assets; without it
\* the browser shows the error, and no script runs.
FallBack ==
    /\ navigating
    /\ navigating' = FALSE
    /\ page' = IF worker THEN "offline" ELSE "dead"
    /\ source' = "null" /\ _overlayTimer' = "none" /\ _reloadTimer' = "none"
    /\ _wasDisconnected' = FALSE /\ overlay' = FALSE
    /\ UNCHANGED <<server, worker, missed>>

\* fetch is rejected.
NetworkError == server = "down" /\ FallBack

\* Status 503: "treat it the same as a network failure".
ServerError == server = "away" /\ FallBack

\* The worker, and only it, gives up after five seconds, whatever the server is.
FetchTimesOut == worker /\ FallBack

LoadFails == NetworkError \/ ServerError \/ FetchTimesOut

\* Every five seconds.
RetryOffline ==
    /\ page = "offline" /\ ~navigating
    /\ navigating' = TRUE
    /\ UNCHANGED <<server, worker, page, panelVars, missed>>

-----------------------------------------------------------------------------

EventSource == StreamBreaks \/ ConnectFails \/ sseConnected

Timers == ShowOverlay \/ Reload \/ RetryOffline

Server == LoseBroker \/ BrokerBack \/ ServerStops \/ ServerStarts

Next == \/ Server \/ HouseChanges \/ InstallWorker
        \/ EventSource \/ Timers \/ LoadPanel \/ LoadFails

\* Timers fire, dead streams are noticed (TCP), connection attempts and
\* navigations end, and a server that stays up does not always take more than
\* five seconds for a page (SF).
Fairness ==
    /\ WF_vars(EventSource)
    /\ WF_vars(ShowOverlay) /\ WF_vars(Reload) /\ WF_vars(RetryOffline)
    /\ WF_vars(LoadPanel \/ LoadFails)
    /\ SF_vars(LoadPanel)

FairSpec == Init /\ [][Next]_vars /\ Fairness

-----------------------------------------------------------------------------
(* Properties.                                                              *)

TypeOK ==
    /\ server \in {"up", "away", "down"}
    /\ page \in {"panel", "offline", "dead"}
    /\ missed \subseteq Reasons
    /\ source \in {"connecting", "admitted", "open", "stale", "failed", "null"}
    /\ {_overlayTimer, _reloadTimer} \subseteq Timer
    /\ _reloadTimer # "none" => _overlayTimer = "fired"
    /\ {worker, navigating, _wasDisconnected, overlay} \subseteq BOOLEAN

\* A panel whose EventSource has given up, or that shows the spinner, always has
\* a timer or a reload under way that ends this, however the timers race the
\* reconnection (index.html:977-1005): nothing else would.
NeverStranded ==
    page = "panel" /\ (source \in {"failed", "null"} \/ overlay)
        => "running" \in {_overlayTimer, _reloadTimer} \/ navigating

\* A panel that lacks a change because its stream was not there catches up or
\* says that it is cut off; it does not go on looking alive (index.html:977-991).
\* Of what an open stream was not told, being full or late, there is no sign.
GapIsFlagged ==
    (page = "panel" /\ "gap" \in missed) ~> ("gap" \notin missed \/ overlay \/ page # "panel")

Live == page = "panel" /\ source = "open" /\ ~overlay /\ "gap" \notin missed

\* "The page will automatically reconnect when the server is available again"
\* (docs/README.md:111), and then lacks nothing but what an open stream was not
\* told.  The one exception is a page that is loaded again before the service
\* worker is there to answer for the server.
BackToLife == <>[](server = "up") => <>[]Live \/ <>(page = "dead")

=============================================================================
