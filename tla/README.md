# Homescreen in TLA+

Homescreen is a Go server between an MQTT broker and the browsers of a house: it
keeps the latest message of every device in a cache, sends changes to open pages
as server-sent events, and turns HTTP requests into MQTT publishes. The broker is
the source of truth; the server persists nothing. This directory models the parts
of it where goroutines, messages and failures meet, checks them with TLC on small
instances, and proves their safety properties with TLAPS for every instance.

## The system

| Component | Code | State | Operations |
|---|---|---|---|
| Broadcaster | `sse.go` | set of client channels (buffer 64), a mutex | addClient, removeClient, DisconnectAll, Broadcast, ServeHTTP |
| MQTT connection | `mqtt.go` | connection generation, connected flag, stop channel, connection history | OnConnect / subscribeAll / requestLightStates, OnConnectionLost, supervise (watchdog), setConnected, Disconnect |
| Cache and events | `mqtt.go`, `handlers.go`, `main.go` | topic → payload, `coolingMode` | handleMessage, TopicToEvent, snapshotEvents, SyncModeFromMQTT |
| Commands | `handlers.go` | none: they read the cache and the mode flag | zone temperature and quiet, room power, mode, light power and brightness, scenes |
| Emulated bridge | `cmd/z2m-emulator` | bulbs, pending reports | handle, publish, publishAll |
| Aggregated state | `handlers.go`, `api.go` | none: pure functions of the cache | buildHeatingEvent, buildLightEvent, summarizeHeating, buildAPIDoc |
| Page | `templates/index.html` | mirror of the state, suppression windows, timers | event handling, controls, debounced sliders, reconnect and reload |
| Service worker, offline page | `static/sw.js`, `static/offline.html` | the pre-cached assets | answer failed navigations, reload |
| Status, API description, help | `status.go`, `api.go` | none of their own | read-only |
| Configuration | `config.go` | read once | LoadConfig |

How they interact: the MQTT library (paho) calls the connect and connection-lost
handlers, each on a goroutine of its own, and `handleMessage` for one message at a
time. `handleMessage` writes the cache and then calls `onChange` in `main.go`,
which builds an event from the cache and broadcasts it. A true-to-false change of
the connected flag calls `onConnectionLost`, which closes every stream. HTTP
handlers run concurrently with all of that; they look at the connected flag once,
read cache and mode flag, and publish. A publish comes back to the same server as a
message, the *echo*; nothing in the server changes before the echo.

What is hard: links that come and go faster than their handlers run; a watchdog that
acts on what it saw a moment ago; two parties that may close the same channel;
snapshots taken while updates arrive; decisions taken from the cache before an echo
is in; a series of publishes that fails half-way; reports that overtake each other;
either program restarting with nothing remembered; a page whose timers race the return of
the server, and whose controls are moved by the user and by events at the same time.

What makes each component correct:

* Broadcaster: a channel is closed exactly once and never sent on afterwards; a
  stream gets the events in order, with no gap between snapshot and queue; a
  disconnected stream ends.
* Connection: one connect handler is current; *connected* means subscribed; whatever
  happens, a broker that is back is served again without a restart.
* Cache and events: a page that has read everything it was sent shows what the
  server knows; the mode survives a restart.
* Commands: a 204 is true; rooms run in the mode of the house; a zone has one
  setpoint; sliders turn nothing on.
* Bridge: once nothing is under way, the server knows every bulb.
* Aggregated state: an event says of a group of bulbs what the API documents.
* Page: it never looks alive while it is cut off, comes back by itself, and shows what the
  server knows, except where the user has just acted.

## Modules

| Module | Models | Correspondence |
|---|---|---|
| `EventFeed` | what `sse.go` promises | The abstract specification: a stream is opened, given events in order and once each, cut, and ended once it has been given everything. No channels, no handlers. |
| `SSEBroadcaster` | `sse.go` | One action per critical section or channel operation. `phase[s]` is the position of a stream's handler; `removeClient` is two steps because the code closes the channel after unlocking. `closes` counts closes so that a double close is a state. Events are numbers. `Feed` is the refinement mapping: a stream is open while registered, cut when it is not, and still to be given what its channel holds. |
| `MQTTConnection` | connection part of `mqtt.go` | `wpc[c]` is the position of the connect handler of link `c`, `dpc[d]` that of the connection-lost handler of link `d`, and `dpc[0]` that of the watchdog. Everything between two lock operations, library calls or waits is one step. The library and broker are `LinkUp`, `LinkLost` and `GiveUp`. A light's `/get` is published (`Ask`) or fails (`AskFails`), also on an open link; then the light is `missed`, as the code logs it and does not try again. The history variable `lateLoss` says that the loss of an earlier link has been handled on top of the present one. |
| `OfflineSignal` | `main.go`, `handleSSE` | EXTENDS `MQTTConnection` and INSTANCEs `SSEBroadcaster`; `Notify` of the first and `DisconnectAll` of the second are one step, as the callback is one call. `Disconnect` is left out: `main` calls it last, and the process ends behind it. |
| `LiveUpdates` | `handleMessage`, `TopicToEvent`, `snapshotEvents`, start of `main()` | EXTENDS `SSEBroadcaster`; the n-th event's content is `log[n]`. A snapshot reads topic by topic; a browser's `view` has a cell per item and topic. |
| `HeatingControl` | heating and mode handlers | A handler is a record: its `plan` of publishes, how many of the first are fatal when they fail, which failed. A scene is a plan that its client may cut short. A message is a topic, a value and whether it is to be retained: always for handlers, as configured for scenes. `latest` is what was last published on each topic, which is what rooms and server hear, `retained` what the broker keeps, `echoes` what is on its way back, `lamp` the last command a light was sent. |
| `LightControl` | light handlers, `requestLightStates`, the emulator | `commands` and `reports` are the two directions through the broker, `timers` the delayed reports, `announce` what `publishAll` still has to send (`due` counts the goroutines that have not begun). A `/get` that fails leaves its bulb `unasked` until it is heard from. `BridgeGone` is a restart, which forgets bulbs and timers, `BridgeLosesBroker` a lost connection, which keeps both. |
| `PageConnection` | the EventSource and timers of `index.html`, `sw.js`, `offline.html` | One action per callback. The timers are named as in the code: *none* is `null`, *fired* an id that is kept after the callback has run, which `sseDisconnected` relies on. The server is up, up without its broker (it answers 503), or down. A stream whose handler was past its check when the broker was lost is *admitted*: it may open late, and then stays open and silent. `missed` says why the panel may lack changes: it had no stream (*gap*), its buffer was full (*dropped*), or its stream is late (*late*). |
| `HouseState` | `buildHeatingEvent`, `buildLightEvent`, `summarizeHeating`, the lights of `buildAPIDoc` | Pure operators on what the cache holds for a room or a bulb. |
| `BrowserControls` | the heating and light controls of `index.html` | `state` is the page's mirror, `shown` what its controls show; `window` the controls whose rendering is suppressed, `held` the slider that is `:active`, `timers` the debounce timers. Built on `HouseState`, so that page, events and API are computed from one cache. |
| `MC...` | | Small houses as constants for TLC. |
| `..._proofs` | | Theorems and proofs. |

Each module lists next to its operations a few *mutants*: the same operation with a
plausible bug. They are not part of the specification; substituting one for the
original must break the property it is paired with in `PROJECT.json`, which shows
that the property can fail.

Abstractions worth knowing:

* Requests refused with 400, 404 or 503 change nothing and are not modelled. Heartbeats,
  logging, JSON and HTML are left out.
* `current()` reads the generation and the link in one step; the code reads them one
  after the other. What follows acts on the result in a later step in any case.
* `main.go`'s variable `app` is read by the callback without synchronisation. The
  model lets each call see either value (the step `BuildApp` may fall anywhere), and
  assumes interleaving otherwise.
* A publish and the broker's retaining and echoing it are one step; a failed publish
  may have got through. A SUBSCRIBE that timed out may have been accepted.
* The user's requests have no direct effect in `BrowserControls`; what they bring about is one of
  the reports that may come at any time, as in the page, which ignores the answer.
* In `PageConnection` the end of the server's process closes its connections, and an EventSource notices a dead one
  sooner or later; a machine that loses power without a word is not modelled. The browser keeps the worker's assets.
* Time has no length: a timer that runs may fire at any moment, so that the 1.5 s, 2 s, 3 s and
  3.5 s of the page may end in every order that the code allows, and some it makes unlikely.
* A card is a heating or a light card, chosen in `Init`: the two share no state.
* One zone stands for all: the mode handler switches off the rooms of every zone in
  one loop. A setpoint is one of two values, or has never been set.
* Losing the broker and restarting the server differ in `LightControl` in whether cache and
  running requests survive. In `HeatingControl` the connection enters only as publishes
  that fail, and in `HeatingControl` retained messages have all arrived when the model begins.

## Runs

Runs that pass:

| Run | Bounds | Shows |
|---|---|---|
| `SSEBroadcaster` | 2 streams, buffer 2, 4 events | channel safety, queue order, completeness, that closed streams end, and that all of it implements `EventFeed` |
| `MQTTConnection` | 2 links, 1 light | one current handler, consistent history; when all is quiet and the link is up, the server serves; a flag raised late is lowered; the server ends up serving, both unless the loss of the first link is handled on top of the second; after `Disconnect` everything ends |
| `OfflineSignal` | 2 links, 1 stream, 1 event | noticed losses end every registered stream; only streams admitted on a stale check survive |
| `LiveUpdates` | a room and two lights that share a bulb, 3 messages, 1 stream | a drained stream shows the truth; the mode is seeded |
| `HeatingControl` | 2 rooms, a scene of 3 messages, 2 requests that may overlap, publishes that fail, clients that hang up | cache and flag end up as last published and, but for topics that scenes do not have retained, as the broker retains; with requests that wait for earlier echoes, mode and setpoint stay consistent, a 204 is true, and a failed publish takes nothing with it |
| `LightControl` | 2 bulbs, 2 requests, 1 disturbance | every bulb that could be asked or was heard from becomes known; undisturbed, lights come on as asked and the slider turns nothing on |
| `PageConnection` | none: the state is finite | the page is never stranded, shows that it has been without a stream or catches up, and comes back to life |
| `BrowserControls` | 2 rooms with 2 states each, or 2 bulbs with 4; 1 value to drag to; the snapshot or 1 event on its way | controls that were left alone agree with the API, the others are corrected; the events of lights are as documented |

One light lets its request succeed, fail or not be reached; a second one, in front of it or behind, multiplies the
states beyond what is checked in minutes, and the proofs hold for any number. Two links are the smallest number at which a handler of a lost link meets the next one; what
needs more links (a handler that is two behind) is proved, for the generations and the
history. The composition needs only one stream, as streams share nothing but the set
they are in. Two rooms make a series of publishes that can stop half-way or be interleaved,
and two requests make one that overlaps or follows another; `Init` of `HeatingControl` covers
every mode, setpoint and choice of rooms that are on, so longer histories between requests
at rest add nothing. The scene names two rooms and, between them, the light, so that either kind of
message can be the one that fails or the last one sent; its last message is not retained, the first one to a room is. Three messages let one be in the
snapshot, one be read while it is built and one be queued. The buffer of `LiveUpdates` is
as large as the number of events, so that no event is dropped and `Converged`
is about every stream. A disturbance of `LightControl` is a restart or a loss of the broker
on either side, a publish that fails, or a request made before all is at rest; each may fall anywhere. Two of them are
left to the proof of `EveryBulbKnown`, which is for any number. The bulbs of `BrowserControls` are
on, on but offline, off at level 0, or report nonsense, so every way to be left out
of a group occurs next to every other; the setpoints 18.5 and 22.4 round up and down, and
DragValues lies between them.

Deadlock checking is off everywhere: bounded runs stop when links, events or requests
are used up, and a page may end on an error of the browser.

Runs that exhibit a disagreement between the code and what the repository says of it
(each is a finding in `PROJECT.json`, with the quotation):

| Run | What happens |
|---|---|
| `MQTTConnection_slow` | a late connection-lost handler, or a watchdog step, leaves a live link reported as lost for good |
| `OfflineSignal_late` | a stream stays open while the broker is away |
| `HeatingControl_retry` | a repeated mode change leaves rooms on |
| `BrowserControls_slider` | an event that comes while the debounce timer runs moves the slider back, and that value is posted |

The conditions in the properties that pass say where the code stops keeping its word; each
was found by first stating the property without it:

* `QuietMeansServing` and `Recovery` exempt a link that is hit by the loss of an earlier one (`lateLoss`): the library
  promises no order between bringing a link up and running the connection-lost handler of the last, and the watchdog acts
  on what it saw before, so either may raise the generation or lower the flag of the live link. `MQTTConnection_slow`
  shows that such a link stays reported as lost. Nothing else is exempt. Both speak of the states at rest or in the end:
  a handler of a lost link may report *connected* on the next link just before that one is subscribed.
* `Serving` says that every light was asked or its `/get` failed (`missed`): a failed one is logged and not tried again
  before the next connection, so that a connected server may not know the state of a light. For the same reason
  `EveryBulbKnown` leaves out bulbs that could not be asked and have not been heard from (`unasked`).
* `PowerMatchesMode`, `ZoneUniform`, `AnswerIsTruthful` and `RestWasSent` need requests that wait for
  earlier echoes (`Unhurried`): before an echo, a mode request is compared with the old
  mode, a room is turned on in the old mode, and the old setpoint is sent again.
* `Converged` needs streams that dropped nothing, and speaks of a topic's first item.
* `ModeSeeded` allows the seeded mode to win over a message that came while seeding.
* `CacheCoherent` compares the cache with what was last published on every topic, and with what the broker retains on
  those that no scene sends to unretained (`Passing`): after such a message, a restarted server hears an older value.
* `EveryBulbKnown` needs reports that stay in order, and `TurnedOnIsOn` a level above 0.
  `SliderTurnsNothingOn` needs requests that wait for the reports of earlier ones: a brightness
  command decided before the report of an OFF command is in turns the bulb on again.
* `GapIsFlagged` speaks only of changes for which the page had no stream. Those that an open stream was not told, because
  its buffer was full (`sse.go:96-98`) or it was opened late (`OfflineSignal_late`), leave no sign on the page.
  `BackToLife` promises no more of them.
* `BackToLife` leaves out a page that is loaded again before the service worker is active: the
  browser's own error page does not try again.
* `AgreesWithAPI` speaks of the controls that are not `behind`: those the user changed, or an event
  left alone, show the user's choice until the next event about them. `Corrected` says that this event
  corrects them, once the user stops; if none comes, nothing does. It is stated for the sliders and
  the quiet and light toggles; a room's toggle works like a light's.
* `AgreesWithAPI` asks for a brightness slider while the light reports a level, not the reverse:
  the page never hides it again until it is loaded anew (`index.html:1129`), although
  `api.go:452` says to hide it while brightness is absent.

## Fairness

* `SSEBroadcaster`: weak fairness of each stream's handler, as a runnable goroutine runs.
  None for browsers, events or the broker.
* `MQTTConnection`: weak fairness of each handler and of the watchdog's ticks; strong
  fairness of `SubAck`, since a SUBSCRIBE is retried without end and a broker that is up
  answers some time; strong fairness of `WatchdogExit`, as Go's `select` chooses at random among
  a tick and the closed stop channel, and cannot choose the tick for ever; weak fairness of
  `DisconnectClient`, the second half of `Disconnect`. None for links coming up, breaking or being given
  up on, nor for a shutdown to begin. `Recovery` has strong fairness of `LinkUp` as its premise, without
  which recovery means nothing: the broker is back and connecting is tried.
* `OfflineSignal`: weak fairness of droppers and stream handlers.
* `PageConnection`: timers fire, dead streams are noticed, attempts to connect and navigations end;
  strong fairness of `LoadPanel`: a server that stays up does not take longer than five seconds for
  every page it is asked for, which is when `sw.js` gives up. None for the server, the house, or the service worker's
  installation. `BackToLife` has its premise in the formula: the server stays up from some time on.
* `BrowserControls`: timers fire, a pressed slider is let go, events of an open stream arrive. None for the
  house, the user or the stream; `Corrected` has events about the control as its premise.

In bounded runs the last link of `MQTTConnection` holds, so `Recovery` speaks of finitely many losses.

## Proofs

`SSEBroadcaster_proofs`, for any number of streams, any capacity and number of events
(from `CapAssumption` and `MaxEventsAssumption`):

* `TypeCorrect`: types, and that no queue exceeds the capacity.
* `ChannelsClosedOnce`, `RegisteredChannelsOpen`, `ChannelsReleased`. None of the three
  is inductive: whether `removeClient` may close depends on whether `DisconnectAll` has.
  The invariant `ChannelLife` says for every phase who still owes the close:
  registered channels are open and their handlers serving; a serving handler whose channel is
  no longer registered has a closed channel; a closing one an open channel.
* `EventsInOrder`, `NoEventMissed`, from an invariant on each queue: it is increasing,
  lies between what was written and what was sent, and is gapless unless an event was
  dropped. Lemmas state what a receive (`Tail`) and a send (`Append`) do to such a queue.

* `Refinement`: every behaviour is one of `EventFeed`, under the mapping `Feed`. Each step of the broadcaster is
  a step of the feed or leaves it as it is (writing the snapshot, and the removal of a client that has hung up).
  It rests on `TypeCorrect`, on `ChannelLife` (a stream that finds its channel closed was cut, and is not
  still registered) and on the invariant on queues (the last of the queue is the last that is to be given).

`MQTTConnection_proofs`, for any number of links and lights:

* `TypeCorrect`.
* `AtMostOneCurrent`, from `GenerationsDistinct`: a generation in use is at most the
  current one, and no two started handlers share one.
* `HistoryAddsUp`, from `StatsBalance`: losses counted, losses about to be counted,
  connects counted and not yet reported, and the present connection balance. The flag
  and the history are under different mutexes, so the account has to include handlers
  between the two; the proof follows the cardinalities of the two sets of such handlers.
* `QuietServerServes`. The property speaks of a server at rest; the invariant `Attended` says what there is before: while
  a link is open that no earlier loss has hit, a handler has still to begin, and will then be the current one, or
  one is `OnDuty`: current, with everything it has done so far still in force, each light it is through with
  asked or missed. Handlers of earlier links cannot end that but by a loss, which `lateLoss` records. `FreshLinks` and
  `FirstLightNext` say how a new link's handler begins.

`OfflineSignal_proofs`, for any number of links and streams (`BufferAssumption` repeats what `SSEBroadcaster` assumes):

* `Composition`: every behaviour of the server is one of `MQTTConnection` and one of `SSEBroadcaster`, so all
  theorems about either hold of the server. The next two use it.
* `SystemTypeCorrect`.
* `OthersAreClosed`, from `LossIsSignalled`: if a stream is registered that was not late, the flag is still up or a handler
  that lowered it has still to call `DisconnectAll`; and such a handler always gets there (`SignallingGoesOn`).

`LiveUpdates_proofs`, for any house, capacity and number of streams and messages (`ItemTopicsAssumption`: only
item 0 has the topic of the mode):

* `IsBroadcaster`: the pipeline refines the broadcaster, so the theorems on queues hold of it; `LiveTypeCorrect`.
* `ModeIsSeeded`, from `FlagFollows`: once a mode message is handled, only what `main` had read before can replace it.
* `PagesConverge`. What holds of a stream that has read everything is not inductive; `UpToDate` is, for streams in any
  phase: of the events it has still to write, the last that mentions a cell brings what is so now; if
  there is none, the cell is shown as it is now or the snapshot has still to read it; or
  the message is still in the hands of `handleMessage`. `SnapshotFirst` orders snapshot and queue.

`PageConnection_proofs` (the model has no constants; the proofs explain what the run found):

* `TypeCorrect`, which includes that the reload timer runs only behind an overlay timer that has fired.
* `PanelNeverStranded`. It is not inductive: it needs `ReloadFollows`, that a fired overlay timer
  has handed over to the reload timer or to a reload, since `sseDisconnected` does nothing while the
  overlay timer's id is set. One lemma per group of actions.

`HeatingControl_proofs`, for any rooms, requests, setpoints and scenes (from `RoomsAssumption`, and from
`ScenesAssumption`: a scene publishes to topics of the house, and to the mode topic only modes):

* `TypeCorrect`, from `TypeInv`: every plan is a sequence of messages, so only a mode ever reaches the flag.
* `CacheIsCoherent`. That the cache equals what was published once nothing is on its way is not inductive. The
  invariant `EchoesCatchUp` says it per topic and at all times: the last echo of a topic brings what was last
  published there, and a topic with no echo is up to date; `FlagFollows` says that the flag is the cached mode, and
  `RetentionInv` that the broker retains the latest message of every topic that is not `Passing`, as every
  plan under way sends there with retention.
* `AnswersAreTrue`, `TheRestIsSent`, for requests that wait for earlier echoes. `OneAtATime`: then one handler runs at a time, and it
  reads its setpoint from a cache that is up to date. `Deeds`: whatever a running handler was asked is done, has failed,
  or is still in its plan and not overruled later in it. It is stated for any plan, scenes included.
* `RoomsFollowTheMode`, from `ModeInv`: a room that is on runs in the mode of the house or will be switched off by the
  mode request under way, the plan of which begins with the mode and has every room after it. `OneSetpoint`, from
  `SetpointInv`: whatever is about to be sent to a setpoint is what was asked, or what is there already. Both have a hypothesis
  about the configured scenes, which send what they like: `ScenesLeaveMode` (none sets the mode or turns a
  room on) and `ScenesLeaveSetpoints` (none sets a setpoint). The scene of the run fulfils both; with one that sets
  the mode alone, rooms stay in the old one.

`LightControl_proofs`, for any bulbs, levels, requests and disturbances (`EntitiesAssumption`: a light lists a bulb once, which
`config.go` does not check, and only listed bulbs can be dimmed):

* `TypeCorrect`.
* `BulbsAreKnown`, from `NewsTravels`: the last report set off about a bulb is true, and the last one on its way to
  the server is, or else the server's cache, unless the bulb could not be asked or news is still to come (a connection, a question,
  a command, a timer, an announcement). One lemma per way for reports to move on.
* `SliderIsSafe` and `LightComesOn`, from `OneAtATime` (undisturbed, a running request finds the bulbs it has not reached as the cache
  says), `OnlyLit` (a brightness command on its way goes to a bulb that is on and gets no other command) and
  `TurningOn` (every bulb is lit, has the command on its way, or is still to be sent it).

`BrowserControls_proofs`, for any rooms, bulbs, reports and values to drag to:

* `PageAgrees`, from `NewsOnItsWay` (in an open stream the last event about an item is what the server would send now, and an item
  without one is in the mirror as it is) and `ShowsMirror` (a control that is not behind shows the mirror). `SameSums` shows that
  the two places that sum a zone up, `index.html` and `api.go`, give the same, which the comment at `api.go:304` asks of them.
* `GroupsAsDocumented`: for any finite group, `buildLightEvent` gives what the API documents. It is a fold, for which TLAPS
  has no induction rule that its provers could use; the proof makes do with sets: `Upwards` derives from well-foundedness of
  `<` that a set with 0 and the successor of each member has all numbers; with it, `RoundsExist` shows that the fold's
  recursion has a solution, and `EventSums`, by the number of bulbs, what the solution says. `OneMoreBulb` is the round of the loop.
* `TypeCorrect`: sliders stay in the range of their markup. It needs both the above and `MaxExists`: the largest setpoint
  of finitely many rooms is one of them.
* `RoomsAssumption` has two parts: a zone has rooms, as otherwise it gets no heating card (`index.html:814`), and a room is not called like one
  of the model's controls, which is a convention of the model: the page finds its controls by kind as well as name.

Only model-checked: liveness (`ClosedStreamEnds`, `StaleFlagHealed`, `Recovery`, `ShutdownQuiesces`, `LossEndsStreams`,
`BackToLife`, `GapIsFlagged`, `Corrected`), which is out of reach of TLAPS here, as it needs ENABLED. Every invariant and every
action property of the runs that pass is proved; so is the refinement of `EventFeed`. Of the properties that runs
show violated, `QuietServerServes` and `OthersAreClosed` say what is true instead of the first two.

## Not modelled

* `LoadConfig` (`config.go`): read once, checked before anything else runs.
* The text of `GET /api` and the status page's formatting; HTTP routes, embedded assets, packaging.
* Requests refused before they change anything (400, 404, 503).
* Setpoints that are not finite numbers: `strconv.ParseFloat` takes NaN, `json.Marshal` does not, and the event
  is then empty (`handlers.go:174`).
* In the page: the mode dialog, tabs, scene buttons, the unlocking of secret zones, and layout.
* In the emulator: TOGGLE and bulbs that are not configured, which homescreen never sends or needs.

## Plan

Done: `SSEBroadcaster`, `MQTTConnection`, `OfflineSignal`, `LiveUpdates`, `HeatingControl` with scenes, `LightControl`,
`EventFeed` and its refinement, `PageConnection`, `HouseState`, `BrowserControls`, and the proofs above.

Left, most important first:

1. The cache across connections: `MQTTConnection` with the cache, retained messages arriving after
   the connected flag, entries that outlive a connection.
2. A feed of states rather than events on top of `LiveUpdates`: a page shows a past state of the cache,
   never goes back, and ends at the present one.
3. The mode in the page (`applyCoolingMode`) and the commands of the page composed with `HeatingControl`.
