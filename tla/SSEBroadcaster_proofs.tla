----------------------- MODULE SSEBroadcaster_proofs -----------------------
(***************************************************************************)
(* The channel and queue properties of SSEBroadcaster hold for any number   *)
(* of streams, any capacity and any number of events.                       *)
(***************************************************************************)
EXTENDS SSEBroadcaster, TLAPS

\* Every reachable state is well typed: a step of a handler, a Broadcast or a
\* DisconnectAll leaves queues of event numbers and counts of closes.
THEOREM TypeCorrect == Spec => []TypeOK
<1>1. Init => TypeOK
  BY CapAssumption DEF Init, TypeOK, Phases, Serving
<1>2. TypeOK /\ [Next]_vars => TypeOK'
  <2> SUFFICES ASSUME TypeOK, [Next]_vars PROVE TypeOK'
    OBVIOUS
  <2> USE DEF TypeOK, Phases, Serving
  <2>1. ASSUME NEW s \in Streams, AddClient(s) PROVE TypeOK'
    BY <2>1 DEF AddClient
  <2>2. ASSUME NEW s \in Streams, WriteSnapshot(s) PROVE TypeOK'
    BY <2>2 DEF WriteSnapshot
  <2>3. ASSUME NEW s \in Streams, Deliver(s) PROVE TypeOK'
    <3>1. buf[s] \in Seq(Nat) /\ buf[s] # <<>>
      BY <2>3 DEF Deliver
    <3>2. /\ Head(buf[s]) \in Nat /\ Tail(buf[s]) \in Seq(Nat)
          /\ Len(Tail(buf[s])) <= Cap
      BY <3>1, CapAssumption
    <3>. QED BY <2>3, <3>2 DEF Deliver
  <2>4. ASSUME NEW s \in Streams, EndOfStream(s) \/ HangUp(s) PROVE TypeOK'
    BY <2>4 DEF EndOfStream, HangUp
  <2>5. ASSUME NEW s \in Streams, RemoveClient(s) PROVE TypeOK'
    BY <2>5 DEF RemoveClient
  <2>6. ASSUME NEW s \in Streams, CloseChannel(s) PROVE TypeOK'
    BY <2>6 DEF CloseChannel
  <2>7. ASSUME Broadcast PROVE TypeOK'
    <3>1. sent' \in Nat /\ sent + 1 \in Nat
      BY <2>7 DEF Broadcast
    <3>2. \A s \in Streams : Append(buf[s], sent + 1) \in Seq(Nat)
      BY <3>1
    <3>3. buf' \in [Streams -> Seq(Nat)]
      BY <2>7, <3>2 DEF Broadcast
    <3>4. ASSUME NEW s \in Streams PROVE Len(buf'[s]) <= Cap
      <4>1. CASE s \in clients /\ ~Full(s)
        BY <2>7, <3>1, <4>1, CapAssumption DEF Broadcast, Full
      <4>2. CASE ~(s \in clients /\ ~Full(s))
        BY <2>7, <4>2 DEF Broadcast
      <4>. QED BY <4>1, <4>2
    <3>. QED BY <2>7, <3>1, <3>3, <3>4 DEF Broadcast
  <2>8. ASSUME DisconnectAll PROVE TypeOK'
    BY <2>8 DEF DisconnectAll
  <2>9. CASE UNCHANGED vars
    BY <2>9 DEF vars
  <2>. QED
    BY <2>1, <2>2, <2>3, <2>4, <2>5, <2>6, <2>7, <2>8, <2>9 DEF Next, Handler
<1>. QED
  BY <1>1, <1>2, PTL DEF Spec

-----------------------------------------------------------------------------

\* Whatever the interleaving of handlers, losses and events, a channel's close
\* is owed by exactly one of removeClient and DisconnectAll.
LEMMA ChannelLifeInvariant == Spec => []ChannelLife
<1>1. Init => ChannelLife
  BY DEF Init, ChannelLife, Serving
<1>2. TypeOK /\ ChannelLife /\ [Next]_vars => ChannelLife'
  <2> SUFFICES ASSUME TypeOK, ChannelLife, [Next]_vars PROVE ChannelLife'
    OBVIOUS
  <2> USE DEF TypeOK, ChannelLife, Phases, Serving
  <2>1. ASSUME NEW s \in Streams, AddClient(s) PROVE ChannelLife'
    BY <2>1 DEF AddClient
  <2>2. ASSUME NEW s \in Streams, WriteSnapshot(s) PROVE ChannelLife'
    BY <2>2 DEF WriteSnapshot
  <2>3. ASSUME NEW s \in Streams, Deliver(s) PROVE ChannelLife'
    <3>1. \A t \in Streams : phase[t] = "idle" => buf'[t] = buf[t]
      BY <2>3 DEF Deliver
    <3>. QED BY <2>3, <3>1 DEF Deliver
  <2>4. ASSUME NEW s \in Streams, EndOfStream(s) \/ HangUp(s) PROVE ChannelLife'
    BY <2>4 DEF EndOfStream, HangUp
  <2>5. ASSUME NEW s \in Streams, RemoveClient(s) PROVE ChannelLife'
    BY <2>5 DEF RemoveClient
  <2>6. ASSUME NEW s \in Streams, CloseChannel(s) PROVE ChannelLife'
    BY <2>6 DEF CloseChannel
  <2>7. ASSUME Broadcast PROVE ChannelLife'
    <3>1. \A t \in Streams : phase[t] = "idle" => buf'[t] = buf[t]
      BY <2>7 DEF Broadcast
    <3>. QED BY <2>7, <3>1 DEF Broadcast
  <2>8. ASSUME DisconnectAll PROVE ChannelLife'
    BY <2>8 DEF DisconnectAll
  <2>9. CASE UNCHANGED vars
    BY <2>9 DEF vars
  <2>. QED
    BY <2>1, <2>2, <2>3, <2>4, <2>5, <2>6, <2>7, <2>8, <2>9 DEF Next, Handler
<1>. QED
  BY <1>1, <1>2, TypeCorrect, PTL DEF Spec

\* No channel is closed twice: removeClient and DisconnectAll never both close.
THEOREM ChannelsClosedOnce == Spec => []NoDoubleClose
<1>1. ASSUME TypeOK, ChannelLife, NEW s \in Streams PROVE closes[s] <= 1
  <2>1. phase[s] \in Phases
    BY <1>1 DEF TypeOK
  <2>2. closes[s] = 0 \/ closes[s] = 1
    BY <1>1, <2>1 DEF ChannelLife, Phases
  <2>. QED BY <2>2
<1>2. TypeOK /\ ChannelLife => NoDoubleClose
  BY <1>1 DEF NoDoubleClose
<1>. QED
  BY <1>2, TypeCorrect, ChannelLifeInvariant, PTL

\* Broadcast never sends on a closed channel.
THEOREM RegisteredChannelsOpen == Spec => []NoSendOnClosed
<1>1. TypeOK /\ ChannelLife => NoSendOnClosed
  BY DEF TypeOK, ChannelLife, NoSendOnClosed
<1>. QED
  BY <1>1, TypeCorrect, ChannelLifeInvariant, PTL

\* A handler that returned has its channel closed and unregistered.
THEOREM ChannelsReleased == Spec => []EveryChannelReleased
<1>1. TypeOK /\ ChannelLife => EveryChannelReleased
  BY DEF TypeOK, ChannelLife, EveryChannelReleased, Serving
<1>. QED
  BY <1>1, TypeCorrect, ChannelLifeInvariant, PTL

-----------------------------------------------------------------------------
(* What a receive and a send do to a queue of event numbers.                *)

\* q is increasing, lies above w and reaches no further than n.
Ordered(q, w, n) ==
    \A i \in 1..Len(q) : /\ w < q[i]
                         /\ q[i] <= n
                         /\ \A j \in 1..(i - 1) : q[j] < q[i]

\* q is w + 1, w + 2, ..., n.
Consecutive(q, w, n) ==
    /\ w + Len(q) = n
    /\ \A i \in 1..Len(q) : q[i] = w + i

\* A receive takes the first element and moves the others up by one.
LEMMA TailElements ==
  ASSUME NEW q \in Seq(Nat), q # <<>>
  PROVE  /\ Head(q) = q[1]
         /\ Len(Tail(q)) = Len(q) - 1
         /\ Len(q) \in Nat /\ 1 <= Len(q)
         /\ \A i \in 1..Len(q) : q[i] \in Nat
         /\ \A i \in 1..(Len(q) - 1) : Tail(q)[i] = q[i + 1]
OBVIOUS

\* A send adds one element at the end and leaves the others where they are.
LEMMA AppendElements ==
  ASSUME NEW q \in Seq(Nat), NEW e \in Nat
  PROVE  /\ Len(q) \in Nat
         /\ Len(Append(q, e)) = Len(q) + 1
         /\ \A i \in 1..Len(q) : q[i] \in Nat
         /\ Append(q, e)[Len(q) + 1] = e
         /\ \A i \in 1..Len(q) : Append(q, e)[i] = q[i]
OBVIOUS

\* A receive keeps the order: what is left lies above what was received.
LEMMA ReceiveOrdered ==
  ASSUME NEW q \in Seq(Nat), q # <<>>, NEW w \in Nat, NEW n \in Nat, Ordered(q, w, n)
  PROVE  Ordered(Tail(q), Head(q), n) /\ Head(q) <= n
<1> DEFINE L == Len(q)
<1>1. /\ Head(q) = q[1] /\ Len(Tail(q)) = L - 1 /\ L \in Nat /\ 1 <= L
      /\ \A i \in 1..L : q[i] \in Nat
      /\ \A i \in 1..(L - 1) : Tail(q)[i] = q[i + 1]
  BY TailElements
<1>2. \A i \in 1..L : q[i] <= n /\ \A j \in 1..(i - 1) : q[j] < q[i]
  BY DEF Ordered
<1> HIDE DEF L
<1>3. ASSUME NEW i \in 1..(L - 1)
      PROVE  /\ Head(q) < Tail(q)[i]
             /\ Tail(q)[i] <= n
             /\ \A j \in 1..(i - 1) : Tail(q)[j] < Tail(q)[i]
  <2>1. i + 1 \in 1..L /\ Tail(q)[i] = q[i + 1] /\ 1 \in 1..((i + 1) - 1)
    BY <1>1
  <2>2. \A j \in 1..((i + 1) - 1) : q[j] < q[i + 1]
    BY <1>2, <2>1
  <2>3. ASSUME NEW j \in 1..(i - 1) PROVE Tail(q)[j] < Tail(q)[i]
    <3>1. j \in 1..(L - 1) /\ j + 1 \in 1..((i + 1) - 1)
      BY <1>1
    <3>. QED BY <1>1, <2>1, <2>2, <3>1
  <2>. QED BY <1>1, <1>2, <2>1, <2>2, <2>3
<1>4. 1 \in 1..L
  BY <1>1
<1>. QED BY <1>1, <1>2, <1>3, <1>4 DEF Ordered

\* A receive from a queue without gaps leaves one without gaps.
LEMMA ReceiveConsecutive ==
  ASSUME NEW q \in Seq(Nat), q # <<>>, NEW w \in Nat, NEW n \in Nat, Consecutive(q, w, n)
  PROVE  Consecutive(Tail(q), Head(q), n)
<1> DEFINE L == Len(q)
<1>1. /\ Head(q) = q[1] /\ Len(Tail(q)) = L - 1 /\ L \in Nat /\ 1 <= L
      /\ \A i \in 1..(L - 1) : Tail(q)[i] = q[i + 1]
  BY TailElements
<1>2. w + L = n /\ \A i \in 1..L : q[i] = w + i
  BY DEF Consecutive
<1> HIDE DEF L
<1>3. 1 \in 1..L /\ \A i \in 1..(L - 1) : i + 1 \in 1..L
  BY <1>1
<1>4. Head(q) = w + 1
  BY <1>1, <1>2, <1>3
<1>5. \A i \in 1..(L - 1) : Tail(q)[i] = (w + 1) + i
  BY <1>1, <1>2, <1>3
<1>6. (w + 1) + (L - 1) = n
  BY <1>1, <1>2
<1>. QED BY <1>1, <1>4, <1>5, <1>6 DEF Consecutive

\* Sending the next event number keeps the order.
LEMMA SendOrdered ==
  ASSUME NEW q \in Seq(Nat), NEW w \in Nat, NEW n \in Nat, w <= n, Ordered(q, w, n)
  PROVE  Ordered(Append(q, n + 1), w, n + 1)
<1> DEFINE L == Len(q)
           r == Append(q, n + 1)
<1>1. /\ L \in Nat /\ Len(r) = L + 1
      /\ \A i \in 1..L : q[i] \in Nat
      /\ r[L + 1] = n + 1
      /\ \A i \in 1..L : r[i] = q[i]
  BY AppendElements, n + 1 \in Nat
<1>2. \A i \in 1..L : w < q[i] /\ q[i] <= n /\ \A j \in 1..(i - 1) : q[j] < q[i]
  BY DEF Ordered
<1> HIDE DEF L, r
<1>3. \A i \in 1..L : w < r[i] /\ r[i] <= n /\ r[i] \in Nat
  BY <1>1, <1>2
<1>4. ASSUME NEW i \in 1..(L + 1)
      PROVE  w < r[i] /\ r[i] <= n + 1 /\ \A j \in 1..(i - 1) : r[j] < r[i]
  <2>0. \A j \in 1..(i - 1) : j \in 1..L
    BY <1>1
  <2>1. CASE i = L + 1
    BY <1>1, <1>3, <2>0, <2>1
  <2>2. CASE i \in 1..L
    BY <1>1, <1>2, <1>3, <2>0, <2>2
  <2>. QED BY <1>1, <2>1, <2>2
<1>5. Ordered(r, w, n + 1)
  BY <1>1, <1>4 DEF Ordered
<1>. QED BY <1>5 DEF r

\* Sending the next event number leaves no gap.
LEMMA SendConsecutive ==
  ASSUME NEW q \in Seq(Nat), NEW w \in Nat, NEW n \in Nat, Consecutive(q, w, n)
  PROVE  Consecutive(Append(q, n + 1), w, n + 1)
<1> DEFINE L == Len(q)
           r == Append(q, n + 1)
<1>1. /\ L \in Nat /\ Len(r) = L + 1
      /\ r[L + 1] = n + 1
      /\ \A i \in 1..L : r[i] = q[i]
  BY AppendElements, n + 1 \in Nat
<1>2. w + L = n /\ \A i \in 1..L : q[i] = w + i
  BY DEF Consecutive
<1> HIDE DEF L, r
<1>3. \A i \in 1..(L + 1) : i \in 1..L \/ i = L + 1
  BY <1>1
<1>4. ASSUME NEW i \in 1..(L + 1) PROVE r[i] = w + i
  <2>1. CASE i \in 1..L
    BY <1>1, <1>2, <2>1
  <2>2. CASE i = L + 1
    BY <1>1, <1>2, <2>2
  <2>. QED BY <1>3, <2>1, <2>2
<1>5. w + (L + 1) = n + 1
  BY <1>1, <1>2
<1>6. Consecutive(r, w, n + 1)
  BY <1>1, <1>4, <1>5 DEF Consecutive
<1>. QED BY <1>6 DEF r

-----------------------------------------------------------------------------

\* The queue properties of one stream, in inductive form.
QueueOf(s) ==
    /\ written[s] <= sent
    /\ Ordered(buf[s], written[s], sent)
    /\ s \in clients \ dropped => Consecutive(buf[s], written[s], sent)

\* Queues hold broadcast events only, in order, and all of them unless one was
\* dropped.
LEMMA QueueInvariant == Spec => [](\A s \in Streams : QueueOf(s))
<1>1. ASSUME Init, NEW s \in Streams PROVE QueueOf(s)
  <2>1. buf[s] = <<>> /\ written[s] = 0 /\ sent = 0 /\ clients = {} /\ Len(buf[s]) = 0
    BY <1>1 DEF Init
  <2>. QED BY <2>1 DEF QueueOf, Ordered
<1>2. TypeOK /\ ChannelLife /\ (\A s \in Streams : QueueOf(s)) /\ [Next]_vars
        => (\A s \in Streams : QueueOf(s))'
  <2> SUFFICES ASSUME TypeOK, ChannelLife, \A s \in Streams : QueueOf(s), [Next]_vars,
                      NEW t \in Streams
               PROVE  QueueOf(t)'
    OBVIOUS
  <2>0. buf[t] \in Seq(Nat) /\ sent \in Nat /\ written[t] \in Nat
    BY DEF TypeOK
  <2>q. /\ written[t] <= sent
        /\ Ordered(buf[t], written[t], sent)
        /\ t \in clients \ dropped => Consecutive(buf[t], written[t], sent)
    BY DEF QueueOf
  <2>1. ASSUME NEW s \in Streams, AddClient(s) PROVE QueueOf(t)'
    <3>1. CASE t = s
      <4>1. buf'[t] = <<>> /\ written'[t] = sent /\ sent' = sent /\ Len(buf'[t]) = 0
        BY <2>1, <3>1 DEF AddClient, ChannelLife, TypeOK
      <4>. QED BY <4>1, <2>0 DEF QueueOf, Ordered, Consecutive
    <3>2. CASE t # s
      <4>1. /\ buf'[t] = buf[t] /\ written'[t] = written[t] /\ sent' = sent
            /\ dropped' = dropped /\ (t \in clients' <=> t \in clients)
        BY <2>1, <3>2 DEF AddClient, TypeOK
      <4>. QED BY <4>1, <2>q DEF QueueOf
    <3>. QED BY <3>1, <3>2
  <2>2. ASSUME NEW s \in Streams, Deliver(s) PROVE QueueOf(t)'
    <3>1. sent' = sent /\ dropped' = dropped /\ clients' = clients
      BY <2>2 DEF Deliver
    <3>2. CASE t = s
      <4>1. buf[t] # <<>> /\ buf'[t] = Tail(buf[t]) /\ written'[t] = Head(buf[t])
        BY <2>2, <3>2 DEF Deliver, TypeOK
      <4>2. Ordered(Tail(buf[t]), Head(buf[t]), sent) /\ Head(buf[t]) <= sent
        BY <4>1, <2>0, <2>q, ReceiveOrdered
      <4>3. t \in clients \ dropped => Consecutive(Tail(buf[t]), Head(buf[t]), sent)
        BY <4>1, <2>0, <2>q, ReceiveConsecutive
      <4>. QED BY <3>1, <4>1, <4>2, <4>3 DEF QueueOf
    <3>3. CASE t # s
      <4>1. buf'[t] = buf[t] /\ written'[t] = written[t]
        BY <2>2, <3>3 DEF Deliver, TypeOK
      <4>. QED BY <4>1, <3>1, <2>q DEF QueueOf
    <3>. QED BY <3>2, <3>3
  <2>3. ASSUME Broadcast PROVE QueueOf(t)'
    <3>1. /\ sent' = sent + 1 /\ written'[t] = written[t] /\ clients' = clients
          /\ written[t] <= sent + 1
      BY <2>3, <2>0, <2>q DEF Broadcast
    <3>2. CASE t \in clients /\ ~Full(t)
      <4>1. buf'[t] = Append(buf[t], sent + 1)
        BY <2>3, <3>2 DEF Broadcast
      <4>2. Ordered(Append(buf[t], sent + 1), written[t], sent + 1)
        BY <2>0, <2>q, SendOrdered
      <4>3. t \in clients' \ dropped' => t \in clients \ dropped
        BY <2>3 DEF Broadcast
      <4>4. t \in clients \ dropped => Consecutive(Append(buf[t], sent + 1), written[t], sent + 1)
        BY <2>0, <2>q, SendConsecutive
      <4>. QED BY <3>1, <4>1, <4>2, <4>3, <4>4 DEF QueueOf
    <3>3. CASE ~(t \in clients /\ ~Full(t))
      <4>1. buf'[t] = buf[t]
        BY <2>3, <3>3 DEF Broadcast
      <4>2. t \notin clients' \ dropped'
        BY <2>3, <3>3 DEF Broadcast
      <4>3. Len(buf[t]) \in Nat /\ \A i \in 1..Len(buf[t]) : buf[t][i] \in Nat
        BY <2>0
      <4>4. Ordered(buf[t], written[t], sent + 1)
        BY <2>0, <2>q, <4>3 DEF Ordered
      <4>. QED BY <4>1, <4>2, <4>4, <3>1 DEF QueueOf
    <3>. QED BY <3>2, <3>3
  <2>4. CASE UNCHANGED <<buf, sent, written, dropped>> /\ clients' \subseteq clients
    BY <2>4, <2>q DEF QueueOf
  <2>5. ASSUME NEW s \in Streams,
               \/ WriteSnapshot(s) \/ EndOfStream(s) \/ HangUp(s)
               \/ RemoveClient(s) \/ CloseChannel(s)
        PROVE  UNCHANGED <<buf, sent, written, dropped>> /\ clients' \subseteq clients
    BY <2>5 DEF WriteSnapshot, EndOfStream, HangUp, RemoveClient, CloseChannel
  <2>6. DisconnectAll \/ UNCHANGED vars
          => UNCHANGED <<buf, sent, written, dropped>> /\ clients' \subseteq clients
    BY DEF DisconnectAll, vars
  <2>. QED
    BY <2>1, <2>2, <2>3, <2>4, <2>5, <2>6 DEF Next, Handler
<1>3. Init => \A s \in Streams : QueueOf(s)
  BY <1>1
<1>. QED
  BY <1>2, <1>3, TypeCorrect, ChannelLifeInvariant, PTL DEF Spec

\* Every stream sees events in the order they were broadcast, after its
\* snapshot and without repeats.
THEOREM EventsInOrder == Spec => []InOrder
<1>1. (\A s \in Streams : QueueOf(s)) => InOrder
  BY DEF QueueOf, InOrder, Ordered
<1>. QED
  BY <1>1, QueueInvariant, PTL

\* A stream whose buffer never was full has missed nothing.
THEOREM NoEventMissed == Spec => []NothingMissed
<1>1. TypeOK /\ (\A s \in Streams : QueueOf(s)) => NothingMissed
  BY DEF QueueOf, NothingMissed, TypeOK, Consecutive
<1>. QED
  BY <1>1, TypeCorrect, QueueInvariant, PTL

-----------------------------------------------------------------------------
(* The broadcaster implements the plain feed of EventFeed.                  *)

\* What the refinement needs beyond the queue properties.  A queue is no longer
\* than the number of events broadcast since (a full one means that the stream
\* lags Cap behind), it stays gapless after its channel was closed, and it is
\* empty once the handler has taken the channel to be closed.
FeedOf(s) ==
    /\ \A i \in 1..Len(buf[s]) : buf[s][i] + (Len(buf[s]) - i) <= sent
    /\ written[s] + Len(buf[s]) <= sent
    /\ s \notin dropped => \A i \in 1..Len(buf[s]) : buf[s][i] = written[s] + i
    /\ phase[s] = "ended" => buf[s] = <<>> /\ s \notin clients

FeedsOK == \A s \in Streams : FeedOf(s)

\* However the broadcaster is used, FeedOf holds of every stream.
LEMMA FeedInvariant == Spec => []FeedsOK
<1>1. ASSUME Init, NEW s \in Streams PROVE FeedOf(s)
  <2>1. /\ buf[s] = <<>> /\ written[s] = 0 /\ sent = 0 /\ clients = {} /\ Len(buf[s]) = 0
        /\ phase[s] = "idle"
    BY <1>1 DEF Init
  <2>. QED BY <2>1 DEF FeedOf
<1>2. TypeOK /\ ChannelLife /\ (\A s \in Streams : QueueOf(s)) /\ FeedsOK /\ [Next]_vars
        => FeedsOK'
  <2> SUFFICES ASSUME TypeOK, ChannelLife, \A s \in Streams : QueueOf(s),
                      FeedsOK, [Next]_vars, NEW t \in Streams
               PROVE  FeedOf(t)'
    BY DEF FeedsOK
  <2> DEFINE q == buf[t]
             L == Len(q)
             w == written[t]
  <2>0. q \in Seq(Nat) /\ L \in Nat /\ sent \in Nat /\ w \in Nat /\ \A i \in 1..L : q[i] \in Nat
    BY DEF TypeOK
  <2>q. /\ \A i \in 1..L : q[i] + (L - i) <= sent
        /\ w + L <= sent
        /\ t \notin dropped => \A i \in 1..L : q[i] = w + i
        /\ phase[t] = "ended" => q = <<>> /\ t \notin clients
    BY DEF FeedsOK, FeedOf
  <2>1. ASSUME NEW s \in Streams, AddClient(s) PROVE FeedOf(t)'
    <3>1. CASE t = s
      <4>1. /\ buf'[t] = <<>> /\ written'[t] = sent /\ sent' = sent /\ Len(buf'[t]) = 0
            /\ phase'[t] = "snapshot"
        BY <2>1, <3>1 DEF AddClient, ChannelLife, TypeOK
      <4>. QED BY <4>1, <2>0 DEF FeedOf
    <3>2. CASE t # s
      <4>1. /\ buf'[t] = q /\ written'[t] = w /\ sent' = sent /\ phase'[t] = phase[t]
            /\ dropped' = dropped /\ (t \in clients' <=> t \in clients)
        BY <2>1, <3>2 DEF AddClient, TypeOK
      <4>. QED BY <4>1, <2>q DEF FeedOf
    <3>. QED BY <3>1, <3>2
  <2>2. ASSUME NEW s \in Streams, Deliver(s) PROVE FeedOf(t)'
    <3>1. sent' = sent /\ dropped' = dropped /\ clients' = clients /\ phase' = phase
      BY <2>2 DEF Deliver
    <3>2. CASE t = s
      <4>1. q # <<>> /\ buf'[t] = Tail(q) /\ written'[t] = Head(q) /\ phase[t] # "ended"
        BY <2>2, <3>2 DEF Deliver, TypeOK
      <4>2. /\ Head(q) = q[1] /\ Len(Tail(q)) = L - 1 /\ 1 <= L
            /\ \A i \in 1..(L - 1) : Tail(q)[i] = q[i + 1]
        BY <4>1, <2>0, TailElements
      <4> HIDE DEF q, L, w
      <4>0. 1 \in 1..L /\ \A i \in 1..(L - 1) : i + 1 \in 1..L
        BY <2>0, <4>2
      <4>3. q[1] + (L - 1) <= sent /\ \A i \in 1..(L - 1) : q[i + 1] + (L - (i + 1)) <= sent
        BY <2>q, <4>0
      <4>4. t \notin dropped => q[1] = w + 1 /\ \A i \in 1..(L - 1) : q[i + 1] = w + (i + 1)
        BY <2>q, <4>0
      <4>5. \A i \in 1..(L - 1) : Tail(q)[i] + ((L - 1) - i) <= sent
        BY <2>0, <4>0, <4>2, <4>3
      <4>6. ASSUME t \notin dropped, NEW i \in 1..(L - 1) PROVE Tail(q)[i] = Head(q) + i
        <5>1. Head(q) = w + 1 /\ Tail(q)[i] = w + (i + 1)
          BY <4>2, <4>4, <4>6
        <5>2. i \in Nat /\ w \in Nat
          BY <2>0
        <5>3. (w + 1) + i = w + (i + 1)
          BY <5>2
        <5>. QED BY <5>1, <5>3
      <4>. QED BY <3>1, <4>1, <4>2, <4>3, <4>5, <4>6 DEF FeedOf
    <3>3. CASE t # s
      <4>1. buf'[t] = q /\ written'[t] = w
        BY <2>2, <3>3 DEF Deliver, TypeOK
      <4>. QED BY <4>1, <3>1, <2>q DEF FeedOf
    <3>. QED BY <3>2, <3>3
  <2>3. ASSUME Broadcast PROVE FeedOf(t)'
    <3>1. sent' = sent + 1 /\ written'[t] = w /\ clients' = clients /\ phase' = phase
      BY <2>3 DEF Broadcast
    <3>2. t \notin dropped' => t \notin dropped
      BY <2>3 DEF Broadcast
    <3>3. CASE t \in clients /\ ~Full(t)
      <4> DEFINE r == Append(q, sent + 1)
      <4>1. buf'[t] = r
        BY <2>3, <3>3 DEF Broadcast
      <4>2. Len(r) = L + 1 /\ r[L + 1] = sent + 1 /\ \A i \in 1..L : r[i] = q[i]
        BY <2>0, AppendElements, sent + 1 \in Nat
      <4>3. phase[t] # "ended"
        BY <2>q, <3>3
      <4>4. t \notin dropped => w + L = sent
        BY <3>3 DEF QueueOf, Consecutive
      <4> HIDE DEF q, L, w, r
      <4>5. \A i \in 1..(L + 1) : i \in 1..L \/ i = L + 1
        BY <2>0
      <4>6. ASSUME NEW i \in 1..(L + 1)
            PROVE  r[i] + ((L + 1) - i) <= sent + 1 /\ (t \notin dropped => r[i] = w + i)
        <5>1. CASE i \in 1..L
          <6>1. r[i] = q[i] /\ q[i] \in Nat /\ q[i] + (L - i) <= sent
            BY <2>0, <2>q, <4>2, <5>1
          <6>2. t \notin dropped => q[i] = w + i
            BY <2>q, <5>1
          <6>. QED BY <2>0, <5>1, <6>1, <6>2
        <5>2. CASE i = L + 1
          BY <2>0, <4>2, <4>4, <5>2
        <5>. QED BY <4>5, <5>1, <5>2
      <4>7. w + (L + 1) <= sent + 1
        BY <2>0, <2>q
      <4>. QED BY <3>1, <3>2, <4>1, <4>2, <4>3, <4>6, <4>7 DEF FeedOf
    <3>4. CASE ~(t \in clients /\ ~Full(t))
      <4>1. buf'[t] = q
        BY <2>3, <3>4 DEF Broadcast
      <4>2. \A i \in 1..L : q[i] + (L - i) <= sent + 1
        <5> HIDE DEF q, L
        <5>. QED BY <2>0, <2>q
      <4>3. w + L <= sent + 1
        BY <2>0, <2>q
      <4>. QED BY <4>1, <4>2, <4>3, <3>1, <3>2, <2>q DEF FeedOf
    <3>. QED BY <3>3, <3>4
  <2>4. ASSUME NEW s \in Streams, EndOfStream(s) PROVE FeedOf(t)'
    <3>1. UNCHANGED <<buf, sent, written, dropped, clients>>
      BY <2>4 DEF EndOfStream
    <3>2. phase'[t] = "ended" => q = <<>> /\ t \notin clients
      BY <2>4, <2>q DEF EndOfStream, TypeOK, ChannelLife
    <3>. QED BY <3>1, <3>2, <2>q DEF FeedOf
  <2>5. CASE /\ UNCHANGED <<buf, sent, written, dropped>> /\ clients' \subseteq clients
             /\ phase'[t] = "ended" => phase[t] = "ended"
    BY <2>5, <2>q DEF FeedOf
  <2>6. ASSUME NEW s \in Streams,
               \/ WriteSnapshot(s) \/ HangUp(s) \/ RemoveClient(s) \/ CloseChannel(s)
        PROVE  /\ UNCHANGED <<buf, sent, written, dropped>> /\ clients' \subseteq clients
               /\ phase'[t] = "ended" => phase[t] = "ended"
    BY <2>6 DEF WriteSnapshot, HangUp, RemoveClient, CloseChannel, TypeOK
  <2>7. DisconnectAll \/ UNCHANGED vars
          => /\ UNCHANGED <<buf, sent, written, dropped>> /\ clients' \subseteq clients
             /\ phase'[t] = "ended" => phase[t] = "ended"
    BY DEF DisconnectAll, vars
  <2>. QED
    BY <2>1, <2>2, <2>3, <2>4, <2>5, <2>6, <2>7 DEF Next, Handler
<1>3. Init => FeedsOK
  BY <1>1 DEF FeedsOK
<1>. QED
  BY <1>2, <1>3, TypeCorrect, ChannelLifeInvariant, QueueInvariant, PTL DEF Spec

\* Every behaviour of the broadcaster is one of the plain feed, for any number
\* of streams, any capacity and any number of events.
THEOREM Refinement == Spec => ImplementsFeed
<1>1. Init => Feed!Init
  BY DEF Init, Feed!Init, FeedStatus, FeedLast
<1>2. TypeOK /\ ChannelLife /\ (\A s \in Streams : QueueOf(s)) /\ FeedsOK /\ [Next]_vars
        => [Feed!Next]_(Feed!vars)
  <2> SUFFICES ASSUME TypeOK, ChannelLife, \A s \in Streams : QueueOf(s),
                      FeedsOK, [Next]_vars
               PROVE  Feed!Next \/ UNCHANGED Feed!vars
    OBVIOUS
  <2>1. ASSUME NEW s \in Streams, AddClient(s) PROVE Feed!Open(s)
    <3>1. phase[s] = "idle" /\ buf[s] = <<>> /\ buf' = buf /\ sent' = sent /\ dropped' = dropped
      BY <2>1 DEF AddClient, ChannelLife
    <3>2. FeedStatus[s] = "new"
      BY <3>1 DEF FeedStatus
    <3>3. FeedStatus' = [FeedStatus EXCEPT ![s] = "open"]
      BY <2>1, <3>1 DEF FeedStatus, AddClient, TypeOK
    <3>4. FeedLast' = [FeedLast EXCEPT ![s] = sent]
      BY <2>1, <3>1 DEF FeedLast, AddClient, TypeOK
    <3>. QED BY <2>1, <3>1, <3>2, <3>3, <3>4 DEF Feed!Open, AddClient
  <2>2. ASSUME NEW s \in Streams, WriteSnapshot(s) PROVE UNCHANGED Feed!vars
    BY <2>2 DEF WriteSnapshot, Feed!vars, FeedStatus, FeedLast, TypeOK
  <2>3. ASSUME NEW s \in Streams, Deliver(s) PROVE Feed!Give(s)
    <3> DEFINE q == buf[s]
               L == Len(q)
    <3>1. /\ phase[s] = "stream" /\ q # <<>> /\ q \in Seq(Nat)
          /\ written' = [written EXCEPT ![s] = Head(q)] /\ buf' = [buf EXCEPT ![s] = Tail(q)]
          /\ UNCHANGED <<phase, clients, closes, sent, dropped>>
      BY <2>3 DEF Deliver, TypeOK
    <3>2. /\ Head(q) = q[1] /\ Len(Tail(q)) = L - 1 /\ L \in Nat /\ 1 <= L
          /\ \A i \in 1..L : q[i] \in Nat
          /\ \A i \in 1..(L - 1) : Tail(q)[i] = q[i + 1]
      BY <3>1, TailElements
    <3>3. FeedStatus[s] \in {"open", "cut"} /\ FeedStatus' = FeedStatus
      BY <3>1 DEF FeedStatus
    <3>4. FeedLast[s] = q[L]
      BY <3>1 DEF FeedLast
    <3>5. FeedLast' = FeedLast
      <4>1. CASE L = 1
        <5>1. Tail(q) = <<>> /\ Head(q) = q[L]
          <6>1. Tail(q) \in Seq(Nat) /\ Len(Tail(q)) = 0
            BY <3>1, <3>2, <4>1
          <6>2. \A r \in Seq(Nat) : Len(r) = 0 => r = <<>>
            OBVIOUS
          <6>3. Tail(q) = <<>>
            BY <6>1, <6>2
          <6>4. Head(q) = q[L]
            BY <3>2, <4>1
          <6>. QED BY <6>3, <6>4
        <5>. QED BY <3>1, <5>1 DEF FeedLast, TypeOK
      <4>2. CASE L # 1
        <5> HIDE DEF q, L
        <5>1. L - 1 \in 1..(L - 1) /\ (L - 1) + 1 = L /\ Len(Tail(q)) # 0
          BY <3>2, <4>2
        <5>2. Tail(q) # <<>> /\ Tail(q)[Len(Tail(q))] = q[L]
          BY <3>2, <5>1
        <5> USE DEF q, L
        <5>. QED BY <3>1, <5>2 DEF FeedLast, TypeOK
      <4>. QED BY <4>1, <4>2
    <3>6. /\ Head(q) \in (written[s] + 1)..q[L]
          /\ s \notin dropped => Head(q) = written[s] + 1
      <4>1. \A i \in 1..L : written[s] < q[i] /\ \A j \in 1..(i - 1) : q[j] < q[i]
        BY DEF QueueOf, Ordered
      <4>2. s \notin dropped => \A i \in 1..L : q[i] = written[s] + i
        BY DEF FeedsOK, FeedOf
      <4>3. written[s] \in Nat /\ 1 \in 1..L /\ L \in 1..L
        BY <3>2 DEF TypeOK
      <4> HIDE DEF q, L
      <4>4. q[1] \in Nat /\ q[L] \in Nat /\ written[s] < q[1]
        BY <3>2, <4>1, <4>3
      <4>5. q[1] <= q[L]
        <5>1. CASE L = 1
          BY <5>1, <4>4
        <5>2. CASE L # 1
          <6>1. 1 \in 1..(L - 1)
            BY <3>2, <5>2
          <6>. QED BY <4>1, <4>3, <4>4, <6>1
        <5>. QED BY <5>1, <5>2
      <4>. QED BY <3>2, <4>2, <4>3, <4>4, <4>5
    <3>. QED BY <3>1, <3>3, <3>4, <3>5, <3>6 DEF Feed!Give
  <2>4. ASSUME NEW s \in Streams, EndOfStream(s) PROVE Feed!End(s)
    <3>1. /\ phase[s] = "stream" /\ buf[s] = <<>> /\ s \notin clients
          /\ phase' = [phase EXCEPT ![s] = "ended"]
          /\ UNCHANGED <<clients, buf, closes, sent, written, dropped>>
      BY <2>4 DEF EndOfStream, ChannelLife, TypeOK
    <3>2. FeedStatus[s] = "cut" /\ FeedLast[s] = written[s]
      BY <3>1 DEF FeedStatus, FeedLast
    <3>3. FeedStatus' = [FeedStatus EXCEPT ![s] = "ended"]
      BY <3>1 DEF FeedStatus, TypeOK
    <3>4. FeedLast' = FeedLast
      BY <3>1 DEF FeedLast, TypeOK
    <3>. QED BY <3>1, <3>2, <3>3, <3>4 DEF Feed!End
  <2>5. ASSUME NEW s \in Streams, HangUp(s) PROVE Feed!HangUp(s)
    <3>1. /\ phase[s] = "stream" /\ phase' = [phase EXCEPT ![s] = "leaving"]
          /\ UNCHANGED <<clients, buf, closes, sent, written, dropped>>
      BY <2>5 DEF HangUp
    <3>2. FeedStatus[s] \in {"open", "cut"}
      BY <3>1 DEF FeedStatus
    <3>3. FeedStatus' = [FeedStatus EXCEPT ![s] = "over"]
      BY <3>1 DEF FeedStatus, TypeOK
    <3>4. FeedLast' = [FeedLast EXCEPT ![s] = written[s]]
      BY <3>1 DEF FeedLast, TypeOK
    <3>. QED BY <3>1, <3>2, <3>3, <3>4 DEF Feed!HangUp
  <2>6. ASSUME NEW s \in Streams, RemoveClient(s) PROVE Feed!Forget(s) \/ UNCHANGED Feed!vars
    <3>1. /\ phase[s] \in {"ended", "leaving"} /\ phase' = [phase EXCEPT ![s] = phase'[s]]
          /\ phase'[s] \in {"closing", "gone"} /\ clients' = clients \ {s}
          /\ UNCHANGED <<buf, closes, sent, written, dropped>>
      BY <2>6 DEF RemoveClient, TypeOK
    <3>2. FeedLast' = FeedLast
      BY <3>1 DEF FeedLast, TypeOK
    <3>3. CASE phase[s] = "ended"
      <4>1. FeedStatus[s] = "ended"
        BY <3>3 DEF FeedStatus
      <4>2. FeedStatus' = [FeedStatus EXCEPT ![s] = "over"]
        BY <3>1, <3>3 DEF FeedStatus, TypeOK
      <4>. QED BY <3>1, <3>2, <4>1, <4>2 DEF Feed!Forget
    <3>4. CASE phase[s] = "leaving"
      <4>1. FeedStatus' = FeedStatus
        BY <3>1, <3>4 DEF FeedStatus, TypeOK
      <4>. QED BY <3>1, <3>2, <4>1 DEF Feed!vars
    <3>. QED BY <3>1, <3>3, <3>4
  <2>7. ASSUME NEW s \in Streams, CloseChannel(s) PROVE UNCHANGED Feed!vars
    BY <2>7 DEF CloseChannel, Feed!vars, FeedStatus, FeedLast, TypeOK
  <2>8. ASSUME Broadcast PROVE Feed!Publish
    <3> DEFINE losing == {s \in clients : Full(s)}
    <3>1. /\ sent' = sent + 1 /\ dropped' = dropped \cup losing
          /\ UNCHANGED <<phase, clients, closes, written>>
      BY <2>8 DEF Broadcast
    <3>2. ASSUME NEW s \in losing PROVE s \in Streams /\ written[s] + Cap <= sent
      <4>1. s \in Streams /\ written[s] \in Nat /\ Len(buf[s]) \in Nat /\ sent \in Nat
        BY DEF TypeOK
      <4>2. Len(buf[s]) >= Cap /\ written[s] + Len(buf[s]) <= sent
        BY <4>1 DEF Full, FeedsOK, FeedOf
      <4>. QED BY <4>1, <4>2, CapAssumption
    <3>3. losing \in SUBSET Feed!Lagging
      BY <3>2 DEF Feed!Lagging
    <3>4. FeedStatus' = FeedStatus
      BY <3>1 DEF FeedStatus
    <3>5. ASSUME NEW s \in Streams
          PROVE  FeedLast'[s] = IF FeedStatus[s] = "open" /\ s \notin losing
                                THEN sent + 1 ELSE FeedLast[s]
      <4>0. buf[s] \in Seq(Nat) /\ sent + 1 \in Nat
        BY DEF TypeOK
      <4>1. CASE s \in clients /\ ~Full(s)
        <5>1. buf'[s] = Append(buf[s], sent + 1)
          BY <2>8, <4>1 DEF Broadcast
        <5>2. Len(buf'[s]) = Len(buf[s]) + 1 /\ buf'[s][Len(buf[s]) + 1] = sent + 1
          BY <4>0, <5>1, AppendElements
        <5>3. buf'[s] # <<>>
          BY <4>0, <5>1
        <5>4. CASE phase[s] \in {"snapshot", "stream"}
          <6>1. FeedStatus[s] = "open" /\ s \notin losing
            BY <4>1, <5>4 DEF FeedStatus
          <6>2. FeedLast'[s] = sent + 1
            BY <3>1, <5>2, <5>3, <5>4 DEF FeedLast
          <6>. QED BY <6>1, <6>2
        <5>5. CASE phase[s] \notin {"snapshot", "stream"}
          BY <3>1, <5>5 DEF FeedStatus, FeedLast
        <5>. QED BY <5>4, <5>5
      <4>2. CASE ~(s \in clients /\ ~Full(s))
        <5>1. buf'[s] = buf[s]
          BY <2>8, <4>2 DEF Broadcast
        <5>2. ~(FeedStatus[s] = "open" /\ s \notin losing)
          BY <4>2 DEF FeedStatus
        <5>. QED BY <3>1, <5>1, <5>2 DEF FeedLast
      <4>. QED BY <4>1, <4>2
    <3>6. FeedLast' = [s \in Streams |-> IF FeedStatus[s] = "open" /\ s \notin losing
                                         THEN sent + 1 ELSE FeedLast[s]]
      <4>1. FeedLast' = [s \in Streams |-> FeedLast'[s]]
        BY DEF FeedLast
      <4> HIDE DEF losing
      <4>. QED BY <3>5, <4>1
    <3> HIDE DEF losing
    <3>. QED BY <3>1, <3>3, <3>4, <3>6 DEF Feed!Publish
  <2>9. ASSUME DisconnectAll PROVE Feed!Cut
    <3>1. clients' = {} /\ UNCHANGED <<phase, buf, sent, written, dropped>>
      BY <2>9 DEF DisconnectAll
    <3>2. FeedStatus' = [s \in Streams |-> IF FeedStatus[s] = "open" THEN "cut" ELSE FeedStatus[s]]
      BY <3>1 DEF FeedStatus
    <3>3. FeedLast' = FeedLast
      BY <3>1 DEF FeedLast
    <3>. QED BY <3>1, <3>2, <3>3 DEF Feed!Cut
  <2>10. CASE UNCHANGED vars
    BY <2>10 DEF vars, Feed!vars, FeedStatus, FeedLast
  <2>. QED
    BY <2>1, <2>2, <2>3, <2>4, <2>5, <2>6, <2>7, <2>8, <2>9, <2>10 DEF Next, Handler, Feed!Next
<1>. QED
  BY <1>1, <1>2, TypeCorrect, ChannelLifeInvariant, QueueInvariant, FeedInvariant, PTL
     DEF Spec, ImplementsFeed, Feed!Spec

=============================================================================
