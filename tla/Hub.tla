--------------------------------- MODULE Hub ----------------------------------
(* The market-state hub of market_data/hub.py and one WebSocketMarketStateSource *)
(* that subscribes to it: publishing, the replay window, the queues of both    *)
(* sides, the handshake, reconnection, and a hub process that may restart.     *)
(*                                                                             *)
(* A batch is its sequence number in the stream of the running hub.  One       *)
(* connection carries batches of one hub process only, so the checks of the    *)
(* batch's own stream id cannot fail and are left out.  "durable" is the       *)
(* collector's way to open the source, fail_on_replay_unavailable with         *)
(* preserve_sequence_on_overflow; the other way is the default.                *)
EXTENDS Integers, Sequences

CONSTANTS
  Window,       \* replay_batch_count
  SendRoom,     \* subscriber_queue_size
  ReadRoom,     \* client_receive_queue_size
  MaxSeq,       \* bound: batches one hub process publishes
  MaxEpoch      \* bound: hub processes

ASSUME HubAssumption ==
  /\ Window \in Nat \ {0} /\ SendRoom \in Nat \ {0} /\ ReadRoom \in Nat \ {0}
  /\ MaxSeq \in Nat /\ MaxEpoch \in Nat \ {0}

VARIABLES
  epoch,      \* which hub process runs; _stream_id
  seq,        \* _sequence_by_environment
  buffered,   \* highest sequence in the replay buffer
  pub,        \* where publish stands: idle, encode, fanout
  room,       \* size of the subscriber's queue; 0 while nobody is registered
  sq,         \* that queue
  wire,       \* sent and not yet received
  ready,      \* the hub's answer to the subscription
  durable,    \* how the source was opened
  client,     \* where the source stands
  stream, last,   \* its resume cursor: _stream_id, _last_sequence
  goal,       \* ready_latest_sequence
  rq,         \* its receive queue
  now,        \* the batch its consumer is working on
  rewarm,     \* _rewarm_required
  up,         \* what it last reported to on_connection_change
  clock,      \* the StreamAvailabilityClock
  seen,       \* history: the batch handed over last
  recovered   \* history: nothing handed over since the consumer moved the cursor

hub    == <<epoch, seq, buffered, pub>>
link   == <<room, sq, wire, ready>>
cursor == <<stream, last>>
told   == <<rewarm, up, clock>>
past   == <<seen, recovered>>
vars   == <<hub, link, durable, client, cursor, goal, rq, now, told, past>>

NoCursor == -1
NoAnswer == [epoch |-> 0, latest |-> 0, available |-> FALSE]

Least(a, b) == IF a < b THEN a ELSE b
Most(a, b) == IF a > b THEN a ELSE b

Init ==
  /\ epoch = 1 /\ seq = 0 /\ buffered = 0 /\ pub = "idle"
  /\ room = 0 /\ sq = <<>> /\ wire = <<>> /\ ready = NoAnswer
  /\ durable \in BOOLEAN /\ client = "down"
  /\ stream = 0 /\ last = NoCursor /\ goal = 0 /\ rq = <<>> /\ now = 0
  /\ rewarm = FALSE /\ up = FALSE /\ clock = "connecting"
  /\ seen = [epoch |-> 0, n |-> 0] /\ recovered = TRUE

-------------------------------------------------------------------------------
(* MarketStateHub.publish.  The sequence stays private while the message is    *)
(* encoded in another thread; the fan-out may wait for the subscriber lock.    *)
PublishStarts_ShowsSequence ==
  /\ pub = "idle" /\ seq < MaxSeq
  /\ pub' = "encode" /\ seq' = seq + 1
  /\ UNCHANGED <<epoch, buffered, link, durable, client, cursor, goal, rq, now, told, past>>

PublishStarts ==
  /\ pub = "idle" /\ seq < MaxSeq
  /\ pub' = "encode"
  /\ UNCHANGED <<epoch, seq, buffered, link, durable, client, cursor, goal, rq, now,
                 told, past>>

PublishCommits ==
  /\ pub = "encode"
  /\ seq' = buffered + 1 /\ buffered' = buffered + 1 /\ pub' = "fanout"
  /\ UNCHANGED <<epoch, link, durable, client, cursor, goal, rq, now, told, past>>

(* _enqueue_latest: a full queue is emptied in favour of the newest batch.     *)
EnqueueLatest_DropsNewest(q, b) == IF Len(q) >= room THEN q ELSE Append(q, b)
EnqueueLatest(q, b) == IF Len(q) >= room THEN <<b>> ELSE Append(q, b)

PublishFansOut ==
  /\ pub = "fanout"
  /\ pub' = "idle"
  /\ sq' = IF room = 0 THEN sq ELSE EnqueueLatest(sq, seq)
  /\ UNCHANGED <<epoch, seq, buffered, room, wire, ready, durable, client, cursor, goal,
                 rq, now, told, past>>

-------------------------------------------------------------------------------
(* The handshake: _handle_connection and _replay_snapshot.                     *)
Oldest == Most(1, buffered - Window + 1)

Replayable(c) ==
  \/ c \in {NoCursor, seq}
  \/ /\ c < seq /\ buffered > 0
     /\ c >= Oldest - 1 /\ buffered = seq

Replay(c) ==
  IF c \in {NoCursor, seq} THEN <<>>
  ELSE LET from == Most(Oldest, c + 1)
       IN  [i \in 1..(buffered - from + 1) |-> from + i - 1]

Connects ==
  /\ client = "down" /\ client' = "asking"
  /\ UNCHANGED <<hub, link, durable, cursor, goal, rq, now, told, past>>

HubAnswers ==
  /\ client = "asking" /\ ready.epoch = 0
  /\ LET c == IF stream # 0 /\ stream # epoch THEN NoCursor ELSE last
     IN  /\ ready' = [epoch |-> epoch, latest |-> seq, available |-> Replayable(c)]
         /\ IF Replayable(c)
            THEN /\ sq' = Replay(c)
                 /\ room' = Most(SendRoom, Len(Replay(c)) + 1)
            ELSE UNCHANGED <<sq, room>>
  /\ UNCHANGED <<hub, wire, durable, client, cursor, goal, rq, now, told, past>>

(* Every way the connection ends.  Reported as unavailable; then either the    *)
(* budget of a clock that was not ready is spent and the source raises for     *)
(* good, or it comes back.                                                     *)
Unlinked == room' = 0 /\ sq' = <<>> /\ wire' = <<>> /\ ready' = NoAnswer

Drops ==
  /\ Unlinked /\ rq' = <<>> /\ up' = FALSE
  /\ \/ client' = "down" /\ clock' = "disrupted"
     \/ client' = "gone" /\ clock \in {"connecting", "disrupted"} /\ UNCHANGED clock

(* MarketStateHubReplayUnavailable, which only the durable source lets out.    *)
Raises ==
  /\ client' = "raised" /\ up' = FALSE /\ rq' = <<>>
  /\ room' = 0 /\ sq' = <<>> /\ wire' = <<>> /\ UNCHANGED <<ready, clock>>

ClientHears ==
  /\ client = "asking" /\ ready.epoch # 0
  /\ IF durable /\ stream \notin {0, ready.epoch}
     THEN Raises /\ UNCHANGED <<cursor, goal>>
     ELSE LET keeps == IF stream = ready.epoch THEN last ELSE NoCursor
              fresh == ~rewarm /\ keeps # NoCursor /\ keeps >= ready.latest
          IN  /\ stream' = ready.epoch /\ last' = keeps
              /\ IF ready.available
                 THEN /\ client' = "stream" /\ goal' = ready.latest /\ up' = fresh
                      /\ clock' = IF fresh THEN "ready"
                                  ELSE IF clock = "connecting" THEN clock ELSE "recovering"
                      /\ UNCHANGED <<link, rq>>
                 ELSE /\ IF durable THEN Raises ELSE Drops
                      /\ UNCHANGED goal
  /\ UNCHANGED <<hub, durable, now, rewarm, past>>

-------------------------------------------------------------------------------
(* Batches on their way: _write_messages and _read_market_state_batches.       *)
WriterSends ==
  /\ sq # <<>> /\ client \in {"stream", "busy"} /\ wire = <<>>
  /\ wire' = <<Head(sq)>> /\ sq' = Tail(sq)
  /\ UNCHANGED <<hub, room, ready, durable, client, cursor, goal, rq, now, told, past>>

Plain(b) == [kind |-> "batch", n |-> b]
Lagged(b) == [kind |-> "lag", n |-> b]
Broken    == [kind |-> "error", n |-> 0]
HasLag(q) == \E i \in DOMAIN q : q[i].kind = "lag"

(* _enqueue_market_state_batch                                                 *)
Received(q, b) ==
  IF ~HasLag(q) /\ Len(q) < ReadRoom THEN Append(q, Plain(b)) ELSE <<Lagged(b)>>

(* The reader gives way after each message: an idle consumer takes it before   *)
(* the next one is read.                                                       *)
GivesWay == client = "busy" \/ rq = <<>>

ReaderTakes ==
  /\ wire # <<>> /\ GivesWay
  /\ rq' = Received(rq, Head(wire)) /\ wire' = Tail(wire)
  /\ UNCHANGED <<hub, room, sq, ready, durable, client, cursor, goal, now, told, past>>

(* The connection breaks, or the hub process ends: the reader leaves an error  *)
(* in place of what it had queued, unless that was a lag.                      *)
ReaderEnds ==
  IF client \in {"stream", "busy"} /\ ready.epoch # 0
  THEN /\ Unlinked
       /\ rq' = IF HasLag(rq) THEN rq ELSE <<Broken>>
       /\ UNCHANGED <<client, told>>
  ELSE IF client = "asking"
  THEN Drops /\ UNCHANGED rewarm
  ELSE UNCHANGED <<link, rq, client, told>>

Breaks ==
  /\ ready.epoch # 0 \/ client = "asking"
  /\ client # "raised"
  /\ ReaderEnds
  /\ UNCHANGED <<hub, durable, cursor, goal, now, past>>

HubRestarts ==
  /\ epoch < MaxEpoch
  /\ epoch' = epoch + 1 /\ seq' = 0 /\ buffered' = 0 /\ pub' = "idle"
  /\ ReaderEnds
  /\ UNCHANGED <<durable, cursor, goal, now, past>>

-------------------------------------------------------------------------------
(* The consumer's side of _iterate_batches.                                    *)

Lags(item) ==
  /\ item.kind = "lag"
  /\ last' = IF durable THEN last ELSE item.n
  /\ rewarm' = TRUE /\ Drops
  /\ UNCHANGED <<stream, now, past>>

Fails(item) ==
  /\ item.kind = "error"
  /\ Drops /\ UNCHANGED <<cursor, rewarm, now, past>>

Repeated(b) == last # NoCursor /\ b <= last
Gapless_Unchecked(b) == TRUE
Gapless(b) == last = NoCursor \/ b = last + 1

Ignores(item) ==
  /\ item.kind = "batch" /\ Repeated(item.n)
  /\ rq' = Tail(rq)
  /\ UNCHANGED <<client, cursor, link, told, now, past>>

FindsGap(item) ==
  /\ item.kind = "batch" /\ ~Repeated(item.n) /\ ~Gapless(item.n)
  /\ Drops /\ UNCHANGED <<cursor, rewarm, now, past>>

Yields(item) ==
  /\ item.kind = "batch" /\ ~Repeated(item.n) /\ Gapless(item.n)
  /\ client' = "busy" /\ now' = item.n /\ rq' = Tail(rq)
  /\ seen' = [epoch |-> stream, n |-> item.n] /\ recovered' = FALSE
  /\ UNCHANGED <<cursor, link, told>>

ConsumerTakes ==
  /\ client = "stream" /\ rq # <<>>
  /\ LET item == Head(rq)
     IN  Lags(item) \/ Fails(item) \/ Ignores(item) \/ FindsGap(item) \/ Yields(item)
  /\ UNCHANGED <<hub, durable, goal>>

(* The consumer came back for more.                                            *)
ConsumerDone ==
  /\ client = "busy" /\ client' = "stream"
  /\ last' = now /\ now' = 0
  /\ rewarm' = FALSE /\ clock' = "ready"
  /\ up' = (up \/ rewarm \/ now >= goal)
  /\ UNCHANGED <<hub, link, durable, stream, goal, rq, past>>

(* The budget of a clock that is not ready ends while waiting for a batch.     *)
StopsWaiting ==
  /\ client = "stream" /\ rq = <<>> /\ clock \in {"connecting", "recovering"}
  /\ Drops
  /\ UNCHANGED <<hub, durable, cursor, goal, rewarm, now, past>>

(* resume_after_recovery: the collector restored the states from the database  *)
(* and goes on from what the hub had published when it refused.                *)
Recovers ==
  /\ client = "raised" /\ client' = "down"
  /\ stream' = ready.epoch /\ last' = ready.latest /\ rewarm' = TRUE
  /\ ready' = NoAnswer /\ recovered' = TRUE
  /\ UNCHANGED <<hub, room, sq, wire, durable, goal, rq, now, up, clock, seen>>

-------------------------------------------------------------------------------
Publisher == PublishStarts \/ PublishCommits \/ PublishFansOut
Transport == WriterSends \/ ReaderTakes \/ HubAnswers
Source == \/ Connects \/ ClientHears \/ ConsumerTakes \/ ConsumerDone \/ Recovers

Next == Publisher \/ Transport \/ Source \/ Breaks \/ HubRestarts \/ StopsWaiting

Spec == Init /\ [][Next]_vars

FairSpec == Spec /\ WF_vars(Publisher) /\ WF_vars(Transport) /\ WF_vars(Source)

-------------------------------------------------------------------------------
Item == [kind : {"batch", "lag", "error"}, n : Nat]

TypeOK ==
  /\ epoch \in 1..MaxEpoch /\ seq \in 0..MaxSeq /\ buffered \in 0..MaxSeq
  /\ pub \in {"idle", "encode", "fanout"}
  /\ room \in Nat /\ sq \in Seq(1..MaxSeq) /\ wire \in Seq(1..MaxSeq)
  /\ ready \in [epoch : Nat, latest : Nat, available : BOOLEAN]
  /\ durable \in BOOLEAN
  /\ client \in {"down", "asking", "stream", "busy", "raised", "gone"}
  /\ stream \in Nat /\ last \in Int /\ goal \in Nat
  /\ rq \in Seq(Item) /\ Len(rq) <= ReadRoom /\ Len(sq) <= room
  /\ now \in Nat /\ rewarm \in BOOLEAN /\ up \in BOOLEAN
  /\ clock \in {"connecting", "ready", "recovering", "disrupted"}
  /\ seen \in [epoch : Nat, n : Nat] /\ recovered \in BOOLEAN

(* The subscriber of either kind gets the hub's batches in order, once each,   *)
(* and misses none unnoticed: the live one must have reported itself           *)
(* unavailable, the durable one must have raised and been moved on by its      *)
(* owner.                                                                      *)
Subscriber ==
  INSTANCE Feed WITH
    head   <- [epoch |-> epoch, n |-> seq],
    warned <- IF durable THEN recovered ELSE ~up

ImplementsFeed == Subscriber!Spec

(* A durable source is refused only when what it needs is really gone: another *)
(* hub process, or a window that has moved past its cursor.                    *)
RefusedOnlyIfLost ==
  [][client' = "raised" /\ client # "raised" =>
       stream # epoch \/ last + Window < seq]_vars

(* Once the connection stays up, the source ends up with everything the hub    *)
(* has published, or it has raised for good; only a live source that slept     *)
(* through the whole window asks in vain until its budget ends.                *)
Undisturbed == <>[][~(Breaks \/ StopsWaiting)]_vars

CatchesUp ==
  Undisturbed => \/ <>[](client = "stream" /\ (last = NoCursor \/ last = seq))
                 \/ <>[](client = "gone")
                 \/ <>[](~durable /\ stream = epoch /\ last + Window < seq /\ ~up)
===============================================================================
