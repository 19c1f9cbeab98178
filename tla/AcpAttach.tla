----------------------------- MODULE AcpAttach -----------------------------
(***************************************************************************)
(* One persistent ACP agent and the viewers attached to it: the child      *)
(* process and the actor that reads it (edgeplaned-acp agent.rs), the      *)
(* supervisor that owns the session, forwards its updates and turns        *)
(* signals into prompts (acp_session_supervisor.rs, claude_agent_acp.rs),  *)
(* the replay buffer in front of the viewers' channel (replay_broadcast.rs)*)
(* and the websocket pump of each viewer (attach_ws.rs pump_acp).          *)
(*                                                                         *)
(* Sessions are numbered: a viewer keeps the channels of the session it    *)
(* attached to when the supervisor is aborted and a later one registers    *)
(* new ones.  An update is its number in the child's output, and is marked *)
(* when it reports context usage above the compaction threshold.           *)
(***************************************************************************)
EXTENDS Naturals, Sequences, FiniteSets, Functions

CONSTANTS
    Viewers,        \* websocket connections
    NotifyCap,      \* NOTIFICATIONS_CHANNEL_CAPACITY, agent actor -> supervisor
    FanoutCap,      \* UPDATES_BROADCAST_CAPACITY, supervisor -> viewers
    ReplayCap,      \* REPLAY_BUFFER_CAPACITY
    SignalCap,      \* SIGNAL_CHANNEL_CAPACITY
    MaxSessions,    \* bound: sessions opened
    MaxUpdates,     \* bound: updates the children write
    MaxSignals      \* bound: signals accepted in a behaviour

ASSUME CapacitiesAssumption ==
    /\ NotifyCap \in Nat \ {0} /\ FanoutCap \in Nat \ {0} /\ SignalCap \in Nat \ {0}
    /\ ReplayCap \in Nat

ASSUME AttachBounds == MaxSessions \in Nat /\ MaxUpdates \in Nat /\ MaxSignals \in Nat

VARIABLES
    sup,        \* where run_for_agent is, and the session it is in
    endpoint,   \* the session registered for the agent, 0 for none
    child,      \* per session, the agent process
    turns,      \* per session, prompts the child has not answered
    feed,       \* per session, the updates its child wrote: is it a usage alarm?
    pump,       \* per session, pump_session: program counter, place in feed, compact_triggered
    sent,       \* per session, the updates handed to ReplayBroadcast::send
    ring,       \* per session, Inner.buf of the ReplayBroadcast
    signals,    \* per session, the queue behind signal_tx
    viewer,     \* pump_acp, per connection
    accepted    \* signals accepted so far

vars == <<sup, endpoint, child, turns, feed, pump, sent, ring, signals, viewer, accepted>>

-----------------------------------------------------------------------------
Sessions == 1 .. MaxSessions
Updates == Nat \ {0}
Signals == {"prompt", "cancel"}     \* UserInput and PeerMessage; Cancel

(* skipped: the updates the receiver was told it lagged behind.            *)
PumpStates == [pc : {"off", "select", "prompt", "compact"}, at : Nat \ {0},
               compacted : BOOLEAN, skipped : SUBSET Updates]
PumpOff == [pc |-> "off", at |-> 1, compacted |-> FALSE, skipped |-> {}]

(* since: how much had been sent when the viewer subscribed; got: what its *)
(* client received; next: its receiver's place in sent.                    *)
Away == [pc |-> "away"]
ViewerStates ==
         {Away}
    \cup [pc : {"hello"}, on : Sessions]
    \cup [pc : {"replay", "live"}, on : Sessions, since : Nat, snap : Seq(Updates),
          next : Nat \ {0}, got : Seq(Updates), missed : SUBSET Updates]

TypeOK ==
    /\ sup \in [pc : {"opening", "registered", "pumping", "backoff", "aborted"},
                on : 0 .. MaxSessions]
    /\ endpoint \in 0 .. MaxSessions
    /\ child \in [Sessions -> {"none", "alive", "dead"}]
    /\ turns \in [Sessions -> Nat]
    /\ feed \in [Sessions -> Seq(BOOLEAN)]
    /\ pump \in [Sessions -> PumpStates]
    /\ sent \in [Sessions -> Seq(Updates)]
    /\ ring \in [Sessions -> Seq(Updates)]
    /\ signals \in [Sessions -> Seq(Signals)]
    /\ viewer \in [Viewers -> ViewerStates]
    /\ accepted \in 0 .. MaxSignals
    /\ \A i \in Sessions : Len(ring[i]) <= ReplayCap /\ Len(signals[i]) <= SignalCap

-----------------------------------------------------------------------------
(* tokio's broadcast channel keeps its last cap items; a receiver that is  *)
(* further behind is told Lagged and put at the oldest one kept.           *)

Oldest(len, cap) == IF len > cap THEN len - cap + 1 ELSE 1
Lags(len, at, cap) == at < Oldest(len, cap)

(* The receiver exists as long as run_one_session runs.                    *)
Alive(i) == child[i] = "alive"
InSession(i) == sup.pc \in {"registered", "pumping"} /\ sup.on = i

(* The senders of the notification channel are the actor, which ends with  *)
(* the child, and the Agent handle inside the AcpSession.                  *)
NotificationsClosed(i) == ~Alive(i) /\ ~InSession(i)

Init ==
    /\ sup = [pc |-> "opening", on |-> 0]
    /\ endpoint = 0
    /\ child = [i \in Sessions |-> "none"]
    /\ turns = [i \in Sessions |-> 0]
    /\ feed = [i \in Sessions |-> <<>>]
    /\ pump = [i \in Sessions |-> PumpOff]
    /\ sent = [i \in Sessions |-> <<>>]
    /\ ring = [i \in Sessions |-> <<>>]
    /\ signals = [i \in Sessions |-> <<>>]
    /\ viewer = [v \in Viewers |-> Away]
    /\ accepted = 0

channels == <<feed, sent, ring>>
process == <<child, turns>>

-----------------------------------------------------------------------------
(* run_for_agent and run_one_session.                                      *)

(* AcpSession::open spawns the child and shakes hands; the endpoints are   *)
(* registered before the supervisor subscribes to the updates.             *)
OpenAndRegister ==
    /\ sup.pc = "opening" /\ sup.on < MaxSessions
    /\ LET i == sup.on + 1 IN
         /\ sup' = [pc |-> "registered", on |-> i]
         /\ child' = [child EXCEPT ![i] = "alive"]
         /\ endpoint' = i
    /\ UNCHANGED <<turns, channels, pump, signals, viewer, accepted>>

OpenFails ==
    /\ sup.pc = "opening"
    /\ sup' = [sup EXCEPT !.pc = "backoff"]
    /\ UNCHANGED <<endpoint, process, channels, pump, signals, viewer, accepted>>

BackoffEnds ==
    /\ sup.pc = "backoff"
    /\ sup' = [sup EXCEPT !.pc = "opening"]
    /\ UNCHANGED <<endpoint, process, channels, pump, signals, viewer, accepted>>

SubscribeUpdates ==
    /\ sup.pc = "registered"
    /\ sup' = [sup EXCEPT !.pc = "pumping"]
    /\ pump' = [pump EXCEPT ![sup.on].pc = "select", ![sup.on].at = Len(feed[sup.on]) + 1]
    /\ UNCHANGED <<endpoint, process, channels, signals, viewer, accepted>>

(* RunningAgent::shutdown aborts the task: the session handle, the pump and *)
(* the signal receiver are dropped, nothing is unregistered, and the actor, *)
(* which holds a sender of its own command channel, keeps the child.        *)
Abort ==
    /\ sup.pc # "aborted"
    /\ sup' = [sup EXCEPT !.pc = "aborted"]
    /\ pump' = [i \in Sessions |-> [pump[i] EXCEPT !.pc = "off"]]
    /\ signals' = [i \in Sessions |-> <<>>]
    /\ UNCHANGED <<endpoint, process, channels, viewer, accepted>>

SpawnAgain ==
    /\ sup.pc = "aborted"
    /\ sup' = [sup EXCEPT !.pc = "opening"]
    /\ UNCHANGED <<endpoint, process, channels, pump, signals, viewer, accepted>>

-----------------------------------------------------------------------------
(* The child and its actor.                                                *)

Written == FoldFunction(LAMBDA updates, n : Len(updates) + n, 0, feed)

Emit(i) ==
    /\ Alive(i) /\ Written < MaxUpdates
    /\ \E alarm \in BOOLEAN : feed' = [feed EXCEPT ![i] = Append(@, alarm)]
    /\ UNCHANGED <<sup, endpoint, process, pump, sent, ring, signals, viewer, accepted>>

Answer(i) ==
    /\ Alive(i) /\ turns[i] > 0
    /\ turns' = [turns EXCEPT ![i] = @ - 1]
    /\ UNCHANGED <<sup, endpoint, child, channels, pump, signals, viewer, accepted>>

(* End of output: the actor answers every pending request with             *)
(* ConnectionClosed and ends.                                              *)
KeepsPending(i) == turns[i]                     \* seeded fault: pending not drained
Drained(i) == 0

ChildDies(i) ==
    /\ Alive(i)
    /\ child' = [child EXCEPT ![i] = "dead"]
    /\ turns' = [turns EXCEPT ![i] = Drained(i)]
    /\ UNCHANGED <<sup, endpoint, channels, pump, signals, viewer, accepted>>

-----------------------------------------------------------------------------
(* pump_session.  The select is biased: a signal is looked at only when no *)
(* update is waiting; a prompt is driven to its end inside the arm.        *)

Waiting(i) == pump[i].at <= Len(feed[i])

(* ReplayBroadcast::send, under its lock.                                  *)
RingOffByOne(i, u) ==                           \* seeded fault: evicts one too many
    LET kept == IF Len(ring[i]) + 1 >= ReplayCap /\ ring[i] # <<>> THEN Tail(ring[i]) ELSE ring[i]
    IN  IF ReplayCap > 0 THEN Append(kept, u) ELSE ring[i]
RingUnbounded(i, u) == Append(ring[i], u)       \* seeded fault: nothing evicted
RingAfter(i, u) ==
    LET kept == IF Len(ring[i]) >= ReplayCap THEN Tail(ring[i]) ELSE ring[i]
    IN  IF ReplayCap > 0 THEN Append(kept, u) ELSE ring[i]

Send(i, u) ==
    /\ ring' = [ring EXCEPT ![i] = RingAfter(i, u)]
    /\ sent' = [sent EXCEPT ![i] = Append(@, u)]

(* agent.prompt(): a request to a dead child is refused at once.           *)
Submit(i) == turns' = [turns EXCEPT ![i] = IF Alive(i) THEN @ + 1 ELSE @]

PumpLagged(i) ==
    LET oldest == Oldest(Len(feed[i]), NotifyCap) IN
    /\ Lags(Len(feed[i]), pump[i].at, NotifyCap)
    /\ pump' = [pump EXCEPT ![i].at = oldest, ![i].skipped = @ \cup (pump[i].at .. oldest - 1)]
    /\ UNCHANGED <<sent, ring, turns>>

(* The first alarm of a session prompts /compact before it is forwarded.   *)
Compacts(i) == feed[i][pump[i].at] /\ ~pump[i].compacted

PumpCompact(i) ==
    /\ ~Lags(Len(feed[i]), pump[i].at, NotifyCap)
    /\ Compacts(i)
    /\ pump' = [pump EXCEPT ![i].pc = "compact", ![i].compacted = TRUE]
    /\ Submit(i)
    /\ UNCHANGED <<sent, ring>>

PumpForward(i) ==
    /\ ~Lags(Len(feed[i]), pump[i].at, NotifyCap)
    /\ ~Compacts(i)
    /\ Send(i, pump[i].at)
    /\ pump' = [pump EXCEPT ![i].at = @ + 1]
    /\ UNCHANGED turns

(* The arm for Closed: unregister, shut the child down, back off.          *)
EndSession(i) ==
    /\ sup' = [sup EXCEPT !.pc = "backoff"]
    /\ endpoint' = 0
    /\ child' = [child EXCEPT ![i] = "dead"]
    /\ turns' = [turns EXCEPT ![i] = 0]
    /\ pump' = [pump EXCEPT ![i].pc = "off"]
    /\ signals' = [signals EXCEPT ![i] = <<>>]
    /\ UNCHANGED <<sent, ring>>

PumpRecv(i) ==
    /\ pump[i].pc = "select"
    /\ IF Waiting(i)
         THEN /\ PumpLagged(i) \/ PumpCompact(i) \/ PumpForward(i)
              /\ UNCHANGED <<sup, endpoint, child, signals>>
         ELSE NotificationsClosed(i) /\ EndSession(i)
    /\ UNCHANGED <<feed, viewer, accepted>>

(* handle_signal.  A cancel is a notification to the child.                *)
AwaitNothing(i) == "select"                     \* seeded fault: prompt spawned, not awaited
AfterPrompt(i) == "prompt"

PumpSignal(i) ==
    /\ pump[i].pc = "select" /\ ~Waiting(i) /\ signals[i] # <<>>
    /\ signals' = [signals EXCEPT ![i] = Tail(@)]
    /\ IF Head(signals[i]) = "prompt"
         THEN pump' = [pump EXCEPT ![i].pc = AfterPrompt(i)] /\ Submit(i)
         ELSE UNCHANGED <<pump, turns>>
    /\ UNCHANGED <<sup, endpoint, child, channels, viewer, accepted>>

PromptEnds(i) ==
    /\ pump[i].pc = "prompt" /\ turns[i] = 0
    /\ pump' = [pump EXCEPT ![i].pc = "select"]
    /\ UNCHANGED <<sup, endpoint, process, channels, signals, viewer, accepted>>

(* After /compact the update that triggered it is forwarded.               *)
DropsTrigger(i) == UNCHANGED <<sent, ring>>     \* seeded fault: continue before send
ForwardsTrigger(i) == Send(i, pump[i].at)

CompactEnds(i) ==
    /\ pump[i].pc = "compact" /\ turns[i] = 0
    /\ ForwardsTrigger(i)
    /\ pump' = [pump EXCEPT ![i].pc = "select", ![i].at = @ + 1]
    /\ UNCHANGED <<sup, endpoint, process, feed, signals, viewer, accepted>>

-----------------------------------------------------------------------------
(* The viewers' websockets and the message relay.                          *)

(* signal_tx.send waits while the queue is full; with the receiver dropped *)
(* it fails, which ends the viewer's connection.                           *)
Enqueue(i, signal) ==
    /\ InSession(i) /\ Len(signals[i]) < SignalCap
    /\ accepted < MaxSignals
    /\ signals' = [signals EXCEPT ![i] = Append(@, signal)]
    /\ accepted' = accepted + 1
    /\ UNCHANGED <<sup, endpoint, process, channels, pump, viewer>>

ViewerSignals(v) ==
    /\ viewer[v].pc = "live"
    /\ \E signal \in Signals : Enqueue(viewer[v].on, signal)

RelayDelivers == endpoint # 0 /\ Enqueue(endpoint, "prompt")

Becomes(v, state) ==
    /\ viewer' = [viewer EXCEPT ![v] = state]
    /\ UNCHANGED <<sup, endpoint, process, channels, pump, signals, accepted>>

ViewerRefused(v) == viewer[v].pc = "live" /\ ~InSession(viewer[v].on) /\ Becomes(v, Away)

Leave(v) == viewer[v].pc # "away" /\ Becomes(v, Away)

(* registry.get, then the hello frame.                                     *)
Connect(v) ==
    /\ viewer[v].pc = "away" /\ endpoint # 0
    /\ Becomes(v, [pc |-> "hello", on |-> endpoint])

(* subscribe_with_replay: snapshot and receiver under one lock.            *)
AfterSnapshot(i) == IF sent[i] = <<>> THEN 1 ELSE Len(sent[i])  \* seeded fault: snapshot before
LiveFrom(i) == Len(sent[i]) + 1                                 \* the last send, receiver after it

SubscribeWithReplay(v) ==
    LET i == viewer[v].on IN
    /\ viewer[v].pc = "hello"
    /\ Becomes(v, [pc |-> IF ring[i] = <<>> THEN "live" ELSE "replay", on |-> i,
                   since |-> Len(sent[i]), snap |-> ring[i], next |-> LiveFrom(i),
                   got |-> <<>>, missed |-> {}])

ReplayOne(v) ==
    LET w == viewer[v] IN
    /\ w.pc = "replay"
    /\ Becomes(v, [w EXCEPT !.pc = IF Len(w.snap) = 1 THEN "live" ELSE "replay",
                            !.snap = Tail(@), !.got = Append(@, Head(w.snap))])

ViewerLagged(v) ==
    LET w == viewer[v]
        oldest == Oldest(Len(sent[w.on]), FanoutCap)
    IN
    /\ w.pc = "live" /\ Lags(Len(sent[w.on]), w.next, FanoutCap)
    /\ Becomes(v, [w EXCEPT !.next = oldest,
                            !.missed = @ \cup {sent[w.on][k] : k \in w.next .. oldest - 1}])

LiveOne(v) ==
    LET w == viewer[v] IN
    /\ w.pc = "live" /\ w.next <= Len(sent[w.on])
    /\ ~Lags(Len(sent[w.on]), w.next, FanoutCap)
    /\ Becomes(v, [w EXCEPT !.next = @ + 1, !.got = Append(@, sent[w.on][w.next])])

-----------------------------------------------------------------------------
Supervise == OpenAndRegister \/ OpenFails \/ BackoffEnds \/ SubscribeUpdates

Pump(i) == PumpRecv(i) \/ PumpSignal(i) \/ PromptEnds(i) \/ CompactEnds(i)

View(v) ==
    \/ Connect(v) \/ SubscribeWithReplay(v) \/ ReplayOne(v) \/ ViewerLagged(v) \/ LiveOne(v)
    \/ ViewerSignals(v) \/ ViewerRefused(v) \/ Leave(v)

Next ==
    \/ Supervise \/ Abort \/ SpawnAgain \/ RelayDelivers
    \/ \E i \in Sessions : Emit(i) \/ Answer(i) \/ ChildDies(i) \/ Pump(i)
    \/ \E v \in Viewers : View(v)

(* The supervisor's task is polled whenever one of its futures is ready;   *)
(* the handshake has timeouts.  Nothing makes the child answer a prompt:   *)
(* there is no timeout on it.                                              *)
Fairness == WF_vars(Supervise) /\ \A i \in Sessions : WF_vars(Pump(i))

Spec == Init /\ [][Next]_vars /\ Fairness

-----------------------------------------------------------------------------
(* Safety.                                                                 *)

Attached == {v \in Viewers : viewer[v].pc \in {"replay", "live"}}

(* A client receives updates in the order the child wrote them and none    *)
(* twice, across the seam between the replayed snapshot and the live       *)
(* channel: "in `snapshot` OR comes down `updates_rx`, never both".        *)
ViewerInOrder ==
    \A v \in Attached : \A j, k \in 1 .. Len(viewer[v].got) :
        j < k => viewer[v].got[j] < viewer[v].got[k]

(* A viewer that attached after n updates were sent is given the last      *)
(* ReplayCap of them and everything sent since, up to its place in the     *)
(* channel, but for what its receiver was told it lagged behind.           *)
AttachComplete ==
    \A v \in Attached :
        LET w == viewer[v] IN
        Range(w.got) \cup Range(w.snap) \cup w.missed
            = {sent[w.on][k] : k \in Oldest(w.since, ReplayCap) .. w.next - 1}

(* Between the first and the last update a client has, each one the child  *)
(* wrote was received too, or was lost to a lag that the supervisor or the *)
(* viewer's pump reported: a prompt that blocks the supervisor, /compact   *)
(* injected before an update is forwarded, and the eviction of the replay  *)
(* ring lose nothing silently.                                             *)
NoSilentGap ==
    \A v \in Attached :
        LET w == viewer[v] IN
        w.got # <<>> =>
            \A u \in w.got[1] .. w.got[Len(w.got)] :
                u \in Range(w.got) \cup w.missed \cup pump[w.on].skipped

(* The abstract view of a connection: one cursor over what was sent, which *)
(* stands at the first entry that is neither replayed nor received.        *)
ReaderOf(w) ==
    IF w.pc \in {"replay", "live"}
    THEN [on |-> w.on, next |-> w.next - Len(w.snap), got |-> w.got, lost |-> w.missed]
    ELSE [pc |-> "away"]

Stream == INSTANCE AttachStream WITH
            Streams <- Sessions,
            History <- ReplayCap,
            log <- sent,
            reader <- [v \in Viewers |-> ReaderOf(viewer[v])]

(* The ring, the snapshot taken under its lock, the bounded channel and    *)
(* the pump of each connection look to every client like a cursor in an    *)
(* unbounded log that starts ReplayCap back and reports what it jumps over *)
(* (replay_broadcast.rs, pump_acp).                                        *)
ImplementsAttachStream == Stream!Spec

(* "Per the ACP spec only one prompt turn is allowed per session at a      *)
(* time": viewers, relay and the compaction never have two outstanding.    *)
OneTurnAtATime == \A i \in Sessions : turns[i] <= 1

-----------------------------------------------------------------------------
(* Liveness.                                                               *)

(* The child of session i answers every prompt, or dies, and stops writing *)
(* some day: the select prefers updates, so one that writes without end    *)
(* keeps the signals waiting (here MaxUpdates ends every output).          *)
Responsive(i) == []<>(turns[i] = 0 \/ child[i] = "dead") /\ <>[][feed'[i] = feed[i]]_vars

Handed(i) == signals[i] = <<>> /\ Alive(i)
Released(i) == child[i] = "dead" /\ pump[i].pc = "select"

(* The signals queued for a responsive child are handed to it while it     *)
(* lives, or the session ends, or the child dies and its death, in the     *)
(* middle of a turn too, releases the supervisor (run_prompt, actor_loop). *)
(* "Drops nothing" is true of a living child only: what is still queued    *)
(* when it dies is taken and refused, see DeathEndsSession.                *)
AcceptedSignalsHandled ==
    \A i \in Sessions : Responsive(i) =>
        (signals[i] # <<>> ~> Handed(i) \/ Released(i) \/ ~InSession(i))

(* A session whose child has died is ended and reopened.                   *)
DeathEndsSession ==
    \A i \in Sessions : (child[i] = "dead" /\ InSession(i)) ~> ~InSession(i)

=============================================================================
