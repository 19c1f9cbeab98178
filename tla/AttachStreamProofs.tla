------------------------- MODULE AttachStreamProofs -------------------------
(* Proof that AcpAttach implements AttachStream: the replay ring, the      *)
(* snapshot a viewer takes of it and the bounded channel behind it look to *)
(* each client like one cursor in one unbounded log.                       *)
EXTENDS AcpAttachProofs

-----------------------------------------------------------------------------
(* The invariant the mapping needs.  AcpAttachProofs knows a snapshot as a *)
(* set of updates in order; for the cursor to stand at its first entry, it *)
(* must be, entry by entry, the stretch of sent right before the place the *)
(* live receiver starts at, however much is sent while it is replayed.     *)
InPlace(w, s) ==
    /\ Len(w.snap) < w.next
    /\ \A k \in 1 .. Len(w.snap) : w.snap[k] = s[w.next - Len(w.snap) + (k - 1)]

ReplayKept == \A v \in Attached : InPlace(viewer[v], sent[viewer[v].on])

RInv == IInv /\ ReplayKept

(* What AttachStream sees of the viewers.                                  *)
ReaderMap == [v \in Viewers |-> ReaderOf(viewer[v])]

Readers == [on : Sessions, next : Nat \ {0}, got : Seq(Updates), lost : SUBSET Updates]

LEMMA SameReader ==
    ASSUME NEW r \in Readers, NEW q \in Readers,
           r.on = q.on, r.next = q.next, r.got = q.got, r.lost = q.lost
    PROVE  r = q
  BY DEF Readers

(* An attached viewer is a reader, and not one that is away.               *)
LEMMA ReaderIs ==
    ASSUME NEW w \in Attachment, Len(w.snap) < w.next
    PROVE  /\ ReaderOf(w) \in Readers /\ ReaderOf(w) # Stream!Detached
           /\ ReaderOf(w).on = w.on /\ ReaderOf(w).next = w.next - Len(w.snap)
           /\ ReaderOf(w).got = w.got /\ ReaderOf(w).lost = w.missed
<1>1. /\ w.pc \in {"replay", "live"} /\ w.on \in Sessions /\ w.snap \in Seq(Updates)
      /\ w.next \in Nat \ {0} /\ w.got \in Seq(Updates) /\ w.missed \in SUBSET Updates
  BY DEF Attachment
<1>2. w.next - Len(w.snap) \in Nat \ {0}
  BY <1>1
<1>3. ReaderOf(w) = [on |-> w.on, next |-> w.next - Len(w.snap), got |-> w.got, lost |-> w.missed]
  BY <1>1 DEF ReaderOf
<1> DEFINE n == w.next - Len(w.snap)
<1> HIDE DEF n
<1>4. /\ [on |-> w.on, next |-> n, got |-> w.got, lost |-> w.missed] # [pc |-> "away"]
      /\ n \in Nat \ {0} =>
           [on |-> w.on, next |-> n, got |-> w.got, lost |-> w.missed] \in Readers
  BY <1>1 DEF Readers
<1>5. n \in Nat \ {0} /\ ReaderOf(w) = [on |-> w.on, next |-> n, got |-> w.got, lost |-> w.missed]
  BY <1>2, <1>3 DEF n
<1> QED BY <1>4, <1>5 DEF Stream!Detached, n

LEMMA ReaderIsNot ==
    ASSUME NEW w, w.pc \notin {"replay", "live"} PROVE ReaderOf(w) = Stream!Detached
  BY DEF ReaderOf, Stream!Detached

-----------------------------------------------------------------------------
(* A cursor, step by step.                                                 *)

(* subscribe_with_replay: the snapshot is the end of what was sent, and    *)
(* the cursor starts at the oldest entry the ring held.                    *)
LEMMA PlaceJoined ==
    ASSUME NEW s \in Seq(Updates), NEW buf \in Seq(Updates), IsSuffix(buf, s),
           NEW w \in Attachment, w.next = Len(s) + 1, w.snap = buf
    PROVE  InPlace(w, s) /\ w.next - Len(w.snap) = Stream!Start(Len(s))
<1>1. Len(s) \in Nat /\ Len(buf) \in Nat /\ ReplayCap \in Nat /\ Len(buf) = Kept(Len(s))
  BY CapacitiesAssumption DEF IsSuffix
<1>2. Len(buf) <= Len(s)
  BY <1>1 DEF Kept
<1>3. ASSUME NEW k \in 1 .. Len(buf) PROVE buf[k] = s[Len(s) + 1 - Len(buf) + (k - 1)]
  <2>1. Len(s) + 1 - Len(buf) + (k - 1) = Len(s) - Len(buf) + k
    BY <1>1
  <2> QED BY <2>1 DEF IsSuffix
<1>4. InPlace(w, s)
  BY <1>1, <1>2, <1>3 DEF InPlace
<1>5. Len(s) + 1 - Len(buf) = Stream!Start(Len(s))
  <2>1. CASE Len(s) > ReplayCap
    <3>1. Len(buf) = ReplayCap
      BY <1>1, <2>1 DEF Kept
    <3>2. Stream!Start(Len(s)) = Len(s) - ReplayCap + 1
      BY <2>1 DEF Stream!Start
    <3> QED BY <1>1, <3>1, <3>2
  <2>2. CASE ~(Len(s) > ReplayCap)
    <3>1. Len(buf) = Len(s)
      BY <1>1, <2>2 DEF Kept
    <3>2. Stream!Start(Len(s)) = 1
      BY <2>2 DEF Stream!Start
    <3> QED BY <1>1, <3>1, <3>2
  <2> QED BY <2>1, <2>2
<1> QED BY <1>4, <1>5

(* One update of the snapshot is the entry the cursor stands at.           *)
LEMMA PlaceReplayed ==
    ASSUME NEW s \in Seq(Updates), NEW w \in Attachment, NEW x \in Attachment, Follows(w, s),
           InPlace(w, s), w.snap # <<>>, x.snap = Tail(w.snap), x.next = w.next
    PROVE  /\ InPlace(x, s) /\ x.next - Len(x.snap) = w.next - Len(w.snap) + 1
           /\ w.next - Len(w.snap) \in 1 .. Len(s)
           /\ Head(w.snap) = s[w.next - Len(w.snap)]
<1> DEFINE n == Len(w.snap)
<1>1. /\ w.snap \in Seq(Updates) /\ w.next \in Nat \ {0} /\ n \in Nat \ {0} /\ Len(s) \in Nat
      /\ n < w.next /\ w.next <= Len(s) + 1
  BY DEF Attachment, Follows, InPlace
<1>2. /\ Len(x.snap) = n - 1 /\ Head(w.snap) = w.snap[1]
      /\ \A k \in 1 .. n - 1 : x.snap[k] = w.snap[k + 1]
  BY <1>1
<1>3. \A k \in 1 .. n : w.snap[k] = s[w.next - n + (k - 1)]
  BY DEF InPlace
<1> HIDE DEF n
<1>4. ASSUME NEW k \in 1 .. n - 1 PROVE x.snap[k] = s[w.next - (n - 1) + (k - 1)]
  <2>1. k + 1 \in 1 .. n /\ w.next - n + ((k + 1) - 1) = w.next - (n - 1) + (k - 1)
    BY <1>1
  <2> QED BY <1>2, <1>3, <2>1
<1>5. InPlace(x, s)
  BY <1>1, <1>2, <1>4 DEF InPlace
<1>6. Head(w.snap) = s[w.next - n]
  <2>1. 1 \in 1 .. n /\ w.next - n + (1 - 1) = w.next - n
    BY <1>1
  <2> QED BY <1>2, <1>3, <2>1
<1>7. w.next - n \in 1 .. Len(s) /\ w.next - (n - 1) = w.next - n + 1
  BY <1>1
<1> QED BY <1>2, <1>5, <1>6, <1>7 DEF n

(* A viewer whose snapshot is used up is where its receiver is.            *)
LEMMA PlaceLive ==
    ASSUME NEW s, NEW w \in Attachment, w.snap = <<>>
    PROVE  InPlace(w, s) /\ w.next - Len(w.snap) = w.next
<1>1. Len(w.snap) = 0 /\ w.next \in Nat \ {0}
  BY DEF Attachment
<1> QED BY <1>1 DEF InPlace

(* The place a receiver that lags is put at is ahead of it, in the log.    *)
LEMMA OldestIsBehind ==
    ASSUME NEW len \in Nat, NEW at \in Nat \ {0}, at < Oldest(len, FanoutCap)
    PROVE  Oldest(len, FanoutCap) \in at + 1 .. len
  BY CapacitiesAssumption DEF Oldest

(* More is sent: the stretch the snapshot was taken of stays.              *)
LEMMA PlaceKeeps ==
    ASSUME NEW s \in Seq(Updates), NEW u \in Updates, NEW w \in Attachment, Follows(w, s),
           InPlace(w, s)
    PROVE  InPlace(w, Append(s, u))
<1> DEFINE n == Len(w.snap)
           z == Append(s, u)
<1>1. /\ w.next \in Nat \ {0} /\ n \in Nat /\ Len(s) \in Nat /\ n < w.next
      /\ w.next <= Len(s) + 1
  BY DEF Attachment, Follows, InPlace
<1>2. \A k \in 1 .. Len(s) : z[k] = s[k]
  OBVIOUS
<1>3. \A k \in 1 .. n : w.snap[k] = s[w.next - n + (k - 1)]
  BY DEF InPlace
<1> HIDE DEF n, z
<1>4. \A k \in 1 .. n : w.next - n + (k - 1) \in 1 .. Len(s)
  BY <1>1
<1>5. \A k \in 1 .. n : w.snap[k] = z[w.next - n + (k - 1)]
  BY <1>2, <1>3, <1>4
<1> QED BY <1>1, <1>5 DEF InPlace, n, z

-----------------------------------------------------------------------------
(* The steps of a viewer.                                                  *)

(* A viewer moves: its reader moves with it, the others and the log stay.  *)
LEMMA ViewerMoves ==
    ASSUME RInv, NEW v \in Viewers, NEW x, Becomes(v, x),
           x.pc \in {"replay", "live"} => InPlace(x, sent[x.on])
    PROVE  /\ ReplayKept'
           /\ UNCHANGED sent /\ ReaderMap' = [ReaderMap EXCEPT ![v] = ReaderOf(x)]
           /\ ReaderMap[v] = ReaderOf(viewer[v])
<1>1. /\ viewer' = [viewer EXCEPT ![v] = x] /\ viewer \in [Viewers -> ViewerStates]
      /\ sent' = sent
  BY DEF RInv, IInv, TypeOK, Becomes, channels
<1>2. viewer'[v] = x /\ \A u \in Viewers : u # v => viewer'[u] = viewer[u]
  BY <1>1
<1>3. ReplayKept'
  BY <1>1, <1>2 DEF RInv, ReplayKept, Attached
<1>4. ReaderMap' = [ReaderMap EXCEPT ![v] = ReaderOf(x)]
  BY <1>1, <1>2 DEF ReaderMap
<1>5. ReaderMap[v] = ReaderOf(viewer[v])
  BY DEF ReaderMap
<1> QED BY <1>1, <1>3, <1>4, <1>5

(* What is known of a viewer that is attached.                             *)
LEMMA Reading ==
    ASSUME RInv, NEW v \in Viewers, viewer[v].pc \in {"replay", "live"}
    PROVE  /\ viewer[v] \in Attachment /\ viewer[v].on \in Sessions
           /\ sent[viewer[v].on] \in Seq(Updates)
           /\ Follows(viewer[v], sent[viewer[v].on]) /\ InPlace(viewer[v], sent[viewer[v].on])
<1>1. v \in Attached /\ TypeOK
  BY DEF Attached, RInv, IInv
<1>2. /\ viewer[v] \in Attachment /\ viewer[v].on \in Sessions
      /\ sent[viewer[v].on] \in Seq(Updates)
  BY <1>1, Viewing DEF Attachment
<1> QED BY <1>1, <1>2 DEF RInv, IInv, ViewsKept, ReplayKept

StreamStep == Stream!Next \/ UNCHANGED <<sent, ReaderMap>>

(* The disjuncts of Stream!Next, with the mapping written out.             *)
LEMMA DetachMove ==
    ASSUME NEW v \in Viewers, UNCHANGED sent, ReaderMap[v] # Stream!Detached,
           ReaderMap' = [ReaderMap EXCEPT ![v] = Stream!Detached]
    PROVE  StreamStep
<1>1. Stream!Detach(v)
  BY DEF Stream!Detach, Stream!Moves, ReaderMap
<1> QED BY <1>1 DEF Stream!Next, StreamStep

LEMMA AttachMove ==
    ASSUME NEW v \in Viewers, NEW i \in Sessions, NEW q, UNCHANGED sent,
           ReaderMap[v] = Stream!Detached, ReaderMap' = [ReaderMap EXCEPT ![v] = q],
           q = [on |-> i, next |-> Stream!Start(Len(sent[i])), got |-> <<>>, lost |-> {}]
    PROVE  StreamStep
<1>1. Stream!Attach(v)
  BY DEF Stream!Attach, Stream!Moves, ReaderMap
<1> QED BY <1>1 DEF Stream!Next, StreamStep

LEMMA DeliverMove ==
    ASSUME NEW v \in Viewers, NEW r, NEW q, UNCHANGED sent,
           ReaderMap[v] = r, ReaderMap' = [ReaderMap EXCEPT ![v] = q],
           r # Stream!Detached, r.next <= Len(sent[r.on]),
           q = [r EXCEPT !.next = @ + 1, !.got = Append(@, sent[r.on][r.next])]
    PROVE  StreamStep
<1>1. Stream!Deliver(v)
  BY DEF Stream!Deliver, Stream!Moves, ReaderMap
<1> QED BY <1>1 DEF Stream!Next, StreamStep

LEMMA ReportMove ==
    ASSUME NEW v \in Viewers, NEW r, NEW q, UNCHANGED sent,
           ReaderMap[v] = r, ReaderMap' = [ReaderMap EXCEPT ![v] = q],
           r # Stream!Detached, NEW to \in r.next + 1 .. Len(sent[r.on]),
           q = [r EXCEPT !.next = to, !.lost = @ \cup Stream!Between(r.on, r.next, to)]
    PROVE  StreamStep
<1>1. Stream!Report(v)
  BY DEF Stream!Report, Stream!Moves, ReaderMap
<1> QED BY <1>1 DEF Stream!Next, StreamStep

(* Leaving, and being refused: the reader detaches, if there was one.      *)
LEMMA LeaveStep ==
    ASSUME RInv, NEW v \in Viewers, Leave(v) \/ ViewerRefused(v)
    PROVE  ReplayKept' /\ StreamStep
<1>1. Becomes(v, Away) /\ Away.pc \notin {"replay", "live"}
  BY DEF Leave, ViewerRefused, Away
<1>2. /\ ReplayKept' /\ UNCHANGED sent /\ ReaderMap' = [ReaderMap EXCEPT ![v] = Stream!Detached]
      /\ ReaderMap[v] = ReaderOf(viewer[v])
  BY <1>1, ViewerMoves, ReaderIsNot
<1>3. CASE ReaderMap[v] # Stream!Detached
  BY <1>2, <1>3, DetachMove
<1>4. CASE ReaderMap[v] = Stream!Detached
  <2>1. ReaderMap' = ReaderMap
    BY <1>2, <1>4 DEF ReaderMap
  <2> QED BY <1>2, <2>1 DEF StreamStep
<1> QED BY <1>2, <1>3, <1>4

(* Until the hello frame is followed by the subscription, nothing is read. *)
LEMMA ConnectStep ==
    ASSUME RInv, NEW v \in Viewers, Connect(v)
    PROVE  ReplayKept' /\ StreamStep
<1> DEFINE x == [pc |-> "hello", on |-> endpoint]
<1>1. Becomes(v, x) /\ x.pc \notin {"replay", "live"} /\ viewer[v].pc \notin {"replay", "live"}
  BY DEF Connect
<1> HIDE DEF x
<1>2. /\ ReplayKept' /\ UNCHANGED sent /\ ReaderMap' = [ReaderMap EXCEPT ![v] = Stream!Detached]
      /\ ReaderMap[v] = Stream!Detached
  BY <1>1, ViewerMoves, ReaderIsNot
<1>3. ReaderMap' = ReaderMap
  BY <1>2 DEF ReaderMap
<1> QED BY <1>2, <1>3 DEF StreamStep

(* subscribe_with_replay attaches.                                         *)
LEMMA SubscribeStep ==
    ASSUME RInv, NEW v \in Viewers, SubscribeWithReplay(v)
    PROVE  ReplayKept' /\ StreamStep
<1> DEFINE i == viewer[v].on
           s == sent[i]
           x == [pc |-> IF ring[i] = <<>> THEN "live" ELSE "replay", on |-> i, since |-> Len(s),
                 snap |-> ring[i], next |-> Len(s) + 1, got |-> <<>>, missed |-> {}]
<1>1. TypeOK /\ i \in Sessions /\ viewer[v].pc \notin {"replay", "live"}
  BY DEF RInv, IInv, TypeOK, ViewerStates, Away, SubscribeWithReplay
<1>2. s \in Seq(Updates) /\ ring[i] \in Seq(Updates) /\ IsSuffix(ring[i], s)
  BY <1>1, Places DEF RInv, IInv, StreamsKept
<1>3. x \in Attachment
  BY <1>1, <1>2 DEF Attachment
<1>4. /\ x.on = i /\ x.next = Len(s) + 1 /\ x.snap = ring[i] /\ x.got = <<>> /\ x.missed = {}
      /\ x.pc \in {"replay", "live"}
  OBVIOUS
<1>5. Becomes(v, x)
  BY DEF SubscribeWithReplay, LiveFrom
<1> HIDE DEF x
<1>6. InPlace(x, s) /\ x.next - Len(x.snap) = Stream!Start(Len(s))
  BY <1>2, <1>3, <1>4, PlaceJoined
<1>7. /\ ReplayKept' /\ UNCHANGED sent /\ ReaderMap' = [ReaderMap EXCEPT ![v] = ReaderOf(x)]
      /\ ReaderMap[v] = Stream!Detached
  BY <1>1, <1>4, <1>5, <1>6, ViewerMoves, ReaderIsNot
<1>8. /\ ReaderOf(x) \in Readers /\ ReaderOf(x).on = i /\ ReaderOf(x).next = Stream!Start(Len(s))
      /\ ReaderOf(x).got = <<>> /\ ReaderOf(x).lost = {}
  BY <1>3, <1>4, <1>6, ReaderIs DEF InPlace
<1>9. ReaderOf(x) = [on |-> i, next |-> Stream!Start(Len(s)), got |-> <<>>, lost |-> {}]
  <2> DEFINE n == Stream!Start(Len(s))
             r == [on |-> i, next |-> n, got |-> <<>>, lost |-> {}]
  <2>1. n \in Nat \ {0}
    BY <1>8 DEF Readers
  <2> HIDE DEF n
  <2>2. r \in Readers /\ r.on = i /\ r.next = n /\ r.got = <<>> /\ r.lost = {}
    BY <1>1, <2>1 DEF Readers
  <2> HIDE DEF r
  <2>3. ReaderOf(x) = r
    BY <1>8, <2>2, SameReader DEF n
  <2> QED BY <2>3 DEF n, r
<1> QED BY <1>1, <1>7, <1>9, AttachMove

(* A delivery: the cursor passes one entry, which the client gets.         *)
LEMMA Delivers ==
    ASSUME NEW r \in Readers, NEW q \in Readers, NEW u, q.on = r.on, q.next = r.next + 1,
           q.got = Append(r.got, u), q.lost = r.lost
    PROVE  q = [r EXCEPT !.next = @ + 1, !.got = Append(@, u)]
<1> DEFINE z == [r EXCEPT !.next = @ + 1, !.got = Append(@, u)]
<1>1. q.next \in Nat \ {0} /\ q.got \in Seq(Updates)
  BY DEF Readers
<1>2. z \in Readers /\ z.on = r.on /\ z.next = r.next + 1 /\ z.got = Append(r.got, u) /\ z.lost = r.lost
  BY <1>1 DEF Readers
<1> HIDE DEF z
<1>3. q = z
  BY <1>2, SameReader
<1> QED BY <1>3 DEF z

(* A report: the cursor jumps, and the client is told over what.           *)
LEMMA Reports ==
    ASSUME NEW r \in Readers, NEW q \in Readers, NEW to \in Nat, NEW lost, q.on = r.on, q.next = to,
           q.lost = lost, q.got = r.got
    PROVE  q = [r EXCEPT !.next = to, !.lost = lost]
<1> DEFINE z == [r EXCEPT !.next = to, !.lost = lost]
<1>1. q.next \in Nat \ {0} /\ q.lost \in SUBSET Updates
  BY DEF Readers
<1>2. z \in Readers /\ z.on = r.on /\ z.next = to /\ z.got = r.got /\ z.lost = lost
  BY <1>1 DEF Readers
<1> HIDE DEF z
<1>3. q = z
  BY <1>2, SameReader
<1> QED BY <1>3 DEF z

(* One update of the snapshot is delivered.                                *)
LEMMA ReplayStep ==
    ASSUME RInv, NEW v \in Viewers, ReplayOne(v)
    PROVE  ReplayKept' /\ StreamStep
<1> DEFINE w == viewer[v]
           s == sent[w.on]
           x == [w EXCEPT !.pc = IF Len(w.snap) = 1 THEN "live" ELSE "replay",
                          !.snap = Tail(@), !.got = Append(@, Head(w.snap))]
           r == ReaderOf(w)
           q == ReaderOf(x)
<1>1. /\ w.pc = "replay" /\ w \in Attachment /\ w.on \in Sessions /\ s \in Seq(Updates)
      /\ Follows(w, s) /\ InPlace(w, s)
  BY Reading DEF ReplayOne
<1>2. w.snap \in Seq(Updates) /\ w.got \in Seq(Updates) /\ w.snap # <<>>
  BY <1>1 DEF Follows, Attachment
<1>3. Tail(w.snap) \in Seq(Updates) /\ Append(w.got, Head(w.snap)) \in Seq(Updates)
  BY <1>2
<1>4. x \in Attachment
  BY <1>1, <1>3 DEF Attachment
<1>5. /\ x.snap = Tail(w.snap) /\ x.got = Append(w.got, Head(w.snap)) /\ x.next = w.next
      /\ x.missed = w.missed /\ x.on = w.on
  BY <1>1 DEF Attachment
<1>6. Becomes(v, x)
  BY DEF ReplayOne
<1> HIDE DEF x
<1>7. /\ InPlace(x, s) /\ x.next - Len(x.snap) = w.next - Len(w.snap) + 1
      /\ w.next - Len(w.snap) \in 1 .. Len(s)
      /\ Head(w.snap) = s[w.next - Len(w.snap)]
  BY <1>1, <1>2, <1>4, <1>5, PlaceReplayed
<1>8. /\ r \in Readers /\ r # Stream!Detached /\ r.on = w.on /\ r.next = w.next - Len(w.snap)
      /\ r.got = w.got /\ r.lost = w.missed
  BY <1>1, ReaderIs DEF InPlace
<1>9. /\ q \in Readers /\ q.on = w.on /\ q.next = x.next - Len(x.snap)
      /\ q.got = x.got /\ q.lost = w.missed
  BY <1>4, <1>5, <1>7, ReaderIs DEF InPlace
<1>10. /\ ReplayKept' /\ UNCHANGED sent /\ ReaderMap' = [ReaderMap EXCEPT ![v] = q]
       /\ ReaderMap[v] = r
  BY <1>5, <1>6, <1>7, ViewerMoves
<1> HIDE DEF r, q
<1>11. r.next <= Len(sent[r.on]) /\ Head(w.snap) = sent[r.on][r.next]
  BY <1>1, <1>7, <1>8
<1>12. q.next = r.next + 1 /\ q.got = Append(r.got, sent[r.on][r.next]) /\ q.on = r.on /\ q.lost = r.lost
  BY <1>5, <1>7, <1>8, <1>9, <1>11
<1>13. q = [r EXCEPT !.next = @ + 1, !.got = Append(@, sent[r.on][r.next])]
  BY <1>8, <1>9, <1>12, Delivers
<1> QED BY <1>8, <1>10, <1>11, <1>13, DeliverMove

(* One live update is delivered.                                           *)
LEMMA LiveStep ==
    ASSUME RInv, NEW v \in Viewers, LiveOne(v)
    PROVE  ReplayKept' /\ StreamStep
<1> DEFINE w == viewer[v]
           s == sent[w.on]
           x == [w EXCEPT !.next = @ + 1, !.got = Append(@, s[w.next])]
           r == ReaderOf(w)
           q == ReaderOf(x)
<1>1. /\ w.pc = "live" /\ w \in Attachment /\ w.on \in Sessions /\ s \in Seq(Updates)
      /\ Follows(w, s) /\ InPlace(w, s) /\ w.next <= Len(s)
  BY Reading DEF LiveOne
<1>2. w.snap = <<>> /\ w.next \in Nat \ {0} /\ w.got \in Seq(Updates)
  BY <1>1 DEF Follows, Attachment
<1>3. s[w.next] \in Updates
  BY <1>1, <1>2
<1>4. Append(w.got, s[w.next]) \in Seq(Updates) /\ w.next + 1 \in Nat \ {0}
  BY <1>2, <1>3
<1>5. x \in Attachment
  BY <1>1, <1>4 DEF Attachment
<1>6. /\ x.snap = <<>> /\ x.got = Append(w.got, s[w.next]) /\ x.next = w.next + 1
      /\ x.missed = w.missed /\ x.on = w.on
  BY <1>1, <1>2 DEF Attachment
<1>7. Becomes(v, x)
  BY DEF LiveOne
<1> HIDE DEF x
<1>8. InPlace(x, s) /\ x.next - Len(x.snap) = w.next + 1 /\ w.next - Len(w.snap) = w.next
  BY <1>1, <1>2, <1>5, <1>6, PlaceLive
<1>9. /\ r \in Readers /\ r # Stream!Detached /\ r.on = w.on /\ r.next = w.next
      /\ r.got = w.got /\ r.lost = w.missed
  BY <1>1, <1>8, ReaderIs DEF InPlace
<1>10. /\ q \in Readers /\ q.on = w.on /\ q.next = w.next + 1
       /\ q.got = x.got /\ q.lost = w.missed
  BY <1>5, <1>6, <1>8, ReaderIs DEF InPlace
<1>11. /\ ReplayKept' /\ UNCHANGED sent /\ ReaderMap' = [ReaderMap EXCEPT ![v] = q]
       /\ ReaderMap[v] = r
  BY <1>6, <1>7, <1>8, ViewerMoves
<1> HIDE DEF r, q
<1>12. q = [r EXCEPT !.next = @ + 1, !.got = Append(@, sent[r.on][r.next])]
  <2>1. /\ q.on = r.on /\ q.next = r.next + 1 /\ q.got = Append(r.got, sent[r.on][r.next])
        /\ q.lost = r.lost
    BY <1>6, <1>9, <1>10
  <2> QED BY <1>9, <1>10, <2>1, Delivers
<1> QED BY <1>1, <1>9, <1>11, <1>12, DeliverMove

(* The receiver is told Lagged: the client is told over what it jumps.     *)
LEMMA LaggedStep ==
    ASSUME RInv, NEW v \in Viewers, ViewerLagged(v)
    PROVE  ReplayKept' /\ StreamStep
<1> DEFINE w == viewer[v]
           s == sent[w.on]
           to == Oldest(Len(s), FanoutCap)
           jumped == {s[k] : k \in w.next .. to - 1}
           x == [w EXCEPT !.next = to, !.missed = @ \cup jumped]
           r == ReaderOf(w)
           q == ReaderOf(x)
<1>1. /\ w.pc = "live" /\ w \in Attachment /\ w.on \in Sessions /\ s \in Seq(Updates)
      /\ Follows(w, s) /\ InPlace(w, s) /\ w.next < to
  BY Reading DEF ViewerLagged, Lags
<1>2. w.snap = <<>> /\ w.next \in Nat \ {0} /\ w.missed \in SUBSET Updates /\ Len(s) \in Nat
  BY <1>1 DEF Follows, Attachment
<1>3. to \in w.next + 1 .. Len(s)
  BY <1>1, <1>2, OldestIsBehind
<1>4. Becomes(v, x)
  BY DEF ViewerLagged
<1> HIDE DEF to
<1>5. jumped \subseteq Updates
  <2>1. \A k \in w.next .. to - 1 : k \in 1 .. Len(s)
    BY <1>2, <1>3
  <2> QED BY <1>1, <2>1
<1>6. x \in Attachment
  <2>1. to \in Nat \ {0}
    BY <1>2, <1>3
  <2> QED BY <1>1, <1>5, <2>1 DEF Attachment
<1>7. /\ x.snap = <<>> /\ x.got = w.got /\ x.next = to
      /\ x.missed = w.missed \cup jumped /\ x.on = w.on
  BY <1>1, <1>2 DEF Attachment
<1> HIDE DEF x
<1>8. InPlace(x, s) /\ x.next - Len(x.snap) = to /\ w.next - Len(w.snap) = w.next
  BY <1>1, <1>2, <1>6, <1>7, PlaceLive
<1>9. /\ r \in Readers /\ r # Stream!Detached /\ r.on = w.on /\ r.next = w.next
      /\ r.got = w.got /\ r.lost = w.missed
  BY <1>1, <1>8, ReaderIs DEF InPlace
<1>10. /\ q \in Readers /\ q.on = w.on /\ q.next = to
       /\ q.got = w.got /\ q.lost = w.missed \cup jumped
  BY <1>6, <1>7, <1>8, ReaderIs DEF InPlace
<1>11. /\ ReplayKept' /\ UNCHANGED sent /\ ReaderMap' = [ReaderMap EXCEPT ![v] = q]
       /\ ReaderMap[v] = r
  BY <1>4, <1>7, <1>8, ViewerMoves
<1> HIDE DEF r, q
<1>12. /\ jumped = Stream!Between(r.on, r.next, to) /\ to \in r.next + 1 .. Len(sent[r.on])
       /\ to \in Nat
  <2>1. jumped = Stream!Between(r.on, r.next, to)
    BY <1>9 DEF Stream!Between
  <2> QED BY <1>2, <1>3, <1>9, <2>1
<1> DEFINE lost == r.lost \cup Stream!Between(r.on, r.next, to)
<1>13. q.on = r.on /\ q.next = to /\ q.got = r.got /\ q.lost = lost
  BY <1>9, <1>10, <1>12
<1> HIDE DEF lost
<1>14. q = [r EXCEPT !.next = to, !.lost = lost]
  <2>1. r \in Readers /\ q \in Readers /\ to \in Nat
    BY <1>9, <1>10, <1>12
  <2> QED BY <1>13, <2>1, Reports, Zenon
<1>15. q = [r EXCEPT !.next = to, !.lost = @ \cup Stream!Between(r.on, r.next, to)]
  BY <1>14 DEF lost
<1> QED BY <1>9, <1>11, <1>12, <1>15, ReportMove

-----------------------------------------------------------------------------
(* The other steps.                                                        *)

LEMMA Unread == ASSUME RInv, UNCHANGED <<sent, viewer>> PROVE ReplayKept' /\ StreamStep
  BY DEF RInv, ReplayKept, Attached, StreamStep, ReaderMap

(* ReplayBroadcast::send writes the log; the pump does nothing else to it. *)
LEMMA WriteStep ==
    ASSUME RInv, NEW i \in Sessions, NEW q \in PumpStates, PumpEffect(i, q)
    PROVE  ReplayKept' /\ StreamStep
<1>1. viewer' = viewer /\ TypeOK
  BY DEF PumpEffect, RInv, IInv
<1>2. CASE sent' = sent
  BY <1>1, <1>2, Unread
<1>3. CASE Send(i, pump[i].at)
  <2> DEFINE u == pump[i].at
  <2>1. u \in Updates /\ sent[i] \in Seq(Updates)
    BY <1>1, Places DEF Updates
  <2>2. /\ sent'[i] = Append(sent[i], u)
        /\ \A j \in Sessions : j # i => sent'[j] = sent[j]
    BY <1>3, <2>1, SendTypes DEF RInv
  <2>3. \A k \in 1 .. Len(sent[i]) : sent[i][k] < u
    BY DEF RInv, IInv, StreamsKept, InStep
  <2>4. sent' = [sent EXCEPT ![i] = sent'[i]]
    BY <1>1, <1>3, <2>2 DEF Send, TypeOK
  <2> HIDE DEF u
  <2>5. ReplayKept'
    <3> SUFFICES ASSUME NEW v \in Attached PROVE InPlace(viewer[v], sent'[viewer[v].on])
      BY <1>1 DEF ReplayKept, Attached
    <3>1. /\ viewer[v] \in Attachment /\ viewer[v].on \in Sessions
          /\ Follows(viewer[v], sent[viewer[v].on]) /\ InPlace(viewer[v], sent[viewer[v].on])
      BY Reading DEF Attached
    <3>2. CASE viewer[v].on = i
      BY <2>1, <2>2, <3>1, <3>2, PlaceKeeps
    <3>3. CASE viewer[v].on # i
      BY <2>2, <3>1, <3>3
    <3> QED BY <3>2, <3>3
  <2>6. Stream!Write(i)
    <3>1. /\ Len(sent'[i]) = Len(sent[i]) + 1 /\ sent'[i][Len(sent[i]) + 1] = u
          /\ \A k \in 1 .. Len(sent[i]) : sent'[i][k] = sent[i][k]
      BY <2>1, <2>2
    <3>2. ReaderMap' = ReaderMap
      BY <1>1 DEF ReaderMap
    <3>3. \A k \in 1 .. Len(sent[i]) :
            sent'[i][k] = sent[i][k] /\ sent[i][k] < sent'[i][Len(sent[i]) + 1]
      BY <2>3, <3>1
    <3> QED BY <2>4, <3>1, <3>2, <3>3 DEF Stream!Write, ReaderMap
  <2> QED BY <2>5, <2>6 DEF Stream!Next, StreamStep
<1> QED BY <1>2, <1>3 DEF PumpEffect

(* Every step keeps the invariant and maps to a step of the stream.        *)
LEMMA EveryStreamStep == RInv /\ [Next]_vars => ReplayKept' /\ StreamStep
<1> SUFFICES ASSUME RInv, [Next]_vars PROVE ReplayKept' /\ StreamStep
  OBVIOUS
<1>1. CASE Supervise \/ Abort \/ SpawnAgain \/ RelayDelivers \/ UNCHANGED vars
  <2>1. UNCHANGED <<sent, viewer>>
    BY <1>1 DEF Supervise, OpenAndRegister, OpenFails, BackoffEnds, SubscribeUpdates, Abort,
       SpawnAgain, RelayDelivers, Enqueue, channels, vars
  <2> QED BY <2>1, Unread
<1>2. ASSUME NEW i \in Sessions, Emit(i) \/ Answer(i) \/ ChildDies(i)
      PROVE  ReplayKept' /\ StreamStep
  BY <1>2, Unread DEF Emit, Answer, ChildDies, channels
<1>3. ASSUME NEW i \in Sessions, Pump(i) PROVE ReplayKept' /\ StreamStep
  BY <1>3, PumpEffects, WriteStep DEF RInv
<1>4. ASSUME NEW v \in Viewers, View(v) PROVE ReplayKept' /\ StreamStep
  <2>1. CASE ViewerSignals(v)
    BY <2>1, Unread DEF ViewerSignals, Enqueue, channels
  <2> QED BY <1>4, <2>1, ConnectStep, SubscribeStep, ReplayStep, LaggedStep, LiveStep, LeaveStep
          DEF View
<1> QED BY <1>1, <1>2, <1>3, <1>4 DEF Next

LEMMA InitRInv == Init => RInv /\ Stream!Init
<1> SUFFICES ASSUME Init PROVE RInv /\ Stream!Init
  OBVIOUS
<1>1. ReplayKept
  BY DEF Init, ReplayKept, Attached, Away
<1>2. ReaderMap = [v \in Viewers |-> Stream!Detached] /\ sent = [i \in Sessions |-> <<>>]
  BY DEF Init, ReaderMap, ReaderOf, Away, Stream!Detached
<1>3. Stream!Init
  BY <1>2 DEF Stream!Init, ReaderMap
<1> QED BY <1>1, <1>3, InitIInv DEF RInv

-----------------------------------------------------------------------------
(* The theorems.                                                           *)

(* A viewer that is still replaying holds, entry by entry, the stretch of  *)
(* what was sent right before its live receiver's place: the snapshot and  *)
(* the receiver are taken under one lock (subscribe_with_replay).          *)
THEOREM SeamInvariance == Spec => []ReplayKept
<1>1. RInv /\ [Next]_vars => RInv'
  BY StepIInv, EveryStreamStep DEF RInv
<1>2. RInv => ReplayKept
  BY DEF RInv
<1> QED BY InitRInv, <1>1, <1>2, PTL DEF Spec

(* To its client, every connection is one cursor in an unbounded log that  *)
(* starts ReplayCap entries back, hands over entry after entry and reports *)
(* every entry it jumps over, whatever the capacities of ring and channel  *)
(* (replay_broadcast.rs, pump_acp).                                        *)
THEOREM StreamRefinement == Spec => ImplementsAttachStream
<1>1. RInv /\ [Next]_vars => RInv'
  BY StepIInv, EveryStreamStep DEF RInv
<1>2. RInv /\ [Next]_vars =>
        [Stream!Next]_<<sent, [v \in Viewers |-> ReaderOf(viewer[v])]>>
  BY EveryStreamStep DEF StreamStep, ReaderMap
<1>3. Init => Stream!Init
  BY InitRInv
<1> QED BY InitRInv, <1>1, <1>2, <1>3, PTL DEF Spec, ImplementsAttachStream, Stream!Spec
=============================================================================
