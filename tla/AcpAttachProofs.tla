--------------------------- MODULE AcpAttachProofs ---------------------------
(* Proofs of the safety properties of AcpAttach, for any capacities of its *)
(* channels and any number of viewers, sessions, updates and signals.      *)
EXTENDS AcpAttach, SequenceTheorems, TLAPS

-----------------------------------------------------------------------------
(* The inductive invariant.                                                *)

(* A session is pumped once, by the supervisor that opened it, and nothing *)
(* has been sent or asked in one that is not yet pumped.                   *)
PumpedOnce ==
    \A i \in Sessions :
        /\ pump[i].pc # "off" => sup.pc = "pumping" /\ sup.on = i
        /\ (i > sup.on \/ (i = sup.on /\ sup.pc = "registered")) => sent[i] = <<>> /\ turns[i] = 0

(* A prompt is submitted only when none is outstanding.                    *)
TurnsTaken ==
    \A i \in Sessions : turns[i] <= 1 /\ (pump[i].pc = "select" => turns[i] = 0)

(* The ring holds the last updates sent, as many as fit.                   *)
Kept(len) == IF len < ReplayCap THEN len ELSE ReplayCap
IsSuffix(buf, s) ==
    /\ Len(buf) = Kept(Len(s))
    /\ \A k \in 1 .. Len(buf) : buf[k] = s[Len(s) - Len(buf) + k]

Increasing(s) == \A j, k \in 1 .. Len(s) : j < k => s[j] < s[k]

(* What was sent is in order and behind the pump's place; what lies        *)
(* between a sent update and that place was sent or reported as skipped.   *)
InStep(s, at, skipped) ==
    /\ Increasing(s)
    /\ \A k \in 1 .. Len(s) : s[k] < at
    /\ \A k \in 1 .. Len(s) : \A u \in s[k] .. at - 1 : u \in Range(s) \cup skipped

StreamsKept ==
    \A i \in Sessions : IsSuffix(ring[i], sent[i]) /\ InStep(sent[i], pump[i].at, pump[i].skipped)

(* What a viewer w of a session in which s was sent has and still expects. *)
Due(w, s) == {s[k] : k \in Oldest(w.since, ReplayCap) .. w.next - 1}
Follows(w, s) ==
    /\ w.since < w.next /\ w.next <= Len(s) + 1
    /\ w.pc = "live" <=> w.snap = <<>>
    /\ Range(w.got) \cup Range(w.snap) \cup w.missed = Due(w, s)
    /\ Increasing(w.got) /\ Increasing(w.snap)
    /\ \A j \in 1 .. Len(w.got), k \in 1 .. Len(w.snap) : w.got[j] < w.snap[k]

ViewsKept == \A v \in Attached : Follows(viewer[v], sent[viewer[v].on])

IInv == TypeOK /\ PumpedOnce /\ TurnsTaken /\ StreamsKept /\ ViewsKept

-----------------------------------------------------------------------------
(* The invariant holds initially and gives the properties.                 *)

LEMMA InitIInv == Init => IInv
<1> SUFFICES ASSUME Init PROVE IInv
  OBVIOUS
<1> USE CapacitiesAssumption, AttachBounds
<1>1. TypeOK
  BY DEF Init, TypeOK, PumpOff, PumpStates, Away, ViewerStates, Updates, Sessions
<1>2. PumpedOnce /\ TurnsTaken
  BY DEF Init, PumpedOnce, TurnsTaken, PumpOff
<1>3. StreamsKept
  BY DEF Init, StreamsKept, IsSuffix, Kept, InStep, Increasing
<1>4. ViewsKept
  BY DEF Init, ViewsKept, Attached, Away
<1> QED BY <1>1, <1>2, <1>3, <1>4 DEF IInv

(* A viewer that is attached, and the session it is on.                    *)
LEMMA Viewing ==
    ASSUME TypeOK, NEW v \in Attached
    PROVE  /\ viewer[v] \in [pc : {"replay", "live"}, on : Sessions, since : Nat, snap : Seq(Updates),
                             next : Nat \ {0}, got : Seq(Updates), missed : SUBSET Updates]
           /\ viewer[v].on \in Sessions /\ sent[viewer[v].on] \in Seq(Updates)
  BY DEF TypeOK, Attached, ViewerStates, Away

LEMMA InvOrder == IInv => ViewerInOrder
  BY DEF IInv, ViewsKept, Follows, Increasing, ViewerInOrder

LEMMA InvComplete == IInv => AttachComplete
  BY DEF IInv, ViewsKept, Follows, Due, AttachComplete

LEMMA InvTurns == IInv => OneTurnAtATime
  BY DEF IInv, TurnsTaken, OneTurnAtATime

(* Between two updates that were sent, every other was sent or skipped.    *)
LEMMA Spanned ==
    ASSUME NEW s \in Seq(Updates), NEW at \in Nat, NEW skipped, InStep(s, at, skipped),
           NEW a \in 1 .. Len(s), NEW b \in 1 .. Len(s), NEW u \in s[a] .. s[b]
    PROVE  /\ u \in Range(s) \cup skipped
           /\ u \in Nat /\ s[a] \in Nat /\ s[b] \in Nat /\ s[a] <= u /\ u <= s[b]
<1>1. s[a] \in Nat /\ s[b] \in Nat
  <2>1. s[a] \in Updates /\ s[b] \in Updates
    OBVIOUS
  <2> QED BY <2>1 DEF Updates
<1>2. u \in Nat /\ s[a] <= u /\ u <= s[b]
  BY <1>1
<1>3. s[b] < at
  BY DEF InStep
<1>4. u \in s[a] .. at - 1
  BY <1>1, <1>2, <1>3
<1> QED BY <1>1, <1>2, <1>4 DEF InStep

LEMMA Ordered ==
    ASSUME NEW s \in Seq(Updates), Increasing(s), NEW a \in 1 .. Len(s), NEW b \in 1 .. Len(s),
           s[a] <= s[b]
    PROVE  a <= b
<1>1. s[a] \in Updates /\ s[b] \in Updates
  OBVIOUS
<1>2. s[a] \in Nat /\ s[b] \in Nat
  BY <1>1 DEF Updates
<1> QED BY <1>2 DEF Increasing

LEMMA InvNoGap == IInv => NoSilentGap
<1> SUFFICES ASSUME IInv, NEW v \in Attached, viewer[v].got # <<>>,
                    NEW u \in viewer[v].got[1] .. viewer[v].got[Len(viewer[v].got)]
             PROVE  u \in Range(viewer[v].got) \cup viewer[v].missed \cup pump[viewer[v].on].skipped
  BY DEF NoSilentGap
<1> DEFINE w == viewer[v]
           s == sent[w.on]
           n == Len(w.got)
<1>1. /\ w.got \in Seq(Updates) /\ w.snap \in Seq(Updates) /\ w.next \in Nat \ {0} /\ w.since \in Nat
      /\ w.on \in Sessions /\ s \in Seq(Updates)
  BY Viewing DEF IInv
<1>2. Follows(w, s)
  BY DEF IInv, ViewsKept
<1>3. InStep(s, pump[w.on].at, pump[w.on].skipped)
  BY <1>1 DEF IInv, StreamsKept
<1>4. n \in Nat \ {0} /\ w.got[1] \in Range(w.got) /\ w.got[n] \in Range(w.got)
  BY <1>1 DEF Range
<1> DEFINE B == Oldest(w.since, ReplayCap)
<1>5. B \in Nat \ {0}
  BY <1>1, CapacitiesAssumption DEF Oldest
<1> HIDE DEF B
<1>6. \A x \in Range(w.got) \cup Range(w.snap) \cup w.missed : \E k \in B .. w.next - 1 : x = s[k]
  BY <1>2 DEF Follows, Due, B
<1>7. \A k \in B .. w.next - 1 : s[k] \in Range(w.got) \cup Range(w.snap) \cup w.missed
  BY <1>2 DEF Follows, Due, B
<1>8. PICK a \in B .. w.next - 1, b \in B .. w.next - 1 : w.got[1] = s[a] /\ w.got[n] = s[b]
  BY <1>4, <1>6
<1>9. a \in 1 .. Len(s) /\ b \in 1 .. Len(s)
  <2>1. w.next <= Len(s) + 1
    BY <1>2 DEF Follows
  <2>2. w.next \in Nat /\ Len(s) \in Nat
    BY <1>1
  <2> HIDE DEF s
  <2> QED BY <1>5, <2>1, <2>2
<1>10. u \in s[a] .. s[b] /\ pump[w.on].at \in Nat
  <2>1. pump[w.on].at \in Nat
    BY <1>1 DEF IInv, TypeOK, PumpStates
  <2> QED BY <1>8, <2>1
<1>11. /\ u \in Range(s) \cup pump[w.on].skipped
       /\ u \in Nat /\ s[a] \in Nat /\ s[b] \in Nat /\ s[a] <= u /\ u <= s[b]
  <2> HIDE DEF s
  <2> QED BY <1>1, <1>3, <1>9, <1>10, Spanned
<1>12. CASE u \in Range(s)
  <2>1. PICK m \in 1 .. Len(s) : u = s[m]
    BY <1>1, <1>12 DEF Range
  <2>2. a <= m /\ m <= b
    <3>1. Increasing(s)
      BY <1>3 DEF InStep
    <3> HIDE DEF s
    <3>2. s[a] <= s[m] /\ s[m] <= s[b]
      BY <1>11, <2>1
    <3> QED BY <1>1, <1>9, <2>1, <3>1, <3>2, Ordered
  <2>3. u \in Range(w.got) \cup Range(w.snap) \cup w.missed
    <3>1. m \in B .. w.next - 1
      BY <1>1, <1>5, <2>2
    <3> QED BY <1>7, <2>1, <3>1
  <2>4. u \notin Range(w.snap)
    <3> SUFFICES ASSUME NEW k \in DOMAIN w.snap, u = w.snap[k] PROVE FALSE
      BY DEF Range
    <3>1. k \in 1 .. Len(w.snap) /\ w.snap[k] \in Nat
      <4>1. w.snap \in Seq(Updates)
        BY <1>1
      <4> HIDE DEF w
      <4>2. k \in 1 .. Len(w.snap) /\ w.snap[k] \in Updates
        BY <4>1
      <4> QED BY <4>2 DEF Updates
    <3>2. n \in 1 .. Len(w.got)
      BY <1>4
    <3>3. w.got[n] < w.snap[k]
      BY <1>2, <3>1, <3>2 DEF Follows
    <3>4. w.got[n] = s[b] /\ u = w.snap[k] /\ u \in Nat /\ s[b] \in Nat /\ u <= s[b]
      BY <1>8, <1>11
    <3> HIDE DEF s, w, n
    <3> QED BY <3>3, <3>4
  <2> QED BY <2>3, <2>4
<1> QED BY <1>11, <1>12

-----------------------------------------------------------------------------
(* The ring and the order of what is sent.                                 *)

RingOf(buf, u) ==
    LET kept == IF Len(buf) >= ReplayCap THEN Tail(buf) ELSE buf
    IN  IF ReplayCap > 0 THEN Append(kept, u) ELSE buf

LEMMA RingKeeps ==
    ASSUME NEW s \in Seq(Updates), NEW buf \in Seq(Updates), IsSuffix(buf, s), NEW u \in Updates
    PROVE  RingOf(buf, u) \in Seq(Updates) /\ IsSuffix(RingOf(buf, u), Append(s, u))
<1> USE CapacitiesAssumption
<1>0. /\ Len(buf) = Kept(Len(s)) /\ \A k \in 1 .. Len(buf) : buf[k] = s[Len(s) - Len(buf) + k]
      /\ Len(s) \in Nat /\ Len(buf) \in Nat
  BY DEF IsSuffix
<1>1. /\ Len(Append(s, u)) = Len(s) + 1 /\ Append(s, u)[Len(s) + 1] = u
      /\ \A k \in 1 .. Len(s) : Append(s, u)[k] = s[k]
  OBVIOUS
<1>2. CASE ReplayCap = 0
  BY <1>0, <1>1, <1>2 DEF RingOf, IsSuffix, Kept
<1>3. CASE ReplayCap > 0 /\ Len(buf) < ReplayCap
  <2>1. RingOf(buf, u) = Append(buf, u)
    BY <1>0, <1>3 DEF RingOf
  <2>2. Len(buf) = Len(s)
    BY <1>0, <1>3 DEF Kept
  <2>3. /\ Append(buf, u) \in Seq(Updates) /\ Len(Append(buf, u)) = Len(s) + 1
        /\ Append(buf, u)[Len(s) + 1] = u
        /\ \A k \in 1 .. Len(s) : Append(buf, u)[k] = buf[k]
    BY <2>2
  <2>4. Kept(Len(s) + 1) = Len(s) + 1
    BY <1>0, <1>3, <2>2 DEF Kept
  <2>5. \A k \in 1 .. Len(s) + 1 : Append(buf, u)[k] = Append(s, u)[k]
    BY <1>0, <1>1, <2>2, <2>3
  <2> QED BY <1>0, <1>1, <2>1, <2>3, <2>4, <2>5 DEF IsSuffix
<1>4. CASE ReplayCap > 0 /\ Len(buf) >= ReplayCap
  <2>1. Len(buf) = ReplayCap /\ Len(s) >= ReplayCap /\ buf # <<>>
    BY <1>0, <1>4 DEF Kept
  <2>2. /\ Tail(buf) \in Seq(Updates) /\ Len(Tail(buf)) = ReplayCap - 1
        /\ \A k \in 1 .. ReplayCap - 1 : Tail(buf)[k] = buf[k + 1]
    BY <1>4, <2>1
  <2> DEFINE r == Append(Tail(buf), u)
  <2>3. RingOf(buf, u) = r
    BY <1>4 DEF RingOf
  <2>4. /\ r \in Seq(Updates) /\ Len(r) = ReplayCap /\ r[ReplayCap] = u
        /\ \A k \in 1 .. ReplayCap - 1 : r[k] = buf[k + 1]
    BY <1>4, <2>2
  <2> HIDE DEF r
  <2>5. Kept(Len(s) + 1) = ReplayCap
    BY <1>0, <2>1 DEF Kept
  <2>6. ASSUME NEW k \in 1 .. ReplayCap
        PROVE  r[k] = Append(s, u)[Len(s) + 1 - ReplayCap + k]
    <3>1. CASE k = ReplayCap
      BY <1>0, <1>1, <2>4, <3>1
    <3>2. CASE k < ReplayCap
      <4>1. k \in 1 .. ReplayCap - 1 /\ k + 1 \in 1 .. Len(buf)
        BY <2>1, <3>2
      <4>2. r[k] = s[Len(s) - ReplayCap + (k + 1)]
        BY <1>0, <2>1, <2>4, <4>1
      <4>3. /\ Len(s) + 1 - ReplayCap + k \in 1 .. Len(s)
            /\ Len(s) - ReplayCap + (k + 1) = Len(s) + 1 - ReplayCap + k
        BY <1>0, <2>1, <4>1
      <4> QED BY <1>1, <4>2, <4>3
    <3>3. k = ReplayCap \/ k < ReplayCap
      BY CapacitiesAssumption
    <3> QED BY <3>1, <3>2, <3>3
  <2> DEFINE z == Append(s, u)
  <2>7. Len(z) = Len(s) + 1 /\ \A k \in 1 .. Len(r) : r[k] = z[Len(s) + 1 - ReplayCap + k]
    BY <1>1, <2>4, <2>6
  <2> HIDE DEF z
  <2>8. IsSuffix(r, z)
    BY <2>4, <2>5, <2>7 DEF IsSuffix
  <2> QED BY <2>3, <2>4, <2>8 DEF z
<1> QED BY <1>0, <1>2, <1>3, <1>4

LEMMA InStepForward ==
    ASSUME NEW s \in Seq(Updates), NEW at \in Updates, NEW skipped, InStep(s, at, skipped)
    PROVE  InStep(Append(s, at), at + 1, skipped)
<1> DEFINE z == Append(s, at)
<1>1. /\ Len(z) = Len(s) + 1 /\ Len(s) \in Nat /\ z[Len(s) + 1] = at
      /\ \A k \in 1 .. Len(s) : z[k] = s[k] /\ s[k] \in Updates
      /\ at \in Nat
  BY DEF Updates
<1>2. at \in Range(z) /\ Range(s) \subseteq Range(z)
  <2>1. \A k \in 1 .. Len(s) + 1 : z[k] \in Range(z)
    BY <1>1 DEF Range
  <2>2. \A x \in Range(s) : \E k \in 1 .. Len(s) : x = s[k]
    BY DEF Range
  <2> QED BY <1>1, <2>1, <2>2
<1> HIDE DEF z
<1>3. \A k \in 1 .. Len(s) : s[k] < at /\ s[k] \in Nat
  BY <1>1 DEF InStep, Updates
<1>4. Increasing(z)
  <2> SUFFICES ASSUME NEW j \in 1 .. Len(z), NEW k \in 1 .. Len(z), j < k PROVE z[j] < z[k]
    BY DEF Increasing
  <2>1. j \in 1 .. Len(s)
    BY <1>1
  <2>2. CASE k = Len(s) + 1
    BY <1>1, <1>3, <2>1, <2>2
  <2>3. CASE k \in 1 .. Len(s)
    <3>1. s[j] < s[k]
      BY <2>1, <2>3 DEF InStep, Increasing
    <3> QED BY <1>1, <2>1, <2>3, <3>1
  <2> QED BY <1>1, <2>2, <2>3
<1>5. \A k \in 1 .. Len(z) : z[k] < at + 1 /\ z[k] \in Nat
  BY <1>1, <1>3
<1>6. ASSUME NEW k \in 1 .. Len(z), NEW u \in z[k] .. at PROVE u \in Range(z) \cup skipped
  <2>1. CASE u = at
    BY <1>2, <2>1
  <2>2. CASE u < at
    <3>1. k \in 1 .. Len(s) /\ z[k] = s[k] /\ s[k] \in Nat
      BY <1>1, <1>3, <2>2
    <3>2. u \in s[k] .. at - 1
      BY <1>1, <2>2, <3>1
    <3> QED BY <1>2, <3>1, <3>2 DEF InStep
  <2> QED BY <1>1, <1>5, <2>1, <2>2
<1>7. (at + 1) - 1 = at
  BY <1>1
<1>8. InStep(z, at + 1, skipped)
  BY <1>4, <1>5, <1>6, <1>7 DEF InStep
<1> QED BY <1>8 DEF z

LEMMA InStepSkip ==
    ASSUME NEW s \in Seq(Updates), NEW at \in Updates, NEW to \in Updates, at <= to, NEW skipped,
           InStep(s, at, skipped)
    PROVE  InStep(s, to, skipped \cup (at .. to - 1))
<1>1. \A k \in 1 .. Len(s) : s[k] \in Updates
  OBVIOUS
<1>2. at \in Nat /\ to \in Nat /\ \A k \in 1 .. Len(s) : s[k] \in Nat /\ s[k] < to
  BY <1>1 DEF InStep, Updates
<1>3. ASSUME NEW k \in 1 .. Len(s), NEW u \in s[k] .. to - 1
      PROVE  u \in Range(s) \cup skipped \cup (at .. to - 1)
  <2>1. u \in s[k] .. at - 1 \/ u \in at .. to - 1
    BY <1>2
  <2> QED BY <2>1 DEF InStep
<1> QED BY <1>2, <1>3 DEF InStep

-----------------------------------------------------------------------------
(* What a viewer has, step by step.                                        *)

Attachment ==
    [pc : {"replay", "live"}, on : Sessions, since : Nat, snap : Seq(Updates),
     next : Nat \ {0}, got : Seq(Updates), missed : SUBSET Updates]

LEMMA Ranges ==
    /\ Range(<<>>) = {}
    /\ \A s \in Seq(Updates), u \in Updates : Range(Append(s, u)) = Range(s) \cup {u}
    /\ \A s \in Seq(Updates) : s # <<>> => Range(s) = {Head(s)} \cup Range(Tail(s))
    /\ \A s \in Seq(Updates), k \in Nat : k \in 1 .. Len(s) => s[k] \in Range(s)
<1>1. Range(<<>>) = {}
  BY DEF Range
<1>2. ASSUME NEW s \in Seq(Updates) PROVE Range(s) = {s[k] : k \in 1 .. Len(s)}
  BY DEF Range
<1>3. ASSUME NEW s \in Seq(Updates), NEW u \in Updates PROVE Range(Append(s, u)) = Range(s) \cup {u}
  <2> DEFINE z == Append(s, u)
  <2>1. /\ z \in Seq(Updates) /\ Len(z) = Len(s) + 1 /\ Len(s) \in Nat /\ z[Len(s) + 1] = u
        /\ \A k \in 1 .. Len(s) : z[k] = s[k]
    OBVIOUS
  <2> HIDE DEF z
  <2>2. Range(z) = {z[k] : k \in 1 .. Len(s) + 1}
    BY <1>2, <2>1
  <2>3. \A k \in 1 .. Len(s) + 1 : k \in 1 .. Len(s) \/ k = Len(s) + 1
    BY <2>1
  <2>4. \A k \in 1 .. Len(s) : k \in 1 .. Len(s) + 1
    BY <2>1
  <2>5. Len(s) + 1 \in 1 .. Len(s) + 1
    BY <2>1
  <2>6. Range(z) = Range(s) \cup {u}
    BY <1>2, <2>1, <2>2, <2>3, <2>4, <2>5
  <2> QED BY <2>6 DEF z
<1>4. ASSUME NEW s \in Seq(Updates), s # <<>> PROVE Range(s) = {Head(s)} \cup Range(Tail(s))
  <2> DEFINE z == Tail(s)
  <2>1. /\ z \in Seq(Updates) /\ Len(z) = Len(s) - 1 /\ Len(s) \in Nat \ {0} /\ Head(s) = s[1]
        /\ \A k \in 1 .. Len(s) - 1 : z[k] = s[k + 1]
    BY <1>4
  <2> HIDE DEF z
  <2>2. Range(z) = {z[k] : k \in 1 .. Len(s) - 1}
    BY <1>2, <2>1
  <2>3. \A k \in 1 .. Len(s) : k = 1 \/ (k - 1 \in 1 .. Len(s) - 1 /\ s[k] = z[k - 1])
    BY <2>1
  <2>4. \A k \in 1 .. Len(s) - 1 : k + 1 \in 1 .. Len(s)
    BY <2>1
  <2>5. 1 \in 1 .. Len(s)
    BY <2>1
  <2>6. Range(s) \subseteq {s[1]} \cup Range(z)
    BY <1>2, <2>2, <2>3
  <2>7. {s[1]} \cup Range(z) \subseteq Range(s)
    BY <1>2, <2>1, <2>2, <2>4, <2>5
  <2> QED BY <2>1, <2>6, <2>7 DEF z
<1>5. ASSUME NEW s \in Seq(Updates), NEW k \in 1 .. Len(s) PROVE s[k] \in Range(s)
  BY <1>2
<1> QED BY <1>1, <1>3, <1>4, <1>5

LEMMA IncreasingAppend ==
    ASSUME NEW s \in Seq(Updates), NEW u \in Updates, Increasing(s), \A k \in 1 .. Len(s) : s[k] < u
    PROVE  Increasing(Append(s, u))
<1> DEFINE z == Append(s, u)
<1>1. /\ Len(z) = Len(s) + 1 /\ Len(s) \in Nat /\ z[Len(s) + 1] = u
      /\ \A k \in 1 .. Len(s) : z[k] = s[k]
  OBVIOUS
<1> HIDE DEF z
<1>2. Increasing(z)
  <2> SUFFICES ASSUME NEW j \in 1 .. Len(z), NEW k \in 1 .. Len(z), j < k PROVE z[j] < z[k]
    BY DEF Increasing
  <2>1. j \in 1 .. Len(s)
    BY <1>1
  <2>2. CASE k = Len(s) + 1
    BY <1>1, <2>1, <2>2
  <2>3. CASE k \in 1 .. Len(s)
    <3>1. s[j] < s[k]
      BY <2>1, <2>3 DEF Increasing
    <3> QED BY <1>1, <2>1, <2>3, <3>1
  <2> QED BY <1>1, <2>2, <2>3
<1> QED BY <1>2 DEF z

LEMMA IncreasingTail ==
    ASSUME NEW s \in Seq(Updates), s # <<>>, Increasing(s)
    PROVE  Increasing(Tail(s)) /\ \A k \in 1 .. Len(Tail(s)) : Head(s) < Tail(s)[k]
<1> DEFINE z == Tail(s)
<1>1. /\ Len(z) = Len(s) - 1 /\ Len(s) \in Nat \ {0} /\ Head(s) = s[1]
      /\ \A k \in 1 .. Len(s) - 1 : z[k] = s[k + 1]
  OBVIOUS
<1> HIDE DEF z
<1>2. ASSUME NEW j \in 1 .. Len(z), NEW k \in 1 .. Len(z), j < k PROVE z[j] < z[k]
  <2>1. j + 1 \in 1 .. Len(s) /\ k + 1 \in 1 .. Len(s) /\ j + 1 < k + 1
    BY <1>1, <1>2
  <2> QED BY <1>1, <2>1 DEF Increasing
<1>3. ASSUME NEW k \in 1 .. Len(z) PROVE Head(s) < z[k]
  <2>1. k + 1 \in 1 .. Len(s) /\ 1 \in 1 .. Len(s) /\ 1 < k + 1
    BY <1>1
  <2> QED BY <1>1, <2>1 DEF Increasing
<1>4. Increasing(z) /\ \A k \in 1 .. Len(z) : Head(s) < z[k]
  BY <1>2, <1>3 DEF Increasing
<1> QED BY <1>4 DEF z

LEMMA OldestIsPlace ==
    ASSUME NEW len \in Nat, NEW cap \in Nat
    PROVE  Oldest(len, cap) \in Nat \ {0} /\ Oldest(len, cap) <= len + 1
  BY DEF Oldest

(* What is due keeps when more is sent.                                    *)
LEMMA FollowsOn ==
    ASSUME NEW w \in Attachment, NEW s \in Seq(Updates), NEW u \in Updates, Follows(w, s)
    PROVE  Follows(w, Append(s, u))
<1> DEFINE z == Append(s, u)
           B == Oldest(w.since, ReplayCap)
<1>1. Len(z) = Len(s) + 1 /\ Len(s) \in Nat /\ \A k \in 1 .. Len(s) : z[k] = s[k]
  OBVIOUS
<1>2. w.since \in Nat /\ w.next \in Nat /\ w.next <= Len(s) + 1
  BY DEF Follows, Attachment
<1>3. B \in Nat \ {0}
  BY <1>2, OldestIsPlace, CapacitiesAssumption
<1>4. Due(w, z) = {z[k] : k \in B .. w.next - 1} /\ Due(w, s) = {s[k] : k \in B .. w.next - 1}
  BY DEF Due
<1> HIDE DEF z, B
<1>5. \A k \in B .. w.next - 1 : k \in 1 .. Len(s)
  BY <1>1, <1>2, <1>3
<1>6. \A k \in B .. w.next - 1 : z[k] = s[k]
  BY <1>1, <1>5
<1>7. Due(w, z) = Due(w, s)
  BY <1>4, <1>6
<1>8. w.next <= Len(z) + 1
  BY <1>1, <1>2
<1>9. Follows(w, z)
  BY <1>7, <1>8 DEF Follows
<1> QED BY <1>9 DEF z

(* subscribe_with_replay.                                                  *)
LEMMA FollowsJoined ==
    ASSUME NEW s \in Seq(Updates), NEW buf \in Seq(Updates), IsSuffix(buf, s), Increasing(s),
           NEW w \in Attachment, w.since = Len(s), w.next = Len(s) + 1, w.snap = buf,
           w.got = <<>>, w.missed = {}, w.pc = "live" <=> buf = <<>>
    PROVE  Follows(w, s)
<1> DEFINE d == Len(s) - Len(buf)
           B == Oldest(Len(s), ReplayCap)
<1>1. Len(s) \in Nat /\ Len(buf) \in Nat /\ ReplayCap \in Nat
  BY CapacitiesAssumption
<1>2. Len(buf) = Kept(Len(s)) /\ \A k \in 1 .. Len(buf) : buf[k] = s[d + k]
  BY DEF IsSuffix
<1>3. d \in Nat /\ B = d + 1
  <2>1. Len(buf) = Kept(Len(s))
    BY <1>2
  <2>2. CASE Len(s) < ReplayCap
    BY <1>1, <2>1, <2>2 DEF Kept, Oldest
  <2>3. CASE Len(s) >= ReplayCap
    <3>1. Len(buf) = ReplayCap
      BY <1>1, <2>1, <2>3 DEF Kept
    <3> QED BY <1>1, <2>3, <3>1 DEF Oldest
  <2> QED BY <1>1, <2>2, <2>3
<1>4. Range(buf) = {buf[k] : k \in 1 .. Len(buf)}
  BY DEF Range
<1>5. Due(w, s) = {s[k] : k \in d + 1 .. Len(s)}
  BY <1>1, <1>3 DEF Due
<1>6. d + Len(buf) = Len(s)
  BY <1>1
<1> HIDE DEF d, B
<1>7. \A k \in d + 1 .. Len(s) : k - d \in 1 .. Len(buf) /\ d + (k - d) = k
  BY <1>1, <1>3, <1>6
<1>8. \A k \in 1 .. Len(buf) : d + k \in d + 1 .. Len(s) /\ d + k \in 1 .. Len(s)
  BY <1>1, <1>3, <1>6
<1>9. Due(w, s) \subseteq Range(buf)
  BY <1>2, <1>4, <1>5, <1>7
<1>10. Range(buf) \subseteq Due(w, s)
  BY <1>2, <1>4, <1>5, <1>8
<1>11. Increasing(buf)
  <2> SUFFICES ASSUME NEW j \in 1 .. Len(buf), NEW k \in 1 .. Len(buf), j < k PROVE buf[j] < buf[k]
    BY DEF Increasing
  <2>1. d + j < d + k
    BY <1>1, <1>3
  <2> QED BY <1>2, <1>8, <2>1 DEF Increasing
<1>12. Increasing(w.got) /\ Len(w.got) = 0 /\ Range(w.got) = {}
  BY Ranges DEF Increasing
<1> QED BY <1>1, <1>9, <1>10, <1>11, <1>12 DEF Follows

(* One update of the snapshot is sent to the client.                       *)
LEMMA FollowsReplayed ==
    ASSUME NEW s \in Seq(Updates), NEW w \in Attachment, NEW x \in Attachment, Follows(w, s),
           w.pc = "replay", x.pc = IF Len(w.snap) = 1 THEN "live" ELSE "replay",
           x.snap = Tail(w.snap), x.got = Append(w.got, Head(w.snap)),
           x.since = w.since, x.next = w.next, x.missed = w.missed
    PROVE  Follows(x, s)
<1> DEFINE h == Head(w.snap)
<1>1. w.snap \in Seq(Updates) /\ w.got \in Seq(Updates) /\ w.snap # <<>>
  BY DEF Follows, Attachment
<1>2. h \in Updates /\ Len(w.snap) \in Nat \ {0} /\ h = w.snap[1] /\ Len(w.got) \in Nat
  BY <1>1
<1>3. x.pc = "live" <=> x.snap = <<>>
  <2>1. Len(x.snap) = Len(w.snap) - 1 /\ x.snap \in Seq(Updates)
    BY <1>1
  <2>2. x.snap = <<>> <=> Len(x.snap) = 0
    BY <2>1, EmptySeq
  <2>3. x.pc = "live" <=> Len(w.snap) = 1
    OBVIOUS
  <2> QED BY <1>2, <2>1, <2>2, <2>3
<1>4. Range(x.got) \cup Range(x.snap) \cup x.missed = Due(x, s)
  <2>1. Range(x.got) = Range(w.got) \cup {h}
    BY <1>1, <1>2, Ranges
  <2>2. Range(w.snap) = {h} \cup Range(x.snap)
    BY <1>1, Ranges
  <2>3. Due(x, s) = Due(w, s)
    BY DEF Due
  <2> QED BY <2>1, <2>2, <2>3 DEF Follows
<1>5. Increasing(x.got)
  <2>1. \A k \in 1 .. Len(w.got) : w.got[k] < h
    BY <1>2 DEF Follows
  <2> QED BY <1>1, <1>2, <2>1, IncreasingAppend DEF Follows
<1>6. Increasing(x.snap) /\ \A k \in 1 .. Len(x.snap) : h < x.snap[k]
  BY <1>1, IncreasingTail DEF Follows
<1>7. ASSUME NEW j \in 1 .. Len(x.got), NEW k \in 1 .. Len(x.snap) PROVE x.got[j] < x.snap[k]
  <2>1. Len(x.got) = Len(w.got) + 1 /\ x.got[Len(w.got) + 1] = h
    BY <1>1, <1>2
  <2>2. CASE j = Len(w.got) + 1
    BY <1>6, <2>1, <2>2
  <2>3. CASE j \in 1 .. Len(w.got)
    <3>1. x.got[j] = w.got[j]
      BY <1>1, <1>2, <2>3
    <3>2. k + 1 \in 1 .. Len(w.snap) /\ x.snap[k] = w.snap[k + 1]
      BY <1>1
    <3> QED BY <2>3, <3>1, <3>2 DEF Follows
  <2> QED BY <1>2, <2>1, <2>2, <2>3
<1>8. x.since < x.next /\ x.next <= Len(s) + 1
  BY DEF Follows
<1> QED BY <1>3, <1>4, <1>5, <1>6, <1>7, <1>8 DEF Follows

(* The viewer's pump is told that it lagged.                               *)
LEMMA FollowsLagged ==
    ASSUME NEW s \in Seq(Updates), NEW w \in Attachment, NEW x \in Attachment, Follows(w, s),
           NEW to \in Nat, w.next < to, to <= Len(s) + 1, x.next = to,
           x.missed = w.missed \cup {s[k] : k \in w.next .. to - 1},
           x.pc = w.pc, x.snap = w.snap, x.got = w.got, x.since = w.since
    PROVE  Follows(x, s)
<1> DEFINE B == Oldest(w.since, ReplayCap)
<1>1. w.since \in Nat /\ w.next \in Nat /\ w.since < w.next
  BY DEF Follows, Attachment
<1>2. B \in Nat \ {0} /\ B <= w.since + 1
  BY <1>1, OldestIsPlace, CapacitiesAssumption
<1>3. Due(w, s) = {s[k] : k \in B .. w.next - 1} /\ Due(x, s) = {s[k] : k \in B .. to - 1}
  BY DEF Due
<1> HIDE DEF B
<1>4. (B .. to - 1) = (B .. w.next - 1) \cup (w.next .. to - 1)
  BY <1>1, <1>2
<1>5. Due(x, s) = Due(w, s) \cup {s[k] : k \in w.next .. to - 1}
  BY <1>3, <1>4
<1>6. x.since < x.next
  BY <1>1
<1> QED BY <1>5, <1>6 DEF Follows

(* One live update is sent to the client.                                  *)
LEMMA FollowsLive ==
    ASSUME NEW s \in Seq(Updates), NEW w \in Attachment, NEW x \in Attachment, Follows(w, s),
           Increasing(s), w.pc = "live", w.next <= Len(s), x.next = w.next + 1,
           x.got = Append(w.got, s[w.next]), x.pc = w.pc, x.snap = w.snap, x.since = w.since,
           x.missed = w.missed
    PROVE  Follows(x, s)
<1> DEFINE B == Oldest(w.since, ReplayCap)
           n == w.next
<1>1. /\ w.since \in Nat /\ n \in Nat \ {0} /\ w.since < n /\ n \in 1 .. Len(s)
      /\ w.got \in Seq(Updates) /\ w.snap = <<>> /\ s[n] \in Updates
  BY DEF Follows, Attachment
<1>2. B \in Nat \ {0} /\ B <= w.since + 1
  BY <1>1, OldestIsPlace, CapacitiesAssumption
<1>3. Due(w, s) = {s[k] : k \in B .. n - 1} /\ Due(x, s) = {s[k] : k \in B .. n}
  <2>1. (n + 1) - 1 = n
    BY <1>1
  <2> QED BY <2>1 DEF Due
<1> HIDE DEF B
<1>4. (B .. n) = (B .. n - 1) \cup {n}
  BY <1>1, <1>2
<1>5. Due(x, s) = Due(w, s) \cup {s[n]}
  BY <1>3, <1>4
<1>6. Range(x.got) = Range(w.got) \cup {s[n]}
  BY <1>1, Ranges
<1>7. ASSUME NEW k \in 1 .. Len(w.got) PROVE w.got[k] < s[n]
  <2>1. w.got[k] \in Range(w.got)
    BY <1>1, Ranges
  <2>2. w.got[k] \in Due(w, s)
    BY <2>1 DEF Follows
  <2>3. PICK m \in B .. n - 1 : w.got[k] = s[m]
    BY <1>3, <2>2
  <2>4. m \in 1 .. Len(s) /\ m < n
    BY <1>1, <1>2
  <2> QED BY <1>1, <2>3, <2>4 DEF Increasing
<1>8. Increasing(x.got)
  BY <1>1, <1>7, IncreasingAppend DEF Follows
<1>9. x.since < x.next /\ x.next <= Len(s) + 1
  BY <1>1
<1>10. Increasing(x.snap) /\ Len(x.snap) = 0 /\ Range(x.snap) = {}
  BY <1>1, Ranges DEF Increasing
<1>11. Range(x.got) \cup Range(x.snap) \cup x.missed = Due(x, s)
  BY <1>5, <1>6 DEF Follows
<1>12. x.pc = "live" <=> x.snap = <<>>
  BY <1>1
<1> QED BY <1>8, <1>9, <1>10, <1>11, <1>12 DEF Follows

-----------------------------------------------------------------------------
(* The types.                                                              *)

LEMMA Places ==
    ASSUME TypeOK, NEW i \in Sessions
    PROVE  /\ pump[i].at \in Nat \ {0} /\ pump[i].skipped \subseteq Updates
           /\ pump[i].pc \in {"off", "select", "prompt", "compact"} /\ pump[i].compacted \in BOOLEAN
           /\ feed[i] \in Seq(BOOLEAN) /\ Len(feed[i]) \in Nat
           /\ Oldest(Len(feed[i]), NotifyCap) \in Nat \ {0}
           /\ turns[i] \in Nat /\ signals[i] \in Seq(Signals) /\ Len(signals[i]) <= SignalCap
           /\ sent[i] \in Seq(Updates) /\ ring[i] \in Seq(Updates) /\ Len(ring[i]) <= ReplayCap
<1>1. pump[i] \in PumpStates /\ feed[i] \in Seq(BOOLEAN)
  BY DEF TypeOK
<1>2. /\ pump[i].at \in Nat \ {0} /\ pump[i].skipped \subseteq Updates
      /\ pump[i].pc \in {"off", "select", "prompt", "compact"} /\ pump[i].compacted \in BOOLEAN
  BY <1>1 DEF PumpStates
<1>3. Len(feed[i]) \in Nat
  BY <1>1
<1>4. Oldest(Len(feed[i]), NotifyCap) \in Nat \ {0}
  BY <1>3, OldestIsPlace, CapacitiesAssumption
<1>5. turns[i] \in Nat /\ signals[i] \in Seq(Signals) /\ Len(signals[i]) <= SignalCap
  BY DEF TypeOK
<1>6. sent[i] \in Seq(Updates) /\ ring[i] \in Seq(Updates) /\ Len(ring[i]) <= ReplayCap
  BY DEF TypeOK
<1> QED BY <1>1, <1>2, <1>3, <1>4, <1>5, <1>6

(* A pump that is moved is a pump.                                         *)
LEMMA PumpMoves ==
    ASSUME TypeOK, NEW i \in Sessions, NEW q \in PumpStates, pump' = [pump EXCEPT ![i] = q]
    PROVE  pump' \in [Sessions -> PumpStates]
  BY DEF TypeOK

(* Updates the pump skips are updates.                                     *)
LEMMA Skipping ==
    ASSUME NEW a \in Nat \ {0}, NEW b \in Nat PROVE (a .. b) \subseteq Updates
  BY DEF Updates

(* The supervisor's own steps keep the types.                              *)
LEMMA SuperviseTypes ==
    ASSUME TypeOK, Supervise \/ Abort \/ SpawnAgain
    PROVE  TypeOK'
<1> USE CapacitiesAssumption, AttachBounds
<1>0. sup.on \in Nat /\ sup.on <= MaxSessions
  BY DEF TypeOK
<1>1. CASE OpenAndRegister
  <2>1. sup.on + 1 \in Sessions /\ sup.on + 1 \in 0 .. MaxSessions
    BY <1>0, <1>1 DEF OpenAndRegister, Sessions
  <2>2. /\ sup' = [pc |-> "registered", on |-> sup.on + 1] /\ endpoint' = sup.on + 1
        /\ child' = [child EXCEPT ![sup.on + 1] = "alive"]
        /\ UNCHANGED <<turns, feed, sent, ring, pump, signals, viewer, accepted>>
    BY <1>1 DEF OpenAndRegister, channels
  <2> QED BY <2>1, <2>2 DEF TypeOK
<1>2. CASE OpenFails \/ BackoffEnds \/ SpawnAgain
  BY <1>2 DEF TypeOK, OpenFails, BackoffEnds, SpawnAgain, channels, process
<1>3. CASE SubscribeUpdates
  <2>1. feed \in [Sessions -> Seq(BOOLEAN)]
    BY DEF TypeOK
  <2>2. \A i \in Sessions : Len(feed[i]) + 1 \in Nat \ {0}
    BY Places
  <2>3. pump' \in [Sessions -> PumpStates]
    <3> DEFINE q == [pump[sup.on] EXCEPT !.pc = "select", !.at = Len(feed[sup.on]) + 1]
    <3>1. CASE sup.on \in Sessions
      <4>1. pump[sup.on] \in PumpStates
        BY <3>1 DEF TypeOK
      <4>2. q \in PumpStates
        BY <2>2, <3>1, <4>1 DEF PumpStates
      <4>3. pump' = [pump EXCEPT ![sup.on] = q]
        BY <1>3, <3>1 DEF TypeOK, SubscribeUpdates
      <4> QED BY <3>1, <4>2, <4>3, PumpMoves
    <3>2. CASE sup.on \notin Sessions
      BY <1>3, <3>2 DEF TypeOK, SubscribeUpdates
    <3> QED BY <3>1, <3>2
  <2> QED BY <1>3, <2>3 DEF TypeOK, SubscribeUpdates, channels, process
<1>4. CASE Abort
  <2>1. pump' \in [Sessions -> PumpStates]
    <3>1. \A i \in Sessions : [pump[i] EXCEPT !.pc = "off"] \in PumpStates
      <4>1. \A q \in PumpStates : [q EXCEPT !.pc = "off"] \in PumpStates
        BY DEF PumpStates
      <4> QED BY <4>1 DEF TypeOK
    <3> QED BY <1>4, <3>1 DEF Abort
  <2>2. /\ signals' \in [Sessions -> Seq(Signals)]
        /\ \A i \in Sessions : Len(signals'[i]) <= SignalCap
    <3>1. <<>> \in Seq(Signals) /\ Len(<<>>) <= SignalCap
      BY EmptySeq
    <3> QED BY <1>4, <3>1 DEF Abort
  <2>3. sup' \in [pc : {"opening", "registered", "pumping", "backoff", "aborted"},
                 on : 0 .. MaxSessions]
    BY <1>4 DEF Abort, TypeOK
  <2> QED BY <1>4, <2>1, <2>2, <2>3 DEF TypeOK, Abort, channels, process
<1> QED BY <1>1, <1>2, <1>3, <1>4 DEF Supervise

LEMMA ChildTypes ==
    ASSUME TypeOK, NEW i \in Sessions, Emit(i) \/ Answer(i) \/ ChildDies(i)
    PROVE  TypeOK'
<1>1. CASE Emit(i)
  <2>1. PICK alarm \in BOOLEAN : feed' = [feed EXCEPT ![i] = Append(@, alarm)]
    BY <1>1 DEF Emit
  <2>2. feed' \in [Sessions -> Seq(BOOLEAN)]
    BY <2>1 DEF TypeOK
  <2> QED BY <1>1, <2>2 DEF TypeOK, Emit, process
<1>2. CASE Answer(i)
  <2>1. turns[i] \in Nat /\ turns[i] > 0
    BY <1>2 DEF Answer, TypeOK
  <2>2. turns' \in [Sessions -> Nat]
    BY <1>2, <2>1 DEF Answer, TypeOK
  <2> QED BY <1>2, <2>2 DEF TypeOK, Answer, channels
<1>3. CASE ChildDies(i)
  BY <1>3 DEF TypeOK, ChildDies, Drained, channels
<1> QED BY <1>1, <1>2, <1>3

(* ReplayBroadcast::send.                                                  *)
LEMMA SendTypes ==
    ASSUME IInv, NEW i \in Sessions, NEW u \in Updates, Send(i, u)
    PROVE  /\ sent' \in [Sessions -> Seq(Updates)] /\ ring' \in [Sessions -> Seq(Updates)]
           /\ \A j \in Sessions : Len(ring'[j]) <= ReplayCap
           /\ sent'[i] = Append(sent[i], u) /\ IsSuffix(ring'[i], sent'[i])
           /\ \A j \in Sessions : j # i => sent'[j] = sent[j] /\ ring'[j] = ring[j]
<1>0. TypeOK /\ IsSuffix(ring[i], sent[i])
  BY DEF IInv, StreamsKept
<1>1. sent[i] \in Seq(Updates) /\ ring[i] \in Seq(Updates)
  BY <1>0, Places
<1> DEFINE r == RingOf(ring[i], u)
           z == Append(sent[i], u)
<1>2. r \in Seq(Updates) /\ IsSuffix(r, z) /\ z \in Seq(Updates) /\ Len(z) \in Nat
  BY <1>0, <1>1, RingKeeps
<1>3. ring' = [ring EXCEPT ![i] = r] /\ sent' = [sent EXCEPT ![i] = z]
  BY DEF Send, RingAfter, RingOf
<1> HIDE DEF r, z
<1>4. Len(r) <= ReplayCap
  BY <1>2, CapacitiesAssumption DEF IsSuffix, Kept
<1>5. /\ sent'[i] = z /\ ring'[i] = r
      /\ \A j \in Sessions : j # i => sent'[j] = sent[j] /\ ring'[j] = ring[j]
  BY <1>0, <1>3 DEF TypeOK
<1>6. sent' \in [Sessions -> Seq(Updates)] /\ ring' \in [Sessions -> Seq(Updates)]
  BY <1>0, <1>2, <1>3 DEF TypeOK
<1>7. \A j \in Sessions : Len(ring'[j]) <= ReplayCap
  BY <1>0, <1>4, <1>5 DEF TypeOK
<1> QED BY <1>2, <1>5, <1>6, <1>7 DEF z

(* What the pump of a session does to its place in the channel.            *)
LEMMA PumpPlaces ==
    ASSUME TypeOK, NEW i \in Sessions
    PROVE  /\ \A c \in {"off", "select", "prompt", "compact"} :
                [pump[i] EXCEPT !.pc = c] \in PumpStates
           /\ [pump[i] EXCEPT !.pc = "compact", !.compacted = TRUE] \in PumpStates
           /\ [pump[i] EXCEPT !.at = @ + 1] \in PumpStates
           /\ [pump[i] EXCEPT !.pc = "select", !.at = @ + 1] \in PumpStates
           /\ \A to \in Nat \ {0} :
                [pump[i] EXCEPT !.at = to, !.skipped = @ \cup (pump[i].at .. to - 1)] \in PumpStates
<1>0. pump[i] \in PumpStates /\ pump[i].at \in Nat \ {0} /\ pump[i].skipped \subseteq Updates
  BY Places DEF TypeOK
<1>1. \A c \in {"off", "select", "prompt", "compact"} : [pump[i] EXCEPT !.pc = c] \in PumpStates
  BY <1>0 DEF PumpStates
<1>2. [pump[i] EXCEPT !.pc = "compact", !.compacted = TRUE] \in PumpStates
  BY <1>0 DEF PumpStates
<1>3. /\ [pump[i] EXCEPT !.at = @ + 1] \in PumpStates
      /\ [pump[i] EXCEPT !.pc = "select", !.at = @ + 1] \in PumpStates
  <2>1. pump[i].at + 1 \in Nat \ {0}
    BY <1>0
  <2> QED BY <1>0, <2>1 DEF PumpStates
<1>4. ASSUME NEW to \in Nat \ {0}
      PROVE  [pump[i] EXCEPT !.at = to, !.skipped = @ \cup (pump[i].at .. to - 1)] \in PumpStates
  <2>1. pump[i].skipped \cup (pump[i].at .. to - 1) \in SUBSET Updates
    BY <1>0 DEF Updates
  <2> QED BY <1>0, <2>1 DEF PumpStates
<1> QED BY <1>1, <1>2, <1>3, <1>4

-----------------------------------------------------------------------------
(* What a step of the pump does.                                           *)

PumpEffect(i, q) ==
    /\ pump' = [pump EXCEPT ![i] = q] /\ pump[i].pc # "off"
    /\ \/ sent' = sent /\ ring' = ring /\ q.at = pump[i].at /\ q.skipped = pump[i].skipped
       \/ Send(i, pump[i].at) /\ q.at = pump[i].at + 1 /\ q.skipped = pump[i].skipped
       \/ /\ sent' = sent /\ ring' = ring /\ q.at > pump[i].at
          /\ q.skipped = pump[i].skipped \cup (pump[i].at .. q.at - 1)
    /\ \E n \in 0 .. 1 : turns' = [turns EXCEPT ![i] = n] /\ (q.pc = "select" => n = 0)
    /\ \/ sup' = sup
       \/ sup' = [sup EXCEPT !.pc = "backoff"] /\ q.pc = "off"
    /\ UNCHANGED <<feed, viewer, accepted>>

LEMMA Asking ==
    ASSUME IInv, NEW i \in Sessions, pump[i].pc = "select", Submit(i)
    PROVE  \E n \in 0 .. 1 : turns' = [turns EXCEPT ![i] = n]
<1>1. turns[i] = 0
  BY DEF IInv, TurnsTaken
<1>2. (IF Alive(i) THEN turns[i] + 1 ELSE turns[i]) \in 0 .. 1
  BY <1>1
<1> QED BY <1>2 DEF Submit

LEMMA Unasked ==
    ASSUME TypeOK, NEW i \in Sessions, turns' = turns
    PROVE  turns' = [turns EXCEPT ![i] = turns[i]]
  BY DEF TypeOK

LEMMA PumpEffects ==
    ASSUME IInv, NEW i \in Sessions, Pump(i)
    PROVE  \E q \in PumpStates : PumpEffect(i, q)
<1> DEFINE p == pump[i]
<1>0. TypeOK /\ p.at \in Nat \ {0} /\ (p.pc = "select" => turns[i] = 0) /\ turns[i] \in 0 .. 1
  BY Places DEF IInv, TurnsTaken
<1>1. CASE PumpRecv(i) /\ Waiting(i) /\ PumpLagged(i)
  <2> DEFINE to == Oldest(Len(feed[i]), NotifyCap)
             q == [p EXCEPT !.at = to, !.skipped = @ \cup (p.at .. to - 1)]
  <2>1. to \in Nat \ {0} /\ q \in PumpStates
    BY <1>0, Places, PumpPlaces
  <2>2. p.at < to
    BY <1>1 DEF PumpLagged, Lags
  <2>3. q.at = to /\ q.skipped = p.skipped \cup (p.at .. to - 1) /\ q.pc = p.pc
    BY <1>0 DEF TypeOK, PumpStates
  <2>4. pump' = [pump EXCEPT ![i] = q]
    BY <1>0, <1>1 DEF TypeOK, PumpLagged
  <2>5. p.pc = "select" /\ turns' = [turns EXCEPT ![i] = turns[i]]
    BY <1>0, <1>1, Unasked DEF PumpRecv, PumpLagged
  <2>6. sent' = sent /\ ring' = ring /\ sup' = sup /\ UNCHANGED <<feed, viewer, accepted>>
    BY <1>1 DEF PumpRecv, PumpLagged
  <2> HIDE DEF q, to
  <2>7. PumpEffect(i, q)
    BY <1>0, <2>1, <2>2, <2>3, <2>4, <2>5, <2>6 DEF PumpEffect
  <2> QED BY <2>1, <2>7
<1>2. CASE PumpRecv(i) /\ Waiting(i) /\ PumpCompact(i)
  <2> DEFINE q == [p EXCEPT !.pc = "compact", !.compacted = TRUE]
  <2>1. q \in PumpStates
    BY <1>0, PumpPlaces
  <2>2. q.at = p.at /\ q.skipped = p.skipped /\ q.pc = "compact"
    BY <1>0 DEF TypeOK, PumpStates
  <2>3. pump' = [pump EXCEPT ![i] = q]
    BY <1>0, <1>2 DEF TypeOK, PumpCompact
  <2>4. p.pc = "select" /\ \E n \in 0 .. 1 : turns' = [turns EXCEPT ![i] = n]
    BY <1>2, Asking DEF PumpRecv, PumpCompact
  <2>5. sent' = sent /\ ring' = ring /\ sup' = sup /\ UNCHANGED <<feed, viewer, accepted>>
    BY <1>2 DEF PumpRecv, PumpCompact
  <2> HIDE DEF q
  <2>6. PumpEffect(i, q)
    BY <2>2, <2>3, <2>4, <2>5 DEF PumpEffect
  <2> QED BY <2>1, <2>6
<1>3. CASE PumpRecv(i) /\ Waiting(i) /\ PumpForward(i)
  <2> DEFINE q == [p EXCEPT !.at = @ + 1]
  <2>1. q \in PumpStates
    BY <1>0, PumpPlaces
  <2>2. q.at = p.at + 1 /\ q.skipped = p.skipped /\ q.pc = p.pc
    BY <1>0 DEF TypeOK, PumpStates
  <2>3. pump' = [pump EXCEPT ![i] = q]
    BY <1>0, <1>3 DEF TypeOK, PumpForward
  <2>4. p.pc = "select" /\ turns' = [turns EXCEPT ![i] = turns[i]]
    BY <1>0, <1>3, Unasked DEF PumpRecv, PumpForward
  <2>5. Send(i, p.at) /\ sup' = sup /\ UNCHANGED <<feed, viewer, accepted>>
    BY <1>3 DEF PumpRecv, PumpForward
  <2> HIDE DEF q
  <2>6. PumpEffect(i, q)
    BY <1>0, <2>2, <2>3, <2>4, <2>5 DEF PumpEffect
  <2> QED BY <2>1, <2>6
<1>4. CASE PumpRecv(i) /\ ~Waiting(i)
  <2> DEFINE q == [p EXCEPT !.pc = "off"]
  <2>1. q \in PumpStates
    BY <1>0, PumpPlaces
  <2>2. q.at = p.at /\ q.skipped = p.skipped /\ q.pc = "off"
    BY <1>0 DEF TypeOK, PumpStates
  <2>3. p.pc = "select" /\ EndSession(i) /\ UNCHANGED <<feed, viewer, accepted>>
    BY <1>4 DEF PumpRecv
  <2>4. pump' = [pump EXCEPT ![i] = q]
    BY <1>0, <2>3 DEF TypeOK, EndSession
  <2>5. turns' = [turns EXCEPT ![i] = 0] /\ sent' = sent /\ ring' = ring
    BY <2>3 DEF EndSession
  <2>6. sup' = [sup EXCEPT !.pc = "backoff"]
    BY <2>3 DEF EndSession
  <2> HIDE DEF q
  <2>7. PumpEffect(i, q)
    BY <2>2, <2>3, <2>4, <2>5, <2>6 DEF PumpEffect
  <2> QED BY <2>1, <2>7
<1>5. CASE PumpSignal(i) /\ Head(signals[i]) = "prompt"
  <2> DEFINE q == [p EXCEPT !.pc = "prompt"]
  <2>1. q \in PumpStates
    BY <1>0, PumpPlaces
  <2>2. q.at = p.at /\ q.skipped = p.skipped /\ q.pc = "prompt"
    BY <1>0 DEF TypeOK, PumpStates
  <2>3. pump' = [pump EXCEPT ![i] = q]
    BY <1>0, <1>5 DEF TypeOK, PumpSignal, AfterPrompt
  <2>4. p.pc = "select" /\ \E n \in 0 .. 1 : turns' = [turns EXCEPT ![i] = n]
    BY <1>5, Asking DEF PumpSignal
  <2>5. sent' = sent /\ ring' = ring /\ sup' = sup /\ UNCHANGED <<feed, viewer, accepted>>
    BY <1>5 DEF PumpSignal, channels
  <2> HIDE DEF q
  <2>6. PumpEffect(i, q)
    BY <2>2, <2>3, <2>4, <2>5 DEF PumpEffect
  <2> QED BY <2>1, <2>6
<1>6. CASE PumpSignal(i) /\ Head(signals[i]) # "prompt"
  <2>1. p \in PumpStates /\ pump' = [pump EXCEPT ![i] = p]
    BY <1>0, <1>6 DEF TypeOK, PumpSignal
  <2>2. p.pc = "select" /\ turns' = [turns EXCEPT ![i] = turns[i]]
    BY <1>0, <1>6, Unasked DEF PumpSignal
  <2>3. sent' = sent /\ ring' = ring /\ sup' = sup /\ UNCHANGED <<feed, viewer, accepted>>
    BY <1>6 DEF PumpSignal, channels
  <2>4. PumpEffect(i, p)
    BY <1>0, <2>1, <2>2, <2>3 DEF PumpEffect
  <2> QED BY <2>1, <2>4
<1>7. CASE PromptEnds(i)
  <2> DEFINE q == [p EXCEPT !.pc = "select"]
  <2>1. q \in PumpStates
    BY <1>0, PumpPlaces
  <2>2. q.at = p.at /\ q.skipped = p.skipped /\ q.pc = "select"
    BY <1>0 DEF TypeOK, PumpStates
  <2>3. pump' = [pump EXCEPT ![i] = q]
    BY <1>0, <1>7 DEF TypeOK, PromptEnds
  <2>4. p.pc = "prompt" /\ turns[i] = 0 /\ turns' = [turns EXCEPT ![i] = turns[i]]
    BY <1>0, <1>7, Unasked DEF PromptEnds, process
  <2>5. sent' = sent /\ ring' = ring /\ sup' = sup /\ UNCHANGED <<feed, viewer, accepted>>
    BY <1>7 DEF PromptEnds, channels
  <2> HIDE DEF q
  <2>6. PumpEffect(i, q)
    BY <2>2, <2>3, <2>4, <2>5 DEF PumpEffect
  <2> QED BY <2>1, <2>6
<1>8. CASE CompactEnds(i)
  <2> DEFINE q == [p EXCEPT !.pc = "select", !.at = @ + 1]
  <2>1. q \in PumpStates
    BY <1>0, PumpPlaces
  <2>2. q.at = p.at + 1 /\ q.skipped = p.skipped /\ q.pc = "select"
    BY <1>0 DEF TypeOK, PumpStates
  <2>3. pump' = [pump EXCEPT ![i] = q]
    BY <1>0, <1>8 DEF TypeOK, CompactEnds
  <2>4. p.pc = "compact" /\ turns[i] = 0 /\ turns' = [turns EXCEPT ![i] = turns[i]]
    BY <1>0, <1>8, Unasked DEF CompactEnds, process
  <2>5. Send(i, p.at) /\ sup' = sup /\ UNCHANGED <<feed, viewer, accepted>>
    BY <1>8 DEF CompactEnds, ForwardsTrigger
  <2> HIDE DEF q
  <2>6. PumpEffect(i, q)
    BY <2>2, <2>3, <2>4, <2>5 DEF PumpEffect
  <2> QED BY <2>1, <2>6
<1>9. PumpRecv(i) /\ Waiting(i) => PumpLagged(i) \/ PumpCompact(i) \/ PumpForward(i)
  BY DEF PumpRecv
<1> QED BY <1>1, <1>2, <1>3, <1>4, <1>5, <1>6, <1>7, <1>8, <1>9 DEF Pump

LEMMA PumpTypes ==
    ASSUME IInv, NEW i \in Sessions, Pump(i)
    PROVE  TypeOK'
<1> USE CapacitiesAssumption, AttachBounds
<1>0. TypeOK
  BY DEF IInv
<1>1. PICK q \in PumpStates : PumpEffect(i, q)
  BY PumpEffects
<1>2. pump' \in [Sessions -> PumpStates]
  BY <1>0, <1>1, PumpMoves DEF PumpEffect
<1>3. /\ sent' \in [Sessions -> Seq(Updates)] /\ ring' \in [Sessions -> Seq(Updates)]
      /\ \A j \in Sessions : Len(ring'[j]) <= ReplayCap
  <2>1. CASE sent' = sent /\ ring' = ring
    BY <1>0, <2>1 DEF TypeOK
  <2>2. CASE Send(i, pump[i].at)
    <3>1. pump[i].at \in Updates
      BY <1>0, Places DEF Updates
    <3> QED BY <2>2, <3>1, SendTypes
  <2> QED BY <1>1, <2>1, <2>2 DEF PumpEffect
<1>4. turns' \in [Sessions -> Nat]
  BY <1>0, <1>1 DEF TypeOK, PumpEffect
<1>5. sup' \in [pc : {"opening", "registered", "pumping", "backoff", "aborted"}, on : 0 .. MaxSessions]
  BY <1>0, <1>1 DEF TypeOK, PumpEffect
<1>6. /\ feed' \in [Sessions -> Seq(BOOLEAN)] /\ viewer' \in [Viewers -> ViewerStates]
      /\ accepted' \in 0 .. MaxSignals
  BY <1>0, <1>1 DEF TypeOK, PumpEffect
<1>7. ASSUME NEW x \in Seq(Signals), Len(x) <= SignalCap, signals' = [signals EXCEPT ![i] = x]
      PROVE  /\ signals' \in [Sessions -> Seq(Signals)]
             /\ \A j \in Sessions : Len(signals'[j]) <= SignalCap
  BY <1>0, <1>7 DEF TypeOK
<1>8. /\ signals' \in [Sessions -> Seq(Signals)] /\ \A j \in Sessions : Len(signals'[j]) <= SignalCap
      /\ endpoint' \in 0 .. MaxSessions /\ child' \in [Sessions -> {"none", "alive", "dead"}]
  <2>1. CASE signals' = signals /\ endpoint' = endpoint /\ child' = child
    BY <1>0, <2>1 DEF TypeOK
  <2>2. CASE EndSession(i)
    <3>1. <<>> \in Seq(Signals) /\ Len(<<>>) <= SignalCap
      BY EmptySeq
    <3>2. endpoint' \in 0 .. MaxSessions /\ child' \in [Sessions -> {"none", "alive", "dead"}]
      BY <1>0, <2>2 DEF TypeOK, EndSession
    <3> QED BY <1>7, <2>2, <3>1, <3>2 DEF EndSession
  <2>3. CASE PumpSignal(i)
    <3>1. signals[i] \in Seq(Signals) /\ Len(signals[i]) <= SignalCap /\ signals[i] # <<>>
      BY <1>0, <2>3, Places DEF PumpSignal
    <3>2. Tail(signals[i]) \in Seq(Signals) /\ Len(Tail(signals[i])) <= SignalCap
      BY <3>1
    <3>3. signals' = [signals EXCEPT ![i] = Tail(signals[i])]
      BY <2>3 DEF PumpSignal
    <3>4. endpoint' \in 0 .. MaxSessions /\ child' \in [Sessions -> {"none", "alive", "dead"}]
      BY <1>0, <2>3 DEF TypeOK, PumpSignal
    <3> QED BY <1>7, <3>2, <3>3, <3>4
  <2> QED BY <2>1, <2>2, <2>3 DEF Pump, PumpRecv, PromptEnds, CompactEnds, process
<1> QED BY <1>2, <1>3, <1>4, <1>5, <1>6, <1>8 DEF TypeOK

-----------------------------------------------------------------------------
(* What a viewer's step does.                                              *)

EnqueueEffect ==
    /\ signals' \in [Sessions -> Seq(Signals)] /\ \A j \in Sessions : Len(signals'[j]) <= SignalCap
    /\ accepted' \in 0 .. MaxSignals
    /\ UNCHANGED <<sup, endpoint, process, channels, pump, viewer>>

LEMMA Enqueues ==
    ASSUME TypeOK, NEW i \in Sessions, NEW signal \in Signals, Enqueue(i, signal)
    PROVE  EnqueueEffect
<1> USE CapacitiesAssumption, AttachBounds
<1>1. signals[i] \in Seq(Signals) /\ Len(signals[i]) < SignalCap
  BY Places DEF Enqueue
<1> DEFINE z == Append(signals[i], signal)
<1>2. z \in Seq(Signals) /\ Len(z) <= SignalCap
  BY <1>1
<1>3. signals' = [signals EXCEPT ![i] = z]
  BY DEF Enqueue
<1> HIDE DEF z
<1>4. /\ signals' \in [Sessions -> Seq(Signals)]
      /\ \A j \in Sessions : Len(signals'[j]) <= SignalCap
  BY <1>2, <1>3 DEF TypeOK
<1>5. accepted' \in 0 .. MaxSignals
  BY DEF TypeOK, Enqueue
<1> QED BY <1>4, <1>5 DEF EnqueueEffect, Enqueue

ViewEffect(v, x) ==
    /\ viewer' = [viewer EXCEPT ![v] = x] /\ x \in ViewerStates
    /\ x.pc \in {"replay", "live"} => x \in Attachment /\ Follows(x, sent[x.on])
    /\ UNCHANGED <<sup, endpoint, process, channels, pump, signals, accepted>>

LEMMA Attachments == Attachment \subseteq ViewerStates
  BY DEF Attachment, ViewerStates

LEMMA ViewEffects ==
    ASSUME IInv, NEW v \in Viewers, View(v)
    PROVE  EnqueueEffect \/ \E x \in ViewerStates : ViewEffect(v, x)
<1> USE CapacitiesAssumption, AttachBounds
<1> DEFINE w == viewer[v]
           s == sent[w.on]
<1>0. TypeOK
  BY DEF IInv
<1>1. ASSUME w.pc \in {"replay", "live"}
      PROVE  /\ w \in Attachment /\ w.on \in Sessions /\ s \in Seq(Updates) /\ Follows(w, s)
             /\ Increasing(s)
  <2>1. v \in Attached
    BY <1>1 DEF Attached
  <2>2. w \in Attachment /\ w.on \in Sessions /\ s \in Seq(Updates)
    BY <1>0, <2>1, Viewing DEF Attachment
  <2> QED BY <2>1, <2>2 DEF IInv, ViewsKept, StreamsKept, InStep
<1>2. ASSUME NEW x, Becomes(v, x), x \in Attachment, Follows(x, sent[x.on])
      PROVE  \E y \in ViewerStates : ViewEffect(v, y)
  <2>1. x \in ViewerStates
    BY <1>2, Attachments
  <2>2. ViewEffect(v, x)
    BY <1>2, <2>1 DEF ViewEffect, Becomes
  <2> QED BY <2>1, <2>2
<1>3. ASSUME NEW x \in ViewerStates, Becomes(v, x), x.pc \notin {"replay", "live"}
      PROVE  \E y \in ViewerStates : ViewEffect(v, y)
  BY <1>3 DEF ViewEffect, Becomes
<1>4. CASE ViewerRefused(v) \/ Leave(v)
  <2>1. Away \in ViewerStates /\ Away.pc \notin {"replay", "live"}
    BY DEF Away, ViewerStates
  <2> QED BY <1>3, <1>4, <2>1 DEF ViewerRefused, Leave
<1>5. CASE Connect(v)
  <2>1. endpoint \in Sessions
    BY <1>0, <1>5 DEF TypeOK, Connect, Sessions
  <2>2. [pc |-> "hello", on |-> endpoint] \in ViewerStates
    BY <2>1 DEF ViewerStates
  <2> QED BY <1>3, <1>5, <2>2 DEF Connect
<1>6. CASE ViewerSignals(v)
  BY <1>0, <1>1, <1>6, Enqueues DEF ViewerSignals
<1>7. CASE SubscribeWithReplay(v)
  <2> DEFINE x == [pc |-> IF ring[w.on] = <<>> THEN "live" ELSE "replay", on |-> w.on,
                   since |-> Len(s), snap |-> ring[w.on], next |-> Len(s) + 1,
                   got |-> <<>>, missed |-> {}]
  <2>1. w.on \in Sessions
    BY <1>0, <1>7 DEF TypeOK, ViewerStates, Away, SubscribeWithReplay
  <2>2. /\ s \in Seq(Updates) /\ ring[w.on] \in Seq(Updates) /\ IsSuffix(ring[w.on], s)
        /\ Increasing(s)
    BY <1>0, <2>1, Places DEF IInv, StreamsKept, InStep
  <2>3. x \in Attachment
    BY <2>1, <2>2 DEF Attachment
  <2>4. Follows(x, s)
    BY <2>2, <2>3, FollowsJoined
  <2>5. Becomes(v, x) /\ x.on = w.on
    BY <1>7 DEF SubscribeWithReplay, LiveFrom
  <2> HIDE DEF x
  <2> QED BY <1>2, <2>3, <2>4, <2>5
<1>8. CASE ReplayOne(v)
  <2> DEFINE x == [w EXCEPT !.pc = IF Len(w.snap) = 1 THEN "live" ELSE "replay",
                            !.snap = Tail(@), !.got = Append(@, Head(w.snap))]
  <2>1. w.pc = "replay" /\ w \in Attachment /\ s \in Seq(Updates) /\ Follows(w, s)
    BY <1>1, <1>8 DEF ReplayOne
  <2>2. w.snap \in Seq(Updates) /\ w.got \in Seq(Updates) /\ w.snap # <<>>
    BY <2>1 DEF Follows, Attachment
  <2>3. Tail(w.snap) \in Seq(Updates) /\ Append(w.got, Head(w.snap)) \in Seq(Updates)
    BY <2>2
  <2>4. x \in Attachment
    BY <2>1, <2>3 DEF Attachment
  <2>5. /\ x.pc = (IF Len(w.snap) = 1 THEN "live" ELSE "replay") /\ x.snap = Tail(w.snap)
        /\ x.got = Append(w.got, Head(w.snap)) /\ x.since = w.since /\ x.next = w.next
        /\ x.missed = w.missed /\ x.on = w.on
    BY <2>1 DEF Attachment
  <2>6. Becomes(v, x)
    BY <1>8 DEF ReplayOne
  <2> HIDE DEF x
  <2>7. Follows(x, s)
    BY <2>1, <2>4, <2>5, FollowsReplayed
  <2> QED BY <1>2, <2>4, <2>5, <2>6, <2>7
<1>9. CASE ViewerLagged(v)
  <2> DEFINE to == Oldest(Len(s), FanoutCap)
             lost == {s[k] : k \in w.next .. to - 1}
             x == [w EXCEPT !.next = to, !.missed = @ \cup lost]
  <2>1. w.pc = "live" /\ w \in Attachment /\ s \in Seq(Updates) /\ Follows(w, s)
    BY <1>1, <1>9 DEF ViewerLagged
  <2>2. to \in Nat \ {0} /\ to <= Len(s) + 1 /\ w.next < to /\ Len(s) \in Nat /\ w.next \in Nat \ {0}
    <3>1. Len(s) \in Nat /\ w.next \in Nat \ {0}
      BY <2>1 DEF Attachment
    <3>2. to \in Nat \ {0} /\ to <= Len(s) + 1
      BY <3>1, OldestIsPlace
    <3> QED BY <1>9, <3>1, <3>2 DEF ViewerLagged, Lags
  <2>3. Becomes(v, x)
    BY <1>9 DEF ViewerLagged
  <2> HIDE DEF to
  <2>4. lost \subseteq Updates
    <3>1. \A k \in w.next .. to - 1 : k \in 1 .. Len(s)
      BY <2>2
    <3> QED BY <2>1, <3>1
  <2> HIDE DEF lost
  <2>5. x \in Attachment
    BY <2>1, <2>2, <2>4 DEF Attachment
  <2>6. /\ x.next = to /\ x.missed = w.missed \cup lost /\ x.pc = w.pc /\ x.snap = w.snap
        /\ x.got = w.got /\ x.since = w.since /\ x.on = w.on
    BY <2>1 DEF Attachment
  <2> HIDE DEF x
  <2>7. Follows(x, s)
    BY <2>1, <2>2, <2>5, <2>6, FollowsLagged DEF lost
  <2> QED BY <1>2, <2>3, <2>5, <2>6, <2>7
<1>10. CASE LiveOne(v)
  <2> DEFINE x == [w EXCEPT !.next = @ + 1, !.got = Append(@, s[w.next])]
  <2>1. /\ w.pc = "live" /\ w \in Attachment /\ s \in Seq(Updates) /\ Follows(w, s)
        /\ Increasing(s) /\ w.next <= Len(s)
    BY <1>1, <1>10 DEF LiveOne
  <2>2. w.next \in Nat \ {0} /\ w.got \in Seq(Updates)
    BY <2>1 DEF Attachment
  <2>3. s[w.next] \in Updates
    BY <2>1, <2>2
  <2>4. Append(w.got, s[w.next]) \in Seq(Updates) /\ w.next + 1 \in Nat \ {0}
    BY <2>2, <2>3
  <2>5. x \in Attachment
    BY <2>1, <2>4 DEF Attachment
  <2>6. /\ x.next = w.next + 1 /\ x.got = Append(w.got, s[w.next]) /\ x.pc = w.pc
        /\ x.snap = w.snap /\ x.since = w.since /\ x.missed = w.missed /\ x.on = w.on
    BY <2>1 DEF Attachment
  <2>7. Becomes(v, x)
    BY <1>10 DEF LiveOne
  <2> HIDE DEF x
  <2>8. Follows(x, s)
    BY <2>1, <2>5, <2>6, FollowsLive
  <2> QED BY <1>2, <2>5, <2>6, <2>7, <2>8
<1> QED BY <1>4, <1>5, <1>6, <1>7, <1>8, <1>9, <1>10 DEF View

-----------------------------------------------------------------------------
(* The invariant is inductive.                                             *)

(* What a step does, by the part of the system that takes it.              *)
Steps ==
    \/ Supervise \/ Abort \/ SpawnAgain
    \/ EnqueueEffect
    \/ \E i \in Sessions : Emit(i) \/ Answer(i) \/ ChildDies(i)
    \/ \E i \in Sessions : Pump(i) /\ \E q \in PumpStates : PumpEffect(i, q)
    \/ \E v \in Viewers : \E x \in ViewerStates : ViewEffect(v, x)
    \/ UNCHANGED vars

LEMMA EveryStep == ASSUME IInv, [Next]_vars PROVE Steps
<1>0. TypeOK
  BY DEF IInv
<1>1. CASE RelayDelivers
  <2>1. endpoint \in Sessions /\ "prompt" \in Signals
    BY <1>0, <1>1, AttachBounds DEF TypeOK, RelayDelivers, Sessions, Signals
  <2> QED BY <1>0, <1>1, <2>1, Enqueues DEF RelayDelivers, Steps
<1>2. ASSUME NEW v \in Viewers, View(v) PROVE Steps
  BY <1>2, ViewEffects DEF Steps
<1>3. ASSUME NEW i \in Sessions, Pump(i) PROVE Steps
  BY <1>3, PumpEffects DEF Steps
<1>4. CASE Supervise \/ Abort \/ SpawnAgain \/ UNCHANGED vars
  BY <1>4 DEF Steps
<1>5. ASSUME NEW i \in Sessions, Emit(i) \/ Answer(i) \/ ChildDies(i) PROVE Steps
  BY <1>5 DEF Steps
<1> QED BY <1>1, <1>2, <1>3, <1>4, <1>5 DEF Next

LEMMA TypesAfter == ASSUME IInv, Steps PROVE TypeOK'
<1>0. TypeOK
  BY DEF IInv
<1>1. CASE EnqueueEffect
  BY <1>0, <1>1 DEF TypeOK, EnqueueEffect, process, channels
<1>2. ASSUME NEW v \in Viewers, NEW x \in ViewerStates, ViewEffect(v, x) PROVE TypeOK'
  <2>1. viewer' \in [Viewers -> ViewerStates]
    BY <1>0, <1>2 DEF TypeOK, ViewEffect
  <2> QED BY <1>0, <1>2, <2>1 DEF TypeOK, ViewEffect, process, channels
<1>3. CASE UNCHANGED vars
  BY <1>0, <1>3 DEF TypeOK, vars
<1> QED BY <1>0, <1>1, <1>2, <1>3, SuperviseTypes, ChildTypes, PumpTypes DEF Steps

LEMMA PumpedOnceAfter == ASSUME IInv, Steps PROVE PumpedOnce'
<1>0. TypeOK /\ PumpedOnce /\ sup.on \in Nat /\ \A i \in Sessions : i \in Nat
  BY AttachBounds DEF IInv, TypeOK, Sessions
<1>1. CASE UNCHANGED <<sup, pump, sent, turns>>
  BY <1>0, <1>1 DEF PumpedOnce
<1>2. CASE EnqueueEffect \/ UNCHANGED vars
  BY <1>1, <1>2 DEF EnqueueEffect, vars, process, channels
<1>3. ASSUME NEW v \in Viewers, NEW x \in ViewerStates, ViewEffect(v, x) PROVE PumpedOnce'
  BY <1>1, <1>3 DEF ViewEffect, process, channels
<1>4. ASSUME NEW i \in Sessions, Emit(i) \/ Answer(i) \/ ChildDies(i) PROVE PumpedOnce'
  <2>1. sup' = sup /\ pump' = pump /\ sent' = sent
    BY <1>4 DEF Emit, Answer, ChildDies, channels
  <2>2. \A j \in Sessions : turns[j] = 0 => turns'[j] = 0
    BY <1>0, <1>4 DEF TypeOK, Emit, Answer, ChildDies, Drained, process
  <2> QED BY <1>0, <2>1, <2>2 DEF PumpedOnce
<1>5. CASE OpenAndRegister
  <2>1. /\ sup'.on = sup.on + 1 /\ sup.pc = "opening"
        /\ turns' = turns /\ sent' = sent /\ pump' = pump
    BY <1>5 DEF OpenAndRegister, channels
  <2> QED BY <1>0, <2>1 DEF PumpedOnce
<1>6. CASE OpenFails \/ BackoffEnds \/ SpawnAgain
  <2>1. /\ sup'.on = sup.on /\ sup'.pc \in {"backoff", "opening"}
        /\ sup.pc \in {"opening", "backoff", "aborted"}
        /\ turns' = turns /\ sent' = sent /\ pump' = pump
    BY <1>0, <1>6 DEF TypeOK, OpenFails, BackoffEnds, SpawnAgain, channels, process
  <2> QED BY <1>0, <2>1 DEF PumpedOnce
<1>7. CASE SubscribeUpdates
  <2>1. /\ sup.pc = "registered" /\ sup'.pc = "pumping" /\ sup'.on = sup.on
        /\ turns' = turns /\ sent' = sent
        /\ \A j \in Sessions : j # sup.on => pump'[j] = pump[j]
    BY <1>0, <1>7 DEF TypeOK, SubscribeUpdates, channels, process
  <2> QED BY <1>0, <2>1 DEF PumpedOnce
<1>8. CASE Abort
  <2>1. /\ sup'.on = sup.on /\ sup'.pc = "aborted" /\ turns' = turns /\ sent' = sent
        /\ \A j \in Sessions : pump'[j].pc = "off"
    BY <1>0, <1>8 DEF TypeOK, PumpStates, Abort, channels, process
  <2> QED BY <1>0, <2>1 DEF PumpedOnce
<1>9. ASSUME NEW i \in Sessions, NEW q \in PumpStates, PumpEffect(i, q) PROVE PumpedOnce'
  <2>1. sup.pc = "pumping" /\ sup.on = i
    BY <1>0, <1>9 DEF PumpedOnce, PumpEffect
  <2>2. /\ sup'.on = i /\ sup'.pc \in {"pumping", "backoff"}
        /\ q.pc # "off" => sup'.pc = "pumping"
    BY <1>0, <1>9, <2>1 DEF TypeOK, PumpEffect
  <2>3. pump'[i] = q /\ \A j \in Sessions : j # i => pump'[j] = pump[j] /\ turns'[j] = turns[j]
    BY <1>0, <1>9 DEF TypeOK, PumpEffect
  <2>4. \A j \in Sessions : j # i => sent'[j] = sent[j]
    BY <1>0, <1>9 DEF TypeOK, PumpEffect, Send
  <2> QED BY <1>0, <2>1, <2>2, <2>3, <2>4 DEF PumpedOnce
<1> QED BY <1>2, <1>3, <1>4, <1>5, <1>6, <1>7, <1>8, <1>9 DEF Steps, Supervise

LEMMA TurnsAfter == ASSUME IInv, Steps PROVE TurnsTaken'
<1>0. TypeOK /\ TurnsTaken /\ PumpedOnce
  BY DEF IInv
<1>1. CASE UNCHANGED <<pump, turns>>
  BY <1>0, <1>1 DEF TurnsTaken
<1>2. CASE EnqueueEffect \/ UNCHANGED vars
  BY <1>1, <1>2 DEF EnqueueEffect, vars, process
<1>3. ASSUME NEW v \in Viewers, NEW x \in ViewerStates, ViewEffect(v, x) PROVE TurnsTaken'
  BY <1>1, <1>3 DEF ViewEffect, process
<1>4. ASSUME NEW i \in Sessions, Emit(i) \/ Answer(i) \/ ChildDies(i) PROVE TurnsTaken'
  <2>1. pump' = pump /\ \A j \in Sessions : turns[j] \in Nat /\ turns'[j] \in Nat /\ turns'[j] <= turns[j]
    <3>1. turns \in [Sessions -> Nat]
      BY <1>0 DEF TypeOK
    <3>2. CASE Emit(i)
      BY <3>1, <3>2 DEF Emit, process
    <3>3. CASE Answer(i)
      <4>1. turns[i] \in Nat /\ turns[i] > 0 /\ turns' = [turns EXCEPT ![i] = turns[i] - 1] /\ pump' = pump
        BY <3>1, <3>3 DEF Answer
      <4> QED BY <3>1, <4>1
    <3>4. CASE ChildDies(i)
      <4>1. turns' = [turns EXCEPT ![i] = 0] /\ pump' = pump
        BY <3>4 DEF ChildDies, Drained
      <4> QED BY <3>1, <4>1
    <3> QED BY <1>4, <3>2, <3>3, <3>4
  <2> QED BY <1>0, <2>1 DEF TurnsTaken
<1>5. CASE OpenAndRegister \/ OpenFails \/ BackoffEnds \/ SpawnAgain
  BY <1>1, <1>5 DEF OpenAndRegister, OpenFails, BackoffEnds, SpawnAgain, process
<1>6. CASE SubscribeUpdates
  <2>1. turns' = turns /\ \A j \in Sessions : j # sup.on => pump'[j] = pump[j]
    BY <1>0, <1>6 DEF TypeOK, SubscribeUpdates, process
  <2>2. \A j \in Sessions : j = sup.on => turns[j] = 0
    BY <1>0, <1>6 DEF SubscribeUpdates, PumpedOnce
  <2> QED BY <1>0, <2>1, <2>2 DEF TurnsTaken
<1>7. CASE Abort
  <2>1. turns' = turns /\ \A j \in Sessions : pump'[j].pc = "off"
    BY <1>0, <1>7 DEF TypeOK, PumpStates, Abort, process
  <2> QED BY <1>0, <2>1 DEF TurnsTaken
<1>8. ASSUME NEW i \in Sessions, NEW q \in PumpStates, PumpEffect(i, q) PROVE TurnsTaken'
  <2>1. PICK n \in 0 .. 1 : turns' = [turns EXCEPT ![i] = n] /\ (q.pc = "select" => n = 0)
    BY <1>8 DEF PumpEffect
  <2>2. pump'[i] = q /\ turns'[i] = n
    BY <1>0, <1>8, <2>1 DEF TypeOK, PumpEffect
  <2>3. \A j \in Sessions : j # i => pump'[j] = pump[j] /\ turns'[j] = turns[j]
    BY <1>0, <1>8, <2>1 DEF TypeOK, PumpEffect
  <2> QED BY <1>0, <2>1, <2>2, <2>3 DEF TurnsTaken
<1> QED BY <1>2, <1>3, <1>4, <1>5, <1>6, <1>7, <1>8 DEF Steps, Supervise

LEMMA StreamsAfter == ASSUME IInv, Steps PROVE StreamsKept'
<1>0. TypeOK /\ StreamsKept
  BY DEF IInv
<1>1. ASSUME sent' = sent, ring' = ring,
             \A j \in Sessions : \/ pump'[j].at = pump[j].at /\ pump'[j].skipped = pump[j].skipped
                               \/ sent[j] = <<>>
      PROVE  StreamsKept'
  <2> SUFFICES ASSUME NEW j \in Sessions
               PROVE  InStep(sent[j], pump'[j].at, pump'[j].skipped)
    BY <1>0, <1>1 DEF StreamsKept
  <2>1. CASE sent[j] = <<>>
    BY <2>1 DEF InStep, Increasing
  <2>2. CASE sent[j] # <<>>
    BY <1>0, <1>1, <2>2 DEF StreamsKept
  <2> QED BY <2>1, <2>2
<1>2. CASE EnqueueEffect \/ UNCHANGED vars
  BY <1>1, <1>2 DEF EnqueueEffect, vars, channels
<1>3. ASSUME NEW v \in Viewers, NEW x \in ViewerStates, ViewEffect(v, x) PROVE StreamsKept'
  BY <1>1, <1>3 DEF ViewEffect, channels
<1>4. ASSUME NEW i \in Sessions, Emit(i) \/ Answer(i) \/ ChildDies(i) PROVE StreamsKept'
  BY <1>1, <1>4 DEF Emit, Answer, ChildDies, channels
<1>5. CASE OpenAndRegister \/ OpenFails \/ BackoffEnds \/ SpawnAgain
  BY <1>1, <1>5 DEF OpenAndRegister, OpenFails, BackoffEnds, SpawnAgain, channels
<1>6. CASE Abort
  <2>1. \A j \in Sessions : pump'[j].at = pump[j].at /\ pump'[j].skipped = pump[j].skipped
    BY <1>0, <1>6 DEF TypeOK, PumpStates, Abort
  <2> QED BY <1>1, <1>6, <2>1 DEF Abort, channels
<1>7. CASE SubscribeUpdates
  <2>1. \A j \in Sessions : j # sup.on => pump'[j] = pump[j]
    BY <1>0, <1>7 DEF TypeOK, SubscribeUpdates
  <2>2. \A j \in Sessions : j = sup.on => sent[j] = <<>>
    BY <1>7 DEF IInv, PumpedOnce, SubscribeUpdates
  <2> QED BY <1>1, <1>7, <2>1, <2>2 DEF SubscribeUpdates, channels
<1>8. ASSUME NEW i \in Sessions, NEW q \in PumpStates, PumpEffect(i, q) PROVE StreamsKept'
  <2>1. pump'[i] = q /\ \A j \in Sessions : j # i => pump'[j] = pump[j]
    BY <1>0, <1>8 DEF TypeOK, PumpEffect
  <2>2. sent[i] \in Seq(Updates) /\ pump[i].at \in Updates /\ q.at \in Updates
    BY <1>0, Places DEF Updates, PumpStates
  <2>3. InStep(sent[i], pump[i].at, pump[i].skipped)
    BY <1>0 DEF StreamsKept
  <2>4. CASE sent' = sent /\ ring' = ring /\ q.at = pump[i].at /\ q.skipped = pump[i].skipped
    BY <1>1, <2>1, <2>4
  <2>5. CASE Send(i, pump[i].at) /\ q.at = pump[i].at + 1 /\ q.skipped = pump[i].skipped
    <3>1. /\ sent'[i] = Append(sent[i], pump[i].at) /\ IsSuffix(ring'[i], sent'[i])
          /\ \A j \in Sessions : j # i => sent'[j] = sent[j] /\ ring'[j] = ring[j]
      BY <2>2, <2>5, SendTypes
    <3>2. InStep(sent'[i], pump'[i].at, pump'[i].skipped)
      BY <2>1, <2>2, <2>3, <2>5, <3>1, InStepForward
    <3> QED BY <1>0, <2>1, <3>1, <3>2 DEF StreamsKept
  <2>6. CASE /\ sent' = sent /\ ring' = ring /\ q.at > pump[i].at
             /\ q.skipped = pump[i].skipped \cup (pump[i].at .. q.at - 1)
    <3>1. pump[i].at <= q.at
      BY <2>2, <2>6 DEF Updates
    <3>2. InStep(sent[i], q.at, q.skipped)
      BY <2>2, <2>3, <2>6, <3>1, InStepSkip
    <3> QED BY <1>0, <2>1, <2>6, <3>2 DEF StreamsKept
  <2> QED BY <1>8, <2>4, <2>5, <2>6 DEF PumpEffect
<1> QED BY <1>2, <1>3, <1>4, <1>5, <1>6, <1>7, <1>8 DEF Steps, Supervise

LEMMA ViewsAfter == ASSUME IInv, Steps PROVE ViewsKept'
<1>0. TypeOK /\ ViewsKept
  BY DEF IInv
<1>1. ASSUME viewer' = viewer, sent' = sent PROVE ViewsKept'
  BY <1>0, <1>1 DEF ViewsKept, Attached
<1>2. CASE EnqueueEffect \/ UNCHANGED vars
  BY <1>1, <1>2 DEF EnqueueEffect, vars, channels
<1>3. ASSUME NEW v \in Viewers, NEW x \in ViewerStates, ViewEffect(v, x) PROVE ViewsKept'
  <2>1. sent' = sent /\ viewer'[v] = x /\ \A u \in Viewers : u # v => viewer'[u] = viewer[u]
    BY <1>0, <1>3 DEF TypeOK, ViewEffect, channels
  <2>2. x.pc \in {"replay", "live"} => Follows(x, sent[x.on])
    BY <1>3 DEF ViewEffect
  <2> QED BY <1>0, <2>1, <2>2 DEF ViewsKept, Attached
<1>4. ASSUME NEW i \in Sessions, Emit(i) \/ Answer(i) \/ ChildDies(i) PROVE ViewsKept'
  BY <1>1, <1>4 DEF Emit, Answer, ChildDies, channels
<1>5. CASE Supervise \/ Abort \/ SpawnAgain
  BY <1>1, <1>5 DEF Supervise, OpenAndRegister, OpenFails, BackoffEnds, SubscribeUpdates, Abort,
     SpawnAgain, channels
<1>6. ASSUME NEW i \in Sessions, NEW q \in PumpStates, PumpEffect(i, q) PROVE ViewsKept'
  <2>1. viewer' = viewer
    BY <1>6 DEF PumpEffect
  <2>2. CASE sent' = sent
    BY <1>1, <2>1, <2>2
  <2>3. CASE Send(i, pump[i].at)
    <3>1. pump[i].at \in Updates
      BY <1>0, Places DEF Updates
    <3>2. /\ sent'[i] = Append(sent[i], pump[i].at)
          /\ \A j \in Sessions : j # i => sent'[j] = sent[j]
      BY <2>3, <3>1, SendTypes
    <3> SUFFICES ASSUME NEW v \in Attached PROVE Follows(viewer[v], sent'[viewer[v].on])
      BY <2>1 DEF ViewsKept, Attached
    <3>3. /\ viewer[v] \in Attachment /\ viewer[v].on \in Sessions
          /\ sent[viewer[v].on] \in Seq(Updates) /\ Follows(viewer[v], sent[viewer[v].on])
      BY <1>0, Viewing DEF Attachment, ViewsKept
    <3>4. CASE viewer[v].on = i
      BY <3>1, <3>2, <3>3, <3>4, FollowsOn
    <3>5. CASE viewer[v].on # i
      BY <3>2, <3>3, <3>5
    <3> QED BY <3>4, <3>5
  <2> QED BY <1>6, <2>2, <2>3 DEF PumpEffect
<1> QED BY <1>2, <1>3, <1>4, <1>5, <1>6 DEF Steps

LEMMA StepIInv == IInv /\ [Next]_vars => IInv'
<1> SUFFICES ASSUME IInv, [Next]_vars PROVE IInv'
  OBVIOUS
<1>1. Steps
  BY EveryStep
<1>2. TypeOK' /\ PumpedOnce' /\ TurnsTaken' /\ StreamsKept' /\ ViewsKept'
  BY <1>1, TypesAfter, PumpedOnceAfter, TurnsAfter, StreamsAfter, ViewsAfter
<1> QED BY <1>2 DEF IInv

-----------------------------------------------------------------------------
(* The theorems.                                                           *)

(* The invariant of session, stream and viewers: sessions are pumped once, *)
(* prompts submitted one at a time, the ring holds the end of what was     *)
(* sent, and every viewer has, in order, what is due to it.                *)
THEOREM AttachInvariance == Spec => []IInv
<1> QED BY InitIInv, StepIInv, PTL DEF Spec

(* The variables keep their types: no queue or ring outgrows its capacity. *)
THEOREM AttachTypeCorrect == Spec => []TypeOK
<1>1. IInv => TypeOK
  BY DEF IInv
<1> QED BY <1>1, AttachInvariance, PTL

(* A client receives updates in the order the child wrote them, none twice, *)
(* across the seam between snapshot and live channel (subscribe_with_replay). *)
THEOREM OrderSafe == Spec => []ViewerInOrder
<1> QED BY InvOrder, AttachInvariance, PTL

(* A viewer has the end of the ring it found, everything sent since, and    *)
(* the report of what it lagged behind (replay_broadcast.rs, pump_acp).    *)
THEOREM CompleteSafe == Spec => []AttachComplete
<1> QED BY InvComplete, AttachInvariance, PTL

(* Between the first and the last update of a client nothing the child     *)
(* wrote is lost without a report, whatever blocked the supervisor, was    *)
(* held back for a compaction, or fell out of the ring.                    *)
THEOREM GapSafe == Spec => []NoSilentGap
<1> QED BY InvNoGap, AttachInvariance, PTL

(* Viewers, relay and compaction never have two prompts outstanding in one *)
(* session: each is awaited inside the supervisor's select arm.            *)
THEOREM TurnSafe == Spec => []OneTurnAtATime
<1> QED BY InvTurns, AttachInvariance, PTL
=============================================================================
