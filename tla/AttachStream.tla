---------------------------- MODULE AttachStream ----------------------------
(***************************************************************************)
(* What a viewer of an agent is promised: each session is one growing log, *)
(* and an attached viewer is one cursor in it.  The cursor starts a fixed  *)
(* history before the end, hands over the log entry by entry, and jumps    *)
(* forward only by reporting every entry it jumps over.  AcpAttach, with   *)
(* its replay ring, the snapshot a viewer takes of it, the bounded channel *)
(* behind the snapshot and the seam between the two, is shown to implement *)
(* this.                                                                   *)
(***************************************************************************)
EXTENDS Naturals, Sequences

CONSTANTS
    Viewers,
    Streams,    \* sessions
    History     \* how far before the end a viewer starts

VARIABLES
    log,        \* per stream, the updates written, each newer than the last
    reader      \* per viewer, its stream, its place there, what it got and what it was told it lost

Detached == [pc |-> "away"]

Start(len) == IF len > History THEN len - History + 1 ELSE 1

Init ==
    /\ log = [i \in Streams |-> <<>>]
    /\ reader = [v \in Viewers |-> Detached]

Write(i) ==
    /\ log' = [log EXCEPT ![i] = log'[i]]
    /\ Len(log'[i]) = Len(log[i]) + 1
    /\ \A k \in 1 .. Len(log[i]) :
         log'[i][k] = log[i][k] /\ log[i][k] < log'[i][Len(log[i]) + 1]
    /\ UNCHANGED reader

Moves(v, state) ==
    /\ reader' = [reader EXCEPT ![v] = state]
    /\ UNCHANGED log

Attach(v) ==
    /\ reader[v] = Detached
    /\ \E i \in Streams :
         Moves(v, [on |-> i, next |-> Start(Len(log[i])), got |-> <<>>, lost |-> {}])

Deliver(v) ==
    LET w == reader[v] IN
    /\ w # Detached /\ w.next <= Len(log[w.on])
    /\ Moves(v, [w EXCEPT !.next = @ + 1, !.got = Append(@, log[w.on][w.next])])

Between(i, from, to) == {log[i][k] : k \in from .. to - 1}

Report(v) ==
    LET w == reader[v] IN
    /\ w # Detached
    /\ \E to \in w.next + 1 .. Len(log[w.on]) :
         Moves(v, [w EXCEPT !.next = to, !.lost = @ \cup Between(w.on, w.next, to)])

Detach(v) == reader[v] # Detached /\ Moves(v, Detached)

Next ==
    \/ \E i \in Streams : Write(i)
    \/ \E v \in Viewers : Attach(v) \/ Deliver(v) \/ Report(v) \/ Detach(v)

Spec == Init /\ [][Next]_<<log, reader>>
=============================================================================
