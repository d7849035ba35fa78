----------------------------- MODULE RunStream -----------------------------
(***************************************************************************)
(* A page that follows a run: the events of the run in the database, the   *)
(* handler that polls them and sends them as server-sent events, the       *)
(* connection that may break, and the page that reloads the list of runs   *)
(* at every event (src/internal/transport/httpapi/runs.go and              *)
(* src/web/src/features/runs/useTaskRuns.ts).                              *)
(*                                                                         *)
(* An event is its sequence number; the last one of a run is the change to *)
(* a terminal status, written in the transaction that changes the status.  *)
(***************************************************************************)
EXTENDS Naturals, Sequences

CONSTANTS
    MaxEvents,      \* bound on the events of the run
    Limit,          \* events read at a time (100 in the code)
    MaxBreaks       \* bound on the connections, statements and loads that fail

RunStreamAssumption ==
    MaxEvents \in Nat \ {0} /\ Limit \in Nat \ {0} /\ MaxBreaks \in Nat

VARIABLES
    count, ended,   \* table run_events and the status of the run
    conn,           \* the handler: where it is, its cursor, whether it just emitted
    wire,           \* events sent and not yet received
    source,         \* the EventSource of the page
    cursor,         \* eventCursor of the page
    shown,          \* the status of the run in the list on the page
    load,           \* the request for the list that is in flight
    breaks

vars   == <<count, ended, conn, wire, source, cursor, shown, load, breaks>>
dbVars == <<count, ended>>
page   == <<source, cursor, shown, load>>

NoConn == [at |-> "CLOSED", after |-> 0, emitted |-> FALSE]

TypeOK ==
    /\ count \in 0..MaxEvents /\ ended \in BOOLEAN
    /\ conn \in [at : {"CLOSED", "EMIT", "CHECK"}, after : 0..MaxEvents, emitted : BOOLEAN]
    /\ wire \in Seq(1..MaxEvents)
    /\ source \in [state : {"CLOSED", "CONNECTING", "OPEN", "REFUSED"}, url : 0..MaxEvents]
    /\ cursor \in 0..MaxEvents
    /\ shown \in {"LOADING", "ACTIVE", "TERMINAL", "ERROR"}
    /\ load \in {"NONE", "ASKED", "ACTIVE", "TERMINAL"}
    /\ breaks \in 0..MaxBreaks

Init ==
    /\ count = 0 /\ ended = FALSE
    /\ conn = NoConn /\ wire = <<>>
    /\ source = [state |-> "CLOSED", url |-> 0]
    /\ cursor = 0 /\ shown = "LOADING" /\ load = "ASKED"
    /\ breaks = 0

-----------------------------------------------------------------------------
(* The run and the handler.                                                *)

AppendRunEvent ==
    /\ ~ended /\ count < MaxEvents
    /\ count' = count + 1
    /\ ended' \in {FALSE, TRUE}
    /\ UNCHANGED <<conn, wire, page, breaks>>

\* Mutant: the cursor moves to the newest event, sent or not.
EmitRunEvents_Skips ==
    LET upTo == IF count < conn.after + Limit THEN count ELSE conn.after + Limit
    IN  /\ conn.at = "EMIT"
        /\ wire' = wire \o [i \in 1..(upTo - conn.after) |-> conn.after + i]
        /\ conn' = [at |-> "CHECK", after |-> count, emitted |-> upTo > conn.after]
        /\ UNCHANGED <<dbVars, page, breaks>>

\* Mutant: one too far.
EmitRunEvents_Past ==
    LET upTo == IF count <= conn.after + Limit THEN count + 1 ELSE conn.after + Limit
    IN  /\ conn.at = "EMIT"
        /\ wire' = wire \o [i \in 1..(upTo - conn.after) |-> conn.after + i]
        /\ conn' = [at |-> "CHECK", after |-> upTo, emitted |-> upTo > conn.after]
        /\ UNCHANGED <<dbVars, page, breaks>>

\* The next events after the cursor, Limit of them at most.
EmitRunEvents ==
    LET upTo == IF count < conn.after + Limit THEN count ELSE conn.after + Limit
    IN  /\ conn.at = "EMIT"
        /\ wire' = wire \o [i \in 1..(upTo - conn.after) |-> conn.after + i]
        /\ conn' = [at |-> "CHECK", after |-> upTo, emitted |-> upTo > conn.after]
        /\ UNCHANGED <<dbVars, page, breaks>>

\* The status is read after the events: a terminal one ends the stream if nothing
\* was sent, although an event may have come in between.
Check ==
    /\ conn.at = "CHECK"
    /\ conn' = IF ended /\ ~conn.emitted THEN NoConn ELSE [conn EXCEPT !.at = "EMIT"]
    /\ UNCHANGED <<dbVars, wire, page, breaks>>

\* A statement of the handler fails, which ends the stream.
StreamFails ==
    /\ conn.at # "CLOSED" /\ breaks < MaxBreaks
    /\ breaks' = breaks + 1
    /\ conn' = NoConn
    /\ UNCHANGED <<dbVars, wire, page>>

-----------------------------------------------------------------------------
(* The connection.                                                         *)

\* Mutant: the cursor names the next event, not the last one.
RunEventCursor_Next == IF source.url > 0 THEN source.url ELSE cursor + 1

\* The cursor in the URL of the page goes before the Last-Event-ID of the browser,
\* so a page that was opened late is sent again what it had since it was opened.
RunEventCursor == IF source.url > 0 THEN source.url ELSE cursor

\* The browser connects, and again a second after a connection ended.
Connect ==
    /\ source.state = "CONNECTING" /\ conn.at = "CLOSED"
    /\ source' = [source EXCEPT !.state = "OPEN"]
    /\ conn' = [at |-> "EMIT", after |-> RunEventCursor, emitted |-> FALSE]
    /\ UNCHANGED <<dbVars, wire, cursor, shown, load, breaks>>

\* The run cannot be read, and the request ends in an HTTP error, after which the
\* browser does not connect again; the page takes note of an error and no more.
ConnectRefused ==
    /\ source.state = "CONNECTING" /\ conn.at = "CLOSED" /\ breaks < MaxBreaks
    /\ breaks' = breaks + 1
    /\ source' = [source EXCEPT !.state = "REFUSED"]
    /\ UNCHANGED <<dbVars, conn, wire, cursor, shown, load>>

\* What was sent before the handler returned arrives; then the end is noticed.
NoticeEnd ==
    /\ source.state = "OPEN" /\ conn.at = "CLOSED" /\ wire = <<>>
    /\ source' = [source EXCEPT !.state = "CONNECTING"]
    /\ UNCHANGED <<dbVars, conn, wire, cursor, shown, load, breaks>>

Break ==
    /\ breaks < MaxBreaks /\ source.state = "OPEN"
    /\ breaks' = breaks + 1
    /\ conn' = NoConn /\ wire' = <<>>
    /\ source' = [source EXCEPT !.state = "CONNECTING"]
    /\ UNCHANGED <<dbVars, cursor, shown, load>>

-----------------------------------------------------------------------------
(* The page.                                                               *)

\* Mutant: the effect that opened the source has no cleanup.
Follow_NoCleanup(status) ==
    IF status = "ACTIVE" /\ source.state = "CLOSED" /\ shown # "ACTIVE"
    THEN source' = [state |-> "CONNECTING", url |-> cursor] /\ UNCHANGED <<conn, wire>>
    ELSE UNCHANGED <<source, conn, wire>>

\* A source is opened when the list names an active run, and closed when it does not.
Follow(status) ==
    IF status = "ACTIVE"
    THEN IF source.state = "CLOSED" /\ shown # "ACTIVE"
         THEN source' = [state |-> "CONNECTING", url |-> cursor] /\ UNCHANGED <<conn, wire>>
         ELSE UNCHANGED <<source, conn, wire>>
    ELSE source' = [source EXCEPT !.state = "CLOSED"] /\ conn' = NoConn /\ wire' = <<>>

\* Mutant: the terminal event only closes the source.
Receive_OnlyCloses ==
    LET e == Head(wire)
        last == ended /\ e = count
    IN  /\ source.state = "OPEN" /\ wire # <<>>
        /\ IF e <= cursor
           THEN wire' = Tail(wire) /\ UNCHANGED <<source, cursor, load, conn>>
           ELSE /\ cursor' = e
                /\ IF last
                   THEN /\ source' = [source EXCEPT !.state = "CLOSED"]
                        /\ conn' = NoConn /\ wire' = <<>> /\ UNCHANGED load
                   ELSE wire' = Tail(wire) /\ load' = "ASKED" /\ UNCHANGED <<source, conn>>
        /\ UNCHANGED <<dbVars, shown, breaks>>

\* An event that is new sends for the list, in place of a request in flight; the
\* terminal one closes the source.
Receive ==
    LET e == Head(wire)
        last == ended /\ e = count
    IN  /\ source.state = "OPEN" /\ wire # <<>>
        /\ IF e <= cursor
           THEN wire' = Tail(wire) /\ UNCHANGED <<source, cursor, load, conn>>
           ELSE /\ cursor' = e /\ load' = "ASKED"
                /\ IF last
                   THEN source' = [source EXCEPT !.state = "CLOSED"] /\ conn' = NoConn /\ wire' = <<>>
                   ELSE wire' = Tail(wire) /\ UNCHANGED <<source, conn>>
        /\ UNCHANGED <<dbVars, shown, breaks>>

\* Another run is selected on the page: the source is opened anew from the cursor,
\* one that was refused, or closed at the terminal event, too.
Reopen ==
    /\ shown = "ACTIVE" /\ breaks < MaxBreaks
    /\ breaks' = breaks + 1
    /\ source' = [state |-> "CONNECTING", url |-> cursor]
    /\ conn' = NoConn /\ wire' = <<>>
    /\ UNCHANGED <<dbVars, cursor, shown, load>>

ReadList ==
    /\ load = "ASKED"
    /\ load' = IF ended THEN "TERMINAL" ELSE "ACTIVE"
    /\ UNCHANGED <<dbVars, conn, wire, source, cursor, shown, breaks>>

ListArrives ==
    /\ load \in {"ACTIVE", "TERMINAL"}
    /\ shown' = load /\ load' = "NONE"
    /\ Follow(load)
    /\ UNCHANGED <<dbVars, cursor, breaks>>

\* The request for the list fails: no runs on the page, and a message.
ListFails ==
    /\ load # "NONE" /\ breaks < MaxBreaks
    /\ breaks' = breaks + 1
    /\ shown' = "ERROR" /\ load' = "NONE"
    /\ Follow("ERROR")
    /\ UNCHANGED <<dbVars, cursor>>

\* A person reloads the list (a request in flight is left to end first).
ClickReload ==
    /\ shown # "LOADING" /\ load = "NONE"
    /\ load' = "ASKED"
    /\ UNCHANGED <<dbVars, conn, wire, source, cursor, shown, breaks>>

Next ==
    \/ AppendRunEvent \/ EmitRunEvents \/ Check \/ StreamFails
    \/ Connect \/ ConnectRefused \/ NoticeEnd \/ Break
    \/ Receive \/ Reopen \/ ReadList \/ ListArrives \/ ListFails \/ ClickReload

Spec == Init /\ [][Next]_vars

\* The handler polls, the network delivers, the browser reconnects and the page
\* loads; no person need reload, and no run need end.
Fairness ==
    /\ WF_vars(EmitRunEvents) /\ WF_vars(Check) /\ WF_vars(Connect) /\ WF_vars(NoticeEnd)
    /\ WF_vars(Receive) /\ WF_vars(ReadList) /\ WF_vars(ListArrives)

FairSpec == Spec /\ Fairness

-----------------------------------------------------------------------------
(* Properties.                                                             *)

\* The page handles every event of the run once and in order, whatever is sent
\* again after a reconnection.
EventsAreHandledInOrder == [][cursor' # cursor => cursor' = cursor + 1]_cursor

\* What is on the wire goes on, without a gap, from where the page is or earlier.
NoGapOnTheWire ==
    wire # <<>> =>
        /\ Head(wire) <= cursor + 1
        /\ \A i \in 1..(Len(wire) - 1) : wire[i + 1] = wire[i] + 1

\* The end of a run gets to a page that follows it, although its stream may end before
\* the last event, statements fail, connections break and requests overtake one
\* another.  What it does not survive is an HTTP error where the browser connects:
\* that page shows the run as active until somebody reloads it or selects a run.
EndIsShown ==
    (ended /\ shown = "ACTIVE") ~>
        (shown \in {"TERMINAL", "ERROR"} \/ [](source.state = "REFUSED"))

\* No handler goes on polling for a run that ended.
StreamEnds == ended ~> [](conn.at = "CLOSED")

\* The end of a run reaches both ends of the stream: the page, and the handler; a
\* page whose stream was refused is the one exception.
EndReachesEverybody == EndIsShown /\ StreamEnds
=============================================================================
