----------------------------- MODULE Attendance -----------------------------
(***************************************************************************)
(* The time clock at the gate (apps/api/src/services/attendance.service).  *)
(* A guard scans a badge; the service closes the worker's open session or  *)
(* opens one, in one Serializable transaction, unless the same badge was   *)
(* scanned a moment ago.  A sweep closes the sessions somebody forgot: it  *)
(* lists them first and closes them one by one.                            *)
(*                                                                         *)
(* Time counts ticks; Debounce stands for the debounce window, MaxShift    *)
(* for the longest shift.  A session's duration is its check-out minus its *)
(* check-in on every path of the code, so it is not kept apart.            *)
(***************************************************************************)
EXTENDS Integers, Sequences, FiniteSets, FiniteSetsExt

CONSTANTS Employee, Debounce, MaxShift,
          MaxTime,      \* bound: the last tick
          MaxSessions,  \* bound: sessions ever opened
          MaxScans      \* bound: scans of one badge in flight at once

ASSUME ClockAssumption ==
    /\ Debounce \in Nat /\ MaxShift \in Nat
    /\ MaxTime \in Nat /\ MaxSessions \in Nat /\ MaxScans \in Nat \ {0}

VARIABLES
    now,
    sessions,   \* the rows of work_sessions, in the order they were opened
    lastScan,   \* the latest scannedAt in each worker's attendance_events
    active,     \* the workers whose status is ACTIVE
    gate,       \* scans whose badge was found, before their transaction
    sweep       \* sessions the running sweep has listed and not closed yet

clock == <<now, sessions, lastScan, active, gate, sweep>>

NotYet == -1

IsOpen(s) == sessions[s].out = NotYet
Open(e) == {s \in DOMAIN sessions : sessions[s].employee = e /\ IsOpen(s)}
Recorded(e, t) == [lastScan EXCEPT ![e] = Max({@, t})]

ClockInit ==
    /\ now = 0
    /\ sessions = <<>>
    /\ lastScan = [e \in Employee |-> NotYet]
    /\ active = Employee
    /\ gate = [e \in Employee |-> 0]
    /\ sweep = {}

Tick == now < MaxTime /\ now' = now + 1 /\ UNCHANGED <<sessions, lastScan, active, gate, sweep>>

\* An employee is deactivated, or reactivated.
SetStatus(e) ==
    /\ active' = IF e \in active THEN active \ {e} ELSE active \cup {e}
    /\ UNCHANGED <<now, sessions, lastScan, gate, sweep>>

\* The badge is looked up: an inactive worker's scan ends here.
BeginScan(e) ==
    /\ e \in active /\ gate[e] < MaxScans
    /\ gate' = [gate EXCEPT ![e] = @ + 1]
    /\ UNCHANGED <<now, sessions, lastScan, active, sweep>>

Bounced(e) == lastScan[e] # NotYet /\ now - lastScan[e] < Debounce

\* Mutant: a session older than the longest shift is not looked for.
Toggled_Recent(e) ==
    IF \E s \in Open(e) : sessions[s].in >= now - MaxShift
    THEN [sessions EXCEPT ![Max(Open(e))].out = now]
    ELSE Append(sessions, [employee |-> e, in |-> now, out |-> NotYet, auto |-> FALSE])

\* The latest open session is closed, or one is opened.
Toggled(e) ==
    IF Open(e) # {}
    THEN [sessions EXCEPT ![Max(Open(e))].out = now]
    ELSE Append(sessions, [employee |-> e, in |-> now, out |-> NotYet, auto |-> FALSE])

\* The transaction of one scan.
Scan(e) ==
    /\ gate[e] > 0 /\ Len(sessions) < MaxSessions + Cardinality(Open(e))
    /\ gate' = [gate EXCEPT ![e] = @ - 1]
    /\ IF Bounced(e)
       THEN UNCHANGED <<sessions, lastScan>>
       ELSE sessions' = Toggled(e) /\ lastScan' = Recorded(e, now)
    /\ UNCHANGED <<now, active, sweep>>

\* Two Serializable transactions collide: one of them fails and leaves nothing.
LoseScan(e) ==
    /\ gate[e] > 0
    /\ gate' = [gate EXCEPT ![e] = @ - 1]
    /\ UNCHANGED <<now, sessions, lastScan, active, sweep>>

ListStale ==
    /\ sweep = {}
    /\ sweep' = {s \in DOMAIN sessions : IsOpen(s) /\ sessions[s].in < now - MaxShift}
    /\ sweep' # {}
    /\ UNCHANGED <<now, sessions, lastScan, active, gate>>

\* One listed session is closed, whatever happened to it since.
AutoClose(s) ==
    LET closeAt == sessions[s].in + MaxShift
    IN  /\ s \in sweep
        /\ sweep' = sweep \ {s}
        /\ sessions' = [sessions EXCEPT ![s].out = closeAt, ![s].auto = TRUE]
        /\ lastScan' = Recorded(sessions[s].employee, closeAt)
        /\ UNCHANGED <<now, active, gate>>

ClockNext ==
    \/ Tick
    \/ \E e \in Employee : SetStatus(e) \/ BeginScan(e) \/ Scan(e) \/ LoseScan(e)
    \/ ListStale
    \/ \E s \in DOMAIN sessions : AutoClose(s)

(***************************************************************************)
(* A worker has at most one open session, and it is the last one: the      *)
(* scans of one badge may overlap, be repeated or be lost, and the sweep   *)
(* may close a session under them (attendance.service.ts:80-83).           *)
(***************************************************************************)
OneOpenSession ==
    \A e \in Employee, s \in DOMAIN sessions :
        s \in Open(e) =>
            \A r \in DOMAIN sessions : sessions[r].employee = e => r <= s
=============================================================================
