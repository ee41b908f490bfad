----------------------------- MODULE Dashboard -----------------------------
(***************************************************************************)
(* The operations dashboard: the figures, counted by separate queries while *)
(* the bins move on, and the list of cycles, sorted and cut by one query    *)
(* and asked for again every ten seconds.  The cycles change as             *)
(* BinLifecycle says; of a cycle only what the dashboard reads is kept.     *)
(* A deadline is the time of the start plus the bin type's hours.  The      *)
(* panel of one cycle's details and the filter of dates read what is here   *)
(* and are left out.                                                        *)
(***************************************************************************)
EXTENDS Integers, Sequences, SequencesExt, FiniteSets

CONSTANTS Cycle, Facility, Null,
          Limit,     \* cycles on the list, 100 in the page
          DkHours,   \* bound: hours a bin type allows
          MaxTime    \* bound: the clock

VARIABLES now, cycles,
          scope,   \* the facilities the caller may see
          hidden,  \* the facilities that were removed, or are no processing plant
          count,   \* the figures under way: what is counted so far
          page     \* what the page shows

vars == <<now, cycles, scope, hidden, count, page>>

Unstarted == [status |-> Null]
Rank == [s \in {"ACTIVE", "IN_TRANSIT", "COMPLETED"} |->
           CASE s = "ACTIVE" -> 1 [] s = "IN_TRANSIT" -> 2 [] s = "COMPLETED" -> 3]
RunningStatus == {"ACTIVE", "IN_TRANSIT"}
Figures == {"active", "overdue", "completed", "onTime", "byFacility"}
NoCount == [pc |-> "none"]

Init ==
  /\ now = 0
  /\ cycles = [c \in Cycle |-> Unstarted]
  /\ scope \in SUBSET Facility /\ hidden \in SUBSET Facility
  /\ count = NoCount
  /\ page = [list |-> <<>>, cut |-> {}, facility |-> Null]

InScope(c) == cycles[c].status # Null /\ cycles[c].facility \in scope
Running(c) == InScope(c) /\ cycles[c].status \in RunningStatus
Completed(c) == InScope(c) /\ cycles[c].status = "COMPLETED"

\* Figures under way when a cycle moves no longer are of one moment.
Disturbed == IF count = NoCount THEN count ELSE [count EXCEPT !.disturbed = TRUE]

\* A bin is put to work where it stands, at a hidden facility too.
Start(c) ==
  /\ cycles[c] = Unstarted
  /\ \E f \in Facility, h \in DkHours :
       cycles' = [cycles EXCEPT ![c] =
         [status |-> "ACTIVE", facility |-> f, deadline |-> now + h, onTime |-> FALSE]]
  /\ count' = Disturbed
  /\ UNCHANGED <<now, scope, hidden, page>>

PickUp(c) ==
  /\ cycles[c].status = "ACTIVE"
  /\ cycles' = [cycles EXCEPT ![c].status = "IN_TRANSIT"]
  /\ count' = Disturbed
  /\ UNCHANGED <<now, scope, hidden, page>>

Deliver(c) ==
  /\ cycles[c].status = "IN_TRANSIT"
  /\ cycles' = [cycles EXCEPT ![c].status = "COMPLETED",
                              ![c].onTime = now <= cycles[c].deadline]
  /\ count' = Disturbed
  /\ UNCHANGED <<now, scope, hidden, page>>

\* facilityService.remove: what is under way there goes on.
RemoveFacility(f) ==
  /\ f \notin hidden
  /\ hidden' = hidden \cup {f}
  /\ count' = Disturbed
  /\ UNCHANGED <<now, cycles, scope, page>>

Tick ==
  /\ now < MaxTime
  /\ now' = now + 1
  /\ UNCHANGED <<cycles, scope, hidden, count, page>>

\* The moment of the figures is taken first; the queries of the first round
\* run in any order, the overdue cycles of each facility after them all.
GetStats ==
  /\ count = NoCount
  /\ count' = [pc |-> "asked", now |-> now, seen |-> <<>>, disturbed |-> FALSE]
  /\ UNCHANGED <<now, cycles, scope, hidden, page>>

Overdue(c) == Running(c) /\ cycles[c].deadline < count.now

\* The list of facilities has those only that are not hidden; the totals do not ask.
PerFacility(found) ==
  [f \in scope \ hidden |-> Cardinality({c \in found : cycles[c].facility = f})]

Figure(k) ==
  CASE k = "active" -> Cardinality({c \in Cycle : Running(c)})
    [] k = "overdue" -> Cardinality({c \in Cycle : Overdue(c)})
    [] k = "completed" -> Cardinality({c \in Cycle : Completed(c)})
    [] k = "onTime" -> Cardinality({c \in Cycle : Completed(c) /\ cycles[c].onTime})
    [] k = "byFacility" -> PerFacility({c \in Cycle : Running(c)})

Count(k) ==
  /\ count.pc = "asked" /\ k \notin DOMAIN count.seen
  /\ count' = [count EXCEPT !.seen =
       [j \in DOMAIN @ \cup {k} |-> IF j = k THEN Figure(k) ELSE @[j]]]
  /\ UNCHANGED <<now, cycles, scope, hidden, page>>

GroupByFacility ==
  /\ count.pc = "asked" /\ DOMAIN count.seen = Figures
  /\ count' = [count EXCEPT !.pc = "shown",
       !.seen = [j \in Figures \cup {"overdueByFacility"} |->
                   IF j \in Figures THEN @[j]
                   ELSE [f \in DOMAIN @.byFacility |->
                           Cardinality({c \in Cycle : Overdue(c) /\ cycles[c].facility = f})]]]
  /\ UNCHANGED <<now, cycles, scope, hidden, page>>

\* The page asks for the figures again when it is opened again.
Reopen ==
  /\ count.pc = "shown"
  /\ count' = NoCount
  /\ UNCHANGED <<now, cycles, scope, hidden, page>>

\* Status first, in the order the schema names them, then the deadline.
Before_DeadlineOnly(c, d) == cycles[c].deadline <= cycles[d].deadline
Before(c, d) ==
  \/ Rank[cycles[c].status] < Rank[cycles[d].status]
  \/ cycles[c].status = cycles[d].status /\ cycles[c].deadline <= cycles[d].deadline

Row(c) == [id |-> c, status |-> cycles[c].status, facility |-> cycles[c].facility]

GetPriorityQueue ==
  LET found == {c \in Cycle : InScope(c)} IN
  \E order \in SetToSeqs(found) :
    /\ \A i, j \in DOMAIN order : i < j => Before(order[i], order[j])
    /\ LET shown == IF Len(order) > Limit THEN SubSeq(order, 1, Limit) ELSE order IN
         page' = [page EXCEPT !.list = [i \in DOMAIN shown |-> Row(shown[i])],
                              !.cut = {c \in found \ ToSet(shown) : Running(c)}]
    /\ UNCHANGED <<now, cycles, scope, hidden, count>>

\* The facilities offered are those of the list.
SelectFacility(f) ==
  /\ f = Null \/ \E row \in ToSet(page.list) : row.facility = f
  /\ page' = [page EXCEPT !.facility = f]
  /\ UNCHANGED <<now, cycles, scope, hidden, count>>

Next ==
  \/ \E c \in Cycle : Start(c) \/ PickUp(c) \/ Deliver(c)
  \/ \E k \in Figures : Count(k)
  \/ \E f \in Facility \cup {Null} : SelectFacility(f)
  \/ \E f \in Facility : RemoveFacility(f)
  \/ Tick \/ GetStats \/ GroupByFacility \/ Reopen
  \/ GetPriorityQueue

Spec == Init /\ [][Next]_vars

\* A delivered cycle takes no place on the list from one still under way.
RunningComeFirst ==
  page.cut # {} => \A row \in ToSet(page.list) : row.status \in RunningStatus

\* Those of the cycles found that are at a hidden facility.
Elsewhere(found) == {c \in found : cycles[c].facility \in hidden}

\* When no cycle moved and no facility was removed while they were counted, the
\* figures add up: what is overdue is part of what is active, what was on time of
\* what was completed, and the facilities' figures sum to the totals, but for the
\* bins that are at work at a facility that was removed or is no processing plant,
\* which only the totals count (dashboard.service.ts:22-79, 104-129).
QuietFiguresAddUp ==
  (count.pc = "shown" /\ ~count.disturbed) =>
    LET n == count.seen
        active == {c \in Cycle : Running(c)}
        overdue == {c \in Cycle : Overdue(c)}
    IN /\ n.overdue <= n.active /\ n.onTime <= n.completed
       /\ SumFunction(n.byFacility) + Cardinality(Elsewhere(active)) = n.active
       /\ SumFunction(n.overdueByFacility) + Cardinality(Elsewhere(overdue)) = n.overdue
       /\ \A f \in DOMAIN n.byFacility : n.overdueByFacility[f] <= n.byFacility[f]
-----------------------------------------------------------------------------
(* The inductive invariant of these properties.                            *)

CycleRow == [status : DOMAIN Rank, facility : Facility, deadline : Nat, onTime : BOOLEAN]
ListRow == [id : Cycle, status : DOMAIN Rank, facility : Facility]

TypeOK ==
  /\ now \in Nat /\ scope \subseteq Facility /\ hidden \subseteq Facility
  /\ cycles \in [Cycle -> CycleRow \cup {Unstarted}]
  /\ \/ count = NoCount
     \/ count \in [pc : {"asked", "shown"}, now : Nat, seen : {count.seen}, disturbed : BOOLEAN]
  /\ page \in [list : Seq(ListRow), cut : SUBSET Cycle, facility : Facility \cup {Null}]

\* While no cycle moves and no facility goes, a figure stays what was counted.
FiguresAreOfNow ==
  count # NoCount =>
    /\ DOMAIN count.seen = Figures \cup {"overdueByFacility"} \/ count.pc = "asked"
    /\ \A k \in DOMAIN count.seen : ~count.disturbed =>
         count.seen[k] = IF k \in Figures THEN Figure(k)
                         ELSE PerFacility({c \in Cycle : Overdue(c)})

IInv == TypeOK /\ FiguresAreOfNow /\ RunningComeFirst
=============================================================================
