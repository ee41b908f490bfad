---------------------------- MODULE BinLifecycle ----------------------------
(***************************************************************************)
(* What the bin service and the cycle service promise together: the life   *)
(* of a bin as a sequence of atomic scans.  Scan 1 (facility tablet) opens *)
(* a cycle, scan 2 (driver) puts it in transit, scan 3 (driver) completes  *)
(* it and frees the bin; every scan appends one row to the event log.      *)
(*                                                                         *)
(* Here a scan is one step on the current rows.  BinTransactions gives the *)
(* scans the way the server runs them, as database transactions on         *)
(* snapshots with row locks, and is shown to implement this module.        *)
(* Anchoring composes this module with the blockchain service.             *)
(***************************************************************************)
EXTENDS Naturals, Sequences

CONSTANTS
  Bin,          \* ids of bins, those still to be created included
  Cycle,        \* ids of cycles (cuids, never reused)
  Facility,     \* ids of facilities
  User,         \* ids of users
  Org,          \* ids of organizations, the tenants
  Rendering,    \* the facilities whose type is RENDERING
  BinOrg,       \* the tenant of each bin
  FacilityOrg,  \* the tenant of each facility
  Home,         \* the facility of each registered bin; Null: not created yet
  DkHours,      \* the time the bin's type allows from start to delivery
  Instant,      \* the readings a clock may give
  Null          \* a database NULL

ConstantsFit ==
  /\ Rendering \subseteq Facility
  /\ BinOrg \in [Bin -> Org]
  /\ FacilityOrg \in [Facility -> Org]
  /\ Home \in [Bin -> Facility \cup {Null}]
  /\ \A b \in Bin : Home[b] # Null => FacilityOrg[Home[b]] = BinOrg[b]
  /\ DkHours \in [Bin -> Nat]
  /\ Instant \subseteq Nat
  /\ Null \notin Facility \cup Bin \cup User \cup Nat

ASSUME LifecycleConstants == ConstantsFit

VARIABLES
  bin,      \* the rows of table bins
  cycle,    \* the rows of table bin_cycles
  events    \* the rows of table event_logs, by cycle, in insertion order

vars == <<bin, cycle, events>>
-----------------------------------------------------------------------------
(* Rows.  "ABSENT" stands for "no row with this id".                       *)

BinStatus   == {"ABSENT", "IDLE", "ACTIVE", "IN_TRANSIT"}
CycleStatus == {"ABSENT", "ACTIVE", "IN_TRANSIT", "COMPLETED"}
EventType   == {"BIN_STARTED", "PICKED_UP", "DELIVERED"}
Compliance  == {"ON_TIME", "LATE"}

BinRow == [status : BinStatus, facility : Facility \cup {Null}]

CycleRow == [status      : CycleStatus,
             bin         : Bin \cup {Null},
             facility    : Facility \cup {Null},
             startedAt   : Nat \cup {Null},
             deadline    : Nat \cup {Null},
             driver      : User \cup {Null},
             pickedUpAt  : Nat \cup {Null},
             destination : Facility \cup {Null},
             deliveredAt : Nat \cup {Null},
             compliance  : Compliance \cup {Null}]

EventRow == [type : EventType, user : User, at : Nat]

NoCycle == [status |-> "ABSENT", bin |-> Null, facility |-> Null,
            startedAt |-> Null, deadline |-> Null, driver |-> Null,
            pickedUpAt |-> Null, destination |-> Null, deliveredAt |-> Null,
            compliance |-> Null]

\* Fields taken in the wrong order.
Event_Swapped(type, u, t) == [type |-> u, user |-> type, at |-> t]

Event(type, u, t) == [type |-> type, user |-> u, at |-> t]

\* lib/compliance.ts: delivered at the deadline itself is still on time.
CalculateCompliance(deliveredAt, deadline) ==
  IF deliveredAt <= deadline THEN "ON_TIME" ELSE "LATE"

\* The row that start and startDynamic insert.
StartedCycle(b, f, t) ==
  [NoCycle EXCEPT !.status = "ACTIVE", !.bin = b, !.facility = f,
                  !.startedAt = t, !.deadline = t + DkHours[b]]

\* The row after the update of pickup.
PickedUpCycle(row, u, t) ==
  [row EXCEPT !.status = "IN_TRANSIT", !.driver = u, !.pickedUpAt = t]

\* The row after the update of deliver.
DeliveredCycle(row, d, t) ==
  [row EXCEPT !.status = "COMPLETED", !.destination = d, !.deliveredAt = t,
              !.compliance = CalculateCompliance(t, row.deadline)]

OpenStatus == {"ACTIVE", "IN_TRANSIT"}

\* The cycles of bin b that the partial unique index
\* bin_cycles_one_active_per_bin holds an entry for.
OpenCycles(b) == {c \in Cycle : cycle[c].bin = b /\ cycle[c].status \in OpenStatus}
-----------------------------------------------------------------------------
Init ==
  /\ bin = [b \in Bin |-> [status   |-> IF Home[b] = Null THEN "ABSENT" ELSE "IDLE",
                           facility |-> Home[b]]]
  /\ cycle = [c \in Cycle |-> NoCycle]
  /\ events = [c \in Cycle |-> <<>>]

\* The three writes that open cycle c on bin b at facility f.
OpenCycle(b, c, f, u, t) ==
  /\ cycle[c].status = "ABSENT"
  /\ cycle' = [cycle EXCEPT ![c] = StartedCycle(b, f, t)]
  /\ bin' = [bin EXCEPT ![b] = [status |-> "ACTIVE", facility |-> f]]
  /\ events' = [events EXCEPT ![c] = Append(@, Event("BIN_STARTED", u, t))]

\* Scan 1 on the printed code of a registered bin.
Start(b, c, u, t) ==
  /\ Home[b] # Null
  /\ bin[b].status = "IDLE"
  /\ OpenCycle(b, c, bin[b].facility, u, t)

\* Scan 1 on the master QR code of a bin type: the bin is created on the fly.
StartDynamic(b, c, f, u, t) ==
  /\ bin[b].status = "ABSENT"
  /\ FacilityOrg[f] = BinOrg[b]
  /\ OpenCycle(b, c, f, u, t)

\* Scan 2.
Pickup(c, u, t) ==
  /\ cycle[c].status = "ACTIVE"
  /\ t >= cycle[c].startedAt
  /\ cycle' = [cycle EXCEPT ![c] = PickedUpCycle(@, u, t)]
  /\ bin' = [bin EXCEPT ![cycle[c].bin].status = "IN_TRANSIT"]
  /\ events' = [events EXCEPT ![c] = Append(@, Event("PICKED_UP", u, t))]

\* Scan 3.
Deliver(c, d, u, t) ==
  /\ cycle[c].status = "IN_TRANSIT"
  /\ t >= cycle[c].pickedUpAt
  /\ d \in Rendering
  /\ FacilityOrg[d] = BinOrg[cycle[c].bin]
  /\ cycle' = [cycle EXCEPT ![c] = DeliveredCycle(@, d, t)]
  /\ bin' = [bin EXCEPT ![cycle[c].bin].status = "IDLE"]
  /\ events' = [events EXCEPT ![c] = Append(@, Event("DELIVERED", u, t))]

Next ==
  \E u \in User, t \in Instant, c \in Cycle :
    \/ \E b \in Bin : Start(b, c, u, t)
    \/ \E b \in Bin, f \in Facility : StartDynamic(b, c, f, u, t)
    \/ Pickup(c, u, t)
    \/ \E d \in Facility : Deliver(c, d, u, t)

Spec == Init /\ [][Next]_vars
-----------------------------------------------------------------------------
(* Properties.                                                             *)

\* Every row has the shape the Prisma schema gives it.
TypeOK ==
  /\ bin \in [Bin -> BinRow]
  /\ cycle \in [Cycle -> CycleRow]
  /\ events \in [Cycle -> Seq(EventRow)]

\* Table bins and table bin_cycles tell the same story: a bin is IDLE (or not
\* created) exactly while it has no open cycle, and otherwise it has one open
\* cycle only, whose status it repeats.  Two writes of each scan keep this up
\* (bin.service.ts start, cycle.service.ts pickup and deliver); a bin left
\* ACTIVE without a cycle could never be scanned again.
BinMirrorsCycle ==
  \A b \in Bin :
    \/ bin[b].status \in {"ABSENT", "IDLE"} /\ OpenCycles(b) = {}
    \/ \E c \in Cycle : OpenCycles(b) = {c} /\ bin[b].status = cycle[c].status

\* The audit log of a cycle, as the row of the cycle says it must read.
ReplayOf(row, log) ==
  CASE row.status = "ABSENT" -> log = <<>>
    [] row.status = "ACTIVE" ->
         /\ Len(log) = 1
         /\ log[1].type = "BIN_STARTED" /\ log[1].at = row.startedAt
    [] row.status = "IN_TRANSIT" ->
         /\ Len(log) = 2
         /\ log[1].type = "BIN_STARTED" /\ log[1].at = row.startedAt
         /\ log[2] = Event("PICKED_UP", row.driver, row.pickedUpAt)
         /\ log[1].at <= log[2].at
    [] row.status = "COMPLETED" ->
         /\ Len(log) = 3
         /\ log[1].type = "BIN_STARTED" /\ log[1].at = row.startedAt
         /\ log[2] = Event("PICKED_UP", row.driver, row.pickedUpAt)
         /\ log[3].type = "DELIVERED" /\ log[3].at = row.deliveredAt
         /\ log[1].at <= log[2].at /\ log[2].at <= log[3].at

\* The "immutable event log" and the state it audits never disagree: the log of
\* every cycle is BIN_STARTED, PICKED_UP, DELIVERED, as far as the cycle has
\* come, each once, in the order of their timestamps, with the driver and the
\* times the cycle's row shows.  A scan applied twice, or two scans committed
\* out of order, would break it.
EventLogReplaysCycle == \A c \in Cycle : ReplayOf(cycle[c], events[c])

\* Tenants stay apart: the facility a cycle started at and the one it was
\* delivered to belong to the organization that owns the bin, and a bin with an
\* open cycle stands at the facility the cycle was started at.
TenantsStayApart ==
  \A c \in Cycle : cycle[c].status # "ABSENT" =>
    /\ cycle[c].facility \in Facility
    /\ FacilityOrg[cycle[c].facility] = BinOrg[cycle[c].bin]
    /\ cycle[c].status = "COMPLETED" =>
         /\ cycle[c].destination \in Rendering
         /\ FacilityOrg[cycle[c].destination] = BinOrg[cycle[c].bin]
    /\ bin[cycle[c].bin].facility = cycle[c].facility

\* A bin made up by startDynamic serves one cycle and is then left IDLE for good:
\* the validator of start refuses the code it was given.
OneCyclePerDynamicBin ==
  \A c1, c2 \in Cycle :
    /\ cycle[c1].status # "ABSENT" /\ cycle[c2].status # "ABSENT"
    /\ cycle[c1].bin = cycle[c2].bin /\ Home[cycle[c1].bin] = Null
    => c1 = c2

\* What is over stays as it was: a completed cycle's row never changes (its
\* canonical form is hashed into a Merkle tree) and no row of the event log is
\* ever changed or removed.
KeepsHistory ==
  \A c \in Cycle :
    /\ cycle[c].status = "COMPLETED" => cycle'[c] = cycle[c]
    /\ Len(events'[c]) >= Len(events[c])
    /\ \A i \in 1..Len(events[c]) : events'[c][i] = events[c][i]

HistoryIsFrozen == [][KeepsHistory]_vars
=============================================================================
