------------------------ MODULE BinLifecycle_proofs -------------------------
(***************************************************************************)
(* Proofs about BinLifecycle, for every set of bins, cycles, facilities,   *)
(* users, tenants and clock readings.                                      *)
(*                                                                         *)
(* BinMirrorsCycle and TenantsStayApart are not inductive: a step keeps    *)
(* them only where rows are complete (an open cycle names a bin), where a  *)
(* registered bin stays at its facility, and where a bin not created yet   *)
(* has no cycle.  IInv adds these facts, and says "one open cycle whose    *)
(* status the bin repeats" row by row.                                     *)
(***************************************************************************)
EXTENDS BinLifecycle, TLAPS

IsOpen(c) == cycle[c].status \in OpenStatus

\* A row has the columns its status calls for.
RowsComplete ==
  \A c \in Cycle :
    /\ cycle[c].status = "ABSENT" => cycle[c].bin = Null
    /\ cycle[c].status # "ABSENT" =>
         /\ cycle[c].bin \in Bin
         /\ cycle[c].facility \in Facility
         /\ cycle[c].startedAt \in Nat
         /\ cycle[c].deadline \in Nat
    /\ cycle[c].status \in {"IN_TRANSIT", "COMPLETED"} =>
         cycle[c].driver \in User /\ cycle[c].pickedUpAt \in Nat

HomeKept ==
  \A b \in Bin :
    Home[b] # Null => bin[b].status # "ABSENT" /\ bin[b].facility = Home[b]

UncreatedUnused ==
  \A b \in Bin : bin[b].status = "ABSENT" => \A c \in Cycle : cycle[c].bin # b

OpenIsMirrored ==
  \A c \in Cycle : IsOpen(c) => bin[cycle[c].bin].status = cycle[c].status

OneOpen ==
  \A c1, c2 \in Cycle :
    IsOpen(c1) /\ IsOpen(c2) /\ cycle[c1].bin = cycle[c2].bin => c1 = c2

BusyHasOpen ==
  \A b \in Bin : bin[b].status \in OpenStatus =>
    \E c \in Cycle : IsOpen(c) /\ cycle[c].bin = b

Mirror == OpenIsMirrored /\ OneOpen /\ BusyHasOpen

IInv ==
  /\ TypeOK
  /\ RowsComplete
  /\ HomeKept
  /\ UncreatedUnused
  /\ Mirror
  /\ TenantsStayApart
  /\ OneCyclePerDynamicBin
  /\ EventLogReplaysCycle
-----------------------------------------------------------------------------
(* The rows that the scans write.                                          *)

\* What startDynamic and start insert.
LEMMA StartedRow ==
  ASSUME NEW b \in Bin, NEW f \in Facility, NEW t \in Nat
  PROVE  LET row == StartedCycle(b, f, t)
         IN  /\ row \in CycleRow
             /\ row.status = "ACTIVE" /\ row.bin = b /\ row.facility = f
             /\ row.startedAt = t /\ row.deadline \in Nat
<1>1. DkHours[b] \in Nat
  BY LifecycleConstants DEF ConstantsFit
<1>2. t + DkHours[b] \in Nat
  BY <1>1
<1> QED
  BY <1>2 DEF StartedCycle, NoCycle, CycleRow, CycleStatus

\* What pickup leaves of a row.
LEMMA PickedUpRow ==
  ASSUME NEW row \in CycleRow, NEW u \in User, NEW t \in Nat
  PROVE  LET new == PickedUpCycle(row, u, t)
         IN  /\ new \in CycleRow
             /\ new.status = "IN_TRANSIT" /\ new.driver = u /\ new.pickedUpAt = t
             /\ new.bin = row.bin /\ new.facility = row.facility
             /\ new.startedAt = row.startedAt /\ new.deadline = row.deadline
  BY DEF PickedUpCycle, CycleRow, CycleStatus

\* What deliver leaves of a row.
LEMMA DeliveredRow ==
  ASSUME NEW row \in CycleRow, NEW d \in Facility, NEW t \in Nat
  PROVE  LET new == DeliveredCycle(row, d, t)
         IN  /\ new \in CycleRow
             /\ new.status = "COMPLETED" /\ new.destination = d /\ new.deliveredAt = t
             /\ new.driver = row.driver /\ new.pickedUpAt = row.pickedUpAt
             /\ new.bin = row.bin /\ new.facility = row.facility
             /\ new.startedAt = row.startedAt /\ new.deadline = row.deadline
<1>1. CalculateCompliance(t, row.deadline) \in Compliance
  BY DEF CalculateCompliance, Compliance
<1> QED
  BY <1>1 DEF DeliveredCycle, CycleRow, CycleStatus

\* Appending one event keeps the log a log.
LEMMA AppendedEvent ==
  ASSUME NEW log \in Seq(EventRow), NEW type \in EventType, NEW u \in User, NEW t \in Nat
  PROVE  /\ Event(type, u, t) \in EventRow
         /\ Append(log, Event(type, u, t)) \in Seq(EventRow)
         /\ Len(Append(log, Event(type, u, t))) = Len(log) + 1
         /\ Append(log, Event(type, u, t))[Len(log) + 1] = Event(type, u, t)
         /\ \A i \in 1..Len(log) : Append(log, Event(type, u, t))[i] = log[i]
<1>1. Event(type, u, t) \in EventRow
  BY DEF Event, EventRow
<1> QED
  BY <1>1
-----------------------------------------------------------------------------
(* The invariant holds at first, and each scan keeps it.                   *)

LEMMA InitIInv == Init => IInv
<1> SUFFICES ASSUME Init PROVE IInv
  OBVIOUS
<1> USE DEF Init
<1>1. TypeOK
  <2>1. bin \in [Bin -> BinRow]
    BY LifecycleConstants DEF BinRow, BinStatus, ConstantsFit
  <2>2. NoCycle \in CycleRow
    BY DEF NoCycle, CycleRow, CycleStatus
  <2> QED
    BY <2>1, <2>2 DEF TypeOK
<1>2. \A c \in Cycle : cycle[c].status = "ABSENT" /\ cycle[c].bin = Null
  BY DEF NoCycle
<1>3. RowsComplete /\ TenantsStayApart /\ OneCyclePerDynamicBin
  BY <1>2 DEF RowsComplete, TenantsStayApart, OneCyclePerDynamicBin
<1>4. HomeKept
  BY DEF HomeKept
<1>5. UncreatedUnused
  BY <1>2, LifecycleConstants DEF UncreatedUnused, ConstantsFit
<1>6. Mirror
  BY <1>2 DEF Mirror, OpenIsMirrored, OneOpen, BusyHasOpen, IsOpen, OpenStatus
<1>7. EventLogReplaysCycle
  BY <1>2 DEF EventLogReplaysCycle, ReplayOf
<1> QED
  BY <1>1, <1>3, <1>4, <1>5, <1>6, <1>7 DEF IInv

\* Scan 1, for start and startDynamic alike: b is free, and a bin that was made
\* up by startDynamic before does not get here.
LEMMA OpenCycleIInv ==
  ASSUME IInv,
         NEW b \in Bin, NEW c \in Cycle, NEW f \in Facility, NEW u \in User, NEW t \in Nat,
         bin[b].status \in {"ABSENT", "IDLE"},
         FacilityOrg[f] = BinOrg[b],
         Home[b] # Null => f = Home[b],
         Home[b] = Null => bin[b].status = "ABSENT",
         OpenCycle(b, c, f, u, t)
  PROVE  IInv'
<1> DEFINE new == StartedCycle(b, f, t)
           ev  == Event("BIN_STARTED", u, t)
<1>1. /\ cycle[c].status = "ABSENT"
      /\ cycle' = [cycle EXCEPT ![c] = new]
      /\ bin' = [bin EXCEPT ![b] = [status |-> "ACTIVE", facility |-> f]]
      /\ events' = [events EXCEPT ![c] = Append(@, ev)]
  BY DEF OpenCycle
<1>2. /\ new \in CycleRow
      /\ new.status = "ACTIVE" /\ new.bin = b /\ new.facility = f
      /\ new.startedAt = t /\ new.deadline \in Nat
  BY StartedRow
<1> HIDE DEF new
<1>3. /\ bin \in [Bin -> BinRow] /\ cycle \in [Cycle -> CycleRow]
      /\ events \in [Cycle -> Seq(EventRow)]
  BY DEF IInv, TypeOK
<1>4. /\ cycle'[c] = new
      /\ \A k \in Cycle : k # c => cycle'[k] = cycle[k] /\ events'[k] = events[k]
      /\ bin'[b].status = "ACTIVE" /\ bin'[b].facility = f
      /\ \A k \in Bin : k # b => bin'[k] = bin[k]
      /\ events'[c] = Append(events[c], ev)
  BY <1>1, <1>3
<1>5. /\ ev \in EventRow
      /\ events'[c] \in Seq(EventRow)
      /\ Len(events'[c]) = Len(events[c]) + 1
      /\ events'[c][Len(events[c]) + 1] = ev
  BY <1>3, <1>4, AppendedEvent DEF EventType
<1>6. TypeOK'
  BY <1>1, <1>2, <1>3, <1>5 DEF TypeOK, BinRow, BinStatus
<1>7. RowsComplete'
  BY <1>2, <1>4 DEF IInv, RowsComplete
<1>8. HomeKept'
  BY <1>4 DEF IInv, HomeKept
<1>9. UncreatedUnused'
  BY <1>2, <1>4 DEF IInv, UncreatedUnused
<1>10. \A k \in Cycle : IsOpen(k) => cycle[k].bin # b
  BY DEF IInv, Mirror, OpenIsMirrored, IsOpen, OpenStatus
<1>11. Mirror'
  <2>1. OpenIsMirrored'
    <3> SUFFICES ASSUME NEW k \in Cycle, IsOpen(k)'
                 PROVE  (bin[cycle[k].bin].status = cycle[k].status)'
      BY DEF OpenIsMirrored
    <3>1. CASE k = c
      BY <3>1, <1>2, <1>4
    <3>2. CASE k # c
      <4>1. IsOpen(k) /\ cycle'[k] = cycle[k]
        BY <3>2, <1>4 DEF IsOpen
      <4>2. cycle[k].bin \in Bin /\ cycle[k].bin # b
        BY <4>1, <1>10 DEF IInv, RowsComplete, IsOpen, OpenStatus
      <4> QED
        BY <4>1, <4>2, <1>4 DEF IInv, Mirror, OpenIsMirrored
    <3> QED
      BY <3>1, <3>2
  <2>2. OneOpen'
    BY <1>2, <1>4, <1>10 DEF IInv, Mirror, OneOpen, IsOpen
  <2>3. BusyHasOpen'
    <3> SUFFICES ASSUME NEW k \in Bin, bin'[k].status \in OpenStatus
                 PROVE  \E d \in Cycle : IsOpen(d)' /\ cycle'[d].bin = k
      BY DEF BusyHasOpen
    <3>1. CASE k = b
      BY <3>1, <1>2, <1>4 DEF IsOpen, OpenStatus
    <3>2. CASE k # b
      <4>1. PICK d \in Cycle : IsOpen(d) /\ cycle[d].bin = k
        BY <3>2, <1>4 DEF IInv, Mirror, BusyHasOpen
      <4>2. d # c
        BY <4>1, <1>1 DEF IsOpen, OpenStatus
      <4> QED
        BY <4>1, <4>2, <1>4 DEF IsOpen
    <3> QED
      BY <3>1, <3>2
  <2> QED
    BY <2>1, <2>2, <2>3 DEF Mirror
<1>12. TenantsStayApart'
  <2> SUFFICES ASSUME NEW k \in Cycle, cycle'[k].status # "ABSENT"
               PROVE  /\ cycle'[k].facility \in Facility
                      /\ FacilityOrg[cycle'[k].facility] = BinOrg[cycle'[k].bin]
                      /\ cycle'[k].status = "COMPLETED" =>
                           /\ cycle'[k].destination \in Rendering
                           /\ FacilityOrg[cycle'[k].destination] = BinOrg[cycle'[k].bin]
                      /\ bin'[cycle'[k].bin].facility = cycle'[k].facility
    BY DEF TenantsStayApart
  <2>1. CASE k = c
    BY <2>1, <1>2, <1>4
  <2>2. CASE k # c
    <3>1. cycle'[k] = cycle[k] /\ cycle[k].bin \in Bin
      BY <2>2, <1>4 DEF IInv, RowsComplete
    <3>2. bin'[cycle[k].bin].facility = bin[cycle[k].bin].facility
      <4>1. CASE cycle[k].bin # b
        BY <4>1, <3>1, <1>4
      <4>2. CASE cycle[k].bin = b
        <5>1. bin[b].status # "ABSENT"
          BY <4>2 DEF IInv, UncreatedUnused
        <5>2. Home[b] # Null /\ bin[b].facility = f
          BY <5>1 DEF IInv, HomeKept
        <5> QED
          BY <4>2, <5>2, <1>4
      <4> QED
        BY <4>1, <4>2
    <3> QED
      BY <3>1, <3>2 DEF IInv, TenantsStayApart
  <2> QED
    BY <2>1, <2>2
<1>13. OneCyclePerDynamicBin'
  <2>1. Home[b] = Null => \A k \in Cycle : cycle[k].bin # b
    BY DEF IInv, UncreatedUnused
  <2> QED
    BY <2>1, <1>2, <1>4 DEF IInv, OneCyclePerDynamicBin
<1>14. EventLogReplaysCycle'
  <2>1. events[c] = <<>>
    BY <1>1 DEF IInv, EventLogReplaysCycle, ReplayOf
  <2>2. Len(events'[c]) = 1 /\ events'[c][1] = ev
    BY <2>1, <1>5
  <2>3. events'[c][1].type = "BIN_STARTED" /\ events'[c][1].at = t
    BY <2>2 DEF Event
  <2>4. cycle'[c].status = "ACTIVE" /\ cycle'[c].startedAt = t
    BY <1>2, <1>4
  <2>5. ReplayOf(cycle'[c], events'[c])
    BY <2>2, <2>3, <2>4 DEF ReplayOf
  <2> QED
    BY <2>5, <1>4 DEF IInv, EventLogReplaysCycle
<1> QED
  BY <1>6, <1>7, <1>8, <1>9, <1>11, <1>12, <1>13, <1>14 DEF IInv

\* Scan 2.
LEMMA PickupIInv ==
  ASSUME IInv, NEW c \in Cycle, NEW u \in User, NEW t \in Nat, Pickup(c, u, t)
  PROVE  IInv'
<1> DEFINE new == PickedUpCycle(cycle[c], u, t)
           ev  == Event("PICKED_UP", u, t)
           b   == cycle[c].bin
<1>1. /\ cycle[c].status = "ACTIVE" /\ t >= cycle[c].startedAt
      /\ cycle' = [cycle EXCEPT ![c] = new]
      /\ bin' = [bin EXCEPT ![b].status = "IN_TRANSIT"]
      /\ events' = [events EXCEPT ![c] = Append(@, ev)]
  BY DEF Pickup
<1>2. /\ bin \in [Bin -> BinRow] /\ cycle \in [Cycle -> CycleRow]
      /\ events \in [Cycle -> Seq(EventRow)]
  BY DEF IInv, TypeOK
<1>3. /\ new \in CycleRow
      /\ new.status = "IN_TRANSIT" /\ new.driver = u /\ new.pickedUpAt = t
      /\ new.bin = b /\ new.facility = cycle[c].facility
      /\ new.startedAt = cycle[c].startedAt /\ new.deadline = cycle[c].deadline
  BY <1>2, PickedUpRow
<1>4. b \in Bin
  BY <1>1 DEF IInv, RowsComplete
<1> HIDE DEF new
<1>5. /\ cycle'[c] = new
      /\ \A k \in Cycle : k # c => cycle'[k] = cycle[k] /\ events'[k] = events[k]
      /\ bin'[b].status = "IN_TRANSIT" /\ bin'[b].facility = bin[b].facility
      /\ \A k \in Bin : k # b => bin'[k] = bin[k]
      /\ events'[c] = Append(events[c], ev)
  BY <1>1, <1>2, <1>4 DEF BinRow
<1>6. /\ ev \in EventRow
      /\ events'[c] \in Seq(EventRow)
      /\ Len(events'[c]) = Len(events[c]) + 1
      /\ events'[c][Len(events[c]) + 1] = ev
      /\ \A i \in 1..Len(events[c]) : events'[c][i] = events[c][i]
  BY <1>2, <1>5, AppendedEvent DEF EventType
<1>7. TypeOK'
  BY <1>1, <1>2, <1>3, <1>6 DEF TypeOK, BinRow, BinStatus
<1>8. RowsComplete'
  BY <1>1, <1>3, <1>5 DEF IInv, RowsComplete
<1>9. HomeKept'
  BY <1>5 DEF IInv, HomeKept
<1>10. UncreatedUnused'
  BY <1>3, <1>5 DEF IInv, UncreatedUnused
<1>11. \A k \in Cycle : k # c /\ IsOpen(k) => cycle[k].bin # b
  BY <1>1 DEF IInv, Mirror, OneOpen, IsOpen, OpenStatus
<1>12. Mirror'
  <2>1. OpenIsMirrored'
    <3> SUFFICES ASSUME NEW k \in Cycle, IsOpen(k)'
                 PROVE  (bin[cycle[k].bin].status = cycle[k].status)'
      BY DEF OpenIsMirrored
    <3>1. CASE k = c
      BY <3>1, <1>3, <1>5
    <3>2. CASE k # c
      <4>1. IsOpen(k) /\ cycle'[k] = cycle[k]
        BY <3>2, <1>5 DEF IsOpen
      <4>2. cycle[k].bin \in Bin /\ cycle[k].bin # b
        BY <3>2, <4>1, <1>11 DEF IInv, RowsComplete, IsOpen, OpenStatus
      <4> QED
        BY <4>1, <4>2, <1>5 DEF IInv, Mirror, OpenIsMirrored
    <3> QED
      BY <3>1, <3>2
  <2>2. OneOpen'
    BY <1>3, <1>5, <1>11 DEF IInv, Mirror, OneOpen, IsOpen
  <2>3. BusyHasOpen'
    <3> SUFFICES ASSUME NEW k \in Bin, bin'[k].status \in OpenStatus
                 PROVE  \E d \in Cycle : IsOpen(d)' /\ cycle'[d].bin = k
      BY DEF BusyHasOpen
    <3>1. CASE k = b
      BY <3>1, <1>3, <1>5 DEF IsOpen, OpenStatus
    <3>2. CASE k # b
      <4>1. PICK d \in Cycle : IsOpen(d) /\ cycle[d].bin = k
        BY <3>2, <1>5 DEF IInv, Mirror, BusyHasOpen
      <4> QED
        BY <3>2, <4>1, <1>5 DEF IsOpen
    <3> QED
      BY <3>1, <3>2
  <2> QED
    BY <2>1, <2>2, <2>3 DEF Mirror
<1>13. TenantsStayApart'
  BY <1>1, <1>3, <1>4, <1>5 DEF IInv, RowsComplete, TenantsStayApart
<1>14. OneCyclePerDynamicBin'
  BY <1>1, <1>3, <1>5 DEF IInv, OneCyclePerDynamicBin
<1>15. EventLogReplaysCycle'
  <2>1. /\ Len(events[c]) = 1 /\ events[c][1].type = "BIN_STARTED"
        /\ events[c][1].at = cycle[c].startedAt
    BY <1>1 DEF IInv, EventLogReplaysCycle, ReplayOf
  <2>2. Len(events'[c]) = 2 /\ events'[c][1] = events[c][1] /\ events'[c][2] = ev
    BY <2>1, <1>6
  <2>3. cycle'[c].status = "IN_TRANSIT" /\ ev = Event("PICKED_UP", cycle'[c].driver, cycle'[c].pickedUpAt)
    BY <1>3, <1>5
  <2>4. events'[c][1].at <= events'[c][2].at
    BY <2>1, <2>2, <1>1 DEF Event
  <2>5. events'[c][1].at = cycle'[c].startedAt
    BY <2>1, <2>2, <1>3, <1>5
  <2> HIDE DEF ev
  <2>6. ReplayOf(cycle'[c], events'[c])
    BY <2>1, <2>2, <2>3, <2>4, <2>5 DEF ReplayOf
  <2> QED
    BY <2>6, <1>5 DEF IInv, EventLogReplaysCycle
<1> QED
  BY <1>7, <1>8, <1>9, <1>10, <1>12, <1>13, <1>14, <1>15 DEF IInv

\* Scan 3.
LEMMA DeliverIInv ==
  ASSUME IInv, NEW c \in Cycle, NEW d \in Facility, NEW u \in User, NEW t \in Nat,
         Deliver(c, d, u, t)
  PROVE  IInv'
<1> DEFINE new == DeliveredCycle(cycle[c], d, t)
           ev  == Event("DELIVERED", u, t)
           b   == cycle[c].bin
<1>1. /\ cycle[c].status = "IN_TRANSIT" /\ t >= cycle[c].pickedUpAt
      /\ d \in Rendering /\ FacilityOrg[d] = BinOrg[b]
      /\ cycle' = [cycle EXCEPT ![c] = new]
      /\ bin' = [bin EXCEPT ![b].status = "IDLE"]
      /\ events' = [events EXCEPT ![c] = Append(@, ev)]
  BY DEF Deliver
<1>2. /\ bin \in [Bin -> BinRow] /\ cycle \in [Cycle -> CycleRow]
      /\ events \in [Cycle -> Seq(EventRow)]
  BY DEF IInv, TypeOK
<1>3. /\ new \in CycleRow
      /\ new.status = "COMPLETED" /\ new.destination = d /\ new.deliveredAt = t
      /\ new.driver = cycle[c].driver /\ new.pickedUpAt = cycle[c].pickedUpAt
      /\ new.bin = b /\ new.facility = cycle[c].facility
      /\ new.startedAt = cycle[c].startedAt /\ new.deadline = cycle[c].deadline
  BY <1>2, DeliveredRow
<1>4. b \in Bin
  BY <1>1 DEF IInv, RowsComplete
<1> HIDE DEF new
<1>5. /\ cycle'[c] = new
      /\ \A k \in Cycle : k # c => cycle'[k] = cycle[k] /\ events'[k] = events[k]
      /\ bin'[b].status = "IDLE" /\ bin'[b].facility = bin[b].facility
      /\ \A k \in Bin : k # b => bin'[k] = bin[k]
      /\ events'[c] = Append(events[c], ev)
  BY <1>1, <1>2, <1>4 DEF BinRow
<1>6. /\ ev \in EventRow
      /\ events'[c] \in Seq(EventRow)
      /\ Len(events'[c]) = Len(events[c]) + 1
      /\ events'[c][Len(events[c]) + 1] = ev
      /\ \A i \in 1..Len(events[c]) : events'[c][i] = events[c][i]
  BY <1>2, <1>5, AppendedEvent DEF EventType
<1>7. TypeOK'
  BY <1>1, <1>2, <1>3, <1>6 DEF TypeOK, BinRow, BinStatus
<1>8. RowsComplete'
  BY <1>1, <1>3, <1>5 DEF IInv, RowsComplete
<1>9. HomeKept'
  BY <1>5 DEF IInv, HomeKept
<1>10. UncreatedUnused'
  BY <1>3, <1>5 DEF IInv, UncreatedUnused
<1>11. \A k \in Cycle : k # c /\ IsOpen(k) => cycle[k].bin # b
  BY <1>1 DEF IInv, Mirror, OneOpen, IsOpen, OpenStatus
<1>12. Mirror'
  <2>1. \A k \in Cycle : IsOpen(k)' => k # c /\ IsOpen(k) /\ cycle'[k] = cycle[k]
    BY <1>3, <1>5 DEF IsOpen, OpenStatus
  <2>2. OpenIsMirrored'
    BY <2>1, <1>5, <1>11 DEF IInv, RowsComplete, Mirror, OpenIsMirrored, IsOpen, OpenStatus
  <2>3. OneOpen'
    BY <2>1 DEF IInv, Mirror, OneOpen
  <2>4. BusyHasOpen'
    <3> SUFFICES ASSUME NEW k \in Bin, bin'[k].status \in OpenStatus
                 PROVE  \E e \in Cycle : IsOpen(e)' /\ cycle'[e].bin = k
      BY DEF BusyHasOpen
    <3>1. k # b
      BY <1>5 DEF OpenStatus
    <3>2. PICK e \in Cycle : IsOpen(e) /\ cycle[e].bin = k
      BY <3>1, <1>5 DEF IInv, Mirror, BusyHasOpen
    <3> QED
      BY <3>1, <3>2, <1>5 DEF IsOpen
  <2> QED
    BY <2>2, <2>3, <2>4 DEF Mirror
<1>13. TenantsStayApart'
  BY <1>1, <1>3, <1>4, <1>5 DEF IInv, RowsComplete, TenantsStayApart
<1>14. OneCyclePerDynamicBin'
  BY <1>1, <1>3, <1>5 DEF IInv, OneCyclePerDynamicBin
<1>15. EventLogReplaysCycle'
  <2>1. /\ Len(events[c]) = 2 /\ events[c][1].type = "BIN_STARTED"
        /\ events[c][1].at = cycle[c].startedAt
        /\ events[c][2] = Event("PICKED_UP", cycle[c].driver, cycle[c].pickedUpAt)
        /\ events[c][1].at <= events[c][2].at
    BY <1>1 DEF IInv, EventLogReplaysCycle, ReplayOf
  <2>2. /\ Len(events'[c]) = 3
        /\ events'[c][1] = events[c][1] /\ events'[c][2] = events[c][2]
        /\ events'[c][3] = ev
    BY <2>1, <1>6
  <2>3. /\ cycle'[c].status = "COMPLETED" /\ cycle'[c].deliveredAt = t
        /\ cycle'[c].startedAt = cycle[c].startedAt
        /\ cycle'[c].driver = cycle[c].driver
        /\ cycle'[c].pickedUpAt = cycle[c].pickedUpAt
    BY <1>3, <1>5
  <2>4. events'[c][3].type = "DELIVERED" /\ events'[c][3].at = t
    BY <2>2 DEF Event
  <2>5. events'[c][2].at <= events'[c][3].at
    BY <2>1, <2>2, <2>4, <1>1 DEF Event
  <2> HIDE DEF ev
  <2>6. ReplayOf(cycle'[c], events'[c])
    BY <2>1, <2>2, <2>3, <2>4, <2>5 DEF ReplayOf
  <2> QED
    BY <2>6, <1>5 DEF IInv, EventLogReplaysCycle
<1> QED
  BY <1>7, <1>8, <1>9, <1>10, <1>12, <1>13, <1>14, <1>15 DEF IInv

\* Start and startDynamic meet the conditions of OpenCycleIInv.
LEMMA NextIInv == IInv /\ [Next]_vars => IInv'
<1> SUFFICES ASSUME IInv, [Next]_vars PROVE IInv'
  OBVIOUS
<1>1. CASE Next
  <2>1. PICK u \in User, t \in Instant, c \in Cycle :
          \/ \E b \in Bin : Start(b, c, u, t)
          \/ \E b \in Bin, f \in Facility : StartDynamic(b, c, f, u, t)
          \/ Pickup(c, u, t)
          \/ \E d \in Facility : Deliver(c, d, u, t)
    BY <1>1 DEF Next
  <2>2. t \in Nat
    BY LifecycleConstants DEF ConstantsFit
  <2>3. ASSUME NEW b \in Bin, Start(b, c, u, t) PROVE IInv'
    <3>1. /\ Home[b] # Null /\ bin[b].status = "IDLE"
          /\ OpenCycle(b, c, bin[b].facility, u, t)
      BY <2>3 DEF Start
    <3>2. bin[b].facility = Home[b]
      BY <3>1 DEF IInv, HomeKept
    <3>3. Home[b] \in Facility /\ FacilityOrg[Home[b]] = BinOrg[b]
      BY <3>1, LifecycleConstants DEF ConstantsFit
    <3> QED
      BY <2>2, <3>1, <3>2, <3>3, OpenCycleIInv
  <2>4. ASSUME NEW b \in Bin, NEW f \in Facility, StartDynamic(b, c, f, u, t)
        PROVE  IInv'
    <3>1. /\ bin[b].status = "ABSENT" /\ FacilityOrg[f] = BinOrg[b]
          /\ OpenCycle(b, c, f, u, t)
      BY <2>4 DEF StartDynamic
    <3>2. Home[b] = Null
      BY <3>1 DEF IInv, HomeKept
    <3> QED
      BY <2>2, <3>1, <3>2, OpenCycleIInv
  <2> QED
    BY <2>1, <2>2, <2>3, <2>4, PickupIInv, DeliverIInv
<1>2. CASE UNCHANGED vars
  BY <1>2 DEF vars, IInv, TypeOK, RowsComplete, HomeKept, UncreatedUnused, Mirror,
              OpenIsMirrored, OneOpen, BusyHasOpen, IsOpen, TenantsStayApart,
              OneCyclePerDynamicBin, EventLogReplaysCycle
<1> QED
  BY <1>1, <1>2

LEMMA InvariantHolds == Spec => []IInv
  BY InitIInv, NextIInv, PTL DEF Spec
\* The invariant in the words of BinMirrorsCycle.
LEMMA MirrorFromIInv == IInv => BinMirrorsCycle
<1> SUFFICES ASSUME IInv, NEW b \in Bin
             PROVE  \/ bin[b].status \in {"ABSENT", "IDLE"} /\ OpenCycles(b) = {}
                    \/ \E c \in Cycle : OpenCycles(b) = {c} /\ bin[b].status = cycle[c].status
  BY DEF BinMirrorsCycle
<1>1. bin[b].status \in BinStatus
  BY DEF IInv, TypeOK, BinRow
<1>2. CASE bin[b].status \in OpenStatus
  <2>1. PICK c \in Cycle : IsOpen(c) /\ cycle[c].bin = b
    BY <1>2 DEF IInv, Mirror, BusyHasOpen
  <2>2. OpenCycles(b) = {c}
    BY <2>1 DEF IInv, Mirror, OneOpen, OpenCycles, IsOpen
  <2> QED
    BY <2>1, <2>2 DEF IInv, Mirror, OpenIsMirrored
<1>3. CASE bin[b].status \notin OpenStatus
  <2>1. OpenCycles(b) = {}
    BY <1>3 DEF IInv, Mirror, OpenIsMirrored, OpenCycles, IsOpen
  <2> QED
    BY <1>1, <1>3, <2>1 DEF BinStatus, OpenStatus
<1> QED
  BY <1>2, <1>3

\* A scan writes one cycle, which is not completed, and appends to its log.
LEMMA StepKeepsHistory == TypeOK /\ [Next]_vars => [KeepsHistory]_vars
<1>1. ASSUME TypeOK, NEW c \in Cycle, NEW row, NEW type \in EventType, NEW u \in User,
             NEW t \in Nat,
             cycle[c].status # "COMPLETED",
             cycle' = [cycle EXCEPT ![c] = row],
             events' = [events EXCEPT ![c] = Append(@, Event(type, u, t))]
      PROVE  KeepsHistory
  <2> SUFFICES ASSUME NEW k \in Cycle
               PROVE  /\ cycle[k].status = "COMPLETED" => cycle'[k] = cycle[k]
                      /\ Len(events'[k]) >= Len(events[k])
                      /\ \A i \in 1..Len(events[k]) : events'[k][i] = events[k][i]
    BY DEF KeepsHistory
  <2>1. events[k] \in Seq(EventRow) /\ Len(events[k]) \in Nat
    BY <1>1 DEF TypeOK
  <2>2. CASE k = c
    <3>1. events'[c] = Append(events[c], Event(type, u, t))
      BY <1>1 DEF TypeOK
    <3> QED
      BY <1>1, <2>1, <2>2, <3>1, AppendedEvent
  <2>3. CASE k # c
    <3>1. cycle'[k] = cycle[k] /\ events'[k] = events[k]
      BY <1>1, <2>3 DEF TypeOK
    <3> QED
      BY <2>1, <3>1
  <2> QED
    BY <2>2, <2>3
<1> SUFFICES ASSUME TypeOK, Next PROVE KeepsHistory
  OBVIOUS
<1>2. PICK u \in User, t \in Instant, c \in Cycle :
        \/ \E b \in Bin : Start(b, c, u, t)
        \/ \E b \in Bin, f \in Facility : StartDynamic(b, c, f, u, t)
        \/ Pickup(c, u, t)
        \/ \E d \in Facility : Deliver(c, d, u, t)
  BY DEF Next
<1>3. t \in Nat
  BY LifecycleConstants DEF ConstantsFit
<1>4. ASSUME NEW b \in Bin, NEW f, OpenCycle(b, c, f, u, t) PROVE KeepsHistory
  BY <1>1, <1>3, <1>4 DEF OpenCycle, EventType
<1>5. CASE Pickup(c, u, t)
  BY <1>1, <1>3, <1>5 DEF Pickup, EventType
<1>6. ASSUME NEW d \in Facility, Deliver(c, d, u, t) PROVE KeepsHistory
  BY <1>1, <1>3, <1>6 DEF Deliver, EventType
<1> QED
  BY <1>2, <1>4, <1>5, <1>6 DEF Start, StartDynamic
-----------------------------------------------------------------------------
(* The theorems.                                                           *)

\* Every row keeps the shape the schema gives it.
THEOREM TypeCorrect == Spec => []TypeOK
<1>1. IInv => TypeOK
  BY DEF IInv
<1> QED
  BY <1>1, InvariantHolds, PTL

\* The two tables agree: a bin is free exactly while it has no open cycle, and
\* otherwise repeats the status of its only one.
THEOREM BinsMirrorCycles == Spec => []BinMirrorsCycle
  BY MirrorFromIInv, InvariantHolds, PTL

\* The log of every cycle is the history its row tells.
THEOREM LogsReplayCycles == Spec => []EventLogReplaysCycle
<1>1. IInv => EventLogReplaysCycle
  BY DEF IInv
<1> QED
  BY <1>1, InvariantHolds, PTL

\* No cycle crosses from one tenant to another.
THEOREM TenantsAreSeparate == Spec => []TenantsStayApart
<1>1. IInv => TenantsStayApart
  BY DEF IInv
<1> QED
  BY <1>1, InvariantHolds, PTL

\* A bin made up by startDynamic is never started again.
THEOREM DynamicBinsServeOnce == Spec => []OneCyclePerDynamicBin
<1>1. IInv => OneCyclePerDynamicBin
  BY DEF IInv
<1> QED
  BY <1>1, InvariantHolds, PTL

\* A completed cycle's row and every row of the event log stay as they are.
THEOREM HistoryStaysFrozen == Spec => HistoryIsFrozen
  BY StepKeepsHistory, TypeCorrect, PTL DEF Spec, HistoryIsFrozen
=============================================================================
