------------------------- MODULE SensorFleet_proofs -------------------------
(***************************************************************************)
(* Proofs about SensorFleet, for every set of devices, organizations,      *)
(* facilities, zones, requests and uploads.                                *)
(*                                                                         *)
(* A tenant's window on a device opens at assignedAt, which is the time at *)
(* which the transaction that placed the device was opened.  FInv says     *)
(* that from then on the device was claimed for its owner at every tick,   *)
(* and that the same holds already of a transaction that has not committed *)
(* (Backed); so it does not matter when the transaction commits, nor when  *)
(* a reading arrives.  A request's target stays as it was found, but for   *)
(* its zone: that is what the foreign keys are for.                        *)
(***************************************************************************)
EXTENDS SensorFleet, TLAPS

DeviceState == {"ABSENT", "UNASSIGNED", "ACTIVE", "DEACTIVATED"}
DeviceOperation == Placing \cup {"deactivateDevice", "reactivateDevice"}

Placement == [state : DeviceState, org : Org \cup {Null}, facility : Facility \cup {Null},
              zone : Zone \cup {Null}]
DeviceRow == [state : DeviceState, org : Org \cup {Null}, facility : Facility \cup {Null},
              zone : Zone \cup {Null}, assignedAt : Nat \cup {Null}, lastSeenAt : Nat \cup {Null}]
RequestRow == [op : DeviceOperation \cup {"remove", Null},
               pc : {"idle", "open", "commit", "delete"},
               id : Id \cup {Null}, seen : Placement \cup {Null},
               org : Org \cup {Null}, facility : Facility \cup {Null},
               zone : Zone \cup {Null}, now : Nat]
UploadRow == [pc : {"idle", "store"}, id : Id \cup {Null}, org : Org \cup {Null}, at : Nat]

TypeOK ==
  /\ device \in [Id -> DeviceRow]
  /\ zones \subseteq Zone
  /\ req \in [Request -> RequestRow]
  /\ upload \in [Upload -> UploadRow]
  /\ clock \in Time
  /\ claim \in [Id -> [Time -> SUBSET Org]]

\* From the time since until now the device i was claimed for o.
ClaimedSince(i, o, since) ==
  \A t \in Time : since <= t /\ t <= clock => o \in claim[i][t]

\* Who owns a device has a window on it, and claimed the device all along.
Owned(i) ==
  device[i].org # Null =>
    device[i].assignedAt \in Nat /\ ClaimedSince(i, device[i].org, device[i].assignedAt)

DevicesAreOwned == \A i \in Id : Owned(i)

\* A target that was found to fit.
TargetFitted(q) ==
  /\ q.org \in Org /\ q.facility \in Facility /\ q.zone \in Zone
  /\ OrgOf[q.facility] = q.org /\ FacilityOf[q.zone] = q.facility

\* What a request may rely on.
Backed(q) ==
  q.pc \in {"open", "commit"} =>
    /\ q.id \in Id /\ q.op \in DeviceOperation /\ q.seen.state # "ABSENT"
    /\ q.op \in Placing => TargetFitted(q)
    /\ q.op = "reassignDevice" => q.seen.state = "ACTIVE"
    /\ q.op \in Placing /\ q.pc = "commit" => ClaimedSince(q.id, q.org, q.now)

RequestsAreBacked == \A r \in Request : Backed(req[r])

\* Measurements are of the past.
MeasuredBefore ==
  /\ \A u \in Upload : upload[u].at <= clock
  /\ \A x \in reading : x.at \in Nat /\ x.at <= clock

FInv ==
  /\ TypeOK
  /\ PlacementsFit
  /\ DevicesAreOwned
  /\ RequestsAreBacked
  /\ MeasuredBefore
-----------------------------------------------------------------------------
(* Frames.                                                                 *)

ClaimsGrow ==
  /\ clock' = clock
  /\ \A i \in Id, t \in Time : claim[i][t] \subseteq claim'[i][t]

LEMMA ClaimLasts ==
  ASSUME ClaimsGrow, NEW i \in Id, NEW o, NEW since, ClaimedSince(i, o, since)
  PROVE  ClaimedSince(i, o, since)'
BY DEF ClaimsGrow, ClaimedSince

\* A claim that is made now.
LEMMA ClaimMade ==
  ASSUME TypeOK, NEW i \in Id, NEW orgs \in SUBSET (Org \cup {Null}), Claim(i, orgs)
  PROVE  /\ claim' \in [Id -> [Time -> SUBSET Org]]
         /\ \A k \in Id, t \in Time : claim[k][t] \subseteq claim'[k][t]
         /\ \A o \in orgs \ {Null} : o \in claim'[i][clock]
<1>1. claim \in [Id -> [Time -> SUBSET Org]] /\ clock \in Time
  BY DEF TypeOK
<1>2. claim' = [claim EXCEPT ![i] = [claim[i] EXCEPT ![clock] = @ \cup (orgs \ {Null})]]
  BY DEF Claim
<1>3. [claim[i] EXCEPT ![clock] = @ \cup (orgs \ {Null})] \in [Time -> SUBSET Org]
  BY <1>1
<1> QED
  BY <1>1, <1>2, <1>3

LEMMA BackedLasts ==
  ASSUME TypeOK, ClaimsGrow, NEW q \in RequestRow, Backed(q)
  PROVE  Backed(q)'
<1>1. q.id \in Id /\ ClaimedSince(q.id, q.org, q.now) => ClaimedSince(q.id, q.org, q.now)'
  BY ClaimLasts
<1> QED
  BY <1>1 DEF Backed, TargetFitted

LEMMA OwnedLasts ==
  ASSUME ClaimsGrow, NEW i \in Id, Owned(i), 
         device'[i].org = device[i].org, device'[i].assignedAt = device[i].assignedAt
  PROVE  Owned(i)'
<1>1. ClaimedSince(i, device[i].org, device[i].assignedAt)
        => ClaimedSince(i, device[i].org, device[i].assignedAt)'
  <2>1. PICK o, since : o = device[i].org /\ since = device[i].assignedAt
    OBVIOUS
  <2>2. ClaimedSince(i, o, since) => ClaimedSince(i, o, since)'
    BY ClaimLasts
  <2> QED
    BY <2>1, <2>2 DEF ClaimedSince
<1> QED
  BY <1>1 DEF Owned, ClaimedSince

LEMMA Blank == NoRequest \in RequestRow /\ NoUpload \in UploadRow /\ ~(NoRequest.pc \in {"open", "commit"})
BY DEF NoRequest, NoUpload, RequestRow, UploadRow

LEMMA BlankDevices == Absent \in DeviceRow /\ Unplaced \in DeviceRow
BY DEF Absent, Unplaced, DeviceRow, DeviceState

\* One request moves.
LEMMA OneRequest ==
  ASSUME TypeOK, RequestsAreBacked, ClaimsGrow, NEW r \in Request, NEW q \in RequestRow,
         req' = [req EXCEPT ![r] = q], Backed(q)'
  PROVE  req' \in [Request -> RequestRow] /\ RequestsAreBacked'
<1>1. req \in [Request -> RequestRow]
  BY DEF TypeOK
<1>2. req'[r] = q /\ \A s \in Request : s # r => req'[s] = req[s]
  BY <1>1
<1>3. ASSUME NEW s \in Request, s # r PROVE Backed(req[s])'
  <2>1. Backed(req[s]) /\ req[s] \in RequestRow /\ req'[s] = req[s]
    BY <1>1, <1>2, <1>3 DEF RequestsAreBacked
  <2>2. PICK p \in RequestRow : p = req[s]
    BY <2>1
  <2>3. Backed(p)'
    BY <2>1, <2>2, BackedLasts
  <2>4. req'[s] = p
    BY <2>1, <2>2
  <2> QED
    BY <2>3, <2>4 DEF Backed, TargetFitted
<1>4. Backed(req[r])'
  BY <1>2 DEF Backed, TargetFitted
<1>5. RequestsAreBacked'
  <2> SUFFICES ASSUME NEW s \in Request PROVE Backed(req[s])'
    BY DEF RequestsAreBacked
  <2> QED
    BY <1>3, <1>4
<1> QED
  BY <1>1, <1>5

\* A request that ends relies on nothing.
LEMMA Answered ==
  ASSUME TypeOK, RequestsAreBacked, ClaimsGrow, NEW r \in Request, Answer(r)
  PROVE  req' \in [Request -> RequestRow] /\ RequestsAreBacked'
<1>1. Backed(NoRequest)'
  BY Blank DEF Backed
<1> QED
  BY <1>1, Blank, OneRequest DEF Answer

\* None moves.
LEMMA NoneMoves ==
  ASSUME TypeOK, RequestsAreBacked, ClaimsGrow, UNCHANGED req
  PROVE  RequestsAreBacked'
<1> SUFFICES ASSUME NEW s \in Request PROVE Backed(req[s])'
  BY DEF RequestsAreBacked
<1>1. PICK p \in RequestRow : p = req[s]
  BY DEF TypeOK
<1>2. Backed(p)'
  BY <1>1, BackedLasts DEF RequestsAreBacked
<1> QED
  BY <1>1, <1>2 DEF Backed, TargetFitted

\* The devices stand, and the zones they stand in.
LEMMA DevicesStand ==
  ASSUME TypeOK, PlacementsFit, DevicesAreOwned, ClaimsGrow,
         UNCHANGED <<device, zones>>
  PROVE  PlacementsFit' /\ DevicesAreOwned'
<1>1. PlacementsFit'
  BY DEF PlacementsFit
<1>2. DevicesAreOwned'
  BY OwnedLasts DEF DevicesAreOwned
<1> QED
  BY <1>1, <1>2

\* One device changes.
LEMMA OneDevice ==
  ASSUME TypeOK, PlacementsFit, DevicesAreOwned, ClaimsGrow, UNCHANGED zones,
         NEW i \in Id, NEW d \in DeviceRow, device' = [device EXCEPT ![i] = d],
         d.state = "ACTIVE" => d.org # Null /\ d.facility # Null /\ d.assignedAt # Null,
         d.facility # Null => OrgOf[d.facility] = d.org,
         d.zone # Null => d.zone \in zones /\ FacilityOf[d.zone] = d.facility,
         d.org # Null => d.assignedAt \in Nat /\ ClaimedSince(i, d.org, d.assignedAt)'
  PROVE  device' \in [Id -> DeviceRow] /\ PlacementsFit' /\ DevicesAreOwned'
<1>1. /\ device' \in [Id -> DeviceRow] /\ device'[i] = d
      /\ \A k \in Id : k # i => device'[k] = device[k]
  BY DEF TypeOK
<1>2. PlacementsFit'
  BY <1>1 DEF PlacementsFit
<1>3. ASSUME NEW k \in Id PROVE Owned(k)'
  <2>1. CASE k = i
    BY <1>1, <2>1 DEF Owned, ClaimedSince
  <2>2. CASE k # i
    BY <1>1, <2>2, OwnedLasts DEF DevicesAreOwned
  <2> QED
    BY <2>1, <2>2
<1> QED
  BY <1>1, <1>2, <1>3 DEF DevicesAreOwned
-----------------------------------------------------------------------------
(* The steps.                                                              *)

LEMMA InitFInv == Init => FInv
<1> SUFFICES ASSUME Init PROVE FInv
  OBVIOUS
<1> USE DEF Init
<1>1. TypeOK
  BY Blank, BlankDevices, SensorFleetConstants DEF TypeOK, Time
<1>2. PlacementsFit /\ DevicesAreOwned
  BY DEF PlacementsFit, DevicesAreOwned, Owned, Absent, Unplaced
<1>3. RequestsAreBacked
  BY Blank DEF RequestsAreBacked, Backed
<1>4. MeasuredBefore
  BY DEF MeasuredBefore, NoUpload
<1> QED
  BY <1>1, <1>2, <1>3, <1>4 DEF FInv

\* addDevices: a row that stands nowhere.
LEMMA AddFInv ==
  ASSUME FInv, NEW i \in Id, AddDevice(i)
  PROVE  FInv'
<1>1. ClaimsGrow
  BY DEF AddDevice, ClaimsGrow
<1>2. /\ Unplaced \in DeviceRow /\ Unplaced.state = "UNASSIGNED" /\ Unplaced.org = Null
      /\ Unplaced.facility = Null /\ Unplaced.zone = Null
  BY BlankDevices DEF Unplaced
<1>3. device' \in [Id -> DeviceRow] /\ PlacementsFit' /\ DevicesAreOwned'
  BY <1>1, <1>2, OneDevice DEF FInv, AddDevice
<1>4. RequestsAreBacked'
  BY <1>1, NoneMoves DEF FInv, AddDevice
<1>5. TypeOK' /\ MeasuredBefore'
  BY <1>3 DEF FInv, TypeOK, MeasuredBefore, AddDevice
<1> QED
  BY <1>3, <1>4, <1>5 DEF FInv

\* The command line places a new device at once.
LEMMA RegisterFInv ==
  ASSUME FInv, NEW i \in Id, NEW f \in Facility, NEW z \in Zone \cup {Null},
         RegisterPlaced(i, f, z)
  PROVE  FInv'
<1> DEFINE d == [Unplaced EXCEPT !.state = "ACTIVE", !.org = OrgOf[f], !.facility = f,
                                 !.zone = z, !.assignedAt = clock]
<1>1. OrgOf[f] \in Org /\ clock \in Time /\ clock \in Nat /\ Null \notin Org \cup Facility \cup Nat
  BY SensorFleetConstants DEF FInv, TypeOK, Time
<1>2. /\ device' = [device EXCEPT ![i] = d] /\ Claim(i, {OrgOf[f]})
      /\ UNCHANGED <<reading, zones, req, upload, clock>>
      /\ z # Null => z \in zones /\ FacilityOf[z] = f
  BY DEF RegisterPlaced
<1>3. /\ d \in DeviceRow /\ d.state = "ACTIVE" /\ d.org = OrgOf[f] /\ d.facility = f
      /\ d.zone = z /\ d.assignedAt = clock
  BY <1>1, BlankDevices DEF DeviceRow, DeviceState, Unplaced
<1>4. PICK row \in DeviceRow : row = d
  BY <1>3
<1> HIDE DEF d
<1>5. /\ claim' \in [Id -> [Time -> SUBSET Org]] /\ ClaimsGrow
      /\ OrgOf[f] \in claim'[i][clock]
  <2>1. {OrgOf[f]} \in SUBSET (Org \cup {Null})
    BY <1>1
  <2> QED
    BY <1>1, <1>2, <2>1, ClaimMade DEF FInv, ClaimsGrow
<1>6. ClaimedSince(i, row.org, row.assignedAt)'
  <2>1. row.org = OrgOf[f] /\ row.assignedAt = clock /\ clock' = clock
    BY <1>2, <1>3, <1>4
  <2>2. \A t \in Time : clock <= t /\ t <= clock => t = clock
    BY <1>1 DEF Time
  <2> QED
    BY <2>1, <2>2, <1>5 DEF ClaimedSince
<1>7. device' \in [Id -> DeviceRow] /\ PlacementsFit' /\ DevicesAreOwned'
  BY <1>1, <1>2, <1>3, <1>4, <1>5, <1>6, OneDevice DEF FInv
<1>8. RequestsAreBacked'
  BY <1>2, <1>5, NoneMoves DEF FInv
<1>9. TypeOK' /\ MeasuredBefore'
  BY <1>2, <1>5, <1>7 DEF FInv, TypeOK, MeasuredBefore
<1> QED
  BY <1>7, <1>8, <1>9 DEF FInv

\* Steps that leave devices, zones and readings alone.
LEMMA QuietFInv ==
  ASSUME FInv, ClaimsGrow, claim' \in [Id -> [Time -> SUBSET Org]],
         UNCHANGED <<device, zones, reading>>,
         req' \in [Request -> RequestRow], RequestsAreBacked',
         upload' \in [Upload -> UploadRow], \A u \in Upload : upload'[u].at <= clock
  PROVE  FInv'
<1>1. PlacementsFit' /\ DevicesAreOwned'
  BY DevicesStand DEF FInv
<1>2. TypeOK' /\ MeasuredBefore'
  BY DEF FInv, TypeOK, MeasuredBefore, ClaimsGrow
<1> QED
  BY <1>1, <1>2 DEF FInv

\* A service has read a device, and checked the target.
LEMMA BeginFInv ==
  ASSUME FInv, NEW r \in Request, NEW i \in Id, NEW op \in DeviceOperation,
         NEW o \in Org \cup {Null}, NEW f \in Facility \cup {Null}, NEW z \in Zone \cup {Null},
         op \in Placing => f \in Facility /\ z \in Zone /\ o \in Org /\ TargetFits(o, f, z),
         Begin(r, op, i, o, f, z)
  PROVE  FInv'
<1> DEFINE q == [op |-> op, pc |-> "open", id |-> i, seen |-> PlacementOf(device[i]),
                 org |-> o, facility |-> f, zone |-> z, now |-> 0]
<1>1. ClaimsGrow /\ req' = [req EXCEPT ![r] = q] /\ MayBegin(op, device[i])
  BY DEF Begin, ClaimsGrow
<1>2. PlacementOf(device[i]) \in Placement /\ PlacementOf(device[i]).state = device[i].state
  BY DEF PlacementOf, Placement, FInv, TypeOK, DeviceRow
<1>3. q \in RequestRow
  BY <1>2 DEF RequestRow
<1>4. (op = "reassignDevice" => q.seen.state = "ACTIVE") /\ q.seen.state # "ABSENT"
  BY <1>1, <1>2 DEF MayBegin, DeviceOperation, Placing
<1>5. PICK p \in RequestRow : p = q
  BY <1>3
<1>6. Backed(p)'
  <2>1. p.pc = "open" /\ p.id = i /\ p.op = op
    BY <1>5
  <2>2. op \in Placing => TargetFitted(p)
    BY <1>5 DEF TargetFitted, TargetFits
  <2>3. (op = "reassignDevice" => p.seen.state = "ACTIVE") /\ p.seen.state # "ABSENT"
    BY <1>4, <1>5
  <2> QED
    BY <2>1, <2>2, <2>3 DEF Backed, TargetFitted
<1> HIDE DEF q
<1>7. req' \in [Request -> RequestRow] /\ RequestsAreBacked'
  BY <1>1, <1>5, <1>6, OneRequest DEF FInv
<1> QED
  BY <1>1, <1>7, QuietFInv DEF FInv, TypeOK, MeasuredBefore, Begin

LEMMA OpenFInv ==
  ASSUME FInv, NEW r \in Request, OpenTransaction(r)
  PROVE  FInv'
<1> DEFINE q == [req[r] EXCEPT !.pc = "commit", !.now = clock]
<1>1. /\ req[r] \in RequestRow /\ Backed(req[r]) /\ req[r].pc = "open"
      /\ clock \in Time /\ clock \in Nat
  BY SensorFleetConstants DEF FInv, TypeOK, RequestsAreBacked, OpenTransaction, Time
<1>2. /\ req' = [req EXCEPT ![r] = q]
      /\ UNCHANGED <<device, reading, zones, upload, clock>>
  BY DEF OpenTransaction
<1>3. PICK p \in RequestRow :
        /\ p = q /\ p.pc = "commit" /\ p.now = clock
        /\ p.op = req[r].op /\ p.id = req[r].id /\ p.seen = req[r].seen
        /\ p.org = req[r].org /\ p.facility = req[r].facility /\ p.zone = req[r].zone
  <2>1. /\ q \in RequestRow /\ q.pc = "commit" /\ q.now = clock
        /\ q.op = req[r].op /\ q.id = req[r].id /\ q.seen = req[r].seen
        /\ q.org = req[r].org /\ q.facility = req[r].facility /\ q.zone = req[r].zone
    BY <1>1 DEF RequestRow
  <2> HIDE DEF q
  <2> QED
    BY <2>1
<1>4. /\ p.id \in Id /\ p.op \in DeviceOperation /\ (p.op \in Placing => TargetFitted(p))
      /\ p.op = "reassignDevice" => p.seen.state = "ACTIVE"
      /\ p.seen.state # "ABSENT"
  BY <1>1, <1>3 DEF Backed, TargetFitted
<1> HIDE DEF q
<1>5. /\ claim' \in [Id -> [Time -> SUBSET Org]] /\ ClaimsGrow
      /\ p.op \in Placing => p.org \in claim'[p.id][clock]
  <2>1. CASE p.op \in Placing
    <3>1. Claim(p.id, {p.org}) /\ p.org \in Org /\ p.org # Null
      BY <2>1, <1>3, <1>4, SensorFleetConstants DEF OpenTransaction, TargetFitted
    <3>2. {p.org} \in SUBSET (Org \cup {Null})
      BY <3>1
    <3> QED
      BY <1>2, <1>4, <3>1, <3>2, ClaimMade DEF FInv, ClaimsGrow
  <2>2. CASE p.op \notin Placing
    <3>1. UNCHANGED claim
      BY <2>2, <1>3 DEF OpenTransaction
    <3> QED
      BY <2>2, <3>1, <1>2 DEF FInv, TypeOK, ClaimsGrow
  <2> QED
    BY <2>1, <2>2
<1>6. p.op \in Placing => ClaimedSince(p.id, p.org, p.now)'
  <2> SUFFICES ASSUME p.op \in Placing, NEW t \in Time, clock <= t, t <= clock
               PROVE  p.org \in claim'[p.id][t]
    BY <1>2, <1>3 DEF ClaimedSince
  <2>1. t = clock
    BY <1>1 DEF Time
  <2> QED
    BY <2>1, <1>5
<1>7. Backed(p)'
  BY <1>4, <1>6 DEF Backed, TargetFitted
<1>8. req' \in [Request -> RequestRow] /\ RequestsAreBacked'
  BY <1>2, <1>3, <1>5, <1>7, OneRequest DEF FInv
<1> QED
  BY <1>2, <1>5, <1>8, QuietFInv DEF FInv, TypeOK, MeasuredBefore

\* What the row read allows the row written to be.
LEMMA PlacedRow ==
  ASSUME FInv, NEW q \in RequestRow, Backed(q), q.pc = "commit",
         Unchanged(q), q.op \in Placing => q.zone \in zones
  PROVE  LET new == Placed(q, device[q.id])
         IN  /\ new \in DeviceRow
             /\ new.state = "ACTIVE" => new.org # Null /\ new.facility # Null /\ new.assignedAt # Null
             /\ new.facility # Null => OrgOf[new.facility] = new.org
             /\ new.zone # Null => new.zone \in zones /\ FacilityOf[new.zone] = new.facility
             /\ new.org # Null => /\ new.assignedAt \in Nat
                                 /\ ClaimedSince(q.id, new.org, new.assignedAt)
<1> DEFINE d == device[q.id]
           new == Placed(q, d)
<1>1. /\ q.id \in Id /\ d \in DeviceRow /\ Owned(q.id)
      /\ q.op \in {"assignDevice", "reassignDevice", "deactivateDevice", "reactivateDevice"}
      /\ d.state = "ACTIVE" => d.org # Null /\ d.facility # Null /\ d.assignedAt # Null
      /\ d.facility # Null => OrgOf[d.facility] = d.org
      /\ d.zone # Null => d.zone \in zones /\ FacilityOf[d.zone] = d.facility
      /\ d.org # Null => d.assignedAt \in Nat /\ ClaimedSince(q.id, d.org, d.assignedAt)
  BY DEF FInv, TypeOK, PlacementsFit, DevicesAreOwned, Owned, Backed, DeviceOperation, Placing
<1>2. /\ q.seen.state = d.state /\ q.seen.org = d.org
      /\ q.seen.facility = d.facility /\ q.seen.zone = d.zone
  BY DEF Unchanged, PlacementOf
<1>3. Null \notin Org \cup Facility \cup Zone \cup Nat
  BY SensorFleetConstants
<1>4. q.op \in Placing =>
        /\ TargetFitted(q) /\ q.zone \in zones /\ q.now \in Nat
        /\ ClaimedSince(q.id, q.org, q.now)
  BY DEF Backed, RequestRow
<1> HIDE DEF d
<1>5. CASE q.op = "assignDevice"
  <2>1. new = [d EXCEPT !.state = "ACTIVE", !.org = q.org, !.facility = q.facility,
                        !.zone = q.zone, !.assignedAt = q.now]
    BY <1>5 DEF Placed
  <2>2. /\ new \in DeviceRow /\ new.org = q.org /\ new.facility = q.facility
        /\ new.zone = q.zone /\ new.assignedAt = q.now
    BY <1>1, <1>4, <1>5, <2>1 DEF DeviceRow, DeviceState, TargetFitted, Placing
  <2> QED
    BY <1>3, <1>4, <1>5, <2>2 DEF d, TargetFitted, Placing
<1>6. CASE q.op = "reassignDevice"
  <2> DEFINE at == IF q.seen.org = q.org THEN d.assignedAt ELSE q.now
  <2>1. new = [d EXCEPT !.org = q.org, !.facility = q.facility, !.zone = q.zone,
                        !.assignedAt = at]
    BY <1>6 DEF Placed
  <2>2. d.state = "ACTIVE"
    BY <1>2, <1>6 DEF Backed
  <2>3. at \in Nat /\ ClaimedSince(q.id, q.org, at)
    BY <1>1, <1>2, <1>4, <1>6, <2>2 DEF Placing
  <2> HIDE DEF at
  <2>4. /\ new \in DeviceRow /\ new.org = q.org /\ new.facility = q.facility
        /\ new.zone = q.zone /\ new.assignedAt = at
    BY <1>1, <1>4, <1>6, <2>1, <2>3 DEF DeviceRow, TargetFitted, Placing
  <2> QED
    BY <1>3, <1>4, <1>6, <2>3, <2>4 DEF d, TargetFitted, Placing
<1>7. CASE q.op = "deactivateDevice"
  <2>1. new = [d EXCEPT !.state = "DEACTIVATED"]
    BY <1>7 DEF Placed
  <2>2. /\ new \in DeviceRow /\ new.org = d.org /\ new.facility = d.facility
        /\ new.zone = d.zone /\ new.assignedAt = d.assignedAt /\ new.state # "ACTIVE"
    BY <1>1, <2>1 DEF DeviceRow, DeviceState
  <2> QED
    BY <1>1, <2>2 DEF d
<1>8. CASE q.op = "reactivateDevice"
  <2>1. CASE Null \in {d.org, d.facility, d.zone}
    <3>1. new = [Unplaced EXCEPT !.lastSeenAt = d.lastSeenAt]
      BY <1>2, <1>8, <2>1 DEF Placed
    <3>2. /\ new \in DeviceRow /\ new.org = Null /\ new.facility = Null
          /\ new.zone = Null /\ new.state # "ACTIVE"
      BY <1>1, <3>1 DEF DeviceRow, DeviceState, Unplaced
    <3> QED
      BY <3>2 DEF d
  <2>2. CASE Null \notin {d.org, d.facility, d.zone}
    <3>1. new = [d EXCEPT !.state = "ACTIVE"]
      BY <1>2, <1>8, <2>2 DEF Placed
    <3>2. /\ new \in DeviceRow /\ new.org = d.org /\ new.facility = d.facility
          /\ new.zone = d.zone /\ new.assignedAt = d.assignedAt
      BY <1>1, <3>1 DEF DeviceRow, DeviceState
    <3> QED
      BY <1>1, <1>3, <2>2, <3>2 DEF d
  <2> QED
    BY <2>1, <2>2
<1> QED
  BY <1>1, <1>5, <1>6, <1>7, <1>8

\* A transaction commits, or leaves nothing.
LEMMA CommitFInv ==
  ASSUME FInv, NEW r \in Request, NEW enable \in BOOLEAN, Commit(r, enable)
  PROVE  FInv'
<1>1. PICK q \in RequestRow : q = req[r] /\ q.pc = "commit" /\ Backed(q)
  BY DEF FInv, TypeOK, RequestsAreBacked, Commit
<1>2. Answer(r) /\ UNCHANGED <<reading, zones, upload, clock>>
  BY DEF Commit
<1>3. CASE UNCHANGED <<device, claim>>
  <2>1. ClaimsGrow /\ claim' \in [Id -> [Time -> SUBSET Org]]
    BY <1>2, <1>3 DEF ClaimsGrow, FInv, TypeOK
  <2>2. req' \in [Request -> RequestRow] /\ RequestsAreBacked'
    BY <1>2, <2>1, Answered DEF FInv
  <2> QED
    BY <1>2, <1>3, <2>1, <2>2, QuietFInv DEF FInv, TypeOK, MeasuredBefore
<1>4. CASE /\ Unchanged(q) /\ (q.op \in Placing => q.zone \in zones)
           /\ device' = [device EXCEPT ![q.id] = Placed(q, device[q.id])]
           /\ Claim(q.id, {Placed(q, device[q.id]).org})
  <2>1. PICK new \in DeviceRow :
          /\ new = Placed(q, device[q.id])
          /\ new.state = "ACTIVE" => new.org # Null /\ new.facility # Null /\ new.assignedAt # Null
          /\ new.facility # Null => OrgOf[new.facility] = new.org
          /\ new.zone # Null => new.zone \in zones /\ FacilityOf[new.zone] = new.facility
          /\ new.org # Null => new.assignedAt \in Nat /\ ClaimedSince(q.id, new.org, new.assignedAt)
    BY <1>1, <1>4, PlacedRow
  <2>2. q.id \in Id /\ {new.org} \in SUBSET (Org \cup {Null})
    BY <1>1 DEF Backed, DeviceRow
  <2>3. claim' \in [Id -> [Time -> SUBSET Org]] /\ ClaimsGrow
    BY <1>2, <1>4, <2>1, <2>2, ClaimMade DEF FInv, ClaimsGrow
  <2>4. new.org # Null => ClaimedSince(q.id, new.org, new.assignedAt)'
    BY <2>1, <2>2, <2>3, ClaimLasts
  <2>5. device' \in [Id -> DeviceRow] /\ PlacementsFit' /\ DevicesAreOwned'
    BY <1>2, <1>4, <2>1, <2>2, <2>3, <2>4, OneDevice DEF FInv
  <2>6. req' \in [Request -> RequestRow] /\ RequestsAreBacked'
    BY <1>2, <2>3, Answered DEF FInv
  <2>7. TypeOK' /\ MeasuredBefore'
    BY <1>2, <2>3, <2>5, <2>6 DEF FInv, TypeOK, MeasuredBefore
  <2> QED
    BY <2>5, <2>6, <2>7 DEF FInv
<1> QED
  BY <1>1, <1>3, <1>4 DEF Commit

\* Zones and facilities.
LEMMA ZoneFInv ==
  ASSUME FInv, NEW r \in Request,
         \/ \E z \in Zone : CountDevices(r, z)
         \/ DeleteZone(r)
         \/ \E f \in Facility : RemoveFacility(f)
  PROVE  FInv'
<1>1. ClaimsGrow /\ UNCHANGED <<device, reading, upload, claim, clock>>
  BY DEF ClaimsGrow, CountDevices, DeleteZone, RemoveFacility
<1>2. req' \in [Request -> RequestRow] /\ RequestsAreBacked'
  <2>1. ASSUME NEW z \in Zone, CountDevices(r, z)
        PROVE  req' \in [Request -> RequestRow] /\ RequestsAreBacked'
    <3>1. PICK q \in RequestRow :
            q = [NoRequest EXCEPT !.op = "remove", !.pc = "delete", !.zone = z]
      BY Blank DEF RequestRow, NoRequest
    <3>2. q.pc = "delete" /\ req' = [req EXCEPT ![r] = q]
      BY <2>1, <3>1 DEF NoRequest, CountDevices
    <3>3. Backed(q)'
      BY <3>2 DEF Backed
    <3> QED
      BY <1>1, <3>2, <3>3, OneRequest DEF FInv
  <2>2. CASE DeleteZone(r)
    BY <1>1, <2>2, Answered DEF DeleteZone, FInv
  <2>3. CASE \E f \in Facility : RemoveFacility(f)
    BY <1>1, <2>3, NoneMoves DEF RemoveFacility, FInv, TypeOK
  <2> QED
    BY <2>1, <2>2, <2>3
<1>3. CASE UNCHANGED zones
  BY <1>1, <1>2, <1>3, QuietFInv DEF FInv, TypeOK, MeasuredBefore
<1>4. CASE DeleteZone(r) /\ zones' = zones \ {req[r].zone} /\ ~Restricted(req[r].zone)
  <2>1. PlacementsFit'
    BY <1>1, <1>4 DEF FInv, PlacementsFit, Restricted
  <2>2. DevicesAreOwned'
    BY <1>1, OwnedLasts DEF FInv, DevicesAreOwned
  <2>3. TypeOK' /\ MeasuredBefore'
    BY <1>1, <1>2, <1>4 DEF FInv, TypeOK, MeasuredBefore
  <2> QED
    BY <1>2, <2>1, <2>2, <2>3 DEF FInv
<1> QED
  BY <1>3, <1>4 DEF CountDevices, DeleteZone, RemoveFacility

\* A reading is looked up.
LEMMA LookUpFInv ==
  ASSUME FInv, NEW u \in Upload, NEW i \in Id, NEW t \in Time, LookUpDevice(u, i, t)
  PROVE  FInv'
<1> DEFINE q == [pc |-> "store", id |-> i, org |-> device[i].org, at |-> t]
<1>1. /\ upload' = [upload EXCEPT ![u] = q] /\ t <= clock /\ ClaimsGrow
      /\ UNCHANGED <<device, zones, reading, req, claim>>
  BY DEF LookUpDevice, ClaimsGrow
<1>2. q \in UploadRow /\ q.at = t
  BY DEF FInv, TypeOK, DeviceRow, UploadRow, Time
<1> HIDE DEF q
<1>3. upload' \in [Upload -> UploadRow] /\ \A v \in Upload : upload'[v].at <= clock
  BY <1>1, <1>2 DEF FInv, TypeOK, MeasuredBefore
<1>4. RequestsAreBacked'
  BY <1>1, NoneMoves DEF FInv
<1> QED
  BY <1>1, <1>3, <1>4, QuietFInv DEF FInv, TypeOK

\* A reading is stored: the device's placement is not touched.
LEMMA StoreFInv ==
  ASSUME FInv, NEW u \in Upload, StoreReading(u)
  PROVE  FInv'
<1>1. PICK q \in UploadRow :
        /\ q = upload[u] /\ q.at <= clock /\ q.at \in Nat
        /\ device' = [device EXCEPT ![q.id].lastSeenAt = Latest(@, q.at)]
        /\ reading' \subseteq reading \cup {[id |-> q.id, org |-> q.org, at |-> q.at]}
  BY DEF FInv, TypeOK, UploadRow, MeasuredBefore, StoreReading
<1>2. /\ upload' = [upload EXCEPT ![u] = NoUpload]
      /\ UNCHANGED <<zones, req, clock, claim>> /\ ClaimsGrow
  BY DEF StoreReading, ClaimsGrow
<1>3. ASSUME NEW i \in Id
      PROVE  /\ device'[i] \in DeviceRow
             /\ device'[i].state = device[i].state /\ device'[i].org = device[i].org
             /\ device'[i].facility = device[i].facility /\ device'[i].zone = device[i].zone
             /\ device'[i].assignedAt = device[i].assignedAt
  <2>1. device[i] \in DeviceRow /\ device \in [Id -> DeviceRow]
    BY DEF FInv, TypeOK
  <2>2. device'[i] = device[i] \/ device'[i] = [device[i] EXCEPT !.lastSeenAt = Latest(@, q.at)]
    BY <1>1, <2>1
  <2>3. Latest(device[i].lastSeenAt, q.at) \in Nat \cup {Null}
    BY <1>1, <2>1 DEF Latest, DeviceRow
  <2> QED
    BY <2>1, <2>2, <2>3 DEF DeviceRow
<1>4. device' \in [Id -> DeviceRow]
  BY <1>1, <1>3 DEF FInv, TypeOK
<1>5. PlacementsFit'
  BY <1>2, <1>3 DEF FInv, PlacementsFit
<1>6. DevicesAreOwned'
  BY <1>2, <1>3, OwnedLasts DEF FInv, DevicesAreOwned
<1>7. RequestsAreBacked'
  BY <1>2, NoneMoves DEF FInv
<1>8. upload' \in [Upload -> UploadRow] /\ MeasuredBefore'
  <2>1. clock \in Nat /\ NoUpload.at = 0
    BY SensorFleetConstants DEF FInv, TypeOK, Time, NoUpload
  <2> QED
    BY <1>1, <1>2, <2>1, Blank DEF FInv, TypeOK, MeasuredBefore
<1> QED
  BY <1>2, <1>4, <1>5, <1>6, <1>7, <1>8 DEF FInv, TypeOK

\* Time goes on: who owns a device, or is about to, claims the next tick.
LEMMA TickFInv ==
  ASSUME FInv, Tick
  PROVE  FInv'
<1> DEFINE Claimers(i) ==
      ({device[i].org} \cup {req[r].org : r \in {r \in Request :
                                 req[r].id = i /\ req[r].pc = "commit"}}) \ {Null}
<1>1. /\ clock \in 0..MaxTime /\ clock < MaxTime /\ MaxTime \in Nat /\ clock' = clock + 1
      /\ UNCHANGED <<device, reading, zones, req, upload>>
  BY SensorFleetConstants DEF FInv, TypeOK, Time, Tick
<1>2. claim' = [i \in Id |-> [claim[i] EXCEPT ![clock + 1] = Claimers(i)]]
  BY DEF Tick
<1>3. clock + 1 \in Time /\ clock' \in Time
  BY <1>1 DEF Time
<1>4. \A i \in Id : Claimers(i) \subseteq Org
  BY DEF FInv, TypeOK, DeviceRow, RequestRow
<1>5. \A i \in Id : \A o \in Claimers(i) : o \in Org
  BY <1>4
<1> HIDE DEF Claimers
<1>6. claim \in [Id -> [Time -> SUBSET Org]]
  BY DEF FInv, TypeOK
<1>7. \A i \in Id : /\ claim'[i] \in [Time -> SUBSET Org]
                    /\ claim'[i][clock + 1] = Claimers(i)
                    /\ \A t \in Time : t # clock + 1 => claim'[i][t] = claim[i][t]
  BY <1>2, <1>3, <1>4, <1>6
<1>8. claim' \in [Id -> [Time -> SUBSET Org]]
  BY <1>2, <1>7
<1>9. ASSUME NEW i \in Id, NEW o \in Claimers(i), NEW since, ClaimedSince(i, o, since)
      PROVE  ClaimedSince(i, o, since)'
  <2> SUFFICES ASSUME NEW t \in Time, since <= t, t <= clock + 1
               PROVE  o \in claim'[i][t]
    BY <1>1 DEF ClaimedSince
  <2>1. CASE t = clock + 1
    BY <1>7, <2>1
  <2>2. CASE t # clock + 1
    <3>1. t <= clock
      BY <1>1, <2>2 DEF Time
    <3> QED
      BY <1>7, <1>9, <2>2, <3>1 DEF ClaimedSince
  <2> QED
    BY <2>1, <2>2
<1>10. PlacementsFit'
  BY <1>1 DEF FInv, PlacementsFit
<1>11. DevicesAreOwned'
  <2> SUFFICES ASSUME NEW i \in Id, device'[i].org # Null PROVE Owned(i)'
    BY DEF DevicesAreOwned, Owned
  <2>1. PICK o, since : o = device[i].org /\ since = device[i].assignedAt
    OBVIOUS
  <2>2. o # Null /\ since \in Nat /\ ClaimedSince(i, o, since)
    BY <1>1, <2>1 DEF FInv, DevicesAreOwned, Owned, ClaimedSince
  <2>3. o \in Claimers(i)
    BY <2>1, <2>2 DEF Claimers
  <2>4. ClaimedSince(i, o, since)'
    BY <2>2, <2>3, <1>9
  <2>5. o = device'[i].org /\ since = device'[i].assignedAt
    BY <1>1, <2>1
  <2> QED
    BY <2>2, <2>4, <2>5 DEF Owned, ClaimedSince
<1>12. RequestsAreBacked'
  <2> SUFFICES ASSUME NEW r \in Request PROVE Backed(req[r])'
    BY DEF RequestsAreBacked
  <2>1. PICK p \in RequestRow : p = req[r] /\ Backed(p)
    BY DEF FInv, TypeOK, RequestsAreBacked
  <2>2. ASSUME p.op \in Placing, p.pc = "commit"
        PROVE  ClaimedSince(p.id, p.org, p.now)'
    <3>1. p.id \in Id /\ p.org \in Org /\ ClaimedSince(p.id, p.org, p.now)
      BY <2>1, <2>2 DEF Backed, TargetFitted
    <3>2. p.org \in Claimers(p.id)
      BY <2>1, <2>2, <3>1, SensorFleetConstants DEF Claimers
    <3> QED
      BY <3>1, <3>2, <1>9
  <2>3. Backed(p)'
    BY <2>1, <2>2 DEF Backed, TargetFitted
  <2>4. req'[r] = p
    BY <1>1, <2>1
  <2> QED
    BY <2>3, <2>4 DEF Backed, TargetFitted
<1>13. MeasuredBefore'
  <2>1. \A u \in Upload : upload[u].at \in Nat
    BY DEF FInv, TypeOK, UploadRow
  <2> QED
    BY <1>1, <2>1 DEF FInv, MeasuredBefore
<1>14. TypeOK'
  BY <1>1, <1>3, <1>8 DEF FInv, TypeOK
<1> QED
  BY <1>10, <1>11, <1>12, <1>13, <1>14 DEF FInv

LEMMA FailFInv ==
  ASSUME FInv, Fail
  PROVE  FInv'
<1>1. ClaimsGrow /\ UNCHANGED <<device, zones, reading, claim, clock>>
  BY DEF Fail, ClaimsGrow
<1>2. req' \in [Request -> RequestRow] /\ RequestsAreBacked'
  <2>1. CASE UNCHANGED req
    BY <1>1, <2>1, NoneMoves DEF FInv, TypeOK
  <2>2. CASE \E r \in Request : Answer(r)
    BY <1>1, <2>2, Answered DEF FInv
  <2> QED
    BY <2>1, <2>2 DEF Fail
<1>3. upload' \in [Upload -> UploadRow] /\ \A u \in Upload : upload'[u].at <= clock
  <2>1. clock \in Nat /\ NoUpload.at = 0
    BY SensorFleetConstants DEF FInv, TypeOK, Time, NoUpload
  <2> QED
    BY <2>1, Blank DEF Fail, FInv, TypeOK, MeasuredBefore
<1> QED
  BY <1>1, <1>2, <1>3, QuietFInv DEF FInv, TypeOK

LEMMA NextFInv == FInv /\ [Next]_vars => FInv'
<1> SUFFICES ASSUME FInv, [Next]_vars PROVE FInv'
  OBVIOUS
<1>1. ASSUME NEW r \in Request, Administer(r) PROVE FInv'
  <2>1. ASSUME NEW i \in Id, NEW op \in Placing, NEW o \in Org, NEW f \in Facility, NEW z \in Zone,
               BeginPlacing(r, op, i, o, f, z)
        PROVE  FInv'
    BY <2>1, BeginFInv DEF BeginPlacing, DeviceOperation
  <2>2. ASSUME NEW i \in Id, NEW op \in {"deactivateDevice", "reactivateDevice"},
               Begin(r, op, i, Null, Null, Null)
        PROVE  FInv'
    <3>1. op \in DeviceOperation /\ op \notin Placing
      BY DEF DeviceOperation, Placing
    <3> QED
      BY <2>2, <3>1, BeginFInv
  <2> QED
    BY <1>1, <2>1, <2>2, OpenFInv, CommitFInv, ZoneFInv DEF Administer
<1>2. ASSUME NEW u \in Upload, Ingest(u) PROVE FInv'
  BY <1>2, LookUpFInv, StoreFInv DEF Ingest
<1>3. ASSUME NEW f \in Facility, RemoveFacility(f) PROVE FInv'
  <2>1. ClaimsGrow /\ UNCHANGED <<device, zones, reading, req, upload, claim, clock>>
    BY <1>3 DEF RemoveFacility, ClaimsGrow
  <2>2. RequestsAreBacked'
    BY <2>1, NoneMoves DEF FInv
  <2> QED
    BY <2>1, <2>2, QuietFInv DEF FInv, TypeOK, MeasuredBefore
<1>4. CASE UNCHANGED vars
  <2>1. ClaimsGrow /\ UNCHANGED <<device, zones, reading, req, upload, claim, clock>>
    BY <1>4 DEF vars, ClaimsGrow
  <2>2. RequestsAreBacked'
    BY <2>1, NoneMoves DEF FInv
  <2> QED
    BY <2>1, <2>2, QuietFInv DEF FInv, TypeOK, MeasuredBefore
<1> QED
  BY <1>1, <1>2, <1>3, <1>4, AddFInv, RegisterFInv, TickFInv, FailFInv DEF Next
-----------------------------------------------------------------------------
(* The theorems.                                                           *)

LEMMA FleetInvariant == Spec => []FInv
BY InitFInv, NextFInv, PTL DEF Spec

\* A device stands where its tenant does, however long ago its target was checked.
THEOREM PlacementsAlwaysFit == Spec => []PlacementsFit
<1>1. FInv => PlacementsFit
  BY DEF FInv
<1> QED
  BY <1>1, FleetInvariant, PTL

\* A tenant is shown no measurement of a time at which the device was not claimed
\* for him.
THEOREM WindowsAreAlwaysOwn == Spec => []WindowsAreOwn
<1>1. FInv => WindowsAreOwn
  <2> SUFFICES ASSUME FInv, NEW o \in Org, NEW i \in Id, NEW x \in Visible(o, i)
               PROVE  o \in claim[i][x.at]
    BY DEF WindowsAreOwn
  <2>1. x \in reading /\ device[i].org = o /\ x.at >= device[i].assignedAt
    BY DEF Visible
  <2>2. x.at \in Time /\ x.at <= clock
    BY <2>1, SensorFleetConstants DEF FInv, TypeOK, MeasuredBefore, Time
  <2>3. device[i].assignedAt \in Nat /\ ClaimedSince(i, o, device[i].assignedAt)
    BY <2>1, SensorFleetConstants DEF FInv, DevicesAreOwned, Owned
  <2> QED
    BY <2>1, <2>2, <2>3 DEF ClaimedSince, Time
<1> QED
  BY <1>1, FleetInvariant, PTL

\* Every device has its entry.
AuditKept == DOMAIN audit = Id

LEMMA AuditAlwaysKept == Spec => []AuditKept
<1>1. Init => AuditKept
  BY DEF Init, AuditKept
<1>2. AuditKept /\ [Next]_vars => AuditKept'
  <2> SUFFICES ASSUME AuditKept, [Next]_vars PROVE AuditKept'
    OBVIOUS
  <2>1. ASSUME NEW r \in Request, NEW enable \in BOOLEAN, Commit(r, enable)
        PROVE  DOMAIN audit' = DOMAIN audit
    BY <2>1 DEF Commit
  <2>2. ASSUME NEW i \in Id, AddDevice(i) \/ \E f \in Facility, z \in Zone \cup {Null} : RegisterPlaced(i, f, z)
        PROVE  DOMAIN audit' = DOMAIN audit
    BY <2>2 DEF AddDevice, RegisterPlaced
  <2>3. \/ UNCHANGED audit
        \/ \E i \in Id : AddDevice(i) \/ \E f \in Facility, z \in Zone \cup {Null} : RegisterPlaced(i, f, z)
        \/ \E r \in Request, enable \in BOOLEAN : Commit(r, enable)
    BY DEF Next, Administer, BeginPlacing, Begin, OpenTransaction, CountDevices, DeleteZone,
           Ingest, LookUpDevice, StoreReading, RemoveFacility, Tick, Fail, vars
  <2> QED
    BY <2>1, <2>2, <2>3 DEF AuditKept
<1> QED
  BY <1>1, <1>2, PTL DEF Spec

\* The audit entry of a change names the placement that was there, that of a
\* registration the place it was given.
THEOREM AuditsAreTrue == Spec => AuditTellsTheTruth
<1> DEFINE Told == \A i \in Id : PlacementOf(device'[i]) # PlacementOf(device[i]) =>
             IF device[i] = Absent
             THEN device'[i].org # Null => audit'[i] = [old |-> Null, new |-> PlaceOf(device'[i])]
             ELSE audit'[i] = [old |-> PlacementOf(device[i]), new |-> PlacementOf(device'[i])]
<1>1. FInv /\ AuditKept /\ [Next]_vars => [Told]_vars
  <2> SUFFICES ASSUME FInv, AuditKept, Next PROVE Told
    OBVIOUS
  <2>1. device \in [Id -> DeviceRow]
    BY DEF FInv, TypeOK
  <2>2. ASSUME NEW i \in Id, NEW new, NEW entry,
               device' = [device EXCEPT ![i] = new],
               audit' = [audit EXCEPT ![i] = entry],
               IF device[i] = Absent
               THEN new.org # Null => entry = [old |-> Null, new |-> PlaceOf(new)]
               ELSE entry = [old |-> PlacementOf(device[i]), new |-> PlacementOf(new)]
        PROVE  Told
    <3>1. device'[i] = new /\ audit'[i] = entry
      BY <2>1, <2>2 DEF AuditKept
    <3>2. \A j \in Id : j # i => device'[j] = device[j]
      BY <2>1, <2>2
    <3> QED
      BY <2>2, <3>1, <3>2
  <2>3. CASE UNCHANGED device
    BY <2>3
  <2>4. ASSUME NEW i \in Id, AddDevice(i) PROVE Told
    <3>1. Unplaced.org = Null
      BY DEF Unplaced
    <3> QED
      BY <2>2, <2>4, <3>1 DEF AddDevice
  <2>5. ASSUME NEW i \in Id, NEW f \in Facility, NEW z \in Zone \cup {Null}, RegisterPlaced(i, f, z)
        PROVE  Told
    BY <2>2, <2>5 DEF RegisterPlaced
  <2>6. ASSUME NEW r \in Request, NEW enable \in BOOLEAN, Commit(r, enable) PROVE Told
    <3>1. PICK q \in RequestRow : q = req[r] /\ q.id \in Id
      BY <2>6 DEF FInv, TypeOK, RequestsAreBacked, Backed, Commit
    <3>2. CASE UNCHANGED device
      BY <2>3, <3>2
    <3>3. CASE /\ Unchanged(q)
               /\ device' = [device EXCEPT ![q.id] = Placed(q, device[q.id])]
               /\ audit' = [audit EXCEPT ![q.id] =
                     [old |-> q.seen, new |-> PlacementOf(Placed(q, device[q.id]))]]
      <4>1. q.seen = PlacementOf(device[q.id])
        BY <3>3 DEF Unchanged
      <4>2. device[q.id] # Absent
        <5>1. q.seen.state # "ABSENT"
          BY <2>6, <3>1 DEF FInv, RequestsAreBacked, Backed, Commit
        <5>2. PlacementOf(Absent).state = "ABSENT"
          BY DEF PlacementOf, Absent, Unplaced
        <5> QED
          BY <4>1, <5>1, <5>2
      <4> QED
        BY <2>2, <3>1, <3>3, <4>1, <4>2
    <3> QED
      BY <2>6, <3>1, <3>2, <3>3 DEF Commit
  <2>7. ASSUME NEW u \in Upload, StoreReading(u) PROVE Told
    <3> SUFFICES ASSUME NEW i \in Id PROVE PlacementOf(device'[i]) = PlacementOf(device[i])
      OBVIOUS
    <3>1. PICK k, at : device' = [device EXCEPT ![k] = [device[k] EXCEPT !.lastSeenAt = at]]
      BY <2>7 DEF StoreReading
    <3>2. device'[i] = device[i] \/ device'[i] = [device[i] EXCEPT !.lastSeenAt = at]
      BY <2>1, <3>1
    <3>3. device[i] \in DeviceRow
      BY <2>1
    <3> QED
      BY <3>2, <3>3 DEF PlacementOf, DeviceRow
  <2>8. \/ UNCHANGED device
        \/ \E i \in Id : AddDevice(i)
        \/ \E i \in Id, f \in Facility, z \in Zone \cup {Null} : RegisterPlaced(i, f, z)
        \/ \E r \in Request, enable \in BOOLEAN : Commit(r, enable)
        \/ \E u \in Upload : StoreReading(u)
    BY DEF Next, Administer, BeginPlacing, Begin, OpenTransaction, CountDevices, DeleteZone,
           Ingest, LookUpDevice, RemoveFacility, Tick, Fail
  <2> HIDE DEF Told
  <2> QED
    BY <2>3, <2>4, <2>5, <2>6, <2>7, <2>8
<1> QED
  BY <1>1, FleetInvariant, AuditAlwaysKept, PTL DEF Spec, AuditTellsTheTruth
=============================================================================
