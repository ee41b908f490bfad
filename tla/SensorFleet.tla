----------------------------- MODULE SensorFleet -----------------------------
(***************************************************************************)
(* The sensor fleet: platform administrators register devices, place them  *)
(* in an organization's facility and zone, move and stop them              *)
(* (sensor-fleet.service.ts, zone.service.ts), while the devices push      *)
(* their readings (sensor-ingest.service.ts).  A service reads rows in     *)
(* statements of their own, and changes a device in one transaction whose  *)
(* update names the state and placement it has read.                       *)
(*                                                                         *)
(* Time is counted in ticks.  A device's own clock is taken to be right:   *)
(* a reading carries the time of its measurement, and may arrive late.     *)
(***************************************************************************)
EXTENDS Naturals, FiniteSets, FiniteSetsExt

CONSTANTS
  Id,          \* what devices send as p_device_id
  Org, Facility, Zone,
  OrgOf,       \* the organization of a facility
  FacilityOf,  \* the facility of a zone
  Request,     \* slots for administrators' requests in flight
  Upload,      \* slots for readings being stored
  Unwatched,   \* bound: the organizations that begin without the module
  MaxTime,     \* bound
  MaxReadings, \* bound: readings stored
  MaxEdits,    \* bound: administrators' requests
  Null

ASSUME SensorFleetConstants ==
  /\ OrgOf \in [Facility -> Org] /\ FacilityOf \in [Zone -> Facility]
  /\ Unwatched \subseteq Org /\ Null \notin Id \cup Org \cup Facility \cup Zone \cup Nat
  /\ {MaxTime, MaxReadings, MaxEdits} \subseteq Nat

VARIABLES
  device,    \* the rows of sensor_devices, by their externalId
  audit,     \* the newest row of sensor_device_audit_logs of a device
  reading,   \* the rows of sensor_readings
  zones,     \* the zones there are
  closed,    \* the facilities with a deletedAt
  watched,   \* the organizations with ENVIRONMENT_MONITORING
  req, upload,
  clock, edits,
  claim      \* history: the owners of a device, and the next ones, at a time

vars == <<device, audit, reading, zones, closed, watched, req, upload,
          clock, edits, claim>>
-----------------------------------------------------------------------------
Time == 0..MaxTime

Unplaced == [state |-> "UNASSIGNED", org |-> Null, facility |-> Null, zone |-> Null,
             assignedAt |-> Null, lastSeenAt |-> Null]

Absent == [Unplaced EXCEPT !.state = "ABSENT"]

\* What the audit log records of a change, and what an update compares.
PlacementOf(d) == [state |-> d.state, org |-> d.org, facility |-> d.facility, zone |-> d.zone]

\* What it records of a device that was registered in its place.
PlaceOf(d) == [org |-> d.org, facility |-> d.facility, zone |-> d.zone]

NoRequest == [op |-> Null, pc |-> "idle", id |-> Null, seen |-> Null,
              org |-> Null, facility |-> Null, zone |-> Null, now |-> 0]

NoUpload == [pc |-> "idle", id |-> Null, org |-> Null, at |-> 0]

Init ==
  /\ device = [i \in Id |-> Absent]
  /\ audit = [i \in Id |-> Null]
  /\ reading = {}
  /\ zones = Zone /\ closed = {} /\ watched = Org \ Unwatched
  /\ req = [r \in Request |-> NoRequest]
  /\ upload = [u \in Upload |-> NoUpload]
  /\ clock = 0 /\ edits = 0
  /\ claim = [i \in Id |-> [t \in Time |-> {}]]

Answer(r) == req' = [req EXCEPT ![r] = NoRequest]

Claim(i, orgs) == claim' = [claim EXCEPT ![i][clock] = @ \cup (orgs \ {Null})]
-----------------------------------------------------------------------------
(* Registering. *)

\* One id of addDevices; an id that exists is reported.  What the call does to the
\* log of unknown ids is in module UnknownLog.
AddDevice(i) ==
  /\ device[i] = Absent
  /\ device' = [device EXCEPT ![i] = Unplaced]
  /\ audit' = [audit EXCEPT ![i] = [old |-> Null, new |-> Null]]
  /\ UNCHANGED <<reading, zones, closed, watched, req, upload, edits, clock, claim>>

\* The command line registers a device and may place it, with or without a zone.
RegisterPlaced(i, f, z) ==
  LET d == [Unplaced EXCEPT !.state = "ACTIVE", !.org = OrgOf[f], !.facility = f,
                            !.zone = z, !.assignedAt = clock] IN
  /\ device[i] = Absent /\ f \notin closed
  /\ z # Null => z \in zones /\ FacilityOf[z] = f
  /\ device' = [device EXCEPT ![i] = d]
  /\ audit' = [audit EXCEPT ![i] = [old |-> Null, new |-> PlaceOf(d)]]
  /\ Claim(i, {OrgOf[f]})
  /\ UNCHANGED <<reading, zones, closed, watched, req, upload, edits, clock>>
-----------------------------------------------------------------------------
(* Placing, moving and stopping.  The device is read and its state checked      *)
(* (requireDevice), then the target; the change is one transaction.  A facility *)
(* is never opened again, nor a zone made up with an old id: what validateTarget *)
(* finds was so when the device was read, and the checks are taken at once.     *)

MayBegin(op, d) ==
  CASE op = "assignDevice"     -> d.state = "UNASSIGNED"
    [] op = "reassignDevice"   -> d.state = "ACTIVE"
    [] op = "deactivateDevice" -> d.state \in {"UNASSIGNED", "ACTIVE"}
    [] op = "reactivateDevice" -> d.state = "DEACTIVATED"

Placing == {"assignDevice", "reassignDevice"}

\* The facility is not compared with the organization.
TargetFits_AnyOwner(o, f, z) ==
  /\ f \notin closed
  /\ z \in zones /\ FacilityOf[z] = f

\* validateTarget: the facility is live and the organization's own, and the zone
\* belongs to that facility.
TargetFits(o, f, z) ==
  /\ f \notin closed /\ OrgOf[f] = o
  /\ z \in zones /\ FacilityOf[z] = f

Begin(r, op, i, o, f, z) ==
  /\ req[r] = NoRequest /\ edits < MaxEdits /\ edits' = edits + 1
  /\ MayBegin(op, device[i])
  /\ req' = [req EXCEPT ![r] = [op |-> op, pc |-> "open", id |-> i, seen |-> PlacementOf(device[i]),
                                org |-> o, facility |-> f, zone |-> z, now |-> 0]]
  /\ UNCHANGED <<device, audit, reading, zones, closed, watched, upload, clock, claim>>

BeginPlacing(r, op, i, o, f, z) == TargetFits(o, f, z) /\ Begin(r, op, i, o, f, z)

\* The transaction opens and its time is read.
OpenTransaction(r) ==
  /\ req[r].pc = "open"
  /\ req' = [req EXCEPT ![r].pc = "commit", ![r].now = clock]
  /\ IF req[r].op \in Placing THEN Claim(req[r].id, {req[r].org}) ELSE UNCHANGED claim
  /\ UNCHANGED <<device, audit, reading, zones, closed, watched, upload, clock, edits>>

\* The row an operation writes, from the row it has read and the one there is.
Placed_KeepsWindow(q, d) ==
  CASE q.op = "assignDevice" ->
         [d EXCEPT !.state = "ACTIVE", !.org = q.org, !.facility = q.facility,
                   !.zone = q.zone, !.assignedAt = q.now]
    [] q.op = "reassignDevice" ->
         [d EXCEPT !.org = q.org, !.facility = q.facility, !.zone = q.zone]
    [] q.op = "deactivateDevice" -> [d EXCEPT !.state = "DEACTIVATED"]
    [] q.op = "reactivateDevice" -> [d EXCEPT !.state = "ACTIVE"]

\* The window of a tenant starts anew when the organization changes.  A device
\* that has no zone to go back to is taken out of its organization.
Placed(q, d) ==
  CASE q.op = "assignDevice" ->
         [d EXCEPT !.state = "ACTIVE", !.org = q.org, !.facility = q.facility,
                   !.zone = q.zone, !.assignedAt = q.now]
    [] q.op = "reassignDevice" ->
         [d EXCEPT !.org = q.org, !.facility = q.facility, !.zone = q.zone,
                   !.assignedAt = IF q.seen.org = q.org THEN @ ELSE q.now]
    [] q.op = "deactivateDevice" -> [d EXCEPT !.state = "DEACTIVATED"]
    [] q.op = "reactivateDevice" ->
         IF Null \in {q.seen.org, q.seen.facility, q.seen.zone}
         THEN [Unplaced EXCEPT !.lastSeenAt = d.lastSeenAt]
         ELSE [d EXCEPT !.state = "ACTIVE"]

\* Without the condition: the last one wins.
Unchanged_Never(q) == TRUE

\* updateUnlessChanged: state and placement must still be the ones that were read.
Unchanged(q) == PlacementOf(device[q.id]) = q.seen

\* The update, the audit row and the module, or nothing at all: a conflict, or a
\* zone deleted meanwhile (its foreign key), rolls everything back.
Commit(r, enable) ==
  LET q == req[r]
      d == device[q.id]
      new == Placed(q, d)
      fits == q.op \in Placing => q.zone \in zones IN
  /\ q.pc = "commit"
  /\ IF Unchanged(q) /\ fits
     THEN /\ device' = [device EXCEPT ![q.id] = new]
          /\ audit' = [audit EXCEPT ![q.id] =
               [old |-> q.seen, new |-> PlacementOf(new)]]
          /\ watched' = IF enable /\ q.op \in Placing THEN watched \cup {q.org} ELSE watched
          /\ Claim(q.id, {new.org})
     ELSE UNCHANGED <<device, audit, watched, claim>>
  /\ Answer(r)
  /\ UNCHANGED <<reading, zones, closed, upload, clock, edits>>
-----------------------------------------------------------------------------
(* Zones and facilities. *)

\* zone.service remove counts the devices, then deletes; the foreign key refuses
\* a zone that got a device in between.
CountDevices(r, z) ==
  /\ req[r] = NoRequest /\ edits < MaxEdits /\ edits' = edits + 1
  /\ z \in zones
  /\ \A i \in Id : device[i].zone # z
  /\ req' = [req EXCEPT ![r] = [NoRequest EXCEPT !.op = "remove", !.pc = "delete", !.zone = z]]
  /\ UNCHANGED <<device, audit, reading, zones, closed, watched, upload, clock, claim>>

\* onDelete: Restrict.
Restricted(z) == \E i \in Id : device[i].zone = z

DeleteZone(r) ==
  /\ req[r].pc = "delete"
  /\ zones' = IF Restricted(req[r].zone) THEN zones ELSE zones \ {req[r].zone}
  /\ Answer(r)
  /\ UNCHANGED <<device, audit, reading, closed, watched, upload, clock, edits, claim>>

\* A soft deletion: devices keep their facility.
RemoveFacility(f) ==
  /\ edits < MaxEdits /\ edits' = edits + 1
  /\ f \notin closed
  /\ closed' = closed \cup {f}
  /\ UNCHANGED <<device, audit, reading, zones, watched, req, upload, clock, claim>>
-----------------------------------------------------------------------------
(* Readings. *)

\* ingest finds the device, and with it the organization the reading is stamped
\* with.  The measurement may be an old one.  A stopped device is refused, and an
\* unknown one goes to the log of UnknownLog.
LookUpDevice(u, i, t) ==
  /\ upload[u] = NoUpload
  /\ t <= clock
  /\ device[i].state \in {"UNASSIGNED", "ACTIVE"}
  /\ upload' = [upload EXCEPT ![u] =
                  [pc |-> "store", id |-> i, org |-> device[i].org, at |-> t]]
  /\ UNCHANGED <<device, audit, reading, zones, closed, watched, req, clock, edits, claim>>

Latest(a, b) == IF a = Null \/ a < b THEN b ELSE a

\* Of two readings with one time the first is kept; lastSeenAt only moves forward.
StoreReading(u) ==
  LET q == upload[u] IN
  /\ q.pc = "store"
  /\ Cardinality(reading) < MaxReadings
  /\ reading' = IF \E x \in reading : x.id = q.id /\ x.at = q.at
                THEN reading
                ELSE reading \cup {[id |-> q.id, org |-> q.org, at |-> q.at]}
  /\ device' = [device EXCEPT ![q.id].lastSeenAt = Latest(@, q.at)]
  /\ upload' = [upload EXCEPT ![u] = NoUpload]
  /\ UNCHANGED <<audit, zones, closed, watched, req, clock, edits, claim>>

-----------------------------------------------------------------------------
\* An owner stays one in the next tick, and so does an organization a
\* transaction is placing the device in.
Tick ==
  /\ clock < MaxTime
  /\ clock' = clock + 1
  /\ claim' = [i \in Id |-> [claim[i] EXCEPT ![clock + 1] =
       ({device[i].org} \cup {req[r].org : r \in {r \in Request :
                                  req[r].id = i /\ req[r].pc = "commit"}}) \ {Null}]]
  /\ UNCHANGED <<device, audit, reading, zones, closed, watched, req, upload, edits>>

\* The server fails; nothing of the statement in flight is kept.
Fail ==
  \/ \E r \in Request :
       /\ req[r] # NoRequest /\ Answer(r)
       /\ UNCHANGED <<device, audit, reading, zones, closed, watched, upload, clock,
                      edits, claim>>
  \/ \E u \in Upload :
       /\ upload[u] # NoUpload /\ upload' = [upload EXCEPT ![u] = NoUpload]
       /\ UNCHANGED <<device, audit, reading, zones, closed, watched, req, clock,
                      edits, claim>>

Administer(r) ==
  \/ \E i \in Id, op \in Placing, o \in Org, f \in Facility, z \in Zone :
       BeginPlacing(r, op, i, o, f, z)
  \/ \E i \in Id, op \in {"deactivateDevice", "reactivateDevice"} :
       Begin(r, op, i, Null, Null, Null)
  \/ OpenTransaction(r)
  \/ \E enable \in BOOLEAN : Commit(r, enable)
  \/ \E z \in Zone : CountDevices(r, z)
  \/ DeleteZone(r)

Ingest(u) ==
  \/ \E i \in Id, t \in Time : LookUpDevice(u, i, t)
  \/ StoreReading(u)

Next ==
  \/ \E r \in Request : Administer(r)
  \/ \E u \in Upload : Ingest(u)
  \/ \E i \in Id : AddDevice(i)
  \/ \E i \in Id, f \in Facility, z \in Zone \cup {Null} : RegisterPlaced(i, f, z)
  \/ \E f \in Facility : RemoveFacility(f)
  \/ Tick \/ Fail

Spec == Init /\ [][Next]_vars
-----------------------------------------------------------------------------
(* Properties. *)

\* A device that reports for a tenant stands in one of his facilities, and its zone
\* is one of that facility: no check of a target that has aged, and no zone deleted
\* meanwhile, leaves it elsewhere.  The database itself relates none of the three.
PlacementsFit ==
  \A i \in Id : LET d == device[i] IN
    /\ d.state = "ACTIVE" => d.org # Null /\ d.facility # Null /\ d.assignedAt # Null
    /\ d.facility # Null => OrgOf[d.facility] = d.org
    /\ d.zone # Null => d.zone \in zones /\ FacilityOf[d.zone] = d.facility

\* What a tenant is shown of a device: getDeviceHistory, listDevicesForOrg.
Visible(o, i) ==
  {x \in reading : /\ device[i].state = "ACTIVE" /\ device[i].org = o
                   /\ x.id = i /\ x.org = o /\ x.at >= device[i].assignedAt}

\* A tenant is shown a measurement only if the device was his when it was taken (or
\* a transaction placing it with him was open): however the device moves between
\* organizations, also away and back, and however late readings arrive or
\* administrators' transactions commit.
WindowsAreOwn ==
  \A o \in Org, i \in Id : \A x \in Visible(o, i) : o \in claim[i][x.at]

\* Every change of a device's state or placement is told by its audit entry, with
\* the placement it really replaced, also when administrators act on it at once;
\* a registration's entry has the device's place, if it was given one.
AuditTellsTheTruth ==
  [][\A i \in Id : PlacementOf(device'[i]) # PlacementOf(device[i]) =>
       IF device[i] = Absent
       THEN device'[i].org # Null => audit'[i] = [old |-> Null, new |-> PlaceOf(device'[i])]
       ELSE audit'[i] = [old |-> PlacementOf(device[i]), new |-> PlacementOf(device'[i])]]_vars
=============================================================================
