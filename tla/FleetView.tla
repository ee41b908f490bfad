------------------------------ MODULE FleetView ------------------------------
(***************************************************************************)
(* The operator's view of the sensor fleet (sensor-fleet-read.service.ts,  *)
(* SensorFleetPage.tsx): the summary tiles and alerts, and the device list  *)
(* filtered by health.  Both gather rows in statements of their own - the   *)
(* devices, then their newest readings and the offline threshold, in either *)
(* order - while devices report and are placed or stopped (SensorFleet).    *)
(* A device's health comes from what was gathered.  Names, places, signal   *)
(* values and pages of 25 are left out.                                     *)
(***************************************************************************)
EXTENDS Naturals, FiniteSets

CONSTANTS Device,
          Threshold,  \* the minutes an administrator may choose, in ticks
          MaxTime,    \* bound
          Null

VARIABLES clock,
          device,     \* state and lastSeenAt, of each device
          newest,     \* its newest reading: when and what, or Null
          threshold,  \* sensor.offlineAfterMinutes
          gather      \* the query under way, with the rows it has read

vars == <<clock, device, newest, threshold, gather>>

State == {"UNASSIGNED", "ACTIVE", "DEACTIVATED"}
\* What a reading tells: an error code, or what its values come to.
Verdict == {"FAULT", "ALERT", "OK"}

NoGather == [what |-> Null, pc |-> "idle", now |-> 0, device |-> Null,
             newest |-> Null, threshold |-> Null]

Init ==
  /\ clock = 0
  /\ device \in [Device -> [state : State, lastSeenAt : {Null}]]
  /\ newest = [d \in Device |-> Null]
  /\ threshold \in Threshold
  /\ gather = NoGather
-----------------------------------------------------------------------------
(* What happens to the devices meanwhile. *)

Later(t, old) == IF old = Null THEN TRUE ELSE t > old

\* A reading is stored and lastSeenAt moved in one transaction; of two with one
\* time the first is kept.  The measurement may be older than the newest
\* one, which changes nothing here, or a tick ahead by the device's clock.
Report(d, t, v) ==
  /\ t <= clock + 1 /\ device[d].state # "DEACTIVATED"
  /\ Later(t, device[d].lastSeenAt)
  /\ device' = [device EXCEPT ![d].lastSeenAt = t]
  /\ newest' = [newest EXCEPT ![d] = [at |-> t, verdict |-> v]]
  /\ UNCHANGED <<clock, threshold, gather>>

\* Assigned, stopped, started again.
Change(d, s) ==
  /\ <<device[d].state, s>> \in {<<"UNASSIGNED", "ACTIVE">>, <<"ACTIVE", "DEACTIVATED">>,
       <<"UNASSIGNED", "DEACTIVATED">>, <<"DEACTIVATED", "ACTIVE">>,
       <<"DEACTIVATED", "UNASSIGNED">>}
  /\ device' = [device EXCEPT ![d].state = s]
  /\ UNCHANGED <<clock, newest, threshold, gather>>

SetOfflineThreshold(m) ==
  /\ m # threshold
  /\ threshold' = m
  /\ UNCHANGED <<clock, device, newest, gather>>

Tick ==
  /\ clock < MaxTime
  /\ clock' = clock + 1
  /\ UNCHANGED <<device, newest, threshold, gather>>
-----------------------------------------------------------------------------
(* Gathering the rows. *)

\* The summary looks at the clock before it reads the devices.
BeginSummary ==
  /\ gather = NoGather
  /\ gather' = [NoGather EXCEPT !.what = "summary", !.pc = "devices", !.now = clock]
  /\ UNCHANGED <<clock, device, newest, threshold>>

BeginList ==
  /\ gather = NoGather
  /\ gather' = [NoGather EXCEPT !.what = "list", !.pc = "devices"]
  /\ UNCHANGED <<clock, device, newest, threshold>>

\* The list looks at the clock after it.
FindDevices ==
  /\ gather.pc = "devices"
  /\ gather' = [gather EXCEPT !.pc = "rows", !.device = device,
                  !.now = IF gather.what = "list" THEN clock ELSE @]
  /\ UNCHANGED <<clock, device, newest, threshold>>

\* The newest readings are read after the devices.
LatestReadings ==
  /\ gather.pc = "rows" /\ gather.newest = Null
  /\ gather' = [gather EXCEPT !.newest = newest]
  /\ UNCHANGED <<clock, device, newest, threshold>>

ReadThreshold ==
  /\ gather.pc = "rows" /\ gather.threshold = Null
  /\ gather' = [gather EXCEPT !.threshold = threshold]
  /\ UNCHANGED <<clock, device, newest, threshold>>

\* Never seen is offline; seen at the threshold is online; and so is a device
\* seen after the query looked at the clock.
IsDeviceOnline(seen, now, limit) == IF seen = Null THEN FALSE ELSE now <= seen + limit

AdminDeviceStatus(seen, reading, now, limit) ==
  CASE reading = Null -> "WAITING"
    [] reading # Null /\ ~IsDeviceOnline(seen, now, limit) -> "OFFLINE"
    [] OTHER -> reading.verdict

Row(d) ==
  [state |-> gather.device[d].state, seen |-> gather.device[d].lastSeenAt,
   status |-> AdminDeviceStatus(gather.device[d].lastSeenAt, gather.newest[d],
                                gather.now, gather.threshold)]

Complete == gather.pc = "rows" /\ gather.newest # Null /\ gather.threshold # Null

\* The answer is given, or the query fails, and the page keeps what it shows.
EndGather ==
  /\ gather # NoGather
  /\ gather' = NoGather
  /\ UNCHANGED <<clock, device, newest, threshold>>

Next ==
  \/ \E d \in Device, t \in 0..MaxTime, v \in Verdict : Report(d, t, v)
  \/ \E d \in Device, s \in State : Change(d, s)
  \/ \E m \in Threshold : SetOfflineThreshold(m)
  \/ Tick
  \/ BeginSummary \/ BeginList \/ FindDevices \/ LatestReadings \/ ReadThreshold
  \/ EndGather

Spec == Init /\ [][Next]_vars
-----------------------------------------------------------------------------
(* What the complete rows are counted to. *)

Active == {d \in Device : Row(d).state = "ACTIVE"}
Online == {d \in Active : IsDeviceOnline(Row(d).seen, gather.now, gather.threshold)}
Having(status) == {d \in Active : Row(d).status = status}

\* HEALTH_MATCH, of a row's status.
Matches(h, status) ==
  CASE h = "online" -> status \notin {"WAITING", "OFFLINE"}
    [] h = "offline" -> status = "OFFLINE"
    [] h = "fault" -> status = "FAULT"
    [] h = "waiting" -> status = "WAITING"

\* The list of the devices in some states by their health, on the same rows.
DeviceList(states, h) == {d \in Device : Row(d).state \in states /\ Matches(h, Row(d).status)}

\* fleetSummary's alerts.
Alerts == Having("FAULT") \cup Having("ALERT") \cup Having("OFFLINE")

\* However devices report, move and stop while the rows are gathered, the tiles
\* add up to the active devices, and the tile "Online", which asks when a device was
\* seen, counts those that the list of active devices shows as online, which asks
\* for its status (sensor-fleet-read.service.ts:88-93, 134-150); no device in fault
\* or in alert is counted out of it.  With all states listed, every device is
\* online, offline or waiting, and in one of these lists only.
TilesAddUp ==
  Complete =>
    /\ Cardinality(Online) + Cardinality(Having("OFFLINE"))
         + Cardinality(Having("WAITING")) = Cardinality(Active)
    /\ Online = DeviceList({"ACTIVE"}, "online")
    /\ Alerts \ DeviceList({"ACTIVE"}, "offline") \subseteq Online
    /\ Cardinality(DeviceList(State, "online")) + Cardinality(DeviceList(State, "offline"))
         + Cardinality(DeviceList(State, "waiting")) = Cardinality(Device)
    /\ DeviceList(State, "fault") \subseteq DeviceList(State, "online")
-----------------------------------------------------------------------------
(* The inductive invariant of this property.                               *)

DeviceRow == [state : State, lastSeenAt : Nat \cup {Null}]
Reading == [at : Nat, verdict : Verdict]

TypeOK ==
  /\ clock \in Nat /\ threshold \in Threshold
  /\ device \in [Device -> DeviceRow]
  /\ newest \in [Device -> Reading \cup {Null}]
  /\ gather \in [what : {"summary", "list", Null}, pc : {"idle", "devices", "rows"}, now : Nat,
                 device : [Device -> DeviceRow] \cup {Null},
                 newest : [Device -> Reading \cup {Null}] \cup {Null},
                 threshold : Threshold \cup {Null}]

\* Who was seen has a reading; so also among the rows gathered, whose devices are
\* read first.
Seen(rows, readings) == \A d \in Device : readings[d] = Null => rows[d].lastSeenAt = Null

SeenHaveReadings ==
  /\ Seen(device, newest)
  /\ IF gather.pc = "rows"
     THEN /\ gather.device \in [Device -> DeviceRow] /\ Seen(gather.device, newest)
          /\ gather.newest # Null => Seen(gather.device, gather.newest)
     ELSE gather.newest = Null

IInv == TypeOK /\ SeenHaveReadings
=============================================================================
