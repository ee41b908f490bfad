------------------------------ MODULE ZoneView ------------------------------
(***************************************************************************)
(* A tenant's page of one zone (ZonePage.tsx, zone-view.ts).  What it does  *)
(* follows from three queries: the zones of the caller's facilities, the    *)
(* organization's modules (SubscriptionContext.tsx), and the devices, asked *)
(* for only once the modules are known to include the monitoring.  A query  *)
(* of the library is what the page uses of it: its status, whether it is    *)
(* being fetched, fetched no more, or paused because the browser is         *)
(* offline, and the data it keeps.  The choice between two facilities with  *)
(* a zone of that slug, the charts and the clock are left out.              *)
(***************************************************************************)
EXTENDS Naturals

CONSTANTS Null,
          Slug,       \* "built" for a slug with a mock layout, "other" for the rest
          MaxChanges  \* bound: changes on the server while the page is open

VARIABLES slug,
          server,   \* is the zone there, has it a device, has the tenant the module
          online,   \* is the browser online
          zones, modules, devices,  \* the three queries
          cached,   \* the modules of the last visit: is the monitoring among them
          left,     \* has the page sent the visitor to the dashboard
          changes

vars == <<slug, server, online, zones, modules, devices, cached, left, changes>>

\* A query starts at once, and waits when the browser is offline.
Started(on) == [status |-> "pending", fetch |-> IF on THEN "fetching" ELSE "paused",
                data |-> Null]
Disabled == [status |-> "pending", fetch |-> "idle", data |-> Null]

ModulesReady(m, c) == m.data # Null \/ c # Null
HasModule(m, c) == IF m.data # Null THEN m.data ELSE c = TRUE
SensorsAvailable(m, c) == ModulesReady(m, c) /\ HasModule(m, c)

Init ==
  /\ slug \in Slug
  /\ server \in [zone : BOOLEAN, device : BOOLEAN, module : BOOLEAN]
  /\ server.device => server.zone
  /\ online \in BOOLEAN
  /\ cached \in {TRUE, FALSE, Null}
  /\ zones = Started(online) /\ modules = Started(online)
  /\ devices = IF SensorsAvailable(modules, cached) THEN Started(online) ELSE Disabled
  /\ left = FALSE /\ changes = 0
-----------------------------------------------------------------------------
(* What the page makes of its queries. *)

IsLoading(q) == q.status = "pending" /\ q.fetch = "fetching"

HasZone == zones.data = TRUE
HasDevice == devices.data = TRUE

\* It waits while a list is loading for the first time; a failed list of zones is
\* an error to show, and only a list without the zone means that it is missing.
PageState ==
  IF IsLoading(zones) \/ (SensorsAvailable(modules, cached) /\ IsLoading(devices))
  THEN "loading"
  ELSE IF zones.status = "error" THEN "error"
  ELSE IF HasZone THEN "ready" ELSE "missing"

ViewMode ==
  IF HasDevice THEN "sensor"
  ELSE IF slug = "built" THEN "mock" ELSE "placeholder"

\* The page of a missing zone is replaced at once.
Leave ==
  /\ ~left /\ PageState = "missing"
  /\ left' = TRUE
  /\ UNCHANGED <<slug, server, online, zones, modules, devices, cached, changes>>

Open == ~left /\ PageState # "missing"
-----------------------------------------------------------------------------
(* The queries. *)

Answered(data) == [status |-> "success", fetch |-> "idle", data |-> data]
Failed(q) == [q EXCEPT !.status = "error", !.fetch = "idle"]
\* A request that may be tried again waits for the network.
FailedOnce(q) == IF online THEN Failed(q) ELSE [q EXCEPT !.fetch = "paused"]
\* Asked for again: what never had data is pending again.
Asked(q) == [q EXCEPT !.fetch = IF online THEN "fetching" ELSE "paused",
                      !.status = IF q.data = Null THEN "pending" ELSE @]

AnswerZones ==
  /\ Open /\ online /\ zones.fetch = "fetching"
  /\ zones' = Answered(server.zone)
  /\ UNCHANGED <<slug, server, online, modules, devices, cached, left, changes>>

\* The modules are kept for the next visit, and the devices are asked for when
\* the monitoring turns out to be among them.
AnswerModules ==
  /\ Open /\ online /\ modules.fetch = "fetching"
  /\ modules' = Answered(server.module)
  /\ devices' = IF server.module /\ ~SensorsAvailable(modules, cached) /\ devices.data = Null
                THEN Asked(devices) ELSE devices
  /\ UNCHANGED <<slug, server, online, zones, cached, left, changes>>

\* The server refuses the devices to a tenant without the module, and that is
\* final until the next refetch.
AnswerDevices ==
  /\ Open /\ online /\ devices.fetch = "fetching"
  /\ devices' = IF server.module THEN Answered(server.device) ELSE Failed(devices)
  /\ UNCHANGED <<slug, server, online, zones, modules, cached, left, changes>>

FailQuery ==
  /\ Open
  /\ \/ zones.fetch = "fetching" /\ zones' = FailedOnce(zones) /\ UNCHANGED <<modules, devices>>
     \/ modules.fetch = "fetching" /\ modules' = FailedOnce(modules) /\ UNCHANGED <<zones, devices>>
     \/ devices.fetch = "fetching" /\ devices' = Failed(devices) /\ UNCHANGED <<zones, modules>>
  /\ UNCHANGED <<slug, server, online, cached, left, changes>>

\* The minute's refetch of the devices, the button "Retry", a page in focus again.
Refetch ==
  /\ Open
  /\ \/ zones.fetch = "idle" /\ zones' = Asked(zones) /\ UNCHANGED <<modules, devices>>
     \/ modules.fetch = "idle" /\ modules' = Asked(modules) /\ UNCHANGED <<zones, devices>>
     \/ SensorsAvailable(modules, cached) /\ devices.fetch = "idle"
        /\ devices' = Asked(devices) /\ UNCHANGED <<zones, modules>>
  /\ UNCHANGED <<slug, server, online, cached, left, changes>>

Resumed(q) == IF q.fetch = "paused" THEN [q EXCEPT !.fetch = "fetching"] ELSE q

SwitchNetwork ==
  /\ Open
  /\ online' = ~online
  /\ IF online THEN UNCHANGED <<zones, modules, devices>>
     ELSE zones' = Resumed(zones) /\ modules' = Resumed(modules) /\ devices' = Resumed(devices)
  /\ UNCHANGED <<slug, server, cached, left, changes>>

\* The zone is made or removed, a device placed in it or taken away, the module
\* switched.  A zone with a device is not removed.
ChangeServer ==
  /\ Open /\ changes < MaxChanges /\ changes' = changes + 1
  /\ server' \in [zone : BOOLEAN, device : BOOLEAN, module : BOOLEAN]
  /\ server' # server /\ (server'.device => server'.zone)
  /\ UNCHANGED <<slug, online, zones, modules, devices, cached, left>>

Next == \/ AnswerZones \/ AnswerModules \/ AnswerDevices \/ FailQuery \/ Refetch
        \/ SwitchNetwork \/ ChangeServer \/ Leave

Spec == Init /\ [][Next]_vars
-----------------------------------------------------------------------------
NeverAsked(q) == q.status = "pending" /\ q.fetch = "paused"

\* A link to a zone is left only for what a list of zones has said: no failure
\* and no order of the answers sends a visitor away from a zone that is there -
\* except that a page opened offline, or gone offline before its first answer,
\* takes the list it never got for one without the zone.
ValidLinksStay ==
  left => zones.data = FALSE \/ NeverAsked(zones)

\* When all that was asked has been answered since the server last changed, the
\* page shows the zone's sensors exactly if there are some and the tenant has
\* the monitoring.
SettledShowsSensors ==
  (~left /\ changes = 0 /\ PageState = "ready"
     /\ {zones.status, modules.status} = {"success"} /\ devices.fetch = "idle"
     /\ devices.status # "error")
    => (ViewMode = "sensor" <=> server.device /\ server.module)
-----------------------------------------------------------------------------
(* The inductive invariant of these properties.                            *)

Query == [status : {"pending", "success", "error"}, fetch : {"fetching", "paused", "idle"},
          data : BOOLEAN \cup {Null}]

TypeOK ==
  /\ slug \in Slug /\ online \in BOOLEAN /\ left \in BOOLEAN /\ changes \in Nat
  /\ server \in [zone : BOOLEAN, device : BOOLEAN, module : BOOLEAN]
  /\ zones \in Query /\ modules \in Query /\ devices \in Query

\* A query that is on is under way, or has an answer or an error; the devices are
\* asked for as soon as the modules are known to include the monitoring.
QueriesAreAsked ==
  /\ zones.status = "pending" => zones.fetch # "idle"
  /\ zones.status = "success" => zones.data \in BOOLEAN
  /\ devices.status = "pending" => devices.data = Null
  /\ SensorsAvailable(modules, cached) /\ devices.status = "pending" => devices.fetch # "idle"

\* What has been answered is so, as long as the server has not changed.
AnswersAreTrue ==
  changes = 0 =>
    /\ modules.status = "success" => modules.data = server.module
    /\ devices.status = "success" => devices.data = server.device
    /\ devices.data # Null => server.module

IInv == TypeOK /\ QueriesAreAsked /\ AnswersAreTrue /\ ValidLinksStay
=============================================================================
