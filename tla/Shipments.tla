------------------------------ MODULE Shipments ------------------------------
(***************************************************************************)
(* Supplier shipments of one organization: ShipmentRegisterPage at several *)
(* stations, shipmentService.register with its loop over codes, and the    *)
(* dashboard and detail pages, which read through a cache.                 *)
(***************************************************************************)
EXTENDS Naturals, Sequences

CONSTANTS
  Station,
  Code,          \* what generateShipmentCode draws from
  Facility,
  MAX_ATTEMPTS,
  MaxRequests,   \* bound: submissions of all the stations
  Null

VARIABLES
  page,       \* one ShipmentRegisterPage a station
  requests,   \* bound: submissions so far
  shipments,  \* the rows of table shipments
  facilities, \* the facilities that are not deleted
  dashboard   \* how many rows the cached list has

vars == <<page, requests, shipments, facilities, dashboard>>
-----------------------------------------------------------------------------
\* A shipment is its submission's number and a facility: what else is typed is never
\* asked about.  options: what facilityOptions has answered; registered: the row the
\* confirmation shows.
EmptyForm == [step |-> "form", request |-> 0, attempt |-> 0, facilityId |-> Null,
              options |-> {}, registered |-> 0]

Init ==
  /\ page = [s \in Station |-> EmptyForm]
  /\ requests = 0 /\ shipments = <<>> /\ facilities = Facility /\ dashboard = 0

\* A minute after the last answer, and on the first render.
FacilityOptions(s) ==
  /\ page[s].options # facilities
  /\ page' = [page EXCEPT ![s].options = facilities]
  /\ UNCHANGED <<requests, shipments, facilities, dashboard>>

\* An administrator deletes a facility.
DeleteFacility(f) ==
  /\ facilities' = facilities \ {f}
  /\ UNCHANGED <<page, requests, shipments, dashboard>>

Choose(s, f) ==
  /\ page[s].step # "confirmation"
  /\ page' = [page EXCEPT ![s].facilityId = f]
  /\ UNCHANGED <<requests, shipments, facilities, dashboard>>

\* handleSubmit; the button is disabled while the mutation is pending.
Submit(s) ==
  /\ page[s].step = "form" /\ requests < MaxRequests
  /\ requests' = requests + 1
  /\ page' = [page EXCEPT ![s].step = "pending", ![s].request = requests + 1, ![s].attempt = 0]
  /\ UNCHANGED <<shipments, facilities, dashboard>>

Taken == {shipments[i].code : i \in DOMAIN shipments}

Row(s, code) ==
  [code |-> code, request |-> page[s].request, facilityId |-> page[s].facilityId]

\* create, with a code nobody has.  The facility's row is there, deleted or not.
Create(s, code) ==
  /\ page[s].step = "pending" /\ code \notin Taken
  /\ shipments' = Append(shipments, Row(s, code))
  /\ page' = [page EXCEPT ![s].step = "answer", ![s].registered = Len(shipments) + 1]
  /\ UNCHANGED <<requests, facilities, dashboard>>

\* The connection is lost around the statement, which has run or not.
ConnectionLost(s, code) ==
  /\ page[s].step = "pending"
  /\ \/ /\ code \notin Taken
        /\ shipments' = Append(shipments, Row(s, code))
     \/ UNCHANGED shipments
  /\ page' = [page EXCEPT ![s].step = "P1001"]
  /\ UNCHANGED <<requests, facilities, dashboard>>

\* The code is taken: P2002.
Collide(s, code) ==
  /\ page[s].step = "pending" /\ code \in Taken
  /\ page' = [page EXCEPT ![s].step = "P2002"]
  /\ UNCHANGED <<requests, shipments, facilities, dashboard>>

IsCollision(s) == page[s].step = "P2002"

\* The catch block.
Caught(s) ==
  /\ page[s].step \in {"P1001", "P2002"}
  /\ page' = IF IsCollision(s) /\ page[s].attempt < MAX_ATTEMPTS - 1
             THEN [page EXCEPT ![s].step = "pending", ![s].attempt = @ + 1]
             ELSE [page EXCEPT ![s].step = "error"]
  /\ UNCHANGED <<requests, shipments, facilities, dashboard>>

\* onSuccess.
Confirm(s) ==
  /\ page[s].step = "answer"
  /\ page' = [page EXCEPT ![s].step = "confirmation"]
  /\ UNCHANGED <<requests, shipments, facilities, dashboard>>

\* The error is shown above the form, which can be sent again.
ShowError(s) ==
  /\ page[s].step \in {"error", "answer"}
  /\ page' = [page EXCEPT ![s].step = "form", ![s].registered = 0]
  /\ UNCHANGED <<requests, shipments, facilities, dashboard>>

\* handleRecordAnother.
RecordAnother(s) ==
  /\ page[s].step = "confirmation"
  /\ page' = [page EXCEPT ![s] = [EmptyForm EXCEPT !.options = page[s].options]]
  /\ UNCHANGED <<requests, shipments, facilities, dashboard>>

\* The dashboard's list: nothing invalidates it but time and Refresh.
Refetch ==
  /\ dashboard # Len(shipments) /\ dashboard' = Len(shipments)
  /\ UNCHANGED <<page, requests, shipments, facilities>>

Next ==
  \/ \E s \in Station :
       \/ FacilityOptions(s) \/ Submit(s) \/ Caught(s)
       \/ Confirm(s) \/ ShowError(s) \/ RecordAnother(s)
       \/ \E f \in page[s].options \cup {Null} : Choose(s, f)
       \/ \E code \in Code : Create(s, code) \/ ConnectionLost(s, code) \/ Collide(s, code)
  \/ \E f \in facilities : DeleteFacility(f)
  \/ Refetch

Spec == Init /\ [][Next]_vars
-----------------------------------------------------------------------------
(* Properties. *)

\* A submission stores at most one shipment, though its loop creates again and
\* again and an error may come after the row (shipment.service.ts:39-70).
OneRowPerSubmission ==
  \A i, j \in DOMAIN shipments : shipments[i].request = shipments[j].request => i = j
-----------------------------------------------------------------------------
(* The inductive invariant of this property.                               *)

Step == {"form", "pending", "answer", "P1001", "P2002", "error", "confirmation"}

TypeOK ==
  /\ page \in [Station -> [step : Step, request : Nat, attempt : Nat,
                           facilityId : Facility \cup {Null}, options : SUBSET Facility,
                           registered : Nat]]
  /\ requests \in Nat
  /\ shipments \in Seq([code : Code, request : Nat, facilityId : Facility \cup {Null}])
  /\ facilities \subseteq Facility

\* Nobody's number is newer than the newest, and no two stations have the same.
RequestsAreOwn ==
  /\ \A i \in DOMAIN shipments : shipments[i].request <= requests
  /\ \A s \in Station : page[s].request <= requests
  /\ \A s, t \in Station : page[s].request = page[t].request /\ page[s].request # 0 => s = t

\* A submission whose loop goes on has stored nothing yet.
LoopsHaveNoRow ==
  \A s \in Station : page[s].step \in {"pending", "P2002"} =>
    page[s].request # 0 /\ \A i \in DOMAIN shipments : shipments[i].request # page[s].request

IInv == TypeOK /\ RequestsAreOwn /\ LoopsHaveNoRow /\ OneRowPerSubmission
=============================================================================
