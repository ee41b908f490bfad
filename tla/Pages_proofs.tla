---------------------------- MODULE Pages_proofs ----------------------------
(***************************************************************************)
(* Proofs about the pages that Pages puts side by side, for every set of   *)
(* codes, stations, tabs, slots, fields, employees, modules and            *)
(* administrators, for finite sets of cycles, facilities and devices, and  *)
(* for any bound.                                                          *)
(*                                                                         *)
(* Each module states the inductive invariant of its component, IInv.      *)
(* PagesInv is that of the component the behaviour is of: a step of one    *)
(* leaves nothing of another to be shown.  A section proves one component; *)
(* in it the registers r1, r2, ... are the variables its header names.     *)
(***************************************************************************)
EXTENDS Pages, FiniteSetTheorems, SequenceTheorems, TLAPS

-----------------------------------------------------------------------------
(* The page of an invitation (InvitePage): page r1, awaiting r2, accepts r3,*)
(* foreign r4.  One place at a time waits for a session, the ref being     *)
(* claimed by it.                                                          *)

\* The page is opened, and nothing has been asked.
LEMMA InitInvite == ASSUME Invite!Init PROVE Invite!IInv
<1>1. r1.loading /\ ~r1.requested /\ ~r1.confirm /\ ~r1.user /\ r3 = 0 /\ ~r4
      /\ \A p \in Invite!Place : r2[p] = "nothing"
  BY DEF Invite!Init
<1>2. Invite!TypeOK
  BY DEF Invite!Init, Invite!TypeOK
<1>3. Invite!SessionsAreAwaited
  BY <1>1 DEF Invite!SessionsAreAwaited, Invite!Place
<1> QED
  BY <1>1, <1>2, <1>3 DEF Invite!IInv

\* The page's own steps: the session that is stored, the form, the code.
LEMMA FormInvite ==
  ASSUME Invite!IInv,
         \/ \E found \in BOOLEAN : Invite!RestoreSession(found)
         \/ Invite!SwitchMode \/ Invite!SubmitRefused \/ Invite!Submit \/ Invite!AskForCode
         \/ Invite!Verify
  PROVE  Invite!IInv'
<1> USE DEF Invite!IInv, Invite!TypeOK, Invite!SessionsAreAwaited, Invite!Place
<1>1. ASSUME NEW found \in BOOLEAN, Invite!RestoreSession(found) PROVE Invite!IInv'
  BY <1>1 DEF Invite!RestoreSession
<1>2. CASE Invite!SwitchMode
  BY <1>2 DEF Invite!SwitchMode, Invite!FormShown, Invite!Joining
<1>3. CASE Invite!SubmitRefused
  BY <1>3 DEF Invite!SubmitRefused, Invite!FormShown, Invite!Joining
<1>4. CASE Invite!Submit
  BY <1>4 DEF Invite!Submit, Invite!FormShown, Invite!Joining
<1>5. CASE Invite!AskForCode
  BY <1>5 DEF Invite!AskForCode
<1>6. CASE Invite!Verify
  BY <1>6 DEF Invite!Verify, Invite!CodeShown, Invite!Joining
<1> QED
  BY <1>1, <1>2, <1>3, <1>4, <1>5, <1>6

\* A call of accept is made, and answered.
LEMMA AcceptInvite ==
  ASSUME Invite!IInv,
         \/ Invite!AcceptAtOnce
         \/ \E p \in Invite!Place :
              Invite!SignedIn(p) \/ Invite!SignInFails(p) \/ Invite!Accepted(p) \/ Invite!AcceptFails(p)
         \/ Invite!OtherTab
  PROVE  Invite!IInv'
<1> USE DEF Invite!IInv, Invite!TypeOK, Invite!SessionsAreAwaited, Invite!Place
<1>1. CASE Invite!AcceptAtOnce
  <2>1. /\ r1' = [r1 EXCEPT !.requested = TRUE] /\ r2' = [r2 EXCEPT !["effect"] = "accept"]
        /\ r3' = r3 + 1 /\ r4' = r4 /\ ~r1.requested /\ r1.user /\ ~r1.loading
    BY <1>1 DEF Invite!AcceptAtOnce, Invite!CallAccept
  <2>2. ~r4 => r3 = 0 /\ ~r1.confirm /\ \A q \in Invite!Place : r2[q] # "session"
    BY <2>1
  <2>3. r2'["effect"] = "accept" /\ \A q \in Invite!Place : r2'[q] \in {"accept", r2[q]}
    BY <2>1
  <2>4. Invite!TypeOK' /\ (r1'.requested => ~r1'.loading)
    <3>1. r3' \in Nat /\ r4' \in BOOLEAN
      BY <2>1
    <3>2. r2' \in [Invite!Place -> {"nothing", "session", "accept"}]
      BY <2>1
    <3>3. r1' \in [loading : BOOLEAN, user : BOOLEAN, mode : {"signup", "login"},
                   requested : BOOLEAN, confirm : BOOLEAN, error : BOOLEAN, left : BOOLEAN]
      BY <2>1
    <3>4. r1'.requested => ~r1'.loading
      BY <2>1
    <3> QED
      BY <3>1, <3>2, <3>3, <3>4
  <2>5. ASSUME ~r4 PROVE Invite!SessionsAreAwaited'
    BY <2>1, <2>2, <2>3, <2>5
  <2>6. ASSUME ~r4 PROVE r3' <= 1 /\ r1'.requested /\ r1'.user
    BY <2>1, <2>2, <2>6
  <2> QED
    BY <2>1, <2>3, <2>4, <2>5, <2>6
<1>2. ASSUME NEW p \in Invite!Place, Invite!SignedIn(p) PROVE Invite!IInv'
  <2>1. /\ r1' = [r1 EXCEPT !.user = TRUE] /\ r2' = [r2 EXCEPT ![p] = "accept"]
        /\ r3' = r3 + 1 /\ r4' = r4 /\ r2[p] = "session"
    BY <1>2 DEF Invite!SignedIn, Invite!CallAccept
  <2>2. ~r4 => /\ r3 = 0 /\ r1.requested /\ p # "effect"
               /\ \A q \in Invite!Place : q # p => r2[q] # "session"
    BY <2>1
  <2>3. r2'[p] = "accept" /\ \A q \in Invite!Place : q # p => r2'[q] = r2[q]
    BY <2>1
  <2>4. Invite!TypeOK' /\ (r1'.requested => ~r1'.loading)
    <3>1. r3' \in Nat /\ r4' \in BOOLEAN
      BY <2>1
    <3>2. r2' \in [Invite!Place -> {"nothing", "session", "accept"}]
      BY <2>1
    <3>3. r1' \in [loading : BOOLEAN, user : BOOLEAN, mode : {"signup", "login"},
                   requested : BOOLEAN, confirm : BOOLEAN, error : BOOLEAN, left : BOOLEAN]
      BY <2>1
    <3>4. r1'.requested => ~r1'.loading
      BY <2>1
    <3> QED
      BY <3>1, <3>2, <3>3, <3>4
  <2>5. ASSUME ~r4 PROVE Invite!SessionsAreAwaited'
    BY <2>1, <2>2, <2>3, <2>5
  <2>6. ASSUME ~r4 PROVE r3' <= 1 /\ r1'.requested /\ r1'.user
    BY <2>1, <2>2, <2>6
  <2> QED
    BY <2>1, <2>3, <2>4, <2>5, <2>6
<1>3. ASSUME NEW p \in Invite!Place, Invite!SignInFails(p) PROVE Invite!IInv'
  BY <1>3 DEF Invite!SignInFails
<1>4. ASSUME NEW p \in Invite!Place, Invite!Accepted(p) PROVE Invite!IInv'
  BY <1>4 DEF Invite!Accepted
<1>5. ASSUME NEW p \in Invite!Place, Invite!AcceptFails(p) PROVE Invite!IInv'
  BY <1>5 DEF Invite!AcceptFails
<1>6. CASE Invite!OtherTab
  BY <1>6 DEF Invite!OtherTab
<1> QED
  BY <1>1, <1>2, <1>3, <1>4, <1>5, <1>6

\* Every step of the page keeps its invariant.
LEMMA NextInvite == ASSUME Invite!IInv, Invite!Next PROVE Invite!IInv'
BY FormInvite, AcceptInvite DEF Invite!Next

\* The invariant says what the page promises.
LEMMA InviteIsAccepted == Invite!IInv => Invite!OneAcceptPerVisit /\ Invite!JoiningEnds
BY DEF Invite!IInv, Invite!OneAcceptPerVisit, Invite!JoiningEnds, Invite!Joining, Invite!TypeOK

-----------------------------------------------------------------------------
(* The shipments of several stations (Shipments): page r1, requests r2,    *)
(* shipments r3, facilities r4, dashboard r5.  A submission has a number of*)
(* its own, and one whose loop goes on has stored nothing.                 *)

\* A page and a row.
ShipmentPage ==
  [step : Shipment!Step, request : Nat, attempt : Nat, facilityId : Facility \cup {Null},
   options : SUBSET Facility, registered : Nat]
ShipmentRow == [code : Code, request : Nat, facilityId : Facility \cup {Null}]

\* The pages and the rows, one by one.
LEMMA ShipmentFacts ==
  ASSUME Shipment!IInv
  PROVE  /\ r1 \in [Station -> ShipmentPage]
         /\ r2 \in Nat /\ r3 \in Seq(ShipmentRow) /\ r4 \subseteq Facility
         /\ \A i \in 1..Len(r3) : r3[i] \in ShipmentRow
<1>1. r1 \in [Station -> ShipmentPage] /\ r2 \in Nat /\ r4 \subseteq Facility
  BY DEF Shipment!IInv, Shipment!TypeOK, ShipmentPage
<1>2. r3 \in Seq(ShipmentRow)
  BY DEF Shipment!IInv, Shipment!TypeOK, ShipmentRow
<1> QED
  BY <1>1, <1>2

\* Nothing has been submitted.
LEMMA InitShipment == ASSUME Shipment!Init PROVE Shipment!IInv
<1>1. r3 = <<>> /\ r3 \in Seq(ShipmentRow) /\ DOMAIN r3 = {}
  BY DEF Shipment!Init
<1>2. \A s \in Station : r1[s] \in ShipmentPage /\ r1[s].step = "form" /\ r1[s].request = 0
  BY DEF Shipment!Init, Shipment!EmptyForm, ShipmentPage, Shipment!Step
<1>3. Shipment!TypeOK
  BY <1>1, <1>2 DEF Shipment!Init, Shipment!TypeOK, ShipmentPage, ShipmentRow
<1> QED
  BY <1>1, <1>2, <1>3 DEF Shipment!Init, Shipment!IInv, Shipment!RequestsAreOwn,
                          Shipment!LoopsHaveNoRow, Shipment!OneRowPerSubmission

\* A page goes on with its submission, or drops it, and stores nothing.
LEMMA MoveShipment ==
  ASSUME Shipment!IInv, NEW s \in Station, NEW row \in ShipmentPage,
         r1' = [r1 EXCEPT ![s] = row],
         row.request \in {0, r1[s].request},
         row.step \in {"pending", "P2002"} =>
           r1[s].step \in {"pending", "P2002"} /\ row.request = r1[s].request,
         UNCHANGED <<r2, r3, r4>>
  PROVE  Shipment!IInv'
<1>1. r1 \in [Station -> ShipmentPage] /\ r2 \in Nat /\ r1[s] \in ShipmentPage
  BY ShipmentFacts
<1>2. r1' \in [Station -> ShipmentPage] /\ r1'[s] = row /\ \A t \in Station : t # s => r1'[t] = r1[t]
  BY <1>1
<1>3. Shipment!TypeOK'
  BY <1>2 DEF Shipment!IInv, Shipment!TypeOK, ShipmentPage
<1>4. Shipment!RequestsAreOwn'
  BY <1>1, <1>2 DEF Shipment!IInv, Shipment!RequestsAreOwn
<1>5. Shipment!LoopsHaveNoRow'
  BY <1>2 DEF Shipment!IInv, Shipment!LoopsHaveNoRow
<1> QED
  BY <1>3, <1>4, <1>5 DEF Shipment!IInv, Shipment!OneRowPerSubmission

\* The steps of a page that store nothing.
LEMMA PageShipment ==
  ASSUME Shipment!IInv, NEW s \in Station,
         \/ Shipment!FacilityOptions(s) \/ Shipment!Caught(s) \/ Shipment!Confirm(s)
         \/ Shipment!ShowError(s) \/ Shipment!RecordAnother(s)
         \/ \E f \in r1[s].options \cup {Null} : Shipment!Choose(s, f)
         \/ \E code \in Code : Shipment!Collide(s, code)
  PROVE  Shipment!IInv'
<1>1. r1 \in [Station -> ShipmentPage] /\ r1[s] \in ShipmentPage /\ r4 \subseteq Facility
  BY ShipmentFacts
<1> USE DEF ShipmentPage, Shipment!Step
<1>2. CASE Shipment!FacilityOptions(s)
  <2> DEFINE row == [r1[s] EXCEPT !.options = r4]
  <2>1. r1' = [r1 EXCEPT ![s] = row] /\ UNCHANGED <<r2, r3, r4>>
    BY <1>1, <1>2 DEF Shipment!FacilityOptions
  <2>2. row \in ShipmentPage /\ row.request = r1[s].request /\ row.step = r1[s].step
    BY <1>1
  <2> QED
    BY <2>1, <2>2, MoveShipment
<1>3. CASE Shipment!Caught(s)
  <2> DEFINE again == [r1[s] EXCEPT !.step = "pending", !.attempt = r1[s].attempt + 1]
             over == [r1[s] EXCEPT !.step = "error"]
  <2>1. /\ UNCHANGED <<r2, r3, r4>>
        /\ \/ r1[s].step = "P2002" /\ r1' = [r1 EXCEPT ![s] = again]
           \/ r1' = [r1 EXCEPT ![s] = over]
    BY <1>1, <1>3 DEF Shipment!Caught, Shipment!IsCollision
  <2>2. \A n \in Nat : n + 1 \in Nat
    OBVIOUS
  <2>3. again \in ShipmentPage /\ again.request = r1[s].request
    <3>1. r1[s].attempt + 1 \in Nat
      BY <1>1, <2>2
    <3> QED
      BY <1>1, <3>1
  <2>4. over \in ShipmentPage /\ over.request = r1[s].request /\ over.step = "error"
    BY <1>1
  <2> QED
    BY <2>1, <2>3, <2>4, MoveShipment
<1>4. CASE Shipment!Confirm(s)
  <2> DEFINE row == [r1[s] EXCEPT !.step = "confirmation"]
  <2>1. r1' = [r1 EXCEPT ![s] = row] /\ UNCHANGED <<r2, r3, r4>>
    BY <1>1, <1>4 DEF Shipment!Confirm
  <2>2. row \in ShipmentPage /\ row.request = r1[s].request /\ row.step = "confirmation"
    BY <1>1
  <2> QED
    BY <2>1, <2>2, MoveShipment
<1>5. CASE Shipment!ShowError(s)
  <2> DEFINE row == [r1[s] EXCEPT !.step = "form", !.registered = 0]
  <2>1. r1' = [r1 EXCEPT ![s] = row] /\ UNCHANGED <<r2, r3, r4>>
    BY <1>1, <1>5 DEF Shipment!ShowError
  <2>2. row \in ShipmentPage /\ row.request = r1[s].request /\ row.step = "form"
    BY <1>1
  <2> QED
    BY <2>1, <2>2, MoveShipment
<1>6. CASE Shipment!RecordAnother(s)
  <2> DEFINE row == [Shipment!EmptyForm EXCEPT !.options = r1[s].options]
  <2>1. r1' = [r1 EXCEPT ![s] = row] /\ UNCHANGED <<r2, r3, r4>>
    BY <1>1, <1>6 DEF Shipment!RecordAnother
  <2>2. row \in ShipmentPage /\ row.request = 0 /\ row.step = "form"
    BY <1>1 DEF Shipment!EmptyForm
  <2> QED
    BY <2>1, <2>2, MoveShipment
<1>7. ASSUME NEW f \in r1[s].options \cup {Null}, Shipment!Choose(s, f) PROVE Shipment!IInv'
  <2> DEFINE row == [r1[s] EXCEPT !.facilityId = f]
  <2>1. r1' = [r1 EXCEPT ![s] = row] /\ UNCHANGED <<r2, r3, r4>>
    BY <1>1, <1>7 DEF Shipment!Choose
  <2>2. row \in ShipmentPage /\ row.request = r1[s].request /\ row.step = r1[s].step
    BY <1>1
  <2> QED
    BY <2>1, <2>2, MoveShipment
<1>8. ASSUME NEW code \in Code, Shipment!Collide(s, code) PROVE Shipment!IInv'
  <2> DEFINE row == [r1[s] EXCEPT !.step = "P2002"]
  <2>1. r1' = [r1 EXCEPT ![s] = row] /\ UNCHANGED <<r2, r3, r4>> /\ r1[s].step = "pending"
    BY <1>1, <1>8 DEF Shipment!Collide
  <2>2. row \in ShipmentPage /\ row.request = r1[s].request
    BY <1>1
  <2> QED
    BY <2>1, <2>2, MoveShipment
<1> QED
  BY <1>2, <1>3, <1>4, <1>5, <1>6, <1>7, <1>8

\* A submission takes a number nobody has.
LEMMA SubmitShipment ==
  ASSUME Shipment!IInv, NEW s \in Station, Shipment!Submit(s)
  PROVE  Shipment!IInv'
<1> DEFINE row == [r1[s] EXCEPT !.step = "pending", !.request = r2 + 1, !.attempt = 0]
<1>1. /\ r1 \in [Station -> ShipmentPage] /\ r2 \in Nat /\ r1[s] \in ShipmentPage
      /\ \A i \in 1..Len(r3) : r3[i].request \in Nat /\ r3[i].request <= r2
      /\ \A t \in Station : r1[t].request \in Nat /\ r1[t].request <= r2
      /\ DOMAIN r3 = 1..Len(r3)
  BY ShipmentFacts DEF Shipment!IInv, Shipment!RequestsAreOwn, ShipmentPage, ShipmentRow
<1>2. r1' = [r1 EXCEPT ![s] = row] /\ r2' = r2 + 1 /\ UNCHANGED <<r3, r4>>
  BY <1>1 DEF Shipment!Submit
<1>3. row \in ShipmentPage /\ row.request = r2 + 1
  <2>1. r2 + 1 \in Nat
    BY <1>1
  <2> QED
    BY <1>1, <2>1 DEF ShipmentPage, Shipment!Step
<1> HIDE DEF row
<1>4. r1' \in [Station -> ShipmentPage] /\ r1'[s] = row /\ \A t \in Station : t # s => r1'[t] = r1[t]
  BY <1>1, <1>2, <1>3
<1>5. Shipment!TypeOK'
  BY <1>1, <1>2, <1>4 DEF Shipment!IInv, Shipment!TypeOK, ShipmentPage
<1>6. Shipment!RequestsAreOwn'
  BY <1>1, <1>2, <1>3, <1>4 DEF Shipment!IInv, Shipment!RequestsAreOwn
<1>7. Shipment!LoopsHaveNoRow'
  BY <1>1, <1>2, <1>3, <1>4 DEF Shipment!IInv, Shipment!LoopsHaveNoRow
<1> QED
  BY <1>2, <1>5, <1>6, <1>7 DEF Shipment!IInv, Shipment!OneRowPerSubmission

\* A row is stored, whether the page hears of it or not: its submission's loop is left.
LEMMA StoreShipment ==
  ASSUME Shipment!IInv, NEW s \in Station, NEW code \in Code, NEW row \in ShipmentPage,
         r1[s].step = "pending",
         r3' = Append(r3, Shipment!Row(s, code)),
         r1' = [r1 EXCEPT ![s] = row], row.request = r1[s].request,
         row.step \notin {"pending", "P2002"},
         UNCHANGED <<r2, r4>>
  PROVE  Shipment!IInv'
<1> DEFINE new == Shipment!Row(s, code)
           n == Len(r3) + 1
<1>1. /\ r1 \in [Station -> ShipmentPage] /\ r2 \in Nat /\ r1[s] \in ShipmentPage
      /\ r3 \in Seq(ShipmentRow)
  BY ShipmentFacts
<1>2. new \in ShipmentRow /\ new.request = r1[s].request
  BY <1>1 DEF Shipment!Row, ShipmentRow, ShipmentPage
<1> HIDE DEF new
<1>3. /\ r3' \in Seq(ShipmentRow) /\ DOMAIN r3' = DOMAIN r3 \cup {n} /\ r3'[n] = new
      /\ n \notin DOMAIN r3 /\ \A i \in DOMAIN r3 : r3'[i] = r3[i]
  <2>1. r3' = Append(r3, new)
    BY DEF new
  <2> QED
    BY <1>1, <1>2, <2>1
<1>4. r1' \in [Station -> ShipmentPage] /\ r1'[s] = row /\ \A t \in Station : t # s => r1'[t] = r1[t]
  BY <1>1
<1>5. Shipment!TypeOK'
  BY <1>3, <1>4 DEF Shipment!IInv, Shipment!TypeOK, ShipmentPage, ShipmentRow
<1>6. Shipment!RequestsAreOwn'
  BY <1>2, <1>3, <1>4 DEF Shipment!IInv, Shipment!RequestsAreOwn
<1>7. r1[s].request # 0 /\ \A i \in DOMAIN r3 : r3[i].request # r1[s].request
  BY DEF Shipment!IInv, Shipment!LoopsHaveNoRow
<1>8. Shipment!LoopsHaveNoRow'
  <2>1. \A t \in Station : t # s => r1[t].request # r1[s].request
    BY <1>7 DEF Shipment!IInv, Shipment!RequestsAreOwn
  <2> QED
    BY <1>2, <1>3, <1>4, <2>1 DEF Shipment!IInv, Shipment!LoopsHaveNoRow
<1>9. Shipment!OneRowPerSubmission'
  BY <1>2, <1>3, <1>7 DEF Shipment!IInv, Shipment!OneRowPerSubmission
<1> QED
  BY <1>5, <1>6, <1>8, <1>9 DEF Shipment!IInv

\* Every step of the stations and of the service keeps the invariant.
LEMMA NextShipment == ASSUME Shipment!IInv, Shipment!Next PROVE Shipment!IInv'
<1>1. ASSUME NEW s \in Station, NEW code \in Code,
             Shipment!Create(s, code) \/ Shipment!ConnectionLost(s, code)
      PROVE  Shipment!IInv'
  <2>1. /\ r1 \in [Station -> ShipmentPage] /\ r1[s] \in ShipmentPage /\ Len(r3) \in Nat
    BY ShipmentFacts
  <2>2. CASE Shipment!Create(s, code)
    <3> DEFINE row == [r1[s] EXCEPT !.step = "answer", !.registered = Len(r3) + 1]
    <3>1. /\ r1[s].step = "pending" /\ r3' = Append(r3, Shipment!Row(s, code))
          /\ r1' = [r1 EXCEPT ![s] = row] /\ UNCHANGED <<r2, r4>>
      BY <2>1, <2>2 DEF Shipment!Create
    <3>2. row \in ShipmentPage /\ row.request = r1[s].request /\ row.step = "answer"
      <4>1. Len(r3) + 1 \in Nat
        BY <2>1
      <4> QED
        BY <2>1, <4>1 DEF ShipmentPage, Shipment!Step
    <3> QED
      BY <3>1, <3>2, StoreShipment
  <2>3. CASE Shipment!ConnectionLost(s, code)
    <3> DEFINE row == [r1[s] EXCEPT !.step = "P1001"]
    <3>1. /\ r1[s].step = "pending" /\ (r3' = Append(r3, Shipment!Row(s, code)) \/ r3' = r3)
          /\ r1' = [r1 EXCEPT ![s] = row] /\ UNCHANGED <<r2, r4>>
      BY <2>1, <2>3 DEF Shipment!ConnectionLost
    <3>2. row \in ShipmentPage /\ row.request = r1[s].request /\ row.step = "P1001"
      BY <2>1 DEF ShipmentPage, Shipment!Step
    <3> QED
      BY <3>1, <3>2, StoreShipment, MoveShipment
  <2> QED
    BY <1>1, <2>2, <2>3
<1>2. ASSUME Shipment!Refetch \/ \E f \in r4 : Shipment!DeleteFacility(f) PROVE Shipment!IInv'
  <2>1. UNCHANGED <<r1, r2, r3>> /\ r4' \subseteq r4
    BY <1>2 DEF Shipment!Refetch, Shipment!DeleteFacility
  <2> QED
    BY <2>1 DEF Shipment!IInv, Shipment!TypeOK, Shipment!RequestsAreOwn, Shipment!LoopsHaveNoRow,
                Shipment!OneRowPerSubmission
<1> QED
  BY <1>1, <1>2, PageShipment, SubmitShipment DEF Shipment!Next

-----------------------------------------------------------------------------
(* The microphone of a page (VoiceRecorder): mounted r1, latch r2, starting*)
(* r3, live r4, ref r5, recorder r6, status r7, filling r8.  The latch lets*)
(* one call open the microphone, and an open one is what the ref holds.    *)

\* Nothing has been pressed.
LEMMA InitRecorder == ASSUME Recorder!Init PROVE Recorder!IInv
<1>1. r3 = <<>> /\ Recorder!Call = {} /\ r3 \in Seq({"asking", "settling", "over"})
  BY DEF Recorder!Init, Recorder!Call
<1> QED
  BY <1>1 DEF Recorder!Init, Recorder!IInv, Recorder!TypeOK, Recorder!OneCall, Recorder!OneThing,
         Recorder!OpenIsNeeded, Recorder!Underway

\* The calls, one by one, when one of them moves on.
LEMMA CallRecorder ==
  ASSUME Recorder!IInv, NEW c \in Recorder!Call, NEW s \in {"asking", "settling", "over"},
         Recorder!At(c, s)
  PROVE  /\ r3' \in Seq({"asking", "settling", "over"})
         /\ Recorder!Call' = Recorder!Call
         /\ r3'[c] = s
         /\ \A d \in Recorder!Call : d # c => r3'[d] = r3[d]
BY DEF Recorder!IInv, Recorder!TypeOK, Recorder!At, Recorder!Call

\* Every step of the page, of the browser and of the recorder keeps the invariant.
LEMMA NextRecorder == ASSUME Recorder!IInv, Recorder!Next PROVE Recorder!IInv'
<1> USE DEF Recorder!IInv, Recorder!OneCall, Recorder!OneThing, Recorder!OpenIsNeeded,
            Recorder!Underway
<1>0. /\ r1 \in BOOLEAN /\ r2 \in BOOLEAN /\ r8 \in BOOLEAN
      /\ r3 \in Seq({"asking", "settling", "over"})
      /\ r6 \in {"inactive", "recording", "flushing"} /\ r7 \in {"idle", "recording", "processing"}
  BY DEF Recorder!TypeOK
<1>1. CASE Recorder!Press
  <2> DEFINE n == Len(r3) + 1
  <2>1. /\ r1 /\ r7 = "idle" /\ ~r8 /\ ~r2 /\ r6 # "recording"
        /\ r2' = TRUE /\ r3' = Append(r3, "asking")
        /\ UNCHANGED <<r1, r4, r5, r6, r7, r8>>
    BY <1>1 DEF Recorder!Press, Recorder!Busy
  <2>2. /\ r3' \in Seq({"asking", "settling", "over"}) /\ Recorder!Call' = Recorder!Call \cup {n}
        /\ r3'[n] = "asking" /\ \A d \in Recorder!Call : r3'[d] = r3[d]
    BY <1>0, <2>1 DEF Recorder!Call
  <2>3. \A d \in Recorder!Call : r3[d] = "over"
    BY <2>1
  <2> QED
    BY <1>0, <2>1, <2>2, <2>3 DEF Recorder!TypeOK
<1>2. CASE Recorder!Stop
  BY <1>0, <1>2 DEF Recorder!Stop, Recorder!TypeOK, Recorder!Call
<1>3. CASE Recorder!Flushed
  BY <1>0, <1>3 DEF Recorder!Flushed, Recorder!Released, Recorder!TypeOK, Recorder!Call
<1>4. CASE Recorder!Filled
  BY <1>0, <1>4 DEF Recorder!Filled, Recorder!TypeOK, Recorder!Call
<1>5. CASE Recorder!Unmount
  BY <1>0, <1>5 DEF Recorder!Unmount, Recorder!Released, Recorder!TypeOK, Recorder!Call
<1>6. ASSUME NEW c \in Recorder!Call, Recorder!Denied(c) PROVE Recorder!IInv'
  BY <1>0, <1>6, CallRecorder DEF Recorder!Denied, Recorder!TypeOK
<1>7. ASSUME NEW c \in Recorder!Call, Recorder!Granted(c) PROVE Recorder!IInv'
  <2>1. r4 = {}
    BY <1>0, <1>7 DEF Recorder!Granted
  <2> QED
    BY <1>0, <1>7, <2>1, CallRecorder DEF Recorder!Granted, Recorder!TypeOK
<1>8. ASSUME NEW c \in Recorder!Call, Recorder!Settled(c) PROVE Recorder!IInv'
  BY <1>0, <1>8, CallRecorder DEF Recorder!Settled, Recorder!Released, Recorder!TypeOK
<1> QED
  BY <1>1, <1>2, <1>3, <1>4, <1>5, <1>6, <1>7, <1>8 DEF Recorder!Next

\* The invariant says that no microphone stays open.
LEMMA MicrophoneIsReleased == Recorder!IInv => Recorder!MicIsReleased
BY DEF Recorder!IInv, Recorder!OpenIsNeeded, Recorder!Underway, Recorder!MicIsReleased

-----------------------------------------------------------------------------
(* The scanning pages (ScanPages): view r1, cams r2, timers r3, calls r4.  *)
(* Only the camera mounted last may be on, and a call the page listens to is*)
(* about the code it has.                                                  *)

\* A page, a camera and a call.
ScanView ==
  [route : Scan!Route, mode : {"camera", "handheld"}, active : BOOLEAN, phase : Scan!Phase,
   code : Code \cup {Null}, about : Code \cup {Null}, pending : BOOLEAN]
ScanCam == [stage : {"import", "start", "scanning", "off"}, live : BOOLEAN]
ScanCall == [code : Code, status : {"sent", "over"}, heard : BOOLEAN]

\* The page, its cameras and its calls.
LEMMA ScanFacts ==
  ASSUME Scan!IInv
  PROVE  /\ r1 \in ScanView /\ r2 \in Seq(ScanCam) /\ r3 \in Nat /\ r4 \in Seq(ScanCall)
         /\ \A n \in DOMAIN r4 : r4[n] \in ScanCall
<1>1. r1 \in ScanView /\ r3 \in Nat
  BY DEF Scan!IInv, Scan!TypeOK, ScanView
<1>2. r2 \in Seq(ScanCam)
  BY DEF Scan!IInv, Scan!TypeOK, ScanCam
<1>3. r4 \in Seq(ScanCall)
  BY DEF Scan!IInv, Scan!TypeOK, ScanCall
<1> QED
  BY <1>1, <1>2, <1>3

\* What the invariant asks of the page v with n timers and the calls s.
Listened(c) == c.status = "sent" /\ c.heard
ViewIsTrue(v, n, s) ==
  /\ \A i \in DOMAIN s : Listened(s[i]) =>
       /\ s[i].code = v.code
       /\ v.route = "driver" => v.phase \notin {"scan", "scanning"}
       /\ v.route = "tablet" =>
            /\ v.phase = "ready" /\ v.pending
            /\ \A m \in DOMAIN s : Listened(s[m]) => m = i
  /\ n > 0 => v.route = "driver"
  /\ n > 0 \/ v.phase \notin {"scan", "error"} => v.code \in Code
  /\ v.phase = "result" \/ (v.phase = "success" /\ v.route = "tablet") => v.about = v.code
  /\ v.phase \in {"choose", "chosen"} => v.about = v.code

\* The invariant, part by part.
LEMMA ScanMeans ==
  /\ Scan!IInv <=> Scan!TypeOK /\ Scan!LastIsLive /\ ViewIsTrue(r1, r3, r4)
  /\ (Scan!IInv)' <=> Scan!TypeOK' /\ Scan!LastIsLive' /\ ViewIsTrue(r1', r3', r4')
BY DEF Scan!IInv, Scan!CallsAreOfTheCode, Scan!CodeIsThere, Scan!Underway,
       Scan!AnswersAreOfTheCode, ViewIsTrue, Listened

\* A page is committed with its cameras: the one that may be on stays the last.
LEMMA RerenderScan ==
  ASSUME Scan!IInv, NEW v \in ScanView, Scan!Rerender(v)
  PROVE  r1' = v /\ r2' \in Seq(ScanCam) /\ Scan!LastIsLive'
<1> DEFINE kept == Scan!CameraShown(r1) /\ Scan!CameraShown(v) /\ r1.route = v.route
           off == [i \in DOMAIN r2 |-> IF r2[i].live THEN Scan!Teardown(r2[i]) ELSE r2[i]]
           left == IF kept THEN r2 ELSE off
<1>1. r2 \in Seq(ScanCam) /\ \A i \in DOMAIN r2 : r2[i] \in ScanCam
  BY ScanFacts
<1>2. r1' = v /\ r2' = IF Scan!CameraShown(v) /\ ~kept THEN Append(left, Scan!Mounted) ELSE left
  BY DEF Scan!Rerender
<1>3. Scan!CameraShown(r1)' <=> Scan!CameraShown(v)
  BY <1>2 DEF Scan!CameraShown
<1>4. /\ \A i \in DOMAIN r2 : r2[i].stage = "scanning" => r2[i].live
      /\ \A i \in DOMAIN r2 : r2[i].live => i = Len(r2) /\ Scan!CameraShown(r1)
  BY DEF Scan!IInv, Scan!LastIsLive
<1>5. off \in Seq(ScanCam) /\ DOMAIN off = DOMAIN r2
      /\ \A i \in DOMAIN off : ~off[i].live /\ off[i].stage # "scanning"
  <2>1. \A i \in DOMAIN r2 :
          /\ off[i] \in ScanCam /\ ~off[i].live /\ off[i].stage # "scanning"
    BY <1>1, <1>4 DEF Scan!Teardown, ScanCam
  <2> QED
    BY <1>1, <2>1
<1> HIDE DEF off
<1>6. CASE kept
  <2>1. r2' = r2
    BY <1>2, <1>6
  <2> QED
    BY <1>1, <1>2, <1>3, <1>4, <1>6, <2>1 DEF Scan!LastIsLive
<1>7. CASE ~kept /\ ~Scan!CameraShown(v)
  <2>1. r2' = off
    BY <1>2, <1>7
  <2> QED
    BY <1>2, <1>5, <2>1 DEF Scan!LastIsLive
<1>8. CASE ~kept /\ Scan!CameraShown(v)
  <2>1. r2' = Append(off, Scan!Mounted) /\ Scan!Mounted \in ScanCam /\ Scan!Mounted.stage = "import"
    BY <1>2, <1>8 DEF Scan!Mounted, ScanCam
  <2>2. /\ r2' \in Seq(ScanCam) /\ Len(r2') = Len(off) + 1 /\ DOMAIN r2' = DOMAIN off \cup {Len(off) + 1}
        /\ r2'[Len(off) + 1] = Scan!Mounted /\ \A i \in DOMAIN off : r2'[i] = off[i]
    BY <1>5, <2>1
  <2> QED
    BY <1>2, <1>3, <1>5, <1>8, <2>1, <2>2 DEF Scan!LastIsLive
<1> QED
  BY <1>6, <1>7, <1>8

\* The page becomes v, the timers and the calls move on with it.
LEMMA CommitScan ==
  ASSUME Scan!IInv, NEW v \in ScanView, Scan!Rerender(v),
         r3' \in Nat, r4' \in Seq(ScanCall), ViewIsTrue(v, r3', r4')
  PROVE  Scan!IInv'
<1>1. r1' = v /\ r2' \in Seq(ScanCam) /\ Scan!LastIsLive'
  BY RerenderScan
<1>2. r1' \in ScanView /\ ViewIsTrue(r1', r3', r4')
  BY <1>1
<1>3. Scan!TypeOK'
  BY <1>1, <1>2 DEF Scan!TypeOK, ScanView, ScanCam, ScanCall
<1> QED
  BY <1>1, <1>2, <1>3, ScanMeans

\* One of the pages is opened.
LEMMA InitScan == ASSUME Scan!Init PROVE Scan!IInv
<1>1. PICK route \in Scan!Route : r1 = Scan!Fresh(route)
  BY DEF Scan!Init, Scan!Route
<1>2. r1 \in ScanView /\ r1.phase = "scan"
  BY <1>1 DEF Scan!Fresh, ScanView, Scan!Phase
<1>3. r3 = 0 /\ r4 = <<>> /\ r4 \in Seq(ScanCall) /\ DOMAIN r4 = {}
  BY DEF Scan!Init
<1>4. r2 \in Seq(ScanCam) /\ Scan!LastIsLive
  <2>1. CASE Scan!CameraShown(r1)
    <3>1. r2 = <<Scan!Mounted>>
      BY <2>1 DEF Scan!Init
    <3>2. Scan!Mounted \in ScanCam /\ Scan!Mounted.stage = "import"
      BY DEF Scan!Mounted, ScanCam
    <3>3. r2 \in Seq(ScanCam) /\ Len(r2) = 1 /\ DOMAIN r2 = {1} /\ r2[1] = Scan!Mounted
      BY <3>1, <3>2
    <3> QED
      BY <2>1, <3>2, <3>3 DEF Scan!LastIsLive
  <2>2. CASE ~Scan!CameraShown(r1)
    BY <2>2 DEF Scan!Init, Scan!LastIsLive
  <2> QED
    BY <2>1, <2>2
<1>5. Scan!TypeOK
  BY <1>2, <1>3, <1>4 DEF Scan!TypeOK, ScanView, ScanCam, ScanCall
<1>6. ViewIsTrue(r1, r3, r4)
  BY <1>2, <1>3 DEF ViewIsTrue
<1> QED
  BY <1>4, <1>5, <1>6, ScanMeans

\* The camera comes on, or does not.
LEMMA CamScan ==
  ASSUME Scan!IInv, NEW i \in DOMAIN r2, Scan!Imported(i) \/ Scan!Started(i) \/ Scan!StartFails(i)
  PROVE  Scan!IInv'
<1>1. /\ r2 \in Seq(ScanCam) /\ r2[i] \in ScanCam /\ r1 \in ScanView /\ r3 \in Nat /\ r4 \in Seq(ScanCall)
      /\ Scan!LastIsLive /\ ViewIsTrue(r1, r3, r4)
  BY ScanFacts, ScanMeans
<1>2. ASSUME NEW cam \in ScanCam, r2' = [r2 EXCEPT ![i] = cam], cam.live => r2[i].live,
             cam.stage = "scanning" => cam.live, r1' \in ScanView,
             r1' = r1 \/ (~cam.live /\ r2[i].live),
             UNCHANGED <<r3, r4>>, ViewIsTrue(r1', r3, r4)
      PROVE  Scan!IInv'
  <2>1. /\ r2' \in Seq(ScanCam) /\ DOMAIN r2' = DOMAIN r2 /\ Len(r2') = Len(r2) /\ r2'[i] = cam
        /\ \A j \in DOMAIN r2 : j # i => r2'[j] = r2[j]
    BY <1>1, <1>2
  <2>2. Scan!LastIsLive'
    <3>1. CASE r1' = r1
      BY <1>1, <1>2, <2>1, <3>1 DEF Scan!LastIsLive, Scan!CameraShown
    <3>2. CASE ~cam.live /\ r2[i].live
      <4>1. \A j \in DOMAIN r2 : j # i => ~r2[j].live
        BY <1>1, <3>2 DEF Scan!LastIsLive
      <4>2. \A j \in DOMAIN r2' : ~r2'[j].live /\ r2'[j].stage # "scanning"
        BY <1>1, <1>2, <2>1, <3>2, <4>1 DEF Scan!LastIsLive
      <4> QED
        BY <4>2 DEF Scan!LastIsLive
    <3> QED
      BY <1>2, <3>1, <3>2
  <2>3. Scan!TypeOK'
    BY <1>1, <1>2, <2>1 DEF Scan!TypeOK, ScanView, ScanCam, ScanCall
  <2> QED
    BY <1>2, <2>2, <2>3, ScanMeans
<1>3. CASE Scan!Imported(i)
  <2> DEFINE cam == [r2[i] EXCEPT !.stage = IF r2[i].live THEN "start" ELSE "off"]
  <2>1. r2' = [r2 EXCEPT ![i] = cam] /\ UNCHANGED <<r1, r3, r4>>
    BY <1>1, <1>3 DEF Scan!Imported
  <2>2. cam \in ScanCam /\ cam.live = r2[i].live /\ cam.stage # "scanning"
    BY <1>1 DEF ScanCam
  <2> QED
    BY <1>1, <1>2, <2>1, <2>2
<1>4. CASE Scan!Started(i)
  <2> DEFINE cam == [r2[i] EXCEPT !.stage = IF r2[i].live THEN "scanning" ELSE "off"]
  <2>1. r2' = [r2 EXCEPT ![i] = cam] /\ UNCHANGED <<r1, r3, r4>>
    BY <1>1, <1>4 DEF Scan!Started, Scan!AfterStart
  <2>2. cam \in ScanCam /\ cam.live = r2[i].live /\ (cam.stage = "scanning" => r2[i].live)
    BY <1>1 DEF ScanCam
  <2> QED
    BY <1>1, <1>2, <2>1, <2>2
<1>5. CASE Scan!StartFails(i) /\ r2[i].live /\ r1.route = "guard"
  <2> DEFINE cam == [stage |-> "off", live |-> FALSE]
             v == [r1 EXCEPT !.phase = "error"]
  <2>1. r2' = [r2 EXCEPT ![i] = cam] /\ r1' = v /\ UNCHANGED <<r3, r4>>
    BY <1>1, <1>5 DEF Scan!StartFails
  <2>2. cam \in ScanCam /\ ~cam.live /\ cam.stage = "off"
    BY DEF ScanCam
  <2>3. v \in ScanView /\ ViewIsTrue(v, r3, r4)
    BY <1>1, <1>5 DEF ScanView, Scan!Phase, ViewIsTrue
  <2> QED
    BY <1>2, <1>5, <2>1, <2>2, <2>3
<1>6. CASE Scan!StartFails(i) /\ ~(r2[i].live /\ r1.route = "guard")
  <2> DEFINE cam == [r2[i] EXCEPT !.stage = "off"]
  <2>1. r2' = [r2 EXCEPT ![i] = cam] /\ UNCHANGED <<r1, r3, r4>>
    BY <1>1, <1>6 DEF Scan!StartFails
  <2>2. cam \in ScanCam /\ cam.live = r2[i].live /\ cam.stage = "off"
    BY <1>1 DEF ScanCam
  <2> QED
    BY <1>1, <1>2, <2>1, <2>2
<1> QED
  BY <1>3, <1>4, <1>5, <1>6

\* A call is sent about the code of the page, beside those in others.
LEMMA SendScan ==
  ASSUME Scan!IInv, NEW c \in Code, NEW s \in Seq(ScanCall), Scan!Call(c, s)
  PROVE  /\ r4' \in Seq(ScanCall)
         /\ DOMAIN r4' = DOMAIN s \cup {Len(s) + 1}
         /\ r4'[Len(s) + 1].code = c
         /\ Len(s) + 1 \notin DOMAIN s
         /\ \A n \in DOMAIN s : r4'[n] = s[n]
<1> DEFINE new == [code |-> c, status |-> "sent", heard |-> TRUE]
<1>1. r4' = Append(s, new)
  BY DEF Scan!Call
<1>2. new \in ScanCall /\ new.code = c
  BY DEF ScanCall
<1> HIDE DEF new
<1> QED
  BY <1>1, <1>2

\* A call is answered, and the page listens to it no more.
LEMMA SettleScan ==
  ASSUME Scan!IInv, NEW n \in DOMAIN r4, r4' = Scan!Settle(n)
  PROVE  /\ r4' \in Seq(ScanCall) /\ DOMAIN r4' = DOMAIN r4
         /\ ~Listened(r4'[n])
         /\ \A m \in DOMAIN r4 : m # n => r4'[m] = r4[m]
<1> DEFINE new == [r4[n] EXCEPT !.status = "over"]
<1>1. r4' = [r4 EXCEPT ![n] = new] /\ r4 \in Seq(ScanCall) /\ r4[n] \in ScanCall
  BY ScanFacts DEF Scan!Settle
<1>2. new \in ScanCall /\ new.status = "over"
  BY <1>1 DEF ScanCall
<1> HIDE DEF new
<1> QED
  BY <1>1, <1>2 DEF Listened

\* A page that goes away listens to no call.
LEMMA DeafScan ==
  ASSUME Scan!IInv
  PROVE  /\ Scan!Deaf(r4) \in Seq(ScanCall) /\ DOMAIN Scan!Deaf(r4) = DOMAIN r4
         /\ \A n \in DOMAIN r4 : ~Listened(Scan!Deaf(r4)[n])
<1>1. r4 \in Seq(ScanCall) /\ \A n \in DOMAIN r4 : r4[n] \in ScanCall
  BY ScanFacts
<1>2. \A n \in DOMAIN r4 : Scan!Deaf(r4)[n] \in ScanCall /\ ~Listened(Scan!Deaf(r4)[n])
  BY <1>1 DEF Scan!Deaf, ScanCall, Listened
<1>3. DOMAIN Scan!Deaf(r4) = DOMAIN r4 /\ Scan!Deaf(r4) = [n \in DOMAIN r4 |-> Scan!Deaf(r4)[n]]
  BY DEF Scan!Deaf
<1>4. DOMAIN r4 = 1..Len(r4) /\ Len(r4) \in Nat
  BY <1>1
<1> QED
  BY <1>2, <1>3, <1>4

\* The driver's page.
LEMMA DriverScan ==
  ASSUME Scan!IInv,
         \/ Scan!TimerFires \/ \E c \in Code : Scan!Run(c)
         \/ \E n \in DOMAIN r4 : Scan!Fetched(n) \/ Scan!Acted(n)
         \/ Scan!ChooseBin \/ Scan!Act \/ Scan!ResetPanel
  PROVE  Scan!IInv'
<1>1. /\ r1 \in ScanView /\ r3 \in Nat /\ r4 \in Seq(ScanCall) /\ ViewIsTrue(r1, r3, r4)
      /\ \A n \in DOMAIN r4 : r4[n] \in ScanCall
  BY ScanFacts, ScanMeans
<1>2. ASSUME NEW c \in Code, Scan!Run(c) PROVE Scan!IInv'
  <2> DEFINE v == [r1 EXCEPT !.code = c, !.phase = "scanning"]
  <2>1. /\ Scan!Rerender(v) /\ r3' = r3 + 1 /\ r4' = r4
        /\ r1.route = "driver" /\ r1.phase \in {"scan", "scanning"}
    BY <1>2 DEF Scan!Run
  <2>2. v \in ScanView /\ v.code = c /\ v.route = "driver" /\ v.phase = "scanning"
    BY <1>1, <2>1 DEF ScanView, Scan!Phase
  <2>3. \A n \in DOMAIN r4 : ~Listened(r4[n])
    BY <1>1, <2>1 DEF ViewIsTrue
  <2>4. ViewIsTrue(v, r3', r4')
    BY <2>1, <2>2, <2>3 DEF ViewIsTrue
  <2> QED
    BY <1>1, <2>1, <2>2, <2>4, CommitScan
<1>3. CASE Scan!TimerFires /\ r1.phase \in {"scan", "scanning"}
  <2> DEFINE v == [r1 EXCEPT !.phase = "fetching", !.about = Null]
  <2>1. Scan!Rerender(v) /\ r3 > 0 /\ r3' = r3 - 1 /\ Scan!Call(r1.code, r4)
    BY <1>3 DEF Scan!TimerFires
  <2>2. r1.route = "driver" /\ r1.code \in Code
    BY <1>1, <2>1 DEF ViewIsTrue
  <2>3. v \in ScanView /\ v.route = "driver" /\ v.phase = "fetching" /\ v.code = r1.code
    BY <1>1, <2>2 DEF ScanView, Scan!Phase
  <2>4. \A n \in DOMAIN r4 : ~Listened(r4[n])
    BY <1>1, <1>3, <2>2 DEF ViewIsTrue
  <2>5. /\ r4' \in Seq(ScanCall) /\ DOMAIN r4' = DOMAIN r4 \cup {Len(r4) + 1}
        /\ r4'[Len(r4) + 1].code = r1.code /\ \A n \in DOMAIN r4 : r4'[n] = r4[n]
    BY <1>1, <2>1, <2>2, SendScan, ZenonT(60)
  <2>6. ViewIsTrue(v, r3', r4')
    BY <1>1, <2>2, <2>3, <2>4, <2>1, <2>5 DEF ViewIsTrue
  <2>7. r3' \in Nat
    BY <1>1, <2>1
  <2> QED
    BY <2>1, <2>3, <2>5, <2>6, <2>7, CommitScan
<1>4. CASE Scan!TimerFires /\ r1.phase \notin {"scan", "scanning"}
  <2>1. r3' \in Nat /\ r3 > 0 /\ UNCHANGED <<r1, r2, r4>>
    BY <1>1, <1>4 DEF Scan!TimerFires
  <2>2. ViewIsTrue(r1', r3', r4')
    BY <1>1, <2>1 DEF ViewIsTrue
  <2>3. Scan!TypeOK' /\ Scan!LastIsLive'
    BY <2>1 DEF Scan!IInv, Scan!TypeOK, Scan!LastIsLive, Scan!CameraShown
  <2> QED
    BY <2>2, <2>3, ScanMeans
<1>5. ASSUME NEW n \in DOMAIN r4, Scan!Fetched(n) PROVE Scan!IInv'
  <2> DEFINE v(phase) == [r1 EXCEPT !.phase = phase, !.about = r4[n].code]
  <2>1. PICK phase \in {"failed", "choose", "chosen"} : Scan!Rerender(v(phase))
    BY <1>5, ZenonT(60) DEF Scan!Fetched
  <2>2. r1.route = "driver" /\ r4' = Scan!Settle(n) /\ r3' = r3 /\ Listened(r4[n])
    BY <1>5 DEF Scan!Fetched, Scan!Underway, Listened
  <2>3. r4[n].code = r1.code
    BY <1>1, <2>2 DEF ViewIsTrue
  <2>4. /\ v(phase) \in ScanView /\ v(phase).route = "driver" /\ v(phase).phase = phase
        /\ v(phase).code = r1.code /\ v(phase).about = r1.code
    BY <1>1, <2>2, <2>3 DEF ScanView, Scan!Phase
  <2>5. /\ r4' \in Seq(ScanCall) /\ DOMAIN r4' = DOMAIN r4 /\ ~Listened(r4'[n])
        /\ \A m \in DOMAIN r4 : m # n => r4'[m] = r4[m]
    BY <2>2, SettleScan
  <2>6. \A m \in DOMAIN r4' : Listened(r4'[m]) => r4'[m].code = r1.code
    BY <1>1, <2>5, SMTT(30) DEF ViewIsTrue
  <2>7. r1.phase = "fetching" /\ r1.code \in Code
    BY <1>1, <1>5 DEF ViewIsTrue, Scan!Fetched
  <2> HIDE DEF v
  <2>8. ViewIsTrue(v(phase), r3', r4')
    BY <1>1, <2>2, <2>4, <2>6, <2>7 DEF ViewIsTrue
  <2> QED
    BY <1>1, <2>1, <2>2, <2>4, <2>5, <2>8, CommitScan
<1>6. ASSUME NEW n \in DOMAIN r4, Scan!Acted(n) PROVE Scan!IInv'
  <2> DEFINE v(phase) == [r1 EXCEPT !.phase = phase, !.pending = FALSE]
  <2>1. r1.route = "driver" /\ r4' = Scan!Settle(n) /\ r3' = r3 /\ Listened(r4[n])
    BY <1>6 DEF Scan!Acted, Scan!Underway, Listened
  <2>2. [r1 EXCEPT !.pending = FALSE] = v(r1.phase)
    BY <1>1 DEF ScanView
  <2>3. PICK phase \in {"success", r1.phase} : Scan!Rerender(v(phase))
    BY <1>6, <2>2 DEF Scan!Acted
  <2>4. r1.phase \notin {"scan", "scanning"}
    BY <1>1, <2>1 DEF ViewIsTrue
  <2>5. /\ v(phase) \in ScanView /\ v(phase).route = "driver" /\ v(phase).phase = phase
        /\ v(phase).code = r1.code /\ v(phase).about = r1.about
    BY <1>1, <2>1 DEF ScanView, Scan!Phase
  <2>6. /\ r4' \in Seq(ScanCall) /\ DOMAIN r4' = DOMAIN r4 /\ ~Listened(r4'[n])
        /\ \A m \in DOMAIN r4 : m # n => r4'[m] = r4[m]
    BY <2>1, SettleScan
  <2>7. \A m \in DOMAIN r4' : Listened(r4'[m]) => r4'[m].code = r1.code
    BY <1>1, <2>6 DEF ViewIsTrue
  <2> HIDE DEF v
  <2>8. r4[n].code \in Code /\ r4[n].code = r1.code
    BY <1>1, <2>1 DEF ViewIsTrue, ScanCall
  <2>9. ViewIsTrue(v(phase), r3', r4')
    BY <1>1, <2>1, <2>4, <2>5, <2>7, <2>8 DEF ViewIsTrue
  <2> QED
    BY <1>1, <2>1, <2>3, <2>5, <2>6, <2>9, CommitScan
<1>7. CASE Scan!ChooseBin
  <2> DEFINE v(phase) == [r1 EXCEPT !.phase = phase]
  <2>1. PICK phase \in {"choose", "chosen"} : Scan!Rerender(v(phase))
    BY <1>7 DEF Scan!ChooseBin
  <2>2. r1.route = "driver" /\ r1.phase \in {"choose", "chosen"} /\ UNCHANGED <<r3, r4>>
    BY <1>7 DEF Scan!ChooseBin
  <2>3. /\ v(phase) \in ScanView /\ v(phase).route = "driver" /\ v(phase).phase = phase
        /\ v(phase).code = r1.code /\ v(phase).about = r1.about
    BY <1>1, <2>2 DEF ScanView, Scan!Phase
  <2>4. ViewIsTrue(v(phase), r3', r4')
    BY <1>1, <2>2, <2>3 DEF ViewIsTrue
  <2> QED
    BY <1>1, <2>1, <2>2, <2>3, <2>4, CommitScan
<1>8. CASE Scan!Act
  <2> DEFINE v == [r1 EXCEPT !.pending = TRUE]
  <2>1. Scan!Rerender(v) /\ r1.route = "driver" /\ r1.phase = "chosen" /\ Scan!Call(r1.code, r4) /\ r3' = r3
    BY <1>8 DEF Scan!Act
  <2>2. /\ v \in ScanView /\ v.route = "driver" /\ v.phase = "chosen"
        /\ v.code = r1.code /\ v.about = r1.about
    BY <1>1, <2>1 DEF ScanView
  <2>3. r1.code \in Code
    BY <1>1, <2>1 DEF ViewIsTrue
  <2>4. /\ r4' \in Seq(ScanCall) /\ DOMAIN r4' = DOMAIN r4 \cup {Len(r4) + 1}
        /\ r4'[Len(r4) + 1].code = r1.code /\ \A n \in DOMAIN r4 : r4'[n] = r4[n]
    <3>1. Scan!Call(r1.code, r4) /\ r4 \in Seq(ScanCall)
      BY <1>1, <2>1
    <3> QED
      BY <2>3, <3>1, SendScan, ZenonT(60)
  <2>5. ViewIsTrue(v, r3', r4')
    BY <1>1, <2>1, <2>2, <2>4 DEF ViewIsTrue
  <2> QED
    BY <1>1, <2>1, <2>2, <2>4, <2>5, CommitScan
<1>9. CASE Scan!ResetPanel
  <2> DEFINE v == [r1 EXCEPT !.phase = "scan", !.pending = FALSE]
  <2>1. Scan!Rerender(v) /\ r1.route = "driver" /\ r4' = Scan!Deaf(r4) /\ r3' = r3
    BY <1>9 DEF Scan!ResetPanel
  <2>2. v \in ScanView /\ v.route = "driver" /\ v.phase = "scan" /\ v.code = r1.code
    BY <1>1, <2>1 DEF ScanView, Scan!Phase
  <2>3. ViewIsTrue(v, r3', r4')
    BY <1>1, <2>1, <2>2, DeafScan DEF ViewIsTrue
  <2> QED
    BY <1>1, <2>1, <2>2, <2>3, DeafScan, CommitScan
<1> QED
  BY <1>2, <1>3, <1>4, <1>5, <1>6, <1>7, <1>8, <1>9

\* The guard's page.
LEMMA GuardScan ==
  ASSUME Scan!IInv,
         \/ \E c \in Code : Scan!SubmitScan(c)
         \/ \E n \in DOMAIN r4 : Scan!ScanAnswered(n)
         \/ Scan!StartScanning \/ Scan!ResetGuard
  PROVE  Scan!IInv'
<1>1. /\ r1 \in ScanView /\ r3 \in Nat /\ r4 \in Seq(ScanCall) /\ ViewIsTrue(r1, r3, r4)
      /\ \A n \in DOMAIN r4 : r4[n] \in ScanCall
  BY ScanFacts, ScanMeans
<1>2. ASSUME NEW c \in Code, Scan!SubmitScan(c) PROVE Scan!IInv'
  <2> DEFINE v == [r1 EXCEPT !.code = c, !.active = FALSE]
             s == Scan!Deaf(r4)
  <2>1. Scan!Rerender(v) /\ Scan!Call(c, s) /\ r3' = r3 /\ r1.route = "guard" /\ r1.phase = "scan"
    BY <1>2 DEF Scan!SubmitScan, Scan!Superseded
  <2>2. v \in ScanView /\ v.route = "guard" /\ v.phase = "scan" /\ v.code = c
    BY <1>1, <2>1 DEF ScanView
  <2>3. s \in Seq(ScanCall) /\ DOMAIN s = DOMAIN r4 /\ \A n \in DOMAIN r4 : ~Listened(s[n])
    BY DeafScan
  <2> HIDE DEF s
  <2>4. /\ r4' \in Seq(ScanCall) /\ DOMAIN r4' = DOMAIN s \cup {Len(s) + 1}
        /\ r4'[Len(s) + 1].code = c /\ \A n \in DOMAIN s : r4'[n] = s[n]
    BY <2>1, <2>3, SendScan
  <2>5. \A n \in DOMAIN r4' : Listened(r4'[n]) => r4'[n].code = c
    BY <2>3, <2>4
  <2>6. ViewIsTrue(v, r3', r4')
    BY <1>1, <2>1, <2>2, <2>5 DEF ViewIsTrue
  <2> QED
    BY <1>1, <2>1, <2>2, <2>4, <2>6, CommitScan
<1>3. ASSUME NEW n \in DOMAIN r4, Scan!ScanAnswered(n) PROVE Scan!IInv'
  <2> DEFINE v(phase) == [r1 EXCEPT !.phase = phase, !.about = r4[n].code]
  <2>1. PICK phase \in {"result", "error"} : Scan!Rerender(v(phase))
    BY <1>3, ZenonT(60) DEF Scan!ScanAnswered
  <2>2. r1.route = "guard" /\ r4' = Scan!Settle(n) /\ r3' = r3 /\ Listened(r4[n])
    BY <1>3 DEF Scan!ScanAnswered, Scan!Underway, Listened
  <2>3. r4[n].code = r1.code /\ r1.code \in Code
    BY <1>1, <2>2 DEF ViewIsTrue, ScanCall
  <2>4. /\ v(phase) \in ScanView /\ v(phase).route = "guard" /\ v(phase).phase = phase
        /\ v(phase).code = r1.code /\ v(phase).about = r1.code
    BY <1>1, <2>2, <2>3 DEF ScanView, Scan!Phase
  <2>5. /\ r4' \in Seq(ScanCall) /\ DOMAIN r4' = DOMAIN r4 /\ ~Listened(r4'[n])
        /\ \A m \in DOMAIN r4 : m # n => r4'[m] = r4[m]
    BY <2>2, SettleScan
  <2>6. \A m \in DOMAIN r4' : Listened(r4'[m]) => r4'[m].code = r1.code
    BY <1>1, <2>5 DEF ViewIsTrue
  <2> HIDE DEF v
  <2>7. ViewIsTrue(v(phase), r3', r4')
    BY <1>1, <2>2, <2>3, <2>4, <2>6 DEF ViewIsTrue
  <2> QED
    BY <1>1, <2>1, <2>2, <2>4, <2>5, <2>7, CommitScan
<1>4. CASE Scan!StartScanning
  <2> DEFINE v == [r1 EXCEPT !.active = TRUE]
  <2>1. Scan!Rerender(v) /\ UNCHANGED <<r3, r4>>
    BY <1>4 DEF Scan!StartScanning
  <2>2. /\ v \in ScanView /\ v.route = r1.route /\ v.phase = r1.phase /\ v.pending = r1.pending
        /\ v.code = r1.code /\ v.about = r1.about
    BY <1>1 DEF ScanView
  <2>3. ViewIsTrue(v, r3', r4')
    BY <1>1, <2>1, <2>2 DEF ViewIsTrue
  <2> QED
    BY <1>1, <2>1, <2>2, <2>3, CommitScan
<1>5. CASE Scan!ResetGuard
  <2> DEFINE v == [r1 EXCEPT !.phase = "scan", !.active = TRUE, !.code = Null, !.about = Null]
  <2>1. Scan!Rerender(v) /\ r1.route = "guard" /\ r4' = Scan!Deaf(r4) /\ r3' = r3
    BY <1>5 DEF Scan!ResetGuard
  <2>2. v \in ScanView /\ v.route = "guard" /\ v.phase = "scan"
    BY <1>1, <2>1 DEF ScanView, Scan!Phase
  <2>3. ViewIsTrue(v, r3', r4')
    BY <1>1, <2>1, <2>2, DeafScan DEF ViewIsTrue
  <2> QED
    BY <1>1, <2>1, <2>2, <2>3, DeafScan, CommitScan
<1> QED
  BY <1>2, <1>3, <1>4, <1>5

\* The tablet's page.
LEMMA TabletScan ==
  ASSUME Scan!IInv,
         \/ \E c \in Code : Scan!ScanBin(c)
         \/ \E n \in DOMAIN r4 : Scan!BinStarted(n)
         \/ Scan!StartBin \/ Scan!CancelBin \/ Scan!ScanNextBin
  PROVE  Scan!IInv'
<1>1. /\ r1 \in ScanView /\ r3 \in Nat /\ r4 \in Seq(ScanCall) /\ ViewIsTrue(r1, r3, r4)
      /\ \A n \in DOMAIN r4 : r4[n] \in ScanCall
  BY ScanFacts, ScanMeans
<1>2. ASSUME NEW v \in ScanView, Scan!Rerender(v), UNCHANGED <<r3, r4>>,
             r1.route = "tablet", v.route = "tablet", r1.phase # "ready" \/ ~r1.pending,
             v.phase = "ready" => v.code \in Code, v.phase \in {"ready", "scan"}
      PROVE  Scan!IInv'
  <2>1. \A n \in DOMAIN r4 : ~Listened(r4[n])
    BY <1>1, <1>2 DEF ViewIsTrue
  <2>2. ViewIsTrue(v, r3', r4')
    BY <1>1, <1>2, <2>1 DEF ViewIsTrue
  <2> QED
    BY <1>1, <1>2, <2>2, CommitScan
<1>3. ASSUME NEW c \in Code, Scan!ScanBin(c) PROVE Scan!IInv'
  <2> DEFINE v == [r1 EXCEPT !.code = c, !.phase = "ready", !.about = Null]
  <2>1. Scan!Rerender(v) /\ UNCHANGED <<r3, r4>> /\ r1.route = "tablet" /\ r1.phase = "scan"
    BY <1>3 DEF Scan!ScanBin
  <2>2. v \in ScanView /\ v.route = "tablet" /\ v.phase = "ready" /\ v.code = c
    BY <1>1, <2>1 DEF ScanView, Scan!Phase
  <2> QED
    BY <1>2, <2>1, <2>2
<1>4. CASE Scan!CancelBin
  <2> DEFINE v == [r1 EXCEPT !.phase = "scan", !.code = Null, !.active = FALSE]
  <2>1. Scan!Rerender(v) /\ UNCHANGED <<r3, r4>> /\ r1.route = "tablet" /\ ~r1.pending
    BY <1>4 DEF Scan!CancelBin, Scan!MayCancel
  <2>2. v \in ScanView /\ v.route = "tablet" /\ v.phase = "scan"
    BY <1>1, <2>1 DEF ScanView, Scan!Phase
  <2> QED
    BY <1>2, <2>1, <2>2
<1>5. CASE Scan!ScanNextBin
  <2> DEFINE v(c) == [r1 EXCEPT !.phase = "scan", !.active = TRUE, !.about = Null, !.code = c]
  <2>1. /\ UNCHANGED <<r3, r4>> /\ r1.route = "tablet" /\ r1.phase \in {"scan", "success"}
        /\ \E c \in {Null, r1.code} : Scan!Rerender(v(c))
    BY <1>5 DEF Scan!ScanNextBin
  <2>2. PICK c \in {Null, r1.code} : Scan!Rerender(v(c))
    BY <2>1
  <2>3. v(c) \in ScanView /\ v(c).route = "tablet" /\ v(c).phase = "scan"
    BY <1>1, <2>1 DEF ScanView, Scan!Phase
  <2> QED
    BY <1>2, <2>1, <2>2, <2>3
<1>6. CASE Scan!StartBin
  <2> DEFINE v == [r1 EXCEPT !.pending = TRUE]
  <2>1. /\ Scan!Rerender(v) /\ r1.route = "tablet" /\ r1.phase = "ready" /\ ~r1.pending
        /\ Scan!Call(r1.code, r4) /\ r3' = r3
    BY <1>6 DEF Scan!StartBin
  <2>2. /\ v \in ScanView /\ v.route = "tablet" /\ v.phase = "ready" /\ v.pending
        /\ v.code = r1.code
    BY <1>1, <2>1 DEF ScanView
  <2>3. r1.code \in Code /\ \A n \in DOMAIN r4 : ~Listened(r4[n])
    BY <1>1, <2>1 DEF ViewIsTrue
  <2>4. /\ r4' \in Seq(ScanCall) /\ DOMAIN r4' = DOMAIN r4 \cup {Len(r4) + 1}
        /\ r4'[Len(r4) + 1].code = r1.code /\ \A n \in DOMAIN r4 : r4'[n] = r4[n]
    <3>1. Scan!Call(r1.code, r4) /\ r4 \in Seq(ScanCall)
      BY <1>1, <2>1
    <3> QED
      BY <2>3, <3>1, SendScan, ZenonT(60)
  <2>5. \A n \in DOMAIN r4' : Listened(r4'[n]) => n = Len(r4) + 1
    BY <2>3, <2>4
  <2>6. ViewIsTrue(v, r3', r4')
    BY <1>1, <2>1, <2>2, <2>3, <2>4, <2>5 DEF ViewIsTrue
  <2> QED
    BY <1>1, <2>1, <2>2, <2>4, <2>6, CommitScan
<1>7. ASSUME NEW n \in DOMAIN r4, Scan!BinStarted(n) PROVE Scan!IInv'
  <2> DEFINE done == [r1 EXCEPT !.phase = "success", !.about = r4[n].code,
                                !.pending = FALSE, !.active = FALSE]
             failed == [r1 EXCEPT !.pending = FALSE]
  <2>1. /\ r1.route = "tablet" /\ r4' = Scan!Settle(n) /\ r3' = r3 /\ Listened(r4[n])
        /\ Scan!Rerender(done) \/ Scan!Rerender(failed)
    BY <1>7 DEF Scan!BinStarted, Scan!Underway, Listened
  <2>2. /\ r1.phase = "ready" /\ r4[n].code = r1.code /\ r1.code \in Code
        /\ \A m \in DOMAIN r4 : Listened(r4[m]) => m = n
    BY <1>1, <2>1 DEF ViewIsTrue
  <2>3. /\ done \in ScanView /\ done.route = "tablet" /\ done.phase = "success"
        /\ done.code = r1.code /\ done.about = r1.code
    BY <1>1, <2>1, <2>2 DEF ScanView, Scan!Phase
  <2>4. /\ failed \in ScanView /\ failed.route = "tablet" /\ failed.phase = "ready"
        /\ failed.code = r1.code
    BY <1>1, <2>1, <2>2 DEF ScanView
  <2>5. /\ r4' \in Seq(ScanCall) /\ DOMAIN r4' = DOMAIN r4 /\ ~Listened(r4'[n])
        /\ \A m \in DOMAIN r4 : m # n => r4'[m] = r4[m]
    BY <2>1, SettleScan
  <2>6. \A m \in DOMAIN r4' : ~Listened(r4'[m])
    BY <2>2, <2>5
  <2> HIDE DEF done, failed
  <2>7. ViewIsTrue(done, r3', r4') /\ ViewIsTrue(failed, r3', r4')
    BY <1>1, <2>1, <2>2, <2>3, <2>4, <2>6 DEF ViewIsTrue
  <2> QED
    BY <1>1, <2>1, <2>3, <2>4, <2>5, <2>7, CommitScan
<1> QED
  BY <1>3, <1>4, <1>5, <1>6, <1>7

\* The switch of the camera, and the links between the pages.
LEMMA WalkScan ==
  ASSUME Scan!IInv,
         Scan!SwitchMode \/ \E route \in Scan!Route : Scan!Navigate(route)
  PROVE  Scan!IInv'
<1>1. /\ r1 \in ScanView /\ r3 \in Nat /\ r4 \in Seq(ScanCall) /\ ViewIsTrue(r1, r3, r4)
  BY ScanFacts, ScanMeans
<1>2. CASE Scan!SwitchMode
  <2> DEFINE v(mode) == [r1 EXCEPT !.mode = mode]
  <2>1. PICK mode \in {"camera", "handheld"} : Scan!Rerender(v(mode)) /\ UNCHANGED <<r3, r4>>
    BY <1>1, <1>2 DEF Scan!SwitchMode
  <2>2. /\ v(mode) \in ScanView /\ v(mode).route = r1.route /\ v(mode).phase = r1.phase
        /\ v(mode).pending = r1.pending /\ v(mode).code = r1.code /\ v(mode).about = r1.about
    BY <1>1 DEF ScanView
  <2> HIDE DEF v
  <2>3. ViewIsTrue(v(mode), r3', r4')
    BY <1>1, <2>1, <2>2 DEF ViewIsTrue
  <2> QED
    BY <1>1, <2>1, <2>2, <2>3, CommitScan
<1>3. ASSUME NEW route \in Scan!Route, Scan!Navigate(route) PROVE Scan!IInv'
  <2> DEFINE v == Scan!Fresh(route)
  <2>1. Scan!Rerender(v) /\ r3' = 0 /\ r4' = Scan!Deaf(r4)
    BY <1>3 DEF Scan!Navigate
  <2>2. v \in ScanView /\ v.phase = "scan"
    BY DEF Scan!Fresh, ScanView, Scan!Phase
  <2> HIDE DEF v
  <2>3. ViewIsTrue(v, r3', r4')
    BY <1>1, <2>1, <2>2, DeafScan DEF ViewIsTrue
  <2> QED
    BY <1>1, <2>1, <2>2, <2>3, DeafScan, CommitScan
<1> QED
  BY <1>2, <1>3

\* Every step of the pages and of their cameras keeps the invariant.
LEMMA NextScan == ASSUME Scan!IInv, Scan!Next PROVE Scan!IInv'
<1>1. ASSUME NEW i \in DOMAIN r2, Scan!Imported(i) \/ Scan!Started(i) \/ Scan!StartFails(i)
      PROVE  Scan!IInv'
  BY <1>1, CamScan
<1>2. ASSUME NEW c \in Code, Scan!Read(c) PROVE Scan!IInv'
  BY <1>2, DriverScan, GuardScan, TabletScan DEF Scan!Read
<1>3. ASSUME NEW n \in DOMAIN r4, Scan!Answer(n) PROVE Scan!IInv'
  BY <1>3, DriverScan, GuardScan, TabletScan DEF Scan!Answer
<1>4. ASSUME Scan!Press PROVE Scan!IInv'
  BY <1>4, DriverScan, GuardScan, TabletScan, WalkScan DEF Scan!Press, Scan!Route
<1> QED
  BY <1>1, <1>2, <1>3, <1>4, DriverScan DEF Scan!Next

\* The invariant says that the camera is released, and of which code the answers are.
LEMMA ScanIsTrue == Scan!IInv => Scan!CameraIsReleased /\ Scan!AnswersAreOfTheCode
BY DEF Scan!IInv, Scan!LastIsLive, Scan!CameraIsReleased

-----------------------------------------------------------------------------
(* A form filled from speech (VoiceFill): form r1, heard r2, fills r3, cells*)
(* r4, blanket r5, flagged r6, why r7, rows r8, byHand r9.  Until it is    *)
(* touched the table is blank, or spoken below the row it was opened with. *)

\* What an answer is remembered as, and an answer.
VoiceWhy ==
  {"nobody", "Yes", "No", "text", "unsure text"} \cup {"unsure Yes", "unsure No"}
    \cup {"blanket Yes", "blanket No"}
VoiceCell == [answer : {"none", "Yes", "No"}, text : BOOLEAN]

\* The slots of the form, one by one.
LEMMA VoiceFacts ==
  ASSUME Voice!IInv
  PROVE  /\ r1 \in {"checklist", "matrix"}
         /\ r2 = <<>> \/ \E r \in Voice!Response : r2 = <<r>>
         /\ r4 \in [Slot -> VoiceCell] /\ r7 \in [Slot -> VoiceWhy]
         /\ r5 \subseteq Slot /\ r6 \subseteq Slot /\ r9 \in BOOLEAN
<1>1. {Voice!Unsure(w) : w \in {"Yes", "No"}} = {"unsure Yes", "unsure No"}
  BY DEF Voice!Unsure
<1>2. {Voice!Blanket(w) : w \in {"Yes", "No"}} = {"blanket Yes", "blanket No"}
  BY DEF Voice!Blanket
<1> QED
  BY <1>1, <1>2 DEF Voice!IInv, Voice!TypeOK, VoiceWhy, VoiceCell

\* And back.
LEMMA VoiceTypes ==
  ASSUME r1' \in {"checklist", "matrix"},
         r2' = <<>> \/ \E r \in Voice!Response : r2' = <<r>>,
         r4' \in [Slot -> VoiceCell], r7' \in [Slot -> VoiceWhy],
         r5' \subseteq Slot, r6' \subseteq Slot, r9' \in BOOLEAN
  PROVE  Voice!TypeOK'
<1>1. {Voice!Unsure(w) : w \in {"Yes", "No"}} = {"unsure Yes", "unsure No"}
  BY DEF Voice!Unsure
<1>2. {Voice!Blanket(w) : w \in {"Yes", "No"}} = {"blanket Yes", "blanket No"}
  BY DEF Voice!Blanket
<1> QED
  BY <1>1, <1>2 DEF Voice!TypeOK, VoiceWhy, VoiceCell

\* The form is empty.
LEMMA InitVoice == ASSUME Voice!Init PROVE Voice!IInv
<1>1. Voice!TypeOK
  BY DEF Voice!Init, Voice!TypeOK
<1> QED
  BY <1>1 DEF Voice!Init, Voice!IInv, Voice!AnswersAreExplained, Voice!Says, Voice!RowsAreSpoken

\* An answer a and what it is remembered as, where w was remembered before.
Remembered(a, why, w) ==
  \/ a.word = "nothing" /\ why = w
  \/ /\ a.word \in {"Yes", "No"}
     /\ \/ why = a.word
        \/ why = "text" /\ a.word = Voice!Implied
        \/ why = "unsure text" /\ a.word = Voice!Implied /\ a.source # "blanket" /\ ~a.sure
        \/ why = Voice!Unsure(a.word) /\ a.source # "blanket" /\ ~a.sure
        \/ why = Voice!Blanket(a.word) /\ a.source = "blanket"

\* What the server makes of a response, slot by slot, and what that is remembered as.
LEMMA ResultVoice ==
  ASSUME NEW r \in Voice!Response, NEW s \in Slot
  PROVE  Remembered(Voice!Result(r)[s], Voice!Told(r, s), r7[s])
<1> DEFINE b == Voice!ExpandBlanket(r, s)
           a == Voice!ImplyAnswer(r, s, Voice!ToFilled(b))
           why == Voice!Told(r, s)
           Answer(w, u, o) == [word |-> w, sure |-> u, source |-> o]
<1>0. \A w, u, o : Answer(w, u, o).word = w /\ Answer(w, u, o).sure = u /\ Answer(w, u, o).source = o
  OBVIOUS
<1>1. /\ r.spoken[s] \in {"nothing", "Yes", "No", "unclear"} /\ r.sure[s] \in BOOLEAN
      /\ r.text[s] \in {"nothing", "sure", "unsure"} /\ r.blanket \in {"nothing", "Yes", "No", "unclear"}
  BY DEF Voice!Response, Voice!Word
<1>2. Voice!Result(r)[s] = a
  BY DEF Voice!Result
<1>3. CASE r.text[s] # "nothing"
  <2>1. a = Answer(Voice!Implied, r.text[s] = "sure", "spoken")
    BY <1>3 DEF Voice!ImplyAnswer
  <2>2. why = IF r.text[s] = "sure" THEN "text" ELSE "unsure text"
    BY <1>3 DEF Voice!Told
  <2>3. Voice!Implied \in {"Yes", "No"}
    BY DEF Voice!Implied
  <2> HIDE DEF a, why, Answer
  <2>4. a.word = Voice!Implied /\ a.sure = (r.text[s] = "sure") /\ a.source = "spoken"
    BY <1>0, <2>1
  <2>5. Remembered(a, why, r7[s])
    <3>1. CASE r.text[s] = "sure"
      <4>1. why = "text"
        BY <2>2, <3>1
      <4> QED
        BY <4>1, <2>3, <2>4 DEF Remembered
    <3>2. CASE r.text[s] # "sure"
      <4>1. why = "unsure text"
        BY <2>2, <3>2
      <4>2. ~a.sure /\ a.source # "blanket"
        BY <2>4, <3>2
      <4> QED
        BY <4>1, <4>2, <2>3, <2>4 DEF Remembered
    <3> QED
      BY <3>1, <3>2
  <2> QED
    BY <1>2, <2>5 DEF why
<1>4. CASE r.text[s] = "nothing" /\ r.spoken[s] \in {"Yes", "No"}
  <2>1. b = Answer(r.spoken[s], r.sure[s], "spoken")
    BY <1>4 DEF Voice!ExpandBlanket
  <2>2. a = b
    BY <1>4, <2>1 DEF Voice!ImplyAnswer, Voice!ToFilled
  <2>3. why = IF r.sure[s] THEN r.spoken[s] ELSE Voice!Unsure(r.spoken[s])
    BY <1>4 DEF Voice!Told
  <2> HIDE DEF a, b, why, Answer
  <2>4. a.word = r.spoken[s] /\ a.sure = r.sure[s] /\ a.source = "spoken"
    BY <1>0, <2>1, <2>2
  <2>5. Remembered(a, why, r7[s])
    BY <1>1, <1>4, <2>3, <2>4 DEF Remembered
  <2> QED
    BY <1>2, <2>5 DEF why
<1>5. CASE /\ r.text[s] = "nothing" /\ r.spoken[s] = "nothing" /\ r.blanket \in {"Yes", "No"}
           /\ Voice!Covers(r, s)
  <2>1. b = Answer(r.blanket, TRUE, "blanket")
    BY <1>5 DEF Voice!ExpandBlanket
  <2>2. a = b
    BY <1>5, <2>1 DEF Voice!ImplyAnswer, Voice!ToFilled
  <2>3. why = Voice!Blanket(r.blanket)
    BY <1>5 DEF Voice!Told
  <2> HIDE DEF a, b, why
  <2>4. a.word = r.blanket /\ a.source = "blanket"
    BY <2>1, <2>2
  <2>5. Remembered(a, why, r7[s])
    BY <1>5, <2>3, <2>4 DEF Remembered
  <2> QED
    BY <1>2, <2>5 DEF why
<1>6. CASE /\ r.text[s] = "nothing" /\ r.spoken[s] \notin {"Yes", "No"}
           /\ ~(r.spoken[s] = "nothing" /\ r.blanket \in {"Yes", "No"} /\ Voice!Covers(r, s))
  <2>1. b.word \notin {"Yes", "No"}
    BY <1>1, <1>6 DEF Voice!ExpandBlanket
  <2>2. a.word = "nothing"
    BY <1>6, <2>1 DEF Voice!ImplyAnswer, Voice!ToFilled, Voice!None
  <2>3. why = r7[s]
    BY <1>6 DEF Voice!Told
  <2> QED
    BY <1>2, <2>2, <2>3 DEF Remembered
<1> QED
  BY <1>1, <1>3, <1>4, <1>5, <1>6

\* The answer of an utterance is merged into the form: the words and the marks.
LEMMA FillVoice ==
  ASSUME Voice!IInv, Voice!ApplyVoiceFill
  PROVE  Voice!IInv'
<1>1. /\ r1 \in {"checklist", "matrix"} /\ r4 \in [Slot -> VoiceCell] /\ r7 \in [Slot -> VoiceWhy]
      /\ r5 \subseteq Slot /\ r6 \subseteq Slot /\ r9 \in BOOLEAN
  BY VoiceFacts
<1>2. PICK said \in Voice!Response : r2 = <<said>>
  BY VoiceFacts DEF Voice!ApplyVoiceFill
<1> DEFINE res == Voice!Result(said)
           Filled == {s \in Slot : res[s].word # "nothing"}
<1>3. Head(r2) = said
  BY <1>2
<1>4. /\ r4' = [s \in Slot |-> [answer |-> IF s \in Filled THEN res[s].word ELSE r4[s].answer,
                                text |-> r4[s].text \/ said.text[s] # "nothing"]]
      /\ r5' = r5 \cup {s \in Filled : res[s].source = "blanket"}
      /\ r6' = r6 \cup {s \in Filled : res[s].source # "blanket" /\ ~res[s].sure}
      /\ r7' = [s \in Slot |-> Voice!Told(said, s)]
      /\ r2' = <<>> /\ UNCHANGED <<r1, r3, r9>>
  BY <1>3 DEF Voice!ApplyVoiceFill
<1>5. r8' = r8 \/ r8' = Voice!PlaceRow("spoken")
  BY DEF Voice!ApplyVoiceFill
<1> HIDE DEF res
<1>6. ASSUME NEW s \in Slot
      PROVE  /\ r4'[s].answer \in {"none", "Yes", "No"} /\ r4'[s].text \in BOOLEAN /\ r7'[s] \in VoiceWhy
             /\ r4'[s].answer = Voice!Says(s)'
             /\ r7'[s] \in {"blanket Yes", "blanket No"} => s \in r5'
             /\ r7'[s] \in {"unsure Yes", "unsure No", "unsure text"} => s \in r6'
  <2>1. /\ r4[s] \in VoiceCell /\ r7[s] \in VoiceWhy /\ r4[s].answer = Voice!Says(s)
        /\ r7[s] \in {"blanket Yes", "blanket No"} => s \in r5
        /\ r7[s] \in {"unsure Yes", "unsure No", "unsure text"} => s \in r6
    BY <1>1 DEF Voice!IInv, Voice!AnswersAreExplained
  <2>2. Voice!Says(s)' = CASE r7'[s] = "nobody" -> "none"
                           [] r7'[s] \in {"text", "unsure text"} -> Voice!Implied
                           [] r7'[s] \in {"Yes", "unsure Yes", "blanket Yes"} -> "Yes"
                           [] OTHER -> "No"
    BY <1>4 DEF Voice!Says, Voice!Implied
  <2>3. /\ r7'[s] = Voice!Told(said, s)
        /\ r4'[s].answer = IF res[s].word # "nothing" THEN res[s].word ELSE r4[s].answer
        /\ r4'[s].text \in BOOLEAN
    BY <1>4, <2>1 DEF VoiceCell
  <2>4. /\ s \in r5 \/ (res[s].word # "nothing" /\ res[s].source = "blanket") => s \in r5'
        /\ s \in r6 \/ (res[s].word # "nothing" /\ res[s].source # "blanket" /\ ~res[s].sure) => s \in r6'
    BY <1>4
  <2>5. CASE res[s].word = "nothing" /\ Voice!Told(said, s) = r7[s]
    <3>1. Voice!Says(s)' = Voice!Says(s)
      BY <2>2, <2>3, <2>5 DEF Voice!Says
    <3> QED
      BY <2>1, <2>3, <2>4, <2>5, <3>1 DEF VoiceCell
  <2>6. ASSUME res[s].word \in {"Yes", "No"},
               \/ Voice!Told(said, s) = res[s].word
               \/ Voice!Told(said, s) = "text" /\ res[s].word = Voice!Implied
               \/ Voice!Told(said, s) = "unsure text" /\ res[s].word = Voice!Implied
                  /\ res[s].source # "blanket" /\ ~res[s].sure
               \/ Voice!Told(said, s) = Voice!Unsure(res[s].word) /\ res[s].source # "blanket" /\ ~res[s].sure
               \/ Voice!Told(said, s) = Voice!Blanket(res[s].word) /\ res[s].source = "blanket"
        PROVE  /\ r4'[s].answer \in {"none", "Yes", "No"} /\ r7'[s] \in VoiceWhy
               /\ r4'[s].answer = Voice!Says(s)'
               /\ r7'[s] \in {"blanket Yes", "blanket No"} => s \in r5'
               /\ r7'[s] \in {"unsure Yes", "unsure No", "unsure text"} => s \in r6'
    BY <2>2, <2>3, <2>4, <2>6 DEF Voice!Unsure, Voice!Blanket, VoiceWhy
  <2> QED
    BY <2>3, <2>5, <2>6, ResultVoice DEF res, Remembered
<1>7. Voice!AnswersAreExplained'
  BY <1>6 DEF Voice!AnswersAreExplained
<1>8. Voice!TypeOK'
  <2>1. r4' \in [Slot -> VoiceCell] /\ r7' \in [Slot -> VoiceWhy]
    BY <1>4, <1>6 DEF VoiceCell
  <2>2. r5' \subseteq Slot /\ r6' \subseteq Slot
    BY <1>1, <1>4
  <2> QED
    BY <1>1, <1>4, <2>1, <2>2, VoiceTypes
<1>9. Voice!RowsAreSpoken'
  <2>1. CASE r9
    BY <1>4, <2>1 DEF Voice!RowsAreSpoken
  <2>2. CASE ~r9 /\ r8 = <<"blank">>
    <3>1. r8' = <<"blank">> \/ r8' = <<"spoken">>
      BY <1>5, <2>2 DEF Voice!PlaceRow
    <3>2. /\ <<"spoken">> \in Seq({"aged", "spoken"})
          /\ \A i \in 2 .. Len(<<"spoken">>) : <<"spoken">>[i] = "spoken"
      <4>1. \A i \in 2 .. 1 : FALSE
        OBVIOUS
      <4> QED
        BY <4>1
    <3> DEFINE one == <<"spoken">>
    <3> HIDE DEF one
    <3>3. /\ r8' = <<"blank">> \/ r8' = one
          /\ one \in Seq({"aged", "spoken"}) /\ \A i \in 2 .. Len(one) : one[i] = "spoken"
      BY <3>1, <3>2 DEF one
    <3> QED
      BY <3>3 DEF Voice!RowsAreSpoken
  <2>3. CASE ~r9 /\ r8 # <<"blank">> /\ r8 \in Seq({"aged", "spoken"})
             /\ \A i \in 2 .. Len(r8) : r8[i] = "spoken"
    <3>1. CASE r8' = r8
      BY <2>3, <3>1 DEF Voice!RowsAreSpoken
    <3>2. CASE r8' = Append(r8, "spoken")
      <4>1. /\ r8' \in Seq({"aged", "spoken"}) /\ Len(r8) \in Nat /\ Len(r8') = Len(r8) + 1
            /\ r8'[Len(r8) + 1] = "spoken" /\ \A i \in 1 .. Len(r8) : r8'[i] = r8[i]
        BY <2>3, <3>2
      <4>2. ASSUME NEW i \in 2 .. Len(r8') PROVE r8'[i] = "spoken"
        <5>1. (i \in 2 .. Len(r8) /\ i \in 1 .. Len(r8)) \/ i = Len(r8) + 1
          BY <4>1
        <5> QED
          BY <2>3, <4>1, <5>1
      <4> QED
        BY <4>1, <4>2 DEF Voice!RowsAreSpoken
    <3> QED
      BY <1>5, <2>3, <3>1, <3>2 DEF Voice!PlaceRow
  <2> QED
    BY <2>1, <2>2, <2>3 DEF Voice!IInv, Voice!RowsAreSpoken
<1> QED
  BY <1>7, <1>8, <1>9 DEF Voice!IInv

\* A day ends: the blank row of an untouched table is of an earlier day.
LEMMA MidnightVoice ==
  ASSUME Voice!IInv, Voice!Midnight
  PROVE  Voice!IInv'
<1>1. /\ r8' = [i \in DOMAIN r8 |-> IF r8[i] = "blank" THEN "aged" ELSE r8[i]]
      /\ UNCHANGED <<r1, r2, r3, r4, r5, r6, r7, r9>>
  BY DEF Voice!Midnight
<1>2. Voice!TypeOK'
  BY <1>1, VoiceFacts, VoiceTypes
<1>3. Voice!AnswersAreExplained'
  BY <1>1 DEF Voice!IInv, Voice!AnswersAreExplained, Voice!Says, Voice!Implied
<1>4. Voice!RowsAreSpoken'
  <2>1. CASE r9
    BY <1>1, <2>1 DEF Voice!RowsAreSpoken
  <2>2. CASE ~r9 /\ r8 = <<"blank">>
    <3> DEFINE n == 1
    <3>1. n \in Nat /\ r8' \in [1 .. n -> {"aged", "spoken"}]
      BY <1>1, <2>2
    <3>2. \A i \in 2 .. n : FALSE
      OBVIOUS
    <3> HIDE DEF n
    <3>3. r8' \in Seq({"aged", "spoken"}) /\ Len(r8') = n
      BY <3>1
    <3> QED
      BY <3>2, <3>3 DEF Voice!RowsAreSpoken
  <2>3. CASE ~r9 /\ r8 \in Seq({"aged", "spoken"}) /\ \A i \in 2 .. Len(r8) : r8[i] = "spoken"
    <3>1. Len(r8) \in Nat /\ DOMAIN r8 = 1 .. Len(r8) /\ \A i \in 1 .. Len(r8) : r8[i] \in {"aged", "spoken"}
      BY <2>3
    <3>2. r8' \in [1 .. Len(r8) -> {"aged", "spoken"}] /\ \A i \in 1 .. Len(r8) : r8'[i] = r8[i]
      BY <1>1, <3>1
    <3>3. r8' \in Seq({"aged", "spoken"}) /\ Len(r8') = Len(r8)
      BY <3>1, <3>2
    <3>4. \A i \in 2 .. Len(r8') : i \in 2 .. Len(r8) /\ i \in 1 .. Len(r8)
      BY <3>1, <3>3
    <3> QED
      BY <2>3, <3>2, <3>3, <3>4 DEF Voice!RowsAreSpoken
  <2> QED
    BY <2>1, <2>2, <2>3 DEF Voice!IInv, Voice!RowsAreSpoken
<1> QED
  BY <1>2, <1>3, <1>4 DEF Voice!IInv

\* The worker touches the form, and the utterance is sent or fails.
LEMMA TouchVoice ==
  ASSUME Voice!IInv,
         \/ Voice!Speak \/ Voice!Fail \/ Voice!AddRow
         \/ \E s \in Slot : Voice!Type(s) \/ \E answer \in {"Yes", "No"} : Voice!Tap(s, answer)
         \/ \E i \in DOMAIN r8 : Voice!EditRow(i) \/ Voice!DropRow(i)
  PROVE  Voice!IInv'
<1>1. /\ r1 \in {"checklist", "matrix"} /\ r4 \in [Slot -> VoiceCell] /\ r7 \in [Slot -> VoiceWhy]
      /\ r2 = <<>> \/ \E r \in Voice!Response : r2 = <<r>>
      /\ r5 \subseteq Slot /\ r6 \subseteq Slot /\ r9 \in BOOLEAN
  BY VoiceFacts
<1>2. CASE Voice!Speak \/ Voice!Fail
  <2>1. /\ r2' = <<>> \/ \E r \in Voice!Response : r2' = <<r>>
        /\ UNCHANGED <<r1, r4, r5, r6, r7, r8, r9>>
    BY <1>2 DEF Voice!Speak, Voice!Fail
  <2>2. Voice!TypeOK'
    BY <1>1, <2>1, VoiceTypes
  <2> QED
    BY <2>1, <2>2 DEF Voice!IInv, Voice!AnswersAreExplained, Voice!Says, Voice!Implied, Voice!RowsAreSpoken
<1>3. ASSUME r9' = TRUE, UNCHANGED <<r1, r2, r4, r5, r6, r7>> PROVE Voice!IInv'
  <2>1. Voice!TypeOK'
    BY <1>1, <1>3, VoiceTypes
  <2> QED
    BY <1>3, <2>1 DEF Voice!IInv, Voice!AnswersAreExplained, Voice!Says, Voice!Implied, Voice!RowsAreSpoken
<1>4. ASSUME NEW s \in Slot, Voice!Type(s) PROVE Voice!IInv'
  <2>1. PICK text \in BOOLEAN : r4' = [r4 EXCEPT ![s].text = text]
    BY <1>4 DEF Voice!Type
  <2>2. UNCHANGED <<r1, r2, r5, r6, r7, r8, r9>>
    BY <1>4 DEF Voice!Type
  <2>3. r4' \in [Slot -> VoiceCell] /\ \A t \in Slot : r4'[t].answer = r4[t].answer
    BY <1>1, <2>1 DEF VoiceCell
  <2>4. Voice!TypeOK'
    BY <1>1, <2>2, <2>3, VoiceTypes
  <2> QED
    BY <2>2, <2>3, <2>4 DEF Voice!IInv, Voice!AnswersAreExplained, Voice!Says, Voice!Implied,
                            Voice!RowsAreSpoken
<1>5. ASSUME NEW s \in Slot, NEW answer \in {"Yes", "No"}, Voice!Tap(s, answer) PROVE Voice!IInv'
  <2>1. /\ r4' = [r4 EXCEPT ![s].answer = answer] /\ r5' = r5 \ {s} /\ r6' = r6 \ {s}
        /\ r7' = [r7 EXCEPT ![s] = answer] /\ UNCHANGED <<r1, r2, r8, r9>>
    BY <1>5 DEF Voice!Tap
  <2>2. /\ r4' \in [Slot -> VoiceCell] /\ r4'[s].answer = answer
        /\ \A t \in Slot : t # s => r4'[t] = r4[t]
    BY <1>1, <2>1 DEF VoiceCell
  <2>3. /\ r7' \in [Slot -> VoiceWhy] /\ r7'[s] = answer /\ \A t \in Slot : t # s => r7'[t] = r7[t]
    BY <1>1, <2>1 DEF VoiceWhy
  <2>4. Voice!TypeOK'
    BY <1>1, <2>1, <2>2, <2>3, VoiceTypes
  <2>5. Voice!AnswersAreExplained'
    <3> SUFFICES ASSUME NEW t \in Slot
                 PROVE  /\ r4'[t].answer = Voice!Says(t)'
                        /\ r7'[t] \in {"blanket Yes", "blanket No"} => t \in r5'
                        /\ r7'[t] \in {"unsure Yes", "unsure No", "unsure text"} => t \in r6'
      BY DEF Voice!AnswersAreExplained
    <3>1. CASE t = s
      BY <2>2, <2>3, <3>1 DEF Voice!Says
    <3>2. CASE t # s
      BY <2>1, <2>2, <2>3, <3>2 DEF Voice!IInv, Voice!AnswersAreExplained, Voice!Says, Voice!Implied
    <3> QED
      BY <3>1, <3>2
  <2> QED
    BY <2>1, <2>4, <2>5 DEF Voice!IInv, Voice!RowsAreSpoken
<1>6. ASSUME Voice!AddRow \/ \E i \in DOMAIN r8 : Voice!EditRow(i) \/ Voice!DropRow(i) PROVE Voice!IInv'
  BY <1>3, <1>6 DEF Voice!AddRow, Voice!EditRow, Voice!DropRow
<1> QED
  BY <1>2, <1>4, <1>5, <1>6

\* Every step of the worker and of the model keeps the invariant.
LEMMA NextVoice == ASSUME Voice!IInv, Voice!Next PROVE Voice!IInv'
BY FillVoice, MidnightVoice, TouchVoice DEF Voice!Next

\* The invariant says where answers and rows come from.
LEMMA VoiceIsExplained == Voice!IInv => Voice!AnswersAreExplained /\ Voice!NoBlankRowIsLeft
<1> SUFFICES ASSUME Voice!IInv PROVE Voice!AnswersAreExplained /\ Voice!NoBlankRowIsLeft
  OBVIOUS
<1>1. CASE r8 = <<"blank">>
  BY <1>1 DEF Voice!IInv, Voice!NoBlankRowIsLeft
<1>2. CASE /\ r8 \in Seq({"aged", "spoken"})
           /\ \A i \in 2 .. Len(r8) : r8[i] = "spoken"
  <2>1. Len(r8) > 1 => r8[1] \in {"aged", "spoken"}
    BY <1>2
  <2> QED
    BY <1>2, <2>1 DEF Voice!IInv, Voice!NoBlankRowIsLeft
<1>3. CASE r9
  BY <1>3 DEF Voice!IInv, Voice!NoBlankRowIsLeft
<1> QED
  BY <1>1, <1>2, <1>3 DEF Voice!IInv, Voice!RowsAreSpoken

-----------------------------------------------------------------------------
(* Animals registered by voice (Intake): page r1, speech r2, submission r3,*)
(* staff r4, used r5, animals r6, records r7.  The form, the registration on*)
(* its way and every row are of the transcripts beside them.               *)

\* The page, field by field.
LEMMA FormIntake ==
  ASSUME Intaking!TypeOK
  PROVE  /\ r1.values \in [Field -> Intaking!Value] /\ r1.received \in Intaking!Value
         /\ r1.employee \in Employee \cup {Null} /\ r1.search \in Employee \cup {Null}
         /\ r1.log \in SUBSET Nat /\ r1.picker \in SUBSET Employee
         /\ r1 \in Intaking!Form /\ r2 \in Intaking!Utterance
         /\ r3 \in Intaking!Registration \cup {Null} /\ r4 \subseteq Employee
         /\ r6 \in Seq(Intaking!Animal \cup {Null})
BY DEF Intaking!TypeOK, Intaking!Form

\* The form is empty and no animal is stored.
LEMMA InitIntake == ASSUME Intaking!Init PROVE Intaking!IInv
<1> USE DEF Intaking!Init
<1>1. r6 = <<>> /\ r3 = Null /\ r1.employee = Null /\ r1.picker = {} /\ r1.values = Intaking!NoValues
  OBVIOUS
<1>2. Intaking!TypeOK
  <2>1. r1 \in Intaking!Form
    BY DEF Intaking!Form, Intaking!NoValues, Intaking!Value
  <2>2. r2 \in Intaking!Utterance
    BY DEF Intaking!Silence, Intaking!Utterance
  <2> QED
    BY <2>1, <2>2 DEF Intaking!TypeOK
<1>3. Intaking!Rows = {}
  BY <1>1 DEF Intaking!Rows
<1> QED
  BY <1>1, <1>2, <1>3 DEF Intaking!IInv, Intaking!Spoken, Intaking!NoValues, Intaking!StoredIsExplained,
                          Intaking!PickedIsShown

\* The page changes, and the rows it is about do not.
LEMMA PageIntake ==
  ASSUME Intaking!IInv, r1' \in Intaking!Form, r2' \in Intaking!Utterance, r4' \subseteq Employee,
         r3' \in {r3, Null}, r6' = r6,
         Intaking!Spoken(r1.values, r1.log)', Intaking!PickedIsShown'
  PROVE  Intaking!IInv'
<1>1. Intaking!TypeOK'
  BY DEF Intaking!IInv, Intaking!TypeOK
<1>2. Intaking!StoredIsExplained'
  BY DEF Intaking!IInv, Intaking!StoredIsExplained, Intaking!Rows, Intaking!Spoken, Intaking!Typed
<1>3. r3' # Null => Intaking!Spoken(r3.values, r3.log)'
  BY DEF Intaking!IInv, Intaking!Spoken, Intaking!Typed
<1> QED
  BY <1>1, <1>2, <1>3 DEF Intaking!IInv

\* An utterance under way goes on to its next step, and the page stays.
LEMMA SpeechIntake ==
  ASSUME Intaking!IInv,
         \/ Intaking!Hire \/ Intaking!Speak \/ Intaking!CheckUsage \/ Intaking!Meter
         \/ Intaking!Extract \/ Intaking!Match \/ Intaking!SpeechFails \/ Intaking!NotTranscribed
         \/ Intaking!NotRegistered \/ Intaking!Refetch
  PROVE  Intaking!IInv'
<1>1. /\ r1 \in Intaking!Form /\ r2 \in Intaking!Utterance /\ r4 \subseteq Employee
      /\ r1.log \in SUBSET Nat
  BY FormIntake DEF Intaking!IInv
<1>2. r1' = r1 /\ r6' = r6 /\ r3' \in {r3, Null}
  BY DEF Intaking!Hire, Intaking!Speak, Intaking!CheckUsage, Intaking!Meter, Intaking!Extract,
         Intaking!Match, Intaking!SpeechFails, Intaking!NotTranscribed, Intaking!NotRegistered,
         Intaking!Refetch, Intaking!Goto
<1>3. r4' \subseteq Employee
  BY <1>1 DEF Intaking!Hire, Intaking!Speak, Intaking!CheckUsage, Intaking!Meter, Intaking!Extract,
         Intaking!Match, Intaking!SpeechFails, Intaking!NotTranscribed, Intaking!NotRegistered,
         Intaking!Refetch, Intaking!Goto
<1>4. r2' \in Intaking!Utterance
  <2> USE DEF Intaking!Utterance, Intaking!Silence, Intaking!Goto
  <2>1. CASE Intaking!Hire \/ Intaking!NotRegistered \/ Intaking!Refetch
    BY <1>1, <2>1 DEF Intaking!Hire, Intaking!NotRegistered, Intaking!Refetch
  <2>2. CASE Intaking!Speak \/ Intaking!NotTranscribed
    <3>1. r2.n \in Nat /\ r2.n + 1 \in Nat
      BY <1>1
    <3>2. CASE Intaking!Speak
      BY <3>1, <3>2 DEF Intaking!Speak
    <3>3. CASE Intaking!NotTranscribed
      BY <3>1, <3>3 DEF Intaking!NotTranscribed
    <3> QED
      BY <2>2, <3>2, <3>3
  <2>3. CASE Intaking!CheckUsage \/ Intaking!Meter \/ Intaking!SpeechFails
    <3>1. PICK pc \in {"failed", "transcribe", "extract"} : r2' = [r2 EXCEPT !.pc = pc]
      BY <2>3 DEF Intaking!CheckUsage, Intaking!Meter, Intaking!SpeechFails
    <3> QED
      BY <1>1, <3>1
  <2>4. CASE Intaking!Extract
    <3>1. PICK fields \in SUBSET Field, name \in BOOLEAN, pc \in {"match", "answer"} :
            r2' = [r2 EXCEPT !.fields = fields, !.name = name, !.pc = pc]
      BY <2>4 DEF Intaking!Extract
    <3> QED
      BY <1>1, <3>1
  <2>5. CASE Intaking!Match
    <3>1. PICK e \in Employee \cup {Null} : r2' = [r2 EXCEPT !.match = e, !.pc = "answer"]
      BY <1>1, <2>5 DEF Intaking!Match
    <3> QED
      BY <1>1, <3>1
  <2> QED
    BY <2>1, <2>2, <2>3, <2>4, <2>5
<1>5. Intaking!Spoken(r1.values, r1.log)' /\ Intaking!PickedIsShown'
  BY <1>2 DEF Intaking!IInv, Intaking!Spoken, Intaking!Typed, Intaking!PickedIsShown
<1> QED
  BY <1>1, <1>2, <1>3, <1>4, <1>5, PageIntake

\* The farmer fills the form by hand, and the employees are loaded.
LEMMA HandIntake ==
  ASSUME Intaking!IInv,
         \/ Intaking!LoadPicker
         \/ \E f \in Field : Intaking!Type(f)
         \/ \E text \in r1.picker \cup {Null} : Intaking!Search(text)
  PROVE  Intaking!IInv'
<1>1. /\ r1.values \in [Field -> Intaking!Value] /\ r1.received \in Intaking!Value
      /\ r1.employee \in Employee \cup {Null} /\ r1.search \in Employee \cup {Null}
      /\ r1.log \in SUBSET Nat /\ r1.picker \in SUBSET Employee
      /\ r1 \in Intaking!Form /\ r2 \in Intaking!Utterance /\ r4 \subseteq Employee
      /\ Intaking!Spoken(r1.values, r1.log) /\ Intaking!PickedIsShown
  BY FormIntake, SMTT(30) DEF Intaking!IInv
<1>2. r6' = r6 /\ r3' = r3 /\ r2' = r2 /\ r4' = r4
  BY DEF Intaking!LoadPicker, Intaking!Type, Intaking!Search
<1>3. CASE Intaking!LoadPicker
  <2>1. r1' = [r1 EXCEPT !.picker = r4, !.search = IF r1.employee \in r4 THEN r1.employee ELSE @]
    BY <1>3 DEF Intaking!LoadPicker
  <2>2. /\ r1' \in Intaking!Form /\ r1'.values = r1.values /\ r1'.log = r1.log
        /\ r1'.employee = r1.employee /\ r1'.picker = r4
        /\ r1.employee \in r4 => r1'.search = r1.employee
    BY <1>1, <2>1 DEF Intaking!Form
  <2>3. Intaking!Spoken(r1.values, r1.log)' /\ Intaking!PickedIsShown'
    BY <1>1, <2>2 DEF Intaking!Spoken, Intaking!Typed, Intaking!PickedIsShown
  <2> QED
    BY <1>1, <1>2, <2>2, <2>3, PageIntake
<1>4. ASSUME NEW f \in Field, Intaking!Type(f) PROVE Intaking!IInv'
  <2>1. PICK v \in {Intaking!Typed, Null} : r1' = [r1 EXCEPT !.values[f] = v]
    BY <1>4 DEF Intaking!Type
  <2>2. v \in Intaking!Value
    BY DEF Intaking!Value, Intaking!Typed
  <2>3. /\ r1' \in Intaking!Form /\ r1'.log = r1.log /\ r1'.employee = r1.employee
        /\ r1'.picker = r1.picker /\ r1'.search = r1.search
        /\ r1'.values = [r1.values EXCEPT ![f] = v]
    BY <1>1, <2>1, <2>2 DEF Intaking!Form
  <2>4. \A g \in Field : r1'.values[g] \in {r1.values[g], v}
    BY <1>1, <2>3
  <2>5. Intaking!Spoken(r1.values, r1.log)'
    BY <1>1, <2>3, <2>4 DEF Intaking!Spoken, Intaking!Typed
  <2>6. Intaking!PickedIsShown'
    BY <1>1, <2>3 DEF Intaking!PickedIsShown
  <2> QED
    BY <1>1, <1>2, <2>3, <2>5, <2>6, PageIntake
<1>5. ASSUME NEW text \in r1.picker \cup {Null}, Intaking!Search(text) PROVE Intaking!IInv'
  <2>1. r1' = [r1 EXCEPT !.search = text, !.employee = IF text \in r1.picker THEN text ELSE Null]
    BY <1>5 DEF Intaking!Search, Intaking!Resolved
  <2>2. /\ r1' \in Intaking!Form /\ r1'.log = r1.log /\ r1'.values = r1.values
        /\ r1'.picker = r1.picker /\ r1'.search = text
        /\ r1'.employee = IF text \in r1.picker THEN text ELSE Null
    BY <1>1, <2>1 DEF Intaking!Form
  <2>3. Intaking!Spoken(r1.values, r1.log)'
    BY <1>1, <2>2 DEF Intaking!Spoken, Intaking!Typed
  <2>4. Intaking!PickedIsShown'
    BY <1>1, <2>2, NullIsNoValue DEF Intaking!PickedIsShown
  <2> QED
    BY <1>1, <1>2, <2>2, <2>3, <2>4, PageIntake
<1> QED
  BY <1>3, <1>4, <1>5

\* The answer of an utterance is merged into the form as it is now.
LEMMA FillIntake ==
  ASSUME Intaking!IInv, Intaking!Transcribed
  PROVE  Intaking!IInv'
<1>1. /\ r1.values \in [Field -> Intaking!Value] /\ r1.received \in Intaking!Value
      /\ r1.employee \in Employee \cup {Null} /\ r1.search \in Employee \cup {Null}
      /\ r1.log \in SUBSET Nat /\ r1.picker \in SUBSET Employee
      /\ r1 \in Intaking!Form /\ r2 \in Intaking!Utterance /\ r4 \subseteq Employee
      /\ Intaking!Spoken(r1.values, r1.log) /\ Intaking!PickedIsShown
  BY FormIntake DEF Intaking!IInv
<1>2. r2.n \in Nat /\ r2.match \in Employee \cup {Null}
  BY <1>1 DEF Intaking!Utterance
<1> DEFINE filled == [f \in Field |-> IF f \in r2.fields THEN r2.n ELSE r1.values[f]]
           p == Intaking!Fill(r1)
           e == IF r2.match # Null THEN r2.match ELSE r1.employee
<1>3. /\ r1' = Intaking!Shown(p) /\ r2' = [Intaking!Silence EXCEPT !.n = r2.n]
      /\ r3' = r3 /\ r4' = r4 /\ r6' = r6
  BY DEF Intaking!Transcribed
<1>4. r2' \in Intaking!Utterance
  BY <1>2, <1>3 DEF Intaking!Utterance, Intaking!Silence
<1>5. p = [r1 EXCEPT !.values = filled, !.received = IF r2.name THEN r2.n ELSE @,
                     !.employee = e, !.log = r1.log \cup {r2.n}]
  BY DEF Intaking!Fill, Intaking!Logged
<1>6. filled \in [Field -> Intaking!Value]
  BY <1>1, <1>2 DEF Intaking!Value
<1>7. \A f \in Field : filled[f] \in {r2.n, r1.values[f]}
  OBVIOUS
<1>8. e \in Employee \cup {Null}
  BY <1>1, <1>2
<1> HIDE DEF filled, e
<1>9. /\ p \in Intaking!Form /\ p.values = filled /\ p.employee = e /\ p.log = r1.log \cup {r2.n}
      /\ p.picker = r1.picker /\ p.search = r1.search
  <2>1. PICK v \in Intaking!Value :
          p = [r1 EXCEPT !.values = filled, !.received = v, !.employee = e, !.log = r1.log \cup {r2.n}]
    BY <1>1, <1>2, <1>5 DEF Intaking!Value
  <2>2. r1.log \cup {r2.n} \in SUBSET Nat
    BY <1>1, <1>2
  <2> HIDE DEF p
  <2> QED
    BY <1>1, <1>6, <1>8, <2>1, <2>2 DEF Intaking!Form
<1> HIDE DEF p
<1>10. PICK s \in Employee \cup {Null} :
         /\ r1' = [p EXCEPT !.search = s]
         /\ e = Null \/ s = IF e # r1.employee /\ e \in r1.picker THEN e ELSE r1.search
  BY <1>1, <1>3, <1>8, <1>9 DEF Intaking!Shown
<1>11. /\ r1' \in Intaking!Form /\ r1'.values = filled /\ r1'.employee = e
       /\ r1'.log = r1.log \cup {r2.n} /\ r1'.picker = r1.picker /\ r1'.search = s
  BY <1>9, <1>10 DEF Intaking!Form
<1>12. Intaking!Spoken(r1.values, r1.log)'
  BY <1>1, <1>7, <1>11 DEF Intaking!Spoken, Intaking!Typed
<1>13. Intaking!PickedIsShown'
  BY <1>1, <1>10, <1>11, NullIsNoValue DEF Intaking!PickedIsShown
<1> QED
  BY <1>1, <1>3, <1>4, <1>11, <1>12, <1>13, PageIntake

\* A registration is sent, stored and answered, and a row is deleted.
LEMMA StoreIntake ==
  ASSUME Intaking!IInv,
         \/ Intaking!Submit \/ Intaking!Register \/ Intaking!Registered
         \/ \E i \in r7 \cap Intaking!Rows : Intaking!Remove(i)
  PROVE  Intaking!IInv'
<1>1. /\ r1.values \in [Field -> Intaking!Value] /\ r1.received \in Intaking!Value
      /\ r1.employee \in Employee \cup {Null} /\ r1.search \in Employee \cup {Null}
      /\ r1.log \in SUBSET Nat /\ r1.picker \in SUBSET Employee
      /\ r1 \in Intaking!Form /\ r2 \in Intaking!Utterance /\ r4 \subseteq Employee
      /\ r3 \in Intaking!Registration \cup {Null}
      /\ r6 \in Seq(Intaking!Animal \cup {Null})
  BY FormIntake DEF Intaking!IInv
<1>2. /\ Intaking!Spoken(r1.values, r1.log) /\ Intaking!PickedIsShown /\ Intaking!StoredIsExplained
      /\ r3 # Null => Intaking!Spoken(r3.values, r3.log)
  BY DEF Intaking!IInv
<1>3. CASE Intaking!Submit
  <2>1. /\ r3' = [pc |-> "create", values |-> r1.values, employee |-> r1.employee, log |-> r1.log]
        /\ r1' = r1 /\ r2' = r2 /\ r4' = r4 /\ r6' = r6
    BY <1>3 DEF Intaking!Submit
  <2>2. r3' \in Intaking!Registration /\ r3'.values = r1.values /\ r3'.log = r1.log
    BY <1>1, <2>1 DEF Intaking!Registration
  <2>3. Intaking!TypeOK'
    BY <1>1, <2>1, <2>2 DEF Intaking!TypeOK
  <2>4. Intaking!Spoken(r1.values, r1.log)' /\ Intaking!Spoken(r3.values, r3.log)'
    BY <1>2, <2>1, <2>2 DEF Intaking!Spoken, Intaking!Typed
  <2>5. Intaking!StoredIsExplained' /\ Intaking!PickedIsShown'
    BY <1>2, <2>1 DEF Intaking!StoredIsExplained, Intaking!Rows, Intaking!Spoken, Intaking!Typed,
                      Intaking!PickedIsShown
  <2> QED
    BY <2>3, <2>4, <2>5 DEF Intaking!IInv
<1>4. CASE Intaking!Register
  <2> DEFINE row == [values |-> r3.values, employee |-> r3.employee, log |-> r3.log]
             n == Len(r6) + 1
  <2>1. /\ r3 # Null /\ r6' = Append(r6, row) /\ r3' = [r3 EXCEPT !.pc = "answer"]
        /\ r1' = r1 /\ r2' = r2 /\ r4' = r4
    BY <1>4 DEF Intaking!Register
  <2>2. r3 \in Intaking!Registration
    BY <1>1, <2>1
  <2>3. r3' \in Intaking!Registration /\ r3'.values = r3.values /\ r3'.log = r3.log
    BY <2>1, <2>2 DEF Intaking!Registration
  <2>4. row \in Intaking!Animal /\ row.values = r3.values /\ row.log = r3.log
    BY <2>2 DEF Intaking!Registration, Intaking!Animal
  <2> HIDE DEF row
  <2>5. /\ r6' \in Seq(Intaking!Animal \cup {Null}) /\ DOMAIN r6' = DOMAIN r6 \cup {n} /\ r6'[n] = row
        /\ \A i \in DOMAIN r6 : r6'[i] = r6[i]
    BY <1>1, <2>1, <2>4
  <2>6. Intaking!TypeOK'
    BY <1>1, <2>1, <2>3, <2>5 DEF Intaking!TypeOK
  <2>7. Intaking!Spoken(r1.values, r1.log)' /\ Intaking!Spoken(r3.values, r3.log)'
    BY <1>2, <2>1, <2>3 DEF Intaking!Spoken, Intaking!Typed
  <2>8. Intaking!StoredIsExplained'
    BY <1>2, <2>1, <2>4, <2>5 DEF Intaking!StoredIsExplained, Intaking!Rows, Intaking!Spoken,
                                  Intaking!Typed
  <2>9. Intaking!PickedIsShown'
    BY <1>2, <2>1 DEF Intaking!PickedIsShown
  <2> QED
    BY <2>6, <2>7, <2>8, <2>9 DEF Intaking!IInv
<1>5. CASE Intaking!Registered
  <2>1. /\ r1' = [r1 EXCEPT !.values = Intaking!NoValues, !.received = Null, !.employee = Null,
                            !.log = {}]
        /\ r3' = Null /\ r2' = r2 /\ r4' = r4 /\ r6' = r6
    BY <1>5 DEF Intaking!Registered
  <2>2. Intaking!NoValues \in [Field -> Intaking!Value] /\ Null \in Intaking!Value
    BY DEF Intaking!NoValues, Intaking!Value
  <2>3. /\ r1' \in Intaking!Form /\ r1'.values = Intaking!NoValues /\ r1'.employee = Null
        /\ r1'.picker = r1.picker
    BY <1>1, <2>1, <2>2 DEF Intaking!Form
  <2>4. Intaking!Spoken(r1.values, r1.log)' /\ Intaking!PickedIsShown'
    BY <1>1, <2>3, NullIsNoValue DEF Intaking!Spoken, Intaking!NoValues, Intaking!PickedIsShown
  <2> QED
    BY <1>1, <2>1, <2>3, <2>4, PageIntake
<1>6. ASSUME NEW i \in r7 \cap Intaking!Rows, Intaking!Remove(i) PROVE Intaking!IInv'
  <2>1. r6' = [r6 EXCEPT ![i] = Null] /\ i \in DOMAIN r6 /\ r1' = r1 /\ r2' = r2 /\ r3' = r3 /\ r4' = r4
    BY <1>6 DEF Intaking!Remove, Intaking!Rows
  <2>2. /\ r6' \in Seq(Intaking!Animal \cup {Null}) /\ DOMAIN r6' = DOMAIN r6
        /\ \A j \in DOMAIN r6 : r6'[j] = Null \/ r6'[j] = r6[j]
    BY <1>1, <2>1
  <2>3. Intaking!TypeOK'
    BY <1>1, <2>1, <2>2 DEF Intaking!TypeOK
  <2>4. Intaking!StoredIsExplained'
    BY <1>2, <2>2 DEF Intaking!StoredIsExplained, Intaking!Rows, Intaking!Spoken, Intaking!Typed
  <2> QED
    BY <1>2, <2>1, <2>3, <2>4 DEF Intaking!IInv, Intaking!Spoken, Intaking!Typed, Intaking!PickedIsShown
<1> QED
  BY <1>3, <1>4, <1>5, <1>6

\* Every step of the farmer and of the service keeps the invariant.
LEMMA NextIntake == ASSUME Intaking!IInv, Intaking!Next PROVE Intaking!IInv'
BY SpeechIntake, HandIntake, FillIntake, StoreIntake DEF Intaking!Next

\* The invariant says where the stored animals come from and whom the page shows.
LEMMA IntakeIsTrue == Intaking!IInv => Intaking!StoredIsExplained /\ Intaking!PickedIsShown
BY DEF Intaking!IInv

-----------------------------------------------------------------------------
(* The first steps of an account (Onboarding): tab r1, user r2, orgs r3,   *)
(* invitations r4.  A call is made from its own step, and the organization a*)
(* tab goes on with is there.                                              *)

\* An organization.
OrgRow == [slug : Nat, trial : BOOLEAN, facility : BOOLEAN]

\* The tabs and the organizations, one by one.
LEMMA OnboardFacts ==
  ASSUME Onboard!IInv
  PROVE  r1 \in [Tab -> Onboard!TabRow] /\ r3 \in Seq(OrgRow) /\ \A i \in DOMAIN r3 : i \in Nat \ {0}
BY DEF Onboard!IInv, Onboard!TypeOK, OrgRow

\* Every tab is closed and there is no organization.
LEMMA InitOnboard == ASSUME Onboard!Init PROVE Onboard!IInv
<1>1. r3 = <<>> /\ r3 \in Seq(OrgRow)
  BY DEF Onboard!Init
<1>2. Onboard!Closed \in Onboard!TabRow /\ Onboard!Closed.step = "closed" /\ Onboard!Closed.call = "none"
  BY DEF Onboard!Closed, Onboard!TabRow
<1>3. \A t \in Tab : r1[t] = Onboard!Closed
  BY DEF Onboard!Init
<1>4. Onboard!TypeOK
  BY <1>1, <1>2 DEF Onboard!Init, Onboard!TypeOK, OrgRow
<1> QED
  BY <1>2, <1>3, <1>4 DEF Onboard!IInv, Onboard!CallsAreOfTheStep, Onboard!OrgsAreThere,
                          Onboard!StepsAreEarned

\* What the invariant asks of a tab with this row, over these organizations.
TabIsEarned(row, o) ==
  /\ row.call \in {"upsert", "look"} => row.step = "bootstrap"
  /\ row.call \in {"slug", "provision", "trial"} => row.step = "org"
  /\ row.call = "trial" \/ row.step \in {"facility", "invite"} => row.org \in DOMAIN o
  /\ row.step \in {"facility", "invite"} => o[row.org].trial
  /\ row.step = "invite" => o[1].facility

\* The invariant, tab by tab.
LEMMA OnboardMeans ==
  /\ Onboard!IInv <=> Onboard!TypeOK /\ \A t \in Tab : TabIsEarned(r1[t], r3)
  /\ (Onboard!IInv)' <=> Onboard!TypeOK' /\ \A t \in Tab : TabIsEarned(r1'[t], r3')
<1>1. ASSUME Onboard!IInv PROVE Onboard!TypeOK /\ \A t \in Tab : TabIsEarned(r1[t], r3)
  BY <1>1 DEF Onboard!IInv, Onboard!CallsAreOfTheStep, Onboard!OrgsAreThere, Onboard!StepsAreEarned,
              TabIsEarned
<1>2. ASSUME Onboard!TypeOK, \A t \in Tab : TabIsEarned(r1[t], r3) PROVE Onboard!IInv
  <2>1. \A i \in DOMAIN r3 : i # 0
    BY <1>2 DEF Onboard!TypeOK
  <2> QED
    BY <1>2, <2>1 DEF Onboard!IInv, Onboard!CallsAreOfTheStep, Onboard!OrgsAreThere,
                      Onboard!StepsAreEarned, TabIsEarned
<1>3. ASSUME Onboard!IInv' PROVE Onboard!TypeOK' /\ \A t \in Tab : TabIsEarned(r1'[t], r3')
  BY <1>3 DEF Onboard!IInv, Onboard!CallsAreOfTheStep, Onboard!OrgsAreThere, Onboard!StepsAreEarned,
              TabIsEarned
<1>4. ASSUME Onboard!TypeOK', \A t \in Tab : TabIsEarned(r1'[t], r3') PROVE Onboard!IInv'
  <2>1. \A i \in DOMAIN r3' : i # 0
    BY <1>4 DEF Onboard!TypeOK
  <2> QED
    BY <1>4, <2>1 DEF Onboard!IInv, Onboard!CallsAreOfTheStep, Onboard!OrgsAreThere,
                      Onboard!StepsAreEarned, TabIsEarned
<1> QED
  BY <1>1, <1>2, <1>3, <1>4

\* One tab moves on, over organizations that keep what they have got.
LEMMA TabOnboard ==
  ASSUME Onboard!IInv, NEW t \in Tab, NEW row \in Onboard!TabRow,
         r1' = [r1 EXCEPT ![t] = row],
         r3' \in Seq(OrgRow),
         \A i \in DOMAIN r3 : /\ i \in DOMAIN r3'
                              /\ r3[i].trial => r3'[i].trial
                              /\ r3[i].facility => r3'[i].facility,
         TabIsEarned(row, r3')
  PROVE  Onboard!IInv'
<1>1. r1' \in [Tab -> Onboard!TabRow] /\ r1'[t] = row /\ \A u \in Tab : u # t => r1'[u] = r1[u]
  BY OnboardFacts
<1>2. Onboard!TypeOK'
  BY <1>1 DEF Onboard!TypeOK, OrgRow
<1>3. ASSUME NEW u \in Tab PROVE TabIsEarned(r1'[u], r3')
  <2>1. CASE u = t
    BY <1>1, <2>1
  <2>2. CASE u # t
    <3>1. TabIsEarned(r1[u], r3) /\ r1'[u] = r1[u]
      BY <1>1, <2>2, OnboardMeans
    <3>2. r1[u].step \in {"facility", "invite"} => 1 \in DOMAIN r3
      BY <3>1, OnboardFacts DEF TabIsEarned
    <3> QED
      BY <3>1, <3>2 DEF TabIsEarned
  <2> QED
    BY <2>1, <2>2
<1> QED
  BY <1>2, <1>3, OnboardMeans

\* One tab moves on, and the organizations are as they were.
LEMMA MoveOnboard ==
  ASSUME Onboard!IInv, NEW t \in Tab, NEW row \in Onboard!TabRow,
         r1' = [r1 EXCEPT ![t] = row], r3' = r3,
         TabIsEarned(row, r3)
  PROVE  Onboard!IInv'
BY TabOnboard, OnboardFacts

\* The wizard opens, asks for the account, and looks for its organization.
LEMMA OpenOnboard ==
  ASSUME Onboard!IInv, NEW t \in Tab,
         \/ Onboard!Open(t) \/ Onboard!UpsertUser(t) \/ Onboard!LookForOrg(t)
         \/ Onboard!BootstrapFails(t) \/ Onboard!SubmitOrg(t) \/ Onboard!ChooseSlug(t)
  PROVE  Onboard!IInv'
<1> DEFINE p == r1[t]
<1>1. p \in Onboard!TabRow /\ TabIsEarned(p, r3) /\ r1 = [u \in Tab |-> r1[u]]
  BY OnboardFacts, OnboardMeans
<1>2. CASE Onboard!Open(t)
  <2> DEFINE row == [p EXCEPT !.step = "bootstrap", !.call = "upsert"]
  <2>1. r1' = [r1 EXCEPT ![t] = row] /\ r3' = r3
    BY <1>1, <1>2 DEF Onboard!Open
  <2>2. row \in Onboard!TabRow /\ TabIsEarned(row, r3)
    BY <1>1 DEF Onboard!TabRow, TabIsEarned
  <2> QED
    BY <2>1, <2>2, MoveOnboard
<1>3. CASE Onboard!UpsertUser(t)
  <2> DEFINE row == [p EXCEPT !.call = "look"]
  <2>1. r1' = [r1 EXCEPT ![t] = row] /\ r3' = r3 /\ p.call = "upsert"
    BY <1>1, <1>3 DEF Onboard!UpsertUser, Onboard!Now
  <2>2. row \in Onboard!TabRow /\ TabIsEarned(row, r3)
    BY <1>1, <2>1 DEF Onboard!TabRow, TabIsEarned
  <2> QED
    BY <2>1, <2>2, MoveOnboard
<1>4. CASE Onboard!LookForOrg(t)
  <2> DEFINE row(s) == [p EXCEPT !.step = s, !.call = "none"]
  <2>1. PICK s \in {"org", "dashboard"} : r1' = [r1 EXCEPT ![t] = row(s)] /\ r3' = r3
    BY <1>1, <1>4 DEF Onboard!LookForOrg
  <2>2. row(s) \in Onboard!TabRow /\ TabIsEarned(row(s), r3)
    BY <1>1, <2>1 DEF Onboard!TabRow, TabIsEarned
  <2> QED
    BY <2>1, <2>2, MoveOnboard
<1>5. CASE Onboard!BootstrapFails(t)
  <2> DEFINE row == [p EXCEPT !.step = "org", !.call = "none"]
  <2>1. r1' = [r1 EXCEPT ![t] = row] /\ r3' = r3
    BY <1>1, <1>5 DEF Onboard!BootstrapFails
  <2>2. row \in Onboard!TabRow /\ TabIsEarned(row, r3)
    BY <1>1 DEF Onboard!TabRow, TabIsEarned
  <2> QED
    BY <2>1, <2>2, MoveOnboard
<1>6. CASE Onboard!SubmitOrg(t)
  <2> DEFINE row == [p EXCEPT !.call = "slug", !.tries = p.tries + 1]
  <2>1. r1' = [r1 EXCEPT ![t] = row] /\ r3' = r3 /\ p.step = "org"
    BY <1>1, <1>6 DEF Onboard!SubmitOrg, Onboard!At
  <2>2. p.tries + 1 \in Nat
    BY <1>1 DEF Onboard!TabRow
  <2>3. row \in Onboard!TabRow /\ TabIsEarned(row, r3)
    BY <1>1, <2>1, <2>2 DEF Onboard!TabRow, TabIsEarned
  <2> QED
    BY <2>1, <2>3, MoveOnboard
<1>7. CASE Onboard!ChooseSlug(t)
  <2> DEFINE row(n) == [p EXCEPT !.slug = n, !.call = "provision"]
  <2>1. PICK n \in 1..(MaxOrgs + 1) : r1' = [r1 EXCEPT ![t] = row(n)] /\ r3' = r3 /\ p.call = "slug"
    BY <1>1, <1>7 DEF Onboard!ChooseSlug
  <2>2. n \in Nat
    OBVIOUS
  <2>3. row(n) \in Onboard!TabRow /\ TabIsEarned(row(n), r3)
    BY <1>1, <2>1, <2>2 DEF Onboard!TabRow, TabIsEarned
  <2> QED
    BY <2>1, <2>3, MoveOnboard
<1> QED
  BY <1>2, <1>3, <1>4, <1>5, <1>6, <1>7

\* The organization is made, with its trial or without, and its facility.
LEMMA MakeOnboard ==
  ASSUME Onboard!IInv, NEW t \in Tab,
         \/ Onboard!Provision(t) \/ Onboard!StartTrial(t) \/ Onboard!TrialFails(t)
         \/ Onboard!SubmitFacility(t) \/ Onboard!CreateFacility(t) \/ Onboard!FacilityFails(t)
  PROVE  Onboard!IInv'
<1> DEFINE p == r1[t]
<1>1. /\ p \in Onboard!TabRow /\ TabIsEarned(p, r3) /\ r1 = [u \in Tab |-> r1[u]]
      /\ r3 \in Seq(OrgRow) /\ \A i \in DOMAIN r3 : i \in Nat \ {0}
  BY OnboardFacts, OnboardMeans
<1>2. CASE Onboard!Provision(t)
  <2> DEFINE none == [p EXCEPT !.call = "none"]
             row == [p EXCEPT !.org = Len(r3) + 1, !.call = "trial"]
             new == Onboard!Organization(p.slug)
  <2>1. /\ p.call = "provision"
        /\ \/ r1' = [r1 EXCEPT ![t] = none] /\ r3' = r3
           \/ r1' = [r1 EXCEPT ![t] = row] /\ r3' = Append(r3, new)
    BY <1>1, <1>2 DEF Onboard!Provision, Onboard!Now
  <2>2. none \in Onboard!TabRow /\ TabIsEarned(none, r3)
    BY <1>1, <2>1 DEF Onboard!TabRow, TabIsEarned
  <2>3. new \in OrgRow
    BY <1>1 DEF Onboard!Organization, Onboard!TabRow, OrgRow
  <2> HIDE DEF new
  <2>4. /\ Append(r3, new) \in Seq(OrgRow)
        /\ DOMAIN Append(r3, new) = DOMAIN r3 \cup {Len(r3) + 1} /\ Len(r3) + 1 \in Nat
        /\ \A i \in DOMAIN r3 : Append(r3, new)[i] = r3[i]
    BY <1>1, <2>3
  <2>5. row \in Onboard!TabRow /\ TabIsEarned(row, Append(r3, new))
    BY <1>1, <2>1, <2>4 DEF Onboard!TabRow, TabIsEarned
  <2>6. ASSUME r1' = [r1 EXCEPT ![t] = none], r3' = r3 PROVE Onboard!IInv'
    BY <2>2, <2>6, MoveOnboard
  <2>7. ASSUME r1' = [r1 EXCEPT ![t] = row], r3' = Append(r3, new) PROVE Onboard!IInv'
    <3>1. r3' \in Seq(OrgRow) /\ \A i \in DOMAIN r3 : i \in DOMAIN r3' /\ r3'[i] = r3[i]
      BY <2>4, <2>7
    <3>2. row \in Onboard!TabRow /\ TabIsEarned(row, r3')
      BY <2>5, <2>7
    <3> QED
      BY <2>7, <3>1, <3>2, TabOnboard
  <2> QED
    BY <2>1, <2>6, <2>7
<1>3. CASE Onboard!StartTrial(t)
  <2> DEFINE row == [p EXCEPT !.step = "facility", !.call = "none"]
             paid == [r3[p.org] EXCEPT !.trial = TRUE]
  <2>1. r1' = [r1 EXCEPT ![t] = row] /\ r3' = [r3 EXCEPT ![p.org] = paid] /\ p.call = "trial"
    BY <1>1, <1>3 DEF Onboard!StartTrial
  <2>2. p.org \in DOMAIN r3 /\ r3[p.org] \in OrgRow
    BY <1>1, <2>1 DEF TabIsEarned
  <2>3. paid \in OrgRow /\ paid.trial /\ paid.facility = r3[p.org].facility
    BY <2>2 DEF OrgRow
  <2> HIDE DEF paid
  <2>4. /\ r3' \in Seq(OrgRow) /\ DOMAIN r3' = DOMAIN r3 /\ r3'[p.org] = paid
        /\ \A i \in DOMAIN r3 : i # p.org => r3'[i] = r3[i]
    BY <1>1, <2>1, <2>2, <2>3
  <2>5. row \in Onboard!TabRow /\ TabIsEarned(row, r3')
    BY <1>1, <2>1, <2>2, <2>3, <2>4 DEF Onboard!TabRow, TabIsEarned
  <2> QED
    BY <2>1, <2>3, <2>4, <2>5, TabOnboard
<1>4. CASE Onboard!TrialFails(t)
  <2> DEFINE row == [p EXCEPT !.step = "org", !.call = "none"]
  <2>1. r1' = [r1 EXCEPT ![t] = row] /\ r3' = r3
    BY <1>1, <1>4 DEF Onboard!TrialFails, Onboard!AfterNoTrial
  <2>2. row \in Onboard!TabRow /\ TabIsEarned(row, r3)
    BY <1>1, ZenonT(60) DEF Onboard!TabRow, TabIsEarned
  <2> QED
    BY <2>1, <2>2, MoveOnboard
<1>5. CASE Onboard!SubmitFacility(t) \/ Onboard!FacilityFails(t)
  <2> DEFINE row(c) == [p EXCEPT !.call = c]
  <2>1. PICK c \in {"none", "facility"} :
          r1' = [r1 EXCEPT ![t] = row(c)] /\ r3' = r3 /\ p.step = "facility"
    BY <1>1, <1>5 DEF Onboard!SubmitFacility, Onboard!FacilityFails, Onboard!At, Onboard!Now
  <2>2. row(c) \in Onboard!TabRow /\ TabIsEarned(row(c), r3)
    BY <1>1, <2>1 DEF Onboard!TabRow, TabIsEarned
  <2> QED
    BY <2>1, <2>2, MoveOnboard
<1>6. CASE Onboard!CreateFacility(t)
  <2> DEFINE row == [p EXCEPT !.step = "invite", !.call = "none"]
             built == [r3[1] EXCEPT !.facility = TRUE]
  <2>1. r1' = [r1 EXCEPT ![t] = row] /\ r3' = [r3 EXCEPT ![1] = built] /\ p.step = "facility"
    BY <1>1, <1>6 DEF Onboard!CreateFacility, Onboard!At
  <2>2. p.org \in DOMAIN r3 /\ r3[p.org].trial
    BY <1>1, <2>1 DEF TabIsEarned
  <2>3. 1 \in DOMAIN r3 /\ r3[1] \in OrgRow
    BY <1>1, <2>2
  <2>4. built \in OrgRow /\ built.facility /\ built.trial = r3[1].trial
    BY <2>3 DEF OrgRow
  <2> HIDE DEF built
  <2>5. /\ r3' \in Seq(OrgRow) /\ DOMAIN r3' = DOMAIN r3 /\ r3'[1] = built
        /\ \A i \in DOMAIN r3 : i # 1 => r3'[i] = r3[i]
    BY <1>1, <2>1, <2>3, <2>4
  <2>6. row \in Onboard!TabRow /\ row.step = "invite" /\ row.call = "none" /\ row.org = p.org
    BY <1>1 DEF Onboard!TabRow
  <2>7. TabIsEarned(row, r3')
    BY <2>2, <2>3, <2>4, <2>5, <2>6 DEF TabIsEarned
  <2> QED
    BY <2>1, <2>4, <2>5, <2>6, <2>7, TabOnboard
<1> QED
  BY <1>2, <1>3, <1>4, <1>5, <1>6

\* The invitations, and the ways out of the wizard.
LEMMA LeaveOnboard ==
  ASSUME Onboard!IInv, NEW t \in Tab,
         \/ \E e \in Onboard!Email \cup {Null} : Onboard!TypeEmail(t, e)
         \/ Onboard!Invite(t) \/ Onboard!Invited(t) \/ Onboard!InviteFails(t)
         \/ Onboard!Finish(t) \/ Onboard!Reload(t)
  PROVE  Onboard!IInv'
<1> DEFINE p == r1[t]
           Typed == Onboard!Email \cup {Null}
           row(c, e, s, n) == [p EXCEPT !.call = c, !.email = e, !.sending = s, !.sentTo = n]
<1>1. p \in Onboard!TabRow /\ TabIsEarned(p, r3) /\ r1 = [u \in Tab |-> r1[u]]
  BY OnboardFacts, OnboardMeans
<1>2. p.email \in Typed /\ p.sending \in Typed /\ p.sentTo \in Typed /\ Null \in Typed
  BY <1>1 DEF Onboard!TabRow
<1>3. ASSUME NEW c \in {"none", "invite", p.call}, NEW e \in Typed, NEW s \in Typed, NEW n \in Typed
      PROVE  row(c, e, s, n) \in Onboard!TabRow /\ TabIsEarned(row(c, e, s, n), r3)
  <2>1. row(c, e, s, n) \in Onboard!TabRow
    BY <1>1 DEF Onboard!TabRow
  <2>2. row(c, e, s, n).call = c /\ row(c, e, s, n).step = p.step /\ row(c, e, s, n).org = p.org
    BY <1>1 DEF Onboard!TabRow
  <2> QED
    BY <1>1, <2>1, <2>2 DEF TabIsEarned
<1>4. ASSUME NEW c \in {"none", "invite", p.call}, NEW e \in Typed, NEW s \in Typed, NEW n \in Typed,
             r1' = [r1 EXCEPT ![t] = row(c, e, s, n)], r3' = r3
      PROVE  Onboard!IInv'
  <2> HIDE DEF p, Typed, row
  <2>1. row(c, e, s, n) \in Onboard!TabRow /\ TabIsEarned(row(c, e, s, n), r3)
    BY <1>3
  <2> QED
    BY <1>4, <2>1, MoveOnboard
<1>5. ASSUME NEW e \in Typed, Onboard!TypeEmail(t, e) PROVE Onboard!IInv'
  <2>1. r1' = [r1 EXCEPT ![t] = row(p.call, e, p.sending, p.sentTo)] /\ r3' = r3
    BY <1>1, <1>5 DEF Onboard!TypeEmail, Onboard!TabRow
  <2> QED
    BY <1>2, <1>4, <2>1
<1>6. CASE Onboard!Invite(t)
  <2>1. r1' = [r1 EXCEPT ![t] = row("invite", p.email, p.email, p.sentTo)] /\ r3' = r3
    BY <1>1, <1>6 DEF Onboard!Invite, Onboard!TabRow
  <2> QED
    BY <1>2, <1>4, <2>1
<1>7. CASE Onboard!Invited(t)
  <2>1. r1' = [r1 EXCEPT ![t] = row("none", Null, Null, p.email)] /\ r3' = r3
    BY <1>1, <1>7 DEF Onboard!Invited, Onboard!TabRow
  <2> QED
    BY <1>2, <1>4, <2>1
<1>8. CASE Onboard!InviteFails(t)
  <2>1. r1' = [r1 EXCEPT ![t] = row("none", p.email, Null, p.sentTo)] /\ r3' = r3
    BY <1>1, <1>8 DEF Onboard!InviteFails, Onboard!TabRow
  <2> QED
    BY <1>2, <1>4, <2>1
<1>9. CASE Onboard!Finish(t)
  <2> DEFINE gone == [Onboard!Closed EXCEPT !.step = "dashboard"]
  <2>1. r1' = [r1 EXCEPT ![t] = gone] /\ r3' = r3
    BY <1>9 DEF Onboard!Finish
  <2>2. gone \in Onboard!TabRow /\ TabIsEarned(gone, r3)
    BY DEF Onboard!Closed, Onboard!TabRow, TabIsEarned
  <2> QED
    BY <2>1, <2>2, MoveOnboard
<1>10. CASE Onboard!Reload(t)
  <2> DEFINE again == [Onboard!Closed EXCEPT !.tries = p.tries]
  <2>1. r1' = [r1 EXCEPT ![t] = again] /\ r3' = r3
    BY <1>10 DEF Onboard!Reload
  <2>2. again \in Onboard!TabRow /\ TabIsEarned(again, r3)
    BY <1>1 DEF Onboard!Closed, Onboard!TabRow, TabIsEarned
  <2> QED
    BY <2>1, <2>2, MoveOnboard
<1> QED
  BY <1>5, <1>6, <1>7, <1>8, <1>9, <1>10

\* Every step of every tab keeps the invariant.
LEMMA NextOnboard == ASSUME Onboard!IInv, Onboard!Next PROVE Onboard!IInv'
BY OpenOnboard, MakeOnboard, LeaveOnboard DEF Onboard!Next

-----------------------------------------------------------------------------
(* The operator's table of modules (OrgModules): server r1, shown r2, fetch*)
(* r3, toggles r4.  A list on its way is what is stored, but for the changes*)
(* that are yet to settle.                                                 *)

\* The page shows what the server has.
LEMMA InitModules == ASSUME Modules!Init PROVE Modules!IInv
BY DEF Modules!Init, Modules!IInv, Modules!TypeOK, Modules!ListsAreTrue, Modules!SettledShowsTheTruth,
       Modules!None, Modules!Table, Modules!Change

\* A list is on its way only as a list read.
LEMMA FetchModules ==
  ASSUME Modules!TypeOK
  PROVE  /\ r3 = Modules!None \/ r3 = Modules!Asked \/ r3 = Modules!Failed
            \/ r3 \in [pc : {"read"}, list : Modules!Table]
         /\ Modules!None.pc = "none" /\ Modules!Asked.pc = "asked" /\ Modules!Failed.pc = "failed"
         /\ Modules!None # Modules!Asked /\ Modules!None # Modules!Failed
         /\ \A list \in Modules!Table : /\ Modules!Answered(list).pc = "read"
                                        /\ Modules!Answered(list).list = list
                                        /\ Modules!Answered(list) # Modules!None
                                        /\ Modules!Answered(list) \in [pc : {"read"}, list : Modules!Table]
BY DEF Modules!TypeOK, Modules!None, Modules!Asked, Modules!Failed, Modules!Answered

\* While the list is asked for, nothing is claimed of it or of the boxes.
LEMMA AskedModules ==
  ASSUME r3' \in {Modules!None, Modules!Asked, Modules!Failed}, r3' # Modules!None,
         r1' \in Modules!Table, r2' \in Modules!Table, r4' \in Seq(Modules!Change)
  PROVE  Modules!IInv'
BY DEF Modules!IInv, Modules!TypeOK, Modules!ListsAreTrue, Modules!SettledShowsTheTruth,
       Modules!None, Modules!Asked, Modules!Failed

\* One change moves on.
LEMMA MoveModules ==
  ASSUME r4 \in Seq(Modules!Change), NEW m \in DOMAIN r4,
         NEW pc \in {"sent", "applied", "settled", "abandoned", "late"},
         r4' = [r4 EXCEPT ![m].pc = pc]
  PROVE  /\ r4' \in Seq(Modules!Change) /\ DOMAIN r4' = DOMAIN r4 /\ Len(r4') = Len(r4)
         /\ r4'[m].pc = pc /\ r4'[m].cell = r4[m].cell
         /\ \A k \in DOMAIN r4 : k # m => r4'[k] = r4[k]
<1>1. r4[m] \in Modules!Change
  OBVIOUS
<1>2. [r4[m] EXCEPT !.pc = pc] \in Modules!Change
  BY <1>1 DEF Modules!Change
<1>3. r4' = [r4 EXCEPT ![m] = [r4[m] EXCEPT !.pc = pc]]
  OBVIOUS
<1>4. r4'[m] = [r4[m] EXCEPT !.pc = pc]
  BY <1>3
<1> QED
  BY <1>1, <1>2, <1>3, <1>4 DEF Modules!Change

\* Every step of the operator, of the server and of the list keeps the invariant.
LEMMA NextModules == ASSUME Modules!IInv, Modules!Next PROVE Modules!IInv'
<1>0. /\ r1 \in Modules!Table /\ r2 \in Modules!Table /\ r4 \in Seq(Modules!Change)
      /\ Modules!TypeOK
  BY DEF Modules!IInv, Modules!TypeOK
<1> DEFINE FetchFacts ==
             /\ r3 = Modules!None \/ r3 = Modules!Asked \/ r3 = Modules!Failed
                \/ r3 \in [pc : {"read"}, list : Modules!Table]
             /\ Modules!None.pc = "none" /\ Modules!Asked.pc = "asked" /\ Modules!Failed.pc = "failed"
             /\ Modules!None # Modules!Asked /\ Modules!None # Modules!Failed
<1>a. FetchFacts
  BY <1>0, FetchModules
<1>1. ASSUME NEW c \in Cell, Modules!HandleToggle(c) PROVE Modules!IInv'
  <2> DEFINE click == [cell |-> c, enabled |-> ~r2[c], previous |-> r2, pc |-> "sent"]
             n == Len(r4) + 1
  <2>1. /\ r4' = Append(r4, click) /\ r2' = [r2 EXCEPT ![c] = ~@] /\ r3' = Modules!None /\ r1' = r1
    BY <1>1 DEF Modules!HandleToggle
  <2>2. click \in Modules!Change /\ click.pc = "sent"
    BY <1>0 DEF Modules!Change, Modules!Table
  <2> HIDE DEF click
  <2>3. r4' \in Seq(Modules!Change) /\ n \in DOMAIN r4' /\ r4'[n].pc = "sent"
    BY <1>0, <2>1, <2>2
  <2>4. r2' \in Modules!Table
    BY <1>0, <2>1 DEF Modules!Table
  <2>5. Modules!TypeOK'
    BY <1>0, <2>1, <2>3, <2>4 DEF Modules!TypeOK
  <2>6. Modules!SettledShowsTheTruth'
    BY <2>3 DEF Modules!SettledShowsTheTruth, Modules!Pending
  <2>7. Modules!ListsAreTrue'
    BY <1>a, <2>1 DEF Modules!ListsAreTrue, Modules!None
  <2> QED
    BY <2>5, <2>6, <2>7 DEF Modules!IInv
<1>2. ASSUME NEW m \in DOMAIN r4, Modules!ToggleModule(m) PROVE Modules!IInv'
  <2>0. r4[m] \in Modules!Change
    BY <1>0
  <2> DEFINE pc == IF r4[m].pc = "sent" THEN "applied" ELSE "late"
  <2>1. /\ r4[m].pc \in {"sent", "abandoned"}
        /\ r1' = [r1 EXCEPT ![r4[m].cell] = r4[m].enabled]
        /\ r4' = [r4 EXCEPT ![m].pc = pc] /\ r2' = r2 /\ r3' = r3
    BY <1>2 DEF Modules!ToggleModule
  <2>2. /\ r4' \in Seq(Modules!Change) /\ DOMAIN r4' = DOMAIN r4
        /\ r4'[m].pc = pc /\ r4'[m].cell = r4[m].cell
        /\ \A k \in DOMAIN r4 : k # m => r4'[k] = r4[k]
    BY <1>0, <2>1, MoveModules
  <2>3. r1' \in Modules!Table /\ \A c \in Cell : c # r4[m].cell => r1'[c] = r1[c]
    BY <1>0, <2>0, <2>1 DEF Modules!Change, Modules!Table
  <2>4. Modules!TypeOK'
    BY <1>0, <2>1, <2>2, <2>3 DEF Modules!TypeOK
  <2>5. \A c \in Cell : Modules!GivenUp(c) => Modules!GivenUp(c)'
    BY <2>1, <2>2 DEF Modules!GivenUp
  <2>6. r4[m].pc = "abandoned" => Modules!GivenUp(r4[m].cell)'
    BY <2>2 DEF Modules!GivenUp
  <2>7. Modules!ListsAreTrue'
    <3> SUFFICES ASSUME r3.pc = "read", NEW c \in Cell
                 PROVE  \/ Modules!GivenUp(c)' \/ r3.list[c] = r1'[c]
                        \/ \E k \in DOMAIN r4' : r4'[k].cell = c /\ r4'[k].pc = "applied"
      BY <2>1 DEF Modules!ListsAreTrue
    <3>1. CASE c = r4[m].cell
      BY <2>1, <2>2, <2>6, <3>1
    <3>2. CASE c # r4[m].cell
      <4>1. \/ Modules!GivenUp(c) \/ r3.list[c] = r1[c]
            \/ \E k \in DOMAIN r4 : r4[k].cell = c /\ r4[k].pc = "applied"
        BY DEF Modules!IInv, Modules!ListsAreTrue
      <4> QED
        BY <2>1, <2>2, <2>3, <2>5, <3>2, <4>1
    <3> QED
      BY <3>1, <3>2
  <2>8. Modules!SettledShowsTheTruth'
    <3>1. CASE r4[m].pc = "sent"
      BY <2>2, <3>1 DEF Modules!SettledShowsTheTruth, Modules!Pending
    <3>2. CASE r4[m].pc = "abandoned"
      <4> SUFFICES ASSUME r3 = Modules!None, \A k \in DOMAIN r4' : ~Modules!Pending(k)', NEW c \in Cell
                   PROVE  Modules!GivenUp(c)' \/ r2[c] = r1'[c]
        BY <2>1 DEF Modules!SettledShowsTheTruth
      <4>1. \A k \in DOMAIN r4 : ~Modules!Pending(k)
        BY <2>2, <3>2 DEF Modules!Pending
      <4>2. Modules!GivenUp(c) \/ r2[c] = r1[c]
        BY <4>1 DEF Modules!IInv, Modules!SettledShowsTheTruth
      <4> QED
        BY <2>2, <2>3, <2>5, <2>6, <3>2, <4>2
    <3> QED
      BY <2>1, <3>1, <3>2
  <2> QED
    BY <2>4, <2>7, <2>8 DEF Modules!IInv
<1>3. ASSUME NEW m \in DOMAIN r4, Modules!Succeed(m) \/ Modules!Fail(m) PROVE Modules!IInv'
  <2>1. /\ r3' = Modules!Asked /\ r1' = r1 /\ r2' \in {r2, r4[m].previous}
        /\ \E pc \in {"settled", "abandoned"} : r4' = [r4 EXCEPT ![m].pc = pc]
    BY <1>3 DEF Modules!Succeed, Modules!Fail, Modules!Refreshed
  <2>2. r4[m].previous \in Modules!Table
    <3>1. r4[m] \in Modules!Change
      BY <1>0
    <3> QED
      BY <3>1 DEF Modules!Change
  <2>3. r4' \in Seq(Modules!Change)
    BY <1>0, <2>1, MoveModules
  <2> QED
    BY <1>0, <1>a, <2>1, <2>2, <2>3, AskedModules
<1>4. CASE Modules!Refocus
  <2>1. r3' = Modules!Asked /\ r1' = r1 /\ r2' = r2 /\ r4' = r4
    BY <1>4 DEF Modules!Refocus
  <2> QED
    BY <1>0, <1>a, <2>1, AskedModules
<1>5. CASE Modules!ListOrganizations
  <2>1. r3' = Modules!Answered(r1) /\ r1' = r1 /\ r2' = r2 /\ r4' = r4
    BY <1>5 DEF Modules!ListOrganizations
  <2>2. /\ Modules!Answered(r1).list = r1 /\ Modules!Answered(r1) # Modules!None
        /\ Modules!Answered(r1) \in [pc : {"read"}, list : Modules!Table]
    BY <1>0, FetchModules
  <2> HIDE DEF FetchFacts
  <2>3. Modules!TypeOK'
    BY <1>0, <2>1, <2>2 DEF Modules!TypeOK
  <2>4. Modules!ListsAreTrue' /\ Modules!SettledShowsTheTruth'
    BY <2>1, <2>2 DEF Modules!ListsAreTrue, Modules!SettledShowsTheTruth, Modules!None
  <2> QED
    BY <2>3, <2>4 DEF Modules!IInv
<1>6. CASE Modules!Deliver
  <2>1. r3.pc = "read" /\ r2' = r3.list /\ r3' = Modules!None /\ r1' = r1 /\ r4' = r4
    BY <1>6 DEF Modules!Deliver
  <2>2. r3.list \in Modules!Table
    BY <1>a, <2>1
  <2>3. Modules!TypeOK'
    BY <1>0, <2>1, <2>2 DEF Modules!TypeOK
  <2>4. Modules!ListsAreTrue'
    BY <1>a, <2>1 DEF Modules!ListsAreTrue, Modules!None
  <2>5. Modules!SettledShowsTheTruth'
    <3> SUFFICES ASSUME \A k \in DOMAIN r4 : ~Modules!Pending(k), NEW c \in Cell
                 PROVE  Modules!GivenUp(c) \/ r3.list[c] = r1[c]
      BY <2>1 DEF Modules!SettledShowsTheTruth, Modules!Pending, Modules!GivenUp
    <3> QED
      BY <2>1 DEF Modules!IInv, Modules!ListsAreTrue, Modules!Pending
  <2> QED
    BY <2>3, <2>4, <2>5 DEF Modules!IInv
<1>7. CASE Modules!LoseList
  <2>1. r3' = Modules!Failed /\ r1' = r1 /\ r2' = r2 /\ r4' = r4
    BY <1>7 DEF Modules!LoseList
  <2> QED
    BY <1>0, <1>a, <2>1, AskedModules
<1> QED
  BY <1>1, <1>2, <1>3, <1>4, <1>5, <1>6, <1>7 DEF Modules!Next

-----------------------------------------------------------------------------
(* The form designer (FormBuilder): sections r1, expanded r2, picker r3,   *)
(* titled r4, saved r5, ids r6.  Sections and fields are found by their ids.*)

\* What is left when the row at one place of a list is removed.
LEMMA RemoveBuilder ==
  ASSUME NEW S, NEW q \in Seq(S), NEW i \in DOMAIN q
  PROVE  /\ Builder!RemoveAt(q, i) \in Seq(S) /\ Len(Builder!RemoveAt(q, i)) = Len(q) - 1
         /\ \A j \in DOMAIN Builder!RemoveAt(q, i) :
              /\ j \in DOMAIN q /\ j + 1 \in DOMAIN q
              /\ Builder!RemoveAt(q, i)[j] = IF j < i THEN q[j] ELSE q[j + 1]
<1> DEFINE a == SubSeq(q, 1, i - 1)
           b == SubSeq(q, i + 1, Len(q))
<1>1. i \in 1 .. Len(q) /\ Len(q) \in Nat
  OBVIOUS
<1>2. a \in Seq(S) /\ Len(a) = i - 1 /\ \A j \in 1 .. i - 1 : a[j] = q[j]
  BY <1>1
<1>3. b \in Seq(S) /\ Len(b) = Len(q) - i /\ \A j \in 1 .. Len(q) - i : b[j] = q[i + j]
  BY <1>1
<1> HIDE DEF a, b
<1>4. Builder!RemoveAt(q, i) = a \o b
  BY DEF Builder!RemoveAt, a, b
<1>5. /\ a \o b \in Seq(S) /\ Len(a \o b) = Len(q) - 1
      /\ \A j \in 1 .. Len(q) - 1 : (a \o b)[j] = IF j < i THEN q[j] ELSE q[j + 1]
  <2>1. a \o b \in Seq(S) /\ Len(a \o b) = Len(q) - 1
    BY <1>1, <1>2, <1>3
  <2>2. ASSUME NEW j \in 1 .. Len(q) - 1, j < i PROVE (a \o b)[j] = q[j]
    BY <1>1, <1>2, <1>3, <2>2
  <2>3. ASSUME NEW j \in 1 .. Len(q) - 1, ~(j < i) PROVE (a \o b)[j] = q[j + 1]
    <3>1. j - (i - 1) \in 1 .. Len(q) - i /\ i + (j - (i - 1)) = j + 1
      BY <1>1, <2>3
    <3>2. (a \o b)[j] = b[j - Len(a)]
      <4>1. j \in 1 .. Len(a) + Len(b) /\ ~(j <= Len(a)) /\ Len(a) \in Nat /\ Len(b) \in Nat
        BY <1>1, <1>2, <1>3, <2>3
      <4>2. (a \o b)[j] = IF j <= Len(a) THEN a[j] ELSE b[j - Len(a)]
        BY <1>2, <1>3, <4>1, ConcatProperties
      <4> QED
        BY <4>1, <4>2
    <3> QED
      BY <1>2, <1>3, <3>1, <3>2
  <2> QED
    BY <2>1, <2>2, <2>3
<1>6. DOMAIN (a \o b) = 1 .. Len(q) - 1
  BY <1>1, <1>5
<1>7. ASSUME NEW j \in DOMAIN (a \o b)
      PROVE  j \in DOMAIN q /\ j + 1 \in DOMAIN q /\ (a \o b)[j] = IF j < i THEN q[j] ELSE q[j + 1]
  <2>1. j \in 1 .. Len(q) - 1
    BY <1>6, <1>7
  <2>2. DOMAIN q = 1 .. Len(q)
    OBVIOUS
  <2>3. j \in DOMAIN q /\ j + 1 \in DOMAIN q
    BY <1>1, <2>1, <2>2
  <2>4. (a \o b)[j] = IF j < i THEN q[j] ELSE q[j + 1]
    BY <1>5, <2>1
  <2> QED
    BY <2>3, <2>4
<1> QED
  BY <1>4, <1>5, <1>7

\* The form, section by section.
LEMMA SectionBuilder ==
  ASSUME Builder!IInv
  PROVE  /\ r6 \in Nat /\ r1 \in Seq(Builder!SectionRow) /\ r1 # <<>>
         /\ \A s \in DOMAIN r1 : /\ r1[s] \in Builder!SectionRow /\ r1[s].id \in 1 .. r6
                                 /\ r1[s].fields \in Seq(Builder!FieldRow)
                                 /\ \A f \in DOMAIN r1[s].fields :
                                      /\ r1[s].fields[f] \in Builder!FieldRow
                                      /\ Builder!Usable(r1[s].fields[f])
         /\ Builder!IdsAreApart
<1>1. r6 \in Nat /\ r1 \in Seq(Builder!SectionRow) /\ r1 # <<>>
  BY DEF Builder!IInv, Builder!TypeOK
<1>2. ASSUME NEW s \in DOMAIN r1
      PROVE  /\ r1[s] \in Builder!SectionRow /\ r1[s].id \in 1 .. r6
             /\ r1[s].fields \in Seq(Builder!FieldRow)
             /\ \A f \in DOMAIN r1[s].fields : r1[s].fields[f] \in Builder!FieldRow
  <2>1. r1[s] \in Builder!SectionRow
    BY <1>1
  <2>2. r1[s].id \in 1 .. r6 /\ r1[s].fields \in Seq(Builder!FieldRow)
    BY <2>1 DEF Builder!SectionRow
  <2> QED
    BY <2>1, <2>2
<1> QED
  BY <1>1, <1>2 DEF Builder!IInv

\* A place of the form is a section and a field of it.
LEMMA PlaceBuilder ==
  ASSUME Builder!IInv, NEW p \in Builder!Places
  PROVE  p[1] \in DOMAIN r1 /\ p[2] \in DOMAIN r1[p[1]].fields /\ p = <<p[1], p[2]>>
<1>1. /\ r1 \in Seq(Builder!SectionRow)
      /\ \A s \in DOMAIN r1 : r1[s].fields \in Seq(Builder!FieldRow)
  BY SectionBuilder
<1>2. /\ p[1] \in 1 .. MaxIds /\ p[2] \in 1 .. MaxIds /\ p = <<p[1], p[2]>>
      /\ p[1] <= Len(r1) /\ p[2] <= Len(r1[p[1]].fields)
  BY DEF Builder!Places
<1>3. p[1] \in DOMAIN r1
  BY <1>1, <1>2
<1> QED
  BY <1>1, <1>2, <1>3

\* The fields and sections of a form that has handed out n ids.
FieldOf(n) == [id : 1 .. n, kind : Builder!Kind, required : BOOLEAN, options : Seq(Nat)]
SectionOf(n) == [id : 1 .. n, fields : Seq(FieldOf(n))]

\* A form is in order when each section, each field and each pair of ids is.
LEMMA WholeBuilder ==
  ASSUME r6' \in Nat, r1' \in Seq(SectionOf(r6')), r1' # <<>>,
         \A s \in DOMAIN r1' : \A f \in DOMAIN r1'[s].fields : Builder!Usable(r1'[s].fields[f]),
         Builder!IdsAreApart'
  PROVE  Builder!IInv'
<1>1. Builder!SectionRow' = SectionOf(r6')
  BY DEF Builder!SectionRow, Builder!FieldRow, SectionOf, FieldOf
<1>2. Builder!TypeOK'
  BY <1>1 DEF Builder!TypeOK
<1>3. \A s \in DOMAIN r1' : \A f \in DOMAIN r1'[s].fields : Builder!Usable(r1[s].fields[f])'
  BY DEF Builder!Usable
<1> QED
  BY <1>2, <1>3 DEF Builder!IInv

\* What a form has stays in order when ids are handed out.
LEMMA GrownBuilder ==
  ASSUME Builder!IInv
  PROVE  /\ Builder!FieldRow = FieldOf(r6) /\ Builder!SectionRow = SectionOf(r6)
         /\ r6 + 1 \in Nat
         /\ \A s \in DOMAIN r1 : /\ r1[s].id \in 1 .. r6 + 1
                                 /\ r1[s].fields \in Seq(FieldOf(r6 + 1))
                                 /\ r1[s] \in SectionOf(r6 + 1)
<1>1. Builder!FieldRow = FieldOf(r6) /\ Builder!SectionRow = SectionOf(r6)
  BY DEF Builder!SectionRow, Builder!FieldRow, SectionOf, FieldOf
<1>2. r6 \in Nat /\ r6 + 1 \in Nat /\ \A i \in 1 .. r6 : i \in 1 .. r6 + 1
  BY SectionBuilder
<1>3. \A x \in FieldOf(r6) : x \in FieldOf(r6 + 1)
  BY <1>2 DEF FieldOf
<1>4. ASSUME NEW s \in DOMAIN r1
      PROVE  r1[s].id \in 1 .. r6 + 1 /\ r1[s].fields \in Seq(FieldOf(r6 + 1))
             /\ r1[s] \in SectionOf(r6 + 1)
  <2>1. r1[s] \in SectionOf(r6) /\ r1[s].id \in 1 .. r6 /\ r1[s].fields \in Seq(FieldOf(r6))
    BY <1>1, SectionBuilder
  <2>2. \A f \in DOMAIN r1[s].fields : r1[s].fields[f] \in FieldOf(r6 + 1)
    BY <1>3, <2>1
  <2>3. r1[s].fields \in Seq(FieldOf(r6 + 1))
    BY <2>1, <2>2
  <2> QED
    BY <1>2, <2>1, <2>3 DEF SectionOf
<1> QED
  BY <1>1, <1>2, <1>4

\* The form begins with one section without fields.
LEMMA InitBuilder == ASSUME Builder!Init PROVE Builder!IInv
<1>1. r6 = 1 /\ r1 = <<[id |-> 1, fields |-> <<>>]>>
  BY DEF Builder!Init, Builder!DefaultSection
<1>2. [id |-> 1, fields |-> <<>>] \in Builder!SectionRow
  BY <1>1 DEF Builder!SectionRow
<1>3. DOMAIN r1 = {1} /\ r1[1].fields = <<>> /\ r1[1] = [id |-> 1, fields |-> <<>>]
  BY <1>1
<1>4. r1 \in Seq(Builder!SectionRow) /\ r1 # <<>>
  BY <1>1, <1>2
<1> QED
  BY <1>1, <1>3, <1>4 DEF Builder!IInv, Builder!TypeOK, Builder!IdsAreApart

\* One field is changed in place.
LEMMA PatchBuilder ==
  ASSUME Builder!IInv, NEW p \in Builder!Places, NEW field \in Builder!FieldRow,
         field.id = Builder!FieldAt(p).id, Builder!Usable(field),
         r1' = Builder!Patched(p, field), r6' = r6
  PROVE  Builder!IInv'
<1>1. p[1] \in DOMAIN r1 /\ p[2] \in DOMAIN r1[p[1]].fields
  BY PlaceBuilder
<1> DEFINE i == p[1]
           k == p[2]
<1>2. /\ r6 \in Nat /\ r1 \in Seq(SectionOf(r6)) /\ r1 # <<>> /\ Builder!IdsAreApart
      /\ Builder!FieldRow = FieldOf(r6)
      /\ \A s \in DOMAIN r1 : /\ r1[s] \in SectionOf(r6) /\ r1[s].id \in 1 .. r6
                              /\ r1[s].fields \in Seq(FieldOf(r6))
                              /\ \A f \in DOMAIN r1[s].fields : Builder!Usable(r1[s].fields[f])
  BY SectionBuilder, GrownBuilder
<1>3. r1' = [r1 EXCEPT ![i].fields[k] = field] /\ field.id = r1[i].fields[k].id
  BY DEF Builder!Patched, Builder!FieldAt
<1> HIDE DEF i, k
<1>4. i \in DOMAIN r1 /\ k \in DOMAIN r1[i].fields
  BY <1>1 DEF i, k
<1> DEFINE new == [r1[i].fields EXCEPT ![k] = field]
<1>5. /\ new \in Seq(FieldOf(r6)) /\ DOMAIN new = DOMAIN r1[i].fields
      /\ new[k] = field /\ \A f \in DOMAIN r1[i].fields : f # k => new[f] = r1[i].fields[f]
  BY <1>2, <1>4
<1>6. r1' = [r1 EXCEPT ![i].fields = new]
  BY <1>3
<1> HIDE DEF new
<1>7. [r1[i] EXCEPT !.fields = new] \in SectionOf(r6)
  BY <1>2, <1>4, <1>5 DEF SectionOf
<1>8. /\ r1' \in Seq(SectionOf(r6)) /\ DOMAIN r1' = DOMAIN r1 /\ r1' # <<>>
      /\ r1'[i].fields = new /\ r1'[i].id = r1[i].id
      /\ \A s \in DOMAIN r1 : s # i => r1'[s] = r1[s]
  BY <1>2, <1>4, <1>6, <1>7 DEF SectionOf
<1>9. \A s \in DOMAIN r1' : /\ r1'[s].id = r1[s].id
                            /\ DOMAIN r1'[s].fields = DOMAIN r1[s].fields
                            /\ \A f \in DOMAIN r1[s].fields :
                                 /\ r1'[s].fields[f].id = r1[s].fields[f].id
                                 /\ Builder!Usable(r1'[s].fields[f])
  <2> SUFFICES ASSUME NEW s \in DOMAIN r1
               PROVE  /\ r1'[s].id = r1[s].id
                      /\ DOMAIN r1'[s].fields = DOMAIN r1[s].fields
                      /\ \A f \in DOMAIN r1[s].fields :
                           /\ r1'[s].fields[f].id = r1[s].fields[f].id
                           /\ Builder!Usable(r1'[s].fields[f])
    BY <1>8
  <2>1. CASE s = i
    <3>1. /\ r1'[s].id = r1[s].id /\ r1'[s].fields = new /\ DOMAIN new = DOMAIN r1[s].fields
      BY <1>5, <1>8, <2>1
    <3>2. ASSUME NEW f \in DOMAIN r1[s].fields
          PROVE  new[f].id = r1[s].fields[f].id /\ Builder!Usable(new[f])
      BY <1>2, <1>3, <1>5, <2>1, <3>2
    <3> QED
      BY <3>1, <3>2
  <2>2. CASE s # i
    BY <1>2, <1>8, <2>2
  <2> QED
    BY <2>1, <2>2
<1>10. Builder!IdsAreApart'
  BY <1>2, <1>8, <1>9 DEF Builder!IdsAreApart
<1> QED
  BY <1>2, <1>8, <1>9, <1>10, WholeBuilder

\* A field is edited: its answer required, an option added, typed over, removed.
LEMMA EditBuilder ==
  ASSUME Builder!IInv, NEW p \in Builder!Places, r6' = r6,
         \/ Builder!ToggleRequired(p) \/ Builder!AddOption(p)
         \/ \E i \in DOMAIN Builder!FieldAt(p).options :
              Builder!UpdateOption(p, i) \/ Builder!RemoveOption(p, i)
  PROVE  Builder!IInv'
<1> DEFINE x == Builder!FieldAt(p)
<1>1. x \in Builder!FieldRow /\ Builder!Usable(x)
  BY PlaceBuilder, SectionBuilder DEF Builder!FieldAt
<1> HIDE DEF x
<1>2. x.options \in Seq(Nat) /\ x.required \in BOOLEAN
  BY <1>1 DEF Builder!FieldRow
<1>3. CASE Builder!ToggleRequired(p)
  <2> DEFINE y == [x EXCEPT !.required = ~@]
  <2>1. r1' = Builder!Patched(p, y) /\ x.kind # "heading"
    BY <1>3 DEF Builder!ToggleRequired, x
  <2>2. y \in Builder!FieldRow /\ y.id = x.id /\ y.kind = x.kind /\ y.options = x.options
    BY <1>1, <1>2 DEF Builder!FieldRow
  <2> HIDE DEF y
  <2>3. Builder!Usable(y)
    BY <1>1, <2>1, <2>2 DEF Builder!Usable
  <2> QED
    BY <2>1, <2>2, <2>3, PatchBuilder DEF x
<1>4. ASSUME NEW options \in Seq(Nat), options # <<>>, x.kind = "choice",
             r1' = Builder!Patched(p, [x EXCEPT !.options = options])
      PROVE  Builder!IInv'
  <2> DEFINE y == [x EXCEPT !.options = options]
  <2>1. /\ y \in Builder!FieldRow /\ y.id = x.id /\ y.kind = x.kind /\ y.options = options
        /\ y.required = x.required
    BY <1>1 DEF Builder!FieldRow
  <2>2. r1' = Builder!Patched(p, y)
    BY <1>4
  <2> HIDE DEF y
  <2>3. Builder!Usable(y)
    BY <1>1, <1>4, <2>1 DEF Builder!Usable
  <2> QED
    BY <2>1, <2>2, <2>3, PatchBuilder DEF x
<1>5. CASE Builder!AddOption(p)
  <2> DEFINE o == Append(x.options, Len(x.options) + 1)
  <2>1. o \in Seq(Nat) /\ o # <<>>
    <3>1. Len(x.options) + 1 \in Nat
      BY <1>2
    <3> QED
      BY <1>2, <3>1
  <2>2. x.kind = "choice" /\ r1' = Builder!Patched(p, [x EXCEPT !.options = o])
    BY <1>5 DEF Builder!AddOption, Builder!EditsOptions, x
  <2> HIDE DEF o
  <2> QED
    BY <1>4, <2>1, <2>2
<1>6. ASSUME NEW i \in DOMAIN x.options, Builder!UpdateOption(p, i) PROVE Builder!IInv'
  <2> DEFINE o == [x.options EXCEPT ![i] = 0]
  <2>1. o \in Seq(Nat) /\ o # <<>>
    BY <1>2, <1>6
  <2>2. x.kind = "choice" /\ r1' = Builder!Patched(p, [x EXCEPT !.options[i] = 0])
    BY <1>6 DEF Builder!UpdateOption, Builder!EditsOptions, x
  <2>3. [x EXCEPT !.options[i] = 0] = [x EXCEPT !.options = o]
    OBVIOUS
  <2> HIDE DEF o
  <2> QED
    BY <1>4, <2>1, <2>2, <2>3
<1>7. ASSUME NEW i \in DOMAIN x.options, Builder!RemoveOption(p, i) PROVE Builder!IInv'
  <2> DEFINE o == Builder!RemoveAt(x.options, i)
  <2>1. /\ x.kind = "choice" /\ Len(x.options) > 1
        /\ r1' = Builder!Patched(p, [x EXCEPT !.options = o])
    BY <1>7 DEF Builder!RemoveOption, Builder!EditsOptions, x
  <2>2. o \in Seq(Nat) /\ Len(o) = Len(x.options) - 1
    BY <1>2, <1>7, RemoveBuilder
  <2> HIDE DEF o
  <2>3. o # <<>>
    BY <1>2, <2>1, <2>2
  <2> QED
    BY <1>4, <2>1, <2>2, <2>3
<1> QED
  BY <1>3, <1>5, <1>6, <1>7 DEF x

\* A section is added, or one of several removed.
LEMMA MakeBuilder ==
  ASSUME Builder!IInv,
         Builder!AddSection \/ \E s \in DOMAIN r1 : Builder!RemoveSection(s)
  PROVE  Builder!IInv'
<1>1. /\ r6 \in Nat /\ r1 \in Seq(SectionOf(r6)) /\ r1 # <<>> /\ Builder!IdsAreApart
      /\ \A s \in DOMAIN r1 : /\ r1[s] \in SectionOf(r6) /\ r1[s].id \in 1 .. r6
                              /\ r1[s].fields \in Seq(FieldOf(r6))
                              /\ \A f \in DOMAIN r1[s].fields : Builder!Usable(r1[s].fields[f])
      /\ r6 + 1 \in Nat /\ \A s \in DOMAIN r1 : r1[s] \in SectionOf(r6 + 1)
  BY SectionBuilder, GrownBuilder
<1>2. CASE Builder!AddSection
  <2> DEFINE x == [id |-> r6 + 1, fields |-> <<>>]
             n == Len(r1) + 1
  <2>1. r1' = Append(r1, x) /\ r6' = r6 + 1
    BY <1>2 DEF Builder!AddSection, Builder!DefaultSection
  <2>2. x \in SectionOf(r6 + 1) /\ x.id = r6 + 1 /\ x.fields = <<>> /\ DOMAIN x.fields = {}
    BY <1>1 DEF SectionOf
  <2> HIDE DEF x
  <2>3. /\ DOMAIN r1' = DOMAIN r1 \cup {n} /\ r1'[n] = x /\ n \notin DOMAIN r1
        /\ \A s \in DOMAIN r1 : r1'[s] = r1[s]
        /\ r1' # <<>>
    BY <1>1, <2>1
  <2>4. r1' \in Seq(SectionOf(r6 + 1))
    <3>1. r1 \in Seq(SectionOf(r6 + 1))
      BY <1>1
    <3> QED
      BY <2>1, <2>2, <3>1
  <2>5. \A s \in DOMAIN r1 : r1[s].id # x.id
    BY <1>1, <2>2
  <2>6. Builder!IdsAreApart'
    BY <1>1, <2>2, <2>3, <2>5, SMTT(30) DEF Builder!IdsAreApart
  <2>7. \A s \in DOMAIN r1' : \A f \in DOMAIN r1'[s].fields : Builder!Usable(r1'[s].fields[f])
    BY <1>1, <2>2, <2>3
  <2> QED
    BY <1>1, <2>1, <2>3, <2>4, <2>6, <2>7, WholeBuilder
<1>3. ASSUME NEW s \in DOMAIN r1, Builder!RemoveSection(s) PROVE Builder!IInv'
  <2>1. r1' = Builder!RemoveAt(r1, s) /\ Len(r1) > 1 /\ r6' = r6
    BY <1>3 DEF Builder!RemoveSection, Builder!SectionBin
  <2>2. /\ r1' \in Seq(SectionOf(r6)) /\ Len(r1') = Len(r1) - 1
        /\ \A j \in DOMAIN r1' : /\ j \in DOMAIN r1 /\ j + 1 \in DOMAIN r1
                                 /\ r1'[j] = IF j < s THEN r1[j] ELSE r1[j + 1]
    BY <1>1, <1>3, <2>1, RemoveBuilder, ZenonT(60)
  <2>3. r1' # <<>>
    BY <1>1, <2>1, <2>2
  <2>4. \A j \in DOMAIN r1' : \A f \in DOMAIN r1'[j].fields : Builder!Usable(r1'[j].fields[f])
    BY <1>1, <2>2
  <2>5. ASSUME NEW j \in DOMAIN r1', NEW m \in DOMAIN r1',
               NEW a \in DOMAIN r1, NEW b \in DOMAIN r1,
               a = IF j < s THEN j ELSE j + 1, b = IF m < s THEN m ELSE m + 1
        PROVE  /\ r1'[j] = r1[a] /\ r1'[m] = r1[b] /\ (a = b => j = m)
    <3>1. s \in Int /\ j \in Int /\ m \in Int
      BY <1>1, <2>2
    <3> QED
      BY <2>2, <2>5, <3>1
  <2>6. Builder!IdsAreApart'
    <3> SUFFICES ASSUME NEW j \in DOMAIN r1', NEW m \in DOMAIN r1'
                 PROVE  /\ r1'[j].id = r1'[m].id => j = m
                        /\ \A f \in DOMAIN r1'[j].fields, g \in DOMAIN r1'[m].fields :
                             r1'[j].fields[f].id = r1'[m].fields[g].id => j = m /\ f = g
      BY DEF Builder!IdsAreApart
    <3>1. PICK a \in DOMAIN r1 : a = IF j < s THEN j ELSE j + 1
      BY <2>2
    <3>2. PICK b \in DOMAIN r1 : b = IF m < s THEN m ELSE m + 1
      BY <2>2
    <3>3. r1'[j] = r1[a] /\ r1'[m] = r1[b] /\ (a = b => j = m)
      BY <2>5, <3>1, <3>2
    <3> QED
      BY <1>1, <3>3 DEF Builder!IdsAreApart
  <2> QED
    BY <1>1, <2>1, <2>2, <2>3, <2>4, <2>6, WholeBuilder
<1> QED
  BY <1>2, <1>3

\* A field is added to the section the sheet was opened for.
LEMMA GrowBuilder ==
  ASSUME Builder!IInv, NEW kind \in Builder!Kind, Builder!AddField(kind)
  PROVE  Builder!IInv'
<1>1. /\ r6 \in Nat /\ r1 \in Seq(SectionOf(r6)) /\ r1 # <<>> /\ Builder!IdsAreApart
      /\ \A s \in DOMAIN r1 : /\ r1[s] \in SectionOf(r6) /\ r1[s].id \in 1 .. r6
                              /\ r1[s].fields \in Seq(FieldOf(r6))
                              /\ \A f \in DOMAIN r1[s].fields : /\ r1[s].fields[f] \in FieldOf(r6)
                                                               /\ Builder!Usable(r1[s].fields[f])
      /\ r6 + 1 \in Nat
      /\ \A s \in DOMAIN r1 : /\ r1[s] \in SectionOf(r6 + 1)
                              /\ r1[s].fields \in Seq(FieldOf(r6 + 1))
  BY SectionBuilder, GrownBuilder
<1> DEFINE x == Builder!DefaultField(kind, r6 + 1)
           With(s) == [r1[s] EXCEPT !.fields = Append(@, x)]
<1>2. /\ r1' = [s \in DOMAIN r1 |-> IF r1[s].id = r3 THEN With(s) ELSE r1[s]]
      /\ r6' = r6 + 1
  BY DEF Builder!AddField
<1>3. x \in FieldOf(r6 + 1) /\ x.id = r6 + 1 /\ Builder!Usable(x)
  <2> DEFINE o == IF kind = "choice" THEN <<1, 2>> ELSE <<>>
  <2>1. x = [id |-> r6 + 1, kind |-> kind, required |-> FALSE, options |-> o]
    BY DEF Builder!DefaultField
  <2>2. o \in Seq(Nat) /\ (kind = "choice" <=> o # <<>>)
    OBVIOUS
  <2>3. r6 + 1 \in 1 .. r6 + 1
    BY <1>1
  <2> HIDE DEF x, o
  <2>4. x \in FieldOf(r6 + 1) /\ x.id = r6 + 1
    BY <2>1, <2>2, <2>3 DEF FieldOf
  <2>5. x.kind = kind /\ x.options = o /\ ~x.required
    BY <2>1
  <2> QED
    BY <2>2, <2>4, <2>5 DEF Builder!Usable
<1> HIDE DEF x
<1>4. ASSUME NEW s \in DOMAIN r1
      PROVE  /\ With(s) \in SectionOf(r6 + 1) /\ With(s).id = r1[s].id
             /\ With(s).fields = Append(r1[s].fields, x)
  <2>1. Append(r1[s].fields, x) \in Seq(FieldOf(r6 + 1))
    BY <1>1, <1>3
  <2> QED
    BY <1>1, <2>1 DEF SectionOf
<1> HIDE DEF With
<1>5. r1' \in Seq(SectionOf(r6 + 1)) /\ DOMAIN r1' = DOMAIN r1 /\ r1' # <<>>
  <2>1. \A s \in DOMAIN r1 : (IF r1[s].id = r3 THEN With(s) ELSE r1[s]) \in SectionOf(r6 + 1)
    BY <1>1, <1>4
  <2>2. DOMAIN r1 = 1 .. Len(r1) /\ Len(r1) \in Nat /\ Len(r1) # 0
    BY <1>1
  <2>3. r1' \in [1 .. Len(r1) -> SectionOf(r6 + 1)]
    BY <1>2, <2>1, <2>2
  <2>4. r1' \in Seq(SectionOf(r6 + 1)) /\ DOMAIN r1' = DOMAIN r1
    BY <2>2, <2>3
  <2>5. r1' # <<>>
    BY <2>2, <2>4
  <2> QED
    BY <2>4, <2>5
<1>6. ASSUME NEW s \in DOMAIN r1
      PROVE  /\ r1'[s].id = r1[s].id
             /\ \A f \in DOMAIN r1'[s].fields :
                  \/ f \in DOMAIN r1[s].fields /\ r1'[s].fields[f] = r1[s].fields[f]
                  \/ f = Len(r1[s].fields) + 1 /\ r1[s].id = r3 /\ r1'[s].fields[f] = x
  <2>1. CASE r1[s].id = r3
    <3>1. r1'[s] = With(s)
      BY <1>2, <2>1
    <3>2. r1'[s].id = r1[s].id /\ r1'[s].fields = Append(r1[s].fields, x)
      BY <1>4, <3>1
    <3>3. \A f \in DOMAIN Append(r1[s].fields, x) :
            \/ f \in DOMAIN r1[s].fields /\ Append(r1[s].fields, x)[f] = r1[s].fields[f]
            \/ f = Len(r1[s].fields) + 1 /\ Append(r1[s].fields, x)[f] = x
      <4> DEFINE q == r1[s].fields
      <4>1. q \in Seq(FieldOf(r6 + 1)) /\ x \in FieldOf(r6 + 1)
        BY <1>1, <1>3
      <4> HIDE DEF q
      <4>2. DOMAIN Append(q, x) = 1 .. Len(q) + 1 /\ DOMAIN q = 1 .. Len(q) /\ Len(q) \in Nat
        BY <4>1
      <4>3. Append(q, x)[Len(q) + 1] = x /\ \A f \in 1 .. Len(q) : Append(q, x)[f] = q[f]
        BY <4>1, <4>2
      <4> QED
        BY <4>2, <4>3 DEF q
    <3> QED
      BY <2>1, <3>2, <3>3
  <2>2. CASE r1[s].id # r3
    BY <1>2, <2>2
  <2> QED
    BY <2>1, <2>2
<1>7. \A s \in DOMAIN r1 : \A f \in DOMAIN r1[s].fields : r1[s].fields[f].id # x.id
  <2>1. \A y \in FieldOf(r6) : y.id # r6 + 1
    BY <1>1 DEF FieldOf
  <2> QED
    BY <1>1, <1>3, <2>1
<1>8. \A s \in DOMAIN r1' : \A f \in DOMAIN r1'[s].fields : Builder!Usable(r1'[s].fields[f])
  BY <1>1, <1>3, <1>5, <1>6
<1>9. Builder!IdsAreApart'
  <2> SUFFICES ASSUME NEW s \in DOMAIN r1, NEW t \in DOMAIN r1
               PROVE  /\ r1'[s].id = r1'[t].id => s = t
                      /\ \A f \in DOMAIN r1'[s].fields, g \in DOMAIN r1'[t].fields :
                           r1'[s].fields[f].id = r1'[t].fields[g].id => s = t /\ f = g
    BY <1>5 DEF Builder!IdsAreApart
  <2>1. r1[s].id = r1[t].id => s = t
    BY <1>1 DEF Builder!IdsAreApart
  <2>2. ASSUME NEW f \in DOMAIN r1'[s].fields, NEW g \in DOMAIN r1'[t].fields,
               r1'[s].fields[f].id = r1'[t].fields[g].id
        PROVE  s = t /\ f = g
    <3>1. \/ f \in DOMAIN r1[s].fields /\ r1'[s].fields[f] = r1[s].fields[f]
          \/ f = Len(r1[s].fields) + 1 /\ r1[s].id = r3 /\ r1'[s].fields[f] = x
      BY <1>6
    <3>2. \/ g \in DOMAIN r1[t].fields /\ r1'[t].fields[g] = r1[t].fields[g]
          \/ g = Len(r1[t].fields) + 1 /\ r1[t].id = r3 /\ r1'[t].fields[g] = x
      BY <1>6
    <3>3. CASE f \in DOMAIN r1[s].fields /\ r1'[s].fields[f] = r1[s].fields[f]
      <4>1. g \in DOMAIN r1[t].fields /\ r1'[t].fields[g] = r1[t].fields[g]
        BY <1>7, <2>2, <3>2, <3>3
      <4> QED
        BY <1>1, <2>2, <3>3, <4>1 DEF Builder!IdsAreApart
    <3>4. CASE f = Len(r1[s].fields) + 1 /\ r1[s].id = r3 /\ r1'[s].fields[f] = x
      <4>1. g = Len(r1[t].fields) + 1 /\ r1[t].id = r3
        BY <1>7, <2>2, <3>2, <3>4
      <4> QED
        BY <2>1, <3>4, <4>1
    <3> QED
      BY <3>1, <3>3, <3>4
  <2> QED
    BY <1>6, <2>1, <2>2
<1> QED
  BY <1>1, <1>2, <1>5, <1>8, <1>9, WholeBuilder

\* A field is removed.
LEMMA DropBuilder ==
  ASSUME Builder!IInv, NEW p \in Builder!Places, Builder!RemoveField(p)
  PROVE  Builder!IInv'
<1>1. /\ r6 \in Nat /\ r1 \in Seq(SectionOf(r6)) /\ r1 # <<>> /\ Builder!IdsAreApart
      /\ \A s \in DOMAIN r1 : /\ r1[s] \in SectionOf(r6)
                              /\ r1[s].fields \in Seq(FieldOf(r6))
                              /\ \A f \in DOMAIN r1[s].fields : Builder!Usable(r1[s].fields[f])
  BY SectionBuilder, GrownBuilder
<1> DEFINE i == p[1]
           k == p[2]
           new == Builder!RemoveAt(r1[i].fields, k)
<1>2. i \in DOMAIN r1 /\ k \in DOMAIN r1[i].fields
  BY PlaceBuilder
<1>3. r1' = [r1 EXCEPT ![i].fields = new] /\ r6' = r6
  BY DEF Builder!RemoveField
<1> HIDE DEF i, k
<1>4. /\ new \in Seq(FieldOf(r6))
      /\ \A j \in DOMAIN new : /\ j \in DOMAIN r1[i].fields /\ j + 1 \in DOMAIN r1[i].fields
                               /\ new[j] = IF j < k THEN r1[i].fields[j] ELSE r1[i].fields[j + 1]
  BY <1>1, <1>2, RemoveBuilder
<1> HIDE DEF new
<1>5. [r1[i] EXCEPT !.fields = new] \in SectionOf(r6)
  BY <1>1, <1>2, <1>4 DEF SectionOf
<1>6. /\ r1' \in Seq(SectionOf(r6)) /\ DOMAIN r1' = DOMAIN r1 /\ r1' # <<>>
      /\ r1'[i].fields = new /\ r1'[i].id = r1[i].id
      /\ \A s \in DOMAIN r1 : s # i => r1'[s] = r1[s]
  <2>1. /\ [r1[i] EXCEPT !.fields = new].fields = new
        /\ [r1[i] EXCEPT !.fields = new].id = r1[i].id
    BY <1>1, <1>2 DEF SectionOf
  <2>2. r1' = [r1 EXCEPT ![i] = [r1[i] EXCEPT !.fields = new]]
    BY <1>3
  <2>3. r1' \in Seq(SectionOf(r6)) /\ DOMAIN r1' = DOMAIN r1 /\ r1' # <<>>
    BY <1>1, <1>2, <1>5, <2>2
  <2>4. /\ r1'[i] = [r1[i] EXCEPT !.fields = new]
        /\ \A s \in DOMAIN r1 : s # i => r1'[s] = r1[s]
    BY <1>1, <1>2, <2>2
  <2> QED
    BY <2>1, <2>3, <2>4
<1> DEFINE At(s, f) == IF s = i /\ ~(f < k) THEN f + 1 ELSE f
<1>7. ASSUME NEW s \in DOMAIN r1, NEW f \in DOMAIN r1'[s].fields
      PROVE  /\ At(s, f) \in DOMAIN r1[s].fields
             /\ r1'[s].fields[f] = r1[s].fields[At(s, f)]
             /\ \A g \in DOMAIN r1'[s].fields : At(s, f) = At(s, g) => f = g
  <2>1. CASE s = i
    <3>1. r1'[s].fields = new /\ f \in DOMAIN new
      BY <1>6, <2>1
    <3>2. k \in Int /\ \A g \in DOMAIN new : g \in Int
      BY <1>1, <1>2, <1>4
    <3>3. \A g \in DOMAIN new : At(s, f) = At(s, g) => f = g
      BY <2>1, <3>1, <3>2
    <3>4. At(s, f) \in DOMAIN r1[s].fields /\ new[f] = r1[s].fields[At(s, f)]
      BY <1>4, <2>1, <3>1
    <3> QED
      BY <3>1, <3>3, <3>4
  <2>2. CASE s # i
    BY <1>6, <2>2
  <2> QED
    BY <2>1, <2>2
<1> HIDE DEF At
<1>8. \A s \in DOMAIN r1' : r1'[s].id = r1[s].id
  BY <1>6
<1>9. \A s \in DOMAIN r1' : \A f \in DOMAIN r1'[s].fields : Builder!Usable(r1'[s].fields[f])
  BY <1>1, <1>6, <1>7
<1>10. Builder!IdsAreApart'
  <2> SUFFICES ASSUME NEW s \in DOMAIN r1, NEW t \in DOMAIN r1
               PROVE  /\ r1'[s].id = r1'[t].id => s = t
                      /\ \A f \in DOMAIN r1'[s].fields, g \in DOMAIN r1'[t].fields :
                           r1'[s].fields[f].id = r1'[t].fields[g].id => s = t /\ f = g
    BY <1>6 DEF Builder!IdsAreApart
  <2>1. r1'[s].id = r1'[t].id => s = t
    BY <1>1, <1>6, <1>8 DEF Builder!IdsAreApart
  <2>2. ASSUME NEW f \in DOMAIN r1'[s].fields, NEW g \in DOMAIN r1'[t].fields,
               r1'[s].fields[f].id = r1'[t].fields[g].id
        PROVE  s = t /\ f = g
    <3>1. /\ At(s, f) \in DOMAIN r1[s].fields /\ r1'[s].fields[f] = r1[s].fields[At(s, f)]
          /\ At(t, g) \in DOMAIN r1[t].fields /\ r1'[t].fields[g] = r1[t].fields[At(t, g)]
      BY <1>7
    <3>2. s = t /\ At(s, f) = At(t, g)
      BY <1>1, <2>2, <3>1 DEF Builder!IdsAreApart
    <3> QED
      BY <1>7, <3>2
  <2> QED
    BY <2>1, <2>2
<1> QED
  BY <1>1, <1>3, <1>6, <1>9, <1>10, WholeBuilder

\* Every step of the designer keeps the invariant.
LEMMA NextBuilder == ASSUME Builder!IInv, Builder!Next PROVE Builder!IInv'
<1>1. ASSUME UNCHANGED <<r1, r6>> PROVE Builder!IInv'
  BY <1>1 DEF Builder!IInv, Builder!TypeOK, Builder!SectionRow, Builder!FieldRow, Builder!Usable,
              Builder!IdsAreApart
<1>2. ASSUME NEW p \in Builder!Places,
             \/ Builder!ToggleExpanded(p) \/ Builder!RemoveField(p) \/ Builder!ToggleRequired(p)
             \/ Builder!AddOption(p)
             \/ \E i \in DOMAIN Builder!FieldAt(p).options :
                  Builder!UpdateOption(p, i) \/ Builder!RemoveOption(p, i)
      PROVE  Builder!IInv'
  <2>1. CASE Builder!ToggleExpanded(p)
    BY <1>1, <2>1 DEF Builder!ToggleExpanded
  <2>2. CASE Builder!RemoveField(p)
    BY <2>2, DropBuilder
  <2>3. CASE Builder!ToggleRequired(p)
    <3>1. r6' = r6
      BY <2>3 DEF Builder!ToggleRequired
    <3> QED
      BY <2>3, <3>1, EditBuilder
  <2>4. CASE Builder!AddOption(p)
    <3>1. r6' = r6
      BY <2>4 DEF Builder!AddOption
    <3> QED
      BY <2>4, <3>1, EditBuilder
  <2>5. CASE \E i \in DOMAIN Builder!FieldAt(p).options :
               Builder!UpdateOption(p, i) \/ Builder!RemoveOption(p, i)
    <3>1. r6' = r6
      BY <2>5 DEF Builder!UpdateOption, Builder!RemoveOption
    <3> QED
      BY <2>5, <3>1, EditBuilder
  <2> QED
    BY <1>2, <2>1, <2>2, <2>3, <2>4, <2>5
<1>3. ASSUME NEW s \in DOMAIN r1, Builder!RemoveSection(s) \/ Builder!OpenPicker(s)
      PROVE  Builder!IInv'
  <2>1. CASE Builder!RemoveSection(s)
    BY <2>1, MakeBuilder
  <2>2. CASE Builder!OpenPicker(s)
    BY <1>1, <2>2 DEF Builder!OpenPicker
  <2> QED
    BY <1>3, <2>1, <2>2
<1>4. CASE Builder!AddSection
  BY <1>4, MakeBuilder
<1>5. CASE Builder!ClosePicker \/ Builder!TypeTitle \/ Builder!HandleSave
  BY <1>1, <1>5 DEF Builder!ClosePicker, Builder!TypeTitle, Builder!HandleSave
<1>6. ASSUME NEW kind \in Builder!Kind, Builder!AddField(kind) PROVE Builder!IInv'
  BY <1>6, GrowBuilder
<1> QED
  BY <1>2, <1>3, <1>4, <1>5, <1>6 DEF Builder!Next

\* The invariant says that the form can be filled in.
LEMMA FormCanBeFilled == ASSUME Builder!IInv PROVE Builder!FormIsUsable
<1>1. r1 \in Seq(Builder!SectionRow) /\ r1 # <<>>
  BY SectionBuilder
<1>2. Len(r1) >= 1
  BY <1>1
<1>3. ASSUME NEW p \in Builder!Places
      PROVE  /\ Builder!FieldAt(p).kind = "choice" <=> Builder!FieldAt(p).options # <<>>
             /\ Builder!FieldAt(p).kind = "heading" => ~Builder!FieldAt(p).required
             /\ \A q \in Builder!Places : Builder!FieldAt(q).id = Builder!FieldAt(p).id => q = p
  <2>1. Builder!Usable(Builder!FieldAt(p))
    BY PlaceBuilder, SectionBuilder DEF Builder!FieldAt
  <2>2. ASSUME NEW q \in Builder!Places, Builder!FieldAt(q).id = Builder!FieldAt(p).id PROVE q = p
    <3>1. /\ p[1] \in DOMAIN r1 /\ p[2] \in DOMAIN r1[p[1]].fields /\ p = <<p[1], p[2]>>
          /\ q[1] \in DOMAIN r1 /\ q[2] \in DOMAIN r1[q[1]].fields /\ q = <<q[1], q[2]>>
      BY PlaceBuilder
    <3>2. r1[q[1]].fields[q[2]].id = r1[p[1]].fields[p[2]].id
      BY <2>2 DEF Builder!FieldAt
    <3>3. q[1] = p[1] /\ q[2] = p[2]
      BY <3>1, <3>2 DEF Builder!IInv, Builder!IdsAreApart
    <3> QED
      BY <3>1, <3>3
  <2> QED
    BY <2>1, <2>2 DEF Builder!Usable
<1> QED
  BY <1>2, <1>3 DEF Builder!FormIsUsable

-----------------------------------------------------------------------------
(* The payroll settings (PayrollSettings): settings r1, audit r2, cards r3,*)
(* requests r4, notices r5, standing r6, replaced r7, saves r8.  Every     *)
(* update about to write has read who stands, and so tells them.           *)

\* Nothing has been replaced, and who approves has from the start.
LEMMA InitSettings == ASSUME Settings!Init PROVE Settings!IInv
<1>1. /\ r4 = [a \in Admin |-> [pc |-> "idle"]] /\ r7 = {} /\ r6 = r1.manager
  BY DEF Settings!Init, Settings!Idle
<1>2. \A a \in Admin : r4[a].pc = "idle"
  BY <1>1
<1> QED
  BY <1>1, <1>2 DEF Settings!IInv, Settings!ManagersAreTold

\* Whoever was replaced stays accounted for, while the notice of one administrator's
\* update at most is over, and its fate known.
LEMMA KeptSettings ==
  ASSUME Settings!IInv, NEW a \in Admin, NEW row, r4' = [r4 EXCEPT ![a] = row], r5 \subseteq r5',
         r4[a].pc = "notice" => \E n \in r5' : n.told = r4[a].told
  PROVE  \A r \in r7 : Settings!Accounted(r)'
<1> SUFFICES ASSUME NEW r \in r7 PROVE Settings!Accounted(r)'
  OBVIOUS
<1>1. Settings!Accounted(r)
  BY DEF Settings!IInv, Settings!ManagersAreTold
<1>2. CASE \E n \in r5 : n.told = r
  BY <1>2 DEF Settings!Accounted
<1>3. ASSUME NEW b \in Admin, r4[b].pc = "notice", r4[b].told = r PROVE Settings!Accounted(r)'
  <2>1. CASE b = a
    BY <1>3, <2>1 DEF Settings!Accounted
  <2>2. CASE b # a
    <3>1. r4'[b] = r4[b]
      BY <2>2 DEF Settings!IInv
    <3> QED
      BY <1>3, <3>1 DEF Settings!Accounted
  <2> QED
    BY <2>1, <2>2
<1> QED
  BY <1>1, <1>2, <1>3 DEF Settings!Accounted

\* Who stands after an update ends was read by all that are left to write.
LEMMA StandingSettings ==
  ASSUME Settings!IInv, NEW a \in Admin, NEW row, r4' = [r4 EXCEPT ![a] = row],
         row.pc # "write", r6' = Settings!Standing(r4', r1'.manager), r6' # Null
  PROVE  /\ r1'.manager = r6'
         /\ \A b \in Admin : r4'[b].pc = "write" => r4'[b].existing.manager = r6'
<1>1. r4'[a] = row /\ \A b \in Admin : b # a => r4'[b] = r4[b]
  BY DEF Settings!IInv
<1>2. r6' = r1'.manager /\ ((\A b \in Admin : r4'[b].pc # "write") \/ r6' = r6)
  BY DEF Settings!Standing
<1>3. ASSUME NEW b \in Admin, r4'[b].pc = "write" PROVE r4'[b].existing.manager = r6'
  <2>1. b # a /\ r6' = r6
    BY <1>1, <1>2, <1>3
  <2>2. r4'[b] = r4[b]
    BY <1>1, <2>1
  <2> QED
    BY <1>3, <2>1, <2>2 DEF Settings!IInv
<1> QED
  BY <1>2, <1>3

\* Every step of every administrator keeps the invariant.
LEMMA NextSettings == ASSUME Settings!IInv, Settings!Next PROVE Settings!IInv'
<1> PICK a \in Admin :
      \/ Settings!Type(a) \/ Settings!HandleSubmit(a) \/ Settings!ReadExisting(a) \/ Settings!Update(a)
      \/ Settings!SendManagerEmailChangedNotice(a) \/ Settings!Crash(a) \/ Settings!OnSuccess(a)
      \/ Settings!Refetch(a)
  BY DEF Settings!Next
<1>a. ASSUME NEW row, r4' = [r4 EXCEPT ![a] = row]
      PROVE  /\ r4' = [b \in Admin |-> r4'[b]] /\ r4'[a] = row
             /\ \A b \in Admin : b # a => r4'[b] = r4[b]
  BY <1>a DEF Settings!IInv
<1>0. ASSUME NEW row, r4' = [r4 EXCEPT ![a] = row], r4[a].pc # "notice",
             row.pc = "write" => row.existing.manager = r1.manager,
             r1' = r1, r5' = r5, r6' = r6, r7' = r7
      PROVE  Settings!IInv'
  <2>1. \A r \in r7' : Settings!Accounted(r)'
    BY <1>0, KeptSettings
  <2>2. ASSUME NEW b \in Admin, r6' # Null, r4'[b].pc = "write"
        PROVE  r4'[b].existing.manager = r6'
    <3>1. CASE b = a
      BY <1>a, <1>0, <2>2, <3>1 DEF Settings!IInv
    <3>2. CASE b # a
      BY <1>a, <1>0, <2>2, <3>2 DEF Settings!IInv
    <3> QED
      BY <3>1, <3>2
  <2> QED
    BY <1>a, <1>0, <2>1, <2>2 DEF Settings!IInv, Settings!ManagersAreTold
<1>1. CASE Settings!Type(a) \/ Settings!Refetch(a)
  BY <1>1 DEF Settings!Type, Settings!Refetch, Settings!IInv, Settings!ManagersAreTold,
              Settings!Accounted
<1>2. CASE Settings!HandleSubmit(a)
  <2>1. r4[a].pc # "notice"
    BY <1>2 DEF Settings!HandleSubmit, Settings!Idle
  <2> QED
    BY <1>0, <1>2, <2>1 DEF Settings!HandleSubmit
<1>3. CASE Settings!ReadExisting(a)
  <2>1. r4[a].pc # "notice"
    BY <1>3 DEF Settings!ReadExisting
  <2> QED
    BY <1>0, <1>3, <2>1 DEF Settings!ReadExisting
<1>4. CASE Settings!OnSuccess(a)
  <2>1. r4[a].pc # "notice" /\ Settings!Idle.pc = "idle"
    BY <1>4 DEF Settings!OnSuccess, Settings!Idle
  <2> QED
    BY <1>0, <1>4, <2>1 DEF Settings!OnSuccess
<1>5. CASE Settings!Update(a)
  <2> DEFINE q == r4[a]
             m == q.input.manager
             previous == q.existing.manager
             row == IF previous # Null /\ previous # m
                    THEN [pc |-> "notice", told |-> <<q.save, previous>>] ELSE [pc |-> "answer"]
  <2>1. /\ q.pc = "write" /\ r4' = [r4 EXCEPT ![a] = row] /\ r5' = r5 /\ r1'.manager = m
        /\ r6' = Settings!Standing(r4', m)
        /\ r7' = IF r6 \in {Null, m} THEN r7 ELSE r7 \cup {<<q.save, r6>>}
    BY <1>5 DEF Settings!Update, Settings!PreviousManager
  <2>2. row.pc # "write"
    OBVIOUS
  <2>3. r6 # Null => previous = r6
    BY <2>1 DEF Settings!IInv
  <2>4. r6 \notin {Null, m} => row = [pc |-> "notice", told |-> <<q.save, r6>>]
    BY <2>3
  <2> HIDE DEF row
  <2>5. /\ r4' = [b \in Admin |-> r4'[b]] /\ r4'[a] = row
    BY <1>a, <2>1
  <2>6. \A r \in r7 : Settings!Accounted(r)'
    BY <2>1, KeptSettings DEF q
  <2>7. ASSUME NEW r \in r7', r \notin r7 PROVE Settings!Accounted(r)'
    <3>1. r = <<q.save, r6>> /\ row = [pc |-> "notice", told |-> <<q.save, r6>>]
      BY <2>1, <2>4, <2>7
    <3>2. r4'[a].pc = "notice" /\ r4'[a].told = r
      BY <2>5, <3>1
    <3> QED
      BY <3>2 DEF Settings!Accounted
  <2>8. \A r \in r7' : Settings!Accounted(r)'
    BY <2>6, <2>7
  <2>9. r6' # Null => /\ r1'.manager = r6'
                      /\ \A b \in Admin : r4'[b].pc = "write" => r4'[b].existing.manager = r6'
    BY <2>1, <2>2, StandingSettings
  <2> QED
    BY <2>5, <2>8, <2>9 DEF Settings!IInv, Settings!ManagersAreTold
<1>6. CASE Settings!SendManagerEmailChangedNotice(a)
  <2>1. PICK fate \in {"sent", "refused"} : r5' = r5 \cup {[told |-> r4[a].told, fate |-> fate]}
    BY <1>6 DEF Settings!SendManagerEmailChangedNotice
  <2>2. /\ r4' = [r4 EXCEPT ![a] = [pc |-> "answer"]] /\ UNCHANGED <<r1, r6, r7>>
    BY <1>6 DEF Settings!SendManagerEmailChangedNotice
  <2>3. r5 \subseteq r5' /\ \E n \in r5' : n.told = r4[a].told
    <3> DEFINE n == [told |-> r4[a].told, fate |-> fate]
    <3>1. n.told = r4[a].told
      OBVIOUS
    <3> HIDE DEF n
    <3> QED
      BY <2>1, <3>1 DEF n
  <2>4. \A r \in r7' : Settings!Accounted(r)'
    BY <2>2, <2>3, KeptSettings
  <2>5. ASSUME NEW b \in Admin, r6' # Null, r4'[b].pc = "write"
        PROVE  r4'[b].existing.manager = r6'
    <3>1. b # a
      BY <1>a, <2>2, <2>5
    <3> QED
      BY <1>a, <2>2, <2>5, <3>1 DEF Settings!IInv
  <2> QED
    BY <1>a, <2>2, <2>4, <2>5 DEF Settings!IInv, Settings!ManagersAreTold
<1>7. CASE Settings!Crash(a)
  <2>1. /\ r4' = [r4 EXCEPT ![a] = [pc |-> "idle"]] /\ r1' = r1 /\ r7' = r7
        /\ r6' = Settings!Standing(r4', r1.manager)
        /\ r5' = IF r4[a].pc = "notice"
                 THEN r5 \cup {[told |-> r4[a].told, fate |-> "lost"]} ELSE r5
    BY <1>7 DEF Settings!Crash, Settings!Idle
  <2>2. r5 \subseteq r5' /\ (r4[a].pc = "notice" => \E n \in r5' : n.told = r4[a].told)
    <3> DEFINE n == [told |-> r4[a].told, fate |-> "lost"]
    <3>1. n.told = r4[a].told
      OBVIOUS
    <3> HIDE DEF n
    <3> QED
      BY <2>1, <3>1 DEF n
  <2>3. \A r \in r7' : Settings!Accounted(r)'
    BY <2>1, <2>2, KeptSettings
  <2>4. r6' # Null => /\ r1'.manager = r6'
                      /\ \A b \in Admin : r4'[b].pc = "write" => r4'[b].existing.manager = r6'
    <3>1. [pc |-> "idle"].pc # "write"
      OBVIOUS
    <3> QED
      BY <2>1, <3>1, StandingSettings
  <2> QED
    BY <1>a, <2>1, <2>3, <2>4 DEF Settings!IInv, Settings!ManagersAreTold
<1> QED
  BY <1>1, <1>2, <1>3, <1>4, <1>5, <1>6, <1>7

-----------------------------------------------------------------------------
(* A zone's page (ZoneView): slug r1, server r2, online r3, zones r4, modules*)
(* r5, devices r6, cached r7, left r8, changes r9.  A query that is on is  *)
(* under way or has an answer, and an answer holds while the server is as it*)
(* was.                                                                    *)

\* The network is on or off, and a query has what it was last told.
LEMMA ZoneFacts ==
  ASSUME Zone!IInv
  PROVE  /\ r1 \in Slug /\ r3 \in BOOLEAN /\ r8 \in BOOLEAN /\ r9 \in Nat
         /\ r2 \in [zone : BOOLEAN, device : BOOLEAN, module : BOOLEAN]
         /\ r4 \in Zone!Query /\ r5 \in Zone!Query /\ r6 \in Zone!Query
BY DEF Zone!IInv, Zone!TypeOK

\* What becomes of a query when it is asked, answered, failed or resumed.
LEMMA QueryZone ==
  ASSUME NEW q \in Zone!Query, r3 \in BOOLEAN, NEW v \in BOOLEAN
  PROVE  /\ Zone!Asked(q) \in Zone!Query /\ Zone!Failed(q) \in Zone!Query
         /\ Zone!FailedOnce(q) \in Zone!Query /\ Zone!Resumed(q) \in Zone!Query
         /\ Zone!Answered(v) \in Zone!Query
         /\ Zone!Answered(v).status = "success" /\ Zone!Answered(v).data = v
         /\ Zone!Asked(q).data = q.data /\ Zone!Asked(q).fetch # "idle"
         /\ Zone!Asked(q).status = IF q.data = Null THEN "pending" ELSE q.status
         /\ Zone!Failed(q).data = q.data /\ Zone!Failed(q).status = "error"
         /\ Zone!FailedOnce(q).data = q.data
         /\ Zone!FailedOnce(q).status \in {"error", q.status}
         /\ Zone!FailedOnce(q).status = q.status => Zone!FailedOnce(q).fetch = "paused" \/ q.status = "error"
         /\ Zone!Resumed(q).data = q.data /\ Zone!Resumed(q).status = q.status
         /\ q.fetch # "idle" => Zone!Resumed(q).fetch # "idle"
BY DEF Zone!Query, Zone!Asked, Zone!Failed, Zone!FailedOnce, Zone!Resumed, Zone!Answered

\* The page is opened, online or not, with or without the modules of the last visit.
LEMMA InitZone == ASSUME Zone!Init PROVE Zone!IInv
<1>1. \A on \in BOOLEAN : Zone!Started(on) \in Zone!Query /\ Zone!Started(on).status = "pending"
                          /\ Zone!Started(on).fetch # "idle" /\ Zone!Started(on).data = Null
  BY DEF Zone!Started, Zone!Query
<1>2. Zone!Disabled \in Zone!Query /\ Zone!Disabled.status = "pending" /\ Zone!Disabled.data = Null
  BY DEF Zone!Disabled, Zone!Query
<1>3. /\ r1 \in Slug /\ r3 \in BOOLEAN /\ r8 = FALSE /\ r9 = 0
      /\ r2 \in [zone : BOOLEAN, device : BOOLEAN, module : BOOLEAN]
      /\ r4 = Zone!Started(r3) /\ r5 = Zone!Started(r3)
      /\ r6 = IF Zone!SensorsAvailable(r5, r7) THEN Zone!Started(r3) ELSE Zone!Disabled
  BY DEF Zone!Init
<1>4. Zone!TypeOK
  BY <1>1, <1>2, <1>3 DEF Zone!TypeOK
<1>5. Zone!QueriesAreAsked
  BY <1>1, <1>2, <1>3 DEF Zone!QueriesAreAsked
<1>6. Zone!AnswersAreTrue
  BY <1>1, <1>2, <1>3 DEF Zone!AnswersAreTrue
<1> QED
  BY <1>3, <1>4, <1>5, <1>6 DEF Zone!IInv, Zone!ValidLinksStay

\* The zones' query moves on.
LEMMA ListZone ==
  ASSUME Zone!IInv, ~r8, UNCHANGED <<r1, r2, r3, r5, r6, r7, r8, r9>>,
         \/ r4' = Zone!Answered(r2.zone)
         \/ r4' = Zone!FailedOnce(r4)
         \/ r4' = Zone!Asked(r4)
  PROVE  Zone!IInv'
<1>1. /\ r1 \in Slug /\ r3 \in BOOLEAN /\ r8 \in BOOLEAN /\ r9 \in Nat
      /\ r2 \in [zone : BOOLEAN, device : BOOLEAN, module : BOOLEAN]
      /\ r4 \in Zone!Query /\ r5 \in Zone!Query /\ r6 \in Zone!Query /\ r2.zone \in BOOLEAN
  BY ZoneFacts
<1>2. /\ r4' \in Zone!Query
      /\ r4'.status = "pending" => r4'.fetch # "idle"
      /\ r4'.status = "success" => r4'.data \in BOOLEAN
  <2>1. (r4.status = "success" => r4.data \in BOOLEAN) /\ (r4.status = "pending" => r4.fetch # "idle")
    BY DEF Zone!IInv, Zone!QueriesAreAsked
  <2>2. Zone!Asked(r4).fetch # "idle" /\ Zone!FailedOnce(r4).data = r4.data
    BY <1>1, QueryZone
  <2> QED
    BY <1>1, <2>1, <2>2, QueryZone
<1> QED
  BY <1>1, <1>2 DEF Zone!IInv, Zone!TypeOK, Zone!QueriesAreAsked, Zone!AnswersAreTrue, Zone!ValidLinksStay

\* The query of the modules or of the devices moves on.
LEMMA AskZone ==
  ASSUME Zone!IInv, ~r8, UNCHANGED <<r1, r2, r3, r4, r7, r8, r9>>,
         r5' \in Zone!Query, r6' \in Zone!Query,
         r6'.status = "pending" => r6'.data = Null,
         Zone!SensorsAvailable(r5', r7) /\ r6'.status = "pending" => r6'.fetch # "idle",
         r9 = 0 => /\ r5'.status = "success" => r5'.data = r2.module
                   /\ r6'.status = "success" => r6'.data = r2.device
                   /\ r6'.data # Null => r2.module
  PROVE  Zone!IInv'
BY DEF Zone!IInv, Zone!TypeOK, Zone!QueriesAreAsked, Zone!AnswersAreTrue, Zone!ValidLinksStay

\* Every step of the queries, of the network and of the server keeps the invariant.
LEMMA NextZone == ASSUME Zone!IInv, Zone!Next PROVE Zone!IInv'
<1>1. /\ r1 \in Slug /\ r3 \in BOOLEAN /\ r8 \in BOOLEAN /\ r9 \in Nat
      /\ r2 \in [zone : BOOLEAN, device : BOOLEAN, module : BOOLEAN]
      /\ r4 \in Zone!Query /\ r5 \in Zone!Query /\ r6 \in Zone!Query
      /\ r2.zone \in BOOLEAN /\ r2.device \in BOOLEAN /\ r2.module \in BOOLEAN
      /\ Null \notin BOOLEAN
  BY ZoneFacts, NullIsNoValue
<1>2. /\ r6.status = "pending" => r6.data = Null
      /\ Zone!SensorsAvailable(r5, r7) /\ r6.status = "pending" => r6.fetch # "idle"
      /\ r9 = 0 => /\ r5.status = "success" => r5.data = r2.module
                   /\ r6.status = "success" => r6.data = r2.device
                   /\ r6.data # Null => r2.module
  BY DEF Zone!IInv, Zone!QueriesAreAsked, Zone!AnswersAreTrue
<1>3. r5.status \in {"pending", "success", "error"} /\ r6.status \in {"pending", "success", "error"}
  BY <1>1 DEF Zone!Query
<1>a. CASE Zone!AnswerZones
  BY <1>1, <1>a, ListZone DEF Zone!AnswerZones, Zone!Open
<1>b. CASE Zone!AnswerModules
  <2>1. /\ ~r8 /\ r5' = Zone!Answered(r2.module)
        /\ r6' = IF r2.module /\ ~Zone!SensorsAvailable(r5, r7) /\ r6.data = Null
                 THEN Zone!Asked(r6) ELSE r6
        /\ UNCHANGED <<r1, r2, r3, r4, r7, r8, r9>>
    BY <1>b DEF Zone!AnswerModules, Zone!Open
  <2>2. r5' \in Zone!Query /\ r5'.data = r2.module /\ r5'.status = "success"
    BY <1>1, <2>1, QueryZone
  <2>3. /\ Zone!Asked(r6) \in Zone!Query /\ Zone!Asked(r6).data = r6.data /\ Zone!Asked(r6).fetch # "idle"
        /\ Zone!Asked(r6).status = IF r6.data = Null THEN "pending" ELSE r6.status
    BY <1>1, QueryZone
  <2>4. Zone!SensorsAvailable(r5', r7) <=> r2.module
    BY <1>1, <2>2 DEF Zone!SensorsAvailable, Zone!ModulesReady, Zone!HasModule
  <2>5. r6' \in Zone!Query
    BY <1>1, <2>1, <2>3
  <2>6. r6'.status = "pending" => r6'.data = Null
    BY <1>2, <2>1, <2>3
  <2>7. Zone!SensorsAvailable(r5', r7) /\ r6'.status = "pending" => r6'.fetch # "idle"
    BY <1>2, <2>1, <2>3, <2>4
  <2>8. r9 = 0 => /\ r5'.status = "success" => r5'.data = r2.module
                  /\ r6'.status = "success" => r6'.data = r2.device
                  /\ r6'.data # Null => r2.module
    BY <1>2, <2>1, <2>2, <2>3
  <2> QED
    BY <2>1, <2>2, <2>5, <2>6, <2>7, <2>8, AskZone
<1>c. CASE Zone!AnswerDevices
  <2>1. /\ ~r8 /\ r6' = IF r2.module THEN Zone!Answered(r2.device) ELSE Zone!Failed(r6)
        /\ UNCHANGED <<r1, r2, r3, r4, r5, r7, r8, r9>>
    BY <1>c DEF Zone!AnswerDevices, Zone!Open
  <2>2. /\ Zone!Answered(r2.device) \in Zone!Query /\ Zone!Answered(r2.device).status = "success"
        /\ Zone!Answered(r2.device).data = r2.device
        /\ Zone!Failed(r6) \in Zone!Query /\ Zone!Failed(r6).data = r6.data
        /\ Zone!Failed(r6).status = "error"
    BY <1>1, QueryZone
  <2>3. r6' \in Zone!Query /\ r6'.status # "pending"
    BY <2>1, <2>2
  <2>4. r9 = 0 => /\ r6'.status = "success" => r6'.data = r2.device
                  /\ r6'.data # Null => r2.module
    BY <1>2, <2>1, <2>2
  <2> QED
    BY <1>1, <1>2, <2>1, <2>3, <2>4, AskZone
<1>d. CASE Zone!FailQuery
  <2>1. ~r8 /\ UNCHANGED <<r1, r2, r3, r7, r8, r9>>
    BY <1>d DEF Zone!FailQuery, Zone!Open
  <2>2. CASE r4' = Zone!FailedOnce(r4) /\ UNCHANGED <<r5, r6>>
    BY <2>1, <2>2, ListZone
  <2>3. CASE r5.fetch = "fetching" /\ r5' = Zone!FailedOnce(r5) /\ UNCHANGED <<r4, r6>>
    <3>1. /\ r5' \in Zone!Query /\ r5'.data = r5.data /\ r5'.status \in {"error", r5.status}
      BY <1>1, <2>3, QueryZone
    <3>2. Zone!SensorsAvailable(r5', r7) <=> Zone!SensorsAvailable(r5, r7)
      BY <3>1 DEF Zone!SensorsAvailable, Zone!ModulesReady, Zone!HasModule
    <3>3. r9 = 0 => (r5'.status = "success" => r5'.data = r2.module)
      BY <1>2, <3>1
    <3> QED
      BY <1>1, <1>2, <2>1, <2>3, <3>1, <3>2, <3>3, AskZone
  <2>4. CASE r6' = Zone!Failed(r6) /\ UNCHANGED <<r4, r5>>
    <3>1. r6' \in Zone!Query /\ r6'.data = r6.data /\ r6'.status = "error"
      BY <1>1, <2>4, QueryZone
    <3> QED
      BY <1>1, <1>2, <2>1, <2>4, <3>1, AskZone
  <2> QED
    BY <1>d, <2>2, <2>3, <2>4 DEF Zone!FailQuery
<1>e. CASE Zone!Refetch
  <2>1. ~r8 /\ UNCHANGED <<r1, r2, r3, r7, r8, r9>>
    BY <1>e DEF Zone!Refetch, Zone!Open
  <2>2. CASE r4' = Zone!Asked(r4) /\ UNCHANGED <<r5, r6>>
    BY <2>1, <2>2, ListZone
  <2>3. CASE r5' = Zone!Asked(r5) /\ UNCHANGED <<r4, r6>>
    <3>1. /\ r5' \in Zone!Query /\ r5'.data = r5.data
          /\ r5'.status = IF r5.data = Null THEN "pending" ELSE r5.status
      BY <1>1, <2>3, QueryZone
    <3>2. Zone!SensorsAvailable(r5', r7) <=> Zone!SensorsAvailable(r5, r7)
      BY <3>1 DEF Zone!SensorsAvailable, Zone!ModulesReady, Zone!HasModule
    <3>3. r9 = 0 => (r5'.status = "success" => r5'.data = r2.module)
      BY <1>2, <3>1
    <3> QED
      BY <1>1, <1>2, <2>1, <2>3, <3>1, <3>2, <3>3, AskZone
  <2>4. CASE r6' = Zone!Asked(r6) /\ UNCHANGED <<r4, r5>>
    <3>1. /\ r6' \in Zone!Query /\ r6'.data = r6.data /\ r6'.fetch # "idle"
          /\ r6'.status = IF r6.data = Null THEN "pending" ELSE r6.status
      BY <1>1, <2>4, QueryZone
    <3>2. r6'.status = "pending" => r6'.data = Null
      BY <1>2, <3>1
    <3>3. r9 = 0 => /\ r6'.status = "success" => r6'.data = r2.device
                    /\ r6'.data # Null => r2.module
      BY <1>2, <3>1
    <3> QED
      BY <1>1, <1>2, <2>1, <2>4, <3>1, <3>2, <3>3, AskZone
  <2> QED
    BY <1>e, <2>2, <2>3, <2>4 DEF Zone!Refetch
<1>f. CASE Zone!SwitchNetwork
  <2>1. /\ ~r8 /\ r3' = ~r3 /\ UNCHANGED <<r1, r2, r7, r8, r9>>
        /\ r4' \in {r4, Zone!Resumed(r4)} /\ r5' \in {r5, Zone!Resumed(r5)}
        /\ r6' \in {r6, Zone!Resumed(r6)}
    BY <1>f DEF Zone!SwitchNetwork, Zone!Open
  <2>2. /\ r4' \in Zone!Query /\ r4'.data = r4.data /\ r4'.status = r4.status
        /\ r4.fetch # "idle" => r4'.fetch # "idle"
    BY <1>1, <2>1, QueryZone
  <2>3. r5' \in Zone!Query /\ r5'.data = r5.data /\ r5'.status = r5.status
    BY <1>1, <2>1, QueryZone
  <2>4. /\ r6' \in Zone!Query /\ r6'.data = r6.data /\ r6'.status = r6.status
        /\ r6.fetch # "idle" => r6'.fetch # "idle"
    BY <1>1, <2>1, QueryZone
  <2>5. Zone!SensorsAvailable(r5', r7) <=> Zone!SensorsAvailable(r5, r7)
    BY <2>3 DEF Zone!SensorsAvailable, Zone!ModulesReady, Zone!HasModule
  <2>6. Zone!TypeOK'
    BY <1>1, <2>1, <2>2, <2>3, <2>4 DEF Zone!TypeOK
  <2>7. Zone!QueriesAreAsked'
    BY <2>1, <2>2, <2>4, <2>5 DEF Zone!IInv, Zone!QueriesAreAsked
  <2>8. Zone!AnswersAreTrue'
    BY <2>1, <2>3, <2>4 DEF Zone!IInv, Zone!AnswersAreTrue
  <2> QED
    BY <2>1, <2>6, <2>7, <2>8 DEF Zone!IInv, Zone!ValidLinksStay
<1>g. CASE Zone!ChangeServer
  <2>1. /\ ~r8 /\ r9' = r9 + 1 /\ r2' \in [zone : BOOLEAN, device : BOOLEAN, module : BOOLEAN]
        /\ UNCHANGED <<r1, r3, r4, r5, r6, r7, r8>>
    BY <1>g DEF Zone!ChangeServer, Zone!Open
  <2>2. r9' \in Nat /\ r9' # 0
    BY <1>1, <2>1
  <2> QED
    BY <1>1, <2>1, <2>2 DEF Zone!IInv, Zone!TypeOK, Zone!QueriesAreAsked, Zone!AnswersAreTrue,
                            Zone!ValidLinksStay
<1>h. CASE Zone!Leave
  <2>1. Zone!PageState = "missing" /\ r8' = TRUE /\ UNCHANGED <<r1, r2, r3, r4, r5, r6, r7, r9>>
    BY <1>h DEF Zone!Leave
  <2>2. ~Zone!IsLoading(r4) /\ r4.status # "error" /\ ~Zone!HasZone
    BY <2>1 DEF Zone!PageState
  <2>3. /\ r4.status = "pending" => r4.fetch # "idle"
        /\ r4.status = "success" => r4.data \in BOOLEAN
    BY DEF Zone!IInv, Zone!QueriesAreAsked
  <2>4. r4.data = FALSE \/ Zone!NeverAsked(r4)
    BY <1>1, <2>2, <2>3 DEF Zone!IsLoading, Zone!HasZone, Zone!NeverAsked, Zone!Query
  <2> QED
    BY <1>1, <2>1, <2>4 DEF Zone!IInv, Zone!TypeOK, Zone!QueriesAreAsked, Zone!AnswersAreTrue,
                            Zone!ValidLinksStay
<1> QED
  BY <1>a, <1>b, <1>c, <1>d, <1>e, <1>f, <1>g, <1>h DEF Zone!Next

\* The invariant says what the page shows.
LEMMA ZoneIsTrue ==
  ASSUME Zone!IInv
  PROVE  Zone!ValidLinksStay /\ Zone!SettledShowsSensors
<1>1. Zone!ValidLinksStay
  BY DEF Zone!IInv
<1>2. ASSUME r9 = 0, Zone!PageState = "ready", r4.status = "success", r5.status = "success",
             r6.fetch = "idle", r6.status # "error"
      PROVE  Zone!ViewMode = "sensor" <=> r2.device /\ r2.module
  <2>1. Zone!ViewMode = "sensor" <=> r6.data = TRUE
    BY DEF Zone!ViewMode, Zone!HasDevice
  <2>2. /\ r2.module \in BOOLEAN /\ r2.device \in BOOLEAN
        /\ r6.data \in BOOLEAN \cup {Null} /\ r6.status \in {"pending", "success", "error"}
        /\ Null \notin BOOLEAN
    BY ZoneFacts, NullIsNoValue DEF Zone!Query
  <2>3. /\ r5.data = r2.module
        /\ r6.status = "success" => r6.data = r2.device
        /\ r6.data # Null => r2.module
        /\ r6.status = "pending" => r6.data = Null
        /\ Zone!SensorsAvailable(r5, r7) /\ r6.status = "pending" => r6.fetch # "idle"
    BY <1>2 DEF Zone!IInv, Zone!QueriesAreAsked, Zone!AnswersAreTrue
  <2>4. r2.module => Zone!SensorsAvailable(r5, r7)
    BY <2>2, <2>3 DEF Zone!SensorsAvailable, Zone!ModulesReady, Zone!HasModule
  <2>5. CASE r6.status = "success"
    BY <2>1, <2>2, <2>3, <2>5
  <2>6. CASE r6.status = "pending"
    BY <1>2, <2>1, <2>2, <2>3, <2>4, <2>6
  <2> QED
    BY <1>2, <2>2, <2>5, <2>6
<1>3. Zone!SettledShowsSensors
  <2>1. ASSUME {r4.status, r5.status} = {"success"} PROVE r4.status = "success" /\ r5.status = "success"
    BY <2>1
  <2> QED
    BY <1>2, <2>1 DEF Zone!SettledShowsSensors
<1> QED
  BY <1>1, <1>3

-----------------------------------------------------------------------------
(* Lists and sums: what the dashboard's properties need of the operators the*)
(* community modules define.                                               *)

\* A list of a finite set's elements without repetition, of the length of their number,
\* has them all.
LEMMA ListHasAll ==
  ASSUME NEW S, IsFiniteSet(S), NEW s \in [1 .. Cardinality(S) -> S],
         \A i, j \in 1 .. Cardinality(S) : i # j => s[i] # s[j]
  PROVE  /\ Cardinality(S) \in Nat /\ Len(s) = Cardinality(S) /\ s \in Seq(S)
         /\ \A x \in S : \E i \in 1 .. Cardinality(S) : s[i] = x
<1>1. Cardinality(S) \in Nat
  BY FS_CardinalityType
<1>2. Len(s) = Cardinality(S) /\ s \in Seq(S)
  BY <1>1
<1>3. s \in Injection(1 .. Cardinality(S), S)
  BY DEF Injection, IsInjective
<1>4. Cardinality(1 .. Cardinality(S)) = Cardinality(S)
  BY <1>1, FS_Interval
<1>5. s \in Surjection(1 .. Cardinality(S), S)
  BY <1>3, <1>4, FS_Injection
<1> QED
  BY <1>1, <1>2, <1>5 DEF Surjection

\* How SumFunction goes through the domain of a function: element by element.
Some(s) == CHOOSE x \in s : TRUE
SumsUp(iter, g) ==
  iter = [s \in SUBSET DOMAIN g |-> IF s = {} THEN 0 ELSE g[Some(s)] + iter[s \ {Some(s)}]]

\* So it does, if there is a function that sums up.
LEMMA SumUnfolds ==
  ASSUME NEW g, NEW G, SumsUp(G, g)
  PROVE  \E iter : SumsUp(iter, g) /\ Board!SumFunction(g) = iter[DOMAIN g]
<1>1. SumsUp(CHOOSE iter : SumsUp(iter, g), g)
  OBVIOUS
<1>2. Board!SumFunction(g) = (CHOOSE iter : SumsUp(iter, g))[DOMAIN g]
  BY DEF SumsUp, Some, Board!SumFunction, Board!SumFunctionOnSet, Board!FoldFunctionOnSet,
         Board!MapThenFoldSet
<1> QED
  BY <1>1, <1>2

\* Counted by what they are assigned to, things add up to their number: an induction
\* over the sets of what they are assigned to, by way of a smallest one that fails.
LEMMA SumIsWhole ==
  ASSUME NEW S, IsFiniteSet(S), NEW C, IsFiniteSet(C), NEW h \in [C -> S],
         NEW g, g = [f \in S |-> Cardinality({c \in C : h[c] = f})]
  PROVE  Board!SumFunction(g) = Cardinality(C)
<1> DEFINE Of(s) == {c \in C : h[c] \in s}
           G == [s \in SUBSET S |-> Cardinality(Of(s))]
<1>1. \A s : IsFiniteSet(Of(s)) /\ Cardinality(Of(s)) \in Nat
  BY FS_Subset, FS_CardinalityType
<1>2. G \in [SUBSET S -> Nat]
  BY <1>1
<1>3. DOMAIN g = S
  OBVIOUS
<1>4. ASSUME NEW s \in SUBSET S, s # {}
      PROVE  Some(s) \in s /\ G[s] = g[Some(s)] + G[s \ {Some(s)}]
  <2>1. Some(s) \in s
    BY <1>4 DEF Some
  <2> DEFINE A == {c \in C : h[c] = Some(s)}
             B == Of(s \ {Some(s)})
  <2>2. Of(s) = A \cup B /\ A \cap B = {}
    BY <2>1
  <2>3. IsFiniteSet(A) /\ IsFiniteSet(B) /\ Cardinality(A) \in Nat /\ Cardinality(B) \in Nat
    BY <1>1, FS_Subset, FS_CardinalityType
  <2>4. Cardinality(A \cap B) = 0
    BY <2>2, FS_EmptySet
  <2>5. Cardinality(A \cup B) = Cardinality(A) + Cardinality(B) - Cardinality(A \cap B)
    BY <2>3, FS_Union
  <2>6. Cardinality(Of(s)) = Cardinality(A) + Cardinality(B)
    <3> HIDE DEF A, B, Of
    <3> QED
      BY <2>2, <2>3, <2>4, <2>5
  <2>7. g[Some(s)] = Cardinality(A)
    BY <2>1
  <2>8. G[s] = Cardinality(Of(s)) /\ G[s \ {Some(s)}] = Cardinality(B)
    OBVIOUS
  <2> HIDE DEF A, B, Of, G
  <2> QED
    BY <2>1, <2>6, <2>7, <2>8
<1>5. G[{}] = 0
  <2>1. Of({}) = {}
    OBVIOUS
  <2> QED
    BY <2>1, FS_EmptySet
<1>6. PICK iter : SumsUp(iter, g) /\ Board!SumFunction(g) = iter[S]
  <2>1. SumsUp(G, g)
    <3>1. G = [s \in SUBSET S |-> IF s = {} THEN 0 ELSE g[Some(s)] + G[s \ {Some(s)}]]
      <4>1. \A s \in SUBSET S :
              G[s] = IF s = {} THEN 0 ELSE g[Some(s)] + G[s \ {Some(s)}]
        <5> HIDE DEF G
        <5> QED
          BY <1>4, <1>5
      <4>2. G = [s \in SUBSET S |-> G[s]]
        OBVIOUS
      <4> HIDE DEF G
      <4> QED
        BY <4>1, <4>2
    <3> HIDE DEF G
    <3> QED
      BY <3>1, <1>3 DEF SumsUp
  <2> HIDE DEF G
  <2> QED
    BY <2>1, <1>3, SumUnfolds
<1> HIDE DEF G
<1> DEFINE Wrong == {s \in SUBSET S : iter[s] # G[s]}
<1>7. Wrong = {}
  <2>1. SUFFICES ASSUME Wrong # {} PROVE FALSE
    OBVIOUS
  <2>2. FiniteSubsetsOf(S) = SUBSET S
    BY FS_FiniteSubsetsOfFinite
  <2>3. IsWellFoundedOn(StrictSubsetOrdering(S), SUBSET S)
    BY <2>2, FS_StrictSubsetOrderingWellFounded
  <2>4. Wrong \subseteq SUBSET S
    OBVIOUS
  <2>5. PICK s \in Wrong : \A t \in Wrong : <<t, s>> \notin StrictSubsetOrdering(S)
    BY <2>1, <2>3, <2>4, WFMin
  <2>6. s # {}
    BY <1>3, <1>5, <1>6 DEF SumsUp
  <2>7. s \ {Some(s)} \in SUBSET S /\ Some(s) \in s
    BY <1>4, <2>6
  <2>8. <<s \ {Some(s)}, s>> \in StrictSubsetOrdering(S)
    BY <2>7 DEF StrictSubsetOrdering
  <2>9. iter[s \ {Some(s)}] = G[s \ {Some(s)}]
    BY <2>5, <2>7, <2>8
  <2>10. iter[s] = g[Some(s)] + iter[s \ {Some(s)}]
    BY <1>3, <1>6, <2>6 DEF SumsUp
  <2> QED
    BY <1>4, <2>5, <2>6, <2>9, <2>10
<1>8. iter[S] = G[S]
  BY <1>7
<1>9. G[S] = Cardinality(C)
  <2>1. Of(S) = C
    OBVIOUS
  <2> QED
    BY <2>1 DEF G
<1> QED
  BY <1>6, <1>8, <1>9

-----------------------------------------------------------------------------
(* The dashboard (Dashboard): now r1, cycles r2, scope r3, hidden r4, count*)
(* r5, page r6.  While no cycle moves and no facility goes, a figure stays *)
(* what was counted, and the list is cut behind the running cycles.        *)

\* The rank of a status on the list.
BoardRank(s) == IF s = "ACTIVE" THEN 1 ELSE IF s = "IN_TRANSIT" THEN 2 ELSE 3

\* These are the ranks of Dashboard.
LEMMA BoardRanks ==
  /\ DOMAIN Board!Rank = {"ACTIVE", "IN_TRANSIT", "COMPLETED"}
  /\ \A s \in DOMAIN Board!Rank : Board!Rank[s] = BoardRank(s)
BY DEF Board!Rank, BoardRank

\* What a cycle of the dashboard is.
LEMMA BoardCycle ==
  ASSUME Board!IInv, NEW c \in Cycle
  PROVE  /\ r2[c].status # Null => r2[c] \in Board!CycleRow
         /\ r2[c].status \in {"ACTIVE", "IN_TRANSIT", "COMPLETED", Null}
         /\ Board!InScope(c) => r2[c] \in Board!CycleRow /\ r2[c].facility \in r3
<1>1. r2[c].status # Null => r2[c] \in Board!CycleRow
  BY DEF Board!IInv, Board!TypeOK, Board!Unstarted
<1>2. r2[c].status \in {"ACTIVE", "IN_TRANSIT", "COMPLETED", Null}
  BY <1>1, BoardRanks DEF Board!CycleRow
<1> QED
  BY <1>1, <1>2 DEF Board!InScope

\* No cycle has begun and nothing is counted.
LEMMA InitBoard ==
  ASSUME Board!Init
  PROVE  Board!IInv
BY BoardRanks DEF Board!Init, Board!IInv, Board!TypeOK, Board!FiguresAreOfNow, Board!RunningComeFirst

\* A cycle that moves, or a facility that goes, leaves the figures under way to be of
\* no one moment.
LEMMA BoardDisturbed ==
  ASSUME Board!IInv, r5' = Board!Disturbed
  PROVE  /\ r5' = Board!NoCount
            \/ r5' \in [pc : {"asked", "shown"}, now : Nat, seen : {r5'.seen}, disturbed : BOOLEAN]
         /\ Board!FiguresAreOfNow'
<1>1. CASE r5 = Board!NoCount
  BY <1>1 DEF Board!Disturbed, Board!FiguresAreOfNow, Board!NoCount
<1>2. CASE r5 # Board!NoCount
  <2>1. r5 \in [pc : {"asked", "shown"}, now : Nat, seen : {r5.seen}, disturbed : BOOLEAN]
    BY <1>2 DEF Board!IInv, Board!TypeOK
  <2>2. r5' = [r5 EXCEPT !.disturbed = TRUE]
    BY <1>2 DEF Board!Disturbed
  <2>3. /\ r5'.pc = r5.pc /\ r5'.seen = r5.seen /\ r5'.disturbed = TRUE
        /\ r5' \in [pc : {"asked", "shown"}, now : Nat, seen : {r5'.seen}, disturbed : BOOLEAN]
    BY <2>1, <2>2
  <2>4. Board!FiguresAreOfNow'
    BY <1>2, <2>3 DEF Board!FiguresAreOfNow, Board!IInv, Board!Figures
  <2> QED
    BY <2>3, <2>4
<1> QED
  BY <1>1, <1>2

\* What is counted is counted over cycles, facilities and the moment taken first.
LEMMA BoardKept ==
  ASSUME UNCHANGED <<r2, r3, r4>>, r5.now' = r5.now
  PROVE  /\ \A k \in Board!Figures : Board!Figure(k)' = Board!Figure(k)
         /\ Board!PerFacility({c \in Cycle : Board!Overdue(c)})'
              = Board!PerFacility({c \in Cycle : Board!Overdue(c)})
<1>1. \A c \in Cycle : /\ Board!Running(c)' = Board!Running(c)
                       /\ Board!Completed(c)' = Board!Completed(c)
                       /\ Board!Overdue(c)' = Board!Overdue(c)
  BY DEF Board!Running, Board!Completed, Board!Overdue, Board!InScope
<1>2. /\ {c \in Cycle : Board!Running(c)}' = {c \in Cycle : Board!Running(c)}
      /\ {c \in Cycle : Board!Overdue(c)}' = {c \in Cycle : Board!Overdue(c)}
      /\ {c \in Cycle : Board!Completed(c)}' = {c \in Cycle : Board!Completed(c)}
      /\ {c \in Cycle : Board!Completed(c) /\ r2[c].onTime}'
           = {c \in Cycle : Board!Completed(c) /\ r2[c].onTime}
  BY <1>1
<1>3. ASSUME NEW found PROVE Board!PerFacility(found)' = Board!PerFacility(found)
  BY DEF Board!PerFacility
<1> QED
  BY <1>2, <1>3 DEF Board!Figure, Board!Figures

\* The instance counts as everybody does.
LEMMA BoardCounts == \A S : Board!Cardinality(S) = Cardinality(S)
BY DEF Board!Cardinality, Cardinality, Board!IsFiniteSet, IsFiniteSet

\* A list of a set has as many places as the set has elements, all different.
LEMMA BoardLists ==
  ASSUME NEW S, NEW s \in Board!SetToSeqs(S)
  PROVE  s \in [1 .. Cardinality(S) -> S] /\ \A i, j \in 1 .. Cardinality(S) : i # j => s[i] # s[j]
BY BoardCounts DEF Board!SetToSeqs

\* The figures on the page, counted while no cycle moved and no facility went.
LEMMA BoardIsTrue ==
  ASSUME Board!IInv
  PROVE  Board!RunningComeFirst /\ Board!QuietFiguresAddUp
<1>1. Board!RunningComeFirst
  BY DEF Board!IInv
<1>2. SUFFICES ASSUME r5.pc = "shown", ~r5.disturbed
      PROVE  LET n == r5.seen
             IN /\ n.overdue <= n.active /\ n.onTime <= n.completed
                /\ Board!SumFunction(n.byFacility)
                     + Board!Cardinality(Board!Elsewhere({c \in Cycle : Board!Running(c)})) = n.active
                /\ Board!SumFunction(n.overdueByFacility)
                     + Board!Cardinality(Board!Elsewhere({c \in Cycle : Board!Overdue(c)})) = n.overdue
                /\ \A f \in DOMAIN n.byFacility : n.overdueByFacility[f] <= n.byFacility[f]
  BY <1>1 DEF Board!QuietFiguresAddUp
<1> DEFINE run == {c \in Cycle : Board!Running(c)}
           late == {c \in Cycle : Board!Overdue(c)}
           seen == r3 \ r4
           done == {c \in Cycle : Board!Completed(c)}
           punctual == {c \in Cycle : Board!Completed(c) /\ r2[c].onTime}
<1>3. r5 # Board!NoCount
  BY <1>2 DEF Board!NoCount
<1>4. /\ r5.seen.active = Cardinality(run) /\ r5.seen.overdue = Cardinality(late)
      /\ r5.seen.completed = Cardinality(done) /\ r5.seen.onTime = Cardinality(punctual)
      /\ r5.seen.byFacility = Board!PerFacility(run)
      /\ r5.seen.overdueByFacility = Board!PerFacility(late)
  BY <1>2, <1>3, BoardCounts
     DEF Board!IInv, Board!FiguresAreOfNow, Board!Figures, Board!Figure
<1>5. late \subseteq run /\ punctual \subseteq done
  BY DEF Board!Overdue
<1>6. /\ IsFiniteSet(run) /\ IsFiniteSet(late) /\ IsFiniteSet(done) /\ IsFiniteSet(punctual)
      /\ IsFiniteSet(seen)
  BY PageConstants, FS_Subset DEF Board!IInv, Board!TypeOK
<1>7. Cardinality(late) <= Cardinality(run) /\ Cardinality(punctual) <= Cardinality(done)
  <2> HIDE DEF run, late, done, punctual
  <2> QED
    BY <1>5, <1>6, FS_Subset
<1>8. ASSUME NEW found \in {run, late}
      PROVE  Board!SumFunction(Board!PerFacility(found)) + Board!Cardinality(Board!Elsewhere(found))
             = Cardinality(found)
  <2> DEFINE away == {c \in found : r2[c].facility \in r4}
             here == {c \in found : r2[c].facility \notin r4}
             h == [c \in here |-> r2[c].facility]
  <2>1. IsFiniteSet(found) /\ \A c \in found : r2[c].facility \in r3
    BY <1>6 DEF Board!Overdue, Board!Running, Board!InScope
  <2>2. /\ found = here \cup away /\ here \cap away = {}
        /\ here \subseteq found /\ away \subseteq found
    OBVIOUS
  <2>3. h \in [here -> seen]
    BY <2>1
  <2>4. Board!PerFacility(found) = [f \in seen |-> Cardinality({c \in here : h[c] = f})]
    <3>1. \A f \in seen : {c \in here : h[c] = f} = {c \in found : r2[c].facility = f}
      OBVIOUS
    <3> HIDE DEF run, late, here, h
    <3> QED
      BY <3>1, BoardCounts DEF Board!PerFacility
  <2>5. Board!Elsewhere(found) = away
    BY DEF Board!Elsewhere
  <2> HIDE DEF h, here, away, run, late, seen
  <2>6. /\ IsFiniteSet(here) /\ IsFiniteSet(away)
        /\ Cardinality(here) \in Nat /\ Cardinality(away) \in Nat
    BY <2>1, <2>2, FS_Subset, FS_CardinalityType
  <2>7. Board!SumFunction(Board!PerFacility(found)) = Cardinality(here)
    BY <1>6, <2>3, <2>4, <2>6, SumIsWhole
  <2>8. Cardinality(found) = Cardinality(here) + Cardinality(away)
    <3>1. Cardinality(here \cap away) = 0
      BY <2>2, FS_EmptySet
    <3>2. Cardinality(here \cup away)
            = Cardinality(here) + Cardinality(away) - Cardinality(here \cap away)
      BY <2>6, FS_Union
    <3> QED
      BY <2>2, <2>6, <3>1, <3>2
  <2> QED
    BY <2>5, <2>7, <2>8, BoardCounts
<1>9. ASSUME NEW f \in seen
      PROVE  Board!PerFacility(late)[f] <= Board!PerFacility(run)[f]
  <2> DEFINE A == {c \in late : r2[c].facility = f}
             B == {c \in run : r2[c].facility = f}
  <2>1. A \in SUBSET B /\ B \in SUBSET run
    BY <1>5
  <2>2. Cardinality(A) <= Cardinality(B)
    <3> HIDE DEF A, B, run
    <3> QED
      BY <1>6, <2>1, FS_Subset, SMTT(30)
  <2> QED
    BY <2>2, BoardCounts DEF Board!PerFacility
<1>10. DOMAIN Board!PerFacility(run) = seen
  BY DEF Board!PerFacility
<1> QED
  <2>1. /\ Board!SumFunction(Board!PerFacility(run)) + Board!Cardinality(Board!Elsewhere(run))
             = Cardinality(run)
        /\ Board!SumFunction(Board!PerFacility(late)) + Board!Cardinality(Board!Elsewhere(late))
             = Cardinality(late)
    BY <1>8
  <2>2. \A f \in DOMAIN Board!PerFacility(run) : Board!PerFacility(late)[f] <= Board!PerFacility(run)[f]
    BY <1>9, <1>10
  <2>3. LET n == r5.seen
        IN /\ n.overdue <= n.active /\ n.onTime <= n.completed
           /\ Board!SumFunction(n.byFacility) + Board!Cardinality(Board!Elsewhere(run)) = n.active
           /\ Board!SumFunction(n.overdueByFacility) + Board!Cardinality(Board!Elsewhere(late)) = n.overdue
           /\ \A f \in DOMAIN n.byFacility : n.overdueByFacility[f] <= n.byFacility[f]
    <3> HIDE DEF run, late, done, punctual
    <3> QED
      BY <1>4, <1>7, <2>1, <2>2
  <2> QED
    BY <2>3

\* The list is cut behind the running cycles: who is cut stands behind all who are shown.
LEMMA BoardQueue ==
  ASSUME Board!IInv, Board!GetPriorityQueue
  PROVE  Board!IInv'
<1> DEFINE found == {c \in Cycle : Board!InScope(c)}
<1>1. IsFiniteSet(found) /\ IsFiniteSet(Cycle)
  BY PageConstants, FS_Subset, SMTT(30)
<1>2. PICK order \in Board!SetToSeqs(found) :
        /\ \A i, j \in DOMAIN order : i < j => Board!Before(order[i], order[j])
        /\ LET shown == IF Len(order) > Listed THEN SubSeq(order, 1, Listed) ELSE order IN
             r6' = [r6 EXCEPT !.list = [i \in DOMAIN shown |-> Board!Row(shown[i])],
                              !.cut = {c \in found \ Board!ToSet(shown) : Board!Running(c)}]
  BY DEF Board!GetPriorityQueue
<1> DEFINE shown == IF Len(order) > Listed THEN SubSeq(order, 1, Listed) ELSE order
           list == [i \in DOMAIN shown |-> Board!Row(shown[i])]
           cut == {c \in found \ Board!ToSet(shown) : Board!Running(c)}
<1>3. r6' = [r6 EXCEPT !.list = list, !.cut = cut] /\ UNCHANGED <<r1, r2, r3, r4, r5>>
  BY <1>2 DEF Board!GetPriorityQueue
<1>4. order \in [1 .. Cardinality(found) -> found]
      /\ \A i, j \in 1 .. Cardinality(found) : i # j => order[i] # order[j]
  BY BoardLists
<1>5. /\ Len(order) \in Nat /\ order \in Seq(found) /\ DOMAIN order = 1 .. Len(order)
      /\ \A c \in found : \E i \in DOMAIN order : order[i] = c
  <2> HIDE DEF found
  <2>1. /\ Cardinality(found) \in Nat /\ Len(order) = Cardinality(found) /\ order \in Seq(found)
        /\ \A c \in found : \E i \in 1 .. Cardinality(found) : order[i] = c
    BY <1>1, <1>4, ListHasAll
  <2>2. DOMAIN order = 1 .. Cardinality(found)
    BY <1>4
  <2> QED
    BY <2>1, <2>2
<1>6. \E n \in 0 .. Len(order) :
        Len(shown) = n /\ DOMAIN shown = 1 .. n /\ \A i \in 1 .. n : shown[i] = order[i]
  <2>1. CASE Len(order) > Listed
    <3>1. Listed \in 0 .. Len(order) /\ Listed \in Nat
      BY <1>5, <2>1, PageConstants
    <3>2. /\ shown = SubSeq(order, 1, Listed) /\ Len(shown) = Listed /\ DOMAIN shown = 1 .. Listed
          /\ \A i \in 1 .. Listed : shown[i] = order[i]
      <4> HIDE DEF found
      <4> QED
        BY <1>5, <2>1, <3>1, SMTT(30)
    <3> HIDE DEF shown
    <3> QED
      BY <3>1, <3>2
  <2>2. CASE ~(Len(order) > Listed)
    <3>1. shown = order /\ Len(order) \in 0 .. Len(order)
      BY <1>5, <2>2
    <3> HIDE DEF shown
    <3> QED
      BY <1>5, <3>1
  <2> QED
    BY <2>1, <2>2
<1> HIDE DEF shown
<1>61. PICK n \in 0 .. Len(order) :
         Len(shown) = n /\ DOMAIN shown = 1 .. n /\ \A i \in 1 .. n : shown[i] = order[i]
  BY <1>6
<1>7. list \in Seq(Board!ListRow) /\ \A i \in DOMAIN list : list[i].status = r2[order[i]].status
  <2>1. ASSUME NEW i \in 1 .. n
        PROVE  shown[i] \in found /\ Board!Row(shown[i]) \in Board!ListRow
    <3>1. i \in DOMAIN order /\ shown[i] = order[i]
      BY <1>5, <1>61
    <3>2. shown[i] \in Cycle /\ Board!InScope(shown[i])
      BY <1>5, <3>1
    <3>3. r2[shown[i]] \in Board!CycleRow
      BY <3>2, BoardCycle
    <3> QED
      BY <3>2, <3>3 DEF Board!Row, Board!ListRow, Board!CycleRow
  <2>2. list \in [1 .. n -> Board!ListRow]
    BY <1>61, <2>1
  <2>3. \A i \in DOMAIN list : list[i].status = r2[order[i]].status
    BY <1>61 DEF Board!Row
  <2> HIDE DEF list
  <2> QED
    BY <1>5, <1>61, <2>2, <2>3
<1>8. r6'.list = list /\ r6'.cut = cut /\ cut \subseteq Cycle
      /\ r6' \in [list : Seq(Board!ListRow), cut : SUBSET Cycle, facility : Facility \cup {Null}]
  <2>1. r6 \in [list : Seq(Board!ListRow), cut : SUBSET Cycle, facility : Facility \cup {Null}]
    BY DEF Board!IInv, Board!TypeOK
  <2>2. cut \subseteq Cycle
    OBVIOUS
  <2> HIDE DEF list, cut
  <2> QED
    BY <1>3, <1>7, <2>1, <2>2
<1>9. Board!RunningComeFirst'
  <2>0. Board!RunningComeFirst' <=>
          (cut # {} => \A row \in Board!ToSet(list) : row.status \in {"ACTIVE", "IN_TRANSIT"})
    <3> HIDE DEF list, cut
    <3> QED
      BY <1>8 DEF Board!RunningComeFirst, Board!RunningStatus, Board!ToSet
  <2>1. SUFFICES ASSUME cut # {}, NEW row \in Board!ToSet(list)
        PROVE  row.status \in {"ACTIVE", "IN_TRANSIT"}
    BY <2>0
  <2>2. PICK c \in cut : c \in found /\ c \notin Board!ToSet(shown) /\ Board!Running(c)
    BY <2>1
  <2>3. PICK k \in DOMAIN order : order[k] = c
    BY <1>5, <2>2
  <2>4. k > n
    <3>1. SUFFICES ASSUME k \in 1 .. n PROVE FALSE
      BY <1>5, <2>3
    <3>2. k \in DOMAIN shown /\ shown[k] = c
      BY <1>61, <2>3, <3>1
    <3> QED
      BY <2>2, <3>2 DEF Board!ToSet
  <2>5. PICK i \in 1 .. n : row.status = r2[order[i]].status /\ order[i] \in found
    <3>1. PICK i \in DOMAIN list : row = list[i]
      BY <2>1 DEF Board!ToSet
    <3>2. i \in 1 .. n /\ i \in DOMAIN order
      BY <1>5, <1>61, <3>1
    <3>3. row.status = r2[order[i]].status
      BY <1>7, <3>1
    <3>4. order[i] \in found
      BY <1>5, <3>2
    <3> QED
      BY <3>2, <3>3, <3>4
  <2>6. Board!Before(order[i], c)
    BY <1>2, <1>5, <1>61, <2>3, <2>4, <2>5
  <2>7. r2[c].status \in {"ACTIVE", "IN_TRANSIT"}
    BY <2>2 DEF Board!Running, Board!RunningStatus
  <2>8. r2[order[i]].status \in {"ACTIVE", "IN_TRANSIT", "COMPLETED"}
    BY <2>5, BoardCycle, BoardRanks DEF Board!CycleRow
  <2> QED
    BY <2>5, <2>6, <2>7, <2>8, BoardRanks DEF Board!Before, BoardRank
<1>10. Board!FiguresAreOfNow'
  BY <1>3, BoardKept DEF Board!IInv, Board!FiguresAreOfNow
<1> QED
  BY <1>3, <1>8, <1>9, <1>10 DEF Board!IInv, Board!TypeOK

\* Every step of the bins, of the facilities and of the page keeps the invariant.
LEMMA NextBoard ==
  ASSUME Board!IInv, Board!Next
  PROVE  Board!IInv'
<1> USE DEF Board!IInv
<1>1. ASSUME NEW c \in Cycle, Board!Start(c) \/ Board!PickUp(c) \/ Board!Deliver(c)
      PROVE  Board!IInv'
  <2>1. r5' = Board!Disturbed /\ UNCHANGED <<r1, r3, r4, r6>>
    BY <1>1 DEF Board!Start, Board!PickUp, Board!Deliver
  <2>2. r2' \in [Cycle -> Board!CycleRow \cup {Board!Unstarted}]
    <3>01. "ACTIVE" # Null /\ "IN_TRANSIT" # Null
      BY PageConstants, BoardRanks
    <3>0. r1 \in Nat /\ r2 \in [Cycle -> Board!CycleRow \cup {Board!Unstarted}]
      BY DEF Board!TypeOK
    <3>1. CASE Board!Start(c)
      BY <3>0, <3>1, PageConstants, BoardRanks DEF Board!Start, Board!CycleRow
    <3>2. CASE Board!PickUp(c)
      <4>1. r2[c] \in Board!CycleRow
        BY <3>01, <3>2, BoardCycle DEF Board!PickUp
      <4> QED
        BY <3>0, <3>2, <4>1, BoardRanks DEF Board!PickUp, Board!CycleRow
    <3>3. CASE Board!Deliver(c)
      <4>1. r2[c] \in Board!CycleRow
        BY <3>01, <3>3, BoardCycle DEF Board!Deliver
      <4>2. PICK b \in BOOLEAN : r2' = [r2 EXCEPT ![c] = [r2[c] EXCEPT !.status = "COMPLETED", !.onTime = b]]
        <5> DEFINE b == r1 <= r2[c].deadline
        <5>1. r2' = [r2 EXCEPT ![c].status = "COMPLETED", ![c].onTime = b]
          BY <3>3 DEF Board!Deliver
        <5>2. b \in BOOLEAN
          BY <3>0, <4>1 DEF Board!CycleRow
        <5> HIDE DEF b
        <5> QED
          BY <3>0, <5>1, <5>2
      <4> QED
        BY <3>0, <4>1, <4>2, BoardRanks DEF Board!CycleRow
    <3> QED
      BY <1>1, <3>1, <3>2, <3>3
  <2>3. Board!RunningComeFirst'
    BY <2>1 DEF Board!RunningComeFirst
  <2> QED
    BY <2>1, <2>2, <2>3, BoardDisturbed DEF Board!TypeOK
<1>2. ASSUME NEW k \in Board!Figures, Board!Count(k)
      PROVE  Board!IInv'
  <2>1. /\ r5.pc = "asked" /\ r5 # Board!NoCount /\ UNCHANGED <<r1, r2, r3, r4, r6>>
        /\ r5 \in [pc : {"asked", "shown"}, now : Nat, seen : {r5.seen}, disturbed : BOOLEAN]
    BY <1>2 DEF Board!Count, Board!NoCount, Board!TypeOK
  <2> DEFINE seen == [j \in DOMAIN r5.seen \cup {k} |-> IF j = k THEN Board!Figure(k) ELSE r5.seen[j]]
  <2>2. r5' = [r5 EXCEPT !.seen = seen]
    BY <1>2 DEF Board!Count
  <2>3. /\ r5'.pc = "asked" /\ r5'.now = r5.now /\ r5'.seen = seen /\ r5'.disturbed = r5.disturbed
        /\ r5' \in [pc : {"asked", "shown"}, now : Nat, seen : {r5'.seen}, disturbed : BOOLEAN]
    <3> HIDE DEF seen
    <3> QED
      BY <2>1, <2>2
  <2>4. Board!FiguresAreOfNow'
    BY <2>1, <2>3, BoardKept DEF Board!FiguresAreOfNow, Board!Figures
  <2> QED
    BY <2>1, <2>3, <2>4 DEF Board!TypeOK, Board!RunningComeFirst
<1>3. ASSUME NEW f \in Facility \cup {Null}, Board!SelectFacility(f)
      PROVE  Board!IInv'
  <2>1. /\ UNCHANGED <<r1, r2, r3, r4, r5>> /\ r6' = [r6 EXCEPT !.facility = f]
        /\ r6 \in [list : Seq(Board!ListRow), cut : SUBSET Cycle, facility : Facility \cup {Null}]
    BY <1>3 DEF Board!SelectFacility, Board!TypeOK
  <2>2. /\ r6'.list = r6.list /\ r6'.cut = r6.cut
        /\ r6' \in [list : Seq(Board!ListRow), cut : SUBSET Cycle, facility : Facility \cup {Null}]
    BY <2>1
  <2>3. Board!RunningComeFirst'
    BY <2>2 DEF Board!RunningComeFirst, Board!ToSet
  <2> QED
    BY <2>1, <2>2, <2>3, BoardKept DEF Board!TypeOK, Board!FiguresAreOfNow
<1>4. CASE Board!Tick
  <2>1. UNCHANGED <<r2, r3, r4, r5, r6>> /\ r1' \in Nat
    BY <1>4 DEF Board!Tick, Board!TypeOK
  <2>2. Board!FiguresAreOfNow' /\ Board!RunningComeFirst'
    BY <2>1, BoardKept DEF Board!FiguresAreOfNow, Board!RunningComeFirst, Board!ToSet
  <2> QED
    BY <2>1, <2>2 DEF Board!TypeOK
<1>5. CASE Board!GetStats
  <2>1. /\ UNCHANGED <<r1, r2, r3, r4, r6>>
        /\ r5' = [pc |-> "asked", now |-> r1, seen |-> <<>>, disturbed |-> FALSE]
    BY <1>5 DEF Board!GetStats
  <2>2. Board!FiguresAreOfNow'
    BY <2>1 DEF Board!FiguresAreOfNow
  <2> QED
    BY <2>1, <2>2 DEF Board!TypeOK, Board!RunningComeFirst
<1>6. CASE Board!GroupByFacility
  <2>1. /\ r5.pc = "asked" /\ r5 # Board!NoCount /\ UNCHANGED <<r1, r2, r3, r4, r6>>
        /\ r5 \in [pc : {"asked", "shown"}, now : Nat, seen : {r5.seen}, disturbed : BOOLEAN]
        /\ DOMAIN r5.seen = Board!Figures
    BY <1>6 DEF Board!GroupByFacility, Board!NoCount, Board!TypeOK
  <2> DEFINE late == {c \in Cycle : Board!Overdue(c)}
             split == [f \in DOMAIN r5.seen.byFacility |->
                         Board!Cardinality({c \in Cycle : Board!Overdue(c) /\ r2[c].facility = f})]
             seen == [j \in Board!Figures \cup {"overdueByFacility"} |->
                        IF j \in Board!Figures THEN r5.seen[j] ELSE split]
  <2>2. r5' = [r5 EXCEPT !.pc = "shown", !.seen = seen]
    BY <1>6 DEF Board!GroupByFacility
  <2>3. ~r5.disturbed => split = Board!PerFacility(late)
    <3>1. SUFFICES ASSUME ~r5.disturbed PROVE split = Board!PerFacility(late)
      OBVIOUS
    <3>2. r5.seen.byFacility = Board!Figure("byFacility")
      BY <2>1, <3>1 DEF Board!FiguresAreOfNow, Board!Figures
    <3>3. DOMAIN r5.seen.byFacility = r3 \ r4
      BY <3>2 DEF Board!Figure, Board!PerFacility
    <3>4. \A f \in r3 \ r4 : {c \in Cycle : Board!Overdue(c) /\ r2[c].facility = f}
                              = {c \in late : r2[c].facility = f}
      OBVIOUS
    <3> HIDE DEF late
    <3> QED
      BY <3>3, <3>4 DEF Board!PerFacility
  <2>4. /\ r5'.pc = "shown" /\ r5'.now = r5.now /\ r5'.seen = seen /\ r5'.disturbed = r5.disturbed
        /\ r5' \in [pc : {"asked", "shown"}, now : Nat, seen : {r5'.seen}, disturbed : BOOLEAN]
    <3> HIDE DEF seen
    <3> QED
      BY <2>1, <2>2
  <2>5. Board!FiguresAreOfNow'
    <3>1. DOMAIN seen = Board!Figures \cup {"overdueByFacility"}
      OBVIOUS
    <3>2. ~r5.disturbed => \A k \in DOMAIN seen :
            seen[k] = IF k \in Board!Figures THEN Board!Figure(k) ELSE Board!PerFacility(late)
      <4> HIDE DEF split, late
      <4> QED
        BY <2>1, <2>3 DEF Board!FiguresAreOfNow
    <3> HIDE DEF seen
    <3> QED
      BY <2>1, <2>4, <3>1, <3>2, BoardKept DEF Board!FiguresAreOfNow
  <2> QED
    BY <2>1, <2>4, <2>5 DEF Board!TypeOK, Board!RunningComeFirst
<1>7. CASE Board!Reopen
  BY <1>7 DEF Board!Reopen, Board!TypeOK, Board!FiguresAreOfNow, Board!RunningComeFirst
<1>8. CASE Board!GetPriorityQueue
  BY <1>8, BoardQueue
<1>9. ASSUME NEW f \in Facility, Board!RemoveFacility(f)
      PROVE  Board!IInv'
  <2>1. r5' = Board!Disturbed /\ r4' = r4 \cup {f} /\ UNCHANGED <<r1, r2, r3, r6>>
    BY <1>9 DEF Board!RemoveFacility
  <2>2. Board!RunningComeFirst'
    BY <2>1 DEF Board!RunningComeFirst, Board!ToSet
  <2> QED
    BY <2>1, <2>2, BoardDisturbed DEF Board!TypeOK
<1> QED
  BY <1>1, <1>2, <1>3, <1>4, <1>5, <1>6, <1>7, <1>8, <1>9 DEF Board!Next

-----------------------------------------------------------------------------
(* The sensor fleet's overview (FleetView): clock r1, device r2, newest r3,*)
(* threshold r4, gather r5.  Devices are read before their readings, and who*)
(* was seen has a reading.                                                 *)

\* What the rows of a complete gathering are, and what each is taken for.
LEMMA FleetRows ==
  ASSUME Fleet!IInv, NEW d \in Device
  PROVE  /\ r2[d] \in Fleet!DeviceRow /\ r3[d] \in Fleet!Reading \cup {Null}
         /\ r5.pc = "rows" => r5.device[d] \in Fleet!DeviceRow
         /\ r5.newest # Null => r5.newest[d] \in Fleet!Reading \cup {Null}
<1>1. r2[d] \in Fleet!DeviceRow /\ r3[d] \in Fleet!Reading \cup {Null}
  BY DEF Fleet!IInv, Fleet!TypeOK
<1>2. r5.pc = "rows" => r5.device[d] \in Fleet!DeviceRow
  <2>1. r5.pc = "rows" => r5.device \in [Device -> Fleet!DeviceRow]
    BY DEF Fleet!IInv, Fleet!SeenHaveReadings
  <2> QED
    BY <2>1
<1>3. r5.newest # Null => r5.newest[d] \in Fleet!Reading \cup {Null}
  <2>1. r5.newest # Null => r5.newest \in [Device -> Fleet!Reading \cup {Null}]
    BY DEF Fleet!IInv, Fleet!TypeOK
  <2> QED
    BY <2>1
<1> QED
  BY <1>1, <1>2, <1>3

\* Devices fall into those online, those offline and those waiting, whether all of them or
\* the active ones: one that was never heard of has no reading, and one that is offline has
\* one.
LEMMA FleetFalls ==
  ASSUME Fleet!IInv, Fleet!Complete, NEW A \in SUBSET Device
  PROVE  LET on == {d \in A : Fleet!IsDeviceOnline(Fleet!Row(d).seen, r5.now, r5.threshold)}
             off == {d \in A : Fleet!Row(d).status = "OFFLINE"}
             wait == {d \in A : Fleet!Row(d).status = "WAITING"}
         IN  /\ Cardinality(on) + Cardinality(off) + Cardinality(wait) = Cardinality(A)
             /\ on = {d \in A : Fleet!Row(d).status \notin {"WAITING", "OFFLINE"}}
<1> DEFINE on(d) == Fleet!IsDeviceOnline(Fleet!Row(d).seen, r5.now, r5.threshold)
           silent(d) == r5.newest[d] = Null
           status(d) == Fleet!Row(d).status
<1>1. ASSUME NEW d \in Device
      PROVE  /\ silent(d) => ~on(d) /\ status(d) = "WAITING"
             /\ ~silent(d) /\ ~on(d) => status(d) = "OFFLINE"
             /\ ~silent(d) /\ on(d) => status(d) \in {"FAULT", "ALERT", "OK"}
  <2>1. r5.pc = "rows" /\ r5.newest # Null
    BY DEF Fleet!Complete
  <2>2. silent(d) => Fleet!Row(d).seen = Null
    BY <2>1 DEF Fleet!IInv, Fleet!SeenHaveReadings, Fleet!Seen, Fleet!Row
  <2>3. Fleet!Row(d).seen = Null => ~on(d)
    BY DEF Fleet!IsDeviceOnline
  <2>4. status(d) = Fleet!AdminDeviceStatus(Fleet!Row(d).seen, r5.newest[d], r5.now, r5.threshold)
    BY DEF Fleet!Row
  <2>5. ~silent(d) => r5.newest[d].verdict \in {"FAULT", "ALERT", "OK"}
    BY <2>1, FleetRows DEF Fleet!Reading, Fleet!Verdict
  <2> QED
    BY <2>2, <2>3, <2>4, <2>5 DEF Fleet!AdminDeviceStatus
<1> DEFINE N == {d \in A : on(d)}
           F == {d \in A : status(d) = "OFFLINE"}
           W == {d \in A : status(d) = "WAITING"}
<1>2. IsFiniteSet(A)
  BY PageConstants, FS_Subset
<1> HIDE DEF on, silent, status
<1>3. /\ A = (N \cup F) \cup W /\ N \cap F = {} /\ (N \cup F) \cap W = {}
      /\ N = {d \in A : status(d) \notin {"WAITING", "OFFLINE"}}
  BY <1>1
<1>4. /\ IsFiniteSet(N) /\ IsFiniteSet(F) /\ IsFiniteSet(W)
      /\ Cardinality(N) \in Nat /\ Cardinality(F) \in Nat /\ Cardinality(W) \in Nat
  BY <1>2, FS_Subset, FS_CardinalityType
<1>5. Cardinality(N) + Cardinality(F) + Cardinality(W) = Cardinality(A)
  <2> HIDE DEF N, F, W
  <2>0. Cardinality(N \cap F) = 0 /\ Cardinality((N \cup F) \cap W) = 0
    BY <1>3, FS_EmptySet
  <2>1. /\ IsFiniteSet(N \cup F)
        /\ Cardinality(N \cup F) = Cardinality(N) + Cardinality(F) - Cardinality(N \cap F)
    BY <1>4, FS_Union
  <2>2. Cardinality((N \cup F) \cup W)
          = Cardinality(N \cup F) + Cardinality(W) - Cardinality((N \cup F) \cap W)
    BY <2>1, <1>4, FS_Union
  <2> QED
    BY <1>3, <1>4, <2>0, <2>1, <2>2
<1> QED
  BY <1>3, <1>5 DEF on, status

\* The list by health, status by status.
LEMMA FleetLists ==
  ASSUME NEW S
  PROVE  /\ Fleet!DeviceList(S, "online")
              = {d \in Device : Fleet!Row(d).state \in S /\ Fleet!Row(d).status \notin {"WAITING", "OFFLINE"}}
         /\ Fleet!DeviceList(S, "offline")
              = {d \in Device : Fleet!Row(d).state \in S /\ Fleet!Row(d).status = "OFFLINE"}
         /\ Fleet!DeviceList(S, "fault")
              = {d \in Device : Fleet!Row(d).state \in S /\ Fleet!Row(d).status = "FAULT"}
         /\ Fleet!DeviceList(S, "waiting")
              = {d \in Device : Fleet!Row(d).state \in S /\ Fleet!Row(d).status = "WAITING"}
<1>1. \A s : /\ Fleet!Matches("online", s) <=> s \notin {"WAITING", "OFFLINE"}
             /\ Fleet!Matches("offline", s) <=> s = "OFFLINE"
             /\ Fleet!Matches("fault", s) <=> s = "FAULT"
             /\ Fleet!Matches("waiting", s) <=> s = "WAITING"
  BY DEF Fleet!Matches
<1> QED
  BY <1>1 DEF Fleet!DeviceList

\* The tiles and the lists fit.
LEMMA FleetIsTrue ==
  ASSUME Fleet!IInv
  PROVE  Fleet!TilesAddUp
<1>1. SUFFICES ASSUME Fleet!Complete
      PROVE  /\ Fleet!Cardinality(Fleet!Online) + Fleet!Cardinality(Fleet!Having("OFFLINE"))
                  + Fleet!Cardinality(Fleet!Having("WAITING")) = Fleet!Cardinality(Fleet!Active)
             /\ Fleet!Online = Fleet!DeviceList({"ACTIVE"}, "online")
             /\ Fleet!Alerts \ Fleet!DeviceList({"ACTIVE"}, "offline") \subseteq Fleet!Online
             /\ Fleet!Cardinality(Fleet!DeviceList(Fleet!State, "online"))
                  + Fleet!Cardinality(Fleet!DeviceList(Fleet!State, "offline"))
                  + Fleet!Cardinality(Fleet!DeviceList(Fleet!State, "waiting"))
                = Fleet!Cardinality(Device)
             /\ Fleet!DeviceList(Fleet!State, "fault") \subseteq Fleet!DeviceList(Fleet!State, "online")
  BY DEF Fleet!TilesAddUp
<1> DEFINE A == Fleet!Active
           Is(S, s) == {d \in S : Fleet!Row(d).status = s}
           Fine(S) == {d \in S : Fleet!Row(d).status \notin {"WAITING", "OFFLINE"}}
           On(S) == {d \in S : Fleet!IsDeviceOnline(Fleet!Row(d).seen, r5.now, r5.threshold)}
<1>2. /\ A \in SUBSET Device /\ A = {d \in Device : Fleet!Row(d).state = "ACTIVE"}
      /\ Fleet!Online = On(A) /\ Fleet!Having("OFFLINE") = Is(A, "OFFLINE")
      /\ Fleet!Having("WAITING") = Is(A, "WAITING")
  BY DEF Fleet!Active, Fleet!Online, Fleet!Having
<1>3. \A d \in Device : Fleet!Row(d).state \in Fleet!State
  <2>1. ASSUME NEW d \in Device PROVE r5.device[d].state \in Fleet!State
    BY <1>1, FleetRows DEF Fleet!Complete, Fleet!DeviceRow
  <2> QED
    BY <2>1 DEF Fleet!Row
<1>4. \A S : Fleet!Cardinality(S) = Cardinality(S)
  BY DEF Fleet!Cardinality, Cardinality, Fleet!IsFiniteSet, IsFiniteSet
<1>5. ASSUME NEW S \in SUBSET Device
      PROVE  /\ Cardinality(On(S)) + Cardinality(Is(S, "OFFLINE")) + Cardinality(Is(S, "WAITING"))
                  = Cardinality(S)
             /\ On(S) = Fine(S)
  BY <1>1, FleetFalls
<1>6. /\ Fleet!DeviceList({"ACTIVE"}, "online") = Fine(A)
      /\ Fleet!DeviceList({"ACTIVE"}, "offline") = Is(A, "OFFLINE")
  BY <1>2, FleetLists
<1>7. /\ Fleet!DeviceList(Fleet!State, "online") = Fine(Device)
      /\ Fleet!DeviceList(Fleet!State, "offline") = Is(Device, "OFFLINE")
      /\ Fleet!DeviceList(Fleet!State, "waiting") = Is(Device, "WAITING")
      /\ Fleet!DeviceList(Fleet!State, "fault") = Is(Device, "FAULT")
  BY <1>3, FleetLists
<1>8. Fleet!Alerts \ Fleet!DeviceList({"ACTIVE"}, "offline") \subseteq Fleet!Online
  <2>1. \A d \in Fleet!Alerts : d \in A /\ Fleet!Row(d).status \in {"FAULT", "ALERT", "OFFLINE"}
    BY DEF Fleet!Alerts, Fleet!Having
  <2> QED
    BY <1>2, <1>5, <1>6, <2>1
<1>9. Is(Device, "FAULT") \subseteq Fine(Device)
  OBVIOUS
<1> HIDE DEF A, Is, Fine, On
<1>10. Fleet!Cardinality(Fleet!Online) + Fleet!Cardinality(Fleet!Having("OFFLINE"))
         + Fleet!Cardinality(Fleet!Having("WAITING")) = Fleet!Cardinality(Fleet!Active)
  BY <1>2, <1>4, <1>5 DEF A
<1>11. Fleet!Online = Fleet!DeviceList({"ACTIVE"}, "online")
  BY <1>2, <1>5, <1>6
<1>12. Fleet!Cardinality(Fleet!DeviceList(Fleet!State, "online"))
         + Fleet!Cardinality(Fleet!DeviceList(Fleet!State, "offline"))
         + Fleet!Cardinality(Fleet!DeviceList(Fleet!State, "waiting")) = Fleet!Cardinality(Device)
  <2>1. Device \in SUBSET Device
    OBVIOUS
  <2> QED
    BY <1>4, <1>5, <1>7, <2>1
<1> QED
  BY <1>7, <1>8, <1>9, <1>10, <1>11, <1>12

\* No device was heard of, and nothing is gathered.
LEMMA InitFleet ==
  ASSUME Fleet!Init
  PROVE  Fleet!IInv
BY DEF Fleet!Init, Fleet!IInv, Fleet!TypeOK, Fleet!SeenHaveReadings, Fleet!Seen, Fleet!NoGather,
       Fleet!DeviceRow

\* The rows gathered so far.
FleetGather ==
  [what : {"summary", "list", Null}, pc : {"idle", "devices", "rows"}, now : Nat,
   device : [Device -> Fleet!DeviceRow] \cup {Null},
   newest : [Device -> Fleet!Reading \cup {Null}] \cup {Null},
   threshold : Threshold \cup {Null}]

\* Every step of the devices, of the operators and of the page keeps the invariant.
LEMMA NextFleet ==
  ASSUME Fleet!IInv, Fleet!Next
  PROVE  Fleet!IInv'
<1>0. /\ r1 \in Nat /\ r2 \in [Device -> Fleet!DeviceRow]
      /\ r3 \in [Device -> Fleet!Reading \cup {Null}]
      /\ r4 \in Threshold /\ r5 \in FleetGather
      /\ Fleet!Seen(r2, r3)
      /\ IF r5.pc = "rows"
         THEN /\ r5.device \in [Device -> Fleet!DeviceRow] /\ Fleet!Seen(r5.device, r3)
              /\ r5.newest # Null => Fleet!Seen(r5.device, r5.newest)
         ELSE r5.newest = Null
  BY DEF Fleet!IInv, Fleet!TypeOK, Fleet!SeenHaveReadings, FleetGather
<1>1. ASSUME NEW d \in Device, NEW t \in 0 .. MaxTime, NEW v \in Fleet!Verdict, Fleet!Report(d, t, v)
      PROVE  Fleet!IInv'
  <2> DEFINE reading == [at |-> t, verdict |-> v]
  <2>1. /\ r2' = [r2 EXCEPT ![d].lastSeenAt = t] /\ r3' = [r3 EXCEPT ![d] = reading]
        /\ UNCHANGED <<r1, r4, r5>>
    BY <1>1 DEF Fleet!Report
  <2>2. reading \in Fleet!Reading /\ reading # Null /\ t \in Nat
    BY PageConstants DEF Fleet!Reading
  <2> HIDE DEF reading
  <2>3. r2' \in [Device -> Fleet!DeviceRow] /\ r3' \in [Device -> Fleet!Reading \cup {Null}]
    BY <1>0, <2>1, <2>2 DEF Fleet!DeviceRow
  <2>4. \A e \in Device : r3'[e] = Null => r3[e] = Null /\ e # d /\ r2'[e] = r2[e]
    BY <1>0, <2>1, <2>2
  <2>5. Fleet!Seen(r2', r3') /\ \A rows : Fleet!Seen(rows, r3) => Fleet!Seen(rows, r3')
    BY <1>0, <2>4 DEF Fleet!Seen
  <2> QED
    BY <1>0, <2>1, <2>3, <2>5 DEF Fleet!IInv, Fleet!TypeOK, Fleet!SeenHaveReadings, FleetGather
<1>2. ASSUME NEW d \in Device, NEW s \in Fleet!State, Fleet!Change(d, s)
      PROVE  Fleet!IInv'
  <2>1. r2' = [r2 EXCEPT ![d].state = s] /\ UNCHANGED <<r1, r3, r4, r5>>
    BY <1>2 DEF Fleet!Change
  <2>2. /\ r2' \in [Device -> Fleet!DeviceRow]
        /\ \A e \in Device : r2'[e].lastSeenAt = r2[e].lastSeenAt
    BY <1>0, <2>1 DEF Fleet!DeviceRow
  <2>3. Fleet!Seen(r2', r3)
    BY <1>0, <2>2 DEF Fleet!Seen
  <2> QED
    BY <1>0, <2>1, <2>2, <2>3 DEF Fleet!IInv, Fleet!TypeOK, Fleet!SeenHaveReadings, FleetGather
<1>3. CASE Fleet!Tick \/ \E m \in Threshold : Fleet!SetOfflineThreshold(m)
  <2>1. UNCHANGED <<r2, r3, r5>> /\ r1' \in Nat /\ r4' \in Threshold
    BY <1>0, <1>3 DEF Fleet!Tick, Fleet!SetOfflineThreshold
  <2> QED
    BY <1>0, <2>1 DEF Fleet!IInv, Fleet!TypeOK, Fleet!SeenHaveReadings, FleetGather
<1>4. ASSUME UNCHANGED <<r1, r2, r3, r4>>, r5' \in FleetGather,
             IF r5'.pc = "rows"
             THEN /\ r5'.device \in [Device -> Fleet!DeviceRow] /\ Fleet!Seen(r5'.device, r3)
                  /\ r5'.newest # Null => Fleet!Seen(r5'.device, r5'.newest)
             ELSE r5'.newest = Null
      PROVE  Fleet!IInv'
  BY <1>0, <1>4 DEF Fleet!IInv, Fleet!TypeOK, Fleet!SeenHaveReadings, FleetGather
<1>5. CASE Fleet!BeginSummary \/ Fleet!BeginList \/ Fleet!EndGather
  <2>1. UNCHANGED <<r1, r2, r3, r4>>
    BY <1>5 DEF Fleet!BeginSummary, Fleet!BeginList, Fleet!EndGather
  <2>2. r5' \in FleetGather /\ r5'.pc # "rows" /\ r5'.newest = Null
    <3>1. CASE Fleet!BeginSummary
      BY <1>0, <3>1 DEF Fleet!BeginSummary, Fleet!NoGather, FleetGather
    <3>2. CASE Fleet!BeginList
      BY <3>2 DEF Fleet!BeginList, Fleet!NoGather, FleetGather
    <3>3. CASE Fleet!EndGather
      BY <3>3 DEF Fleet!EndGather, Fleet!NoGather, FleetGather
    <3> QED
      BY <1>5, <3>1, <3>2, <3>3
  <2> QED
    BY <1>4, <2>1, <2>2
<1>6. CASE Fleet!FindDevices
  <2> DEFINE now == IF r5.what = "list" THEN r1 ELSE r5.now
  <2>1. UNCHANGED <<r1, r2, r3, r4>> /\ r5' = [r5 EXCEPT !.pc = "rows", !.device = r2, !.now = now]
    BY <1>6 DEF Fleet!FindDevices
  <2>2. now \in Nat /\ r5.newest = Null
    BY <1>0, <1>6 DEF FleetGather, Fleet!FindDevices
  <2> HIDE DEF now
  <2>3. r5' \in FleetGather /\ r5'.pc = "rows" /\ r5'.device = r2 /\ r5'.newest = r5.newest
    BY <1>0, <2>1, <2>2 DEF FleetGather
  <2> QED
    BY <1>0, <1>4, <2>1, <2>2, <2>3
<1>7. CASE Fleet!LatestReadings
  <2>1. UNCHANGED <<r1, r2, r3, r4>> /\ r5' = [r5 EXCEPT !.newest = r3] /\ r5.pc = "rows"
    BY <1>7 DEF Fleet!LatestReadings
  <2>2. r5' \in FleetGather /\ r5'.pc = r5.pc /\ r5'.device = r5.device /\ r5'.newest = r3
    BY <1>0, <2>1 DEF FleetGather
  <2> QED
    BY <1>0, <1>4, <2>1, <2>2
<1>8. CASE Fleet!ReadThreshold
  <2>1. UNCHANGED <<r1, r2, r3, r4>> /\ r5' = [r5 EXCEPT !.threshold = r4] /\ r5.pc = "rows"
    BY <1>8 DEF Fleet!ReadThreshold
  <2>2. r5' \in FleetGather /\ r5'.pc = r5.pc /\ r5'.device = r5.device /\ r5'.newest = r5.newest
    BY <1>0, <2>1 DEF FleetGather
  <2> QED
    BY <1>0, <1>4, <2>1, <2>2
<1> QED
  BY <1>1, <1>2, <1>3, <1>5, <1>6, <1>7, <1>8 DEF Fleet!Next

-----------------------------------------------------------------------------
(* The order of a facility's zones (Zones): place r1, slug r2, made r3, shown*)
(* r4, request r5, order r6, crossed r7, edits r8.  Zones stand as they were*)
(* ordered, and the place of one being made is no less than their number: a*)
(* list saved meanwhile does not reach it.                                 *)

\* A finite set of numbers that is not empty has a greatest: a smallest part of it that
\* had none would have one without any of its elements.
LEMMA GreatestIsThere ==
  ASSUME NEW S \in SUBSET Nat, IsFiniteSet(S), S # {}
  PROVE  \E m \in S : \A y \in S : m >= y
<1> DEFINE Greatest(T) == \E m \in T : \A y \in T : m >= y
           Wrong == {T \in SUBSET S : T # {} /\ ~Greatest(T)}
<1>1. SUFFICES ASSUME Wrong # {} PROVE FALSE
  OBVIOUS
<1>2. IsWellFoundedOn(StrictSubsetOrdering(S), SUBSET S)
  BY FS_FiniteSubsetsOfFinite, FS_StrictSubsetOrderingWellFounded
<1>3. PICK T \in Wrong : \A U \in Wrong : <<U, T>> \notin StrictSubsetOrdering(S)
  BY <1>1, <1>2, WFMin
<1>4. PICK x \in T : x \in Nat
  OBVIOUS
<1>5. <<T \ {x}, T>> \in StrictSubsetOrdering(S)
  BY <1>4 DEF StrictSubsetOrdering
<1>6. T \ {x} = {} \/ Greatest(T \ {x})
  BY <1>3, <1>5
<1>7. T \subseteq Nat /\ ~Greatest(T)
  OBVIOUS
<1>8. CASE T \ {x} = {}
  BY <1>4, <1>7, <1>8
<1>9. CASE Greatest(T \ {x})
  <2>1. PICK m \in T \ {x} : \A y \in T \ {x} : m >= y
    BY <1>9
  <2>2. x >= m \/ m >= x
    BY <1>4, <1>7, <2>1
  <2>3. CASE m >= x
    BY <1>7, <2>1, <2>3
  <2>4. CASE x >= m
    <3>1. \A y \in T : x >= y
      BY <1>4, <1>7, <2>1, <2>4
    <3> QED
      BY <1>4, <1>7, <3>1
  <2> QED
    BY <2>2, <2>3, <2>4
<1> QED
  BY <1>6, <1>8, <1>9

\* The instance counts as everybody does.
LEMMA ZonesCount == \A S : ZonesPage!Cardinality(S) = Cardinality(S)
BY DEF ZonesPage!Cardinality, Cardinality, ZonesPage!IsFiniteSet, IsFiniteSet

\* The zones of a facility are finitely many numbers.
LEMMA ZonesLive ==
  /\ ZonesPage!Zone \subseteq Nat /\ IsFiniteSet(ZonesPage!Zone)
  /\ ZonesPage!Live \subseteq ZonesPage!Zone /\ IsFiniteSet(ZonesPage!Live)
  /\ Cardinality(ZonesPage!Live) \in Nat
<1>1. ZonesPage!Zone \subseteq Nat /\ IsFiniteSet(ZonesPage!Zone)
  BY PageConstants, FS_Interval DEF ZonesPage!Zone
<1>2. ZonesPage!Live \subseteq ZonesPage!Zone
  BY DEF ZonesPage!Live
<1> QED
  BY <1>1, <1>2, FS_Subset, FS_CardinalityType

\* What the database may list: all zones, each once, by their places.
LEMMA ZonesListings ==
  ASSUME NEW s \in ZonesPage!Listings
  PROVE  /\ s \in Seq(ZonesPage!Zone) /\ DOMAIN s \subseteq Nat
         /\ \A i \in DOMAIN s : s[i] \in ZonesPage!Live
         /\ \A z \in ZonesPage!Live : \E i \in DOMAIN s : s[i] = z
         /\ \A i, j \in DOMAIN s : i # j => s[i] # s[j]
         /\ \A i, j \in DOMAIN s : i < j => r1[s[i]] <= r1[s[j]]
<1> DEFINE L == ZonesPage!Live
<1>1. /\ s \in [1 .. Cardinality(L) -> L]
      /\ \A i, j \in 1 .. Cardinality(L) : i # j => s[i] # s[j]
      /\ \A i, j \in DOMAIN s : i < j => r1[s[i]] <= r1[s[j]]
  BY ZonesCount DEF ZonesPage!Listings, ZonesPage!SetToSeqs
<1>2. IsFiniteSet(L) /\ L \subseteq ZonesPage!Zone
  BY ZonesLive
<1> HIDE DEF L
<1>3. s \in Seq(L) /\ Cardinality(L) \in Nat /\ \A z \in L : \E i \in 1 .. Cardinality(L) : s[i] = z
  BY <1>1, <1>2, ListHasAll
<1>4. DOMAIN s = 1 .. Cardinality(L) /\ s \in Seq(ZonesPage!Zone)
  BY <1>1, <1>2, <1>3
<1>5. \A i \in DOMAIN s : s[i] \in L
  BY <1>1
<1> QED
  BY <1>1, <1>3, <1>4, <1>5 DEF L

\* Every such list is the order, as long as the zones stand in it.
LEMMA ZonesAreWhole ==
  ASSUME ZonesPage!IInv
  PROVE  ZonesPage!OrdersAreWhole
<1>1. SUFFICES ASSUME ~r7, NEW s \in ZonesPage!Listings
      PROVE  ZonesPage!Pairs(s) = r6
  BY DEF ZonesPage!OrdersAreWhole
<1>2. /\ r6 = {o \in ZonesPage!Live \X ZonesPage!Live : r1[o[1]] < r1[o[2]]}
      /\ \A y, z \in ZonesPage!Live : r1[y] = r1[z] => y = z
  BY <1>1 DEF ZonesPage!IInv, ZonesPage!OrderIsKept
<1>3. \A z \in ZonesPage!Live : r1[z] \in Nat
  BY DEF ZonesPage!IInv, ZonesPage!TypeOK, ZonesPage!Live
<1>4. ASSUME NEW o \in ZonesPage!Pairs(s) PROVE o \in r6
  <2>1. PICK i \in DOMAIN s, j \in DOMAIN s : i < j /\ o = <<s[i], s[j]>>
    BY DEF ZonesPage!Pairs
  <2>2. s[i] \in ZonesPage!Live /\ s[j] \in ZonesPage!Live /\ s[i] # s[j] /\ r1[s[i]] <= r1[s[j]]
    BY <2>1, ZonesListings
  <2>3. r1[s[i]] < r1[s[j]]
    BY <1>2, <1>3, <2>2
  <2> QED
    BY <1>2, <2>1, <2>2, <2>3
<1>5. ASSUME NEW o \in r6 PROVE o \in ZonesPage!Pairs(s)
  <2>1. PICK y \in ZonesPage!Live, z \in ZonesPage!Live : o = <<y, z>> /\ r1[y] < r1[z]
    BY <1>2
  <2>2. PICK i \in DOMAIN s : s[i] = y
    BY ZonesListings
  <2>3. PICK j \in DOMAIN s : s[j] = z
    BY ZonesListings
  <2>4. i < j
    <3>1. i \in Nat /\ j \in Nat /\ r1[y] \in Nat /\ r1[z] \in Nat
      BY <1>3, ZonesListings
    <3>2. j < i => r1[z] <= r1[y]
      BY <2>2, <2>3, ZonesListings
    <3> QED
      BY <2>1, <2>2, <2>3, <3>1, <3>2
  <2> QED
    BY <2>1, <2>2, <2>3, <2>4, ZonesLive DEF ZonesPage!Pairs
<1> QED
  BY <1>4, <1>5

\* The two default zones stand in order.
LEMMA InitZones ==
  ASSUME ZonesPage!Init
  PROVE  ZonesPage!IInv
<1>1. /\ r1 = [z \in ZonesPage!Zone |-> IF z <= 2 THEN z - 1 ELSE Null]
      /\ r3 = 2 /\ r4 = [p \in Page |-> <<1, 2>>] /\ r5 = [p \in Page |-> ZonesPage!Idle]
      /\ r6 = {<<1, 2>>}
  BY DEF ZonesPage!Init
<1>2. ZonesPage!Zone \subseteq Nat \ {0} /\ 1 \in ZonesPage!Zone /\ 2 \in ZonesPage!Zone
  BY PageConstants DEF ZonesPage!Zone
<1>3. r1 \in [ZonesPage!Zone -> Nat \cup {Null}] /\ \A z \in ZonesPage!Zone : z > 2 => r1[z] = Null
  BY <1>1, <1>2
<1>4. r4 \in [Page -> Seq(ZonesPage!Zone)]
  BY <1>1, <1>2
<1>5. ZonesPage!Live = {1, 2} /\ r1[1] = 0 /\ r1[2] = 1
  <2>1. r1[1] = 0 /\ r1[2] = 1
    BY <1>1, <1>2
  <2>2. 0 # Null /\ 1 # Null
    BY PageConstants
  <2>3. \A z \in ZonesPage!Zone : r1[z] # Null => z \in {1, 2}
    BY <1>2, <1>3
  <2> QED
    BY <1>2, <2>1, <2>2, <2>3 DEF ZonesPage!Live
<1>6. ZonesPage!OrderIsKept
  BY <1>1, <1>5 DEF ZonesPage!OrderIsKept
<1>7. \A p \in Page : r5[p].pc = "idle"
  BY <1>1 DEF ZonesPage!Idle
<1> QED
  BY <1>1, <1>3, <1>4, <1>6, <1>7 DEF ZonesPage!IInv, ZonesPage!TypeOK, ZonesPage!NewComesLast

\* Requests that go on, end or fail leave the zones in their order.
LEMMA ZonesAwaited ==
  ASSUME ZonesPage!IInv, UNCHANGED <<r1, r3, r6, r7>>, r4' \in [Page -> Seq(ZonesPage!Zone)],
         NEW p \in Page, NEW r, r5' = [r5 EXCEPT ![p] = r], r.pc # "insert",
         r.pc \in {"sent", "saving"} => r.list \in Seq(ZonesPage!Zone)
  PROVE  ZonesPage!IInv'
<1>1. ZonesPage!Live' = ZonesPage!Live
  BY DEF ZonesPage!Live
<1>2. r5' = [q \in Page |-> r5'[q]] /\ r5'[p] = r /\ \A q \in Page : q # p => r5'[q] = r5[q]
  BY DEF ZonesPage!IInv, ZonesPage!TypeOK
<1>3. ZonesPage!TypeOK'
  BY <1>2 DEF ZonesPage!IInv, ZonesPage!TypeOK
<1>4. ~r7 => ZonesPage!OrderIsKept' /\ ZonesPage!NewComesLast'
  BY <1>1, <1>2, ZonesCount DEF ZonesPage!IInv, ZonesPage!OrderIsKept, ZonesPage!NewComesLast
<1> QED
  BY <1>3, <1>4 DEF ZonesPage!IInv

\* The place of a new zone, behind all there are.
LEMMA ZonesBegun ==
  ASSUME ZonesPage!IInv, NEW p \in Page, NEW name \in Name, ZonesPage!BeginCreate(p, name)
  PROVE  ZonesPage!IInv'
<1> DEFINE places == {r1[z] : z \in ZonesPage!Live}
           base == IF ZonesPage!Live = {} THEN 0 ELSE ZonesPage!Max(places) + 1
<1>1. /\ UNCHANGED <<r1, r3, r4, r6, r7>>
      /\ \E slug : r5' = [r5 EXCEPT ![p] = [ZonesPage!Idle EXCEPT !.pc = "insert", !.seen = r3,
                            !.zone = slug, !.base = base]]
  BY DEF ZonesPage!BeginCreate, ZonesPage!Set
<1>2. \A z \in ZonesPage!Live : r1[z] \in Nat
  BY DEF ZonesPage!IInv, ZonesPage!TypeOK, ZonesPage!Live
<1>3. places \subseteq Nat /\ IsFiniteSet(places)
  <2>1. places \subseteq Nat
    BY <1>2
  <2> DEFINE f == [z \in ZonesPage!Live |-> r1[z]]
  <2>2. f \in Surjection(ZonesPage!Live, places)
    BY DEF Surjection
  <2> HIDE DEF f, places
  <2> QED
    BY <2>1, <2>2, ZonesLive, FS_Surjection
<1>4. /\ base \in Nat /\ \A z \in ZonesPage!Live : r1[z] < base
  <2>1. CASE ZonesPage!Live = {}
    BY <2>1
  <2>2. CASE ZonesPage!Live # {}
    <3>1. places # {}
      BY <2>2
    <3> HIDE DEF places
    <3>2. \E m \in places : \A y \in places : m >= y
      BY <1>3, <3>1, GreatestIsThere
    <3>3. ZonesPage!Max(places) \in places /\ \A y \in places : ZonesPage!Max(places) >= y
      BY <3>2 DEF ZonesPage!Max
    <3>4. base = ZonesPage!Max(places) + 1 /\ base \in Nat /\ \A y \in places : y < base
      <4>1. base = ZonesPage!Max(places) + 1
        BY <2>2
      <4>2. ZonesPage!Max(places) \in Nat
        BY <1>3, <3>3
      <4>3. \A y \in places : y \in Nat /\ ZonesPage!Max(places) >= y
        BY <1>3, <3>3
      <4> HIDE DEF base
      <4> QED
        BY <4>1, <4>2, <4>3
    <3>5. \A z \in ZonesPage!Live : r1[z] \in places
      BY DEF places
    <3> HIDE DEF base
    <3> QED
      BY <3>4, <3>5
  <2> QED
    BY <2>1, <2>2
<1> HIDE DEF base
<1>5. (\A y, z \in ZonesPage!Live : r1[y] = r1[z] => y = z) => Cardinality(ZonesPage!Live) <= base
  <2>1. SUFFICES ASSUME \A y, z \in ZonesPage!Live : r1[y] = r1[z] => y = z
        PROVE  Cardinality(ZonesPage!Live) <= base
    OBVIOUS
  <2> DEFINE f == [z \in ZonesPage!Live |-> r1[z]]
  <2>2. f \in [ZonesPage!Live -> 0 .. base - 1]
    BY <1>2, <1>4
  <2>3. f \in Injection(ZonesPage!Live, 0 .. base - 1)
    BY <2>1, <2>2 DEF Injection, IsInjective
  <2>4. IsFiniteSet(0 .. base - 1) /\ Cardinality(0 .. base - 1) = base
    <3>1. 0 \in Int /\ base - 1 \in Int
      BY <1>4
    <3>2. Cardinality(0 .. base - 1) = IF 0 > base - 1 THEN 0 ELSE base - 1 - 0 + 1
      BY <3>1, FS_Interval
    <3>3. IsFiniteSet(0 .. base - 1)
      BY <3>1, FS_Interval
    <3> QED
      BY <1>4, <3>2, <3>3
  <2> HIDE DEF f
  <2> QED
    BY <2>3, <2>4, FS_Injection
<1>6. PICK slug : r5' = [r5 EXCEPT ![p] = [ZonesPage!Idle EXCEPT !.pc = "insert", !.seen = r3,
                          !.zone = slug, !.base = base]]
  BY <1>1
<1>7. /\ r5' = [q \in Page |-> r5'[q]] /\ \A q \in Page : q # p => r5'[q] = r5[q]
      /\ r5'[p].pc = "insert" /\ r5'[p].seen = r3 /\ r5'[p].base = base
  BY <1>6 DEF ZonesPage!IInv, ZonesPage!TypeOK, ZonesPage!Idle
<1>8. ZonesPage!TypeOK'
  BY <1>1, <1>4, <1>7 DEF ZonesPage!IInv, ZonesPage!TypeOK
<1>9. ZonesPage!Live' = ZonesPage!Live
  BY <1>1 DEF ZonesPage!Live
<1>10. ~r7 => ZonesPage!OrderIsKept'
  BY <1>1, <1>9 DEF ZonesPage!IInv, ZonesPage!OrderIsKept
<1>11. ~r7 => ZonesPage!NewComesLast'
  <2>1. SUFFICES ASSUME ~r7, NEW q \in Page, r5'[q].pc = "insert", r5'[q].seen = r3
        PROVE  /\ \A z \in ZonesPage!Live : r1[z] < r5'[q].base
               /\ Cardinality(ZonesPage!Live) <= r5'[q].base
    BY <1>1, <1>9, ZonesCount DEF ZonesPage!NewComesLast
  <2>2. \A y, z \in ZonesPage!Live : r1[y] = r1[z] => y = z
    BY <2>1 DEF ZonesPage!IInv, ZonesPage!OrderIsKept
  <2>3. CASE q = p
    BY <1>4, <1>5, <1>7, <2>2, <2>3
  <2>4. CASE q # p
    BY <1>7, <2>1, <2>4, ZonesCount DEF ZonesPage!IInv, ZonesPage!NewComesLast
  <2> QED
    BY <2>3, <2>4
<1> QED
  BY <1>1, <1>8, <1>10, <1>11 DEF ZonesPage!IInv

\* A list that is complete when it is saved is the new order, and no place in it reaches
\* the number of zones.
LEMMA ZonesSaved ==
  ASSUME ZonesPage!IInv, NEW p \in Page, ZonesPage!CommitOrder(p),
         ZonesPage!ToSet(r5[p].list) \subseteq ZonesPage!Live
  PROVE  ZonesPage!IInv'
<1> DEFINE list == r5[p].list
           at(z) == CHOOSE k \in DOMAIN list : list[k] = z
<1>1. /\ r5[p].pc = "saving" /\ UNCHANGED <<r2, r3, r4>>
      /\ r1' = [z \in ZonesPage!Zone |-> IF z \in ZonesPage!ToSet(list) THEN at(z) - 1 ELSE r1[z]]
      /\ r6' = ZonesPage!Pairs(list) /\ r7' = (r7 \/ ~ZonesPage!Complete(list))
      /\ r5' = [r5 EXCEPT ![p] = [ZonesPage!Idle EXCEPT !.pc = "refresh"]]
  BY DEF ZonesPage!CommitOrder, ZonesPage!Set
<1>2. list \in Seq(ZonesPage!Zone)
  BY <1>1 DEF ZonesPage!IInv, ZonesPage!TypeOK
<1>3. ASSUME NEW z \in ZonesPage!ToSet(list)
      PROVE  at(z) \in DOMAIN list /\ list[at(z)] = z /\ at(z) - 1 \in Nat
  <2>1. \E k \in DOMAIN list : list[k] = z
    BY DEF ZonesPage!ToSet
  <2>2. at(z) \in DOMAIN list /\ list[at(z)] = z
    BY <2>1
  <2>3. DOMAIN list \subseteq Nat \ {0}
    <3> HIDE DEF list
    <3> QED
      BY <1>2
  <2> HIDE DEF at, list
  <2> QED
    BY <2>2, <2>3
<1>4. ZonesPage!Live' = ZonesPage!Live
  <2>1. \A z \in ZonesPage!ToSet(list) : z \in ZonesPage!Live
    OBVIOUS
  <2>2. ASSUME NEW z \in ZonesPage!Zone PROVE r1'[z] # Null <=> r1[z] # Null
    <3>1. CASE z \in ZonesPage!ToSet(list)
      <4>1. r1'[z] = at(z) - 1
        BY <1>1, <3>1
      <4>2. r1'[z] \in Nat
        BY <1>3, <3>1, <4>1
      <4> QED
        BY <2>1, <3>1, <4>2, PageConstants DEF ZonesPage!Live
    <3>2. CASE z \notin ZonesPage!ToSet(list)
      BY <1>1, <3>2
    <3> QED
      BY <3>1, <3>2
  <2> QED
    BY <2>2 DEF ZonesPage!Live
<1> HIDE DEF at
<1>5. /\ r5' = [q \in Page |-> r5'[q]] /\ \A q \in Page : q # p => r5'[q] = r5[q]
      /\ r5'[p].pc = "refresh"
  BY <1>1 DEF ZonesPage!IInv, ZonesPage!TypeOK, ZonesPage!Idle
<1>6. ZonesPage!TypeOK'
  <2>1. r1' \in [ZonesPage!Zone -> Nat \cup {Null}]
    BY <1>1, <1>3 DEF ZonesPage!IInv, ZonesPage!TypeOK
  <2>2. \A z \in ZonesPage!Zone : z > r3 => r1'[z] = Null
    BY <1>4 DEF ZonesPage!IInv, ZonesPage!TypeOK, ZonesPage!Live
  <2> QED
    BY <1>1, <1>5, <2>1, <2>2 DEF ZonesPage!IInv, ZonesPage!TypeOK
<1>7. ASSUME ~r7' PROVE ZonesPage!OrderIsKept' /\ ZonesPage!NewComesLast'
  <2> DEFINE L == ZonesPage!Live
  <2>1. /\ ZonesPage!ToSet(list) = L
        /\ \A i, j \in DOMAIN list : i # j => list[i] # list[j]
        /\ ~r7
    BY <1>1, <1>7 DEF ZonesPage!Complete, ZonesPage!IsInjective
  <2>2. \A z \in L : at(z) \in DOMAIN list /\ list[at(z)] = z /\ r1'[z] = at(z) - 1
    BY <1>1, <1>3, <2>1, ZonesLive
  <2>3. DOMAIN list = 1 .. Len(list) /\ Len(list) \in Nat
    <3> HIDE DEF list
    <3> QED
      BY <1>2
  <2>4. \A y, z \in L : r1'[y] = r1'[z] => y = z
    <3> HIDE DEF L, list
    <3> QED
      BY <2>2, <2>3
  <2>5. \A i \in DOMAIN list : list[i] \in L /\ at(list[i]) = i
    <3>1. \A i \in DOMAIN list : list[i] \in L
      BY <2>1 DEF ZonesPage!ToSet
    <3> HIDE DEF L, list
    <3> QED
      BY <2>1, <2>2, <3>1
  <2>6. ZonesPage!Pairs(list) = {o \in L \X L : r1'[o[1]] < r1'[o[2]]}
    <3>1. ASSUME NEW o \in ZonesPage!Pairs(list)
          PROVE  o \in L \X L /\ r1'[o[1]] < r1'[o[2]]
      <4>1. PICK i \in DOMAIN list, j \in DOMAIN list : i < j /\ o = <<list[i], list[j]>>
        BY DEF ZonesPage!Pairs
      <4> HIDE DEF L, list
      <4>2. o \in L \X L /\ o[1] = list[i] /\ o[2] = list[j]
        BY <2>5, <4>1
      <4>3. r1'[list[i]] = i - 1 /\ r1'[list[j]] = j - 1
        BY <2>2, <2>5
      <4> QED
        BY <2>3, <4>1, <4>2, <4>3
    <3>2. ASSUME NEW y \in L, NEW z \in L, r1'[y] < r1'[z]
          PROVE  <<y, z>> \in ZonesPage!Pairs(list)
      <4>1. at(y) < at(z)
        <5> HIDE DEF L, list
        <5> QED
          BY <2>2, <2>3, <3>2
      <4>2. y \in ZonesPage!Zone /\ z \in ZonesPage!Zone
        BY ZonesLive
      <4>3. /\ at(y) \in DOMAIN list /\ list[at(y)] = y
            /\ at(z) \in DOMAIN list /\ list[at(z)] = z
        BY <2>2
      <4> HIDE DEF L, list
      <4> QED
        BY <4>1, <4>2, <4>3 DEF ZonesPage!Pairs
    <3> HIDE DEF L, list
    <3> QED
      BY <3>1, <3>2
  <2>7. ZonesPage!OrderIsKept'
    BY <1>1, <1>4, <2>4, <2>6 DEF ZonesPage!OrderIsKept
  <2>8. Len(list) = Cardinality(L)
    <3>1. list \in Bijection(1 .. Len(list), L)
      <4>1. list \in [1 .. Len(list) -> L]
        BY <1>2, <2>3, <2>5
      <4> HIDE DEF L, list
      <4> QED
        BY <2>1, <2>2, <2>3, <4>1 DEF Bijection, Injection, Surjection, IsInjective
    <3> HIDE DEF L, list
    <3> QED
      BY <2>3, <3>1, FS_CountingElements DEF ExistsBijection
  <2>9. ASSUME NEW q \in Page, r5'[q].pc = "insert", r5'[q].seen = r3
        PROVE  /\ \A z \in L : r1'[z] < r5'[q].base
               /\ Cardinality(L) <= r5'[q].base
    <3>1. q # p /\ r5'[q] = r5[q]
      BY <1>5, <2>9
    <3>2. Cardinality(L) <= r5[q].base /\ r5[q].base \in Nat
      BY <2>1, <2>9, <3>1, ZonesCount DEF ZonesPage!IInv, ZonesPage!NewComesLast, ZonesPage!TypeOK
    <3> HIDE DEF L, list
    <3>3. \A z \in L : r1'[z] < Len(list)
      BY <2>2, <2>3
    <3>4. \A z \in L : r1'[z] < r5[q].base
      BY <2>2, <2>3, <2>8, <3>2, <3>3
    <3> QED
      BY <3>1, <3>2, <3>4
  <2>10. ZonesPage!NewComesLast'
    BY <1>1, <1>4, <2>9, ZonesCount DEF ZonesPage!NewComesLast
  <2> QED
    BY <2>7, <2>10
<1> QED
  BY <1>6, <1>7 DEF ZonesPage!IInv

\* A new zone stands behind all others, if none was made since they were read.
LEMMA ZonesInserted ==
  ASSUME ZonesPage!IInv, NEW p \in Page, ZonesPage!InsertZone(p),
         ~ZonesPage!SlugTaken(r5[p].zone)
  PROVE  ZonesPage!IInv'
<1> DEFINE new == r3 + 1
           base == r5[p].base
           L == ZonesPage!Live
<1>1. /\ r5[p].pc = "insert" /\ r3 < MaxZones /\ r3' = new /\ UNCHANGED r4
      /\ r1' = [r1 EXCEPT ![new] = base] /\ r6' = r6 \cup (L \X {new})
      /\ r7' = (r7 \/ r3 # r5[p].seen)
      /\ r5' = [r5 EXCEPT ![p] = [ZonesPage!Idle EXCEPT !.pc = "refresh"]]
  BY DEF ZonesPage!InsertZone, ZonesPage!Set
<1>2. r3 \in Nat /\ new \in ZonesPage!Zone /\ new \in Nat /\ base \in Nat /\ base # Null
  <2>1. r3 \in Nat /\ base \in Nat
    BY <1>1 DEF ZonesPage!IInv, ZonesPage!TypeOK
  <2>2. new \in 1 .. MaxZones
    BY <1>1, <2>1, PageConstants
  <2> QED
    BY <2>1, <2>2, PageConstants DEF ZonesPage!Zone
<1>3. r1 \in [ZonesPage!Zone -> Nat \cup {Null}] /\ \A z \in ZonesPage!Zone : z > r3 => r1[z] = Null
  BY DEF ZonesPage!IInv, ZonesPage!TypeOK
<1>4. new \notin L /\ L \subseteq ZonesPage!Zone /\ \A z \in L : r1[z] \in Nat
  BY <1>2, <1>3 DEF ZonesPage!Live
<1> HIDE DEF base
<1>5. /\ r1' \in [ZonesPage!Zone -> Nat \cup {Null}] /\ r1'[new] = base
      /\ \A z \in ZonesPage!Zone : z # new => r1'[z] = r1[z]
  BY <1>1, <1>2, <1>3
<1>6. ZonesPage!Live' = L \cup {new}
  <2> HIDE DEF new
  <2> QED
    BY <1>2, <1>5 DEF ZonesPage!Live
<1>7. /\ r5' = [q \in Page |-> r5'[q]] /\ \A q \in Page : q # p => r5'[q] = r5[q]
      /\ r5'[p].pc = "refresh"
  BY <1>1 DEF ZonesPage!IInv, ZonesPage!TypeOK, ZonesPage!Idle
<1>8. ZonesPage!TypeOK'
  <2>1. \A z \in ZonesPage!Zone : z > new => r1'[z] = Null
    <3>1. \A z \in ZonesPage!Zone : z > new => z > r3 /\ z # new
      BY <1>2, ZonesLive
    <3> QED
      BY <1>3, <1>5, <3>1
  <2>2. ASSUME NEW q \in Page, r5'[q].pc = "insert"
        PROVE  r5'[q].base \in Nat /\ r5'[q].seen \in Nat /\ r5'[q].seen <= new
    <3>1. r5'[q] = r5[q] /\ r5[q].pc = "insert"
      BY <1>7, <2>2
    <3>2. r5[q].base \in Nat /\ r5[q].seen \in Nat /\ r5[q].seen <= r3
      BY <3>1 DEF ZonesPage!IInv, ZonesPage!TypeOK
    <3> QED
      BY <1>2, <3>1, <3>2
  <2>3. ASSUME NEW q \in Page, r5'[q].pc \in {"sent", "saving"}
        PROVE  r5'[q].list \in Seq(ZonesPage!Zone)
    BY <1>7, <2>3 DEF ZonesPage!IInv, ZonesPage!TypeOK
  <2> HIDE DEF new
  <2> QED
    BY <1>1, <1>2, <1>5, <1>7, <2>1, <2>2, <2>3 DEF ZonesPage!IInv, ZonesPage!TypeOK
<1>9. ASSUME ~r7' PROVE ZonesPage!OrderIsKept' /\ ZonesPage!NewComesLast'
  <2>1. ~r7 /\ r5[p].seen = r3
    BY <1>1, <1>9
  <2>2. \A z \in L : r1[z] < base
    BY <1>1, <2>1 DEF ZonesPage!IInv, ZonesPage!NewComesLast, base
  <2>3. /\ r6 = {o \in L \X L : r1[o[1]] < r1[o[2]]}
        /\ \A y, z \in L : r1[y] = r1[z] => y = z
    BY <2>1 DEF ZonesPage!IInv, ZonesPage!OrderIsKept
  <2> HIDE DEF L, new
  <2>4. \A z \in L : r1'[z] = r1[z] /\ z # new
    BY <1>4, <1>5
  <2>5. \A y, z \in L \cup {new} : r1'[y] = r1'[z] => y = z
    BY <1>2, <1>4, <1>5, <2>2, <2>3, <2>4
  <2>6. r6' = {o \in (L \cup {new}) \X (L \cup {new}) : r1'[o[1]] < r1'[o[2]]}
    <3>1. ASSUME NEW y \in L \cup {new}, NEW z \in L \cup {new}
          PROVE  r1'[y] < r1'[z] <=> (y \in L /\ z \in L /\ r1[y] < r1[z]) \/ (y \in L /\ z = new)
      BY <1>2, <1>4, <1>5, <2>2, <2>4
    <3> QED
      BY <1>1, <1>4, <2>3, <3>1
  <2>7. ZonesPage!OrderIsKept'
    BY <1>6, <2>5, <2>6 DEF ZonesPage!OrderIsKept
  <2>8. ASSUME NEW q \in Page, r5'[q].pc = "insert" PROVE r5'[q].seen # r3'
    <3>1. q # p /\ r5'[q] = r5[q]
      BY <1>7, <2>8
    <3>2. r5[q].seen \in Nat /\ r5[q].seen <= r3
      BY <2>8, <3>1 DEF ZonesPage!IInv, ZonesPage!TypeOK
    <3>3. r3' = r3 + 1
      BY <1>1 DEF new
    <3> QED
      BY <1>2, <3>1, <3>2, <3>3
  <2> QED
    BY <2>7, <2>8 DEF ZonesPage!NewComesLast
<1> QED
  BY <1>8, <1>9 DEF ZonesPage!IInv

\* A zone that goes leaves the others where they stand.
LEMMA ZonesRemoved ==
  ASSUME ZonesPage!IInv, NEW p \in Page, NEW z \in ZonesPage!Zone, ZonesPage!RemoveZone(p, z)
  PROVE  ZonesPage!IInv'
<1> DEFINE L == ZonesPage!Live
<1>1. /\ z \in L /\ UNCHANGED <<r3, r4, r7>>
      /\ r1' = [r1 EXCEPT ![z] = Null]
      /\ r6' = {o \in r6 : z \notin {o[1], o[2]}}
      /\ r5' = [r5 EXCEPT ![p] = [ZonesPage!Idle EXCEPT !.pc = "refresh"]]
  BY DEF ZonesPage!RemoveZone, ZonesPage!Set
<1>2. /\ r1 \in [ZonesPage!Zone -> Nat \cup {Null}] /\ r3 \in Nat
      /\ \A y \in ZonesPage!Zone : y > r3 => r1[y] = Null
  BY DEF ZonesPage!IInv, ZonesPage!TypeOK
<1>3. /\ r1' \in [ZonesPage!Zone -> Nat \cup {Null}] /\ r1'[z] = Null
      /\ \A y \in ZonesPage!Zone : y # z => r1'[y] = r1[y]
  BY <1>1, <1>2
<1>4. ZonesPage!Live' = L \ {z}
  BY <1>3 DEF ZonesPage!Live
<1>5. /\ r5' = [q \in Page |-> r5'[q]] /\ \A q \in Page : q # p => r5'[q] = r5[q]
      /\ r5'[p].pc = "refresh"
  BY <1>1 DEF ZonesPage!IInv, ZonesPage!TypeOK, ZonesPage!Idle
<1>6. ZonesPage!TypeOK'
  <2>1. \A y \in ZonesPage!Zone : y > r3 => r1'[y] = Null
    BY <1>2, <1>3
  <2> QED
    BY <1>1, <1>3, <1>5, <2>1 DEF ZonesPage!IInv, ZonesPage!TypeOK
<1>7. L \subseteq ZonesPage!Zone /\ IsFiniteSet(L) /\ Cardinality(L) \in Nat
  BY ZonesLive
<1>8. ASSUME ~r7 PROVE ZonesPage!OrderIsKept' /\ ZonesPage!NewComesLast'
  <2>1. /\ r6 = {o \in L \X L : r1[o[1]] < r1[o[2]]}
        /\ \A x, y \in L : r1[x] = r1[y] => x = y
    BY <1>8 DEF ZonesPage!IInv, ZonesPage!OrderIsKept
  <2>2. ASSUME NEW q \in Page, r5'[q].pc = "insert", r5'[q].seen = r3
        PROVE  /\ \A y \in L : r1[y] < r5'[q].base
               /\ Cardinality(L) <= r5'[q].base /\ r5'[q].base \in Nat
    <3>1. q # p /\ r5'[q] = r5[q]
      BY <1>5, <2>2
    <3> QED
      BY <1>8, <2>2, <3>1, ZonesCount
         DEF ZonesPage!IInv, ZonesPage!NewComesLast, ZonesPage!TypeOK
  <2> HIDE DEF L
  <2>3. \A y \in L \ {z} : r1'[y] = r1[y]
    BY <1>3, <1>7
  <2>4. r6' = {o \in (L \ {z}) \X (L \ {z}) : r1'[o[1]] < r1'[o[2]]}
    BY <1>1, <2>1, <2>3
  <2>5. \A x, y \in L \ {z} : r1'[x] = r1'[y] => x = y
    BY <2>1, <2>3
  <2>6. ZonesPage!OrderIsKept'
    BY <1>4, <2>4, <2>5 DEF ZonesPage!OrderIsKept
  <2>7. Cardinality(L \ {z}) \in Nat /\ Cardinality(L \ {z}) <= Cardinality(L)
    BY <1>7, FS_Subset, FS_CardinalityType
  <2>8. ASSUME NEW q \in Page, r5'[q].pc = "insert", r5'[q].seen = r3
        PROVE  /\ \A y \in L \ {z} : r1'[y] < r5'[q].base
               /\ Cardinality(L \ {z}) <= r5'[q].base
    BY <1>7, <2>2, <2>3, <2>7, <2>8
  <2>9. ZonesPage!NewComesLast'
    BY <1>1, <1>4, <2>8, ZonesCount DEF ZonesPage!NewComesLast
  <2> QED
    BY <2>6, <2>9
<1> QED
  BY <1>1, <1>6, <1>8 DEF ZonesPage!IInv

\* Two zones of a list change places.
LEMMA ZonesMoved ==
  ASSUME NEW list \in Seq(ZonesPage!Zone), NEW i \in DOMAIN list, NEW d
  PROVE  ZonesPage!Moved(list, i, d) \in Seq(ZonesPage!Zone)
<1>1. list \in [1 .. Len(list) -> ZonesPage!Zone] /\ Len(list) \in Nat
  OBVIOUS
<1>2. CASE i + d \in DOMAIN list
  <2>1. list[i] \in ZonesPage!Zone /\ list[i + d] \in ZonesPage!Zone
    BY <1>1, <1>2
  <2>2. ZonesPage!Moved(list, i, d) \in [1 .. Len(list) -> ZonesPage!Zone]
    BY <1>1, <1>2, <2>1 DEF ZonesPage!Moved
  <2> QED
    BY <1>1, <2>2
<1>3. CASE i + d \notin DOMAIN list
  BY <1>3 DEF ZonesPage!Moved
<1> QED
  BY <1>2, <1>3

\* Every step of a page and of the database keeps the invariant.
LEMMA NextZones ==
  ASSUME ZonesPage!IInv, ZonesPage!Next
  PROVE  ZonesPage!IInv'
<1>1. PICK p \in Page :
        \/ \E i \in ZonesPage!Zone, down \in BOOLEAN : ZonesPage!Move(p, i, down)
        \/ ZonesPage!CheckList(p) \/ ZonesPage!Renumber(p) \/ ZonesPage!CommitOrder(p)
        \/ \E name \in Name : ZonesPage!BeginCreate(p, name)
        \/ ZonesPage!InsertZone(p)
        \/ \E z \in ZonesPage!Zone : ZonesPage!RemoveZone(p, z)
        \/ ZonesPage!Refresh(p) \/ ZonesPage!Fail(p)
  BY DEF ZonesPage!Next
<1>2. /\ r4 \in [Page -> Seq(ZonesPage!Zone)]
      /\ r5[p].pc \in {"sent", "saving"} => r5[p].list \in Seq(ZonesPage!Zone)
  BY DEF ZonesPage!IInv, ZonesPage!TypeOK
<1> DEFINE Awaits(r) == /\ r5' = [r5 EXCEPT ![p] = r]
                        /\ r.pc # "insert" /\ (r.pc \in {"sent", "saving"} => r.list \in Seq(ZonesPage!Zone))
           Stays == UNCHANGED <<r1, r3, r6, r7>> /\ r4' \in [Page -> Seq(ZonesPage!Zone)]
<1>3. ASSUME Stays, \E r : Awaits(r) PROVE ZonesPage!IInv'
  BY <1>3, ZonesAwaited
<1>4. ZonesPage!Idle.pc = "idle"
  BY DEF ZonesPage!Idle
<1>5. ASSUME NEW i \in ZonesPage!Zone, NEW down \in BOOLEAN, ZonesPage!Move(p, i, down)
      PROVE  ZonesPage!IInv'
  <2> DEFINE j == IF down THEN i ELSE i - 1
             r == [ZonesPage!Idle EXCEPT !.pc = "sent", !.list = ZonesPage!Moved(r4[p], j, 1)]
  <2>1. Stays /\ r5' = [r5 EXCEPT ![p] = r]
    BY <1>2, <1>5 DEF ZonesPage!Move, ZonesPage!Set
  <2>2. j \in DOMAIN r4[p]
    <3>1. i \in 1 .. Len(r4[p]) /\ Len(r4[p]) \in Nat /\ DOMAIN r4[p] = 1 .. Len(r4[p])
      BY <1>2, <1>5 DEF ZonesPage!Move
    <3>2. ~down => i > 1
      BY <1>5 DEF ZonesPage!Move
    <3> QED
      BY <3>1, <3>2
  <2>3. ZonesPage!Moved(r4[p], j, 1) \in Seq(ZonesPage!Zone)
    BY <1>2, <2>2, ZonesMoved
  <2>4. r.pc = "sent" /\ r.list = ZonesPage!Moved(r4[p], j, 1)
    BY DEF ZonesPage!Idle
  <2>5. Awaits(r)
    BY <2>1, <2>3, <2>4
  <2> QED
    BY <1>3, <2>1, <2>5
<1>6. CASE ZonesPage!CheckList(p)
  <2> DEFINE r == [ZonesPage!Idle EXCEPT !.pc = "saving", !.list = r5[p].list]
  <2>1. /\ Stays /\ r5[p].pc = "sent"
        /\ r5' = [r5 EXCEPT ![p] = r] \/ r5' = [r5 EXCEPT ![p] = ZonesPage!Idle]
    BY <1>2, <1>6 DEF ZonesPage!CheckList, ZonesPage!Set
  <2>2. r.pc = "saving" /\ r.list = r5[p].list
    BY DEF ZonesPage!Idle
  <2>3. Awaits(r) \/ Awaits(ZonesPage!Idle)
    BY <1>2, <1>4, <2>1, <2>2
  <2> QED
    BY <1>3, <2>1, <2>3
<1>7. CASE ZonesPage!Renumber(p)
  <2> DEFINE r == [ZonesPage!Idle EXCEPT !.pc = "saving", !.list = r5[p].list, !.done = r5[p].done + 1]
  <2>1. /\ Stays /\ r5[p].pc = "saving"
        /\ r5' = [r5 EXCEPT ![p] = r] \/ r5' = [r5 EXCEPT ![p] = ZonesPage!Idle]
    BY <1>2, <1>7 DEF ZonesPage!Renumber, ZonesPage!Set, ZonesPage!AfterUpdate
  <2>2. r.pc = "saving" /\ r.list = r5[p].list
    BY DEF ZonesPage!Idle
  <2>3. Awaits(r) \/ Awaits(ZonesPage!Idle)
    BY <1>2, <1>4, <2>1, <2>2
  <2> QED
    BY <1>3, <2>1, <2>3
<1>8. CASE ZonesPage!CommitOrder(p)
  <2>1. CASE ZonesPage!ToSet(r5[p].list) \subseteq ZonesPage!Live
    BY <1>8, <2>1, ZonesSaved
  <2>2. CASE ~(ZonesPage!ToSet(r5[p].list) \subseteq ZonesPage!Live)
    <3>1. Stays /\ r5' = [r5 EXCEPT ![p] = ZonesPage!Idle]
      BY <1>2, <1>8, <2>2 DEF ZonesPage!CommitOrder, ZonesPage!Set
    <3>2. Awaits(ZonesPage!Idle)
      BY <1>4, <3>1
    <3> QED
      BY <1>3, <3>1, <3>2
  <2> QED
    BY <2>1, <2>2
<1>9. CASE ZonesPage!InsertZone(p)
  <2>1. CASE ~ZonesPage!SlugTaken(r5[p].zone)
    BY <1>9, <2>1, ZonesInserted
  <2>2. CASE ZonesPage!SlugTaken(r5[p].zone)
    <3>1. Stays /\ r5' = [r5 EXCEPT ![p] = ZonesPage!Idle]
      BY <1>2, <1>9, <2>2 DEF ZonesPage!InsertZone, ZonesPage!Set
    <3>2. Awaits(ZonesPage!Idle)
      BY <1>4, <3>1
    <3> QED
      BY <1>3, <3>1, <3>2
  <2> QED
    BY <2>1, <2>2
<1>10. CASE ZonesPage!Refresh(p)
  <2>1. PICK s \in ZonesPage!Listings : r4' = [r4 EXCEPT ![p] = s]
    BY <1>10 DEF ZonesPage!Refresh
  <2>2. s \in Seq(ZonesPage!Zone)
    BY ZonesListings
  <2>3. Stays /\ r5' = [r5 EXCEPT ![p] = ZonesPage!Idle]
    BY <1>2, <1>10, <2>1, <2>2 DEF ZonesPage!Refresh, ZonesPage!Set
  <2>4. Awaits(ZonesPage!Idle)
    BY <1>4, <2>3
  <2> QED
    BY <1>3, <2>3, <2>4
<1>11. CASE ZonesPage!Fail(p)
  <2>1. Stays /\ r5' = [r5 EXCEPT ![p] = ZonesPage!Idle]
    BY <1>2, <1>11 DEF ZonesPage!Fail, ZonesPage!Set
  <2>2. Awaits(ZonesPage!Idle)
    BY <1>4, <2>1
  <2> QED
    BY <1>3, <2>1, <2>2
<1> QED
  BY <1>1, <1>5, <1>6, <1>7, <1>8, <1>9, <1>10, <1>11, ZonesBegun, ZonesRemoved

-----------------------------------------------------------------------------
(* The whole: the component the behaviour is of keeps its invariant, and the*)
(* others have nothing to keep.                                            *)

\* The inductive invariant of the component the behaviour is of.
PagesInv ==
  /\ subject = "invite" => Invite!IInv
  /\ subject = "recorder" => Recorder!IInv
  /\ subject = "voice" => Voice!IInv
  /\ subject = "scan" => Scan!IInv
  /\ subject = "intake" => Intaking!IInv
  /\ subject = "shipment" => Shipment!IInv
  /\ subject = "onboarding" => Onboard!IInv
  /\ subject = "modules" => Modules!IInv
  /\ subject = "builder" => Builder!IInv
  /\ subject = "settings" => Settings!IInv
  /\ subject = "zone" => Zone!IInv
  /\ subject = "dashboard" => Board!IInv
  /\ subject = "fleet" => Fleet!IInv
  /\ subject = "zones" => ZonesPage!IInv

\* Each component begins in its invariant.
LEMMA InitPages == Init => PagesInv
BY InitInvite, InitRecorder, InitVoice, InitScan, InitIntake, InitShipment, InitOnboard, InitModules,
   InitBuilder, InitSettings, InitZone, InitBoard, InitFleet, InitZones DEF Init, PagesInv

\* A step that changes no register changes no invariant.
LEMMA StutterPages ==
  ASSUME PagesInv, UNCHANGED <<subject, r1, r2, r3, r4, r5, r6, r7, r8, r9>>
  PROVE  PagesInv'
<1>1. Invite!IInv => Invite!IInv'
  BY DEF Invite!IInv, Invite!TypeOK, Invite!SessionsAreAwaited, Invite!Place
<1>2. Recorder!IInv => Recorder!IInv'
  BY DEF Recorder!IInv, Recorder!TypeOK, Recorder!OneCall, Recorder!OneThing, Recorder!OpenIsNeeded,
         Recorder!Underway, Recorder!Call
<1>3. ASSUME Voice!IInv PROVE Voice!IInv'
  <2>1. Voice!TypeOK'
    BY <1>3, VoiceFacts, VoiceTypes
  <2> QED
    BY <1>3, <2>1 DEF Voice!IInv, Voice!AnswersAreExplained, Voice!Says, Voice!Implied,
                      Voice!RowsAreSpoken
<1>4. Scan!IInv => Scan!IInv'
  BY ZenonT(60) DEF Scan!IInv, Scan!TypeOK, Scan!LastIsLive, Scan!CallsAreOfTheCode, Scan!CodeIsThere,
         Scan!AnswersAreOfTheCode, Scan!CameraShown, Scan!Underway
<1>5. Intaking!IInv => Intaking!IInv'
  BY DEF Intaking!IInv, Intaking!TypeOK, Intaking!Spoken, Intaking!Typed, Intaking!StoredIsExplained,
         Intaking!Rows, Intaking!PickedIsShown
<1>6. Shipment!IInv => Shipment!IInv'
  BY DEF Shipment!IInv, Shipment!TypeOK, Shipment!RequestsAreOwn, Shipment!LoopsHaveNoRow,
         Shipment!OneRowPerSubmission
<1>7. Onboard!IInv => Onboard!IInv'
  BY DEF Onboard!IInv, Onboard!TypeOK, Onboard!CallsAreOfTheStep, Onboard!OrgsAreThere,
         Onboard!StepsAreEarned
<1>8. Modules!IInv => Modules!IInv'
  BY DEF Modules!IInv, Modules!TypeOK, Modules!ListsAreTrue, Modules!SettledShowsTheTruth,
         Modules!Pending, Modules!GivenUp
<1>9. Builder!IInv => Builder!IInv'
  BY DEF Builder!IInv, Builder!TypeOK, Builder!SectionRow, Builder!FieldRow, Builder!Usable,
         Builder!IdsAreApart
<1>10. Settings!IInv => Settings!IInv'
  BY DEF Settings!IInv, Settings!ManagersAreTold, Settings!Accounted
<1>11. Zone!IInv => Zone!IInv'
  BY DEF Zone!IInv, Zone!TypeOK, Zone!QueriesAreAsked, Zone!AnswersAreTrue, Zone!ValidLinksStay,
         Zone!SensorsAvailable, Zone!ModulesReady, Zone!HasModule, Zone!NeverAsked
<1>12. ASSUME Board!IInv PROVE Board!IInv'
  BY <1>12, BoardKept DEF Board!IInv, Board!TypeOK, Board!RunningComeFirst, Board!FiguresAreOfNow
<1>13. Fleet!IInv => Fleet!IInv'
  BY DEF Fleet!IInv, Fleet!TypeOK, Fleet!SeenHaveReadings, Fleet!Seen
<1>14. ZonesPage!IInv => ZonesPage!IInv'
  BY DEF ZonesPage!IInv, ZonesPage!TypeOK, ZonesPage!OrderIsKept, ZonesPage!NewComesLast,
         ZonesPage!Live
<1> QED
  BY <1>1, <1>2, <1>3, <1>4, <1>5, <1>6, <1>7, <1>8, <1>9, <1>10, <1>11, <1>12, <1>13, <1>14
     DEF PagesInv

\* A step is of the component the behaviour is of, and keeps its invariant.
LEMMA NextPages == PagesInv /\ Next => PagesInv'
<1> SUFFICES ASSUME PagesInv, Next PROVE PagesInv'
  OBVIOUS
<1> USE DEF PagesInv, Keeps4, Keeps5, Keeps6, Keeps7, Keeps8, Keeps9
<1>1. CASE InviteStep
  BY <1>1, NextInvite DEF InviteStep
<1>2. CASE RecorderStep
  BY <1>2, NextRecorder DEF RecorderStep
<1>3. CASE VoiceStep
  BY <1>3, NextVoice DEF VoiceStep
<1>4. CASE ScanStep
  BY <1>4, NextScan DEF ScanStep
<1>5. CASE IntakingStep
  BY <1>5, NextIntake DEF IntakingStep
<1>6. CASE ShipmentStep
  BY <1>6, NextShipment DEF ShipmentStep
<1>7. CASE OnboardStep
  BY <1>7, NextOnboard DEF OnboardStep
<1>8. CASE ModulesStep
  BY <1>8, NextModules DEF ModulesStep
<1>9. CASE BuilderStep
  BY <1>9, NextBuilder DEF BuilderStep
<1>10. CASE SettingsStep
  BY <1>10, NextSettings DEF SettingsStep
<1>11. CASE ZoneStep
  BY <1>11, NextZone DEF ZoneStep
<1>12. CASE BoardStep
  BY <1>12, NextBoard DEF BoardStep
<1>13. CASE FleetStep
  BY <1>13, NextFleet DEF FleetStep
<1>14. CASE ZonesStep
  BY <1>14, NextZones DEF ZonesStep
<1> QED
  BY <1>1, <1>2, <1>3, <1>4, <1>5, <1>6, <1>7, <1>8, <1>9, <1>10, <1>11, <1>12, <1>13,
     <1>14 DEF Next

\* The registers always hold a state of their component that its inductive invariant
\* allows: for any number of tabs, stations, codes, employees, fields, sections, admins,
\* modules, cycles and devices, and for any bound.
THEOREM PagesInvariant == Spec => []PagesInv
<1>1. PagesInv /\ [Next]_<<subject, r1, r2, r3, r4, r5, r6, r7, r8, r9>> => PagesInv'
  BY NextPages, StutterPages
<1> QED
  BY <1>1, InitPages, PTL DEF Spec

\* Invitations and shipments: one click counts once - an invitation is accepted at most
\* once a visit, and one row is stored for each submission, however often codes collide.
THEOREM ClicksCount == Spec => []ClicksCountOnce
<1>1. Shipment!IInv => Shipment!OneRowPerSubmission
  BY DEF Shipment!IInv
<1>2. PagesInv => ClicksCountOnce
  BY <1>1, InviteIsAccepted DEF PagesInv, ClicksCountOnce
<1> QED
  BY <1>2, PagesInvariant, PTL

\* Voice and scanning pages: however presses, permissions, unmounts and rerenders cross,
\* no microphone and no camera is left open behind a page that no longer uses it.
THEOREM DevicesReleased == Spec => []DevicesAreReleased
<1>1. PagesInv => DevicesAreReleased
  BY MicrophoneIsReleased, ScanIsTrue DEF PagesInv, DevicesAreReleased
<1> QED
  BY <1>1, PagesInvariant, PTL

\* Voice: every answer on a form is the one said or tapped last of its slot and marked
\* while nobody has checked it; an untouched table has no blank row above a spoken one,
\* unless the row was made on an earlier day than the first utterance; what a stored
\* animal has from speech is in its transcript.
THEOREM SpeechExplained == Spec => []SpeechIsExplained
<1>1. PagesInv => SpeechIsExplained
  BY VoiceIsExplained, IntakeIsTrue DEF PagesInv, SpeechIsExplained
<1> QED
  BY <1>1, PagesInvariant, PTL

\* What a page shows is of what it is about - the code, the employee, the modules, the
\* zone - however answers, failures and clicks are ordered; and the form that is put
\* together by hand can be filled in.
THEOREM TruthShown == Spec => []PagesShowTheTruth
<1>1. Modules!IInv => Modules!SettledShowsTheTruth
  BY DEF Modules!IInv
<1>2. PagesInv => PagesShowTheTruth
  BY <1>1, InviteIsAccepted, ScanIsTrue, IntakeIsTrue, FormCanBeFilled, ZoneIsTrue
     DEF PagesInv, PagesShowTheTruth
<1> QED
  BY <1>2, PagesInvariant, PTL

\* Signup: no tab is on a step that the server has not earned it, whatever other tabs,
\* reloads and failed calls there were.
THEOREM StepsEarned == Spec => []StepsAreEarned
<1>1. Onboard!IInv => Onboard!StepsAreEarned
  BY DEF Onboard!IInv
<1>2. PagesInv => StepsAreEarned
  BY <1>1 DEF PagesInv, StepsAreEarned
<1> QED
  BY <1>2, PagesInvariant, PTL

\* Payroll settings: however the saves of several administrators interleave, who has
\* approved payouts since before any save under way read the row is the one that the
\* first save to replace them sends the notice to; it is out or about to be sent, or the
\* mail service refused it, or a crash of the server lost it.
THEOREM ManagersTold == Spec => []ManagersAreTold
<1>1. Settings!IInv => Settings!ManagersAreTold
  BY DEF Settings!IInv
<1>2. PagesInv => ManagersAreTold
  BY <1>1 DEF PagesInv, ManagersAreTold
<1> QED
  BY <1>2, PagesInvariant, PTL

\* Dashboard and fleet: the figures add up if no cycle moved and no facility was removed
\* while they were counted, the cycles at hidden facilities apart, which only the totals
\* count; a delivered cycle takes no place on the list from one under way; and the
\* fleet's tiles add up and agree with the lists by health, of the active devices and of
\* all of them, however devices report while they are gathered.
THEOREM FiguresAlwaysAddUp == Spec => []FiguresAddUp
<1>1. PagesInv => FiguresAddUp
  BY BoardIsTrue, FleetIsTrue DEF PagesInv, FiguresAddUp
<1> QED
  BY <1>1, PagesInvariant, PTL

\* Zones: whatever lists administrators save and whatever zones they make and remove at
\* once, the order everybody reads is one administrator's whole list, unless a zone was
\* made beside another one or beside a list already looked through.
THEOREM OrdersStayWhole == Spec => []OrdersAreWhole
<1>1. PagesInv => OrdersAreWhole
  BY ZonesAreWhole DEF PagesInv, OrdersAreWhole
<1> QED
  BY <1>1, PagesInvariant, PTL
=============================================================================
