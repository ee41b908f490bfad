------------------------- MODULE Membership_proofs --------------------------
(***************************************************************************)
(* Proofs about Membership, for every set of accounts, organizations,      *)
(* invitations and requests in flight.                                     *)
(*                                                                         *)
(* None of the three properties is inductive: what a request writes was    *)
(* decided on rows read earlier.  IInv adds what a request in flight may   *)
(* still rely on (Backed): the role it carries was chosen for the person   *)
(* it carries, and the invitation it has read cannot become somebody       *)
(* else's.  The rows it has read may change meanwhile, but only forwards   *)
(* (Forward): a choice is not forgotten, a row never becomes pending again *)
(* once it is not, and a pending one keeps its address.  This is why the   *)
(* second look at acceptedAt is enough for acceptInvitation.               *)
(***************************************************************************)
EXTENDS Membership, TLAPS

\* The invitation i is, if it is still pending, one of q's person to q's organization.
Serves(i, q) ==
  /\ i \in Invitation
  /\ invitation[i].status # "ABSENT"
  /\ invitation[i].status = "PENDING" =>
       invitation[i].org = q.org /\ invitation[i].email = q.target

Choice(q) == <<q.org, q.target, q.role>> \in chosen

\* What request r may rely on.
Backed(r) ==
  /\ req[r].op \in {"updateMemberRole", "createInvitation"} => Choice(req[r])
  /\ req[r].op = "removeMember" => req[r].org \in Org /\ req[r].target \in Account
  /\ req[r].op = "revokeInvitation" => req[r].row \in Invitation
  /\ req[r].op = "createInvitation" /\ req[r].row # Null => Serves(req[r].row, req[r])
  /\ req[r].op = "acceptInvitation" => req[r].target \in Account
  /\ req[r].op = "acceptInvitation" /\ req[r].pc = "commit" =>
       Serves(req[r].row, req[r]) /\ Choice(req[r])

RequestsAreBacked == \A r \in Request : Backed(r)

PendingAreChosen ==
  \A i \in Invitation : invitation[i].status = "PENDING" =>
    <<invitation[i].org, invitation[i].email, invitation[i].role>> \in chosen

IInv ==
  /\ TypeOK
  /\ RequestsAreBacked
  /\ PendingAreChosen
  /\ RolesAreChosen
  /\ AccessNeedsMembership

\* What every step does to the rows that a request has read.
Forward ==
  /\ chosen \subseteq chosen'
  /\ \A i \in Invitation : invitation[i].status # "ABSENT" =>
       /\ invitation'[i].status # "ABSENT"
       /\ invitation'[i].status = "PENDING" =>
            /\ invitation[i].status = "PENDING"
            /\ invitation'[i].org = invitation[i].org
            /\ invitation'[i].email = invitation[i].email
-----------------------------------------------------------------------------
(* Requests of others.                                                     *)

\* A request that does not move keeps what it relies on.
LEMMA BackedLasts ==
  ASSUME NEW r, Backed(r), req'[r] = req[r], Forward
  PROVE  Backed(r)'
BY DEF Backed, Serves, Choice, Forward

\* When only r moves, only r has to be looked at.
LEMMA OneMoves ==
  ASSUME NEW r \in Request, RequestsAreBacked, Forward, Backed(r)',
         \A s \in Request : s # r => req'[s] = req[s]
  PROVE  RequestsAreBacked'
<1> SUFFICES ASSUME NEW s \in Request
             PROVE  Backed(s)'
  BY DEF RequestsAreBacked
<1>1. CASE s = r
  BY <1>1
<1>2. CASE s # r
  <2>1. Backed(s) /\ req'[s] = req[s]
    BY <1>2 DEF RequestsAreBacked
  <2> QED
    BY <2>1, BackedLasts
<1> QED
  BY <1>1, <1>2

\* Nobody moves.
LEMMA NobodyMoves ==
  ASSUME RequestsAreBacked, Forward, UNCHANGED req
  PROVE  RequestsAreBacked'
<1> SUFFICES ASSUME NEW s \in Request
             PROVE  Backed(s)'
  BY DEF RequestsAreBacked
<1> QED
  BY BackedLasts DEF RequestsAreBacked

LEMMA BlankInvitation == NoInvitation \in InvitationRow
BY MembershipConstants DEF NoInvitation, InvitationRow

LEMMA BlankRequest == NoRequest \in RequestRow
BY MembershipConstants DEF NoRequest, RequestRow, Operation

\* A request that is answered relies on nothing.
LEMMA Answered ==
  ASSUME TypeOK, RequestsAreBacked, Forward, NEW r \in Request, Answer(r)
  PROVE  RequestsAreBacked' /\ req' \in [Request -> RequestRow]
<1>1. req'[r] = NoRequest /\ \A s \in Request : s # r => req'[s] = req[s]
  BY DEF Answer, TypeOK
<1>2. NoRequest \in RequestRow
  BY BlankRequest
<1>3. Backed(r)'
  <2>1. Null \notin Operation
    BY MembershipConstants
  <2>2. req'[r].op \notin Operation
    BY <1>1, <2>1 DEF NoRequest
  <2> QED
    BY <2>2 DEF Backed, Operation
<1> QED
  BY <1>1, <1>2, <1>3, OneMoves DEF Answer, TypeOK

\* A request's record changes within its type; the others stand.
LEMMA RequestMoves ==
  ASSUME TypeOK, RequestsAreBacked, Forward, NEW r \in Request,
         NEW q \in RequestRow, req' = [req EXCEPT ![r] = q], Backed(r)'
  PROVE  RequestsAreBacked' /\ req' \in [Request -> RequestRow]
<1>1. \A s \in Request : s # r => req'[s] = req[s]
  BY DEF TypeOK
<1> QED
  BY <1>1, OneMoves DEF TypeOK

\* Where no row changes, and choices are only added, the rest of IInv stands.
LEMMA RowsStand ==
  ASSUME IInv, UNCHANGED rows, chosen \subseteq chosen',
         chosen' \subseteq Org \X Account \X Role,
         req' \in [Request -> RequestRow]
  PROVE  TypeOK' /\ PendingAreChosen' /\ RolesAreChosen' /\ AccessNeedsMembership'
<1>1. TypeOK'
  BY DEF IInv, TypeOK, rows
<1>2. PendingAreChosen'
  BY DEF IInv, PendingAreChosen, rows
<1>3. RolesAreChosen'
  BY DEF IInv, RolesAreChosen, rows
<1>4. AccessNeedsMembership'
  BY DEF IInv, AccessNeedsMembership, rows
<1> QED
  BY <1>1, <1>2, <1>3, <1>4

LEMMA RowsStandForward ==
  ASSUME UNCHANGED rows, chosen \subseteq chosen'
  PROVE  Forward
BY DEF Forward, rows

\* An answer, or a step that only moves a request's label.
LEMMA AnswerStep ==
  ASSUME IInv, NEW r \in Request, Answer(r), UNCHANGED <<rows, chosen>>
  PROVE  IInv'
<1>1. Forward
  BY RowsStandForward
<1>2. RequestsAreBacked' /\ req' \in [Request -> RequestRow]
  BY <1>1, Answered DEF IInv
<1>3. chosen' \subseteq Org \X Account \X Role
  BY DEF IInv, TypeOK
<1> QED
  BY <1>2, <1>3, RowsStand DEF IInv

LEMMA GotoStep ==
  ASSUME IInv, NEW r \in Request, req[r].op \in Rails,
         NEW label \in {"count", "write"}, Goto(r, label), UNCHANGED <<rows, chosen>>
  PROVE  IInv'
<1> DEFINE q == [req[r] EXCEPT !.pc = label]
<1>1. Forward
  BY RowsStandForward
<1>2. q \in RequestRow
  BY DEF IInv, TypeOK, RequestRow
<1>3. req' = [req EXCEPT ![r] = q] /\ req'[r] = q
  BY DEF Goto, IInv, TypeOK
<1>4. /\ q.op = req[r].op /\ q.org = req[r].org /\ q.target = req[r].target
      /\ q.role = req[r].role /\ q.row = req[r].row
  BY DEF IInv, TypeOK, RequestRow
<1>5. Backed(r) /\ req[r].op \notin {"createInvitation", "acceptInvitation", "revokeInvitation"}
  BY DEF IInv, RequestsAreBacked, Rails
<1>6. Backed(r)'
  BY <1>3, <1>4, <1>5 DEF Backed, Choice
<1>7. RequestsAreBacked' /\ req' \in [Request -> RequestRow]
  <2> HIDE DEF q
  <2> QED
    BY <1>1, <1>2, <1>3, <1>6, RequestMoves DEF IInv
<1>8. chosen' \subseteq Org \X Account \X Role
  BY DEF IInv, TypeOK
<1> QED
  BY <1>7, <1>8, RowsStand DEF IInv
-----------------------------------------------------------------------------
(* Requests that begin.                                                    *)

\* A request begins with what it relies on.
LEMMA BeginStep ==
  ASSUME IInv, NEW r \in Request, NEW q \in RequestRow, Begin(r, q), UNCHANGED rows,
         chosen \subseteq chosen', chosen' \subseteq Org \X Account \X Role, Backed(r)'
  PROVE  IInv'
<1>1. Forward
  BY RowsStandForward
<1>2. RequestsAreBacked' /\ req' \in [Request -> RequestRow]
  BY <1>1, RequestMoves DEF IInv, Begin
<1> QED
  BY <1>2, RowsStand DEF IInv

LEMMA BeginRailStep ==
  ASSUME IInv, NEW r \in Request, NEW o \in Org, NEW a \in Account, NEW u \in Account,
         NEW op, NEW role,
         \/ op = "removeMember" /\ role = Null
         \/ op = "updateMemberRole" /\ role \in Offered,
         BeginRail(r, o, a, op, u, role)
  PROVE  IInv'
<1> DEFINE q == [NoRequest EXCEPT !.op = op, !.pc = "load", !.org = o,
                                  !.target = u, !.role = role]
<1>1. q \in RequestRow
  BY BlankRequest, MembershipConstants DEF RequestRow, Operation
<1>2. Begin(r, q) /\ UNCHANGED rows
  BY DEF BeginRail
<1>3. req'[r] = q
  BY <1>2 DEF Begin, IInv, TypeOK
<1>4. q.op = op /\ q.org = o /\ q.target = u /\ q.role = role
  BY DEF NoRequest
<1>5. chosen \subseteq chosen' /\ chosen' \subseteq Org \X Account \X Role
  BY MembershipConstants DEF BeginRail, IInv, TypeOK
<1>6. op = "updateMemberRole" => <<o, u, role>> \in chosen'
  BY DEF BeginRail
<1>7. Backed(r)'
  <2> HIDE DEF q
  <2> QED
    BY <1>3, <1>4, <1>6 DEF Backed, Choice
<1> HIDE DEF q
<1> QED
  BY <1>1, <1>2, <1>5, <1>7, BeginStep

LEMMA BeginInvitationStep ==
  ASSUME IInv, NEW r \in Request, NEW o \in Org, NEW a \in Account, NEW email \in Account,
         NEW role \in Offered, BeginInvitation(r, o, a, email, role)
  PROVE  IInv'
<1> DEFINE q == [NoRequest EXCEPT !.op = "createInvitation", !.pc = "find", !.org = o,
                                  !.target = email, !.role = role]
<1>1. q \in RequestRow
  BY BlankRequest, MembershipConstants DEF RequestRow, Operation
<1>2. Begin(r, q) /\ UNCHANGED rows
  BY DEF BeginInvitation
<1>3. req'[r] = q
  BY <1>2 DEF Begin, IInv, TypeOK
<1>4. q.op = "createInvitation" /\ q.org = o /\ q.target = email /\ q.role = role /\ q.row = Null
  BY DEF NoRequest
<1>5. chosen \subseteq chosen' /\ chosen' \subseteq Org \X Account \X Role
  BY MembershipConstants DEF BeginInvitation, IInv, TypeOK
<1>6. <<o, email, role>> \in chosen'
  BY DEF BeginInvitation
<1>7. Backed(r)'
  <2> HIDE DEF q
  <2> QED
    BY <1>3, <1>4, <1>6 DEF Backed, Choice
<1> HIDE DEF q
<1> QED
  BY <1>1, <1>2, <1>5, <1>7, BeginStep

LEMMA BeginRevocationStep ==
  ASSUME IInv, NEW r \in Request, NEW o \in Org, NEW a \in Account, NEW i \in Invitation,
         BeginRevocation(r, o, a, i)
  PROVE  IInv'
<1> DEFINE q == [NoRequest EXCEPT !.op = "revokeInvitation", !.pc = "write",
                                  !.org = o, !.row = i]
<1>1. q \in RequestRow
  BY BlankRequest, MembershipConstants DEF RequestRow, Operation
<1>2. Begin(r, q) /\ UNCHANGED <<rows, chosen>>
  BY DEF BeginRevocation, rows
<1>3. req'[r] = q
  BY <1>2 DEF Begin, IInv, TypeOK
<1>4. q.op = "revokeInvitation" /\ q.row = i
  BY DEF NoRequest
<1>5. Backed(r)'
  <2> HIDE DEF q
  <2> QED
    BY <1>3, <1>4 DEF Backed
<1>6. chosen' \subseteq Org \X Account \X Role
  BY <1>2 DEF IInv, TypeOK
<1> HIDE DEF q
<1> QED
  BY <1>1, <1>2, <1>5, <1>6, BeginStep

LEMMA BeginAcceptStep ==
  ASSUME IInv, NEW r \in Request, NEW u \in Account, NEW t \in 1..MaxMail,
         BeginAccept(r, u, t)
  PROVE  IInv'
<1> DEFINE q == [NoRequest EXCEPT !.op = "acceptInvitation", !.pc = "lookup",
                                  !.target = u, !.token = t]
<1>0. t \in 0..MaxMail
  BY MembershipConstants
<1>1. q \in RequestRow
  BY <1>0, BlankRequest DEF RequestRow, Operation
<1>2. Begin(r, q) /\ UNCHANGED <<rows, chosen>>
  BY DEF BeginAccept, rows
<1>3. req'[r] = q
  BY <1>2 DEF Begin, IInv, TypeOK
<1>4. q.op = "acceptInvitation" /\ q.pc = "lookup" /\ q.target = u
  BY DEF NoRequest
<1>5. Backed(r)'
  <2> HIDE DEF q
  <2> QED
    BY <1>3, <1>4 DEF Backed
<1>6. chosen' \subseteq Org \X Account \X Role
  BY <1>2 DEF IInv, TypeOK
<1> HIDE DEF q
<1> QED
  BY <1>1, <1>2, <1>5, <1>6, BeginStep
-----------------------------------------------------------------------------
(* Members.                                                                *)

LEMMA BootstrapStep ==
  ASSUME IInv, NEW u \in Account, Bootstrap(u)
  PROVE  IInv'
<1>1. Forward /\ UNCHANGED req
  BY DEF Bootstrap, Forward
<1>2. RequestsAreBacked'
  BY <1>1, NobodyMoves DEF IInv
<1>3. TypeOK'
  BY DEF Bootstrap, IInv, TypeOK
<1>4. PendingAreChosen' /\ RolesAreChosen' /\ AccessNeedsMembership'
  BY DEF Bootstrap, IInv, PendingAreChosen, RolesAreChosen, AccessNeedsMembership
<1> QED
  BY <1>2, <1>3, <1>4 DEF IInv

LEMMA CreateOrganizationStep ==
  ASSUME IInv, NEW u \in Account, NEW o \in Org, CreateOrganization(u, o)
  PROVE  IInv'
<1>1. Forward /\ UNCHANGED req
  BY DEF CreateOrganization, Forward
<1>2. RequestsAreBacked'
  BY <1>1, NobodyMoves DEF IInv
<1>3. member' \in [Org -> [Account -> Role \cup {Null}]]
  BY DEF CreateOrganization, IInv, TypeOK, Role
<1>4. chosen' \subseteq Org \X Account \X Role
  BY DEF CreateOrganization, IInv, TypeOK, Role
<1>5. TypeOK'
  BY <1>3, <1>4 DEF CreateOrganization, IInv, TypeOK
<1>6. \A p \in Org, v \in Account :
        member'[p][v] = IF p = o /\ v = u THEN "ADMIN" ELSE member[p][v]
  BY DEF CreateOrganization, IInv, TypeOK
<1>7. PendingAreChosen'
  BY DEF CreateOrganization, IInv, PendingAreChosen
<1>8. RolesAreChosen'
  BY <1>6 DEF CreateOrganization, IInv, RolesAreChosen
<1>9. AccessNeedsMembership'
  <2>1. Null # "ADMIN"
    BY MembershipConstants DEF Role
  <2> QED
    BY <1>6, <2>1 DEF CreateOrganization, IInv, AccessNeedsMembership, TypeOK
<1> QED
  BY <1>2, <1>5, <1>7, <1>8, <1>9 DEF IInv

LEMMA AssignFacilityStep ==
  ASSUME IInv, NEW u \in Account, NEW o \in Org, AssignFacility(o, u)
  PROVE  IInv'
<1>1. Forward /\ UNCHANGED req
  BY DEF AssignFacility, Forward
<1>2. RequestsAreBacked'
  BY <1>1, NobodyMoves DEF IInv
<1>3. TypeOK'
  BY DEF AssignFacility, IInv, TypeOK
<1>4. AccessNeedsMembership'
  BY DEF AssignFacility, IInv, TypeOK, AccessNeedsMembership
<1>5. PendingAreChosen' /\ RolesAreChosen'
  BY DEF AssignFacility, IInv, PendingAreChosen, RolesAreChosen
<1> QED
  BY <1>2, <1>3, <1>4, <1>5 DEF IInv

LEMMA LoadTargetStep ==
  ASSUME IInv, NEW r \in Request, LoadTarget(r)
  PROVE  IInv'
<1>1. UNCHANGED <<rows, chosen>> /\ req[r].op \in Rails
  BY DEF LoadTarget, At, rows
<1>2. Answer(r) \/ \E label \in {"count", "write"} : Goto(r, label)
  BY DEF LoadTarget
<1> QED
  BY <1>1, <1>2, AnswerStep, GotoStep

LEMMA CountAdminsStep ==
  ASSUME IInv, NEW r \in Request, CountAdmins(r)
  PROVE  IInv'
<1>1. UNCHANGED <<rows, chosen>> /\ req[r].op \in Rails
  BY DEF CountAdmins, At, rows
<1>2. Answer(r) \/ Goto(r, "write")
  BY DEF CountAdmins
<1> QED
  BY <1>1, <1>2, AnswerStep, GotoStep

LEMMA UpdateMemberRoleStep ==
  ASSUME IInv, NEW r \in Request, UpdateMemberRole(r)
  PROVE  IInv'
<1> DEFINE o == req[r].org
           u == req[r].target
<1>1. Choice(req[r])
  BY DEF UpdateMemberRole, At, IInv, RequestsAreBacked, Backed
<1>2. o \in Org /\ u \in Account /\ req[r].role \in Role /\ req[r].role # Null
  BY <1>1, MembershipConstants DEF Choice, IInv, TypeOK
<1>3. Forward
  BY DEF UpdateMemberRole, Forward
<1>4. RequestsAreBacked' /\ req' \in [Request -> RequestRow]
  BY <1>3, Answered DEF UpdateMemberRole, IInv
<1>5. \A p \in Org, v \in Account :
        member'[p][v] = IF p = o /\ v = u /\ member[o][u] # Null
                        THEN req[r].role ELSE member[p][v]
  BY <1>2 DEF UpdateMemberRole, IInv, TypeOK
<1>6. member' \in [Org -> [Account -> Role \cup {Null}]]
  BY <1>2 DEF UpdateMemberRole, IInv, TypeOK
<1>7. TypeOK'
  BY <1>4, <1>6 DEF UpdateMemberRole, IInv, TypeOK
<1>8. PendingAreChosen'
  BY DEF UpdateMemberRole, IInv, PendingAreChosen
<1>9. RolesAreChosen'
  BY <1>1, <1>5 DEF UpdateMemberRole, IInv, RolesAreChosen, Choice
<1>10. AccessNeedsMembership'
  BY <1>2, <1>5 DEF UpdateMemberRole, IInv, AccessNeedsMembership, TypeOK
<1> QED
  BY <1>4, <1>7, <1>8, <1>9, <1>10 DEF IInv

LEMMA RemoveMemberStep ==
  ASSUME IInv, NEW r \in Request, RemoveMember(r)
  PROVE  IInv'
<1> DEFINE o == req[r].org
           u == req[r].target
<1>1. o \in Org /\ u \in Account
  BY DEF RemoveMember, At, IInv, RequestsAreBacked, Backed
<1>2. Forward
  BY DEF RemoveMember, Forward
<1>3. RequestsAreBacked' /\ req' \in [Request -> RequestRow]
  BY <1>2, Answered DEF RemoveMember, IInv
<1>4. CASE member[o][u] = Null
  <2>1. UNCHANGED <<rows, chosen>>
    BY <1>4 DEF RemoveMember, rows
  <2> QED
    BY <2>1, AnswerStep DEF RemoveMember
<1>5. CASE member[o][u] # Null
  <2>1. /\ \A p \in Org, v \in Account :
             member'[p][v] = IF p = o /\ v = u THEN Null ELSE member[p][v]
        /\ \A p \in Org : access'[p] = IF p = o THEN access[p] \ {u} ELSE access[p]
    BY <1>1, <1>5 DEF RemoveMember, IInv, TypeOK
  <2>2. member' \in [Org -> [Account -> Role \cup {Null}]]
    <3>1. member' = [member EXCEPT ![o][u] = Null]
      BY <1>5 DEF RemoveMember
    <3>2. member \in [Org -> [Account -> Role \cup {Null}]]
      BY DEF IInv, TypeOK
    <3> QED
      BY <1>1, <3>1, <3>2
  <2>3. access' \in [Org -> SUBSET Account]
    <3>1. access' = [access EXCEPT ![o] = access[o] \ {u}]
      BY <1>5 DEF RemoveMember
    <3>2. access \in [Org -> SUBSET Account] /\ access[o] \ {u} \in SUBSET Account
      BY <1>1 DEF IInv, TypeOK
    <3> QED
      BY <3>1, <3>2
  <2>4. TypeOK'
    BY <1>3, <2>2, <2>3 DEF RemoveMember, IInv, TypeOK
  <2>5. PendingAreChosen'
    BY DEF RemoveMember, IInv, PendingAreChosen
  <2>6. RolesAreChosen'
    BY <2>1 DEF RemoveMember, IInv, RolesAreChosen
  <2>7. AccessNeedsMembership'
    <3> SUFFICES ASSUME NEW p \in Org, NEW v \in access'[p]
                 PROVE  member'[p][v] # Null
      BY DEF AccessNeedsMembership
    <3>1. v \in access[p] /\ ~(p = o /\ v = u)
      BY <2>1
    <3>2. v \in Account /\ member[p][v] # Null
      BY <3>1 DEF IInv, AccessNeedsMembership, TypeOK
    <3> QED
      BY <2>1, <3>1, <3>2
  <2> QED
    BY <1>3, <2>4, <2>5, <2>6, <2>7 DEF IInv
<1> QED
  BY <1>4, <1>5
-----------------------------------------------------------------------------
(* Invitations.                                                            *)

\* A step of r's that changes invitations, and perhaps sends a mail, and answers.
LEMMA InvitationStep ==
  ASSUME IInv, NEW r \in Request, Answer(r), UNCHANGED <<user, member, access, chosen>>,
         Forward, PendingAreChosen',
         invitation' \in [Invitation -> InvitationRow],
         mail' \in Seq([row : Invitation, org : Org, email : Account, role : Role]),
         Len(mail') <= MaxMail
  PROVE  IInv'
<1>1. RequestsAreBacked' /\ req' \in [Request -> RequestRow]
  BY Answered DEF IInv
<1>2. TypeOK'
  BY <1>1 DEF IInv, TypeOK
<1>3. RolesAreChosen' /\ AccessNeedsMembership'
  BY DEF IInv, RolesAreChosen, AccessNeedsMembership
<1> QED
  BY <1>1, <1>2, <1>3 DEF IInv

LEMMA FindPendingStep ==
  ASSUME IInv, NEW r \in Request, FindPending(r)
  PROVE  IInv'
<1> DEFINE found == Pending(req[r].org, req[r].target)
<1>1. PICK i \in IF found = {} THEN {Null} ELSE found :
        req' = [req EXCEPT ![r].pc = "write", ![r].row = i]
  BY DEF FindPending
<1> DEFINE q == [req[r] EXCEPT !.pc = "write", !.row = i]
<1>2. i = Null \/ (i \in Invitation /\ Serves(i, req[r]))
  BY <1>1 DEF Pending, Serves
<1>3. q \in RequestRow
  BY <1>2 DEF IInv, TypeOK, RequestRow
<1>4. req' = [req EXCEPT ![r] = q] /\ req'[r] = q
  BY <1>1 DEF IInv, TypeOK
<1>5. /\ q.op = "createInvitation" /\ q.org = req[r].org /\ q.target = req[r].target
      /\ q.role = req[r].role /\ q.row = i
  BY DEF FindPending, At, IInv, TypeOK, RequestRow
<1>6. UNCHANGED <<rows, chosen>> /\ Choice(req[r])
  BY DEF FindPending, At, IInv, RequestsAreBacked, Backed, rows
<1>7. Forward
  BY <1>6, RowsStandForward
<1>8. Backed(r)'
  <2> HIDE DEF q
  <2> QED
    BY <1>2, <1>4, <1>5, <1>6 DEF Backed, Choice, Serves, rows
<1>9. RequestsAreBacked' /\ req' \in [Request -> RequestRow]
  <2> HIDE DEF q
  <2> QED
    BY <1>3, <1>4, <1>7, <1>8, RequestMoves DEF IInv
<1>10. chosen' \subseteq Org \X Account \X Role
  BY <1>6 DEF IInv, TypeOK
<1> QED
  BY <1>6, <1>9, <1>10, RowsStand DEF IInv

\* What Send appends, when the request names a person and a role.
LEMMA SentMail ==
  ASSUME TypeOK, NEW r \in Request, NEW i \in Invitation, Choice(req[r]),
         Len(mail) < MaxMail, Send(r, i)
  PROVE  /\ mail' \in Seq([row : Invitation, org : Org, email : Account, role : Role])
         /\ Len(mail') <= MaxMail
         /\ Len(mail) + 1 \in 0..MaxMail
<1>1. [row |-> i, org |-> req[r].org, email |-> req[r].target, role |-> req[r].role]
        \in [row : Invitation, org : Org, email : Account, role : Role]
  BY DEF Choice, TypeOK
<1>2. Len(mail) \in Nat /\ Len(mail') = Len(mail) + 1
  BY <1>1 DEF Send, TypeOK
<1> QED
  BY <1>1, <1>2, MembershipConstants DEF Send, TypeOK

LEMMA RotateInvitationStep ==
  ASSUME IInv, NEW r \in Request, RotateInvitation(r)
  PROVE  IInv'
<1> DEFINE i == req[r].row
<1>1. /\ Choice(req[r]) /\ Serves(i, req[r])
      /\ req[r].org \in Org /\ req[r].target \in Account /\ req[r].role \in Role
  <2>1. Choice(req[r]) /\ Serves(i, req[r])
    BY DEF RotateInvitation, At, IInv, RequestsAreBacked, Backed
  <2> QED
    BY <2>1 DEF Choice, IInv, TypeOK
<1>2. CASE invitation[i].status = "DELETED"
  BY <1>2, AnswerStep DEF RotateInvitation, rows
<1>3. CASE invitation[i].status # "DELETED"
  <2>1. i \in Invitation /\ Send(r, i) /\ Len(mail) < MaxMail
    BY <1>1, <1>3 DEF RotateInvitation, Serves
  <2>2. invitation' = [invitation EXCEPT ![i].role = req[r].role,
                                         ![i].token = Len(mail) + 1,
                                         ![i].expired = FALSE]
    BY <1>3 DEF RotateInvitation
  <2>3. /\ mail' \in Seq([row : Invitation, org : Org, email : Account, role : Role])
        /\ Len(mail') <= MaxMail
        /\ Len(mail) + 1 \in 0..MaxMail
    BY <1>1, <2>1, SentMail DEF IInv
  <2> DEFINE row == [invitation[i] EXCEPT !.role = req[r].role,
                                          !.token = Len(mail) + 1, !.expired = FALSE]
  <2>4. invitation[i] \in InvitationRow /\ row \in InvitationRow
    BY <1>1, <2>1, <2>3 DEF IInv, TypeOK, InvitationRow
  <2>5. invitation' = [invitation EXCEPT ![i] = row]
    BY <2>1, <2>2 DEF IInv, TypeOK
  <2>6. /\ row.status = invitation[i].status /\ row.org = invitation[i].org
        /\ row.email = invitation[i].email /\ row.role = req[r].role
    BY <2>4 DEF InvitationRow
  <2> HIDE DEF row
  <2>7. invitation' \in [Invitation -> InvitationRow]
    BY <2>1, <2>4, <2>5 DEF IInv, TypeOK
  <2>8. \A j \in Invitation : invitation'[j] = IF j = i THEN row ELSE invitation[j]
    BY <2>5 DEF IInv, TypeOK
  <2>9. UNCHANGED <<user, member, access, chosen>> /\ Answer(r)
    BY DEF RotateInvitation
  <2>10. Forward
    BY <2>6, <2>8, <2>9 DEF Forward
  <2>11. PendingAreChosen'
    BY <1>1, <2>6, <2>8, <2>9 DEF IInv, PendingAreChosen, Serves, Choice
  <2> QED
    BY <2>3, <2>7, <2>9, <2>10, <2>11, InvitationStep
<1> QED
  BY <1>2, <1>3

LEMMA CreateInvitationStep ==
  ASSUME IInv, NEW r \in Request, NEW i \in Invitation, CreateInvitation(r, i)
  PROVE  IInv'
<1>1. /\ Choice(req[r])
      /\ req[r].org \in Org /\ req[r].target \in Account /\ req[r].role \in Role
  <2>1. Choice(req[r])
    BY DEF CreateInvitation, At, IInv, RequestsAreBacked, Backed
  <2> QED
    BY <2>1 DEF Choice, IInv, TypeOK
<1>2. /\ mail' \in Seq([row : Invitation, org : Org, email : Account, role : Role])
      /\ Len(mail') <= MaxMail
      /\ Len(mail) + 1 \in 0..MaxMail
  BY <1>1, SentMail DEF CreateInvitation, IInv
<1> DEFINE row == [status |-> "PENDING", org |-> req[r].org, email |-> req[r].target,
                   role |-> req[r].role, token |-> Len(mail) + 1, expired |-> FALSE]
<1>3. row \in InvitationRow
  BY <1>1, <1>2 DEF InvitationRow
<1>4. \A j \in Invitation : invitation'[j] = IF j = i THEN row ELSE invitation[j]
  BY DEF CreateInvitation, IInv, TypeOK
<1>5. /\ row.status = "PENDING" /\ row.org = req[r].org /\ row.email = req[r].target
      /\ row.role = req[r].role
  OBVIOUS
<1>6. invitation' = [invitation EXCEPT ![i] = row]
  BY DEF CreateInvitation
<1> HIDE DEF row
<1>7. invitation' \in [Invitation -> InvitationRow]
  BY <1>3, <1>6 DEF IInv, TypeOK
<1>8. UNCHANGED <<user, member, access, chosen>> /\ Answer(r)
      /\ invitation[i].status = "ABSENT"
  BY DEF CreateInvitation
<1>9. Forward
  BY <1>4, <1>8 DEF Forward
<1>10. PendingAreChosen'
  BY <1>1, <1>4, <1>5, <1>8 DEF IInv, PendingAreChosen, Choice
<1> QED
  BY <1>2, <1>7, <1>8, <1>9, <1>10, InvitationStep

LEMMA RevokeInvitationStep ==
  ASSUME IInv, NEW r \in Request, RevokeInvitation(r)
  PROVE  IInv'
<1> DEFINE i == req[r].row
           gone == [NoInvitation EXCEPT !.status = "DELETED"]
<1>1. i \in Invitation
  BY DEF RevokeInvitation, At, IInv, RequestsAreBacked, Backed
<1>2. gone \in InvitationRow /\ gone.status = "DELETED"
  BY BlankInvitation DEF InvitationRow
<1>3. \/ invitation' = [invitation EXCEPT ![i] = gone]
      \/ invitation' = invitation
  BY DEF RevokeInvitation
<1> HIDE DEF gone
<1>4. invitation' \in [Invitation -> InvitationRow]
  BY <1>1, <1>2, <1>3 DEF IInv, TypeOK
<1>5. \A j \in Invitation : invitation'[j] = invitation[j] \/ invitation'[j] = gone
  BY <1>1, <1>3 DEF IInv, TypeOK
<1>6. UNCHANGED <<user, member, access, mail, chosen>> /\ Answer(r)
  BY DEF RevokeInvitation
<1>7. Forward
  BY <1>2, <1>5, <1>6 DEF Forward
<1>8. PendingAreChosen'
  BY <1>2, <1>5, <1>6 DEF IInv, PendingAreChosen
<1>9. /\ mail' \in Seq([row : Invitation, org : Org, email : Account, role : Role])
      /\ Len(mail') <= MaxMail
  BY <1>6 DEF IInv, TypeOK
<1> QED
  BY <1>4, <1>6, <1>7, <1>8, <1>9, InvitationStep

LEMMA ExpireStep ==
  ASSUME IInv, NEW i \in Invitation, Expire(i)
  PROVE  IInv'
<1> DEFINE row == [invitation[i] EXCEPT !.expired = TRUE]
<1>1. invitation[i] \in InvitationRow /\ row \in InvitationRow
  BY DEF IInv, TypeOK, InvitationRow
<1>2. /\ row.status = invitation[i].status /\ row.org = invitation[i].org
      /\ row.email = invitation[i].email /\ row.role = invitation[i].role
  BY <1>1 DEF InvitationRow
<1>3. invitation' = [invitation EXCEPT ![i] = row]
  BY DEF Expire, IInv, TypeOK
<1> HIDE DEF row
<1>4. invitation' \in [Invitation -> InvitationRow]
  BY <1>1, <1>3 DEF IInv, TypeOK
<1>5. \A j \in Invitation : invitation'[j] = IF j = i THEN row ELSE invitation[j]
  BY <1>3 DEF IInv, TypeOK
<1>6. UNCHANGED <<user, member, access, mail, req, chosen>>
  BY DEF Expire
<1>7. Forward
  BY <1>2, <1>5, <1>6 DEF Forward
<1>8. PendingAreChosen'
  BY <1>2, <1>5, <1>6 DEF IInv, PendingAreChosen
<1>9. RequestsAreBacked'
  BY <1>6, <1>7, NobodyMoves DEF IInv
<1>10. TypeOK' /\ RolesAreChosen' /\ AccessNeedsMembership'
  BY <1>4, <1>6 DEF IInv, TypeOK, RolesAreChosen, AccessNeedsMembership
<1> QED
  BY <1>8, <1>9, <1>10 DEF IInv

LEMMA LookUpInvitationStep ==
  ASSUME IInv, NEW r \in Request, LookUpInvitation(r)
  PROVE  IInv'
<1> DEFINE found == Acceptable(req[r].target, req[r].token)
<1>1. UNCHANGED <<rows, chosen>> /\ req[r].op = "acceptInvitation"
  BY DEF LookUpInvitation, At, rows
<1>2. CASE found = {}
  BY <1>1, <1>2, AnswerStep DEF LookUpInvitation
<1>3. CASE found # {}
  <2>1. PICK i \in found :
          req' = [req EXCEPT ![r].pc = "commit", ![r].row = i,
                             ![r].org = invitation[i].org, ![r].role = invitation[i].role]
    BY <1>3 DEF LookUpInvitation
  <2> DEFINE q == [req[r] EXCEPT !.pc = "commit", !.row = i,
                                 !.org = invitation[i].org, !.role = invitation[i].role]
  <2>2. /\ i \in Invitation /\ invitation[i].status = "PENDING"
        /\ invitation[i].email = req[r].target
    BY <2>1 DEF Acceptable
  <2>3. /\ <<invitation[i].org, invitation[i].email, invitation[i].role>> \in chosen
        /\ invitation[i].org \in Org /\ invitation[i].role \in Role
    <3>1. <<invitation[i].org, invitation[i].email, invitation[i].role>> \in chosen
      BY <2>2 DEF IInv, PendingAreChosen
    <3> QED
      BY <3>1 DEF IInv, TypeOK
  <2>4. q \in RequestRow
    <3>1. req[r] \in RequestRow
      BY DEF IInv, TypeOK
    <3> QED
      BY <2>2, <2>3, <3>1 DEF RequestRow
  <2>5. req' = [req EXCEPT ![r] = q] /\ req'[r] = q
    BY <2>1 DEF IInv, TypeOK
  <2>6. /\ q.op = "acceptInvitation" /\ q.org = invitation[i].org
        /\ q.target = req[r].target /\ q.role = invitation[i].role /\ q.row = i
    BY <1>1 DEF IInv, TypeOK, RequestRow
  <2>7. req[r].target \in Account
    BY <1>1 DEF IInv, RequestsAreBacked, Backed
  <2> HIDE DEF q
  <2>8. Backed(r)'
    BY <1>1, <2>2, <2>3, <2>5, <2>6, <2>7 DEF Backed, Choice, Serves, rows
  <2>9. Forward
    BY <1>1, RowsStandForward
  <2>10. RequestsAreBacked' /\ req' \in [Request -> RequestRow]
    BY <2>4, <2>5, <2>8, <2>9, RequestMoves DEF IInv
  <2>11. chosen' \subseteq Org \X Account \X Role
    BY <1>1 DEF IInv, TypeOK
  <2> QED
    BY <1>1, <2>10, <2>11, RowsStand DEF IInv
<1> QED
  BY <1>2, <1>3

\* What the transaction may trust of the row it marks accepted.
LEMMA WhatIsAccepted ==
  ASSUME IInv, NEW r \in Request, AcceptInvitation(r)
  PROVE  /\ Choice(req[r]) /\ Serves(req[r].row, req[r])
         /\ req[r].org \in Org /\ req[r].target \in Account /\ req[r].role \in Role
<1>1. Choice(req[r]) /\ Serves(req[r].row, req[r])
  BY DEF AcceptInvitation, At, IInv, RequestsAreBacked, Backed
<1> QED
  BY <1>1 DEF Choice, IInv, TypeOK

LEMMA AcceptInvitationStep ==
  ASSUME IInv, NEW r \in Request, AcceptInvitation(r)
  PROVE  IInv'
<1> DEFINE i == req[r].row
           o == req[r].org
           u == req[r].target
<1>1. /\ Choice(req[r]) /\ Serves(i, req[r])
      /\ o \in Org /\ u \in Account /\ req[r].role \in Role /\ i \in Invitation
  BY WhatIsAccepted DEF Serves
<1>2. UNCHANGED <<access, mail, chosen>> /\ Answer(r)
  BY DEF AcceptInvitation
<1>3. CASE ~StillUnaccepted(i)
  <2>1. UNCHANGED rows
    BY <1>2, <1>3 DEF AcceptInvitation, rows
  <2> QED
    BY <1>2, <2>1, AnswerStep
<1>4. CASE StillUnaccepted(i)
  <2>1. /\ user' = user \cup {u}
        /\ member' = [member EXCEPT ![o][u] = req[r].role]
        /\ invitation' = [invitation EXCEPT ![i].status = "ACCEPTED"]
    BY <1>4 DEF AcceptInvitation
  <2> DEFINE row == [invitation[i] EXCEPT !.status = "ACCEPTED"]
  <2>2. row \in InvitationRow /\ row.status = "ACCEPTED"
    BY <1>1 DEF IInv, TypeOK, InvitationRow
  <2>3. invitation' = [invitation EXCEPT ![i] = row]
    BY <1>1, <2>1 DEF IInv, TypeOK
  <2> HIDE DEF row
  <2>4. invitation' \in [Invitation -> InvitationRow]
    BY <1>1, <2>2, <2>3 DEF IInv, TypeOK
  <2>5. \A j \in Invitation : invitation'[j] = IF j = i THEN row ELSE invitation[j]
    BY <1>1, <2>3 DEF IInv, TypeOK
  <2>6. Forward
    BY <1>2, <2>2, <2>5 DEF Forward
  <2>7. PendingAreChosen'
    BY <1>2, <2>2, <2>5 DEF IInv, PendingAreChosen
  <2>8. RequestsAreBacked' /\ req' \in [Request -> RequestRow]
    BY <1>2, <2>6, Answered DEF IInv
  <2>9. member' \in [Org -> [Account -> Role \cup {Null}]]
    BY <1>1, <2>1 DEF IInv, TypeOK
  <2>10. \A p \in Org, v \in Account :
           member'[p][v] = IF p = o /\ v = u THEN req[r].role ELSE member[p][v]
    BY <1>1, <2>1 DEF IInv, TypeOK
  <2>11. TypeOK'
    BY <1>1, <1>2, <2>1, <2>4, <2>8, <2>9 DEF IInv, TypeOK
  <2>12. RolesAreChosen'
    BY <1>1, <1>2, <2>10 DEF IInv, RolesAreChosen, Choice
  <2>13. AccessNeedsMembership'
    <3>1. req[r].role # Null
      BY <1>1, MembershipConstants
    <3> QED
      BY <1>2, <2>10, <3>1 DEF IInv, AccessNeedsMembership, TypeOK
  <2> QED
    BY <2>7, <2>8, <2>11, <2>12, <2>13 DEF IInv
<1> QED
  BY <1>3, <1>4

LEMMA GiveUpStep ==
  ASSUME IInv, NEW r \in Request, GiveUp(r)
  PROVE  IInv'
BY AnswerStep DEF GiveUp, rows
-----------------------------------------------------------------------------
(* The theorems.                                                           *)

LEMMA InitIInv == Init => IInv
<1> SUFFICES ASSUME Init PROVE IInv
  OBVIOUS
<1>1. TypeOK
  <2>1. mail \in Seq([row : Invitation, org : Org, email : Account, role : Role])
        /\ Len(mail) <= MaxMail
    BY MembershipConstants DEF Init
  <2> QED
    BY <2>1, BlankInvitation, BlankRequest DEF Init, TypeOK
<1>2. RequestsAreBacked
  <2>1. Null \notin Operation
    BY MembershipConstants
  <2>2. \A r \in Request : req[r].op \notin Operation
    BY <2>1 DEF Init, NoRequest
  <2> QED
    BY <2>2 DEF RequestsAreBacked, Backed, Operation
<1>3. PendingAreChosen
  BY DEF Init, PendingAreChosen, NoInvitation
<1>4. RolesAreChosen /\ AccessNeedsMembership
  BY DEF Init, RolesAreChosen, AccessNeedsMembership
<1> QED
  BY <1>1, <1>2, <1>3, <1>4 DEF IInv

LEMMA NextIInv == IInv /\ [Next]_vars => IInv'
<1> SUFFICES ASSUME IInv, [Next]_vars
             PROVE  IInv'
  OBVIOUS
<1>1. CASE UNCHANGED vars
  <2>1. UNCHANGED <<rows, chosen, req>>
    BY <1>1 DEF vars, rows
  <2>2. Forward
    BY <2>1, RowsStandForward
  <2>3. RequestsAreBacked'
    BY <2>1, <2>2, NobodyMoves DEF IInv
  <2>4. chosen' \subseteq Org \X Account \X Role /\ req' \in [Request -> RequestRow]
    BY <2>1 DEF IInv, TypeOK
  <2> QED
    BY <2>1, <2>3, <2>4, RowsStand DEF IInv
<1>2. CASE Around
  BY <1>2, BootstrapStep, CreateOrganizationStep, AssignFacilityStep, ExpireStep DEF Around
<1>3. ASSUME NEW r \in Request, Administer(r)
      PROVE  IInv'
  BY <1>3, BeginRailStep, BeginInvitationStep, BeginRevocationStep DEF Administer
<1>4. ASSUME NEW r \in Request, Serve(r)
      PROVE  IInv'
  BY <1>4, LoadTargetStep, CountAdminsStep, UpdateMemberRoleStep, RemoveMemberStep,
     FindPendingStep, RotateInvitationStep, CreateInvitationStep, RevokeInvitationStep,
     LookUpInvitationStep, AcceptInvitationStep, GiveUpStep DEF Serve
<1>5. ASSUME NEW r \in Request, NEW u \in Account, NEW t \in 1..MaxMail, BeginAccept(r, u, t)
      PROVE  IInv'
  BY <1>5, BeginAcceptStep
<1> QED
  BY <1>1, <1>2, <1>3, <1>4, <1>5 DEF Next

LEMMA Inductive == Spec => []IInv
BY InitIInv, NextIInv, PTL DEF Spec

\* The tables and the requests keep the shape of the schema.
THEOREM MembershipTypeCorrect == Spec => []TypeOK
<1>1. IInv => TypeOK
  BY DEF IInv
<1> QED
  BY <1>1, Inductive, PTL

\* Whatever the order of invitations, rotations, revocations, acceptances and
\* changes of role, a member holds a role that an ADMIN chose for him.
THEOREM RolesAreAlwaysChosen == Spec => []RolesAreChosen
<1>1. IInv => RolesAreChosen
  BY DEF IInv
<1> QED
  BY <1>1, Inductive, PTL

\* Whoever is removed from an organization keeps no facility in it.
THEOREM AccessAlwaysNeedsMembership == Spec => []AccessNeedsMembership
<1>1. IInv => AccessNeedsMembership
  BY DEF IInv
<1> QED
  BY <1>1, Inductive, PTL

\* What one step may do to a membership that is not there.
Joining ==
  \A o \in Org, u \in Account :
    member[o][u] = Null /\ member'[o][u] # Null =>
      \/ ~Exists(o) /\ member'[o][u] = "ADMIN"
      \/ \E i \in Invitation :
           /\ invitation[i].status = "PENDING" /\ invitation'[i].status = "ACCEPTED"
           /\ invitation[i].org = o /\ invitation[i].email = u

LEMMA FoundingJoins ==
  ASSUME IInv, NEW v \in Account, NEW p \in Org, CreateOrganization(v, p)
  PROVE  Joining
<1> SUFFICES ASSUME NEW o \in Org, NEW u \in Account,
                    member[o][u] = Null, member'[o][u] # Null
             PROVE  ~Exists(o) /\ member'[o][u] = "ADMIN"
  BY DEF Joining
<1>1. member'[o][u] = IF o = p /\ u = v THEN "ADMIN" ELSE member[o][u]
  BY DEF CreateOrganization, IInv, TypeOK
<1>2. o = p
  BY <1>1
<1>3. ~Exists(p)
  BY DEF CreateOrganization
<1> QED
  BY <1>1, <1>2, <1>3

LEMMA AcceptingJoins ==
  ASSUME IInv, NEW r \in Request, AcceptInvitation(r)
  PROVE  Joining
<1> SUFFICES ASSUME NEW o \in Org, NEW u \in Account,
                    member[o][u] = Null, member'[o][u] # Null
             PROVE  \E i \in Invitation :
                      /\ invitation[i].status = "PENDING" /\ invitation'[i].status = "ACCEPTED"
                      /\ invitation[i].org = o /\ invitation[i].email = u
  BY DEF Joining
<1> DEFINE i == req[r].row
<1>1. Serves(i, req[r]) /\ i \in Invitation /\ req[r].org \in Org /\ req[r].target \in Account
  BY WhatIsAccepted DEF Serves
<1>2. StillUnaccepted(i)
  BY DEF AcceptInvitation
<1>3. /\ member' = [member EXCEPT ![req[r].org][req[r].target] = req[r].role]
      /\ invitation' = [invitation EXCEPT ![i].status = "ACCEPTED"]
  BY <1>2 DEF AcceptInvitation
<1>4. o = req[r].org /\ u = req[r].target
  BY <1>3 DEF IInv, TypeOK
<1>5. invitation'[i].status = "ACCEPTED"
  BY <1>1, <1>3 DEF IInv, TypeOK, InvitationRow
<1> QED
  BY <1>1, <1>2, <1>4, <1>5 DEF Serves, StillUnaccepted

LEMMA NextJoins == IInv /\ [Next]_vars => [Joining]_vars
<1> SUFFICES ASSUME IInv, [Next]_vars
             PROVE  Joining
  OBVIOUS
<1>1. CASE UNCHANGED member
  BY <1>1 DEF Joining
<1>2. ASSUME NEW u \in Account, NEW o \in Org, CreateOrganization(u, o)
      PROVE  Joining
  BY <1>2, FoundingJoins
<1>3. ASSUME NEW r \in Request, AcceptInvitation(r)
      PROVE  Joining
  BY <1>3, AcceptingJoins
<1>4. ASSUME NEW r \in Request, UpdateMemberRole(r)
      PROVE  Joining
  <2>1. \A o \in Org, u \in Account : member[o][u] = Null => member'[o][u] = Null
    BY <1>4 DEF UpdateMemberRole, IInv, TypeOK
  <2> QED
    BY <2>1 DEF Joining
<1>5. ASSUME NEW r \in Request, RemoveMember(r)
      PROVE  Joining
  <2>1. \A o \in Org, u \in Account : member[o][u] = Null => member'[o][u] = Null
    BY <1>5 DEF RemoveMember, IInv, TypeOK
  <2> QED
    BY <2>1 DEF Joining
<1>6. CASE Around
  BY <1>1, <1>2, <1>6 DEF Around, Bootstrap, AssignFacility, Expire
<1>7. ASSUME NEW r \in Request, Administer(r)
      PROVE  Joining
  BY <1>1, <1>7 DEF Administer, BeginRail, BeginInvitation, BeginRevocation, rows
<1>8. ASSUME NEW r \in Request, Serve(r)
      PROVE  Joining
  BY <1>1, <1>3, <1>4, <1>5, <1>8
     DEF Serve, LoadTarget, CountAdmins, FindPending, RotateInvitation, CreateInvitation,
         RevokeInvitation, LookUpInvitation, GiveUp
<1>9. ASSUME NEW r \in Request, NEW u \in Account, NEW t \in 1..MaxMail, BeginAccept(r, u, t)
      PROVE  Joining
  BY <1>1, <1>9 DEF BeginAccept
<1>10. CASE UNCHANGED vars
  BY <1>1, <1>10 DEF vars
<1> QED
  BY <1>6, <1>7, <1>8, <1>9, <1>10 DEF Next

\* Nobody enters an organization but its founder and those whose own invitation,
\* still pending at that moment, is spent.
THEOREM JoiningSpendsAnInvitation == Spec => JoinsSpendInvitations
<1>1. IInv /\ [Next]_vars => [Joining]_vars
  BY NextJoins
<1>2. Spec => [][Joining]_vars
  BY <1>1, Inductive, PTL DEF Spec
<1> QED
  BY <1>2 DEF JoinsSpendInvitations, Joining
=============================================================================
