------------------------------ MODULE Membership ------------------------------
(***************************************************************************)
(* Organizations, their members and their invitations: auth.service.ts,    *)
(* org-member.service.ts and invitation.service.ts.  None of these         *)
(* services locks what it has read: a request reads in one statement,      *)
(* decides, and writes in another one, with Postgres's default isolation   *)
(* level (Read Committed).  Here every statement is a step, so that other  *)
(* requests run between a rail and the write it protects.                  *)
(*                                                                         *)
(* An account is the identity Supabase has verified and stands for its     *)
(* e-mail address too.  A token is the number of the mail that carries it. *)
(***************************************************************************)
EXTENDS Naturals, Sequences, FiniteSets

CONSTANTS
  Account,     \* identities, one verified address each
  Org,         \* ids of organizations
  Invitation,  \* ids of invitations (cuids, never reused)
  Request,     \* slots for requests in flight
  Offered,     \* bound: the roles ADMINs choose
  MaxMail,     \* bound: mails sent, and so tokens made up
  Null         \* a database NULL

Role == {"ADMIN", "OPS_MANAGER", "DRIVER", "WORKER"}

Operation == {"updateMemberRole", "removeMember", "createInvitation",
              "revokeInvitation", "acceptInvitation"}

ASSUME MembershipConstants ==
  /\ Offered \subseteq Role
  /\ MaxMail \in Nat
  /\ Null \notin Account \cup Org \cup Invitation \cup Role \cup Operation
  /\ IsFiniteSet(Account)

VARIABLES
  user,        \* the rows of table users
  member,      \* organization_members: the role, or Null
  access,      \* who holds a user_facilities row in the organization
  invitation,  \* the rows of table invitations
  mail,        \* the mails sent so far: mail[t] carries token t
  req,         \* the requests in flight
  chosen       \* history: the roles ADMINs have chosen, and for whom

rows == <<user, member, access, invitation, mail>>
vars == <<user, member, access, invitation, mail, req, chosen>>
-----------------------------------------------------------------------------
InvitationRow ==
  [status  : {"ABSENT", "PENDING", "ACCEPTED", "DELETED"},
   org     : Org \cup {Null},
   email   : Account \cup {Null},
   role    : Role \cup {Null},
   token   : 0..MaxMail,      \* 0: none
   expired : BOOLEAN]

NoInvitation == [status |-> "ABSENT", org |-> Null, email |-> Null,
                 role |-> Null, token |-> 0, expired |-> FALSE]

RequestRow ==
  [op     : Operation \cup {Null},
   pc     : {"idle", "load", "count", "find", "write", "lookup", "commit"},
   org    : Org \cup {Null},      \* ctx.orgId, or the invitation's
   target : Account \cup {Null},  \* whose membership, or whose address
   role   : Role \cup {Null},
   row    : Invitation \cup {Null},
   token  : 0..MaxMail]

NoRequest == [op |-> Null, pc |-> "idle", org |-> Null, target |-> Null,
              role |-> Null, row |-> Null, token |-> 0]

\* createOrganization has made o.
Exists(o) == \E u \in Account : <<o, u, "ADMIN">> \in chosen

Admins(o) == {u \in Account : member[o][u] = "ADMIN"}

Begin(r, request) == req[r] = NoRequest /\ req' = [req EXCEPT ![r] = request]
Goto(r, label)    == req' = [req EXCEPT ![r].pc = label]
Answer(r)         == req' = [req EXCEPT ![r] = NoRequest]
At(r, op, label)  == req[r].op \in op /\ req[r].pc = label

Rails == {"updateMemberRole", "removeMember"}
-----------------------------------------------------------------------------
Init ==
  /\ user = {}
  /\ member = [o \in Org |-> [u \in Account |-> Null]]
  /\ access = [o \in Org |-> {}]
  /\ invitation = [i \in Invitation |-> NoInvitation]
  /\ mail = <<>>
  /\ req = [r \in Request |-> NoRequest]
  /\ chosen = {}

(* Signing up. *)

\* auth.bootstrap: an upsert on the id, so that a second call changes nothing.
Bootstrap(u) ==
  /\ u \notin user
  /\ user' = user \cup {u}
  /\ UNCHANGED <<member, access, invitation, mail, req, chosen>>

\* auth.createOrganization: one transaction makes the organization with its
\* founding ADMIN.
CreateOrganization(u, o) ==
  /\ u \in user
  /\ ~Exists(o)
  /\ member' = [member EXCEPT ![o][u] = "ADMIN"]
  /\ chosen' = chosen \cup {<<o, u, "ADMIN">>}
  /\ UNCHANGED <<user, access, invitation, mail, req>>

\* An operator gives a member a facility, outside the API.
AssignFacility(o, u) ==
  /\ member[o][u] # Null
  /\ access' = [access EXCEPT ![o] = @ \cup {u}]
  /\ UNCHANGED <<user, member, invitation, mail, req, chosen>>
-----------------------------------------------------------------------------
(* Members.  createContext reads the caller's role once, at the beginning. *)

\* orgAdminProcedure lets an ADMIN in; the first rail refuses to act on oneself.
BeginRail(r, o, a, op, u, role) ==
  /\ a \in Admins(o)
  /\ a # u
  /\ Begin(r, [NoRequest EXCEPT !.op = op, !.pc = "load", !.org = o,
                                !.target = u, !.role = role])
  /\ chosen' = IF op = "updateMemberRole" THEN chosen \cup {<<o, u, role>>} ELSE chosen
  /\ UNCHANGED rows

\* The target is read: nobody, an ADMIN who must not be the last, or anyone else.
LoadTarget(r) ==
  LET row == member[req[r].org][req[r].target] IN
  /\ At(r, Rails, "load")
  /\ CASE row = Null -> Answer(r)
       [] row = "ADMIN" /\ req[r].role # "ADMIN" -> Goto(r, "count")
       [] OTHER -> Goto(r, "write")
  /\ UNCHANGED <<user, member, access, invitation, mail, chosen>>

\* adminCount <= 1 refuses.
CountAdmins(r) ==
  /\ At(r, Rails, "count")
  /\ IF Cardinality(Admins(req[r].org)) <= 1 THEN Answer(r) ELSE Goto(r, "write")
  /\ UNCHANGED <<user, member, access, invitation, mail, chosen>>

\* update and delete name the row by its key, and fail when it is gone.
UpdateMemberRole(r) ==
  LET o == req[r].org
      u == req[r].target IN
  /\ At(r, {"updateMemberRole"}, "write")
  /\ member' = IF member[o][u] = Null THEN member
                                      ELSE [member EXCEPT ![o][u] = req[r].role]
  /\ Answer(r)
  /\ UNCHANGED <<user, access, invitation, mail, chosen>>

\* The facilities are forgotten, as before the transaction was introduced.
RemoveMember_KeepsAccess(r) ==
  LET o == req[r].org
      u == req[r].target IN
  /\ At(r, {"removeMember"}, "write")
  /\ member' = [member EXCEPT ![o][u] = Null]
  /\ Answer(r)
  /\ UNCHANGED <<user, access, invitation, mail, chosen>>

\* One transaction: the facilities first, then the membership.  Without a
\* membership to delete it is rolled back.
RemoveMember(r) ==
  LET o == req[r].org
      u == req[r].target IN
  /\ At(r, {"removeMember"}, "write")
  /\ IF member[o][u] = Null
     THEN UNCHANGED <<member, access>>
     ELSE /\ access' = [access EXCEPT ![o] = @ \ {u}]
          /\ member' = [member EXCEPT ![o][u] = Null]
  /\ Answer(r)
  /\ UNCHANGED <<user, invitation, mail, chosen>>
-----------------------------------------------------------------------------
(* Invitations. *)

BeginInvitation(r, o, a, email, role) ==
  /\ a \in Admins(o)
  /\ Begin(r, [NoRequest EXCEPT !.op = "createInvitation", !.pc = "find", !.org = o,
                                !.target = email, !.role = role])
  /\ chosen' = chosen \cup {<<o, email, role>>}
  /\ UNCHANGED rows

\* Unaccepted rows of the address, the expired ones too.
Pending(o, email) ==
  {i \in Invitation : /\ invitation[i].status = "PENDING"
                      /\ invitation[i].org = o
                      /\ invitation[i].email = email}

FindPending(r) ==
  LET found == Pending(req[r].org, req[r].target) IN
  /\ At(r, {"createInvitation"}, "find")
  /\ \E i \in IF found = {} THEN {Null} ELSE found :
       req' = [req EXCEPT ![r].pc = "write", ![r].row = i]
  /\ UNCHANGED <<user, member, access, invitation, mail, chosen>>

\* The mail's link: its token is the length of mail from now on.
Send(r, i) ==
  mail' = Append(mail, [row |-> i, org |-> req[r].org, email |-> req[r].target,
                        role |-> req[r].role])

\* A pending row is rotated by its id (an accepted one stays accepted, a deleted
\* one makes the update fail); without one a row is created.
RotateInvitation(r) ==
  LET i == req[r].row IN
  /\ At(r, {"createInvitation"}, "write") /\ i # Null
  /\ Len(mail) < MaxMail
  /\ IF invitation[i].status = "DELETED"
     THEN UNCHANGED <<invitation, mail>>
     ELSE /\ invitation' = [invitation EXCEPT ![i].role = req[r].role,
                                              ![i].token = Len(mail) + 1,
                                              ![i].expired = FALSE]
          /\ Send(r, i)
  /\ Answer(r)
  /\ UNCHANGED <<user, member, access, chosen>>

CreateInvitation(r, i) ==
  /\ At(r, {"createInvitation"}, "write") /\ req[r].row = Null
  /\ Len(mail) < MaxMail
  /\ invitation[i].status = "ABSENT"
  /\ invitation' = [invitation EXCEPT ![i] =
       [status |-> "PENDING", org |-> req[r].org, email |-> req[r].target,
        role |-> req[r].role, token |-> Len(mail) + 1, expired |-> FALSE]]
  /\ Send(r, i)
  /\ Answer(r)
  /\ UNCHANGED <<user, member, access, chosen>>

BeginRevocation(r, o, a, i) ==
  /\ a \in Admins(o)
  /\ Begin(r, [NoRequest EXCEPT !.op = "revokeInvitation", !.pc = "write",
                                !.org = o, !.row = i])
  /\ UNCHANGED <<user, member, access, invitation, mail, chosen>>

\* deleteMany with acceptedAt null in its condition: one statement.
RevokeInvitation(r) ==
  LET i == req[r].row IN
  /\ At(r, {"revokeInvitation"}, "write")
  /\ invitation' = IF invitation[i].status = "PENDING" /\ invitation[i].org = req[r].org
                   THEN [invitation EXCEPT ![i] = [NoInvitation EXCEPT !.status = "DELETED"]]
                   ELSE invitation
  /\ Answer(r)
  /\ UNCHANGED <<user, member, access, mail, chosen>>

\* Seven days have passed.
Expire(i) ==
  /\ invitation[i].status = "PENDING" /\ ~invitation[i].expired
  /\ invitation' = [invitation EXCEPT ![i].expired = TRUE]
  /\ UNCHANGED <<user, member, access, mail, req, chosen>>

BeginAccept(r, u, t) ==
  /\ t \in 1..Len(mail)
  /\ Begin(r, [NoRequest EXCEPT !.op = "acceptInvitation", !.pc = "lookup",
                                !.target = u, !.token = t])
  /\ UNCHANGED <<user, member, access, invitation, mail, chosen>>

\* The check that the caller owns the invited address is dropped.
Acceptable_Forwarded(u, t) ==
  {i \in Invitation : /\ invitation[i].token = t
                      /\ invitation[i].status = "PENDING"
                      /\ ~invitation[i].expired}

\* The row of a token, when the caller may accept it.
Acceptable(u, t) ==
  {i \in Invitation : /\ invitation[i].token = t
                      /\ invitation[i].status = "PENDING"
                      /\ ~invitation[i].expired
                      /\ invitation[i].email = u}

\* The row is read, and checked, before the transaction.
LookUpInvitation(r) ==
  LET found == Acceptable(req[r].target, req[r].token) IN
  /\ At(r, {"acceptInvitation"}, "lookup")
  /\ IF found = {}
     THEN Answer(r)
     ELSE \E i \in found :
            req' = [req EXCEPT ![r].pc = "commit", ![r].row = i,
                               ![r].org = invitation[i].org, ![r].role = invitation[i].role]
  /\ UNCHANGED <<user, member, access, invitation, mail, chosen>>

\* Without the second check of acceptedAt.
StillUnaccepted_Trusting(i) == TRUE

\* What updateMany of the transaction asks of the row once more.
StillUnaccepted(i) == invitation[i].status = "PENDING"

\* The transaction: the user, the membership, and the row marked accepted; all
\* three rolled back when updateMany finds no unaccepted row any more.
AcceptInvitation(r) ==
  LET i == req[r].row
      u == req[r].target IN
  /\ At(r, {"acceptInvitation"}, "commit")
  /\ IF StillUnaccepted(i)
     THEN /\ user' = user \cup {u}
          /\ member' = [member EXCEPT ![req[r].org][u] = req[r].role]
          /\ invitation' = [invitation EXCEPT ![i].status = "ACCEPTED"]
     ELSE UNCHANGED <<user, member, invitation>>
  /\ Answer(r)
  /\ UNCHANGED <<access, mail, chosen>>

\* The server or its connection fails before the next statement.
GiveUp(r) ==
  /\ req[r] # NoRequest
  /\ Answer(r)
  /\ UNCHANGED <<user, member, access, invitation, mail, chosen>>
-----------------------------------------------------------------------------
\* An ADMIN's request begins.
Administer(r) ==
  \E o \in Org, a \in Account :
    \/ \E u \in Account : BeginRail(r, o, a, "removeMember", u, Null)
    \/ \E u \in Account, role \in Offered : BeginRail(r, o, a, "updateMemberRole", u, role)
    \/ \E u \in Account, role \in Offered : BeginInvitation(r, o, a, u, role)
    \/ \E i \in Invitation : BeginRevocation(r, o, a, i)

\* A request's next statement.
Serve(r) ==
  \/ LoadTarget(r) \/ CountAdmins(r) \/ UpdateMemberRole(r) \/ RemoveMember(r)
  \/ FindPending(r) \/ RotateInvitation(r)
  \/ \E i \in Invitation : CreateInvitation(r, i)
  \/ RevokeInvitation(r)
  \/ LookUpInvitation(r) \/ AcceptInvitation(r)
  \/ GiveUp(r)

\* What happens beside the requests.
Around ==
  \/ \E u \in Account : Bootstrap(u)
  \/ \E u \in Account, o \in Org : CreateOrganization(u, o)
  \/ \E u \in Account, o \in Org : AssignFacility(o, u)
  \/ \E i \in Invitation : Expire(i)

Next ==
  \/ Around
  \/ \E r \in Request :
       Administer(r) \/ Serve(r) \/ \E u \in Account, t \in 1..MaxMail : BeginAccept(r, u, t)

Spec == Init /\ [][Next]_vars
-----------------------------------------------------------------------------
(* Properties. *)

\* The shape of the rows and of the requests.
TypeOK ==
  /\ user \subseteq Account
  /\ member \in [Org -> [Account -> Role \cup {Null}]]
  /\ access \in [Org -> SUBSET Account]
  /\ invitation \in [Invitation -> InvitationRow]
  /\ mail \in Seq([row : Invitation, org : Org, email : Account, role : Role])
  /\ Len(mail) <= MaxMail
  /\ req \in [Request -> RequestRow]
  /\ chosen \subseteq Org \X Account \X Role

\* Whoever enters an organization founds it or spends an invitation of it that is
\* addressed to him and pending at that very moment: not revoked since it was
\* looked up, and not accepted by the same call made twice.  The second check of
\* acceptedAt, inside the transaction of acceptInvitation, is there for this.
JoinsSpendInvitations ==
  [][\A o \in Org, u \in Account :
       member[o][u] = Null /\ member'[o][u] # Null =>
         \/ ~Exists(o) /\ member'[o][u] = "ADMIN"
         \/ \E i \in Invitation :
              /\ invitation[i].status = "PENDING" /\ invitation'[i].status = "ACCEPTED"
              /\ invitation[i].org = o /\ invitation[i].email = u]_vars

\* The role a member holds was chosen for exactly this person by somebody who was
\* ADMIN of the organization when his request came in, or by founding it; neither
\* a forwarded link nor any order of invitations, rotations, acceptances and
\* changes gives somebody else's role.
RolesAreChosen ==
  \A o \in Org, u \in Account : member[o][u] # Null => <<o, u, member[o][u]>> \in chosen

\* userCanAccessBin decides by user_facilities alone: nobody keeps a row there who
\* has left the organization (the comment of removeMember).
AccessNeedsMembership ==
  \A o \in Org : \A u \in access[o] : member[o][u] # Null

\* org-member.service.ts: "the last ADMIN can never be demoted or removed - an org
\* with no admin is permanently unmanageable".
AnAdminRemains ==
  [][\A o \in Org : Admins(o) # {} => Admins(o)' # {}]_vars
=============================================================================
