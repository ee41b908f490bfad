----------------------------- MODULE Onboarding -----------------------------
(***************************************************************************)
(* A new account sets itself up: OnboardingWizard in one or more tabs,     *)
(* auth.bootstrap, auth.createOrganization with the trial Stripe starts    *)
(* when billing is on, the first facility and the first invitations.       *)
(***************************************************************************)
EXTENDS Naturals, Sequences

CONSTANTS
  Tab,
  MaxOrgs,   \* bound: organizations ever created
  MaxTries,  \* bound: slugs taken for a submission of a tab
  Null

VARIABLES
  tab,        \* the wizards
  user,       \* whether the user's row is there
  orgs,       \* the user's organizations, the oldest membership first
  invitations \* the addresses that have been invited

vars == <<tab, user, orgs, invitations>>
-----------------------------------------------------------------------------
Email == {"a", "b"}

\* org: what the tab has created; email: the field; sending: the address under
\* way; sentTo: the notice.
Closed == [step |-> "closed", call |-> "none", org |-> 0, slug |-> 0, tries |-> 0,
           email |-> Null, sending |-> Null, sentTo |-> Null]

\* slug: the suffix of the name's slug; every tab proposes the same name.
Organization(slug) == [slug |-> slug, trial |-> FALSE, facility |-> FALSE]

Init ==
  /\ tab = [t \in Tab |-> Closed]
  /\ user = FALSE /\ orgs = <<>> /\ invitations = {}

Now(t, call) == tab' = [tab EXCEPT ![t].call = call]
At(t, step, call) == tab[t].step = step /\ tab[t].call = call
-----------------------------------------------------------------------------
(* bootstrap. *)

\* The effect, once the session is there; checked keeps it from a second call.
Open(t) ==
  /\ tab[t].step = "closed"
  /\ tab' = [tab EXCEPT ![t].step = "bootstrap", ![t].call = "upsert"]
  /\ UNCHANGED <<user, orgs, invitations>>

UpsertUser(t) ==
  /\ tab[t].call = "upsert"
  /\ user' = TRUE /\ Now(t, "look")
  /\ UNCHANGED <<orgs, invitations>>

\* needsOrg; the dashboard otherwise.
LookForOrg(t) ==
  /\ tab[t].call = "look"
  /\ tab' = [tab EXCEPT ![t].step = IF orgs = <<>> THEN "org" ELSE "dashboard",
                        ![t].call = "none"]
  /\ UNCHANGED <<user, orgs, invitations>>

\* An email another row has, a service that is down.  The wizard is shown.
BootstrapFails(t) ==
  /\ tab[t].step = "bootstrap"
  /\ tab' = [tab EXCEPT ![t].step = "org", ![t].call = "none"]
  /\ UNCHANGED <<user, orgs, invitations>>
-----------------------------------------------------------------------------
(* OrgStep, and createOrganization. *)

\* protectedProcedure: a request whose user has no row is refused.
SubmitOrg(t) ==
  /\ At(t, "org", "none") /\ user /\ tab[t].tries < MaxTries
  /\ tab' = [tab EXCEPT ![t].call = "slug", ![t].tries = @ + 1]
  /\ UNCHANGED <<user, orgs, invitations>>

Slugs == {orgs[i].slug : i \in DOMAIN orgs}

\* generateUniqueSlug: the first suffix nobody has.
ChooseSlug(t) ==
  /\ tab[t].call = "slug"
  /\ \E n \in 1..(MaxOrgs + 1) :
       /\ n \notin Slugs /\ 1..(n - 1) \subseteq Slugs
       /\ tab' = [tab EXCEPT ![t].slug = n, ![t].call = "provision"]
  /\ UNCHANGED <<user, orgs, invitations>>

\* provisionOrganization, one transaction; the slug is unique.
Provision(t) ==
  /\ tab[t].call = "provision"
  /\ IF tab[t].slug \in Slugs
     THEN Now(t, "none") /\ UNCHANGED orgs
     ELSE /\ Len(orgs) < MaxOrgs
          /\ orgs' = Append(orgs, Organization(tab[t].slug))
          /\ tab' = [tab EXCEPT ![t].org = Len(orgs) + 1, ![t].call = "trial"]
  /\ UNCHANGED <<user, invitations>>

\* createTrialSubscription, and onDone.
StartTrial(t) ==
  /\ tab[t].call = "trial"
  /\ orgs' = [orgs EXCEPT ![tab[t].org].trial = TRUE]
  /\ tab' = [tab EXCEPT ![t].step = "facility", ![t].call = "none"]
  /\ UNCHANGED <<user, invitations>>

\* Mutant: the trial is not awaited.
AfterNoTrial_Onward == "facility"

AfterNoTrial == "org"

\* Stripe fails: an error under the name, over an organization that is there.
TrialFails(t) ==
  /\ tab[t].call = "trial"
  /\ tab' = [tab EXCEPT ![t].step = AfterNoTrial, ![t].call = "none"]
  /\ UNCHANGED <<user, orgs, invitations>>
-----------------------------------------------------------------------------
(* FacilityStep: it goes to the organization resolveOrgId finds. *)

SubmitFacility(t) ==
  /\ At(t, "facility", "none")
  /\ Now(t, "facility")
  /\ UNCHANGED <<user, orgs, invitations>>

CreateFacility(t) ==
  /\ At(t, "facility", "facility")
  /\ orgs' = [orgs EXCEPT ![1].facility = TRUE]
  /\ tab' = [tab EXCEPT ![t].step = "invite", ![t].call = "none"]
  /\ UNCHANGED <<user, invitations>>

FacilityFails(t) ==
  /\ At(t, "facility", "facility")
  /\ Now(t, "none")
  /\ UNCHANGED <<user, orgs, invitations>>
-----------------------------------------------------------------------------
(* InviteStep. *)

TypeEmail(t, e) ==
  /\ tab[t].step = "invite"
  /\ tab' = [tab EXCEPT ![t].email = e]
  /\ UNCHANGED <<user, orgs, invitations>>

Invite(t) ==
  /\ At(t, "invite", "none") /\ tab[t].email # Null
  /\ tab' = [tab EXCEPT ![t].call = "invite", ![t].sending = tab[t].email]
  /\ UNCHANGED <<user, orgs, invitations>>

\* onSuccess of the last render: the notice names what the field holds by now.
Invited(t) ==
  /\ At(t, "invite", "invite")
  /\ invitations' = invitations \cup {tab[t].sending}
  /\ tab' = [tab EXCEPT ![t].sentTo = tab[t].email, ![t].email = Null,
                        ![t].sending = Null, ![t].call = "none"]
  /\ UNCHANGED <<user, orgs>>

InviteFails(t) ==
  /\ At(t, "invite", "invite")
  /\ tab' = [tab EXCEPT ![t].sending = Null, ![t].call = "none"]
  /\ UNCHANGED <<user, orgs, invitations>>

\* Done, Skip for now.  A call that is left under way is another tab's, here and in
\* Reload.
Finish(t) ==
  /\ At(t, "invite", "none")
  /\ tab' = [tab EXCEPT ![t] = [Closed EXCEPT !.step = "dashboard"]]
  /\ UNCHANGED <<user, orgs, invitations>>

\* The page is reloaded, or opened again.
Reload(t) ==
  /\ tab[t].step # "closed" /\ tab[t].call = "none"
  /\ tab' = [tab EXCEPT ![t] = [Closed EXCEPT !.tries = tab[t].tries]]
  /\ UNCHANGED <<user, orgs, invitations>>

Next ==
  \E t \in Tab :
    \/ Open(t) \/ UpsertUser(t) \/ LookForOrg(t) \/ BootstrapFails(t)
    \/ SubmitOrg(t) \/ ChooseSlug(t) \/ Provision(t) \/ StartTrial(t) \/ TrialFails(t)
    \/ SubmitFacility(t) \/ CreateFacility(t) \/ FacilityFails(t)
    \/ \E e \in Email \cup {Null} : TypeEmail(t, e)
    \/ Invite(t) \/ Invited(t) \/ InviteFails(t)
    \/ Finish(t) \/ Reload(t)

Spec == Init /\ [][Next]_vars
-----------------------------------------------------------------------------
(* Properties. *)

\* The wizard moves on over what is there: past the first step over an organization
\* with its trial, past the second over a facility of the organization the user acts
\* in (OnboardingWizard.tsx:64-66, auth.service.ts:127-136).
StepsAreEarned ==
  \A t \in Tab :
    /\ tab[t].step \in {"facility", "invite"} => tab[t].org # 0 /\ orgs[tab[t].org].trial
    /\ tab[t].step = "invite" => orgs[1].facility
-----------------------------------------------------------------------------
(* The inductive invariant of this property.                               *)

TabRow == [step : {"closed", "bootstrap", "org", "facility", "invite", "dashboard"},
           call : {"none", "upsert", "look", "slug", "provision", "trial", "facility", "invite"},
           org : Nat, slug : Nat, tries : Nat,
           email : Email \cup {Null}, sending : Email \cup {Null}, sentTo : Email \cup {Null}]

TypeOK ==
  /\ tab \in [Tab -> TabRow]
  /\ orgs \in Seq([slug : Nat, trial : BOOLEAN, facility : BOOLEAN])

\* A call is made from its own step, and left only with its answer.
CallsAreOfTheStep ==
  \A t \in Tab :
    /\ tab[t].call \in {"upsert", "look"} => tab[t].step = "bootstrap"
    /\ tab[t].call \in {"slug", "provision", "trial"} => tab[t].step = "org"

\* The organization the tab has created is there, and those it goes on with are the
\* last it has created.
OrgsAreThere ==
  \A t \in Tab :
    tab[t].call = "trial" \/ tab[t].step \in {"facility", "invite"} => tab[t].org \in DOMAIN orgs

IInv == TypeOK /\ CallsAreOfTheStep /\ OrgsAreThere /\ StepsAreEarned
=============================================================================
