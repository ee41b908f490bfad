------------------------------- MODULE Employees -------------------------------
(***************************************************************************)
(* Employees and their bank links, of one organization: the service        *)
(* (employee.service.ts), the pages of an administrator (EmployeesPage,    *)
(* EmployeeRegisterPage) and the public page behind a link                 *)
(* (BankDetailsPage).  No statement of the service names what it has read  *)
(* before, so that every statement is a step.                              *)
(*                                                                         *)
(* A link is the number of the mail that carries its token.                *)
(***************************************************************************)
EXTENDS Naturals, Sequences, FiniteSets

CONSTANTS
  Employee,  \* ids (cuids, never reused)
  Request,   \* slots for administrators' requests in flight
  Tab,       \* browser tabs a link is opened in
  Details,   \* what somebody types into the bank form
  Seats,     \* maxEmployees of the plan
  MaxLinks,  \* bound: links mailed
  Null

VARIABLES
  employee,  \* the rows of table employees
  request,
  links,     \* the mails: links[n] is the employee link n was made for
  tab,       \* the bank pages
  stored,    \* history: how often a link has stored details
  raced      \* history: the links that two submissions were using at once

vars == <<employee, request, links, tab, stored, raced>>
-----------------------------------------------------------------------------
\* by is history: the tab the details come from.  Nothing in src makes an
\* employee INACTIVE.
NewRow == [details |-> Null, by |-> Null, link |-> 0, expired |-> FALSE]

NoRequest == [pc |-> "idle", id |-> Null]

\* shown: the form's fields; sent: what the submission carries.
NoTab == [step |-> "closed", pc |-> "idle", link |-> 0, id |-> Null,
          shown |-> Null, sent |-> Null]

Registered == {e \in Employee : employee[e] # Null}

Goto(r, pc) == request' = [request EXCEPT ![r].pc = pc]

Init ==
  /\ employee = [e \in Employee |-> Null]
  /\ request = [r \in Request |-> NoRequest]
  /\ links = <<>>
  /\ tab = [t \in Tab |-> NoTab]
  /\ stored = [n \in 1..MaxLinks |-> 0]
  /\ raced = {}
-----------------------------------------------------------------------------
(* Registration. *)

\* handleSubmit of EmployeeRegisterPage: the button is disabled while pending, so
\* that a slot is one page.
Register(r) ==
  /\ request[r] = NoRequest
  /\ Goto(r, "count")
  /\ UNCHANGED <<employee, links, tab, stored, raced>>

SeatLeft == Cardinality(Registered) < Seats

CountSeats(r) ==
  /\ request[r].pc = "count"
  /\ IF SeatLeft THEN Goto(r, "create") ELSE request' = [request EXCEPT ![r] = NoRequest]
  /\ UNCHANGED <<employee, links, tab, stored, raced>>

\* A row with the next code and a new badge.  A token that is taken costs a code
\* and another turn of the loop, which changes nothing else.
CreateRow(r) ==
  /\ request[r].pc = "create"
  /\ \E e \in Employee \ Registered : employee' = [employee EXCEPT ![e] = NewRow]
  /\ request' = [request EXCEPT ![r] = NoRequest]
  /\ UNCHANGED <<links, tab, stored, raced>>
-----------------------------------------------------------------------------
(* A link: requestBankDetails, behind Send request and Resend. *)

RequestBankDetails(r, e) ==
  /\ request[r] = NoRequest /\ e \in Registered
  /\ request' = [request EXCEPT ![r] = [pc |-> "rotate", id |-> e]]
  /\ UNCHANGED <<employee, links, tab, stored, raced>>

\* The new token takes the place of the old one, and is mailed.
RotateLink(r) ==
  /\ request[r].pc = "rotate"
  /\ Len(links) < MaxLinks
  /\ links' = Append(links, request[r].id)
  /\ employee' = [employee EXCEPT ![request[r].id].link = Len(links) + 1,
                                  ![request[r].id].expired = FALSE]
  /\ request' = [request EXCEPT ![r] = NoRequest]
  /\ UNCHANGED <<tab, stored, raced>>

\* Seven days have passed.
Expire(e) ==
  /\ e \in Registered /\ employee[e].link # 0 /\ ~employee[e].expired
  /\ employee' = [employee EXCEPT ![e].expired = TRUE]
  /\ UNCHANGED <<request, links, tab, stored, raced>>

\* Whom findEmployeeByBankLink finds.
Holder(n) == {e \in Registered : employee[e].link = n /\ ~employee[e].expired}
-----------------------------------------------------------------------------
(* The page behind a link. *)

Show(t, step) == tab' = [tab EXCEPT ![t].step = step]

\* getBankLinkContext.
HasContext(n) == Holder(n) # {}

\* The effect asks for the link's context, once.
OpenLink(t, n) ==
  /\ tab[t].step = "closed"
  /\ tab' = [tab EXCEPT ![t].link = n, ![t].step = IF HasContext(n) THEN "form" ELSE "invalid"]
  /\ UNCHANGED <<employee, request, links, stored, raced>>

\* The fields of the form.
Fill(t, d) ==
  /\ tab[t].step = "form"
  /\ tab' = [tab EXCEPT ![t].shown = d]
  /\ UNCHANGED <<employee, request, links, stored, raced>>

\* handleNext: valid fields lead to the review.
Review(t) ==
  /\ tab[t].step = "form" /\ tab[t].shown # Null
  /\ Show(t, "review")
  /\ UNCHANGED <<employee, request, links, stored, raced>>

BackEnabled(t) == tab[t].step = "review" /\ tab[t].pc = "idle"

Back(t) ==
  /\ BackEnabled(t)
  /\ Show(t, "form")
  /\ UNCHANGED <<employee, request, links, stored, raced>>

\* Confirm & send.
Submit(t) ==
  /\ tab[t].step = "review" /\ tab[t].pc = "idle"
  /\ tab' = [tab EXCEPT ![t].pc = "find", ![t].sent = tab[t].shown]
  /\ UNCHANGED <<employee, request, links, stored, raced>>

\* submitBankDetails finds the row by the link alone.
FindByLink(t) ==
  LET n == tab[t].link IN
  /\ tab[t].pc = "find"
  /\ \/ /\ Holder(n) = {}
        /\ tab' = [tab EXCEPT ![t].pc = "idle"]
        /\ UNCHANGED raced
     \/ /\ \E e \in Holder(n) : tab' = [tab EXCEPT ![t].pc = "store", ![t].id = e]
        /\ raced' = IF \E u \in Tab : tab[u].pc = "store" /\ tab[u].link = n
                    THEN raced \cup {n} ELSE raced
  /\ UNCHANGED <<employee, request, links, stored>>

\* Mutant: the link is not burnt.
Stored_Unburnt(t) ==
  [employee EXCEPT ![tab[t].id].details = tab[t].sent, ![tab[t].id].by = t]

Stored(t) ==
  [employee EXCEPT ![tab[t].id] = [@ EXCEPT !.details = tab[t].sent, !.by = t,
                                            !.link = 0, !.expired = FALSE]]

\* It writes by the row's id, whatever its link is by now, and burns that.
StoreDetails(t) ==
  /\ tab[t].pc = "store"
  /\ employee' = Stored(t)
  /\ stored' = [stored EXCEPT ![tab[t].link] = IF @ < 2 THEN @ + 1 ELSE @]
  /\ tab' = [tab EXCEPT ![t].pc = "answer"]
  /\ UNCHANGED <<request, links, raced>>

\* onSuccess.
Answered(t) ==
  /\ tab[t].pc = "answer"
  /\ tab' = [tab EXCEPT ![t].step = "done", ![t].pc = "idle"]
  /\ UNCHANGED <<employee, request, links, stored, raced>>

\* The database, the server or the connection fails, before or after the write.
SubmissionFails(t) ==
  /\ tab[t].pc # "idle"
  /\ tab' = [tab EXCEPT ![t].pc = "idle"]
  /\ UNCHANGED <<employee, request, links, stored, raced>>

RequestFails(r) ==
  /\ request[r] # NoRequest
  /\ request' = [request EXCEPT ![r] = NoRequest]
  /\ UNCHANGED <<employee, links, tab, stored, raced>>
-----------------------------------------------------------------------------
Next ==
  \/ \E r \in Request :
       \/ Register(r) \/ CountSeats(r) \/ CreateRow(r)
       \/ RotateLink(r) \/ RequestFails(r)
       \/ \E e \in Employee : RequestBankDetails(r, e)
  \/ \E e \in Employee : Expire(e)
  \/ \E t \in Tab :
       \/ \E n \in DOMAIN links : OpenLink(t, n)
       \/ \E d \in Details : Fill(t, d)
       \/ Review(t) \/ Back(t) \/ Submit(t) \/ FindByLink(t) \/ StoreDetails(t)
       \/ Answered(t) \/ SubmissionFails(t)

Spec == Init /\ [][Next]_vars
-----------------------------------------------------------------------------
(***************************************************************************)
(* employee.service.ts:295, "The link is cleared on success, so it works   *)
(* exactly once": true of every link that no two submissions use at the    *)
(* same time, through expiry, rotation, lost answers and retries.          *)
(***************************************************************************)
LinksWorkOnce == \A n \in 1..MaxLinks : stored[n] <= 1 \/ n \in raced

(***************************************************************************)
(* The last screen names the account the pay goes to (BankDetailsPage.tsx: *)
(* 159-163): the fields it shows are those of the row, for as long as no   *)
(* other submission has replaced them.                                     *)
(***************************************************************************)
ReceiptIsTrue ==
  \A t \in Tab : tab[t].step = "done" /\ employee[tab[t].id].by = t =>
                   employee[tab[t].id].details = tab[t].shown

(***************************************************************************)
(* The count and the row it allows are two statements: registrations in    *)
(* flight together can overrun the plan, each but one by a single seat.    *)
(***************************************************************************)
SeatsAreBounded == Cardinality(Registered) < Seats + Cardinality(Request)
-----------------------------------------------------------------------------
(* The inductive invariant.                                                *)

Row == [details : Details \cup {Null}, by : Tab \cup {Null}, link : Nat, expired : BOOLEAN]

EmployeesConstants ==
  /\ IsFiniteSet(Employee) /\ IsFiniteSet(Request) /\ Request # {}
  /\ Seats \in Nat /\ MaxLinks \in Nat
  /\ Null \notin Employee \cup Tab \cup Details \cup Row

RequestRow == [pc : {"idle", "count", "create", "rotate"}, id : Employee \cup {Null}]
TabRow == [step : {"closed", "form", "invalid", "review", "done"},
           pc : {"idle", "find", "store", "answer"}, link : Nat, id : Employee \cup {Null},
           shown : Details \cup {Null}, sent : Details \cup {Null}]

TypeOK ==
  /\ employee \in [Employee -> Row \cup {Null}]
  /\ request \in [Request -> RequestRow]
  /\ links \in Seq(Employee) /\ Len(links) <= MaxLinks
  /\ tab \in [Tab -> TabRow]
  /\ stored \in [1..MaxLinks -> Nat]

RequestsFit ==
  \A r \in Request : request[r].pc = "rotate" => request[r].id \in Registered

\* A link that is held is its mail's.
LinksAreMailed ==
  \A e \in Registered : employee[e].link # 0 =>
    employee[e].link \in 1..Len(links) /\ links[employee[e].link] = e

TabsFit ==
  \A t \in Tab :
    /\ tab[t].step = "closed" => tab[t].link = 0
    /\ tab[t].step # "closed" => tab[t].link \in 1..Len(links)
    /\ tab[t].pc # "idle" => tab[t].step = "review" /\ tab[t].sent = tab[t].shown
    /\ tab[t].pc \in {"store", "answer"} \/ tab[t].step = "done" =>
         tab[t].id = links[tab[t].link] /\ tab[t].id \in Registered

Storing(t) == tab[t].pc = "store"
Held(n) == \E e \in Registered : employee[e].link = n

\* A link that has stored details is burnt, and nobody is about to use it.
UsedIsBurnt ==
  \A n \in 1..MaxLinks : n \notin raced =>
    /\ stored[n] <= 1
    /\ stored[n] = 1 => ~Held(n) /\ \A t \in Tab : ~(Storing(t) /\ tab[t].link = n)
    /\ \A t, u \in Tab :
         Storing(t) /\ Storing(u) /\ tab[t].link = n /\ tab[u].link = n => t = u

UnmailedIsUnused == \A n \in 1..MaxLinks : n > Len(links) => stored[n] = 0

\* What a tab has stored is what it shows, until it is told so or tries in vain.
DetailsAreOfTheTab ==
  \A t \in Tab, e \in Registered : employee[e].by = t =>
    /\ tab[t].step # "closed" /\ e = links[tab[t].link] /\ ~Held(tab[t].link) /\ ~Storing(t)
    /\ tab[t].pc = "answer" \/ tab[t].step = "done" => employee[e].details = tab[t].shown

\* The registrations that have passed the count.
Creating == {r \in Request : request[r].pc = "create"}

SeatsAreCounted == Cardinality(Registered) + Cardinality(Creating) < Seats + Cardinality(Request)

IInv ==
  /\ TypeOK /\ RequestsFit /\ LinksAreMailed /\ TabsFit /\ UsedIsBurnt /\ UnmailedIsUnused
  /\ DetailsAreOfTheTab /\ SeatsAreCounted
=============================================================================
