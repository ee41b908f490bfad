----------------------------- MODULE OrgModules -----------------------------
(***************************************************************************)
(* The operator's table of modules: one row per organization, one checkbox  *)
(* per module.  A click flips the box at once, cancels the list under way   *)
(* and sends the change; when a change fails the page puts back the table   *)
(* as it was before that change's own click; when a change settles, either  *)
(* way, the list is asked for again.  The query library is modelled by what *)
(* the page uses of it: one list request at a time, cancelled by a click    *)
(* and replaced by an invalidation.                                         *)
(***************************************************************************)
EXTENDS Integers, Sequences, FiniteSets

CONSTANTS Cell,        \* an organization and a module
          MaxToggles   \* bound: clicks on one visit

VARIABLES server,   \* is the module on, as stored
          shown,    \* is the module on, in the page's cached list
          fetch,    \* the list request: "none", "asked", "failed", or the list read
          toggles   \* the changes sent, oldest first

vars == <<server, shown, fetch, toggles>>

Asked == [pc |-> "asked"]
None == [pc |-> "none"]
Failed == [pc |-> "failed"]
Answered(list) == [pc |-> "read", list |-> list]

Init ==
  /\ server \in [Cell -> BOOLEAN]
  /\ shown = server
  /\ fetch = None
  /\ toggles = <<>>

Pending(m) == toggles[m].pc \in {"sent", "applied"}

\* One key is remembered for the whole table: only the cell of the latest
\* click is disabled, and only while that change is under way.
Disabled(c) ==
  LET last == Len(toggles) IN last > 0 /\ toggles[last].cell = c /\ Pending(last)

\* The table is there to be clicked unless the list could not be read.
HandleToggle(c) ==
  /\ fetch # Failed /\ ~Disabled(c) /\ Len(toggles) < MaxToggles
  /\ toggles' = Append(toggles, [cell |-> c, enabled |-> ~shown[c],
                                 previous |-> shown, pc |-> "sent"])
  /\ shown' = [shown EXCEPT ![c] = ~@]
  /\ fetch' = None
  /\ UNCHANGED server

\* The override is written; the audit row after it may still fail.
ToggleModule(m) ==
  /\ toggles[m].pc \in {"sent", "abandoned"}
  /\ server' = [server EXCEPT ![toggles[m].cell] = toggles[m].enabled]
  /\ toggles' = [toggles EXCEPT ![m].pc = IF @ = "sent" THEN "applied" ELSE "late"]
  /\ UNCHANGED <<shown, fetch>>

\* Settled, well or badly: the list is asked for again, afresh.
Refreshed_OnSuccess(succeeded) == IF succeeded THEN Asked ELSE fetch
Refreshed(succeeded) == Asked

Succeed(m) ==
  /\ toggles[m].pc = "applied"
  /\ toggles' = [toggles EXCEPT ![m].pc = "settled"]
  /\ fetch' = Refreshed(TRUE)
  /\ UNCHANGED <<server, shown>>

\* Refused before the write, failed after it, or given up by the browser
\* while the server still works on it.
Fail(m) ==
  /\ Pending(m)
  /\ \/ toggles' = [toggles EXCEPT ![m].pc = "settled"]
     \/ toggles[m].pc = "sent" /\ toggles' = [toggles EXCEPT ![m].pc = "abandoned"]
  /\ shown' = toggles[m].previous
  /\ fetch' = Refreshed(FALSE)
  /\ UNCHANGED server

\* The page comes back into focus: no second request while one is under way.
Refocus ==
  /\ fetch \in {None, Failed}
  /\ fetch' = Asked
  /\ UNCHANGED <<server, shown, toggles>>

ListOrganizations ==
  /\ fetch = Asked
  /\ fetch' = Answered(server)
  /\ UNCHANGED <<server, shown, toggles>>

Deliver ==
  /\ fetch.pc = "read"
  /\ shown' = fetch.list
  /\ fetch' = None
  /\ UNCHANGED <<server, toggles>>

LoseList ==
  /\ fetch.pc \in {"asked", "read"}
  /\ fetch' = Failed
  /\ UNCHANGED <<server, shown, toggles>>

Next ==
  \/ \E c \in Cell : HandleToggle(c)
  \/ \E m \in DOMAIN toggles : ToggleModule(m) \/ Succeed(m) \/ Fail(m)
  \/ Refocus \/ ListOrganizations \/ Deliver \/ LoseList

Spec == Init /\ [][Next]_vars

GivenUp(c) == \E m \in DOMAIN toggles :
  toggles[m].cell = c /\ toggles[m].pc \in {"abandoned", "late"}

\* Once every change has settled and no list is under way, the boxes the
\* operator sees are the modules the organizations have - whatever was flipped
\* ahead of its answer, put back by the failure of another change, or
\* overwritten by a list read too early - except where the browser gave up on
\* a change that the server may still carry out.
SettledShowsTheTruth ==
  (fetch = None /\ \A m \in DOMAIN toggles : ~Pending(m))
    => \A c \in Cell : GivenUp(c) \/ shown[c] = server[c]
-----------------------------------------------------------------------------
(* The inductive invariant of this property.                               *)

Table == [Cell -> BOOLEAN]
Change == [cell : Cell, enabled : BOOLEAN, previous : Table,
           pc : {"sent", "applied", "settled", "abandoned", "late"}]

TypeOK ==
  /\ server \in Table /\ shown \in Table
  /\ fetch \in {None, Asked, Failed} \cup [pc : {"read"}, list : Table]
  /\ toggles \in Seq(Change)

\* A list on its way is what is stored, but for the changes that are yet to settle,
\* each of which asks for another list.
ListsAreTrue ==
  fetch.pc = "read" => \A c \in Cell :
    \/ GivenUp(c) \/ fetch.list[c] = server[c]
    \/ \E m \in DOMAIN toggles : toggles[m].cell = c /\ toggles[m].pc = "applied"

IInv == TypeOK /\ ListsAreTrue /\ SettledShowsTheTruth
=============================================================================
