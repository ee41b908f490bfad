-------------------------- MODULE PayrollSettings --------------------------
(***************************************************************************)
(* The payroll settings of one organization and the cards its admins edit   *)
(* them on: the hourly rate and the address that approves payouts.  A card  *)
(* sends its whole form.  The server reads the row, replaces it and writes  *)
(* the audit entry in one transaction, then tells the previous manager.     *)
(***************************************************************************)
EXTENDS Integers, FiniteSets

CONSTANTS Admin, Manager, Null,
          Rate,      \* what can be typed as the rate, 0 for what is none
          MaxSaves   \* bound: forms sent

VARIABLES settings,  \* the stored row
          audit,     \* the latest audit entry: what it says was replaced, by what
          cards,     \* each admin's cached row and what the form holds
          requests,  \* each admin's update under way
          notices,   \* by which save somebody is to approve no more, and what
                     \* became of telling them
          standing,  \* history: who approves, and has since before any update
                     \* under way read the row; Null if nobody
          replaced,  \* history: by which save one who stood so was replaced
          saves

vars == <<settings, audit, cards, requests, notices, standing, replaced, saves>>

Idle == [pc |-> "idle"]

Init ==
  /\ settings \in [rate : Rate \ {0}, manager : Manager \cup {Null}]
  /\ audit = Null
  /\ cards = [a \in Admin |-> [cache |-> settings, form |-> settings]]
  /\ requests = [a \in Admin |-> Idle]
  /\ notices = {} /\ replaced = {}
  /\ standing = settings.manager
  /\ saves = 0

\* A rate that is no positive number never leaves the card.
Type(a) ==
  /\ \/ \E m \in Manager \cup {Null} : cards' = [cards EXCEPT ![a].form.manager = m]
     \/ \E r \in Rate : cards' = [cards EXCEPT ![a].form.rate = r]
  /\ UNCHANGED <<settings, audit, requests, notices, standing, replaced, saves>>

HandleSubmit(a) ==
  /\ requests[a] = Idle /\ cards[a].form.rate > 0 /\ saves < MaxSaves
  /\ saves' = saves + 1
  /\ requests' = [requests EXCEPT ![a] = [pc |-> "read", save |-> saves', input |-> cards[a].form]]
  /\ UNCHANGED <<settings, audit, cards, notices, standing, replaced>>

ReadExisting(a) ==
  /\ requests[a].pc = "read"
  /\ requests' = [requests EXCEPT ![a] =
       [pc |-> "write", save |-> @.save, input |-> @.input, existing |-> settings]]
  /\ UNCHANGED <<settings, audit, cards, notices, standing, replaced, saves>>

\* The manager the notice goes to, of the row read before the write.
PreviousManager_AfterWrite(a) == requests[a].input.manager
PreviousManager(a) == requests[a].existing.manager

\* Whoever approves stands when no update that has read the row is left to write.
Standing(reqs, manager) ==
  IF (\A b \in Admin : reqs[b].pc # "write") \/ manager = standing THEN manager ELSE Null

Update(a) ==
  LET input == requests[a].input
      previous == PreviousManager(a)
  IN /\ requests[a].pc = "write"
     /\ settings' = input
     /\ audit' = [old |-> requests[a].existing, new |-> input]
     /\ requests' = [requests EXCEPT ![a] =
          IF previous # Null /\ previous # input.manager
          THEN [pc |-> "notice", told |-> <<@.save, previous>>] ELSE [pc |-> "answer"]]
     /\ standing' = Standing(requests', input.manager)
     /\ replaced' = IF standing \in {Null, input.manager} THEN replaced
                    ELSE replaced \cup {<<requests[a].save, standing>>}
     /\ UNCHANGED <<cards, notices, saves>>

\* A refused notice is reported and the save stands.
SendManagerEmailChangedNotice(a) ==
  /\ requests[a].pc = "notice"
  /\ \E fate \in {"sent", "refused"} :
       notices' = notices \cup {[told |-> requests[a].told, fate |-> fate]}
  /\ requests' = [requests EXCEPT ![a] = [pc |-> "answer"]]
  /\ UNCHANGED <<settings, audit, cards, standing, replaced, saves>>

\* The server crashes, or the database fails it: an update ends before or after
\* its transaction, and a notice that was not sent yet never is.
Crash(a) ==
  /\ requests[a] # Idle
  /\ requests' = [requests EXCEPT ![a] = Idle]
  /\ notices' = IF requests[a].pc = "notice"
                THEN notices \cup {[told |-> requests[a].told, fate |-> "lost"]} ELSE notices
  /\ standing' = Standing(requests', settings.manager)
  /\ UNCHANGED <<settings, audit, cards, replaced, saves>>

\* The card refetches on success and when its page regains focus; a row that
\* differs from the cached one fills the form again.
Shown(card, row) == IF card.cache = row THEN card ELSE [cache |-> row, form |-> row]

OnSuccess(a) ==
  /\ requests[a].pc = "answer"
  /\ requests' = [requests EXCEPT ![a] = Idle]
  /\ cards' = [cards EXCEPT ![a] = Shown(@, settings)] \/ UNCHANGED cards
  /\ UNCHANGED <<settings, audit, notices, standing, replaced, saves>>

Refetch(a) ==
  /\ cards' = [cards EXCEPT ![a] = Shown(@, settings)]
  /\ UNCHANGED <<settings, audit, requests, notices, standing, replaced, saves>>

Next == \E a \in Admin :
  \/ Type(a) \/ HandleSubmit(a) \/ ReadExisting(a) \/ Update(a)
  \/ SendManagerEmailChangedNotice(a) \/ Crash(a) \/ OnSuccess(a) \/ Refetch(a)

Spec == Init /\ [][Next]_vars

\* What became of a notice: it is out, refused by the mail service or lost in a
\* crash, or it is about to be sent.
Accounted(r) ==
  \/ \E n \in notices : n.told = r
  \/ \E a \in Admin : requests[a].pc = "notice" /\ requests[a].told = r

\* However updates of several admins overlap, whoever has approved payouts since
\* before any of them read the row is the one to be told by the first that
\* replaces them: their notice goes out, unless the mail service refuses it or the
\* server crashes first.  One whose address came and went while another update was
\* between its read and its write is told of nothing (settings.service.ts:27-61).
ManagersAreTold == \A r \in replaced : Accounted(r)
-----------------------------------------------------------------------------
\* The inductive invariant: every admin has one request, and an update about to
\* write has read who stands.
IInv ==
  /\ requests = [a \in Admin |-> requests[a]]
  /\ ManagersAreTold
  /\ standing # Null =>
       /\ settings.manager = standing
       /\ \A a \in Admin : requests[a].pc = "write" => requests[a].existing.manager = standing
=============================================================================
