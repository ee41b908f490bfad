----------------------------- MODULE FormRecords -----------------------------
(***************************************************************************)
(* A form that is filled in, submitted, and corrected by administrators.   *)
(* The form asks a question and a required follow-up to one of its         *)
(* answers; the page (StandardFormRenderer in FormRenderer, or in          *)
(* SubmissionDetailPage) checks the answers before it sends them, and the  *)
(* server (form.service.ts) checks them again.  A correction leaves a row  *)
(* in the audit trail, written in the same transaction; transactions run   *)
(* at PostgreSQL's default level, Read Committed.                          *)
(***************************************************************************)
EXTENDS Naturals, Sequences, SequencesExt

CONSTANTS Admin,
          MaxCorrections   \* bound: rows of the audit trail

VARIABLES
  followUp,  \* where the template carries the follow-up's showIf
  record,    \* FormSubmission.values, and every value it has had before
  trail,     \* FormSubmissionAuditLog, oldest first
  filler,    \* the page of the worker who fills the form in
  desk       \* SubmissionDetailPage of each administrator

vars == <<followUp, record, trail, filler, desk>>

Answers == [kind : {"plain", "special"}, detail : {"", "given"}]
NoAnswers == [kind |-> "", detail |-> ""]
Place == {"nowhere", "section", "field"}

\* isFieldVisible and isSectionVisible of the page, which know both places.
ShownOnPage(v) == followUp = "nowhere" \/ v.kind = "special"
PageAccepts(v) == ShownOnPage(v) => v.detail # ""

\* getMissingRequiredFields knows the showIf of sections only.
ServerAccepts(v) == followUp # "section" \/ v.kind = "special" => v.detail # ""

Saved == Last(record)
Desk(v) == [cache |-> v, shown |-> v, editing |-> FALSE, stage |-> "idle",
            new |-> NoAnswers, old |-> NoAnswers]

Init ==
  /\ followUp \in Place
  /\ record = <<>> /\ trail = <<>>
  /\ filler = [values |-> NoAnswers, stage |-> "open"]
  /\ desk = [a \in Admin |-> [Desk(NoAnswers) EXCEPT !.stage = "unopened"]]
-----------------------------------------------------------------------------
(* FormRenderer: the worker's page.  Its fieldset is disabled while the     *)
(* mutation is pending.                                                     *)
Fill(v) ==
  /\ filler.stage = "open"
  /\ filler' = [filler EXCEPT !.values = v]
  /\ UNCHANGED <<followUp, record, trail, desk>>

\* handleSubmit: an error stays on the page, otherwise form.submit is called.
PressSubmit ==
  /\ filler.stage = "open" /\ filler.values \in Answers
  /\ PageAccepts(filler.values)
  /\ filler' = [filler EXCEPT !.stage = "sent"]
  /\ UNCHANGED <<followUp, record, trail, desk>>

\* submit: the second check, then the row.
Submit ==
  /\ filler.stage = "sent"
  /\ IF ServerAccepts(filler.values)
     THEN /\ record' = <<filler.values>>
          /\ filler' = [filler EXCEPT !.stage = "done"]
     ELSE /\ filler' = [filler EXCEPT !.stage = "refused"]
          /\ UNCHANGED record
  /\ UNCHANGED <<followUp, trail, desk>>

Reopen ==
  /\ filler.stage = "refused"
  /\ filler' = [filler EXCEPT !.stage = "open"]
  /\ UNCHANGED <<followUp, record, trail, desk>>
-----------------------------------------------------------------------------
(* SubmissionDetailPage.  The renderer takes its values from the cached     *)
(* record when it is mounted, and formKey remounts it.                      *)
On(a, stage) == record # <<>> /\ desk[a].stage = stage
Put(a, row) == desk' = [desk EXCEPT ![a] = row]
Remounted(d) == [d EXCEPT !.shown = d.cache]

OpenPage(a) ==
  /\ On(a, "unopened")
  /\ Put(a, Desk(Saved))
  /\ UNCHANGED <<followUp, record, trail, filler>>

\* form.getSubmission is fetched again: after a save, or on focus.
Refetch(a) ==
  /\ record # <<>> /\ desk[a].stage # "unopened"
  /\ Put(a, [desk[a] EXCEPT !.cache = Saved])
  /\ UNCHANGED <<followUp, record, trail, filler>>

BeginEdit(a) ==
  /\ record # <<>> /\ desk[a].stage # "unopened" /\ ~desk[a].editing
  /\ Put(a, [Remounted(desk[a]) EXCEPT !.editing = TRUE])
  /\ UNCHANGED <<followUp, record, trail, filler>>

\* Cancel stands outside the fieldset, and works while a save is pending.
CancelEdit(a) ==
  /\ desk[a].editing
  /\ Put(a, [Remounted(desk[a]) EXCEPT !.editing = FALSE])
  /\ UNCHANGED <<followUp, record, trail, filler>>

Correct(a, v) ==
  /\ On(a, "idle") /\ desk[a].editing
  /\ Put(a, [desk[a] EXCEPT !.shown = v])
  /\ UNCHANGED <<followUp, record, trail, filler>>

\* Save Changes: what is on the page is sent as the new values.
PressSave(a) ==
  /\ On(a, "idle") /\ desk[a].editing
  /\ Len(trail) < MaxCorrections
  /\ PageAccepts(desk[a].shown)
  /\ Put(a, [desk[a] EXCEPT !.stage = "sent", !.new = desk[a].shown])
  /\ UNCHANGED <<followUp, record, trail, filler>>

\* updateSubmission: the check, then the read inside the transaction.
ReadCurrent(a) ==
  /\ On(a, "sent")
  /\ Put(a, IF ServerAccepts(desk[a].new)
            THEN [desk[a] EXCEPT !.stage = "writing", !.old = Saved]
            ELSE [desk[a] EXCEPT !.stage = "idle", !.new = NoAnswers])
  /\ UNCHANGED <<followUp, record, trail, filler>>

\* The record is read after it has been updated.
Row_Late(d) == [old |-> d.new, new |-> d.new]

Row(d) == [old |-> d.old, new |-> d.new]

\* The row of the trail and the record, committed together.  The trail is kept in
\* the order of the commits; createdAt, which the page sorts by, may differ from it.
WriteCorrection(a) ==
  /\ On(a, "writing")
  /\ trail' = Append(trail, Row(desk[a]))
  /\ record' = Append(record, desk[a].new)
  /\ Put(a, [desk[a] EXCEPT !.stage = "written", !.old = NoAnswers])
  /\ UNCHANGED <<followUp, filler>>

\* onSuccess remounts the renderer; the fetch it starts is answered later.
Answered(a) ==
  /\ On(a, "written")
  /\ Put(a, [Remounted(desk[a]) EXCEPT !.stage = "idle", !.editing = FALSE, !.new = NoAnswers])
  /\ UNCHANGED <<followUp, record, trail, filler>>

\* The call fails before anything is written, or its answer is lost after.
Fails(a) ==
  /\ On(a, "sent") \/ On(a, "writing") \/ On(a, "written")
  /\ Put(a, [desk[a] EXCEPT !.stage = "idle", !.new = NoAnswers, !.old = NoAnswers])
  /\ UNCHANGED <<followUp, record, trail, filler>>

Worker == PressSubmit \/ Submit \/ Reopen \/ \E v \in Answers : Fill(v)

Page(a) ==
  \/ OpenPage(a) \/ Refetch(a) \/ BeginEdit(a) \/ CancelEdit(a) \/ PressSave(a) \/ Answered(a)
  \/ \E v \in Answers : Correct(a, v)

Next == Worker \/ \E a \in Admin : Page(a) \/ ReadCurrent(a) \/ WriteCorrection(a) \/ Fails(a)

Spec == Init /\ [][Next]_vars
-----------------------------------------------------------------------------
(***************************************************************************)
(* Every value the record has ever had can be read from the trail and the  *)
(* record: "a correction is never a silent overwrite" (updateSubmission).  *)
(* Two corrections at once may log the same old value; none loses a value. *)
(***************************************************************************)
CorrectionsAreTraced ==
  LET told == {trail[i].old : i \in DOMAIN trail} \cup {trail[i].new : i \in DOMAIN trail}
  IN  trail # <<>> => ToSet(record) \subseteq told

(***************************************************************************)
(* A page that is not in edit mode shows values the record has had, never  *)
(* an abandoned edit (SubmissionDetailPage.tsx:33-40).                     *)
(***************************************************************************)
NoAbandonedEdit ==
  \A a \in Admin : ~desk[a].editing /\ desk[a].stage # "unopened" =>
    desk[a].shown \in ToSet(record)

(***************************************************************************)
(* "Re-read INSIDE the transaction so oldValue is the row this update      *)
(* actually replaces" (form.service.ts:371-372): each row of the trail     *)
(* starts from the value the row before it wrote.                          *)
(***************************************************************************)
AuditChains == \A i \in 1..(Len(trail) - 1) : trail[i + 1].old = trail[i].new
-----------------------------------------------------------------------------
(* The inductive invariant of the first two properties.                    *)

OnPage == Answers \cup {NoAnswers}

TypeOK ==
  /\ record \in Seq(Answers)
  /\ trail \in Seq([old : Answers, new : Answers])
  /\ filler \in [values : OnPage, stage : {"open", "sent", "refused", "done"}]
  /\ filler.stage = "sent" => filler.values \in Answers
  /\ desk \in [Admin -> [cache : OnPage, shown : OnPage, editing : BOOLEAN,
                        stage : {"unopened", "idle", "sent", "writing", "written"},
                        new : OnPage, old : OnPage]]

\* The record is what was submitted, then what each row of the trail wrote.
RecordIsTold ==
  /\ filler.stage # "done" => record = <<>> /\ trail = <<>>
  /\ filler.stage = "done" => Len(record) = Len(trail) + 1
  /\ \A i \in 1..Len(trail) : record[i + 1] = trail[i].new
  /\ trail # <<>> => trail[1].old = record[1]

\* The pages hold values the record has had, except what is being edited or sent.
DesksAreTrue ==
  \A a \in Admin :
    /\ desk[a].stage # "unopened" => record # <<>> /\ desk[a].cache \in ToSet(record)
    /\ desk[a].stage # "unopened" /\ ~desk[a].editing => desk[a].shown \in ToSet(record)
    /\ desk[a].stage \in {"sent", "writing", "written"} => desk[a].new \in Answers
    /\ desk[a].stage = "writing" => desk[a].old \in ToSet(record)
    /\ desk[a].editing => desk[a].shown \in Answers
    /\ desk[a].stage = "unopened" => ~desk[a].editing

IInv == TypeOK /\ RecordIsTold /\ DesksAreTrue
=============================================================================
