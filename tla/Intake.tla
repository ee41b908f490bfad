------------------------------- MODULE Intake -------------------------------
(***************************************************************************)
(* Registering animals by voice: FarmerRegistrationPage with its AnimalForm*)
(* and EmployeeCombobox, AnimalRecordsPage, and farmerService behind them. *)
(* An utterance takes several awaits, during which the farmer goes on      *)
(* typing, picking and submitting; so does a submission.                   *)
(***************************************************************************)
EXTENDS Naturals, Sequences

CONSTANTS
  Field,          \* the fields of the form, without the employee
  Required,       \* those Submit asks for
  Employee,
  Limit,          \* monthlyTranscribe of the plan
  MaxUtterances,  \* bound
  MaxAnimals,     \* bound: registrations ever stored
  Null

VARIABLES
  page,        \* the form
  speech,      \* the utterance under way
  submission,  \* the registration under way
  staff,       \* the rows of table employees
  used,        \* the usage counter voice_transcribe
  animals,     \* the rows of table animal_registrations, Null once deleted
  records      \* the rows AnimalRecordsPage shows

vars == <<page, speech, submission, staff, used, animals, records>>
-----------------------------------------------------------------------------
Typed == 0

\* A value is who gave it: Typed, or the number of the utterance.
NoValues == [f \in Field |-> Null]

Silence == [pc |-> "idle", n |-> 0, fields |-> {}, name |-> FALSE, match |-> Null]

\* received: fields.employeeReceived, as the number of the utterance; picker:
\* employees, the options; search: the combobox's text, an employee's label or
\* what is nobody's.
Init ==
  /\ page = [values |-> NoValues, received |-> Null, employee |-> Null,
             search |-> Null, log |-> {}, picker |-> {}]
  /\ speech = Silence /\ submission = Null
  /\ staff \in SUBSET Employee \ {{}}
  /\ used = 0 /\ animals = <<>> /\ records = {}

\* Somebody registers an employee meanwhile.
Hire ==
  /\ \E e \in Employee \ staff : staff' = staff \cup {e}
  /\ UNCHANGED <<page, speech, submission, used, animals, records>>

\* The query farmer-registration-employees answers; the first effect of the
\* combobox follows the options.
LoadPicker ==
  /\ page.picker # staff
  /\ page' = [page EXCEPT !.picker = staff,
                          !.search = IF page.employee \in staff THEN page.employee ELSE @]
  /\ UNCHANGED <<speech, submission, staff, used, animals, records>>
-----------------------------------------------------------------------------
(* The form, by hand. *)

\* handleFieldChange.
Type(f) ==
  /\ \E v \in {Typed, Null} : page' = [page EXCEPT !.values[f] = v]
  /\ UNCHANGED <<speech, submission, staff, used, animals, records>>

Resolved(text) == IF text \in page.picker THEN text ELSE Null

\* handleInput of the combobox.
Search(text) ==
  /\ page' = [page EXCEPT !.search = text, !.employee = Resolved(text)]
  /\ UNCHANGED <<speech, submission, staff, used, animals, records>>
-----------------------------------------------------------------------------
(* An utterance: transcribe and extract. *)

\* handleAudioReady.  The recorder is disabled while one is processed.
Speak ==
  /\ speech.pc = "idle" /\ speech.n < MaxUtterances
  /\ speech' = [Silence EXCEPT !.pc = "check", !.n = speech.n + 1]
  /\ UNCHANGED <<page, submission, staff, used, animals, records>>

Goto(pc) == speech' = [speech EXCEPT !.pc = pc]

CheckUsage ==
  /\ speech.pc = "check"
  /\ Goto(IF used >= Limit THEN "failed" ELSE "transcribe")
  /\ UNCHANGED <<page, submission, staff, used, animals, records>>

\* Counted once it has been transcribed, whatever becomes of it.
Meter ==
  /\ speech.pc = "transcribe"
  /\ Goto("extract") /\ used' = used + 1
  /\ UNCHANGED <<page, submission, staff, animals, records>>

\* The fields that were mentioned, and perhaps a name.
Extract ==
  /\ speech.pc = "extract"
  /\ \E fields \in SUBSET Field, name \in BOOLEAN :
       speech' = [speech EXCEPT !.fields = fields, !.name = name,
                                !.pc = IF name THEN "match" ELSE "answer"]
  /\ UNCHANGED <<page, submission, staff, used, animals, records>>

\* matchEmployeeByName: the one employee the name fits, or none.
Match ==
  /\ speech.pc = "match"
  /\ \E e \in staff \cup {Null} : speech' = [speech EXCEPT !.match = e, !.pc = "answer"]
  /\ UNCHANGED <<page, submission, staff, used, animals, records>>

\* No speech, a service that is down, an answer that is no JSON.
SpeechFails ==
  /\ speech.pc \in {"transcribe", "extract"}
  /\ Goto("failed")
  /\ UNCHANGED <<page, submission, staff, used, animals, records>>

Logged(n) == page.log \cup {n}

Fill(p) ==
  [p EXCEPT !.values = [f \in Field |-> IF f \in speech.fields THEN speech.n ELSE @[f]],
            !.received = IF speech.name THEN speech.n ELSE @,
            !.employee = IF speech.match # Null THEN speech.match ELSE @,
            !.log = Logged(speech.n)]

\* The effects of the combobox: a change of the employee shows its label if it is
\* among the options; a fresh name is shown when nobody is picked.
Shown(p) ==
  [p EXCEPT !.search = IF p.employee = Null
                       THEN (IF p.received # page.received /\ p.received # Null THEN Null ELSE @)
                       ELSE IF p.employee # page.employee /\ p.employee \in p.picker
                            THEN p.employee ELSE @]

\* onSuccess of transcribeMutation.
Transcribed ==
  /\ speech.pc = "answer"
  /\ page' = Shown(Fill(page))
  /\ speech' = [Silence EXCEPT !.n = speech.n]
  /\ UNCHANGED <<submission, staff, used, animals, records>>

\* onError of transcribeMutation.
NotTranscribed ==
  /\ speech.pc = "failed"
  /\ speech' = [Silence EXCEPT !.n = speech.n]
  /\ UNCHANGED <<page, submission, staff, used, animals, records>>
-----------------------------------------------------------------------------
(* A submission: register. *)

Complete == page.employee # Null /\ \A f \in Required : page.values[f] # Null

\* handleSubmit.
Submit ==
  /\ submission = Null /\ Complete
  /\ submission' = [pc |-> "create", values |-> page.values,
                    employee |-> page.employee, log |-> page.log]
  /\ UNCHANGED <<page, speech, staff, used, animals, records>>

\* The employee exists: no code of src deletes one.
Register ==
  /\ submission # Null /\ submission.pc = "create"
  /\ Len(animals) < MaxAnimals
  /\ animals' = Append(animals, [values |-> submission.values,
                                 employee |-> submission.employee, log |-> submission.log])
  /\ submission' = [submission EXCEPT !.pc = "answer"]
  /\ UNCHANGED <<page, speech, staff, used, records>>

\* onSuccess: the form, the employee and the log are emptied, the combobox's text
\* stays.
Registered ==
  /\ submission # Null /\ submission.pc = "answer"
  /\ submission' = Null
  /\ page' = [page EXCEPT !.values = NoValues, !.received = Null, !.employee = Null, !.log = {}]
  /\ UNCHANGED <<speech, staff, used, animals, records>>

\* onError; the row may be there.
NotRegistered ==
  /\ submission # Null
  /\ submission' = Null
  /\ UNCHANGED <<page, speech, staff, used, animals, records>>
-----------------------------------------------------------------------------
(* AnimalRecordsPage. *)

Rows == {i \in DOMAIN animals : animals[i] # Null}

\* list and stats answer: on a refresh, after ten seconds, after a deletion.
Refetch ==
  /\ records # Rows /\ records' = Rows
  /\ UNCHANGED <<page, speech, submission, staff, used, animals>>

\* handleDelete, and remove; a row that is gone already is NOT_FOUND.
Remove(i) ==
  /\ animals' = [animals EXCEPT ![i] = Null]
  /\ UNCHANGED <<page, speech, submission, staff, used, records>>

Spoken(values, log) == \A f \in Field : values[f] \in log \cup {Null, Typed}

Next ==
  \/ Hire \/ LoadPicker
  \/ \E f \in Field : Type(f)
  \/ \E text \in page.picker \cup {Null} : Search(text)
  \/ Speak \/ CheckUsage \/ Meter \/ Extract \/ Match \/ SpeechFails
  \/ Transcribed \/ NotTranscribed
  \/ Submit \/ Register \/ Registered \/ NotRegistered
  \/ Refetch
  \/ \E i \in records \cap Rows : Remove(i)

Spec == Init /\ [][Next]_vars
-----------------------------------------------------------------------------
(* Properties. *)

\* What a stored animal has from speech is in its raw transcript
\* (FarmerRegistrationPage.tsx:105-115), however submissions and utterances cross.
StoredIsExplained == \A i \in Rows : Spoken(animals[i].values, animals[i].log)

\* The combobox names the employee who will be stored, if it knows that employee
\* (AnimalForm.tsx:136-152).
PickedIsShown == page.employee \in page.picker => page.search = page.employee
-----------------------------------------------------------------------------
(* The inductive invariant of these properties.                            *)

Value == Nat \cup {Null}
Form == [values : [Field -> Value], received : Value, employee : Employee \cup {Null},
         search : Employee \cup {Null}, log : SUBSET Nat, picker : SUBSET Employee]
Utterance == [pc : {"idle", "check", "transcribe", "extract", "match", "answer", "failed"},
              n : Nat, fields : SUBSET Field, name : BOOLEAN, match : Employee \cup {Null}]
Registration == [pc : {"create", "answer"}, values : [Field -> Value],
                 employee : Employee \cup {Null}, log : SUBSET Nat]
Animal == [values : [Field -> Value], employee : Employee \cup {Null}, log : SUBSET Nat]

TypeOK ==
  /\ page \in Form /\ speech \in Utterance
  /\ submission \in Registration \cup {Null}
  /\ staff \subseteq Employee
  /\ animals \in Seq(Animal \cup {Null})

\* What is on the form and what is on its way is of the log beside it.
IInv ==
  /\ TypeOK
  /\ Spoken(page.values, page.log)
  /\ submission # Null => Spoken(submission.values, submission.log)
  /\ StoredIsExplained
  /\ PickedIsShown
=============================================================================
