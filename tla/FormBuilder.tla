---------------------------- MODULE FormBuilder ----------------------------
(***************************************************************************)
(* The screen on which a form is put together by hand: sections, fields of  *)
(* a chosen type, the options of the fields that offer a choice.  Every     *)
(* change is a functional update of the component's state, so a step is     *)
(* one event.  The sheet that asks for the type of a new field covers the   *)
(* page but holds no focus: the keyboard still reaches the buttons behind.  *)
(* Labels, placeholders, units and descriptions are free text of no effect  *)
(* and left out.  An option is the number the code composes its text from,  *)
(* 0 when it was typed over.                                                *)
(***************************************************************************)
EXTENDS Integers, Sequences, SequencesExt, FiniteSets

CONSTANTS MaxIds,      \* bound: sections and fields made on one visit
          MaxOptions   \* bound: options added to one field

VARIABLES sections,  \* the sections, each with its fields
          expanded,  \* the ids of the field cards that are open
          picker,    \* the section a field type is being picked for, or 0
          titled,    \* the form has a name that is not blank
          saved,     \* the success screen is shown
          ids        \* ids handed out so far

vars == <<sections, expanded, picker, titled, saved, ids>>

Kind == {"text", "choice", "heading"}

DefaultField(kind, id) ==
  [id |-> id, kind |-> kind, required |-> FALSE,
   options |-> IF kind = "choice" THEN <<1, 2>> ELSE <<>>]

DefaultSection(id) == [id |-> id, fields |-> <<>>]

Init ==
  /\ sections = <<DefaultSection(1)>>
  /\ expanded = {}
  /\ picker = 0
  /\ titled = FALSE
  /\ saved = FALSE
  /\ ids = 1

\* The field at a place of the form, and the form with that field changed.
Places == {p \in (1 .. MaxIds) \X (1 .. MaxIds) :
             p[1] <= Len(sections) /\ p[2] <= Len(sections[p[1]].fields)}
FieldAt(p) == sections[p[1]].fields[p[2]]
Patched(p, field) == [sections EXCEPT ![p[1]].fields[p[2]] = field]

\* A card shows its editor only while it is open.
Open(p) == FieldAt(p).id \in expanded

ToggleExpanded(p) ==
  /\ expanded' = (expanded \ {FieldAt(p).id}) \cup ({FieldAt(p).id} \ expanded)
  /\ UNCHANGED <<sections, picker, titled, saved, ids>>

AddSection ==
  /\ ids < MaxIds
  /\ sections' = Append(sections, DefaultSection(ids + 1))
  /\ ids' = ids + 1
  /\ UNCHANGED <<expanded, picker, titled, saved>>

SectionBin == Len(sections) > 1

RemoveSection(s) ==
  /\ SectionBin
  /\ sections' = RemoveAt(sections, s)
  /\ UNCHANGED <<expanded, picker, titled, saved, ids>>

OpenPicker(s) ==
  /\ picker' = sections[s].id
  /\ UNCHANGED <<sections, expanded, titled, saved, ids>>

ClosePicker ==
  /\ picker # 0
  /\ picker' = 0
  /\ UNCHANGED <<sections, expanded, titled, saved, ids>>

\* The new field goes to the section the sheet was opened for, wherever that
\* is by now, and its card opens; with the section gone it goes nowhere.
AddField(kind) ==
  /\ picker # 0 /\ ids < MaxIds
  /\ sections' = [s \in DOMAIN sections |->
       IF sections[s].id = picker
       THEN [sections[s] EXCEPT !.fields = Append(@, DefaultField(kind, ids + 1))]
       ELSE sections[s]]
  /\ expanded' = expanded \cup {ids + 1}
  /\ ids' = ids + 1
  /\ picker' = 0
  /\ UNCHANGED <<titled, saved>>

RemoveField(p) ==
  /\ sections' = [sections EXCEPT ![p[1]].fields = RemoveAt(@, p[2])]
  /\ expanded' = expanded \ {FieldAt(p).id}
  /\ UNCHANGED <<picker, titled, saved, ids>>

\* The switch is not offered for a heading.
ToggleRequired(p) ==
  /\ Open(p) /\ FieldAt(p).kind # "heading"
  /\ sections' = Patched(p, [FieldAt(p) EXCEPT !.required = ~@])
  /\ UNCHANGED <<expanded, picker, titled, saved, ids>>

EditsOptions(p) == Open(p) /\ FieldAt(p).kind = "choice"

AddOption(p) ==
  /\ EditsOptions(p) /\ Len(FieldAt(p).options) < MaxOptions
  /\ sections' = Patched(p, [FieldAt(p) EXCEPT !.options = Append(@, Len(@) + 1)])
  /\ UNCHANGED <<expanded, picker, titled, saved, ids>>

UpdateOption(p, i) ==
  /\ EditsOptions(p)
  /\ sections' = Patched(p, [FieldAt(p) EXCEPT !.options[i] = 0])
  /\ UNCHANGED <<expanded, picker, titled, saved, ids>>

\* The last option's bin is disabled.
RemoveOption(p, i) ==
  /\ EditsOptions(p) /\ Len(FieldAt(p).options) > 1
  /\ sections' = Patched(p, [FieldAt(p) EXCEPT !.options = RemoveAt(@, i)])
  /\ UNCHANGED <<expanded, picker, titled, saved, ids>>

TypeTitle ==
  /\ titled' \in BOOLEAN
  /\ UNCHANGED <<sections, expanded, picker, saved, ids>>

\* Nothing is sent: the success screen only replaces the builder.
HandleSave ==
  /\ titled
  /\ saved' = TRUE
  /\ UNCHANGED <<sections, expanded, picker, titled, ids>>

Next ==
  /\ ~saved
  /\ \/ \E p \in Places :
          \/ ToggleExpanded(p) \/ RemoveField(p) \/ ToggleRequired(p) \/ AddOption(p)
          \/ \E i \in DOMAIN FieldAt(p).options : UpdateOption(p, i) \/ RemoveOption(p, i)
     \/ \E s \in DOMAIN sections : RemoveSection(s) \/ OpenPicker(s)
     \/ AddSection \/ ClosePicker \/ TypeTitle \/ HandleSave
     \/ \E kind \in Kind : AddField(kind)

Spec == Init /\ [][Next]_vars

\* However the form was put together, it has a section, every field that
\* offers a choice still has something to choose, no heading asks for an
\* answer, and no two fields share an id.
FormIsUsable ==
  /\ Len(sections) >= 1
  /\ \A p \in Places : LET field == FieldAt(p) IN
       /\ field.kind = "choice" <=> field.options # <<>>
       /\ field.kind = "heading" => ~field.required
       /\ \A q \in Places : FieldAt(q).id = field.id => q = p
-----------------------------------------------------------------------------
(* The inductive invariant of this property.                               *)

FieldRow == [id : 1..ids, kind : Kind, required : BOOLEAN, options : Seq(Nat)]
SectionRow == [id : 1..ids, fields : Seq(FieldRow)]

TypeOK ==
  /\ ids \in Nat
  /\ sections \in Seq(SectionRow) /\ sections # <<>>

Usable(field) ==
  /\ field.kind = "choice" <=> field.options # <<>>
  /\ field.kind = "heading" => ~field.required

\* A field or a section is found by its id.
IdsAreApart ==
  \A s, t \in DOMAIN sections :
    /\ sections[s].id = sections[t].id => s = t
    /\ \A f \in DOMAIN sections[s].fields, g \in DOMAIN sections[t].fields :
         sections[s].fields[f].id = sections[t].fields[g].id => s = t /\ f = g

IInv ==
  /\ TypeOK
  /\ \A s \in DOMAIN sections : \A f \in DOMAIN sections[s].fields : Usable(sections[s].fields[f])
  /\ IdsAreApart
=============================================================================
