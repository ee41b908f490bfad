------------------------------ MODULE FormSchema ------------------------------
(***************************************************************************)
(* What becomes of the structure a model read from a photo, before it is a *)
(* form: lists of fields that should be tables are turned into tables      *)
(* (form-schema-utils.ts), a livestock form is aligned with its known      *)
(* layout (form-digitize.repair.ts), and every field gets an id, under     *)
(* which answers are stored.  A field or column is told by its label, and  *)
(* labels by the classes the code's patterns tell apart.                   *)
(***************************************************************************)
EXTENDS Naturals, Sequences, SequencesExt

CONSTANTS Monitoring, Deviations, VerificationFields, VerificationColumns,
          RebuildMonitoring, RebuildDeviations  \* in the code 8 of 11, and 5 of 6

VARIABLES stage, livestock, given, draft, ids

vars == <<stage, livestock, given, draft, ids>>

Section(title, fields, columns) == [title |-> title, fields |-> fields, columns |-> columns]
Labels(secs) ==
  FoldLeft(LAMBDA acc, s : acc \o s.fields \o s.columns, <<>>, secs)

Times(l, seq) == Cardinality({i \in DOMAIN seq : seq[i] = l})

Header(l) == l \in {"date record review", "date onsite"}
Column(l) == l \in {"date", "species", "initials", "deviation", "corrective"}
Contact(fields) ==
  /\ Len(fields) <= 6
  /\ "name" \in ToSet(fields)
  /\ ToSet(fields) \cap {"date", "species", "deviation", "initials"} = {}
-----------------------------------------------------------------------------
(* normalizeDigitizedPayload.                                                *)

\* splitVerificationFields: the blanks above the grid, and the grid's columns.
Split(fields) ==
  FoldLeft(LAMBDA acc, f :
             IF \/ Header(f)
                \/ f = "initials" /\ acc.initials < 2 /\ acc.header # <<>>
                \/ ~Column(f) /\ Len(acc.header) < 4
             THEN [acc EXCEPT !.header = Append(@, f),
                              !.initials = IF f = "initials" THEN @ + 1 ELSE @]
             ELSE [acc EXCEPT !.table = Append(@, f)],
           [header |-> <<>>, table |-> <<>>, initials |-> 0], fields)

AllColumns(s) == [s EXCEPT !.fields = <<>>, !.columns = s.fields]

\* The columns that were there are replaced by those found among the fields.
SplitSection_Replacing(s) == [s EXCEPT !.fields = Split(@).header, !.columns = Split(s.fields).table]

SplitSection(s) == [s EXCEPT !.fields = Split(@).header, !.columns = @ \o Split(s.fields).table]

\* coerceStandardSection.
Coerce(s, count) ==
  LET n == Len(s.fields)
      splits == s.title = "verification" /\ Len(Split(s.fields).table) >= 2
  IN  CASE s.columns # <<>> -> IF n >= 3 /\ splits THEN SplitSection(s) ELSE s
        [] s.columns = <<>> /\ (n < 2 \/ Contact(s.fields)) -> s
        [] s.columns = <<>> /\ n >= 2 /\ ~Contact(s.fields) ->
             CASE count = 1 -> AllColumns(s)
               [] count # 1 /\ splits -> SplitSection(s)
               [] OTHER -> IF s.title \in {"deviation", "none"} \/ n >= 3
                           THEN AllColumns(s) ELSE s

\* One grid only becomes a repeating form (maybePromoteSingleGridToRepeating).
Normalize(secs) ==
  LET coerced == [i \in DOMAIN secs |-> Coerce(secs[i], Len(secs))]
      single == Len(secs) = 1 /\ coerced[1].fields = <<>> /\ coerced[1].columns # <<>>
  IN  [type |-> IF single THEN "repeating" ELSE "standard", sections |-> coerced]
-----------------------------------------------------------------------------
(* repairDigitizedDraft.  A column that is known keeps its place in the      *)
(* layout, one that is not comes after it.                                   *)
\* The columns that the layout does not know are lost.
MergeColumns_KnownOnly(existing, known) == known

MergeColumns(existing, known) ==
  FoldLeft(LAMBDA merged, c : IF c \in ToSet(known) THEN merged ELSE Append(merged, c),
           known, existing)

Score(s) == IF s.title \in {"deviation", "verification"} THEN 0
            ELSE IF s.columns # <<>> THEN Len(s.columns)
            ELSE IF Len(s.fields) >= 4 THEN Len(s.fields) ELSE 0

Rebuilt(columns, known, below) ==
  IF columns # <<>> /\ Len(columns) < below THEN known ELSE MergeColumns(columns, known)

Grid(s, atLeast) ==
  IF s.columns = <<>> /\ Len(s.fields) >= atLeast THEN s.fields ELSE s.columns

RepairMonitoring(secs) ==
  LET best == {i \in DOMAIN secs : Score(secs[i]) > 0 /\
                \A j \in DOMAIN secs : Score(secs[j]) <= Score(secs[i])}
      at == CHOOSE i \in best : \A j \in best : i <= j
  IN  IF best = {} THEN <<Section("none", <<>>, Monitoring)>> \o secs
      ELSE [secs EXCEPT ![at] =
              Section(@.title, <<>>, Rebuilt(Grid(@, 3), Monitoring, RebuildMonitoring))]

FirstTitled(secs, title) ==
  LET with == {i \in DOMAIN secs : secs[i].title = title}
  IN  IF with = {} THEN 0 ELSE CHOOSE i \in with : \A j \in with : i <= j

EnsureDeviations(secs) ==
  LET at == FirstTitled(secs, "deviation")
  IN  IF at = 0 THEN Append(secs, Section("deviation", <<>>, Deviations))
      ELSE [secs EXCEPT ![at] =
              Section(@.title, <<>>, Rebuilt(Grid(@, 2), Deviations, RebuildDeviations))]

\* The fields of a verification section without a grid that become its grid.
GridOf(fields) ==
  FoldLeft(LAMBDA acc, f :
             IF Header(f) \/ (f \notin {"date", "deviation", "corrective"} /\ acc.blanks < 4)
             THEN [acc EXCEPT !.blanks = @ + 1] ELSE [acc EXCEPT !.grid = Append(@, f)],
           [blanks |-> 0, grid |-> <<>>], fields).grid

\* The known blanks, each filled by a matching field that was found; others are dropped.
EnsureVerification(secs) ==
  LET at == FirstTitled(secs, "verification")
      s == secs[at]
      columns == IF s.columns = <<>> /\ Len(s.fields) >= 3 THEN GridOf(s.fields)
                 ELSE s.columns
  IN  IF at = 0
      THEN Append(secs, Section("verification", VerificationFields, VerificationColumns))
      ELSE [secs EXCEPT ![at] = Section("verification", VerificationFields,
                                        MergeColumns(columns, VerificationColumns))]

Repair(d) ==
  IF ~livestock \/ d.type # "standard" THEN d
  ELSE [d EXCEPT !.sections = EnsureVerification(EnsureDeviations(RepairMonitoring(@)))]
-----------------------------------------------------------------------------
(* generateFieldIds.  An id is its slug and the suffixes added to it; the    *)
(* label "date 1" has the slug another date would get as an id.              *)
Slug(l) == IF l = "date 1" THEN [slug |-> "date", added |-> <<1>>]
                           ELSE [slug |-> l, added |-> <<>>]

\* The first suffixed form that is not used, for place i of its list.
Fresh(id, i, used) ==
  LET form(k) == [id EXCEPT !.added = @ \o [n \in 1..k |-> i]]
      k == CHOOSE k \in 0..Cardinality(used) :
             form(k) \notin used /\ \A j \in 0..(k - 1) : form(j) \in used
  IN  form(k)

\* ensureFieldIds, ensureColumnIds: `used' runs through the whole form.
EnsureIds(list, used) ==
  FoldLeft(LAMBDA acc, id : Append(acc, Fresh(id, Len(acc), used \cup ToSet(acc))), <<>>, list)

\* The ids of all lists of the form, fields before columns, section by section.
GenerateIds(lists) ==
  FoldLeft(LAMBDA acc, list : Append(acc, EnsureIds(list, UNION {ToSet(acc[i]) : i \in DOMAIN acc})),
           <<>>, lists)

Lists(secs) == FoldLeft(LAMBDA acc, s : acc \o <<s.fields, s.columns>>, <<>>, secs)
Slugs(lists) == [i \in DOMAIN lists |-> [n \in DOMAIN lists[i] |-> Slug(lists[i][n])]]
-----------------------------------------------------------------------------
CONSTANT Input  \* the sequences of sections the model may return

Init ==
  /\ stage = "read" /\ livestock \in BOOLEAN /\ given \in Input
  /\ draft = [type |-> "standard", sections |-> given]
  /\ ids = <<>>

\* parseVisionResponse: one step after the other.
NormalizeDraft ==
  /\ stage = "read" /\ stage' = "normalized"
  /\ draft' = Normalize(draft.sections)
  /\ UNCHANGED <<livestock, given, ids>>

RepairDraft ==
  /\ stage = "normalized" /\ stage' = "repaired"
  /\ draft' = Repair(draft)
  /\ UNCHANGED <<livestock, given, ids>>

NameFields ==
  /\ stage = "repaired" /\ stage' = "named"
  /\ ids' = GenerateIds(Slugs(Lists(draft.sections)))
  /\ UNCHANGED <<livestock, given, draft>>

\* formService.create names the fields of what it is sent once more.
Create ==
  /\ stage = "named" /\ stage' = "created"
  /\ ids' = GenerateIds(ids)
  /\ UNCHANGED <<livestock, given, draft>>

Next == NormalizeDraft \/ RepairDraft \/ NameFields \/ Create

Spec == Init /\ [][Next]_vars
-----------------------------------------------------------------------------
(***************************************************************************)
(* Turning lists into tables loses no field and doubles none               *)
(* (form-schema-utils.ts:136-249); nor does anything after it, when the    *)
(* form is no livestock form.                                              *)
(***************************************************************************)
NoFieldIsLost ==
  stage = "normalized" \/ (stage # "read" /\ ~livestock) =>
    /\ Len(Labels(draft.sections)) = Len(Labels(given))
    /\ \A l \in ToSet(Labels(given)) :
         Times(l, Labels(draft.sections)) = Times(l, Labels(given))

\* What stands for the table of a section, and the columns from which it is whole.
Table(s) == IF s.columns # <<>> \/ s.title = "verification" THEN s.columns ELSE s.fields

Whole(s) == CASE s.title = "deviation" -> RebuildDeviations
              [] s.title = "verification" -> 0
              [] OTHER -> RebuildMonitoring

\* A short list of blanks under a title of its own.
PlainList(s) ==
  s.title \notin {"deviation", "verification"} /\ s.columns = <<>> /\ Len(s.fields) < 4

(***************************************************************************)
(* The alignment of a livestock form with its known layout completes the   *)
(* layout, leaves lists of a few blanks as they are, and keeps every       *)
(* column of a table that was read whole, known or not                     *)
(* (form-digitize.repair.ts:93-116, 165-344).  It does drop what else it   *)
(* rebuilds: the columns of a table read in part, blanks beside a table,   *)
(* blanks of the verification that are no known ones.                      *)
(***************************************************************************)
RepairKeepsTables ==
  stage \notin {"read", "normalized"} =>
    LET form == Normalize(given)
        labels == ToSet(Labels(draft.sections))
    IN  IF ~livestock \/ form.type # "standard" THEN draft = form
        ELSE /\ \A known \in {Monitoring, Deviations, VerificationFields, VerificationColumns} :
                  ToSet(known) \subseteq labels
             /\ \A s \in ToSet(form.sections) :
                  /\ PlainList(s) => s \in ToSet(draft.sections)
                  /\ Len(Table(s)) >= Whole(s) => ToSet(Table(s)) \subseteq labels

(***************************************************************************)
(* No two fields of a form share an id, under which their answers would be *)
(* one (form-schema-utils.ts:48-64, 347-394).                              *)
(***************************************************************************)
IdsAreDistinct ==
  \A i, j \in DOMAIN ids : \A n \in DOMAIN ids[i], m \in DOMAIN ids[j] :
    ids[i][n] = ids[j][m] => i = j /\ n = m
-----------------------------------------------------------------------------
(* The inductive invariant of these properties.                            *)

\* A title is told by its pattern, a label is text.
Title == {"none", "titled", "deviation", "verification"}
SectionRow == [title : Title, fields : Seq(STRING), columns : Seq(STRING)]
FieldId == [slug : {"date"} \cup STRING, added : Seq(Nat)]

TypeOK ==
  /\ stage \in {"read", "normalized", "repaired", "named", "created"}
  /\ given \in Seq(SectionRow)
  /\ draft \in [type : {"standard", "repeating"}, sections : Seq(SectionRow)]
  /\ ids \in Seq(Seq(FieldId))

IInv ==
  /\ TypeOK /\ NoFieldIsLost /\ RepairKeepsTables /\ IdsAreDistinct
  /\ stage = "read" => draft.sections = given
  /\ stage = "normalized" => draft = Normalize(given)

\* The model returns sections, the known layout is text, and a table has two columns.
FormSchemaConstants ==
  /\ Input \subseteq Seq(SectionRow)
  /\ \A known \in {Monitoring, Deviations, VerificationFields, VerificationColumns} :
       known \in Seq(STRING)
  /\ RebuildMonitoring \in Nat /\ RebuildDeviations \in Nat \ {0, 1}
=============================================================================
