------------------------------ MODULE VoiceFill ------------------------------
(***************************************************************************)
(* One utterance fills a whole form.  The server transcribes it, asks the  *)
(* model for keyed values, and turns what comes back into answers          *)
(* (form-voice-fill.service.ts); the page merges the answers into what the *)
(* worker has tapped meanwhile and marks those to be reviewed.  A slot is  *)
(* an item of a checklist or a cell of a matrix, with its free text: a     *)
(* deviation or corrective action there, an ingredient here.  A form with  *)
(* a table gets one row for each utterance.                                *)
(***************************************************************************)
EXTENDS Naturals, Sequences, SequencesExt

CONSTANTS Slot,
          MaxFills,  \* bound: utterances
          MaxRows    \* bound: rows of the table

VARIABLES
  form,      \* "checklist" or "matrix": what a free text says about its slot
  heard,     \* what the model returned to the fill in flight, if there is one
  fills,     \* utterances so far
  cells,     \* itemStates or cells: answer and free text of each slot
  blanket, flagged,  \* the marks: set by a blanket, unsure
  why,       \* history: where each slot's answer came from
  rows, byHand       \* the table, and whether it was ever touched by hand; a blank
                     \* row has the date it was made on, and is aged from the next

vars == <<form, heard, fills, cells, blanket, flagged, why, rows, byHand>>

\* What the model may say of a slot: nothing, an answer, or a word that is neither.
Word == {"nothing", "Yes", "No", "unclear"}
Scope == {"all", "elsewhere"} \cup Slot  \* a matrix column, or none of this form

Init ==
  /\ form \in {"checklist", "matrix"}
  /\ heard = <<>> /\ fills = 0
  /\ cells = [s \in Slot |-> [answer |-> "none", text |-> FALSE]]
  /\ blanket = {} /\ flagged = {}
  /\ why = [s \in Slot |-> "nobody"]
  /\ rows = <<"blank">> /\ byHand = FALSE
-----------------------------------------------------------------------------
(* The server: the stages of mapClaudeResponseToResult.  An answer carries   *)
(* its word, its confidence and its source.                                  *)
None == [word |-> "nothing", sure |-> TRUE, source |-> "spoken"]

\* A checklist's slots are all in the scope "all"; a cell's scope is its column.
Covers(r, s) == r.scope = "all" \/ (form = "matrix" /\ r.scope = s)

\* The blanket also covers what was named.
ExpandBlanket_Over(r, s) ==
  IF r.blanket # "nothing" /\ Covers(r, s)
  THEN [word |-> r.blanket, sure |-> TRUE, source |-> "blanket"]
  ELSE [word |-> r.spoken[s], sure |-> r.sure[s], source |-> "spoken"]

\* expandBlanket: the blanket-eligible slots the model did not return.
ExpandBlanket(r, s) ==
  IF r.spoken[s] = "nothing" /\ r.blanket # "nothing" /\ Covers(r, s)
  THEN [word |-> r.blanket, sure |-> TRUE, source |-> "blanket"]
  ELSE [word |-> r.spoken[s], sure |-> r.sure[s], source |-> "spoken"]

\* toFilled refuses a word that is neither Yes nor No.
ToFilled(a) == IF a.word \in {"Yes", "No"} THEN a ELSE None

\* applyTextImpliedAnswers: a deviation is a No, a named ingredient a Yes.
Implied == IF form = "checklist" THEN "No" ELSE "Yes"
ImplyAnswer(r, s, a) ==
  IF r.text[s] # "nothing"
  THEN [word |-> Implied, sure |-> r.text[s] = "sure", source |-> "spoken"]
  ELSE a

Result(r) == [s \in Slot |-> ImplyAnswer(r, s, ToFilled(ExpandBlanket(r, s)))]

\* A table is pristine that has one row, and that is what a blank row is today.
PlaceRow(row) == IF rows = <<"blank">> THEN <<row>> ELSE Append(rows, row)
-----------------------------------------------------------------------------
(* The page.                                                                 *)
Response == [spoken : [Slot -> Word], sure : [Slot -> BOOLEAN],
             text : [Slot -> {"nothing", "sure", "unsure"}],
             blanket : Word, scope : Scope, row : BOOLEAN]

\* fillFromVoice is asked, and the model answers.
Speak ==
  /\ heard = <<>> /\ fills < MaxFills
  /\ \E r \in Response : heard' = <<r>>
  /\ fills' = fills + 1
  /\ UNCHANGED <<form, cells, blanket, flagged, why, rows, byHand>>

Fail ==
  /\ heard # <<>> /\ heard' = <<>>
  /\ UNCHANGED <<form, fills, cells, blanket, flagged, why, rows, byHand>>

\* An answer's word, as it is remembered.
Unsure(word) == IF word = "Yes" THEN "unsure Yes" ELSE "unsure No"
Blanket(word) == IF word = "Yes" THEN "blanket Yes" ELSE "blanket No"

\* The reference for `why': what the utterance said of the slot, in its own order.
Told(r, s) ==
  CASE r.text[s] # "nothing" -> IF r.text[s] = "sure" THEN "text" ELSE "unsure text"
    [] r.text[s] = "nothing" /\ r.spoken[s] \in {"Yes", "No"} ->
         IF r.sure[s] THEN r.spoken[s] ELSE Unsure(r.spoken[s])
    [] r.text[s] = "nothing" /\ r.spoken[s] = "nothing" /\ r.blanket \in {"Yes", "No"}
         /\ Covers(r, s) -> Blanket(r.blanket)
    [] OTHER -> why[s]

\* applyVoiceFill, merged into what is on the page now.
ApplyVoiceFill ==
  /\ heard # <<>>
  /\ LET said == Head(heard)
         res == Result(said)
         Filled == {s \in Slot : res[s].word # "nothing"}
     IN  /\ cells' = [s \in Slot |->
              [answer |-> IF s \in Filled THEN res[s].word ELSE cells[s].answer,
               text   |-> cells[s].text \/ said.text[s] # "nothing"]]
         /\ blanket' = blanket \cup {s \in Filled : res[s].source = "blanket"}
         /\ flagged' = flagged \cup {s \in Filled : res[s].source # "blanket" /\ ~res[s].sure}
         /\ why' = [s \in Slot |-> Told(said, s)]
  /\ rows' = IF Head(heard).row /\ Len(rows) < MaxRows THEN PlaceRow("spoken") ELSE rows
  /\ heard' = <<>>
  /\ UNCHANGED <<form, fills, byHand>>

\* setItemAnswer, setCellAnswer: touching the answer is the review.
Tap(s, answer) ==
  /\ cells' = [cells EXCEPT ![s].answer = answer]
  /\ blanket' = blanket \ {s} /\ flagged' = flagged \ {s}
  /\ why' = [why EXCEPT ![s] = answer]
  /\ UNCHANGED <<form, heard, fills, rows, byHand>>

\* setItemText, setCellIngredient: shown under the answer that asks for it.
Type(s) ==
  /\ cells[s].answer = Implied
  /\ \E text \in BOOLEAN : cells' = [cells EXCEPT ![s].text = text]
  /\ UNCHANGED <<form, heard, fills, blanket, flagged, why, rows, byHand>>

\* Midnight, in UTC: a blank row made now is not what it was.  (In a table without
\* a column for a date it is; that is a behaviour without this step.)
Midnight ==
  /\ rows' = [i \in DOMAIN rows |-> IF rows[i] = "blank" THEN "aged" ELSE rows[i]]
  /\ UNCHANGED <<form, heard, fills, cells, blanket, flagged, why, byHand>>

AddRow ==
  /\ Len(rows) < MaxRows
  /\ rows' = Append(rows, "blank") /\ byHand' = TRUE
  /\ UNCHANGED <<form, heard, fills, cells, blanket, flagged, why>>

EditRow(i) ==
  /\ \E value \in {"blank", "aged", "typed"} : rows' = [rows EXCEPT ![i] = value]
  /\ byHand' = TRUE
  /\ UNCHANGED <<form, heard, fills, cells, blanket, flagged, why>>

\* The last row cannot be removed.
DropRow(i) ==
  /\ Len(rows) > 1
  /\ rows' = RemoveAt(rows, i) /\ byHand' = TRUE
  /\ UNCHANGED <<form, heard, fills, cells, blanket, flagged, why>>

Next ==
  \/ Speak \/ Fail \/ ApplyVoiceFill \/ Midnight \/ AddRow
  \/ \E s \in Slot : Type(s) \/ \E answer \in {"Yes", "No"} : Tap(s, answer)
  \/ \E i \in DOMAIN rows : EditRow(i) \/ DropRow(i)

Spec == Init /\ [][Next]_vars
-----------------------------------------------------------------------------
(***************************************************************************)
(* Each answer on a compliance record is the one that was tapped or said   *)
(* of its slot - a free text over an answer, an answer over a blanket, and *)
(* never the opposite of an unclear word - and one that came from a        *)
(* blanket, or that the model was unsure of, is marked until the worker    *)
(* touches it (form-voice-fill.service.ts:181-285, the renderers' fills).  *)
(***************************************************************************)
Says(s) ==
  CASE why[s] = "nobody" -> "none"
    [] why[s] \in {"text", "unsure text"} -> Implied
    [] why[s] \in {"Yes", "unsure Yes", "blanket Yes"} -> "Yes"
    [] OTHER -> "No"

AnswersAreExplained ==
  \A s \in Slot :
    /\ cells[s].answer = Says(s)
    /\ why[s] \in {"blanket Yes", "blanket No"} => s \in blanket
    /\ why[s] \in {"unsure Yes", "unsure No", "unsure text"} => s \in flagged

(***************************************************************************)
(* A worker who fills the table hands-free has no blank row to delete      *)
(* before the form can be sent, but for the one of an earlier day than     *)
(* that of the first utterance: it is no longer what a blank row is then,  *)
(* and stays above what is spoken (RepeatingRowFormRenderer.tsx:27-33,     *)
(* 64-71).                                                                 *)
(***************************************************************************)
NoBlankRowIsLeft ==
  ~byHand /\ Len(rows) > 1 =>
    /\ rows[1] \in {"aged", "spoken"}
    /\ \A i \in 2..Len(rows) : rows[i] = "spoken"
-----------------------------------------------------------------------------
(* The inductive invariant of these properties.                            *)

TypeOK ==
  /\ form \in {"checklist", "matrix"}
  /\ heard = <<>> \/ \E r \in Response : heard = <<r>>
  /\ cells \in [Slot -> [answer : {"none", "Yes", "No"}, text : BOOLEAN]]
  /\ blanket \subseteq Slot /\ flagged \subseteq Slot
  /\ why \in [Slot -> {"nobody", "Yes", "No", "text", "unsure text"}
                      \cup {Unsure(w) : w \in {"Yes", "No"}} \cup {Blanket(w) : w \in {"Yes", "No"}}]
  /\ byHand \in BOOLEAN

\* Until it is touched the table is blank, or spoken below the row it was opened with.
RowsAreSpoken ==
  ~byHand =>
    \/ rows = <<"blank">>
    \/ /\ rows \in Seq({"aged", "spoken"})
       /\ \A i \in 2..Len(rows) : rows[i] = "spoken"

IInv == TypeOK /\ AnswersAreExplained /\ RowsAreSpoken
=============================================================================
