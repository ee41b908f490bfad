-------------------------- MODULE Anchoring_proofs --------------------------
(***************************************************************************)
(* Proofs about Anchoring, for every set of modals, date ranges, cycles    *)
(* and transactions.                                                       *)
(*                                                                         *)
(* A row is read long before it is marked, and by then the modal may show  *)
(* another summary.  What lasts is that a leaf, once made, is the canonical*)
(* form of a completed row (Genuine), because such rows are frozen; AInv   *)
(* follows the leaves from the summary over the closure into the root, and *)
(* ties the ids of each confirmAnchor to the leaves of its transaction     *)
(* (CallFits).                                                             *)
(***************************************************************************)
EXTENDS Anchoring, BinLifecycle_proofs

\* The columns that go into a leaf, and the leaves.
FieldValue == Bin \cup Facility \cup Nat \cup Compliance \cup {Null}
Leaf == [id : Cycle, form : [CanonicalFields -> FieldValue]]

ModalRow == [step : ModalStep, window : Window, summary : (SUBSET Leaf) \cup {Null},
             closure : (SUBSET Leaf) \cup {Null}, tx : Tx \cup {Null}]
TxRow == [state : {"UNUSED", "PENDING", "INCLUDED", "EXPIRED"}, leaves : SUBSET Leaf]
CallRow == [org : Org, ids : SUBSET Cycle, done : BOOLEAN]

\* The shapes of the browsers, the network and the column.
ATypeOK ==
  /\ anchor \in [Cycle -> Tx \cup {Null}]
  /\ modal \in [Modal -> ModalRow]
  /\ chain \in [Tx -> TxRow]
  /\ call \in [Tx -> CallRow \cup {Null}]

Genuine(leaf) ==
  /\ leaf.id \in Cycle
  /\ cycle[leaf.id].status = "COMPLETED"
  /\ leaf = Canonical(leaf.id)

\* The leaves are those of completed cycles of tenant o.
GenuineOf(leaves, o) ==
  \A leaf \in leaves : Genuine(leaf) /\ BinOrg[leaf.form.bin] = o

\* The confirmAnchor of transaction t names the cycles its root commits to.
CallFits(t) ==
  /\ call[t] \in CallRow
  /\ chain[t].state # "UNUSED"
  /\ call[t].ids = Ids(chain[t].leaves)
  /\ GenuineOf(chain[t].leaves, call[t].org)
  /\ call[t].done => \A c \in call[t].ids : anchor[c] # Null

ModalFits(row, o) ==
  /\ row.summary # Null => GenuineOf(row.summary, o)
  /\ row.closure # Null => GenuineOf(row.closure, o)
  /\ row.tx # Null => CallFits(row.tx)
  /\ row.step = "SUCCESS" => row.tx # Null /\ call[row.tx].done

ModalsFit == \A m \in Modal : ModalFits(modal[m], ModalOrg[m])
CallsFit == \A t \in Tx : call[t] # Null => CallFits(t)
RootsAreGenuine == \A t \in Tx : \A leaf \in chain[t].leaves : Genuine(leaf)
AnchorsFit ==
  \A c \in Cycle : anchor[c] # Null =>
    chain[anchor[c]].state # "UNUSED" /\ c \in Ids(chain[anchor[c]].leaves)

AInv ==
  /\ IInv
  /\ ATypeOK
  /\ ModalsFit
  /\ CallsFit
  /\ RootsAreGenuine
  /\ RootsHoldOneTenant
  /\ AnchorsFit
-----------------------------------------------------------------------------
(* Leaves.                                                                 *)

\* A leaf is made of columns, its bin is the row's.
LEMMA CanonicalLeaf ==
  ASSUME TypeOK, NEW c \in Cycle
  PROVE  /\ Canonical(c) \in Leaf
         /\ Canonical(c).id = c
         /\ Canonical(c).form.bin = cycle[c].bin
<1>1. cycle[c] \in CycleRow
  BY DEF TypeOK
<1>2. ASSUME NEW field \in CanonicalFields
      PROVE  cycle[c][field] \in FieldValue
  BY <1>1 DEF CycleRow, CanonicalFields, FieldValue
<1>3. [field \in CanonicalFields |-> cycle[c][field]] \in [CanonicalFields -> FieldValue]
  BY <1>2
<1>4. Canonical(c) \in Leaf /\ Canonical(c).id = c
  BY <1>3 DEF Canonical, Leaf
<1>5. Canonical(c).form = [field \in CanonicalFields |-> cycle[c][field]]
  BY DEF Canonical
<1>6. "bin" \in CanonicalFields
  BY DEF CanonicalFields
<1>7. Canonical(c).form.bin = cycle[c].bin
  BY <1>5, <1>6
<1> QED
  BY <1>4, <1>7

\* What getDailySummary answers is genuine.
LEMMA SummaryIsGenuine ==
  ASSUME TypeOK, NEW o, NEW w
  PROVE  /\ DailySummary(o, w) \in SUBSET Leaf
         /\ GenuineOf(DailySummary(o, w), o)
<1> SUFFICES ASSUME NEW leaf \in DailySummary(o, w)
             PROVE  leaf \in Leaf /\ Genuine(leaf) /\ BinOrg[leaf.form.bin] = o
  BY DEF GenuineOf
<1>1. PICK c \in Cycle : /\ leaf = Canonical(c)
                         /\ cycle[c].status = "COMPLETED" /\ BinOrg[cycle[c].bin] = o
  BY DEF DailySummary, FetchCycles
<1> QED
  BY <1>1, CanonicalLeaf DEF Genuine

\* The row of a completed cycle stays, and with it the leaf made of it.
LEMMA GenuineLasts ==
  ASSUME NEW leaf, Genuine(leaf),
         \A c \in Cycle : cycle[c].status = "COMPLETED" => cycle'[c] = cycle[c]
  PROVE  Genuine(leaf)'
<1>1. leaf.id \in Cycle /\ cycle'[leaf.id] = cycle[leaf.id]
  BY DEF Genuine
<1>2. Canonical(leaf.id)' = Canonical(leaf.id)
  BY <1>1 DEF Canonical
<1> QED
  BY <1>1, <1>2 DEF Genuine

LEMMA GenuineOfLasts ==
  ASSUME NEW leaves, NEW o, GenuineOf(leaves, o),
         \A c \in Cycle : cycle[c].status = "COMPLETED" => cycle'[c] = cycle[c]
  PROVE  GenuineOf(leaves, o)'
<1> SUFFICES ASSUME NEW leaf \in leaves
             PROVE  (Genuine(leaf) /\ BinOrg[leaf.form.bin] = o)'
  BY DEF GenuineOf
<1>1. Genuine(leaf) /\ BinOrg[leaf.form.bin] = o
  BY DEF GenuineOf
<1> QED
  BY <1>1, GenuineLasts

\* A set of leaves of one tenant names cycles of that tenant.
LEMMA IdsOfTenant ==
  ASSUME TypeOK, NEW leaves, NEW o, GenuineOf(leaves, o), NEW c \in Ids(leaves)
  PROVE  /\ c \in Cycle /\ cycle[c].status = "COMPLETED"
         /\ BinOrg[cycle[c].bin] = o
         /\ Canonical(c) \in leaves
<1>1. PICK leaf \in leaves : c = leaf.id
  BY DEF Ids
<1>2. Genuine(leaf) /\ BinOrg[leaf.form.bin] = o
  BY DEF GenuineOf
<1> QED
  BY <1>1, <1>2, CanonicalLeaf DEF Genuine
-----------------------------------------------------------------------------
(* The steps.                                                              *)

LEMMA InitAInv == AInit => AInv
<1> SUFFICES ASSUME AInit PROVE AInv
  OBVIOUS
<1> USE DEF AInit
<1>1. IInv
  BY InitIInv
<1>2. ATypeOK
  <2>1. ASSUME NEW w \in Window PROVE NewModal(w) \in ModalRow
    BY DEF NewModal, ModalRow, ModalStep
  <2>2. modal \in [Modal -> ModalRow]
    BY <2>1
  <2>3. NoTx \in TxRow
    BY DEF NoTx, TxRow
  <2> QED
    BY <2>2, <2>3 DEF ATypeOK
<1>3. ModalsFit
  <2> SUFFICES ASSUME NEW m \in Modal PROVE ModalFits(modal[m], ModalOrg[m])
    BY DEF ModalsFit
  <2>1. PICK w \in Window : modal[m] = NewModal(w)
    OBVIOUS
  <2> QED
    BY <2>1 DEF ModalFits, NewModal
<1>4. CallsFit /\ AnchorsFit
  BY DEF CallsFit, AnchorsFit
<1>5. RootsAreGenuine /\ RootsHoldOneTenant
  BY DEF RootsAreGenuine, RootsHoldOneTenant, NoTx
<1> QED
  BY <1>1, <1>2, <1>3, <1>4, <1>5 DEF AInv

\* A scan: the leaves made so far stand.
LEMMA ScanAInv ==
  ASSUME AInv, Scan
  PROVE  AInv'
<1>1. IInv' /\ \A c \in Cycle : cycle[c].status = "COMPLETED" => cycle'[c] = cycle[c]
  <2>1. IInv /\ TypeOK /\ [Next]_vars
    BY DEF AInv, IInv, Scan
  <2>2. [KeepsHistory]_vars
    BY <2>1, StepKeepsHistory
  <2> QED
    BY <2>1, <2>2, NextIInv DEF KeepsHistory, vars
<1>2. UNCHANGED <<anchor, modal, chain, call>>
  BY DEF Scan
<1>3. ATypeOK' /\ AnchorsFit' /\ RootsHoldOneTenant'
  BY <1>2 DEF AInv, ATypeOK, AnchorsFit, RootsHoldOneTenant, Ids
<1>4. ASSUME NEW t, CallFits(t) PROVE CallFits(t)'
  <2>1. GenuineOf(chain[t].leaves, call[t].org)'
    BY <1>1, <1>2, <1>4, GenuineOfLasts DEF CallFits
  <2> QED
    BY <1>2, <1>4, <2>1 DEF CallFits, Ids
<1>5. CallsFit'
  BY <1>2, <1>4 DEF AInv, CallsFit
<1>6. ModalsFit'
  <2> SUFFICES ASSUME NEW m \in Modal PROVE ModalFits(modal[m], ModalOrg[m])'
    BY DEF ModalsFit
  <2>1. ModalFits(modal[m], ModalOrg[m])
    BY DEF AInv, ModalsFit
  <2>2. modal'[m].summary # Null => GenuineOf(modal[m].summary, ModalOrg[m])'
    BY <1>1, <1>2, <2>1, GenuineOfLasts DEF ModalFits
  <2>3. modal'[m].closure # Null => GenuineOf(modal[m].closure, ModalOrg[m])'
    BY <1>1, <1>2, <2>1, GenuineOfLasts DEF ModalFits
  <2>4. modal'[m].tx # Null => CallFits(modal[m].tx)'
    <3>1. modal[m].tx # Null => CallFits(modal[m].tx)
      BY <2>1 DEF ModalFits
    <3>2. CallFits(modal[m].tx) => CallFits(modal[m].tx)'
      <4>1. PICK t : t = modal[m].tx
        OBVIOUS
      <4>2. t = modal'[m].tx /\ (CallFits(t) => CallFits(t)')
        BY <1>2, <1>4, <4>1
      <4> QED
        BY <4>1, <4>2 DEF CallFits
    <3> QED
      BY <1>2, <3>1, <3>2
  <2> QED
    BY <1>2, <2>1, <2>2, <2>3, <2>4 DEF ModalFits
<1>7. RootsAreGenuine'
  BY <1>1, <1>2, GenuineLasts DEF AInv, RootsAreGenuine
<1> QED
  BY <1>1, <1>3, <1>5, <1>6, <1>7 DEF AInv

\* The rows, the column, the network and the calls stand; one modal moves.
LEMMA OneModalMoves ==
  ASSUME AInv, NEW m \in Modal, NEW row \in ModalRow,
         modal' = [modal EXCEPT ![m] = row],
         UNCHANGED <<lifecycle, anchor, chain, call>>,
         ModalFits(row, ModalOrg[m])
  PROVE  AInv'
<1>1. IInv'
  BY NextIInv DEF AInv, vars, lifecycle
<1>2. \A leaf : Genuine(leaf)' <=> Genuine(leaf)
  BY DEF Genuine, Canonical, lifecycle
<1>3. \A leaves, o : GenuineOf(leaves, o)' <=> GenuineOf(leaves, o)
  BY <1>2 DEF GenuineOf
<1>4. \A t : CallFits(t)' <=> CallFits(t)
  BY <1>3 DEF CallFits, Ids
<1>5. ATypeOK'
  BY DEF AInv, ATypeOK
<1>6. CallsFit' /\ RootsAreGenuine' /\ RootsHoldOneTenant' /\ AnchorsFit'
  BY <1>2, <1>4 DEF AInv, CallsFit, RootsAreGenuine, RootsHoldOneTenant, AnchorsFit, Ids
<1>7. ModalsFit'
  <2> SUFFICES ASSUME NEW k \in Modal PROVE ModalFits(modal[k], ModalOrg[k])'
    BY DEF ModalsFit
  <2>1. ModalFits(modal'[k], ModalOrg[k])
    BY DEF AInv, ATypeOK, ModalsFit
  <2> QED
    BY <2>1, <1>3, <1>4 DEF ModalFits
<1> QED
  BY <1>1, <1>5, <1>6, <1>7 DEF AInv

\* The answer of the query is taken over.
LEMMA FetchAInv ==
  ASSUME AInv, NEW m \in Modal, FetchSummary(m)
  PROVE  AInv'
<1> DEFINE leaves == DailySummary(ModalOrg[m], modal[m].window)
           row    == [modal[m] EXCEPT !.summary = leaves]
<1>1. leaves \in SUBSET Leaf /\ GenuineOf(leaves, ModalOrg[m])
  BY SummaryIsGenuine DEF AInv, IInv
<1>2. modal' = [modal EXCEPT ![m] = row] /\ UNCHANGED <<lifecycle, anchor, chain, call>>
  BY DEF FetchSummary
<1> HIDE DEF leaves
<1>3. modal[m] \in ModalRow /\ ModalFits(modal[m], ModalOrg[m])
  BY DEF AInv, ATypeOK, ModalsFit
<1>4. row \in ModalRow
  BY <1>1, <1>3 DEF ModalRow
<1>5. /\ row.summary = leaves /\ row.closure = modal[m].closure
      /\ row.tx = modal[m].tx /\ row.step = modal[m].step
  BY <1>3 DEF ModalRow
<1>6. ModalFits(row, ModalOrg[m])
  BY <1>1, <1>3, <1>5 DEF ModalFits
<1> QED
  BY <1>2, <1>4, <1>6, OneModalMoves

\* The handlers that touch the modal alone, and what they leave of its record.
LEMMA HandlerAInv ==
  ASSUME AInv, NEW m \in Modal,
         \/ Connect(m) \/ Review(m) \/ QueryFails(m) \/ ToSigning(m) \/ Back(m)
         \/ Sign(m) \/ Confirmed(m) \/ ConfirmFails(m) \/ StartOver(m)
         \/ \E w \in Window : ChooseWindow(m, w) \/ Reopen(m, w)
         \/ \E step \in ModalStep : NotSubmitted(m, step)
  PROVE  AInv'
<1>1. modal[m] \in ModalRow /\ ModalFits(modal[m], ModalOrg[m])
  BY DEF AInv, ATypeOK, ModalsFit
<1>2. ASSUME NEW step \in ModalStep \ {"SUCCESS"},
             modal' = [modal EXCEPT ![m].step = step],
             UNCHANGED <<lifecycle, anchor, chain, call>>
      PROVE  AInv'
  <2> DEFINE row == [modal[m] EXCEPT !.step = step]
  <2>1. /\ row \in ModalRow
        /\ row.summary = modal[m].summary /\ row.closure = modal[m].closure
        /\ row.tx = modal[m].tx /\ row.step # "SUCCESS"
    BY <1>1, <1>2 DEF ModalRow
  <2>2. ModalFits(row, ModalOrg[m])
    BY <1>1, <2>1 DEF ModalFits
  <2> QED
    BY <1>2, <2>1, <2>2, OneModalMoves
<1>3. CASE Connect(m) \/ Review(m) \/ QueryFails(m) \/ ToSigning(m) \/ Back(m) \/ StartOver(m)
  BY <1>2, <1>3 DEF Connect, Review, QueryFails, ToSigning, Back, StartOver, ModalStep
<1>4. CASE Sign(m)
  <2> DEFINE row == [modal[m] EXCEPT !.closure = modal[m].summary]
  <2>1. /\ row \in ModalRow
        /\ row.summary = modal[m].summary /\ row.closure = modal[m].summary
        /\ row.tx = modal[m].tx /\ row.step = modal[m].step
    BY <1>1 DEF ModalRow
  <2>2. ModalFits(row, ModalOrg[m])
    BY <1>1, <2>1 DEF ModalFits
  <2> QED
    BY <1>4, <2>1, <2>2, OneModalMoves DEF Sign
<1>5. CASE Confirmed(m)
  <2> DEFINE row == [modal[m] EXCEPT !.closure = Null, !.step = "SUCCESS"]
  <2>1. /\ row \in ModalRow
        /\ row.summary = modal[m].summary /\ row.closure = Null
        /\ row.tx = modal[m].tx
    BY <1>1 DEF ModalRow, ModalStep
  <2>2. ModalFits(row, ModalOrg[m])
    BY <1>1, <1>5, <2>1 DEF ModalFits, Confirmed
  <2> QED
    BY <1>5, <2>1, <2>2, OneModalMoves DEF Confirmed
<1>6. CASE ConfirmFails(m)
  <2> DEFINE row == [modal[m] EXCEPT !.closure = Null, !.tx = Null, !.step = "ERROR"]
  <2>1. /\ row \in ModalRow
        /\ row.summary = modal[m].summary /\ row.closure = Null
        /\ row.tx = Null /\ row.step = "ERROR"
    BY <1>1 DEF ModalRow, ModalStep
  <2>2. ModalFits(row, ModalOrg[m])
    BY <1>1, <2>1 DEF ModalFits
  <2> QED
    BY <1>6, <2>1, <2>2, OneModalMoves DEF ConfirmFails
<1>7. ASSUME NEW w \in Window, ChooseWindow(m, w) PROVE AInv'
  <2> DEFINE row == [modal[m] EXCEPT !.window = w, !.summary = Null]
  <2>1. /\ row \in ModalRow
        /\ row.summary = Null /\ row.closure = modal[m].closure
        /\ row.tx = modal[m].tx /\ row.step = modal[m].step
    BY <1>1 DEF ModalRow
  <2>2. ModalFits(row, ModalOrg[m])
    BY <1>1, <2>1 DEF ModalFits
  <2> QED
    BY <1>7, <2>1, <2>2, OneModalMoves DEF ChooseWindow
<1>8. ASSUME NEW w \in Window, Reopen(m, w) PROVE AInv'
  <2>1. NewModal(w) \in ModalRow /\ ModalFits(NewModal(w), ModalOrg[m])
    BY DEF NewModal, ModalRow, ModalStep, ModalFits
  <2> QED
    BY <1>8, <2>1, OneModalMoves DEF Reopen
<1>9. ASSUME NEW step \in ModalStep, NotSubmitted(m, step) PROVE AInv'
  <2> DEFINE row == [modal[m] EXCEPT !.closure = Null, !.step = step]
  <2>1. /\ row \in ModalRow
        /\ row.summary = modal[m].summary /\ row.closure = Null
        /\ row.tx = modal[m].tx /\ row.step = step
    BY <1>1 DEF ModalRow
  <2>2. ModalFits(row, ModalOrg[m])
    BY <1>1, <1>9, <2>1 DEF ModalFits, NotSubmitted
  <2>3. /\ modal' = [modal EXCEPT ![m] = row]
        /\ UNCHANGED <<lifecycle, anchor, chain, call>>
    BY <1>9 DEF NotSubmitted
  <2> HIDE DEF row
  <2> QED
    BY <2>1, <2>2, <2>3, OneModalMoves
<1> QED
  BY <1>3, <1>4, <1>5, <1>6, <1>7, <1>8, <1>9

\* A transaction that nobody has used carries no other modal's hash: what the
\* others rely on stands when it is submitted.
LEMMA OthersStand ==
  ASSUME AInv, NEW t \in Tx, chain[t].state = "UNUSED",
         NEW leaves \in SUBSET Leaf, NEW o \in Org, GenuineOf(leaves, o),
         chain' = [chain EXCEPT ![t] = [state |-> "PENDING", leaves |-> leaves]],
         UNCHANGED <<lifecycle, anchor>>,
         \/ UNCHANGED call
         \/ call' = [call EXCEPT ![t] = Request(o, Ids(leaves))]
  PROVE  /\ IInv' /\ RootsAreGenuine' /\ RootsHoldOneTenant' /\ AnchorsFit'
         /\ CallsFit'
         /\ chain' \in [Tx -> TxRow] /\ call' \in [Tx -> CallRow \cup {Null}]
         /\ \A ls, k : GenuineOf(ls, k)' <=> GenuineOf(ls, k)
         /\ \A k \in Tx : CallFits(k) => CallFits(k)' /\ call'[k] = call[k]
         /\ call'[t] = Request(o, Ids(leaves)) => CallFits(t)'
<1>1. IInv'
  BY NextIInv DEF AInv, vars, lifecycle
<1>2. \A leaf : Genuine(leaf)' <=> Genuine(leaf)
  BY DEF Genuine, Canonical, lifecycle
<1>3. \A ls, k : GenuineOf(ls, k)' <=> GenuineOf(ls, k)
  BY <1>2 DEF GenuineOf
<1>4. chain \in [Tx -> TxRow] /\ call \in [Tx -> CallRow \cup {Null}]
  BY DEF AInv, ATypeOK
<1>5. /\ chain'[t].leaves = leaves /\ chain'[t].state = "PENDING"
      /\ \A k \in Tx : k # t => chain'[k] = chain[k] /\ call'[k] = call[k]
      /\ chain' \in [Tx -> TxRow]
  BY <1>4 DEF TxRow
<1>6. \A leaf \in leaves : leaf.id \in Cycle
  BY DEF Leaf
<1>7. Request(o, Ids(leaves)) \in CallRow
  BY <1>6 DEF Request, CallRow, Ids
<1>8. call' \in [Tx -> CallRow \cup {Null}]
  BY <1>4, <1>7
<1>9. \A k \in Tx : CallFits(k) => CallFits(k)' /\ call'[k] = call[k]
  <2> SUFFICES ASSUME NEW k \in Tx, CallFits(k)
               PROVE  CallFits(k)' /\ call'[k] = call[k]
    OBVIOUS
  <2>1. k # t
    BY DEF CallFits
  <2> QED
    BY <2>1, <1>3, <1>5 DEF CallFits, Ids
<1>10. call'[t] = Request(o, Ids(leaves)) => CallFits(t)'
  <2> SUFFICES ASSUME call'[t] = Request(o, Ids(leaves)) PROVE CallFits(t)'
    OBVIOUS
  <2>1. call'[t].org = o /\ call'[t].ids = Ids(leaves) /\ ~call'[t].done
    BY DEF Request
  <2> QED
    BY <2>1, <1>3, <1>5, <1>7 DEF CallFits, Ids
<1>11. CallsFit'
  <2> SUFFICES ASSUME NEW k \in Tx, call'[k] # Null PROVE CallFits(k)'
    BY DEF CallsFit
  <2>1. call'[k] = call[k] => CallFits(k)
    BY DEF AInv, CallsFit
  <2>2. call'[k] = call[k] \/ (k = t /\ call'[t] = Request(o, Ids(leaves)))
    BY <1>4, <1>5
  <2> QED
    BY <2>1, <2>2, <1>9, <1>10
<1>12. RootsAreGenuine'
  BY <1>2, <1>5 DEF AInv, RootsAreGenuine, GenuineOf
<1>13. RootsHoldOneTenant'
  BY <1>5 DEF AInv, RootsHoldOneTenant, GenuineOf
<1>14. AnchorsFit'
  <2> SUFFICES ASSUME NEW c \in Cycle, anchor'[c] # Null
               PROVE  /\ chain'[anchor'[c]].state # "UNUSED"
                      /\ c \in Ids(chain'[anchor'[c]].leaves)
    BY DEF AnchorsFit, Ids
  <2>1. /\ anchor[c] \in Tx /\ anchor'[c] = anchor[c]
        /\ chain[anchor[c]].state # "UNUSED" /\ c \in Ids(chain[anchor[c]].leaves)
    BY DEF AInv, ATypeOK, AnchorsFit
  <2>2. anchor[c] # t
    BY <2>1
  <2> QED
    BY <2>1, <2>2, <1>5
<1> QED
  BY <1>1, <1>3, <1>5, <1>8, <1>9, <1>10, <1>11, <1>12, <1>13, <1>14

\* A modal submits, seen or unseen.
LEMMA SubmitAInv ==
  ASSUME AInv, NEW m \in Modal, NEW t \in Tx, SubmitTx(m, t) \/ SubmitUnseen(m, t)
  PROVE  AInv'
<1> DEFINE leaves == modal[m].closure
           o == ModalOrg[m]
<1>1. modal[m] \in ModalRow /\ ModalFits(modal[m], o) /\ o \in Org
  BY AnchoringConstants DEF AInv, ATypeOK, ModalsFit
<1>2. /\ chain[t].state = "UNUSED" /\ modal[m].tx = Null
      /\ leaves \in SUBSET Leaf /\ GenuineOf(leaves, o)
      /\ chain' = [chain EXCEPT ![t] = [state |-> "PENDING", leaves |-> leaves]]
      /\ UNCHANGED <<lifecycle, anchor>>
  BY <1>1 DEF SubmitTx, SubmitUnseen, ModalFits, ModalRow
<1>3. \/ UNCHANGED call
      \/ call' = [call EXCEPT ![t] = Request(o, Ids(leaves))]
  BY DEF SubmitTx, SubmitUnseen
<1> HIDE DEF leaves
<1>4. /\ IInv' /\ RootsAreGenuine' /\ RootsHoldOneTenant' /\ AnchorsFit'
      /\ CallsFit'
      /\ chain' \in [Tx -> TxRow] /\ call' \in [Tx -> CallRow \cup {Null}]
      /\ \A ls, k : GenuineOf(ls, k)' <=> GenuineOf(ls, k)
      /\ \A k \in Tx : CallFits(k) => CallFits(k)' /\ call'[k] = call[k]
      /\ call'[t] = Request(o, Ids(leaves)) => CallFits(t)'
  BY <1>1, <1>2, <1>3, OthersStand
<1>5. ASSUME NEW row \in ModalRow, ModalFits(row, o) PROVE ModalFits(row, o)'
  BY <1>4, <1>5 DEF ModalFits, ModalRow
<1>6. \A k \in Modal : k # m => ModalFits(modal[k], ModalOrg[k])'
  <2> SUFFICES ASSUME NEW k \in Modal, k # m PROVE ModalFits(modal[k], ModalOrg[k])'
    OBVIOUS
  <2>1. modal[k] \in ModalRow /\ ModalFits(modal[k], ModalOrg[k]) /\ modal'[k] = modal[k]
    BY DEF AInv, ATypeOK, ModalsFit, SubmitTx, SubmitUnseen
  <2> QED
    BY <2>1, <1>4 DEF ModalFits, ModalRow
<1>7. modal'[m] \in ModalRow /\ ModalFits(modal[m], o)'
  <2>1. CASE SubmitTx(m, t)
    <3>1. modal'[m] = [modal[m] EXCEPT !.tx = t]
      BY <2>1 DEF SubmitTx, AInv, ATypeOK
    <3>2. /\ modal'[m] \in ModalRow /\ modal'[m].tx = t
          /\ modal'[m].summary = modal[m].summary
          /\ modal'[m].closure = modal[m].closure
          /\ modal'[m].step = modal[m].step
      BY <1>1, <3>1 DEF ModalRow
    <3>3. modal[m].step # "SUCCESS"
      BY <1>1, <1>2 DEF ModalFits
    <3>4. CallFits(t)'
      <4>1. call'[t] = Request(o, Ids(leaves))
        BY <2>1 DEF SubmitTx, AInv, ATypeOK, leaves
      <4> QED
        BY <4>1, <1>4
    <3> QED
      BY <1>1, <1>4, <3>2, <3>3, <3>4 DEF ModalFits
  <2>2. CASE SubmitUnseen(m, t)
    <3>1. modal'[m] = [modal[m] EXCEPT !.closure = Null, !.step = "ERROR"]
      BY <2>2 DEF SubmitUnseen, AInv, ATypeOK
    <3>2. /\ modal'[m] \in ModalRow /\ modal'[m].tx = Null
          /\ modal'[m].summary = modal[m].summary /\ modal'[m].closure = Null
          /\ modal'[m].step = "ERROR"
      BY <1>1, <1>2, <3>1 DEF ModalRow, ModalStep
    <3> QED
      BY <1>1, <1>4, <3>2 DEF ModalFits
  <2> QED
    BY <2>1, <2>2
<1>8. ModalsFit'
  BY <1>6, <1>7 DEF ModalsFit
<1>9. ATypeOK'
  <2>1. modal' \in [Modal -> ModalRow]
    BY <1>7 DEF AInv, ATypeOK, SubmitTx, SubmitUnseen
  <2> QED
    BY <2>1, <1>2, <1>4 DEF AInv, ATypeOK
<1> QED
  BY <1>4, <1>8, <1>9 DEF AInv

\* confirmAnchor runs: the rows it marks are leaves of its transaction.
LEMMA ConfirmAInv ==
  ASSUME AInv, NEW t \in Tx, ConfirmAnchor(t)
  PROVE  AInv'
<1>1. /\ CallFits(t) /\ anchor' = Anchored(t)
      /\ call' = [call EXCEPT ![t].done = TRUE]
      /\ UNCHANGED <<lifecycle, modal, chain>>
  BY DEF AInv, CallsFit, ConfirmAnchor
<1>2. /\ anchor \in [Cycle -> Tx \cup {Null}] /\ call \in [Tx -> CallRow \cup {Null}]
      /\ t # Null
  BY AnchoringConstants DEF AInv, ATypeOK
<1>3. IInv'
  BY <1>1, NextIInv DEF AInv, vars, lifecycle
<1>4. \A leaf : Genuine(leaf)' <=> Genuine(leaf)
  BY <1>1 DEF Genuine, Canonical, lifecycle
<1>5. \A ls, k : GenuineOf(ls, k)' <=> GenuineOf(ls, k)
  BY <1>4 DEF GenuineOf
<1>6. \A c \in Cycle : /\ anchor[c] # Null => anchor'[c] = anchor[c]
                       /\ anchor'[c] # Null => anchor'[c] = anchor[c] \/ (anchor'[c] = t /\ c \in call[t].ids)
                       /\ c \in call[t].ids => anchor'[c] # Null
  <2>1. \A c \in call[t].ids : BinOrg[cycle[c].bin] = call[t].org
    BY <1>1, IdsOfTenant DEF AInv, IInv, CallFits
  <2> QED
    BY <1>1, <1>2, <2>1 DEF Anchored
<1>7. anchor' \in [Cycle -> Tx \cup {Null}]
  BY <1>1, <1>2 DEF Anchored
<1>8. /\ call'[t] \in CallRow /\ call'[t].org = call[t].org
      /\ call'[t].ids = call[t].ids /\ call'[t].done
      /\ \A k \in Tx : k # t => call'[k] = call[k]
  BY <1>1, <1>2 DEF CallFits, CallRow
<1>9. call' \in [Tx -> CallRow \cup {Null}]
  BY <1>1, <1>2, <1>8
<1>10. \A k \in Tx : CallFits(k) => CallFits(k)'
  <2> SUFFICES ASSUME NEW k \in Tx, CallFits(k) PROVE CallFits(k)'
    OBVIOUS
  <2>1. call[k].ids \subseteq Cycle
    BY DEF CallFits, CallRow
  <2>2. CASE k = t
    BY <2>1, <2>2, <1>1, <1>5, <1>6, <1>8 DEF CallFits, Ids
  <2>3. CASE k # t
    BY <2>1, <2>3, <1>1, <1>5, <1>6, <1>8 DEF CallFits, Ids
  <2> QED
    BY <2>2, <2>3
<1>11. CallsFit'
  BY <1>1, <1>8, <1>10 DEF AInv, CallsFit
<1>12. RootsAreGenuine' /\ RootsHoldOneTenant'
  BY <1>1, <1>4 DEF AInv, RootsAreGenuine, RootsHoldOneTenant
<1>13. AnchorsFit'
  <2>1. \A c \in call[t].ids : chain[t].state # "UNUSED" /\ c \in Ids(chain[t].leaves)
    BY <1>1 DEF CallFits
  <2> QED
    BY <2>1, <1>1, <1>6 DEF AInv, AnchorsFit, Ids
<1>14. ModalsFit'
  <2> SUFFICES ASSUME NEW m \in Modal PROVE ModalFits(modal[m], ModalOrg[m])'
    BY DEF ModalsFit
  <2>1. modal[m] \in ModalRow /\ ModalFits(modal[m], ModalOrg[m]) /\ modal'[m] = modal[m]
    BY <1>1 DEF AInv, ATypeOK, ModalsFit
  <2> QED
    BY <2>1, <1>5, <1>8, <1>10 DEF ModalFits, ModalRow
<1>15. ATypeOK'
  BY <1>1, <1>7, <1>9 DEF AInv, ATypeOK
<1> QED
  BY <1>3, <1>11, <1>12, <1>13, <1>14, <1>15 DEF AInv

\* The network decides: no leaf is touched.
LEMMA ChainAInv ==
  ASSUME AInv, NEW t \in Tx, NEW state \in {"INCLUDED", "EXPIRED"}, ChainDecides(t, state)
  PROVE  AInv'
<1>1. chain \in [Tx -> TxRow]
  BY DEF AInv, ATypeOK
<1>2. /\ chain' \in [Tx -> TxRow]
      /\ \A k \in Tx : /\ chain'[k].leaves = chain[k].leaves
                       /\ chain[k].state # "UNUSED" => chain'[k].state # "UNUSED"
      /\ UNCHANGED <<lifecycle, anchor, modal, call>>
  BY <1>1 DEF ChainDecides, TxRow
<1>3. IInv'
  BY <1>2, NextIInv DEF AInv, vars, lifecycle
<1>4. \A leaf : Genuine(leaf)' <=> Genuine(leaf)
  BY <1>2 DEF Genuine, Canonical, lifecycle
<1>5. \A ls, k : GenuineOf(ls, k)' <=> GenuineOf(ls, k)
  BY <1>4 DEF GenuineOf
<1>6. \A k \in Tx : CallFits(k) => CallFits(k)'
  BY <1>2, <1>5 DEF CallFits, Ids
<1>7. CallsFit' /\ RootsAreGenuine' /\ RootsHoldOneTenant' /\ AnchorsFit' /\ ATypeOK'
  BY <1>2, <1>4, <1>6
  DEF AInv, ATypeOK, CallsFit, RootsAreGenuine, RootsHoldOneTenant, AnchorsFit, Ids
<1>8. ModalsFit'
  <2> SUFFICES ASSUME NEW m \in Modal PROVE ModalFits(modal[m], ModalOrg[m])'
    BY DEF ModalsFit
  <2>1. modal[m] \in ModalRow /\ ModalFits(modal[m], ModalOrg[m]) /\ modal'[m] = modal[m]
    BY <1>2 DEF AInv, ATypeOK, ModalsFit
  <2> QED
    BY <2>1, <1>2, <1>5, <1>6 DEF ModalFits, ModalRow
<1> QED
  BY <1>3, <1>7, <1>8 DEF AInv

\* Nothing moves.
LEMMA StutterAInv == AInv /\ UNCHANGED avars => AInv'
<1> SUFFICES ASSUME AInv, UNCHANGED avars PROVE AInv'
  OBVIOUS
<1> USE DEF avars, lifecycle
<1>1. IInv'
  BY NextIInv DEF AInv, vars, lifecycle
<1>2. \A leaf : Genuine(leaf)' <=> Genuine(leaf)
  BY DEF Genuine, Canonical
<1>3. \A ls, k : GenuineOf(ls, k)' <=> GenuineOf(ls, k)
  BY <1>2 DEF GenuineOf
<1>4. \A k : CallFits(k)' <=> CallFits(k)
  BY <1>3 DEF CallFits, Ids
<1>5. ModalsFit'
  BY <1>3, <1>4 DEF AInv, ModalsFit, ModalFits
<1>6. CallsFit' /\ RootsAreGenuine' /\ RootsHoldOneTenant' /\ AnchorsFit' /\ ATypeOK'
  BY <1>2, <1>4
  DEF AInv, ATypeOK, CallsFit, RootsAreGenuine, RootsHoldOneTenant, AnchorsFit, Ids
<1> QED
  BY <1>1, <1>5, <1>6 DEF AInv

LEMMA NextAInv == AInv /\ [ANext]_avars => AInv'
<1> SUFFICES ASSUME AInv, [ANext]_avars PROVE AInv'
  OBVIOUS
<1>1. ASSUME NEW m \in Modal, ModalNext(m) PROVE AInv'
  BY <1>1, FetchAInv, HandlerAInv, SubmitAInv DEF ModalNext
<1> QED
  BY <1>1, ScanAInv, ConfirmAInv, ChainAInv, StutterAInv DEF ANext
-----------------------------------------------------------------------------
(* The theorems.                                                           *)

LEMMA AnchoringInvariant == ASpec => []AInv
BY InitAInv, NextAInv, PTL DEF ASpec

\* Whatever is anchored can be proven, for any number of browsers at work.
THEOREM AnchorsAreAlwaysGenuine == ASpec => []AnchorsAreGenuine
<1>1. AInv => AnchorsAreGenuine
  <2> SUFFICES ASSUME AInv, NEW c \in Cycle, anchor[c] # Null
               PROVE  cycle[c].status = "COMPLETED" /\ Canonical(c) \in chain[anchor[c]].leaves
    BY DEF AnchorsAreGenuine
  <2>1. anchor[c] \in Tx /\ c \in Ids(chain[anchor[c]].leaves)
    BY DEF AInv, ATypeOK, AnchorsFit
  <2>2. PICK leaf \in chain[anchor[c]].leaves : leaf.id = c
    BY <2>1 DEF Ids
  <2>3. Genuine(leaf)
    BY <2>1, <2>2 DEF AInv, RootsAreGenuine
  <2> QED
    BY <2>2, <2>3 DEF Genuine
<1> QED
  BY <1>1, AnchoringInvariant, PTL

\* A modal that shows success has none of its transaction's cycles unanchored.
THEOREM SuccessIsComplete == ASpec => []SuccessLeavesNoneBehind
<1>1. AInv => SuccessLeavesNoneBehind
  <2> SUFFICES ASSUME AInv, NEW m \in Modal, modal[m].step = "SUCCESS",
                      NEW leaf \in chain[modal[m].tx].leaves
               PROVE  anchor[leaf.id] # Null
    BY DEF SuccessLeavesNoneBehind
  <2>1. CallFits(modal[m].tx) /\ call[modal[m].tx].done
    BY DEF AInv, ModalsFit, ModalFits
  <2> QED
    BY <2>1 DEF CallFits, Ids
<1> QED
  BY <1>1, AnchoringInvariant, PTL

\* No root mixes tenants.
THEOREM RootsAlwaysHoldOneTenant == ASpec => []RootsHoldOneTenant
<1>1. AInv => RootsHoldOneTenant
  BY DEF AInv
<1> QED
  BY <1>1, AnchoringInvariant, PTL

\* Anchors are permanent.
THEOREM AnchorsStay == ASpec => AnchorsArePermanent
<1>1. AInv /\ [ANext]_avars => [KeepsAnchors]_avars
  <2> SUFFICES ASSUME AInv, ANext PROVE KeepsAnchors
    OBVIOUS
  <2>1. CASE \E t \in Tx : ConfirmAnchor(t)
    BY <2>1 DEF ConfirmAnchor, Anchored, KeepsAnchors
  <2>2. CASE UNCHANGED anchor
    BY <2>2 DEF KeepsAnchors
  <2>3. UNCHANGED anchor \/ \E t \in Tx : ConfirmAnchor(t)
    BY DEF ANext, ModalNext, Scan, Connect, ChooseWindow, Reopen, FetchSummary, Review,
           QueryFails, ToSigning, Back, Sign, NotSubmitted, SubmitTx, SubmitUnseen,
           Confirmed, ConfirmFails, StartOver, ChainDecides
  <2> QED
    BY <2>1, <2>2, <2>3
<1> QED
  BY <1>1, AnchoringInvariant, PTL DEF ASpec, AnchorsArePermanent
=============================================================================
