------------------------------ MODULE Anchoring -----------------------------
(***************************************************************************)
(* Anchoring completed cycles in the Cardano blockchain, composed with the *)
(* life of the bins.  An administrator's browser asks the server for the   *)
(* summary of a date range (getDailySummary), signs and submits one        *)
(* transaction that carries the Merkle root of the cycles' canonical forms,*)
(* and reports its hash back (confirmAnchor).  The chain is external; the  *)
(* browser may be closed, and requests or their answers may be lost, at    *)
(* any point.  A Merkle root is abstracted to the set of its leaves, which *)
(* module Merkle justifies.                                                *)
(***************************************************************************)
EXTENDS BinLifecycle, FiniteSets

CONSTANTS
  Modal,     \* open BlockchainAnchorModals
  ModalOrg,  \* the organization each one works for
  Window,    \* the date ranges its picker offers, as sets of instants
  Tx         \* bound: the transactions wallets submit

ASSUME AnchoringConstants ==
  /\ ModalOrg \in [Modal -> Org]
  /\ Window \subseteq SUBSET Instant
  /\ Null \notin Tx

VARIABLES
  anchor,  \* bin_cycles.anchorTxHash; anchored is anchor[c] # Null
  modal,   \* the state of each modal
  chain,   \* what became of each transaction
  call     \* the confirmAnchor request sent for each transaction

lifecycle == <<bin, cycle, events>>
avars == <<lifecycle, anchor, modal, chain, call>>

ModalStep == {"WALLET_CONNECT", "FETCHING", "REVIEW", "SIGNING", "SUCCESS", "ERROR"}

\* summary: the answer of the query, kept by its cache; Null while there is none.
\* closure: the summary that the running handleSignAndSubmit has captured; Null
\* while none runs.  tx: the hash the wallet returned to it.
NewModal(w) == [step |-> "WALLET_CONNECT", window |-> w,
                summary |-> Null, closure |-> Null, tx |-> Null]

NoTx == [state |-> "UNUSED", leaves |-> {}]

Request(o, ids) == [org |-> o, ids |-> ids, done |-> FALSE]
-----------------------------------------------------------------------------
(* blockchain.service.ts                                                   *)

CanonicalFields == {"bin", "facility", "destination", "startedAt", "deadline",
                    "pickedUpAt", "deliveredAt", "compliance"}

\* canonicalize: the fields of a row that go into its leaf; not its status, its
\* driver, nor whether it is anchored.  dk_hours and the codes follow from bin.
Canonical(c) == [id |-> c, form |-> [field \in CanonicalFields |-> cycle[c][field]]]

\* fetchCycles without its organizationId.
FetchCycles_AnyOrg(o, window) ==
  {c \in Cycle : cycle[c].status = "COMPLETED" /\ cycle[c].deliveredAt \in window}

FetchCycles(o, window) ==
  {c \in Cycle : /\ cycle[c].status = "COMPLETED"
                 /\ BinOrg[cycle[c].bin] = o
                 /\ cycle[c].deliveredAt \in window}

\* getDailySummary: cycleIds, and the leaves that merkle_root commits to.
DailySummary(o, window) == {Canonical(c) : c \in FetchCycles(o, window)}

Ids(leaves) == {leaf.id : leaf \in leaves}

\* The column after an updateMany that forgets "anchored: false".
Anchored_Overwrites(t) ==
  [c \in Cycle |-> IF c \in call[t].ids /\ BinOrg[cycle[c].bin] = call[t].org
                   THEN t ELSE anchor[c]]

\* The column after a confirmAnchor that refuses what is partly anchored.
Anchored_AllOrNothing(t) ==
  [c \in Cycle |->
     IF /\ c \in call[t].ids /\ BinOrg[cycle[c].bin] = call[t].org
        /\ \A d \in call[t].ids : anchor[d] = Null
     THEN t ELSE anchor[c]]

\* The column after the updateMany of confirmAnchor.
Anchored(t) ==
  [c \in Cycle |->
     IF c \in call[t].ids /\ BinOrg[cycle[c].bin] = call[t].org /\ anchor[c] = Null
     THEN t ELSE anchor[c]]

\* confirmAnchor runs, whether or not the browser still waits for its answer.
ConfirmAnchor(t) ==
  /\ call[t] # Null /\ ~call[t].done
  /\ anchor' = Anchored(t)
  /\ call' = [call EXCEPT ![t].done = TRUE]
  /\ UNCHANGED <<lifecycle, modal, chain>>
-----------------------------------------------------------------------------
(* BlockchainAnchorModal.tsx                                               *)

AInit ==
  /\ Init
  /\ anchor = [c \in Cycle |-> Null]
  /\ modal \in [Modal -> {NewModal(w) : w \in Window}]
  /\ chain = [t \in Tx |-> NoTx]
  /\ call = [t \in Tx |-> Null]

\* handleConnectWallet.
Connect(m) ==
  /\ modal[m].step = "WALLET_CONNECT"
  /\ modal' = [modal EXCEPT ![m].step = "FETCHING"]
  /\ UNCHANGED <<lifecycle, anchor, chain, call>>

\* applyPreset and the date inputs; the answer for the old range is not shown.
ChooseWindow(m, w) ==
  /\ modal[m].step \in {"FETCHING", "REVIEW"} /\ w # modal[m].window
  /\ modal' = [modal EXCEPT ![m].window = w, ![m].summary = Null]
  /\ UNCHANGED <<lifecycle, anchor, chain, call>>

\* The query is answered, or refreshed by react-query, also while the wallet's
\* window is open over the modal.
FetchSummary(m) ==
  /\ modal[m].step \in {"FETCHING", "REVIEW", "SIGNING"}
  /\ modal' = [modal EXCEPT ![m].summary = DailySummary(ModalOrg[m], modal[m].window)]
  /\ UNCHANGED <<lifecycle, anchor, chain, call>>

\* The effect that leaves FETCHING, also for an answer still in the cache.
Review(m) ==
  /\ modal[m].step = "FETCHING" /\ modal[m].summary # Null
  /\ modal' = [modal EXCEPT ![m].step = "REVIEW"]
  /\ UNCHANGED <<lifecycle, anchor, chain, call>>

\* The same effect, once the query has failed three times.
QueryFails(m) ==
  /\ modal[m].step = "FETCHING"
  /\ modal' = [modal EXCEPT ![m].step = "ERROR"]
  /\ UNCHANGED <<lifecycle, anchor, chain, call>>

\* onNext of the review, shown for a summary with cycles in it.
ToSigning(m) ==
  /\ modal[m].step = "REVIEW" /\ modal[m].summary \notin {Null, {}}
  /\ modal' = [modal EXCEPT ![m].step = "SIGNING"]
  /\ UNCHANGED <<lifecycle, anchor, chain, call>>

\* onBack, whether or not a handler runs.
Back(m) ==
  /\ modal[m].step = "SIGNING"
  /\ modal' = [modal EXCEPT ![m].step = "REVIEW"]
  /\ UNCHANGED <<lifecycle, anchor, chain, call>>

\* handleSignAndSubmit begins, with the summary of the last rendering.
Sign(m) ==
  /\ modal[m].step = "SIGNING" /\ modal[m].closure = Null
  /\ modal[m].summary \notin {Null, {}}
  /\ modal' = [modal EXCEPT ![m].closure = modal[m].summary]
  /\ UNCHANGED <<lifecycle, anchor, chain, call>>

\* The handler ends without a transaction: declined, the step stays; else ERROR.
NotSubmitted(m, step) ==
  /\ modal[m].closure # Null /\ modal[m].tx = Null
  /\ step \in {modal[m].step, "ERROR"}
  /\ modal' = [modal EXCEPT ![m].closure = Null, ![m].step = step]
  /\ UNCHANGED <<lifecycle, anchor, chain, call>>

\* The transaction is submitted and confirmAnchor called, with the ids of
\* whatever summary the modal shows by then.
SubmitTx_Shown(m, t) ==
  /\ modal[m].closure # Null /\ modal[m].tx = Null /\ modal[m].summary # Null
  /\ chain[t].state = "UNUSED"
  /\ chain' = [chain EXCEPT ![t] = [state |-> "PENDING", leaves |-> modal[m].closure]]
  /\ call' = [call EXCEPT ![t] = Request(ModalOrg[m], Ids(modal[m].summary))]
  /\ modal' = [modal EXCEPT ![m].tx = t]
  /\ UNCHANGED <<lifecycle, anchor>>

\* The transaction is submitted, with the Merkle root of the closure in its
\* metadata, and at once confirmAnchor called, with the ids of the closure.
SubmitTx(m, t) ==
  /\ modal[m].closure # Null /\ modal[m].tx = Null
  /\ chain[t].state = "UNUSED"
  /\ chain' = [chain EXCEPT ![t] = [state |-> "PENDING", leaves |-> modal[m].closure]]
  /\ call' = [call EXCEPT ![t] = Request(ModalOrg[m], Ids(modal[m].closure))]
  /\ modal' = [modal EXCEPT ![m].tx = t]
  /\ UNCHANGED <<lifecycle, anchor>>

\* submitTx fails in the browser although the network has the transaction.
SubmitUnseen(m, t) ==
  /\ modal[m].closure # Null /\ modal[m].tx = Null
  /\ chain[t].state = "UNUSED"
  /\ chain' = [chain EXCEPT ![t] = [state |-> "PENDING", leaves |-> modal[m].closure]]
  /\ modal' = [modal EXCEPT ![m].closure = Null, ![m].step = "ERROR"]
  /\ UNCHANGED <<lifecycle, anchor, call>>

\* The answer of confirmAnchor arrives; the hash stays on display.
Confirmed(m) ==
  /\ modal[m].closure # Null /\ modal[m].tx # Null /\ call[modal[m].tx].done
  /\ modal' = [modal EXCEPT ![m].closure = Null, ![m].step = "SUCCESS"]
  /\ UNCHANGED <<lifecycle, anchor, chain, call>>

\* The answer is an error or does not come; the hash is forgotten.
ConfirmFails(m) ==
  /\ modal[m].closure # Null /\ modal[m].tx # Null
  /\ modal' = [modal EXCEPT ![m].closure = Null, ![m].tx = Null, ![m].step = "ERROR"]
  /\ UNCHANGED <<lifecycle, anchor, chain, call>>

StartOver(m) ==
  /\ modal[m].step = "ERROR" /\ modal[m].closure = Null
  /\ modal' = [modal EXCEPT ![m].step = "WALLET_CONNECT"]
  /\ UNCHANGED <<lifecycle, anchor, chain, call>>

\* The page is closed, whatever runs in it, and opened again.
Reopen(m, w) ==
  /\ modal' = [modal EXCEPT ![m] = NewModal(w)]
  /\ UNCHANGED <<lifecycle, anchor, chain, call>>

\* External: a block takes the transaction in, or it is never taken in before the
\* slot of invalidHereafter.
ChainDecides(t, state) ==
  /\ chain[t].state = "PENDING"
  /\ chain' = [chain EXCEPT ![t].state = state]
  /\ UNCHANGED <<lifecycle, anchor, modal, call>>

Scan == Next /\ UNCHANGED <<anchor, modal, chain, call>>

ModalNext(m) ==
  \/ Connect(m)
  \/ \E w \in Window : ChooseWindow(m, w) \/ Reopen(m, w)
  \/ FetchSummary(m)
  \/ Review(m)
  \/ QueryFails(m)
  \/ ToSigning(m)
  \/ Back(m)
  \/ Sign(m)
  \/ \E step \in ModalStep : NotSubmitted(m, step)
  \/ \E t \in Tx : SubmitTx(m, t) \/ SubmitUnseen(m, t)
  \/ Confirmed(m)
  \/ ConfirmFails(m)
  \/ StartOver(m)

ANext ==
  \/ Scan
  \/ \E m \in Modal : ModalNext(m)
  \/ \E t \in Tx : ConfirmAnchor(t)
  \/ \E t \in Tx, state \in {"INCLUDED", "EXPIRED"} : ChainDecides(t, state)

ASpec == AInit /\ [][ANext]_avars
-----------------------------------------------------------------------------
(* Properties.                                                             *)

\* An anchored cycle can be proven: the tree of the transaction its row names has
\* a leaf that is the canonical form of the row as it is now, although the row
\* was read long before it was marked (getDailySummary, confirmAnchor).
AnchorsAreGenuine ==
  \A c \in Cycle : anchor[c] # Null =>
    cycle[c].status = "COMPLETED" /\ Canonical(c) \in chain[anchor[c]].leaves

\* Once anchored, a cycle keeps naming the same transaction, whoever confirms the
\* same cycles again (the "critical idempotency guard" of confirmAnchor).
KeepsAnchors == \A c \in Cycle : anchor[c] # Null => anchor'[c] = anchor[c]

AnchorsArePermanent == [][KeepsAnchors]_avars

\* A modal that reports success leaves none of its transaction's cycles behind,
\* also when other modals have anchored some of them meanwhile.
SuccessLeavesNoneBehind ==
  \A m \in Modal : modal[m].step = "SUCCESS" =>
    \A leaf \in chain[modal[m].tx].leaves : anchor[leaf.id] # Null

\* The root in one tenant's transaction commits to cycles of that tenant only.
RootsHoldOneTenant ==
  \A t \in Tx : \A leaf1, leaf2 \in chain[t].leaves :
    BinOrg[leaf1.form.bin] = BinOrg[leaf2.form.bin]

\* blockchain.service.ts:180 has confirmAnchor "called by the frontend after the
\* transaction is confirmed on-chain"; the modal calls it when it is submitted.
MarkedAfterConfirmation ==
  [][\A c \in Cycle :
       anchor[c] = Null /\ anchor'[c] # Null =>
         chain[anchor'[c]].state = "INCLUDED"]_avars
=============================================================================
