----------------------- MODULE BinTransactions_proofs -----------------------
(***************************************************************************)
(* Proofs about BinTransactions, for every set of requests, bins, cycles,  *)
(* users and tenants: the transactions implement BinLifecycle, so whatever *)
(* BinLifecycle_proofs shows of the atomic scans holds of them too.        *)
(*                                                                         *)
(* The argument: what a transaction's guards found in its snapshot is      *)
(* still true at its commit.  A row it wrote has not been changed by       *)
(* anybody since (WritesAreCurrent), because the write was refused if it   *)
(* had been, and while the write is uncommitted nobody else writes the row *)
(* (LocksExclude).  Until a row is missed, the snapshot's guards hold of   *)
(* the committed row (GuardsHold); ids made up for inserts belong to one   *)
(* request (IdsAreUnique).                                                 *)
(***************************************************************************)
EXTENDS BinTransactions, TLAPS

\* The same instance as L, with the theorems.
P == INSTANCE BinLifecycle_proofs WITH bin <- bin, cycle <- cycle, events <- events

IsStart(op) == op \in {"start", "startDynamic"}

\* What the open transaction q may rely on, given what it has missed.
GuardsHold(q) ==
  /\ q.org \in Org /\ q.user \in User /\ q.op \in Operation
  /\ q.bin \in Bin /\ q.cycle \in Cycle /\ q.facility \in Facility
  /\ q.at <= clock
  /\ q.op = "start" =>
       /\ Home[q.bin] # Null /\ q.facility = Home[q.bin]
       /\ ~q.binMissed => bin[q.bin].status = "IDLE"
  /\ q.op = "startDynamic" =>
       bin[q.bin].status = "ABSENT" /\ FacilityOrg[q.facility] = BinOrg[q.bin]
  /\ IsStart(q.op) => cycle[q.cycle].status = "ABSENT"
  /\ q.op \in {"pickup", "deliver"} =>
       /\ cycle[q.cycle].status # "ABSENT" /\ cycle[q.cycle].bin = q.bin
       /\ cycle[q.cycle].startedAt <= q.at
  /\ q.op = "pickup" /\ ~q.cycleMissed => cycle[q.cycle].status = "ACTIVE"
  /\ q.op = "deliver" =>
       /\ q.facility \in Rendering /\ FacilityOrg[q.facility] = BinOrg[q.bin]
       /\ q.org = BinOrg[q.bin]
  /\ q.op = "deliver" /\ ~q.cycleMissed =>
       /\ cycle[q.cycle].status = "IN_TRANSIT" /\ cycle[q.cycle].pickedUpAt <= q.at
       /\ q.role = "ADMIN" \/ q.user = cycle[q.cycle].driver

IsOpenRequest(r) == req[r].pc = "open"

OpenGuardsHold == \A r \in Request : IsOpenRequest(r) => GuardsHold(req[r])

NotOpenIsBlank ==
  \A r \in Request : req[r].pc # "open" =>
    /\ req[r].writes = 0 /\ ~req[r].binMissed /\ ~req[r].cycleMissed
    /\ req[r].pc = "resolved" => req[r].org \in Org /\ req[r].user \in User

IdsAreUnique ==
  \A r, s \in Request : r # s /\ IsOpenRequest(r) /\ IsOpenRequest(s) =>
    /\ IsStart(req[r].op) /\ IsStart(req[s].op) => req[r].cycle # req[s].cycle
    /\ req[r].op = "startDynamic" /\ req[s].op = "startDynamic" => req[r].bin # req[s].bin

WritesAreCurrent ==
  \A r \in Request : IsOpenRequest(r) =>
    /\ Wrote(r, "cycle") => ~req[r].cycleMissed
    /\ Wrote(r, "bin") => ~req[r].binMissed

LocksExclude ==
  \A r, s \in Request : r # s /\ IsOpenRequest(r) /\ IsOpenRequest(s) =>
    /\ Wrote(r, "cycle") /\ Wrote(s, "cycle") => req[r].cycle # req[s].cycle
    /\ Wrote(r, "bin") /\ Wrote(s, "bin") => req[r].bin # req[s].bin

TimesArePast ==
  \A c \in Cycle :
    /\ cycle[c].status # "ABSENT" => cycle[c].startedAt <= clock
    /\ cycle[c].status \in {"IN_TRANSIT", "COMPLETED"} => cycle[c].pickedUpAt <= clock

TxInv ==
  /\ P!IInv
  /\ live \subseteq Facility
  /\ member \in [Org \X User -> Role \cup {Null}]
  /\ access \subseteq User \X Facility
  /\ clock \in Instant
  /\ req \in [Request -> RequestRow]
  /\ OpenGuardsHold
  /\ NotOpenIsBlank
  /\ IdsAreUnique
  /\ WritesAreCurrent
  /\ LocksExclude
  /\ TimesArePast
-----------------------------------------------------------------------------
(* Small facts.                                                            *)

\* What a request has written after 0 and after 2 statements.
LEMMA WroteAll ==
  ASSUME NEW r \in Request, req[r].op \in Operation
  PROVE  /\ req[r].writes = 0 => ~Wrote(r, "cycle") /\ ~Wrote(r, "bin")
         /\ req[r].writes = 2 => Wrote(r, "cycle") /\ Wrote(r, "bin")
<1>1. req[r].writes = 0 => ~Wrote(r, "cycle") /\ ~Wrote(r, "bin")
  BY DEF Wrote
<1>2. ASSUME req[r].writes = 2 PROVE Wrote(r, "cycle") /\ Wrote(r, "bin")
  <2>1. 1 \in 1..req[r].writes /\ 2 \in 1..req[r].writes
    BY <1>2
  <2> QED
    BY <2>1 DEF Wrote, WriteOrder
<1> QED
  BY <1>1, <1>2

\* One more statement adds the table it wrote.
LEMMA WroteNext ==
  ASSUME NEW r \in Request, req[r].writes \in 0..1,
         req'[r].writes = req[r].writes + 1, req'[r].op = req[r].op, NEW table
  PROVE  Wrote(r, table)' => Wrote(r, table) \/ table = NextTable(r)
<1>1. 1..req'[r].writes = (1..req[r].writes) \cup {req[r].writes + 1}
  OBVIOUS
<1> QED
  BY <1>1 DEF Wrote, NextTable

\* A step that leaves the rows alone keeps the lifecycle's invariant.
LEMMA RowsKept == ASSUME P!IInv, UNCHANGED rows PROVE P!IInv'
  BY P!NextIInv, TransactionConstants DEF rows, P!vars, P!ConstantsFit, L!ConstantsFit

\* The two instances of BinLifecycle are one.
LEMMA SameNext == L!Next => P!Next
  BY DEF L!Next, P!Next, L!Start, P!Start, L!StartDynamic, P!StartDynamic,
         L!Pickup, P!Pickup, L!Deliver, P!Deliver, L!OpenCycle, P!OpenCycle,
         L!StartedCycle, P!StartedCycle, L!PickedUpCycle, P!PickedUpCycle,
         L!DeliveredCycle, P!DeliveredCycle, L!Event, P!Event, L!NoCycle, P!NoCycle,
         L!CalculateCompliance, P!CalculateCompliance

LEMMA SameInit == L!Init => P!Init
  BY DEF L!Init, P!Init, L!NoCycle, P!NoCycle

\* The row of a request that opens its transaction.
OpenedRow(q, op, b, c, f, t) ==
  [q EXCEPT !.pc = "open", !.op = op, !.bin = b, !.cycle = c, !.facility = f, !.at = t]

LEMMA OpenedRowFields ==
  ASSUME NEW q \in RequestRow, NEW op \in Operation, NEW b \in Bin, NEW c \in Cycle,
         NEW f \in Facility, NEW t \in Nat
  PROVE  LET new == OpenedRow(q, op, b, c, f, t)
         IN  /\ new \in RequestRow
             /\ new.pc = "open" /\ new.op = op /\ new.bin = b /\ new.cycle = c
             /\ new.facility = f /\ new.at = t
             /\ new.org = q.org /\ new.user = q.user /\ new.role = q.role
             /\ new.writes = q.writes
  BY DEF RequestRow, OpenedRow

\* The row of a request that has written one more row.
WrittenRow(q, t) == [q EXCEPT !.writes = @ + 1, !.at = t]

LEMMA WrittenRowFields ==
  ASSUME NEW q \in RequestRow, q.writes \in 0..1, NEW t \in Nat
  PROVE  LET new == WrittenRow(q, t)
         IN  /\ new \in RequestRow
             /\ new.writes = q.writes + 1 /\ new.at = t
             /\ new.pc = q.pc /\ new.op = q.op /\ new.bin = q.bin
             /\ new.cycle = q.cycle /\ new.facility = q.facility
             /\ new.org = q.org /\ new.user = q.user /\ new.role = q.role
             /\ new.binMissed = q.binMissed /\ new.cycleMissed = q.cycleMissed
<1>1. q.writes + 1 \in 0..2
  OBVIOUS
<1> QED
  BY <1>1 DEF RequestRow, WrittenRow
-----------------------------------------------------------------------------
(* The invariant: initial states, and the steps that leave the rows alone. *)

LEMMA InitTxInv == Init => TxInv
<1> SUFFICES ASSUME Init PROVE TxInv
  OBVIOUS
<1>1. P!IInv
  BY SameInit, P!InitIInv, TransactionConstants
     DEF Init, P!ConstantsFit, L!ConstantsFit
<1>2. req \in [Request -> RequestRow] /\ \A r \in Request : req[r] = NoRequest
  BY DEF Init, NoRequest, RequestRow
<1>3. clock \in Instant
  BY TransactionConstants DEF Init, Instant
<1>4. TimesArePast
  BY DEF Init, L!Init, L!NoCycle, TimesArePast
<1>5. OpenGuardsHold /\ NotOpenIsBlank /\ IdsAreUnique /\ WritesAreCurrent /\ LocksExclude
  BY <1>2 DEF OpenGuardsHold, NotOpenIsBlank, IdsAreUnique, WritesAreCurrent, LocksExclude,
              IsOpenRequest, NoRequest
<1> QED
  BY <1>1, <1>2, <1>3, <1>4, <1>5, TransactionConstants DEF TxInv, Init

\* While the rows stay and the clock does not go back, what holds of a
\* transaction goes on holding.
LEMMA GuardsKept ==
  ASSUME UNCHANGED rows, clock' >= clock, clock \in Nat, clock' \in Nat,
         NEW q \in RequestRow, GuardsHold(q)
  PROVE  GuardsHold(q)'
<1>1. q.at \in Nat
  BY DEF RequestRow
<1> QED
  BY <1>1 DEF GuardsHold, rows

LEMMA RowsKeptTimes ==
  ASSUME TxInv, UNCHANGED rows, clock' >= clock, clock \in Nat, clock' \in Nat
  PROVE  TimesArePast'
<1>1. \A c \in Cycle :
        /\ cycle[c].status # "ABSENT" => cycle[c].startedAt \in Nat
        /\ cycle[c].status \in {"IN_TRANSIT", "COMPLETED"} => cycle[c].pickedUpAt \in Nat
  BY DEF TxInv, P!IInv, P!RowsComplete
<1> QED
  BY <1>1 DEF TxInv, TimesArePast, rows

LEMMA ClockIsNat == TxInv => clock \in Nat
  BY TransactionConstants DEF TxInv, Instant

\* The surroundings do not touch the requests.
LEMMA SurroundingsTxInv ==
  ASSUME TxInv, UNCHANGED <<rows, req>>,
         live' \subseteq Facility, member' \in [Org \X User -> Role \cup {Null}],
         access' \subseteq User \X Facility, clock' \in Instant, clock' >= clock
  PROVE  TxInv'
<1>1. clock \in Nat /\ clock' \in Nat
  BY ClockIsNat, TransactionConstants DEF Instant
<1>2. P!IInv' /\ TimesArePast'
  BY <1>1, RowsKept, RowsKeptTimes DEF TxInv
<1>3. OpenGuardsHold'
  BY <1>1, GuardsKept DEF TxInv, OpenGuardsHold, IsOpenRequest
<1>4. NotOpenIsBlank' /\ IdsAreUnique' /\ WritesAreCurrent' /\ LocksExclude'
  BY DEF TxInv, NotOpenIsBlank, IdsAreUnique, WritesAreCurrent, LocksExclude,
         IsOpenRequest, Wrote
<1> QED
  BY <1>2, <1>3, <1>4 DEF TxInv

\* A request that ends without a commit leaves nothing behind.
LEMMA ReleaseTxInv ==
  ASSUME TxInv, NEW r \in Request, req' = [req EXCEPT ![r] = NoRequest],
         UNCHANGED <<rows, tenancy, clock>>
  PROVE  TxInv'
<1>1. clock \in Nat
  BY ClockIsNat
<1>2. P!IInv' /\ TimesArePast'
  BY <1>1, RowsKept, RowsKeptTimes DEF TxInv
<1>3. /\ NoRequest \in RequestRow
      /\ req'[r] = NoRequest
      /\ \A s \in Request : s # r => req'[s] = req[s]
      /\ \A s \in Request : IsOpenRequest(s)' => s # r /\ IsOpenRequest(s) /\ req'[s] = req[s]
  BY DEF TxInv, NoRequest, RequestRow, IsOpenRequest
<1>4. req' \in [Request -> RequestRow]
  BY <1>3 DEF TxInv
<1>5. OpenGuardsHold'
  BY <1>1, <1>3, GuardsKept DEF TxInv, OpenGuardsHold
<1>6. NotOpenIsBlank'
  BY <1>3 DEF TxInv, NotOpenIsBlank, NoRequest
<1>7. IdsAreUnique' /\ WritesAreCurrent' /\ LocksExclude'
  BY <1>3 DEF TxInv, IdsAreUnique, WritesAreCurrent, LocksExclude, Wrote
<1> QED
  BY <1>2, <1>4, <1>5, <1>6, <1>7 DEF TxInv, tenancy

LEMMA ResolveTxInv ==
  ASSUME TxInv, NEW r \in Request, NEW o \in Org, NEW u \in User, Resolve(r, o, u)
  PROVE  TxInv'
<1>1. clock \in Nat
  BY ClockIsNat
<1>2. P!IInv' /\ TimesArePast'
  BY <1>1, RowsKept, RowsKeptTimes DEF TxInv, Resolve
<1>3. member[<<o, u>>] \in Role \cup {Null}
  BY DEF TxInv
<1>4. /\ req'[r] \in RequestRow
      /\ req'[r].pc = "resolved" /\ req'[r].org = o /\ req'[r].user = u
      /\ req'[r].writes = req[r].writes /\ req'[r].binMissed = req[r].binMissed
      /\ req'[r].cycleMissed = req[r].cycleMissed
      /\ req[r].pc = "idle"
      /\ \A s \in Request : s # r => req'[s] = req[s]
  <2>1. req[r] \in RequestRow
    BY DEF TxInv
  <2>2. req'[r] = [req[r] EXCEPT !.pc = "resolved", !.org = o, !.user = u,
                                 !.role = member[<<o, u>>]]
    BY DEF TxInv, Resolve
  <2> QED
    BY <1>3, <2>1, <2>2 DEF TxInv, Resolve, RequestRow
<1>5. \A s \in Request : IsOpenRequest(s)' => s # r /\ IsOpenRequest(s) /\ req'[s] = req[s]
  BY <1>4 DEF IsOpenRequest
<1>6. req' \in [Request -> RequestRow]
  BY <1>4 DEF TxInv, Resolve
<1>7. OpenGuardsHold'
  BY <1>1, <1>5, GuardsKept DEF TxInv, OpenGuardsHold, Resolve
<1>8. NotOpenIsBlank'
  BY <1>4 DEF TxInv, NotOpenIsBlank
<1>9. IdsAreUnique' /\ WritesAreCurrent' /\ LocksExclude'
  BY <1>5 DEF TxInv, IdsAreUnique, WritesAreCurrent, LocksExclude, Wrote
<1> QED
  BY <1>2, <1>6, <1>7, <1>8, <1>9 DEF TxInv, Resolve, tenancy
-----------------------------------------------------------------------------
(* The steps of a transaction.                                             *)

\* The snapshot is the present when it is taken.
LEMMA OpenTxInv ==
  ASSUME TxInv, NEW r \in Request, NEW op \in Operation,
         NEW b \in Bin, NEW c \in Cycle, NEW f \in Facility,
         Open(r, op, b, c, f),
         op = "start" => Home[b] # Null /\ f = Home[b] /\ bin[b].status = "IDLE",
         op = "startDynamic" =>
           /\ bin[b].status = "ABSENT" /\ FacilityOrg[f] = BinOrg[b]
           /\ \A s \in Request : req[s].bin # b,
         IsStart(op) => cycle[c].status = "ABSENT" /\ \A s \in Request : req[s].cycle # c,
         op = "pickup" => cycle[c].status = "ACTIVE" /\ cycle[c].bin = b,
         op = "deliver" =>
           /\ cycle[c].status = "IN_TRANSIT" /\ cycle[c].bin = b
           /\ f \in Rendering /\ FacilityOrg[f] = BinOrg[b] /\ req[r].org = BinOrg[b]
           /\ req[r].role = "ADMIN" \/ cycle[c].driver = req[r].user
  PROVE  TxInv'
<1>1. clock \in Nat
  BY ClockIsNat
<1>2. UNCHANGED <<rows, tenancy, clock>> /\ P!IInv' /\ TimesArePast'
  BY <1>1, RowsKept, RowsKeptTimes DEF TxInv, Open
<1>3. /\ req[r] \in RequestRow /\ req[r].pc = "resolved"
      /\ req'[r] = OpenedRow(req[r], op, b, c, f, clock)
  BY DEF TxInv, Open, OpenedRow
<1>4. /\ req[r].writes = 0 /\ req[r].org \in Org /\ req[r].user \in User
      /\ ~req[r].binMissed /\ ~req[r].cycleMissed
  BY <1>3 DEF TxInv, NotOpenIsBlank
<1>5. /\ req'[r] \in RequestRow
      /\ req'[r].pc = "open" /\ req'[r].op = op /\ req'[r].bin = b
      /\ req'[r].cycle = c /\ req'[r].facility = f /\ req'[r].at = clock
      /\ req'[r].org = req[r].org /\ req'[r].user = req[r].user
      /\ req'[r].role = req[r].role /\ req'[r].writes = 0
  BY <1>1, <1>3, <1>4, OpenedRowFields
<1>6. \A s \in Request : s # r => req'[s] = req[s]
  BY DEF TxInv, Open
<1>7. req' \in [Request -> RequestRow]
  BY <1>5 DEF TxInv, Open
<1>8. GuardsHold(req[r])'
  <2>1. op \in {"pickup", "deliver"} => cycle[c].startedAt <= clock
    BY DEF TxInv, TimesArePast
  <2>2. op = "deliver" => cycle[c].pickedUpAt <= clock
    BY DEF TxInv, TimesArePast
  <2>3. clock' <= clock'
    BY <1>1, <1>2
  <2> QED
    BY <1>2, <1>4, <1>5, <2>1, <2>2, <2>3 DEF GuardsHold, IsStart, rows
<1>9. OpenGuardsHold'
  BY <1>1, <1>2, <1>6, <1>8, GuardsKept DEF TxInv, OpenGuardsHold, IsOpenRequest
<1>10. NotOpenIsBlank'
  BY <1>5, <1>6 DEF TxInv, NotOpenIsBlank
<1>11. IdsAreUnique'
  BY <1>5, <1>6 DEF TxInv, IdsAreUnique, IsOpenRequest, IsStart
<1>12. ~Wrote(r, "cycle")' /\ ~Wrote(r, "bin")'
  BY <1>5 DEF Wrote
<1>13. WritesAreCurrent' /\ LocksExclude'
  <2>1. \A s \in Request, table \in {"cycle", "bin"} :
          s # r => (Wrote(s, table)' <=> Wrote(s, table))
    BY <1>6 DEF Wrote
  <2> QED
    BY <1>6, <1>12, <2>1 DEF TxInv, WritesAreCurrent, LocksExclude, IsOpenRequest
<1> QED
  BY <1>2, <1>7, <1>9, <1>10, <1>11, <1>13 DEF TxInv, tenancy

\* A row is written only when it is current and nobody has it locked.
LEMMA WriteTxInv == ASSUME TxInv, NEW r \in Request, Write(r) PROVE TxInv'
<1>1. clock \in Nat
  BY ClockIsNat
<1>2. UNCHANGED <<rows, tenancy, clock>> /\ P!IInv' /\ TimesArePast'
  BY <1>1, RowsKept, RowsKeptTimes DEF TxInv, Write
<1>3. PICK now \in IF req[r].writes = 0 THEN req[r].at..clock ELSE {req[r].at} :
        req' = [req EXCEPT ![r].writes = @ + 1, ![r].at = now]
  BY DEF Write
<1>4. /\ req[r] \in RequestRow /\ req[r].pc = "open" /\ req[r].writes \in 0..1
      /\ GuardsHold(req[r])
  BY DEF TxInv, Write, OpenGuardsHold, IsOpenRequest, RequestRow
<1>5. req[r].at \in Nat /\ req[r].at <= clock
  BY <1>4 DEF GuardsHold, RequestRow
<1>6. now \in Nat /\ req[r].at <= now /\ now <= clock
  BY <1>1, <1>5
<1>7. req'[r] = WrittenRow(req[r], now)
  BY <1>3 DEF TxInv, WrittenRow
<1>8. /\ req'[r] \in RequestRow
      /\ req'[r].writes = req[r].writes + 1 /\ req'[r].at = now
      /\ req'[r].pc = "open" /\ req'[r].op = req[r].op /\ req'[r].bin = req[r].bin
      /\ req'[r].cycle = req[r].cycle /\ req'[r].facility = req[r].facility
      /\ req'[r].org = req[r].org /\ req'[r].user = req[r].user
      /\ req'[r].role = req[r].role
      /\ req'[r].binMissed = req[r].binMissed /\ req'[r].cycleMissed = req[r].cycleMissed
  BY <1>4, <1>6, <1>7, WrittenRowFields
<1>9. \A s \in Request : s # r => req'[s] = req[s]
  BY <1>3 DEF TxInv
<1>10. req' \in [Request -> RequestRow]
  BY <1>3, <1>8 DEF TxInv
<1>11. OpenGuardsHold'
  <2>1. GuardsHold(req[r])'
    <3>1. req[r].op \in {"pickup", "deliver"} =>
            cycle[req[r].cycle].startedAt \in Nat /\ cycle[req[r].cycle].startedAt <= now
      BY <1>4, <1>5, <1>6 DEF GuardsHold, TxInv, P!IInv, P!RowsComplete
    <3>2. req[r].op = "deliver" /\ ~req[r].cycleMissed =>
            cycle[req[r].cycle].pickedUpAt <= now
      BY <1>4, <1>5, <1>6 DEF GuardsHold, TxInv, P!IInv, P!RowsComplete
    <3> QED
      BY <1>2, <1>4, <1>6, <1>8, <3>1, <3>2 DEF GuardsHold, rows
  <2> QED
    BY <1>1, <1>2, <1>9, <2>1, GuardsKept DEF TxInv, OpenGuardsHold, IsOpenRequest
<1>12. NotOpenIsBlank'
  BY <1>8, <1>9 DEF TxInv, NotOpenIsBlank
<1>13. IdsAreUnique'
  BY <1>4, <1>8, <1>9 DEF TxInv, IdsAreUnique, IsOpenRequest
<1>14. \A table \in {"cycle", "bin"} : Wrote(r, table)' => Wrote(r, table) \/ table = NextTable(r)
  BY <1>4, <1>8, WroteNext
<1>15. \A s \in Request, table \in {"cycle", "bin"} :
         s # r => (Wrote(s, table)' <=> Wrote(s, table))
  BY <1>9 DEF Wrote
<1>16. WritesAreCurrent'
  <2>1. /\ NextTable(r) = "cycle" => ~req[r].cycleMissed
        /\ NextTable(r) = "bin" => ~req[r].binMissed
    BY DEF Write, Missed
  <2> QED
    BY <1>4, <1>8, <1>9, <1>14, <1>15, <2>1 DEF TxInv, WritesAreCurrent, IsOpenRequest
<1>17. LocksExclude'
  <2>1. \A s \in Request : s # r /\ IsOpenRequest(s) =>
          /\ NextTable(r) = "cycle" /\ Wrote(s, "cycle") => req[s].cycle # req[r].cycle
          /\ NextTable(r) = "bin" /\ Wrote(s, "bin") => req[s].bin # req[r].bin
    BY <1>4 DEF Write, WaitsFor, HoldsRow, SameRow, IsOpenRequest
  <2> QED
    BY <1>4, <1>8, <1>9, <1>14, <1>15, <2>1 DEF TxInv, LocksExclude, IsOpenRequest
<1> QED
  BY <1>2, <1>10, <1>11, <1>12, <1>13, <1>16, <1>17 DEF TxInv, tenancy
-----------------------------------------------------------------------------
(* A commit is one atomic scan of BinLifecycle.                            *)

\* Nothing that request r is about to commit over has been missed.
LEMMA CommitIsCurrent ==
  ASSUME TxInv, NEW r \in Request, Commit(r)
  PROVE  /\ IsOpenRequest(r) /\ GuardsHold(req[r]) /\ req[r] \in RequestRow
         /\ req[r].at \in Instant
         /\ Wrote(r, "cycle") /\ Wrote(r, "bin")
         /\ ~req[r].cycleMissed /\ ~req[r].binMissed
<1>1. IsOpenRequest(r) /\ GuardsHold(req[r]) /\ req[r] \in RequestRow
  BY DEF TxInv, Commit, IsOpenRequest, OpenGuardsHold
<1>2. req[r].at \in Instant
  BY <1>1, TransactionConstants DEF TxInv, GuardsHold, RequestRow, Instant
<1>3. Wrote(r, "cycle") /\ Wrote(r, "bin")
  BY <1>1, WroteAll DEF GuardsHold, Commit
<1> QED
  BY <1>1, <1>2, <1>3 DEF TxInv, WritesAreCurrent

\* The refinement, step for step.
LEMMA CommitRefines == ASSUME TxInv, NEW r \in Request, Commit(r) PROVE L!Next
<1> DEFINE q == req[r]
<1>1. /\ GuardsHold(q) /\ q \in RequestRow /\ q.at \in Instant
      /\ ~q.cycleMissed /\ ~q.binMissed
  BY CommitIsCurrent
<1>2. /\ bin' = [bin EXCEPT ![q.bin] = CommittedBin(r)]
      /\ cycle' = [cycle EXCEPT ![q.cycle] = CommittedCycle(r)]
      /\ events' = [events EXCEPT ![q.cycle] = Append(@, CommittedEvent(r))]
  BY DEF Commit
<1>3. q.bin \in Bin /\ q.cycle \in Cycle /\ q.facility \in Facility /\ q.user \in User
  BY <1>1 DEF GuardsHold
<1>4. bin[q.bin] \in [status : P!BinStatus, facility : Facility \cup {Null}]
  BY <1>3 DEF TxInv, P!IInv, P!TypeOK, P!BinRow
<1>5. CASE q.op = "start"
  <2>1. /\ Home[q.bin] # Null /\ q.facility = Home[q.bin]
        /\ bin[q.bin].status = "IDLE" /\ cycle[q.cycle].status = "ABSENT"
    BY <1>1, <1>5 DEF GuardsHold, IsStart
  <2>2. bin[q.bin].facility = q.facility
    BY <1>3, <2>1 DEF TxInv, P!IInv, P!HomeKept
  <2>3. CommittedBin(r) = [status |-> "ACTIVE", facility |-> bin[q.bin].facility]
    BY <1>4, <1>5 DEF CommittedBin
  <2>4. CommittedCycle(r) = L!StartedCycle(q.bin, bin[q.bin].facility, q.at)
    BY <1>5, <2>2 DEF CommittedCycle
  <2>5. CommittedEvent(r) = L!Event("BIN_STARTED", q.user, q.at)
    BY <1>5 DEF CommittedEvent
  <2>6. L!Start(q.bin, q.cycle, q.user, q.at)
    BY <1>2, <2>1, <2>3, <2>4, <2>5 DEF L!Start, L!OpenCycle
  <2> QED
    BY <1>1, <1>3, <2>6 DEF L!Next
<1>6. CASE q.op = "startDynamic"
  <2>1. /\ bin[q.bin].status = "ABSENT" /\ FacilityOrg[q.facility] = BinOrg[q.bin]
        /\ cycle[q.cycle].status = "ABSENT"
    BY <1>1, <1>6 DEF GuardsHold, IsStart
  <2>2. CommittedBin(r) = [status |-> "ACTIVE", facility |-> q.facility]
    BY <1>6 DEF CommittedBin
  <2>3. CommittedCycle(r) = L!StartedCycle(q.bin, q.facility, q.at)
    BY <1>6 DEF CommittedCycle
  <2>4. CommittedEvent(r) = L!Event("BIN_STARTED", q.user, q.at)
    BY <1>6 DEF CommittedEvent
  <2>5. L!StartDynamic(q.bin, q.cycle, q.facility, q.user, q.at)
    BY <1>2, <2>1, <2>2, <2>3, <2>4 DEF L!StartDynamic, L!OpenCycle
  <2> QED
    BY <1>1, <1>3, <2>5 DEF L!Next
<1>7. CASE q.op = "pickup"
  <2>1. /\ cycle[q.cycle].status = "ACTIVE" /\ cycle[q.cycle].bin = q.bin
        /\ cycle[q.cycle].startedAt <= q.at
    BY <1>1, <1>7 DEF GuardsHold
  <2>2. q.at >= cycle[q.cycle].startedAt
    BY <1>1, <1>3, <2>1 DEF TxInv, P!IInv, P!RowsComplete, RequestRow
  <2>3. CommittedBin(r) = [bin[q.bin] EXCEPT !.status = "IN_TRANSIT"]
    BY <1>7 DEF CommittedBin
  <2>4. CommittedCycle(r) = L!PickedUpCycle(cycle[q.cycle], q.user, q.at)
    BY <1>7 DEF CommittedCycle
  <2>5. CommittedEvent(r) = L!Event("PICKED_UP", q.user, q.at)
    BY <1>7 DEF CommittedEvent
  <2>6. L!Pickup(q.cycle, q.user, q.at)
    BY <1>2, <2>1, <2>2, <2>3, <2>4, <2>5 DEF L!Pickup
  <2> QED
    BY <1>1, <1>3, <2>6 DEF L!Next
<1>8. CASE q.op = "deliver"
  <2>1. /\ cycle[q.cycle].status = "IN_TRANSIT" /\ cycle[q.cycle].bin = q.bin
        /\ cycle[q.cycle].pickedUpAt <= q.at
        /\ q.facility \in Rendering /\ FacilityOrg[q.facility] = BinOrg[q.bin]
    BY <1>1, <1>8 DEF GuardsHold
  <2>2. q.at >= cycle[q.cycle].pickedUpAt
    BY <1>1, <1>3, <2>1 DEF TxInv, P!IInv, P!RowsComplete, RequestRow
  <2>3. CommittedBin(r) = [bin[q.bin] EXCEPT !.status = "IDLE"]
    BY <1>8 DEF CommittedBin
  <2>4. CommittedCycle(r) = L!DeliveredCycle(cycle[q.cycle], q.facility, q.at)
    BY <1>8 DEF CommittedCycle
  <2>5. CommittedEvent(r) = L!Event("DELIVERED", q.user, q.at)
    BY <1>8 DEF CommittedEvent
  <2>6. L!Deliver(q.cycle, q.facility, q.user, q.at)
    BY <1>2, <2>1, <2>2, <2>3, <2>4, <2>5 DEF L!Deliver
  <2> QED
    BY <1>1, <1>3, <2>6 DEF L!Next
<1> QED
  BY <1>1, <1>5, <1>6, <1>7, <1>8 DEF GuardsHold, Operation

\* What a commit does to the rows it writes, as far as other requests care.
LEMMA CommitRows ==
  ASSUME TxInv, NEW r \in Request, Commit(r)
  PROVE  /\ \A b \in Bin : b # req[r].bin => bin'[b] = bin[b]
         /\ \A c \in Cycle : c # req[r].cycle => cycle'[c] = cycle[c]
         /\ LET row == cycle'[req[r].cycle]
                old == cycle[req[r].cycle]
            IN  /\ row.status # "ABSENT" /\ row.bin = req[r].bin
                /\ row.startedAt = IF IsStart(req[r].op) THEN req[r].at ELSE old.startedAt
                /\ row.status \in {"IN_TRANSIT", "COMPLETED"} =>
                     ~IsStart(req[r].op) /\
                     row.pickedUpAt = IF req[r].op = "pickup" THEN req[r].at ELSE old.pickedUpAt
<1> DEFINE q == req[r]
           row == CommittedCycle(r)
           old == cycle[q.cycle]
<1>1. /\ GuardsHold(q) /\ q \in RequestRow /\ q.at \in Instant
      /\ ~q.cycleMissed /\ ~q.binMissed
  BY CommitIsCurrent
<1>2. q.bin \in Bin /\ q.cycle \in Cycle /\ q.facility \in Facility /\ q.user \in User
  BY <1>1 DEF GuardsHold
<1>3. bin \in [Bin -> P!BinRow] /\ cycle \in [Cycle -> P!CycleRow]
  BY DEF TxInv, P!IInv, P!TypeOK
<1>4. /\ \A b \in Bin : b # q.bin => bin'[b] = bin[b]
      /\ \A c \in Cycle : c # q.cycle => cycle'[c] = cycle[c]
      /\ cycle'[q.cycle] = row
  BY <1>2, <1>3 DEF Commit
<1>5. q.at \in Nat
  BY <1>1 DEF RequestRow
<1>6. P!ConstantsFit
  BY TransactionConstants DEF P!ConstantsFit, L!ConstantsFit
<1>7. CASE IsStart(q.op)
  <2>1. row = P!StartedCycle(q.bin, q.facility, q.at)
    BY <1>7 DEF CommittedCycle, IsStart, L!StartedCycle, P!StartedCycle, L!NoCycle, P!NoCycle
  <2>2. row.status = "ACTIVE" /\ row.bin = q.bin /\ row.startedAt = q.at
    BY <1>2, <1>5, <1>6, <2>1, P!StartedRow
  <2> QED
    BY <1>4, <1>7, <2>2
<1>8. CASE q.op = "pickup"
  <2>1. row = P!PickedUpCycle(old, q.user, q.at)
    BY <1>8 DEF CommittedCycle, L!PickedUpCycle, P!PickedUpCycle
  <2>2. /\ row.status = "IN_TRANSIT" /\ row.bin = old.bin
        /\ row.startedAt = old.startedAt /\ row.pickedUpAt = q.at
    BY <1>2, <1>3, <1>5, <1>6, <2>1, P!PickedUpRow
  <2>3. old.bin = q.bin
    BY <1>1, <1>8 DEF GuardsHold
  <2> QED
    BY <1>4, <1>8, <2>2, <2>3 DEF IsStart
<1>9. CASE q.op = "deliver"
  <2>1. row = P!DeliveredCycle(old, q.facility, q.at)
    BY <1>9 DEF CommittedCycle, L!DeliveredCycle, P!DeliveredCycle,
                L!CalculateCompliance, P!CalculateCompliance
  <2>2. /\ row.status = "COMPLETED" /\ row.bin = old.bin
        /\ row.startedAt = old.startedAt /\ row.pickedUpAt = old.pickedUpAt
    BY <1>2, <1>3, <1>5, <1>6, <2>1, P!DeliveredRow
  <2>3. old.bin = q.bin
    BY <1>1, <1>9 DEF GuardsHold
  <2> QED
    BY <1>4, <1>9, <2>2, <2>3 DEF IsStart
<1> QED
  BY <1>1, <1>7, <1>8, <1>9 DEF GuardsHold, Operation, IsStart

\* The row of another open request after a commit.
MissingRow(q, b, c) == [q EXCEPT !.binMissed = b, !.cycleMissed = c]

LEMMA MissingRowFields ==
  ASSUME NEW q \in RequestRow, NEW b \in BOOLEAN, NEW c \in BOOLEAN
  PROVE  LET new == MissingRow(q, b, c)
         IN  /\ new \in RequestRow
             /\ new.pc = q.pc /\ new.org = q.org /\ new.user = q.user
             /\ new.role = q.role
             /\ new.op = q.op /\ new.bin = q.bin /\ new.cycle = q.cycle
             /\ new.facility = q.facility /\ new.at = q.at /\ new.writes = q.writes
             /\ new.binMissed = b /\ new.cycleMissed = c
<1>1. MissingRow(q, b, c) \in RequestRow
  BY Zenon DEF RequestRow, MissingRow
<1> QED
  BY <1>1 DEF RequestRow, MissingRow

LEMMA AfterCommitFields ==
  ASSUME req \in [Request -> RequestRow], NEW r \in Request, NEW s \in Request, s # r
  PROVE  LET new == AfterCommit(s, r)
             old == req[s]
         IN  /\ new \in RequestRow
             /\ new.pc = old.pc /\ new.org = old.org /\ new.user = old.user
             /\ new.role = old.role
             /\ new.op = old.op /\ new.bin = old.bin /\ new.cycle = old.cycle
             /\ new.facility = old.facility /\ new.at = old.at /\ new.writes = old.writes
             /\ old.pc # "open" => new = old
             /\ old.pc = "open" =>
                  /\ new.binMissed = (old.binMissed \/ old.bin = req[r].bin)
                  /\ new.cycleMissed = (old.cycleMissed \/ old.cycle = req[r].cycle)
<1> DEFINE b == req[s].binMissed \/ req[s].bin = req[r].bin
           c == req[s].cycleMissed \/ req[s].cycle = req[r].cycle
<1>1. req[s] \in RequestRow /\ b \in BOOLEAN /\ c \in BOOLEAN
  OBVIOUS
<1>2. AfterCommit(s, r) = IF req[s].pc # "open" THEN req[s] ELSE MissingRow(req[s], b, c)
  BY DEF AfterCommit, MissingRow
<1> HIDE DEF b, c
<1>3. CASE req[s].pc # "open"
  BY <1>1, <1>2, <1>3
<1>4. CASE req[s].pc = "open"
  <2> DEFINE new == AfterCommit(s, r)
  <2>1. new = MissingRow(req[s], b, c)
    BY <1>2, <1>4
  <2>2. /\ new \in RequestRow
        /\ new.pc = req[s].pc /\ new.org = req[s].org /\ new.user = req[s].user
        /\ new.role = req[s].role
        /\ new.op = req[s].op /\ new.bin = req[s].bin /\ new.cycle = req[s].cycle
        /\ new.facility = req[s].facility /\ new.at = req[s].at /\ new.writes = req[s].writes
        /\ new.binMissed = b /\ new.cycleMissed = c
    BY <1>1, <2>1, MissingRowFields
  <2> HIDE DEF new
  <2>3. /\ new.binMissed = (req[s].binMissed \/ req[s].bin = req[r].bin)
        /\ new.cycleMissed = (req[s].cycleMissed \/ req[s].cycle = req[r].cycle)
    BY <2>2 DEF b, c
  <2> QED
    BY <1>4, <2>2, <2>3 DEF new
<1> QED
  BY <1>3, <1>4

LEMMA CommitTxInv == ASSUME TxInv, NEW r \in Request, Commit(r) PROVE TxInv'
<1> DEFINE q == req[r]
<1>1. /\ IsOpenRequest(r) /\ GuardsHold(q) /\ q \in RequestRow /\ q.at \in Instant
      /\ Wrote(r, "cycle") /\ Wrote(r, "bin")
      /\ ~q.cycleMissed /\ ~q.binMissed
  BY CommitIsCurrent
<1>2. q.bin \in Bin /\ q.cycle \in Cycle /\ q.at <= clock /\ q.op \in Operation
  BY <1>1 DEF GuardsHold
<1>3. clock \in Nat /\ q.at \in Nat /\ clock' = clock
  BY <1>1, ClockIsNat DEF RequestRow, Commit
<1>4. P!IInv'
  BY CommitRefines, SameNext, P!NextIInv, TransactionConstants
     DEF TxInv, P!ConstantsFit, L!ConstantsFit
<1>5. /\ \A b \in Bin : b # q.bin => bin'[b] = bin[b]
      /\ \A c \in Cycle : c # q.cycle => cycle'[c] = cycle[c]
      /\ LET row == cycle'[q.cycle]
             old == cycle[q.cycle]
         IN  /\ row.status # "ABSENT" /\ row.bin = q.bin
             /\ row.startedAt = IF IsStart(q.op) THEN q.at ELSE old.startedAt
             /\ row.status \in {"IN_TRANSIT", "COMPLETED"} =>
                  ~IsStart(q.op) /\
                  row.pickedUpAt = IF q.op = "pickup" THEN q.at ELSE old.pickedUpAt
  BY CommitRows
<1>6. \A s \in Request : s # r =>
        /\ req'[s] \in RequestRow
        /\ req'[s].pc = req[s].pc /\ req'[s].org = req[s].org /\ req'[s].user = req[s].user
        /\ req'[s].role = req[s].role
        /\ req'[s].op = req[s].op /\ req'[s].bin = req[s].bin /\ req'[s].cycle = req[s].cycle
        /\ req'[s].facility = req[s].facility /\ req'[s].at = req[s].at
        /\ req'[s].writes = req[s].writes
        /\ req[s].pc # "open" => req'[s] = req[s]
        /\ req[s].pc = "open" =>
             /\ req'[s].binMissed = (req[s].binMissed \/ req[s].bin = q.bin)
             /\ req'[s].cycleMissed = (req[s].cycleMissed \/ req[s].cycle = q.cycle)
  <2> SUFFICES ASSUME NEW s \in Request, s # r
               PROVE  req'[s] = AfterCommit(s, r)
    BY AfterCommitFields DEF TxInv
  <2> QED
    BY DEF Commit
<1>7. req'[r] = NoRequest
  BY DEF Commit, AfterCommit
<1>8. req' \in [Request -> RequestRow]
  <2>1. NoRequest \in RequestRow
    BY DEF NoRequest, RequestRow
  <2> QED
    BY <1>6, <1>7, <2>1 DEF Commit
<1>9. \A s \in Request : IsOpenRequest(s)' => s # r /\ IsOpenRequest(s)
  BY <1>6, <1>7 DEF IsOpenRequest, NoRequest
<1>10. OpenGuardsHold'
  <2> SUFFICES ASSUME NEW s \in Request, s # r, IsOpenRequest(s)
               PROVE  GuardsHold(req[s])'
    BY <1>9 DEF OpenGuardsHold
  <2>1. GuardsHold(req[s])
    BY DEF TxInv, OpenGuardsHold
  <2>2. IsStart(req[s].op) => req[s].cycle # q.cycle
    <3>1. CASE IsStart(q.op)
      BY <1>1, <3>1 DEF TxInv, IdsAreUnique
    <3>2. CASE q.op \in {"pickup", "deliver"}
      BY <1>1, <2>1, <3>2 DEF GuardsHold
    <3> QED
      BY <1>2, <3>1, <3>2 DEF Operation, IsStart
  <2>3. req[s].op = "startDynamic" => req[s].bin # q.bin
    <3>1. CASE q.op = "start"
      BY <1>1, <2>1, <3>1 DEF GuardsHold
    <3>2. CASE q.op = "startDynamic"
      BY <1>1, <3>2 DEF TxInv, IdsAreUnique
    <3>3. CASE q.op \in {"pickup", "deliver"}
      <4>1. bin[q.bin].status # "ABSENT"
        BY <1>1, <1>2, <3>3 DEF GuardsHold, TxInv, P!IInv, P!UncreatedUnused
      <4> QED
        BY <2>1, <4>1 DEF GuardsHold
    <3> QED
      BY <1>2, <3>1, <3>2, <3>3 DEF Operation
  <2>4. req[s].op \in {"pickup", "deliver"} =>
          /\ cycle'[req[s].cycle].status # "ABSENT"
          /\ cycle'[req[s].cycle].bin = req[s].bin
          /\ cycle'[req[s].cycle].startedAt <= req[s].at
    <3> SUFFICES ASSUME req[s].op \in {"pickup", "deliver"}
                 PROVE  /\ cycle'[req[s].cycle].status # "ABSENT"
                        /\ cycle'[req[s].cycle].bin = req[s].bin
                        /\ cycle'[req[s].cycle].startedAt <= req[s].at
      OBVIOUS
    <3>1. /\ req[s].cycle \in Cycle /\ cycle[req[s].cycle].status # "ABSENT"
          /\ cycle[req[s].cycle].bin = req[s].bin
          /\ cycle[req[s].cycle].startedAt <= req[s].at
      BY <2>1 DEF GuardsHold
    <3>2. CASE req[s].cycle # q.cycle
      BY <1>5, <3>1, <3>2
    <3>3. CASE req[s].cycle = q.cycle
      <4>1. ~IsStart(q.op)
        BY <1>1, <3>1, <3>3 DEF GuardsHold
      <4>2. q.bin = cycle[q.cycle].bin
        BY <1>1, <1>2, <4>1 DEF GuardsHold, Operation, IsStart
      <4> QED
        BY <1>5, <3>1, <3>3, <4>1, <4>2
    <3> QED
      BY <3>2, <3>3
  <2>5. ~req'[s].cycleMissed =>
          ~req[s].cycleMissed /\ cycle'[req[s].cycle] = cycle[req[s].cycle]
    BY <1>5, <1>6, <2>1 DEF IsOpenRequest, GuardsHold
  <2>6. ~req'[s].binMissed => ~req[s].binMissed /\ bin'[req[s].bin] = bin[req[s].bin]
    BY <1>5, <1>6, <2>1 DEF IsOpenRequest, GuardsHold
  <2>7. IsStart(req[s].op) => cycle'[req[s].cycle].status = "ABSENT"
    BY <1>5, <2>1, <2>2 DEF GuardsHold
  <2>8. req[s].op = "startDynamic" => bin'[req[s].bin].status = "ABSENT"
    BY <1>5, <2>1, <2>3 DEF GuardsHold
  <2> QED
    BY <1>3, <1>6, <2>1, <2>4, <2>5, <2>6, <2>7, <2>8 DEF GuardsHold
<1>11. NotOpenIsBlank'
  BY <1>6, <1>7 DEF TxInv, NotOpenIsBlank, NoRequest
<1>12. IdsAreUnique'
  BY <1>6, <1>9 DEF TxInv, IdsAreUnique
<1>13. \A s \in Request, table \in {"cycle", "bin"} :
         s # r => (Wrote(s, table)' <=> Wrote(s, table))
  BY <1>6 DEF Wrote
<1>14. WritesAreCurrent'
  <2> SUFFICES ASSUME NEW s \in Request, s # r, IsOpenRequest(s)
               PROVE  /\ Wrote(s, "cycle") => ~req'[s].cycleMissed
                      /\ Wrote(s, "bin") => ~req'[s].binMissed
    BY <1>9, <1>13 DEF WritesAreCurrent
  <2>1. /\ Wrote(s, "cycle") => ~req[s].cycleMissed /\ req[s].cycle # q.cycle
        /\ Wrote(s, "bin") => ~req[s].binMissed /\ req[s].bin # q.bin
    BY <1>1 DEF TxInv, WritesAreCurrent, LocksExclude
  <2>2. /\ req'[s].binMissed = (req[s].binMissed \/ req[s].bin = q.bin)
        /\ req'[s].cycleMissed = (req[s].cycleMissed \/ req[s].cycle = q.cycle)
    BY <1>6 DEF IsOpenRequest
  <2> QED
    BY <2>1, <2>2
<1>15. LocksExclude'
  BY <1>6, <1>9, <1>13 DEF TxInv, LocksExclude
<1>16. TimesArePast'
  <2> SUFFICES ASSUME NEW c \in Cycle
               PROVE  /\ cycle'[c].status # "ABSENT" => cycle'[c].startedAt <= clock
                      /\ cycle'[c].status \in {"IN_TRANSIT", "COMPLETED"} =>
                           cycle'[c].pickedUpAt <= clock
    BY <1>3 DEF TimesArePast
  <2>1. CASE c # q.cycle
    BY <1>5, <2>1 DEF TxInv, TimesArePast
  <2>2. CASE c = q.cycle
    <3>1. ~IsStart(q.op) => cycle[c].status # "ABSENT" /\ cycle[c].startedAt <= clock
      BY <1>1, <1>2, <2>2 DEF GuardsHold, Operation, IsStart, TxInv, TimesArePast
    <3>2. q.op = "deliver" => cycle[c].pickedUpAt <= clock
      BY <1>1, <1>2, <2>2 DEF GuardsHold, TxInv, TimesArePast
    <3>3. cycle'[c].startedAt <= clock
      BY <1>2, <1>5, <2>2, <3>1
    <3>4. cycle'[c].status \in {"IN_TRANSIT", "COMPLETED"} => cycle'[c].pickedUpAt <= clock
      BY <1>2, <1>5, <2>2, <3>2 DEF Operation, IsStart
    <3> QED
      BY <3>3, <3>4
  <2> QED
    BY <2>1, <2>2
<1> QED
  BY <1>4, <1>8, <1>10, <1>11, <1>12, <1>14, <1>15, <1>16 DEF TxInv, Commit, tenancy
-----------------------------------------------------------------------------
(* The invariant holds, and the theorems.                                  *)

LEMMA ScanTxInv == ASSUME TxInv, NEW r \in Request, Scan(r) PROVE TxInv'
<1>1. ASSUME NEW o \in Org, NEW u \in User, Resolve(r, o, u) PROVE TxInv'
  BY <1>1, ResolveTxInv
<1>2. CASE OpenTransaction(r)
  <2>1. ASSUME NEW b \in Bin, OpenStart(r, b) PROVE TxInv'
    <3>1. PICK c \in FreshCycles : Open(r, "start", b, c, bin[b].facility)
      BY <2>1 DEF OpenStart
    <3>2. Home[b] # Null /\ bin[b].status = "IDLE"
      BY <2>1 DEF OpenStart
    <3>3. bin[b].facility = Home[b] /\ Home[b] \in Facility
      BY <3>2, TransactionConstants DEF TxInv, P!IInv, P!HomeKept, L!ConstantsFit
    <3>4. c \in Cycle /\ cycle[c].status = "ABSENT" /\ \A s \in Request : req[s].cycle # c
      BY DEF FreshCycles
    <3> QED
      BY <3>1, <3>2, <3>3, <3>4, OpenTxInv DEF Operation, IsStart
  <2>2. ASSUME NEW choice \in Facility \cup {Null}, OpenStartDynamic(r, choice) PROVE TxInv'
    <3>1. PICK f \in ResolveFacility(req[r].org, choice), b \in FreshBins, c \in FreshCycles :
            BinOrg[b] = req[r].org /\ Open(r, "startDynamic", b, c, f)
      BY <2>2 DEF OpenStartDynamic
    <3>2. f \in Facility /\ FacilityOrg[f] = req[r].org
      BY DEF ResolveFacility, TxInv
    <3>3. /\ c \in Cycle /\ cycle[c].status = "ABSENT"
          /\ \A s \in Request : req[s].cycle # c
          /\ b \in Bin /\ bin[b].status = "ABSENT"
          /\ \A s \in Request : req[s].bin # b
      BY DEF FreshCycles, FreshBins
    <3> QED
      BY <3>1, <3>2, <3>3, OpenTxInv DEF Operation, IsStart
  <2>3. ASSUME NEW c \in Cycle, OpenPickup(r, c) PROVE TxInv'
    <3>1. cycle[c].status = "ACTIVE" /\ Open(r, "pickup", cycle[c].bin, c, cycle[c].facility)
      BY <2>3 DEF OpenPickup
    <3>2. cycle[c].bin \in Bin /\ cycle[c].facility \in Facility
      BY <3>1 DEF TxInv, P!IInv, P!RowsComplete
    <3> QED
      BY <3>1, <3>2, OpenTxInv DEF Operation, IsStart
  <2>4. ASSUME NEW c \in Cycle, NEW d \in Facility, OpenDeliver(r, c, d) PROVE TxInv'
    <3>1. /\ cycle[c].status = "IN_TRANSIT" /\ d \in Rendering
          /\ FacilityOrg[d] = req[r].org /\ BinOrg[cycle[c].bin] = req[r].org
          /\ req[r].role = "ADMIN" \/ cycle[c].driver = req[r].user
          /\ Open(r, "deliver", cycle[c].bin, c, d)
      BY <2>4 DEF OpenDeliver
    <3>2. cycle[c].bin \in Bin
      BY <3>1 DEF TxInv, P!IInv, P!RowsComplete
    <3> QED
      BY <3>1, <3>2, OpenTxInv DEF Operation, IsStart
  <2> QED
    BY <1>2, <2>1, <2>2, <2>3, <2>4 DEF OpenTransaction
<1>3. CASE Write(r)
  BY <1>3, WriteTxInv
<1>4. CASE RollBack(r)
  BY <1>4, ReleaseTxInv DEF RollBack
<1>5. CASE Commit(r)
  BY <1>5, CommitTxInv
<1>6. CASE GiveUp(r)
  BY <1>6, ReleaseTxInv DEF GiveUp
<1> QED
  BY <1>1, <1>2, <1>3, <1>4, <1>5, <1>6 DEF Scan

LEMMA NextTxInv == TxInv /\ [Next]_vars => TxInv'
<1> SUFFICES ASSUME TxInv, [Next]_vars PROVE TxInv'
  OBVIOUS
<1>1. clock \in Nat /\ clock <= clock
  BY ClockIsNat
<1>2. ASSUME NEW r \in Request, Scan(r) PROVE TxInv'
  BY <1>2, ScanTxInv
<1>3. CASE Administration
  <2>1. ASSUME NEW f \in Facility, NEW u \in User, RemoveFacility(f, u) PROVE TxInv'
    BY <1>1, <2>1, SurroundingsTxInv DEF RemoveFacility, TxInv
  <2>2. ASSUME NEW o \in Org, NEW actor \in User, NEW u \in User, NEW role \in Granted,
               UpdateMemberRole(o, actor, u, role)
        PROVE  TxInv'
    <3>1. role \in Role
      BY TransactionConstants
    <3>2. member' \in [Org \X User -> Role \cup {Null}]
      BY <2>2, <3>1 DEF UpdateMemberRole, TxInv
    <3> QED
      BY <1>1, <2>2, <3>2, SurroundingsTxInv DEF UpdateMemberRole, TxInv
  <2>3. ASSUME NEW o \in Org, NEW actor \in User, NEW u \in User, RemoveMember(o, actor, u)
        PROVE  TxInv'
    <3>1. member' \in [Org \X User -> Role \cup {Null}]
      BY <2>3 DEF RemoveMember, TxInv
    <3> QED
      BY <1>1, <2>3, <3>1, SurroundingsTxInv DEF RemoveMember, TxInv
  <2> QED
    BY <1>3, <2>1, <2>2, <2>3 DEF Administration
<1>4. CASE Tick
  <2>1. clock' \in Instant /\ clock' >= clock
    BY <1>1, <1>4, TransactionConstants DEF Tick, Instant
  <2> QED
    BY <1>4, <2>1, SurroundingsTxInv DEF Tick, tenancy, TxInv
<1>5. CASE UNCHANGED vars
  BY <1>1, <1>5, SurroundingsTxInv DEF vars, TxInv, rows
<1> QED
  BY <1>2, <1>3, <1>4, <1>5 DEF Next

LEMMA TxInvariantHolds == Spec => []TxInv
  BY InitTxInv, NextTxInv, PTL DEF Spec

\* Rows, memberships and requests keep their shapes.
THEOREM TransactionsTypeCorrect == Spec => []TypeOK
<1>1. P!TypeOK => L!TypeOK
  BY DEF P!TypeOK, L!TypeOK, P!BinRow, L!BinRow, P!BinStatus, L!BinStatus,
         P!CycleRow, L!CycleRow, P!CycleStatus, L!CycleStatus, P!Compliance, L!Compliance,
         P!EventRow, L!EventRow, P!EventType, L!EventType
<1>2. TxInv => TypeOK
  BY <1>1 DEF TxInv, P!IInv, TypeOK
<1> QED
  BY <1>2, TxInvariantHolds, PTL

\* Every step of the server is one atomic scan on the committed rows, or leaves
\* them alone: the transactions implement the lifecycle.
THEOREM TransactionsImplementLifecycle == Spec => ImplementsLifecycle
<1>1. Init => L!Init
  BY DEF Init
<1>2. TxInv /\ [Next]_vars => [L!Next]_L!vars
  <2> SUFFICES ASSUME TxInv, [Next]_vars, ~UNCHANGED L!vars
               PROVE  L!Next
    OBVIOUS
  <2>1. PICK r \in Request : Scan(r)
    BY DEF Next, vars, rows, L!vars, Administration, RemoveFacility, UpdateMemberRole,
           RemoveMember, Tick
  <2>2. Commit(r)
    BY <2>1 DEF Scan, Resolve, OpenTransaction, OpenStart, OpenStartDynamic, OpenPickup,
                OpenDeliver, Open, Write, RollBack, GiveUp, rows, L!vars
  <2> QED
    BY <2>2, CommitRefines
<1> QED
  BY <1>1, <1>2, TxInvariantHolds, PTL DEF Spec, ImplementsLifecycle, L!Spec

\* A bin is free exactly while it has no open cycle, and otherwise repeats the
\* status of its only one, whatever requests overlap.
THEOREM TransactionsMirrorCycles == Spec => []BinMirrorsCycle
<1>1. TxInv => BinMirrorsCycle
  BY P!MirrorFromIInv, TransactionConstants
     DEF TxInv, BinMirrorsCycle, P!BinMirrorsCycle, L!BinMirrorsCycle, P!OpenCycles,
         L!OpenCycles, P!OpenStatus, L!OpenStatus, P!ConstantsFit, L!ConstantsFit
<1> QED
  BY <1>1, TxInvariantHolds, PTL

\* The log of every cycle is the history its row tells, whatever the clock did
\* between the steps of the requests.
THEOREM TransactionsReplayLogs == Spec => []EventLogReplaysCycle
<1>1. TxInv => EventLogReplaysCycle
  BY DEF TxInv, P!IInv, EventLogReplaysCycle, P!EventLogReplaysCycle,
         L!EventLogReplaysCycle, P!ReplayOf, L!ReplayOf, P!Event, L!Event
<1> QED
  BY <1>1, TxInvariantHolds, PTL

\* No cycle crosses from one tenant to another.
THEOREM TransactionsKeepTenantsApart == Spec => []TenantsStayApart
<1>1. TxInv => TenantsStayApart
  BY DEF TxInv, P!IInv, TenantsStayApart, P!TenantsStayApart, L!TenantsStayApart
<1> QED
  BY <1>1, TxInvariantHolds, PTL

\* A bin made up by startDynamic serves one cycle.
THEOREM TransactionsServeDynamicBinsOnce == Spec => []OneCyclePerDynamicBin
<1>1. TxInv => OneCyclePerDynamicBin
  BY DEF TxInv, P!IInv, OneCyclePerDynamicBin, P!OneCyclePerDynamicBin,
         L!OneCyclePerDynamicBin
<1> QED
  BY <1>1, TxInvariantHolds, PTL

\* No request, however late, touches a completed cycle or a row of the log.
THEOREM TransactionsKeepHistory == Spec => HistoryIsFrozen
<1>1. L!TypeOK /\ [L!Next]_L!vars => [L!KeepsHistory]_L!vars
  <2>1. L!TypeOK => P!TypeOK
    BY DEF P!TypeOK, L!TypeOK, P!BinRow, L!BinRow, P!BinStatus, L!BinStatus,
           P!CycleRow, L!CycleRow, P!CycleStatus, L!CycleStatus, P!Compliance, L!Compliance,
           P!EventRow, L!EventRow, P!EventType, L!EventType
  <2>2. P!TypeOK /\ [P!Next]_P!vars => [P!KeepsHistory]_P!vars
    BY P!StepKeepsHistory, TransactionConstants DEF P!ConstantsFit, L!ConstantsFit
  <2>3. [P!KeepsHistory]_P!vars => [L!KeepsHistory]_L!vars
    BY DEF P!KeepsHistory, L!KeepsHistory, P!vars, L!vars
  <2> QED
    BY <2>1, <2>2, <2>3, SameNext DEF P!vars, L!vars
<1>2. TypeOK => L!TypeOK
  BY DEF TypeOK
<1>3. Spec => [][L!Next]_L!vars
  BY TransactionsImplementLifecycle, PTL DEF ImplementsLifecycle, L!Spec
<1> QED
  BY <1>1, <1>2, <1>3, TransactionsTypeCorrect, PTL DEF HistoryIsFrozen, L!HistoryIsFrozen

\* A delivery is by the cycle's driver or by an ADMIN, even when the guard that
\* said so ran on an older snapshot.
THEOREM DeliveriesAreAssigned == Spec => AssignedDriverDelivers
<1>1. TxInv /\ [Next]_vars => [DeliveryIsAssigned]_vars
  <2> SUFFICES ASSUME TxInv, Next, NEW c \in Cycle,
                      cycle[c].status = "IN_TRANSIT", cycle'[c].status = "COMPLETED"
               PROVE  \E r \in Request :
                        /\ req[r].op = "deliver" /\ req[r].cycle = c
                        /\ req[r].org = BinOrg[cycle[c].bin]
                        /\ req[r].role = "ADMIN" \/ req[r].user = cycle[c].driver
    BY DEF DeliveryIsAssigned
  <2>1. cycle' # cycle
    OBVIOUS
  <2>2. PICK r \in Request : Commit(r)
    <3>1. PICK r \in Request : Scan(r)
      BY <2>1 DEF Next, rows, Administration, RemoveFacility, UpdateMemberRole,
                  RemoveMember, Tick
    <3>2. Commit(r)
      BY <2>1, <3>1 DEF Scan, Resolve, OpenTransaction, OpenStart, OpenStartDynamic,
                        OpenPickup, OpenDeliver, Open, Write, RollBack, GiveUp, rows
    <3> QED
      BY <3>2
  <2>3. GuardsHold(req[r]) /\ ~req[r].cycleMissed
    BY <2>2, CommitIsCurrent
  <2>4. req[r].cycle = c
    <3>1. cycle'[c] # cycle[c]
      OBVIOUS
    <3>2. \A k \in Cycle : k # req[r].cycle => cycle'[k] = cycle[k]
      BY <2>2, CommitRows
    <3> QED
      BY <3>1, <3>2
  <2>5. req[r].op # "pickup"
    BY <2>3, <2>4 DEF GuardsHold
  <2>6. req[r].op = "deliver"
    BY <2>3, <2>4, <2>5 DEF GuardsHold, IsStart, Operation
  <2> QED
    BY <2>3, <2>4, <2>6 DEF GuardsHold
<1> QED
  BY <1>1, TxInvariantHolds, PTL DEF Spec, AssignedDriverDelivers
=============================================================================
