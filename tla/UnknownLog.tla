----------------------------- MODULE UnknownLog -----------------------------
(***************************************************************************)
(* The log of ids that are no device's: unknownDeviceLog, written by       *)
(* requests of the ingest that run at once, statement by statement, and    *)
(* the card an administrator adds and dismisses ids on (UnknownIdsCard).   *)
(***************************************************************************)
EXTENDS Naturals, FiniteSets

CONSTANTS
  Id,          \* what devices call themselves
  Writer,      \* ingest requests at a time
  MAX_ROWS,    \* UNKNOWN_ID_LOG_MAX_ROWS
  Null

VARIABLES
  registered,  \* the ids of table sensor_devices
  log,         \* the rows of table unknown_sensor_device_ids
  stale,       \* those not seen for thirty days
  writer,      \* the requests under way
  card         \* the rows shown, the ids selected and those being added

vars == <<registered, log, stale, writer, card>>
-----------------------------------------------------------------------------
Idle == [pc |-> "idle", id |-> Null]

Init ==
  /\ registered = {} /\ log = {} /\ stale = {}
  /\ writer = [w \in Writer |-> Idle]
  /\ card = [list |-> {}, selected |-> {}, adding |-> {}]

Goto(w, pc) == writer' = [writer EXCEPT ![w].pc = pc]

Age(id) ==
  /\ stale' = stale \cup {id}
  /\ UNCHANGED <<registered, log, writer, card>>
-----------------------------------------------------------------------------
(* record. *)

\* The ingest has found no device of this id.
Arrive(w, id) ==
  /\ writer[w] = Idle /\ id \notin registered
  /\ writer' = [writer EXCEPT ![w] = [pc |-> "prune", id |-> id]]
  /\ UNCHANGED <<registered, log, stale, card>>

Prune(w) ==
  /\ writer[w].pc = "prune"
  /\ log' = log \ stale /\ stale' = {}
  /\ Goto(w, "find")
  /\ UNCHANGED <<registered, card>>

Find(w) ==
  /\ writer[w].pc = "find"
  /\ Goto(w, IF writer[w].id \in log THEN "upsert" ELSE "count")
  /\ UNCHANGED <<registered, log, stale, card>>

Full == Cardinality(log) >= MAX_ROWS

Count(w) ==
  /\ writer[w].pc = "count"
  /\ IF Full THEN writer' = [writer EXCEPT ![w] = Idle] ELSE Goto(w, "upsert")
  /\ UNCHANGED <<registered, log, stale, card>>

Upsert(w) ==
  /\ writer[w].pc = "upsert"
  /\ log' = log \cup {writer[w].id}
  /\ stale' = stale \ {writer[w].id}
  /\ writer' = [writer EXCEPT ![w] = Idle]
  /\ UNCHANGED <<registered, card>>
-----------------------------------------------------------------------------
(* The card. *)

\* Every thirty seconds, and after what the administrator does.
Refetch ==
  /\ card.list # log
  /\ card' = [card EXCEPT !.list = log]
  /\ UNCHANGED <<registered, log, stale, writer>>

\* nextSelection, for one id and for all.
Selected == card.selected \cap card.list

Toggle(id) ==
  /\ card' = [card EXCEPT !.selected = (Selected \cup {id}) \ (Selected \cap {id})]
  /\ UNCHANGED <<registered, log, stale, writer>>

SelectAll ==
  /\ card' = [card EXCEPT !.selected = IF Selected = card.list THEN {} ELSE card.list]
  /\ UNCHANGED <<registered, log, stale, writer>>

Busy == card.adding # {}

\* onDone.
Done == card' = [card EXCEPT !.selected = {}, !.adding = {}]

\* addDevices: the devices in one transaction, then forget.
Add ==
  /\ ~Busy /\ Selected # {}
  /\ registered' = registered \cup Selected
  /\ card' = [card EXCEPT !.adding = Selected]
  /\ UNCHANGED <<log, stale, writer>>

Forget ==
  /\ Busy
  /\ log' = log \ card.adding /\ stale' = stale \ card.adding
  /\ Done
  /\ UNCHANGED <<registered, writer>>

Dismiss ==
  /\ ~Busy /\ Selected # {}
  /\ log' = log \ Selected /\ stale' = stale \ Selected
  /\ Done
  /\ UNCHANGED <<registered, writer>>

Clear ==
  /\ ~Busy /\ card.list # {}
  /\ log' = {} /\ stale' = {}
  /\ Done
  /\ UNCHANGED <<registered, writer>>

Next ==
  \/ \E id \in log \ stale : Age(id)
  \/ \E w \in Writer :
       \/ \E id \in Id : Arrive(w, id)
       \/ Prune(w) \/ Find(w) \/ Count(w) \/ Upsert(w)
  \/ Refetch \/ SelectAll \/ Add \/ Forget \/ Dismiss \/ Clear
  \/ \E id \in card.list : Toggle(id)

Spec == Init /\ [][Next]_vars
-----------------------------------------------------------------------------
(* Properties. *)

\* The count and the write are two statements: as many rows as requests may pass the
\* cap together, but no flood grows the table further
\* (unknown-device-log.service.ts:41-50).
RowsAreBounded == Cardinality(log) <= MAX_ROWS + Cardinality(Writer) - 1
-----------------------------------------------------------------------------
(* The inductive invariant.                                                *)

UnknownConstants == IsFiniteSet(Writer) /\ Writer # {} /\ MAX_ROWS \in Nat

\* The ids about to be written, found or counted.
Coming == {writer[w].id : w \in {w \in Writer : writer[w].pc = "upsert"}}

IInv ==
  /\ writer \in [Writer -> [pc : {"idle", "prune", "find", "count", "upsert"}, id : Id \cup {Null}]]
  /\ IsFiniteSet(log)
  /\ Cardinality(log \cup Coming) <= MAX_ROWS + Cardinality(Writer) - 1
=============================================================================
