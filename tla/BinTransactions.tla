-------------------------- MODULE BinTransactions ---------------------------
(***************************************************************************)
(* The scans of BinLifecycle as the API server runs them.  Several         *)
(* requests are in flight at once.  Each one                               *)
(*   - resolves the caller's organization and role (createContext),        *)
(*   - opens a Postgres transaction with isolationLevel Serializable and   *)
(*     reads rows in the snapshot of its first query; all its guards are   *)
(*     evaluated on that snapshot,                                         *)
(*   - updates or inserts a bin_cycles row and a bins row, one statement   *)
(*     after the other.  A statement waits for the lock of another open    *)
(*     transaction on the row; it fails when the row was changed by a      *)
(*     transaction that committed after the snapshot was taken (P2034), or *)
(*     when the partial unique index already holds an open cycle of the    *)
(*     bin (P2002),                                                        *)
(*   - appends its event and commits, or rolls back: nothing retries.      *)
(* Between the steps of a request the other requests run, administrators   *)
(* soft-delete facilities, and memberships change.  Those writers use the  *)
(* default isolation level, so Postgres raises no conflict with them.      *)
(***************************************************************************)
EXTENDS Naturals, Sequences, FiniteSets

CONSTANTS
  Bin, Cycle, Facility, User, Org, Rendering, BinOrg, FacilityOrg, Home,
  DkHours, Null,
  Decommissioned,  \* the bins with deletedAt set; no code of the API sets it
  Request,         \* slots for requests in flight
  FirstMember,     \* the role each user has in each organization at first
  FirstAccess,     \* the rows of user_facilities at first
  Granted,         \* bound: the roles administrators still hand out
  MaxTime          \* bound: the last reading of the clock

Role == {"ADMIN", "OPS_MANAGER", "DRIVER", "WORKER"}
Instant == 0..MaxTime

VARIABLES
  bin, cycle, events,  \* committed rows, as in BinLifecycle
  live,                \* the facilities with deletedAt null
  member,              \* organization_members: the role, or Null
  access,              \* the rows of user_facilities
  clock,               \* Date.now() of the server
  req                  \* the requests in flight

rows == <<bin, cycle, events>>
tenancy == <<live, member, access>>
vars == <<bin, cycle, events, live, member, access, clock, req>>

L == INSTANCE BinLifecycle WITH bin <- bin, cycle <- cycle, events <- events

ASSUME TransactionConstants ==
  /\ L!ConstantsFit
  /\ Decommissioned \subseteq Bin
  /\ FirstMember \in [Org \X User -> Role \cup {Null}]
  /\ FirstAccess \subseteq User \X Facility
  /\ Granted \subseteq Role
  /\ MaxTime \in Nat
  /\ Null \notin Org \cup Role \cup Cycle
-----------------------------------------------------------------------------
(* Requests.                                                               *)

Operation == {"start", "startDynamic", "pickup", "deliver"}

RequestRow ==
  [pc           : {"idle", "resolved", "open"},
   org          : Org \cup {Null},      \* ctx.orgId
   user         : User \cup {Null},     \* ctx.user.id
   role         : Role \cup {Null},     \* ctx.orgRole, as the context read it
   op           : Operation \cup {Null},
   bin          : Bin \cup {Null},      \* the rows the transaction writes
   cycle        : Cycle \cup {Null},
   facility     : Facility \cup {Null}, \* where it starts, or its destination
   at           : Nat,                  \* const now = new Date()
   writes       : 0..2,                 \* statements that wrote a row so far
   binMissed    : BOOLEAN,  \* somebody committed a newer version of the row
   cycleMissed  : BOOLEAN]  \* after this transaction's snapshot

NoRequest ==
  [pc |-> "idle", org |-> Null, user |-> Null, role |-> Null, op |-> Null,
   bin |-> Null, cycle |-> Null, facility |-> Null, at |-> 0, writes |-> 0,
   binMissed |-> FALSE, cycleMissed |-> FALSE]

\* The order of the row writes in the body of each transaction.
WriteOrder(op) ==
  IF op = "startDynamic" THEN <<"bin", "cycle">> ELSE <<"cycle", "bin">>

Wrote(r, table) == \E i \in 1..req[r].writes : WriteOrder(req[r].op)[i] = table

NextTable(r) == WriteOrder(req[r].op)[req[r].writes + 1]

SameRow(q, r, table) == IF table = "cycle" THEN req[q].cycle = req[r].cycle
                                           ELSE req[q].bin = req[r].bin

\* q's uncommitted write has the row that r writes next locked.
HoldsRow(q, r) ==
  /\ req[q].pc = "open"
  /\ Wrote(q, NextTable(r)) /\ SameRow(q, r, NextTable(r))

\* r is about to insert an open cycle for a bin, and q's uncommitted write is
\* about the open cycle of that bin: the unique index makes r wait for q.
HoldsIndexEntry(q, r) ==
  /\ req[r].op = "start" /\ NextTable(r) = "cycle"
  /\ req[q].pc = "open" /\ Wrote(q, "cycle") /\ req[q].bin = req[r].bin

WaitsFor(r, q) ==
  /\ r # q /\ req[r].pc = "open" /\ req[r].writes < 2
  /\ (HoldsRow(q, r) \/ HoldsIndexEntry(q, r))

\* Without isolationLevel Serializable a statement sees the newest row.
Missed_ReadCommitted(r) == FALSE

\* The statement r sends next touches a row it has missed an update of.
Missed(r) == IF NextTable(r) = "cycle" THEN req[r].cycleMissed ELSE req[r].binMissed

\* The insert r sends next collides in bin_cycles_one_active_per_bin.
Duplicate(r) ==
  /\ req[r].op \in {"start", "startDynamic"} /\ NextTable(r) = "cycle"
  /\ L!OpenCycles(req[r].bin) # {}

\* Ids are generated for each insert and never used twice.
FreshCycles == {c \in Cycle : /\ cycle[c].status = "ABSENT"
                              /\ \A r \in Request : req[r].cycle # c}
FreshBins == {b \in Bin : /\ bin[b].status = "ABSENT"
                          /\ \A r \in Request : req[r].bin # b}
-----------------------------------------------------------------------------
Init ==
  /\ L!Init
  /\ live = Facility
  /\ member = FirstMember
  /\ access = FirstAccess
  /\ clock = 0
  /\ req = [r \in Request |-> NoRequest]

\* createContext and hasOrg: the request acts in an organization the caller is
\* a member of, with the role of that moment.
Resolve(r, o, u) ==
  /\ req[r].pc = "idle"
  /\ member[<<o, u>>] # Null
  /\ req' = [req EXCEPT ![r].pc = "resolved", ![r].org = o, ![r].user = u,
                        ![r].role = member[<<o, u>>]]
  /\ UNCHANGED <<rows, tenancy, clock>>

\* The transaction takes its snapshot, and its guards hold there.
Open(r, op, b, c, f) ==
  /\ req[r].pc = "resolved"
  /\ req' = [req EXCEPT ![r].pc = "open", ![r].op = op, ![r].bin = b,
                        ![r].cycle = c, ![r].facility = f, ![r].at = clock]
  /\ UNCHANGED <<rows, tenancy, clock>>

\* The same step with a validator that accepts the code of any bin.
OpenStart_AnyCode(r, b) ==
  /\ BinOrg[b] = req[r].org
  /\ b \notin Decommissioned
  /\ bin[b].status = "IDLE"
  /\ \E c \in FreshCycles : Open(r, "start", b, c, bin[b].facility)

\* binStartSchema admits the printed codes BIN-TYPE-###, which the codes that
\* startDynamic makes up never are.
OpenStart(r, b) ==
  /\ Home[b] # Null
  /\ BinOrg[b] = req[r].org
  /\ b \notin Decommissioned
  /\ bin[b].status = "IDLE"
  /\ \E c \in FreshCycles : Open(r, "start", b, c, bin[b].facility)

\* A facility lookup that forgets the organization.
ResolveFacility_AnyOrg(o, choice) ==
  IF choice # Null THEN live \cap {choice}
  ELSE IF Cardinality(live) = 1 THEN live ELSE {}

\* An explicit facility has to be live and of the organization; without one the
\* organization must have exactly one live facility.
ResolveFacility(o, choice) ==
  LET candidates == {f \in live : FacilityOrg[f] = o}
  IN  IF choice # Null THEN candidates \cap {choice}
      ELSE IF Cardinality(candidates) = 1 THEN candidates ELSE {}

OpenStartDynamic(r, choice) ==
  \E f \in ResolveFacility(req[r].org, choice), b \in FreshBins, c \in FreshCycles :
    /\ BinOrg[b] = req[r].org
    /\ Open(r, "startDynamic", b, c, f)

OpenPickup(r, c) ==
  /\ req[r].role \in {"DRIVER", "ADMIN"}
  /\ cycle[c].status = "ACTIVE"
  /\ BinOrg[cycle[c].bin] = req[r].org
  /\ req[r].role = "ADMIN" \/ <<req[r].user, cycle[c].facility>> \in access
  /\ Open(r, "pickup", cycle[c].bin, c, cycle[c].facility)

\* Without the alternative for an ADMIN.
OpenDeliver_DriverOnly(r, c, d) ==
  /\ req[r].role \in {"DRIVER", "ADMIN"}
  /\ cycle[c].status = "IN_TRANSIT"
  /\ BinOrg[cycle[c].bin] = req[r].org
  /\ cycle[c].driver = req[r].user
  /\ d \in live \cap Rendering /\ FacilityOrg[d] = req[r].org
  /\ Open(r, "deliver", cycle[c].bin, c, d)

\* With a status guard that only asks whether the cycle was picked up.
OpenDeliver_PickedUp(r, c, d) ==
  /\ req[r].role \in {"DRIVER", "ADMIN"}
  /\ cycle[c].status \in {"IN_TRANSIT", "COMPLETED"}
  /\ BinOrg[cycle[c].bin] = req[r].org
  /\ req[r].role = "ADMIN" \/ cycle[c].driver = req[r].user
  /\ d \in live \cap Rendering /\ FacilityOrg[d] = req[r].org
  /\ Open(r, "deliver", cycle[c].bin, c, d)

OpenDeliver(r, c, d) ==
  /\ req[r].role \in {"DRIVER", "ADMIN"}
  /\ cycle[c].status = "IN_TRANSIT"
  /\ BinOrg[cycle[c].bin] = req[r].org
  /\ req[r].role = "ADMIN" \/ cycle[c].driver = req[r].user
  /\ d \in live \cap Rendering /\ FacilityOrg[d] = req[r].org
  /\ Open(r, "deliver", cycle[c].bin, c, d)

\* One row write goes through.  The request reads its clock between its last
\* read and its first write; the write itself may have waited for a lock.
Write(r) ==
  /\ req[r].pc = "open" /\ req[r].writes < 2
  /\ \A q \in Request : ~WaitsFor(r, q)
  /\ ~Missed(r) /\ ~Duplicate(r)
  /\ \E now \in IF req[r].writes = 0 THEN req[r].at..clock ELSE {req[r].at} :
       req' = [req EXCEPT ![r].writes = @ + 1, ![r].at = now]
  /\ UNCHANGED <<rows, tenancy, clock>>

\* Postgres refuses the row write, and the transaction rolls back.
RollBack(r) ==
  /\ req[r].pc = "open" /\ req[r].writes < 2
  /\ \/ Missed(r)
     \/ Duplicate(r) /\ \A q \in Request : ~WaitsFor(r, q)
  /\ req' = [req EXCEPT ![r] = NoRequest]
  /\ UNCHANGED <<rows, tenancy, clock>>

\* The rows of request r, as its commit leaves them.
CommittedBin(r) ==
  CASE req[r].op = "start"        -> [bin[req[r].bin] EXCEPT !.status = "ACTIVE"]
    [] req[r].op = "startDynamic" -> [status |-> "ACTIVE", facility |-> req[r].facility]
    [] req[r].op = "pickup"       -> [bin[req[r].bin] EXCEPT !.status = "IN_TRANSIT"]
    [] req[r].op = "deliver"      -> [bin[req[r].bin] EXCEPT !.status = "IDLE"]

CommittedCycle(r) ==
  LET row == cycle[req[r].cycle]
      q == req[r]
  IN  CASE q.op \in {"start", "startDynamic"} -> L!StartedCycle(q.bin, q.facility, q.at)
        [] q.op = "pickup"  -> L!PickedUpCycle(row, q.user, q.at)
        [] q.op = "deliver" -> L!DeliveredCycle(row, q.facility, q.at)

\* An event stamped by the database instead of with the time of the scan.
CommittedEvent_OwnClock(r) ==
  L!Event(CASE req[r].op \in {"start", "startDynamic"} -> "BIN_STARTED"
            [] req[r].op = "pickup"  -> "PICKED_UP"
            [] req[r].op = "deliver" -> "DELIVERED",
          req[r].user, clock)

CommittedEvent(r) ==
  L!Event(CASE req[r].op \in {"start", "startDynamic"} -> "BIN_STARTED"
            [] req[r].op = "pickup"  -> "PICKED_UP"
            [] req[r].op = "deliver" -> "DELIVERED",
          req[r].user, req[r].at)

\* What the commit of r leaves of request q: the snapshot of an open transaction
\* misses the rows that r has written.
AfterCommit(q, r) ==
  IF q = r THEN NoRequest
  ELSE IF req[q].pc # "open" THEN req[q]
  ELSE [req[q] EXCEPT !.binMissed = @ \/ req[q].bin = req[r].bin,
                      !.cycleMissed = @ \/ req[q].cycle = req[r].cycle]

Commit(r) ==
  /\ req[r].pc = "open" /\ req[r].writes = 2
  /\ bin' = [bin EXCEPT ![req[r].bin] = CommittedBin(r)]
  /\ cycle' = [cycle EXCEPT ![req[r].cycle] = CommittedCycle(r)]
  /\ events' = [events EXCEPT ![req[r].cycle] = Append(@, CommittedEvent(r))]
  /\ req' = [q \in Request |-> AfterCommit(q, r)]
  /\ UNCHANGED <<tenancy, clock>>

\* A guard refuses the request, Prisma's transaction timeout strikes, the
\* serialization check of Postgres picks it, its connection or the server dies:
\* nothing it wrote remains.
GiveUp(r) ==
  /\ req[r].pc # "idle"
  /\ req' = [req EXCEPT ![r] = NoRequest]
  /\ UNCHANGED <<rows, tenancy, clock>>
-----------------------------------------------------------------------------
(* The surroundings.                                                       *)

\* facilityService.remove: a soft delete, whatever bins stand there.
RemoveFacility(f, u) ==
  /\ f \in live
  /\ member[<<FacilityOrg[f], u>>] # Null
  /\ member[<<FacilityOrg[f], u>>] = "ADMIN" \/ <<u, f>> \in access
  /\ live' = live \ {f}
  /\ UNCHANGED <<rows, member, access, clock, req>>

\* An administrator acts on somebody else's membership; being another ADMIN the
\* actor is the one that remains.
IsOtherAdmin(o, actor, u) ==
  actor # u /\ member[<<o, actor>>] = "ADMIN" /\ member[<<o, u>>] # Null

UpdateMemberRole(o, actor, u, role) ==
  /\ IsOtherAdmin(o, actor, u)
  /\ member' = [member EXCEPT ![<<o, u>>] = role]
  /\ UNCHANGED <<rows, live, access, clock, req>>

\* The membership and the facility assignments go in one transaction.
RemoveMember(o, actor, u) ==
  /\ IsOtherAdmin(o, actor, u)
  /\ member' = [member EXCEPT ![<<o, u>>] = Null]
  /\ access' = {a \in access : ~(a[1] = u /\ FacilityOrg[a[2]] = o)}
  /\ UNCHANGED <<rows, live, clock, req>>

Tick ==
  /\ clock < MaxTime
  /\ clock' = clock + 1
  /\ UNCHANGED <<rows, tenancy, req>>
-----------------------------------------------------------------------------
OpenTransaction(r) ==
  \/ \E b \in Bin : OpenStart(r, b)
  \/ \E choice \in Facility \cup {Null} : OpenStartDynamic(r, choice)
  \/ \E c \in Cycle : OpenPickup(r, c)
  \/ \E c \in Cycle, d \in Facility : OpenDeliver(r, c, d)

Scan(r) ==
  \/ \E o \in Org, u \in User : Resolve(r, o, u)
  \/ OpenTransaction(r)
  \/ Write(r)
  \/ RollBack(r)
  \/ Commit(r)
  \/ GiveUp(r)

Administration ==
  \/ \E f \in Facility, u \in User : RemoveFacility(f, u)
  \/ \E o \in Org, actor, u \in User :
       \/ \E role \in Granted : UpdateMemberRole(o, actor, u, role)
       \/ RemoveMember(o, actor, u)

Next ==
  \/ \E r \in Request : Scan(r)
  \/ Administration
  \/ Tick

Spec == Init /\ [][Next]_vars

\* The server answers every request it has begun: a resolved one opens its
\* transaction or is refused, the awaited statements follow one another, and
\* Postgres wakes those that wait for a lock.  People who have to deliver a cycle
\* come back to it as long as they can, and not all their requests fail at the
\* same point for ever.  Nothing else has to happen: no start, no pickup.
Fairness ==
  /\ \A o \in Org, u \in User : SF_vars(\E r \in Request : Resolve(r, o, u))
  /\ \A u \in User, c \in Cycle :
       SF_vars(\E r \in Request, d \in Facility :
                 req[r].user = u /\ OpenDeliver(r, c, d))
  /\ \A r \in Request :
       /\ WF_vars(OpenTransaction(r) \/ (req[r].pc = "resolved" /\ GiveUp(r)))
       /\ \A n \in 0..1 : SF_vars(req[r].writes = n /\ (Write(r) \/ RollBack(r)))
       /\ SF_vars(Commit(r))

FairSpec == Spec /\ Fairness
-----------------------------------------------------------------------------
(* Properties.                                                             *)

\* Rows, memberships and requests have their shapes, and the clock its bound.
TypeOK ==
  /\ L!TypeOK
  /\ live \subseteq Facility
  /\ member \in [Org \X User -> Role \cup {Null}]
  /\ access \subseteq User \X Facility
  /\ clock \in Instant
  /\ req \in [Request -> RequestRow]

\* The promises of the lifecycle, for the rows that transactions leave behind.
BinMirrorsCycle      == L!BinMirrorsCycle
EventLogReplaysCycle == L!EventLogReplaysCycle
TenantsStayApart     == L!TenantsStayApart
HistoryIsFrozen      == L!HistoryIsFrozen
OneCyclePerDynamicBin == L!OneCyclePerDynamicBin

\* Every commit is one atomic scan on the rows of that moment, although its
\* guards were evaluated on a snapshot: the transactions implement BinLifecycle.
ImplementsLifecycle == L!Spec

\* Only the driver who picked a cycle up, or somebody the request's context
\* found to be an ADMIN of the bin's organization, delivers it, also when another
\* pickup or a change of membership runs alongside.
DeliveryIsAssigned ==
  \A c \in Cycle :
    cycle[c].status = "IN_TRANSIT" /\ cycle'[c].status = "COMPLETED" =>
      \E r \in Request :
        /\ req[r].op = "deliver" /\ req[r].cycle = c
        /\ req[r].org = BinOrg[cycle[c].bin]
        /\ req[r].role = "ADMIN" \/ req[r].user = cycle[c].driver

AssignedDriverDelivers == [][DeliveryIsAssigned]_vars

\* The facilities cycle c may be delivered to.
LiveDestinations(c) ==
  {f \in live \cap Rendering :
     cycle[c].bin # Null /\ FacilityOrg[f] = BinOrg[cycle[c].bin]}

\* A cycle is not stranded on the road: while its organization keeps an ADMIN and
\* a live rendering facility, a picked-up cycle is delivered in the end, even if
\* its driver was removed or requests for it keep failing.
NoCycleStranded ==
  \A c \in Cycle :
    cycle[c].status = "IN_TRANSIT" ~>
      cycle[c].status = "COMPLETED" \/ LiveDestinations(c) = {}
=============================================================================
