------------------------------- MODULE Zones --------------------------------
(***************************************************************************)
(* The zones of one facility, and the administrators' page that orders     *)
(* them (zone.service.ts, ZonesAdminPage.tsx).  A move sends the whole list *)
(* as the page shows it; the service compares it with the zones there are   *)
(* and renumbers them in one transaction.  A new zone gets its slug and its *)
(* place from the zones read before it.  A page's request runs by itself:   *)
(* two requests of one administrator are taken as two pages'.  Renaming     *)
(* changes neither slug nor place and is left out; what devices have to do  *)
(* with the removal of a zone is in module SensorFleet.                     *)
(***************************************************************************)
EXTENDS Naturals, Sequences, FiniteSets, FiniteSetsExt, SequencesExt

CONSTANTS Page,      \* administrators' pages
          Name,      \* what a name's letters and digits come to
          MaxZones,  \* bound: zones ever made
          MaxEdits,  \* bound: requests
          Null

VARIABLES place,     \* zone -> its sortOrder, or Null when there is no such zone
          slug,      \* zone -> the name's slug and the number after it
          made,      \* zones made so far
          shown,     \* the list a page shows
          request,   \* its request
          order,     \* history: who comes before whom on the list last saved, with what
                     \* came and went since
          crossed,   \* history: a zone was made beside another one, or beside a checked list
          edits

vars == <<place, slug, made, shown, request, order, crossed, edits>>

Zone == 1..MaxZones
Live == {z \in Zone : place[z] # Null}

Idle == [pc |-> "idle", list |-> <<>>, done |-> 0, seen |-> 0, zone |-> Null, base |-> 0]

\* Who comes before whom on a list.
Pairs(list) == {o \in Zone \X Zone :
                  \E i, j \in DOMAIN list : i < j /\ o = <<list[i], list[j]>>}

\* A facility begins with two default zones, and every page shows them.
Init ==
  /\ place = [z \in Zone |-> IF z <= 2 THEN z - 1 ELSE Null]
  /\ slug = [z \in Zone |-> IF z <= 2 THEN [name |-> "default", n |-> z] ELSE Null]
  /\ made = 2
  /\ shown = [p \in Page |-> <<1, 2>>]
  /\ request = [p \in Page |-> Idle]
  /\ order = {<<1, 2>>}
  /\ crossed = FALSE
  /\ edits = 0

Set(p, r) == request' = [request EXCEPT ![p] = r]

\* The zones by sortOrder; the database breaks a tie as it likes.
Listings == {s \in SetToSeqs(Live) :
               \A i, j \in DOMAIN s : i < j => place[s[i]] <= place[s[j]]}
-----------------------------------------------------------------------------
(* The page's moves. *)

Moved(list, i, delta) ==
  IF i + delta \in DOMAIN list
  THEN [list EXCEPT ![i] = list[i + delta], ![i + delta] = list[i]]
  ELSE list

\* The arrows rest while a move is under way.
Move(p, i, down) ==
  /\ request[p] = Idle /\ edits < MaxEdits /\ edits' = edits + 1
  /\ i \in DOMAIN shown[p]
  /\ IF down THEN i < Len(shown[p]) ELSE i > 1
  /\ LET j == IF down THEN i ELSE i - 1 IN
     Set(p, [Idle EXCEPT !.pc = "sent", !.list = Moved(shown[p], j, 1)])
  /\ UNCHANGED <<place, slug, made, shown, order, crossed>>

\* Exactly the zones of the facility, each once.
Complete(list) == ToSet(list) = Live /\ IsInjective(list)

CheckList(p) ==
  /\ request[p].pc = "sent"
  /\ IF Complete(request[p].list)
     THEN Set(p, [Idle EXCEPT !.pc = "saving", !.list = request[p].list])
     ELSE Set(p, Idle)
  /\ UNCHANGED <<place, slug, made, shown, order, crossed, edits>>

\* What others see once the k-th zone of a list is renumbered: nothing before
\* the transaction commits.
AfterUpdate_Alone(list, k) == [place EXCEPT ![list[k]] = k - 1]
AfterUpdate(list, k) == place

\* One update of the transaction.  Of two transactions one waits, and the
\* database ends a deadlock by undoing one; a zone that is gone undoes it too.
Renumber(p) ==
  LET r == request[p] IN
  /\ r.pc = "saving" /\ r.done < Len(r.list)
  /\ IF r.list[r.done + 1] \in Live
     THEN /\ Set(p, [Idle EXCEPT !.pc = "saving", !.list = r.list, !.done = r.done + 1])
          /\ place' = AfterUpdate(r.list, r.done + 1)
     ELSE Set(p, Idle) /\ UNCHANGED place
  /\ UNCHANGED <<slug, made, shown, order, crossed, edits>>

CommitOrder(p) ==
  LET list == request[p].list IN
  /\ request[p].pc = "saving" /\ request[p].done = Len(list)
  /\ IF ToSet(list) \subseteq Live
     THEN /\ place' = [z \in Zone |-> IF z \in ToSet(list)
                        THEN (CHOOSE k \in DOMAIN list : list[k] = z) - 1 ELSE place[z]]
          /\ order' = Pairs(list)
          /\ crossed' = (crossed \/ ~Complete(list))
          /\ Set(p, [Idle EXCEPT !.pc = "refresh"])
     ELSE UNCHANGED <<place, order, crossed>> /\ Set(p, Idle)
  /\ UNCHANGED <<slug, made, shown, edits>>
-----------------------------------------------------------------------------
(* Making and removing zones. *)

\* The first free number after a name's slug.
Slugified(name, taken) ==
  [name |-> name, n |-> Min({k \in 1..(Cardinality(taken) + 1) :
                               [name |-> name, n |-> k] \notin taken})]

\* The new zone's slug and place, from the zones there are when they are read.
BeginCreate(p, name) ==
  /\ request[p] = Idle /\ edits < MaxEdits /\ edits' = edits + 1
  /\ Set(p, [Idle EXCEPT !.pc = "insert", !.seen = made,
              !.zone = Slugified(name, {slug[z] : z \in Live}),
              !.base = IF Live = {} THEN 0 ELSE Max({place[z] : z \in Live}) + 1])
  /\ UNCHANGED <<place, slug, made, shown, order, crossed>>

\* The database keeps the slugs of a facility apart.
SlugTaken(s) == \E z \in Live : slug[z] = s

InsertZone(p) ==
  LET r == request[p] IN
  /\ r.pc = "insert" /\ made < MaxZones
  /\ IF SlugTaken(r.zone)
     THEN Set(p, Idle) /\ UNCHANGED <<place, slug, made, order, crossed>>
     ELSE /\ made' = made + 1
          /\ place' = [place EXCEPT ![made + 1] = r.base]
          /\ slug' = [slug EXCEPT ![made + 1] = r.zone]
          /\ order' = order \cup (Live \X {made + 1})
          /\ crossed' = (crossed \/ made # r.seen)
          /\ Set(p, [Idle EXCEPT !.pc = "refresh"])
  /\ UNCHANGED <<shown, edits>>

\* A zone without devices goes; with devices the request is refused.
RemoveZone(p, z) ==
  /\ request[p] = Idle /\ edits < MaxEdits /\ edits' = edits + 1
  /\ z \in ToSet(shown[p]) \cap Live
  /\ place' = [place EXCEPT ![z] = Null]
  /\ slug' = [slug EXCEPT ![z] = Null]
  /\ order' = {o \in order : z \notin {o[1], o[2]}}
  /\ Set(p, [Idle EXCEPT !.pc = "refresh"])
  /\ UNCHANGED <<made, shown, crossed>>
-----------------------------------------------------------------------------
\* The list is read again after a success, and the request ends with it.
Refresh(p) ==
  /\ request[p].pc \in {"idle", "refresh"}
  /\ \E s \in Listings : shown' = [shown EXCEPT ![p] = s]
  /\ Set(p, Idle)
  /\ UNCHANGED <<place, slug, made, order, crossed, edits>>

\* The request fails, or its answer or the list after it is lost.
Fail(p) ==
  /\ request[p] # Idle
  /\ Set(p, Idle)
  /\ UNCHANGED <<place, slug, made, shown, order, crossed, edits>>

Next == \E p \in Page :
  \/ \E i \in Zone, down \in BOOLEAN : Move(p, i, down)
  \/ CheckList(p) \/ Renumber(p) \/ CommitOrder(p)
  \/ \E name \in Name : BeginCreate(p, name)
  \/ InsertZone(p)
  \/ \E z \in Zone : RemoveZone(p, z)
  \/ Refresh(p) \/ Fail(p)

Spec == Init /\ [][Next]_vars
-----------------------------------------------------------------------------
\* The order everybody reads is the whole list one administrator saved, with
\* the zones made since at its end and without those removed since: two moves
\* at once never mix, and a list that has aged before it was sent never leaves
\* a zone out.  It can fail only after a zone was made while another was being
\* made, even if it has gone since, or between the check of a list and its
\* transaction: then two zones may get one place.
OrdersAreWhole == ~crossed => \A s \in Listings : Pairs(s) = order
-----------------------------------------------------------------------------
(* The inductive invariant of this property.                               *)

TypeOK ==
  /\ place \in [Zone -> Nat \cup {Null}]
  /\ made \in Nat /\ \A z \in Zone : z > made => place[z] = Null
  /\ shown \in [Page -> Seq(Zone)]
  /\ request = [p \in Page |-> request[p]]
  /\ \A p \in Page :
       /\ request[p].pc \in {"sent", "saving"} => request[p].list \in Seq(Zone)
       /\ request[p].pc = "insert" =>
            request[p].base \in Nat /\ request[p].seen \in Nat /\ request[p].seen <= made

\* The zones stand as they were ordered, no two at one place.
OrderIsKept ==
  /\ order = {o \in Live \X Live : place[o[1]] < place[o[2]]}
  /\ \A y, z \in Live : place[y] = place[z] => y = z

\* The place of a zone being made stays behind all others, also when they are
\* renumbered meanwhile: it was no less than their number.
NewComesLast ==
  \A p \in Page : request[p].pc = "insert" /\ request[p].seen = made =>
    /\ \A z \in Live : place[z] < request[p].base
    /\ Cardinality(Live) <= request[p].base

IInv == TypeOK /\ (~crossed => OrderIsKept /\ NewComesLast)
=============================================================================
