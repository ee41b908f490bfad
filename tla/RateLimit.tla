------------------------------ MODULE RateLimit ------------------------------
(***************************************************************************)
(* SlidingWindowLimiter, one key's bucket: the calls of an organization's  *)
(* photos, invitations and bank links, and of an address's attempts at a   *)
(* bank link, each with a limit and a window of its own.  The process is   *)
(* one thread; a restart empties the map.                                  *)
(***************************************************************************)
EXTENDS Naturals, FiniteSets

CONSTANTS
  Limit,
  Window,
  MaxTime   \* bound

VARIABLES
  now,
  hits,      \* the map's entry: calls of one millisecond share their time
  admitted,  \* history: the calls let through since the process started
  calls      \* how many of them are of this millisecond

vars == <<now, hits, admitted, calls>>
-----------------------------------------------------------------------------
\* A call is its time and its number among the calls of that time.
Time(h) == h[1]

Init == now = Window /\ hits = {} /\ admitted = {} /\ calls = 0

Tick ==
  /\ now < MaxTime
  /\ now' = now + 1 /\ calls' = 0
  /\ UNCHANGED <<hits, admitted>>

\* Mutant: the window starts anew at every multiple of its length.
Recent_Fixed == {h \in hits : Time(h) >= (now \div Window) * Window}

Recent == {h \in hits : Time(h) > now - Window}

Refused == Cardinality(Recent) >= Limit

\* TOO_MANY_REQUESTS, from whichever middleware.
Refuse ==
  /\ Refused
  /\ hits' = Recent
  /\ UNCHANGED <<now, admitted, calls>>

Admit ==
  /\ ~Refused
  /\ hits' = Recent \cup {<<now, calls>>}
  /\ admitted' = admitted \cup {<<now, calls>>}
  /\ calls' = calls + 1
  /\ UNCHANGED now

Restart == hits' = {} /\ admitted' = {} /\ calls' = 0 /\ UNCHANGED now

Next == Tick \/ Refuse \/ Admit \/ Restart

Spec == Init /\ [][Next]_vars
-----------------------------------------------------------------------------
(* Properties. *)

\* No window of the given length, wherever it starts, lets more calls through than
\* the limit (rate-limit.ts:24-35).
NoWindowIsOverfull ==
  \A h \in admitted :
    Cardinality({k \in admitted : Time(k) \in Time(h)..(Time(h) + Window - 1)}) <= Limit
-----------------------------------------------------------------------------
(* The inductive invariant.                                                *)

RateLimitConstants == Limit \in Nat /\ Window \in Nat \ {0}

IInv ==
  /\ now \in Nat /\ now >= Window /\ calls \in Nat
  /\ admitted \subseteq Nat \X Nat /\ IsFiniteSet(admitted) /\ hits \subseteq admitted
  /\ \A h \in admitted : Time(h) <= now
  /\ \A h \in admitted : Time(h) > now - Window => h \in hits
  /\ NoWindowIsOverfull
=============================================================================
