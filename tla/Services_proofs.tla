------------------------- MODULE Services_proofs -------------------------
(***************************************************************************)
(* Proofs about the components that Services puts side by side, for every  *)
(* plan, module, set of webhooks, administrators, employees, requests,     *)
(* tabs and devices, and for any bound.                                    *)
(*                                                                         *)
(* Each module states the inductive invariant of its component, IInv.      *)
(* ServicesInv is that of the component the behaviour is of: a step of one *)
(* leaves nothing of another to be shown.  A section proves one component; *)
(* in it the registers r1, r2, ... are the variables its header names.     *)
(***************************************************************************)
EXTENDS Services, FiniteSetTheorems, SequenceTheorems, TLAPS

-----------------------------------------------------------------------------
(* The rate limiter of one key (RateLimit): now r1, hits r2, admitted r3,  *)
(* calls r4.  Every call of the last window is still remembered, so that a *)
(* window never holds more than are let through.                           *)

\* The instance's operators on finite sets are those of this module.
LEMMA LimiterSets ==
  \A S : (Limiter!IsFiniteSet(S) <=> IsFiniteSet(S)) /\ Limiter!Cardinality(S) = Cardinality(S)
<1> SUFFICES ASSUME NEW S
             PROVE  (Limiter!IsFiniteSet(S) <=> IsFiniteSet(S)) /\ Limiter!Cardinality(S) = Cardinality(S)
  OBVIOUS
<1>1. Limiter!IsFiniteSet(S) <=> IsFiniteSet(S)
  BY DEF Limiter!IsFiniteSet, IsFiniteSet
<1>2. Limiter!Cardinality(S) = Cardinality(S)
  BY DEF Limiter!Cardinality, Cardinality
<1> QED
  BY <1>1, <1>2

\* No call has been let through yet.
LEMMA InitLimiter == ASSUME Limiter!Init PROVE Limiter!IInv
<1>1. r1 = Window /\ r4 = 0 /\ r2 = {} /\ r3 = {}
  BY DEF Limiter!Init
<1>2. r1 \in Nat /\ r1 >= Window
  BY <1>1, ServicesConstants DEF Limiter!RateLimitConstants
<1>3. Limiter!IsFiniteSet(r3)
  BY <1>1, FS_EmptySet, LimiterSets
<1> QED
  BY <1>1, <1>2, <1>3 DEF Limiter!IInv, Limiter!NoWindowIsOverfull

\* A call is let through: whatever window it falls into, the calls of that window
\* are recent.
LEMMA AdmitLimiter ==
  ASSUME Limiter!IInv, Limiter!Admit
  PROVE  Limiter!IInv'
<1> DEFINE new == <<r1, r4>>
           Within(h, S) == {k \in S : k[1] \in h[1]..(h[1] + Window - 1)}
           recent == {k \in r2 : k[1] > r1 - Window}
<1>1. /\ Calls \in Nat /\ Window \in Nat \ {0} /\ r1 \in Nat /\ r1 >= Window /\ r4 \in Nat
      /\ r3 \subseteq Nat \X Nat /\ IsFiniteSet(r3) /\ r2 \subseteq r3
      /\ \A h \in r3 : h[1] <= r1
      /\ \A h \in r3 : h[1] > r1 - Window => h \in r2
  BY ServicesConstants, LimiterSets DEF Limiter!RateLimitConstants, Limiter!IInv, Limiter!Time
<1>2. /\ r3' = r3 \cup {new} /\ r2' = recent \cup {new} /\ r4' = r4 + 1 /\ r1' = r1
      /\ ~(Cardinality(recent) >= Calls)
  BY LimiterSets DEF Limiter!Admit, Limiter!Refused, Limiter!Recent, Limiter!Time
<1>3. new \in Nat \X Nat /\ new[1] = r1 /\ \A h \in r3 : h[1] \in Nat
  BY <1>1
<1> HIDE DEF new
<1>4. IsFiniteSet(r3')
  BY <1>1, <1>2, FS_AddElement
<1>a. IsFiniteSet(recent)
  BY <1>1, FS_Subset
<1>b. /\ IsFiniteSet(recent \cup {new})
      /\ Cardinality(recent \cup {new}) <= Cardinality(recent) + 1
      /\ Cardinality(recent) \in Nat
  <2>1. Cardinality(recent) \in Nat
    BY <1>a, FS_CardinalityType
  <2> HIDE DEF recent
  <2> QED
    BY <1>a, <2>1, FS_AddElement
<1>5. ASSUME NEW h \in r3'
      PROVE  Cardinality(Within(h, r3')) <= Calls
  <2>0. h[1] \in Nat
    BY <1>2, <1>3, <1>1
  <2>1. CASE h[1] > r1 - Window
    <3>1. Within(h, r3') \subseteq recent \cup {new}
      BY <1>1, <1>2, <1>3, <2>0, <2>1
    <3> HIDE DEF Within, recent
    <3>4. Cardinality(Within(h, r3')) <= Cardinality(recent \cup {new})
      BY <3>1, <1>b, FS_Subset
    <3>5. Cardinality(Within(h, r3')) \in Nat /\ Cardinality(recent \cup {new}) \in Nat
      BY <3>1, <1>b, FS_Subset, FS_CardinalityType
    <3> QED
      BY <1>1, <1>2, <1>b, <3>4, <3>5
  <2>2. CASE ~(h[1] > r1 - Window)
    <3>1. h \in r3
      <4>1. h # new
        BY <1>1, <1>3, <2>2
      <4> QED
        BY <1>2, <4>1
    <3>2. Within(h, r3') = Within(h, r3)
      <4>1. new \notin Within(h, {new})
        BY <1>1, <1>3, <2>0, <2>2
      <4> QED
        BY <1>2, <4>1
    <3> QED
      BY <3>1, <3>2, LimiterSets DEF Limiter!IInv, Limiter!NoWindowIsOverfull, Limiter!Time
  <2> QED
    BY <2>1, <2>2
<1>6. Limiter!NoWindowIsOverfull'
  BY <1>5, LimiterSets DEF Limiter!NoWindowIsOverfull, Limiter!Time
<1>7. /\ r3' \subseteq Nat \X Nat /\ r2' \subseteq r3' /\ r4' \in Nat
      /\ \A h \in r3' : h[1] <= r1
      /\ \A h \in r3' : h[1] > r1 - Window => h \in r2'
  BY <1>1, <1>2, <1>3
<1> QED
  BY <1>1, <1>2, <1>4, <1>6, <1>7, LimiterSets DEF Limiter!IInv, Limiter!Time

\* Every step of the limiter keeps its invariant.
LEMMA NextLimiter ==
  ASSUME Limiter!IInv, Limiter!Next
  PROVE  Limiter!IInv'
<1> USE DEF Limiter!IInv, Limiter!NoWindowIsOverfull, Limiter!Time
<1>1. CASE Limiter!Tick
  BY <1>1, ServicesConstants DEF Limiter!Tick, Limiter!RateLimitConstants
<1>2. CASE Limiter!Refuse
  BY <1>2 DEF Limiter!Refuse, Limiter!Recent
<1>3. CASE Limiter!Restart
  <2>1. r2' = {} /\ r3' = {} /\ r4' = 0 /\ r1' = r1
    BY <1>3 DEF Limiter!Restart
  <2>2. Limiter!IsFiniteSet(r3')
    BY <2>1, LimiterSets, FS_EmptySet
  <2> QED
    BY <2>1, <2>2
<1> QED
  BY <1>1, <1>2, <1>3, AdmitLimiter DEF Limiter!Next

-----------------------------------------------------------------------------
(* The log of unregistered devices (UnknownLog): registered r1, log r2,    *)
(* stale r3, writer r4, card r5.  A row that is about to be written has been*)
(* counted as absent, by all but one of the writers perhaps.               *)

\* The instance's operators on finite sets are those of this module.
LEMMA UnknownSets ==
  \A S : (Unknown!IsFiniteSet(S) <=> IsFiniteSet(S)) /\ Unknown!Cardinality(S) = Cardinality(S)
<1> SUFFICES ASSUME NEW S
             PROVE  (Unknown!IsFiniteSet(S) <=> IsFiniteSet(S)) /\ Unknown!Cardinality(S) = Cardinality(S)
  OBVIOUS
<1>1. Unknown!IsFiniteSet(S) <=> IsFiniteSet(S)
  BY DEF Unknown!IsFiniteSet, IsFiniteSet
<1>2. Unknown!Cardinality(S) = Cardinality(S)
  BY DEF Unknown!Cardinality, Cardinality
<1> QED
  BY <1>1, <1>2

WriterRow == [pc : {"idle", "prune", "find", "count", "upsert"}, id : Id \cup {Null}]

\* As many ids can be about to be written as there are writers.
LEMMA FewAreComing ==
  ASSUME NEW f
  PROVE  LET ids == {f[w].id : w \in {w \in Writer : f[w].pc = "upsert"}}
         IN  IsFiniteSet(ids) /\ Cardinality(ids) <= Cardinality(Writer)
<1> DEFINE upserting == {w \in Writer : f[w].pc = "upsert"}
           ids == {f[w].id : w \in upserting}
           g == [w \in upserting |-> f[w].id]
<1>1. IsFiniteSet(Writer)
  BY ServicesConstants, UnknownSets DEF Unknown!UnknownConstants
<1>2. IsFiniteSet(upserting) /\ Cardinality(upserting) <= Cardinality(Writer)
  BY <1>1, FS_Subset
<1>3. g \in Surjection(upserting, ids)
  BY DEF Surjection
<1>4. IsFiniteSet(ids) /\ Cardinality(ids) <= Cardinality(upserting)
  BY <1>2, <1>3, FS_Surjection
<1>5. Cardinality(ids) \in Nat /\ Cardinality(upserting) \in Nat /\ Cardinality(Writer) \in Nat
  BY <1>1, <1>2, <1>4, FS_CardinalityType
<1> HIDE DEF ids, upserting
<1>6. IsFiniteSet(ids) /\ Cardinality(ids) <= Cardinality(Writer)
  BY <1>2, <1>4, <1>5
<1> QED
  BY <1>6 DEF ids, upserting

UnknownBound ==
  /\ r4 \in [Writer -> WriterRow] /\ IsFiniteSet(r2)
  /\ Cardinality(r2 \cup Unknown!Coming) <= MAX_ROWS + Cardinality(Writer) - 1

\* The instance's invariant, in this module's words.
LEMMA UnknownMeans == (Unknown!IInv <=> UnknownBound) /\ (Unknown!IInv' <=> UnknownBound')
BY UnknownSets DEF Unknown!IInv, UnknownBound, WriterRow

\* The writers can be counted, and there is one.
LEMMA WritersAreCounted == Cardinality(Writer) \in Nat \ {0} /\ MAX_ROWS \in Nat
<1>1. IsFiniteSet(Writer) /\ Writer # {} /\ MAX_ROWS \in Nat
  BY ServicesConstants, UnknownSets DEF Unknown!UnknownConstants
<1> QED
  BY <1>1, FS_CardinalityType, FS_EmptySet

\* The rows and the ids about to be written are all that count: fewer of them keep
\* the bound.
LEMMA FewerUnknown ==
  ASSUME Unknown!IInv, r4' \in [Writer -> WriterRow],
         NEW coming, coming = Unknown!Coming', r2' \cup coming \subseteq r2 \cup Unknown!Coming
  PROVE  Unknown!IInv'
<1>1. IsFiniteSet(r2) /\ IsFiniteSet(Unknown!Coming)
  BY UnknownMeans, FewAreComing DEF UnknownBound, Unknown!Coming
<1>2. IsFiniteSet(r2 \cup Unknown!Coming)
  BY <1>1, FS_Union
<1>3. /\ IsFiniteSet(r2' \cup coming) /\ IsFiniteSet(r2')
      /\ Cardinality(r2' \cup coming) <= Cardinality(r2 \cup Unknown!Coming)
      /\ Cardinality(r2' \cup coming) \in Nat /\ Cardinality(r2 \cup Unknown!Coming) \in Nat
  BY <1>2, FS_Subset, FS_CardinalityType
<1>4. Cardinality(r2' \cup coming) <= MAX_ROWS + Cardinality(Writer) - 1
  BY <1>3, UnknownMeans, WritersAreCounted DEF UnknownBound
<1> QED
  BY <1>3, <1>4, UnknownMeans DEF UnknownBound

\* The log is empty and nobody writes.
LEMMA InitUnknown == ASSUME Unknown!Init PROVE Unknown!IInv
<1>1. r2 = {} /\ r4 = [w \in Writer |-> [pc |-> "idle", id |-> Null]]
  BY DEF Unknown!Init, Unknown!Idle
<1>2. r2 \cup Unknown!Coming = {} /\ r4 \in [Writer -> WriterRow]
  BY <1>1 DEF Unknown!Coming, WriterRow
<1>3. IsFiniteSet(r2) /\ Cardinality(r2 \cup Unknown!Coming) = 0
  BY <1>1, <1>2, FS_EmptySet
<1> QED
  BY <1>2, <1>3, UnknownMeans, WritersAreCounted DEF UnknownBound

\* The table is not full when its rows are counted, and the others who have passed
\* the count are fewer than the writers.
LEMMA CountUnknown ==
  ASSUME Unknown!IInv, NEW w \in Writer, Unknown!Count(w)
  PROVE  Unknown!IInv'
<1> DEFINE coming == Unknown!Coming'
<1>1. r4 \in [Writer -> WriterRow] /\ r2' = r2 /\ IsFiniteSet(r2)
  BY UnknownMeans DEF UnknownBound, Unknown!Count
<1>2. CASE Cardinality(r2) >= MAX_ROWS
  <2>1. r4' = [r4 EXCEPT ![w] = Unknown!Idle]
    BY <1>2, UnknownSets DEF Unknown!Count, Unknown!Full
  <2>2. r4' \in [Writer -> WriterRow]
    BY <1>1, <2>1 DEF WriterRow, Unknown!Idle
  <2>3. coming \subseteq Unknown!Coming
    BY <1>1, <2>1 DEF Unknown!Coming, Unknown!Idle
  <2> HIDE DEF coming
  <2> QED
    BY <1>1, <2>2, <2>3, FewerUnknown DEF coming
<1>3. CASE ~(Cardinality(r2) >= MAX_ROWS)
  <2>1. r4' = [r4 EXCEPT ![w].pc = "upsert"]
    BY <1>3, UnknownSets DEF Unknown!Count, Unknown!Full, Unknown!Goto
  <2>2. r4' \in [Writer -> WriterRow]
    BY <1>1, <2>1 DEF WriterRow
  <2>3. IsFiniteSet(coming) /\ Cardinality(coming) <= Cardinality(Writer)
    BY FewAreComing DEF Unknown!Coming
  <2> HIDE DEF coming
  <2>4. /\ Cardinality(r2 \cup coming) <= Cardinality(r2) + Cardinality(coming)
        /\ Cardinality(r2) \in Nat /\ Cardinality(coming) \in Nat
        /\ Cardinality(r2 \cup coming) \in Nat
    <3>1. /\ IsFiniteSet(r2 \cap coming) /\ IsFiniteSet(r2 \cup coming)
          /\ Cardinality(r2 \cup coming)
               = Cardinality(r2) + Cardinality(coming) - Cardinality(r2 \cap coming)
      BY <1>1, <2>3, FS_Union, FS_Intersection
    <3> QED
      BY <1>1, <2>3, <3>1, FS_CardinalityType
  <2>5. Cardinality(r2 \cup coming) <= MAX_ROWS + Cardinality(Writer) - 1
    BY <1>3, <2>3, <2>4, WritersAreCounted
  <2> QED
    BY <1>1, <2>2, <2>5, UnknownMeans DEF UnknownBound, coming
<1> QED
  BY <1>2, <1>3

\* Every step of the writers and of the page keeps the bound.
LEMMA NextUnknown ==
  ASSUME Unknown!IInv, Unknown!Next
  PROVE  Unknown!IInv'
<1>1. r4 \in [Writer -> WriterRow]
  BY UnknownMeans DEF UnknownBound
<1> DEFINE coming == Unknown!Coming'
<1>2. ASSUME r4' = r4, r2' \subseteq r2 PROVE Unknown!IInv'
  <2>1. coming = Unknown!Coming
    BY <1>2 DEF Unknown!Coming
  <2> HIDE DEF coming
  <2> QED
    BY <1>1, <1>2, <2>1, FewerUnknown DEF coming
<1>3. ASSUME NEW w \in Writer, NEW id \in Id, Unknown!Arrive(w, id) PROVE Unknown!IInv'
  <2>1. r4' \in [Writer -> WriterRow] /\ r2' = r2
    BY <1>1, <1>3 DEF Unknown!Arrive, WriterRow
  <2>2. coming \subseteq Unknown!Coming
    BY <1>1, <1>3 DEF Unknown!Arrive, Unknown!Coming
  <2> HIDE DEF coming
  <2> QED
    BY <2>1, <2>2, FewerUnknown DEF coming
<1>4. ASSUME NEW w \in Writer, Unknown!Prune(w) PROVE Unknown!IInv'
  <2>1. r4' \in [Writer -> WriterRow] /\ r2' \subseteq r2
    BY <1>1, <1>4 DEF Unknown!Prune, Unknown!Goto, WriterRow
  <2>2. coming \subseteq Unknown!Coming
    BY <1>1, <1>4 DEF Unknown!Prune, Unknown!Goto, Unknown!Coming
  <2> HIDE DEF coming
  <2> QED
    BY <2>1, <2>2, FewerUnknown DEF coming
<1>5. ASSUME NEW w \in Writer, Unknown!Find(w) PROVE Unknown!IInv'
  <2>1. r4' \in [Writer -> WriterRow] /\ r2' = r2
    BY <1>1, <1>5 DEF Unknown!Find, Unknown!Goto, WriterRow
  <2>2. coming \subseteq r2 \cup Unknown!Coming
    BY <1>1, <1>5 DEF Unknown!Find, Unknown!Goto, Unknown!Coming
  <2> HIDE DEF coming
  <2> QED
    BY <2>1, <2>2, FewerUnknown DEF coming
<1>6. ASSUME NEW w \in Writer, Unknown!Upsert(w) PROVE Unknown!IInv'
  <2>1. r4' \in [Writer -> WriterRow] /\ r2' \subseteq r2 \cup Unknown!Coming
    BY <1>1, <1>6 DEF Unknown!Upsert, Unknown!Idle, Unknown!Coming, WriterRow
  <2>2. coming \subseteq Unknown!Coming
    BY <1>1, <1>6 DEF Unknown!Upsert, Unknown!Idle, Unknown!Coming
  <2> HIDE DEF coming
  <2> QED
    BY <2>1, <2>2, FewerUnknown DEF coming
<1>7. CASE \/ \E id \in r2 \ r3 : Unknown!Age(id)
           \/ Unknown!Refetch \/ Unknown!SelectAll \/ Unknown!Add \/ Unknown!Forget
           \/ Unknown!Dismiss \/ Unknown!Clear
           \/ \E id \in r5.list : Unknown!Toggle(id)
  <2>1. r4' = r4 /\ r2' \subseteq r2
    BY <1>7 DEF Unknown!Age, Unknown!Refetch, Unknown!SelectAll, Unknown!Add, Unknown!Forget,
                Unknown!Dismiss, Unknown!Clear, Unknown!Toggle
  <2> QED
    BY <1>2, <2>1
<1> QED
  BY <1>3, <1>4, <1>5, <1>6, <1>7, CountUnknown DEF Unknown!Next

\* The rows are among what the bound counts.
LEMMA UnknownIsBounded == Unknown!IInv => Unknown!RowsAreBounded
<1> SUFFICES ASSUME Unknown!IInv PROVE Unknown!RowsAreBounded
  OBVIOUS
<1>1. IsFiniteSet(r2) /\ IsFiniteSet(Unknown!Coming)
  BY UnknownMeans, FewAreComing DEF UnknownBound, Unknown!Coming
<1>2. IsFiniteSet(r2 \cup Unknown!Coming)
  BY <1>1, FS_Union
<1>3. /\ Cardinality(r2) <= Cardinality(r2 \cup Unknown!Coming)
      /\ Cardinality(r2) \in Nat /\ Cardinality(r2 \cup Unknown!Coming) \in Nat
  BY <1>1, <1>2, FS_Subset, FS_CardinalityType
<1> QED
  BY <1>3, UnknownMeans, WritersAreCounted, UnknownSets DEF UnknownBound, Unknown!RowsAreBounded

-----------------------------------------------------------------------------
(* The subscription and its modules (Billing): version r1, due r2,         *)
(* subscription r3, module r4, hook r5, wish r6, overlapped r7, trial r8.  *)
(* While no two syncs have run beside each other, an event is due or has   *)
(* been written, a module is as the newest version says or a webhook in    *)
(* flight owes it, the first checkout is behind what was written since, and*)
(* nothing is acknowledged while the signup goes on.                       *)

\* The plans and the modules.
LEMMA BillingValues ==
  /\ Defaults \in [Plan -> SUBSET Module] /\ FirstPlan \in Plan /\ Unpriced \notin Plan
  /\ Switched \subseteq Module
BY ServicesConstants DEF Bill!BillingConstants

\* A change of the subscription is a row of Stripe.
LEMMA VersionsAreRows ==
  ASSUME Bill!TypeOK
  PROVE  /\ Len(r1) \in Nat /\ (r1 = <<>> <=> Len(r1) = 0)
         /\ \A n \in 1..Len(r1) : r1[n] \in Bill!VersionRow /\ r1[n].at \in Nat \ {0}
<1>1. r1 \in Seq(Bill!VersionRow)
  BY DEF Bill!TypeOK
<1>2. \A n \in 1..Len(r1) : r1[n] \in Bill!VersionRow
  BY <1>1, ElementOfSeq
<1> QED
  BY <1>1, <1>2, EmptySeq, LenProperties DEF Bill!VersionRow

\* A handler without an event does nothing.
LEMMA NoHookIsIdle == Bill!NoHook.pc = "idle" /\ Bill!NoHook' = Bill!NoHook
BY DEF Bill!NoHook

\* What a sync carries is a priced version, and its time is that of a version, or of the
\* signup.
LEMMA WebhookIsOfAVersion ==
  ASSUME Bill!TypeOK, Bill!TimesRise, Bill!HooksAreTrue, NEW h \in Hook, r5[h] # Bill!NoHook
  PROVE  /\ r1 # <<>> /\ r5[h].pc # "idle"
         /\ \E k \in 1..Len(r1) : Bill!Carries(h, k) /\ Bill!Priced(k)
         /\ r5[h].event = -1 =>
              r5[h].at = r8 /\ r5[h].plan = FirstPlan /\ r5[h].usable
         /\ r5[h].event = 0 =>
              /\ \E k \in Bill!Bought : Bill!Carries(h, k) /\ Bill!Priced(k)
              /\ \E c \in 1..Len(r1) : Bill!Dates(0, c) /\ r5[h].at = r1[c].at
         /\ r5[h].event \notin {-1, 0} =>
              /\ r5[h].event \in 1..Len(r1) /\ Bill!Carries(h, r5[h].event)
              /\ Bill!Priced(r5[h].event) /\ r5[h].at = r1[r5[h].event].at
         /\ r5[h].at \in Nat /\ (r5[h].at <= Bill!Newest.at \/ r5[h].at = r8)
         /\ r5[h].plan \in Plan /\ r5[h].usable \in BOOLEAN /\ r5[h].event \in Nat \cup {-1}
         /\ r5[h].todo \subseteq Bill!Bundle(h)
<1>1. /\ r1 # <<>> /\ r5[h].pc # "idle" /\ r5[h].todo \subseteq Bill!Bundle(h)
      /\ IF r5[h].event = -1
         THEN Bill!Carries(h, 1) /\ r5[h].at = r8 /\ r5[h].plan = FirstPlan /\ r5[h].usable
         ELSE \E k, c \in 1..Len(r1) :
                /\ IF r5[h].event = 0 THEN k \in Bill!Bought /\ Bill!Dates(0, c)
                                      ELSE k = r5[h].event /\ c = r5[h].event
                /\ Bill!Carries(h, k) /\ r5[h].at = r1[c].at
  BY DEF Bill!HooksAreTrue, Bill!NoEvent
<1>2. /\ r5[h].plan \in Plan /\ r5[h].usable \in BOOLEAN /\ r5[h].event \in Nat \cup {-1}
      /\ r5[h].at \in Nat
  BY DEF Bill!TypeOK, Bill!HookRow, Bill!NoEvent
<1>4. \A k \in 1..Len(r1) : Bill!Carries(h, k) => Bill!Priced(k)
  BY <1>2, BillingValues DEF Bill!Carries, Bill!Priced
<1>5. Len(r1) \in Nat \ {0} /\ \A n \in 1..Len(r1) : r1[n].at \in Nat \ {0}
  BY <1>1, VersionsAreRows
<1>6. \A n \in 1..Len(r1) : r1[n].at <= Bill!Newest.at
  BY <1>5 DEF Bill!TimesRise, Bill!Newest
<1>7. CASE r5[h].event = -1
  BY <1>1, <1>2, <1>4, <1>5, <1>7
<1>8. CASE r5[h].event # -1
  <2>1. PICK k \in 1..Len(r1), c \in 1..Len(r1) :
          /\ IF r5[h].event = 0 THEN k \in Bill!Bought /\ Bill!Dates(0, c)
                                ELSE k = r5[h].event /\ c = r5[h].event
          /\ Bill!Carries(h, k) /\ r5[h].at = r1[c].at
    BY <1>1, <1>8
  <2> QED
    BY <1>1, <1>2, <1>4, <1>6, <1>8, <2>1
<1> QED
  BY <1>7, <1>8

\* Nothing has been bought.
LEMMA InitBilling == ASSUME Bill!Init PROVE Bill!IInv
<1>0. /\ r1 = <<>> /\ r2 = {} /\ r3 = [plan |-> FirstPlan, usable |-> TRUE, last |-> 0]
      /\ r4 = [m \in Module |-> [enabled |-> m \in Defaults[FirstPlan],
                                 source |-> IF m \in Defaults[FirstPlan] THEN "plan" ELSE "none"]]
      /\ r5 = [h \in Hook |-> Bill!NoHook] /\ r6 = [m \in Module |-> "none"] /\ r7 = FALSE
      /\ r8 = 0
  BY DEF Bill!Init, Bill!Never
<1>1. Bill!TypeOK
  <2>1. r3 \in [plan : Plan, usable : BOOLEAN, last : Nat] /\ r1 \in Seq(Bill!VersionRow)
    BY <1>0, BillingValues
  <2>2. r5 \in [Hook -> Bill!HookRow]
    BY <1>0, BillingValues DEF Bill!NoHook, Bill!HookRow
  <2>3. r4 \in [Module -> Bill!ModuleRow]
    BY <1>0, BillingValues DEF Bill!ModuleRow
  <2> QED
    BY <1>0, <2>1, <2>2, <2>3 DEF Bill!TypeOK
<1>2. Bill!TimesRise /\ Bill!HooksAreTrue /\ Bill!OverridesStand
  BY <1>0 DEF Bill!TimesRise, Bill!HooksAreTrue, Bill!OverridesStand, Bill!Never
<1>3. Bill!OneAtATime /\ Bill!HooksAreCurrent /\ Bill!CheckoutIsHarmless /\ Bill!TrialIsFirst
  BY <1>0 DEF Bill!OneAtATime, Bill!HooksAreCurrent, Bill!CheckoutIsHarmless, Bill!NoHook,
              Bill!TrialIsFirst
<1>4. Bill!AcknowledgedIsWritten /\ Bill!PurchaseIsWritten
  BY <1>0 DEF Bill!AcknowledgedIsWritten, Bill!Decisive, Bill!PurchaseIsWritten
<1>5. Bill!ModulesFollow
  BY <1>0, BillingValues DEF Bill!ModulesFollow
<1> QED
  BY <1>1, <1>2, <1>3, <1>4, <1>5 DEF Bill!IInv, Bill!Undisturbed

\* The properties follow: with nothing due and nothing in flight, the newest event was
\* acknowledged and nothing is owed.
LEMMA BillingIsDue ==
  Bill!IInv => Bill!NewestEventWins /\ Bill!ModulesFollowPlan /\ Bill!OverridesStand
<1> SUFFICES ASSUME Bill!IInv
             PROVE  Bill!NewestEventWins /\ Bill!ModulesFollowPlan /\ Bill!OverridesStand
  OBVIOUS
<1>1. Bill!NewestEventWins
  <2>1. Bill!Settled /\ Bill!Decisive => ~r7 /\ Len(r1) \notin r2
    BY DEF Bill!Settled
  <2> QED
    BY <2>1 DEF Bill!IInv, Bill!Undisturbed, Bill!AcknowledgedIsWritten, Bill!NewestEventWins
<1>2. Bill!ModulesFollowPlan
  <2>1. Bill!Settled => ~r7 /\ ~Bill!Owed
    BY DEF Bill!Settled, Bill!Owed, Bill!NoHook
  <2> QED
    BY <2>1 DEF Bill!IInv, Bill!Undisturbed, Bill!ModulesFollowPlan
<1> QED
  BY <1>1, <1>2 DEF Bill!IInv

\* Stripe changes a subscription: the versions before stay, and the new one is due.
LEMMA ChangeBilling ==
  ASSUME Bill!IInv, NEW of \in {"trial", "checkout"}, NEW plan \in Plan \cup {Unpriced},
         NEW usable \in BOOLEAN, NEW at \in Nat \ {0},
         Bill!ChangeSubscription(of, plan, usable, at)
  PROVE  Bill!IInv'
<1> DEFINE row == [of |-> of, plan |-> plan, usable |-> usable, at |-> at]
<1>1. /\ r1' = Append(r1, row)
      /\ r2' = r2 \cup {Len(r1) + 1} \cup (IF of = "checkout" /\ Bill!Bought = {} THEN {0} ELSE {})
      /\ r3' = r3 /\ r4' = r4 /\ r5' = r5 /\ r6' = r6 /\ r7' = r7 /\ r8' = r8
      /\ r1 # <<>> => at \in {Bill!Newest.at, Bill!Newest.at + 1}
  BY DEF Bill!ChangeSubscription
<1>2. Bill!TypeOK /\ Bill!TimesRise /\ Bill!HooksAreTrue /\ Bill!OverridesStand
  BY DEF Bill!IInv
<1>3. r1 \in Seq(Bill!VersionRow) /\ row \in Bill!VersionRow
  BY <1>2 DEF Bill!TypeOK, Bill!VersionRow
<1>4. /\ Len(r1) \in Nat /\ Len(r1') = Len(r1) + 1 /\ r1' \in Seq(Bill!VersionRow)
      /\ \A n \in 1..Len(r1) : r1'[n] = r1[n] /\ r1[n].at \in Nat \ {0}
      /\ r1'[Len(r1')] = row /\ r1' # <<>> /\ (r1 = <<>> <=> Len(r1) = 0)
  <2>1. /\ Len(r1) \in Nat /\ Len(r1') = Len(r1) + 1 /\ r1' \in Seq(Bill!VersionRow)
        /\ \A n \in 1..Len(r1) : r1'[n] = r1[n]
        /\ r1'[Len(r1')] = row
    BY <1>1, <1>3, AppendProperties, LenProperties
  <2>2. \A n \in 1..Len(r1) : r1[n] \in Bill!VersionRow
    BY <1>3, ElementOfSeq
  <2> QED
    BY <1>3, <2>1, <2>2, EmptySeq DEF Bill!VersionRow
<1> HIDE DEF row
<1>5. Bill!TypeOK'
  BY <1>1, <1>2, <1>4 DEF Bill!TypeOK
<1>6. Bill!TimesRise'
  <2>1. \A i \in 1..Len(r1) : r1[i].at <= row.at
    BY <1>1, <1>2, <1>4 DEF Bill!TimesRise, Bill!Newest, row
  <2>2. \A i, j \in 1..Len(r1') : i <= j => r1'[i].at <= r1'[j].at
    BY <1>2, <1>4, <2>1 DEF Bill!TimesRise, row
  <2>3. r3.last <= row.at \/ r3.last <= r8
    <3>1. CASE r1 = <<>>
      BY <1>2, <3>1 DEF Bill!TimesRise, Bill!Never, row
    <3>2. CASE r1 # <<>>
      BY <1>1, <1>2, <1>4, <2>1, <3>2 DEF Bill!TimesRise, Bill!Newest, Bill!TypeOK, row
    <3> QED
      BY <3>1, <3>2
  <2> QED
    BY <1>1, <1>4, <2>2, <2>3 DEF Bill!TimesRise, Bill!Newest
<1>10. /\ Bill!Bought \subseteq Bill!Bought'
       /\ \A c \in 1..Len(r1) : Bill!Dates(0, c) => Bill!Dates(0, c)'
       /\ \A c \in 1..Len(r1) : Bill!Dates(0, c)' => Bill!Dates(0, c)
  <2>1. \A n \in 1..Len(r1) : n \in Bill!Bought' <=> n \in Bill!Bought
    BY <1>4 DEF Bill!Bought
  <2>2. Bill!Bought \subseteq 1..Len(r1) /\ Bill!Bought' \subseteq 1..(Len(r1) + 1)
    BY <1>4 DEF Bill!Bought
  <2> QED
    BY <1>4, <2>1, <2>2 DEF Bill!Dates
<1>7. Bill!HooksAreTrue'
  <2> SUFFICES ASSUME NEW h \in Hook, r5[h] # Bill!NoHook
               PROVE  /\ r5[h].pc # "idle" /\ r1' # <<>>
                      /\ IF r5[h].event = -1
                         THEN /\ Bill!Carries(h, 1)' /\ r5[h].at = r8
                              /\ r5[h].plan = FirstPlan /\ r5[h].usable
                         ELSE \E k, c \in 1..Len(r1') :
                                /\ IF r5[h].event = 0 THEN k \in Bill!Bought' /\ Bill!Dates(0, c)'
                                                      ELSE k = r5[h].event /\ c = r5[h].event
                                /\ Bill!Carries(h, k)' /\ r5[h].at = r1'[c].at
                      /\ r5[h].todo \subseteq Bill!Bundle(h)'
    BY <1>1 DEF Bill!HooksAreTrue, Bill!NoHook, Bill!NoEvent
  <2>1. \A k \in 1..Len(r1) : Bill!Carries(h, k) => Bill!Carries(h, k)'
    BY <1>1, <1>4 DEF Bill!Carries
  <2>2. /\ r5[h].pc # "idle" /\ r1 # <<>>
        /\ IF r5[h].event = -1
           THEN Bill!Carries(h, 1) /\ r5[h].at = r8 /\ r5[h].plan = FirstPlan /\ r5[h].usable
           ELSE \E k, c \in 1..Len(r1) :
                  /\ IF r5[h].event = 0 THEN k \in Bill!Bought /\ Bill!Dates(0, c)
                                        ELSE k = r5[h].event /\ c = r5[h].event
                  /\ Bill!Carries(h, k) /\ r5[h].at = r1[c].at
        /\ r5[h].todo \subseteq Bill!Bundle(h)
    BY <1>2 DEF Bill!HooksAreTrue, Bill!NoEvent
  <2>4. Bill!Bundle(h)' = Bill!Bundle(h)
    BY <1>1 DEF Bill!Bundle
  <2>5. CASE r5[h].event = -1
    BY <1>4, <2>1, <2>2, <2>4, <2>5
  <2>6. CASE r5[h].event # -1
    <3>1. PICK k \in 1..Len(r1), c \in 1..Len(r1) :
            /\ IF r5[h].event = 0 THEN k \in Bill!Bought /\ Bill!Dates(0, c)
                                  ELSE k = r5[h].event /\ c = r5[h].event
            /\ Bill!Carries(h, k) /\ r5[h].at = r1[c].at
      BY <2>2, <2>6
    <3>2. k \in 1..Len(r1') /\ c \in 1..Len(r1')
      BY <1>4, <3>1
    <3> QED
      BY <1>4, <1>10, <2>1, <2>2, <2>4, <2>6, <3>1, <3>2
  <2> QED
    BY <2>5, <2>6
<1>8. Bill!OverridesStand'
  <2>1. ASSUME NEW m \in Module,
               \A n \in 1..Len(r1') : r1'[n].plan # Unpriced => m \notin Defaults[r1'[n].plan]
        PROVE  \A n \in 1..Len(r1) : r1[n].plan # Unpriced => m \notin Defaults[r1[n].plan]
    BY <1>4, <2>1
  <2> QED
    BY <1>1, <1>2, <2>1 DEF Bill!OverridesStand
<1>9. ASSUME ~r7 PROVE Bill!Undisturbed'
  <2>1. Bill!Undisturbed
    BY <1>9 DEF Bill!IInv
  <2> USE DEF Bill!Undisturbed
  <2>2. Bill!OneAtATime' /\ Bill!HooksAreCurrent'
    BY <1>1, <2>1 DEF Bill!OneAtATime, Bill!HooksAreCurrent, Bill!Stale, Bill!Upserted,
                      Bill!Bundle, Bill!NoHook
  <2>3. r2 \subseteq r2' /\ Len(r1') \in r2'
    BY <1>1, <1>4
  <2>4. Bill!AcknowledgedIsWritten'
    BY <1>1, <1>4, <2>1, <2>3 DEF Bill!AcknowledgedIsWritten, Bill!Priced
  <2>5. Bill!Apart' => Bill!Apart
    BY <1>4, <1>10 DEF Bill!Apart
  <2>6. Bill!ModulesFollow => Bill!ModulesFollow'
    BY <1>1 DEF Bill!ModulesFollow
  <2>7. Bill!Owed => Bill!Owed'
    BY <1>1, <1>4, <2>3 DEF Bill!Owed, Bill!Priced
  <2>8. Bill!CheckoutIsHarmless => Bill!CheckoutIsHarmless'
    <3>1. \A k \in Bill!Bought : r1'[k] = r1[k] /\ k \in 1..Len(r1)
      BY <1>4 DEF Bill!Bought
    <3> QED
      BY <1>1, <1>10, <2>3, <3>1 DEF Bill!CheckoutIsHarmless, Bill!Carries, Bill!Upserted
  <2>9. Bill!TrialIsFirst'
    <3>1. 1..Len(r1) \subseteq r2 => 1..Len(r1') \subseteq r2'
      BY <1>4, <2>3
    <3> QED
      BY <1>1, <2>1, <2>6, <3>1 DEF Bill!TrialIsFirst, Bill!NoHook
  <2>10. Bill!PurchaseIsWritten => Bill!PurchaseIsWritten'
    <3>1. \A k \in Bill!Bought : r1'[k] = r1[k]
      BY <1>4 DEF Bill!Bought
    <3>2. \A c \in 1..Len(r1') : c \notin r2' => c \in 1..Len(r1) /\ c \notin r2
      BY <1>4, <2>3
    <3> QED
      BY <1>1, <1>4, <1>10, <3>1, <3>2 DEF Bill!PurchaseIsWritten, Bill!Priced
  <2> QED
    BY <2>1, <2>2, <2>4, <2>5, <2>6, <2>7, <2>8, <2>9, <2>10
<1> QED
  BY <1>1, <1>5, <1>6, <1>7, <1>8, <1>9 DEF Bill!IInv

\* The trial is created, before anything else has been written or is in flight.
LEMMA TrialBilling ==
  ASSUME Bill!IInv, NEW h \in Hook, NEW now \in Nat, Bill!CreateTrial(h, now)
  PROVE  Bill!IInv'
<1> DEFINE first == [of |-> "trial", plan |-> FirstPlan, usable |-> TRUE, at |-> 2]
           row == [pc |-> "check", event |-> -1, plan |-> FirstPlan, usable |-> TRUE,
                   at |-> now, todo |-> {}]
<1>1. /\ r1 = <<>> /\ r1' = <<first>> /\ r2' = {1} /\ r8' = now /\ r5' = [r5 EXCEPT ![h] = row]
      /\ r3' = r3 /\ r4' = r4 /\ r6' = r6 /\ r7' = r7
  BY DEF Bill!CreateTrial, Bill!NoEvent
<1>2. Bill!TypeOK /\ Bill!TimesRise /\ Bill!HooksAreTrue /\ Bill!OverridesStand
  BY DEF Bill!IInv
<1>3. r3.plan = FirstPlan /\ r3.usable = TRUE /\ r3.last = 0
  BY <1>1, <1>2 DEF Bill!TimesRise, Bill!Never
<1>4. \A g \in Hook : r5[g] = Bill!NoHook
  BY <1>1, <1>2 DEF Bill!HooksAreTrue
<1>5. row \in Bill!HookRow /\ first \in Bill!VersionRow
  BY BillingValues DEF Bill!HookRow, Bill!VersionRow, Bill!NoEvent
<1>6. /\ r5' \in [Hook -> Bill!HookRow] /\ r5'[h] = row
      /\ \A g \in Hook : g # h => r5'[g] = Bill!NoHook /\ r5'[g].pc = "idle"
  BY <1>1, <1>2, <1>4, <1>5, NoHookIsIdle DEF Bill!TypeOK
<1>7. r1' \in Seq(Bill!VersionRow) /\ Len(r1') = 1 /\ r1'[1] = first /\ Len(r1) = 0
  BY <1>1, <1>5, EmptySeq
<1>8. /\ row.pc = "check" /\ row.event = -1 /\ row.plan = FirstPlan /\ row.usable = TRUE
      /\ row.at = now /\ row.todo = {}
      /\ first.plan = FirstPlan /\ first.usable = TRUE /\ first.at = 2 /\ first.of = "trial"
  OBVIOUS
<1> HIDE DEF row, first
<1>9. Bill!TypeOK'
  BY <1>1, <1>2, <1>6, <1>7 DEF Bill!TypeOK
<1>10. Bill!TimesRise'
  BY <1>1, <1>3, <1>7, <1>8 DEF Bill!TimesRise, Bill!Newest
<1>11. Bill!HooksAreTrue'
  <2>1. Bill!Carries(h, 1)' /\ r5'[h].todo \subseteq Bill!Bundle(h)' /\ r1' # <<>>
    BY <1>1, <1>6, <1>7, <1>8 DEF Bill!Carries
  <2> QED
    BY <1>1, <1>6, <1>8, <2>1, NoHookIsIdle DEF Bill!HooksAreTrue, Bill!NoEvent
<1>12. Bill!OverridesStand'
  BY <1>1, <1>2, <1>7 DEF Bill!OverridesStand
<1>13. ASSUME ~r7 PROVE Bill!Undisturbed'
  <2>1. Bill!OneAtATime'
    BY <1>6, NoHookIsIdle DEF Bill!OneAtATime
  <2>2. Bill!HooksAreCurrent' /\ Bill!CheckoutIsHarmless'
    BY <1>6, <1>8 DEF Bill!HooksAreCurrent, Bill!CheckoutIsHarmless
  <2>3. Bill!AcknowledgedIsWritten'
    BY <1>1, <1>7 DEF Bill!AcknowledgedIsWritten
  <2>4. Bill!ModulesFollow
    <3>1. ~Bill!Owed /\ Bill!Apart
      BY <1>7 DEF Bill!Owed, Bill!Apart
    <3> QED
      BY <1>13, <3>1 DEF Bill!IInv, Bill!Undisturbed
  <2>5. Bill!ModulesFollow'
    BY <1>1, <2>4 DEF Bill!ModulesFollow
  <2>6. Bill!TrialIsFirst'
    <3>1. 1..Len(r1') \subseteq r2'
      BY <1>1, <1>7
    <3> QED
      BY <1>1, <1>3, <2>5, <3>1 DEF Bill!TrialIsFirst, Bill!Never
  <2>7. Bill!PurchaseIsWritten'
    BY <1>7, <1>8 DEF Bill!PurchaseIsWritten, Bill!Dates, Bill!Bought
  <2> QED
    BY <2>1, <2>2, <2>3, <2>5, <2>6, <2>7 DEF Bill!Undisturbed
<1> QED
  BY <1>1, <1>9, <1>10, <1>11, <1>12, <1>13 DEF Bill!IInv

\* What does not depend on the syncs, while version, its order and the trial stay.
LEMMA SameVersions ==
  ASSUME r1' = r1, r8' = r8
  PROVE  /\ (Bill!Apart' <=> Bill!Apart) /\ (Bill!Decisive' <=> Bill!Decisive)
         /\ Bill!Newest' = Bill!Newest /\ Bill!Bought' = Bill!Bought
         /\ \A c : Bill!Dates(0, c)' <=> Bill!Dates(0, c)
         /\ \A n \in 1..Len(r1) : Bill!Priced(n)' <=> Bill!Priced(n)
BY DEF Bill!Apart, Bill!Decisive, Bill!Latest, Bill!Newest, Bill!Priced, Bill!Bought, Bill!Dates

\* What a step keeps that leaves the row, the modules and the events alone, or only
\* acknowledges one that can never be applied.
LEMMA QuietBilling ==
  ASSUME r1' = r1, r3' = r3, r4' = r4, r8' = r8, Bill!TypeOK, Bill!AcknowledgedIsWritten,
         Bill!PurchaseIsWritten, r2' \subseteq r2,
         \A k \in 1..Len(r1) : Bill!Priced(k) /\ k \notin r2' => k \notin r2
  PROVE  /\ Bill!AcknowledgedIsWritten' /\ Bill!PurchaseIsWritten'
         /\ Bill!ModulesFollow => Bill!ModulesFollow'
         /\ (\A g \in Hook : r5[g] = Bill!NoHook) /\ Bill!Owed => Bill!Owed'
<1>1. Len(r1) \in Nat
  BY VersionsAreRows
<1>2. Bill!Decisive => Len(r1) \in 1..Len(r1) /\ Bill!Priced(Len(r1))
  BY <1>1, VersionsAreRows DEF Bill!Decisive, Bill!Priced, Bill!Newest
<1>3. Bill!AcknowledgedIsWritten'
  BY <1>2, SameVersions DEF Bill!AcknowledgedIsWritten
<1>4. Bill!PurchaseIsWritten'
  BY SameVersions DEF Bill!PurchaseIsWritten
<1>5. Bill!ModulesFollow => Bill!ModulesFollow'
  BY DEF Bill!ModulesFollow
<1>6. (\A g \in Hook : r5[g] = Bill!NoHook) /\ Bill!Owed => Bill!Owed'
  BY SameVersions, NoHookIsIdle DEF Bill!Owed
<1> QED
  BY <1>3, <1>4, <1>5, <1>6

\* An event comes in.  If nothing else is in flight and the checkout's event brings the
\* newest version of what was bought, that version is due or was acknowledged, and so has
\* been written.
LEMMA ReceiveBilling ==
  ASSUME Bill!IInv, NEW h \in Hook, NEW n \in Bill!Event, Bill!Receive(h, n)
  PROVE  Bill!IInv'
<1>1. /\ r1' = r1 /\ r3' = r3 /\ r4' = r4 /\ r6' = r6 /\ r8' = r8 /\ r5[h] = Bill!NoHook
      /\ n \in Nat /\ r7' = (r7 \/ \E g \in Hook : r5[g] # Bill!NoHook)
  BY DEF Bill!Receive, Bill!Event
<1>2. Bill!TypeOK /\ Bill!TimesRise /\ Bill!HooksAreTrue /\ Bill!OverridesStand
  BY DEF Bill!IInv
<1> DEFINE row(k, c) == [pc |-> "check", event |-> n, plan |-> r1[k].plan,
                         usable |-> r1[k].usable, at |-> r1[c].at, todo |-> {}]
<1>9. PICK k \in 1..Len(r1), c \in 1..Len(r1) :
        /\ Bill!Reports(n, k) /\ Bill!Dates(n, c)
        /\ IF r1[k].plan = Unpriced
           THEN r2' = r2 \ {n} /\ r5' = r5
           ELSE r5' = [r5 EXCEPT ![h] = row(k, c)] /\ r2' = r2
  BY DEF Bill!Receive
<1> HIDE DEF row
<1>3. /\ Len(r1) \in Nat \ {0} /\ r1 # <<>>
      /\ \A j \in 1..Len(r1) : r1[j] \in Bill!VersionRow /\ r1[j].at \in Nat \ {0}
  BY <1>2, <1>9, VersionsAreRows
<1>4. Bill!TimesRise' /\ Bill!OverridesStand'
  BY <1>1, <1>2, SameVersions DEF Bill!TimesRise, Bill!OverridesStand
<1>5. ~r7' => Bill!Undisturbed /\ \A g \in Hook : r5[g] = Bill!NoHook
  BY <1>1 DEF Bill!IInv
<1>6. r7' \in BOOLEAN
  BY <1>1
<1>7. CASE r1[k].plan = Unpriced
  <2>1. r5' = r5 /\ r2' = r2 \ {n}
    BY <1>7, <1>9
  <2>2. Bill!TypeOK'
    BY <1>1, <1>2, <1>6, <2>1 DEF Bill!TypeOK
  <2>4. Bill!HooksAreTrue'
    BY <1>1, <1>2, <2>1, SameVersions, NoHookIsIdle
       DEF Bill!HooksAreTrue, Bill!Carries, Bill!Bundle
  <2>3. ASSUME ~r7' PROVE Bill!Undisturbed'
    <3>1. \A g \in Hook : r5'[g] = Bill!NoHook /\ r5'[g].pc = "idle"
      BY <1>5, <2>1, <2>3, NoHookIsIdle
    <3>2. /\ Bill!OneAtATime' /\ Bill!HooksAreCurrent' /\ Bill!CheckoutIsHarmless'
          /\ Bill!TrialIsFirst'
      BY <3>1, NoHookIsIdle
         DEF Bill!OneAtATime, Bill!HooksAreCurrent, Bill!CheckoutIsHarmless, Bill!TrialIsFirst
    <3>3. \A j \in 1..Len(r1) : Bill!Priced(j) /\ j \notin r2' => j \notin r2
      BY <1>7, <1>9, <2>1 DEF Bill!Priced, Bill!Reports
    <3>4. /\ Bill!AcknowledgedIsWritten
          /\ Bill!Apart => (Bill!ModulesFollow \/ Bill!Owed) /\ Bill!PurchaseIsWritten
      BY <1>5, <2>3 DEF Bill!Undisturbed
    <3>5. r2' \subseteq r2
      BY <2>1
    <3>6. Bill!AcknowledgedIsWritten'
      <4>1. Bill!Decisive => Len(r1) \in 1..Len(r1) /\ Bill!Priced(Len(r1))
        BY <1>3 DEF Bill!Decisive, Bill!Priced, Bill!Newest
      <4> QED
        BY <1>1, <3>3, <3>4, <4>1, SameVersions DEF Bill!AcknowledgedIsWritten
    <3>7. ASSUME Bill!Apart
          PROVE  (Bill!ModulesFollow' \/ Bill!Owed') /\ Bill!PurchaseIsWritten'
      BY <1>1, <1>2, <1>5, <2>3, <3>3, <3>4, <3>5, <3>7, QuietBilling
    <3> QED
      BY <1>1, <3>2, <3>6, <3>7, SameVersions DEF Bill!Undisturbed
  <2> QED
    BY <1>4, <2>2, <2>3, <2>4 DEF Bill!IInv
<1>8. CASE r1[k].plan # Unpriced
  <2>1. r5' = [r5 EXCEPT ![h] = row(k, c)] /\ r2' = r2
    BY <1>8, <1>9
  <2>2. /\ row(k, c).plan = r1[k].plan /\ row(k, c).usable = r1[k].usable
        /\ row(k, c).at = r1[c].at /\ row(k, c).event = n /\ row(k, c).pc = "check"
        /\ row(k, c).todo = {}
        /\ row(k, c) \in Bill!HookRow
    <3>1. r1[k].plan \in Plan /\ r1[k].usable \in BOOLEAN /\ r1[c].at \in Nat
      BY <1>3, <1>8, <1>9 DEF Bill!VersionRow
    <3> QED
      BY <1>1, <3>1 DEF row, Bill!HookRow
  <2>3. /\ n = 0 => k \in Bill!Bought /\ Bill!Dates(0, c) /\ (\A j \in Bill!Bought : j <= k)
        /\ n # 0 => k = n /\ c = n
    BY <1>9 DEF Bill!Reports, Bill!Dates
  <2>4. /\ r5'[h] = row(k, c) /\ \A g \in Hook : g # h => r5'[g] = r5[g]
        /\ r5' \in [Hook -> Bill!HookRow]
    BY <1>2, <2>1, <2>2 DEF Bill!TypeOK
  <2>5. Bill!TypeOK'
    BY <1>1, <1>2, <1>6, <2>1, <2>4 DEF Bill!TypeOK
  <2>6. Bill!HooksAreTrue'
    <3>1. ASSUME NEW g \in Hook, g # h, r5'[g] # Bill!NoHook
          PROVE  /\ r5'[g].pc # "idle" /\ r1' # <<>>
                 /\ IF r5'[g].event = -1
                    THEN Bill!Carries(g, 1)' /\ r5'[g].at = r8' /\ r5'[g].plan = FirstPlan /\ r5'[g].usable
                    ELSE \E i, j \in 1..Len(r1') :
                           /\ IF r5'[g].event = 0 THEN i \in Bill!Bought' /\ Bill!Dates(0, j)'
                                                  ELSE i = r5'[g].event /\ j = r5'[g].event
                           /\ Bill!Carries(g, i)' /\ r5'[g].at = r1'[j].at
                 /\ r5'[g].todo \subseteq Bill!Bundle(g)'
      <4>1. /\ r5'[g] = r5[g] /\ Bill!Bundle(g)' = Bill!Bundle(g)
            /\ \A i : Bill!Carries(g, i)' <=> Bill!Carries(g, i)
        BY <1>1, <2>4, <3>1 DEF Bill!Bundle, Bill!Carries
      <4> QED
        BY <1>1, <1>2, <3>1, <4>1, SameVersions DEF Bill!HooksAreTrue, Bill!NoEvent
    <3>2. /\ r5'[h].pc # "idle" /\ r1' # <<>> /\ r5'[h].event # -1
          /\ IF r5'[h].event = 0 THEN k \in Bill!Bought' /\ Bill!Dates(0, c)'
                                 ELSE k = r5'[h].event /\ c = r5'[h].event
          /\ Bill!Carries(h, k)' /\ r5'[h].at = r1'[c].at
          /\ r5'[h].todo \subseteq Bill!Bundle(h)'
      BY <1>1, <1>3, <2>2, <2>3, <2>4, SameVersions DEF Bill!Carries
    <3> QED
      BY <1>1, <1>9, <3>1, <3>2, NoHookIsIdle DEF Bill!HooksAreTrue, Bill!NoEvent
  <2>7. ASSUME ~r7' PROVE Bill!Undisturbed'
    <3>0. /\ Bill!AcknowledgedIsWritten /\ \A g \in Hook : r5[g] = Bill!NoHook
          /\ Bill!Apart => (Bill!ModulesFollow \/ Bill!Owed) /\ Bill!PurchaseIsWritten
      BY <1>5, <2>7 DEF Bill!Undisturbed
    <3>1. /\ Bill!OneAtATime' /\ Bill!HooksAreCurrent' /\ Bill!TrialIsFirst'
      BY <1>1, <3>0, <2>2, <2>4, NoHookIsIdle
         DEF Bill!OneAtATime, Bill!HooksAreCurrent, Bill!TrialIsFirst, Bill!NoEvent
    <3>2. Bill!AcknowledgedIsWritten'
      BY <1>1, <2>1, <3>0, SameVersions DEF Bill!AcknowledgedIsWritten
    <3>3. ASSUME Bill!Apart
          PROVE  /\ Bill!ModulesFollow' \/ Bill!Owed'
                 /\ Bill!CheckoutIsHarmless' /\ Bill!PurchaseIsWritten'
      <4>2. (Bill!ModulesFollow' \/ Bill!Owed') /\ Bill!PurchaseIsWritten'
        BY <1>1, <1>2, <2>1, <3>0, <3>3, QuietBilling
      <4>3. ASSUME n = 0, k \notin r2
            PROVE  \/ r1[c].at < r3.last
                   \/ r3.plan = r1[k].plan /\ r3.usable = r1[k].usable /\ r3.last = r1[c].at
        <5>0. c \in Bill!Bought /\ c <= k /\ r3.last \in Nat /\ Bill!Bought \subseteq 1..Len(r1)
          BY <1>2, <1>9, <2>3, <4>3 DEF Bill!Dates, Bill!TypeOK, Bill!Bought
        <5>1. r1[k].at <= r3.last
          BY <1>8, <3>0, <4>3 DEF Bill!Priced, Bill!AcknowledgedIsWritten
        <5>2. CASE c # k
          <6>1. r1[c].at # r1[k].at
            BY <1>9, <2>3, <3>3, <4>3, <5>2 DEF Bill!Apart
          <6>2. r1[c].at <= r1[k].at
            BY <1>2, <5>0 DEF Bill!TimesRise
          <6> QED
            BY <1>3, <5>0, <5>1, <6>1, <6>2
        <5>3. CASE c = k
          <6>1. \A j \in Bill!Bought : j = c
            BY <1>3, <2>3, <4>3, <5>0, <5>3 DEF Bill!Dates
          <6>2. r3.last = r1[c].at => r3.plan = r1[c].plan /\ r3.usable = r1[c].usable
            BY <1>8, <2>3, <3>0, <3>3, <4>3, <5>3, <6>1 DEF Bill!PurchaseIsWritten, Bill!Priced
          <6> QED
            BY <1>3, <5>0, <5>1, <5>3, <6>2
        <5> QED
          BY <5>2, <5>3
      <4>4. ASSUME n = 0 PROVE k \in r2 \/ r1[c].at < r3.last \/ r3 = Bill!Upserted(h)'
        <5>1. r3 = [plan |-> r3.plan, usable |-> r3.usable, last |-> r3.last]
          BY <1>2 DEF Bill!TypeOK
        <5> QED
          BY <2>2, <2>4, <4>3, <4>4, <5>1 DEF Bill!Upserted
      <4>5. Bill!CheckoutIsHarmless'
        <5>1. \A g \in Hook : r5'[g].pc # "idle" => g = h
          BY <2>4, <3>0, NoHookIsIdle
        <5>2. Bill!Carries(h, k)'
          BY <1>1, <2>2, <2>4 DEF Bill!Carries
        <5> QED
          BY <1>1, <2>1, <2>2, <2>3, <2>4, <4>4, <5>1, <5>2, SameVersions DEF Bill!CheckoutIsHarmless
      <4> QED
        BY <4>2, <4>5
    <3> QED
      BY <1>1, <3>1, <3>2, <3>3, SameVersions DEF Bill!Undisturbed
  <2> QED
    BY <1>4, <2>5, <2>6, <2>7 DEF Bill!IInv
<1> QED
  BY <1>7, <1>8

\* Below, the step of a sync h that is in flight: the event stays what it is, so that
\* it is enough to say what the row of h becomes.
HandledRow(h, row) ==
  /\ r1' = r1 /\ r6' = r6 /\ r8' = r8 /\ r7' \in BOOLEAN
  /\ ~r7' => ~r7 \/ \A g \in Hook : g # h => r5[g] = Bill!NoHook
  /\ r5' = [r5 EXCEPT ![h] = row]
  /\ \/ row = Bill!NoHook
     \/ /\ row.event = r5[h].event /\ row.plan = r5[h].plan /\ row.usable = r5[h].usable
        /\ row.at = r5[h].at /\ row.pc # "idle" /\ row.todo \subseteq Bill!Bundle(h)

\* What such a step keeps, and what remains to be shown of the row of h.
LEMMA HandledBilling ==
  ASSUME Bill!IInv, NEW h \in Hook, r5[h] # Bill!NoHook,
         NEW row \in Bill!HookRow, HandledRow(h, row)
  PROVE  /\ r5'[h] = row /\ \A g \in Hook : g # h => r5'[g] = r5[g]
         /\ r5' \in [Hook -> Bill!HookRow]
         /\ Bill!HooksAreTrue'
         /\ ~r7' => /\ Bill!OneAtATime'
                    /\ \A g \in Hook : g # h => r5[g] = Bill!NoHook /\ r5'[g] = Bill!NoHook
                                                /\ r5'[g].pc = "idle" /\ r5[g].pc = "idle"
<1>1. Bill!TypeOK /\ Bill!HooksAreTrue
  BY DEF Bill!IInv
<1>2. /\ r5'[h] = row /\ \A g \in Hook : g # h => r5'[g] = r5[g]
      /\ r5' \in [Hook -> Bill!HookRow]
  BY <1>1 DEF HandledRow, Bill!TypeOK
<1>3. Bill!HooksAreTrue'
  <2>1. \A g \in Hook : g # h => Bill!Bundle(g)' = Bill!Bundle(g)
    BY <1>2 DEF Bill!Bundle
  <2>2. row # Bill!NoHook => Bill!Bundle(h)' = Bill!Bundle(h)
    BY <1>2 DEF Bill!Bundle, HandledRow
  <2>3. \A g \in Hook : r5'[g] # Bill!NoHook =>
          /\ r5[g] # Bill!NoHook /\ r5'[g].event = r5[g].event /\ r5'[g].at = r5[g].at
          /\ r5'[g].plan = r5[g].plan /\ r5'[g].usable = r5[g].usable
          /\ r5'[g].pc # "idle" /\ r5'[g].todo \subseteq Bill!Bundle(g)'
    BY <1>1, <1>2, <2>1, <2>2 DEF HandledRow, Bill!HooksAreTrue
  <2>4. r1' = r1 /\ r8' = r8 /\ (Bill!NoHook)' = Bill!NoHook
    BY DEF HandledRow, Bill!NoHook
  <2>5. ASSUME NEW g \in Hook, r5'[g] # Bill!NoHook
        PROVE  /\ r5'[g].pc # "idle" /\ r1' # <<>>
               /\ IF r5'[g].event = -1
                  THEN Bill!Carries(g, 1)' /\ r5'[g].at = r8' /\ r5'[g].plan = FirstPlan /\ r5'[g].usable
                  ELSE \E i, j \in 1..Len(r1') :
                         /\ IF r5'[g].event = 0 THEN i \in Bill!Bought' /\ Bill!Dates(0, j)'
                                                ELSE i = r5'[g].event /\ j = r5'[g].event
                         /\ Bill!Carries(g, i)' /\ r5'[g].at = r1'[j].at
               /\ r5'[g].todo \subseteq Bill!Bundle(g)'
    <3>1. \A i : Bill!Carries(g, i)' <=> Bill!Carries(g, i)
      BY <2>3, <2>4, <2>5 DEF Bill!Carries
    <3> QED
      BY <1>1, <2>3, <2>4, <2>5, <3>1, SameVersions DEF Bill!HooksAreTrue, Bill!NoEvent
  <2> QED
    BY <2>4, <2>5 DEF Bill!HooksAreTrue, Bill!NoEvent
<1>4. ASSUME ~r7'
      PROVE  /\ Bill!OneAtATime'
             /\ \A g \in Hook : g # h => r5[g] = Bill!NoHook /\ r5'[g] = Bill!NoHook
                                         /\ r5'[g].pc = "idle" /\ r5[g].pc = "idle"
  <2>2. \A g \in Hook : g # h => r5[g] = Bill!NoHook
    BY <1>4 DEF Bill!IInv, Bill!Undisturbed, HandledRow, Bill!OneAtATime
  <2> QED
    BY <1>2, <2>2, NoHookIsIdle DEF Bill!OneAtATime
<1> QED
  BY <1>2, <1>3, <1>4

\* The staleness check: an event that is acknowledged as stale is older than the row,
\* so that it is neither the newest nor owed.
LEMMA CheckBilling ==
  ASSUME Bill!IInv, NEW h \in Hook, Bill!CheckStale(h)
  PROVE  Bill!IInv'
<1>0. Bill!TypeOK /\ Bill!TimesRise /\ Bill!HooksAreTrue /\ Bill!OverridesStand
  BY DEF Bill!IInv
<1>1. /\ r1' = r1 /\ r3' = r3 /\ r4' = r4 /\ r6' = r6 /\ r7' = r7 /\ r8' = r8
      /\ r5[h].pc = "check" /\ r5[h] # Bill!NoHook
  BY DEF Bill!CheckStale, Bill!NoHook
<1>2. Bill!TimesRise' /\ Bill!OverridesStand'
  BY <1>0, <1>1, SameVersions DEF Bill!TimesRise, Bill!OverridesStand
<1>3. Len(r1) \in Nat \ {0} /\ \A n \in 1..Len(r1) : r1[n].at \in Nat
  BY <1>0, <1>1, VersionsAreRows, WebhookIsOfAVersion
<1>4. r3.last \in Nat /\ r5[h].at \in Nat /\ r5[h] \in Bill!HookRow /\ r7 \in BOOLEAN /\ r8 \in Nat
  BY <1>0 DEF Bill!TypeOK, Bill!HookRow
<1>5. CASE Bill!Stale(h)
  <2>1. r5' = [r5 EXCEPT ![h] = Bill!NoHook] /\ r2' = r2 \ {r5[h].event}
    BY <1>5 DEF Bill!CheckStale, Bill!Acknowledge
  <2>2. Bill!NoHook \in Bill!HookRow /\ HandledRow(h, Bill!NoHook)
    BY <1>1, <1>4, <2>1, BillingValues DEF Bill!HookRow, Bill!NoHook, HandledRow, Bill!NoEvent
  <2>3. Bill!TypeOK' /\ Bill!HooksAreTrue'
    BY <1>0, <1>1, <2>2, HandledBilling DEF Bill!TypeOK
  <2>4. ASSUME ~r7' PROVE Bill!Undisturbed'
    <3>0. /\ Bill!AcknowledgedIsWritten
          /\ Bill!Apart => (Bill!ModulesFollow \/ Bill!Owed) /\ Bill!PurchaseIsWritten
      BY <1>1, <2>4 DEF Bill!IInv, Bill!Undisturbed
    <3>1. Bill!OneAtATime' /\ \A g \in Hook : r5'[g] = Bill!NoHook /\ r5'[g].pc = "idle"
      BY <1>1, <2>2, <2>4, HandledBilling, NoHookIsIdle
    <3>2. Bill!HooksAreCurrent' /\ Bill!CheckoutIsHarmless' /\ Bill!TrialIsFirst'
      BY <3>1, NoHookIsIdle DEF Bill!HooksAreCurrent, Bill!CheckoutIsHarmless, Bill!TrialIsFirst
    <3>3. \A n \in 1..Len(r1) : n \notin r2' => n \notin r2 \/ r1[n].at < r3.last
      <4>1. r5[h].at < r3.last
        BY <1>4, <1>5 DEF Bill!Stale
      <4>2. \A n \in 1..Len(r1) : n = r5[h].event => r1[n].at = r5[h].at
        BY <1>0, <1>1, <1>3, WebhookIsOfAVersion
      <4> QED
        BY <2>1, <4>1, <4>2
    <3>4. Bill!Decisive /\ Len(r1) \notin r2' => Len(r1) \notin r2
      <4>1. Bill!Decisive => r1[Len(r1)].at >= r3.last
        BY <1>0, <1>3, <1>4 DEF Bill!TimesRise, Bill!Newest, Bill!Decisive
      <4> QED
        BY <1>3, <1>4, <3>3, <4>1
    <3>5. Bill!AcknowledgedIsWritten'
      BY SMTT(30), <1>1, <1>3, <1>4, <3>0, <3>3, <3>4, SameVersions
         DEF Bill!AcknowledgedIsWritten
    <3>6. Bill!Owed => Bill!Owed'
      <4>1. \A g \in Hook : r5[g].pc # "modules"
        BY <1>1, <2>2, <2>4, HandledBilling
      <4> QED
        BY <1>1, <1>3, <1>4, <3>3, <4>1, SameVersions DEF Bill!Owed
    <3>7. Bill!ModulesFollow => Bill!ModulesFollow'
      BY <1>1 DEF Bill!ModulesFollow
    <3>8. Bill!PurchaseIsWritten => Bill!PurchaseIsWritten'
      <4>1. ASSUME NEW c \in 1..Len(r1), c \notin r2', r3.last = r1[c].at
            PROVE  c \notin r2
        BY <1>3, <1>4, <3>3, <4>1
      <4> QED
        BY <1>1, <4>1, SameVersions DEF Bill!PurchaseIsWritten
    <3> QED
      BY <1>1, <3>0, <3>1, <3>2, <3>5, <3>6, <3>7, <3>8, SameVersions DEF Bill!Undisturbed
  <2> QED
    BY <1>2, <2>3, <2>4 DEF Bill!IInv
<1>6. CASE ~Bill!Stale(h)
  <2> DEFINE row == [r5[h] EXCEPT !.pc = "upsert"]
  <2>1. r5' = [r5 EXCEPT ![h] = row] /\ r2' = r2
    BY <1>0, <1>6 DEF Bill!CheckStale, Bill!TypeOK
  <2>2. row \in Bill!HookRow /\ row.pc = "upsert" /\ row.event = r5[h].event
        /\ row.plan = r5[h].plan /\ row.usable = r5[h].usable /\ row.at = r5[h].at
        /\ row.todo = r5[h].todo
    BY <1>4 DEF Bill!HookRow
  <2> HIDE DEF row
  <2>3. HandledRow(h, row)
    BY <1>0, <1>1, <1>4, <2>1, <2>2 DEF HandledRow, Bill!HooksAreTrue
  <2>4. Bill!TypeOK' /\ Bill!HooksAreTrue'
    BY <1>0, <1>1, <2>1, <2>2, <2>3, HandledBilling DEF Bill!TypeOK
  <2>5. ASSUME ~r7' PROVE Bill!Undisturbed'
    <3>0. Bill!Undisturbed
      BY <1>1, <2>5 DEF Bill!IInv
    <3>1. /\ Bill!OneAtATime' /\ r5'[h] = row
          /\ \A g \in Hook : g # h => /\ r5'[g].pc = "idle" /\ r5[g].pc = "idle"
                                      /\ r5'[g] = Bill!NoHook
      BY <1>1, <2>2, <2>3, <2>5, HandledBilling
    <3>2. Bill!HooksAreCurrent'
      BY <1>1, <1>6, <2>2, <3>1 DEF Bill!HooksAreCurrent, Bill!Stale
    <3>3. Bill!AcknowledgedIsWritten' /\ (Bill!PurchaseIsWritten => Bill!PurchaseIsWritten')
      BY <1>1, <2>1, <3>0, SameVersions
         DEF Bill!AcknowledgedIsWritten, Bill!PurchaseIsWritten, Bill!Undisturbed
    <3>4. Bill!CheckoutIsHarmless => Bill!CheckoutIsHarmless'
      BY <1>1, <2>1, <2>2, <3>1, SameVersions DEF Bill!CheckoutIsHarmless, Bill!Carries, Bill!Upserted
    <3>5. Bill!Owed => Bill!Owed'
      BY <1>1, <2>1, <3>1, SameVersions DEF Bill!Owed
    <3>6. Bill!ModulesFollow => Bill!ModulesFollow'
      BY <1>1 DEF Bill!ModulesFollow
    <3>7. Bill!TrialIsFirst'
      <4>1. Bill!TrialIsFirst
        BY <3>0 DEF Bill!Undisturbed
      <4> QED
        BY <1>1, <2>1, <2>2, <3>1, <3>6, <4>1, NoHookIsIdle DEF Bill!TrialIsFirst
    <3> QED
      BY <1>1, <3>0, <3>1, <3>2, <3>3, <3>4, <3>5, <3>6, <3>7, SameVersions DEF Bill!Undisturbed
  <2> QED
    BY <1>2, <2>4, <2>5 DEF Bill!IInv
<1> QED
  BY <1>5, <1>6

\* The row is written: it is no older than the one before, and if nothing newer than
\* that one is due, it is the same.  After an overlap nothing is known of the row before,
\* but when the newest change is written alone, it is the row from here on.
LEMMA UpsertBilling ==
  ASSUME Bill!IInv, NEW h \in Hook, Bill!UpsertSubscription(h)
  PROVE  Bill!IInv'
<1> DEFINE row == [r5[h] EXCEPT !.pc = "modules", !.todo = Bill!Bundle(h)]
<1>0. Bill!TypeOK /\ Bill!TimesRise /\ Bill!HooksAreTrue /\ Bill!OverridesStand
  BY DEF Bill!IInv
<1>1. /\ r1' = r1 /\ r2' = r2 /\ r4' = r4 /\ r6' = r6 /\ r8' = r8
      /\ r7' = (r7 /\ ~Bill!Mends(h))
      /\ r3' = Bill!Upserted(h) /\ r5[h].pc = "upsert" /\ r5[h] # Bill!NoHook
  BY DEF Bill!UpsertSubscription, Bill!Upserted, Bill!NoHook
<1>2. /\ Len(r1) \in Nat /\ \A n \in 1..Len(r1) : r1[n] \in Bill!VersionRow /\ r1[n].at \in Nat \ {0}
      /\ r3.last \in Nat /\ r5[h] \in Bill!HookRow /\ r8 \in Nat
  BY <1>0, VersionsAreRows DEF Bill!TypeOK
<1>3. /\ r1 # <<>> /\ Len(r1) \in 1..Len(r1)
      /\ \E k \in 1..Len(r1) : Bill!Carries(h, k) /\ Bill!Priced(k)
      /\ r5[h].event = -1 => r5[h].at = r8 /\ r5[h].plan = FirstPlan /\ r5[h].usable
      /\ r5[h].event = 0 =>
           \E c \in 1..Len(r1) : Bill!Dates(0, c) /\ r5[h].at = r1[c].at
      /\ r5[h].event \notin {-1, 0} =>
           /\ r5[h].event \in 1..Len(r1) /\ Bill!Carries(h, r5[h].event)
           /\ Bill!Priced(r5[h].event) /\ r5[h].at = r1[r5[h].event].at
      /\ r5[h].at \in Nat /\ (r5[h].at <= Bill!Newest.at \/ r5[h].at = r8)
      /\ r5[h].plan \in Plan /\ r5[h].usable \in BOOLEAN
  BY <1>0, <1>1, <1>2, WebhookIsOfAVersion, VersionsAreRows
<1>4. Bill!Bundle(h) \subseteq Module
  BY <1>3, BillingValues DEF Bill!Bundle
<1>5. /\ r5' = [r5 EXCEPT ![h] = row] /\ row \in Bill!HookRow /\ row.pc = "modules"
      /\ row.event = r5[h].event /\ row.plan = r5[h].plan /\ row.usable = r5[h].usable
      /\ row.at = r5[h].at /\ row.todo = Bill!Bundle(h)
  <2>1. r5' = [r5 EXCEPT ![h] = row]
    BY <1>0 DEF Bill!UpsertSubscription, Bill!TypeOK
  <2> QED
    BY <1>2, <1>4, <2>1 DEF Bill!HookRow
<1> HIDE DEF row
<1>6. HandledRow(h, row)
  BY <1>1, <1>5 DEF HandledRow, Bill!Mends
<1>7. /\ r3'.last = r5[h].at /\ r3'.plan = r5[h].plan /\ r3'.usable = r5[h].usable
      /\ r3' \in [plan : Plan, usable : BOOLEAN, last : Nat]
  BY <1>1, <1>3 DEF Bill!Upserted
<1>8. Bill!TypeOK' /\ Bill!HooksAreTrue'
  BY <1>0, <1>1, <1>5, <1>6, <1>7, HandledBilling DEF Bill!TypeOK, HandledRow
<1>9. Bill!TimesRise' /\ Bill!OverridesStand'
  <2>1. Bill!TimesRise'
    BY <1>0, <1>1, <1>2, <1>3, <1>7, SameVersions DEF Bill!TimesRise
  <2>2. Bill!OverridesStand'
    BY <1>0, <1>1 DEF Bill!OverridesStand
  <2> QED
    BY <2>1, <2>2
<1>10. ASSUME ~r7' PROVE Bill!Undisturbed'
  <2>1. /\ Bill!OneAtATime' /\ r5'[h] = row
        /\ \A g \in Hook : g # h => /\ r5'[g].pc = "idle" /\ r5[g].pc = "idle"
                                    /\ r5'[g] = Bill!NoHook
    BY <1>1, <1>5, <1>6, <1>10, HandledBilling
  <2>2. Bill!HooksAreCurrent'
    <3>1. Bill!Bundle(h)' = row.todo /\ Bill!Upserted(h)' = Bill!Upserted(h)
      BY <1>5, <2>1 DEF Bill!Bundle, Bill!Upserted
    <3> QED
      BY <1>1, <1>5, <2>1, <3>1 DEF Bill!HooksAreCurrent
  <2>3. Bill!CheckoutIsHarmless'
    BY <1>5, <2>1 DEF Bill!CheckoutIsHarmless
  <2>4. r5[h].event \notin {-1, 0} => Bill!Owed'
    <3>1. r5[h].event \notin {-1, 0} =>
            /\ r5[h].event \in 1..Len(r1) /\ Bill!Priced(r5[h].event)
            /\ r1[r5[h].event].at >= r3'.last
      BY <1>2, <1>3, <1>7
    <3> QED
      BY <1>1, <1>5, <2>1, <3>1, SameVersions DEF Bill!Owed
  <2>5. CASE r7
    <3>1. Bill!Mends(h) /\ r5[h].event = Len(r1)
      BY <1>1, <1>10, <2>5 DEF Bill!Mends
    <3>2. /\ r3'.last = Bill!Newest.at /\ r3'.plan = Bill!Newest.plan
          /\ r3'.usable = Bill!Newest.usable
          /\ \A n \in 1..Len(r1) : r1[n].at <= r3'.last /\ (n # Len(r1) => r1[n].at < r3'.last)
      <4>1. r5[h].event \notin {-1, 0} /\ Bill!Carries(h, Len(r1)) /\ r5[h].at = r1[Len(r1)].at
        BY <1>2, <1>3, <3>1
      <4>2. \A n \in 1..Len(r1) : n # Len(r1) => r1[n].at < r1[Len(r1)].at
        BY <1>2, <3>1 DEF Bill!Mends, Bill!Latest, Bill!Newest
      <4> QED
        BY <1>2, <1>3, <1>7, <4>1, <4>2 DEF Bill!Newest, Bill!Carries
    <3>3. Bill!AcknowledgedIsWritten'
      <4>1. r3' = [plan |-> Bill!Newest.plan, usable |-> Bill!Newest.usable, last |-> Bill!Newest.at]
        BY <1>7, <3>2
      <4> QED
        BY <1>1, <3>2, <4>1, SameVersions DEF Bill!AcknowledgedIsWritten
    <3>4. Bill!TrialIsFirst'
      <4>1. r5[h].event # -1
        BY <1>2, <3>1
      <4> QED
        BY <1>5, <2>1, <4>1 DEF Bill!TrialIsFirst, Bill!NoEvent
    <3>5. Bill!PurchaseIsWritten'
      <4>1. ASSUME NEW c \in 1..Len(r1), Bill!Dates(0, c), r3'.last = r1[c].at
            PROVE  \E j \in Bill!Bought : r3'.plan = r1[j].plan /\ r3'.usable = r1[j].usable
        <5>1. c = Len(r1) /\ c \in Bill!Bought
          BY <1>2, <3>2, <4>1 DEF Bill!Dates
        <5> QED
          BY <3>2, <5>1 DEF Bill!Newest
      <4> QED
        BY <1>1, <4>1, SameVersions DEF Bill!PurchaseIsWritten
    <3>6. r5[h].event \notin {-1, 0}
      BY <1>2, <1>3, <3>1
    <3> QED
      BY <2>1, <2>2, <2>3, <2>4, <3>3, <3>4, <3>5, <3>6 DEF Bill!Undisturbed
  <2>6. CASE ~r7
    <3>0. /\ Bill!AcknowledgedIsWritten /\ Bill!HooksAreCurrent /\ Bill!TrialIsFirst
          /\ Bill!Apart => (Bill!ModulesFollow \/ Bill!Owed) /\ Bill!CheckoutIsHarmless
                           /\ Bill!PurchaseIsWritten
      BY <2>6 DEF Bill!IInv, Bill!Undisturbed
    <3>1. r3.last <= r5[h].at
      <4>1. ~Bill!Stale(h)
        BY <1>1, <3>0 DEF Bill!HooksAreCurrent
      <4> QED
        BY <1>2, <1>3, <4>1 DEF Bill!Stale, Bill!Never
    <3>2. r5[h].event = -1 => /\ 1..Len(r1) \subseteq r2 /\ Bill!ModulesFollow
                              /\ r3.plan = FirstPlan /\ r3.usable
      BY <1>1, <3>0 DEF Bill!TrialIsFirst, Bill!NoEvent
    <3>3. r5[h].event = -1 => Bill!ModulesFollow'
      <4>1. r3.usable \in BOOLEAN
        BY <1>0 DEF Bill!TypeOK
      <4> QED
        BY <1>1, <1>3, <1>7, <3>2, <4>1 DEF Bill!ModulesFollow
    <3>4. Bill!AcknowledgedIsWritten'
      <4>1. ASSUME NEW n \in 1..Len(r1), Bill!Priced(n), n \notin r2
            PROVE  r1[n].at <= r3'.last
        <5>1. r1[n].at <= r3.last
          BY <3>0, <4>1 DEF Bill!AcknowledgedIsWritten
        <5> QED
          BY <1>2, <1>3, <1>7, <3>1, <5>1
      <4>2. ASSUME Bill!Decisive, Len(r1) \notin r2
            PROVE  r3' = [plan |-> Bill!Newest.plan, usable |-> Bill!Newest.usable, last |-> Bill!Newest.at]
        <5>1. r3 = [plan |-> Bill!Newest.plan, usable |-> Bill!Newest.usable, last |-> Bill!Newest.at]
          BY <3>0, <4>2 DEF Bill!AcknowledgedIsWritten
        <5>2. /\ Bill!Newest.at \in Nat /\ r3.last = Bill!Newest.at /\ r8 <= Bill!Newest.at
              /\ \A n \in 1..Len(r1) : n # Len(r1) => r1[n].at < Bill!Newest.at
              /\ Bill!Priced(Len(r1))
          BY <1>2, <1>3, <4>2, <5>1 DEF Bill!Newest, Bill!Decisive, Bill!Latest, Bill!Priced
        <5>3. r5[h].at = Bill!Newest.at
          BY <1>2, <1>3, <3>1, <5>2
        <5>4. CASE r5[h].event = -1
          BY <1>3, <3>2, <4>2, <5>4
        <5>5. CASE r5[h].event = 0
          <6>1. PICK c \in 1..Len(r1) : Bill!Dates(0, c) /\ r5[h].at = r1[c].at
            BY <1>3, <5>5
          <6>2. c = Len(r1)
            BY <1>2, <5>2, <5>3, <6>1
          <6>3. \A k \in Bill!Bought : k = Len(r1)
            BY <1>2, <6>1, <6>2 DEF Bill!Dates, Bill!Bought
          <6>4. \E k \in Bill!Bought : Bill!Carries(h, k)
            BY <1>0, <1>1, <5>5, WebhookIsOfAVersion
          <6>5. Bill!Carries(h, Len(r1))
            BY <6>3, <6>4
          <6> QED
            BY <1>1, <5>3, <6>5 DEF Bill!Upserted, Bill!Carries, Bill!Newest
        <5>6. CASE r5[h].event \notin {-1, 0}
          <6>1. r5[h].event = Len(r1) /\ Bill!Carries(h, Len(r1))
            BY <1>2, <1>3, <5>2, <5>3, <5>6
          <6> QED
            BY <1>1, <5>3, <6>1 DEF Bill!Upserted, Bill!Carries, Bill!Newest
        <5> QED
          BY <5>4, <5>5, <5>6
      <4> QED
        BY <1>1, <4>1, <4>2, SameVersions DEF Bill!AcknowledgedIsWritten
    <3>5. Bill!TrialIsFirst'
      <4>1. CASE r5[h].event = -1
        BY <1>1, <1>3, <1>5, <1>7, <2>1, <3>2, <3>3, <4>1, NoHookIsIdle
           DEF Bill!TrialIsFirst, Bill!NoEvent
      <4>2. CASE r5[h].event # -1
        BY <1>5, <2>1, <4>2, NoHookIsIdle DEF Bill!TrialIsFirst, Bill!NoEvent
      <4> QED
        BY <4>1, <4>2
    <3>6. ASSUME Bill!Apart PROVE Bill!PurchaseIsWritten'
      <4>1. ASSUME NEW c \in 1..Len(r1), Bill!Dates(0, c), c \notin r2, r3'.last = r1[c].at
            PROVE  \E j \in Bill!Bought : r3'.plan = r1[j].plan /\ r3'.usable = r1[j].usable
        <5>1. CASE r5[h].event = -1
          BY <3>2, <4>1, <5>1
        <5>2. CASE r5[h].event = 0
          BY <1>0, <1>1, <1>7, <5>2, WebhookIsOfAVersion DEF Bill!Carries
        <5>3. CASE r5[h].event \notin {-1, 0}
          <6>1. r5[h].event = c
            BY <1>3, <1>7, <3>6, <4>1, <5>3 DEF Bill!Apart
          <6> QED
            BY <1>3, <1>7, <4>1, <5>3, <6>1 DEF Bill!Dates, Bill!Carries
        <5> QED
          BY <5>1, <5>2, <5>3
      <4> QED
        BY <1>1, <4>1, SameVersions DEF Bill!PurchaseIsWritten
    <3>7. ASSUME Bill!Apart PROVE Bill!ModulesFollow' \/ Bill!Owed'
      <4>1. CASE r5[h].event \notin {-1, 0}
        BY <2>4, <4>1
      <4>2. CASE r5[h].event = -1
        BY <3>3, <4>2
      <4>3. CASE r5[h].event = 0
        <5>1. PICK k \in Bill!Bought :
                Bill!Carries(h, k) /\ (k \in r2 \/ r5[h].at < r3.last \/ r3 = Bill!Upserted(h))
          BY <1>1, <3>0, <3>7, <4>3 DEF Bill!CheckoutIsHarmless
        <5>2. ~(r5[h].at < r3.last)
          BY <1>2, <1>3, <3>1
        <5>3. CASE k \in r2
          <6>1. k \in 1..Len(r1) /\ Bill!Priced(k)
            BY <1>3, <5>1, BillingValues DEF Bill!Priced, Bill!Carries, Bill!Bought
          <6>2. PICK c \in 1..Len(r1) : Bill!Dates(0, c) /\ r5[h].at = r1[c].at
            BY <1>3, <4>3
          <6>3. r1[k].at >= r3'.last
            <7>1. c <= k
              BY <5>1, <6>2 DEF Bill!Dates
            <7> QED
              BY <1>0, <1>2, <1>7, <6>1, <6>2, <7>1 DEF Bill!TimesRise
          <6> QED
            BY <1>1, <5>3, <6>1, <6>3, SameVersions DEF Bill!Owed
        <5>4. CASE r3 = Bill!Upserted(h)
          <6>1. r3' = r3
            BY <1>1, <5>4
          <6>2. Bill!ModulesFollow => Bill!ModulesFollow'
            BY <1>1, <6>1 DEF Bill!ModulesFollow
          <6>3. Bill!Owed => Bill!Owed'
            BY <1>1, <1>5, <2>1, <6>1, SameVersions DEF Bill!Owed
          <6> QED
            BY <3>0, <3>7, <6>2, <6>3
        <5> QED
          BY <5>1, <5>2, <5>3, <5>4
      <4> QED
        BY <4>1, <4>2, <4>3
    <3> QED
      BY <1>1, <2>1, <2>2, <2>3, <3>4, <3>5, <3>6, <3>7, SameVersions DEF Bill!Undisturbed
  <2> QED
    BY <2>5, <2>6, <1>0 DEF Bill!TypeOK
<1> QED
  BY <1>8, <1>9, <1>10 DEF Bill!IInv

\* A module of the plan is switched on, on which nobody else had the last word.
LEMMA SwitchOnBilling ==
  ASSUME Bill!IInv, NEW h \in Hook, NEW m \in Module, Bill!SwitchOn(h, m)
  PROVE  Bill!IInv'
<1> DEFINE row == [r5[h] EXCEPT !.todo = @ \ {m}]
<1>0. Bill!TypeOK /\ Bill!TimesRise /\ Bill!HooksAreTrue /\ Bill!OverridesStand
  BY DEF Bill!IInv
<1>1. /\ r1' = r1 /\ r2' = r2 /\ r3' = r3 /\ r6' = r6 /\ r7' = r7 /\ r8' = r8
      /\ r4' = [r4 EXCEPT ![m] = [enabled |-> TRUE, source |-> "plan"]]
      /\ r5[h].pc = "modules" /\ r5[h] # Bill!NoHook /\ m \in r5[h].todo
  BY DEF Bill!SwitchOn, Bill!NoHook
<1>2. /\ r5[h] \in Bill!HookRow /\ r4' \in [Module -> Bill!ModuleRow]
      /\ r4'[m] = [enabled |-> TRUE, source |-> "plan"]
      /\ \A x \in Module : x # m => r4'[x] = r4[x]
  BY <1>0, <1>1 DEF Bill!TypeOK, Bill!ModuleRow
<1>3. PICK k \in 1..Len(r1) : Bill!Carries(h, k) /\ Bill!Priced(k)
  BY <1>0, <1>1, WebhookIsOfAVersion
<1>4. r5[h].usable /\ m \in Defaults[r5[h].plan] /\ r5[h].todo \subseteq Bill!Bundle(h)
  <2>1. r5[h].todo \subseteq Bill!Bundle(h)
    BY <1>0, <1>1, WebhookIsOfAVersion
  <2> QED
    BY <1>1, <2>1 DEF Bill!Bundle
<1>5. /\ r5' = [r5 EXCEPT ![h] = row] /\ row \in Bill!HookRow /\ row.pc = "modules"
      /\ row.event = r5[h].event /\ row.plan = r5[h].plan /\ row.usable = r5[h].usable
      /\ row.at = r5[h].at /\ row.todo = r5[h].todo \ {m}
  <2>1. r5' = [r5 EXCEPT ![h] = row]
    BY <1>0 DEF Bill!SwitchOn, Bill!TypeOK
  <2> QED
    BY <1>1, <1>2, <2>1 DEF Bill!HookRow
<1> HIDE DEF row
<1>6. HandledRow(h, row)
  BY <1>0, <1>1, <1>4, <1>5 DEF HandledRow, Bill!TypeOK
<1>7. Bill!TypeOK' /\ Bill!HooksAreTrue'
  BY <1>0, <1>1, <1>2, <1>5, <1>6, HandledBilling DEF Bill!TypeOK
<1>8. Bill!TimesRise'
  BY <1>0, <1>1, SameVersions DEF Bill!TimesRise
<1>9. Bill!OverridesStand'
  <2>1. r1[k].plan # Unpriced /\ m \in Defaults[r1[k].plan]
    BY <1>3, <1>4 DEF Bill!Carries, Bill!Priced
  <2> QED
    BY <1>0, <1>1, <1>2, <2>1 DEF Bill!OverridesStand
<1>10. ASSUME ~r7'
       PROVE  Bill!Undisturbed'
  <2>1. /\ Bill!OneAtATime' /\ r5'[h] = row
        /\ \A g \in Hook : g # h => /\ r5'[g].pc = "idle" /\ r5[g].pc = "idle"
                                    /\ r5'[g] = Bill!NoHook
    BY <1>1, <1>5, <1>6, <1>10, HandledBilling
  <2>2. /\ r3 = Bill!Upserted(h)
        /\ \A x \in Bill!Bundle(h) \ r5[h].todo : r4[x].source = "plan" => r4[x].enabled
    BY <1>1, <1>10 DEF Bill!IInv, Bill!Undisturbed, Bill!HooksAreCurrent
  <2>3. Bill!HooksAreCurrent'
    <3>1. /\ Bill!Bundle(h)' = Bill!Bundle(h) /\ Bill!Upserted(h)' = Bill!Upserted(h)
          /\ Bill!Bundle(h) \subseteq Module
      BY <1>2, <1>5, <2>1, BillingValues DEF Bill!Bundle, Bill!Upserted, Bill!HookRow
    <3>2. \A x \in Bill!Bundle(h) \ row.todo : r4'[x].source = "plan" => r4'[x].enabled
      BY <1>2, <1>5, <2>2, <3>1
    <3> QED
      BY <1>1, <1>5, <2>1, <2>2, <3>1, <3>2 DEF Bill!HooksAreCurrent
  <2>4. Bill!AcknowledgedIsWritten'
    BY <1>1, <1>10, SameVersions DEF Bill!AcknowledgedIsWritten, Bill!IInv, Bill!Undisturbed
  <2>5. Bill!CheckoutIsHarmless'
    BY <1>5, <2>1 DEF Bill!CheckoutIsHarmless
  <2>6. Bill!Owed => Bill!Owed'
    BY <1>1, <1>5, <2>1, SameVersions DEF Bill!Owed
  <2>7. Bill!ModulesFollow => Bill!ModulesFollow'
    <3>1. r3.usable /\ m \in Defaults[r3.plan]
      BY <1>4, <2>2 DEF Bill!Upserted
    <3> QED
      BY <1>1, <1>2, <3>1 DEF Bill!ModulesFollow
  <2>8. Bill!TrialIsFirst'
    <3>1. Bill!TrialIsFirst
      BY <1>1, <1>10 DEF Bill!IInv, Bill!Undisturbed
    <3> QED
      BY <1>1, <1>5, <2>1, <2>7, <3>1, NoHookIsIdle DEF Bill!TrialIsFirst
  <2>9. Bill!PurchaseIsWritten => Bill!PurchaseIsWritten'
    BY <1>1, SameVersions DEF Bill!PurchaseIsWritten
  <2> QED
    BY <1>1, <1>10, <2>1, <2>3, <2>4, <2>5, <2>6, <2>7, <2>8, <2>9, SameVersions DEF Bill!IInv, Bill!Undisturbed
<1> QED
  BY <1>7, <1>8, <1>9, <1>10 DEF Bill!IInv

\* The modules that the plan has not are switched off, and the event acknowledged: from
\* here on the modules of source plan are those of the row.
LEMMA SwitchOffBilling ==
  ASSUME Bill!IInv, NEW h \in Hook, Bill!SwitchOff(h)
  PROVE  Bill!IInv'
<1>0. Bill!TypeOK /\ Bill!TimesRise /\ Bill!HooksAreTrue /\ Bill!OverridesStand
  BY DEF Bill!IInv
<1>1. /\ r1' = r1 /\ r3' = r3 /\ r6' = r6 /\ r7' = r7 /\ r8' = r8
      /\ r5[h].pc = "modules" /\ r5[h] # Bill!NoHook /\ r5[h].todo = {}
      /\ r5' = [r5 EXCEPT ![h] = Bill!NoHook] /\ r2' = r2 \ {r5[h].event}
  BY DEF Bill!SwitchOff, Bill!NoHook, Bill!Acknowledge
<1>2. /\ \A m \in Module : r4'[m].source = r4[m].source
      /\ \A m \in Module : r4[m].source # "plan" => r4'[m] = r4[m]
      /\ \A m \in Module : r4[m].source = "plan" =>
           r4'[m].enabled = (m \in Bill!Bundle(h) /\ r4[m].enabled)
      /\ r4' \in [Module -> Bill!ModuleRow]
  BY <1>0 DEF Bill!SwitchOff, Bill!Withdrawn, Bill!TypeOK, Bill!ModuleRow
<1>3. Bill!NoHook \in Bill!HookRow /\ HandledRow(h, Bill!NoHook)
  BY <1>0, <1>1, BillingValues
     DEF Bill!HookRow, Bill!NoHook, HandledRow, Bill!NoEvent, Bill!TypeOK
<1>4. Bill!TypeOK' /\ Bill!HooksAreTrue'
  BY <1>0, <1>1, <1>2, <1>3, HandledBilling DEF Bill!TypeOK
<1>5. Bill!TimesRise'
  BY <1>0, <1>1, SameVersions DEF Bill!TimesRise
<1>6. Bill!OverridesStand'
  <2>1. ASSUME NEW m \in Module, r4[m] = [enabled |-> r6[m] = "on", source |-> "manual"]
        PROVE  r4'[m] = [enabled |-> r6'[m] = "on", source |-> "manual"]
    <3>1. r4[m].source # "plan"
      BY <2>1
    <3> QED
      BY <1>1, <1>2, <2>1, <3>1
  <2> QED
    BY <1>0, <1>1, <2>1 DEF Bill!OverridesStand
<1>7. ASSUME ~r7'
      PROVE  Bill!Undisturbed'
  <2>1. Bill!OneAtATime' /\ \A g \in Hook : r5'[g] = Bill!NoHook /\ r5'[g].pc = "idle"
    BY <1>1, <1>3, <1>7, HandledBilling, NoHookIsIdle
  <2>2. Bill!HooksAreCurrent' /\ Bill!CheckoutIsHarmless' /\ Bill!TrialIsFirst'
    BY <2>1, NoHookIsIdle DEF Bill!HooksAreCurrent, Bill!CheckoutIsHarmless, Bill!TrialIsFirst
  <2>3. /\ r3 = Bill!Upserted(h)
        /\ \A x \in Bill!Bundle(h) : r4[x].source = "plan" => r4[x].enabled
    BY <1>1, <1>7 DEF Bill!IInv, Bill!Undisturbed, Bill!HooksAreCurrent
  <2>4. Bill!AcknowledgedIsWritten'
    <3>1. /\ Len(r1) \in Nat \ {0} /\ \A n \in 1..Len(r1) : r1[n].at \in Nat
      BY <1>0, <1>1, VersionsAreRows, WebhookIsOfAVersion
    <3>2. r5[h].event \in 1..Len(r1) =>
            /\ Bill!Carries(h, r5[h].event) /\ r3.last = r1[r5[h].event].at
            /\ r3 = Bill!Upserted(h)
      BY <1>0, <1>1, <2>3, <3>1, WebhookIsOfAVersion DEF Bill!Upserted
    <3>3. Bill!AcknowledgedIsWritten
      BY <1>1, <1>7 DEF Bill!IInv, Bill!Undisturbed
    <3>4. ASSUME NEW n \in 1..Len(r1), Bill!Priced(n), n \notin r2'
          PROVE  r1[n].at <= r3.last
      BY <1>1, <3>1, <3>2, <3>3, <3>4 DEF Bill!AcknowledgedIsWritten
    <3>5. ASSUME Bill!Decisive, Len(r1) \notin r2'
          PROVE  r3 = [plan |-> Bill!Newest.plan, usable |-> Bill!Newest.usable, last |-> Bill!Newest.at]
      <4>1. CASE Len(r1) \notin r2
        BY <3>3, <3>5, <4>1 DEF Bill!AcknowledgedIsWritten
      <4>2. CASE Len(r1) = r5[h].event
        BY <3>1, <3>2, <4>2 DEF Bill!Upserted, Bill!Carries, Bill!Newest
      <4> QED
        BY <1>1, <3>5, <4>1, <4>2
    <3> QED
      BY <1>1, <3>4, <3>5, SameVersions DEF Bill!AcknowledgedIsWritten
  <2>5. Bill!ModulesFollow'
    BY <1>1, <1>2, <2>3 DEF Bill!ModulesFollow, Bill!Upserted, Bill!Bundle
  <2>6. Bill!Apart => Bill!PurchaseIsWritten'
    <3>1. Len(r1) \in Nat
      BY <1>0, VersionsAreRows
    <3>2. \A c \in 1..Len(r1) : c = r5[h].event => Bill!Carries(h, c)
      BY <1>0, <1>1, <3>1, WebhookIsOfAVersion
    <3>3. Bill!Apart => Bill!PurchaseIsWritten
      BY <1>1, <1>7 DEF Bill!IInv, Bill!Undisturbed
    <3>4. \A c \in 1..Len(r1) : Bill!Dates(0, c) => c \in Bill!Bought
      BY DEF Bill!Dates
    <3>5. \A c \in 1..Len(r1) : c \notin r2' => c \notin r2 \/ c = r5[h].event
      BY <1>1
    <3> QED
      BY <1>1, <2>3, <3>2, <3>3, <3>4, <3>5, SameVersions
         DEF Bill!PurchaseIsWritten, Bill!Upserted, Bill!Carries
  <2> QED
    BY <1>1, <2>1, <2>2, <2>4, <2>5, <2>6, SameVersions DEF Bill!Undisturbed
<1> QED
  BY <1>4, <1>5, <1>6, <1>7 DEF Bill!IInv

\* A failure puts the event back among those due.
LEMMA FailBilling ==
  ASSUME Bill!IInv, NEW h \in Hook, Bill!Fail(h)
  PROVE  Bill!IInv'
<1>0. Bill!TypeOK /\ Bill!TimesRise /\ Bill!HooksAreTrue /\ Bill!OverridesStand
  BY DEF Bill!IInv
<1>1. /\ r1' = r1 /\ r3' = r3 /\ r4' = r4 /\ r6' = r6 /\ r7' = r7 /\ r8' = r8 /\ r5[h] # Bill!NoHook
      /\ r5' = [r5 EXCEPT ![h] = Bill!NoHook] /\ r2' = r2 \cup ({r5[h].event} \ {-1})
  BY DEF Bill!Fail, Bill!NoEvent
<1>3. Bill!NoHook \in Bill!HookRow /\ HandledRow(h, Bill!NoHook)
  BY <1>0, <1>1, BillingValues
     DEF Bill!HookRow, Bill!NoHook, HandledRow, Bill!NoEvent, Bill!TypeOK
<1>4. Bill!TypeOK' /\ Bill!HooksAreTrue'
  BY <1>0, <1>1, <1>3, HandledBilling DEF Bill!TypeOK
<1>5. Bill!TimesRise' /\ Bill!OverridesStand'
  BY <1>0, <1>1, SameVersions DEF Bill!TimesRise, Bill!OverridesStand
<1>7. ASSUME ~r7'
      PROVE  Bill!Undisturbed'
  <2>1. /\ Bill!OneAtATime' /\ \A g \in Hook : r5'[g] = Bill!NoHook /\ r5'[g].pc = "idle"
        /\ \A g \in Hook : g # h => r5[g].pc = "idle"
    BY <1>1, <1>3, <1>7, HandledBilling, NoHookIsIdle
  <2>2. Bill!HooksAreCurrent' /\ Bill!CheckoutIsHarmless' /\ Bill!TrialIsFirst'
    BY <2>1, NoHookIsIdle DEF Bill!HooksAreCurrent, Bill!CheckoutIsHarmless, Bill!TrialIsFirst
  <2>3. Bill!AcknowledgedIsWritten'
    BY <1>1, <1>7, SameVersions DEF Bill!AcknowledgedIsWritten, Bill!IInv, Bill!Undisturbed
  <2>4. Bill!Owed => Bill!Owed'
    <3>1. \A n \in 1..Len(r1) : n = r5[h].event => n \in r2'
      BY <1>1
    <3> QED
      BY <1>1, <2>1, <3>1, SameVersions DEF Bill!Owed
  <2>5. Bill!ModulesFollow => Bill!ModulesFollow'
    BY <1>1 DEF Bill!ModulesFollow
  <2>6. Bill!PurchaseIsWritten => Bill!PurchaseIsWritten'
    BY <1>1, SameVersions DEF Bill!PurchaseIsWritten
  <2> QED
    BY <1>1, <1>7, <2>1, <2>2, <2>3, <2>4, <2>5, <2>6, SameVersions DEF Bill!IInv, Bill!Undisturbed
<1> QED
  BY <1>4, <1>5, <1>7 DEF Bill!IInv

\* The platform administrator switches a module.
LEMMA ToggleBilling ==
  ASSUME Bill!IInv, NEW m \in Switched, NEW on \in BOOLEAN, Bill!ToggleModule(m, on)
  PROVE  Bill!IInv'
<1>0. Bill!TypeOK /\ Bill!TimesRise /\ Bill!HooksAreTrue /\ Bill!OverridesStand /\ m \in Module
  BY BillingValues DEF Bill!IInv
<1>1. /\ r1' = r1 /\ r2' = r2 /\ r3' = r3 /\ r5' = r5 /\ r7' = r7 /\ r8' = r8
      /\ r4' = [r4 EXCEPT ![m] = [enabled |-> on, source |-> "manual"]]
      /\ r6' = [r6 EXCEPT ![m] = IF on THEN "on" ELSE "off"]
  BY DEF Bill!ToggleModule
<1>2. /\ r4' \in [Module -> Bill!ModuleRow] /\ r6' \in [Module -> {"none", "on", "off"}]
      /\ r4'[m] = [enabled |-> on, source |-> "manual"] /\ r6'[m] = (IF on THEN "on" ELSE "off")
      /\ \A x \in Module : x # m => r4'[x] = r4[x] /\ r6'[x] = r6[x]
  BY <1>0, <1>1 DEF Bill!TypeOK, Bill!ModuleRow
<1>3. Bill!TypeOK'
  BY <1>0, <1>1, <1>2 DEF Bill!TypeOK
<1>4. Bill!TimesRise' /\ Bill!HooksAreTrue'
  <2>1. Bill!TimesRise'
    BY <1>0, <1>1, SameVersions DEF Bill!TimesRise
  <2>2. \A h \in Hook, k \in Nat :
          (Bill!Carries(h, k)' <=> Bill!Carries(h, k)) /\ Bill!Bundle(h)' = Bill!Bundle(h)
    BY <1>1 DEF Bill!Carries, Bill!Bundle
  <2>3. \A k \in 1..Len(r1) : k \in Nat
    BY <1>0, VersionsAreRows
  <2>4. Bill!HooksAreTrue'
    <3>1. 1 \in Nat
      OBVIOUS
    <3> QED
      BY <1>0, <1>1, <2>2, <2>3, <3>1, NoHookIsIdle, SameVersions DEF Bill!HooksAreTrue
  <2> QED
    BY <2>1, <2>4
<1>5. Bill!OverridesStand'
  BY <1>0, <1>1, <1>2 DEF Bill!OverridesStand
<1>6. ASSUME ~r7'
      PROVE  Bill!Undisturbed'
  <2>1. Bill!OneAtATime' /\ (Bill!CheckoutIsHarmless => Bill!CheckoutIsHarmless')
    BY <1>1, <1>6, SameVersions
       DEF Bill!IInv, Bill!Undisturbed, Bill!OneAtATime, Bill!NoHook, Bill!CheckoutIsHarmless,
           Bill!Carries, Bill!Upserted
  <2>2. Bill!HooksAreCurrent'
    <3>1. \A h \in Hook : /\ Bill!Bundle(h)' = Bill!Bundle(h) /\ Bill!Bundle(h) \subseteq Module
                          /\ Bill!Upserted(h)' = Bill!Upserted(h) /\ Bill!Stale(h)' = Bill!Stale(h)
      BY <1>0, <1>1, BillingValues
         DEF Bill!Bundle, Bill!Upserted, Bill!Stale, Bill!TypeOK, Bill!HookRow
    <3> QED
      BY <1>1, <1>2, <1>6, <3>1 DEF Bill!IInv, Bill!Undisturbed, Bill!HooksAreCurrent
  <2>3. Bill!AcknowledgedIsWritten'
    BY <1>1, <1>6, SameVersions DEF Bill!AcknowledgedIsWritten, Bill!IInv, Bill!Undisturbed
  <2>4. Bill!Owed => Bill!Owed'
    BY <1>1, SameVersions DEF Bill!Owed
  <2>5. Bill!ModulesFollow => Bill!ModulesFollow'
    BY <1>1, <1>2 DEF Bill!ModulesFollow
  <2>6. Bill!TrialIsFirst'
    <3>1. Bill!TrialIsFirst
      BY <1>1, <1>6 DEF Bill!IInv, Bill!Undisturbed
    <3> QED
      BY <1>1, <2>5, <3>1 DEF Bill!TrialIsFirst, Bill!NoHook
  <2>7. Bill!PurchaseIsWritten => Bill!PurchaseIsWritten'
    BY <1>1, SameVersions DEF Bill!PurchaseIsWritten
  <2> QED
    BY <1>1, <1>6, <2>1, <2>2, <2>3, <2>4, <2>5, <2>6, <2>7, SameVersions DEF Bill!IInv, Bill!Undisturbed
<1> QED
  BY <1>3, <1>4, <1>5, <1>6 DEF Bill!IInv

\* Every step of Stripe, of the signup, of the webhooks and of the administrator keeps
\* the invariant.
LEMMA NextBilling ==
  ASSUME Bill!IInv, Bill!Next
  PROVE  Bill!IInv'
<1>1. ASSUME NEW at \in 1..(MaxVersion + 1), NEW of \in {"trial", "checkout"}, NEW plan \in Plan,
             NEW usable \in BOOLEAN, Bill!ChangeSubscription(of, plan, usable, at)
      PROVE  Bill!IInv'
  BY <1>1, ChangeBilling
<1>2. ASSUME NEW at \in 1..(MaxVersion + 1), NEW of \in {"trial", "checkout"},
             Bill!ChangeSubscription(of, Unpriced, TRUE, at)
      PROVE  Bill!IInv'
  <2>1. at \in Nat \ {0} /\ Unpriced \in Plan \cup {Unpriced} /\ TRUE \in BOOLEAN
    OBVIOUS
  <2> QED
    BY <1>2, <2>1, ChangeBilling
<1>3. ASSUME NEW h \in Hook,
             \/ \E n \in Bill!Event : Bill!Receive(h, n)
             \/ Bill!CheckStale(h) \/ Bill!UpsertSubscription(h) \/ Bill!SwitchOff(h) \/ Bill!Fail(h)
             \/ \E m \in Module : Bill!SwitchOn(h, m)
      PROVE  Bill!IInv'
  BY <1>3, ReceiveBilling, CheckBilling, UpsertBilling, SwitchOffBilling, FailBilling, SwitchOnBilling
<1>4. ASSUME NEW m \in Switched, NEW on \in BOOLEAN, Bill!ToggleModule(m, on)
      PROVE  Bill!IInv'
  BY <1>4, ToggleBilling
<1>5. ASSUME NEW h \in Hook, NEW now \in SignupTime, Bill!CreateTrial(h, now)
      PROVE  Bill!IInv'
  <2>1. now \in Nat
    BY ServicesConstants DEF Bill!BillingConstants
  <2> QED
    BY <1>5, <2>1, TrialBilling
<1> QED
  BY <1>1, <1>2, <1>3, <1>4, <1>5 DEF Bill!Next

-----------------------------------------------------------------------------
(* A submission and its corrections (FormRecords): followUp r1, record r2, *)
(* trail r3, filler r4, desk r5.  The trail has one row less than the record*)
(* has values, and what a desk shows is one of them.                       *)

DeskRow == [cache : Records!OnPage, shown : Records!OnPage, editing : BOOLEAN,
            stage : {"unopened", "idle", "sent", "writing", "written"},
            new : Records!OnPage, old : Records!OnPage]

\* What DesksAreTrue says of one desk.
DeskFits(d) ==
  /\ d.stage # "unopened" => r2 # <<>> /\ d.cache \in Records!ToSet(r2)
  /\ d.stage # "unopened" /\ ~d.editing => d.shown \in Records!ToSet(r2)
  /\ d.stage \in {"sent", "writing", "written"} => d.new \in Records!Answers
  /\ d.stage = "writing" => d.old \in Records!ToSet(r2)
  /\ d.editing => d.shown \in Records!Answers
  /\ d.stage = "unopened" => ~d.editing

\* The desks, one by one, and what the record has been.
LEMMA DeskFacts ==
  ASSUME Records!IInv
  PROVE  /\ r5 \in [Admin -> DeskRow] /\ \A a \in Admin : DeskFits(r5[a])
         /\ Records!ToSet(r2) \subseteq Records!Answers
         /\ r2 # <<>> => Records!Saved \in Records!ToSet(r2)
<1>1. r5 \in [Admin -> DeskRow] /\ \A a \in Admin : DeskFits(r5[a])
  BY DEF Records!IInv, Records!TypeOK, Records!DesksAreTrue, DeskRow, DeskFits
<1>2. r2 \in Seq(Records!Answers)
  BY DEF Records!IInv, Records!TypeOK
<1>3. Records!ToSet(r2) \subseteq Records!Answers
  BY <1>2, ElementOfSeq, LenProperties DEF Records!ToSet
<1>4. r2 # <<>> => Records!Saved \in Records!ToSet(r2)
  BY <1>2, EmptySeq, LenProperties DEF Records!ToSet, Records!Saved, Records!Last
<1> QED
  BY <1>1, <1>3, <1>4

\* A step of one desk that leaves the record alone.
LEMMA DeskStep ==
  ASSUME Records!IInv, NEW a \in Admin, NEW row \in DeskRow, DeskFits(row), Records!Put(a, row),
         r1' = r1, r2' = r2, r3' = r3, r4' = r4
  PROVE  Records!IInv'
<1>1. r5' = [r5 EXCEPT ![a] = row]
  BY DEF Records!Put
<1>2. r5' \in [Admin -> DeskRow] /\ \A b \in Admin : DeskFits(r5'[b])
  BY <1>1, DeskFacts
<1>3. Records!TypeOK'
  BY <1>2 DEF Records!IInv, Records!TypeOK, DeskRow, Records!OnPage, Records!Answers,
              Records!NoAnswers
<1>4. Records!DesksAreTrue'
  BY ZenonT(60), <1>2 DEF DeskFits, Records!DesksAreTrue, Records!ToSet, Records!Answers
<1>5. Records!RecordIsTold'
  BY DEF Records!IInv, Records!RecordIsTold
<1> QED
  BY <1>3, <1>4, <1>5 DEF Records!IInv

\* The form is not filled yet.
LEMMA InitRecords == ASSUME Records!Init PROVE Records!IInv
<1>1. /\ r2 = <<>> /\ r3 = <<>> /\ r4 = [values |-> Records!NoAnswers, stage |-> "open"]
      /\ \A a \in Admin : r5[a] = [Records!Desk(Records!NoAnswers) EXCEPT !.stage = "unopened"]
      /\ r5 = [a \in Admin |-> [Records!Desk(Records!NoAnswers) EXCEPT !.stage = "unopened"]]
  BY DEF Records!Init
<1>2. [Records!Desk(Records!NoAnswers) EXCEPT !.stage = "unopened"] \in DeskRow
  BY DEF Records!Desk, DeskRow, Records!OnPage
<1>3. r5 \in [Admin -> DeskRow]
  BY <1>1, <1>2
<1>4. r2 \in Seq(Records!Answers) /\ r3 \in Seq([old : Records!Answers, new : Records!Answers])
  BY <1>1
<1>5. Records!TypeOK
  BY <1>1, <1>3, <1>4 DEF Records!TypeOK, DeskRow, Records!OnPage
<1>6. Records!RecordIsTold
  BY <1>1 DEF Records!RecordIsTold
<1>7. Records!DesksAreTrue
  BY <1>1 DEF Records!DesksAreTrue, Records!Desk
<1> QED
  BY <1>5, <1>6, <1>7 DEF Records!IInv

\* The pages.
LEMMA PageRecords ==
  ASSUME Records!IInv, NEW a \in Admin,
         Records!Page(a) \/ Records!ReadCurrent(a) \/ Records!Fails(a)
  PROVE  Records!IInv'
<1> DEFINE d == r5[a]
<1>0. d \in DeskRow /\ DeskFits(d) /\ Records!NoAnswers \in Records!OnPage
      /\ Records!Answers \subseteq Records!OnPage
  BY DeskFacts DEF Records!OnPage
<1>1. Records!ToSet(r2) \subseteq Records!Answers /\ (r2 # <<>> => Records!Saved \in Records!ToSet(r2))
  BY DeskFacts
<1>2. ASSUME NEW row \in DeskRow, DeskFits(row), Records!Put(a, row),
             UNCHANGED <<r1, r2, r3, r4>>
      PROVE  Records!IInv'
  BY <1>2, DeskStep
<1> USE DEF DeskRow, DeskFits
<1> HIDE DEF d
<1>3. CASE Records!OpenPage(a)
  <2> DEFINE row == Records!Desk(Records!Saved)
  <2>1. r2 # <<>> /\ Records!Put(a, row) /\ UNCHANGED <<r1, r2, r3, r4>>
    BY <1>3 DEF Records!OpenPage, Records!On
  <2>2. row \in DeskRow /\ DeskFits(row)
    BY <1>0, <1>1, <2>1 DEF Records!Desk
  <2> QED
    BY <1>2, <2>1, <2>2
<1>4. CASE Records!Refetch(a)
  <2> DEFINE row == [d EXCEPT !.cache = Records!Saved]
  <2>1. r2 # <<>> /\ Records!Put(a, row) /\ UNCHANGED <<r1, r2, r3, r4>> /\ d.stage # "unopened"
    BY <1>4 DEF Records!Refetch, d
  <2>2. row \in DeskRow /\ DeskFits(row)
    BY <1>0, <1>1, <2>1
  <2> QED
    BY <1>2, <2>1, <2>2
<1>5. CASE Records!BeginEdit(a)
  <2> DEFINE row == [Records!Remounted(d) EXCEPT !.editing = TRUE]
  <2>1. r2 # <<>> /\ Records!Put(a, row) /\ UNCHANGED <<r1, r2, r3, r4>> /\ d.stage # "unopened"
    BY <1>5 DEF Records!BeginEdit, d
  <2>2. row \in DeskRow /\ DeskFits(row)
    BY <1>0, <1>1, <2>1 DEF Records!Remounted
  <2> QED
    BY <1>2, <2>1, <2>2
<1>6. CASE Records!CancelEdit(a)
  <2> DEFINE row == [Records!Remounted(d) EXCEPT !.editing = FALSE]
  <2>1. Records!Put(a, row) /\ UNCHANGED <<r1, r2, r3, r4>>
    BY <1>6 DEF Records!CancelEdit, d
  <2>2. row \in DeskRow /\ DeskFits(row)
    BY <1>0, <1>1, <2>1 DEF Records!Remounted
  <2> QED
    BY <1>2, <2>1, <2>2
<1>7. CASE Records!PressSave(a)
  <2> DEFINE row == [d EXCEPT !.stage = "sent", !.new = d.shown]
  <2>1. /\ Records!Put(a, row) /\ UNCHANGED <<r1, r2, r3, r4>>
        /\ d.stage = "idle" /\ d.editing
    BY <1>7 DEF Records!PressSave, Records!On, d
  <2>2. row \in DeskRow /\ DeskFits(row)
    BY <1>0, <1>1, <2>1
  <2> QED
    BY <1>2, <2>1, <2>2
<1>8. CASE Records!Answered(a)
  <2> DEFINE row == [Records!Remounted(d) EXCEPT !.stage = "idle", !.editing = FALSE,
                                                 !.new = Records!NoAnswers]
  <2>1. Records!Put(a, row) /\ UNCHANGED <<r1, r2, r3, r4>> /\ d.stage = "written"
    BY <1>8 DEF Records!Answered, Records!On, d
  <2>2. row \in DeskRow /\ DeskFits(row)
    BY <1>0, <1>1, <2>1 DEF Records!Remounted
  <2> QED
    BY <1>2, <2>1, <2>2
<1>9. ASSUME NEW v \in Records!Answers, Records!Correct(a, v) PROVE Records!IInv'
  <2> DEFINE row == [d EXCEPT !.shown = v]
  <2>1. /\ Records!Put(a, row) /\ UNCHANGED <<r1, r2, r3, r4>>
        /\ d.stage = "idle" /\ d.editing
    BY <1>9 DEF Records!Correct, Records!On, d
  <2>2. row \in DeskRow /\ DeskFits(row)
    BY <1>0, <1>1, <2>1
  <2> QED
    BY <1>2, <2>1, <2>2
<1>10. CASE Records!ReadCurrent(a)
  <2>1. r2 # <<>> /\ d.stage = "sent" /\ UNCHANGED <<r1, r2, r3, r4>>
    BY <1>10 DEF Records!ReadCurrent, Records!On, d
  <2>2. CASE Records!ServerAccepts(r5[a].new)
    <3> DEFINE row == [d EXCEPT !.stage = "writing", !.old = Records!Saved]
    <3>1. Records!Put(a, row)
      BY <1>10, <2>2 DEF Records!ReadCurrent, d
    <3>2. row \in DeskRow /\ DeskFits(row)
      BY <1>0, <1>1, <2>1
    <3> QED
      BY <1>2, <2>1, <3>1, <3>2
  <2>3. CASE ~Records!ServerAccepts(r5[a].new)
    <3> DEFINE row == [d EXCEPT !.stage = "idle", !.new = Records!NoAnswers]
    <3>1. Records!Put(a, row)
      BY <1>10, <2>3 DEF Records!ReadCurrent, d
    <3>2. row \in DeskRow /\ DeskFits(row)
      BY <1>0, <1>1, <2>1
    <3> QED
      BY <1>2, <2>1, <3>1, <3>2
  <2> QED
    BY <2>2, <2>3
<1>11. CASE Records!Fails(a)
  <2> DEFINE row == [d EXCEPT !.stage = "idle", !.new = Records!NoAnswers,
                              !.old = Records!NoAnswers]
  <2>1. /\ Records!Put(a, row) /\ UNCHANGED <<r1, r2, r3, r4>>
        /\ d.stage \in {"sent", "writing", "written"}
    BY <1>11 DEF Records!Fails, Records!On, d
  <2>2. row \in DeskRow /\ DeskFits(row)
    BY <1>0, <1>1, <2>1
  <2> QED
    BY <1>2, <2>1, <2>2
<1> QED
  BY <1>3, <1>4, <1>5, <1>6, <1>7, <1>8, <1>9, <1>10, <1>11 DEF Records!Page

\* The worker's page: until the form is submitted, nobody has opened the record.
LEMMA WorkerRecords ==
  ASSUME Records!IInv, Records!Worker
  PROVE  Records!IInv'
<1>0. Records!TypeOK /\ Records!RecordIsTold /\ Records!DesksAreTrue
  BY DEF Records!IInv
<1>1. CASE Records!PressSubmit \/ Records!Reopen \/ \E v \in Records!Answers : Records!Fill(v)
  <2>1. /\ r2' = r2 /\ r3' = r3 /\ r5' = r5
        /\ r4.stage # "done" /\ r4'.stage # "done"
        /\ r4' \in [values : Records!OnPage, stage : {"open", "sent", "refused", "done"}]
        /\ r4'.stage = "sent" => r4'.values \in Records!Answers
    BY <1>0, <1>1 DEF Records!PressSubmit, Records!Reopen, Records!Fill, Records!TypeOK, Records!OnPage
  <2>2. Records!TypeOK'
    BY <1>0, <2>1 DEF Records!TypeOK, Records!OnPage, Records!Answers, Records!NoAnswers
  <2>3. Records!RecordIsTold'
    BY <1>0, <2>1 DEF Records!RecordIsTold
  <2>4. Records!DesksAreTrue'
    BY ZenonT(60), <1>0, <2>1 DEF Records!DesksAreTrue, Records!ToSet, Records!Answers
  <2> QED
    BY <2>2, <2>3, <2>4 DEF Records!IInv
<1>2. CASE Records!Submit
  <2>1. /\ r3' = r3 /\ r5' = r5 /\ r4.stage = "sent" /\ r4.values \in Records!Answers
        /\ r2 = <<>> /\ r3 = <<>>
    BY <1>0, <1>2 DEF Records!Submit, Records!TypeOK, Records!RecordIsTold
  <2>2. /\ r4' \in [values : Records!OnPage, stage : {"open", "sent", "refused", "done"}]
        /\ r4'.stage \in {"done", "refused"}
        /\ r4'.stage = "done" => r2' = <<r4.values>>
        /\ r4'.stage = "refused" => r2' = r2
    BY <1>0, <1>2 DEF Records!Submit, Records!TypeOK
  <2>3. r2' \in Seq(Records!Answers) /\ Len(r3) = 0
    <3>1. <<r4.values>> \in Seq(Records!Answers) /\ <<>> \in Seq(Records!Answers)
      BY <2>1
    <3>2. r2' = <<r4.values>> \/ r2' = <<>>
      BY <2>1, <2>2
    <3>3. Len(r3) = 0
      BY <2>1
    <3> QED
      BY <3>1, <3>2, <3>3
  <2>4. Records!TypeOK'
    BY <1>0, <2>1, <2>2, <2>3 DEF Records!TypeOK, Records!OnPage, Records!Answers, Records!NoAnswers
  <2>5. Records!RecordIsTold'
    BY <1>0, <2>1, <2>2, <2>3 DEF Records!RecordIsTold
  <2>6. \A a \in Admin : r5[a].stage = "unopened" /\ ~r5[a].editing
    BY <1>0, <2>1 DEF Records!DesksAreTrue
  <2>7. Records!DesksAreTrue'
    BY <2>1, <2>6 DEF Records!DesksAreTrue
  <2> QED
    BY <2>4, <2>5, <2>7 DEF Records!IInv
<1> QED
  BY <1>1, <1>2 DEF Records!Worker

\* A correction is written: the row of the trail carries the value that was read, which
\* the record has had, and the value that the record gets.
LEMMA CorrectRecords ==
  ASSUME Records!IInv, NEW a \in Admin, Records!WriteCorrection(a)
  PROVE  Records!IInv'
<1> DEFINE d == r5[a]
           pair == [old |-> d.old, new |-> d.new]
           row == [d EXCEPT !.stage = "written", !.old = Records!NoAnswers]
<1>0. Records!TypeOK /\ Records!RecordIsTold /\ Records!DesksAreTrue
  BY DEF Records!IInv
<1>1. /\ r4' = r4 /\ r2' = Append(r2, d.new) /\ r3' = Append(r3, pair)
      /\ r5' = [r5 EXCEPT ![a] = row] /\ r2 # <<>> /\ d.stage = "writing"
  BY DEF Records!WriteCorrection, Records!On, Records!Put, Records!Row
<1>2. /\ d \in DeskRow /\ DeskFits(d) /\ Records!ToSet(r2) \subseteq Records!Answers
      /\ Records!Answers \subseteq Records!OnPage /\ Records!NoAnswers \in Records!OnPage
  BY DeskFacts DEF Records!OnPage
<1>3. d.new \in Records!Answers /\ d.old \in Records!ToSet(r2) /\ d.old \in Records!Answers
  BY <1>1, <1>2 DEF DeskFits
<1>4. /\ r2 \in Seq(Records!Answers) /\ r3 \in Seq([old : Records!Answers, new : Records!Answers])
      /\ pair \in [old : Records!Answers, new : Records!Answers] /\ pair.old = d.old /\ pair.new = d.new
  BY <1>0, <1>3 DEF Records!TypeOK
<1>5. row \in DeskRow /\ row.stage = "written" /\ row.cache = d.cache /\ row.shown = d.shown
      /\ row.editing = d.editing /\ row.new = d.new
  BY <1>2 DEF DeskRow
<1> HIDE DEF d, pair, row
<1>6. /\ Len(r2) \in Nat \ {0} /\ Len(r2') = Len(r2) + 1 /\ r2'[Len(r2) + 1] = d.new
      /\ r2' \in Seq(Records!Answers) /\ \A i \in 1..Len(r2) : r2'[i] = r2[i]
  BY <1>1, <1>3, <1>4, AppendProperties, LenProperties, EmptySeq
<1>7. /\ Len(r3) \in Nat /\ Len(r3') = Len(r3) + 1 /\ r3'[Len(r3) + 1] = pair
      /\ r3' \in Seq([old : Records!Answers, new : Records!Answers])
      /\ \A i \in 1..Len(r3) : r3'[i] = r3[i]
  BY <1>1, <1>4, AppendProperties, LenProperties
<1>8. r5' \in [Admin -> DeskRow] /\ r5'[a] = row /\ \A b \in Admin : b # a => r5'[b] = r5[b]
  BY <1>1, <1>5, DeskFacts
<1>9. Records!TypeOK'
  BY <1>0, <1>1, <1>6, <1>7, <1>8
     DEF Records!TypeOK, DeskRow, Records!OnPage, Records!Answers, Records!NoAnswers
<1>10. r4.stage = "done" /\ Len(r2) = Len(r3) + 1
  BY <1>0, <1>1 DEF Records!RecordIsTold
<1>11. Records!RecordIsTold'
  <2>1. \A i \in 1..Len(r3') : r2'[i + 1] = r3'[i].new
    BY SMTT(30), <1>0, <1>4, <1>6, <1>7, <1>10 DEF Records!RecordIsTold
  <2>2. r3'[1].old = r2'[1]
    <3>1. CASE Len(r3) = 0
      <4>1. Records!ToSet(r2) = {r2[1]}
        BY <1>4, <1>10, <3>1, LenProperties DEF Records!ToSet
      <4> QED
        BY <1>3, <1>4, <1>6, <1>7, <1>10, <3>1, <4>1
    <3>2. CASE Len(r3) # 0
      <4>1. r3 # <<>> /\ 1 \in 1..Len(r3) /\ 1 \in 1..Len(r2)
        BY <1>4, <1>7, <1>10, <3>2, EmptySeq
      <4> QED
        BY <1>0, <1>6, <1>7, <4>1 DEF Records!RecordIsTold
    <3> QED
      BY <3>1, <3>2
  <2> QED
    BY <1>1, <1>6, <1>7, <1>10, <2>1, <2>2 DEF Records!RecordIsTold
<1>12. Records!DesksAreTrue'
  <2>1. Records!ToSet(r2) \subseteq Records!ToSet(r2)' /\ r2' # <<>>
    BY <1>4, <1>6, LenProperties DEF Records!ToSet
  <2>2. \A b \in Admin : DeskFits(r5[b])
    BY DeskFacts
  <2> QED
    BY <1>1, <1>3, <1>5, <1>8, <2>1, <2>2 DEF Records!DesksAreTrue, DeskFits, Records!Answers, d
<1> QED
  BY <1>9, <1>11, <1>12 DEF Records!IInv

\* Every step of the worker and of the administrators keeps the invariant.
LEMMA NextRecords ==
  ASSUME Records!IInv, Records!Next
  PROVE  Records!IInv'
<1>1. \/ Records!Worker
      \/ \E a \in Admin : Records!Page(a) \/ Records!ReadCurrent(a) \/ Records!Fails(a)
      \/ \E a \in Admin : Records!WriteCorrection(a)
  BY DEF Records!Next
<1> QED
  BY <1>1, WorkerRecords, PageRecords, CorrectRecords

\* The trail tells the record: what it was at first, and what each row made of it.
LEMMA RecordsAreTraced ==
  Records!IInv => Records!CorrectionsAreTraced /\ Records!NoAbandonedEdit
<1> SUFFICES ASSUME Records!IInv
             PROVE  Records!CorrectionsAreTraced /\ Records!NoAbandonedEdit
  OBVIOUS
<1>1. Records!TypeOK /\ Records!RecordIsTold /\ Records!DesksAreTrue
  BY DEF Records!IInv
<1>2. Records!NoAbandonedEdit
  BY <1>1 DEF Records!NoAbandonedEdit, Records!DesksAreTrue
<1>3. ASSUME r3 # <<>>, NEW v \in Records!ToSet(r2)
      PROVE  v \in {r3[i].old : i \in DOMAIN r3} \cup {r3[i].new : i \in DOMAIN r3}
  <2>1. /\ Len(r2) = Len(r3) + 1 /\ Len(r3) \in Nat \ {0} /\ DOMAIN r3 = 1..Len(r3)
        /\ DOMAIN r2 = 1..Len(r2)
    BY <1>1, <1>3, LenProperties, EmptySeq DEF Records!TypeOK, Records!RecordIsTold
  <2>2. PICK j \in 1..Len(r2) : v = r2[j]
    BY <2>1 DEF Records!ToSet
  <2>3. CASE j = 1
    BY <1>1, <1>3, <2>1, <2>2, <2>3 DEF Records!RecordIsTold
  <2>4. CASE j # 1
    <3>1. j - 1 \in 1..Len(r3) /\ r2[(j - 1) + 1] = r3[j - 1].new /\ (j - 1) + 1 = j
      BY <1>1, <2>1, <2>2, <2>4 DEF Records!RecordIsTold
    <3> QED
      BY <2>1, <2>2, <3>1
  <2> QED
    BY <2>3, <2>4
<1>4. Records!CorrectionsAreTraced
  BY <1>3 DEF Records!CorrectionsAreTraced
<1> QED
  BY <1>2, <1>4

-----------------------------------------------------------------------------
(* Forms read from photos (FormImport): page r1, jobs r2, used r3, readings*)
(* r4, saved r5, crashes r6.  A job holds a slot of the quota until its photo*)
(* is read, once, and the page polls the job of its photo.                 *)

\* The rows of the page and of the queue.
LEMMA ImportFacts ==
  ASSUME Import!IInv
  PROVE  /\ Digitize \in Nat /\ r1 \in Import!PageRow /\ r2 \in Seq(Import!JobRow)
         /\ Len(r2) \in Nat /\ Import!Job = 1..Len(r2) /\ r3 \in Nat /\ r4 \in Nat
         /\ (r2 = <<>> <=> Len(r2) = 0) /\ \A j \in 1..Len(r2) : r2[j] \in Import!JobRow
<1>1. /\ Digitize \in Nat /\ r1 \in Import!PageRow /\ r2 \in Seq(Import!JobRow)
      /\ r3 \in Nat /\ r4 \in Nat
  BY ServicesConstants DEF Import!ImportConstants, Import!IInv, Import!TypeOK
<1> QED
  BY <1>1, LenProperties, EmptySeq, ElementOfSeq DEF Import!Job

\* No photo has been taken.
LEMMA InitImport == ASSUME Import!Init PROVE Import!IInv
<1>1. /\ r1 = [step |-> "capture", photo |-> 0, jobId |-> 0, draft |-> [photo |-> 0, refined |-> 0],
               adding |-> "no", error |-> FALSE, refining |-> "no", saving |-> FALSE]
      /\ r2 = <<>> /\ r3 = 0 /\ r4 = 0 /\ r5 = {}
  BY DEF Import!Init, Import!NoJob, Import!NoDraft
<1>2. Import!TypeOK
  BY <1>1 DEF Import!TypeOK, Import!PageRow
<1>3. Import!JobIsOfThePhoto /\ Import!DraftIsOfThePhoto
  BY <1>1 DEF Import!JobIsOfThePhoto, Import!DraftIsOfThePhoto, Import!NoJob
<1>4. Import!Job = {}
  BY <1>1 DEF Import!Job
<1>5. Import!OneActive /\ Import!SlotsAreTaken
  <2>1. Digitize \in Nat
    BY ServicesConstants DEF Import!ImportConstants
  <2> QED
    BY <1>1, <1>4, <2>1 DEF Import!OneActive, Import!Active, Import!SlotsAreTaken, Import!Pending,
                            Import!JobIsMetered
<1> QED
  BY <1>2, <1>3, <1>5 DEF Import!IInv

\* The page takes a photo, polls, gives up, and goes on; the queue stays as it is.
LEMMA PageImport ==
  ASSUME Import!IInv,
         \/ Import!TakePhoto \/ Import!Enqueued \/ Import!EnqueueFails \/ Import!Poll
         \/ Import!PollFails \/ Import!TryAnother \/ Import!Refine \/ Import!Refined
         \/ Import!RefineFails \/ Import!LooksGood \/ Import!Save
         \/ \E ok \in BOOLEAN : Import!Saved(ok)
  PROVE  Import!IInv'
<1>0. /\ Import!JobIsOfThePhoto /\ Import!DraftIsOfThePhoto /\ Import!OneActive
      /\ Import!SlotsAreTaken
  BY DEF Import!IInv
<1>1. /\ Digitize \in Nat /\ r1 \in Import!PageRow /\ r2 \in Seq(Import!JobRow)
      /\ Len(r2) \in Nat /\ Import!Job = 1..Len(r2) /\ r3 \in Nat /\ r4 \in Nat
      /\ (r2 = <<>> <=> Len(r2) = 0) /\ \A j \in 1..Len(r2) : r2[j] \in Import!JobRow
  BY ImportFacts
<1>2. r2' = r2 /\ r3' = r3 /\ r4' = r4
  BY DEF Import!TakePhoto, Import!Enqueued, Import!EnqueueFails, Import!Poll, Import!PollFails,
         Import!TryAnother, Import!Refine, Import!Refined, Import!RefineFails, Import!LooksGood,
         Import!Save, Import!Saved
<1>3. r1' \in Import!PageRow /\ (r1'.refining = "metered" => r1.refining = "metered")
  <2>1. CASE Import!Poll
    <3>1. Import!Polled => r1.jobId \in 1..Len(r2) /\ r2[r1.jobId].photo \in Nat
      BY <1>0, <1>1 DEF Import!Polled, Import!JobIsOfThePhoto, Import!JobRow
    <3> QED
      BY <1>1, <2>1, <3>1 DEF Import!Poll, Import!PageRow, Import!NoJob
  <2>2. CASE Import!Refined
    <3>1. /\ r1.draft \in [photo : Nat, refined : Nat]
          /\ [r1.draft EXCEPT !.refined = @ + 1] \in [photo : Nat, refined : Nat]
      BY <1>1 DEF Import!PageRow
    <3> QED
      BY <1>1, <2>2, <3>1 DEF Import!Refined, Import!PageRow
  <2>5. CASE Import!LooksGood \/ Import!Save
    BY ZenonT(60), <1>1, <2>5 DEF Import!LooksGood, Import!Save, Import!PageRow
  <2>6. ASSUME NEW ok \in BOOLEAN, Import!Saved(ok)
        PROVE  r1' \in Import!PageRow /\ r1'.refining = r1.refining
    BY <1>1, <2>6 DEF Import!Saved, Import!PageRow
  <2>7. CASE Import!TakePhoto
    <3>1. r1.photo + 1 \in Nat
      BY <1>1 DEF Import!PageRow
    <3>2. r1' = [r1 EXCEPT !.step = "digitize", !.photo = r1.photo + 1, !.adding = "sent",
                           !.error = FALSE]
      BY <1>1, <2>7 DEF Import!TakePhoto, Import!PageRow
    <3> QED
      BY <1>1, <3>1, <3>2 DEF Import!PageRow
  <2>8. CASE Import!Enqueued
    BY <1>1, <2>8 DEF Import!Enqueued, Import!PageRow
  <2>9. CASE Import!EnqueueFails
    BY <1>1, <2>9 DEF Import!EnqueueFails, Import!PageRow
  <2>10. CASE Import!PollFails
    BY <1>1, <2>10 DEF Import!PollFails, Import!PageRow
  <2>11. CASE Import!TryAnother
    BY <1>1, <2>11 DEF Import!TryAnother, Import!PageRow, Import!NoJob
  <2>12. CASE Import!Refine
    BY <1>1, <2>12 DEF Import!Refine, Import!PageRow
  <2>13. CASE Import!RefineFails
    BY <1>1, <2>13 DEF Import!RefineFails, Import!PageRow
  <2> QED
    BY <2>1, <2>2, <2>5, <2>6, <2>7, <2>8, <2>9, <2>10, <2>11, <2>12, <2>13
<1>4. Import!TypeOK'
  BY <1>1, <1>2, <1>3 DEF Import!TypeOK, Import!PageRow, Import!JobRow
<1>5. Import!OneActive'
  BY <1>0, <1>2 DEF Import!OneActive, Import!Active, Import!Job
<1>6. Import!SlotsAreTaken'
  <2>1. Import!JobIsMetered' <=> Import!JobIsMetered
    BY <1>2 DEF Import!JobIsMetered, Import!Job
  <2> QED
    BY <1>0, <1>1, <1>2, <1>3, <2>1 DEF Import!SlotsAreTaken, Import!Pending
<1>7. Import!JobIsOfThePhoto' /\ Import!DraftIsOfThePhoto'
  <2> USE <1>0, <1>1, <1>2 DEF Import!JobIsOfThePhoto, Import!DraftIsOfThePhoto, Import!PageRow,
          Import!NoJob
  <2>1. CASE Import!TakePhoto
    BY <2>1 DEF Import!TakePhoto, Import!Job
  <2>2. CASE Import!Enqueued
    BY <2>2 DEF Import!Enqueued, Import!Job
  <2>3. CASE Import!EnqueueFails
    BY <2>3 DEF Import!EnqueueFails, Import!Job
  <2>4. CASE Import!Poll
    BY <2>4 DEF Import!Poll, Import!Polled, Import!Job
  <2>5. CASE Import!PollFails
    BY <2>5 DEF Import!PollFails, Import!Job
  <2>6. CASE Import!TryAnother
    BY <2>6 DEF Import!TryAnother, Import!Job
  <2>7. CASE Import!Refine \/ Import!RefineFails
    BY <2>7 DEF Import!Refine, Import!RefineFails, Import!Job
  <2>8. CASE Import!LooksGood
    BY <2>8 DEF Import!LooksGood, Import!Job
  <2>9. CASE Import!Save
    BY <2>9 DEF Import!Save, Import!Job
  <2>10. ASSUME NEW ok \in BOOLEAN, Import!Saved(ok)
         PROVE  Import!JobIsOfThePhoto' /\ Import!DraftIsOfThePhoto'
    BY <2>10 DEF Import!Saved, Import!Job
  <2>11. CASE Import!Refined
    <3>1. /\ r1'.step = r1.step /\ r1'.photo = r1.photo /\ r1'.jobId = r1.jobId
          /\ r1'.draft.photo = r1.draft.photo /\ r1'.adding = r1.adding /\ r1'.error = r1.error
          /\ r1'.saving = r1.saving /\ r5' = r5
      BY <2>11 DEF Import!Refined
    <3> QED
      BY <3>1 DEF Import!Job
  <2> QED
    BY <2>1, <2>2, <2>3, <2>4, <2>5, <2>6, <2>7, <2>8, <2>9, <2>10, <2>11
<1> QED
  BY <1>4, <1>5, <1>6, <1>7 DEF Import!IInv

\* One job changes its state; the page and the photos stay.
LEMMA MoveImport ==
  ASSUME Import!IInv, NEW j \in Import!Job,
         NEW s \in {"waiting", "active", "metered", "completed", "failed"}, Import!Move(j, s),
         r1' = r1, r5' = r5, r3' \in Nat, r4' \in Nat, Import!OneActive', Import!SlotsAreTaken'
  PROVE  Import!IInv'
<1>1. /\ r2 \in Seq(Import!JobRow) /\ Len(r2) \in Nat /\ j \in 1..Len(r2)
      /\ r2[j] \in Import!JobRow /\ Import!Job = 1..Len(r2) /\ (r2 = <<>> <=> Len(r2) = 0)
  BY ImportFacts
<1> DEFINE row == [r2[j] EXCEPT !.state = s]
<1>2. row \in Import!JobRow /\ row.photo = r2[j].photo
  BY <1>1 DEF Import!JobRow
<1>3. r2' = [r2 EXCEPT ![j] = row]
  BY <1>1 DEF Import!Move
<1> HIDE DEF row
<1>4. /\ r2' \in Seq(Import!JobRow) /\ Len(r2') = Len(r2)
      /\ \A i \in 1..Len(r2) : r2'[i].photo = r2[i].photo
  BY <1>1, <1>2, <1>3, ExceptSeq
<1>5. Import!TypeOK'
  BY <1>4 DEF Import!IInv, Import!TypeOK, Import!PageRow, Import!JobRow
<1>6. Import!Job' = Import!Job /\ r2' # <<>>
  BY <1>1, <1>4, LenProperties, EmptySeq DEF Import!Job
<1>7. Import!JobIsOfThePhoto' /\ Import!DraftIsOfThePhoto'
  BY <1>1, <1>4, <1>6 DEF Import!IInv, Import!JobIsOfThePhoto, Import!DraftIsOfThePhoto, Import!NoJob
<1> QED
  BY <1>5, <1>7 DEF Import!IInv

\* What a move makes of the jobs that hold a slot.
LEMMA MovedImport ==
  ASSUME Import!IInv, NEW j \in Import!Job, NEW s, Import!Move(j, s)
  PROVE  /\ Import!Job' = Import!Job /\ r2'[j].state = s
         /\ \A i \in Import!Job : i # j => r2'[i] = r2[i]
<1>1. r2 \in Seq(Import!JobRow) /\ j \in 1..Len(r2) /\ r2[j] \in Import!JobRow
  BY ImportFacts
<1>2. r2' = [r2 EXCEPT ![j].state = s]
  BY DEF Import!Move
<1> QED
  BY <1>1, <1>2 DEF Import!Job, Import!JobRow

\* The worker: of the jobs in hand there is one, and it holds the slot it has taken until
\* the photo is read.
LEMMA WorkerImport ==
  ASSUME Import!IInv, NEW j \in Import!Job,
         Import!Take(j) \/ Import!MeterJob(j) \/ Import!ReadPhoto(j) \/ Import!Crash(j)
  PROVE  Import!IInv'
<1>0. /\ Import!OneActive /\ r4 + Import!Pending <= r3 /\ r3 <= Digitize
      /\ Digitize \in Nat /\ r3 \in Nat /\ r4 \in Nat
      /\ Import!Pending = (IF Import!JobIsMetered THEN 1 ELSE 0)
                          + (IF r1.refining = "metered" THEN 1 ELSE 0)
  BY ImportFacts DEF Import!IInv, Import!SlotsAreTaken, Import!Pending
<1>1. ASSUME NEW s, Import!Move(j, s) PROVE
        /\ Import!Job' = Import!Job /\ r2'[j].state = s
        /\ \A i \in Import!Job : i # j => r2'[i] = r2[i]
  BY <1>1, MovedImport
<1>2. CASE Import!Take(j)
  <2>1. /\ Import!Active = {} /\ r2[j].state = "waiting" /\ Import!Move(j, "active")
        /\ UNCHANGED <<r1, r3, r4, r5>>
    BY <1>2 DEF Import!Take
  <2>2. Import!OneActive'
    BY <1>1, <2>1 DEF Import!OneActive, Import!Active
  <2>3. Import!JobIsMetered' => Import!JobIsMetered
    BY <1>1, <2>1 DEF Import!JobIsMetered
  <2>4. Import!SlotsAreTaken'
    BY <1>0, <2>1, <2>3 DEF Import!SlotsAreTaken, Import!Pending
  <2> QED
    BY <1>0, <2>1, <2>2, <2>4, MoveImport
<1>3. CASE Import!MeterJob(j)
  <2>1. PICK ok \in BOOLEAN : Import!Meter(ok) /\ Import!Move(j, IF ok THEN "metered" ELSE "failed")
    BY <1>3 DEF Import!MeterJob
  <2>2. r2[j].state = "active" /\ UNCHANGED <<r1, r4, r5>>
    BY <1>3 DEF Import!MeterJob
  <2>3. Import!OneActive'
    BY <1>0, <1>1, <2>1, <2>2 DEF Import!OneActive, Import!Active
  <2>4. ~Import!JobIsMetered
    BY <1>0, <2>2 DEF Import!OneActive, Import!Active, Import!JobIsMetered
  <2>5. r3' = (IF ok THEN r3 + 1 ELSE r3) /\ (ok <=> r3 < Digitize)
    BY <2>1 DEF Import!Meter
  <2>6. ~ok => ~Import!JobIsMetered'
    BY <1>1, <2>1, <2>4 DEF Import!JobIsMetered
  <2>7. Import!SlotsAreTaken'
    BY <1>0, <2>2, <2>4, <2>5, <2>6 DEF Import!SlotsAreTaken, Import!Pending
  <2> QED
    BY <1>0, <2>1, <2>2, <2>3, <2>5, <2>7, MoveImport
<1>4. ASSUME NEW s \in {"waiting", "completed", "failed"}, Import!Move(j, s),
             UNCHANGED <<r1, r3, r5>>,
             \/ r4' = r4 /\ j \in Import!Active
             \/ r4' = r4 + 1 /\ r2[j].state = "metered"
      PROVE  Import!IInv'
  <2>1. j \in Import!Active
    BY <1>4 DEF Import!Active
  <2>2. Import!OneActive'
    BY <1>0, <1>1, <1>4 DEF Import!OneActive, Import!Active
  <2>3. ~Import!JobIsMetered'
    BY <1>0, <1>1, <1>4, <2>1 DEF Import!OneActive, Import!Active, Import!JobIsMetered
  <2>4. r4' = r4 + 1 => Import!JobIsMetered
    BY <1>0, <1>4 DEF Import!JobIsMetered
  <2>5. Import!SlotsAreTaken'
    BY <1>0, <1>4, <2>3, <2>4 DEF Import!SlotsAreTaken, Import!Pending
  <2> QED
    BY <1>0, <1>4, <2>2, <2>5, MoveImport
<1>5. CASE Import!ReadPhoto(j)
  BY <1>4, <1>5 DEF Import!ReadPhoto
<1>6. CASE Import!Crash(j)
  <2>1. /\ j \in Import!Active /\ Import!Move(j, "waiting") /\ UNCHANGED <<r1, r3, r5>>
        /\ \/ r4' = r4
           \/ r4' = r4 + 1 /\ r2[j].state = "metered"
    BY <1>6 DEF Import!Crash
  <2> QED
    BY <1>4, <2>1
<1> QED
  BY <1>2, <1>3, <1>5, <1>6

\* A marked region takes a slot and is read beside the worker.
LEMMA RegionImport ==
  ASSUME Import!IInv, Import!MeterRefine \/ Import!ReadRegion
  PROVE  Import!IInv'
<1>0. /\ r4 + Import!Pending <= r3 /\ r3 <= Digitize
      /\ Digitize \in Nat /\ r1 \in Import!PageRow /\ r3 \in Nat /\ r4 \in Nat
      /\ Import!Pending = (IF Import!JobIsMetered THEN 1 ELSE 0)
                          + (IF r1.refining = "metered" THEN 1 ELSE 0)
  BY ImportFacts DEF Import!IInv, Import!SlotsAreTaken, Import!Pending
<1>1. /\ r2' = r2 /\ r5' = r5 /\ r3' \in Nat /\ r4' \in Nat /\ r1' \in Import!PageRow
      /\ r1'.step = r1.step /\ r1'.photo = r1.photo /\ r1'.jobId = r1.jobId
      /\ r1'.draft = r1.draft /\ r1'.adding = r1.adding /\ r1'.error = r1.error
      /\ r1'.saving = r1.saving /\ r3' <= Digitize
      /\ r4' + (IF r1'.refining = "metered" THEN 1 ELSE 0) + r3
           <= r4 + (IF r1.refining = "metered" THEN 1 ELSE 0) + r3'
  <2>1. CASE Import!MeterRefine
    BY <1>0, <2>1 DEF Import!MeterRefine, Import!Meter, Import!PageRow
  <2>2. CASE Import!ReadRegion
    BY <1>0, <2>2 DEF Import!ReadRegion, Import!PageRow
  <2> QED
    BY <2>1, <2>2
<1>2. Import!TypeOK'
  BY <1>1 DEF Import!IInv, Import!TypeOK, Import!PageRow, Import!JobRow
<1>3. Import!JobIsOfThePhoto' /\ Import!DraftIsOfThePhoto' /\ Import!OneActive'
  BY <1>1 DEF Import!IInv, Import!JobIsOfThePhoto, Import!DraftIsOfThePhoto, Import!OneActive,
              Import!Active, Import!Job
<1>4. Import!SlotsAreTaken'
  <2>1. Import!JobIsMetered' <=> Import!JobIsMetered
    BY <1>1 DEF Import!JobIsMetered, Import!Job
  <2> DEFINE job == IF Import!JobIsMetered THEN 1 ELSE 0
             region == IF r1.refining = "metered" THEN 1 ELSE 0
             later == IF r1'.refining = "metered" THEN 1 ELSE 0
  <2>2. job \in Nat /\ region \in Nat /\ later \in Nat
    OBVIOUS
  <2>3. /\ r4 + (job + region) <= r3 /\ r4' + later + r3 <= r4 + region + r3'
        /\ Import!Pending' = job + later
    BY <1>0, <1>1, <2>1 DEF Import!Pending
  <2> HIDE DEF job, region, later
  <2>a. /\ r3 \in Nat /\ r4 \in Nat /\ r3' \in Nat /\ r4' \in Nat
        /\ job \in Nat /\ region \in Nat /\ later \in Nat
    BY <1>0, <1>1, <2>2
  <2>4. r4' + Import!Pending' <= r3'
    <3>1. \A u, v, x, y, j, g, l \in Nat :
            u + (j + g) <= v /\ x + l + v <= u + g + y => x + (j + l) <= y
      OBVIOUS
    <3>2. r4' + (job + later) <= r3'
      BY <2>3, <2>a, <3>1
    <3> QED
      BY <2>3, <3>2
  <2> QED
    BY <1>1, <2>4 DEF Import!SlotsAreTaken
<1> QED
  BY <1>2, <1>3, <1>4 DEF Import!IInv

\* The photo on the page is put into the queue.
LEMMA EnqueueImport ==
  ASSUME Import!IInv, Import!Enqueue
  PROVE  Import!IInv'
<1> DEFINE job == [photo |-> r1.photo, state |-> "waiting"]
<1>0. /\ Digitize \in Nat /\ r1 \in Import!PageRow /\ r2 \in Seq(Import!JobRow)
      /\ Len(r2) \in Nat /\ Import!Job = 1..Len(r2) /\ r3 \in Nat /\ r4 \in Nat
  BY ImportFacts
<1>1. /\ r1' = [r1 EXCEPT !.adding = "added"] /\ r2' = Append(r2, job) /\ r1.adding = "sent"
      /\ UNCHANGED <<r3, r4, r5>>
  BY DEF Import!Enqueue
<1>2. job \in Import!JobRow /\ job.photo = r1.photo /\ job.state = "waiting"
  BY <1>0 DEF Import!JobRow, Import!PageRow
<1> HIDE DEF job
<1>3. /\ r2' \in Seq(Import!JobRow) /\ Len(r2') = Len(r2) + 1 /\ r2'[Len(r2) + 1] = job
      /\ \A i \in 1..Len(r2) : r2'[i] = r2[i]
  BY <1>0, <1>1, <1>2, AppendProperties
<1>4. Import!Job' = 1..(Len(r2) + 1) /\ r2' # <<>>
  BY <1>0, <1>3, LenProperties, EmptySeq DEF Import!Job
<1>5. r1' \in Import!PageRow
  BY <1>0, <1>1 DEF Import!PageRow
<1>6. Import!TypeOK'
  BY <1>0, <1>1, <1>3, <1>5 DEF Import!TypeOK, Import!PageRow, Import!JobRow
<1>7. Import!JobIsOfThePhoto' /\ Import!DraftIsOfThePhoto'
  BY <1>0, <1>1, <1>2, <1>3, <1>4
     DEF Import!IInv, Import!JobIsOfThePhoto, Import!DraftIsOfThePhoto, Import!PageRow, Import!NoJob
<1>8. Import!OneActive'
  BY <1>0, <1>2, <1>3, <1>4 DEF Import!IInv, Import!OneActive, Import!Active
<1>9. Import!SlotsAreTaken'
  <2>1. Import!JobIsMetered' => Import!JobIsMetered
    BY <1>0, <1>2, <1>3, <1>4 DEF Import!JobIsMetered
  <2>2. r1'.refining = r1.refining
    BY <1>0, <1>1 DEF Import!PageRow
  <2> QED
    BY <1>0, <1>1, <2>1, <2>2 DEF Import!IInv, Import!SlotsAreTaken, Import!Pending
<1> QED
  BY <1>6, <1>7, <1>8, <1>9 DEF Import!IInv

\* Every step of the page, of the queue and of the worker keeps the invariant.
LEMMA NextImport ==
  ASSUME Import!IInv, Import!Next
  PROVE  Import!IInv'
BY PageImport, EnqueueImport, WorkerImport, RegionImport DEF Import!Next

\* The invariant says of the photo what the page promises.
LEMMA ImportIsOfThePhoto ==
  Import!IInv => Import!DraftIsOfThePhoto /\ Import!ReadingsArePaidFor
<1> SUFFICES ASSUME Import!IInv PROVE Import!DraftIsOfThePhoto /\ Import!ReadingsArePaidFor
  OBVIOUS
<1>1. Digitize \in Nat /\ r3 \in Nat /\ r4 \in Nat
  BY ImportFacts
<1> QED
  BY <1>1 DEF Import!IInv, Import!SlotsAreTaken, Import!Pending, Import!ReadingsArePaidFor

-----------------------------------------------------------------------------
(* Employees and their bank links (Employees): employee r1, request r2,    *)
(* links r3, tab r4, stored r5, raced r6.  A link that has stored details is*)
(* burnt, unless two tabs stored at once; a link was sent to the employee  *)
(* whose row it is in; rows and registrations under way fill the seats.    *)

\* The instance's operators on finite sets are those of this module.
LEMMA StaffSets ==
  \A S : (Staff!IsFiniteSet(S) <=> IsFiniteSet(S)) /\ Staff!Cardinality(S) = Cardinality(S)
<1> SUFFICES ASSUME NEW S
             PROVE  (Staff!IsFiniteSet(S) <=> IsFiniteSet(S)) /\ Staff!Cardinality(S) = Cardinality(S)
  OBVIOUS
<1>1. Staff!IsFiniteSet(S) <=> IsFiniteSet(S)
  BY DEF Staff!IsFiniteSet, IsFiniteSet
<1>2. Staff!Cardinality(S) = Cardinality(S)
  BY DEF Staff!Cardinality, Cardinality
<1> QED
  BY <1>1, <1>2

\* The rows, the requests and the tabs, one by one.
LEMMA StaffFacts ==
  ASSUME Staff!IInv
  PROVE  /\ r1 \in [Employee -> Staff!Row \cup {Null}] /\ r2 \in [Request -> Staff!RequestRow]
         /\ r3 \in Seq(Employee) /\ Len(r3) \in Nat /\ r4 \in [Tab -> Staff!TabRow]
         /\ r5 \in [1..MaxLinks -> Nat] /\ Null \notin Staff!Row /\ Null \notin Tab
         /\ \A e \in Staff!Registered : e \in Employee /\ r1[e] \in Staff!Row
         /\ \A n \in 1..Len(r3) : r3[n] \in Employee
         /\ MaxLinks \in Nat /\ Len(r3) <= MaxLinks
<1>1. /\ r1 \in [Employee -> Staff!Row \cup {Null}] /\ r2 \in [Request -> Staff!RequestRow]
      /\ r3 \in Seq(Employee) /\ r4 \in [Tab -> Staff!TabRow] /\ Len(r3) <= MaxLinks
      /\ r5 \in [1..MaxLinks -> Nat]
  BY DEF Staff!IInv, Staff!TypeOK
<1>2. MaxLinks \in Nat /\ Null \notin Staff!Row /\ Null \notin Tab
  BY ServicesConstants DEF Staff!EmployeesConstants
<1>3. \A e \in Staff!Registered : e \in Employee /\ r1[e] \in Staff!Row
  BY <1>1 DEF Staff!Registered
<1> QED
  BY <1>1, <1>2, <1>3, LenProperties, ElementOfSeq

\* Seats: the rows and the registrations that have passed the count.
SeatsHold ==
  Cardinality(Staff!Registered) + Cardinality(Staff!Creating) < Seats + Cardinality(Request)

\* The instance's count of seats, in this module's words, and that it is a number.
LEMMA SeatsMean ==
  /\ Staff!SeatsAreCounted <=> SeatsHold
  /\ Staff!SeatsAreCounted' <=> SeatsHold'
  /\ IsFiniteSet(Employee) /\ IsFiniteSet(Request) /\ Seats \in Nat
  /\ Cardinality(Request) \in Nat \ {0}
  /\ IsFiniteSet(Staff!Registered) /\ Cardinality(Staff!Registered) \in Nat
  /\ IsFiniteSet(Staff!Creating) /\ Cardinality(Staff!Creating) \in Nat
  /\ Cardinality(Staff!Creating) <= Cardinality(Request)
  /\ IsFiniteSet(Staff!Creating') /\ Cardinality(Staff!Creating') \in Nat
  /\ Cardinality(Staff!Creating') <= Cardinality(Request)
<1>1. IsFiniteSet(Employee) /\ IsFiniteSet(Request) /\ Seats \in Nat /\ Request # {}
  BY ServicesConstants, StaffSets DEF Staff!EmployeesConstants
<1>2. Cardinality(Request) \in Nat \ {0}
  BY <1>1, FS_CardinalityType, FS_EmptySet
<1>3. IsFiniteSet(Staff!Registered) /\ Cardinality(Staff!Registered) \in Nat
  <2>1. Staff!Registered \subseteq Employee
    BY DEF Staff!Registered
  <2> QED
    BY <1>1, <2>1, FS_Subset, FS_CardinalityType
<1>4. /\ IsFiniteSet(Staff!Creating) /\ Cardinality(Staff!Creating) \in Nat
      /\ Cardinality(Staff!Creating) <= Cardinality(Request)
  <2>1. Staff!Creating \subseteq Request
    BY DEF Staff!Creating
  <2> QED
    BY <1>1, <2>1, FS_Subset, FS_CardinalityType
<1>5. /\ IsFiniteSet(Staff!Creating') /\ Cardinality(Staff!Creating') \in Nat
      /\ Cardinality(Staff!Creating') <= Cardinality(Request)
  <2>1. Staff!Creating' \subseteq Request
    BY DEF Staff!Creating
  <2> QED
    BY <1>1, <2>1, FS_Subset, FS_CardinalityType
<1>6. (Staff!SeatsAreCounted <=> SeatsHold) /\ (Staff!SeatsAreCounted' <=> SeatsHold')
  BY StaffSets DEF Staff!SeatsAreCounted, SeatsHold
<1> QED
  BY <1>1, <1>2, <1>3, <1>4, <1>5, <1>6

\* A request leaves those that have passed the count.
LEMMA FewerCreating ==
  ASSUME Staff!SeatsAreCounted, Staff!Registered' = Staff!Registered,
         NEW creating, creating = Staff!Creating', creating \subseteq Staff!Creating
  PROVE  Staff!SeatsAreCounted'
<1>1. Cardinality(creating) <= Cardinality(Staff!Creating) /\ Cardinality(creating) \in Nat
  BY SeatsMean, FS_Subset, FS_CardinalityType
<1> QED
  BY <1>1, SeatsMean DEF SeatsHold

\* Nobody is registered.
LEMMA InitStaff == ASSUME Staff!Init PROVE Staff!IInv
<1>1. /\ r1 = [e \in Employee |-> Null] /\ r2 = [r \in Request |-> [pc |-> "idle", id |-> Null]]
      /\ r3 = <<>> /\ r4 = [t \in Tab |-> Staff!NoTab] /\ r5 = [n \in 1..MaxLinks |-> 0]
  BY DEF Staff!Init, Staff!NoRequest
<1>2. Len(r3) <= MaxLinks /\ r3 \in Seq(Employee) /\ Len(r3) = 0
  BY <1>1, ServicesConstants DEF Staff!EmployeesConstants
<1>3. Staff!TypeOK
  BY <1>1, <1>2 DEF Staff!TypeOK, Staff!RequestRow, Staff!TabRow, Staff!NoTab
<1>4. Staff!Registered = {} /\ Staff!Creating = {}
  BY <1>1 DEF Staff!Registered, Staff!Creating
<1>5. Staff!RequestsFit /\ Staff!LinksAreMailed /\ Staff!DetailsAreOfTheTab /\ Staff!UnmailedIsUnused
  BY <1>1, <1>4 DEF Staff!RequestsFit, Staff!LinksAreMailed, Staff!DetailsAreOfTheTab,
                    Staff!UnmailedIsUnused
<1>6. Staff!TabsFit /\ Staff!UsedIsBurnt
  BY <1>1 DEF Staff!TabsFit, Staff!UsedIsBurnt, Staff!Storing, Staff!NoTab
<1>7. Staff!SeatsAreCounted
  BY <1>4, SeatsMean, FS_EmptySet DEF SeatsHold
<1> QED
  BY <1>3, <1>5, <1>6, <1>7 DEF Staff!IInv

\* Rows that keep their link and their details, and new rows without any, change nothing
\* for the links and the tabs.
LEMMA QuietRows ==
  ASSUME Staff!IInv, r3' = r3, r4' = r4, r5' = r5, r6' = r6,
         \A e \in Employee :
           /\ r1[e] # Null => /\ r1'[e] # Null /\ r1'[e].link = r1[e].link
                              /\ r1'[e].by = r1[e].by /\ r1'[e].details = r1[e].details
           /\ r1[e] = Null /\ r1'[e] # Null => r1'[e].link = 0 /\ r1'[e].by = Null
  PROVE  /\ Staff!LinksAreMailed' /\ Staff!TabsFit' /\ Staff!UsedIsBurnt'
         /\ Staff!UnmailedIsUnused' /\ Staff!DetailsAreOfTheTab'
<1>1. \A n \in Nat \ {0} : Staff!Held(n)' => Staff!Held(n)
  BY DEF Staff!Held, Staff!Registered
<1>2. /\ Staff!LinksAreMailed /\ Staff!TabsFit /\ Staff!UsedIsBurnt
      /\ Staff!UnmailedIsUnused /\ Staff!DetailsAreOfTheTab
  BY DEF Staff!IInv
<1>3. Staff!LinksAreMailed' /\ Staff!UnmailedIsUnused'
  BY <1>2 DEF Staff!LinksAreMailed, Staff!UnmailedIsUnused, Staff!Registered
<1>4. Staff!TabsFit'
  BY <1>2 DEF Staff!TabsFit, Staff!Registered
<1>5. Staff!UsedIsBurnt'
  BY <1>1, <1>2 DEF Staff!UsedIsBurnt, Staff!Storing
<1>6. Staff!DetailsAreOfTheTab'
  <2> SUFFICES ASSUME NEW t \in Tab, NEW e \in Employee, r1'[e] # Null, r1'[e].by = t
               PROVE  /\ r4[t].step # "closed" /\ e = r3[r4[t].link] /\ ~Staff!Held(r4[t].link)'
                      /\ r4[t].pc # "store"
                      /\ r4[t].pc = "answer" \/ r4[t].step = "done" => r1'[e].details = r4[t].shown
    BY DEF Staff!DetailsAreOfTheTab, Staff!Registered, Staff!Storing
  <2>1. r1[e] # Null /\ r1[e].by = t
    BY StaffFacts
  <2>2. /\ r4[t].step # "closed" /\ e = r3[r4[t].link] /\ ~Staff!Held(r4[t].link)
        /\ r4[t].pc # "store"
        /\ r4[t].pc = "answer" \/ r4[t].step = "done" => r1[e].details = r4[t].shown
    BY <1>2, <2>1 DEF Staff!DetailsAreOfTheTab, Staff!Registered, Staff!Storing
  <2>3. r4[t].link \in Nat \ {0}
    BY <1>2, <2>2, StaffFacts DEF Staff!TabsFit
  <2> QED
    BY <1>1, <2>1, <2>2, <2>3
<1> QED
  BY <1>3, <1>4, <1>5, <1>6

\* Registrations and requests that fail or only begin.
LEMMA RequestStaff ==
  ASSUME Staff!IInv, NEW r \in Request,
         Staff!Register(r) \/ Staff!RequestFails(r)
         \/ \E e \in Employee : Staff!RequestBankDetails(r, e)
  PROVE  Staff!IInv'
<1>0. /\ Staff!TypeOK /\ Staff!RequestsFit /\ Staff!SeatsAreCounted /\ r2 \in [Request -> Staff!RequestRow]
      /\ Null \in Employee \cup {Null}
  BY DEF Staff!IInv, Staff!TypeOK
<1>1. PICK row \in Staff!RequestRow :
        /\ r1' = r1 /\ r3' = r3 /\ r4' = r4 /\ r5' = r5 /\ r6' = r6
        /\ r2' = [r2 EXCEPT ![r] = row] /\ row.pc # "create"
        /\ row.pc = "rotate" => row.id \in Staff!Registered
  <2>1. CASE Staff!Register(r)
    <3>1. r2' = [r2 EXCEPT ![r] = [pc |-> "count", id |-> Null]]
      <4>1. r2[r] = [pc |-> "idle", id |-> Null] /\ r2' = [r2 EXCEPT ![r] = [r2[r] EXCEPT !.pc = "count"]]
        BY <1>0, <2>1 DEF Staff!Register, Staff!Goto, Staff!NoRequest
      <4>2. [r2[r] EXCEPT !.pc = "count"] = [pc |-> "count", id |-> Null]
        BY <4>1
      <4> QED
        BY <4>1, <4>2
    <3>2. [pc |-> "count", id |-> Null] \in Staff!RequestRow
      BY DEF Staff!RequestRow
    <3> QED
      BY <2>1, <3>1, <3>2 DEF Staff!Register
  <2>2. CASE Staff!RequestFails(r)
    <3>1. Staff!NoRequest \in Staff!RequestRow /\ Staff!NoRequest.pc = "idle"
      BY DEF Staff!RequestRow, Staff!NoRequest
    <3> QED
      BY <2>2, <3>1 DEF Staff!RequestFails
  <2>3. ASSUME NEW e \in Employee, Staff!RequestBankDetails(r, e)
        PROVE  \E row \in Staff!RequestRow :
                 /\ r1' = r1 /\ r3' = r3 /\ r4' = r4 /\ r5' = r5 /\ r6' = r6
                 /\ r2' = [r2 EXCEPT ![r] = row] /\ row.pc # "create"
                 /\ row.pc = "rotate" => row.id \in Staff!Registered
    <3> DEFINE row == [pc |-> "rotate", id |-> e]
    <3>1. row \in Staff!RequestRow /\ row.pc = "rotate" /\ row.id = e
      BY DEF Staff!RequestRow
    <3>2. r2' = [r2 EXCEPT ![r] = row] /\ e \in Staff!Registered
      BY <2>3 DEF Staff!RequestBankDetails
    <3> HIDE DEF row
    <3> QED
      BY <2>3, <3>1, <3>2 DEF Staff!RequestBankDetails
  <2> QED
    BY <2>1, <2>2, <2>3
<1>2. /\ r2' \in [Request -> Staff!RequestRow] /\ r2'[r] = row
      /\ \A q \in Request : q # r => r2'[q] = r2[q]
  BY <1>0, <1>1
<1>3. Staff!Registered' = Staff!Registered
  BY <1>1 DEF Staff!Registered
<1>4. Staff!TypeOK' /\ Staff!RequestsFit'
  BY <1>0, <1>1, <1>2, <1>3 DEF Staff!TypeOK, Staff!RequestsFit
<1>5. Staff!SeatsAreCounted'
  <2> DEFINE creating == Staff!Creating'
  <2>1. creating \subseteq Staff!Creating
    BY <1>1, <1>2 DEF Staff!Creating
  <2> HIDE DEF creating
  <2> QED
    BY <1>0, <1>3, <2>1, FewerCreating DEF creating
<1>6. /\ Staff!LinksAreMailed' /\ Staff!TabsFit' /\ Staff!UsedIsBurnt'
      /\ Staff!UnmailedIsUnused' /\ Staff!DetailsAreOfTheTab'
  BY <1>1, QuietRows
<1> QED
  BY <1>4, <1>5, <1>6 DEF Staff!IInv

\* Whoever passes the count leaves a seat for every row, and the others who have passed
\* are fewer than the requests.
LEMMA CountStaff ==
  ASSUME Staff!IInv, NEW r \in Request, Staff!CountSeats(r)
  PROVE  Staff!IInv'
<1>0. Staff!TypeOK /\ Staff!RequestsFit /\ Staff!SeatsAreCounted /\ r2 \in [Request -> Staff!RequestRow]
  BY DEF Staff!IInv, Staff!TypeOK
<1>1. r1' = r1 /\ r3' = r3 /\ r4' = r4 /\ r5' = r5 /\ r6' = r6
  BY DEF Staff!CountSeats, Staff!Goto
<1>2. /\ r2' \in [Request -> Staff!RequestRow] /\ r2'[r].pc # "rotate"
      /\ \A q \in Request : q # r => r2'[q] = r2[q]
      /\ r2'[r].pc = "create" => Staff!SeatLeft
  BY <1>0 DEF Staff!CountSeats, Staff!Goto, Staff!RequestRow, Staff!NoRequest
<1>3. Staff!Registered' = Staff!Registered
  BY <1>1 DEF Staff!Registered
<1>4. Staff!TypeOK' /\ Staff!RequestsFit'
  BY <1>0, <1>1, <1>2, <1>3 DEF Staff!TypeOK, Staff!RequestsFit
<1>5. Staff!SeatsAreCounted'
  <2>1. CASE r2'[r].pc = "create"
    <3>1. Cardinality(Staff!Registered) < Seats
      BY <1>2, <2>1, StaffSets DEF Staff!SeatLeft
    <3> QED
      BY <1>3, <3>1, SeatsMean DEF SeatsHold
  <2>2. CASE r2'[r].pc # "create"
    <3> DEFINE creating == Staff!Creating'
    <3>1. creating \subseteq Staff!Creating
      BY <1>2, <2>2 DEF Staff!Creating
    <3> HIDE DEF creating
    <3> QED
      BY <1>0, <1>3, <3>1, FewerCreating DEF creating
  <2> QED
    BY <2>1, <2>2
<1>6. /\ Staff!LinksAreMailed' /\ Staff!TabsFit' /\ Staff!UsedIsBurnt'
      /\ Staff!UnmailedIsUnused' /\ Staff!DetailsAreOfTheTab'
  BY <1>1, QuietRows
<1> QED
  BY <1>4, <1>5, <1>6 DEF Staff!IInv

\* A row takes the place of a registration that has passed the count.
LEMMA CreateStaff ==
  ASSUME Staff!IInv, NEW r \in Request, Staff!CreateRow(r)
  PROVE  Staff!IInv'
<1>0. /\ Staff!TypeOK /\ Staff!RequestsFit /\ Staff!SeatsAreCounted
      /\ r1 \in [Employee -> Staff!Row \cup {Null}] /\ r2 \in [Request -> Staff!RequestRow]
  BY DEF Staff!IInv, Staff!TypeOK
<1>1. PICK e \in Employee \ Staff!Registered : r1' = [r1 EXCEPT ![e] = Staff!NewRow]
  BY DEF Staff!CreateRow
<1>2. /\ r3' = r3 /\ r4' = r4 /\ r5' = r5 /\ r6' = r6 /\ r2[r].pc = "create"
      /\ r2' = [r2 EXCEPT ![r] = Staff!NoRequest]
  BY DEF Staff!CreateRow
<1>3. Staff!NewRow \in Staff!Row /\ Staff!NewRow.link = 0 /\ Staff!NewRow.by = Null
  BY DEF Staff!NewRow, Staff!Row
<1>4. /\ r1' \in [Employee -> Staff!Row \cup {Null}] /\ r1[e] = Null /\ r1'[e] = Staff!NewRow
      /\ \A x \in Employee : x # e => r1'[x] = r1[x]
      /\ Staff!NewRow # Null
  BY <1>0, <1>1, <1>3, StaffFacts DEF Staff!Registered
<1>5. Staff!NoRequest \in Staff!RequestRow /\ Staff!NoRequest.pc = "idle"
  BY DEF Staff!RequestRow, Staff!NoRequest
<1>6. /\ r2' \in [Request -> Staff!RequestRow] /\ r2'[r].pc = "idle"
      /\ \A q \in Request : q # r => r2'[q] = r2[q]
  BY <1>0, <1>2, <1>5
<1>7. Staff!Registered' = Staff!Registered \cup {e} /\ Staff!Creating' = Staff!Creating \ {r}
  BY <1>1, <1>2, <1>4, <1>6 DEF Staff!Registered, Staff!Creating
<1>8. Staff!TypeOK' /\ Staff!RequestsFit'
  BY <1>0, <1>2, <1>4, <1>6, <1>7 DEF Staff!TypeOK, Staff!RequestsFit
<1>9. Staff!SeatsAreCounted'
  <2>1. Cardinality(Staff!Registered') = Cardinality(Staff!Registered) + 1
    BY <1>1, <1>7, SeatsMean, FS_AddElement
  <2>2. r \in Staff!Creating
    BY <1>2 DEF Staff!Creating
  <2>3. Cardinality(Staff!Creating') = Cardinality(Staff!Creating) - 1
    BY <1>7, <2>2, SeatsMean, FS_RemoveElement
  <2> QED
    BY <1>0, <2>1, <2>3, SeatsMean DEF SeatsHold
<1>10. /\ Staff!LinksAreMailed' /\ Staff!TabsFit' /\ Staff!UsedIsBurnt'
       /\ Staff!UnmailedIsUnused' /\ Staff!DetailsAreOfTheTab'
  BY <1>1, <1>2, <1>3, <1>4, QuietRows
<1> QED
  BY <1>8, <1>9, <1>10 DEF Staff!IInv

\* A link expires.
LEMMA ExpireStaff ==
  ASSUME Staff!IInv, NEW e \in Employee, Staff!Expire(e)
  PROVE  Staff!IInv'
<1>0. /\ Staff!TypeOK /\ Staff!RequestsFit /\ Staff!SeatsAreCounted
      /\ r1 \in [Employee -> Staff!Row \cup {Null}] /\ r1[e] \in Staff!Row /\ r1[e] # Null
  BY StaffFacts DEF Staff!IInv, Staff!TypeOK, Staff!Expire, Staff!Registered
<1> DEFINE row == [r1[e] EXCEPT !.expired = TRUE]
<1>1. /\ r2' = r2 /\ r3' = r3 /\ r4' = r4 /\ r5' = r5 /\ r6' = r6
      /\ r1' = [r1 EXCEPT ![e] = row]
  BY <1>0 DEF Staff!Expire
<1>2. /\ row \in Staff!Row /\ row.link = r1[e].link /\ row.by = r1[e].by
      /\ row.details = r1[e].details
  BY <1>0 DEF Staff!Row
<1> HIDE DEF row
<1>3. /\ r1' \in [Employee -> Staff!Row \cup {Null}] /\ r1'[e] = row /\ row # Null
      /\ \A x \in Employee : x # e => r1'[x] = r1[x]
  BY <1>0, <1>1, <1>2, StaffFacts
<1>4. Staff!Registered' = Staff!Registered /\ Staff!Creating' = Staff!Creating
  BY <1>0, <1>1, <1>3 DEF Staff!Registered, Staff!Creating
<1>5. Staff!TypeOK' /\ Staff!RequestsFit' /\ Staff!SeatsAreCounted'
  BY <1>0, <1>1, <1>3, <1>4 DEF Staff!TypeOK, Staff!RequestsFit, Staff!SeatsAreCounted
<1>6. /\ Staff!LinksAreMailed' /\ Staff!TabsFit' /\ Staff!UsedIsBurnt'
      /\ Staff!UnmailedIsUnused' /\ Staff!DetailsAreOfTheTab'
  <2>1. \A x \in Employee :
          /\ r1[x] # Null => /\ r1'[x] # Null /\ r1'[x].link = r1[x].link
                             /\ r1'[x].by = r1[x].by /\ r1'[x].details = r1[x].details
          /\ r1[x] = Null /\ r1'[x] # Null => r1'[x].link = 0 /\ r1'[x].by = Null
    BY <1>0, <1>2, <1>3
  <2> QED
    BY <1>1, <2>1, QuietRows
<1> QED
  BY <1>5, <1>6 DEF Staff!IInv

\* A new link: nobody has used it, and no tab is behind it.
LEMMA RotateStaff ==
  ASSUME Staff!IInv, NEW r \in Request, Staff!RotateLink(r)
  PROVE  Staff!IInv'
<1> DEFINE e == r2[r].id
           new == Len(r3) + 1
           row == [r1[e] EXCEPT !.link = new, !.expired = FALSE]
<1>0. /\ Staff!TypeOK /\ Staff!RequestsFit /\ Staff!SeatsAreCounted /\ Staff!LinksAreMailed
      /\ Staff!TabsFit /\ Staff!UsedIsBurnt /\ Staff!UnmailedIsUnused /\ Staff!DetailsAreOfTheTab
      /\ r1 \in [Employee -> Staff!Row \cup {Null}] /\ r2 \in [Request -> Staff!RequestRow]
      /\ r3 \in Seq(Employee) /\ Len(r3) \in Nat
  BY StaffFacts DEF Staff!IInv, Staff!TypeOK
<1>1. e \in Staff!Registered /\ e \in Employee /\ r1[e] \in Staff!Row /\ r1[e] # Null
  BY <1>0, StaffFacts DEF Staff!RequestsFit, Staff!RotateLink
<1>2. /\ r4' = r4 /\ r5' = r5 /\ r6' = r6 /\ r3' = Append(r3, e) /\ Len(r3) < MaxLinks
      /\ r2' = [r2 EXCEPT ![r] = Staff!NoRequest]
  BY DEF Staff!RotateLink
<1>3. r1' = [r1 EXCEPT ![e] = row]
  BY <1>0, <1>1 DEF Staff!RotateLink
<1>4. /\ row \in Staff!Row /\ row.link = new /\ row.by = r1[e].by /\ row.details = r1[e].details
      /\ new \in Nat \ {0}
  <2>1. new \in Nat \ {0} /\ r1[e] \in Staff!Row
    BY <1>0, <1>1
  <2> HIDE DEF new, e
  <2> QED
    BY <2>1 DEF Staff!Row
<1> HIDE DEF e, row, new
<1>5. /\ r1' \in [Employee -> Staff!Row \cup {Null}] /\ r1'[e] = row /\ row # Null
      /\ \A x \in Employee : x # e => r1'[x] = r1[x]
  BY <1>0, <1>1, <1>3, <1>4, StaffFacts
<1>6. /\ r3' \in Seq(Employee) /\ Len(r3') = new /\ r3'[new] = e
      /\ \A n \in 1..Len(r3) : r3'[n] = r3[n]
  BY <1>0, <1>1, <1>2, AppendProperties DEF new
<1>7. Staff!NoRequest \in Staff!RequestRow /\ Staff!NoRequest.pc = "idle"
  BY DEF Staff!RequestRow, Staff!NoRequest
<1>8. /\ r2' \in [Request -> Staff!RequestRow] /\ r2'[r].pc = "idle"
      /\ \A q \in Request : q # r => r2'[q] = r2[q]
  BY <1>0, <1>2, <1>7
<1>9. Staff!Registered' = Staff!Registered /\ Staff!Creating' \subseteq Staff!Creating
  BY <1>1, <1>3, <1>5, <1>8 DEF Staff!Registered, Staff!Creating
<1>10. Staff!TypeOK' /\ Staff!RequestsFit'
  <2>1. new <= MaxLinks
    BY <1>0, <1>2, StaffFacts DEF new
  <2> QED
    BY <1>0, <1>2, <1>5, <1>6, <1>8, <1>9, <2>1 DEF Staff!TypeOK, Staff!RequestsFit
<1>11. Staff!SeatsAreCounted'
  <2> DEFINE creating == Staff!Creating'
  <2>1. creating \subseteq Staff!Creating
    BY <1>9
  <2> HIDE DEF creating
  <2> QED
    BY <1>0, <1>9, <2>1, FewerCreating DEF creating
<1>12. \A n \in Nat : n # new /\ Staff!Held(n)' => Staff!Held(n)
  BY <1>4, <1>5, <1>9 DEF Staff!Held, Staff!Registered
<1>13. Staff!LinksAreMailed'
  BY <1>0, <1>4, <1>5, <1>6, <1>9 DEF Staff!LinksAreMailed, Staff!Registered, new
<1>14. Staff!TabsFit'
  BY <1>0, <1>2, <1>6, <1>9 DEF Staff!TabsFit, new
<1>15. Staff!UnmailedIsUnused'
  BY <1>0, <1>2, <1>6, StaffFacts DEF Staff!UnmailedIsUnused, new
<1>16. Staff!UsedIsBurnt'
  <2>1. new \in 1..MaxLinks => r5[new] = 0
    BY <1>0 DEF Staff!UnmailedIsUnused, new
  <2> QED
    BY <1>0, <1>2, <1>12, <2>1 DEF Staff!UsedIsBurnt, Staff!Storing
<1>17. Staff!DetailsAreOfTheTab'
  <2> SUFFICES ASSUME NEW t \in Tab, NEW x \in Staff!Registered, r1'[x].by = t
               PROVE  /\ r4[t].step # "closed" /\ x = r3'[r4[t].link] /\ ~Staff!Held(r4[t].link)'
                      /\ r4[t].pc # "store"
                      /\ r4[t].pc = "answer" \/ r4[t].step = "done" => r1'[x].details = r4[t].shown
    BY <1>2, <1>9 DEF Staff!DetailsAreOfTheTab, Staff!Storing
  <2>1. r1[x].by = t /\ r1'[x].details = r1[x].details
    BY <1>4, <1>5, StaffFacts
  <2>2. /\ r4[t].step # "closed" /\ x = r3[r4[t].link] /\ ~Staff!Held(r4[t].link)
        /\ r4[t].pc # "store"
        /\ r4[t].pc = "answer" \/ r4[t].step = "done" => r1[x].details = r4[t].shown
    BY <1>0, <2>1 DEF Staff!DetailsAreOfTheTab, Staff!Storing
  <2>3. r4[t].link \in 1..Len(r3)
    BY <1>0, <2>2 DEF Staff!TabsFit
  <2>4. r4[t].link \in Nat /\ r4[t].link # new
    BY <1>0, <2>3 DEF new
  <2> QED
    BY <1>2, <1>6, <1>12, <2>1, <2>2, <2>3, <2>4
<1> QED
  BY <1>0, <1>10, <1>11, <1>13, <1>14, <1>15, <1>16, <1>17 DEF Staff!IInv

\* What TabsFit says of one tab.
TabFits(p) ==
  /\ p.step = "closed" => p.link = 0
  /\ p.step # "closed" => p.link \in 1..Len(r3)
  /\ p.pc # "idle" => p.step = "review" /\ p.sent = p.shown
  /\ p.pc \in {"store", "answer"} \/ p.step = "done" =>
       p.id = r3[p.link] /\ p.id \in Staff!Registered

\* The tabs, one by one.
LEMMA TabFacts ==
  ASSUME Staff!IInv
  PROVE  \A t \in Tab : r4[t] \in Staff!TabRow /\ TabFits(r4[t])
BY StaffFacts DEF Staff!IInv, Staff!TabsFit, TabFits

\* A step of one tab that stores nothing.  Where the tab has stored details before, its
\* link and what it shows stay.
LEMMA TabStep ==
  ASSUME Staff!IInv, NEW t \in Tab, NEW row \in Staff!TabRow, TabFits(row), row.pc # "store",
         r4' = [r4 EXCEPT ![t] = row],
         r1' = r1, r2' = r2, r3' = r3, r5' = r5, r6' = r6,
         r4[t].step # "closed" => row.step # "closed" /\ row.link = r4[t].link,
         row.pc = "answer" \/ row.step = "done" =>
           /\ row.shown = r4[t].shown
           /\ r4[t].pc = "answer" \/ r4[t].step = "done"
  PROVE  Staff!IInv'
<1>0. /\ Staff!TypeOK /\ Staff!RequestsFit /\ Staff!SeatsAreCounted /\ Staff!LinksAreMailed
      /\ Staff!TabsFit /\ Staff!UsedIsBurnt /\ Staff!UnmailedIsUnused /\ Staff!DetailsAreOfTheTab
  BY DEF Staff!IInv
<1>1. /\ r4' \in [Tab -> Staff!TabRow] /\ r4'[t] = row /\ \A u \in Tab : u # t => r4'[u] = r4[u]
  BY StaffFacts
<1>2. Staff!Registered' = Staff!Registered /\ Staff!Creating' = Staff!Creating
  BY DEF Staff!Registered, Staff!Creating
<1>3. Staff!TypeOK' /\ Staff!RequestsFit' /\ Staff!SeatsAreCounted' /\ Staff!LinksAreMailed'
  BY <1>0, <1>1, <1>2
     DEF Staff!TypeOK, Staff!RequestsFit, Staff!SeatsAreCounted, Staff!LinksAreMailed
<1>4. Staff!TabsFit'
  BY <1>1, <1>2, TabFacts DEF Staff!TabsFit, TabFits
<1>5. \A n : Staff!Held(n)' <=> Staff!Held(n)
  BY <1>2 DEF Staff!Held
<1>6. Staff!UsedIsBurnt' /\ Staff!UnmailedIsUnused'
  BY <1>0, <1>1, <1>5 DEF Staff!UsedIsBurnt, Staff!UnmailedIsUnused, Staff!Storing
<1>7. Staff!DetailsAreOfTheTab'
  <2> SUFFICES ASSUME NEW u \in Tab, NEW e \in Staff!Registered, r1[e].by = u
               PROVE  /\ r4'[u].step # "closed" /\ e = r3[r4'[u].link] /\ ~Staff!Held(r4'[u].link)
                      /\ r4'[u].pc # "store"
                      /\ r4'[u].pc = "answer" \/ r4'[u].step = "done" => r1[e].details = r4'[u].shown
    BY <1>2, <1>5 DEF Staff!DetailsAreOfTheTab, Staff!Storing, Staff!Held
  <2>1. /\ r4[u].step # "closed" /\ e = r3[r4[u].link] /\ ~Staff!Held(r4[u].link)
        /\ r4[u].pc # "store"
        /\ r4[u].pc = "answer" \/ r4[u].step = "done" => r1[e].details = r4[u].shown
    BY <1>0 DEF Staff!DetailsAreOfTheTab, Staff!Storing
  <2>2. CASE u = t
    BY <1>1, <2>1, <2>2
  <2>3. CASE u # t
    BY <1>1, <2>1, <2>3
  <2> QED
    BY <2>2, <2>3
<1> QED
  BY <1>0, <1>3, <1>4, <1>6, <1>7 DEF Staff!IInv

\* A tab opens, goes from screen to screen, submits and is answered.
LEMMA PageStaff ==
  ASSUME Staff!IInv, NEW t \in Tab,
         \/ \E n \in DOMAIN r3 : Staff!OpenLink(t, n)
         \/ \E d \in Details : Staff!Fill(t, d)
         \/ Staff!Review(t) \/ Staff!Back(t) \/ Staff!Submit(t) \/ Staff!Answered(t)
         \/ Staff!SubmissionFails(t)
  PROVE  Staff!IInv'
<1> DEFINE p == r4[t]
<1>0. /\ p \in Staff!TabRow /\ TabFits(p) /\ r4 \in [Tab -> Staff!TabRow]
      /\ DOMAIN r3 = 1..Len(r3) /\ Len(r3) \in Nat
  BY TabFacts, StaffFacts, LenProperties
<1>1. ASSUME NEW row \in Staff!TabRow, TabFits(row), row.pc # "store", r4' = [r4 EXCEPT ![t] = row],
             UNCHANGED <<r1, r2, r3, r5, r6>>,
             p.step # "closed" => row.step # "closed" /\ row.link = p.link,
             row.pc = "answer" \/ row.step = "done" =>
               row.shown = p.shown /\ (p.pc = "answer" \/ p.step = "done")
      PROVE  Staff!IInv'
  BY <1>1, TabStep
<1> HIDE DEF p
<1> USE DEF Staff!TabRow, TabFits
<1>2. ASSUME NEW n \in DOMAIN r3, Staff!OpenLink(t, n) PROVE Staff!IInv'
  <2>1. PICK step \in {"form", "invalid"} : r4' = [r4 EXCEPT ![t] = [p EXCEPT !.link = n, !.step = step]]
    BY <1>0, <1>2 DEF Staff!OpenLink, p
  <2>2. p.step = "closed" /\ UNCHANGED <<r1, r2, r3, r5, r6>>
    BY <1>2 DEF Staff!OpenLink, p
  <2> DEFINE row == [p EXCEPT !.link = n, !.step = step]
  <2>3. /\ row.step = step /\ row.link = n /\ row.pc = p.pc /\ row.shown = p.shown
        /\ row \in Staff!TabRow /\ p.pc = "idle" /\ n \in 1..Len(r3)
    <3>1. n \in 1..Len(r3) /\ n \in Nat
      BY <1>0, <1>2
    <3>2. p \in Staff!TabRow /\ p.pc = "idle"
      BY <1>0, <2>2
    <3> QED
      BY <3>1, <3>2
  <2> HIDE DEF row
  <2>4. TabFits(row)
    BY <2>3
  <2> QED
    BY <1>1, <2>1, <2>2, <2>3, <2>4 DEF row
<1>3. ASSUME NEW d \in Details, Staff!Fill(t, d) PROVE Staff!IInv'
  <2>1. r4' = [r4 EXCEPT ![t] = [p EXCEPT !.shown = d]] /\ p.step = "form"
        /\ UNCHANGED <<r1, r2, r3, r5, r6>>
    BY <1>0, <1>3 DEF Staff!Fill, p
  <2> QED
    BY <1>0, <1>1, <2>1
<1>4. CASE Staff!Review(t)
  <2>1. r4' = [r4 EXCEPT ![t] = [p EXCEPT !.step = "review"]] /\ p.step = "form"
        /\ UNCHANGED <<r1, r2, r3, r5, r6>>
    BY <1>0, <1>4 DEF Staff!Review, Staff!Show, p
  <2> QED
    BY <1>0, <1>1, <2>1
<1>5. CASE Staff!Back(t)
  <2>1. r4' = [r4 EXCEPT ![t] = [p EXCEPT !.step = "form"]] /\ p.step = "review" /\ p.pc = "idle"
        /\ UNCHANGED <<r1, r2, r3, r5, r6>>
    BY <1>0, <1>5 DEF Staff!Back, Staff!BackEnabled, Staff!Show, p
  <2> QED
    BY <1>0, <1>1, <2>1
<1>6. CASE Staff!Submit(t)
  <2>1. r4' = [r4 EXCEPT ![t] = [p EXCEPT !.pc = "find", !.sent = p.shown]] /\ p.step = "review"
        /\ UNCHANGED <<r1, r2, r3, r5, r6>>
    BY <1>0, <1>6 DEF Staff!Submit, p
  <2> QED
    BY <1>0, <1>1, <2>1
<1>7. CASE Staff!Answered(t)
  <2>1. r4' = [r4 EXCEPT ![t] = [p EXCEPT !.step = "done", !.pc = "idle"]] /\ p.pc = "answer"
        /\ UNCHANGED <<r1, r2, r3, r5, r6>>
    BY <1>0, <1>7 DEF Staff!Answered, p
  <2> QED
    BY <1>0, <1>1, <2>1
<1>8. CASE Staff!SubmissionFails(t)
  <2>1. r4' = [r4 EXCEPT ![t] = [p EXCEPT !.pc = "idle"]] /\ p.pc # "idle"
        /\ UNCHANGED <<r1, r2, r3, r5, r6>>
    BY <1>0, <1>8 DEF Staff!SubmissionFails, p
  <2> QED
    BY <1>0, <1>1, <2>1
<1> QED
  BY <1>2, <1>3, <1>4, <1>5, <1>6, <1>7, <1>8

\* The row is found by its link: the link has stored nothing, or two are using it.
LEMMA FindStaff ==
  ASSUME Staff!IInv, NEW t \in Tab, Staff!FindByLink(t)
  PROVE  Staff!IInv'
<1> DEFINE p == r4[t]
           n == r4[t].link
<1>0. /\ p \in Staff!TabRow /\ TabFits(p) /\ r4 \in [Tab -> Staff!TabRow] /\ p.pc = "find"
      /\ p.step = "review" /\ n \in 1..Len(r3) /\ p.sent = p.shown
      /\ UNCHANGED <<r1, r2, r3, r5>>
  <2>1. p \in Staff!TabRow /\ TabFits(p) /\ r4 \in [Tab -> Staff!TabRow]
    BY TabFacts, StaffFacts
  <2> QED
    BY <2>1 DEF Staff!FindByLink, TabFits
<1>1. CASE r4' = [r4 EXCEPT ![t].pc = "idle"] /\ r6' = r6
  <2> DEFINE row == [p EXCEPT !.pc = "idle"]
  <2>1. r4' = [r4 EXCEPT ![t] = row]
    BY <1>0, <1>1
  <2>2. row \in Staff!TabRow /\ TabFits(row) /\ row.pc = "idle" /\ row.step = "review"
        /\ row.link = r4[t].link
    BY <1>0 DEF Staff!TabRow, TabFits
  <2> HIDE DEF row
  <2> QED
    BY <1>0, <1>1, <2>1, <2>2, TabStep
<1>2. ASSUME NEW e \in Staff!Holder(n), r4' = [r4 EXCEPT ![t].pc = "store", ![t].id = e],
             r6' = IF \E u \in Tab : r4[u].pc = "store" /\ r4[u].link = n THEN r6 \cup {n} ELSE r6
      PROVE  Staff!IInv'
  <2> DEFINE row == [p EXCEPT !.pc = "store", !.id = e]
  <2>0. /\ Staff!TypeOK /\ Staff!RequestsFit /\ Staff!SeatsAreCounted /\ Staff!LinksAreMailed
        /\ Staff!TabsFit /\ Staff!UsedIsBurnt /\ Staff!UnmailedIsUnused /\ Staff!DetailsAreOfTheTab
    BY DEF Staff!IInv
  <2>1. /\ e \in Staff!Registered /\ e \in Employee /\ r1[e].link = n /\ n # 0 /\ Staff!Held(n)
        /\ e = r3[n]
    BY <1>0, <2>0, StaffFacts DEF Staff!Holder, Staff!Held, Staff!Registered, Staff!LinksAreMailed
  <2>2. r4' = [r4 EXCEPT ![t] = row]
    BY <1>0, <1>2
  <2>3. /\ row \in Staff!TabRow /\ row.pc = "store" /\ row.id = e /\ row.link = n
        /\ row.step = "review" /\ row.shown = p.shown /\ row.sent = p.sent
    BY <1>0, <2>1 DEF Staff!TabRow
  <2> HIDE DEF row
  <2>4. /\ r4' \in [Tab -> Staff!TabRow] /\ r4'[t] = row /\ \A u \in Tab : u # t => r4'[u] = r4[u]
    BY <1>0, <2>2, <2>3
  <2>5. Staff!Registered' = Staff!Registered /\ Staff!Creating' = Staff!Creating
    BY <1>0 DEF Staff!Registered, Staff!Creating
  <2>6. \A m : Staff!Held(m)' <=> Staff!Held(m)
    BY <1>0, <2>5 DEF Staff!Held
  <2>7. Staff!TypeOK' /\ Staff!RequestsFit' /\ Staff!SeatsAreCounted' /\ Staff!LinksAreMailed'
    BY <1>0, <2>0, <2>4, <2>5
       DEF Staff!TypeOK, Staff!RequestsFit, Staff!SeatsAreCounted, Staff!LinksAreMailed
  <2>8. Staff!TabsFit'
    BY <1>0, <2>0, <2>1, <2>3, <2>4, <2>5 DEF Staff!TabsFit
  <2>9. Staff!UnmailedIsUnused'
    BY <1>0, <2>0 DEF Staff!UnmailedIsUnused
  <2>10. Staff!UsedIsBurnt'
    <3> SUFFICES ASSUME NEW m \in 1..MaxLinks, m \notin r6'
                 PROVE  /\ r5[m] <= 1
                        /\ r5[m] = 1 => ~Staff!Held(m)
                                        /\ \A u \in Tab : ~(r4'[u].pc = "store" /\ r4'[u].link = m)
                        /\ \A u, v \in Tab :
                             r4'[u].pc = "store" /\ r4'[v].pc = "store" /\ r4'[u].link = m
                             /\ r4'[v].link = m => u = v
      BY <1>0, <2>6 DEF Staff!UsedIsBurnt, Staff!Storing
    <3>1. /\ r5[m] <= 1
          /\ r5[m] = 1 => ~Staff!Held(m)
                          /\ \A u \in Tab : ~(r4[u].pc = "store" /\ r4[u].link = m)
          /\ \A u, v \in Tab :
               r4[u].pc = "store" /\ r4[v].pc = "store" /\ r4[u].link = m
               /\ r4[v].link = m => u = v
      BY <1>2, <2>0 DEF Staff!UsedIsBurnt, Staff!Storing
    <3>2. m = n => \A u \in Tab : ~(r4[u].pc = "store" /\ r4[u].link = m)
      BY <1>2
    <3> QED
      BY <2>1, <2>3, <2>4, <3>1, <3>2
  <2>11. Staff!DetailsAreOfTheTab'
    <3> SUFFICES ASSUME NEW u \in Tab, NEW x \in Staff!Registered, r1[x].by = u
                 PROVE  /\ r4'[u].step # "closed" /\ x = r3[r4'[u].link] /\ ~Staff!Held(r4'[u].link)
                        /\ r4'[u].pc # "store"
                        /\ r4'[u].pc = "answer" \/ r4'[u].step = "done" => r1[x].details = r4'[u].shown
      BY <1>0, <2>5, <2>6 DEF Staff!DetailsAreOfTheTab, Staff!Storing, Staff!Held
    <3>1. /\ r4[u].step # "closed" /\ x = r3[r4[u].link] /\ ~Staff!Held(r4[u].link)
          /\ r4[u].pc # "store"
          /\ r4[u].pc = "answer" \/ r4[u].step = "done" => r1[x].details = r4[u].shown
      BY <2>0 DEF Staff!DetailsAreOfTheTab, Staff!Storing
    <3>2. u # t
      BY <2>1, <3>1
    <3> QED
      BY <2>4, <3>1, <3>2
  <2> QED
    BY <2>7, <2>8, <2>9, <2>10, <2>11 DEF Staff!IInv
<1>3. \/ r4' = [r4 EXCEPT ![t].pc = "idle"] /\ r6' = r6
      \/ \E e \in Staff!Holder(n) :
           /\ r4' = [r4 EXCEPT ![t].pc = "store", ![t].id = e]
           /\ r6' = IF \E u \in Tab : r4[u].pc = "store" /\ r4[u].link = n THEN r6 \cup {n} ELSE r6
  BY DEF Staff!FindByLink
<1> QED
  BY <1>1, <1>2, <1>3

\* The details are stored and the link burnt.
LEMMA StoreStaff ==
  ASSUME Staff!IInv, NEW t \in Tab, Staff!StoreDetails(t)
  PROVE  Staff!IInv'
<1> DEFINE p == r4[t]
           n == r4[t].link
           e == r4[t].id
           old == r1[r4[t].id]
           row == [old EXCEPT !.details = p.sent, !.by = t, !.link = 0, !.expired = FALSE]
           next == [p EXCEPT !.pc = "answer"]
<1>0. /\ Staff!TypeOK /\ Staff!RequestsFit /\ Staff!SeatsAreCounted /\ Staff!LinksAreMailed
      /\ Staff!TabsFit /\ Staff!UsedIsBurnt /\ Staff!UnmailedIsUnused /\ Staff!DetailsAreOfTheTab
  BY DEF Staff!IInv
<1>1. /\ p \in Staff!TabRow /\ p.pc = "store" /\ p.step = "review" /\ n \in 1..Len(r3)
      /\ p.sent = p.shown /\ e = r3[n] /\ e \in Staff!Registered /\ e \in Employee
      /\ r1[e] \in Staff!Row /\ r1[e] # Null
      /\ UNCHANGED <<r2, r3, r6>>
  <2>1. p.pc = "store" /\ UNCHANGED <<r2, r3, r6>>
    BY DEF Staff!StoreDetails
  <2>2. p \in Staff!TabRow /\ TabFits(p)
    BY TabFacts
  <2>3. /\ p.step = "review" /\ n \in 1..Len(r3)
        /\ p.sent = p.shown /\ e = r3[n] /\ e \in Staff!Registered
    BY <2>1, <2>2 DEF TabFits
  <2> QED
    BY <2>1, <2>2, <2>3, StaffFacts DEF Staff!Registered
<1>2. r1' = [r1 EXCEPT ![e] = row] /\ r4' = [r4 EXCEPT ![t] = next]
  BY <1>1, StaffFacts DEF Staff!StoreDetails, Staff!Stored
<1>3. /\ row \in Staff!Row /\ row.link = 0 /\ row.by = t /\ row.details = p.shown
  BY <1>1 DEF Staff!Row, Staff!TabRow
<1>4. /\ next \in Staff!TabRow /\ next.pc = "answer" /\ next.step = p.step /\ next.link = p.link
      /\ next.id = p.id /\ next.sent = p.sent /\ next.shown = p.shown
  BY <1>1 DEF Staff!TabRow
<1> HIDE DEF row, next, e, n, p, old
<1>5. /\ r1' \in [Employee -> Staff!Row \cup {Null}] /\ r1'[e] = row /\ row # Null
      /\ \A x \in Employee : x # e => r1'[x] = r1[x]
      /\ r4' \in [Tab -> Staff!TabRow] /\ r4'[t] = next /\ \A u \in Tab : u # t => r4'[u] = r4[u]
  BY <1>1, <1>2, <1>3, <1>4, StaffFacts
<1>6. /\ r5' \in [1..MaxLinks -> Nat] /\ n \in 1..MaxLinks
      /\ r5'[n] = IF r5[n] < 2 THEN r5[n] + 1 ELSE r5[n]
      /\ \A m \in 1..MaxLinks : m # n => r5'[m] = r5[m]
  <2>1. r5' = [r5 EXCEPT ![n] = IF r5[n] < 2 THEN r5[n] + 1 ELSE r5[n]]
    BY <1>1, StaffFacts DEF Staff!StoreDetails, n
  <2>2. n \in 1..MaxLinks /\ r5 \in [1..MaxLinks -> Nat]
    BY <1>1, StaffFacts
  <2>3. r5[n] \in Nat
    BY <2>2
  <2>4. (IF r5[n] < 2 THEN r5[n] + 1 ELSE r5[n]) \in Nat
    BY <2>3
  <2> QED
    BY <2>1, <2>2, <2>4
<1>7. Staff!Registered' = Staff!Registered /\ Staff!Creating' = Staff!Creating
  BY <1>1, <1>5 DEF Staff!Registered, Staff!Creating
<1>8. Staff!TypeOK' /\ Staff!RequestsFit' /\ Staff!SeatsAreCounted'
  BY <1>0, <1>1, <1>5, <1>6, <1>7 DEF Staff!TypeOK, Staff!RequestsFit, Staff!SeatsAreCounted
<1>9. \A m \in Nat \ {0} : Staff!Held(m)' => Staff!Held(m) /\ m # n
  <2>1. \A x \in Employee : r1'[x] # Null => r1'[x].link = 0 \/ (r1'[x].link = r1[x].link /\ r1[x] # Null)
    BY <1>3, <1>5
  <2>2. \A m \in Nat \ {0} : Staff!Held(m)' => Staff!Held(m)
    BY <2>1 DEF Staff!Held, Staff!Registered
  <2>3. ASSUME NEW x \in Employee, r1'[x] # Null, r1'[x].link = n PROVE FALSE
    <3>1. n \in Nat \ {0}
      BY <1>1, StaffFacts
    <3>2. x # e
      BY <1>3, <1>5, <2>3, <3>1
    <3>3. r1[x].link = n /\ r1[x] # Null
      BY <1>5, <2>3, <3>2
    <3>4. r3[n] = x
      BY <1>0, <3>1, <3>3 DEF Staff!LinksAreMailed, Staff!Registered
    <3> QED
      BY <1>1, <3>2, <3>4
  <2> QED
    BY <2>2, <2>3 DEF Staff!Held, Staff!Registered
<1>10. Staff!LinksAreMailed'
  <2>1. ASSUME NEW x \in Staff!Registered, r1'[x].link # 0
        PROVE  r1'[x].link \in 1..Len(r3) /\ r3[r1'[x].link] = x
    <3>1. x # e /\ x \in Employee
      BY <1>3, <1>5, <2>1, StaffFacts
    <3>2. r1'[x] = r1[x]
      BY <1>5, <3>1
    <3> QED
      BY <1>0, <2>1, <3>2 DEF Staff!LinksAreMailed
  <2> QED
    BY <1>1, <1>7, <2>1 DEF Staff!LinksAreMailed
<1>11. Staff!TabsFit'
  BY <1>0, <1>1, <1>4, <1>5, <1>7 DEF Staff!TabsFit, p, n, e
<1>12. Staff!UnmailedIsUnused'
  BY SMTT(30), <1>0, <1>1, <1>6, StaffFacts DEF Staff!UnmailedIsUnused
<1>13. Staff!UsedIsBurnt'
  <2> SUFFICES ASSUME NEW m \in 1..MaxLinks, m \notin r6
               PROVE  /\ r5'[m] <= 1
                      /\ r5'[m] = 1 => ~Staff!Held(m)'
                                       /\ \A u \in Tab : ~(r4'[u].pc = "store" /\ r4'[u].link = m)
                      /\ \A u, v \in Tab :
                           r4'[u].pc = "store" /\ r4'[v].pc = "store" /\ r4'[u].link = m
                           /\ r4'[v].link = m => u = v
    BY <1>1 DEF Staff!UsedIsBurnt, Staff!Storing
  <2>1. /\ r5[m] <= 1
        /\ r5[m] = 1 => ~Staff!Held(m)
                        /\ \A u \in Tab : ~(r4[u].pc = "store" /\ r4[u].link = m)
        /\ \A u, v \in Tab :
             r4[u].pc = "store" /\ r4[v].pc = "store" /\ r4[u].link = m
             /\ r4[v].link = m => u = v
    BY <1>0 DEF Staff!UsedIsBurnt, Staff!Storing
  <2>2. CASE m = n
    <3>1. r5[n] # 1 /\ r5[n] \in Nat /\ r5[n] <= 1
      BY <1>1, <1>6, <2>1, <2>2, StaffFacts DEF p, n
    <3>2. r5'[n] = 1
      BY <1>6, <3>1
    <3>3. \A u \in Tab : u # t => ~(r4[u].pc = "store" /\ r4[u].link = m)
      BY <1>1, <2>1, <2>2 DEF p, n
    <3>4. ~Staff!Held(m)'
      BY <1>9, <2>2
    <3> QED
      BY <1>4, <1>5, <2>2, <3>2, <3>3, <3>4
  <2>3. CASE m # n
    BY <1>4, <1>5, <1>6, <1>9, <2>1, <2>3
  <2> QED
    BY <2>2, <2>3
<1>14. Staff!DetailsAreOfTheTab'
  <2> SUFFICES ASSUME NEW u \in Tab, NEW x \in Staff!Registered, r1'[x].by = u
               PROVE  /\ r4'[u].step # "closed" /\ x = r3[r4'[u].link] /\ ~Staff!Held(r4[u].link)'
                      /\ r4'[u].pc # "store"
                      /\ r4'[u].pc = "answer" \/ r4'[u].step = "done" => r1'[x].details = r4'[u].shown
    BY <1>1, <1>7 DEF Staff!DetailsAreOfTheTab, Staff!Storing, Staff!Held
  <2>1. CASE x = e
    <3>1. u = t
      BY <1>3, <1>5, <2>1
    <3>2. r4'[u].link = n /\ n \in Nat \ {0}
      BY <1>1, <1>4, <1>5, <3>1, StaffFacts DEF n, p
    <3>3. ~Staff!Held(r4[u].link)'
      BY <1>9, <3>2
    <3> QED
      BY <1>1, <1>3, <1>4, <1>5, <2>1, <3>1, <3>2, <3>3
  <2>2. CASE x # e
    <3>1. r1'[x] = r1[x] /\ x \in Employee
      BY <1>5, <2>2, StaffFacts
    <3>2. /\ r4[u].step # "closed" /\ x = r3[r4[u].link] /\ ~Staff!Held(r4[u].link)
          /\ r4[u].pc # "store"
          /\ r4[u].pc = "answer" \/ r4[u].step = "done" => r1[x].details = r4[u].shown
      BY <1>0, <3>1 DEF Staff!DetailsAreOfTheTab, Staff!Storing
    <3>3. u # t
      BY <1>1, <3>2 DEF p
    <3>4. r4'[u] = r4[u] /\ r4[u].link \in Nat \ {0}
      <4>1. r4[u].link \in 1..Len(r3)
        BY <3>2, TabFacts DEF TabFits
      <4> QED
        BY <1>5, <3>3, <4>1, StaffFacts
    <3> QED
      BY <1>9, <3>1, <3>2, <3>4
  <2> QED
    BY <2>1, <2>2
<1> QED
  BY <1>8, <1>10, <1>11, <1>12, <1>13, <1>14 DEF Staff!IInv

\* Every step of the requests, of the links and of the tabs keeps the invariant.
LEMMA NextStaff ==
  ASSUME Staff!IInv, Staff!Next
  PROVE  Staff!IInv'
<1>1. ASSUME NEW r \in Request,
             \/ Staff!Register(r) \/ Staff!CountSeats(r) \/ Staff!CreateRow(r)
             \/ Staff!RotateLink(r) \/ Staff!RequestFails(r)
             \/ \E e \in Employee : Staff!RequestBankDetails(r, e)
      PROVE  Staff!IInv'
  BY <1>1, RequestStaff, CountStaff, CreateStaff, RotateStaff
<1>2. ASSUME NEW e \in Employee, Staff!Expire(e) PROVE Staff!IInv'
  BY <1>2, ExpireStaff
<1>3. ASSUME NEW t \in Tab,
             \/ \E n \in DOMAIN r3 : Staff!OpenLink(t, n)
             \/ \E d \in Details : Staff!Fill(t, d)
             \/ Staff!Review(t) \/ Staff!Back(t) \/ Staff!Submit(t) \/ Staff!FindByLink(t)
             \/ Staff!StoreDetails(t) \/ Staff!Answered(t) \/ Staff!SubmissionFails(t)
      PROVE  Staff!IInv'
  BY <1>3, PageStaff, FindStaff, StoreStaff
<1> QED
  BY <1>1, <1>2, <1>3 DEF Staff!Next

\* The invariant says what the links, the receipts and the seats promise.
LEMMA StaffIsTrue ==
  Staff!IInv => Staff!LinksWorkOnce /\ Staff!ReceiptIsTrue /\ Staff!SeatsAreBounded
<1> SUFFICES ASSUME Staff!IInv
             PROVE  Staff!LinksWorkOnce /\ Staff!ReceiptIsTrue /\ Staff!SeatsAreBounded
  OBVIOUS
<1>1. Staff!LinksWorkOnce
  BY DEF Staff!IInv, Staff!UsedIsBurnt, Staff!LinksWorkOnce
<1>2. Staff!ReceiptIsTrue
  <2>1. \A t \in Tab : r4[t].step = "done" => r4[t].id \in Staff!Registered
    BY TabFacts DEF TabFits
  <2> QED
    BY <2>1 DEF Staff!IInv, Staff!DetailsAreOfTheTab, Staff!ReceiptIsTrue
<1>3. Staff!SeatsAreBounded
  <2>1. SeatsHold
    BY SeatsMean DEF Staff!IInv
  <2> QED
    BY <2>1, SeatsMean, StaffSets DEF SeatsHold, Staff!SeatsAreBounded
<1> QED
  BY <1>1, <1>2, <1>3

-----------------------------------------------------------------------------
(* The Merkle tree (Merkle): leaves r1, target r2, level r3, idx r4, proof *)
(* r5.  The levels the loop of the proof goes through are those of the     *)
(* root, and a level tells the one below it: no node stands in it twice    *)
(* but the copy that pairs an odd last one.  A level is shorter than the   *)
(* one below, so that the least height with one node is where both end.    *)

\* A set of natural numbers that is not empty has a least: the intervals up to its elements
\* have a smallest.
LEMMA LeastIsThere ==
  ASSUME NEW W \in SUBSET Nat, W # {}
  PROVE  \E m \in W : \A k \in W : m <= k
<1>1. PICK n \in W : n \in Nat
  OBVIOUS
<1> DEFINE S == 0 .. n
           Upto == {T \in SUBSET S : \E k \in W : k <= n /\ T = 0 .. k}
<1>2. IsFiniteSet(S)
  BY <1>1, FS_Interval
<1>3. IsWellFoundedOn(StrictSubsetOrdering(S), SUBSET S)
  BY <1>2, FS_FiniteSubsetsOfFinite, FS_StrictSubsetOrderingWellFounded
<1>4. S \in Upto
  BY <1>1
<1> HIDE DEF S
<1>5. PICK T \in Upto : \A U \in Upto : <<U, T>> \notin StrictSubsetOrdering(S)
  BY <1>3, <1>4, WFMin
<1>6. PICK m \in W : m \in Nat /\ m <= n /\ T = 0 .. m
  BY <1>5
<1>7. ASSUME NEW k \in W, ~(m <= k) PROVE FALSE
  <2>1. k \in Nat /\ k < m /\ k <= n
    BY <1>1, <1>6, <1>7
  <2>2. 0 .. k \subseteq 0 .. m /\ 0 .. k # 0 .. m /\ 0 .. k \subseteq S
    BY <1>1, <1>6, <2>1 DEF S
  <2>3. 0 .. k \in Upto
    BY <2>1, <2>2
  <2>4. <<0 .. k, T>> \in StrictSubsetOrdering(S)
    BY <1>5, <1>6, <2>2 DEF StrictSubsetOrdering
  <2> QED
    BY <1>5, <2>3, <2>4
<1> QED
  BY <1>6, <1>7

\* A level of the tree, or a list of leaves, is a sequence.
IsRow(lv) == lv \in Seq({lv[i] : i \in DOMAIN lv})

\* So is what is made place by place.
LEMMA RowOf ==
  ASSUME NEW n \in Nat, NEW f, f = [i \in 1 .. n |-> f[i]]
  PROVE  IsRow(f) /\ Len(f) = n /\ DOMAIN f = 1 .. n
<1>1. DOMAIN f = 1 .. n
  OBVIOUS
<1> DEFINE V == {f[i] : i \in DOMAIN f}
<1>2. f \in [1 .. n -> V]
  BY <1>1
<1>3. f \in Seq(V) /\ Len(f) = n
  <2> HIDE DEF V
  <2> QED
    BY <1>2
<1> QED
  BY <1>1, <1>3 DEF IsRow

\* The places of a row.
LEMMA RowHas ==
  ASSUME NEW lv, IsRow(lv)
  PROVE  /\ Len(lv) \in Nat /\ DOMAIN lv = 1 .. Len(lv)
         /\ lv = [i \in 1 .. Len(lv) |-> lv[i]]
<1> DEFINE V == {lv[i] : i \in DOMAIN lv}
<1>1. lv \in Seq(V)
  BY DEF IsRow
<1> HIDE DEF V
<1> QED
  BY <1>1

\* How LevelOf goes up.
Rises(s, h, f) ==
  f = [n \in 0 .. h |-> IF n = 0 THEN Tree!Hashes(s) ELSE Tree!NextLevel(f[n - 1])]

\* There are levels of any height.
LEMMA LevelsAreThere ==
  ASSUME NEW s, NEW h \in Nat
  PROVE  \E f : Rises(s, h, f)
<1> DEFINE W == {n \in Nat : ~\E f : Rises(s, n, f)}
<1>1. SUFFICES ASSUME W # {} PROVE FALSE
  OBVIOUS
<1>2. PICK m \in W : \A k \in W : m <= k
  BY <1>1, LeastIsThere
<1>3. CASE m = 0
  <2> DEFINE f == [n \in 0 .. 0 |-> Tree!Hashes(s)]
  <2>1. Rises(s, 0, f)
    BY DEF Rises
  <2> QED
    BY <1>3, <2>1
<1>4. CASE m # 0
  <2>1. m \in Nat /\ m - 1 \in Nat /\ m - 1 \notin W
    BY <1>2, <1>4
  <2>2. PICK f : Rises(s, m - 1, f)
    BY <2>1
  <2> DEFINE g == [n \in 0 .. m |-> IF n = m THEN Tree!NextLevel(f[m - 1]) ELSE f[n]]
  <2>3. \A n \in 0 .. m - 1 : f[n] = IF n = 0 THEN Tree!Hashes(s) ELSE Tree!NextLevel(f[n - 1])
    BY <2>2 DEF Rises
  <2>4. ASSUME NEW n \in 0 .. m
        PROVE  g[n] = IF n = 0 THEN Tree!Hashes(s) ELSE Tree!NextLevel(g[n - 1])
    <3>1. CASE n = m
      BY <1>4, <2>1, <3>1
    <3>2. CASE n # m
      BY <2>1, <2>3, <3>2
    <3> QED
      BY <3>1, <3>2
  <2>5. g = [n \in 0 .. m |-> g[n]]
    OBVIOUS
  <2> HIDE DEF g
  <2>6. Rises(s, m, g)
    BY <2>4, <2>5 DEF Rises
  <2> QED
    BY <2>6
<1> QED
  BY <1>3, <1>4

\* They do not depend on how far one goes.
LEMMA LevelsAgree ==
  ASSUME NEW s, NEW h \in Nat, NEW k \in Nat, h <= k, NEW f, NEW g, Rises(s, h, f), Rises(s, k, g)
  PROVE  \A n \in 0 .. h : f[n] = g[n]
<1> DEFINE W == {n \in 0 .. h : f[n] # g[n]}
<1>1. SUFFICES ASSUME W # {} PROVE FALSE
  OBVIOUS
<1>2. PICK m \in W : \A n \in W : m <= n
  <2>1. W \in SUBSET Nat
    OBVIOUS
  <2> HIDE DEF W
  <2> QED
    BY <1>1, <2>1, LeastIsThere
<1>3. /\ f[m] = IF m = 0 THEN Tree!Hashes(s) ELSE Tree!NextLevel(f[m - 1])
      /\ g[m] = IF m = 0 THEN Tree!Hashes(s) ELSE Tree!NextLevel(g[m - 1])
  BY DEF Rises
<1>4. m # 0 => m - 1 \in 0 .. h /\ m - 1 \notin W
  BY <1>2
<1> QED
  BY <1>2, <1>3, <1>4

\* Each level is made from the one below.
LEMMA LevelsRise ==
  ASSUME NEW s, NEW h \in Nat
  PROVE  /\ Tree!LevelOf(s, 0) = Tree!Hashes(s)
         /\ Tree!LevelOf(s, h + 1) = Tree!NextLevel(Tree!LevelOf(s, h))
<1>1. ASSUME NEW k \in Nat
      PROVE  \E f : Rises(s, k, f) /\ Tree!LevelOf(s, k) = f[k]
  <2>1. Tree!LevelOf(s, k) = (CHOOSE f : Rises(s, k, f))[k]
    BY DEF Tree!LevelOf, Rises
  <2>2. Rises(s, k, CHOOSE f : Rises(s, k, f))
    BY LevelsAreThere
  <2> QED
    BY <2>1, <2>2
<1>2. PICK f0 : Rises(s, 0, f0) /\ Tree!LevelOf(s, 0) = f0[0]
  BY <1>1
<1>3. PICK f : Rises(s, h, f) /\ Tree!LevelOf(s, h) = f[h]
  BY <1>1
<1>4. PICK g : Rises(s, h + 1, g) /\ Tree!LevelOf(s, h + 1) = g[h + 1]
  BY <1>1
<1>5. f[h] = g[h]
  BY <1>3, <1>4, LevelsAgree
<1>6. f0[0] = Tree!Hashes(s)
  BY <1>2 DEF Rises
<1>7. g[h + 1] = Tree!NextLevel(g[h])
  BY <1>4 DEF Rises
<1> QED
  BY <1>2, <1>3, <1>4, <1>5, <1>6, <1>7

\* The next level: half as many nodes, each of two below, which it tells.
LEMMA NextRow ==
  ASSUME NEW lv, IsRow(lv), Len(lv) > 0
  PROVE  /\ IsRow(Tree!NextLevel(lv)) /\ Len(Tree!NextLevel(lv)) = (Len(lv) + 1) \div 2
         /\ Len(Tree!NextLevel(lv)) > 0
         /\ Len(lv) > 1 => Len(Tree!NextLevel(lv)) < Len(lv)
         /\ Len(lv) = 2 * Len(Tree!NextLevel(lv)) \/ Len(lv) = 2 * Len(Tree!NextLevel(lv)) - 1
         /\ \A k \in 1 .. Len(Tree!NextLevel(lv)) :
              Tree!NextLevel(lv)[k] = [left |-> Tree!LeftOf(lv, k), right |-> Tree!RightOf(lv, k)]
<1> DEFINE m == (Len(lv) + 1) \div 2
           nx == Tree!NextLevel(lv)
<1>1. Len(lv) \in Nat
  BY RowHas
<1>2. /\ m \in Nat /\ m > 0 /\ (Len(lv) > 1 => m < Len(lv))
      /\ Len(lv) = 2 * m \/ Len(lv) = 2 * m - 1
  BY <1>1
<1>3. nx = [k \in 1 .. m |-> [left |-> Tree!LeftOf(lv, k), right |-> Tree!RightOf(lv, k)]]
  BY DEF Tree!NextLevel, Tree!HashPair
<1> HIDE DEF m, nx
<1>4. nx = [k \in 1 .. m |-> nx[k]]
  BY <1>3
<1>5. IsRow(nx) /\ Len(nx) = m
  BY <1>2, <1>4, RowOf
<1> QED
  BY <1>2, <1>3, <1>5 DEF m, nx

\* A list's own level.
LEMMA FirstRow ==
  ASSUME NEW s, IsRow(s)
  PROVE  /\ IsRow(Tree!Hashes(s)) /\ Len(Tree!Hashes(s)) = Len(s)
         /\ \A i \in 1 .. Len(s) : Tree!Hashes(s)[i] = [leaf |-> s[i]]
<1> DEFINE hs == Tree!Hashes(s)
<1>1. Len(s) \in Nat
  BY RowHas
<1>2. hs = [i \in 1 .. Len(s) |-> [leaf |-> s[i]]]
  BY DEF Tree!Hashes, Tree!HashLeaf
<1> HIDE DEF hs
<1>3. hs = [i \in 1 .. Len(s) |-> hs[i]]
  BY <1>2
<1> QED
  BY <1>1, <1>2, <1>3, RowOf DEF hs

\* A hash tells what it was made of, and a leaf's is no node's.
LEMMA HashesTell ==
  /\ \A x, y : [leaf |-> x] = [leaf |-> y] => x = y
  /\ \A a, b, c, d : [left |-> a, right |-> b] = [left |-> c, right |-> d] => a = c /\ b = d
  /\ \A x, a, b : [leaf |-> x] # [left |-> a, right |-> b]
<1>1. ASSUME NEW x, NEW y, [leaf |-> x] = [leaf |-> y] PROVE x = y
  <2>1. [leaf |-> x].leaf = x /\ [leaf |-> y].leaf = y
    OBVIOUS
  <2> QED
    BY <1>1, <2>1
<1>2. ASSUME NEW a, NEW b, NEW c, NEW d, [left |-> a, right |-> b] = [left |-> c, right |-> d]
      PROVE  a = c /\ b = d
  <2>1. /\ [left |-> a, right |-> b].left = a /\ [left |-> c, right |-> d].left = c
        /\ [left |-> a, right |-> b].right = b /\ [left |-> c, right |-> d].right = d
    OBVIOUS
  <2> QED
    BY <1>2, <2>1
<1>3. ASSUME NEW x, NEW a, NEW b PROVE [leaf |-> x] # [left |-> a, right |-> b]
  <2>1. DOMAIN [leaf |-> x] = {"leaf"} /\ DOMAIN [left |-> a, right |-> b] = {"left", "right"}
    OBVIOUS
  <2> QED
    BY <2>1
<1> QED
  BY <1>1, <1>2, <1>3

\* Nothing stands on it twice.
Apart(lv) == \A i, j \in DOMAIN lv : lv[i] = lv[j] => i = j

\* Different nodes have different nodes above them.
LEMMA NextApart ==
  ASSUME NEW lv, IsRow(lv), Len(lv) > 0, Apart(lv)
  PROVE  Apart(Tree!NextLevel(lv))
<1> DEFINE nx == Tree!NextLevel(lv)
<1>1. IsRow(nx) /\ (Len(lv) = 2 * Len(nx) \/ Len(lv) = 2 * Len(nx) - 1)
  BY NextRow
<1>2. Len(nx) \in Nat /\ DOMAIN nx = 1 .. Len(nx) /\ Len(lv) \in Nat /\ DOMAIN lv = 1 .. Len(lv)
  BY <1>1, RowHas
<1>3. ASSUME NEW i \in DOMAIN nx, NEW j \in DOMAIN nx, nx[i] = nx[j]
      PROVE  i = j
  <2>1. Tree!LeftOf(lv, i) = Tree!LeftOf(lv, j)
    <3>1. /\ nx[i] = [left |-> Tree!LeftOf(lv, i), right |-> Tree!RightOf(lv, i)]
          /\ nx[j] = [left |-> Tree!LeftOf(lv, j), right |-> Tree!RightOf(lv, j)]
      BY <1>2, NextRow
    <3>2. [left |-> Tree!LeftOf(lv, i), right |-> Tree!RightOf(lv, i)]
            = [left |-> Tree!LeftOf(lv, j), right |-> Tree!RightOf(lv, j)]
      BY <1>3, <3>1
    <3> QED
      BY <3>2, HashesTell
  <2>2. lv[2 * i - 1] = lv[2 * j - 1]
    BY <2>1 DEF Tree!LeftOf
  <2> HIDE DEF nx
  <2>3. i \in Nat /\ j \in Nat /\ 2 * i - 1 \in DOMAIN lv /\ 2 * j - 1 \in DOMAIN lv
    <3>1. i \in 1 .. Len(nx) /\ j \in 1 .. Len(nx)
      BY <1>2
    <3>2. 2 * Len(nx) - 1 <= Len(lv) /\ Len(nx) \in Nat /\ Len(lv) \in Nat
      <4>1. ASSUME NEW n \in Nat, NEW l \in Nat, l = 2 * n \/ l = 2 * n - 1
            PROVE  2 * n - 1 <= l
        BY <4>1
      <4> QED
        BY <1>1, <1>2, <4>1
    <3>3. 2 * i - 1 \in 1 .. Len(lv) /\ 2 * j - 1 \in 1 .. Len(lv)
      BY <3>1, <3>2
    <3> QED
      BY SMTT(30), <1>2, <3>1, <3>3
  <2>4. 2 * i - 1 = 2 * j - 1
    BY <2>2, <2>3 DEF Apart
  <2> QED
    BY <2>3, <2>4
<1> QED
  BY <1>3 DEF Apart

\* A level tells the one below, if nothing stands there twice: an odd node's copy is then
\* the only pair of equals.
LEMMA RowFromAbove ==
  ASSUME NEW a, NEW b, IsRow(a), IsRow(b), Len(a) > 0, Len(b) > 0, Apart(a), Apart(b),
         Tree!NextLevel(a) = Tree!NextLevel(b)
  PROVE  a = b
<1> DEFINE m == Len(Tree!NextLevel(a))
<1>1. /\ m \in Nat /\ m > 0
      /\ Len(a) = 2 * m \/ Len(a) = 2 * m - 1
      /\ Len(b) = 2 * m \/ Len(b) = 2 * m - 1
  BY NextRow, RowHas
<1>2. ASSUME NEW k \in 1 .. m
      PROVE  Tree!LeftOf(a, k) = Tree!LeftOf(b, k) /\ Tree!RightOf(a, k) = Tree!RightOf(b, k)
  <2>1. /\ Tree!NextLevel(a)[k] = [left |-> Tree!LeftOf(a, k), right |-> Tree!RightOf(a, k)]
        /\ Tree!NextLevel(a)[k] = [left |-> Tree!LeftOf(b, k), right |-> Tree!RightOf(b, k)]
    BY NextRow
  <2> QED
    BY <2>1
<1> HIDE DEF m
<1>3. /\ Len(a) \in Nat /\ DOMAIN a = 1 .. Len(a) /\ a = [i \in 1 .. Len(a) |-> a[i]]
      /\ Len(b) \in Nat /\ DOMAIN b = 1 .. Len(b) /\ b = [i \in 1 .. Len(b) |-> b[i]]
  BY RowHas
<1>4. \A k \in 1 .. m : a[2 * k - 1] = b[2 * k - 1]
  BY <1>2 DEF Tree!LeftOf
<1>5. \A k \in 1 .. m : /\ 2 * k <= Len(a) /\ 2 * k <= Len(b) => a[2 * k] = b[2 * k]
                        /\ 2 * k <= Len(a) /\ ~(2 * k <= Len(b)) => a[2 * k] = b[2 * k - 1]
                        /\ ~(2 * k <= Len(a)) /\ 2 * k <= Len(b) => a[2 * k - 1] = b[2 * k]
  BY <1>2 DEF Tree!RightOf
<1>6. Len(a) = Len(b)
  <2>1. CASE Len(a) = 2 * m /\ Len(b) = 2 * m - 1
    <3>1. a[2 * m] = a[2 * m - 1]
      BY <1>1, <1>4, <1>5, <2>1
    <3>2. 2 * m \in DOMAIN a /\ 2 * m - 1 \in DOMAIN a
      BY <1>1, <1>3, <2>1
    <3> QED
      BY <1>1, <3>1, <3>2 DEF Apart
  <2>2. CASE Len(b) = 2 * m /\ Len(a) = 2 * m - 1
    <3>1. b[2 * m] = b[2 * m - 1]
      BY <1>1, <1>4, <1>5, <2>2
    <3>2. 2 * m \in DOMAIN b /\ 2 * m - 1 \in DOMAIN b
      BY <1>1, <1>3, <2>2
    <3> QED
      BY <1>1, <3>1, <3>2 DEF Apart
  <2> QED
    BY <1>1, <2>1, <2>2
<1>7. ASSUME NEW i \in 1 .. Len(a) PROVE a[i] = b[i]
  <2>1. \E k \in 1 .. m : i = 2 * k - 1 \/ i = 2 * k
    <3>1. i \in Nat /\ i > 0 /\ i <= 2 * m
      BY <1>1
    <3>2. (i + 1) \div 2 \in 1 .. m /\ (i = 2 * ((i + 1) \div 2) - 1 \/ i = 2 * ((i + 1) \div 2))
      BY <1>1, <3>1
    <3> QED
      BY <3>2
  <2>2. PICK k \in 1 .. m : i = 2 * k - 1 \/ i = 2 * k
    BY <2>1
  <2>3. CASE i = 2 * k - 1
    BY <1>4, <2>3
  <2>4. CASE i = 2 * k
    <3>1. 2 * k <= Len(a) /\ 2 * k <= Len(b)
      BY <1>1, <1>6, <2>4
    <3> QED
      BY <1>5, <2>4, <3>1
  <2> QED
    BY <2>2, <2>3, <2>4
<1> QED
  BY <1>3, <1>6, <1>7

\* All levels of a list are rows, and apart if it is.
LEMMA LevelsAreRows ==
  ASSUME NEW s, IsRow(s), Len(s) > 0, NEW h \in Nat
  PROVE  /\ IsRow(Tree!LevelOf(s, h)) /\ Len(Tree!LevelOf(s, h)) > 0
         /\ Apart(s) => Apart(Tree!LevelOf(s, h))
<1> DEFINE Good(n) == /\ IsRow(Tree!LevelOf(s, n)) /\ Len(Tree!LevelOf(s, n)) > 0
                      /\ Apart(s) => Apart(Tree!LevelOf(s, n))
           W == {n \in Nat : ~Good(n)}
<1>1. SUFFICES ASSUME W # {} PROVE FALSE
  OBVIOUS
<1>2. PICK m \in W : \A n \in W : m <= n
  BY <1>1, LeastIsThere
<1>3. CASE m = 0
  <2>1. Tree!LevelOf(s, 0) = Tree!Hashes(s)
    BY LevelsRise
  <2>2. Apart(s) => Apart(Tree!Hashes(s))
    <3>1. DOMAIN s = 1 .. Len(s) /\ DOMAIN Tree!Hashes(s) = 1 .. Len(s)
      BY FirstRow, RowHas
    <3>2. \A i, j \in 1 .. Len(s) : Tree!Hashes(s)[i] = Tree!Hashes(s)[j] => s[i] = s[j]
      <4>1. \A i \in 1 .. Len(s) : Tree!Hashes(s)[i] = [leaf |-> s[i]]
        BY FirstRow
      <4>2. ASSUME NEW i \in 1 .. Len(s), NEW j \in 1 .. Len(s), Tree!Hashes(s)[i] = Tree!Hashes(s)[j]
            PROVE  s[i] = s[j]
        <5>1. [leaf |-> s[i]] = [leaf |-> s[j]]
          BY <4>1, <4>2
        <5> QED
          BY <5>1, HashesTell
      <4> QED
        BY <4>2
    <3> QED
      BY <3>1, <3>2 DEF Apart
  <2>3. Good(0)
    BY <2>1, <2>2, FirstRow
  <2> QED
    BY <1>2, <1>3, <2>3
<1>4. CASE m # 0
  <2>1. m \in Nat /\ m - 1 \in Nat /\ m - 1 \notin W
    BY <1>2, <1>4
  <2>2. Good(m - 1)
    BY <2>1
  <2>3. Tree!LevelOf(s, m) = Tree!NextLevel(Tree!LevelOf(s, m - 1))
    <3>1. Tree!LevelOf(s, m - 1 + 1) = Tree!NextLevel(Tree!LevelOf(s, m - 1))
      BY <2>1, LevelsRise
    <3> QED
      BY <2>1, <3>1
  <2>4. Good(m)
    BY <2>2, <2>3, NextRow, NextApart
  <2> QED
    BY <1>2, <2>4
<1> QED
  BY <1>3, <1>4

\* A level tells its list, however high it is.
LEMMA LevelTellsList ==
  ASSUME NEW s, NEW t, IsRow(s), IsRow(t), Len(s) > 0, Len(t) > 0, Apart(s), Apart(t),
         NEW g \in Nat, NEW h \in Nat, Tree!LevelOf(s, g) = Tree!LevelOf(t, h)
  PROVE  s = t
<1> DEFINE W == {m \in Nat : \E n \in Nat : Tree!LevelOf(s, m) = Tree!LevelOf(t, n)}
<1>1. PICK m \in W : \A n \in W : m <= n
  <2>1. g \in W
    OBVIOUS
  <2> QED
    BY <2>1, LeastIsThere
<1>2. PICK n \in Nat : Tree!LevelOf(s, m) = Tree!LevelOf(t, n)
  OBVIOUS
<1>3. /\ Tree!LevelOf(s, 0)[1] = [leaf |-> s[1]]
      /\ Tree!LevelOf(t, 0)[1] = [leaf |-> t[1]]
  <2>1. 1 \in 1 .. Len(s) /\ 1 \in 1 .. Len(t)
    BY RowHas
  <2>2. Tree!LevelOf(s, 0) = Tree!Hashes(s) /\ Tree!LevelOf(t, 0) = Tree!Hashes(t)
    BY LevelsRise
  <2> QED
    BY <2>1, <2>2, FirstRow
<1>4. ASSUME NEW q, IsRow(q), Len(q) > 0, NEW k \in Nat, k # 0
      PROVE  /\ k - 1 \in Nat /\ Tree!LevelOf(q, k) = Tree!NextLevel(Tree!LevelOf(q, k - 1))
             /\ Tree!LevelOf(q, k)[1] = [left |-> Tree!LeftOf(Tree!LevelOf(q, k - 1), 1),
                                         right |-> Tree!RightOf(Tree!LevelOf(q, k - 1), 1)]
  <2>1. k - 1 \in Nat /\ k - 1 + 1 = k
    BY <1>4
  <2>2. Tree!LevelOf(q, k - 1 + 1) = Tree!NextLevel(Tree!LevelOf(q, k - 1))
    BY <2>1, LevelsRise
  <2>3. IsRow(Tree!LevelOf(q, k - 1)) /\ Len(Tree!LevelOf(q, k - 1)) > 0
    BY <1>4, <2>1, LevelsAreRows
  <2>4. /\ Len(Tree!NextLevel(Tree!LevelOf(q, k - 1))) \in Nat
        /\ Len(Tree!NextLevel(Tree!LevelOf(q, k - 1))) > 0
    BY <2>3, NextRow, RowHas
  <2>5. 1 \in 1 .. Len(Tree!NextLevel(Tree!LevelOf(q, k - 1)))
    BY <2>4
  <2>6. Tree!NextLevel(Tree!LevelOf(q, k - 1))[1]
          = [left |-> Tree!LeftOf(Tree!LevelOf(q, k - 1), 1),
             right |-> Tree!RightOf(Tree!LevelOf(q, k - 1), 1)]
    BY <2>3, <2>5, NextRow
  <2> QED
    BY <2>1, <2>2, <2>6
<1>5. CASE m = 0 /\ n = 0
  <2>1. Tree!Hashes(s) = Tree!Hashes(t)
    BY <1>2, <1>5, LevelsRise
  <2>2. Len(s) = Len(t) /\ \A i \in 1 .. Len(s) : [leaf |-> s[i]] = [leaf |-> t[i]]
    BY <2>1, FirstRow
  <2>3. \A i \in 1 .. Len(s) : s[i] = t[i]
    BY <2>2, HashesTell
  <2> QED
    BY <2>2, <2>3, RowHas
<1>6. CASE m = 0 /\ n # 0
  <2>1. Tree!LevelOf(t, n)[1] = [left |-> Tree!LeftOf(Tree!LevelOf(t, n - 1), 1),
                                 right |-> Tree!RightOf(Tree!LevelOf(t, n - 1), 1)]
    BY <1>4, <1>6
  <2>2. Tree!LevelOf(t, n)[1] = [leaf |-> s[1]]
    BY <1>2, <1>3, <1>6
  <2> QED
    BY <2>1, <2>2, HashesTell
<1>7. CASE m # 0 /\ n = 0
  <2>1. Tree!LevelOf(s, m)[1] = [left |-> Tree!LeftOf(Tree!LevelOf(s, m - 1), 1),
                                 right |-> Tree!RightOf(Tree!LevelOf(s, m - 1), 1)]
    BY <1>4, <1>7
  <2>2. Tree!LevelOf(s, m)[1] = [leaf |-> t[1]]
    BY <1>2, <1>3, <1>7
  <2> QED
    BY <2>1, <2>2, HashesTell
<1>8. CASE m # 0 /\ n # 0
  <2>1. /\ m - 1 \in Nat /\ Tree!LevelOf(s, m) = Tree!NextLevel(Tree!LevelOf(s, m - 1))
        /\ n - 1 \in Nat /\ Tree!LevelOf(t, n) = Tree!NextLevel(Tree!LevelOf(t, n - 1))
    BY <1>4, <1>8
  <2>2. Tree!LevelOf(s, m - 1) = Tree!LevelOf(t, n - 1)
    <3> DEFINE a == Tree!LevelOf(s, m - 1)
               b == Tree!LevelOf(t, n - 1)
    <3>1. IsRow(a) /\ Len(a) > 0 /\ Apart(a)
      BY <2>1, LevelsAreRows
    <3>2. IsRow(b) /\ Len(b) > 0 /\ Apart(b)
      BY <2>1, LevelsAreRows
    <3>3. Tree!NextLevel(a) = Tree!NextLevel(b)
      BY <1>2, <2>1
    <3> HIDE DEF a, b
    <3>4. a = b
      BY <3>1, <3>2, <3>3, RowFromAbove
    <3> QED
      BY <3>4 DEF a, b
  <2>3. m - 1 \in W
    BY <2>1, <2>2
  <2> QED
    BY <1>1, <2>1, <2>3
<1> QED
  BY <1>5, <1>6, <1>7, <1>8

\* Every level up to the first with one node is shorter than the one below.
LEMMA LevelsShrink ==
  ASSUME NEW s, IsRow(s), Len(s) > 0, NEW h \in Nat,
         \A g \in 0 .. h - 1 : Len(Tree!LevelOf(s, g)) > 1
  PROVE  Len(Tree!LevelOf(s, h)) + h <= Len(s)
<1> DEFINE W == {n \in 0 .. h : ~(Len(Tree!LevelOf(s, n)) + n <= Len(s))}
<1>1. SUFFICES ASSUME W # {} PROVE FALSE
  OBVIOUS
<1>2. PICK m \in W : \A n \in W : m <= n
  <2>1. W \in SUBSET Nat
    OBVIOUS
  <2> HIDE DEF W
  <2> QED
    BY <1>1, <2>1, LeastIsThere
<1>3. Len(s) \in Nat
  BY RowHas
<1>4. CASE m = 0
  <2>1. Len(Tree!LevelOf(s, 0)) = Len(s)
    BY FirstRow, LevelsRise
  <2> QED
    BY <1>2, <1>3, <1>4, <2>1
<1>5. CASE m # 0
  <2>1. m \in Nat /\ m - 1 \in Nat /\ m - 1 \in 0 .. h - 1 /\ m - 1 \notin W /\ m - 1 + 1 = m
    BY <1>2, <1>5
  <2> DEFINE a == Tree!LevelOf(s, m - 1)
  <2>2. IsRow(a) /\ Len(a) > 1
    BY <2>1, LevelsAreRows
  <2>3. Tree!LevelOf(s, m - 1 + 1) = Tree!NextLevel(a)
    BY <2>1, LevelsRise
  <2>4. Len(Tree!NextLevel(a)) < Len(a) /\ Len(a) \in Nat /\ Len(Tree!NextLevel(a)) \in Nat
    <3> HIDE DEF a
    <3>1. Len(a) > 0 /\ Len(a) \in Nat
      BY <2>2, RowHas
    <3> QED
      BY <2>2, <3>1, NextRow, RowHas
  <2>5. Len(a) + (m - 1) <= Len(s)
    BY <2>1
  <2>6. Tree!LevelOf(s, m) = Tree!NextLevel(a)
    BY <2>1, <2>3
  <2> HIDE DEF a
  <2>7. Len(Tree!NextLevel(a)) + m <= Len(s)
    BY <1>3, <2>1, <2>4, <2>5
  <2> QED
    BY <2>6, <2>7
<1> QED
  BY <1>4, <1>5

\* The height at which the loop ends.
IsHeight(s, h) ==
  /\ h \in 0 .. Len(s) /\ Len(Tree!LevelOf(s, h)) = 1
  /\ \A g \in 0 .. (h - 1) : Len(Tree!LevelOf(s, g)) > 1

\* What is not one and not none.
LEMMA MoreThanOne == \A n \in Nat : n > 0 /\ n # 1 => n > 1
OBVIOUS

\* There is one height.
LEMMA RootIsThere ==
  ASSUME NEW s, IsRow(s), Len(s) > 0
  PROVE  \E h \in Nat : IsHeight(s, h)
<1>1. Len(s) \in Nat
  BY RowHas
<1>2. ASSUME NEW h \in Nat PROVE Len(Tree!LevelOf(s, h)) \in Nat /\ Len(Tree!LevelOf(s, h)) > 0
  BY LevelsAreRows, RowHas
<1> DEFINE W == {h \in Nat : Len(Tree!LevelOf(s, h)) = 1}
<1>3. W # {}
  <2>1. SUFFICES ASSUME W = {} PROVE FALSE
    OBVIOUS
  <2>2. ASSUME NEW g \in Nat PROVE Len(Tree!LevelOf(s, g)) > 1
    <3>1. Len(Tree!LevelOf(s, g)) # 1
      BY <2>1
    <3> HIDE DEF W
    <3> QED
      BY <1>2, <3>1, MoreThanOne
  <2>3. Len(Tree!LevelOf(s, Len(s))) + Len(s) <= Len(s)
    BY <1>1, <2>2, LevelsShrink
  <2> QED
    BY <1>1, <1>2, <2>3
<1>4. PICK h \in W : \A g \in W : h <= g
  BY <1>3, LeastIsThere
<1>5. \A g \in 0 .. h - 1 : Len(Tree!LevelOf(s, g)) > 1
  <2>1. ASSUME NEW g \in 0 .. h - 1 PROVE Len(Tree!LevelOf(s, g)) > 1
    <3>1. g \in Nat /\ g \notin W
      BY <1>4
    <3>2. Len(Tree!LevelOf(s, g)) # 1
      BY <3>1
    <3> HIDE DEF W
    <3> QED
      BY <1>2, <3>1, <3>2, MoreThanOne
  <2> QED
    BY <2>1
<1>6. Len(Tree!LevelOf(s, h)) + h <= Len(s)
  BY <1>5, LevelsShrink
<1>7. h \in 0 .. Len(s)
  BY <1>1, <1>6
<1> QED
  BY <1>5, <1>7 DEF IsHeight

\* The root is the level's node.
LEMMA RootIsFirst ==
  ASSUME NEW s, IsRow(s), Len(s) > 0, NEW h, IsHeight(s, h)
  PROVE  Tree!Root(s) = Tree!LevelOf(s, h)[1]
<1>1. Tree!Root(s) = Tree!LevelOf(s, CHOOSE k \in 0 .. Len(s) : IsHeight(s, k))[1]
  <2>1. (CHOOSE k \in 0 .. Len(s) : IsHeight(s, k))
          = CHOOSE k \in 0 .. Len(s) : /\ Len(Tree!LevelOf(s, k)) = 1
                                       /\ \A g \in 0 .. (k - 1) : Len(Tree!LevelOf(s, g)) > 1
    BY DEF IsHeight
  <2> QED
    BY <2>1 DEF Tree!Root
<1>2. PICK k \in 0 .. Len(s) : IsHeight(s, k) /\ Tree!Root(s) = Tree!LevelOf(s, k)[1]
  <2>1. \E k \in 0 .. Len(s) : IsHeight(s, k)
    BY DEF IsHeight
  <2> QED
    BY <1>1, <2>1
<1>3. k \in Nat /\ h \in Nat
  BY RowHas DEF IsHeight
<1>4. ~(k < h)
  <2>1. SUFFICES ASSUME k < h PROVE FALSE
    OBVIOUS
  <2>2. k \in 0 .. (h - 1)
    BY <1>3, <2>1
  <2>3. Len(Tree!LevelOf(s, k)) > 1 /\ Len(Tree!LevelOf(s, k)) = 1
    BY <1>2, <2>2 DEF IsHeight
  <2> QED
    BY <2>3
<1>5. ~(h < k)
  <2>1. SUFFICES ASSUME h < k PROVE FALSE
    OBVIOUS
  <2>2. h \in 0 .. (k - 1)
    BY <1>3, <2>1
  <2>3. Len(Tree!LevelOf(s, h)) > 1 /\ Len(Tree!LevelOf(s, h)) = 1
    BY <1>2, <2>2 DEF IsHeight
  <2> QED
    BY <2>3
<1> QED
  BY <1>2, <1>3, <1>4, <1>5

\* A root stands for one list of different leaves.
LEMMA RootTellsList ==
  ASSUME NEW s, NEW t, IsRow(s), IsRow(t), Len(s) > 0, Len(t) > 0, Apart(s), Apart(t),
         Tree!Root(s) = Tree!Root(t)
  PROVE  s = t
<1>1. PICK g \in Nat : IsHeight(s, g)
  BY RootIsThere
<1>2. PICK h \in Nat : IsHeight(t, h)
  BY RootIsThere
<1> DEFINE a == Tree!LevelOf(s, g)
           b == Tree!LevelOf(t, h)
<1>3. /\ IsRow(a) /\ Len(a) = 1 /\ Tree!Root(s) = a[1]
      /\ IsRow(b) /\ Len(b) = 1 /\ Tree!Root(t) = b[1]
  BY <1>1, <1>2, LevelsAreRows, RootIsFirst DEF IsHeight
<1>4. a = b
  <2> HIDE DEF a, b
  <2>1. a = [i \in 1 .. 1 |-> a[i]] /\ b = [i \in 1 .. 1 |-> b[i]]
    BY <1>3, RowHas
  <2>2. a[1] = b[1]
    BY <1>3
  <2>3. \A i \in 1 .. 1 : i = 1
    OBVIOUS
  <2> QED
    BY <2>1, <2>2, <2>3
<1> QED
  BY <1>4, LevelTellsList

\* A turn of the verifier's loop.
Joined(hash, step) ==
  IF step.position = "right" THEN Tree!HashPair(hash, step.hash) ELSE Tree!HashPair(step.hash, hash)

\* How the loop is folded over the first k places of a path.
FoldsUp(x, path, k, it) ==
  it = [S \in SUBSET (1 .. k) |->
          IF S = {} THEN Tree!HashLeaf(x)
          ELSE Joined(it[S \ {Tree!Max(S)}], path[Tree!Max(S)])]

\* The last place is the greatest.
LEMMA LastIsMax ==
  ASSUME NEW k \in Nat, NEW S \in SUBSET (1 .. k), k \in S
  PROVE  Tree!Max(S) = k
<1>1. \A y \in S : y \in Nat /\ k >= y
  OBVIOUS
<1>2. Tree!Max(S) \in S /\ Tree!Max(S) >= k
  BY <1>1 DEF Tree!Max
<1>3. Tree!Max(S) \in Nat /\ k >= Tree!Max(S)
  BY <1>1, <1>2
<1> HIDE DEF Tree!Max
<1> QED
  BY <1>2, <1>3

\* There is such a fold for any number of places.
LEMMA FoldIsThere ==
  ASSUME NEW x, NEW path, NEW n \in Nat
  PROVE  \E it : FoldsUp(x, path, n, it)
<1> DEFINE W == {k \in Nat : ~\E it : FoldsUp(x, path, k, it)}
<1>1. SUFFICES ASSUME W # {} PROVE FALSE
  OBVIOUS
<1>2. PICK k \in W : \A j \in W : k <= j
  BY <1>1, LeastIsThere
<1>3. CASE k = 0
  <2> DEFINE it == [S \in SUBSET (1 .. 0) |-> Tree!HashLeaf(x)]
  <2>1. \A S \in SUBSET (1 .. 0) : S = {}
    OBVIOUS
  <2>2. FoldsUp(x, path, 0, it)
    BY <2>1 DEF FoldsUp
  <2> QED
    BY <1>3, <2>2
<1>4. CASE k # 0
  <2>1. k \in Nat /\ k - 1 \in Nat /\ k - 1 \notin W
    BY <1>2, <1>4
  <2>2. PICK it : FoldsUp(x, path, k - 1, it)
    BY <2>1
  <2> DEFINE up == [S \in SUBSET (1 .. k) |-> IF k \in S THEN Joined(it[S \ {k}], path[k]) ELSE it[S]]
  <2>3. ASSUME NEW S \in SUBSET (1 .. k), k \notin S
        PROVE  S \in SUBSET (1 .. k - 1) /\ \A m : S \ {m} \in SUBSET (1 .. k - 1) /\ k \notin S \ {m}
    <3>1. \A y \in S : y \in 1 .. k /\ y # k
      BY <2>3
    <3>2. \A y \in 1 .. k : y # k => y \in 1 .. k - 1
      BY <2>1
    <3> QED
      BY <3>1, <3>2
  <2>4. \A S \in SUBSET (1 .. k - 1) :
          it[S] = IF S = {} THEN Tree!HashLeaf(x)
                  ELSE Joined(it[S \ {Tree!Max(S)}], path[Tree!Max(S)])
    BY <2>2 DEF FoldsUp
  <2>5. ASSUME NEW S \in SUBSET (1 .. k)
        PROVE  up[S] = IF S = {} THEN Tree!HashLeaf(x)
                       ELSE Joined(up[S \ {Tree!Max(S)}], path[Tree!Max(S)])
    <3>1. CASE k \in S
      <4>1. Tree!Max(S) = k /\ S # {}
        BY <2>1, <3>1, LastIsMax
      <4>2. S \ {k} \in SUBSET (1 .. k) /\ k \notin S \ {k}
        OBVIOUS
      <4>3. up[S \ {k}] = it[S \ {k}]
        BY <4>2
      <4>4. up[S] = Joined(it[S \ {k}], path[k])
        BY <3>1
      <4> QED
        BY <4>1, <4>3, <4>4
    <3>2. CASE k \notin S
      <4>1. up[S] = it[S]
        BY <3>2
      <4>2. S \in SUBSET (1 .. k - 1)
        BY <2>3, <3>2
      <4>3. up[S \ {Tree!Max(S)}] = it[S \ {Tree!Max(S)}]
        BY <2>3, <3>2
      <4> QED
        BY <2>4, <4>1, <4>2, <4>3
    <3> QED
      BY <3>1, <3>2
  <2>6. up = [S \in SUBSET (1 .. k) |-> up[S]]
    OBVIOUS
  <2> HIDE DEF up
  <2>7. FoldsUp(x, path, k, up)
    BY <2>5, <2>6 DEF FoldsUp
  <2> QED
    BY <2>7
<1> QED
  BY <1>3, <1>4

\* It gives the same for paths that begin alike.
LEMMA FoldsAgree ==
  ASSUME NEW x, NEW p, NEW q, NEW k \in Nat, NEW n \in Nat, k <= n,
         \A i \in 1 .. k : p[i] = q[i],
         NEW a, FoldsUp(x, p, k, a), NEW b, FoldsUp(x, q, n, b)
  PROVE  a[1 .. k] = b[1 .. k]
<1> DEFINE W == {j \in 0 .. k : a[1 .. j] # b[1 .. j]}
<1>1. SUFFICES ASSUME W # {} PROVE FALSE
  <2>1. k \notin W => a[1 .. k] = b[1 .. k]
    OBVIOUS
  <2> HIDE DEF W
  <2> QED
    BY <2>1
<1>2. PICK j \in W : \A i \in W : j <= i
  <2>1. W \in SUBSET Nat
    OBVIOUS
  <2> HIDE DEF W
  <2> QED
    BY <1>1, <2>1, LeastIsThere
<1>3. j \in Nat /\ j <= k /\ 1 .. j \in SUBSET (1 .. k) /\ 1 .. j \in SUBSET (1 .. n)
  BY <1>2
<1>4. /\ a[1 .. j] = IF 1 .. j = {} THEN Tree!HashLeaf(x)
                     ELSE Joined(a[(1 .. j) \ {Tree!Max(1 .. j)}], p[Tree!Max(1 .. j)])
      /\ b[1 .. j] = IF 1 .. j = {} THEN Tree!HashLeaf(x)
                     ELSE Joined(b[(1 .. j) \ {Tree!Max(1 .. j)}], q[Tree!Max(1 .. j)])
  BY <1>3 DEF FoldsUp
<1>5. CASE j = 0
  BY <1>2, <1>4, <1>5
<1>6. CASE j # 0
  <2>1. j \in 1 .. j /\ j \in 1 .. k /\ 1 .. j # {}
    BY <1>3, <1>6
  <2>2. Tree!Max(1 .. j) = j
    BY <1>3, <2>1, LastIsMax
  <2>3. (1 .. j) \ {j} = 1 .. (j - 1)
    BY <1>3
  <2>4. j - 1 \in 0 .. k /\ j - 1 \notin W
    BY <1>2, <1>3, <1>6
  <2>5. a[1 .. j - 1] = b[1 .. j - 1]
    BY <2>4
  <2> QED
    BY <1>2, <1>4, <2>1, <2>2, <2>3, <2>5
<1> QED
  BY <1>5, <1>6

\* The verifier's loop: from the leaf's hash, a turn for each place of the path.
LEMMA PathGrows ==
  ASSUME NEW x, NEW path, IsRow(path), NEW step
  PROVE  /\ Tree!Recompute(x, <<>>) = Tree!HashLeaf(x)
         /\ Tree!Recompute(x, Append(path, step)) = Joined(Tree!Recompute(x, path), step)
         /\ IsRow(Append(path, step)) /\ Len(Append(path, step)) = Len(path) + 1
<1>1. ASSUME NEW p, NEW k \in Nat, DOMAIN p = 1 .. k
      PROVE  \E it : FoldsUp(x, p, k, it) /\ Tree!Recompute(x, p) = it[1 .. k]
  <2>1. Tree!Recompute(x, p) = (CHOOSE it : FoldsUp(x, p, k, it))[1 .. k]
    BY <1>1 DEF Tree!Recompute, Tree!FoldLeft, Tree!MapThenFoldSet, FoldsUp, Joined
  <2>2. FoldsUp(x, p, k, CHOOSE it : FoldsUp(x, p, k, it))
    BY FoldIsThere
  <2> QED
    BY <2>1, <2>2
<1>2. Tree!Recompute(x, <<>>) = Tree!HashLeaf(x)
  <2>1. PICK it : FoldsUp(x, <<>>, 0, it) /\ Tree!Recompute(x, <<>>) = it[1 .. 0]
    BY <1>1
  <2> QED
    BY <2>1 DEF FoldsUp
<1> DEFINE n == Len(path)
           more == Append(path, step)
<1>3. n \in Nat /\ DOMAIN path = 1 .. n
  BY RowHas
<1>4. /\ DOMAIN more = 1 .. n + 1 /\ Len(more) = n + 1
      /\ more[n + 1] = step /\ \A i \in 1 .. n : more[i] = path[i]
      /\ more = [i \in 1 .. n + 1 |-> more[i]]
  <2> DEFINE V == {path[i] : i \in DOMAIN path} \cup {step}
  <2>1. path \in Seq(V) /\ step \in V
    <3>1. path \in Seq({path[i] : i \in DOMAIN path})
      BY DEF IsRow
    <3>2. {path[i] : i \in DOMAIN path} \subseteq V
      OBVIOUS
    <3> DEFINE U == {path[i] : i \in DOMAIN path}
    <3> HIDE DEF U, V
    <3>3. \A T : U \subseteq T /\ path \in Seq(U) => path \in Seq(T)
      OBVIOUS
    <3> QED
      BY <3>1, <3>2, <3>3 DEF U, V
  <2> HIDE DEF V
  <2>2. more \in Seq(V) /\ Len(more) = n + 1
    BY <2>1
  <2>3. more[n + 1] = step /\ \A i \in 1 .. n : more[i] = path[i]
    BY <1>3, <2>1
  <2> HIDE DEF more
  <2>4. DOMAIN more = 1 .. n + 1 /\ more = [i \in 1 .. n + 1 |-> more[i]]
    BY <1>3, <2>2
  <2> QED
    BY <2>2, <2>3, <2>4
<1>5. IsRow(more)
  <2> HIDE DEF more, n
  <2>1. n + 1 \in Nat
    BY <1>3
  <2> QED
    BY <1>4, <2>1, RowOf
<1>6. PICK a : FoldsUp(x, path, n, a) /\ Tree!Recompute(x, path) = a[1 .. n]
  BY <1>1, <1>3
<1>7. PICK b : FoldsUp(x, more, n + 1, b) /\ Tree!Recompute(x, more) = b[1 .. n + 1]
  <2> HIDE DEF more, n
  <2>1. n + 1 \in Nat
    BY <1>3
  <2> QED
    BY <1>1, <1>4, <2>1
<1> HIDE DEF more, n
<1>8. a[1 .. n] = b[1 .. n]
  <2>1. n + 1 \in Nat /\ n <= n + 1 /\ \A i \in 1 .. n : path[i] = more[i]
    BY <1>3, <1>4
  <2> QED
    BY <1>3, <1>6, <1>7, <2>1, FoldsAgree
<1>9. b[1 .. n + 1] = Joined(b[1 .. n], step)
  <2>1. n + 1 \in Nat /\ n + 1 \in 1 .. n + 1 /\ (1 .. n + 1) \ {n + 1} = 1 .. n /\ 1 .. n + 1 # {}
    BY <1>3
  <2>2. Tree!Max(1 .. n + 1) = n + 1
    BY <2>1, LastIsMax
  <2> QED
    BY ZenonT(60), <1>4, <1>7, <2>1, <2>2 DEF FoldsUp
<1>10. Tree!Recompute(x, more) = Joined(Tree!Recompute(x, path), step)
  BY <1>6, <1>7, <1>8, <1>9
<1> QED
  BY <1>2, <1>4, <1>5, <1>10 DEF more, n

\* The lists of leaves.
LEMMA LeavesAreRows ==
  ASSUME NEW s \in Tree!LeafSequences
  PROVE  IsRow(s) /\ Len(s) > 0 /\ Apart(s)
<1>1. PICK n \in 1 .. Cardinality(Leaf) : s \in [1 .. n -> Leaf]
  <2>1. s \in UNION {[1 .. n -> Leaf] : n \in 1 .. Tree!Cardinality(Leaf)}
    BY DEF Tree!LeafSequences
  <2>2. Tree!Cardinality(Leaf) = Cardinality(Leaf)
    BY DEF Tree!Cardinality, Cardinality, Tree!IsFiniteSet, IsFiniteSet
  <2> QED
    BY <2>1, <2>2
<1>2. n \in Nat /\ n > 0 /\ s = [i \in 1 .. n |-> s[i]]
  BY <1>1
<1>3. IsRow(s) /\ Len(s) = n /\ DOMAIN s = 1 .. n
  BY <1>2, RowOf
<1>4. Apart(s)
  BY DEF Tree!LeafSequences, Apart
<1> QED
  BY <1>2, <1>3, <1>4

\* The path is empty and leads to the leaf's own hash.
LEMMA InitTree ==
  ASSUME Tree!Init
  PROVE  Tree!IInv
<1>1. /\ r1 \in Tree!LeafSequences /\ r2 \in 0 .. Len(r1) - 1
      /\ r3 = Tree!Hashes(r1) /\ r4 = r2 /\ r5 = <<>>
  BY DEF Tree!Init
<1>2. IsRow(r1) /\ Len(r1) > 0 /\ Len(r1) \in Nat
  BY <1>1, LeavesAreRows, RowHas
<1>3. /\ Len(r3) = Len(r1) /\ r3 = Tree!LevelOf(r1, 0)
      /\ \A i \in 1 .. Len(r1) : r3[i] = [leaf |-> r1[i]]
  BY <1>1, <1>2, FirstRow, LevelsRise
<1>4. Len(r5) = 0 /\ IsRow(r5)
  BY <1>1 DEF IsRow
<1>5. Tree!TypeOK
  BY <1>1, <1>3, <1>4 DEF Tree!TypeOK, Tree!ToSet, IsRow
<1>6. Tree!LevelsAreOfTheRoot
  <2>1. \A g : g \notin 0 .. 0 - 1
    OBVIOUS
  <2> QED
    BY <1>2, <1>3, <1>4, <2>1 DEF Tree!LevelsAreOfTheRoot
<1>7. Tree!Recompute(r1[r2 + 1], r5) = r3[r4 + 1]
  <2>1. Tree!Recompute(r1[r2 + 1], r5) = [leaf |-> r1[r2 + 1]]
    BY <1>1, <1>4, PathGrows DEF Tree!HashLeaf
  <2>2. r2 + 1 \in 1 .. Len(r1)
    BY <1>1, <1>2
  <2> QED
    BY <1>1, <1>3, <2>1, <2>2
<1> QED
  BY <1>5, <1>6, <1>7 DEF Tree!IInv

\* A turn of the proof's loop: the sibling leads to the node above.
LEMMA NextTree ==
  ASSUME Tree!IInv, Tree!Next
  PROVE  Tree!IInv'
<1>1. /\ r1 \in Tree!LeafSequences /\ r2 \in 0 .. Len(r1) - 1
      /\ r4 \in 0 .. Len(r3) - 1 /\ IsRow(r5)
      /\ r3 = Tree!LevelOf(r1, Len(r5))
      /\ \A g \in 0 .. Len(r5) - 1 : Len(Tree!LevelOf(r1, g)) > 1
      /\ Len(r3) + Len(r5) <= Len(r1)
      /\ Tree!Recompute(r1[r2 + 1], r5) = r3[r4 + 1]
  BY DEF Tree!IInv, Tree!TypeOK, Tree!LevelsAreOfTheRoot, Tree!ToSet, IsRow
<1> DEFINE sibling == Tree!Sibling(r3, r4)
<1>2. /\ Len(r3) > 1 /\ r5' = Append(r5, sibling) /\ r3' = Tree!NextLevel(r3)
      /\ r4' = r4 \div 2 /\ UNCHANGED <<r1, r2>>
  BY DEF Tree!Next, Tree!Climb
<1>3. IsRow(r1) /\ Len(r1) > 0 /\ Len(r1) \in Nat /\ Len(r5) \in Nat
  BY <1>1, LeavesAreRows, RowHas
<1>4. IsRow(r3) /\ Len(r3) \in Nat
  BY <1>1, <1>3, LevelsAreRows, RowHas
<1>5. /\ IsRow(r3') /\ Len(r3') \in Nat /\ Len(r3') > 0 /\ Len(r3') < Len(r3)
      /\ Len(r3) = 2 * Len(r3') \/ Len(r3) = 2 * Len(r3') - 1
      /\ \A k \in 1 .. Len(r3') :
           r3'[k] = [left |-> Tree!LeftOf(r3, k), right |-> Tree!RightOf(r3, k)]
  <2>1. Len(r3) > 0
    BY <1>2, <1>4
  <2> QED
    BY <1>2, <1>4, <2>1, NextRow, RowHas
<1>6. IsRow(r5') /\ Len(r5') = Len(r5) + 1
  BY <1>1, <1>2, PathGrows
<1> DEFINE k == r4 \div 2 + 1
<1>7. /\ k \in 1 .. Len(r3') /\ r4' = k - 1 /\ k \in Nat
      /\ r4 % 2 = 0 => r4 + 1 = 2 * k - 1
      /\ r4 % 2 # 0 => r4 + 1 = 2 * k /\ 2 * k <= Len(r3)
  BY <1>1, <1>2, <1>4, <1>5
<1>8. Tree!TypeOK'
  <2>1. r4' \in 0 .. Len(r3') - 1
    <3> HIDE DEF k
    <3> QED
      BY <1>5, <1>7
  <2> QED
    BY <1>1, <1>2, <1>6, <2>1 DEF Tree!TypeOK, Tree!ToSet, IsRow
<1>9. Tree!LevelsAreOfTheRoot'
  <2>1. r3' = Tree!LevelOf(r1, Len(r5'))
    BY <1>1, <1>2, <1>3, <1>6, LevelsRise
  <2>2. \A g \in 0 .. Len(r5') - 1 : Len(Tree!LevelOf(r1, g)) > 1
    <3>1. \A g \in 0 .. Len(r5') - 1 : g \in 0 .. Len(r5) - 1 \/ g = Len(r5)
      BY <1>3, <1>6
    <3> QED
      BY <1>1, <1>2, <3>1
  <2>3. Len(r3') + Len(r5') <= Len(r1)
    BY <1>1, <1>3, <1>4, <1>5, <1>6
  <2> QED
    BY <1>2, <2>1, <2>2, <2>3 DEF Tree!LevelsAreOfTheRoot
<1>10. Tree!Recompute(r1[r2 + 1], r5') = r3'[r4' + 1]
  <2>1. Tree!Recompute(r1[r2 + 1], r5') = Joined(r3[r4 + 1], sibling)
    BY <1>1, <1>2, PathGrows
  <2>2. r3'[k] = [left |-> Tree!LeftOf(r3, k), right |-> Tree!RightOf(r3, k)]
    <3> HIDE DEF k
    <3> QED
      BY <1>5, <1>7
  <2>3. CASE r4 % 2 = 0
    <3>1. sibling = [hash |-> Tree!RightOf(r3, k), position |-> "right"]
      BY <2>3 DEF Tree!Sibling
    <3>2. Joined(r3[r4 + 1], sibling) = [left |-> r3[r4 + 1], right |-> Tree!RightOf(r3, k)]
      <4> HIDE DEF k, sibling
      <4> QED
        BY <3>1 DEF Joined, Tree!HashPair
    <3>3. Tree!LeftOf(r3, k) = r3[r4 + 1]
      <4> HIDE DEF k
      <4> QED
        BY <1>7, <2>3 DEF Tree!LeftOf
    <3>4. r3'[k] = Joined(r3[r4 + 1], sibling)
      BY <2>2, <3>2, <3>3
    <3> HIDE DEF k, sibling
    <3> QED
      BY <1>7, <2>1, <3>4
  <2>4. CASE r4 % 2 # 0
    <3>1. sibling = [hash |-> Tree!LeftOf(r3, k), position |-> "left"]
      BY <2>4 DEF Tree!Sibling
    <3>2. Joined(r3[r4 + 1], sibling) = [left |-> Tree!LeftOf(r3, k), right |-> r3[r4 + 1]]
      <4> HIDE DEF k, sibling
      <4> QED
        BY <3>1 DEF Joined, Tree!HashPair
    <3>3. Tree!RightOf(r3, k) = r3[r4 + 1]
      <4> HIDE DEF k
      <4> QED
        BY <1>7, <2>4 DEF Tree!RightOf
    <3>4. r3'[k] = Joined(r3[r4 + 1], sibling)
      BY <2>2, <3>2, <3>3
    <3> HIDE DEF k, sibling
    <3> QED
      BY <1>7, <2>1, <3>4
  <2> QED
    BY <2>3, <2>4
<1> QED
  BY <1>2, <1>8, <1>9, <1>10 DEF Tree!IInv

\* The level with one node is the root's, and a root tells its list.
LEMMA TreeIsTrue ==
  ASSUME Tree!IInv
  PROVE  Tree!PathLeadsToRoot /\ Tree!RootCommits
<1>1. /\ r1 \in Tree!LeafSequences /\ r3 = Tree!LevelOf(r1, Len(r5)) /\ IsRow(r5)
      /\ \A g \in 0 .. Len(r5) - 1 : Len(Tree!LevelOf(r1, g)) > 1
      /\ Len(r3) + Len(r5) <= Len(r1)
      /\ Tree!Recompute(r1[r2 + 1], r5) = r3[r4 + 1]
  BY DEF Tree!IInv, Tree!TypeOK, Tree!LevelsAreOfTheRoot, Tree!ToSet, IsRow
<1>2. IsRow(r1) /\ Len(r1) > 0 /\ Len(r1) \in Nat /\ Len(r5) \in Nat /\ Apart(r1)
  BY <1>1, LeavesAreRows, RowHas
<1>3. ASSUME Len(r3) = 1 PROVE r3[1] = Tree!Root(r1)
  <2>1. IsHeight(r1, Len(r5))
    BY <1>1, <1>2, <1>3 DEF IsHeight
  <2> QED
    BY <1>1, <1>2, <2>1, RootIsFirst
<1>4. Tree!PathLeadsToRoot
  BY <1>1, <1>3 DEF Tree!PathLeadsToRoot
<1>5. ASSUME Len(r3) = 1, NEW s \in Tree!LeafSequences, Tree!Root(s) = r3[1]
      PROVE  s = r1
  BY <1>2, <1>3, <1>5, LeavesAreRows, RootTellsList
<1> QED
  BY <1>4, <1>5 DEF Tree!RootCommits

-----------------------------------------------------------------------------
(* The structure read from a photo (FormSchema): stage r1, livestock r2,   *)
(* given r3, draft r4, ids r5.  Every operator that folds over a list is   *)
(* unfolded turn by turn, and what a turn keeps holds place by place: the  *)
(* split of a section and what becomes of it keep how often each label is  *)
(* there, and an id is new because it has more suffixed forms than there   *)
(* are ids in use.                                                         *)

\* The last place is the greatest.
LEMMA LastIsGreatest ==
  ASSUME NEW k \in Nat, NEW S \in SUBSET (1 .. k), k \in S
  PROVE  Digitized!Max(S) = k
<1>1. \A y \in S : y \in Nat /\ k >= y
  OBVIOUS
<1>2. Digitized!Max(S) \in S /\ Digitized!Max(S) >= k
  BY <1>1 DEF Digitized!Max
<1>3. Digitized!Max(S) \in Nat /\ k >= Digitized!Max(S)
  BY <1>1, <1>2
<1> HIDE DEF Digitized!Max
<1> QED
  BY <1>2, <1>3

\* The first places, and the last of them.
LEMMA FirstPlaces ==
  ASSUME NEW n \in Nat, NEW k \in 1 .. n
  PROVE  /\ 1 .. k \in SUBSET (1 .. n) /\ 1 .. k # {} /\ (1 .. k) \ {k} = 1 .. (k - 1)
         /\ Digitized!Max(1 .. k) = k /\ k - 1 \in 0 .. n
<1>1. 1 .. k \in SUBSET (1 .. n) /\ k \in 1 .. k /\ (1 .. k) \ {k} = 1 .. (k - 1) /\ k - 1 \in 0 .. n
  OBVIOUS
<1>2. Digitized!Max(1 .. k) = k
  BY <1>1, LastIsGreatest
<1> QED
  BY <1>1, <1>2

\* How a turn is folded over sets of places, the greatest last.
Turns(base, turn, k, it) ==
  \A S \in SUBSET (1 .. k) :
    it[S] = IF S = {} THEN base ELSE turn[<<it[S \ {Digitized!Max(S)}], Digitized!Max(S)>>]

\* There is such a fold for any number of places.
LEMMA TurnsAreThere ==
  ASSUME NEW A, NEW base \in A, NEW n \in Nat, NEW turn \in [A \X (1 .. n) -> A]
  PROVE  \E it \in [SUBSET (1 .. n) -> A] : Turns(base, turn, n, it)
<1> DEFINE Has(k) == \E it \in [SUBSET (1 .. k) -> A] : Turns(base, turn, k, it)
           W == {k \in 0 .. n : ~Has(k)}
<1>1. SUFFICES ASSUME W # {} PROVE FALSE
  <2>1. n \in 0 .. n
    OBVIOUS
  <2>2. W = {} => Has(n)
    BY <2>1
  <2> HIDE DEF W
  <2> QED
    BY <2>2
<1>2. PICK k \in W : \A j \in W : k <= j
  <2>1. W \in SUBSET Nat
    OBVIOUS
  <2> HIDE DEF W
  <2> QED
    BY <1>1, <2>1, LeastIsThere
<1>3. CASE k = 0
  <2> DEFINE it == [S \in SUBSET (1 .. 0) |-> base]
  <2>1. \A S \in SUBSET (1 .. 0) : S = {}
    OBVIOUS
  <2>2. it \in [SUBSET (1 .. 0) -> A] /\ Turns(base, turn, 0, it)
    BY <2>1 DEF Turns
  <2> HIDE DEF it
  <2>3. Has(0)
    BY <2>2
  <2> QED
    BY <1>2, <1>3, <2>3
<1>4. CASE k # 0
  <2>1. k \in Nat /\ k \in 1 .. n /\ k - 1 \in 0 .. n
    <3>1. k \in 0 .. n
      OBVIOUS
    <3> HIDE DEF W
    <3> QED
      BY <1>4, <3>1
  <2>2. k - 1 \notin W
    <3> HIDE DEF W
    <3> QED
      BY <1>2, <2>1
  <2>3. Has(k - 1)
    BY <2>1, <2>2
  <2>4. PICK it \in [SUBSET (1 .. (k - 1)) -> A] : Turns(base, turn, k - 1, it)
    BY <2>3
  <2> DEFINE up == [S \in SUBSET (1 .. k) |-> IF k \in S THEN turn[<<it[S \ {k}], k>>] ELSE it[S]]
  <2>5. ASSUME NEW S \in SUBSET (1 .. k), k \notin S
        PROVE  S \in SUBSET (1 .. (k - 1)) /\ \A m : S \ {m} \in SUBSET (1 .. (k - 1)) /\ k \notin S \ {m}
    <3>1. \A y \in S : y \in 1 .. k /\ y # k
      BY <2>5
    <3>2. \A y \in 1 .. k : y # k => y \in 1 .. (k - 1)
      BY <2>1
    <3> QED
      BY <3>1, <3>2
  <2>6. \A S \in SUBSET (1 .. k) : S \ {k} \in SUBSET (1 .. k) /\ k \notin S \ {k}
    OBVIOUS
  <2>7. up \in [SUBSET (1 .. k) -> A]
    <3>1. ASSUME NEW S \in SUBSET (1 .. k) PROVE up[S] \in A
      <4>1. CASE k \in S
        <5>1. it[S \ {k}] \in A
          BY <2>4, <2>5, <2>6
        <5> QED
          BY <2>1, <4>1, <5>1
      <4>2. CASE k \notin S
        BY <2>4, <2>5, <4>2
      <4> QED
        BY <4>1, <4>2
    <3> QED
      BY <3>1
  <2>8. ASSUME NEW S \in SUBSET (1 .. k)
        PROVE  up[S] = IF S = {} THEN base
                       ELSE turn[<<up[S \ {Digitized!Max(S)}], Digitized!Max(S)>>]
    <3>1. CASE k \in S
      <4>1. Digitized!Max(S) = k /\ S # {}
        BY <2>1, <3>1, LastIsGreatest
      <4>2. up[S \ {k}] = it[S \ {k}]
        BY <2>6
      <4>3. up[S] = turn[<<it[S \ {k}], k>>]
        BY <3>1
      <4> HIDE DEF up
      <4> QED
        BY <4>1, <4>2, <4>3
    <3>2. CASE k \notin S
      <4>1. up[S] = it[S]
        BY <3>2
      <4>2. S \in SUBSET (1 .. (k - 1))
        BY <2>5, <3>2
      <4>3. up[S \ {Digitized!Max(S)}] = it[S \ {Digitized!Max(S)}]
        <5>1. S \ {Digitized!Max(S)} \in SUBSET (1 .. k) /\ k \notin S \ {Digitized!Max(S)}
          BY <3>2
        <5> QED
          BY <5>1
      <4> HIDE DEF up
      <4> QED
        BY <2>4, <4>1, <4>2, <4>3 DEF Turns
    <3> QED
      BY <3>1, <3>2
  <2> HIDE DEF up
  <2>9. Has(k)
    BY <2>7, <2>8 DEF Turns
  <2> QED
    BY <1>2, <2>9
<1> QED
  BY <1>3, <1>4

\* A set of places that is not empty has a greatest.
LEMMA GreatestIsThere ==
  ASSUME NEW n \in Nat, NEW S \in SUBSET (1 .. n), S # {}
  PROVE  Digitized!Max(S) \in S
<1> DEFINE W == {n - y : y \in S}
<1>1. W \in SUBSET Nat /\ W # {}
  <2>1. \A y \in S : y \in 1 .. n
    OBVIOUS
  <2>2. \A y \in 1 .. n : n - y \in Nat
    OBVIOUS
  <2> QED
    BY <2>1, <2>2
<1>2. PICK w \in W : \A v \in W : w <= v
  <2> HIDE DEF W
  <2> QED
    BY <1>1, LeastIsThere
<1>3. PICK x \in S : w = n - x
  BY <1>2
<1>4. ASSUME NEW y \in S PROVE x >= y
  <2>1. w <= n - y
    BY <1>2
  <2> HIDE DEF W
  <2> QED
    BY <1>3, <2>1
<1> QED
  BY <1>4 DEF Digitized!Max

\* A turn of the fold of each operator.
LabelsTurn(acc, s) == acc \o s.fields \o s.columns
ListsTurn(acc, s) == acc \o <<s.fields, s.columns>>
SplitTurn(acc, f) ==
  IF \/ Digitized!Header(f)
     \/ f = "initials" /\ acc.initials < 2 /\ acc.header # <<>>
     \/ ~Digitized!Column(f) /\ Len(acc.header) < 4
  THEN [acc EXCEPT !.header = Append(@, f), !.initials = IF f = "initials" THEN @ + 1 ELSE @]
  ELSE [acc EXCEPT !.table = Append(@, f)]
MergeTurn(known, acc, c) == IF c \in Digitized!ToSet(known) THEN acc ELSE Append(acc, c)
GridTurn(acc, f) ==
  IF Digitized!Header(f) \/ (f \notin {"date", "deviation", "corrective"} /\ acc.blanks < 4)
  THEN [acc EXCEPT !.blanks = @ + 1] ELSE [acc EXCEPT !.grid = Append(@, f)]
IdTurn(used, acc, id) ==
  Append(acc, Digitized!Fresh(id, Len(acc), used \cup Digitized!ToSet(acc)))
UsedIn(acc) == UNION {Digitized!ToSet(acc[i]) : i \in DOMAIN acc}
GenerateTurn(acc, list) == Append(acc, Digitized!EnsureIds(list, UsedIn(acc)))

\* How the labels of a form are put together.
LEMMA LabelsUnfold ==
  ASSUME NEW secs \in Seq(Digitized!SectionRow)
  PROVE  \E f : /\ f[0] = <<>> /\ Digitized!Labels(secs) = f[Len(secs)]
                /\ \A i \in 1 .. Len(secs) : f[i] = LabelsTurn(f[i - 1], secs[i])
<1> DEFINE n == Len(secs)
           A == Seq(STRING)
           turn == [p \in A \X (1 .. n) |-> LabelsTurn(p[1], secs[p[2]])]
           Good(it) == it = [S \in SUBSET (1 .. n) |->
                               IF S = {} THEN <<>>
                               ELSE LabelsTurn(it[S \ {Digitized!Max(S)}], secs[Digitized!Max(S)])]
<1>1. n \in Nat /\ DOMAIN secs = 1 .. n /\ \A i \in 1 .. n : secs[i] \in Digitized!SectionRow
  OBVIOUS
<1>2. turn \in [A \X (1 .. n) -> A] /\ <<>> \in A
  <2>1. ASSUME NEW p \in A \X (1 .. n) PROVE LabelsTurn(p[1], secs[p[2]]) \in A
    <3>1. p[1] \in A /\ secs[p[2]] \in Digitized!SectionRow
      BY <1>1
    <3> QED
      BY <3>1 DEF LabelsTurn, Digitized!SectionRow
  <2>2. <<>> \in A
    OBVIOUS
  <2> HIDE DEF A
  <2> QED
    BY <2>1, <2>2
<1> HIDE DEF turn
<1>3. PICK it \in [SUBSET (1 .. n) -> A] : Turns(<<>>, turn, n, it)
  <2> HIDE DEF A, n
  <2> QED
    BY <1>1, <1>2, TurnsAreThere
<1>4. Good(it)
  <2>1. ASSUME NEW S \in SUBSET (1 .. n), S # {}
        PROVE  it[S] = LabelsTurn(it[S \ {Digitized!Max(S)}], secs[Digitized!Max(S)])
    <3> DEFINE m == Digitized!Max(S)
               a == it[S \ {m}]
    <3>1. m \in 1 .. n
      BY <1>1, <2>1, GreatestIsThere
    <3>2. it[S] = turn[<<a, m>>]
      BY <1>3, <2>1 DEF Turns
    <3> HIDE DEF m
    <3>3. a \in A
      <4>1. S \ {m} \in SUBSET (1 .. n)
        OBVIOUS
      <4> HIDE DEF A
      <4> QED
        BY <1>3, <4>1
    <3> HIDE DEF a, A
    <3>4. turn[<<a, m>>] = LabelsTurn(a, secs[m])
      BY <3>1, <3>3 DEF turn
    <3> QED
      BY <3>2, <3>4 DEF a, m
  <2>2. it[{}] = <<>>
    BY <1>3 DEF Turns
  <2>3. \A S \in SUBSET (1 .. n) :
          it[S] = IF S = {} THEN <<>>
                  ELSE LabelsTurn(it[S \ {Digitized!Max(S)}], secs[Digitized!Max(S)])
    BY <2>1, <2>2
  <2> HIDE DEF A
  <2> QED
    BY <1>3, <2>3
<1>5. Digitized!Labels(secs) = (CHOOSE c : Good(c))[1 .. n]
  BY <1>1 DEF Digitized!Labels, LabelsTurn, Digitized!FoldLeft, Digitized!MapThenFoldSet
<1>6. PICK c : Good(c) /\ Digitized!Labels(secs) = c[1 .. n]
  <2> HIDE DEF Good
  <2>1. Good(CHOOSE c : Good(c))
    BY <1>4
  <2> QED
    BY <1>5, <2>1
<1> DEFINE f == [i \in 0 .. n |-> c[1 .. i]]
<1>7. f[0] = <<>> /\ f[n] = c[1 .. n]
  <2>1. 1 .. 0 = {} /\ 0 \in 0 .. n /\ n \in 0 .. n
    BY <1>1
  <2>2. c[{}] = <<>>
    BY <1>6
  <2> HIDE DEF Good
  <2> QED
    BY <2>1, <2>2
<1>8. ASSUME NEW i \in 1 .. n PROVE f[i] = LabelsTurn(f[i - 1], secs[i])
  <2>1. /\ 1 .. i \in SUBSET (1 .. n) /\ 1 .. i # {} /\ (1 .. i) \ {i} = 1 .. (i - 1)
        /\ Digitized!Max(1 .. i) = i /\ i - 1 \in 0 .. n
    BY <1>1, FirstPlaces
  <2>2. c[1 .. i] = LabelsTurn(c[1 .. (i - 1)], secs[i])
    <3> HIDE DEF f
    <3> QED
      BY <1>6, <2>1
  <2>3. f[i] = c[1 .. i] /\ f[i - 1] = c[1 .. (i - 1)]
    BY <2>1
  <2> HIDE DEF f, Good
  <2> QED
    BY <2>2, <2>3
<1> HIDE DEF f, Good
<1> QED
  BY <1>6, <1>7, <1>8

\* How the lists of a form are put together.
LEMMA ListsUnfold ==
  ASSUME NEW secs \in Seq(Digitized!SectionRow)
  PROVE  \E f : /\ f[0] = <<>> /\ Digitized!Lists(secs) = f[Len(secs)]
                /\ \A i \in 1 .. Len(secs) : f[i] = ListsTurn(f[i - 1], secs[i])
<1> DEFINE n == Len(secs)
           A == Seq(Seq(STRING))
           turn == [p \in A \X (1 .. n) |-> ListsTurn(p[1], secs[p[2]])]
           Good(it) == it = [S \in SUBSET (1 .. n) |->
                               IF S = {} THEN <<>>
                               ELSE ListsTurn(it[S \ {Digitized!Max(S)}], secs[Digitized!Max(S)])]
<1>1. n \in Nat /\ DOMAIN secs = 1 .. n /\ \A i \in 1 .. n : secs[i] \in Digitized!SectionRow
  OBVIOUS
<1>2. turn \in [A \X (1 .. n) -> A] /\ <<>> \in A
  <2>1. ASSUME NEW p \in A \X (1 .. n) PROVE ListsTurn(p[1], secs[p[2]]) \in A
    <3>1. p[1] \in A /\ secs[p[2]] \in Digitized!SectionRow
      BY <1>1
    <3>2. \A s \in Digitized!SectionRow : <<s.fields, s.columns>> \in Seq(Seq(STRING))
      BY DEF Digitized!SectionRow
    <3> QED
      BY <3>1, <3>2 DEF ListsTurn
  <2>2. <<>> \in A
    OBVIOUS
  <2> HIDE DEF A
  <2> QED
    BY <2>1, <2>2
<1> HIDE DEF turn
<1>3. PICK it \in [SUBSET (1 .. n) -> A] : Turns(<<>>, turn, n, it)
  <2> HIDE DEF A, n
  <2> QED
    BY <1>1, <1>2, TurnsAreThere
<1>4. Good(it)
  <2>1. ASSUME NEW S \in SUBSET (1 .. n), S # {}
        PROVE  it[S] = ListsTurn(it[S \ {Digitized!Max(S)}], secs[Digitized!Max(S)])
    <3> DEFINE m == Digitized!Max(S)
               a == it[S \ {m}]
    <3>1. m \in 1 .. n
      BY <1>1, <2>1, GreatestIsThere
    <3>2. it[S] = turn[<<a, m>>]
      BY <1>3, <2>1 DEF Turns
    <3> HIDE DEF m
    <3>3. a \in A
      <4>1. S \ {m} \in SUBSET (1 .. n)
        OBVIOUS
      <4> HIDE DEF A
      <4> QED
        BY <1>3, <4>1
    <3> HIDE DEF a, A
    <3>4. turn[<<a, m>>] = ListsTurn(a, secs[m])
      BY <3>1, <3>3 DEF turn
    <3> QED
      BY <3>2, <3>4 DEF a, m
  <2>2. it[{}] = <<>>
    BY <1>3 DEF Turns
  <2>3. \A S \in SUBSET (1 .. n) :
          it[S] = IF S = {} THEN <<>>
                  ELSE ListsTurn(it[S \ {Digitized!Max(S)}], secs[Digitized!Max(S)])
    BY <2>1, <2>2
  <2> HIDE DEF A
  <2> QED
    BY <1>3, <2>3
<1>5. Digitized!Lists(secs) = (CHOOSE c : Good(c))[1 .. n]
  BY <1>1 DEF Digitized!Lists, ListsTurn, Digitized!FoldLeft, Digitized!MapThenFoldSet
<1>6. PICK c : Good(c) /\ Digitized!Lists(secs) = c[1 .. n]
  <2> HIDE DEF Good
  <2>1. Good(CHOOSE c : Good(c))
    BY <1>4
  <2> QED
    BY <1>5, <2>1
<1> DEFINE f == [i \in 0 .. n |-> c[1 .. i]]
<1>7. f[0] = <<>> /\ f[n] = c[1 .. n]
  <2>1. 1 .. 0 = {} /\ 0 \in 0 .. n /\ n \in 0 .. n
    BY <1>1
  <2>2. c[{}] = <<>>
    BY <1>6
  <2> HIDE DEF Good
  <2> QED
    BY <2>1, <2>2
<1>8. ASSUME NEW i \in 1 .. n PROVE f[i] = ListsTurn(f[i - 1], secs[i])
  <2>1. /\ 1 .. i \in SUBSET (1 .. n) /\ 1 .. i # {} /\ (1 .. i) \ {i} = 1 .. (i - 1)
        /\ Digitized!Max(1 .. i) = i /\ i - 1 \in 0 .. n
    BY <1>1, FirstPlaces
  <2>2. c[1 .. i] = ListsTurn(c[1 .. (i - 1)], secs[i])
    <3> HIDE DEF f
    <3> QED
      BY <1>6, <2>1
  <2>3. f[i] = c[1 .. i] /\ f[i - 1] = c[1 .. (i - 1)]
    BY <2>1
  <2> HIDE DEF f, Good
  <2> QED
    BY <2>2, <2>3
<1> HIDE DEF f, Good
<1> QED
  BY <1>6, <1>7, <1>8

SplitRow == [header : Seq(STRING), table : Seq(STRING), initials : Nat]

\* A turn leaves a split.
LEMMA SplitTurnIsTyped ==
  ASSUME NEW a \in SplitRow, NEW e \in STRING
  PROVE  SplitTurn(a, e) \in SplitRow
<1>1. /\ a = [header |-> a.header, table |-> a.table, initials |-> a.initials]
      /\ a.header \in Seq(STRING) /\ a.table \in Seq(STRING) /\ a.initials \in Nat
  BY DEF SplitRow
<1>2. Append(a.header, e) \in Seq(STRING) /\ Append(a.table, e) \in Seq(STRING)
  BY <1>1
<1>3. \A h \in Seq(STRING), k \in Nat : [a EXCEPT !.header = h, !.initials = k] \in SplitRow
  BY <1>1 DEF SplitRow
<1>4. [a EXCEPT !.table = Append(@, e)] \in SplitRow
  BY <1>1, <1>2 DEF SplitRow
<1> QED
  <2> DEFINE k == IF e = "initials" THEN a.initials + 1 ELSE a.initials
  <2>1. k \in Nat
    BY <1>1
  <2>2. [a EXCEPT !.header = Append(@, e), !.initials = IF e = "initials" THEN @ + 1 ELSE @]
          = [a EXCEPT !.header = Append(a.header, e), !.initials = k]
    BY <1>1
  <2> HIDE DEF k
  <2> QED
    BY <1>2, <1>3, <1>4, <2>1, <2>2 DEF SplitTurn

\* How the fields of a verification section are split.
LEMMA SplitUnfold ==
  ASSUME NEW fields \in Seq(STRING)
  PROVE  \E f : /\ f[0] = [header |-> <<>>, table |-> <<>>, initials |-> 0] /\ Digitized!Split(fields) = f[Len(fields)]
                /\ \A i \in 1 .. Len(fields) : f[i] = SplitTurn(f[i - 1], fields[i])
<1> DEFINE n == Len(fields)
           A == SplitRow
           turn == [p \in A \X (1 .. n) |-> SplitTurn(p[1], fields[p[2]])]
           Good(it) == it = [S \in SUBSET (1 .. n) |->
                               IF S = {} THEN [header |-> <<>>, table |-> <<>>, initials |-> 0]
                               ELSE SplitTurn(it[S \ {Digitized!Max(S)}], fields[Digitized!Max(S)])]
<1>1. n \in Nat /\ DOMAIN fields = 1 .. n /\ \A i \in 1 .. n : fields[i] \in STRING
  OBVIOUS
<1>2. turn \in [A \X (1 .. n) -> A] /\ [header |-> <<>>, table |-> <<>>, initials |-> 0] \in A
  <2>1. ASSUME NEW p \in A \X (1 .. n) PROVE SplitTurn(p[1], fields[p[2]]) \in A
    <3>1. p[1] \in A /\ fields[p[2]] \in STRING
      BY <1>1
    <3> QED
      BY <3>1, SplitTurnIsTyped
  <2>2. [header |-> <<>>, table |-> <<>>, initials |-> 0] \in A
    BY DEF SplitRow
  <2> HIDE DEF A
  <2> QED
    BY <2>1, <2>2
<1> HIDE DEF turn
<1>3. PICK it \in [SUBSET (1 .. n) -> A] : Turns([header |-> <<>>, table |-> <<>>, initials |-> 0], turn, n, it)
  <2> HIDE DEF A, n
  <2> QED
    BY <1>1, <1>2, TurnsAreThere
<1>4. Good(it)
  <2>1. ASSUME NEW S \in SUBSET (1 .. n), S # {}
        PROVE  it[S] = SplitTurn(it[S \ {Digitized!Max(S)}], fields[Digitized!Max(S)])
    <3> DEFINE m == Digitized!Max(S)
               a == it[S \ {m}]
    <3>1. m \in 1 .. n
      BY <1>1, <2>1, GreatestIsThere
    <3>2. it[S] = turn[<<a, m>>]
      BY <1>3, <2>1 DEF Turns
    <3> HIDE DEF m
    <3>3. a \in A
      <4>1. S \ {m} \in SUBSET (1 .. n)
        OBVIOUS
      <4> HIDE DEF A
      <4> QED
        BY <1>3, <4>1
    <3> HIDE DEF a, A
    <3>4. turn[<<a, m>>] = SplitTurn(a, fields[m])
      BY <3>1, <3>3 DEF turn
    <3> QED
      BY <3>2, <3>4 DEF a, m
  <2>2. it[{}] = [header |-> <<>>, table |-> <<>>, initials |-> 0]
    BY <1>3 DEF Turns
  <2>3. \A S \in SUBSET (1 .. n) :
          it[S] = IF S = {} THEN [header |-> <<>>, table |-> <<>>, initials |-> 0]
                  ELSE SplitTurn(it[S \ {Digitized!Max(S)}], fields[Digitized!Max(S)])
    BY <2>1, <2>2
  <2> HIDE DEF A
  <2> QED
    BY <1>3, <2>3
<1>5. Digitized!Split(fields) = (CHOOSE c : Good(c))[1 .. n]
  BY <1>1 DEF Digitized!Split, SplitTurn, Digitized!FoldLeft, Digitized!MapThenFoldSet
<1>6. PICK c : Good(c) /\ Digitized!Split(fields) = c[1 .. n]
  <2> HIDE DEF Good
  <2>1. Good(CHOOSE c : Good(c))
    BY <1>4
  <2> QED
    BY <1>5, <2>1
<1> DEFINE f == [i \in 0 .. n |-> c[1 .. i]]
<1>7. f[0] = [header |-> <<>>, table |-> <<>>, initials |-> 0] /\ f[n] = c[1 .. n]
  <2>1. 1 .. 0 = {} /\ 0 \in 0 .. n /\ n \in 0 .. n
    BY <1>1
  <2>2. c[{}] = [header |-> <<>>, table |-> <<>>, initials |-> 0]
    BY <1>6
  <2> HIDE DEF Good
  <2> QED
    BY <2>1, <2>2
<1>8. ASSUME NEW i \in 1 .. n PROVE f[i] = SplitTurn(f[i - 1], fields[i])
  <2>1. /\ 1 .. i \in SUBSET (1 .. n) /\ 1 .. i # {} /\ (1 .. i) \ {i} = 1 .. (i - 1)
        /\ Digitized!Max(1 .. i) = i /\ i - 1 \in 0 .. n
    BY <1>1, FirstPlaces
  <2>2. c[1 .. i] = SplitTurn(c[1 .. (i - 1)], fields[i])
    <3> HIDE DEF f
    <3> QED
      BY <1>6, <2>1
  <2>3. f[i] = c[1 .. i] /\ f[i - 1] = c[1 .. (i - 1)]
    BY <2>1
  <2> HIDE DEF f, Good
  <2> QED
    BY <2>2, <2>3
<1> HIDE DEF f, Good
<1> QED
  BY <1>6, <1>7, <1>8

\* A turn leaves columns.
LEMMA MergeTurnIsTyped ==
  ASSUME NEW known \in Seq(STRING), NEW a \in Seq(STRING), NEW e \in STRING
  PROVE  MergeTurn(known, a, e) \in Seq(STRING)
<1>1. Append(a, e) \in Seq(STRING)
  BY AppendProperties
<1> QED
  BY <1>1 DEF MergeTurn

\* How columns are merged.
LEMMA MergeUnfold ==
  ASSUME NEW known \in Seq(STRING), NEW existing \in Seq(STRING)
  PROVE  \E f : /\ f[0] = known /\ Digitized!MergeColumns(existing, known) = f[Len(existing)]
                /\ \A i \in 1 .. Len(existing) : f[i] = MergeTurn(known, f[i - 1], existing[i])
<1> DEFINE n == Len(existing)
           A == Seq(STRING)
           turn == [p \in A \X (1 .. n) |-> MergeTurn(known, p[1], existing[p[2]])]
           Good(it) == it = [S \in SUBSET (1 .. n) |->
                               IF S = {} THEN known
                               ELSE MergeTurn(known, it[S \ {Digitized!Max(S)}], existing[Digitized!Max(S)])]
<1>1. n \in Nat /\ DOMAIN existing = 1 .. n /\ \A i \in 1 .. n : existing[i] \in STRING
  OBVIOUS
<1>2. turn \in [A \X (1 .. n) -> A] /\ known \in A
  <2>1. ASSUME NEW p \in A \X (1 .. n) PROVE MergeTurn(known, p[1], existing[p[2]]) \in A
    <3>1. p[1] \in A /\ existing[p[2]] \in STRING
      BY <1>1
    <3> QED
      BY <3>1, MergeTurnIsTyped
  <2>2. known \in A
    OBVIOUS
  <2> HIDE DEF A
  <2> QED
    BY <2>1, <2>2
<1> HIDE DEF turn
<1>3. PICK it \in [SUBSET (1 .. n) -> A] : Turns(known, turn, n, it)
  <2> HIDE DEF A, n
  <2> QED
    BY <1>1, <1>2, TurnsAreThere
<1>4. Good(it)
  <2>1. ASSUME NEW S \in SUBSET (1 .. n), S # {}
        PROVE  it[S] = MergeTurn(known, it[S \ {Digitized!Max(S)}], existing[Digitized!Max(S)])
    <3> DEFINE m == Digitized!Max(S)
               a == it[S \ {m}]
    <3>1. m \in 1 .. n
      BY <1>1, <2>1, GreatestIsThere
    <3>2. it[S] = turn[<<a, m>>]
      BY <1>3, <2>1 DEF Turns
    <3> HIDE DEF m
    <3>3. a \in A
      <4>1. S \ {m} \in SUBSET (1 .. n)
        OBVIOUS
      <4> HIDE DEF A
      <4> QED
        BY <1>3, <4>1
    <3> HIDE DEF a, A
    <3>4. turn[<<a, m>>] = MergeTurn(known, a, existing[m])
      BY <3>1, <3>3 DEF turn
    <3> QED
      BY <3>2, <3>4 DEF a, m
  <2>2. it[{}] = known
    BY <1>3 DEF Turns
  <2>3. \A S \in SUBSET (1 .. n) :
          it[S] = IF S = {} THEN known
                  ELSE MergeTurn(known, it[S \ {Digitized!Max(S)}], existing[Digitized!Max(S)])
    BY <2>1, <2>2
  <2> HIDE DEF A
  <2> QED
    BY <1>3, <2>3
<1>5. Digitized!MergeColumns(existing, known) = (CHOOSE c : Good(c))[1 .. n]
  BY <1>1 DEF Digitized!MergeColumns, MergeTurn, Digitized!FoldLeft, Digitized!MapThenFoldSet
<1>6. PICK c : Good(c) /\ Digitized!MergeColumns(existing, known) = c[1 .. n]
  <2> HIDE DEF Good
  <2>1. Good(CHOOSE c : Good(c))
    BY <1>4
  <2> QED
    BY <1>5, <2>1
<1> DEFINE f == [i \in 0 .. n |-> c[1 .. i]]
<1>7. f[0] = known /\ f[n] = c[1 .. n]
  <2>1. 1 .. 0 = {} /\ 0 \in 0 .. n /\ n \in 0 .. n
    BY <1>1
  <2>2. c[{}] = known
    BY <1>6
  <2> HIDE DEF Good
  <2> QED
    BY <2>1, <2>2
<1>8. ASSUME NEW i \in 1 .. n PROVE f[i] = MergeTurn(known, f[i - 1], existing[i])
  <2>1. /\ 1 .. i \in SUBSET (1 .. n) /\ 1 .. i # {} /\ (1 .. i) \ {i} = 1 .. (i - 1)
        /\ Digitized!Max(1 .. i) = i /\ i - 1 \in 0 .. n
    BY <1>1, FirstPlaces
  <2>2. c[1 .. i] = MergeTurn(known, c[1 .. (i - 1)], existing[i])
    <3> HIDE DEF f
    <3> QED
      BY <1>6, <2>1
  <2>3. f[i] = c[1 .. i] /\ f[i - 1] = c[1 .. (i - 1)]
    BY <2>1
  <2> HIDE DEF f, Good
  <2> QED
    BY <2>2, <2>3
<1> HIDE DEF f, Good
<1> QED
  BY <1>6, <1>7, <1>8

GridRow == [blanks : Nat, grid : Seq(STRING)]

\* A turn leaves a grid.
LEMMA GridTurnIsTyped ==
  ASSUME NEW a \in GridRow, NEW e \in STRING
  PROVE  GridTurn(a, e) \in GridRow
<1>1. a = [blanks |-> a.blanks, grid |-> a.grid] /\ a.blanks \in Nat /\ a.grid \in Seq(STRING)
  BY DEF GridRow
<1>2. Append(a.grid, e) \in Seq(STRING)
  BY <1>1
<1>3. [a EXCEPT !.blanks = @ + 1] \in GridRow /\ [a EXCEPT !.grid = Append(@, e)] \in GridRow
  BY <1>1, <1>2 DEF GridRow
<1> QED
  BY <1>3 DEF GridTurn

\* How the grid of a verification section is found.
LEMMA GridUnfold ==
  ASSUME NEW fields \in Seq(STRING)
  PROVE  \E f : /\ f[0] = [blanks |-> 0, grid |-> <<>>] /\ Digitized!GridOf(fields) = f[Len(fields)].grid
                /\ \A i \in 1 .. Len(fields) : f[i] = GridTurn(f[i - 1], fields[i])
<1> DEFINE n == Len(fields)
           A == GridRow
           turn == [p \in A \X (1 .. n) |-> GridTurn(p[1], fields[p[2]])]
           Good(it) == it = [S \in SUBSET (1 .. n) |->
                               IF S = {} THEN [blanks |-> 0, grid |-> <<>>]
                               ELSE GridTurn(it[S \ {Digitized!Max(S)}], fields[Digitized!Max(S)])]
<1>1. n \in Nat /\ DOMAIN fields = 1 .. n /\ \A i \in 1 .. n : fields[i] \in STRING
  OBVIOUS
<1>2. turn \in [A \X (1 .. n) -> A] /\ [blanks |-> 0, grid |-> <<>>] \in A
  <2>1. ASSUME NEW p \in A \X (1 .. n) PROVE GridTurn(p[1], fields[p[2]]) \in A
    <3>1. p[1] \in A /\ fields[p[2]] \in STRING
      BY <1>1
    <3> QED
      BY <3>1, GridTurnIsTyped
  <2>2. [blanks |-> 0, grid |-> <<>>] \in A
    BY DEF GridRow
  <2> HIDE DEF A
  <2> QED
    BY <2>1, <2>2
<1> HIDE DEF turn
<1>3. PICK it \in [SUBSET (1 .. n) -> A] : Turns([blanks |-> 0, grid |-> <<>>], turn, n, it)
  <2> HIDE DEF A, n
  <2> QED
    BY <1>1, <1>2, TurnsAreThere
<1>4. Good(it)
  <2>1. ASSUME NEW S \in SUBSET (1 .. n), S # {}
        PROVE  it[S] = GridTurn(it[S \ {Digitized!Max(S)}], fields[Digitized!Max(S)])
    <3> DEFINE m == Digitized!Max(S)
               a == it[S \ {m}]
    <3>1. m \in 1 .. n
      BY <1>1, <2>1, GreatestIsThere
    <3>2. it[S] = turn[<<a, m>>]
      BY <1>3, <2>1 DEF Turns
    <3> HIDE DEF m
    <3>3. a \in A
      <4>1. S \ {m} \in SUBSET (1 .. n)
        OBVIOUS
      <4> HIDE DEF A
      <4> QED
        BY <1>3, <4>1
    <3> HIDE DEF a, A
    <3>4. turn[<<a, m>>] = GridTurn(a, fields[m])
      BY <3>1, <3>3 DEF turn
    <3> QED
      BY <3>2, <3>4 DEF a, m
  <2>2. it[{}] = [blanks |-> 0, grid |-> <<>>]
    BY <1>3 DEF Turns
  <2>3. \A S \in SUBSET (1 .. n) :
          it[S] = IF S = {} THEN [blanks |-> 0, grid |-> <<>>]
                  ELSE GridTurn(it[S \ {Digitized!Max(S)}], fields[Digitized!Max(S)])
    BY <2>1, <2>2
  <2> HIDE DEF A
  <2> QED
    BY <1>3, <2>3
<1>5. Digitized!GridOf(fields) = (CHOOSE c : Good(c))[1 .. n].grid
  BY <1>1 DEF Digitized!GridOf, GridTurn, Digitized!FoldLeft, Digitized!MapThenFoldSet
<1>6. PICK c : Good(c) /\ Digitized!GridOf(fields) = c[1 .. n].grid
  <2> HIDE DEF Good
  <2>1. Good(CHOOSE c : Good(c))
    BY <1>4
  <2> QED
    BY <1>5, <2>1
<1> DEFINE f == [i \in 0 .. n |-> c[1 .. i]]
<1>7. f[0] = [blanks |-> 0, grid |-> <<>>] /\ f[n] = c[1 .. n]
  <2>1. 1 .. 0 = {} /\ 0 \in 0 .. n /\ n \in 0 .. n
    BY <1>1
  <2>2. c[{}] = [blanks |-> 0, grid |-> <<>>]
    BY <1>6
  <2> HIDE DEF Good
  <2> QED
    BY <2>1, <2>2
<1>8. ASSUME NEW i \in 1 .. n PROVE f[i] = GridTurn(f[i - 1], fields[i])
  <2>1. /\ 1 .. i \in SUBSET (1 .. n) /\ 1 .. i # {} /\ (1 .. i) \ {i} = 1 .. (i - 1)
        /\ Digitized!Max(1 .. i) = i /\ i - 1 \in 0 .. n
    BY <1>1, FirstPlaces
  <2>2. c[1 .. i] = GridTurn(c[1 .. (i - 1)], fields[i])
    <3> HIDE DEF f
    <3> QED
      BY <1>6, <2>1
  <2>3. f[i] = c[1 .. i] /\ f[i - 1] = c[1 .. (i - 1)]
    BY <2>1
  <2> HIDE DEF f, Good
  <2> QED
    BY <2>2, <2>3
<1> HIDE DEF f, Good
<1> QED
  BY <1>6, <1>7, <1>8

\* The instance's cardinality is that of this module.
LEMMA DigitizedSets ==
  \A S : (Digitized!IsFiniteSet(S) <=> IsFiniteSet(S)) /\ Digitized!Cardinality(S) = Cardinality(S)
<1> SUFFICES ASSUME NEW S
             PROVE  (Digitized!IsFiniteSet(S) <=> IsFiniteSet(S)) /\ Digitized!Cardinality(S) = Cardinality(S)
  OBVIOUS
<1>1. Digitized!IsFiniteSet(S) <=> IsFiniteSet(S)
  BY DEF Digitized!IsFiniteSet, IsFiniteSet
<1>2. Digitized!Cardinality(S) = Cardinality(S)
  BY DEF Digitized!Cardinality, Cardinality
<1> QED
  BY <1>1, <1>2

\* The places of a label in a list.
PlacesOf(l, s) == {i \in DOMAIN s : s[i] = l}

\* How often a label is in a list is a number.
LEMMA TimesMean ==
  ASSUME NEW V, NEW s \in Seq(V), NEW l
  PROVE  /\ IsFiniteSet(PlacesOf(l, s)) /\ Digitized!Times(l, s) = Cardinality(PlacesOf(l, s))
         /\ Digitized!Times(l, s) \in Nat
<1>1. Len(s) \in Nat /\ DOMAIN s = 1 .. Len(s)
  OBVIOUS
<1>2. IsFiniteSet(1 .. Len(s))
  BY <1>1, FS_Interval
<1>3. PlacesOf(l, s) \in SUBSET (1 .. Len(s))
  BY <1>1 DEF PlacesOf
<1>4. IsFiniteSet(PlacesOf(l, s))
  BY <1>2, <1>3, FS_Subset
<1>5. Digitized!Times(l, s) = Cardinality(PlacesOf(l, s))
  BY DigitizedSets DEF Digitized!Times, PlacesOf
<1>6. Cardinality(PlacesOf(l, s)) \in Nat
  BY <1>4, FS_CardinalityType
<1> QED
  BY <1>4, <1>5, <1>6

\* A list with one element more.
LEMMA AppendIs ==
  ASSUME NEW S, NEW s \in Seq(S), NEW e \in S
  PROVE  /\ Append(s, e) \in Seq(S) /\ Len(s) \in Nat /\ DOMAIN s = 1 .. Len(s)
         /\ Len(Append(s, e)) = Len(s) + 1 /\ DOMAIN Append(s, e) = 1 .. (Len(s) + 1)
         /\ Append(s, e)[Len(s) + 1] = e /\ \A i \in 1 .. Len(s) : Append(s, e)[i] = s[i]
<1>1. Len(s) \in Nat /\ DOMAIN s = 1 .. Len(s)
  OBVIOUS
<1> QED
  BY <1>1

\* No label is in the empty list, and one label more in a list with one label more.
LEMMA TimesAppend ==
  ASSUME NEW V, NEW s \in Seq(V), NEW e \in V, NEW l
  PROVE  /\ Digitized!Times(l, <<>>) = 0
         /\ Digitized!Times(l, Append(s, e)) = Digitized!Times(l, s) + (IF e = l THEN 1 ELSE 0)
<1> DEFINE t == Append(s, e)
           n == Len(s)
<1>1. Digitized!Times(l, <<>>) = 0
  <2>1. PlacesOf(l, <<>>) = {} /\ <<>> \in Seq(V)
    BY DEF PlacesOf
  <2> QED
    BY <2>1, TimesMean, FS_EmptySet
<1>2. n \in Nat /\ DOMAIN s = 1 .. n /\ DOMAIN t = 1 .. (n + 1)
  BY AppendIs
<1>3. t \in Seq(V) /\ t[n + 1] = e /\ \A i \in 1 .. n : t[i] = s[i]
  BY AppendIs
<1> HIDE DEF t, n
<1>4. \A i : i \in PlacesOf(l, t) <=> i \in PlacesOf(l, s) \/ (i = n + 1 /\ e = l)
  BY <1>2, <1>3 DEF PlacesOf
<1>5. n + 1 \notin PlacesOf(l, s)
  BY <1>2 DEF PlacesOf
<1>6. CASE e = l
  <2>1. PlacesOf(l, t) = PlacesOf(l, s) \cup {n + 1}
    BY <1>4, <1>6
  <2>2. Cardinality(PlacesOf(l, t)) = Cardinality(PlacesOf(l, s)) + 1
    BY <1>5, <2>1, TimesMean, FS_AddElement
  <2> QED
    BY <1>1, <1>3, <1>6, <2>2, TimesMean DEF t
<1>7. CASE e # l
  <2>1. PlacesOf(l, t) = PlacesOf(l, s)
    BY <1>4, <1>7
  <2>2. Digitized!Times(l, t) = Digitized!Times(l, s) /\ Digitized!Times(l, s) \in Nat
    BY <1>3, <2>1, TimesMean
  <2> QED
    BY <1>1, <1>7, <2>2 DEF t
<1> QED
  BY <1>6, <1>7

\* A label is in two lists joined as often as in the one and in the other.
LEMMA TimesJoin ==
  ASSUME NEW V, NEW s \in Seq(V), NEW t \in Seq(V), NEW l
  PROVE  Digitized!Times(l, s \o t) = Digitized!Times(l, s) + Digitized!Times(l, t)
<1> DEFINE n == Len(s)
           m == Len(t)
           u == s \o t
           B == {i \in (n + 1) .. (n + m) : t[i - n] = l}
           move == [i \in PlacesOf(l, t) |-> n + i]
<1>1. n \in Nat /\ m \in Nat /\ DOMAIN s = 1 .. n /\ DOMAIN t = 1 .. m
  OBVIOUS
<1>2. /\ u \in Seq(V) /\ Len(u) = n + m
      /\ \A i \in 1 .. (n + m) : u[i] = IF i <= n THEN s[i] ELSE t[i - n]
  BY ConcatProperties
<1> HIDE DEF u, n, m
<1>3. DOMAIN u = 1 .. (n + m)
  BY <1>2
<1>4. PlacesOf(l, u) = PlacesOf(l, s) \cup B
  <2>1. ASSUME NEW i \in PlacesOf(l, u) PROVE i \in PlacesOf(l, s) \cup B
    <3>1. i \in 1 .. (n + m) /\ u[i] = l
      BY <1>3 DEF PlacesOf
    <3>2. CASE i <= n
      BY <1>1, <1>2, <3>1, <3>2 DEF PlacesOf
    <3>3. CASE ~(i <= n)
      BY <1>1, <1>2, <3>1, <3>3
    <3> QED
      BY <3>2, <3>3
  <2>2. ASSUME NEW i \in PlacesOf(l, s) PROVE i \in PlacesOf(l, u)
    BY <1>1, <1>2, <1>3 DEF PlacesOf
  <2>3. ASSUME NEW i \in B PROVE i \in PlacesOf(l, u)
    <3>1. i \in 1 .. (n + m) /\ ~(i <= n) /\ t[i - n] = l
      BY <1>1
    <3> QED
      BY <1>2, <1>3, <3>1 DEF PlacesOf
  <2> HIDE DEF B
  <2> QED
    BY <2>1, <2>2, <2>3
<1>5. move \in Bijection(PlacesOf(l, t), B)
  <2>1. \A i \in PlacesOf(l, t) : i \in 1 .. m /\ t[i] = l
    BY <1>1 DEF PlacesOf
  <2>2. \A i \in PlacesOf(l, t) : n + i \in B
    BY <1>1, <2>1
  <2>3. \A i, j \in PlacesOf(l, t) : n + i = n + j => i = j
    BY <1>1, <2>1
  <2>4. ASSUME NEW b \in B PROVE \E i \in PlacesOf(l, t) : n + i = b
    <3>1. b - n \in 1 .. m /\ t[b - n] = l /\ n + (b - n) = b
      BY <1>1
    <3> QED
      BY <1>1, <3>1 DEF PlacesOf
  <2> HIDE DEF B
  <2>5. move \in [PlacesOf(l, t) -> B] /\ \A i \in PlacesOf(l, t) : move[i] = n + i
    BY <2>2
  <2> HIDE DEF move
  <2> QED
    BY <2>3, <2>4, <2>5 DEF Bijection, Injection, Surjection, IsInjective
<1>6. IsFiniteSet(B) /\ Cardinality(B) = Cardinality(PlacesOf(l, t))
  <2> HIDE DEF B, move
  <2>1. ExistsBijection(PlacesOf(l, t), B)
    BY <1>5 DEF ExistsBijection
  <2> QED
    BY <2>1, TimesMean, FS_Bijection
<1>7. PlacesOf(l, s) \cap B = {}
  BY <1>1 DEF PlacesOf
<1> HIDE DEF B, move
<1>8. Cardinality(PlacesOf(l, u)) = Cardinality(PlacesOf(l, s)) + Cardinality(B)
  <2>1. Cardinality({}) = 0
    BY FS_EmptySet
  <2>2. IsFiniteSet(PlacesOf(l, s)) /\ Cardinality(PlacesOf(l, s)) \in Nat
    BY TimesMean
  <2>3. Cardinality(B) \in Nat
    BY <1>6, FS_CardinalityType
  <2>4. Cardinality(PlacesOf(l, s) \cup B)
          = Cardinality(PlacesOf(l, s)) + Cardinality(B) - Cardinality(PlacesOf(l, s) \cap B)
    BY <1>6, <2>2, FS_Union
  <2> DEFINE P == PlacesOf(l, s)
  <2>5. Cardinality(P \cap B) = 0
    BY <1>7, <2>1
  <2> HIDE DEF P
  <2>6. Cardinality(P \cup B) = Cardinality(P) + Cardinality(B)
    BY <2>2, <2>3, <2>4, <2>5 DEF P
  <2> QED
    BY <1>4, <2>6 DEF P
<1> QED
  BY <1>2, <1>6, <1>8, TimesMean DEF u

\* The first elements of a list.
FirstOf(s, i) == [j \in 1 .. i |-> s[j]]

\* Each next one is one more.
LEMMA FirstGrows ==
  ASSUME NEW V, NEW s \in Seq(V)
  PROVE  /\ FirstOf(s, 0) = <<>> /\ FirstOf(s, Len(s)) = s
         /\ \A i \in 1 .. Len(s) : /\ FirstOf(s, i - 1) \in Seq(V) /\ s[i] \in V
                                   /\ FirstOf(s, i) = Append(FirstOf(s, i - 1), s[i])
<1>1. FirstOf(s, 0) = <<>> /\ FirstOf(s, Len(s)) = s /\ DOMAIN s = 1 .. Len(s) /\ Len(s) \in Nat
  BY DEF FirstOf
<1>2. ASSUME NEW i \in 1 .. Len(s)
      PROVE  /\ FirstOf(s, i - 1) \in Seq(V) /\ s[i] \in V
             /\ FirstOf(s, i) = Append(FirstOf(s, i - 1), s[i])
  <2> DEFINE q == FirstOf(s, i - 1)
             t == Append(q, s[i])
  <2>1. i - 1 \in Nat /\ i \in Nat /\ 1 .. (i - 1) \subseteq 1 .. Len(s)
    BY <1>1
  <2>2. q \in Seq(V) /\ Len(q) = i - 1 /\ s[i] \in V /\ \A j \in 1 .. (i - 1) : q[j] = s[j]
    <3>1. \A j \in 1 .. Len(s) : s[j] \in V
      OBVIOUS
    <3>2. q \in [1 .. (i - 1) -> V]
      BY <2>1, <3>1 DEF FirstOf
    <3> HIDE DEF q
    <3>3. q \in Seq(V) /\ Len(q) = i - 1
      BY <2>1, <3>2
    <3>4. \A j \in 1 .. (i - 1) : q[j] = s[j]
      BY DEF q, FirstOf
    <3> QED
      BY <3>1, <3>3, <3>4
  <2> HIDE DEF q
  <2>3. /\ t \in Seq(V) /\ DOMAIN t = 1 .. i /\ t[i] = s[i]
        /\ \A j \in 1 .. (i - 1) : t[j] = s[j]
    <3>1. Len(q) + 1 = i
      BY <2>1, <2>2
    <3> QED
      BY <2>2, <3>1, AppendIs
  <2> HIDE DEF t
  <2>4. t = FirstOf(s, i)
    <3>1. \A j \in 1 .. i : t[j] = s[j]
      BY <2>1, <2>3
    <3>2. t = [j \in 1 .. i |-> t[j]]
      BY <2>3
    <3> QED
      BY <3>1, <3>2 DEF FirstOf
  <2> QED
    BY <2>2, <2>4 DEF q, t
<1> QED
  BY <1>1, <1>2

\* Two lists hold what one held.
Holds(s, a, b) ==
  /\ Len(a) + Len(b) = Len(s)
  /\ \A l : Digitized!Times(l, a) + Digitized!Times(l, b) = Digitized!Times(l, s)

\* A turn of the split puts one field more into one of its lists.
LEMMA SplitTurnHolds ==
  ASSUME NEW acc \in SplitRow, NEW s \in Seq(STRING), NEW e \in STRING, Holds(s, acc.header, acc.table)
  PROVE  Holds(Append(s, e), SplitTurn(acc, e).header, SplitTurn(acc, e).table)
<1> DEFINE h == acc.header
           t == acc.table
           r == SplitTurn(acc, e)
<1>1. h \in Seq(STRING) /\ t \in Seq(STRING)
  BY DEF SplitRow
<1>2. (r.header = Append(h, e) /\ r.table = t) \/ (r.header = h /\ r.table = Append(t, e))
  BY DEF SplitTurn, SplitRow
<1> HIDE DEF h, t, r
<1>3. /\ Len(Append(s, e)) = Len(s) + 1 /\ Len(Append(h, e)) = Len(h) + 1
      /\ Len(Append(t, e)) = Len(t) + 1 /\ Len(s) \in Nat /\ Len(h) \in Nat /\ Len(t) \in Nat
  BY <1>1, AppendIs
<1>4. Len(h) + Len(t) = Len(s)
  BY DEF Holds, h, t
<1>5. Len(r.header) + Len(r.table) = Len(Append(s, e))
  <2> DEFINE ns == Len(s)
             nh == Len(h)
             nt == Len(t)
             both == Len(r.header) + Len(r.table)
             more == Len(Append(s, e))
  <2>1. both = (nh + 1) + nt \/ both = nh + (nt + 1)
    BY <1>2, <1>3
  <2>2. ns \in Nat /\ nh \in Nat /\ nt \in Nat /\ nh + nt = ns /\ more = ns + 1
    BY <1>3, <1>4
  <2> HIDE DEF ns, nh, nt, both, more
  <2>3. both = more
    BY <2>1, <2>2
  <2> QED
    BY <2>3 DEF both, more
<1>6. ASSUME NEW l
      PROVE  Digitized!Times(l, r.header) + Digitized!Times(l, r.table) = Digitized!Times(l, Append(s, e))
  <2> DEFINE one == IF e = l THEN 1 ELSE 0
             ns == Digitized!Times(l, s)
             nh == Digitized!Times(l, h)
             nt == Digitized!Times(l, t)
  <2>1. /\ Digitized!Times(l, Append(s, e)) = ns + one
        /\ Digitized!Times(l, Append(h, e)) = nh + one
        /\ Digitized!Times(l, Append(t, e)) = nt + one
    BY <1>1, TimesAppend
  <2>2. ns \in Nat /\ nh \in Nat /\ nt \in Nat /\ one \in Nat
    BY <1>1, TimesMean
  <2>3. nh + nt = ns
    BY DEF Holds, h, t
  <2>4. \/ Digitized!Times(l, r.header) = nh + one /\ Digitized!Times(l, r.table) = nt
        \/ Digitized!Times(l, r.header) = nh /\ Digitized!Times(l, r.table) = nt + one
    <3>1. CASE r.header = Append(h, e) /\ r.table = t
      BY <2>1, <3>1
    <3>2. CASE r.header = h /\ r.table = Append(t, e)
      BY <2>1, <3>2
    <3> QED
      BY <1>2, <3>1, <3>2
  <2> HIDE DEF one, ns, nh, nt
  <2> QED
    BY <2>1, <2>2, <2>3, <2>4
<1> QED
  BY <1>5, <1>6 DEF Holds, r

\* Splitting loses no field and doubles none.
LEMMA SplitHolds ==
  ASSUME NEW fields \in Seq(STRING)
  PROVE  /\ Digitized!Split(fields) \in SplitRow
         /\ Holds(fields, Digitized!Split(fields).header, Digitized!Split(fields).table)
<1> DEFINE n == Len(fields)
<1>1. n \in Nat
  OBVIOUS
<1>2. PICK f : /\ f[0] = [header |-> <<>>, table |-> <<>>, initials |-> 0]
               /\ Digitized!Split(fields) = f[Len(fields)]
               /\ \A i \in 1 .. Len(fields) : f[i] = SplitTurn(f[i - 1], fields[i])
  BY SplitUnfold
<1> DEFINE Good(i) == f[i] \in SplitRow /\ Holds(FirstOf(fields, i), f[i].header, f[i].table)
           W == {i \in 0 .. n : ~Good(i)}
<1>3. SUFFICES ASSUME W # {} PROVE FALSE
  <2>1. n \in 0 .. n
    BY <1>1
  <2>2. W = {} => Good(n)
    BY <2>1
  <2>3. Good(n) => f[n] \in SplitRow /\ Holds(fields, f[n].header, f[n].table)
    BY FirstGrows
  <2> HIDE DEF W, Good
  <2> QED
    BY <1>2, <2>2, <2>3
<1>4. PICK i \in W : \A j \in W : i <= j
  <2>1. W \in SUBSET Nat
    OBVIOUS
  <2> HIDE DEF W
  <2> QED
    BY <1>3, <2>1, LeastIsThere
<1>5. Good(0)
  <2>1. f[0] \in SplitRow /\ f[0].header = <<>> /\ f[0].table = <<>> /\ FirstOf(fields, 0) = <<>>
    BY <1>2, FirstGrows DEF SplitRow
  <2>2. <<>> \in Seq(STRING) /\ Len(<<>>) = 0
    OBVIOUS
  <2>3. ASSUME NEW l PROVE Digitized!Times(l, <<>>) = 0
    <3>1. <<>> \in Seq({l}) /\ l \in {l}
      OBVIOUS
    <3> QED
      BY <3>1, TimesAppend
  <2> QED
    BY <2>1, <2>2, <2>3 DEF Holds
<1>6. i \in 1 .. n /\ i - 1 \in 0 .. n
  <2>1. i \in 0 .. n
    OBVIOUS
  <2>2. i # 0
    BY <1>5
  <2> QED
    BY <1>1, <2>1, <2>2
<1>7. i - 1 \notin W
  <2> HIDE DEF W
  <2> QED
    BY <1>4, <1>6
<1>8. Good(i - 1)
  BY <1>6, <1>7
<1>9. Good(i)
  <2>1. /\ f[i] = SplitTurn(f[i - 1], fields[i]) /\ fields[i] \in STRING
        /\ FirstOf(fields, i) = Append(FirstOf(fields, i - 1), fields[i])
        /\ FirstOf(fields, i - 1) \in Seq(STRING)
    BY <1>2, <1>6, FirstGrows
  <2>2. f[i] \in SplitRow
    BY <1>8, <2>1, SplitTurnIsTyped
  <2> QED
    BY <1>8, <2>1, <2>2, SplitTurnHolds
<1> QED
  BY <1>4, <1>9

\* A section holds what it held.
Kept(s, t) ==
  /\ Len(t.fields) + Len(t.columns) = Len(s.fields) + Len(s.columns)
  /\ \A l : Digitized!Times(l, t.fields) + Digitized!Times(l, t.columns)
            = Digitized!Times(l, s.fields) + Digitized!Times(l, s.columns)

\* A section whose fields become its columns, where it had none.
LEMMA AllColumnsKeep ==
  ASSUME NEW s \in Digitized!SectionRow, s.columns = <<>>
  PROVE  Digitized!AllColumns(s) \in Digitized!SectionRow /\ Kept(s, Digitized!AllColumns(s))
<1> DEFINE t == Digitized!AllColumns(s)
           q == s.fields
<1>1. /\ q \in Seq(STRING) /\ t \in Digitized!SectionRow
      /\ t.fields = <<>> /\ t.columns = q
  BY DEF Digitized!SectionRow, Digitized!AllColumns
<1> HIDE DEF t
<1>2. Len(q) \in Nat /\ Len(<<>>) = 0
  BY <1>1
<1>3. \A l : Digitized!Times(l, q) \in Nat /\ Digitized!Times(l, <<>>) = 0
  <2>1. ASSUME NEW l PROVE Digitized!Times(l, q) \in Nat
    BY <1>1, TimesMean
  <2>2. ASSUME NEW l PROVE Digitized!Times(l, <<>>) = 0
    <3>1. <<>> \in Seq({l}) /\ l \in {l}
      OBVIOUS
    <3> QED
      BY <3>1, TimesAppend
  <2> QED
    BY <2>1, <2>2
<1>4. Len(t.fields) + Len(t.columns) = Len(s.fields) + Len(s.columns)
  BY <1>1, <1>2
<1>5. ASSUME NEW l
      PROVE  Digitized!Times(l, t.fields) + Digitized!Times(l, t.columns)
             = Digitized!Times(l, s.fields) + Digitized!Times(l, s.columns)
  <2>1. Digitized!Times(l, q) \in Nat /\ Digitized!Times(l, <<>>) = 0
    BY <1>3
  <2>2. Digitized!Times(l, t.fields) = 0 /\ Digitized!Times(l, s.columns) = 0
    BY <1>1, <2>1
  <2>3. Digitized!Times(l, t.columns) = Digitized!Times(l, q)
    BY <1>1
  <2> QED
    BY <2>1, <2>2, <2>3
<1> QED
  BY <1>1, <1>4, <1>5 DEF Kept, t

\* A section whose fields are split, behind the columns it had.
LEMMA SplitSectionKeeps ==
  ASSUME NEW s \in Digitized!SectionRow
  PROVE  Digitized!SplitSection(s) \in Digitized!SectionRow /\ Kept(s, Digitized!SplitSection(s))
<1> DEFINE t == Digitized!SplitSection(s)
           q == s.fields
           c == s.columns
           h == Digitized!Split(q).header
           b == Digitized!Split(q).table
<1>1. q \in Seq(STRING) /\ c \in Seq(STRING)
  BY DEF Digitized!SectionRow
<1>2. h \in Seq(STRING) /\ b \in Seq(STRING) /\ Holds(q, h, b)
  BY <1>1, SplitHolds DEF SplitRow
<1>3. c \o b \in Seq(STRING) /\ Len(c \o b) = Len(c) + Len(b)
  BY <1>1, <1>2, ConcatProperties
<1>4. t \in Digitized!SectionRow /\ t.fields = h /\ t.columns = c \o b
  <2> HIDE DEF h, b
  <2>1. t = [s EXCEPT !.fields = h, !.columns = c \o b]
    BY DEF Digitized!SplitSection, h, b
  <2> HIDE DEF t
  <2> QED
    BY <1>1, <1>2, <1>3, <2>1 DEF Digitized!SectionRow
<1> HIDE DEF t, h, b
<1>5. Len(t.fields) + Len(t.columns) = Len(s.fields) + Len(s.columns)
  <2> DEFINE nq == Len(q)
             nc == Len(c)
             nh == Len(h)
             nb == Len(b)
             both == Len(t.fields) + Len(t.columns)
             held == Len(s.fields) + Len(s.columns)
  <2>1. both = nh + (nc + nb) /\ held = nq + nc
    BY <1>3, <1>4
  <2>2. nq \in Nat /\ nc \in Nat /\ nh \in Nat /\ nb \in Nat /\ nh + nb = nq
    BY <1>1, <1>2 DEF Holds
  <2> HIDE DEF nq, nc, nh, nb, both, held
  <2>3. both = held
    BY <2>1, <2>2
  <2> QED
    BY <2>3 DEF both, held
<1>6. ASSUME NEW l
      PROVE  Digitized!Times(l, t.fields) + Digitized!Times(l, t.columns)
             = Digitized!Times(l, s.fields) + Digitized!Times(l, s.columns)
  <2> DEFINE nq == Digitized!Times(l, q)
             nc == Digitized!Times(l, c)
             nh == Digitized!Times(l, h)
             nb == Digitized!Times(l, b)
             both == Digitized!Times(l, t.fields) + Digitized!Times(l, t.columns)
             held == Digitized!Times(l, s.fields) + Digitized!Times(l, s.columns)
  <2>1. both = nh + (nc + nb) /\ held = nq + nc
    <3>1. Digitized!Times(l, c \o b) = nc + nb
      BY <1>1, <1>2, TimesJoin
    <3> QED
      BY <1>4, <3>1
  <2>2. nq \in Nat /\ nc \in Nat /\ nh \in Nat /\ nb \in Nat /\ nh + nb = nq
    BY <1>1, <1>2, TimesMean DEF Holds
  <2> HIDE DEF nq, nc, nh, nb, both, held
  <2>3. both = held
    BY <2>1, <2>2
  <2> QED
    BY <2>3 DEF both, held
<1> QED
  BY <1>4, <1>5, <1>6 DEF Kept, t

\* Whatever becomes of a section, it holds what it held.
LEMMA CoerceKeeps ==
  ASSUME NEW s \in Digitized!SectionRow, NEW count
  PROVE  Digitized!Coerce(s, count) \in Digitized!SectionRow /\ Kept(s, Digitized!Coerce(s, count))
<1>1. \/ Digitized!Coerce(s, count) = s \/ Digitized!Coerce(s, count) = Digitized!SplitSection(s)
      \/ s.columns = <<>> /\ Digitized!Coerce(s, count) = Digitized!AllColumns(s)
  BY DEF Digitized!Coerce
<1>2. Kept(s, s)
  BY DEF Kept
<1> QED
  BY <1>1, <1>2, AllColumnsKeep, SplitSectionKeeps

\* What a section adds to the labels of a form.
LEMMA LabelsTurnAdds ==
  ASSUME NEW a \in Seq(STRING), NEW s \in Digitized!SectionRow
  PROVE  /\ LabelsTurn(a, s) \in Seq(STRING)
         /\ Len(LabelsTurn(a, s)) = Len(a) + (Len(s.fields) + Len(s.columns))
         /\ \A l : Digitized!Times(l, LabelsTurn(a, s))
                   = Digitized!Times(l, a)
                     + (Digitized!Times(l, s.fields) + Digitized!Times(l, s.columns))
<1> DEFINE q == s.fields
           c == s.columns
           d == a \o q
<1>1. q \in Seq(STRING) /\ c \in Seq(STRING)
  BY DEF Digitized!SectionRow
<1> HIDE DEF q, c
<1>2. d \in Seq(STRING) /\ Len(d) = Len(a) + Len(q)
  BY <1>1, ConcatProperties
<1>3. d \o c \in Seq(STRING) /\ Len(d \o c) = Len(d) + Len(c)
  <2> HIDE DEF d
  <2> QED
    BY <1>1, <1>2, ConcatProperties
<1>4. LabelsTurn(a, s) = d \o c
  BY DEF LabelsTurn, q, c
<1>5. ASSUME NEW l
      PROVE  Digitized!Times(l, d \o c)
             = Digitized!Times(l, a) + (Digitized!Times(l, q) + Digitized!Times(l, c))
  <2>1. Digitized!Times(l, d) = Digitized!Times(l, a) + Digitized!Times(l, q)
    BY <1>1, TimesJoin
  <2> HIDE DEF d
  <2>2. Digitized!Times(l, d \o c) = Digitized!Times(l, d) + Digitized!Times(l, c)
    BY <1>1, <1>2, TimesJoin
  <2>3. /\ Digitized!Times(l, a) \in Nat /\ Digitized!Times(l, q) \in Nat
        /\ Digitized!Times(l, c) \in Nat
    BY <1>1, TimesMean
  <2> QED
    BY <2>1, <2>2, <2>3
<1>6. Len(d \o c) = Len(a) + (Len(q) + Len(c))
  <2>1. Len(a) \in Nat /\ Len(q) \in Nat /\ Len(c) \in Nat
    BY <1>1
  <2> HIDE DEF d
  <2> QED
    BY <1>2, <1>3, <2>1
<1> HIDE DEF d
<1> QED
  BY <1>3, <1>4, <1>5, <1>6 DEF q, c

\* Sections that each hold what they held make a form that does.
LEMMA LabelsHold ==
  ASSUME NEW old \in Seq(Digitized!SectionRow), NEW new \in Seq(Digitized!SectionRow),
         Len(new) = Len(old), \A i \in 1 .. Len(old) : Kept(old[i], new[i])
  PROVE  /\ Len(Digitized!Labels(new)) = Len(Digitized!Labels(old))
         /\ \A l : Digitized!Times(l, Digitized!Labels(new)) = Digitized!Times(l, Digitized!Labels(old))
<1> DEFINE n == Len(old)
<1>1. /\ n \in Nat /\ \A i \in 1 .. n : /\ old[i] \in Digitized!SectionRow
                                        /\ new[i] \in Digitized!SectionRow /\ Kept(old[i], new[i])
  OBVIOUS
<1>2. PICK f : /\ f[0] = <<>> /\ Digitized!Labels(old) = f[n]
               /\ \A i \in 1 .. n : f[i] = LabelsTurn(f[i - 1], old[i])
  BY LabelsUnfold
<1>3. PICK g : /\ g[0] = <<>> /\ Digitized!Labels(new) = g[n]
               /\ \A i \in 1 .. n : g[i] = LabelsTurn(g[i - 1], new[i])
  BY LabelsUnfold
<1> DEFINE Good(i) == /\ f[i] \in Seq(STRING) /\ g[i] \in Seq(STRING) /\ Len(g[i]) = Len(f[i])
                      /\ \A l : Digitized!Times(l, g[i]) = Digitized!Times(l, f[i])
           W == {i \in 0 .. n : ~Good(i)}
<1> HIDE DEF n
<1>4. SUFFICES ASSUME W # {} PROVE FALSE
  <2>1. n \in 0 .. n
    BY <1>1
  <2>2. W = {} => Good(n)
    BY <2>1
  <2> HIDE DEF W
  <2> QED
    BY <1>2, <1>3, <2>2
<1>5. PICK i \in W : \A j \in W : i <= j
  <2>1. W \in SUBSET Nat
    OBVIOUS
  <2> HIDE DEF W
  <2> QED
    BY <1>4, <2>1, LeastIsThere
<1>6. Good(0)
  BY <1>2, <1>3
<1>7. i \in 1 .. n /\ i - 1 \in 0 .. n
  <2>1. i \in 0 .. n
    OBVIOUS
  <2>2. i # 0
    BY <1>6
  <2> QED
    BY <1>1, <2>1, <2>2
<1>8. i - 1 \notin W
  <2> HIDE DEF W
  <2> QED
    BY <1>5, <1>7
<1>9. Good(i - 1)
  BY <1>7, <1>8
<1>10. Good(i)
  <2> DEFINE a == f[i - 1]
             b == g[i - 1]
             s == old[i]
             t == new[i]
  <2>1. /\ f[i] = LabelsTurn(a, s) /\ g[i] = LabelsTurn(b, t)
        /\ s \in Digitized!SectionRow /\ t \in Digitized!SectionRow /\ Kept(s, t)
    BY <1>1, <1>2, <1>3, <1>7
  <2>2. /\ a \in Seq(STRING) /\ b \in Seq(STRING) /\ Len(b) = Len(a)
        /\ \A l : Digitized!Times(l, b) = Digitized!Times(l, a)
    BY <1>9
  <2> HIDE DEF a, b, s, t
  <2>3. /\ f[i] \in Seq(STRING) /\ g[i] \in Seq(STRING)
        /\ Len(f[i]) = Len(a) + (Len(s.fields) + Len(s.columns))
        /\ Len(g[i]) = Len(b) + (Len(t.fields) + Len(t.columns))
    BY <2>1, <2>2, LabelsTurnAdds
  <2>4. Len(g[i]) = Len(f[i])
    BY <2>1, <2>2, <2>3 DEF Kept
  <2>5. ASSUME NEW l PROVE Digitized!Times(l, g[i]) = Digitized!Times(l, f[i])
    <3>1. Digitized!Times(l, LabelsTurn(a, s)) = Digitized!Times(l, a)
            + (Digitized!Times(l, s.fields) + Digitized!Times(l, s.columns))
      BY <2>1, <2>2, LabelsTurnAdds
    <3>2. Digitized!Times(l, LabelsTurn(b, t)) = Digitized!Times(l, b)
            + (Digitized!Times(l, t.fields) + Digitized!Times(l, t.columns))
      BY <2>1, <2>2, LabelsTurnAdds
    <3> QED
      BY <2>1, <2>2, <3>1, <3>2 DEF Kept
  <2> QED
    BY <2>3, <2>4, <2>5
<1> QED
  BY <1>5, <1>10

\* What is made of the sections the model returned.
LEMMA NormalizeKeeps ==
  ASSUME NEW secs \in Seq(Digitized!SectionRow)
  PROVE  LET d == Digitized!Normalize(secs)
         IN  /\ d \in [type : {"standard", "repeating"}, sections : Seq(Digitized!SectionRow)]
             /\ Len(Digitized!Labels(d.sections)) = Len(Digitized!Labels(secs))
             /\ \A l : Digitized!Times(l, Digitized!Labels(d.sections))
                       = Digitized!Times(l, Digitized!Labels(secs))
<1> DEFINE d == Digitized!Normalize(secs)
           n == Len(secs)
           coerced == [i \in DOMAIN secs |-> Digitized!Coerce(secs[i], n)]
<1>1. n \in Nat /\ DOMAIN secs = 1 .. n /\ \A i \in 1 .. n : secs[i] \in Digitized!SectionRow
  OBVIOUS
<1>2. d.type \in {"standard", "repeating"} /\ d.sections = coerced
      /\ d = [type |-> d.type, sections |-> d.sections]
  BY DEF Digitized!Normalize
<1> HIDE DEF d, n
<1>3. \A i \in 1 .. n : /\ coerced[i] \in Digitized!SectionRow /\ Kept(secs[i], coerced[i])
  BY <1>1, CoerceKeeps
<1>4. coerced \in [1 .. n -> Digitized!SectionRow]
  BY <1>1, <1>3
<1> HIDE DEF coerced
<1>5. coerced \in Seq(Digitized!SectionRow) /\ Len(coerced) = n
  BY <1>1, <1>4
<1>6. /\ Len(Digitized!Labels(coerced)) = Len(Digitized!Labels(secs))
      /\ \A l : Digitized!Times(l, Digitized!Labels(coerced))
                = Digitized!Times(l, Digitized!Labels(secs))
  BY <1>3, <1>5, LabelsHold DEF n
<1> QED
  BY <1>2, <1>5, <1>6 DEF d

\* What holds at the start and carries over from place to place holds at all of them.
LEMMA PlaceByPlace ==
  ASSUME NEW n \in Nat, NEW G, 0 \in G, \A i \in 1 .. n : i - 1 \in G => i \in G
  PROVE  \A i \in 0 .. n : i \in G
<1> DEFINE W == {i \in 0 .. n : i \notin G}
<1>1. SUFFICES ASSUME W # {} PROVE FALSE
  OBVIOUS
<1>2. PICK i \in W : \A j \in W : i <= j
  <2>1. W \in SUBSET Nat
    OBVIOUS
  <2> HIDE DEF W
  <2> QED
    BY <1>1, <2>1, LeastIsThere
<1>3. i \in 1 .. n /\ i - 1 \in 0 .. n
  <2>1. i \in 0 .. n /\ i \notin G
    OBVIOUS
  <2> QED
    BY <2>1
<1>4. i - 1 \notin W
  <2> HIDE DEF W
  <2> QED
    BY <1>2, <1>3
<1>5. i - 1 \in G
  BY <1>3, <1>4
<1> QED
  BY <1>3, <1>5

\* Merged columns are columns.
LEMMA MergeIsTyped ==
  ASSUME NEW known \in Seq(STRING), NEW existing \in Seq(STRING)
  PROVE  Digitized!MergeColumns(existing, known) \in Seq(STRING)
<1> DEFINE n == Len(existing)
<1>1. n \in Nat /\ \A i \in 1 .. n : existing[i] \in STRING
  OBVIOUS
<1>2. PICK f : /\ f[0] = known /\ Digitized!MergeColumns(existing, known) = f[n]
               /\ \A i \in 1 .. n : f[i] = MergeTurn(known, f[i - 1], existing[i])
  BY MergeUnfold
<1> HIDE DEF n
<1> DEFINE G == {i \in 0 .. n : f[i] \in Seq(STRING)}
<1>3. 0 \in G
  BY <1>1, <1>2
<1>4. ASSUME NEW i \in 1 .. n, i - 1 \in G PROVE i \in G
  <2>1. f[i - 1] \in Seq(STRING) /\ i \in 0 .. n
    BY <1>1, <1>4
  <2>2. MergeTurn(known, f[i - 1], existing[i]) \in Seq(STRING)
    BY <1>1, <2>1, MergeTurnIsTyped
  <2> QED
    BY <1>2, <2>1, <2>2
<1>5. n \in G
  <2>1. n \in 0 .. n
    BY <1>1
  <2> HIDE DEF G
  <2> QED
    BY <1>1, <1>3, <1>4, <2>1, PlaceByPlace
<1> QED
  BY <1>2, <1>5

\* The grid found among the fields is columns.
LEMMA GridIsTyped ==
  ASSUME NEW fields \in Seq(STRING)
  PROVE  Digitized!GridOf(fields) \in Seq(STRING)
<1> DEFINE n == Len(fields)
<1>1. n \in Nat /\ \A i \in 1 .. n : fields[i] \in STRING
  OBVIOUS
<1>2. PICK f : /\ f[0] = [blanks |-> 0, grid |-> <<>>] /\ Digitized!GridOf(fields) = f[n].grid
               /\ \A i \in 1 .. n : f[i] = GridTurn(f[i - 1], fields[i])
  BY GridUnfold
<1> HIDE DEF n
<1> DEFINE G == {i \in 0 .. n : f[i] \in GridRow}
<1>3. 0 \in G
  <2>1. [blanks |-> 0, grid |-> <<>>] \in GridRow
    <3>1. <<>> \in Seq(STRING)
      OBVIOUS
    <3> QED
      BY <3>1 DEF GridRow
  <2>2. 0 \in 0 .. n
    BY <1>1
  <2> QED
    BY <1>2, <2>1, <2>2
<1>4. ASSUME NEW i \in 1 .. n, i - 1 \in G PROVE i \in G
  <2>1. f[i - 1] \in GridRow /\ i \in 0 .. n
    BY <1>1, <1>4
  <2>2. GridTurn(f[i - 1], fields[i]) \in GridRow
    BY <1>1, <2>1, GridTurnIsTyped
  <2> QED
    BY <1>2, <2>1, <2>2
<1>5. n \in G
  <2>1. n \in 0 .. n
    BY <1>1
  <2> HIDE DEF G
  <2> QED
    BY <1>1, <1>3, <1>4, <2>1, PlaceByPlace
<1> QED
  BY <1>2, <1>5 DEF GridRow

\* A section of columns is one.
LEMMA SectionIsTyped ==
  ASSUME NEW title \in Digitized!Title, NEW fields \in Seq(STRING), NEW columns \in Seq(STRING)
  PROVE  /\ Digitized!Section(title, fields, columns) \in Digitized!SectionRow
         /\ Digitized!Section(title, <<>>, columns) \in Digitized!SectionRow
<1>1. <<>> \in Seq(STRING)
  OBVIOUS
<1> QED
  BY <1>1 DEF Digitized!Section, Digitized!SectionRow

\* One section replaced, or one more, leaves sections.
LEMMA SectionReplaced ==
  ASSUME NEW R, NEW secs \in Seq(R), NEW s \in R
  PROVE  /\ \A at \in DOMAIN secs : [secs EXCEPT ![at] = s] \in Seq(R) /\ secs[at] \in R
         /\ Append(secs, s) \in Seq(R) /\ <<s>> \o secs \in Seq(R)
<1>1. <<s>> \in Seq(R)
  OBVIOUS
<1>2. <<s>> \o secs \in Seq(R)
  BY <1>1, ConcatProperties
<1> QED
  BY <1>2

\* Rebuilt columns are columns, and so is a grid.
LEMMA RebuiltIsTyped ==
  ASSUME NEW s \in Digitized!SectionRow, NEW atLeast, NEW below, NEW known \in Seq(STRING)
  PROVE  /\ Digitized!Rebuilt(Digitized!Grid(s, atLeast), known, below) \in Seq(STRING)
         /\ s.title \in Digitized!Title /\ s.fields \in Seq(STRING) /\ s.columns \in Seq(STRING)
<1> DEFINE g == Digitized!Grid(s, atLeast)
<1>1. s.title \in Digitized!Title /\ s.fields \in Seq(STRING) /\ s.columns \in Seq(STRING)
  BY DEF Digitized!SectionRow
<1>2. g \in Seq(STRING)
  BY <1>1 DEF Digitized!Grid
<1> HIDE DEF g
<1>3. Digitized!MergeColumns(g, known) \in Seq(STRING)
  BY <1>2, MergeIsTyped
<1> QED
  BY <1>1, <1>3 DEF Digitized!Rebuilt, g

\* A section found by its title is there.
LEMMA FirstTitledIsThere ==
  ASSUME NEW secs \in Seq(Digitized!SectionRow), NEW title
  PROVE  Digitized!FirstTitled(secs, title) = 0 \/ Digitized!FirstTitled(secs, title) \in DOMAIN secs
<1> DEFINE with == {i \in DOMAIN secs : secs[i].title = title}
<1>1. with \in SUBSET Nat /\ with \in SUBSET (DOMAIN secs)
  OBVIOUS
<1>2. Digitized!FirstTitled(secs, title)
        = IF with = {} THEN 0 ELSE CHOOSE i \in with : \A j \in with : i <= j
  BY DEF Digitized!FirstTitled
<1> HIDE DEF with
<1>3. CASE with # {}
  <2>1. \E i \in with : \A j \in with : i <= j
    BY <1>1, <1>3, LeastIsThere
  <2>2. (CHOOSE i \in with : \A j \in with : i <= j) \in with
    BY <2>1
  <2> QED
    BY <1>1, <1>2, <1>3, <2>2
<1> QED
  BY <1>2, <1>3

\* The repair of the monitoring section leaves sections.
LEMMA MonitoringIsTyped ==
  ASSUME NEW secs \in Seq(Digitized!SectionRow), Digitized!FormSchemaConstants
  PROVE  Digitized!RepairMonitoring(secs) \in Seq(Digitized!SectionRow)
<1> DEFINE best == {i \in DOMAIN secs : Digitized!Score(secs[i]) > 0 /\
                      \A j \in DOMAIN secs : Digitized!Score(secs[j]) <= Digitized!Score(secs[i])}
           at == CHOOSE i \in best : \A j \in best : i <= j
<1>1. best \in SUBSET Nat /\ best \in SUBSET (DOMAIN secs)
  OBVIOUS
<1>2. Monitoring \in Seq(STRING)
  BY DEF Digitized!FormSchemaConstants
<1>3. Digitized!RepairMonitoring(secs) =
        IF best = {} THEN <<Digitized!Section("none", <<>>, Monitoring)>> \o secs
        ELSE [secs EXCEPT ![at] =
                Digitized!Section(secs[at].title, <<>>,
                  Digitized!Rebuilt(Digitized!Grid(secs[at], 3), Monitoring, RebuildMonitoring))]
  BY DEF Digitized!RepairMonitoring
<1> HIDE DEF best
<1>4. CASE best = {}
  <2>1. Digitized!Section("none", <<>>, Monitoring) \in Digitized!SectionRow
    <3>1. "none" \in Digitized!Title
      BY DEF Digitized!Title
    <3> QED
      BY <1>2, <3>1, SectionIsTyped
  <2> QED
    BY <1>3, <1>4, <2>1, SectionReplaced
<1>5. CASE best # {}
  <2>1. \E i \in best : \A j \in best : i <= j
    BY <1>1, <1>5, LeastIsThere
  <2>2. at \in DOMAIN secs
    BY <1>1, <2>1
  <2> HIDE DEF at
  <2>3. secs[at] \in Digitized!SectionRow /\ <<>> \in Seq(STRING)
    BY <2>2
  <2>4. /\ secs[at].title \in Digitized!Title
        /\ Digitized!Rebuilt(Digitized!Grid(secs[at], 3), Monitoring, RebuildMonitoring) \in Seq(STRING)
    BY <1>2, <2>3, RebuiltIsTyped
  <2> DEFINE columns == Digitized!Rebuilt(Digitized!Grid(secs[at], 3), Monitoring, RebuildMonitoring)
  <2> HIDE DEF columns
  <2>5. Digitized!Section(secs[at].title, <<>>, columns) \in Digitized!SectionRow
    BY <2>3, <2>4, SectionIsTyped DEF columns
  <2> QED
    BY <1>3, <1>5, <2>2, <2>5, SectionReplaced DEF columns
<1> QED
  BY <1>4, <1>5

\* The repair of the deviations leaves sections.
LEMMA DeviationsAreTyped ==
  ASSUME NEW secs \in Seq(Digitized!SectionRow), Digitized!FormSchemaConstants
  PROVE  Digitized!EnsureDeviations(secs) \in Seq(Digitized!SectionRow)
<1> DEFINE at == Digitized!FirstTitled(secs, "deviation")
<1>1. at = 0 \/ at \in DOMAIN secs
  BY FirstTitledIsThere
<1>2. Deviations \in Seq(STRING)
  BY DEF Digitized!FormSchemaConstants
<1>3. Digitized!EnsureDeviations(secs) =
        IF at = 0 THEN Append(secs, Digitized!Section("deviation", <<>>, Deviations))
        ELSE [secs EXCEPT ![at] =
                Digitized!Section(secs[at].title, <<>>,
                  Digitized!Rebuilt(Digitized!Grid(secs[at], 2), Deviations, RebuildDeviations))]
  BY DEF Digitized!EnsureDeviations
<1> HIDE DEF at
<1>4. CASE at = 0
  <2>1. Digitized!Section("deviation", <<>>, Deviations) \in Digitized!SectionRow
    <3>1. "deviation" \in Digitized!Title
      BY DEF Digitized!Title
    <3> QED
      BY <1>2, <3>1, SectionIsTyped
  <2> QED
    BY <1>3, <1>4, <2>1, SectionReplaced
<1>5. CASE at # 0
  <2>1. at \in DOMAIN secs
    BY <1>1, <1>5
  <2>2. secs[at] \in Digitized!SectionRow /\ <<>> \in Seq(STRING)
    BY <2>1
  <2>3. /\ secs[at].title \in Digitized!Title
        /\ Digitized!Rebuilt(Digitized!Grid(secs[at], 2), Deviations, RebuildDeviations) \in Seq(STRING)
    BY <1>2, <2>2, RebuiltIsTyped
  <2> DEFINE columns == Digitized!Rebuilt(Digitized!Grid(secs[at], 2), Deviations, RebuildDeviations)
  <2> HIDE DEF columns
  <2>4. Digitized!Section(secs[at].title, <<>>, columns) \in Digitized!SectionRow
    BY <2>2, <2>3, SectionIsTyped DEF columns
  <2> QED
    BY <1>3, <1>5, <2>1, <2>4, SectionReplaced DEF columns
<1> QED
  BY <1>4, <1>5

\* The repair of the verification leaves sections.
LEMMA VerificationIsTyped ==
  ASSUME NEW secs \in Seq(Digitized!SectionRow), Digitized!FormSchemaConstants
  PROVE  Digitized!EnsureVerification(secs) \in Seq(Digitized!SectionRow)
<1> DEFINE at == Digitized!FirstTitled(secs, "verification")
           s == secs[at]
           columns == IF s.columns = <<>> /\ Len(s.fields) >= 3 THEN Digitized!GridOf(s.fields)
                      ELSE s.columns
<1>1. at = 0 \/ at \in DOMAIN secs
  BY FirstTitledIsThere
<1>2. VerificationFields \in Seq(STRING) /\ VerificationColumns \in Seq(STRING)
  BY DEF Digitized!FormSchemaConstants
<1>3. Digitized!EnsureVerification(secs) =
        IF at = 0
        THEN Append(secs, Digitized!Section("verification", VerificationFields, VerificationColumns))
        ELSE [secs EXCEPT ![at] =
                Digitized!Section("verification", VerificationFields,
                                  Digitized!MergeColumns(columns, VerificationColumns))]
  BY DEF Digitized!EnsureVerification
<1> HIDE DEF at
<1>4. CASE at = 0
  <2>1. Digitized!Section("verification", VerificationFields, VerificationColumns) \in Digitized!SectionRow
    <3>1. "verification" \in Digitized!Title
      BY DEF Digitized!Title
    <3> QED
      BY <1>2, <3>1, SectionIsTyped
  <2> HIDE DEF columns
  <2> QED
    BY <1>3, <1>4, <2>1, SectionReplaced
<1>5. CASE at # 0
  <2>1. at \in DOMAIN secs
    BY <1>1, <1>5
  <2>2. s \in Digitized!SectionRow
    BY <2>1
  <2> HIDE DEF s
  <2>3. s.fields \in Seq(STRING) /\ s.columns \in Seq(STRING)
    BY <2>2 DEF Digitized!SectionRow
  <2>4. columns \in Seq(STRING)
    BY <2>3, GridIsTyped
  <2> HIDE DEF columns
  <2>5. Digitized!MergeColumns(columns, VerificationColumns) \in Seq(STRING)
    BY <1>2, <2>4, MergeIsTyped
  <2> DEFINE merged == Digitized!MergeColumns(columns, VerificationColumns)
  <2> HIDE DEF merged
  <2>6. Digitized!Section("verification", VerificationFields, merged) \in Digitized!SectionRow
    <3>1. "verification" \in Digitized!Title
      BY DEF Digitized!Title
    <3> QED
      BY <1>2, <2>5, <3>1, SectionIsTyped DEF merged
  <2> QED
    BY <1>3, <1>5, <2>1, <2>6, SectionReplaced DEF merged
<1> QED
  BY <1>4, <1>5

\* What a draft is made of.
DraftRow == [type : {"standard", "repeating"}, sections : Seq(Digitized!SectionRow)]

\* The repair of a draft leaves a draft.
LEMMA RepairIsTyped ==
  ASSUME NEW d \in DraftRow, Digitized!FormSchemaConstants
  PROVE  Digitized!Repair(d) \in DraftRow
<1> DEFINE s1 == Digitized!RepairMonitoring(d.sections)
           s2 == Digitized!EnsureDeviations(s1)
           s3 == Digitized!EnsureVerification(s2)
<1>1. d.sections \in Seq(Digitized!SectionRow)
  BY DEF DraftRow
<1>2. s1 \in Seq(Digitized!SectionRow)
  BY <1>1, MonitoringIsTyped
<1> HIDE DEF s1
<1>3. s2 \in Seq(Digitized!SectionRow)
  BY <1>2, DeviationsAreTyped
<1> HIDE DEF s2
<1>4. s3 \in Seq(Digitized!SectionRow)
  BY <1>3, VerificationIsTyped
<1>5. Digitized!Repair(d) = d \/ Digitized!Repair(d) = [d EXCEPT !.sections = s3]
  BY DEF Digitized!Repair, s1, s2
<1> HIDE DEF s3
<1> QED
  BY <1>4, <1>5 DEF DraftRow

\* Merged columns hold the known ones and those that were there.
LEMMA MergeKeeps ==
  ASSUME NEW known \in Seq(STRING), NEW existing \in Seq(STRING)
  PROVE  /\ Digitized!ToSet(known) \subseteq Digitized!ToSet(Digitized!MergeColumns(existing, known))
         /\ Digitized!ToSet(existing) \subseteq Digitized!ToSet(Digitized!MergeColumns(existing, known))
<1> DEFINE n == Len(existing)
           K == Digitized!ToSet(known)
<1>1. n \in Nat /\ DOMAIN existing = 1 .. n /\ \A i \in 1 .. n : existing[i] \in STRING
  OBVIOUS
<1>2. PICK f : /\ f[0] = known /\ Digitized!MergeColumns(existing, known) = f[n]
               /\ \A i \in 1 .. n : f[i] = MergeTurn(known, f[i - 1], existing[i])
  BY MergeUnfold
<1> DEFINE Held(i) == K \cup {existing[j] : j \in 1 .. i}
           G == {i \in 0 .. n : f[i] \in Seq(STRING) /\ Held(i) \subseteq Digitized!ToSet(f[i])}
<1>3. Digitized!ToSet(existing) = {existing[j] : j \in 1 .. n}
  BY <1>1 DEF Digitized!ToSet
<1> HIDE DEF n
<1>4. 0 \in G
  <2>1. \A j \in 1 .. 0 : FALSE
    OBVIOUS
  <2> QED
    BY <1>1, <1>2, <2>1
<1>5. ASSUME NEW i \in 1 .. n, i - 1 \in G PROVE i \in G
  <2>1. f[i - 1] \in Seq(STRING) /\ Held(i - 1) \subseteq Digitized!ToSet(f[i - 1]) /\ i \in 0 .. n
    BY <1>1, <1>5
  <2>2. f[i] \in Seq(STRING)
    BY <1>1, <1>2, <2>1, MergeTurnIsTyped
  <2>3. \A c \in Held(i) : c \in Held(i - 1) \/ c = existing[i]
    <3>1. \A j \in 1 .. i : j \in 1 .. (i - 1) \/ j = i
      BY <1>1
    <3> QED
      BY <3>1
  <2>4. Digitized!ToSet(f[i - 1]) \subseteq Digitized!ToSet(f[i]) /\ existing[i] \in Digitized!ToSet(f[i])
    <3>1. CASE existing[i] \in K
      <4>1. f[i] = f[i - 1]
        BY <1>2, <3>1 DEF MergeTurn
      <4> QED
        BY <2>1, <3>1, <4>1
    <3>2. CASE existing[i] \notin K
      <4>1. f[i] = Append(f[i - 1], existing[i])
        BY <1>2, <3>2 DEF MergeTurn
      <4>2. existing[i] \in STRING
        BY <1>1
      <4> DEFINE a == f[i - 1]
                 e == existing[i]
      <4> HIDE DEF a, e
      <4>3. /\ Len(a) \in Nat /\ DOMAIN a = 1 .. Len(a)
            /\ DOMAIN Append(a, e) = 1 .. (Len(a) + 1)
            /\ Append(a, e)[Len(a) + 1] = e /\ \A j \in 1 .. Len(a) : Append(a, e)[j] = a[j]
        BY <2>1, <4>2, AppendIs DEF a, e
      <4>4. e \in Digitized!ToSet(Append(a, e))
        BY <4>3 DEF Digitized!ToSet
      <4>5. ASSUME NEW j \in DOMAIN a PROVE a[j] \in Digitized!ToSet(Append(a, e))
        BY <4>3 DEF Digitized!ToSet
      <4>6. Digitized!ToSet(a) \subseteq Digitized!ToSet(Append(a, e))
        BY <4>5 DEF Digitized!ToSet
      <4> QED
        BY <4>1, <4>4, <4>6 DEF a, e
    <3> QED
      BY <3>1, <3>2
  <2> HIDE DEF Held
  <2> QED
    BY <2>1, <2>2, <2>3, <2>4
<1>6. n \in G
  <2>1. n \in 0 .. n
    BY <1>1
  <2> HIDE DEF G
  <2> QED
    BY <1>1, <1>4, <1>5, <2>1, PlaceByPlace
<1>7. Held(n) \subseteq Digitized!ToSet(f[n])
  BY <1>6
<1> QED
  BY <1>2, <1>3, <1>7

\* The elements of lists that are joined.
LEMMA JoinHas ==
  ASSUME NEW V, NEW s \in Seq(V), NEW t \in Seq(V)
  PROVE  /\ s \o t \in Seq(V)
         /\ Digitized!ToSet(s) \subseteq Digitized!ToSet(s \o t)
         /\ Digitized!ToSet(t) \subseteq Digitized!ToSet(s \o t)
<1>1. /\ s \o t \in Seq(V) /\ Len(s) \in Nat /\ Len(t) \in Nat
      /\ DOMAIN s = 1 .. Len(s) /\ DOMAIN t = 1 .. Len(t)
      /\ Len(s \o t) = Len(s) + Len(t) /\ DOMAIN (s \o t) = 1 .. (Len(s) + Len(t))
      /\ \A i \in 1 .. Len(s) : (s \o t)[i] = s[i]
      /\ \A i \in 1 .. Len(t) : (s \o t)[i + Len(s)] = t[i]
  OBVIOUS
<1> DEFINE u == s \o t
<1> HIDE DEF u
<1>2. ASSUME NEW i \in DOMAIN s PROVE s[i] \in Digitized!ToSet(u)
  <2>1. i \in DOMAIN u /\ u[i] = s[i]
    BY <1>1 DEF u
  <2> QED
    BY <2>1 DEF Digitized!ToSet
<1>3. ASSUME NEW i \in DOMAIN t PROVE t[i] \in Digitized!ToSet(u)
  <2>1. i + Len(s) \in DOMAIN u /\ u[i + Len(s)] = t[i]
    BY <1>1 DEF u
  <2> QED
    BY <2>1 DEF Digitized!ToSet
<1>4. Digitized!ToSet(s) \subseteq Digitized!ToSet(u)
  BY <1>2 DEF Digitized!ToSet
<1>5. Digitized!ToSet(t) \subseteq Digitized!ToSet(u)
  BY <1>3 DEF Digitized!ToSet
<1> QED
  BY <1>1, <1>4, <1>5 DEF u

\* The labels of a form are those of its sections.
LEMMA LabelsHave ==
  ASSUME NEW secs \in Seq(Digitized!SectionRow), NEW s \in Digitized!ToSet(secs)
  PROVE  /\ Digitized!ToSet(s.fields) \subseteq Digitized!ToSet(Digitized!Labels(secs))
         /\ Digitized!ToSet(s.columns) \subseteq Digitized!ToSet(Digitized!Labels(secs))
<1> DEFINE n == Len(secs)
           Of(r) == Digitized!ToSet(r.fields) \cup Digitized!ToSet(r.columns)
<1>1. n \in Nat /\ DOMAIN secs = 1 .. n /\ \A i \in 1 .. n : secs[i] \in Digitized!SectionRow
  OBVIOUS
<1>2. PICK f : /\ f[0] = <<>> /\ Digitized!Labels(secs) = f[n]
               /\ \A i \in 1 .. n : f[i] = LabelsTurn(f[i - 1], secs[i])
  BY LabelsUnfold
<1>3. PICK at \in 1 .. n : s = secs[at]
  BY <1>1 DEF Digitized!ToSet
<1> HIDE DEF n, Of
<1> DEFINE G == {i \in 0 .. n : f[i] \in Seq(STRING) /\ (i >= at => Of(s) \subseteq Digitized!ToSet(f[i]))}
<1>4. 0 \in G
  <2>1. <<>> \in Seq(STRING) /\ ~(0 >= at) /\ 0 \in 0 .. n
    BY <1>1
  <2> QED
    BY <1>2, <2>1
<1>5. ASSUME NEW i \in 1 .. n, i - 1 \in G PROVE i \in G
  <2> DEFINE a == f[i - 1]
             r == secs[i]
  <2>1. a \in Seq(STRING) /\ (i - 1 >= at => Of(s) \subseteq Digitized!ToSet(a)) /\ i \in 0 .. n
    BY <1>1, <1>5
  <2>2. f[i] = LabelsTurn(a, r) /\ r \in Digitized!SectionRow
    BY <1>1, <1>2
  <2> HIDE DEF a, r
  <2>3. r.fields \in Seq(STRING) /\ r.columns \in Seq(STRING)
    BY <2>2 DEF Digitized!SectionRow
  <2> DEFINE b == a \o r.fields
  <2>4. /\ b \in Seq(STRING) /\ Digitized!ToSet(a) \subseteq Digitized!ToSet(b)
        /\ Digitized!ToSet(r.fields) \subseteq Digitized!ToSet(b)
    BY <2>1, <2>3, JoinHas
  <2>5. f[i] = b \o r.columns
    BY <2>2 DEF LabelsTurn
  <2> HIDE DEF b
  <2>6. /\ f[i] \in Seq(STRING) /\ Digitized!ToSet(b) \subseteq Digitized!ToSet(f[i])
        /\ Digitized!ToSet(r.columns) \subseteq Digitized!ToSet(f[i])
    BY <2>3, <2>4, <2>5, JoinHas
  <2>7. Digitized!ToSet(a) \subseteq Digitized!ToSet(f[i]) /\ Of(r) \subseteq Digitized!ToSet(f[i])
    BY <2>4, <2>6 DEF Of
  <2>8. CASE i = at
    BY <1>3, <2>1, <2>6, <2>7, <2>8 DEF r
  <2>9. CASE i # at
    <3>1. i >= at => i - 1 >= at
      BY <1>1, <2>9
    <3> QED
      BY <2>1, <2>6, <2>7, <3>1
  <2> QED
    BY <2>8, <2>9
<1>6. n \in G
  <2>1. n \in 0 .. n
    BY <1>1
  <2> HIDE DEF G
  <2> QED
    BY <1>1, <1>4, <1>5, <2>1, PlaceByPlace
<1>7. n >= at
  BY <1>1
<1>8. Of(s) \subseteq Digitized!ToSet(f[n])
  BY <1>6, <1>7
<1> QED
  BY <1>2, <1>8 DEF Of

\* What is in a list of which one element is replaced, or that has one more.
LEMMA ReplacedHas ==
  ASSUME NEW R, NEW secs \in Seq(R), NEW t \in R
  PROVE  /\ \A at \in DOMAIN secs :
              LET new == [secs EXCEPT ![at] = t]
              IN  /\ t \in Digitized!ToSet(new)
                  /\ \A s \in Digitized!ToSet(secs) : s \in Digitized!ToSet(new) \/ s = secs[at]
         /\ LET new == Append(secs, t)
            IN  t \in Digitized!ToSet(new) /\ Digitized!ToSet(secs) \subseteq Digitized!ToSet(new)
         /\ LET new == <<t>> \o secs
            IN  t \in Digitized!ToSet(new) /\ Digitized!ToSet(secs) \subseteq Digitized!ToSet(new)
<1>1. ASSUME NEW at \in DOMAIN secs
      PROVE  LET new == [secs EXCEPT ![at] = t]
             IN  /\ t \in Digitized!ToSet(new)
                 /\ \A s \in Digitized!ToSet(secs) : s \in Digitized!ToSet(new) \/ s = secs[at]
  <2> DEFINE new == [secs EXCEPT ![at] = t]
  <2>1. DOMAIN new = DOMAIN secs /\ new[at] = t /\ \A i \in DOMAIN secs : i # at => new[i] = secs[i]
    OBVIOUS
  <2> HIDE DEF new
  <2>2. t \in Digitized!ToSet(new)
    BY <2>1 DEF Digitized!ToSet
  <2>3. ASSUME NEW i \in DOMAIN secs PROVE secs[i] \in Digitized!ToSet(new) \/ secs[i] = secs[at]
    BY <2>1 DEF Digitized!ToSet
  <2>4. \A s \in Digitized!ToSet(secs) : s \in Digitized!ToSet(new) \/ s = secs[at]
    BY <2>3 DEF Digitized!ToSet
  <2> QED
    BY <2>2, <2>4 DEF new
<1>2. Append(secs, t) = secs \o <<t>> /\ <<t>> \in Seq(R)
  OBVIOUS
<1>3. t \in Digitized!ToSet(<<t>>)
  <2>1. DOMAIN <<t>> = {1} /\ <<t>>[1] = t
    OBVIOUS
  <2> QED
    BY <2>1 DEF Digitized!ToSet
<1> DEFINE one == <<t>>
<1> HIDE DEF one
<1>4. /\ Digitized!ToSet(secs) \subseteq Digitized!ToSet(secs \o one)
      /\ Digitized!ToSet(one) \subseteq Digitized!ToSet(secs \o one)
      /\ Digitized!ToSet(secs) \subseteq Digitized!ToSet(one \o secs)
      /\ Digitized!ToSet(one) \subseteq Digitized!ToSet(one \o secs)
  <2>1. one \in Seq(R)
    BY <1>2 DEF one
  <2> QED
    BY <2>1, JoinHas
<1>5. Append(secs, t) = secs \o one /\ <<t>> \o secs = one \o secs /\ t \in Digitized!ToSet(one)
  BY <1>2, <1>3 DEF one
<1>6. LET new == Append(secs, t)
      IN  t \in Digitized!ToSet(new) /\ Digitized!ToSet(secs) \subseteq Digitized!ToSet(new)
  BY <1>4, <1>5
<1>7. LET new == <<t>> \o secs
      IN  t \in Digitized!ToSet(new) /\ Digitized!ToSet(secs) \subseteq Digitized!ToSet(new)
  BY <1>4, <1>5
<1> QED
  BY <1>1, <1>6, <1>7

\* What an operation of the repair leaves of the sections: it rebuilds one of its titles
\* at most, which is no short list of blanks, and keeps its table if it was read whole.
Carried(old, new, titles) ==
  \A s \in Digitized!ToSet(old) :
    \/ s \in Digitized!ToSet(new)
    \/ /\ s.title \in titles /\ ~Digitized!PlainList(s)
       /\ \E t \in Digitized!ToSet(new) :
            /\ t.title = s.title
            /\ Len(Digitized!Table(s)) >= Digitized!Whole(s)
                 => Digitized!ToSet(Digitized!Table(s)) \subseteq Digitized!ToSet(t.columns)

\* What a rebuilt table has: the known columns, and those of a grid that is not short.
LEMMA RebuiltHas ==
  ASSUME NEW s \in Digitized!SectionRow, NEW atLeast, NEW below \in Nat,
         NEW known \in Seq(STRING)
  PROVE  LET g == Digitized!Grid(s, atLeast)
             new == Digitized!Rebuilt(g, known, below)
         IN  /\ Digitized!ToSet(known) \subseteq Digitized!ToSet(new)
             /\ Len(g) >= below => Digitized!ToSet(g) \subseteq Digitized!ToSet(new)
<1> DEFINE g == Digitized!Grid(s, atLeast)
           merged == Digitized!MergeColumns(g, known)
<1>1. s.fields \in Seq(STRING) /\ s.columns \in Seq(STRING)
  BY DEF Digitized!SectionRow
<1>2. g \in Seq(STRING)
  BY <1>1 DEF Digitized!Grid
<1>3. Len(g) \in Nat
  <2> HIDE DEF g
  <2> QED
    BY <1>2
<1> HIDE DEF g
<1>4. /\ Digitized!ToSet(known) \subseteq Digitized!ToSet(merged)
      /\ Digitized!ToSet(g) \subseteq Digitized!ToSet(merged)
  BY <1>2, MergeKeeps
<1>5. /\ Digitized!Rebuilt(g, known, below) \in {known, merged}
      /\ Len(g) >= below => Digitized!Rebuilt(g, known, below) = merged
  BY <1>3 DEF Digitized!Rebuilt
<1> HIDE DEF merged
<1> QED
  BY <1>4, <1>5 DEF g

\* The monitoring section.
LEMMA MonitoringCarries ==
  ASSUME NEW secs \in Seq(Digitized!SectionRow), Digitized!FormSchemaConstants
  PROVE  LET new == Digitized!RepairMonitoring(secs)
         IN  /\ Carried(secs, new, {"none", "titled"})
             /\ \E t \in Digitized!ToSet(new) :
                  /\ t.title \in {"none", "titled"}
                  /\ Digitized!ToSet(Monitoring) \subseteq Digitized!ToSet(t.columns)
<1> DEFINE best == {i \in DOMAIN secs : Digitized!Score(secs[i]) > 0 /\
                      \A j \in DOMAIN secs : Digitized!Score(secs[j]) <= Digitized!Score(secs[i])}
           at == CHOOSE i \in best : \A j \in best : i <= j
           new == Digitized!RepairMonitoring(secs)
<1>1. /\ best \in SUBSET Nat /\ best \in SUBSET (DOMAIN secs)
      /\ \A i \in best : Digitized!Score(secs[i]) > 0
  OBVIOUS
<1>2. Monitoring \in Seq(STRING) /\ RebuildMonitoring \in Nat
  BY DEF Digitized!FormSchemaConstants
<1>3. new =
        IF best = {} THEN <<Digitized!Section("none", <<>>, Monitoring)>> \o secs
        ELSE [secs EXCEPT ![at] =
                Digitized!Section(secs[at].title, <<>>,
                  Digitized!Rebuilt(Digitized!Grid(secs[at], 3), Monitoring, RebuildMonitoring))]
  BY DEF Digitized!RepairMonitoring
<1> HIDE DEF best, new
<1>4. CASE best = {}
  <2> DEFINE t == Digitized!Section("none", <<>>, Monitoring)
  <2>1. t.title = "none" /\ t.columns = Monitoring
    BY DEF Digitized!Section
  <2>2. t \in Digitized!SectionRow
    <3>1. "none" \in Digitized!Title
      BY DEF Digitized!Title
    <3> QED
      BY <1>2, <3>1, SectionIsTyped
  <2> HIDE DEF t
  <2>3. t \in Digitized!ToSet(new) /\ Digitized!ToSet(secs) \subseteq Digitized!ToSet(new)
    BY <1>3, <1>4, <2>2, ReplacedHas DEF t
  <2>4. Carried(secs, new, {"none", "titled"})
    BY <2>3 DEF Carried
  <2> QED
    BY <2>1, <2>3, <2>4 DEF new
<1>5. CASE best # {}
  <2>1. \E i \in best : \A j \in best : i <= j
    BY <1>1, <1>5, LeastIsThere
  <2>2. at \in best
    BY <2>1
  <2> HIDE DEF at
  <2> DEFINE s == secs[at]
             g == Digitized!Grid(s, 3)
             columns == Digitized!Rebuilt(g, Monitoring, RebuildMonitoring)
             t == Digitized!Section(s.title, <<>>, columns)
  <2>3. at \in DOMAIN secs /\ s \in Digitized!SectionRow /\ Digitized!Score(s) > 0
    BY <1>1, <2>2
  <2>4. new = [secs EXCEPT ![at] = t]
    BY <1>3, <1>5
  <2> HIDE DEF s
  <2>5. /\ s.title \in {"none", "titled"} /\ s.fields \in Seq(STRING) /\ s.columns \in Seq(STRING)
        /\ s.columns # <<>> \/ Len(s.fields) >= 4
    BY <2>3 DEF Digitized!Score, Digitized!SectionRow, Digitized!Title
  <2>6. s.columns = <<>> => Len(s.fields) \in Nat
    BY <2>5
  <2>7. g = Digitized!Table(s) /\ ~Digitized!PlainList(s) /\ Digitized!Whole(s) = RebuildMonitoring
    BY <2>5, <2>6 DEF Digitized!Grid, Digitized!Table, Digitized!PlainList, Digitized!Whole
  <2>8. columns \in Seq(STRING)
    BY <1>2, <2>3, RebuiltIsTyped
  <2>9. /\ Digitized!ToSet(Monitoring) \subseteq Digitized!ToSet(columns)
        /\ Len(g) >= RebuildMonitoring => Digitized!ToSet(g) \subseteq Digitized!ToSet(columns)
    BY <1>2, <2>3, RebuiltHas
  <2> HIDE DEF columns
  <2>10. t.title = s.title /\ t.columns = columns
    BY DEF Digitized!Section
  <2>11. t \in Digitized!SectionRow
    BY <2>5, <2>8, SectionIsTyped DEF Digitized!Title
  <2> HIDE DEF t
  <2>12. /\ t \in Digitized!ToSet(new)
         /\ \A r \in Digitized!ToSet(secs) : r \in Digitized!ToSet(new) \/ r = secs[at]
    BY <2>3, <2>4, <2>11, ReplacedHas
  <2> HIDE DEF g
  <2>13. Carried(secs, new, {"none", "titled"})
    BY <2>5, <2>7, <2>9, <2>10, <2>12 DEF Carried, s
  <2> QED
    BY <2>5, <2>9, <2>10, <2>12, <2>13 DEF new
<1> QED
  BY <1>4, <1>5

\* The section that is found has the title.
LEMMA FirstTitledHasIt ==
  ASSUME NEW secs \in Seq(Digitized!SectionRow), NEW title,
         Digitized!FirstTitled(secs, title) # 0
  PROVE  secs[Digitized!FirstTitled(secs, title)].title = title
<1> DEFINE with == {i \in DOMAIN secs : secs[i].title = title}
<1>1. with \in SUBSET Nat /\ \A i \in with : secs[i].title = title
  OBVIOUS
<1>2. /\ with # {}
      /\ Digitized!FirstTitled(secs, title) = CHOOSE i \in with : \A j \in with : i <= j
  BY DEF Digitized!FirstTitled
<1> HIDE DEF with
<1>3. \E i \in with : \A j \in with : i <= j
  BY <1>1, <1>2, LeastIsThere
<1>4. (CHOOSE i \in with : \A j \in with : i <= j) \in with
  BY <1>3
<1> QED
  BY <1>1, <1>2, <1>4

\* The deviations.
LEMMA DeviationsCarry ==
  ASSUME NEW secs \in Seq(Digitized!SectionRow), Digitized!FormSchemaConstants
  PROVE  LET new == Digitized!EnsureDeviations(secs)
         IN  /\ Carried(secs, new, {"deviation"})
             /\ \E t \in Digitized!ToSet(new) :
                  /\ t.title = "deviation"
                  /\ Digitized!ToSet(Deviations) \subseteq Digitized!ToSet(t.columns)
<1> DEFINE at == Digitized!FirstTitled(secs, "deviation")
           new == Digitized!EnsureDeviations(secs)
<1>1. at = 0 \/ (at \in DOMAIN secs /\ secs[at].title = "deviation")
  BY FirstTitledIsThere, FirstTitledHasIt
<1>2. /\ Deviations \in Seq(STRING) /\ RebuildDeviations \in Nat /\ RebuildDeviations >= 2
      /\ "deviation" \in Digitized!Title
  BY DEF Digitized!FormSchemaConstants, Digitized!Title
<1>3. new =
        IF at = 0 THEN Append(secs, Digitized!Section("deviation", <<>>, Deviations))
        ELSE [secs EXCEPT ![at] =
                Digitized!Section(secs[at].title, <<>>,
                  Digitized!Rebuilt(Digitized!Grid(secs[at], 2), Deviations, RebuildDeviations))]
  BY DEF Digitized!EnsureDeviations
<1> HIDE DEF at, new
<1>4. CASE at = 0
  <2> DEFINE t == Digitized!Section("deviation", <<>>, Deviations)
  <2>1. t.title = "deviation" /\ t.columns = Deviations
    BY DEF Digitized!Section
  <2>2. t \in Digitized!SectionRow
    BY <1>2, SectionIsTyped
  <2> HIDE DEF t
  <2>3. t \in Digitized!ToSet(new) /\ Digitized!ToSet(secs) \subseteq Digitized!ToSet(new)
    BY <1>3, <1>4, <2>2, ReplacedHas DEF t
  <2>4. Carried(secs, new, {"deviation"})
    BY <2>3 DEF Carried
  <2> QED
    BY <2>1, <2>3, <2>4 DEF new
<1>5. CASE at # 0
  <2> DEFINE s == secs[at]
             g == Digitized!Grid(s, 2)
             columns == Digitized!Rebuilt(g, Deviations, RebuildDeviations)
             t == Digitized!Section(s.title, <<>>, columns)
  <2>1. at \in DOMAIN secs /\ s \in Digitized!SectionRow /\ s.title = "deviation"
    BY <1>1, <1>5
  <2>2. new = [secs EXCEPT ![at] = t]
    BY <1>3, <1>5
  <2> HIDE DEF s
  <2>3. s.fields \in Seq(STRING) /\ s.columns \in Seq(STRING) /\ Len(s.fields) \in Nat
    BY <2>1 DEF Digitized!SectionRow
  <2>4. /\ ~Digitized!PlainList(s) /\ Digitized!Whole(s) = RebuildDeviations
        /\ Digitized!Table(s) = IF s.columns # <<>> THEN s.columns ELSE s.fields
    BY <2>1 DEF Digitized!Table, Digitized!PlainList, Digitized!Whole
  <2>5. Len(Digitized!Table(s)) >= RebuildDeviations => g = Digitized!Table(s)
    BY <1>2, <2>3, <2>4 DEF Digitized!Grid
  <2>6. columns \in Seq(STRING)
    BY <1>2, <2>1, RebuiltIsTyped
  <2>7. /\ Digitized!ToSet(Deviations) \subseteq Digitized!ToSet(columns)
        /\ Len(g) >= RebuildDeviations => Digitized!ToSet(g) \subseteq Digitized!ToSet(columns)
    BY <1>2, <2>1, RebuiltHas
  <2> HIDE DEF columns
  <2>8. t.title = s.title /\ t.columns = columns
    BY DEF Digitized!Section
  <2>9. t \in Digitized!SectionRow
    BY <1>2, <2>1, <2>6, SectionIsTyped
  <2> HIDE DEF t
  <2>10. /\ t \in Digitized!ToSet(new)
         /\ \A r \in Digitized!ToSet(secs) : r \in Digitized!ToSet(new) \/ r = secs[at]
    BY <2>1, <2>2, <2>9, ReplacedHas
  <2> HIDE DEF g
  <2>11. Carried(secs, new, {"deviation"})
    BY <2>1, <2>4, <2>5, <2>7, <2>8, <2>10 DEF Carried, s
  <2> QED
    BY <2>1, <2>7, <2>8, <2>10, <2>11 DEF new
<1> QED
  BY <1>4, <1>5

\* The verification.
LEMMA VerificationCarries ==
  ASSUME NEW secs \in Seq(Digitized!SectionRow), Digitized!FormSchemaConstants
  PROVE  LET new == Digitized!EnsureVerification(secs)
         IN  /\ Carried(secs, new, {"verification"})
             /\ \E t \in Digitized!ToSet(new) :
                  /\ Digitized!ToSet(VerificationFields) \subseteq Digitized!ToSet(t.fields)
                  /\ Digitized!ToSet(VerificationColumns) \subseteq Digitized!ToSet(t.columns)
<1> DEFINE at == Digitized!FirstTitled(secs, "verification")
           new == Digitized!EnsureVerification(secs)
           s == secs[at]
           columns == IF s.columns = <<>> /\ Len(s.fields) >= 3 THEN Digitized!GridOf(s.fields)
                      ELSE s.columns
<1>1. at = 0 \/ (at \in DOMAIN secs /\ s.title = "verification")
  BY FirstTitledIsThere, FirstTitledHasIt
<1>2. /\ VerificationFields \in Seq(STRING) /\ VerificationColumns \in Seq(STRING)
      /\ "verification" \in Digitized!Title
  BY DEF Digitized!FormSchemaConstants, Digitized!Title
<1>3. new =
        IF at = 0
        THEN Append(secs, Digitized!Section("verification", VerificationFields, VerificationColumns))
        ELSE [secs EXCEPT ![at] =
                Digitized!Section("verification", VerificationFields,
                                  Digitized!MergeColumns(columns, VerificationColumns))]
  BY DEF Digitized!EnsureVerification
<1> HIDE DEF at, new
<1>4. CASE at = 0
  <2> DEFINE t == Digitized!Section("verification", VerificationFields, VerificationColumns)
  <2>1. t.fields = VerificationFields /\ t.columns = VerificationColumns
    BY DEF Digitized!Section
  <2>2. t \in Digitized!SectionRow
    BY <1>2, SectionIsTyped
  <2> HIDE DEF t, columns, s
  <2>3. t \in Digitized!ToSet(new) /\ Digitized!ToSet(secs) \subseteq Digitized!ToSet(new)
    BY <1>3, <1>4, <2>2, ReplacedHas DEF t
  <2>4. Carried(secs, new, {"verification"})
    BY <2>3 DEF Carried
  <2> QED
    BY <2>1, <2>3, <2>4 DEF new
<1>5. CASE at # 0
  <2>1. at \in DOMAIN secs /\ s \in Digitized!SectionRow /\ s.title = "verification"
    BY <1>1, <1>5
  <2> DEFINE merged == Digitized!MergeColumns(columns, VerificationColumns)
             t == Digitized!Section("verification", VerificationFields, merged)
  <2>2. new = [secs EXCEPT ![at] = t]
    BY <1>3, <1>5
  <2> HIDE DEF s
  <2>3. s.fields \in Seq(STRING) /\ s.columns \in Seq(STRING)
    BY <2>1 DEF Digitized!SectionRow
  <2>4. columns \in Seq(STRING)
    BY <2>3, GridIsTyped
  <2>5. /\ ~Digitized!PlainList(s) /\ Digitized!Table(s) = s.columns
    BY <2>1 DEF Digitized!Table, Digitized!PlainList
  <2>6. Digitized!ToSet(s.columns) \subseteq Digitized!ToSet(columns)
    <3>1. CASE s.columns = <<>>
      <4>1. DOMAIN <<>> = {}
        OBVIOUS
      <4>2. Digitized!ToSet(s.columns) = {}
        BY <3>1, <4>1 DEF Digitized!ToSet
      <4> QED
        BY <4>2
    <3>2. CASE s.columns # <<>>
      BY <3>2
    <3> QED
      BY <3>1, <3>2
  <2> HIDE DEF columns
  <2>7. /\ merged \in Seq(STRING)
        /\ Digitized!ToSet(VerificationColumns) \subseteq Digitized!ToSet(merged)
        /\ Digitized!ToSet(columns) \subseteq Digitized!ToSet(merged)
    BY <1>2, <2>4, MergeIsTyped, MergeKeeps
  <2> HIDE DEF merged
  <2>8. t.title = "verification" /\ t.fields = VerificationFields /\ t.columns = merged
    BY DEF Digitized!Section
  <2>9. t \in Digitized!SectionRow
    BY <1>2, <2>7, SectionIsTyped
  <2> HIDE DEF t
  <2>10. /\ t \in Digitized!ToSet(new)
         /\ \A r \in Digitized!ToSet(secs) : r \in Digitized!ToSet(new) \/ r = secs[at]
    BY <2>1, <2>2, <2>9, ReplacedHas
  <2>11. Carried(secs, new, {"verification"})
    BY <2>1, <2>5, <2>6, <2>7, <2>8, <2>10 DEF Carried, s
  <2> QED
    BY <2>7, <2>8, <2>10, <2>11 DEF new
<1> QED
  BY <1>4, <1>5

\* The operations one after the other.
LEMMA RepairKeeps ==
  ASSUME NEW d \in DraftRow, Digitized!FormSchemaConstants
  PROVE  LET labels == Digitized!ToSet(Digitized!Labels(Digitized!Repair(d).sections))
         IN  IF ~r2 \/ d.type # "standard" THEN Digitized!Repair(d) = d
             ELSE /\ \A known \in {Monitoring, Deviations, VerificationFields, VerificationColumns} :
                       Digitized!ToSet(known) \subseteq labels
                  /\ \A s \in Digitized!ToSet(d.sections) :
                       /\ Digitized!PlainList(s)
                            => s \in Digitized!ToSet(Digitized!Repair(d).sections)
                       /\ Len(Digitized!Table(s)) >= Digitized!Whole(s)
                            => Digitized!ToSet(Digitized!Table(s)) \subseteq labels
<1>1. CASE ~r2 \/ d.type # "standard"
  BY <1>1 DEF Digitized!Repair
<1>2. CASE ~(~r2 \/ d.type # "standard")
  <2> DEFINE s0 == d.sections
             s1 == Digitized!RepairMonitoring(s0)
             s2 == Digitized!EnsureDeviations(s1)
             s3 == Digitized!EnsureVerification(s2)
             labels == Digitized!ToSet(Digitized!Labels(s3))
  <2>1. d = [type |-> d.type, sections |-> s0] /\ s0 \in Seq(Digitized!SectionRow)
    BY DEF DraftRow
  <2>2. Digitized!Repair(d).sections = s3
    <3>1. Digitized!Repair(d) = [d EXCEPT !.sections = s3]
      BY <1>2 DEF Digitized!Repair
    <3> HIDE DEF s3
    <3> QED
      BY <2>1, <3>1
  <2> HIDE DEF s0
  <2>3. s1 \in Seq(Digitized!SectionRow) /\ Carried(s0, s1, {"none", "titled"})
    BY <2>1, MonitoringIsTyped, MonitoringCarries
  <2>4. PICK m \in Digitized!ToSet(s1) : /\ m.title \in {"none", "titled"}
                                         /\ Digitized!ToSet(Monitoring) \subseteq Digitized!ToSet(m.columns)
    BY <2>1, MonitoringCarries
  <2> HIDE DEF s1
  <2>5. s2 \in Seq(Digitized!SectionRow) /\ Carried(s1, s2, {"deviation"})
    BY <2>3, DeviationsAreTyped, DeviationsCarry
  <2>6. PICK v \in Digitized!ToSet(s2) : /\ v.title = "deviation"
                                         /\ Digitized!ToSet(Deviations) \subseteq Digitized!ToSet(v.columns)
    BY <2>3, DeviationsCarry
  <2> HIDE DEF s2
  <2>7. s3 \in Seq(Digitized!SectionRow) /\ Carried(s2, s3, {"verification"})
    BY <2>5, VerificationIsTyped, VerificationCarries
  <2>8. PICK w \in Digitized!ToSet(s3) :
               /\ Digitized!ToSet(VerificationFields) \subseteq Digitized!ToSet(w.fields)
               /\ Digitized!ToSet(VerificationColumns) \subseteq Digitized!ToSet(w.columns)
    BY <2>5, VerificationCarries
  <2> HIDE DEF s3
  <2>9. \A s \in Digitized!ToSet(s3) : /\ Digitized!ToSet(s.fields) \subseteq labels
                                       /\ Digitized!ToSet(s.columns) \subseteq labels
    BY <2>7, LabelsHave
  <2>10. \A s \in Digitized!ToSet(s1) : s.title # "deviation" => s \in Digitized!ToSet(s2)
    BY <2>5 DEF Carried
  <2>11. \A s \in Digitized!ToSet(s2) : s.title # "verification" => s \in Digitized!ToSet(s3)
    BY <2>7 DEF Carried
  <2>12. \A known \in {Monitoring, Deviations, VerificationFields, VerificationColumns} :
           Digitized!ToSet(known) \subseteq labels
    BY <2>4, <2>6, <2>8, <2>9, <2>10, <2>11
  <2>13. ASSUME NEW s \in Digitized!ToSet(s0), Digitized!PlainList(s)
         PROVE  s \in Digitized!ToSet(s3)
    BY <2>3, <2>5, <2>7, <2>13 DEF Carried
  <2>14. \A s \in Digitized!ToSet(s3) : Digitized!ToSet(Digitized!Table(s)) \subseteq labels
    BY <2>9 DEF Digitized!Table
  <2>15. ASSUME NEW s \in Digitized!ToSet(s0), Len(Digitized!Table(s)) >= Digitized!Whole(s)
         PROVE  Digitized!ToSet(Digitized!Table(s)) \subseteq labels
    <3>1. CASE s \notin Digitized!ToSet(s1)
      <4>1. PICK t \in Digitized!ToSet(s1) :
              /\ t.title = s.title /\ s.title \in {"none", "titled"}
              /\ Digitized!ToSet(Digitized!Table(s)) \subseteq Digitized!ToSet(t.columns)
        BY <2>3, <2>15, <3>1 DEF Carried
      <4>2. t \in Digitized!ToSet(s3)
        BY <2>10, <2>11, <4>1
      <4> QED
        BY <2>9, <4>1, <4>2
    <3>2. CASE s \in Digitized!ToSet(s1) /\ s \notin Digitized!ToSet(s2)
      <4>1. PICK t \in Digitized!ToSet(s2) :
              /\ t.title = s.title /\ s.title \in {"deviation"}
              /\ Digitized!ToSet(Digitized!Table(s)) \subseteq Digitized!ToSet(t.columns)
        BY <2>5, <2>15, <3>2 DEF Carried
      <4>2. t \in Digitized!ToSet(s3)
        BY <2>11, <4>1
      <4> QED
        BY <2>9, <4>1, <4>2
    <3>3. CASE s \in Digitized!ToSet(s2) /\ s \notin Digitized!ToSet(s3)
      <4>1. PICK t \in Digitized!ToSet(s3) :
              Digitized!ToSet(Digitized!Table(s)) \subseteq Digitized!ToSet(t.columns)
        BY <2>7, <2>15, <3>3 DEF Carried
      <4> QED
        BY <2>9, <4>1
    <3>4. CASE s \in Digitized!ToSet(s3)
      BY <2>14, <3>4
    <3> QED
      BY <3>1, <3>2, <3>3, <3>4
  <2> HIDE DEF labels
  <2>16. \A s \in Digitized!ToSet(s0) :
           /\ Digitized!PlainList(s) => s \in Digitized!ToSet(s3)
           /\ Len(Digitized!Table(s)) >= Digitized!Whole(s)
                => Digitized!ToSet(Digitized!Table(s)) \subseteq labels
    BY <2>13, <2>15
  <2> QED
    BY <1>2, <2>2, <2>12, <2>16 DEF labels, s0
<1> QED
  BY <1>1, <1>2

\* The elements of a list are finitely many.
LEMMA ListIsFinite ==
  ASSUME NEW V, NEW s \in Seq(V)
  PROVE  IsFiniteSet(Digitized!ToSet(s)) /\ Digitized!ToSet(s) = {s[i] : i \in 1 .. Len(s)}
<1> DEFINE T == {s[i] : i \in 1 .. Len(s)}
           at == [i \in 1 .. Len(s) |-> s[i]]
<1>1. Digitized!ToSet(s) = T /\ Len(s) \in Nat
  BY DEF Digitized!ToSet
<1>2. IsFiniteSet(1 .. Len(s))
  BY <1>1, FS_Interval
<1>3. at \in Surjection(1 .. Len(s), T)
  BY DEF Surjection
<1> HIDE DEF T, at
<1>4. IsFiniteSet(T)
  BY <1>2, <1>3, FS_Surjection
<1> QED
  BY <1>1, <1>4 DEF T

\* No element is in a list twice.
Distinct(s) == \A i, j \in 1 .. Len(s) : s[i] = s[j] => i = j

\* A list with an element it lacks.
LEMMA AppendNew ==
  ASSUME NEW V, NEW s \in Seq(V), NEW e \in V, e \notin Digitized!ToSet(s), Distinct(s)
  PROVE  /\ Append(s, e) \in Seq(V) /\ Len(Append(s, e)) = Len(s) + 1 /\ Distinct(Append(s, e))
         /\ \A x \in Digitized!ToSet(Append(s, e)) : x = e \/ x \in Digitized!ToSet(s)
<1> DEFINE t == Append(s, e)
           n == Len(s)
<1>1. /\ t \in Seq(V) /\ n \in Nat /\ Len(t) = n + 1 /\ t[n + 1] = e /\ \A i \in 1 .. n : t[i] = s[i]
  BY AppendIs
<1> HIDE DEF t, n
<1>2. Digitized!ToSet(t) = {t[i] : i \in 1 .. (n + 1)} /\ Digitized!ToSet(s) = {s[i] : i \in 1 .. n}
  BY <1>1, ListIsFinite DEF n
<1>3. \A i \in 1 .. (n + 1) : i = n + 1 \/ i \in 1 .. n
  BY <1>1
<1>4. \A x \in Digitized!ToSet(t) : x = e \/ x \in Digitized!ToSet(s)
  BY <1>1, <1>2, <1>3
<1>5. ASSUME NEW i \in 1 .. Len(t), NEW j \in 1 .. Len(t), t[i] = t[j] PROVE i = j
  <2>1. \A k \in 1 .. n : t[k] \in Digitized!ToSet(s)
    BY <1>1, <1>2
  <2>2. CASE i = n + 1
    BY <1>1, <1>3, <1>5, <2>1, <2>2
  <2>3. CASE i \in 1 .. n
    <3>1. j \in 1 .. n
      BY <1>1, <1>3, <1>5, <2>1, <2>3
    <3> QED
      BY <1>1, <1>5, <2>3, <3>1 DEF Distinct, n
  <2> QED
    BY <1>1, <1>3, <2>2, <2>3
<1> QED
  BY <1>1, <1>4, <1>5 DEF Distinct, t, n

\* One of the suffixed forms of an id is not used: there are more of them than ids in use.
LEMMA FreshIsNew ==
  ASSUME NEW id \in Digitized!FieldId, NEW i \in Nat, NEW used, IsFiniteSet(used)
  PROVE  Digitized!Fresh(id, i, used) \in Digitized!FieldId /\ Digitized!Fresh(id, i, used) \notin used
<1> DEFINE added(k) == id.added \o [n \in 1 .. k |-> i]
           form(k) == [id EXCEPT !.added = @ \o [n \in 1 .. k |-> i]]
           c == Cardinality(used)
           W == {k \in 0 .. c : form(k) \notin used}
           Right(k) == form(k) \notin used /\ \A j \in 0 .. (k - 1) : form(j) \in used
           least == CHOOSE k \in 0 .. c : Right(k)
<1>1. c \in Nat
  BY FS_CardinalityType
<1>2. id = [slug |-> id.slug, added |-> id.added] /\ id.added \in Seq(Nat) /\ Len(id.added) \in Nat
  BY DEF Digitized!FieldId
<1>3. ASSUME NEW k \in Nat
      PROVE  added(k) \in Seq(Nat) /\ Len(added(k)) = Len(id.added) + k
  <2> DEFINE more == [n \in 1 .. k |-> i]
  <2>1. more \in [1 .. k -> Nat]
    OBVIOUS
  <2>2. more \in Seq(Nat) /\ Len(more) = k
    BY <2>1
  <2> HIDE DEF more
  <2>3. id.added \o more \in Seq(Nat) /\ Len(id.added \o more) = Len(id.added) + Len(more)
    BY <1>2, <2>2, ConcatProperties
  <2> QED
    BY <2>2, <2>3 DEF more
<1>4. \A k : form(k).added = added(k) /\ form(k) = [id EXCEPT !.added = added(k)]
  BY <1>2
<1> HIDE DEF added, form
<1>5. ASSUME NEW k \in Nat PROVE form(k) \in Digitized!FieldId
  BY <1>2, <1>3, <1>4 DEF Digitized!FieldId
<1>6. W # {}
  <2>1. SUFFICES ASSUME \A k \in 0 .. c : form(k) \in used PROVE FALSE
    OBVIOUS
  <2> DEFINE g == [k \in 0 .. c |-> form(k)]
  <2>2. \A j, k \in 0 .. c : form(j) = form(k) => j = k
    <3>1. ASSUME NEW j \in 0 .. c, NEW k \in 0 .. c, form(j) = form(k) PROVE j = k
      <4>1. Len(id.added) + j = Len(id.added) + k /\ j \in Nat /\ k \in Nat
        BY <1>1, <1>3, <1>4, <3>1
      <4> QED
        BY <1>2, <4>1
    <3> QED
      BY <3>1
  <2>3. g \in Injection(0 .. c, used)
    BY <2>1, <2>2 DEF Injection, IsInjective
  <2> HIDE DEF g
  <2>4. Cardinality(0 .. c) <= c
    <3> HIDE DEF c
    <3> QED
      BY <2>3, FS_Injection DEF c
  <2>5. Cardinality(0 .. c) = c + 1
    <3>1. 0 \in Int /\ c \in Int /\ ~(0 > c) /\ (c - 0) + 1 = c + 1
      BY <1>1
    <3> HIDE DEF c
    <3> QED
      BY <3>1, FS_Interval
  <2> HIDE DEF c
  <2> QED
    BY <1>1, <2>4, <2>5
<1>7. PICK w \in W : \A j \in W : w <= j
  <2>1. W \in SUBSET Nat
    BY <1>1
  <2> HIDE DEF W
  <2> QED
    BY <1>6, <2>1, LeastIsThere
<1>8. w \in 0 .. c /\ Right(w)
  <2>1. w \in 0 .. c /\ form(w) \notin used
    OBVIOUS
  <2>2. ASSUME NEW j \in 0 .. (w - 1) PROVE form(j) \in used
    <3>1. j \in 0 .. c /\ ~(w <= j)
      BY <1>1, <2>1
    <3> QED
      BY <1>7, <3>1
  <2> QED
    BY <2>1, <2>2
<1>9. least \in 0 .. c /\ form(least) \notin used
  <2>1. least \in 0 .. c /\ Right(least)
    <3> HIDE DEF Right, c
    <3> QED
      BY <1>8
  <2> QED
    BY <2>1
<1>10. Digitized!Fresh(id, i, used) = form(least)
  <2>1. Digitized!Cardinality(used) = c
    BY DigitizedSets
  <2> HIDE DEF c
  <2> QED
    BY <2>1 DEF Digitized!Fresh, form
<1> HIDE DEF least
<1> QED
  BY <1>1, <1>5, <1>9, <1>10

\* A turn gives an id that is not used.
LEMMA IdTurnIsNew ==
  ASSUME NEW used, IsFiniteSet(used), NEW a \in Seq(Digitized!FieldId), NEW e \in Digitized!FieldId
  PROVE  \E x \in Digitized!FieldId : /\ x \notin used /\ x \notin Digitized!ToSet(a)
                                 /\ IdTurn(used, a, e) = Append(a, x)
<1> DEFINE all == used \cup Digitized!ToSet(a)
<1>1. IsFiniteSet(all) /\ Len(a) \in Nat
  <2>1. IsFiniteSet(Digitized!ToSet(a))
    BY ListIsFinite
  <2>2. IsFiniteSet(all)
    BY <2>1, FS_Union
  <2>3. Len(a) \in Nat
    OBVIOUS
  <2> QED
    BY <2>2, <2>3
<1>2. IdTurn(used, a, e) = Append(a, Digitized!Fresh(e, Len(a), all))
  BY DEF IdTurn
<1> HIDE DEF all
<1>3. Digitized!Fresh(e, Len(a), all) \in Digitized!FieldId /\ Digitized!Fresh(e, Len(a), all) \notin all
  BY <1>1, FreshIsNew
<1> QED
  BY <1>2, <1>3 DEF all

\* A turn leaves ids.
LEMMA IdTurnIsTyped ==
  ASSUME NEW used, IsFiniteSet(used), NEW a \in Seq(Digitized!FieldId), NEW e \in Digitized!FieldId
  PROVE  IdTurn(used, a, e) \in Seq(Digitized!FieldId)
<1>1. PICK x \in Digitized!FieldId : IdTurn(used, a, e) = Append(a, x)
  BY IdTurnIsNew
<1>2. Append(a, x) \in Seq(Digitized!FieldId)
  BY AppendProperties
<1> QED
  BY <1>1, <1>2

\* How the ids of a list are given.
LEMMA EnsureUnfold ==
  ASSUME NEW list \in Seq(Digitized!FieldId), NEW used, IsFiniteSet(used)
  PROVE  \E f : /\ f[0] = <<>> /\ Digitized!EnsureIds(list, used) = f[Len(list)]
                /\ \A i \in 1 .. Len(list) : f[i] = IdTurn(used, f[i - 1], list[i])
<1> DEFINE n == Len(list)
           A == Seq(Digitized!FieldId)
           turn == [p \in A \X (1 .. n) |-> IdTurn(used, p[1], list[p[2]])]
           Good(it) == it = [S \in SUBSET (1 .. n) |->
                               IF S = {} THEN <<>>
                               ELSE IdTurn(used, it[S \ {Digitized!Max(S)}], list[Digitized!Max(S)])]
<1>1. n \in Nat /\ DOMAIN list = 1 .. n /\ \A i \in 1 .. n : list[i] \in Digitized!FieldId
  OBVIOUS
<1>2. turn \in [A \X (1 .. n) -> A] /\ <<>> \in A
  <2>1. ASSUME NEW p \in A \X (1 .. n) PROVE IdTurn(used, p[1], list[p[2]]) \in A
    <3>1. p[1] \in A /\ list[p[2]] \in Digitized!FieldId
      BY <1>1
    <3> QED
      BY <3>1, IdTurnIsTyped
  <2>2. <<>> \in A
    OBVIOUS
  <2> HIDE DEF A
  <2> QED
    BY <2>1, <2>2
<1> HIDE DEF turn
<1>3. PICK it \in [SUBSET (1 .. n) -> A] : Turns(<<>>, turn, n, it)
  <2> HIDE DEF A, n
  <2> QED
    BY <1>1, <1>2, TurnsAreThere
<1>4. Good(it)
  <2>1. ASSUME NEW S \in SUBSET (1 .. n), S # {}
        PROVE  it[S] = IdTurn(used, it[S \ {Digitized!Max(S)}], list[Digitized!Max(S)])
    <3> DEFINE m == Digitized!Max(S)
               a == it[S \ {m}]
    <3>1. m \in 1 .. n
      BY <1>1, <2>1, GreatestIsThere
    <3>2. it[S] = turn[<<a, m>>]
      BY <1>3, <2>1 DEF Turns
    <3> HIDE DEF m
    <3>3. a \in A
      <4>1. S \ {m} \in SUBSET (1 .. n)
        OBVIOUS
      <4> HIDE DEF A
      <4> QED
        BY <1>3, <4>1
    <3> HIDE DEF a, A
    <3>4. turn[<<a, m>>] = IdTurn(used, a, list[m])
      BY <3>1, <3>3 DEF turn
    <3> QED
      BY <3>2, <3>4 DEF a, m
  <2>2. it[{}] = <<>>
    BY <1>3 DEF Turns
  <2>3. \A S \in SUBSET (1 .. n) :
          it[S] = IF S = {} THEN <<>>
                  ELSE IdTurn(used, it[S \ {Digitized!Max(S)}], list[Digitized!Max(S)])
    BY <2>1, <2>2
  <2> HIDE DEF A
  <2> QED
    BY <1>3, <2>3
<1>5. Digitized!EnsureIds(list, used) = (CHOOSE c : Good(c))[1 .. n]
  BY <1>1 DEF Digitized!EnsureIds, IdTurn, Digitized!FoldLeft, Digitized!MapThenFoldSet
<1>6. PICK c : Good(c) /\ Digitized!EnsureIds(list, used) = c[1 .. n]
  <2> HIDE DEF Good
  <2>1. Good(CHOOSE c : Good(c))
    BY <1>4
  <2> QED
    BY <1>5, <2>1
<1> DEFINE f == [i \in 0 .. n |-> c[1 .. i]]
<1>7. f[0] = <<>> /\ f[n] = c[1 .. n]
  <2>1. 1 .. 0 = {} /\ 0 \in 0 .. n /\ n \in 0 .. n
    BY <1>1
  <2>2. c[{}] = <<>>
    BY <1>6
  <2> HIDE DEF Good
  <2> QED
    BY <2>1, <2>2
<1>8. ASSUME NEW i \in 1 .. n PROVE f[i] = IdTurn(used, f[i - 1], list[i])
  <2>1. /\ 1 .. i \in SUBSET (1 .. n) /\ 1 .. i # {} /\ (1 .. i) \ {i} = 1 .. (i - 1)
        /\ Digitized!Max(1 .. i) = i /\ i - 1 \in 0 .. n
    BY <1>1, FirstPlaces
  <2>2. c[1 .. i] = IdTurn(used, c[1 .. (i - 1)], list[i])
    <3> HIDE DEF f
    <3> QED
      BY <1>6, <2>1
  <2>3. f[i] = c[1 .. i] /\ f[i - 1] = c[1 .. (i - 1)]
    BY <2>1
  <2> HIDE DEF f, Good
  <2> QED
    BY <2>2, <2>3
<1> HIDE DEF f, Good
<1> QED
  BY <1>6, <1>7, <1>8

\* The ids of a list are distinct, and not used before.
LEMMA EnsureIsNew ==
  ASSUME NEW list \in Seq(Digitized!FieldId), NEW used, IsFiniteSet(used)
  PROVE  /\ Digitized!EnsureIds(list, used) \in Seq(Digitized!FieldId)
         /\ Distinct(Digitized!EnsureIds(list, used))
         /\ \A x \in Digitized!ToSet(Digitized!EnsureIds(list, used)) : x \notin used
<1> DEFINE n == Len(list)
<1>1. n \in Nat /\ \A i \in 1 .. n : list[i] \in Digitized!FieldId
  OBVIOUS
<1>2. PICK f : /\ f[0] = <<>> /\ Digitized!EnsureIds(list, used) = f[n]
               /\ \A i \in 1 .. n : f[i] = IdTurn(used, f[i - 1], list[i])
  BY EnsureUnfold
<1> HIDE DEF n
<1> DEFINE Good(a) == /\ a \in Seq(Digitized!FieldId) /\ Distinct(a)
                      /\ \A x \in Digitized!ToSet(a) : x \notin used
           G == {i \in 0 .. n : Good(f[i])}
<1>3. 0 \in G
  <2>1. <<>> \in Seq(Digitized!FieldId) /\ Distinct(<<>>)
    BY DEF Distinct
  <2>2. Digitized!ToSet(<<>>) = {}
    BY DEF Digitized!ToSet
  <2>3. 0 \in 0 .. n
    BY <1>1
  <2> QED
    BY <1>2, <2>1, <2>2, <2>3
<1>4. ASSUME NEW i \in 1 .. n, i - 1 \in G PROVE i \in G
  <2> DEFINE a == f[i - 1]
  <2>1. Good(a) /\ i \in 0 .. n
    BY <1>1, <1>4
  <2>2. f[i] = IdTurn(used, a, list[i])
    BY <1>2
  <2> HIDE DEF a
  <2>3. PICK x \in Digitized!FieldId : /\ x \notin used /\ x \notin Digitized!ToSet(a)
                                  /\ IdTurn(used, a, list[i]) = Append(a, x)
    BY <1>1, <2>1, IdTurnIsNew
  <2>4. Good(Append(a, x))
    BY <2>1, <2>3, AppendNew
  <2> QED
    BY <2>1, <2>2, <2>3, <2>4
<1>5. n \in G
  <2>1. n \in 0 .. n
    BY <1>1
  <2> HIDE DEF G
  <2> QED
    BY <1>1, <1>3, <1>4, <2>1, PlaceByPlace
<1> QED
  BY <1>2, <1>5

\* The ids of lists are finitely many.
LEMMA UsedAreFinite ==
  ASSUME NEW acc \in Seq(Seq(Digitized!FieldId))
  PROVE  /\ IsFiniteSet(UsedIn(acc)) /\ Len(acc) \in Nat /\ DOMAIN acc = 1 .. Len(acc)
         /\ \A i \in 1 .. Len(acc) : \A n \in 1 .. Len(acc[i]) : acc[i][n] \in UsedIn(acc)
<1> DEFINE Sets == {Digitized!ToSet(acc[i]) : i \in 1 .. Len(acc)}
           at == [i \in 1 .. Len(acc) |-> Digitized!ToSet(acc[i])]
<1>1. /\ Len(acc) \in Nat /\ DOMAIN acc = 1 .. Len(acc)
      /\ \A i \in 1 .. Len(acc) : acc[i] \in Seq(Digitized!FieldId)
  OBVIOUS
<1>2. UsedIn(acc) = UNION Sets
  BY <1>1 DEF UsedIn
<1>3. IsFiniteSet(Sets)
  <2>1. IsFiniteSet(1 .. Len(acc))
    BY <1>1, FS_Interval
  <2>2. at \in Surjection(1 .. Len(acc), Sets)
    BY DEF Surjection
  <2> HIDE DEF Sets, at
  <2> QED
    BY <2>1, <2>2, FS_Surjection
<1>4. \A T \in Sets : IsFiniteSet(T)
  BY <1>1, ListIsFinite
<1>5. ASSUME NEW i \in 1 .. Len(acc), NEW n \in 1 .. Len(acc[i]) PROVE acc[i][n] \in UsedIn(acc)
  <2>1. acc[i][n] \in Digitized!ToSet(acc[i])
    BY <1>1, ListIsFinite
  <2> QED
    BY <1>2, <2>1
<1> HIDE DEF Sets
<1>6. IsFiniteSet(UNION Sets)
  BY <1>3, <1>4, FS_UNION
<1> QED
  BY <1>1, <1>2, <1>5, <1>6

\* A turn leaves lists of ids.
LEMMA GenerateTurnIsTyped ==
  ASSUME NEW a \in Seq(Seq(Digitized!FieldId)), NEW e \in Seq(Digitized!FieldId)
  PROVE  GenerateTurn(a, e) \in Seq(Seq(Digitized!FieldId))
<1> DEFINE list == Digitized!EnsureIds(e, UsedIn(a))
<1>1. list \in Seq(Digitized!FieldId)
  BY EnsureIsNew, UsedAreFinite
<1>2. GenerateTurn(a, e) = Append(a, list)
  BY DEF GenerateTurn
<1> HIDE DEF list
<1> QED
  BY <1>1, <1>2, AppendProperties

\* How the ids of a form are given.
LEMMA GenerateUnfold ==
  ASSUME NEW lists \in Seq(Seq(Digitized!FieldId))
  PROVE  \E f : /\ f[0] = <<>> /\ Digitized!GenerateIds(lists) = f[Len(lists)]
                /\ \A i \in 1 .. Len(lists) : f[i] = GenerateTurn(f[i - 1], lists[i])
<1> DEFINE n == Len(lists)
           A == Seq(Seq(Digitized!FieldId))
           turn == [p \in A \X (1 .. n) |-> GenerateTurn(p[1], lists[p[2]])]
           Good(it) == it = [S \in SUBSET (1 .. n) |->
                               IF S = {} THEN <<>>
                               ELSE GenerateTurn(it[S \ {Digitized!Max(S)}], lists[Digitized!Max(S)])]
<1>1. n \in Nat /\ DOMAIN lists = 1 .. n /\ \A i \in 1 .. n : lists[i] \in Seq(Digitized!FieldId)
  OBVIOUS
<1>2. turn \in [A \X (1 .. n) -> A] /\ <<>> \in A
  <2>1. ASSUME NEW p \in A \X (1 .. n) PROVE GenerateTurn(p[1], lists[p[2]]) \in A
    <3>1. p[1] \in A /\ lists[p[2]] \in Seq(Digitized!FieldId)
      BY <1>1
    <3> QED
      BY <3>1, GenerateTurnIsTyped
  <2>2. <<>> \in A
    OBVIOUS
  <2> HIDE DEF A
  <2> QED
    BY <2>1, <2>2
<1> HIDE DEF turn
<1>3. PICK it \in [SUBSET (1 .. n) -> A] : Turns(<<>>, turn, n, it)
  <2> HIDE DEF A, n
  <2> QED
    BY <1>1, <1>2, TurnsAreThere
<1>4. Good(it)
  <2>1. ASSUME NEW S \in SUBSET (1 .. n), S # {}
        PROVE  it[S] = GenerateTurn(it[S \ {Digitized!Max(S)}], lists[Digitized!Max(S)])
    <3> DEFINE m == Digitized!Max(S)
               a == it[S \ {m}]
    <3>1. m \in 1 .. n
      BY <1>1, <2>1, GreatestIsThere
    <3>2. it[S] = turn[<<a, m>>]
      BY <1>3, <2>1 DEF Turns
    <3> HIDE DEF m
    <3>3. a \in A
      <4>1. S \ {m} \in SUBSET (1 .. n)
        OBVIOUS
      <4> HIDE DEF A
      <4> QED
        BY <1>3, <4>1
    <3> HIDE DEF a, A
    <3>4. turn[<<a, m>>] = GenerateTurn(a, lists[m])
      BY <3>1, <3>3 DEF turn
    <3> QED
      BY <3>2, <3>4 DEF a, m
  <2>2. it[{}] = <<>>
    BY <1>3 DEF Turns
  <2>3. \A S \in SUBSET (1 .. n) :
          it[S] = IF S = {} THEN <<>>
                  ELSE GenerateTurn(it[S \ {Digitized!Max(S)}], lists[Digitized!Max(S)])
    BY <2>1, <2>2
  <2> HIDE DEF A
  <2> QED
    BY <1>3, <2>3
<1>5. Digitized!GenerateIds(lists) = (CHOOSE c : Good(c))[1 .. n]
  BY <1>1 DEF Digitized!GenerateIds, GenerateTurn, UsedIn, Digitized!FoldLeft, Digitized!MapThenFoldSet
<1>6. PICK c : Good(c) /\ Digitized!GenerateIds(lists) = c[1 .. n]
  <2> HIDE DEF Good
  <2>1. Good(CHOOSE c : Good(c))
    BY <1>4
  <2> QED
    BY <1>5, <2>1
<1> DEFINE f == [i \in 0 .. n |-> c[1 .. i]]
<1>7. f[0] = <<>> /\ f[n] = c[1 .. n]
  <2>1. 1 .. 0 = {} /\ 0 \in 0 .. n /\ n \in 0 .. n
    BY <1>1
  <2>2. c[{}] = <<>>
    BY <1>6
  <2> HIDE DEF Good
  <2> QED
    BY <2>1, <2>2
<1>8. ASSUME NEW i \in 1 .. n PROVE f[i] = GenerateTurn(f[i - 1], lists[i])
  <2>1. /\ 1 .. i \in SUBSET (1 .. n) /\ 1 .. i # {} /\ (1 .. i) \ {i} = 1 .. (i - 1)
        /\ Digitized!Max(1 .. i) = i /\ i - 1 \in 0 .. n
    BY <1>1, FirstPlaces
  <2>2. c[1 .. i] = GenerateTurn(c[1 .. (i - 1)], lists[i])
    <3> HIDE DEF f
    <3> QED
      BY <1>6, <2>1
  <2>3. f[i] = c[1 .. i] /\ f[i - 1] = c[1 .. (i - 1)]
    BY <2>1
  <2> HIDE DEF f, Good
  <2> QED
    BY <2>2, <2>3
<1> HIDE DEF f, Good
<1> QED
  BY <1>6, <1>7, <1>8

\* No two ids of lists are the same.
AllDistinct(acc) ==
  \A i, j \in DOMAIN acc : \A n \in DOMAIN acc[i], m \in DOMAIN acc[j] :
    acc[i][n] = acc[j][m] => i = j /\ n = m

\* A list of ids that are distinct and not used keeps them so.
LEMMA AppendList ==
  ASSUME NEW acc \in Seq(Seq(Digitized!FieldId)), NEW list \in Seq(Digitized!FieldId),
         AllDistinct(acc), Distinct(list), \A x \in Digitized!ToSet(list) : x \notin UsedIn(acc)
  PROVE  Append(acc, list) \in Seq(Seq(Digitized!FieldId)) /\ AllDistinct(Append(acc, list))
<1> DEFINE t == Append(acc, list)
           k == Len(acc)
<1>1. /\ t \in Seq(Seq(Digitized!FieldId)) /\ k \in Nat /\ DOMAIN acc = 1 .. k
      /\ DOMAIN t = 1 .. (k + 1) /\ t[k + 1] = list /\ \A i \in 1 .. k : t[i] = acc[i]
  BY AppendIs
<1>2. \A i \in 1 .. (k + 1) : i = k + 1 \/ i \in 1 .. k
  BY <1>1
<1>3. DOMAIN list = 1 .. Len(list) /\ \A n \in DOMAIN list : list[n] \notin UsedIn(acc)
  <2>1. DOMAIN list = 1 .. Len(list)
    OBVIOUS
  <2> QED
    BY <2>1, ListIsFinite
<1>4. \A i \in 1 .. k : \A n \in DOMAIN acc[i] : acc[i][n] \in UsedIn(acc)
  <2>1. \A i \in 1 .. k : acc[i] \in Seq(Digitized!FieldId)
    BY <1>1
  <2>2. \A i \in 1 .. k : DOMAIN acc[i] = 1 .. Len(acc[i])
    BY <2>1
  <2> QED
    BY <2>2, UsedAreFinite DEF k
<1> HIDE DEF t, k
<1>5. ASSUME NEW i \in DOMAIN t, NEW j \in DOMAIN t, NEW n \in DOMAIN t[i], NEW m \in DOMAIN t[j],
             t[i][n] = t[j][m]
      PROVE  i = j /\ n = m
  <2>1. CASE i = k + 1 /\ j = k + 1
    BY <1>1, <1>3, <1>5, <2>1 DEF Distinct
  <2>2. CASE i = k + 1 /\ j \in 1 .. k
    BY <1>1, <1>3, <1>4, <1>5, <2>2
  <2>3. CASE i \in 1 .. k /\ j = k + 1
    BY <1>1, <1>3, <1>4, <1>5, <2>3
  <2>4. CASE i \in 1 .. k /\ j \in 1 .. k
    BY <1>1, <1>5, <2>4 DEF AllDistinct
  <2> QED
    BY <1>1, <1>2, <2>1, <2>2, <2>3, <2>4
<1> QED
  BY <1>1, <1>5 DEF AllDistinct, t

\* The ids of a form are distinct.
LEMMA GenerateIsNew ==
  ASSUME NEW lists \in Seq(Seq(Digitized!FieldId))
  PROVE  /\ Digitized!GenerateIds(lists) \in Seq(Seq(Digitized!FieldId))
         /\ AllDistinct(Digitized!GenerateIds(lists))
<1> DEFINE n == Len(lists)
<1>1. n \in Nat /\ \A i \in 1 .. n : lists[i] \in Seq(Digitized!FieldId)
  OBVIOUS
<1>2. PICK f : /\ f[0] = <<>> /\ Digitized!GenerateIds(lists) = f[n]
               /\ \A i \in 1 .. n : f[i] = GenerateTurn(f[i - 1], lists[i])
  BY GenerateUnfold
<1> HIDE DEF n
<1> DEFINE Good(a) == a \in Seq(Seq(Digitized!FieldId)) /\ AllDistinct(a)
           G == {i \in 0 .. n : Good(f[i])}
<1>3. 0 \in G
  <2>1. <<>> \in Seq(Seq(Digitized!FieldId)) /\ AllDistinct(<<>>)
    BY DEF AllDistinct
  <2>2. 0 \in 0 .. n
    BY <1>1
  <2> QED
    BY <1>2, <2>1, <2>2
<1>4. ASSUME NEW i \in 1 .. n, i - 1 \in G PROVE i \in G
  <2> DEFINE a == f[i - 1]
             list == Digitized!EnsureIds(lists[i], UsedIn(a))
  <2>1. Good(a) /\ i \in 0 .. n
    BY <1>1, <1>4
  <2>2. f[i] = GenerateTurn(a, lists[i])
    BY <1>2
  <2> HIDE DEF a
  <2>3. GenerateTurn(a, lists[i]) = Append(a, list)
    BY DEF GenerateTurn
  <2>4. /\ list \in Seq(Digitized!FieldId) /\ Distinct(list)
        /\ \A x \in Digitized!ToSet(list) : x \notin UsedIn(a)
    BY <1>1, <2>1, EnsureIsNew, UsedAreFinite
  <2> HIDE DEF list
  <2>5. Good(Append(a, list))
    BY <2>1, <2>4, AppendList
  <2> QED
    BY <2>1, <2>2, <2>3, <2>5
<1>5. n \in G
  <2>1. n \in 0 .. n
    BY <1>1
  <2> HIDE DEF G
  <2> QED
    BY <1>1, <1>3, <1>4, <2>1, PlaceByPlace
<1> QED
  BY <1>2, <1>5

\* The slugs of a form's fields are ids.
LEMMA SlugsAreIds ==
  ASSUME NEW secs \in Seq(Digitized!SectionRow)
  PROVE  Digitized!Slugs(Digitized!Lists(secs)) \in Seq(Seq(Digitized!FieldId))
<1> DEFINE n == Len(secs)
           lists == Digitized!Lists(secs)
<1>1. n \in Nat /\ \A i \in 1 .. n : secs[i] \in Digitized!SectionRow
  OBVIOUS
<1>2. PICK f : /\ f[0] = <<>> /\ lists = f[n]
               /\ \A i \in 1 .. n : f[i] = ListsTurn(f[i - 1], secs[i])
  BY ListsUnfold
<1> HIDE DEF n, lists
<1> DEFINE G == {i \in 0 .. n : f[i] \in Seq(Seq(STRING))}
<1>3. 0 \in G
  <2>1. <<>> \in Seq(Seq(STRING)) /\ 0 \in 0 .. n
    BY <1>1
  <2> QED
    BY <1>2, <2>1
<1>4. ASSUME NEW i \in 1 .. n, i - 1 \in G PROVE i \in G
  <2> DEFINE both == <<secs[i].fields, secs[i].columns>>
  <2>1. f[i - 1] \in Seq(Seq(STRING)) /\ i \in 0 .. n
    BY <1>1, <1>4
  <2>2. both \in Seq(Seq(STRING))
    BY <1>1 DEF Digitized!SectionRow
  <2>3. f[i] = f[i - 1] \o both
    BY <1>2 DEF ListsTurn
  <2> HIDE DEF both
  <2>4. f[i - 1] \o both \in Seq(Seq(STRING))
    BY <2>1, <2>2, ConcatProperties
  <2> QED
    BY <2>1, <2>3, <2>4
<1>5. n \in G
  <2>1. n \in 0 .. n
    BY <1>1
  <2> HIDE DEF G
  <2> QED
    BY <1>1, <1>3, <1>4, <2>1, PlaceByPlace
<1>6. lists \in Seq(Seq(STRING))
  BY <1>2, <1>5
<1>7. \A l \in STRING : Digitized!Slug(l) \in Digitized!FieldId
  <2>1. <<>> \in Seq(Nat) /\ <<1>> \in Seq(Nat)
    OBVIOUS
  <2> QED
    BY <2>1 DEF Digitized!Slug, Digitized!FieldId
<1>8. ASSUME NEW s \in Seq(STRING)
      PROVE  [m \in DOMAIN s |-> Digitized!Slug(s[m])] \in Seq(Digitized!FieldId)
  <2>1. Len(s) \in Nat /\ DOMAIN s = 1 .. Len(s) /\ \A m \in 1 .. Len(s) : s[m] \in STRING
    OBVIOUS
  <2>2. [m \in DOMAIN s |-> Digitized!Slug(s[m])] \in [1 .. Len(s) -> Digitized!FieldId]
    BY <1>7, <2>1
  <2> QED
    BY <2>1, <2>2
<1>9. Digitized!Slugs(lists) \in [1 .. Len(lists) -> Seq(Digitized!FieldId)] /\ Len(lists) \in Nat
  <2>1. /\ Len(lists) \in Nat /\ DOMAIN lists = 1 .. Len(lists)
        /\ \A i \in 1 .. Len(lists) : lists[i] \in Seq(STRING)
    BY <1>6
  <2> QED
    BY <1>8, <2>1 DEF Digitized!Slugs
<1> QED
  BY <1>9 DEF lists

\* What was read is what was given, and there are no ids yet.
LEMMA InitDigitized ==
  ASSUME Digitized!Init
  PROVE  Digitized!IInv
<1>1. /\ r1 = "read" /\ r3 \in Input /\ r5 = <<>>
      /\ r4 = [type |-> "standard", sections |-> r3]
  BY DEF Digitized!Init
<1>2. r3 \in Seq(Digitized!SectionRow)
  BY <1>1, ServicesConstants DEF Digitized!FormSchemaConstants
<1>3. r5 \in Seq(Seq(Digitized!FieldId)) /\ Digitized!IdsAreDistinct
  <2>1. <<>> \in Seq(Seq(Digitized!FieldId))
    OBVIOUS
  <2>2. AllDistinct(<<>>)
    BY DEF AllDistinct
  <2> QED
    BY <1>1, <2>1, <2>2 DEF AllDistinct, Digitized!IdsAreDistinct
<1>4. Digitized!TypeOK
  BY <1>1, <1>2, <1>3 DEF Digitized!TypeOK
<1> QED
  BY <1>1, <1>3, <1>4 DEF Digitized!IInv, Digitized!NoFieldIsLost, Digitized!RepairKeepsTables

\* A step of the parsing, or the naming of the fields it leaves.
LEMMA NextDigitized ==
  ASSUME Digitized!IInv, Digitized!Next
  PROVE  Digitized!IInv'
<1>1. /\ r3 \in Seq(Digitized!SectionRow) /\ r4 \in DraftRow /\ r5 \in Seq(Seq(Digitized!FieldId))
      /\ AllDistinct(r5) /\ r4.sections \in Seq(Digitized!SectionRow)
      /\ r1 = "read" => r4.sections = r3
      /\ r1 = "normalized" => r4 = Digitized!Normalize(r3)
  BY DEF Digitized!IInv, Digitized!TypeOK, DraftRow, AllDistinct, Digitized!IdsAreDistinct
<1>2. Digitized!FormSchemaConstants
  BY ServicesConstants
<1>3. CASE Digitized!NormalizeDraft
  <2>1. /\ r1 = "read" /\ r1' = "normalized" /\ r4' = Digitized!Normalize(r3)
        /\ UNCHANGED <<r2, r3, r5>>
    BY <1>1, <1>3 DEF Digitized!NormalizeDraft
  <2>2. /\ r4' \in DraftRow
        /\ Len(Digitized!Labels(r4'.sections)) = Len(Digitized!Labels(r3))
        /\ \A l : Digitized!Times(l, Digitized!Labels(r4'.sections))
                  = Digitized!Times(l, Digitized!Labels(r3))
    BY <1>1, <2>1, NormalizeKeeps DEF DraftRow
  <2>3. Digitized!TypeOK'
    BY <1>1, <2>1, <2>2 DEF Digitized!TypeOK, DraftRow
  <2>4. Digitized!NoFieldIsLost'
    BY <2>1, <2>2 DEF Digitized!NoFieldIsLost
  <2>5. Digitized!IdsAreDistinct'
    BY <1>1, <2>1 DEF AllDistinct, Digitized!IdsAreDistinct
  <2>6. Digitized!RepairKeepsTables'
    BY <2>1 DEF Digitized!RepairKeepsTables
  <2> QED
    BY <2>1, <2>3, <2>4, <2>5, <2>6 DEF Digitized!IInv
<1>4. CASE Digitized!RepairDraft
  <2>1. /\ r1 = "normalized" /\ r4 = Digitized!Normalize(r3)
        /\ r1' = "repaired" /\ r4' = Digitized!Repair(r4) /\ UNCHANGED <<r2, r3, r5>>
    BY <1>1, <1>4 DEF Digitized!RepairDraft
  <2>2. r4' \in DraftRow
    BY <1>1, <1>2, <2>1, RepairIsTyped
  <2>3. Digitized!TypeOK'
    BY <1>1, <2>1, <2>2 DEF Digitized!TypeOK, DraftRow
  <2>4. Digitized!IdsAreDistinct'
    BY <1>1, <2>1 DEF AllDistinct, Digitized!IdsAreDistinct
  <2>5. Digitized!RepairKeepsTables'
    BY <1>1, <1>2, <2>1, RepairKeeps DEF Digitized!RepairKeepsTables
  <2>6. Digitized!NoFieldIsLost'
    <3>1. CASE ~r2
      <4>1. r4' = r4
        BY <2>1, <3>1 DEF Digitized!Repair
      <4> QED
        BY <2>1, <4>1 DEF Digitized!IInv, Digitized!NoFieldIsLost
    <3>2. CASE r2
      BY <2>1, <3>2 DEF Digitized!NoFieldIsLost
    <3> QED
      BY <3>1, <3>2
  <2> QED
    BY <2>1, <2>3, <2>4, <2>5, <2>6 DEF Digitized!IInv
<1>5. ASSUME NEW lists \in Seq(Seq(Digitized!FieldId)), r5' = Digitized!GenerateIds(lists),
             r1 \in {"repaired", "named"}, r1' \in {"named", "created"}, UNCHANGED <<r2, r3, r4>>
      PROVE  Digitized!IInv'
  <2>1. r5' \in Seq(Seq(Digitized!FieldId)) /\ AllDistinct(r5')
    BY <1>5, GenerateIsNew
  <2>2. Digitized!TypeOK'
    BY <1>1, <1>5, <2>1 DEF Digitized!TypeOK, DraftRow
  <2>3. Digitized!IdsAreDistinct'
    BY <2>1 DEF AllDistinct, Digitized!IdsAreDistinct
  <2>4. Digitized!NoFieldIsLost'
    BY <1>5 DEF Digitized!IInv, Digitized!NoFieldIsLost
  <2>5. Digitized!RepairKeepsTables'
    BY <1>5 DEF Digitized!IInv, Digitized!RepairKeepsTables
  <2> QED
    BY <1>5, <2>2, <2>3, <2>4, <2>5 DEF Digitized!IInv
<1>6. CASE Digitized!NameFields
  <2>1. /\ r1 = "repaired" /\ r1' = "named" /\ UNCHANGED <<r2, r3, r4>>
        /\ r5' = Digitized!GenerateIds(Digitized!Slugs(Digitized!Lists(r4.sections)))
    BY <1>6 DEF Digitized!NameFields
  <2> QED
    BY <1>1, <1>5, <2>1, SlugsAreIds
<1>7. CASE Digitized!Create
  <2>1. /\ r1 = "named" /\ r1' = "created" /\ UNCHANGED <<r2, r3, r4>>
        /\ r5' = Digitized!GenerateIds(r5)
    BY <1>7 DEF Digitized!Create
  <2> QED
    BY <1>1, <1>5, <2>1
<1> QED
  BY <1>3, <1>4, <1>6, <1>7 DEF Digitized!Next

\* The properties are parts of the invariant.
LEMMA FormsAreTrue ==
  ASSUME Digitized!IInv
  PROVE  Digitized!NoFieldIsLost /\ Digitized!RepairKeepsTables /\ Digitized!IdsAreDistinct
BY DEF Digitized!IInv

-----------------------------------------------------------------------------
(* The whole: the component the behaviour is of keeps its invariant, and the*)
(* others have nothing to keep.                                            *)

ServicesInv ==
  /\ subject = "billing" => Bill!IInv
  /\ subject = "records" => Records!IInv
  /\ subject = "import" => Import!IInv
  /\ subject = "digitized" => Digitized!IInv
  /\ subject = "staff" => Staff!IInv
  /\ subject = "unknown" => Unknown!IInv
  /\ subject = "limiter" => Limiter!IInv
  /\ subject = "merkle" => Tree!IInv

\* Each component begins in its invariant.
LEMMA InitServices == Init => ServicesInv
BY InitBilling, InitRecords, InitImport, InitStaff, InitUnknown, InitLimiter, InitTree,
   InitDigitized
   DEF Init, ServicesInv

\* A step that changes no register changes no invariant.
LEMMA StutterServices ==
  ASSUME ServicesInv, UNCHANGED <<subject, r1, r2, r3, r4, r5, r6, r7, r8, r9>>
  PROVE  ServicesInv'
<1>1. Bill!IInv => Bill!IInv'
  <2>1. Bill!TypeOK => Bill!TypeOK'
    BY DEF Bill!TypeOK
  <2>2. Bill!TimesRise => Bill!TimesRise'
    BY DEF Bill!TimesRise, Bill!Newest
  <2>3. Bill!HooksAreTrue => Bill!HooksAreTrue'
    BY DEF Bill!HooksAreTrue, Bill!NoHook, Bill!Carries, Bill!Bought, Bill!Dates, Bill!Bundle
  <2>4. Bill!OverridesStand => Bill!OverridesStand'
    BY DEF Bill!OverridesStand
  <2>5. Bill!OneAtATime => Bill!OneAtATime'
    BY DEF Bill!OneAtATime, Bill!NoHook
  <2>6. Bill!HooksAreCurrent => Bill!HooksAreCurrent'
    BY DEF Bill!HooksAreCurrent, Bill!Stale, Bill!Upserted, Bill!Bundle
  <2>7. Bill!AcknowledgedIsWritten => Bill!AcknowledgedIsWritten'
    BY DEF Bill!AcknowledgedIsWritten, Bill!Priced, Bill!Decisive, Bill!Latest, Bill!Newest
  <2>8. Bill!ModulesFollow => Bill!ModulesFollow'
    BY DEF Bill!ModulesFollow
  <2>9. Bill!TrialIsFirst => Bill!TrialIsFirst'
    BY <2>8 DEF Bill!TrialIsFirst, Bill!NoHook
  <2>10. Bill!Apart' => Bill!Apart
    BY DEF Bill!Apart, Bill!Dates, Bill!Bought
  <2>11. Bill!Owed => Bill!Owed'
    BY DEF Bill!Owed, Bill!Priced
  <2>12. Bill!CheckoutIsHarmless => Bill!CheckoutIsHarmless'
    BY DEF Bill!CheckoutIsHarmless, Bill!Bought, Bill!Carries, Bill!Upserted
  <2>13. Bill!PurchaseIsWritten => Bill!PurchaseIsWritten'
    BY DEF Bill!PurchaseIsWritten, Bill!Bought, Bill!Dates, Bill!Priced
  <2>14. Bill!Undisturbed => Bill!Undisturbed'
    BY <2>5, <2>6, <2>7, <2>8, <2>9, <2>10, <2>11, <2>12, <2>13 DEF Bill!Undisturbed
  <2> QED
    BY <2>1, <2>2, <2>3, <2>4, <2>14 DEF Bill!IInv
<1>2. Records!IInv => Records!IInv'
  <2>1. Records!TypeOK => Records!TypeOK'
    BY DEF Records!TypeOK, Records!OnPage, Records!Answers, Records!NoAnswers
  <2>2. Records!RecordIsTold => Records!RecordIsTold'
    BY DEF Records!RecordIsTold
  <2>3. Records!DesksAreTrue => Records!DesksAreTrue'
    BY DEF Records!DesksAreTrue, Records!Answers, Records!ToSet
  <2> QED
    BY <2>1, <2>2, <2>3 DEF Records!IInv
<1>3. Import!IInv => Import!IInv'
  BY DEF Import!IInv, Import!TypeOK, Import!PageRow, Import!JobRow, Import!JobIsOfThePhoto,
         Import!DraftIsOfThePhoto, Import!OneActive, Import!Active, Import!Job, Import!SlotsAreTaken,
         Import!Pending, Import!JobIsMetered, Import!NoJob
<1>4. Staff!IInv => Staff!IInv'
  BY DEF Staff!IInv, Staff!TypeOK, Staff!Row, Staff!RequestRow, Staff!TabRow, Staff!RequestsFit,
         Staff!LinksAreMailed, Staff!TabsFit, Staff!UsedIsBurnt, Staff!UnmailedIsUnused,
         Staff!DetailsAreOfTheTab, Staff!SeatsAreCounted, Staff!Registered, Staff!Creating,
         Staff!Storing, Staff!Held
<1>5. Unknown!IInv => Unknown!IInv'
  BY DEF Unknown!IInv, Unknown!Coming
<1>6. Limiter!IInv => Limiter!IInv'
  BY DEF Limiter!IInv, Limiter!NoWindowIsOverfull, Limiter!Time
<1>7. Tree!IInv => Tree!IInv'
  BY DEF Tree!IInv, Tree!TypeOK, Tree!LevelsAreOfTheRoot, Tree!ToSet
<1>8. Digitized!IInv => Digitized!IInv'
  BY DEF Digitized!IInv, Digitized!TypeOK, Digitized!NoFieldIsLost, Digitized!RepairKeepsTables,
         Digitized!IdsAreDistinct
<1> QED
  BY <1>1, <1>2, <1>3, <1>4, <1>5, <1>6, <1>7, <1>8 DEF ServicesInv

\* A step is of the component the behaviour is of, and keeps its invariant.
LEMMA NextServices == ServicesInv /\ Next => ServicesInv'
<1> SUFFICES ASSUME ServicesInv, Next PROVE ServicesInv'
  OBVIOUS
<1> USE DEF ServicesInv, Keeps4, Keeps5, Keeps6, Keeps8
<1>1. CASE BillStep
  BY <1>1, NextBilling DEF BillStep
<1>2. CASE RecordsStep
  BY <1>2, NextRecords DEF RecordsStep
<1>3. CASE ImportStep
  BY <1>3, NextImport DEF ImportStep
<1>4. CASE StaffStep
  BY <1>4, NextStaff DEF StaffStep
<1>5. CASE UnknownStep
  BY <1>5, NextUnknown DEF UnknownStep
<1>6. CASE LimiterStep
  BY <1>6, NextLimiter DEF LimiterStep
<1>7. CASE TreeStep
  BY <1>7, NextTree DEF TreeStep
<1>8. CASE DigitizedStep
  BY <1>8, NextDigitized DEF DigitizedStep
<1> QED
  BY <1>1, <1>2, <1>3, <1>4, <1>5, <1>6, <1>7, <1>8 DEF Next

\* The registers always hold a reachable state of the component they are of: every
\* component keeps its inductive invariant, for any number of webhooks, administrators,
\* photos, employees, devices and calls.
THEOREM ServicesInvariant == Spec => []ServicesInv
<1>1. ServicesInv /\ [Next]_<<subject, r1, r2, r3, r4, r5, r6, r7, r8, r9>> => ServicesInv'
  BY NextServices, StutterServices
<1> QED
  BY <1>1, InitServices, PTL DEF Spec

\* Billing: whatever the order of Stripe's webhooks and of the signup's own write, and
\* however often one failed half-way or came twice, the row of the subscription ends as
\* the newest change says: unless two of them overlapped and no later change has come
\* alone, two changes fell into one second, or the change is dated before the time that
\* the signup wrote.
THEOREM NewestEvent == Spec => []NewestEventWins
<1>1. ServicesInv => NewestEventWins
  BY BillingIsDue DEF ServicesInv, NewestEventWins
<1> QED
  BY <1>1, ServicesInvariant, PTL

\* Billing: when everything is handled the modules of the plan are those of the row, and
\* what the administrator chose stands until a plan with the module comes up.
THEOREM ModulesDue == Spec => []ModulesAreDue
<1>1. ServicesInv => ModulesAreDue
  BY BillingIsDue DEF ServicesInv, ModulesAreDue
<1> QED
  BY <1>1, ServicesInvariant, PTL

\* Forms: every value a submission has had is told by its audit trail, and a page out of
\* edit mode shows one of them.
THEOREM CorrectionsTraced == Spec => []CorrectionsAreTraced
<1>1. ServicesInv => CorrectionsAreTraced
  BY RecordsAreTraced DEF ServicesInv, CorrectionsAreTraced
<1> QED
  BY <1>1, ServicesInvariant, PTL

\* Form digitizing: the draft compared with the photo, and every draft saved, were read
\* from that photo, and no reading goes past the quota, whatever crashes and runs again.
THEOREM ReadingsOfThePhoto == Spec => []ReadingsAreOfThePhoto
<1>1. ServicesInv => ReadingsAreOfThePhoto
  BY ImportIsOfThePhoto DEF ServicesInv, ReadingsAreOfThePhoto
<1> QED
  BY <1>1, ServicesInvariant, PTL

\* The form read from a photo: turning lists into tables loses no field and doubles none,
\* the alignment of a livestock form completes the known layout and keeps every table that
\* was read whole, and no two fields share an id, for any sections the model may return.
THEOREM FormsAlwaysWhole == Spec => []FormsAreWhole
<1>1. ServicesInv => FormsAreWhole
  BY FormsAreTrue DEF ServicesInv, FormsAreWhole
<1> QED
  BY <1>1, ServicesInvariant, PTL

\* Bank links: a link that no two submissions use at once stores details at most once,
\* and the last screen shows what the row holds.
THEOREM LinksOnce == Spec => []LinksWorkOnce
<1>1. ServicesInv => LinksWorkOnce
  BY StaffIsTrue DEF ServicesInv, LinksWorkOnce
<1> QED
  BY <1>1, ServicesInvariant, PTL

\* Limits checked before the row they guard: seats are overrun by less than the requests
\* in flight, the log of unknown devices by less than its writers, and no window of the
\* rate limit has more calls than allowed.
THEOREM LimitsAreHeld == Spec => []LimitsHold
<1>1. Limiter!IInv => Limiter!NoWindowIsOverfull
  BY DEF Limiter!IInv
<1>2. ServicesInv => LimitsHold
  BY <1>1, StaffIsTrue, UnknownIsBounded DEF ServicesInv, LimitsHold
<1> QED
  BY <1>2, ServicesInvariant, PTL

\* The Merkle tree: the proof of a leaf leads from it to the root, for any number of
\* leaves, odd levels included, and a root stands for one list of leaves only.
THEOREM ProofsAlwaysSound == Spec => []ProofsAreSound
<1>1. ServicesInv => ProofsAreSound
  BY TreeIsTrue DEF ServicesInv, ProofsAreSound
<1> QED
  BY <1>1, ServicesInvariant, PTL
=============================================================================
