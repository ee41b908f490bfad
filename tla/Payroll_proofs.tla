--------------------------- MODULE Payroll_proofs ---------------------------
(***************************************************************************)
(* Proofs about Payroll and the time clock under it, for every set of      *)
(* employees and administrators, any number of sessions, computations and  *)
(* crashes, and any month, debounce window and longest shift.              *)
(*                                                                         *)
(* PInv adds the shapes of the rows, that what an administrator is about   *)
(* to write as a check-out is a time, and that a computation is about to   *)
(* delete no exception that was resolved.  MonthIsKept, which Payroll      *)
(* states, follows an undisturbed computation from statement to statement. *)
(***************************************************************************)
EXTENDS Payroll, FiniteSetTheorems, SequenceTheorems, TLAPS

SessionRow == [employee : Employee, in : Nat, out : Nat \cup {NotYet}, auto : BOOLEAN]
Job == Nat \cup {NoJob}
Exception == [session : Nat, by : Job, resolved : BOOLEAN]

JobState == {"waiting", "active", "completed", "failed", "stalled"}

WorkRow == [stage : {"idle", "taken", "checked", "kept", "deleted", "paid"},
            job : Job, kept : SUBSET Nat, gone : SUBSET Exception,
            paid : SUBSET [session : Nat, minutes : Int]]

ClockOK ==
  /\ now \in Nat
  /\ sessions \in Seq(SessionRow)

WorkOK ==
  /\ jobs \in Seq(JobState)
  /\ work \in WorkRow

ExceptionsOK ==
  /\ exceptions \subseteq Exception
  /\ \A x \in exceptions : x.session \in DOMAIN sessions

\* What an administrator has read is a session that is still there.
DeskOK ==
  /\ desk = [a \in Admin |-> desk[a]]
  /\ \A a \in Admin : desk[a] # Nothing => desk[a].out \in Nat \cup {NotYet}

NoneResolvedGoes == \A x \in work.gone : ~x.resolved

PInv ==
  /\ ClockOK
  /\ OneOpenSession
  /\ WorkOK
  /\ ExceptionsOK
  /\ DeskOK
  /\ NoneResolvedGoes
-----------------------------------------------------------------------------
(* The time clock.                                                         *)

\* Of a worker's open sessions, which are one at most, Max finds it.
LEMMA TheOpenSession ==
  ASSUME ClockOK, OneOpenSession, NEW e \in Employee, Open(e) # {}
  PROVE  Max(Open(e)) \in Open(e)
<1>1. PICK s \in Open(e) : TRUE
  OBVIOUS
<1>2. s \in Nat /\ Open(e) \subseteq DOMAIN sessions /\ DOMAIN sessions \subseteq Nat
  BY <1>1 DEF Open, ClockOK
<1>3. \A r \in Open(e) : s >= r
  BY <1>1, <1>2 DEF OneOpenSession, Open
<1> QED
  BY <1>1, <1>3 DEF Max

\* Sessions are closed, none is opened.
LEMMA ClosingKeepsOne ==
  ASSUME OneOpenSession,
         DOMAIN sessions' = DOMAIN sessions,
         \A s \in DOMAIN sessions : /\ sessions'[s].employee = sessions[s].employee
                                    /\ sessions'[s].out = NotYet => sessions[s].out = NotYet
  PROVE  OneOpenSession'
BY DEF OneOpenSession, Open, IsOpen

\* One session is replaced.
LEMMA OneSessionChanges ==
  ASSUME ClockOK, OneOpenSession, NEW s, NEW out \in Nat, NEW auto \in BOOLEAN,
         sessions' = [sessions EXCEPT ![s].out = out, ![s].auto = auto]
  PROVE  /\ sessions' \in Seq(SessionRow) /\ DOMAIN sessions' = DOMAIN sessions
         /\ OneOpenSession'
<1> DEFINE n == Len(sessions)
           mid == [sessions EXCEPT ![s].out = out]
<1>a. n \in Nat /\ DOMAIN sessions = 1..n /\ sessions \in [1..n -> SessionRow]
  BY DEF ClockOK
<1>b. /\ mid = [r \in 1..n |-> mid[r]]
      /\ \A r \in 1..n : /\ r # s => mid[r] = sessions[r]
                         /\ r = s => mid[r] = [sessions[s] EXCEPT !.out = out]
  BY <1>a
<1>c. sessions' = [mid EXCEPT ![s].auto = auto]
  OBVIOUS
<1> HIDE DEF mid, n
<1>1. DOMAIN sessions' = DOMAIN sessions
  BY <1>a, <1>b, <1>c
<1>2. \A r \in DOMAIN sessions :
        /\ sessions[r] \in SessionRow
        /\ r # s => sessions'[r] = sessions[r]
        /\ r = s => sessions'[r] = [sessions[s] EXCEPT !.out = out, !.auto = auto]
  BY <1>a, <1>b, <1>c
<1>3. \A r \in DOMAIN sessions :
        /\ sessions'[r] \in SessionRow
        /\ sessions'[r].employee = sessions[r].employee
        /\ sessions'[r].out = NotYet => sessions[r].out = NotYet
  <2> SUFFICES ASSUME NEW r \in DOMAIN sessions
               PROVE  /\ sessions'[r] \in SessionRow
                      /\ sessions'[r].employee = sessions[r].employee
                      /\ sessions'[r].out = NotYet => sessions[r].out = NotYet
    OBVIOUS
  <2>1. CASE r = s
    BY <1>2, <2>1 DEF SessionRow, NotYet
  <2>2. CASE r # s
    BY <1>2, <2>2
  <2> QED
    BY <2>1, <2>2
<1>4. sessions' \in Seq(SessionRow)
  <2>1. sessions' = [r \in 1..n |-> sessions'[r]]
    BY <1>a, <1>b, <1>c
  <2>2. sessions' \in [1..n -> SessionRow]
    BY <1>a, <1>3, <2>1
  <2> QED
    BY <1>a, <2>2, SeqDef
<1> QED
  BY <1>1, <1>3, <1>4, ClosingKeepsOne

\* A scan that is not bounced toggles.
LEMMA ToggleKeepsOne ==
  ASSUME ClockOK, OneOpenSession, NEW e \in Employee, sessions' = Toggled(e)
  PROVE  /\ sessions' \in Seq(SessionRow) /\ DOMAIN sessions \subseteq DOMAIN sessions'
         /\ OneOpenSession'
<1>1. CASE Open(e) # {}
  <2> DEFINE s == Max(Open(e))
  <2>1. s \in DOMAIN sessions /\ sessions' = [sessions EXCEPT ![s].out = now]
    BY <1>1, TheOpenSession DEF Toggled, Open
  <2> HIDE DEF s
  <2>2. sessions[s] \in SessionRow
    BY <2>1 DEF ClockOK
  <2>3. sessions[s].auto \in BOOLEAN /\ now \in Nat
    BY <2>2 DEF SessionRow, ClockOK
  <2>4. [sessions[s] EXCEPT !.out = now] = [sessions[s] EXCEPT !.out = now, !.auto = sessions[s].auto]
    BY <2>2 DEF SessionRow
  <2>5. sessions' = [sessions EXCEPT ![s].out = now, ![s].auto = sessions[s].auto]
    BY <2>1, <2>4
  <2> QED
    BY <2>3, <2>5, OneSessionChanges
<1>2. CASE Open(e) = {}
  <2> DEFINE row == [employee |-> e, in |-> now, out |-> NotYet, auto |-> FALSE]
             n == Len(sessions)
  <2>1. sessions' = Append(sessions, row)
    BY <1>2 DEF Toggled
  <2>2. row \in SessionRow
    BY DEF SessionRow, ClockOK
  <2>3. /\ n \in Nat /\ DOMAIN sessions = 1..n
        /\ sessions' \in Seq(SessionRow) /\ DOMAIN sessions' = 1..(n + 1)
        /\ sessions'[n + 1] = row
        /\ \A s \in 1..n : sessions'[s] = sessions[s]
    BY <2>1, <2>2 DEF ClockOK
  <2>4. row.employee = e
    OBVIOUS
  <2> HIDE DEF row, n
  <2>5. OneOpenSession'
    <3> SUFFICES ASSUME NEW k \in Employee, NEW s \in 1..(n + 1), NEW r \in 1..(n + 1),
                        sessions'[s].employee = k, sessions'[s].out = NotYet,
                        sessions'[r].employee = k
                 PROVE  r <= s
      BY <2>3 DEF OneOpenSession, Open, IsOpen
    <3>1. CASE s = n + 1
      BY <3>1, <2>3
    <3>2. CASE s \in 1..n
      <4>1. s \in Open(k)
        BY <3>2, <2>3 DEF Open, IsOpen
      <4>2. k # e
        BY <1>2, <4>1
      <4>3. r # n + 1
        BY <4>2, <2>3, <2>4
      <4>4. r \in 1..n
        BY <4>3, <2>3
      <4> QED
        BY <4>1, <4>4, <2>3 DEF OneOpenSession
    <3> QED
      BY <3>1, <3>2, <2>3
  <2> QED
    BY <2>3, <2>5
<1> QED
  BY <1>1, <1>2

LEMMA ClockStep ==
  ASSUME ClockOK, OneOpenSession, ClockNext
  PROVE  ClockOK' /\ OneOpenSession' /\ DOMAIN sessions \subseteq DOMAIN sessions'
<1>1. now' \in Nat
  <2>1. now' = now \/ now' = now + 1
    BY DEF ClockNext, Tick, SetStatus, BeginScan, Scan, LoseScan, ListStale, AutoClose
  <2> QED
    BY <2>1 DEF ClockOK
<1>2. CASE UNCHANGED sessions
  BY <1>1, <1>2 DEF ClockOK, OneOpenSession, Open, IsOpen
<1>3. ASSUME NEW e \in Employee, sessions' = Toggled(e)
      PROVE  ClockOK' /\ OneOpenSession' /\ DOMAIN sessions \subseteq DOMAIN sessions'
  BY <1>1, <1>3, ToggleKeepsOne DEF ClockOK
<1>4. ASSUME NEW s \in DOMAIN sessions, AutoClose(s)
      PROVE  ClockOK' /\ OneOpenSession' /\ DOMAIN sessions \subseteq DOMAIN sessions'
  <2> DEFINE closeAt == sessions[s].in + MaxShift
  <2>1. closeAt \in Nat
    <3>1. sessions[s] \in SessionRow
      BY DEF ClockOK
    <3> QED
      BY <3>1, ClockAssumption DEF SessionRow
  <2>2. sessions' = [sessions EXCEPT ![s].out = closeAt, ![s].auto = TRUE]
    BY <1>4 DEF AutoClose
  <2> HIDE DEF closeAt
  <2>3. /\ sessions' \in Seq(SessionRow) /\ DOMAIN sessions' = DOMAIN sessions
        /\ OneOpenSession'
    BY <2>1, <2>2, OneSessionChanges
  <2> QED
    BY <1>1, <2>3 DEF ClockOK
<1>5. \/ UNCHANGED sessions
      \/ \E e \in Employee : sessions' = Toggled(e)
      \/ \E s \in DOMAIN sessions : AutoClose(s)
  BY DEF ClockNext, Tick, SetStatus, BeginScan, Scan, LoseScan, ListStale
<1> QED
  BY <1>2, <1>3, <1>4, <1>5
-----------------------------------------------------------------------------
(* The month's run.                                                        *)

LEMMA InitPInv == Init => PInv
<1> SUFFICES ASSUME Init PROVE PInv
  OBVIOUS
<1> USE DEF Init, ClockInit
<1>1. ClockOK /\ OneOpenSession
  BY DEF ClockOK, OneOpenSession, Open
<1>2. WorkOK /\ NoneResolvedGoes
  BY DEF WorkOK, WorkRow, Job, Idle, NoneResolvedGoes
<1>3. ExceptionsOK /\ DeskOK
  BY DEF ExceptionsOK, DeskOK
<1> QED
  BY <1>1, <1>2, <1>3 DEF PInv

\* The clock goes on.
LEMMA ClockPInv ==
  ASSUME PInv, Clock
  PROVE  PInv'
<1>1. ClockOK' /\ OneOpenSession' /\ DOMAIN sessions \subseteq DOMAIN sessions'
  BY ClockStep DEF PInv, Clock
<1>2. UNCHANGED <<exceptions, jobs, work, desk>>
  BY DEF Clock, pay, queue
<1>3. WorkOK' /\ ExceptionsOK' /\ DeskOK' /\ NoneResolvedGoes'
  BY <1>1, <1>2 DEF PInv, WorkOK, ExceptionsOK, DeskOK, NoneResolvedGoes
<1> QED
  BY <1>1, <1>3 DEF PInv

\* The worker, the queue, the page and the approval leave clock and desks alone.
LEMMA QueuePInv ==
  ASSUME PInv, UNCHANGED <<now, sessions, desk>>,
         WorkOK', ExceptionsOK', NoneResolvedGoes'
  PROVE  PInv'
<1>1. ClockOK' /\ OneOpenSession' /\ DeskOK'
  BY DEF PInv, ClockOK, OneOpenSession, Open, IsOpen, DeskOK
<1> QED
  BY <1>1 DEF PInv

LEMMA IdleOK == Idle \in WorkRow /\ Idle.gone = {}
BY DEF Idle, WorkRow, Job

\* A job's state is overwritten.
LEMMA JobsStay ==
  ASSUME jobs \in Seq(JobState), NEW j, NEW state \in JobState
  PROVE  [jobs EXCEPT ![j] = state] \in Seq(JobState)
<1>1. Len(jobs) \in Nat /\ jobs \in [1..Len(jobs) -> JobState]
  OBVIOUS
<1>2. [jobs EXCEPT ![j] = state] \in [1..Len(jobs) -> JobState]
  BY <1>1
<1> QED
  BY <1>1, <1>2, SeqDef

\* Computations begin, go on, end and are left behind.
LEMMA WorkPInv ==
  ASSUME PInv, Compute \/ Poll \/ Serve \/ Fail \/ Crash \/ Recover \/ Approve
  PROVE  PInv'
<1>1. jobs \in Seq(JobState) /\ work \in WorkRow
  BY DEF PInv, WorkOK
<1>2. UNCHANGED <<now, sessions, desk>>
  BY DEF Compute, Poll, Serve, Take, Check, KeepResolved, DeleteUnresolved, PayClean, Commit,
         Fail, Crash, Recover, Approve, clock
<1>3. CASE UNCHANGED <<exceptions, work>> /\ jobs' \in Seq(JobState)
  <2>1. WorkOK' /\ ExceptionsOK' /\ NoneResolvedGoes'
    BY <1>2, <1>3 DEF PInv, WorkOK, ExceptionsOK, NoneResolvedGoes
  <2> QED
    BY <1>2, <2>1, QueuePInv
<1>4. CASE UNCHANGED exceptions /\ work' = Idle /\ jobs' \in Seq(JobState)
  <2>1. WorkOK' /\ ExceptionsOK' /\ NoneResolvedGoes'
    BY <1>2, <1>4, IdleOK DEF PInv, WorkOK, ExceptionsOK, NoneResolvedGoes
  <2> QED
    BY <1>2, <2>1, QueuePInv
<1>5. ASSUME NEW result \in JobState, Finish(result)
      PROVE  jobs' \in Seq(JobState) /\ work' = Idle
  BY <1>1, <1>5, JobsStay DEF Finish
<1>6. CASE Compute
  <2>1. jobs' = Append(jobs, "waiting") /\ UNCHANGED <<exceptions, work>>
    BY <1>6 DEF Compute, pay
  <2>2. jobs' \in Seq(JobState)
    BY <1>1, <2>1 DEF JobState
  <2> QED
    BY <1>3, <2>1, <2>2
<1>7. CASE Poll \/ Approve
  BY <1>1, <1>3, <1>7 DEF Poll, Approve, pay, queue
<1>8. CASE Recover
  <2>1. PICK j \in DOMAIN jobs :
          jobs' = [jobs EXCEPT ![j] = IF stalls[j] < MaxStalled THEN "waiting" ELSE "failed"]
    BY <1>8 DEF Recover
  <2>2. (IF stalls[j] < MaxStalled THEN "waiting" ELSE "failed") \in JobState
    BY DEF JobState
  <2>3. jobs' \in Seq(JobState)
    BY <1>1, <2>1, <2>2, JobsStay
  <2> QED
    BY <1>3, <1>8, <2>3 DEF Recover, pay
<1>9. CASE Fail \/ Crash
  <2>1. (Finish("failed") \/ Finish("stalled")) /\ UNCHANGED exceptions
    BY <1>9 DEF Fail, Crash, pay
  <2>2. jobs' \in Seq(JobState) /\ work' = Idle
    BY <2>1, <1>5 DEF JobState
  <2> QED
    BY <1>4, <2>1, <2>2
<1>10. CASE Take
  <2>1. PICK j \in DOMAIN jobs : /\ jobs' = [jobs EXCEPT ![j] = "active"]
                                 /\ work' = [Idle EXCEPT !.stage = "taken", !.job = j]
    BY <1>10 DEF Take
  <2>2. jobs' \in Seq(JobState) /\ j \in Nat
    BY <1>1, <2>1, JobsStay DEF JobState
  <2>3. work' \in WorkRow /\ work'.gone = {}
    BY <2>1, <2>2 DEF Idle, WorkRow, Job
  <2>4. WorkOK' /\ ExceptionsOK' /\ NoneResolvedGoes'
    BY <1>2, <1>10, <2>2, <2>3 DEF PInv, WorkOK, ExceptionsOK, NoneResolvedGoes, Take, pay
  <2> QED
    BY <1>2, <2>4, QueuePInv
<1>11. CASE Check
  <2>1. CASE Recomputable
    <3>1. /\ work' = [work EXCEPT !.stage = "checked"] /\ jobs' = jobs
          /\ UNCHANGED exceptions
      BY <1>11, <2>1 DEF Check, pay
    <3>2. work' \in WorkRow /\ work'.gone = work.gone
      BY <1>1, <3>1 DEF WorkRow
    <3>3. WorkOK' /\ ExceptionsOK' /\ NoneResolvedGoes'
      BY <1>1, <1>2, <3>1, <3>2 DEF PInv, WorkOK, ExceptionsOK, NoneResolvedGoes
    <3> QED
      BY <1>2, <3>3, QueuePInv
  <2>2. CASE ~Recomputable
    <3>1. Finish("failed") /\ UNCHANGED exceptions
      BY <1>11, <2>2 DEF Check, pay
    <3>2. jobs' \in Seq(JobState) /\ work' = Idle
      BY <3>1, <1>5 DEF JobState
    <3> QED
      BY <1>4, <3>1, <3>2
  <2> QED
    BY <2>1, <2>2
<1>12. CASE KeepResolved
  <2>1. /\ work' = [work EXCEPT !.stage = "kept", !.kept = Kept]
        /\ UNCHANGED <<exceptions, jobs>>
    BY <1>12 DEF KeepResolved, pay
  <2>2. Kept \in SUBSET Nat
    BY DEF Kept, SetAside, PInv, ExceptionsOK, Exception
  <2>3. work' \in WorkRow /\ work'.gone = work.gone
    BY <1>1, <2>1, <2>2 DEF WorkRow
  <2>4. WorkOK' /\ ExceptionsOK' /\ NoneResolvedGoes'
    BY <1>1, <1>2, <2>1, <2>3 DEF PInv, WorkOK, ExceptionsOK, NoneResolvedGoes
  <2> QED
    BY <1>2, <2>4, QueuePInv
<1>13. CASE DeleteUnresolved
  <2>1. /\ work' = [work EXCEPT !.stage = "deleted", !.gone = Unresolved]
        /\ UNCHANGED <<exceptions, jobs>>
    BY <1>13 DEF DeleteUnresolved, pay
  <2>2. Unresolved \in SUBSET Exception /\ \A x \in Unresolved : ~x.resolved
    BY DEF Unresolved, PInv, ExceptionsOK
  <2>3. work' \in WorkRow /\ work'.gone = Unresolved
    BY <1>1, <2>1, <2>2 DEF WorkRow
  <2>4. WorkOK' /\ ExceptionsOK' /\ NoneResolvedGoes'
    BY <1>1, <1>2, <2>1, <2>2, <2>3 DEF PInv, WorkOK, ExceptionsOK, NoneResolvedGoes
  <2> QED
    BY <1>2, <2>4, QueuePInv
<1>14. CASE PayClean
  <2> DEFINE paid == {[session |-> s, minutes |-> Minutes(s)] : s \in Payable}
  <2>1. /\ work' = [work EXCEPT !.stage = "paid", !.paid = paid]
        /\ UNCHANGED <<exceptions, jobs>>
    BY <1>14 DEF PayClean, pay
  <2>2. paid \in SUBSET [session : Nat, minutes : Int]
    <3> SUFFICES ASSUME NEW s \in Payable PROVE s \in Nat /\ Minutes(s) \in Int
      OBVIOUS
    <3>1. s \in DOMAIN sessions
      BY DEF Payable
    <3>2. s \in Nat /\ sessions[s] \in SessionRow
      BY <3>1 DEF PInv, ClockOK
    <3> QED
      BY <3>2 DEF Minutes, NotYet, SessionRow
  <2> HIDE DEF paid
  <2>3. work' \in WorkRow /\ work'.gone = work.gone
    BY <1>1, <2>1, <2>2 DEF WorkRow
  <2>4. WorkOK' /\ ExceptionsOK' /\ NoneResolvedGoes'
    BY <1>1, <1>2, <2>1, <2>3 DEF PInv, WorkOK, ExceptionsOK, NoneResolvedGoes
  <2> QED
    BY <1>2, <2>4, QueuePInv
<1>15. CASE Commit
  <2>1. jobs' \in Seq(JobState) /\ work' = Idle
    <3>1. Finish("completed")
      BY <1>15 DEF Commit
    <3> QED
      BY <3>1, <1>5 DEF JobState
  <2>2. exceptions' = (exceptions \ work.gone) \cup
          {[session |-> s, by |-> work.job, resolved |-> FALSE] : s \in Dirty \ work.kept}
    BY <1>15 DEF Commit
  <2>3. work.job \in Job /\ Dirty \subseteq DOMAIN sessions /\ DOMAIN sessions \subseteq Nat
    BY <1>1 DEF WorkRow, Dirty, PInv, ClockOK
  <2>4. ExceptionsOK'
    <3>1. \A x \in exceptions : x \in Exception /\ x.session \in DOMAIN sessions
      BY DEF PInv, ExceptionsOK
    <3>2. ASSUME NEW s \in Dirty \ work.kept
          PROVE  [session |-> s, by |-> work.job, resolved |-> FALSE] \in Exception
      BY <2>3 DEF Exception
    <3>3. ASSUME NEW x \in exceptions'
          PROVE  x \in Exception /\ x.session \in DOMAIN sessions
      <4>1. CASE x \in exceptions
        BY <3>1, <4>1
      <4>2. CASE \E s \in Dirty \ work.kept :
                   x = [session |-> s, by |-> work.job, resolved |-> FALSE]
        BY <2>3, <3>2, <4>2
      <4> QED
        BY <2>2, <4>1, <4>2
    <3> QED
      BY <1>2, <3>3 DEF ExceptionsOK
  <2>5. WorkOK' /\ NoneResolvedGoes'
    BY <2>1, IdleOK DEF WorkOK, NoneResolvedGoes
  <2> QED
    BY <1>2, <2>4, <2>5, QueuePInv
<1> QED
  BY <1>6, <1>7, <1>8, <1>9, <1>10, <1>11, <1>12, <1>13, <1>14, <1>15 DEF Serve

\* Administrators resolve exceptions.
LEMMA DeskPInv ==
  ASSUME PInv, NEW a \in Admin, BeginResolve(a) \/ Resolve(a) \/ MissResolve(a)
  PROVE  PInv'
<1>1. /\ sessions \in Seq(SessionRow) /\ DOMAIN sessions \subseteq Nat
      /\ desk = [k \in Admin |-> desk[k]]
  BY DEF PInv, ClockOK, DeskOK
<1>2. WorkOK' /\ NoneResolvedGoes' /\ now' \in Nat
  BY DEF PInv, WorkOK, NoneResolvedGoes, ClockOK, BeginResolve, Resolve, MissResolve, clock, queue
<1>3. CASE UNCHANGED <<sessions, exceptions>>
  <2>1. ClockOK' /\ OneOpenSession' /\ ExceptionsOK'
    BY <1>2, <1>3 DEF PInv, ClockOK, OneOpenSession, Open, IsOpen, ExceptionsOK
  <2>2. CASE BeginResolve(a)
    <3>1. PICK x \in exceptions :
            \E out \in {NotYet} \cup {sessions[x.session].in + d : d \in 1..MaxShift} :
              desk' = [desk EXCEPT ![a] = [x |-> x, out |-> out]]
      BY <2>2 DEF BeginResolve
    <3>2. x.session \in DOMAIN sessions
      BY DEF PInv, ExceptionsOK
    <3>3. sessions[x.session] \in SessionRow
      BY <1>1, <3>2
    <3>4. \A d \in 1..MaxShift : sessions[x.session].in + d \in Nat
      BY <3>3, ClockAssumption DEF SessionRow
    <3>5. PICK out \in Nat \cup {NotYet} : desk' = [desk EXCEPT ![a] = [x |-> x, out |-> out]]
      BY <3>1, <3>4
    <3>6. DeskOK'
      BY <1>1, <3>5 DEF PInv, DeskOK
    <3> QED
      BY <1>2, <2>1, <3>6 DEF PInv
  <2>3. CASE desk' = [desk EXCEPT ![a] = Nothing]
    <3>1. DeskOK'
      BY <1>1, <2>3 DEF PInv, DeskOK
    <3> QED
      BY <1>2, <2>1, <3>1 DEF PInv
  <2> QED
    BY <2>2, <2>3 DEF Resolve, MissResolve
<1>4. CASE Resolve(a)
  <2>1. /\ desk[a] # Nothing /\ desk' = [desk EXCEPT ![a] = Nothing]
        /\ exceptions' = Resolved(desk[a].x)
        /\ sessions' = IF desk[a].out = NotYet THEN sessions
                       ELSE Repaired(desk[a].x.session, desk[a].out)
    BY <1>4 DEF Resolve
  <2>2. DeskOK'
    BY <1>1, <2>1 DEF PInv, DeskOK
  <2>3. ClockOK' /\ OneOpenSession' /\ DOMAIN sessions' = DOMAIN sessions
    <3>1. CASE desk[a].out = NotYet
      BY <1>2, <2>1, <3>1 DEF PInv, ClockOK, OneOpenSession, Open, IsOpen
    <3>2. CASE desk[a].out # NotYet
      <4>1. desk[a].out \in Nat
        BY <2>1, <3>2 DEF PInv, DeskOK
      <4>2. sessions' = [sessions EXCEPT ![desk[a].x.session].out = desk[a].out,
                                         ![desk[a].x.session].auto = FALSE]
        BY <2>1, <3>2 DEF Repaired
      <4>3. /\ sessions' \in Seq(SessionRow) /\ DOMAIN sessions' = DOMAIN sessions
            /\ OneOpenSession'
        BY <4>1, <4>2, OneSessionChanges DEF PInv
      <4> QED
        BY <1>2, <4>3 DEF ClockOK
    <3> QED
      BY <3>1, <3>2
  <2>4. ExceptionsOK'
    <3> SUFFICES ASSUME NEW x \in exceptions'
                 PROVE  x \in Exception /\ x.session \in DOMAIN sessions
      BY <2>3 DEF ExceptionsOK
    <3>1. PICK y \in exceptions : x = y \/ x = [y EXCEPT !.resolved = TRUE]
      BY <2>1 DEF Resolved
    <3>2. y \in Exception /\ y.session \in DOMAIN sessions
      BY DEF PInv, ExceptionsOK
    <3> QED
      BY <3>1, <3>2 DEF Exception
  <2> QED
    BY <1>2, <2>2, <2>3, <2>4 DEF PInv
<1> QED
  BY <1>3, <1>4 DEF BeginResolve, MissResolve, clock, pay

LEMMA NextPInv == PInv /\ [Next]_vars => PInv'
<1> SUFFICES ASSUME PInv, [Next]_vars PROVE PInv'
  OBVIOUS
<1>1. CASE UNCHANGED vars
  <2>1. UNCHANGED <<now, sessions, desk, exceptions, jobs, work>>
    BY <1>1 DEF vars, clock, pay, queue
  <2>2. WorkOK' /\ ExceptionsOK' /\ NoneResolvedGoes'
    BY <2>1 DEF PInv, WorkOK, ExceptionsOK, NoneResolvedGoes
  <2> QED
    BY <2>1, <2>2, QueuePInv
<1> QED
  BY <1>1, ClockPInv, WorkPInv, DeskPInv DEF Next
-----------------------------------------------------------------------------
(* The month's account.                                                    *)

\* Who is paid and who is held back is a matter of the sessions and the exceptions.
LEMMA SameAccount ==
  ASSUME UNCHANGED <<sessions, exceptions>>
  PROVE  /\ Payable' = Payable /\ Dirty' = Dirty /\ PaidFor' = PaidFor
         /\ SetAside' = SetAside /\ Held' = Held /\ Unresolved' = Unresolved
         /\ UNCHANGED lines => (Accounted => Accounted')
<1>1. Payable' = Payable /\ Dirty' = Dirty /\ \A s : Minutes(s)' = Minutes(s)
  BY DEF Payable, Dirty, InMonth, Clean, IsOpen, Minutes
<1>2. SetAside' = SetAside /\ Held' = Held /\ Unresolved' = Unresolved
  BY DEF SetAside, Held, Unresolved
<1>3. PaidFor' = PaidFor
  BY <1>1 DEF PaidFor
<1>4. UNCHANGED lines => (Accounted => Accounted')
  BY <1>1, <1>2 DEF Accounted
<1> QED
  BY <1>1, <1>2, <1>3, <1>4

\* A step that leaves the rows and the computation alone.
LEMMA MonthStays ==
  ASSUME MonthIsKept, settled' => settled, UNCHANGED work,
         settled' => UNCHANGED <<sessions, exceptions, lines>>
  PROVE  MonthIsKept'
<1> SUFFICES ASSUME settled' PROVE MonthIsKept'
  BY DEF MonthIsKept
<1>1. settled /\ UNCHANGED <<sessions, exceptions, lines>>
  OBVIOUS
<1> QED
  BY <1>1, SameAccount DEF MonthIsKept

\* The commit of an undisturbed computation accounts for the month.
LEMMA CommitAccounts ==
  ASSUME PInv, MonthIsKept, Commit, settled
  PROVE  Accounted'
<1> DEFINE New(s) == [session |-> s, by |-> work.job, resolved |-> FALSE]
<1>1. /\ work.kept = SetAside /\ work.gone = Unresolved /\ work.paid = PaidFor
      /\ lines' = work.paid /\ UNCHANGED sessions
      /\ exceptions' = (exceptions \ work.gone) \cup {New(s) : s \in Dirty \ work.kept}
  BY DEF MonthIsKept, Commit, clock
<1>2. Payable' = Payable /\ Dirty' = Dirty /\ \A s : Minutes(s)' = Minutes(s)
  BY <1>1 DEF Payable, Dirty, InMonth, Clean, IsOpen, Minutes
<1>3. Payable \cap Dirty = {}
  BY DEF Payable, Dirty
<1>4. exceptions' = {x \in exceptions : x.resolved} \cup {New(s) : s \in Dirty \ SetAside}
  BY <1>1 DEF Unresolved
<1>5. \A x \in exceptions' : ~x.resolved => \E s \in Dirty \ SetAside : x = New(s)
  BY <1>4
<1>6. Held' = Dirty \ SetAside
  <2>1. \A s \in Dirty \ SetAside : New(s) \in exceptions' /\ New(s).session = s /\ ~New(s).resolved
    BY <1>4
  <2> HIDE DEF New
  <2>2. \A x \in exceptions' : ~x.resolved => x.session \in Dirty \ SetAside
    BY <1>5, <2>1
  <2> QED
    BY <2>1, <2>2 DEF Held
<1>7. SetAside' = SetAside
  <2>1. \A x \in exceptions' : x.resolved => x \in exceptions
    BY <1>4
  <2>2. \A x \in exceptions : x.resolved => x \in exceptions'
    BY <1>4
  <2> QED
    BY <2>1, <2>2 DEF SetAside
<1>8. ASSUME NEW s \in Dirty
      PROVE  Cardinality({x \in exceptions' : x.session = s /\ ~x.resolved}) <= 1
  <2> DEFINE mine == {x \in exceptions' : x.session = s /\ ~x.resolved}
  <2>1. mine \subseteq {New(s)}
    BY <1>5
  <2> HIDE DEF mine
  <2>2. IsFiniteSet({New(s)}) /\ Cardinality({New(s)}) = 1
    BY FS_Singleton
  <2>3. Cardinality(mine) <= 1
    BY <2>1, <2>2, FS_Subset
  <2> QED
    BY <2>3 DEF mine
<1>9. {l.session : l \in lines'} = Payable /\ \A l \in lines' : l.minutes = Minutes(l.session)
  <2> DEFINE Line(s) == [session |-> s, minutes |-> Minutes(s)]
  <2>1. lines' = {Line(s) : s \in Payable}
    BY <1>1 DEF PaidFor
  <2>2. \A s : Line(s).session = s /\ Line(s).minutes = Minutes(s)
    OBVIOUS
  <2> HIDE DEF Line
  <2>3. {Line(s).session : s \in Payable} = Payable
    BY <2>2
  <2> QED
    BY <2>1, <2>2, <2>3
<1> QED
  BY <1>2, <1>3, <1>6, <1>7, <1>8, <1>9 DEF Accounted

\* A computation that begins, goes on or ends.
LEMMA ServeMonth ==
  ASSUME PInv, MonthIsKept, Serve
  PROVE  MonthIsKept'
<1>1. work \in WorkRow /\ Idle.stage = "idle"
  BY DEF PInv, WorkOK, Idle
<1>2. CASE Take
  <2>1. work.stage = "idle" /\ work'.stage = "taken" /\ UNCHANGED <<sessions, exceptions, lines, settled>>
    BY <1>1, <1>2 DEF Take, Idle, clock, pay
  <2> QED
    BY <2>1, SameAccount DEF MonthIsKept
<1>3. CASE Check
  <2>1. work.stage = "taken" /\ work'.stage \in {"checked", "idle"}
        /\ UNCHANGED <<sessions, exceptions, lines, settled>>
    BY <1>1, <1>3 DEF Check, Finish, WorkRow, clock, pay
  <2> QED
    BY <2>1, SameAccount DEF MonthIsKept
<1>4. CASE KeepResolved
  <2>1. work'.stage = "kept" /\ work'.kept = SetAside /\ UNCHANGED <<sessions, exceptions>>
    BY <1>1, <1>4 DEF KeepResolved, Kept, WorkRow, clock, pay
  <2> QED
    BY <2>1, SameAccount DEF MonthIsKept
<1>5. CASE DeleteUnresolved
  <2>1. /\ work.stage = "kept" /\ work'.stage = "deleted" /\ work'.kept = work.kept
        /\ work'.gone = Unresolved /\ UNCHANGED <<sessions, exceptions, settled>>
    BY <1>1, <1>5 DEF DeleteUnresolved, WorkRow, clock, pay
  <2> QED
    BY <2>1, SameAccount DEF MonthIsKept
<1>6. CASE PayClean
  <2>1. /\ work.stage = "deleted" /\ work'.stage = "paid" /\ work'.kept = work.kept
        /\ work'.gone = work.gone /\ work'.paid = PaidFor
        /\ UNCHANGED <<sessions, exceptions, settled>>
    BY <1>1, <1>6 DEF PayClean, PaidFor, WorkRow, clock, pay
  <2> QED
    BY <2>1, SameAccount DEF MonthIsKept
<1>7. CASE Commit
  <2>1. work'.stage = "idle" /\ UNCHANGED settled
    BY <1>1, <1>7 DEF Commit, Finish
  <2>2. settled => Accounted'
    BY <1>7, CommitAccounts
  <2> QED
    BY <2>1, <2>2 DEF MonthIsKept
<1> QED
  BY <1>2, <1>3, <1>4, <1>5, <1>6, <1>7 DEF Serve

\* Every step keeps the account, or the month is not settled after it.
LEMMA NextMonth == PInv /\ MonthIsKept /\ [Next]_vars => MonthIsKept'
<1> SUFFICES ASSUME PInv, MonthIsKept, [Next]_vars PROVE MonthIsKept'
  OBVIOUS
<1>1. CASE UNCHANGED vars \/ Compute \/ Poll \/ Recover \/ Approve
  BY <1>1, MonthStays DEF vars, Compute, Poll, Recover, Approve, clock, pay, queue
<1>2. CASE Clock
  BY <1>2, MonthStays DEF Clock, pay, queue
<1>3. CASE Fail \/ Crash
  BY <1>3 DEF Fail, Crash, MonthIsKept
<1>4. ASSUME NEW a \in Admin, BeginResolve(a) \/ Resolve(a) \/ MissResolve(a)
      PROVE  MonthIsKept'
  <2>1. CASE Resolve(a)
    BY <2>1 DEF Resolve, MonthIsKept
  <2>2. CASE BeginResolve(a) \/ MissResolve(a)
    BY <2>2, MonthStays DEF BeginResolve, MissResolve, clock, pay, queue
  <2> QED
    BY <1>4, <2>1, <2>2
<1> QED
  BY <1>1, <1>2, <1>3, <1>4, ServeMonth DEF Next
-----------------------------------------------------------------------------
(* The theorems.                                                           *)

LEMMA PayrollInvariant == Spec => []PInv
BY InitPInv, NextPInv, PTL DEF Spec

\* A worker is never checked in twice, whatever scans, sweeps and repairs overlap.
THEOREM OneSessionIsOpen == Spec => []OneOpenSession
<1>1. PInv => OneOpenSession
  BY DEF PInv
<1> QED
  BY <1>1, PayrollInvariant, PTL

\* After a computation that nothing disturbed, every session of the month is paid,
\* held back or set aside, and only one of these.
THEOREM MonthIsAccounted == Spec => []MonthAccounted
<1>1. Init => MonthIsKept
  BY DEF Init, MonthIsKept
<1>2. PInv /\ MonthIsKept => MonthAccounted
  BY DEF MonthIsKept, MonthAccounted, Idle
<1> QED
  BY <1>1, <1>2, NextMonth, PayrollInvariant, PTL DEF Spec

\* No computation undoes a resolution.
THEOREM ResolutionsAreFinal == Spec => ResolutionsStand
<1>1. PInv /\ [Next]_vars => [\A x \in exceptions : x.resolved => x \in exceptions']_vars
  <2> SUFFICES ASSUME PInv, Next, NEW x \in exceptions, x.resolved
               PROVE  x \in exceptions'
    OBVIOUS
  <2>1. CASE UNCHANGED exceptions
    BY <2>1
  <2>2. CASE Commit
    BY <2>2 DEF Commit, PInv, NoneResolvedGoes
  <2>3. ASSUME NEW a \in Admin, Resolve(a) PROVE x \in exceptions'
    <3>1. x \in Exception
      BY DEF PInv, ExceptionsOK
    <3>2. [x EXCEPT !.resolved = TRUE] = x
      BY <3>1 DEF Exception
    <3> QED
      BY <2>3, <3>2 DEF Resolve, Resolved
  <2>4. UNCHANGED exceptions \/ Commit \/ \E a \in Admin : Resolve(a)
    BY DEF Next, Clock, Compute, Poll, Serve, Take, Check, KeepResolved, DeleteUnresolved,
           PayClean, Fail, Crash, Recover, BeginResolve, MissResolve, Approve, pay
  <2> QED
    BY <2>1, <2>2, <2>3, <2>4
<1> QED
  BY <1>1, PayrollInvariant, PTL DEF Spec, ResolutionsStand

\* Nothing that begins after the approval writes a line or an exception.
THEOREM ApprovalIsFinal == Spec => ApprovedIsFrozen
<1>1. PInv /\ [Next]_vars => [Frozen => Frozen' /\ pay' = pay]_vars
  <2> SUFFICES ASSUME PInv, Next, Frozen PROVE Frozen' /\ pay' = pay
    OBVIOUS
  <2>1. CASE UNCHANGED <<pay, work, desk>>
    BY <2>1 DEF Frozen, pay
  <2>2. CASE UNCHANGED <<pay, desk>> /\ work' = Idle
    BY <2>2 DEF Frozen, pay, Idle
  <2>3. CASE Take
    <3>1. work'.stage = "taken"
      BY <2>3 DEF Take, Idle
    <3> QED
      BY <2>3, <3>1 DEF Take, Frozen, pay
  <2>4. CASE Check
    BY <2>2, <2>4 DEF Check, Recomputable, Frozen, Finish
  <2>5. ~(KeepResolved \/ DeleteUnresolved \/ PayClean \/ Commit \/ Approve)
    BY DEF Frozen, KeepResolved, DeleteUnresolved, PayClean, Commit, Approve
  <2>6. \A a \in Admin : ~BeginResolve(a) /\ ~Resolve(a) /\ ~MissResolve(a)
    BY DEF Frozen, BeginResolve, Resolve, MissResolve
  <2>7. CASE Clock \/ Compute \/ Poll \/ Recover
    BY <2>1, <2>7 DEF Clock, Compute, Poll, Recover, queue
  <2>8. CASE Fail \/ Crash
    BY <2>2, <2>8 DEF Fail, Crash, Finish
  <2> QED
    BY <2>3, <2>4, <2>5, <2>6, <2>7, <2>8 DEF Next, Serve
<1> QED
  BY <1>1, PayrollInvariant, PTL DEF Spec, ApprovedIsFrozen
=============================================================================
