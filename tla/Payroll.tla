------------------------------ MODULE Payroll ------------------------------
(***************************************************************************)
(* One month's payroll run (apps/api/src/services/payroll.service.ts), the *)
(* job that computes it (lib/queue.ts, worker.ts) and the page that asks   *)
(* for it and waits (apps/web .../payroll/PayrollPage.tsx), on top of the  *)
(* time clock.                                                             *)
(*                                                                         *)
(* A computation is one Read Committed transaction: every statement sees   *)
(* what is committed when it runs, and its own writes are seen by nobody   *)
(* until the commit.  The run's status is read before the transaction.     *)
(* Sessions are bucketed by check-in: the month is the ticks before        *)
(* MonthEnd.  An employee's line item is the sum of the minutes paid for   *)
(* their sessions; `lines' keeps the summands.                             *)
(***************************************************************************)
EXTENDS Attendance

CONSTANTS Admin, MonthEnd, NoJob,
          MaxJobs,      \* bound: computations ever asked for
          MaxCrashes,   \* bound: times the worker process dies
          MaxStalled    \* BullMQ's maxStalledCount

ASSUME PayrollAssumption == MonthEnd \in Nat /\ MaxJobs \in Nat /\ MaxStalled \in Nat /\ NoJob \notin Nat

VARIABLES
    status,      \* PayrollRun.status, "none" before the first computation
    lines,       \* the minutes paid, by session
    exceptions,  \* the rows of payroll_exceptions
    jobs,        \* the heavy-jobs queue: the state of every job
    stalls,      \* how often each job was left behind by a dead worker
    work,        \* the job the worker runs
    crashes,
    page,        \* the job the payroll page polls
    desk,        \* the resolution each administrator is making
    settled      \* auxiliary: nothing has changed since the last computation began

pay == <<status, lines, exceptions>>
queue == <<jobs, stalls, work, crashes>>
vars == <<clock, pay, queue, page, desk, settled>>

InMonth(s) == sessions[s].in < MonthEnd
Clean(s) == ~IsOpen(s) /\ ~sessions[s].auto
Minutes(s) == sessions[s].out - sessions[s].in

\* An exception: the session, the computation that wrote it, and whether it is resolved.
Held == {x.session : x \in {x \in exceptions : ~x.resolved}}
SetAside == {x.session : x \in {x \in exceptions : x.resolved}}

Idle == [stage |-> "idle", job |-> NoJob, kept |-> {}, gone |-> {}, paid |-> {}]
Nothing == [out |-> NoJob]

Init ==
    /\ ClockInit
    /\ status = "none" /\ lines = {} /\ exceptions = {}
    /\ jobs = <<>> /\ stalls = <<>> /\ work = Idle /\ crashes = 0
    /\ page = NoJob
    /\ desk = [a \in Admin |-> Nothing]
    /\ settled = FALSE

(***************************************************************************)
(* The page: ask for a computation, then poll it until it settles.         *)
(***************************************************************************)
\* computeRun answers with the job's id; when the answer is lost the page
\* shows an error and may ask again.
Compute ==
    /\ page = NoJob /\ status \in {"none", "DRAFT"} /\ Len(jobs) < MaxJobs
    /\ jobs' = Append(jobs, "waiting")
    /\ stalls' = Append(stalls, 0)
    /\ page' \in {Len(jobs'), NoJob}
    /\ UNCHANGED <<clock, pay, work, crashes, desk, settled>>

\* Mutant: the page knows of no failed job.
Poll_CompletedOnly ==
    /\ page # NoJob /\ jobs[page] = "completed"
    /\ page' = NoJob
    /\ UNCHANGED <<clock, pay, queue, desk, settled>>

Poll ==
    /\ page # NoJob /\ jobs[page] \in {"completed", "failed"}
    /\ page' = NoJob
    /\ UNCHANGED <<clock, pay, queue, desk, settled>>

(***************************************************************************)
(* The worker: one process, one job at a time.                             *)
(***************************************************************************)
\* Mutant: the worker does not let go of the job it has finished.
Finish(result) == jobs' = [jobs EXCEPT ![work.job] = result] /\ work' = Idle

Take ==
    /\ work = Idle
    /\ \E j \in DOMAIN jobs :
          /\ jobs[j] = "waiting" /\ \A i \in 1..(j - 1) : jobs[i] # "waiting"
          /\ jobs' = [jobs EXCEPT ![j] = "active"]
          /\ work' = [Idle EXCEPT !.stage = "taken", !.job = j]
    /\ UNCHANGED <<clock, pay, stalls, crashes, page, desk, settled>>

\* Mutant: any run may be computed again.
Recomputable_Always == TRUE

Recomputable == status \in {"none", "DRAFT"}

\* Settings and status are read; a run that left DRAFT refuses.
Check ==
    /\ work.stage = "taken"
    /\ IF Recomputable
       THEN work' = [work EXCEPT !.stage = "checked"] /\ jobs' = jobs
       ELSE Finish("failed")
    /\ UNCHANGED <<clock, pay, stalls, crashes, page, desk, settled>>

\* Mutant: the resolved exceptions are kept but their sessions not skipped.
Kept_Forgotten == {}

Kept == SetAside

\* The transaction begins: the run is upserted, the line items are deleted and
\* the sessions of the resolved exceptions are read.
KeepResolved ==
    /\ work.stage = "checked"
    /\ work' = [work EXCEPT !.stage = "kept", !.kept = Kept]
    /\ settled' = TRUE
    /\ UNCHANGED <<clock, pay, jobs, stalls, crashes, page, desk>>

\* Mutant: the recomputation deletes every exception.
Unresolved_All == exceptions

Unresolved == {x \in exceptions : ~x.resolved}

\* The unresolved exceptions are deleted: their rows stay locked until the commit.
DeleteUnresolved ==
    /\ work.stage = "kept"
    /\ work' = [work EXCEPT !.stage = "deleted", !.gone = Unresolved]
    /\ UNCHANGED <<clock, pay, jobs, stalls, crashes, page, desk, settled>>

Payable == {s \in DOMAIN sessions : InMonth(s) /\ Clean(s)}

PayClean ==
    /\ work.stage = "deleted"
    /\ work' = [work EXCEPT !.stage = "paid",
                            !.paid = {[session |-> s, minutes |-> Minutes(s)] : s \in Payable}]
    /\ UNCHANGED <<clock, pay, jobs, stalls, crashes, page, desk, settled>>

Dirty == {s \in DOMAIN sessions : InMonth(s) /\ ~Clean(s)}

\* The dirty sessions are held back, except the resolved ones, and all commits.
Commit ==
    /\ work.stage = "paid"
    /\ status' = IF status = "none" THEN "DRAFT" ELSE status
    /\ lines' = work.paid
    /\ exceptions' = (exceptions \ work.gone) \cup
          {[session |-> s, by |-> work.job, resolved |-> FALSE] : s \in Dirty \ work.kept}
    /\ Finish("completed")
    /\ UNCHANGED <<clock, stalls, crashes, page, desk, settled>>

\* A statement, or the reading of the settings, fails: the job is not retried.
Fail ==
    /\ work # Idle
    /\ Finish("failed")
    /\ settled' = FALSE
    /\ UNCHANGED <<clock, pay, stalls, crashes, page, desk>>

\* The worker dies: its transaction is rolled back, its job stays behind.
Crash ==
    /\ work # Idle /\ crashes < MaxCrashes
    /\ crashes' = crashes + 1
    /\ Finish("stalled")
    /\ settled' = FALSE
    /\ UNCHANGED <<clock, pay, stalls, page, desk>>

\* BullMQ finds the job of a dead worker and queues it again, or gives it up.
Recover ==
    /\ \E j \in DOMAIN jobs :
          /\ jobs[j] = "stalled"
          /\ jobs' = [jobs EXCEPT ![j] = IF stalls[j] < MaxStalled THEN "waiting" ELSE "failed"]
          /\ stalls' = [stalls EXCEPT ![j] = @ + 1]
    /\ UNCHANGED <<clock, pay, work, crashes, page, desk, settled>>

(***************************************************************************)
(* Administrators resolve the exceptions of a draft.                       *)
(***************************************************************************)
\* The exception is read and checked.  `out' is the check-out supplied, or
\* NotYet for a dismissal.
BeginResolve(a) ==
    /\ desk[a] = Nothing /\ status = "DRAFT"
    /\ \E x \in exceptions :
          /\ ~x.resolved
          /\ \E out \in {NotYet} \cup {sessions[x.session].in + d : d \in 1..MaxShift} :
                desk' = [desk EXCEPT ![a] = [x |-> x, out |-> out]]
    /\ UNCHANGED <<clock, pay, queue, page, settled>>

\* The row to update is there, and no computation holds it.
StillThere(x) == \E y \in exceptions \ work.gone : y.session = x.session /\ y.by = x.by
Resolved(x) ==
    {IF y.session = x.session /\ y.by = x.by THEN [y EXCEPT !.resolved = TRUE] ELSE y : y \in exceptions}

Repaired(s, out) == [sessions EXCEPT ![s].out = out, ![s].auto = FALSE]

\* DISMISS writes the exception alone; FIX_CHECKOUT the session with it.
Resolve(a) ==
    /\ desk[a] # Nothing
    /\ StillThere(desk[a].x)
    /\ exceptions' = Resolved(desk[a].x)
    /\ sessions' = IF desk[a].out = NotYet THEN sessions
                   ELSE Repaired(desk[a].x.session, desk[a].out)
    /\ desk' = [desk EXCEPT ![a] = Nothing]
    /\ settled' = FALSE
    /\ UNCHANGED <<now, lastScan, active, gate, sweep, status, lines, queue, page>>

\* The row is gone: the update, and the session's with it, fails.
MissResolve(a) ==
    /\ desk[a] # Nothing
    /\ ~\E y \in exceptions : y.session = desk[a].x.session /\ y.by = desk[a].x.by
    /\ desk' = [desk EXCEPT ![a] = Nothing]
    /\ UNCHANGED <<clock, pay, queue, page, settled>>

\* The manager follows the emailed link and the run is approved.
Approve ==
    /\ status = "DRAFT" /\ status' = "APPROVED"
    /\ UNCHANGED <<clock, lines, exceptions, queue, page, desk, settled>>

Clock ==
    /\ ClockNext
    /\ settled' = (settled /\ sessions' = sessions)
    /\ UNCHANGED <<pay, queue, page, desk>>

Serve == Take \/ Check \/ KeepResolved \/ DeleteUnresolved \/ PayClean \/ Commit

Next ==
    \/ Clock
    \/ Compute \/ Poll
    \/ Serve \/ Fail \/ Crash \/ Recover
    \/ \E a \in Admin : BeginResolve(a) \/ Resolve(a) \/ MissResolve(a)
    \/ Approve

\* The worker takes and runs its jobs, BullMQ looks for stalled ones, the page
\* polls every second and a half.  Nobody has to press anything.
Fairness == WF_vars(Serve) /\ WF_vars(Recover) /\ WF_vars(Poll)

Spec == Init /\ [][Next]_vars /\ Fairness

Accounted ==
    /\ {l.session : l \in lines} = Payable
    /\ \A l \in lines : l.minutes = Minutes(l.session)
    /\ Held \cap Payable = {}
    /\ \A s \in Dirty :
          /\ (s \in Held) # (s \in SetAside)
          /\ Cardinality({x \in exceptions : x.session = s /\ ~x.resolved}) <= 1

(***************************************************************************)
(* After a computation that nothing disturbed, and until something         *)
(* changes, every session of the month is accounted for once: a clean one  *)
(* is paid its minutes, a dirty one is held back by one exception or set   *)
(* aside by a resolved one.  It fails a session counted twice, forgotten,  *)
(* or held again after its dismissal (payroll.service.ts:176-262).         *)
(***************************************************************************)
MonthAccounted == settled /\ work = Idle => Accounted

\* Why MonthAccounted holds.  A computation that runs undisturbed has set aside,
\* deleted and paid what it found; before it began and after its commit the
\* month is accounted for.
PaidFor == {[session |-> s, minutes |-> Minutes(s)] : s \in Payable}
MonthIsKept ==
    settled =>
        /\ work.stage \in {"idle", "taken", "checked"} => Accounted
        /\ work.stage \in {"kept", "deleted", "paid"} => work.kept = SetAside
        /\ work.stage \in {"deleted", "paid"} => work.gone = Unresolved
        /\ work.stage = "paid" => work.paid = PaidFor

\* Nobody who read DRAFT is still writing.
Frozen ==
    /\ status = "APPROVED"
    /\ work.stage \in {"idle", "taken"}
    /\ \A a \in Admin : desk[a] = Nothing

(***************************************************************************)
(* What the manager approved does not change any more, once the one        *)
(* computation and the resolutions that had read DRAFT before the approval *)
(* are over: no later computation gets past its check                      *)
(* (payroll.service.ts:156-166, 307-312).                                  *)
(***************************************************************************)
ApprovedIsFrozen == [][Frozen => Frozen' /\ pay' = pay]_vars

(***************************************************************************)
(* A resolution is final: no computation revives the exception or loses    *)
(* its note (payroll.service.ts:176-187).                                  *)
(***************************************************************************)
ResolutionsStand == [][\A x \in exceptions : x.resolved => x \in exceptions']_vars

(***************************************************************************)
(* The page that waits for a computation stops waiting, though the worker  *)
(* may die, the job be queued again and the computation fail               *)
(* (PayrollPage.tsx:93-109, lib/queue.ts:85-111).                          *)
(***************************************************************************)
WaitingEnds == page # NoJob ~> page = NoJob
=============================================================================
