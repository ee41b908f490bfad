------------------------------ MODULE FormImport ------------------------------
(***************************************************************************)
(* A form made from a photo of a paper form: the wizard FormImportPage,    *)
(* the queue and the worker that has the photo read by a model, the second *)
(* reading of a marked region, and the monthly quota both draw on          *)
(* (form.router.ts, form-digitize.service.ts, usage.service.ts).  A draft  *)
(* is told by the photo it was read from and by how often it was refined.  *)
(* A worker that crashes leaves its job to be run again.                   *)
(***************************************************************************)
EXTENDS Naturals, Sequences

CONSTANTS Limit,      \* PLAN_LIMITS[plan].monthlyDigitize
          MaxPhotos,  \* bound: photos taken
          MaxRefines, \* bound: regions marked
          MaxCrashes  \* bound: crashes of the worker

VARIABLES
  page,     \* the wizard: step, photo, jobId, draft, and the calls it awaits
  jobs,     \* the queue's form-digitize jobs: photo and state
  used,     \* UsageCounter.count of this month
  readings, \* history: how often the model was paid for a reading
  saved,    \* the drafts form.create has stored
  crashes

vars == <<page, jobs, used, readings, saved, crashes>>

NoDraft == [photo |-> 0, refined |-> 0]
NoJob == 0

Init ==
  /\ page = [step |-> "capture", photo |-> 0, jobId |-> NoJob, draft |-> NoDraft,
             adding |-> "no", error |-> FALSE, refining |-> "no", saving |-> FALSE]
  /\ jobs = <<>> /\ used = 0 /\ readings = 0 /\ saved = {} /\ crashes = 0

Job == DOMAIN jobs
Move(j, state) == jobs' = [jobs EXCEPT ![j].state = state]
Active == {j \in Job : jobs[j].state \in {"active", "metered"}}
-----------------------------------------------------------------------------
(* The page.                                                                 *)

\* handleFile, startDigitize: the photo is shown and the mutation called.
TakePhoto ==
  /\ page.step = "capture" /\ page.photo < MaxPhotos
  /\ page' = [page EXCEPT !.step = "digitize", !.photo = @ + 1, !.adding = "sent",
                          !.error = FALSE]
  /\ UNCHANGED <<jobs, used, readings, saved, crashes>>

\* form.digitizeFromPhoto: the job is in the queue before the call is answered.
Enqueue ==
  /\ page.adding = "sent"
  /\ jobs' = Append(jobs, [photo |-> page.photo, state |-> "waiting"])
  /\ page' = [page EXCEPT !.adding = "added"]
  /\ UNCHANGED <<used, readings, saved, crashes>>

Enqueued ==
  /\ page.adding = "added"
  /\ page' = [page EXCEPT !.adding = "no", !.jobId = Len(jobs)]
  /\ UNCHANGED <<jobs, used, readings, saved, crashes>>

\* The rate limit refuses, or the answer is lost, with the job added or not.
EnqueueFails ==
  /\ page.adding # "no"
  /\ page' = [page EXCEPT !.adding = "no", !.error = TRUE]
  /\ UNCHANGED <<jobs, used, readings, saved, crashes>>

Polled == page.jobId # NoJob /\ jobs[page.jobId].state \in {"completed", "failed"}

\* digitizeJobStatus, and the effect on its data.
Poll ==
  /\ Polled
  /\ page' = IF jobs[page.jobId].state = "completed"
             THEN [page EXCEPT !.step = "verify", !.jobId = NoJob,
                               !.draft = [photo |-> jobs[page.jobId].photo, refined |-> 0]]
             ELSE [page EXCEPT !.error = TRUE]
  /\ UNCHANGED <<jobs, used, readings, saved, crashes>>

\* The query gives up after its retries.
PollFails ==
  /\ page.jobId # NoJob /\ page.step = "digitize"
  /\ page' = [page EXCEPT !.error = TRUE]
  /\ UNCHANGED <<jobs, used, readings, saved, crashes>>

\* The job of the first photo is still polled.
TryAnother_Polling ==
  /\ page.step = "digitize" /\ page.error
  /\ page' = [page EXCEPT !.step = "capture", !.error = FALSE]
  /\ UNCHANGED <<jobs, used, readings, saved, crashes>>

TryAnother ==
  /\ page.step = "digitize" /\ page.error
  /\ page' = [page EXCEPT !.step = "capture", !.error = FALSE, !.jobId = NoJob]
  /\ UNCHANGED <<jobs, used, readings, saved, crashes>>

\* handleRefine; the way on is not closed while the answer is awaited.
Refine ==
  /\ page.step = "verify" /\ page.refining = "no" /\ page.draft.refined < MaxRefines
  /\ page' = [page EXCEPT !.refining = "sent"]
  /\ UNCHANGED <<jobs, used, readings, saved, crashes>>

Refined ==
  /\ page.refining = "read"
  /\ page' = [page EXCEPT !.refining = "no", !.draft.refined = @ + 1]
  /\ UNCHANGED <<jobs, used, readings, saved, crashes>>

RefineFails ==
  /\ page.refining # "no"
  /\ page' = [page EXCEPT !.refining = "no"]
  /\ UNCHANGED <<jobs, used, readings, saved, crashes>>

LooksGood ==
  /\ page.step = "verify"
  /\ page' = [page EXCEPT !.step = "workflow"]
  /\ UNCHANGED <<jobs, used, readings, saved, crashes>>

\* handleSave and form.create: the draft of the press is stored.
Save ==
  /\ page.step = "workflow" /\ ~page.saving
  /\ saved' = saved \cup {page.draft}
  /\ page' = [page EXCEPT !.saving = TRUE]
  /\ UNCHANGED <<jobs, used, readings, crashes>>

\* Its answer; an error leaves the page where it was, with the button.
Saved(ok) ==
  /\ page.saving
  /\ page' = [page EXCEPT !.saving = FALSE, !.step = IF ok THEN "done" ELSE @]
  /\ UNCHANGED <<jobs, used, readings, saved, crashes>>
-----------------------------------------------------------------------------
(* The worker, one job at a time, and the quota.                             *)

\* checkAndIncrement: one transaction, rolled back past the limit.
Meter(ok) == (ok <=> used < Limit) /\ used' = IF ok THEN used + 1 ELSE used

Take(j) ==
  /\ Active = {} /\ jobs[j].state = "waiting"
  /\ \A i \in Job : jobs[i].state = "waiting" => j <= i
  /\ Move(j, "active")
  /\ UNCHANGED <<page, used, readings, saved, crashes>>

MeterJob(j) ==
  /\ jobs[j].state = "active"
  /\ \E ok \in BOOLEAN : Meter(ok) /\ Move(j, IF ok THEN "metered" ELSE "failed")
  /\ UNCHANGED <<page, readings, saved, crashes>>

\* runVision through the chain of models, once more with another prompt: the
\* slot pays for all of it, also when nothing usable comes of it.
ReadPhoto(j) ==
  /\ jobs[j].state = "metered"
  /\ readings' = readings + 1
  /\ \E end \in {"completed", "failed"} : Move(j, end)
  /\ UNCHANGED <<page, used, saved, crashes>>

\* The worker dies, before or after the reading was paid for; the job stalls and
\* is given to the next worker.
Crash(j) ==
  /\ j \in Active /\ crashes < MaxCrashes
  /\ crashes' = crashes + 1
  /\ readings' \in {readings, IF jobs[j].state = "metered" THEN readings + 1 ELSE readings}
  /\ Move(j, "waiting")
  /\ UNCHANGED <<page, used, saved>>

\* refineFromRegion runs in the API's process, beside the worker.
MeterRefine ==
  /\ page.refining = "sent"
  /\ \E ok \in BOOLEAN :
       Meter(ok) /\ page' = [page EXCEPT !.refining = IF ok THEN "metered" ELSE "no"]
  /\ UNCHANGED <<jobs, readings, saved, crashes>>

ReadRegion ==
  /\ page.refining = "metered"
  /\ readings' = readings + 1
  /\ \E end \in {"read", "no"} : page' = [page EXCEPT !.refining = end]
  /\ UNCHANGED <<jobs, used, saved, crashes>>

Next ==
  \/ TakePhoto \/ Enqueue \/ Enqueued \/ EnqueueFails \/ Poll \/ PollFails \/ TryAnother
  \/ Refine \/ Refined \/ RefineFails \/ LooksGood \/ Save
  \/ \E ok \in BOOLEAN : Saved(ok)
  \/ \E j \in Job : Take(j) \/ MeterJob(j) \/ ReadPhoto(j) \/ Crash(j)
  \/ MeterRefine \/ ReadRegion

Spec == Init /\ [][Next]_vars
-----------------------------------------------------------------------------
(***************************************************************************)
(* The draft compared with the photo, and the form that is saved, were     *)
(* read from that photo and not from one given up before                   *)
(* (FormImportPage.tsx:70-97, 256-262).                                    *)
(***************************************************************************)
DraftIsOfThePhoto ==
  /\ page.step \in {"verify", "workflow", "done"} => page.draft.photo = page.photo
  /\ \A d \in saved : d.photo = page.photo

(***************************************************************************)
(* No reading is paid for without a slot of the month's quota, whatever    *)
(* crashes and is run again: "no crash window between an increment and a   *)
(* compensating decrement" (usage.service.ts:17-25).                       *)
(***************************************************************************)
ReadingsArePaidFor == readings <= used /\ used <= Limit
-----------------------------------------------------------------------------
(* The inductive invariant.                                                *)

ImportConstants == Limit \in Nat

PageRow == [step : {"capture", "digitize", "verify", "workflow", "done"}, photo : Nat,
            jobId : Nat, draft : [photo : Nat, refined : Nat],
            adding : {"no", "sent", "added"}, error : BOOLEAN,
            refining : {"no", "sent", "metered", "read"}, saving : BOOLEAN]
JobRow == [photo : Nat, state : {"waiting", "active", "metered", "completed", "failed"}]

TypeOK ==
  /\ page \in PageRow
  /\ jobs \in Seq(JobRow)
  /\ used \in Nat /\ readings \in Nat

\* A job that is added or polled is that of the photo on the page, which has no draft
\* before, and nothing saved.
JobIsOfThePhoto ==
  /\ page.adding # "no" => page.step = "digitize" /\ page.jobId = NoJob /\ ~page.error
  /\ page.adding = "added" => jobs # <<>> /\ jobs[Len(jobs)].photo = page.photo
  /\ page.jobId # NoJob =>
       page.step = "digitize" /\ page.jobId \in Job /\ jobs[page.jobId].photo = page.photo
  /\ saved # {} => page.step \in {"workflow", "done"}
  /\ page.saving => page.step \in {"workflow", "done"}

OneActive == \A i, j \in Active : i = j

\* The slots that are taken and not read for yet.
JobIsMetered == \E j \in Job : jobs[j].state = "metered"
Pending ==
  (IF JobIsMetered THEN 1 ELSE 0)
  + (IF page.refining = "metered" THEN 1 ELSE 0)

SlotsAreTaken == readings + Pending <= used /\ used <= Limit

IInv == TypeOK /\ JobIsOfThePhoto /\ DraftIsOfThePhoto /\ OneActive /\ SlotsAreTaken
=============================================================================
