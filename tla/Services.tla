------------------------------ MODULE Services ------------------------------
(***************************************************************************)
(* Components of the server that share no state with one another, side by  *)
(* side: the first state chooses one of them, and only that one moves.     *)
(* The registers carry its variables, in the order of its instance below.  *)
(***************************************************************************)
EXTENDS Naturals, Sequences, FiniteSets

CONSTANTS
  Plan, Module, Defaults, FirstPlan, Hook, Switched, MaxVersion, Unpriced,
  SignupTime,                                                               \* Billing
  Admin, MaxCorrections,                                                    \* FormRecords
  Digitize, MaxPhotos, MaxRefines, MaxCrashes,                              \* FormImport
  Monitoring, Deviations, VerificationFields, VerificationColumns,          \* FormSchema
  RebuildMonitoring, RebuildDeviations, Input,
  Employee, Request, Tab, Details, Seats, MaxLinks,                         \* Employees
  Id, Writer, MAX_ROWS,                                                     \* UnknownLog
  Calls, Window, MaxTime,                                                   \* RateLimit
  Leaf,                                                                     \* Merkle
  Null

VARIABLES
  subject,  \* the component this behaviour is of
  r1, r2, r3, r4, r5, r6, r7, r8, r9  \* its variables

Bill == INSTANCE Billing WITH
  version <- r1, due <- r2, subscription <- r3, module <- r4, hook <- r5,
  wish <- r6, overlapped <- r7, trial <- r8
Records == INSTANCE FormRecords WITH
  followUp <- r1, record <- r2, trail <- r3, filler <- r4, desk <- r5
Import == INSTANCE FormImport WITH
  page <- r1, jobs <- r2, used <- r3, readings <- r4, saved <- r5,
  crashes <- r6, Limit <- Digitize
Digitized == INSTANCE FormSchema WITH
  stage <- r1, livestock <- r2, given <- r3, draft <- r4, ids <- r5
Staff == INSTANCE Employees WITH
  employee <- r1, request <- r2, links <- r3, tab <- r4, stored <- r5,
  raced <- r6
Unknown == INSTANCE UnknownLog WITH
  registered <- r1, log <- r2, stale <- r3, writer <- r4, card <- r5
Limiter == INSTANCE RateLimit WITH
  now <- r1, hits <- r2, admitted <- r3, calls <- r4, Limit <- Calls
Tree == INSTANCE Merkle WITH
  leaves <- r1, target <- r2, level <- r3, idx <- r4, proof <- r5

\* Somebody registers, writes and pays; modules are those of the table; NULL is no
\* value.
ASSUME ServicesConstants ==
  /\ Bill!BillingConstants /\ Import!ImportConstants /\ Staff!EmployeesConstants
  /\ Unknown!UnknownConstants /\ Limiter!RateLimitConstants /\ Digitized!FormSchemaConstants
  /\ IsFiniteSet(Leaf)
-----------------------------------------------------------------------------
Init ==
  \/ subject = "billing" /\ Bill!Init
     /\ r9 = Null
  \/ subject = "records" /\ Records!Init
     /\ r6 = Null /\ r7 = Null /\ r8 = Null /\ r9 = Null
  \/ subject = "import" /\ Import!Init
     /\ r7 = Null /\ r8 = Null /\ r9 = Null
  \/ subject = "digitized" /\ Digitized!Init
     /\ r6 = Null /\ r7 = Null /\ r8 = Null /\ r9 = Null
  \/ subject = "staff" /\ Staff!Init
     /\ r7 = Null /\ r8 = Null /\ r9 = Null
  \/ subject = "unknown" /\ Unknown!Init
     /\ r6 = Null /\ r7 = Null /\ r8 = Null /\ r9 = Null
  \/ subject = "limiter" /\ Limiter!Init
     /\ r5 = Null /\ r6 = Null /\ r7 = Null /\ r8 = Null /\ r9 = Null
  \/ subject = "merkle" /\ Tree!Init
     /\ r6 = Null /\ r7 = Null /\ r8 = Null /\ r9 = Null

\* A step of a component leaves the subject and the variables it lacks alone.
Keeps4 == UNCHANGED <<subject, r5, r6, r7, r8, r9>>
Keeps5 == UNCHANGED <<subject, r6, r7, r8, r9>>
Keeps6 == UNCHANGED <<subject, r7, r8, r9>>
Keeps8 == UNCHANGED <<subject, r9>>

BillStep == subject = "billing" /\ Bill!Next /\ Keeps8
RecordsStep == subject = "records" /\ Records!Next /\ Keeps5
ImportStep == subject = "import" /\ Import!Next /\ Keeps6
DigitizedStep == subject = "digitized" /\ Digitized!Next /\ Keeps5
StaffStep == subject = "staff" /\ Staff!Next /\ Keeps6
UnknownStep == subject = "unknown" /\ Unknown!Next /\ Keeps5
LimiterStep == subject = "limiter" /\ Limiter!Next /\ Keeps4
TreeStep == subject = "merkle" /\ Tree!Next /\ Keeps5

Next ==
  \/ BillStep
  \/ RecordsStep
  \/ ImportStep
  \/ DigitizedStep
  \/ StaffStep
  \/ UnknownStep
  \/ LimiterStep
  \/ TreeStep

Spec == Init /\ [][Next]_<<subject, r1, r2, r3, r4, r5, r6, r7, r8, r9>>
-----------------------------------------------------------------------------
(* Properties: what each component's module states, of its subject.        *)

\* The newest change of the subscription decides it, whatever the order in which
\* Stripe's webhooks arrive and the signup writes: unless two of these overlap
\* and no later change has come alone, two changes fell into one second, or the
\* change is dated before the time the signup wrote.
NewestEventWins == subject = "billing" => Bill!NewestEventWins

\* Every module is what the plan of the newest event says, or what the platform
\* administrator chose over it.
ModulesAreDue ==
  subject = "billing" => Bill!ModulesFollowPlan /\ Bill!OverridesStand

\* Every difference between a submission and what the worker sent is told by a
\* row of the audit trail, and an edit that was cancelled leaves nothing behind.
CorrectionsAreTraced ==
  subject = "records" => Records!CorrectionsAreTraced /\ Records!NoAbandonedEdit

\* The draft on the import page is of the photo on the page, and a reading of a
\* photo is counted before it is bought.
ReadingsAreOfThePhoto ==
  subject = "import" => Import!DraftIsOfThePhoto /\ Import!ReadingsArePaidFor

\* Turning a photo's lists into tables loses none of its fields; aligning a
\* livestock form completes the known layout and keeps short lists and tables
\* that were read whole; and ids tell the fields of a form apart.
FormsAreWhole ==
  subject = "digitized" =>
    Digitized!NoFieldIsLost /\ Digitized!RepairKeepsTables /\ Digitized!IdsAreDistinct

\* A bank link stores details once, and nobody is told that details were stored
\* when they were not.
LinksWorkOnce ==
  subject = "staff" => Staff!LinksWorkOnce /\ Staff!ReceiptIsTrue

\* The limits that are checked before the row they guard is written - seats of
\* the plan, rows of unregistered devices, calls in a window - are exceeded by
\* no more than the requests in flight.
LimitsHold ==
  /\ subject = "staff" => Staff!SeatsAreBounded
  /\ subject = "unknown" => Unknown!RowsAreBounded
  /\ subject = "limiter" => Limiter!NoWindowIsOverfull

\* The inclusion proof of a cycle leads to the root at every level, and a root
\* stands for one list of cycles.
ProofsAreSound ==
  subject = "merkle" => Tree!PathLeadsToRoot /\ Tree!RootCommits
=============================================================================
