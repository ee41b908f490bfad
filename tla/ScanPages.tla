------------------------------- MODULE ScanPages -------------------------------
(***************************************************************************)
(* The three pages that scan codes, as one user of the web application     *)
(* walks between them: the driver's (DriverPage with ScanPanel), the       *)
(* guard's (GuardScannerPage) and the tablet's (TabletPage).  Each of them *)
(* shows CameraScanner while it waits for a code.  Opening the camera      *)
(* takes two awaits, into which a decoded code, a typed one or a change of *)
(* the page may fall; so may it into the call a page has made.             *)
(*                                                                         *)
(* Exactly one page is mounted.  A change of its state and the cameras     *)
(* that mount or unmount with it are one step, as React commits them.      *)
(***************************************************************************)
EXTENDS Naturals, Sequences

CONSTANTS
  Code,       \* what is printed on bins and badges
  MaxMounts,  \* bound: cameras ever mounted
  MaxCalls,   \* bound: calls ever made
  Null

VARIABLES
  view,    \* the state of the page that is mounted
  cams,    \* the instances of CameraScanner
  timers,  \* timeouts of ScanPanel that have not fired
  calls    \* the calls ever made: [code, status, heard]

vars == <<view, cams, timers, calls>>
-----------------------------------------------------------------------------
\* code: ScanPanel's code, lastScanned, scannedBinId.  about: the code whose call
\* has led to what the page shows.  active: scannerActive, isScannerActive.
Fresh(route) ==
  [route |-> route, mode |-> IF route = "guard" THEN "handheld" ELSE "camera",
   active |-> TRUE, phase |-> "scan", code |-> Null, about |-> Null, pending |-> FALSE]

\* Whether the page shows CameraScanner.
CameraShown(v) ==
  CASE v.route = "driver" -> v.mode = "camera" /\ v.phase = "scan"
    [] v.route = "guard"  -> v.mode = "camera" /\ v.phase = "scan" /\ v.active
    [] v.route = "tablet" -> v.phase = "scan" /\ v.active

Mounted == [stage |-> "import", live |-> TRUE]

\* The effect's cleanup.  stop() throws while the camera is still starting.
Teardown(c) == [stage |-> IF c.stage = "scanning" THEN "off" ELSE c.stage, live |-> FALSE]

\* The page is v from now on, and so are its cameras.
Rerender(v) ==
  LET kept == CameraShown(view) /\ CameraShown(v) /\ view.route = v.route
      left == IF kept THEN cams
              ELSE [i \in DOMAIN cams |-> IF cams[i].live THEN Teardown(cams[i]) ELSE cams[i]] IN
  /\ view' = v
  /\ cams' = IF CameraShown(v) /\ ~kept THEN Append(left, Mounted) ELSE left
  /\ Len(cams') <= MaxMounts

Init ==
  /\ \E route \in {"driver", "guard", "tablet"} : view = Fresh(route)
  /\ cams = IF CameraShown(view) THEN <<Mounted>> ELSE <<>>
  /\ timers = 0
  /\ calls = <<>>
-----------------------------------------------------------------------------
(* CameraScanner. *)

Imported(i) ==
  /\ cams[i].stage = "import"
  /\ cams' = [cams EXCEPT ![i].stage = IF cams[i].live THEN "start" ELSE "off"]
  /\ UNCHANGED <<view, timers, calls>>

\* Mutant: cancelled is not asked again after the second await.
AfterStart_Always(c) == "scanning"

AfterStart(c) == IF c.live THEN "scanning" ELSE "off"

Started(i) ==
  /\ cams[i].stage = "start"
  /\ cams' = [cams EXCEPT ![i].stage = AfterStart(cams[i])]
  /\ UNCHANGED <<view, timers, calls>>

\* No permission, no camera.  onError: the guard's page takes it for a failed scan.
StartFails(i) ==
  /\ cams[i].stage = "start"
  /\ IF cams[i].live /\ view.route = "guard"
     THEN /\ view' = [view EXCEPT !.phase = "error"]
          /\ cams' = [cams EXCEPT ![i] = [stage |-> "off", live |-> FALSE]]
     ELSE UNCHANGED view /\ cams' = [cams EXCEPT ![i].stage = "off"]
  /\ UNCHANGED <<timers, calls>>

-----------------------------------------------------------------------------
(* Calls.  A call a page no longer listens to still reaches the server. *)

Deaf(s) == [n \in DOMAIN s |-> [s[n] EXCEPT !.heard = FALSE]]

Call(c, others) ==
  /\ Len(calls) < MaxCalls
  /\ calls' = Append(others, [code |-> c, status |-> "sent", heard |-> TRUE])

Settle(n) == [calls EXCEPT ![n].status = "over"]

Underway(n) == calls[n].status = "sent" /\ calls[n].heard
-----------------------------------------------------------------------------
(* The driver's page. *)

\* run: by a code the camera reads, by the button, or by Enter, which works while
\* another code is being scanned.
Run(c) ==
  /\ view.route = "driver" /\ view.phase \in {"scan", "scanning"}
  /\ Rerender([view EXCEPT !.code = c, !.phase = "scanning"])
  /\ timers < 2 /\ timers' = timers + 1
  /\ UNCHANGED calls

\* A timeout fires, whatever the phase has become: ScanResult is shown, and asks
\* for the bins of the code when it was not there before.
TimerFires ==
  /\ timers > 0 /\ timers' = timers - 1
  /\ IF view.phase \in {"scan", "scanning"}
     THEN /\ Rerender([view EXCEPT !.phase = "fetching", !.about = Null])
          /\ Call(view.code, calls)
     ELSE UNCHANGED <<view, cams, calls>>

\* getActiveDynamicMatches: none or an error, one, or several to choose from.
Fetched(n) ==
  /\ view.route = "driver" /\ view.phase = "fetching" /\ Underway(n)
  /\ \E phase \in {"failed", "choose", "chosen"} :
       Rerender([view EXCEPT !.phase = phase, !.about = calls[n].code])
  /\ calls' = Settle(n)
  /\ UNCHANGED timers

ChooseBin ==
  /\ view.route = "driver"
  /\ \/ view.phase = "choose" /\ Rerender([view EXCEPT !.phase = "chosen"])
     \/ view.phase = "chosen" /\ Rerender([view EXCEPT !.phase = "choose"])
  /\ UNCHANGED <<timers, calls>>

\* handlePickup, handleDeliver.
Act ==
  /\ view.route = "driver" /\ view.phase = "chosen" /\ ~view.pending
  /\ Rerender([view EXCEPT !.pending = TRUE])
  /\ Call(view.code, calls)
  /\ UNCHANGED timers

Acted(n) ==
  /\ view.route = "driver" /\ view.pending /\ Underway(n)
  /\ \/ Rerender([view EXCEPT !.phase = "success", !.pending = FALSE])
     \/ Rerender([view EXCEPT !.pending = FALSE])
  /\ calls' = Settle(n)
  /\ UNCHANGED timers

\* Cancel, or Done - Scan Next Bin: ScanResult is unmounted.
ResetPanel ==
  /\ view.route = "driver" /\ view.phase \notin {"scan", "scanning"}
  /\ Rerender([view EXCEPT !.phase = "scan", !.pending = FALSE])
  /\ calls' = Deaf(calls)
  /\ UNCHANGED timers
-----------------------------------------------------------------------------
(* The guard's page. *)

\* The callbacks given to mutate are called for the latest call alone.
Superseded(s) == Deaf(s)

\* submitScan: the badge that was scanned last is not sent again.
SubmitScan(c) ==
  /\ view.route = "guard" /\ view.phase = "scan"
  /\ c # view.code
  /\ Rerender([view EXCEPT !.code = c, !.active = FALSE])
  /\ Call(c, Superseded(calls))
  /\ UNCHANGED timers

ScanAnswered(n) ==
  /\ view.route = "guard" /\ Underway(n)
  /\ \E phase \in {"result", "error"} :
       Rerender([view EXCEPT !.phase = phase, !.about = calls[n].code])
  /\ calls' = Settle(n)
  /\ UNCHANGED timers

StartScanning ==
  /\ view.route = "guard" /\ view.phase = "scan" /\ view.mode = "camera" /\ ~view.active
  /\ Rerender([view EXCEPT !.active = TRUE])
  /\ UNCHANGED <<timers, calls>>

\* Scan Next Badge, Try Again.
ResetGuard ==
  /\ view.route = "guard" /\ view.phase # "scan"
  /\ Rerender([view EXCEPT !.phase = "scan", !.active = TRUE, !.code = Null, !.about = Null])
  /\ calls' = Deaf(calls)
  /\ UNCHANGED timers
-----------------------------------------------------------------------------
(* The tablet's page. *)

\* handleScan: by the camera or by Simulate Scan.
ScanBin(c) ==
  /\ view.route = "tablet" /\ view.phase = "scan"
  /\ Rerender([view EXCEPT !.code = c, !.phase = "ready", !.about = Null])
  /\ UNCHANGED <<timers, calls>>

StartBin ==
  /\ view.route = "tablet" /\ view.phase = "ready" /\ ~view.pending
  /\ Rerender([view EXCEPT !.pending = TRUE])
  /\ Call(view.code, calls)
  /\ UNCHANGED timers

\* Whichever bin was scanned meanwhile, the success is shown.
BinStarted(n) ==
  /\ view.route = "tablet" /\ Underway(n)
  /\ \/ Rerender([view EXCEPT !.phase = "success", !.about = calls[n].code,
                              !.pending = FALSE, !.active = FALSE])
     \/ Rerender([view EXCEPT !.pending = FALSE])
  /\ calls' = Settle(n)
  /\ UNCHANGED timers

MayCancel == view.phase = "ready" /\ ~view.pending

CancelBin ==
  /\ view.route = "tablet" /\ MayCancel
  /\ Rerender([view EXCEPT !.phase = "scan", !.code = Null, !.active = FALSE])
  /\ UNCHANGED <<timers, calls>>

ScanNextBin ==
  /\ view.route = "tablet"
  /\ view.phase = "success" \/ (view.phase = "scan" /\ ~view.active)
  /\ Rerender([view EXCEPT !.phase = "scan", !.active = TRUE, !.about = Null,
                           !.code = IF view.phase = "success" THEN Null ELSE @])
  /\ UNCHANGED <<timers, calls>>
-----------------------------------------------------------------------------
\* The camera's switch beside the handheld scanner.
SwitchMode ==
  /\ view.route # "tablet" /\ view.phase = "scan"
  /\ Rerender([view EXCEPT !.mode = IF @ = "camera" THEN "handheld" ELSE "camera"])
  /\ UNCHANGED <<timers, calls>>

\* A link to another page.
Navigate(route) ==
  /\ route # view.route
  /\ Rerender(Fresh(route))
  /\ timers' = 0
  /\ calls' = Deaf(calls)

\* A code is read by the camera, or typed.
Read(c) == Run(c) \/ SubmitScan(c) \/ ScanBin(c)

Answer(n) == Fetched(n) \/ Acted(n) \/ ScanAnswered(n) \/ BinStarted(n)

Press ==
  \/ ChooseBin \/ Act \/ ResetPanel
  \/ StartScanning \/ ResetGuard
  \/ StartBin \/ CancelBin \/ ScanNextBin
  \/ SwitchMode
  \/ \E route \in {"driver", "guard", "tablet"} : Navigate(route)

Next ==
  \/ \E i \in DOMAIN cams : Imported(i) \/ Started(i) \/ StartFails(i)
  \/ TimerFires
  \/ \E c \in Code : Read(c)
  \/ \E n \in DOMAIN calls : Answer(n)
  \/ Press

Spec == Init /\ [][Next]_vars
-----------------------------------------------------------------------------
(***************************************************************************)
(* No camera films for a page that has gone, wherever in its start the     *)
(* page was left, and never two at once (CameraScanner.tsx:62-65, 76-79).  *)
(***************************************************************************)
CameraIsReleased ==
  \A i \in DOMAIN cams : cams[i].stage = "scanning" =>
    cams[i].live /\ CameraShown(view) /\ i = Len(cams)

(***************************************************************************)
(* What a page says it has done it has done for the code it shows: the     *)
(* guard reads the name on the badge scanned last, the tablet names the    *)
(* bin that was started, and the driver chooses among the bins of the      *)
(* code, through scans in a row, late answers, resets and changed pages.   *)
(***************************************************************************)
AnswersAreOfTheCode ==
  /\ view.phase = "result" \/ (view.phase = "success" /\ view.route = "tablet") =>
       view.about = view.code
  /\ view.phase \in {"choose", "chosen"} => view.about = view.code
-----------------------------------------------------------------------------
(* The inductive invariant of these properties.                            *)

Route == {"driver", "guard", "tablet"}
Phase == {"scan", "scanning", "fetching", "failed", "choose", "chosen", "success",
          "result", "error", "ready"}

TypeOK ==
  /\ view \in [route : Route, mode : {"camera", "handheld"}, active : BOOLEAN, phase : Phase,
               code : Code \cup {Null}, about : Code \cup {Null}, pending : BOOLEAN]
  /\ cams \in Seq([stage : {"import", "start", "scanning", "off"}, live : BOOLEAN])
  /\ timers \in Nat
  /\ calls \in Seq([code : Code, status : {"sent", "over"}, heard : BOOLEAN])

\* Only the camera that was mounted last may be on the page.
LastIsLive ==
  \A i \in DOMAIN cams :
    /\ cams[i].stage = "scanning" => cams[i].live
    /\ cams[i].live => i = Len(cams) /\ CameraShown(view)

\* A call the page listens to is about the code it has, and keeps the page from
\* taking another one.
CallsAreOfTheCode ==
  \A n \in DOMAIN calls : Underway(n) =>
    /\ calls[n].code = view.code
    /\ view.route = "driver" => view.phase \notin {"scan", "scanning"}
    /\ view.route = "tablet" =>
         /\ view.phase = "ready" /\ view.pending
         /\ \A m \in DOMAIN calls : Underway(m) => m = n

\* Past the scan there is a code, and a timer is of a driver's scan.
CodeIsThere ==
  /\ timers > 0 => view.route = "driver"
  /\ timers > 0 \/ view.phase \notin {"scan", "error"} => view.code \in Code

IInv ==
  /\ TypeOK
  /\ LastIsLive
  /\ CallsAreOfTheCode
  /\ CodeIsThere
  /\ AnswersAreOfTheCode
=============================================================================
