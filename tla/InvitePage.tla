------------------------------ MODULE InvitePage ------------------------------
(***************************************************************************)
(* The landing page of an invitation's link, AcceptInvitePage.tsx, in one  *)
(* browser tab.  It brings its visitor into a session (AuthContext.tsx) -  *)
(* one that is there already, a login, or a signup with or without a code  *)
(* by mail - and calls invitation.accept.  Three places of the page await  *)
(* that call: the effect that finds a session, handleSubmit and            *)
(* handleVerifyOtp; a ref, requested, is what keeps them from calling      *)
(* twice.  The server answers as it likes, and so does Supabase.           *)
(***************************************************************************)
EXTENDS Naturals

VARIABLES
  page,      \* what useState, useRef and AuthContext keep
  awaiting,  \* what each of the three places awaits
  accepts,   \* history: calls of invitation.accept since the page was opened
  foreign    \* history: another tab has changed the session

vars == <<page, awaiting, accepts, foreign>>

Place == {"effect", "submit", "verify"}

\* loading: the stored session is not read yet; user: somebody is signed in; confirm:
\* needsEmailConfirmation; left: navigated to the dashboard.
Init ==
  /\ page = [loading |-> TRUE, user |-> FALSE, mode |-> "signup", requested |-> FALSE,
             confirm |-> FALSE, error |-> FALSE, left |-> FALSE]
  /\ awaiting = [p \in Place |-> "nothing"]
  /\ accepts = 0
  /\ foreign = FALSE

\* What is on the screen, in the order of the component's returns.
Joining   == page.loading \/ (page.user /\ ~page.error)
CodeShown == ~page.left /\ ~Joining /\ ~page.user /\ page.confirm
FormShown == ~page.left /\ ~Joining /\ ~page.user /\ ~page.confirm

\* Place p goes on to await accept().
CallAccept(p) ==
  /\ awaiting' = [awaiting EXCEPT ![p] = "accept"]
  /\ accepts' = accepts + 1
-----------------------------------------------------------------------------
\* getSession answers.
RestoreSession(found) ==
  /\ page.loading
  /\ page' = [page EXCEPT !.loading = FALSE, !.user = @ \/ found]
  /\ UNCHANGED <<awaiting, accepts, foreign>>

\* The effect on [loading, user].
AcceptAtOnce ==
  /\ ~page.left /\ ~page.loading /\ page.user /\ ~page.requested
  /\ page' = [page EXCEPT !.requested = TRUE]
  /\ CallAccept("effect")
  /\ UNCHANGED foreign

SwitchMode ==
  /\ FormShown
  /\ page' = [page EXCEPT !.mode = IF @ = "signup" THEN "login" ELSE "signup"]
  /\ UNCHANGED <<awaiting, accepts, foreign>>

\* handleSubmit with an address or a password that is refused at once.
SubmitRefused ==
  /\ FormShown /\ awaiting["submit"] = "nothing"
  /\ page' = [page EXCEPT !.error = FALSE]
  /\ UNCHANGED <<awaiting, accepts, foreign>>

\* The ref is not claimed before the session comes.
Submit_Unclaimed ==
  /\ FormShown /\ awaiting["submit"] = "nothing"
  /\ page' = [page EXCEPT !.error = FALSE]
  /\ awaiting' = [awaiting EXCEPT !["submit"] = "session"]
  /\ UNCHANGED <<accepts, foreign>>

\* handleSubmit up to the await of login or signup.
Submit ==
  /\ FormShown /\ awaiting["submit"] = "nothing"
  /\ page' = [page EXCEPT !.error = FALSE, !.requested = TRUE]
  /\ awaiting' = [awaiting EXCEPT !["submit"] = "session"]
  /\ UNCHANGED <<accepts, foreign>>

\* signup: the code has to be confirmed first.
AskForCode ==
  /\ awaiting["submit"] = "session" /\ page.mode = "signup"
  /\ page' = [page EXCEPT !.confirm = TRUE]
  /\ awaiting' = [awaiting EXCEPT !["submit"] = "nothing"]
  /\ UNCHANGED <<accepts, foreign>>

\* handleVerifyOtp up to the await of verifySignupOtp.
Verify ==
  /\ CodeShown /\ awaiting["verify"] = "nothing"
  /\ awaiting' = [awaiting EXCEPT !["verify"] = "session"]
  /\ UNCHANGED <<page, accepts, foreign>>

\* Supabase signs the visitor in, and the place that asked for it accepts.
SignedIn(p) ==
  /\ awaiting[p] = "session"
  /\ page' = [page EXCEPT !.user = TRUE]
  /\ CallAccept(p)
  /\ UNCHANGED foreign

\* Supabase refuses: an error of the form, or one beside the code (otpError).
SignInFails(p) ==
  /\ awaiting[p] = "session"
  /\ page' = [page EXCEPT !.error = @ \/ p = "submit"]
  /\ awaiting' = [awaiting EXCEPT ![p] = "nothing"]
  /\ UNCHANGED <<accepts, foreign>>

\* invitation.accept answers: on to the dashboard.
Accepted(p) ==
  /\ awaiting[p] = "accept"
  /\ page' = [page EXCEPT !.left = TRUE]
  /\ awaiting' = [awaiting EXCEPT ![p] = "nothing"]
  /\ UNCHANGED <<accepts, foreign>>

\* It refuses, or its answer is lost.
AcceptFails(p) ==
  /\ awaiting[p] = "accept"
  /\ page' = [page EXCEPT !.error = TRUE]
  /\ awaiting' = [awaiting EXCEPT ![p] = "nothing"]
  /\ UNCHANGED <<accepts, foreign>>

\* onAuthStateChange tells of a login or a logout in another tab.
OtherTab ==
  /\ ~page.left /\ ~foreign
  /\ page' = [page EXCEPT !.user = ~@]
  /\ foreign' = TRUE
  /\ UNCHANGED <<awaiting, accepts>>
-----------------------------------------------------------------------------
Next ==
  \/ \E found \in BOOLEAN : RestoreSession(found)
  \/ AcceptAtOnce \/ SwitchMode \/ SubmitRefused \/ Submit \/ AskForCode \/ Verify
  \/ \E p \in Place : SignedIn(p) \/ SignInFails(p) \/ Accepted(p) \/ AcceptFails(p)
  \/ OtherTab

Spec == Init /\ [][Next]_vars
-----------------------------------------------------------------------------
\* "Joining your team..." is on the screen only while something is still to come:
\* the session is being read, the effect is about to run, or an accept call is
\* under way.  Otherwise "the page would just hang" (AcceptInvitePage.tsx:133-137).
\* A session that arrives from another tab while the code is asked for does hang
\* it: requested has been claimed, and nobody accepts.
JoiningEnds ==
  ~page.left /\ Joining /\ ~foreign =>
    \/ page.loading
    \/ ~page.requested
    \/ \E p \in Place : awaiting[p] = "accept"

\* One visit calls accept once: a second call would be told "already accepted" for
\* a join that has just succeeded (lines 94-98).  Signing out in another tab while
\* the call is under way brings the form back, and with it a second call.
OneAcceptPerVisit == ~foreign => accepts <= 1
-----------------------------------------------------------------------------
(* The inductive invariant of these properties.                            *)

TypeOK ==
  /\ page \in [loading : BOOLEAN, user : BOOLEAN, mode : {"signup", "login"},
               requested : BOOLEAN, confirm : BOOLEAN, error : BOOLEAN, left : BOOLEAN]
  /\ awaiting \in [Place -> {"nothing", "session", "accept"}]
  /\ accepts \in Nat
  /\ foreign \in BOOLEAN

\* A session is asked for by one place at a time, the ref being claimed, and only
\* while there is none.
SessionsAreAwaited ==
  /\ awaiting["effect"] # "session"
  /\ awaiting["submit"] = "session" => ~page.confirm
  /\ awaiting["verify"] = "session" => page.confirm
  /\ page.confirm => page.requested
  /\ \A p \in Place : awaiting[p] = "session" => page.requested /\ ~page.user

IInv ==
  /\ TypeOK
  /\ page.requested => ~page.loading
  /\ ~foreign =>
       /\ SessionsAreAwaited
       /\ accepts > 0 => page.requested /\ page.user
       /\ accepts <= 1
       /\ page.requested /\ page.user /\ ~page.error /\ ~page.left =>
            \E p \in Place : awaiting[p] = "accept"
=============================================================================
