-------------------------------- MODULE Billing --------------------------------
(***************************************************************************)
(* The subscription and the modules of one organization, as the signup     *)
(* (createTrialSubscription), Stripe's webhooks (routes/stripe-webhook.ts, *)
(* billing.service.ts) and the platform's administrator (admin.service.ts) *)
(* write them.  No statement names two organizations, so that one is       *)
(* enough.                                                                 *)
(*                                                                         *)
(* Stripe keeps its own record - the subscription of the trial, and one    *)
(* bought through the checkout - and reports every change as an event.     *)
(* Events come in any order, more than once, at the same time, and again   *)
(* after an answer other than 200.  Handling one is a sequence of          *)
(* statements without a transaction around them: the staleness check, the  *)
(* subscription, then the modules one by one.  The signup does the same    *)
(* for the trial it has created, under the time of the server's own clock. *)
(***************************************************************************)
EXTENDS Integers, Sequences, FiniteSets

CONSTANTS
  Plan,        \* the plans with a Stripe price (PLAN_BY_PRICE)
  Module,      \* the modules that can be switched
  Defaults,    \* PLAN_DEFAULT_MODULES
  FirstPlan,   \* defaultPlanForNewOrg
  Hook,        \* slots for webhooks, and the signup, in flight
  Switched,    \* bound: the modules the administrator cares about
  MaxVersion,  \* bound: changes of the subscriptions at Stripe
  SignupTime,  \* bound: what the server's clock may say in the signup
  Unpriced     \* a price that PLAN_BY_PRICE does not know

VARIABLES
  version,       \* Stripe: the states its subscriptions have been in, in order
  due,           \* Stripe: the events that are not acknowledged yet
  subscription,  \* the row of table subscriptions
  module,        \* the rows of table organization_modules
  hook,          \* the webhooks in flight, and the signup
  wish,          \* history: the administrator's last word on a module
  overlapped,    \* history: two have been in flight at once, and not been mended
  trial          \* history: the server's time in the signup

vars == <<version, due, subscription, module, hook, wish, overlapped, trial>>
-----------------------------------------------------------------------------
\* Event n reports version n; event 0 is checkout.session.completed, which
\* carries no subscription but only its id.
Event == 0..MaxVersion

\* The signup answers no event: nobody repeats it.
NoEvent == -1

\* A version is [of, plan, usable, at]: of is the subscription that was changed, of the
\* trial or of the checkout, usable is isSubscriptionUsable of its status, and at the
\* event's created, in seconds, so that two changes may carry the same.

\* A webhook on its way to "check", "upsert" or "modules", with what it has read of
\* its event, and the modules it has still to write.
NoHook == [pc |-> "idle", event |-> 0, plan |-> FirstPlan, usable |-> FALSE,
           at |-> 0, todo |-> {}]

Never == 0  \* lastStripeEventAt is null, no trial was created

\* provisionOrganization, with reconcileModulesForPlan on an empty table.
Init ==
  /\ version = <<>>
  /\ due = {}
  /\ subscription = [plan |-> FirstPlan, usable |-> TRUE, last |-> Never]
  /\ module = [m \in Module |-> [enabled |-> m \in Defaults[FirstPlan],
                                 source  |-> IF m \in Defaults[FirstPlan] THEN "plan" ELSE "none"]]
  /\ hook = [h \in Hook |-> NoHook]
  /\ wish = [m \in Module |-> "none"]
  /\ overlapped = FALSE
  /\ trial = Never
-----------------------------------------------------------------------------
(* Stripe. *)

Newest == version[Len(version)]

\* The versions of the subscription that was bought.
Bought == {n \in 1..Len(version) : version[n].of = "checkout"}

\* The checkout is completed, or a subscription changes: its plan, or a payment
\* fails, or it is cancelled.
ChangeSubscription(of, plan, usable, at) ==
  /\ Len(version) < MaxVersion
  /\ of = "trial" => trial # Never
  /\ IF version = <<>> THEN at = 1 ELSE at \in {Newest.at, Newest.at + 1}
  /\ version' = Append(version, [of |-> of, plan |-> plan, usable |-> usable, at |-> at])
  /\ due' = due \cup {Len(version) + 1}
                 \cup (IF of = "checkout" /\ Bought = {} THEN {0} ELSE {})
  /\ UNCHANGED <<subscription, module, hook, wish, overlapped, trial>>

\* The version an event leads to: its own, or what subscriptions.retrieve answers of
\* the subscription that was bought.
Reports(n, k) == IF n = 0 THEN k \in Bought /\ \A j \in Bought : j <= k ELSE k = n

\* The version whose time the event carries: the checkout's has that of the purchase.
Dates(n, c) == IF n = 0 THEN c \in Bought /\ \A j \in Bought : c <= j ELSE c = n

\* An event is sent, for the first time or again, even one acknowledged before.
\* An unknown price can never be applied: logged and acknowledged at once
\* (PermanentStripeError).
Receive(h, n) ==
  /\ hook[h] = NoHook
  /\ \E k, c \in 1..Len(version) :
       /\ Reports(n, k) /\ Dates(n, c)
       /\ IF version[k].plan = Unpriced
          THEN due' = due \ {n} /\ UNCHANGED hook
          ELSE /\ hook' = [hook EXCEPT ![h] =
                    [pc |-> "check", event |-> n, plan |-> version[k].plan,
                     usable |-> version[k].usable, at |-> version[c].at, todo |-> {}]]
               /\ UNCHANGED due
  /\ overlapped' = (overlapped \/ \E g \in Hook : hook[g] # NoHook)
  /\ UNCHANGED <<version, subscription, module, wish, trial>>

\* createTrialSubscription, after provisionOrganization and before anybody can buy: the
\* subscription is created at Stripe, and the signup goes on with the answer, under
\* the server's time.  That may be any, before Stripe's time (2, so that there is one
\* before it) and after whatever change comes: the answer takes its time, and the two
\* clocks do not agree.
CreateTrial(h, now) ==
  /\ version = <<>> /\ trial = Never
  /\ version' = <<[of |-> "trial", plan |-> FirstPlan, usable |-> TRUE, at |-> 2]>>
  /\ due' = {1}
  /\ trial' = now
  /\ hook' = [hook EXCEPT ![h] =
       [pc |-> "check", event |-> NoEvent, plan |-> FirstPlan, usable |-> TRUE,
        at |-> now, todo |-> {}]]
  /\ UNCHANGED <<subscription, module, wish, overlapped>>
-----------------------------------------------------------------------------
(* syncSubscriptionFromStripe. *)

Acknowledge(h) ==
  /\ hook' = [hook EXCEPT ![h] = NoHook]
  /\ due' = due \ {hook[h].event}

\* No event counts as stale.
Stale_Never(h) == FALSE

Stale(h) == subscription.last # Never /\ hook[h].at < subscription.last

CheckStale(h) ==
  /\ hook[h].pc = "check"
  /\ IF Stale(h)
     THEN Acknowledge(h)
     ELSE hook' = [hook EXCEPT ![h].pc = "upsert"] /\ UNCHANGED due
  /\ UNCHANGED <<version, subscription, module, wish, overlapped, trial>>

\* The modules to switch on; none when the subscription cannot be used.
Bundle(h) == IF hook[h].usable THEN Defaults[hook[h].plan] ELSE {}

\* The newest change, newer than all before, is written while nothing else is in
\* flight: what an overlap may have left is gone with that.
Latest == \A n \in 1..(Len(version) - 1) : version[n].at < Newest.at
Mends(h) == hook[h].event = Len(version) /\ Latest /\ \A g \in Hook : g # h => hook[g] = NoHook

UpsertSubscription(h) ==
  /\ hook[h].pc = "upsert"
  /\ subscription' = [plan |-> hook[h].plan, usable |-> hook[h].usable, last |-> hook[h].at]
  /\ hook' = [hook EXCEPT ![h].pc = "modules", ![h].todo = Bundle(h)]
  /\ overlapped' = (overlapped /\ ~Mends(h))
  /\ UNCHANGED <<version, due, module, wish, trial>>

\* reconcileModulesForPlan: one upsert for each module of the plan.
SwitchOn(h, m) ==
  /\ hook[h].pc = "modules" /\ m \in hook[h].todo
  /\ module' = [module EXCEPT ![m] = [enabled |-> TRUE, source |-> "plan"]]
  /\ hook' = [hook EXCEPT ![h].todo = @ \ {m}]
  /\ UNCHANGED <<version, due, subscription, wish, overlapped, trial>>

\* updateMany without source in its condition.
Withdrawn_Manual(h) == Module \ Bundle(h)

\* The rows updateMany switches off.
Withdrawn(h) == {m \in Module \ Bundle(h) : module[m].source = "plan"}

\* The last statement, then the answer 200.
SwitchOff(h) ==
  /\ hook[h].pc = "modules" /\ hook[h].todo = {}
  /\ module' = [m \in Module |-> IF m \in Withdrawn(h) THEN [module[m] EXCEPT !.enabled = FALSE]
                                                       ELSE module[m]]
  /\ Acknowledge(h)
  /\ UNCHANGED <<version, subscription, wish, overlapped, trial>>

\* A statement fails, or the server does: 500 or no answer, and Stripe sends the
\* event again.  The signup fails for good: its organization is there, with a trial at
\* Stripe that only the webhooks tell of.
Fail(h) ==
  /\ hook[h] # NoHook
  /\ hook' = [hook EXCEPT ![h] = NoHook]
  /\ due' = due \cup ({hook[h].event} \ {NoEvent})
  /\ UNCHANGED <<version, subscription, module, wish, overlapped, trial>>

\* admin.toggleModule: setModuleOverride, one upsert.
ToggleModule(m, on) ==
  /\ module' = [module EXCEPT ![m] = [enabled |-> on, source |-> "manual"]]
  /\ wish' = [wish EXCEPT ![m] = IF on THEN "on" ELSE "off"]
  /\ UNCHANGED <<version, due, subscription, hook, overlapped, trial>>

Next ==
  \/ \E at \in 1..(MaxVersion + 1), of \in {"trial", "checkout"} :
       \/ \E plan \in Plan, usable \in BOOLEAN : ChangeSubscription(of, plan, usable, at)
       \/ ChangeSubscription(of, Unpriced, TRUE, at)
  \/ \E h \in Hook :
       \/ \E now \in SignupTime : CreateTrial(h, now)
       \/ \E n \in Event : Receive(h, n)
       \/ CheckStale(h) \/ UpsertSubscription(h) \/ SwitchOff(h) \/ Fail(h)
       \/ \E m \in Module : SwitchOn(h, m)
  \/ \E m \in Switched, on \in BOOLEAN : ToggleModule(m, on)

Spec == Init /\ [][Next]_vars
-----------------------------------------------------------------------------
(* Properties. *)

\* Stripe has nothing left to send, nothing is being handled, and nothing is left of
\* syncs that ran beside each other.
Settled == due = {} /\ ~overlapped /\ \A h \in Hook : hook[h] = NoHook

\* The last change, unless another one carries the same second, or the signup's clock
\* was ahead of it.
Decisive == version # <<>> /\ Newest.plan # Unpriced /\ Latest /\ trial <= Newest.at

\* Whatever the order of the events, and however often one failed half-way or came
\* twice, the row ends as Stripe's record says: "a retried older event must never
\* overwrite state written by a newer one" (schema.prisma:183-185), and the retry
\* of the newest one is not mistaken for stale.  Two syncs at the same time can break
\* this - the signup and a webhook are enough - until the next change is written
\* alone; so can two changes within one second, and a change that Stripe dates
\* before the signup's own time: it is dropped as stale, and never repaired.
NewestEventWins ==
  Settled /\ Decisive =>
    subscription = [plan |-> Newest.plan, usable |-> Newest.usable, last |-> Newest.at]

\* No other change falls in the second of the purchase.
Apart == \A c, n \in 1..Len(version) : Dates(0, c) /\ n # c => version[n].at # version[c].at

ModulesFollow ==
  \A m \in Module : module[m].source = "plan" =>
    (module[m].enabled <=> subscription.usable /\ m \in Defaults[subscription.plan])

\* The modules follow the subscription, although they are written after it and one
\* by one: those of source plan are on exactly when the plan has them and is paid
\* for.  A cancelled plan is never granted again, and the signup, however late its
\* time, does no harm to them.  Only the checkout's event can break this, which
\* carries the time of the purchase and applies the newest: when both are of the same
\* second, it may fail half-way and then, the price by now being unknown, be
\* acknowledged as it is.
ModulesFollowPlan == Settled /\ Apart => ModulesFollow

\* "Manual overrides are untouched" (module-service.ts:34): what the administrator
\* said of a module stands, through upgrades, cancellations and webhooks at the
\* same time - as long as no plan that includes the module has come up since the
\* organization was made.  Reconciling such a plan does overwrite the override.
OverridesStand ==
  \A m \in Module :
    wish[m] # "none" /\ (\A n \in 1..Len(version) : version[n].plan # Unpriced =>
                           m \notin Defaults[version[n].plan])
    => module[m] = [enabled |-> wish[m] = "on", source |-> "manual"]
-----------------------------------------------------------------------------
(* The inductive invariant of these properties.                            *)

BillingConstants ==
  /\ Defaults \in [Plan -> SUBSET Module] /\ FirstPlan \in Plan /\ Unpriced \notin Plan
  /\ Switched \subseteq Module /\ SignupTime \subseteq Nat \ {0}

VersionRow == [of : {"trial", "checkout"}, plan : Plan \cup {Unpriced}, usable : BOOLEAN,
               at : Nat \ {0}]
ModuleRow == [enabled : BOOLEAN, source : {"none", "plan", "manual"}]
HookRow == [pc : {"idle", "check", "upsert", "modules"}, event : Nat \cup {NoEvent},
            plan : Plan, usable : BOOLEAN, at : Nat, todo : SUBSET Module]

TypeOK ==
  /\ version \in Seq(VersionRow)
  /\ subscription \in [plan : Plan, usable : BOOLEAN, last : Nat]
  /\ module \in [Module -> ModuleRow]
  /\ hook \in [Hook -> HookRow]
  /\ wish \in [Module -> {"none", "on", "off"}]
  /\ overlapped \in BOOLEAN
  /\ trial \in Nat

\* Time does not run backwards at Stripe, no later time has been written but the
\* signup's, and nothing before the first change.
TimesRise ==
  /\ \A i, j \in 1..Len(version) : i <= j => version[i].at <= version[j].at
  /\ IF version = <<>>
     THEN trial = Never /\ subscription = [plan |-> FirstPlan, usable |-> TRUE, last |-> Never]
     ELSE subscription.last <= Newest.at \/ subscription.last <= trial

\* What the webhook has read is version k.
Carries(h, k) == hook[h].plan = version[k].plan /\ hook[h].usable = version[k].usable

HooksAreTrue ==
  \A h \in Hook : hook[h] # NoHook =>
    /\ hook[h].pc # "idle" /\ version # <<>>
    /\ IF hook[h].event = NoEvent
       THEN Carries(h, 1) /\ hook[h].at = trial
            /\ hook[h].plan = FirstPlan /\ hook[h].usable
       ELSE \E k, c \in 1..Len(version) :
              /\ IF hook[h].event = 0 THEN k \in Bought /\ Dates(0, c)
                                      ELSE k = hook[h].event /\ c = hook[h].event
              /\ Carries(h, k) /\ hook[h].at = version[c].at
    /\ hook[h].todo \subseteq Bundle(h)

OneAtATime == \A g, h \in Hook : hook[g] # NoHook /\ hook[h] # NoHook => g = h

\* The row that the webhook writes.
Upserted(h) == [plan |-> hook[h].plan, usable |-> hook[h].usable, last |-> hook[h].at]

\* The event is not stale until its row is written, and then the row is there, with
\* the modules switched on so far.
HooksAreCurrent ==
  \A h \in Hook :
    /\ hook[h].pc = "upsert" => ~Stale(h)
    /\ hook[h].pc = "modules" =>
         /\ subscription = Upserted(h)
         /\ \A m \in Bundle(h) \ hook[h].todo :
              module[m].source = "plan" => module[m].enabled

Priced(n) == version[n].plan # Unpriced

\* Nothing has been acknowledged while the signup goes on, and the row and the modules
\* are those of the first plan.
TrialIsFirst ==
  \A h \in Hook : hook[h] # NoHook /\ hook[h].event = NoEvent =>
    /\ 1..Len(version) \subseteq due /\ ModulesFollow
    /\ subscription.plan = FirstPlan /\ subscription.usable
    /\ hook[h].pc # "modules" => subscription.last = Never

\* What was acknowledged is not newer than the row, and the newest is the row.
AcknowledgedIsWritten ==
  /\ \A n \in 1..Len(version) : Priced(n) /\ n \notin due => version[n].at <= subscription.last
  /\ Decisive /\ Len(version) \notin due =>
       subscription = [plan |-> Newest.plan, usable |-> Newest.usable, last |-> Newest.at]

\* The row is of the second of the purchase, and so of the subscription bought then.
PurchaseIsWritten ==
  \A c \in 1..Len(version) :
    Dates(0, c) /\ Priced(c) /\ c \notin due /\ subscription.last = version[c].at =>
      \E j \in Bought : /\ subscription.plan = version[j].plan
                        /\ subscription.usable = version[j].usable

\* An event that will not be found stale is still to be handled to its end.
Owed ==
  \E n \in 1..Len(version) :
    /\ Priced(n) /\ version[n].at >= subscription.last
    /\ n \in due \/ \E h \in Hook : hook[h].pc = "modules" /\ hook[h].event = n

\* The checkout's event brings nothing that is not still to come, or there, unless it
\* is stale.
CheckoutIsHarmless ==
  \A h \in Hook : hook[h].pc \in {"check", "upsert"} /\ hook[h].event = 0 =>
    \E k \in Bought :
      /\ Carries(h, k)
      /\ k \in due \/ hook[h].at < subscription.last \/ subscription = Upserted(h)

Undisturbed ==
  /\ OneAtATime /\ HooksAreCurrent /\ AcknowledgedIsWritten /\ TrialIsFirst
  /\ Apart => (ModulesFollow \/ Owed) /\ CheckoutIsHarmless /\ PurchaseIsWritten

IInv ==
  /\ TypeOK /\ TimesRise /\ HooksAreTrue /\ OverridesStand
  /\ ~overlapped => Undisturbed
=============================================================================
