------------------------------ MODULE Billing ------------------------------
(***************************************************************************)
(* The plan of one workspace: the row of organizations that billing.service *)
(* keeps in step with Stripe through webhooks, the post-checkout reconcile *)
(* and the drift repair of every load of the billing page; the grant an    *)
(* operator may make by SQL; and the checkouts that start subscriptions.   *)
(*                                                                         *)
(* Stripe may deliver the events of a workspace in any order, again, or    *)
(* never; every database and Stripe call is a step, and a request may die  *)
(* after any of them.  A subscription is named by the checkout session it  *)
(* comes from, and a customer by the checkout that created it.  A grace    *)
(* window is open until its date passes: PLAN_GRACE_DAYS is not zero.      *)
(* Left out: prices, invoices, e-mails and the history in audit_logs.      *)
(***************************************************************************)
EXTENDS Naturals, Sequences, FiniteSets

CONSTANTS Checkouts,   \* checkout sessions, and the subscriptions they become
          Handlers,    \* webhook requests in progress
          Pages,       \* billing pages being loaded
          NoSub,       \* NULL
          MaxChanges,  \* bound on the states a subscription goes through
          MaxEvents    \* bound on the events Stripe delivers

ASSUME BillingAssumption ==
    /\ NoSub \notin Checkouts
    /\ Handlers \cap Pages = {}
    /\ MaxChanges \in Nat \ {0} /\ MaxEvents \in Nat

VARIABLES checkout,  \* how far each checkout has come
          customer,  \* the Stripe customer a checkout is for
          stripe,    \* the states of each subscription so far, at Stripe
          seen,      \* stripe_webhook_events: <<subscription, number of its event>>
          org,       \* plan, plan_source, Stripe's ids, grace and override dates
          work       \* what each request is about to do

billingVars == <<checkout, customer, stripe, seen, org, work>>

Requests == Handlers \cup Pages

(* Abstract states: "active" also stands for trialing, past_due and        *)
(* incomplete, "canceled" also for incomplete_expired.                     *)
ENDED_SUBSCRIPTION_STATUSES == {"canceled", "unpaid"}
LIVE_SUBSCRIPTION_STATUSES == {"active", "unpaid"}

Idle == [pc |-> "idle", sub |-> NoSub, customer |-> NoSub, status |-> "active", grace |-> "none",
         overtaken |-> FALSE]

Exists(c) == stripe[c] # << >>
Status(c) == stripe[c][Len(stripe[c])]
Live(c) == Exists(c) /\ Status(c) \in LIVE_SUBSCRIPTION_STATUSES
Paying(c) == Exists(c) /\ Status(c) \notin ENDED_SUBSCRIPTION_STATUSES
PaidBy(x) == {c \in Checkouts : Exists(c) /\ customer[c] = x}
HasEnded(c) == \E n \in 1..Len(stripe[c]) : stripe[c][n] \in ENDED_SUBSCRIPTION_STATUSES

BillingInit ==
    /\ checkout = [c \in Checkouts |-> "none"] /\ customer = [c \in Checkouts |-> NoSub]
    /\ stripe = [c \in Checkouts |-> << >>]
    /\ seen = {}
    /\ org = [plan |-> "launch", source |-> "stripe", sub |-> NoSub, customer |-> NoSub, grace |-> "none",
              expires |-> FALSE]
    /\ work = [w \in Requests |-> Idle]

Done(w) == work' = [work EXCEPT ![w] = Idle]

(* History: the row is written by someone else between a request's SELECT  *)
(* and its UPDATE.                                                         *)
Overtake(others) == [v \in Requests |-> IF v \in others /\ work[v].pc = "write"
                                        THEN [work[v] EXCEPT !.overtaken = TRUE] ELSE work[v]]
Written(w) == work' = [Overtake(Requests \ {w}) EXCEPT ![w] = Idle]

-----------------------------------------------------------------------------
(* createCheckoutSession, and what the customer and Stripe do              *)

(* A customer pinned to a currency by a checkout nobody paid               *)
Abandoned(x) == PaidBy(x) = {} /\ \E d \in Checkouts : customer[d] = x /\ checkout[d] = "open"

(* resolveStripeCustomerId: the customer of the workspace, unless it has   *)
(* none, or that one is pinned to another currency and was never billed.   *)
ResolveCustomer(c) ==
    /\ checkout[c] = "none"
    /\ \/ /\ org.customer # NoSub
          /\ checkout' = [checkout EXCEPT ![c] = "check"]
          /\ customer' = [customer EXCEPT ![c] = org.customer]
       \/ /\ org.customer = NoSub \/ Abandoned(org.customer)
          /\ checkout' = [checkout EXCEPT ![c] = "create"]
          /\ customer' = customer
    /\ UNCHANGED <<stripe, seen, org, work>>

(* customers.create and the UPDATE that makes it the workspace's customer, *)
(* whatever customer that is by now.                                       *)
NewCustomer(c) ==
    /\ checkout[c] = "create"
    /\ checkout' = [checkout EXCEPT ![c] = "check"]
    /\ customer' = [customer EXCEPT ![c] = c]
    /\ org' = [org EXCEPT !.customer = c]
    /\ UNCHANGED <<stripe, seen, work>>

(* assertNoLiveSubscription, then sessions.create.  What happens between   *)
(* the two might as well happen before the session is paid.                *)
OpenSession(c) ==
    /\ checkout[c] = "check"
    /\ \A d \in PaidBy(customer[c]) : ~Live(d)
    /\ checkout' = [checkout EXCEPT ![c] = "open"]
    /\ UNCHANGED <<customer, stripe, seen, org, work>>

(* It answers ConflictException; the owner may try again.                  *)
RefuseSession(c) ==
    /\ checkout[c] = "check"
    /\ \E d \in PaidBy(customer[c]) : Live(d)
    /\ checkout' = [checkout EXCEPT ![c] = "none"]
    /\ customer' = [customer EXCEPT ![c] = NoSub]
    /\ UNCHANGED <<stripe, seen, org, work>>

Pay(c) ==
    /\ checkout[c] = "open"
    /\ checkout' = [checkout EXCEPT ![c] = "paid"]
    /\ stripe' = [stripe EXCEPT ![c] = <<"active">>]
    /\ UNCHANGED <<customer, seen, org, work>>

(* A card fails for good or is replaced, the customer cancels.             *)
ChangeSubscription(c) ==
    /\ Exists(c) /\ Status(c) # "canceled" /\ Len(stripe[c]) < MaxChanges
    /\ \E status \in {"active", "unpaid", "canceled"} \ {Status(c)} :
         stripe' = [stripe EXCEPT ![c] = Append(@, status)]
    /\ UNCHANGED <<checkout, customer, seen, org, work>>

-----------------------------------------------------------------------------
(* handleWebhookEvent                                                      *)

(* The event id is recorded first; a redelivery stops here.  Event 0 of a  *)
(* subscription is checkout.session.completed, event n tells its n-th      *)
(* state (customer.subscription.created, .updated, .deleted).              *)
RecordEvent(h, c, n) ==
    /\ work[h].pc = "idle" /\ Cardinality(seen) < MaxEvents
    /\ Exists(c) /\ n \in 0..Len(stripe[c]) /\ <<c, n>> \notin seen
    /\ seen' = seen \cup {<<c, n>>}
    /\ work' = [work EXCEPT ![h] = [Idle EXCEPT !.pc = IF n = 0 THEN "checkout" ELSE "apply", !.sub = c,
                                    !.status = IF n = 0 THEN "active" ELSE stripe[c][n]]]
    /\ UNCHANGED <<checkout, customer, stripe, org>>

(* checkout.session.completed                                              *)
CompleteCheckout(h) ==
    /\ work[h].pc = "checkout"
    /\ org' = [org EXCEPT !.plan = "pro", !.sub = work[h].sub, !.source = "stripe", !.expires = FALSE]
    /\ Written(h)
    /\ UNCHANGED <<checkout, customer, stripe, seen>>

-----------------------------------------------------------------------------
(* applySubscriptionState: a SELECT, then an UPDATE that trusts it         *)

PlanOf(status) == IF status \in ENDED_SUBSCRIPTION_STATUSES THEN "launch" ELSE "pro"

(* The window that is only ever kept *)
GraceKept(status) == IF PlanOf(status) = "pro" THEN "none" ELSE org.grace

(* graceEndsAt: a deadline there is stands, though it may have passed, and *)
(* losing Pro without one sets one.                                        *)
GraceOf(status) ==
    CASE PlanOf(status) = "pro" -> "none"
      [] PlanOf(status) = "launch" /\ org.plan = "pro" /\ org.grace = "none" -> "open"
      [] OTHER -> org.grace

(* The rule for admin grants forgotten *)
OutrankedNever(status) == FALSE

(* A plan set by an operator outranks a dead subscription.                 *)
Outranked(status) == org.source = "admin" /\ status \in ENDED_SUBSCRIPTION_STATUSES

ReadBefore(w) ==
    /\ work[w].pc = "apply"
    /\ IF Outranked(work[w].status) THEN Done(w)
       ELSE work' = [work EXCEPT ![w] = [@ EXCEPT !.pc = "write", !.grace = GraceOf(work[w].status)]]
    /\ UNCHANGED <<checkout, customer, stripe, seen, org>>

WriteState(w) ==
    /\ work[w].pc = "write"
    /\ org' = [org EXCEPT !.plan = PlanOf(work[w].status), !.source = "stripe", !.sub = work[w].sub,
                          !.grace = work[w].grace, !.expires = FALSE]
    /\ Written(w)
    /\ UNCHANGED <<checkout, customer, stripe, seen>>

(* The date of the window passes: the row's, which whoever read it last    *)
(* may be about to write again, or one only an overtaken request has read. *)
GraceLapses ==
    /\ org.grace = "open"
    /\ org' = [org EXCEPT !.grace = "lapsed"]
    /\ work' = [w \in Requests |-> IF work[w].pc = "write" /\ work[w].grace = "open" /\ ~work[w].overtaken
                                   THEN [work[w] EXCEPT !.grace = "lapsed"] ELSE work[w]]
    /\ UNCHANGED <<checkout, customer, stripe, seen>>

ReadGraceLapses(w) ==
    /\ work[w].pc = "write" /\ work[w].grace = "open" /\ work[w].overtaken
    /\ work' = [work EXCEPT ![w].grace = "lapsed"]
    /\ UNCHANGED <<checkout, customer, stripe, seen, org>>

-----------------------------------------------------------------------------
(* The billing page: getBillingInfo and reconcileFromStripe                *)

MayBeUnderProvisioned == org.plan = "launch" /\ org.customer # NoSub /\ org.sub = NoSub
MayBeOverProvisioned == org.plan = "pro" /\ org.sub # NoSub

(* The repair of lost downgrades forgotten *)
DriftNoDowngrade(p) ==
    /\ work[p].pc = "idle" /\ org.source # "admin" /\ MayBeUnderProvisioned
    /\ work' = [work EXCEPT ![p] = [Idle EXCEPT !.pc = "list", !.customer = org.customer]]
    /\ UNCHANGED <<checkout, customer, stripe, seen, org>>

(* The repair of lost upgrades forgotten *)
DriftNoUpgrade(p) ==
    /\ work[p].pc = "idle" /\ org.source # "admin" /\ MayBeOverProvisioned
    /\ work' = [work EXCEPT ![p] = [Idle EXCEPT !.pc = "retrieve", !.sub = org.sub]]
    /\ UNCHANGED <<checkout, customer, stripe, seen, org>>

(* The SELECT of reconcileDriftedPlan; a page that finds no sign of drift  *)
(* changes nothing.                                                        *)
DriftCheck(p) ==
    /\ work[p].pc = "idle" /\ org.source # "admin"
    /\ \/ /\ MayBeUnderProvisioned
          /\ work' = [work EXCEPT ![p] = [Idle EXCEPT !.pc = "list", !.customer = org.customer]]
       \/ /\ MayBeOverProvisioned
          /\ work' = [work EXCEPT ![p] = [Idle EXCEPT !.pc = "retrieve", !.sub = org.sub]]
    /\ UNCHANGED <<checkout, customer, stripe, seen, org>>

(* What Stripe answers is applied by the calls that follow.                *)
Apply(p, c) == work' = [work EXCEPT ![p] = [Idle EXCEPT !.pc = "apply", !.sub = c, !.status = Status(c)]]

(* mayBeOverProvisioned: the recorded subscription, and only if it ended.  *)
RetrieveSubscription(p) ==
    /\ work[p].pc = "retrieve"
    /\ IF Status(work[p].sub) \in ENDED_SUBSCRIPTION_STATUSES THEN Apply(p, work[p].sub) ELSE Done(p)
    /\ UNCHANGED <<checkout, customer, stripe, seen, org>>

(* mayBeUnderProvisioned: a live subscription of the customer.             *)
ListSubscriptions(p) ==
    /\ work[p].pc = "list"
    /\ \/ \E c \in PaidBy(work[p].customer) : Live(c) /\ Apply(p, c)
       \/ (\A c \in PaidBy(work[p].customer) : ~Live(c)) /\ Done(p)
    /\ UNCHANGED <<checkout, customer, stripe, seen, org>>

(* reconcileFromStripe, once the customer is back from checkout: a live    *)
(* subscription of the workspace's customer, else the latest of any state. *)
ReconcileFromStripe(p) ==
    /\ work[p].pc = "idle" /\ org.customer # NoSub
    /\ work' = [work EXCEPT ![p] = [Idle EXCEPT !.pc = "latest", !.customer = org.customer]]
    /\ UNCHANGED <<checkout, customer, stripe, seen, org>>

LatestSubscription(p) ==
    /\ work[p].pc = "latest"
    /\ \/ \E c \in PaidBy(work[p].customer) :
             /\ Live(c) \/ \A d \in PaidBy(work[p].customer) : ~Live(d)
             /\ Apply(p, c)
       \/ PaidBy(work[p].customer) = {} /\ Done(p)
    /\ UNCHANGED <<checkout, customer, stripe, seen, org>>

-----------------------------------------------------------------------------
(* The operator, and the end of a grant                                    *)

(* A grant by SQL, with or without an end date (plan_override_expires_at). *)
AdminGrant ==
    /\ org.source # "admin"
    /\ \E date \in BOOLEAN : org' = [org EXCEPT !.plan = "pro", !.source = "admin", !.expires = date]
    /\ work' = Overtake(Requests)
    /\ UNCHANGED <<checkout, customer, stripe, seen>>

(* Once the date has passed, expireAdminOverride by the next request that  *)
(* asks for the entitlement; its WHERE repeats the condition read before.  *)
ExpireAdminOverride ==
    /\ org.source = "admin" /\ org.expires
    /\ org' = [org EXCEPT !.plan = "launch", !.source = "stripe", !.expires = FALSE]
    /\ work' = Overtake(Requests)
    /\ UNCHANGED <<checkout, customer, stripe, seen>>

-----------------------------------------------------------------------------
(* A webhook request dies, or a call of it throws: its event stays         *)
(* recorded, and Stripe's next delivery of it is a no-op.  (A page that    *)
(* fails has changed nothing, and is loaded again.)                        *)
Crash(h) ==
    /\ work[h].pc # "idle"
    /\ Done(h)
    /\ UNCHANGED <<checkout, customer, stripe, seen, org>>

Step(w) == ReadBefore(w) \/ WriteState(w)
PageStep(p) == RetrieveSubscription(p) \/ ListSubscriptions(p) \/ LatestSubscription(p) \/ Step(p)

BillingNext ==
    \/ \E c \in Checkouts : ResolveCustomer(c) \/ NewCustomer(c) \/ OpenSession(c) \/ RefuseSession(c)
                            \/ Pay(c) \/ ChangeSubscription(c)
    \/ \E h \in Handlers : CompleteCheckout(h) \/ Step(h) \/ Crash(h)
                           \/ \E c \in Checkouts, n \in 0..MaxChanges : RecordEvent(h, c, n)
    \/ \E p \in Pages : DriftCheck(p) \/ ReconcileFromStripe(p) \/ PageStep(p)
    \/ AdminGrant \/ ExpireAdminOverride
    \/ GraceLapses \/ \E w \in Requests : ReadGraceLapses(w)

(* A request in progress goes on.  The owner keeps opening the page, and   *)
(* each return from checkout ends in getBillingInfo too: strong fairness.  *)
BillingFairness ==
    /\ \A h \in Handlers : WF_billingVars(CompleteCheckout(h) \/ Step(h))
    /\ \A p \in Pages : SF_billingVars(DriftCheck(p)) /\ WF_billingVars(PageStep(p))

BillingSpec == BillingInit /\ [][BillingNext]_billingVars /\ BillingFairness

-----------------------------------------------------------------------------
(* A request that was overtaken between its SELECT and its UPDATE.         *)
LostUpdate == \E w \in Requests : work[w].overtaken /\ work'[w].pc = "idle"

(* A granted plan is taken away only by its end date or by a customer who  *)
(* pays: a request about a dead subscription undoes a grant only if it had *)
(* read the row before (applySubscriptionState does not compare it again). *)
GrantOutranksDeadSubscription ==
    [][org.source = "admin" /\ org'.source = "stripe" /\ org'.plan = "launch" =>
         org.expires \/ LostUpdate]_billingVars

(* "Losing Pro: start a countdown" (applySubscriptionState): a workspace   *)
(* that loses Pro to Stripe gets a grace window that is still to run, in   *)
(* whatever order the events and the repairs come, unless the request was  *)
(* overtaken or the deadline of an earlier loss, which a new checkout      *)
(* leaves in place, has passed.                                            *)
LossOpensGrace ==
    [][org.plan = "pro" /\ org.source = "stripe" /\ org'.plan = "launch" =>
         org'.grace = "open" \/ LostUpdate \/ org.grace = "lapsed"]_billingVars

(* Pro does not outlive the last subscription, whatever events were lost,  *)
(* late or out of order: reconcileDriftedPlan takes it away.               *)
ProEndsWithSubscription ==
    (org.plan = "pro" /\ org.source = "stripe" /\ \A c \in Checkouts : ~Paying(c))
      ~> (org.plan = "launch" \/ org.source = "admin" \/ \E c \in Checkouts : Paying(c))

PaysAsCustomer == \E c \in PaidBy(org.customer) : Paying(c)
SomeHasEnded == \E c \in Checkouts : HasEnded(c)

(* A workspace that pays for its first subscription as the customer on its *)
(* row gets Pro unless some subscription of it has ended or it gets a new  *)
(* customer, also when no event arrives and when the tab of the checkout   *)
(* was closed: reconcileDriftedPlan.                                       *)
FirstPaymentGivesPro ==
    (org.sub = NoSub /\ org.source = "stripe" /\ PaysAsCustomer)
      ~> (org.plan = "pro" \/ SomeHasEnded \/ ~PaysAsCustomer)

=============================================================================
