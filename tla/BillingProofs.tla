---------------------------- MODULE BillingProofs ----------------------------
(***************************************************************************)
(* What a webhook or a billing page may do to the plan of a workspace, for *)
(* any number of checkouts, requests and states of a subscription.         *)
(***************************************************************************)
EXTENDS Billing, TLAPS

Statuses == {"active", "unpaid", "canceled"}

Windows == {"none", "open", "lapsed"}

Work == [pc : {"idle", "checkout", "apply", "write", "list", "latest", "retrieve"}, sub : Checkouts \cup {NoSub},
         customer : Checkouts \cup {NoSub}, status : Statuses, grace : Windows, overtaken : BOOLEAN]

Org == [plan : {"launch", "pro"}, source : {"stripe", "admin"}, sub : Checkouts \cup {NoSub},
        customer : Checkouts \cup {NoSub}, grace : Windows, expires : BOOLEAN]

BillingTyped ==
    /\ stripe \in [Checkouts -> Seq(Statuses)]
    /\ org \in Org
    /\ work \in [Requests -> Work]

(* A subscription that is recorded or worked on is one Stripe knows.       *)
SubsExist ==
    /\ org.sub # NoSub => Exists(org.sub)
    /\ \A w \in Requests : /\ work[w].sub # NoSub => Exists(work[w].sub)
                           /\ work[w].pc = "retrieve" => work[w].sub # NoSub

(* What a request has read of the row is still true when it writes, unless *)
(* somebody has written the row since: no grant stands against it, and the *)
(* grace window it writes is the one the row calls for.                    *)
ReadsCurrent ==
    \A w \in Requests : work[w].pc = "write" /\ ~work[w].overtaken =>
        /\ ~Outranked(work[w].status)
        /\ work[w].grace = GraceOf(work[w].status)

BillingInv == BillingTyped /\ SubsExist /\ ReadsCurrent

CheckoutStep(c) ==
    ResolveCustomer(c) \/ NewCustomer(c) \/ OpenSession(c) \/ RefuseSession(c) \/ Pay(c) \/ ChangeSubscription(c)

-----------------------------------------------------------------------------
LEMMA IdleTyped == Idle \in Work
  BY DEF Idle, Work, Statuses, Windows

LEMMA StatusTyped ==
  ASSUME BillingTyped, NEW c \in Checkouts, Exists(c)
  PROVE  Status(c) \in Statuses
<1>1. stripe[c] \in Seq(Statuses) /\ stripe[c] # << >>
  BY DEF BillingTyped, Exists
<1>2. Len(stripe[c]) \in 1..Len(stripe[c])
  BY <1>1
<1> QED
  BY <1>1, <1>2 DEF Status

(* A request that goes on to something other than its UPDATE.               *)
LEMMA OneMoves ==
  ASSUME BillingInv, NEW w \in Requests, NEW to \in Work,
         work' = [work EXCEPT ![w] = to],
         UNCHANGED <<stripe, org>>,
         to.sub # NoSub => Exists(to.sub),
         to.pc = "retrieve" => to.sub # NoSub,
         to.pc = "write" => ~Outranked(to.status) /\ to.grace = GraceOf(to.status)
  PROVE  BillingInv'
<1>1. BillingTyped'
  BY DEF BillingInv, BillingTyped
<1>2. SubsExist'
  BY DEF BillingInv, BillingTyped, SubsExist, Exists
<1>3. ReadsCurrent'
  BY DEF BillingInv, BillingTyped, ReadsCurrent, Outranked, GraceOf
<1> QED
  BY <1>1, <1>2, <1>3 DEF BillingInv

(* A step that writes the row: whoever has read it before is overtaken.     *)
LEMMA RowWritten ==
  ASSUME BillingInv, NEW others \in SUBSET Requests,
         \A w \in Requests \ others : work'[w] = Idle,
         \A w \in others : work'[w] = Overtake(others)[w],
         work' = [w \in Requests |-> work'[w]],
         UNCHANGED stripe, org' \in Org, org'.sub # NoSub => stripe[org'.sub] # << >>
  PROVE  BillingInv'
<1>1. \A w \in others : /\ work'[w] \in Work /\ work'[w].pc = work[w].pc /\ work'[w].sub = work[w].sub
                        /\ work[w].pc = "write" => work'[w].overtaken
  <2> SUFFICES ASSUME NEW w \in others
               PROVE  /\ work'[w] \in Work /\ work'[w].pc = work[w].pc /\ work'[w].sub = work[w].sub
                      /\ work[w].pc = "write" => work'[w].overtaken
    OBVIOUS
  <2>1. work[w] \in Work
    BY DEF BillingInv, BillingTyped
  <2>2. work'[w] = IF work[w].pc = "write" THEN [work[w] EXCEPT !.overtaken = TRUE] ELSE work[w]
    BY DEF Overtake
  <2> QED
    BY <2>1, <2>2 DEF Work
<1>2. BillingTyped'
  BY <1>1, IdleTyped DEF BillingInv, BillingTyped
<1>3. SubsExist'
  <2>1. Idle.sub = NoSub /\ Idle.pc = "idle"
    BY DEF Idle
  <2>2. \A w \in Requests : /\ work'[w].sub # NoSub => stripe[work'[w].sub] # << >>
                            /\ work'[w].pc = "retrieve" => work'[w].sub # NoSub
    BY <1>1, <2>1 DEF BillingInv, SubsExist, Exists
  <2> QED
    BY <2>2 DEF SubsExist, Exists
<1>4. ReadsCurrent'
  BY <1>1 DEF ReadsCurrent, Idle
<1> QED
  BY <1>2, <1>3, <1>4 DEF BillingInv

LEMMA RequestWrote ==
  ASSUME BillingInv, NEW w \in Requests, Written(w),
         UNCHANGED stripe, org' \in Org, org'.sub # NoSub => stripe[org'.sub] # << >>
  PROVE  BillingInv'
<1> DEFINE others == Requests \ {w}
<1>1. work' = [Overtake(others) EXCEPT ![w] = Idle]
  BY DEF Written
<1>2. work' = [v \in Requests |-> IF v = w THEN Idle ELSE Overtake(others)[v]]
  BY <1>1 DEF Overtake
<1>3. /\ \A v \in Requests \ others : work'[v] = Idle
      /\ \A v \in others : work'[v] = Overtake(others)[v]
      /\ work' = [v \in Requests |-> work'[v]]
  BY <1>2
<1> QED
  BY <1>3, RowWritten

LEMMA BillingInitInv == BillingInit => BillingInv
<1> SUFFICES ASSUME BillingInit PROVE BillingInv
  OBVIOUS
<1>1. BillingTyped
  BY IdleTyped DEF BillingInit, BillingTyped, Org, Windows
<1>2. SubsExist /\ ReadsCurrent
  BY DEF BillingInit, SubsExist, ReadsCurrent, Idle
<1> QED
  BY <1>1, <1>2 DEF BillingInv

(* Stripe and the checkouts: what a subscription was in, it has been in.    *)
LEMMA StripeMoves ==
  ASSUME BillingInv, NEW c \in Checkouts, CheckoutStep(c)
  PROVE  BillingInv'
<1>1. stripe' \in [Checkouts -> Seq(Statuses)]
      /\ \A d \in Checkouts : stripe[d] # << >> => stripe'[d] # << >>
  <2>1. CASE ResolveCustomer(c) \/ NewCustomer(c) \/ OpenSession(c) \/ RefuseSession(c)
    BY <2>1 DEF ResolveCustomer, NewCustomer, OpenSession, RefuseSession, BillingInv, BillingTyped
  <2>2. CASE Pay(c)
    BY <2>2 DEF Pay, BillingInv, BillingTyped, Statuses
  <2>3. CASE ChangeSubscription(c)
    <3>1. PICK status \in Statuses : stripe' = [stripe EXCEPT ![c] = Append(@, status)]
      BY <2>3 DEF ChangeSubscription, Statuses
    <3>2. Append(stripe[c], status) \in Seq(Statuses) /\ Append(stripe[c], status) # << >>
      BY DEF BillingInv, BillingTyped
    <3> QED
      BY <3>1, <3>2 DEF BillingInv, BillingTyped
  <2> QED
    BY <2>1, <2>2, <2>3 DEF CheckoutStep
<1>2. work' = work /\ org' \in Org /\ org'.plan = org.plan /\ org'.source = org.source /\ org'.sub = org.sub
      /\ org'.grace = org.grace
  BY DEF CheckoutStep, ResolveCustomer, NewCustomer, OpenSession, RefuseSession, Pay, ChangeSubscription,
         BillingInv, BillingTyped, Org
<1>3. BillingTyped'
  BY <1>1, <1>2 DEF BillingInv, BillingTyped
<1>4. SubsExist'
  <2>1. org.sub \in Checkouts \cup {NoSub} /\ \A w \in Requests : work[w].sub \in Checkouts \cup {NoSub}
    BY DEF BillingInv, BillingTyped, Org, Work
  <2> QED
    BY <1>1, <1>2, <2>1 DEF BillingInv, SubsExist, Exists
<1>5. ReadsCurrent'
  BY <1>2 DEF BillingInv, ReadsCurrent, Outranked, GraceOf
<1> QED
  BY <1>3, <1>4, <1>5 DEF BillingInv

LEMMA WebhookMoves ==
  ASSUME BillingInv, NEW h \in Handlers
  PROVE  /\ Crash(h) => BillingInv'
         /\ \A c \in Checkouts, n \in 0..MaxChanges : RecordEvent(h, c, n) => BillingInv'
         /\ CompleteCheckout(h) => BillingInv'
<1> h \in Requests
  BY DEF Requests
<1>1. ASSUME Crash(h) PROVE BillingInv'
  BY <1>1, IdleTyped, OneMoves DEF Crash, Done, Idle
<1>2. ASSUME NEW c \in Checkouts, NEW n \in 0..MaxChanges, RecordEvent(h, c, n) PROVE BillingInv'
  <2> DEFINE to == [Idle EXCEPT !.pc = IF n = 0 THEN "checkout" ELSE "apply", !.sub = c,
                                !.status = IF n = 0 THEN "active" ELSE stripe[c][n]]
  <2>1. n # 0 => stripe[c][n] \in Statuses
    <3>1. stripe[c] \in Seq(Statuses)
      BY DEF BillingInv, BillingTyped
    <3>2. n # 0 => n \in 1..Len(stripe[c])
      BY <1>2, <3>1 DEF RecordEvent
    <3> QED
      BY <3>1, <3>2
  <2>2. to \in Work /\ to.sub = c /\ to.pc \notin {"write", "retrieve"}
    BY <2>1 DEF Idle, Work, Statuses, Windows
  <2>3. Exists(c) /\ work' = [work EXCEPT ![h] = to] /\ UNCHANGED <<stripe, org>>
    BY <1>2 DEF RecordEvent
  <2> QED
    BY <2>2, <2>3, OneMoves, BillingAssumption
<1>3. ASSUME CompleteCheckout(h) PROVE BillingInv'
  <2>1. org' \in Org /\ org'.sub = work[h].sub
    BY <1>3 DEF CompleteCheckout, BillingInv, BillingTyped, Org, Work
  <2>2. org'.sub # NoSub => stripe[org'.sub] # << >>
    BY <2>1 DEF BillingInv, SubsExist, Exists
  <2> QED
    BY <1>3, <2>1, <2>2, RequestWrote DEF CompleteCheckout
<1> QED
  BY <1>1, <1>2, <1>3

LEMMA ApplyMoves ==
  ASSUME BillingInv, NEW w \in Requests
  PROVE  (ReadBefore(w) => BillingInv') /\ (WriteState(w) => BillingInv')
<1>1. ASSUME ReadBefore(w) PROVE BillingInv'
  <2>1. CASE Outranked(work[w].status)
    BY <1>1, <2>1, IdleTyped, OneMoves DEF ReadBefore, Done, Idle
  <2>2. CASE ~Outranked(work[w].status)
    <3> DEFINE to == [work[w] EXCEPT !.pc = "write", !.grace = GraceOf(work[w].status)]
    <3>1. work[w] \in Work
      BY DEF BillingInv, BillingTyped
    <3>2. /\ to \in Work /\ to.sub = work[w].sub /\ to.pc = "write"
          /\ to.status = work[w].status /\ to.grace = GraceOf(work[w].status)
      <4>1. org.grace \in Windows
        BY DEF BillingInv, BillingTyped, Org
      <4>2. GraceOf(work[w].status) \in Windows
        BY <4>1 DEF GraceOf, Windows
      <4> QED
        BY <3>1, <4>2 DEF Work
    <3>3. to.sub # NoSub => Exists(to.sub)
      BY <3>2 DEF BillingInv, SubsExist
    <3>4. work' = [work EXCEPT ![w] = to] /\ UNCHANGED <<stripe, org>>
      BY <1>1, <2>2 DEF ReadBefore, BillingInv, BillingTyped
    <3> QED
      BY <2>2, <3>2, <3>3, <3>4, OneMoves
  <2> QED
    BY <2>1, <2>2
<1>2. ASSUME WriteState(w) PROVE BillingInv'
  <2>1. org' \in Org /\ org'.sub = work[w].sub
    BY <1>2 DEF WriteState, BillingInv, BillingTyped, Org, Work, PlanOf
  <2>2. org'.sub # NoSub => stripe[org'.sub] # << >>
    BY <2>1 DEF BillingInv, SubsExist, Exists
  <2> QED
    BY <1>2, <2>1, <2>2, RequestWrote DEF WriteState
<1> QED
  BY <1>1, <1>2

LEMMA PageMoves ==
  ASSUME BillingInv, NEW p \in Pages
  PROVE  /\ DriftCheck(p) => BillingInv'
         /\ ReconcileFromStripe(p) => BillingInv'
         /\ RetrieveSubscription(p) => BillingInv'
         /\ ListSubscriptions(p) => BillingInv'
         /\ LatestSubscription(p) => BillingInv'
<1> p \in Requests
  BY DEF Requests
<1>1. ASSUME NEW c \in Checkouts, Exists(c), Apply(p, c), UNCHANGED <<stripe, org>> PROVE BillingInv'
  <2> DEFINE to == [Idle EXCEPT !.pc = "apply", !.sub = c, !.status = Status(c)]
  <2>1. to \in Work /\ to.sub = c /\ to.pc = "apply"
    BY <1>1, StatusTyped DEF BillingInv, Idle, Work, Windows
  <2> QED
    BY <1>1, <2>1, OneMoves DEF Apply
<1>2. ASSUME Done(p), UNCHANGED <<stripe, org>> PROVE BillingInv'
  BY <1>2, IdleTyped, OneMoves DEF Done, Idle
<1>3. ASSUME DriftCheck(p) PROVE BillingInv'
  <2>1. CASE MayBeUnderProvisioned /\ work' = [work EXCEPT ![p] = [Idle EXCEPT !.pc = "list", !.customer = org.customer]]
    <3> DEFINE to == [Idle EXCEPT !.pc = "list", !.customer = org.customer]
    <3>1. to \in Work /\ to.sub = NoSub /\ to.pc = "list"
      BY DEF Idle, Work, Statuses, Windows, BillingInv, BillingTyped, Org
    <3> QED
      BY <1>3, <2>1, <3>1, OneMoves DEF DriftCheck
  <2>2. CASE MayBeOverProvisioned /\ work' = [work EXCEPT ![p] = [Idle EXCEPT !.pc = "retrieve", !.sub = org.sub]]
    <3> DEFINE to == [Idle EXCEPT !.pc = "retrieve", !.sub = org.sub]
    <3>1. to \in Work /\ to.sub = org.sub /\ to.pc = "retrieve"
      BY DEF Idle, Work, Statuses, Windows, BillingInv, BillingTyped, Org
    <3>2. to.sub # NoSub /\ Exists(to.sub)
      BY <2>2, <3>1 DEF MayBeOverProvisioned, BillingInv, SubsExist
    <3> QED
      BY <1>3, <2>2, <3>1, <3>2, OneMoves DEF DriftCheck
  <2> QED
    BY <1>3, <2>1, <2>2 DEF DriftCheck
<1>4. ASSUME ReconcileFromStripe(p) PROVE BillingInv'
  <2> DEFINE to == [Idle EXCEPT !.pc = "latest", !.customer = org.customer]
  <2>1. to \in Work /\ to.sub = NoSub /\ to.pc = "latest"
    BY DEF Idle, Work, Statuses, Windows, BillingInv, BillingTyped, Org
  <2> QED
    BY <1>4, <2>1, OneMoves DEF ReconcileFromStripe
<1>5. ASSUME RetrieveSubscription(p) PROVE BillingInv'
  <2>1. work[p].sub \in Checkouts /\ Exists(work[p].sub)
    BY <1>5 DEF RetrieveSubscription, BillingInv, BillingTyped, SubsExist, Work
  <2> QED
    BY <1>1, <1>2, <1>5, <2>1 DEF RetrieveSubscription
<1>6. ASSUME ListSubscriptions(p) PROVE BillingInv'
  BY <1>1, <1>2, <1>6 DEF ListSubscriptions, PaidBy
<1>7. ASSUME LatestSubscription(p) PROVE BillingInv'
  BY <1>1, <1>2, <1>7 DEF LatestSubscription, PaidBy
<1> QED
  BY <1>3, <1>4, <1>5, <1>6, <1>7

(* The date of a window passes for the row and for who has read it.         *)
LEMMA WindowMoves ==
  ASSUME BillingInv, GraceLapses \/ \E w \in Requests : ReadGraceLapses(w)
  PROVE  BillingInv'
<1>1. /\ stripe' = stripe /\ org' \in Org
      /\ org'.plan = org.plan /\ org'.source = org.source /\ org'.sub = org.sub
  BY DEF GraceLapses, ReadGraceLapses, BillingInv, BillingTyped, Org, Windows
<1>2. /\ work' \in [Requests -> Work]
      /\ \A w \in Requests : work'[w] = work[w] \/ work'[w] = [work[w] EXCEPT !.grace = "lapsed"]
  <2>1. \A w \in Requests : work[w] \in Work /\ [work[w] EXCEPT !.grace = "lapsed"] \in Work
    BY DEF BillingInv, BillingTyped, Work, Windows
  <2>2. work \in [Requests -> Work]
    BY DEF BillingInv, BillingTyped
  <2> QED
    BY <2>1, <2>2 DEF GraceLapses, ReadGraceLapses
<1>3. \A w \in Requests : /\ work'[w].pc = work[w].pc /\ work'[w].sub = work[w].sub
                          /\ work'[w].status = work[w].status /\ work'[w].overtaken = work[w].overtaken
  BY <1>2 DEF BillingInv, BillingTyped, Work
<1>4. BillingTyped'
  BY <1>1, <1>2 DEF BillingInv, BillingTyped
<1>5. SubsExist'
  BY <1>1, <1>3 DEF BillingInv, SubsExist, Exists
<1>6. \A w \in Requests, s \in Statuses :
        /\ work'[w].pc = "write"
        /\ ~work'[w].overtaken
        /\ work'[w].status = s
        => ~Outranked(s)' /\ work'[w].grace = GraceOf(s)'
  <2> SUFFICES ASSUME NEW w \in Requests, NEW s \in Statuses,
                      work'[w].pc = "write", ~work'[w].overtaken, work'[w].status = s
               PROVE  ~Outranked(s)' /\ work'[w].grace = GraceOf(s)'
    OBVIOUS
  <2>1. ~Outranked(s) /\ work[w].grace = GraceOf(s)
    BY <1>3 DEF BillingInv, ReadsCurrent
  <2>2. ~Outranked(s)'
    BY <1>1, <2>1 DEF Outranked
  <2>3. CASE GraceLapses
    <3>1. org.grace = "open" /\ org'.grace = "lapsed"
      BY <2>3 DEF GraceLapses, BillingInv, BillingTyped, Org
    <3>2. work[w].grace = IF PlanOf(s) = "pro" THEN "none" ELSE "open"
      BY <2>1, <3>1 DEF GraceOf, PlanOf
    <3>3. GraceOf(s)' = IF PlanOf(s) = "pro" THEN "none" ELSE "lapsed"
      BY <1>1, <3>1 DEF GraceOf, PlanOf
    <3>4. work'[w].grace = IF work[w].grace = "open" THEN "lapsed" ELSE work[w].grace
      BY <1>3, <2>3 DEF GraceLapses, BillingInv, BillingTyped, Work
    <3> QED
      BY <2>2, <3>2, <3>3, <3>4
  <2>4. CASE \E v \in Requests : ReadGraceLapses(v)
    <3>1. work'[w] = work[w] /\ org' = org
      BY <1>3, <2>4 DEF ReadGraceLapses, BillingInv, BillingTyped
    <3> QED
      BY <2>1, <2>2, <3>1 DEF GraceOf
  <2> QED
    BY <2>3, <2>4
<1>7. ReadsCurrent'
  BY <1>2, <1>6 DEF ReadsCurrent, Work
<1> QED
  BY <1>4, <1>5, <1>7 DEF BillingInv

LEMMA GrantMoves ==
  ASSUME BillingInv, AdminGrant \/ ExpireAdminOverride
  PROVE  BillingInv'
<1>1. org' \in Org /\ org'.sub = org.sub
  BY DEF AdminGrant, ExpireAdminOverride, BillingInv, BillingTyped, Org
<1>2. org'.sub # NoSub => stripe[org'.sub] # << >>
  BY <1>1 DEF BillingInv, SubsExist, Exists
<1>3. work' = Overtake(Requests) /\ UNCHANGED stripe
  BY DEF AdminGrant, ExpireAdminOverride
<1> QED
  BY <1>1, <1>2, <1>3, RowWritten DEF Overtake

LEMMA BillingStepInv ==
  ASSUME BillingInv, [BillingNext]_billingVars
  PROVE  BillingInv'
<1>1. CASE UNCHANGED billingVars
  BY <1>1 DEF billingVars, BillingInv, BillingTyped, SubsExist, ReadsCurrent, Exists, Outranked, GraceOf
<1>2. ASSUME NEW c \in Checkouts, CheckoutStep(c) PROVE BillingInv'
  BY <1>2, StripeMoves
<1>3. ASSUME NEW h \in Handlers,
             CompleteCheckout(h) \/ Step(h) \/ Crash(h) \/ \E c \in Checkouts, n \in 0..MaxChanges : RecordEvent(h, c, n)
      PROVE  BillingInv'
  BY <1>3, WebhookMoves, ApplyMoves DEF Step, Requests
<1>4. ASSUME NEW p \in Pages, DriftCheck(p) \/ ReconcileFromStripe(p) \/ PageStep(p) PROVE BillingInv'
  BY <1>4, PageMoves, ApplyMoves DEF PageStep, Step, Requests
<1>5. CASE AdminGrant \/ ExpireAdminOverride
  BY <1>5, GrantMoves
<1>6. CASE GraceLapses \/ \E w \in Requests : ReadGraceLapses(w)
  BY <1>6, WindowMoves
<1> QED
  BY <1>1, <1>2, <1>3, <1>4, <1>5, <1>6 DEF BillingNext, CheckoutStep

(* The rows and the requests of billing.service keep their types, and what *)
(* a request read is current unless it was overtaken.                      *)
THEOREM BillingReadsHold == BillingSpec => []BillingInv
<1>1. BillingInit => BillingInv
  BY BillingInitInv
<1>2. BillingInv /\ [BillingNext]_billingVars => BillingInv'
  BY BillingStepInv
<1> QED
  BY <1>1, <1>2, PTL DEF BillingSpec

-----------------------------------------------------------------------------
(* The two ways in which a workspace loses Pro.                             *)
LEMMA WaysToLose ==
  ASSUME BillingInv, [BillingNext]_billingVars, org.plan = "pro" \/ org.source = "admin", org'.plan = "launch"
  PROVE  \/ \E w \in Requests : WriteState(w)
         \/ ExpireAdminOverride
         \/ org'.plan = org.plan /\ org'.source = org.source
<1>1. CASE UNCHANGED billingVars
  BY <1>1 DEF billingVars
<1>2. ASSUME NEW c \in Checkouts, CheckoutStep(c) PROVE org'.plan = org.plan /\ org'.source = org.source
  BY <1>2 DEF CheckoutStep, ResolveCustomer, NewCustomer, OpenSession, RefuseSession, Pay, ChangeSubscription,
              BillingInv, BillingTyped, Org
<1>3. ASSUME NEW h \in Handlers, CompleteCheckout(h) PROVE FALSE
  BY <1>3 DEF CompleteCheckout, BillingInv, BillingTyped, Org
<1>4. ASSUME NEW h \in Handlers, Crash(h) \/ ReadBefore(h)
                                 \/ \E c \in Checkouts, n \in 0..MaxChanges : RecordEvent(h, c, n)
      PROVE  UNCHANGED org
  BY <1>4 DEF Crash, ReadBefore, RecordEvent
<1>5. ASSUME NEW p \in Pages, DriftCheck(p) \/ ReconcileFromStripe(p) \/ ReadBefore(p)
                              \/ RetrieveSubscription(p) \/ ListSubscriptions(p) \/ LatestSubscription(p)
      PROVE  UNCHANGED org
  BY <1>5 DEF DriftCheck, ReconcileFromStripe, ReadBefore, RetrieveSubscription, ListSubscriptions, LatestSubscription
<1>6. CASE AdminGrant
  BY <1>6 DEF AdminGrant, BillingInv, BillingTyped, Org
<1>7. CASE GraceLapses \/ \E w \in Requests : ReadGraceLapses(w)
  BY <1>7 DEF GraceLapses, ReadGraceLapses, BillingInv, BillingTyped, Org
<1> QED
  BY <1>1, <1>2, <1>3, <1>4, <1>5, <1>6, <1>7 DEF BillingNext, CheckoutStep, Step, PageStep, Requests

(* A request that writes without having been overtaken takes Pro away only  *)
(* when no grant stands, and leaves a window still to run but after an      *)
(* older one that has run out.                                              *)
LEMMA WriteNotOvertaken ==
  ASSUME BillingInv, NEW w \in Requests, WriteState(w), ~LostUpdate, org'.plan = "launch"
  PROVE  org.source # "admin" /\ (org.plan = "pro" => org'.grace = "open" \/ org.grace = "lapsed")
<1>1. work'[w].pc = "idle"
  BY DEF WriteState, Written, Idle, Overtake
<1>2. work[w].pc = "write" /\ ~work[w].overtaken
  BY <1>1 DEF LostUpdate, WriteState
<1>3. work[w].status \in ENDED_SUBSCRIPTION_STATUSES
  BY DEF WriteState, PlanOf
<1>4. ~Outranked(work[w].status) /\ work[w].grace = GraceOf(work[w].status)
  BY <1>2 DEF BillingInv, ReadsCurrent
<1>5. org' = [org EXCEPT !.plan = PlanOf(work[w].status), !.source = "stripe", !.sub = work[w].sub,
                         !.grace = work[w].grace, !.expires = FALSE] /\ org \in Org
  BY DEF WriteState, BillingInv, BillingTyped
<1>6. org'.grace = GraceOf(work[w].status)
  BY <1>4, <1>5 DEF Org
<1> QED
  BY <1>3, <1>4, <1>5, <1>6 DEF Outranked, GraceOf, PlanOf, Org, Windows

(* A grant is undone only by its end date or by a request that read the    *)
(* row before (applySubscriptionState, expireAdminOverride).               *)
THEOREM GrantOutranksDeadSubscriptionHolds == BillingSpec => GrantOutranksDeadSubscription
<1>1. BillingInv /\ [BillingNext]_billingVars =>
        [org.source = "admin" /\ org'.source = "stripe" /\ org'.plan = "launch" => org.expires \/ LostUpdate]_billingVars
  <2> SUFFICES ASSUME BillingInv, [BillingNext]_billingVars,
                      org.source = "admin", org'.source = "stripe", org'.plan = "launch", ~LostUpdate
               PROVE  org.expires
    OBVIOUS
  <2>1. (\E w \in Requests : WriteState(w)) \/ ExpireAdminOverride
    BY WaysToLose
  <2>2. \A w \in Requests : ~WriteState(w)
    BY WriteNotOvertaken
  <2> QED
    BY <2>1, <2>2 DEF ExpireAdminOverride
<1> QED
  BY <1>1, BillingReadsHold, PTL DEF BillingSpec, GrantOutranksDeadSubscription

(* Whoever takes Pro away leaves a grace window still to run, unless it    *)
(* was overtaken between its SELECT and its UPDATE, or the deadline of an  *)
(* earlier loss has passed and is kept (applySubscriptionState).           *)
THEOREM LossOpensGraceHolds == BillingSpec => LossOpensGrace
<1>1. BillingInv /\ [BillingNext]_billingVars =>
        [org.plan = "pro" /\ org.source = "stripe" /\ org'.plan = "launch" =>
           org'.grace = "open" \/ LostUpdate \/ org.grace = "lapsed"]_billingVars
  <2> SUFFICES ASSUME BillingInv, [BillingNext]_billingVars,
                      org.plan = "pro", org.source = "stripe", org'.plan = "launch", ~LostUpdate
               PROVE  org'.grace = "open" \/ org.grace = "lapsed"
    OBVIOUS
  <2>1. \E w \in Requests : WriteState(w)
    BY WaysToLose DEF ExpireAdminOverride
  <2> QED
    BY <2>1, WriteNotOvertaken
<1> QED
  BY <1>1, BillingReadsHold, PTL DEF BillingSpec, LossOpensGrace

=============================================================================
