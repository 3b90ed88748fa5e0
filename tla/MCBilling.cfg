\* Two checkouts, for one Stripe customer or two; one webhook request and one page
\* at a time, and at most two events that arrive: the others are lost, and the page
\* has to make up for them.
SPECIFICATION BillingSpec
CONSTANTS
    Checkouts = {c1, c2}
    Handlers = {h}
    Pages = {p}
    NoSub = NoSub
    MaxChanges = 2
    MaxEvents = 2
PROPERTIES GrantOutranksDeadSubscription LossOpensGrace ProEndsWithSubscription FirstPaymentGivesPro
CHECK_DEADLOCK FALSE
