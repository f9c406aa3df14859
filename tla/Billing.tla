------------------------------- MODULE Billing -------------------------------
(***************************************************************************)
(* BillingService: the subscription row of a user, written by the webhook   *)
(* handler and by the checkout endpoint, and the ledger of Stripe events    *)
(* that makes webhooks idempotent.                                          *)
(*                                                                          *)
(* POST /billing/webhooks/stripe is an async route that calls the service   *)
(* without awaiting: webhooks are handled one after the other.  POST        *)
(* /billing/checkout is a plain def: checkouts run in worker threads, next  *)
(* to each other and to a webhook.  Every repository call is a database     *)
(* session of its own, so a step below is one such call.                    *)
(*                                                                          *)
(* Stripe is external: it opens checkout sessions, turns a completed one    *)
(* into a subscription, moves the subscription, and delivers an event for   *)
(* each change, in any order, again and again until it gets a 2xx answer,   *)
(* and now and then once more.                                              *)
(***************************************************************************)
EXTENDS Integers, Sequences

CONSTANTS
    None,
    Users,
    Subs,            \* Stripe subscription ids
    Checkouts,       \* checkout requests that may be in flight together
    Webhook,         \* the webhook handler
    MaxCheckouts,    \* bound: checkout requests
    MaxEvents,       \* bound: events Stripe sends
    MaxDeliveries,   \* bound: deliveries of an event after its first 2xx answer
    MaxFailures      \* bound: exceptions and crashes

\* The webhook handler is no checkout, None is nobody, and the bounds are numbers.
ASSUME BillingAssumption ==
    /\ Webhook \notin Checkouts
    /\ None \notin Users \cup Subs
    /\ MaxCheckouts \in Nat /\ MaxEvents \in Nat
    /\ MaxDeliveries \in Nat /\ MaxFailures \in Nat

VARIABLES
    rows,            \* subscriptions: one row a user at most
    ledger,          \* billing_events: the status of each event
    pc,              \* where each writer is
    user,            \* whose row a writer writes
    want,            \* the values it is going to write
    loaded,          \* the row its upsert session has loaded
    current,         \* the event the webhook handler is at, 0 if none
    applied,         \* history: events whose upsert was committed, in order
    sessions,        \* Stripe: open checkout sessions of each user
    owner,           \* Stripe: whose subscription it is
    state,           \* Stripe: the subscription's state
    sent,            \* Stripe: the events so far; an event's id is its position
    acked,           \* Stripe: events answered with 2xx
    again,           \* Stripe: deliveries of each event after that
    requests,        \* checkout requests so far
    failures         \* failures so far

stripeVars == <<sessions, owner, state, sent>>
writerVars == <<pc, user, want, loaded>>
vars == <<rows, ledger, writerVars, current, applied, stripeVars, acked, again,
          requests, failures>>

Writers == Checkouts \cup {Webhook}
Statuses == {"pending", "active", "past_due", "canceled"}
Row == [status : Statuses, entitled : BOOLEAN, sub : Subs \cup {None}]
NoRow == None

\* A user without a row is told apart from every row.
ASSUME NoRowAssumption == NoRow \notin Row
Event == [kind : {"completed", "expired", "paid", "failed", "deleted", "updated"},
          user : Users \cup {None}, sub : Subs \cup {None}, to : Statuses]
EventIds == 1..MaxEvents

Init ==
    /\ rows = [u \in Users |-> NoRow]
    /\ ledger = [e \in EventIds |-> "none"]
    /\ pc = [w \in Writers |-> "idle"]
    /\ user = [w \in Writers |-> None]
    /\ want = [w \in Writers |-> NoRow]
    /\ loaded = [w \in Writers |-> NoRow]
    /\ current = 0
    /\ applied = <<>>
    /\ sessions = [u \in Users |-> 0]
    /\ owner = [s \in Subs |-> None]
    /\ state = [s \in Subs |-> "none"]
    /\ sent = <<>>
    /\ acked = {}
    /\ again = [e \in EventIds |-> 0]
    /\ requests = 0
    /\ failures = 0

Fail ==
    /\ failures < MaxFailures
    /\ failures' = failures + 1

----------------------------------------------------------------------------
(* Stripe.                                                                  *)

Send(events) ==
    /\ Len(sent) + Len(events) <= MaxEvents
    /\ sent' = sent \o events

About(kind, s, to) == [kind |-> kind, user |-> None, sub |-> s, to |-> to]

\* A customer completes a session: a fresh subscription, already paid for.
CompleteSession(u, s) ==
    /\ sessions[u] > 0
    /\ owner[s] = None
    /\ sessions' = [sessions EXCEPT ![u] = @ - 1]
    /\ owner' = [owner EXCEPT ![s] = u]
    /\ state' = [state EXCEPT ![s] = "active"]
    /\ Send(<<[kind |-> "completed", user |-> u, sub |-> s, to |-> "active"]>>)

ExpireSession(u) ==
    /\ sessions[u] > 0
    /\ sessions' = [sessions EXCEPT ![u] = @ - 1]
    /\ Send(<<[kind |-> "expired", user |-> u, sub |-> None, to |-> "pending"]>>)
    /\ UNCHANGED <<owner, state>>

\* A subscription moves, and Stripe says so.
MoveSubscription(s, from, kind, to) ==
    /\ state[s] \in from
    /\ state' = [state EXCEPT ![s] = to]
    /\ Send(<<About(kind, s, to)>>)
    /\ UNCHANGED <<sessions, owner>>

StripeStep ==
    /\ \/ \E u \in Users : ExpireSession(u) \/ \E s \in Subs : CompleteSession(u, s)
       \/ \E s \in Subs :
             \/ MoveSubscription(s, {"active", "past_due"}, "paid", "active")
             \/ MoveSubscription(s, {"active"}, "failed", "past_due")
             \/ MoveSubscription(s, {"active", "past_due"}, "deleted", "canceled")
             \/ \E to \in {"active", "past_due", "canceled"} :
                   MoveSubscription(s, {"active", "past_due"} \ {to}, "updated", to)
    /\ UNCHANGED <<rows, ledger, writerVars, current, applied, acked, again,
                   requests, failures>>

----------------------------------------------------------------------------
(* upsert_for_user: one session that loads the row and commits.             *)

Load(w) ==
    /\ pc[w] = "load"
    /\ loaded' = [loaded EXCEPT ![w] = rows[user[w]]]
    /\ pc' = [pc EXCEPT ![w] = "commit"]
    /\ UNCHANGED <<rows, ledger, user, want, current, applied, stripeVars, acked,
                   again, requests, failures>>

\* A column is updated only if the new value differs from the loaded one.
Changed(new, old, now) == IF new = old THEN now ELSE new

\* The row after the commit: an insert, or an update of the changed columns.  A
\* subscription id of None leaves the column alone.
Written(w) ==
    LET new == want[w]
        old == loaded[w]
        now == rows[user[w]]
    IN  IF old = NoRow THEN new
        ELSE [status |-> Changed(new.status, old.status, now.status),
              entitled |-> Changed(new.entitled, old.entitled, now.entitled),
              sub |-> IF new.sub = None THEN now.sub ELSE Changed(new.sub, old.sub, now.sub)]

\* Two inserts for a user: user_id is unique, and the second one raises.
Conflict(w) == loaded[w] = NoRow /\ rows[user[w]] # NoRow

Commit(w) ==
    /\ pc[w] = "commit"
    /\ ~Conflict(w)
    /\ rows' = [rows EXCEPT ![user[w]] = Written(w)]

----------------------------------------------------------------------------
(* create_checkout_session.                                                 *)

\* A faulty variant of CheckoutWant: any row counts as a subscription to preserve.
CheckoutWantAnyRow(row) ==
    [status |-> IF row # NoRow THEN "active" ELSE "pending",
     entitled |-> row # NoRow,
     sub |-> IF row = NoRow THEN None ELSE row.sub]

\* What a checkout writes over the row it has read: an active and entitled
\* subscription stays so, anything else becomes pending.
CheckoutWant(row) ==
    IF row # NoRow /\ row.status = "active" /\ row.entitled
    THEN row
    ELSE [status |-> "pending", entitled |-> FALSE,
          sub |-> IF row = NoRow THEN None ELSE row.sub]

\* get_by_user_id.
ReadForCheckout(c, u) ==
    /\ requests < MaxCheckouts
    /\ requests' = requests + 1
    /\ pc[c] = "idle"
    /\ pc' = [pc EXCEPT ![c] = "load"]
    /\ user' = [user EXCEPT ![c] = u]
    /\ want' = [want EXCEPT ![c] = CheckoutWant(rows[u])]
    /\ UNCHANGED <<rows, ledger, loaded, current, applied, stripeVars, acked, again,
                   failures>>

CommitCheckout(c) ==
    /\ Commit(c)
    /\ pc' = [pc EXCEPT ![c] = "session"]
    /\ UNCHANGED <<ledger, user, want, loaded, current, applied, stripeVars, acked,
                   again, requests, failures>>

\* The Stripe session, whose metadata names the user.
OpenSession(c) ==
    /\ pc[c] = "session"
    /\ pc' = [pc EXCEPT ![c] = "idle"]
    /\ sessions' = [sessions EXCEPT ![user[c]] = @ + 1]
    /\ UNCHANGED <<rows, ledger, user, want, loaded, current, applied, owner, state,
                   sent, acked, again, requests, failures>>

\* The second insert, or a failing database or Stripe call: a 500 answer.
CheckoutFails(c) ==
    /\ \/ pc[c] = "commit" /\ Conflict(c) /\ UNCHANGED failures
       \/ pc[c] \in {"load", "commit", "session"} /\ Fail
    /\ pc' = [pc EXCEPT ![c] = "idle"]
    /\ UNCHANGED <<rows, ledger, user, want, loaded, current, applied, stripeVars,
                   acked, again, requests>>

----------------------------------------------------------------------------
(* process_webhook.                                                         *)

\* A faulty variant of Transitions: a canceled subscription may be activated again.
TransitionsRevive == [pending  |-> {"active", "past_due", "canceled"},
                      active   |-> {"past_due", "canceled"},
                      past_due |-> {"active", "canceled"},
                      canceled |-> {"active"}]

\* _can_transition.
Transitions == [pending  |-> {"active", "past_due", "canceled"},
                active   |-> {"past_due", "canceled"},
                past_due |-> {"active", "canceled"},
                canceled |-> {}]

CanTransition(row, next) ==
    row = NoRow \/ row.status = next \/ next \in Transitions[row.status]

\* The users whose row an event is about: named in the session's metadata, or found
\* by the subscription id.
AboutUsers(ev) ==
    IF ev.kind \in {"completed", "expired"} THEN {ev.user}
    ELSE {u \in Users : rows[u] # NoRow /\ rows[u].sub = ev.sub}

\* The lifecycle handlers' conditions for writing.
Applies(ev, u) ==
    /\ u \in AboutUsers(ev)
    /\ CanTransition(rows[u], ev.to)
    /\ ev.kind = "expired" => rows[u] # NoRow /\ rows[u].status # "active"

\* The answer to Stripe.  One that is lost is followed by another delivery, as the
\* duplicates are.
Answer2xx(e) == acked' = acked \cup {e}

\* Stripe delivers event e.
Delivered(e) ==
    /\ pc[Webhook] = "idle"
    /\ e \in 1..Len(sent)
    /\ IF e \in acked THEN /\ again[e] < MaxDeliveries
                           /\ again' = [again EXCEPT ![e] = @ + 1]
       ELSE UNCHANGED again

\* A faulty variant of FirstDelivery: an event that failed is processed again.
DeliveryAfterFailure(e) ==
    /\ Delivered(e)
    /\ ledger[e] \in {"none", "failed"}
    /\ ledger' = [ledger EXCEPT ![e] = "processing"]
    /\ current' = e
    /\ pc' = [pc EXCEPT ![Webhook] = "apply"]
    /\ UNCHANGED <<rows, user, want, loaded, applied, stripeVars, acked, requests, failures>>

\* create_if_absent creates the ledger entry.
FirstDelivery(e) ==
    /\ Delivered(e)
    /\ ledger[e] = "none"
    /\ ledger' = [ledger EXCEPT ![e] = "processing"]
    /\ current' = e
    /\ pc' = [pc EXCEPT ![Webhook] = "apply"]
    /\ UNCHANGED <<rows, user, want, loaded, applied, stripeVars, acked, requests, failures>>

\* It finds one: the event is acknowledged as ignored, whatever became of it.
Duplicate(e) ==
    /\ Delivered(e)
    /\ ledger[e] # "none"
    /\ Answer2xx(e)
    /\ UNCHANGED <<rows, ledger, writerVars, current, applied, stripeVars, requests, failures>>

\* The handler has nothing to write: mark_status "ignored" and a 2xx answer.
Ignore ==
    /\ pc[Webhook] = "apply"
    /\ \A u \in Users : ~Applies(sent[current], u)
    /\ ledger' = [ledger EXCEPT ![current] = "ignored"]
    /\ Answer2xx(current)
    /\ pc' = [pc EXCEPT ![Webhook] = "idle"]
    /\ UNCHANGED <<rows, user, want, loaded, current, applied, stripeVars, again,
                   requests, failures>>

\* It has: the transition is allowed from the row as it is read here.
Decide(u) ==
    /\ pc[Webhook] = "apply"
    /\ Applies(sent[current], u)
    /\ LET ev == sent[current]
       IN  want' = [want EXCEPT ![Webhook] =
                       [status |-> ev.to, entitled |-> ev.to = "active",
                        sub |-> IF ev.kind = "expired" THEN rows[u].sub ELSE ev.sub]]
    /\ user' = [user EXCEPT ![Webhook] = u]
    /\ pc' = [pc EXCEPT ![Webhook] = "load"]
    /\ UNCHANGED <<rows, ledger, loaded, current, applied, stripeVars, acked, again,
                   requests, failures>>

CommitWebhook ==
    /\ Commit(Webhook)
    /\ applied' = Append(applied, current)
    /\ pc' = [pc EXCEPT ![Webhook] = "mark"]
    /\ UNCHANGED <<ledger, user, want, loaded, current, stripeVars, acked, again,
                   requests, failures>>

\* mark_status "processed" and a 2xx answer.
Processed ==
    /\ pc[Webhook] = "mark"
    /\ ledger' = [ledger EXCEPT ![current] = "processed"]
    /\ Answer2xx(current)
    /\ pc' = [pc EXCEPT ![Webhook] = "idle"]
    /\ UNCHANGED <<rows, user, want, loaded, current, applied, stripeVars, again,
                   requests, failures>>

\* An exception anywhere: mark_status "failed", if that works, and a 500 answer.
WebhookFails ==
    /\ \/ pc[Webhook] = "commit" /\ Conflict(Webhook) /\ UNCHANGED failures
       \/ pc[Webhook] \in {"apply", "load", "commit", "mark"} /\ Fail
    /\ ledger' \in {ledger, [ledger EXCEPT ![current] = "failed"]}
    /\ pc' = [pc EXCEPT ![Webhook] = "idle"]
    /\ UNCHANGED <<rows, user, want, loaded, current, applied, stripeVars, acked, again,
                   requests>>

----------------------------------------------------------------------------

\* The process dies and starts again: requests in flight are gone.
Crash ==
    /\ Fail
    /\ \E w \in Writers : pc[w] # "idle"
    /\ pc' = [w \in Writers |-> "idle"]
    /\ UNCHANGED <<rows, ledger, user, want, loaded, current, applied, stripeVars,
                   acked, again, requests>>

CheckoutStep(c) ==
    \/ \E u \in Users : ReadForCheckout(c, u)
    \/ Load(c) \/ CommitCheckout(c) \/ OpenSession(c) \/ CheckoutFails(c)

\* The steps of a request in flight.
WebhookStep ==
    \/ Ignore
    \/ \E u \in Users : Decide(u)
    \/ Load(Webhook) \/ CommitWebhook \/ Processed \/ WebhookFails

Deliver(e) == FirstDelivery(e) \/ Duplicate(e)

Next ==
    \/ StripeStep
    \/ \E c \in Checkouts : CheckoutStep(c)
    \/ \E e \in EventIds : Deliver(e)
    \/ WebhookStep
    \/ Crash

Spec == Init /\ [][Next]_vars

----------------------------------------------------------------------------
(* Properties.                                                              *)

\* Every variable has its type, and a writer past its read has a row to write.
TypeOK ==
    /\ rows \in [Users -> Row \cup {NoRow}]
    /\ ledger \in [EventIds -> {"none", "processing", "processed", "ignored", "failed"}]
    /\ pc \in [Writers -> {"idle", "apply", "load", "commit", "mark", "session"}]
    /\ user \in [Writers -> Users \cup {None}]
    /\ want \in [Writers -> Row \cup {NoRow}]
    /\ loaded \in [Writers -> Row \cup {NoRow}]
    /\ \A w \in Writers : pc[w] \in {"load", "commit", "mark", "session"}
                             => user[w] \in Users /\ want[w] \in Row
    /\ \A w \in Writers : pc[w] = "commit" /\ loaded[w] # NoRow => rows[user[w]] # NoRow
    /\ \A c \in Checkouts : pc[c] \notin {"apply", "mark"}
    /\ pc[Webhook] # "session"
    /\ sent \in Seq(Event) /\ Len(sent) <= MaxEvents
    /\ \A e \in DOMAIN sent : sent[e].kind \in {"completed", "expired"} => sent[e].user \in Users
    /\ current \in 0..Len(sent)
    /\ pc[Webhook] # "idle" => current # 0
    /\ applied \in Seq(1..Len(sent))
    /\ sessions \in [Users -> Nat]
    /\ owner \in [Subs -> Users \cup {None}]
    /\ state \in [Subs -> {"none", "active", "past_due", "canceled"}]
    /\ acked \in SUBSET (1..Len(sent))
    /\ again \in [EventIds -> 0..MaxDeliveries]
    /\ requests \in 0..MaxCheckouts
    /\ failures \in 0..MaxFailures

Applied(e) == \E i \in DOMAIN applied : applied[i] = e

\* An event changes the subscription at most once however often it is delivered,
\* whatever fails; one recorded as processed did, one recorded as ignored did not
\* (process_webhook, create_if_absent, mark_status).
LedgerMatchesEffects ==
    /\ \A i, j \in DOMAIN applied : applied[i] = applied[j] => i = j
    /\ \A e \in EventIds :
        /\ ledger[e] = "processed" => Applied(e)
        /\ ledger[e] \in {"none", "ignored"} => ~Applied(e)

Canceled(u) == rows[u] # NoRow /\ rows[u].status = "canceled"

\* A canceled subscription is left by a checkout only, never by a webhook that
\* decided on an older row (_can_transition is checked before the upsert).
OnlyCheckoutsReviveCanceled ==
    [][\A u \in Users : Canceled(u) /\ ~Canceled(u)' => pc'[Webhook] = pc[Webhook]]_vars

\* An event that grants an entitlement was applied to the subscription of user u.
Granted(u) ==
    \E i \in DOMAIN applied :
        LET ev == sent[applied[i]]
        IN  /\ ev.to = "active"
            /\ u = IF ev.kind = "completed" THEN ev.user ELSE owner[ev.sub]

\* Nobody is entitled, and no checkout is about to restore an entitlement, that was
\* not granted to that very user (create_checkout_session, the lifecycle handlers).
EntitlementWasGranted ==
    /\ \A u \in Users : rows[u] # NoRow /\ rows[u].entitled => Granted(u)
    /\ \A c \in Checkouts : pc[c] \in {"load", "commit"} /\ want[c].entitled
                               => Granted(user[c])

----------------------------------------------------------------------------
(* What the documents say and the code does not do.                         *)

Quiet == pc = [w \in Writers |-> "idle"] /\ acked = DOMAIN sent

\* "Ensure webhook processing is signature-verified, idempotent, and resilient to
\* duplicate/out-of-order delivery": with all events acknowledged and nothing in
\* flight, nobody is entitled without an active subscription at Stripe.
InSyncWithStripe ==
    Quiet => \A u \in Users : rows[u] # NoRow /\ rows[u].entitled
                                => \E s \in Subs : owner[s] = u /\ state[s] = "active"

\* "customer.subscription.deleted is processed: subscription status becomes canceled
\* and entitlement is revoked": it stays so until another event is applied.
RevocationSticks ==
    \A u \in Users :
        (/\ applied # <<>>
         /\ sent[applied[Len(applied)]].kind = "deleted"
         /\ owner[sent[applied[Len(applied)]].sub] = u)
            => ~rows[u].entitled
=============================================================================
