---------------------------- MODULE BillingProofs ----------------------------
(***************************************************************************)
(* Theorems of Billing, for any users, subscriptions, checkouts and bounds. *)
(***************************************************************************)
EXTENDS Billing, SequenceTheorems, TLAPS

----------------------------------------------------------------------------
(* The strengthenings.                                                      *)

\* The event being handled is in processing, and applied once its commit is through.
HandledEvent ==
    /\ pc[Webhook] # "idle" => ledger[current] = "processing"
    /\ pc[Webhook] \in {"apply", "load", "commit"} => ~Applied(current)
    /\ pc[Webhook] = "mark" => Applied(current)

LedgerInv == LedgerMatchesEffects /\ HandledEvent

\* No checkout writes "canceled", and a webhook that has decided on a row which is
\* canceled by now decided to cancel it.
CancelInv ==
    /\ \A c \in Checkouts : pc[c] \in {"load", "commit"}
                               => want[c].status \in {"pending", "active"}
    /\ pc[Webhook] \in {"load", "commit"} /\ Canceled(user[Webhook])
          => want[Webhook].status = "canceled"

\* A row, and what is about to be written to it, name a subscription of its user.
OwnerInv ==
    /\ \A u \in Users : rows[u] # NoRow /\ rows[u].sub # None => owner[rows[u].sub] = u
    /\ \A w \in Writers : pc[w] \in {"load", "commit"} /\ want[w].sub # None
                             => owner[want[w].sub] = user[w]
    /\ \A e \in DOMAIN sent :
          /\ sent[e].kind = "expired" => sent[e].to = "pending"
          /\ sent[e].kind # "expired" => sent[e].sub \in Subs
          /\ sent[e].kind = "completed" => owner[sent[e].sub] = sent[e].user

\* The webhook grants an entitlement for an event that does.
GrantInv ==
    pc[Webhook] \in {"load", "commit"} /\ want[Webhook].entitled
        => LET ev == sent[current]
           IN  /\ ev.to = "active"
               /\ user[Webhook] = IF ev.kind = "completed" THEN ev.user ELSE owner[ev.sub]

----------------------------------------------------------------------------
(* Type correctness.                                                        *)

\* What a commit writes is a row (upsert_for_user).
LEMMA WrittenType ==
    ASSUME TypeOK, NEW w \in Writers, Commit(w)
    PROVE  Written(w) \in Row /\ user[w] \in Users
<1>1. want[w] \in Row /\ user[w] \in Users /\ loaded[w] \in Row \cup {NoRow}
  BY DEF TypeOK, Commit
<1>2. CASE loaded[w] = NoRow
  BY <1>1, <1>2 DEF Written
<1>3. CASE loaded[w] # NoRow
  <2>1. loaded[w] \in Row /\ rows[user[w]] \in Row
    BY <1>1, <1>3 DEF TypeOK, Commit
  <2> QED
    BY <1>1, <1>3, <2>1 DEF Written, Changed, Row
<1> QED
  BY <1>1, <1>2, <1>3

\* Rows are never deleted, and a commit makes one.
LEMMA CommitRows ==
    ASSUME TypeOK, NEW w \in Writers, Commit(w)
    PROVE  /\ rows' \in [Users -> Row \cup {NoRow}]
           /\ \A u \in Users : rows[u] # NoRow => rows'[u] # NoRow
<1>1. Written(w) \in Row /\ user[w] \in Users
  BY WrittenType
<1>2. rows' = [rows EXCEPT ![user[w]] = Written(w)] /\ rows \in [Users -> Row \cup {NoRow}]
  BY DEF Commit, TypeOK
<1> QED
  BY <1>1, <1>2, NoRowAssumption

\* So a request that found a row to update still does.
LEMMA CommitKeepsLoaded ==
    ASSUME TypeOK, NEW w \in Writers, Commit(w),
           pc' \in [Writers -> {"idle", "apply", "load", "commit", "mark", "session"}],
           pc'[w] # "commit", \A v \in Writers \ {w} : pc'[v] = pc[v],
           UNCHANGED <<loaded, user>>
    PROVE  \A v \in Writers : pc'[v] = "commit" /\ loaded'[v] # NoRow => rows'[user'[v]] # NoRow
<1> SUFFICES ASSUME NEW v \in Writers, pc'[v] = "commit", loaded[v] # NoRow
             PROVE  rows'[user[v]] # NoRow
  OBVIOUS
<1>1. pc[v] = "commit"
  OBVIOUS
<1>2. user[v] \in Users /\ rows[user[v]] # NoRow
  BY <1>1 DEF TypeOK
<1> QED
  BY <1>2, CommitRows

\* What Stripe sends are events, about known users where they come from a session.
LEMMA StripeType ==
    ASSUME TypeOK, StripeStep
    PROVE  TypeOK'
<1>1. ASSUME NEW ev \in Event, Send(<<ev>>),
             ev.kind \in {"completed", "expired"} => ev.user \in Users
      PROVE  /\ sent' \in Seq(Event) /\ Len(sent') <= MaxEvents /\ Len(sent') = Len(sent) + 1
             /\ \A e \in DOMAIN sent' : sent'[e].kind \in {"completed", "expired"}
                                          => sent'[e].user \in Users
  <2>1. sent \in Seq(Event) /\ <<ev>> \in Seq(Event) /\ Len(<<ev>>) = 1 /\ <<ev>>[1] = ev
    BY DEF TypeOK
  <2>2. sent' = sent \o <<ev>> /\ Len(sent) + 1 <= MaxEvents
    BY <1>1, <2>1 DEF Send
  <2>3. sent' \in Seq(Event) /\ Len(sent') = Len(sent) + 1
    BY <2>1, <2>2, ConcatProperties
  <2>4. ASSUME NEW e \in DOMAIN sent', sent'[e].kind \in {"completed", "expired"}
        PROVE  sent'[e].user \in Users
    <3>1. CASE e <= Len(sent)
      <4>1. e \in DOMAIN sent /\ sent'[e] = sent[e]
        BY <2>1, <2>2, <2>3, <3>1, ConcatProperties
      <4> QED
        BY <4>1, <2>4 DEF TypeOK
    <3>2. CASE e > Len(sent)
      <4>1. sent'[e] = ev
        BY <2>1, <2>2, <2>3, <3>2, ConcatProperties
      <4> QED
        BY <4>1, <2>4, <1>1
    <3> QED
      BY <3>1, <3>2, <2>1, <2>3
  <2> QED
    BY <2>1, <2>2, <2>3, <2>4
<1>2. ASSUME /\ sent' \in Seq(Event) /\ Len(sent') <= MaxEvents /\ Len(sent') = Len(sent) + 1
             /\ \A e \in DOMAIN sent' : sent'[e].kind \in {"completed", "expired"}
                                          => sent'[e].user \in Users,
             sessions' \in [Users -> Nat],
             owner' \in [Subs -> Users \cup {None}],
             state' \in [Subs -> {"none", "active", "past_due", "canceled"}]
      PROVE  TypeOK'
  <2>1. Len(sent) \in Nat
    BY LenProperties DEF TypeOK
  <2>2. 1..Len(sent) \subseteq 1..Len(sent') /\ 0..Len(sent) \subseteq 0..Len(sent')
    BY <1>2, <2>1
  <2>3. applied' \in Seq(1..Len(sent'))
    BY <2>2, SeqMonotonic DEF TypeOK, StripeStep
  <2> QED
    BY <1>2, <2>2, <2>3 DEF TypeOK, StripeStep, writerVars
<1>3. ASSUME NEW u \in Users, ExpireSession(u)
      PROVE  TypeOK'
  <2>1. [kind |-> "expired", user |-> u, sub |-> None, to |-> "pending"] \in Event
    BY DEF Event, Statuses
  <2>2. sessions' \in [Users -> Nat]
    BY <1>3 DEF ExpireSession, TypeOK
  <2> QED
    BY <1>1, <1>2, <1>3, <2>1, <2>2 DEF ExpireSession, TypeOK
<1>4. ASSUME NEW u \in Users, NEW s \in Subs, CompleteSession(u, s)
      PROVE  TypeOK'
  <2>1. [kind |-> "completed", user |-> u, sub |-> s, to |-> "active"] \in Event
    BY DEF Event, Statuses
  <2>2. sessions' \in [Users -> Nat]
    BY <1>4 DEF CompleteSession, TypeOK
  <2> QED
    BY <1>1, <1>2, <1>4, <2>1, <2>2 DEF CompleteSession, TypeOK
<1>5. ASSUME NEW s \in Subs, NEW from, NEW kind \in {"paid", "failed", "deleted", "updated"},
             NEW to \in {"active", "past_due", "canceled"},
             MoveSubscription(s, from, kind, to)
      PROVE  TypeOK'
  <2>1. About(kind, s, to) \in Event /\ About(kind, s, to).kind = kind
    BY DEF About, Event, Statuses
  <2> QED
    BY <1>1, <1>2, <1>5, <2>1 DEF MoveSubscription, TypeOK
<1> QED
  BY <1>3, <1>4, <1>5 DEF StripeStep

\* The steps of a checkout request.
LEMMA CheckoutType ==
    ASSUME TypeOK, NEW c \in Checkouts, CheckoutStep(c)
    PROVE  TypeOK'
<1> USE BillingAssumption DEF TypeOK, Writers, stripeVars
<1>1. ASSUME NEW u \in Users, ReadForCheckout(c, u) PROVE TypeOK'
  <2>1. CheckoutWant(rows[u]) \in Row
    BY DEF CheckoutWant, Row, Statuses
  <2>2. requests' \in 0..MaxCheckouts
    BY <1>1 DEF ReadForCheckout
  <2> QED
    BY <1>1, <2>1, <2>2 DEF ReadForCheckout
<1>2. CASE Load(c)
  BY <1>2 DEF Load
<1>3. CASE CommitCheckout(c)
  <2>1. pc' = [pc EXCEPT ![c] = "session"] /\ pc[c] = "commit"
    BY <1>3 DEF CommitCheckout, Commit
  <2>2. rows' \in [Users -> Row \cup {NoRow}]
    BY <1>3, CommitRows DEF CommitCheckout
  <2>3. /\ pc' \in [Writers -> {"idle", "apply", "load", "commit", "mark", "session"}]
        /\ pc'[c] # "commit" /\ \A v \in Writers \ {c} : pc'[v] = pc[v]
        /\ UNCHANGED <<loaded, user>> /\ Commit(c) /\ c \in Writers
    BY <1>3, <2>1 DEF CommitCheckout
  <2>4. \A v \in Writers : pc'[v] = "commit" /\ loaded'[v] # NoRow => rows'[user'[v]] # NoRow
    BY <2>3, CommitKeepsLoaded
  <2>5. UNCHANGED <<ledger, user, want, loaded, current, applied, sessions, owner, state, sent,
                    acked, again, requests, failures>>
    BY <1>3 DEF CommitCheckout
  <2>6. /\ \A w \in Writers : pc'[w] \in {"load", "commit", "mark", "session"}
                                => user'[w] \in Users /\ want'[w] \in Row
        /\ (\A d \in Checkouts : pc'[d] \notin {"apply", "mark"}) /\ pc'[Webhook] = pc[Webhook]
    BY <2>1, <2>5, BillingAssumption
  <2>7. /\ user' \in [Writers -> Users \cup {None}]
        /\ want' \in [Writers -> Row \cup {NoRow}] /\ loaded' \in [Writers -> Row \cup {NoRow}]
        /\ ledger' \in [EventIds -> {"none", "processing", "processed", "ignored", "failed"}]
        /\ again' \in [EventIds -> 0..MaxDeliveries]
    BY <2>5
  <2>8. /\ sent' \in Seq(Event) /\ Len(sent') <= MaxEvents
        /\ \A e \in DOMAIN sent' : sent'[e].kind \in {"completed", "expired"} => sent'[e].user \in Users
        /\ current' \in 0..Len(sent') /\ applied' \in Seq(1..Len(sent'))
        /\ acked' \in SUBSET (1..Len(sent'))
    BY <2>5
  <2> QED
    BY <2>2, <2>3, <2>4, <2>5, <2>6, <2>7, <2>8
<1>4. CASE OpenSession(c)
  BY <1>4 DEF OpenSession
<1>5. CASE CheckoutFails(c)
  <2>1. failures' \in 0..MaxFailures
    BY <1>5 DEF CheckoutFails, Fail
  <2> QED
    BY <1>5, <2>1 DEF CheckoutFails
<1> QED
  BY <1>1, <1>2, <1>3, <1>4, <1>5 DEF CheckoutStep

\* Stripe delivers what it has sent, and repeats a bounded number of times.
LEMMA DeliveryType ==
    ASSUME TypeOK, NEW e \in EventIds, Delivered(e)
    PROVE  e \in 1..Len(sent) /\ again' \in [EventIds -> 0..MaxDeliveries]
<1>1. CASE e \in acked
  <2>1. again[e] + 1 \in 0..MaxDeliveries
    BY <1>1, BillingAssumption DEF Delivered, TypeOK
  <2> QED
    BY <1>1, <2>1 DEF Delivered, TypeOK
<1>2. CASE e \notin acked
  BY <1>2 DEF Delivered, TypeOK
<1> QED
  BY <1>1, <1>2

\* A delivery, and the steps of its handler.
LEMMA WebhookType ==
    ASSUME TypeOK, (\E e \in EventIds : Deliver(e)) \/ WebhookStep
    PROVE  TypeOK'
<1> USE BillingAssumption DEF TypeOK, Writers, stripeVars
<1>0. Len(sent) \in Nat /\ Len(sent) <= MaxEvents /\ \A e \in 1..Len(sent) : sent[e] \in Event
  BY LenProperties, ElementOfSeq
<1>1. ASSUME NEW e \in EventIds, FirstDelivery(e) PROVE TypeOK'
  <2>1. e \in 1..Len(sent) /\ again' \in [EventIds -> 0..MaxDeliveries]
    BY <1>1, DeliveryType DEF FirstDelivery
  <2>2. pc' = [pc EXCEPT ![Webhook] = "apply"] /\ pc[Webhook] = "idle" /\ current' = e
        /\ ledger' = [ledger EXCEPT ![e] = "processing"]
    BY <1>1 DEF FirstDelivery, Delivered
  <2>3. ledger' \in [EventIds -> {"none", "processing", "processed", "ignored", "failed"}]
    BY <2>2
  <2>4. current' \in 0..Len(sent) /\ current' # 0
    BY <1>0, <2>1, <2>2
  <2>5. UNCHANGED <<rows, user, want, loaded, applied, sessions, owner, state, sent, acked, requests, failures>>
    BY <1>1 DEF FirstDelivery, Delivered
  <2>6. /\ pc' \in [Writers -> {"idle", "apply", "load", "commit", "mark", "session"}]
        /\ pc'[Webhook] = "apply" /\ \A w \in Writers : w # Webhook => pc'[w] = pc[w]
    BY <2>2
  <2>7. /\ \A w \in Writers : pc'[w] \in {"load", "commit", "mark", "session"}
                                => user'[w] \in Users /\ want'[w] \in Row
        /\ \A w \in Writers : pc'[w] = "commit" /\ loaded'[w] # NoRow => rows'[user'[w]] # NoRow
        /\ \A c \in Checkouts : pc'[c] \notin {"apply", "mark"}
    BY <2>5, <2>6
  <2> QED
    BY <2>1, <2>3, <2>4, <2>5, <2>6, <2>7
<1>2. ASSUME NEW e \in EventIds, Duplicate(e) PROVE TypeOK'
  <2>1. e \in 1..Len(sent) /\ again' \in [EventIds -> 0..MaxDeliveries]
    BY <1>2, DeliveryType DEF Duplicate
  <2> QED
    BY <1>2, <2>1 DEF Duplicate, writerVars, Answer2xx
<1>3. CASE Ignore
  <2>1. current \in 1..Len(sent)
    BY <1>0, <1>3 DEF Ignore
  <2> QED
    BY <1>3, <2>1 DEF Ignore, Answer2xx
<1>4. ASSUME NEW u \in Users, Decide(u) PROVE TypeOK'
  <2> DEFINE ev == sent[current]
  <2>1. current \in 1..Len(sent) /\ ev \in Event
    BY <1>0, <1>4 DEF Decide
  <2>2. ev.kind = "expired" => rows[u] \in Row
    BY <1>4 DEF Decide, Applies
  <2>3. [status |-> ev.to, entitled |-> ev.to = "active",
         sub |-> IF ev.kind = "expired" THEN rows[u].sub ELSE ev.sub] \in Row
    <3>1. (IF ev.kind = "expired" THEN rows[u].sub ELSE ev.sub) \in Subs \cup {None}
      BY <2>1, <2>2 DEF Event, Row
    <3>2. ev.to \in Statuses /\ (ev.to = "active") \in BOOLEAN
      BY <2>1 DEF Event
    <3> QED
      BY <3>1, <3>2 DEF Row
  <2>4. want' \in [Writers -> Row \cup {NoRow}] /\ want'[Webhook] \in Row
        /\ \A w \in Checkouts : want'[w] = want[w]
    BY <1>4, <2>3 DEF Decide
  <2>5. user' \in [Writers -> Users \cup {None}] /\ user'[Webhook] \in Users
        /\ \A w \in Checkouts : user'[w] = user[w]
    BY <1>4 DEF Decide
  <2>6. /\ pc' \in [Writers -> {"idle", "apply", "load", "commit", "mark", "session"}]
        /\ pc'[Webhook] = "load" /\ \A w \in Checkouts : pc'[w] = pc[w] \/ w = Webhook
    BY <1>4 DEF Decide
  <2>7. UNCHANGED <<rows, ledger, loaded, current, applied, sessions, owner, state, sent,
                    acked, again, requests, failures>>
    BY <1>4 DEF Decide
  <2>8. /\ \A w \in Writers : pc'[w] \in {"load", "commit", "mark", "session"}
                                => user'[w] \in Users /\ want'[w] \in Row
        /\ \A w \in Writers : pc'[w] = "commit" /\ loaded'[w] # NoRow => rows'[user'[w]] # NoRow
        /\ \A c \in Checkouts : pc'[c] \notin {"apply", "mark"}
    BY <2>4, <2>5, <2>6, <2>7
  <2> QED
    BY <2>1, <2>4, <2>5, <2>6, <2>7, <2>8
<1>5. CASE Load(Webhook)
  BY <1>5 DEF Load
<1>6. CASE CommitWebhook
  <2>1. current \in 1..Len(sent)
    BY <1>0, <1>6 DEF CommitWebhook, Commit
  <2>2. applied' \in Seq(1..Len(sent))
    BY <1>6, <2>1, AppendProperties DEF CommitWebhook
  <2> QED
    <3>1. pc' = [pc EXCEPT ![Webhook] = "mark"] /\ pc[Webhook] = "commit"
      BY <1>6 DEF CommitWebhook, Commit
    <3>2. rows' \in [Users -> Row \cup {NoRow}]
      BY <1>6, CommitRows DEF CommitWebhook
    <3>3. /\ pc' \in [Writers -> {"idle", "apply", "load", "commit", "mark", "session"}]
          /\ pc'[Webhook] # "commit" /\ \A v \in Writers \ {Webhook} : pc'[v] = pc[v]
          /\ UNCHANGED <<loaded, user>> /\ Commit(Webhook) /\ Webhook \in Writers
      BY <1>6, <3>1 DEF CommitWebhook
    <3>4. \A v \in Writers : pc'[v] = "commit" /\ loaded'[v] # NoRow
                               => rows'[user'[v]] # NoRow
      BY <3>3, CommitKeepsLoaded
    <3>5. UNCHANGED <<ledger, user, want, loaded, current, sessions, owner, state, sent,
                      acked, again, requests, failures>>
      BY <1>6 DEF CommitWebhook
    <3>6. /\ \A w \in Writers : pc'[w] \in {"load", "commit", "mark", "session"}
                                  => user'[w] \in Users /\ want'[w] \in Row
          /\ (\A c \in Checkouts : pc'[c] \notin {"apply", "mark"}) /\ pc'[Webhook] = "mark"
      BY <3>1, <3>5
    <3> QED
      BY <2>1, <2>2, <3>2, <3>3, <3>4, <3>5, <3>6
<1>7. CASE Processed
  <2>1. current \in 1..Len(sent)
    BY <1>0, <1>7 DEF Processed
  <2> QED
    BY <1>7, <2>1 DEF Processed, Answer2xx
<1>8. CASE WebhookFails
  <2>1. failures' \in 0..MaxFailures
    BY <1>8 DEF WebhookFails, Fail
  <2> QED
    BY <1>8, <2>1 DEF WebhookFails
<1> QED
  BY <1>1, <1>2, <1>3, <1>4, <1>5, <1>6, <1>7, <1>8 DEF Deliver, WebhookStep

\* Init has the types.
LEMMA InitType == ASSUME Init PROVE TypeOK
<1>1. <<>> \in Seq(Event) /\ <<>> \in Seq(1..0) /\ Len(<<>>) = 0
  BY EmptySeq
<1> QED
  BY <1>1, BillingAssumption DEF Init, TypeOK, Writers, EventIds

\* Every step keeps them.
LEMMA TypeStep == ASSUME TypeOK, [Next]_vars PROVE TypeOK'
<1>1. CASE Crash
  <2>1. failures' \in 0..MaxFailures
    BY <1>1, BillingAssumption DEF Crash, Fail, TypeOK
  <2> QED
    BY <1>1, <2>1 DEF Crash, TypeOK, stripeVars, Writers
<1>2. CASE UNCHANGED vars
  BY <1>2 DEF vars, writerVars, stripeVars, TypeOK
<1> QED
  BY <1>1, <1>2, StripeType, CheckoutType, WebhookType DEF Next

\* Every variable keeps its type: TypeOK is an invariant of Billing.
THEOREM TypeCorrect == Spec => []TypeOK
BY InitType, TypeStep, PTL DEF Spec

----------------------------------------------------------------------------
(* Idempotence.                                                             *)

\* Only the webhook handler touches the ledger.
LEMMA LedgerQuiet ==
    ASSUME TypeOK,
           \/ UNCHANGED vars \/ StripeStep \/ Crash
           \/ \E c \in Checkouts : CheckoutStep(c)
           \/ \E e \in EventIds : Duplicate(e)
           \/ \E u \in Users : Decide(u)
           \/ Load(Webhook)
    PROVE  /\ UNCHANGED <<ledger, applied, current>>
           /\ \/ pc'[Webhook] = pc[Webhook]
              \/ pc'[Webhook] = "idle"
              \/ pc[Webhook] \in {"apply", "load"} /\ pc'[Webhook] \in {"load", "commit"}
<1> USE BillingAssumption DEF TypeOK, Writers
<1>1. CASE UNCHANGED vars
  BY <1>1 DEF vars, writerVars
<1>2. CASE StripeStep
  BY <1>2 DEF StripeStep, writerVars
<1>3. CASE Crash
  BY <1>3 DEF Crash
<1>4. ASSUME NEW c \in Checkouts, CheckoutStep(c)
      PROVE  UNCHANGED <<ledger, applied, current>> /\ pc'[Webhook] = pc[Webhook]
  BY <1>4 DEF CheckoutStep, ReadForCheckout, Load, CommitCheckout, OpenSession, CheckoutFails
<1>5. ASSUME NEW e \in EventIds, Duplicate(e)
      PROVE  UNCHANGED <<ledger, applied, current>> /\ pc'[Webhook] = pc[Webhook]
  BY <1>5 DEF Duplicate, writerVars
<1>6. ASSUME NEW u \in Users, Decide(u)
      PROVE  UNCHANGED <<ledger, applied, current>>
             /\ pc[Webhook] = "apply" /\ pc'[Webhook] = "load"
  BY <1>6 DEF Decide
<1>7. CASE Load(Webhook)
  BY <1>7 DEF Load
<1> QED
  BY <1>1, <1>2, <1>3, <1>4, <1>5, <1>6, <1>7

\* Every step keeps the ledger in line with what was applied.
LEMMA LedgerStep ==
    ASSUME TypeOK, LedgerInv, [Next]_vars
    PROVE  LedgerInv'
<1> USE DEF LedgerInv
<1>0. /\ ledger \in [EventIds -> {"none", "processing", "processed", "ignored", "failed"}]
      /\ pc \in [Writers -> {"idle", "apply", "load", "commit", "mark", "session"}]
      /\ Webhook \in Writers
      /\ pc[Webhook] # "idle" => current \in EventIds
      /\ applied \in Seq(1..Len(sent)) /\ Len(applied) \in Nat
  <2>1. Len(sent) \in Nat /\ Len(applied) \in Nat
    BY LenProperties DEF TypeOK
  <2>2. pc[Webhook] # "idle" => current \in 1..MaxEvents
    BY <2>1, BillingAssumption DEF TypeOK
  <2> QED
    BY <2>1, <2>2 DEF TypeOK, Writers, EventIds
<1>1. ASSUME \/ UNCHANGED vars \/ StripeStep \/ Crash
             \/ \E c \in Checkouts : CheckoutStep(c)
             \/ \E e \in EventIds : Duplicate(e)
             \/ \E u \in Users : Decide(u)
             \/ Load(Webhook)
      PROVE  LedgerInv'
  BY <1>1, LedgerQuiet DEF LedgerMatchesEffects, HandledEvent, Applied
<1>2. ASSUME NEW e \in EventIds, FirstDelivery(e)
      PROVE  LedgerInv'
  <2>1. /\ ledger[e] = "none" /\ ledger' = [ledger EXCEPT ![e] = "processing"]
        /\ current' = e /\ pc'[Webhook] = "apply" /\ applied' = applied
    BY <1>0, <1>2 DEF FirstDelivery
  <2> QED
    BY <1>0, <2>1 DEF LedgerMatchesEffects, HandledEvent, Applied
<1>3. ASSUME NEW to \in {"ignored", "processed", "failed"},
             pc[Webhook] # "idle",
             ledger' \in {ledger, [ledger EXCEPT ![current] = to]},
             to = "ignored" => pc[Webhook] = "apply",
             to = "processed" => pc[Webhook] = "mark",
             applied' = applied, pc'[Webhook] = "idle"
      PROVE  LedgerInv'
  BY <1>0, <1>3 DEF LedgerMatchesEffects, HandledEvent, Applied
<1>4. CASE Ignore
  BY <1>0, <1>3, <1>4 DEF Ignore
<1>5. CASE Processed
  BY <1>0, <1>3, <1>5 DEF Processed
<1>6. CASE WebhookFails
  BY <1>0, <1>3, <1>6 DEF WebhookFails
<1>7. CASE CommitWebhook
  <2>1. /\ pc[Webhook] = "commit" /\ pc'[Webhook] = "mark" /\ UNCHANGED <<ledger, current>>
        /\ applied' = Append(applied, current)
    BY <1>0, <1>7 DEF CommitWebhook, Commit
  <2>2. /\ DOMAIN applied' = 1..(Len(applied) + 1) /\ DOMAIN applied = 1..Len(applied)
        /\ applied'[Len(applied) + 1] = current
        /\ \A i \in 1..Len(applied) : applied'[i] = applied[i]
    BY <1>0, <2>1
  <2>3. \A e : Applied(e)' <=> Applied(e) \/ e = current
    <3>1. ASSUME NEW e, Applied(e) PROVE Applied(e)'
      BY <1>0, <2>2, <3>1 DEF Applied
    <3>2. Applied(current)'
      <4>1. Len(applied) + 1 \in DOMAIN applied' /\ current' = current
        BY <1>0, <2>1, <2>2
      <4> QED
        BY <2>2, <4>1 DEF Applied
    <3>3. ASSUME NEW e, NEW i \in DOMAIN applied', applied'[i] = e
          PROVE  Applied(e) \/ e = current
      <4>1. i \in 1..Len(applied) \/ i = Len(applied) + 1
        BY <1>0, <2>2
      <4> QED
        BY <2>2, <3>3, <4>1 DEF Applied
    <3> QED
      BY <2>1, <3>1, <3>2, <3>3 DEF Applied
  <2>4. ~Applied(current) /\ ledger[current] = "processing"
    BY <2>1 DEF HandledEvent
  <2>5. \A i, j \in DOMAIN applied' : applied'[i] = applied'[j] => i = j
    BY <1>0, <2>2, <2>4 DEF LedgerMatchesEffects, Applied
  <2> QED
    BY <1>0, <2>1, <2>3, <2>4, <2>5 DEF LedgerMatchesEffects, HandledEvent
<1> QED
  BY <1>1, <1>2, <1>4, <1>5, <1>6, <1>7 DEF Next, Deliver, WebhookStep

\* However often an event is delivered and whatever fails, it is applied at most once,
\* and the ledger says whether it was: LedgerMatchesEffects is an invariant of Billing.
THEOREM IdempotenceCorrect == Spec => []LedgerMatchesEffects
<1>1. Init => LedgerInv
  BY BillingAssumption
  DEF Init, LedgerInv, LedgerMatchesEffects, HandledEvent, Applied, Writers
<1> QED
  BY <1>1, LedgerStep, TypeCorrect, PTL DEF Spec, LedgerInv

----------------------------------------------------------------------------
(* Cancellation.                                                            *)

\* What a commit does to a status: the row gets the status wanted, or keeps its own.
LEMMA CommitStatus ==
    ASSUME TypeOK, NEW w \in Writers, Commit(w)
    PROVE  /\ user[w] \in Users
           /\ \A u \in Users \ {user[w]} : rows'[u] = rows[u]
           /\ rows'[user[w]] = Written(w)
           /\ \/ Written(w).status = want[w].status
              \/ rows[user[w]] # NoRow /\ Written(w).status = rows[user[w]].status
<1>1. user[w] \in Users /\ want[w] \in Row
  BY DEF TypeOK, Commit
<1>2. rows' = [rows EXCEPT ![user[w]] = Written(w)] /\ rows \in [Users -> Row \cup {NoRow}]
  BY DEF Commit, TypeOK
<1>3. \/ Written(w).status = want[w].status
      \/ loaded[w] # NoRow /\ Written(w).status = rows[user[w]].status
  BY DEF Written, Changed
<1>4. loaded[w] # NoRow => rows[user[w]] # NoRow
  BY DEF TypeOK, Commit
<1> QED
  BY <1>1, <1>2, <1>3, <1>4

\* Rows change in commits only.
LEMMA RowsChange ==
    ASSUME [Next]_vars
    PROVE  \/ rows' = rows
           \/ \E c \in Checkouts : CommitCheckout(c)
           \/ CommitWebhook
BY DEF Next, StripeStep, CheckoutStep, ReadForCheckout, Load, OpenSession, CheckoutFails,
       Deliver, FirstDelivery, Duplicate, WebhookStep, Ignore, Decide, Processed,
       WebhookFails, Crash, vars

\* What a writer is about to write is settled when it goes to load.
LEMMA WantChange ==
    ASSUME TypeOK, [Next]_vars, NEW w \in Writers, pc'[w] \in {"load", "commit"}
    PROVE  \/ pc[w] \in {"load", "commit"} /\ want'[w] = want[w] /\ user'[w] = user[w]
           \/ /\ w \in Checkouts
              /\ \E u \in Users : ReadForCheckout(w, u)
           \/ /\ w = Webhook
              /\ \E u \in Users : Decide(u)
<1> USE BillingAssumption DEF Writers
<1>0. pc \in [Writers -> {"idle", "apply", "load", "commit", "mark", "session"}]
      /\ want \in [Writers -> Row \cup {NoRow}] /\ user \in [Writers -> Users \cup {None}]
  BY DEF TypeOK
<1>1. ASSUME UNCHANGED vars \/ StripeStep \/ \E e \in EventIds : Duplicate(e)
      PROVE  UNCHANGED <<pc, want, user>>
  BY <1>1 DEF vars, writerVars, StripeStep, Duplicate
<1>2. ASSUME NEW c \in Checkouts, NEW u \in Users, ReadForCheckout(c, u)
      PROVE  \/ pc'[w] = pc[w] /\ want'[w] = want[w] /\ user'[w] = user[w]
             \/ w = c
  BY <1>0, <1>2 DEF ReadForCheckout
<1>3. ASSUME NEW v \in Writers, Load(v)
      PROVE  pc[w] \in {"load", "commit"} /\ want'[w] = want[w] /\ user'[w] = user[w]
  BY <1>0, <1>3 DEF Load
<1>4. ASSUME \/ \E c \in Checkouts : CommitCheckout(c) \/ OpenSession(c) \/ CheckoutFails(c)
             \/ \E e \in EventIds : FirstDelivery(e)
             \/ Ignore \/ CommitWebhook \/ Processed \/ WebhookFails \/ Crash
      PROVE  pc[w] \in {"load", "commit"} /\ want'[w] = want[w] /\ user'[w] = user[w]
  BY <1>0, <1>4 DEF CommitCheckout, OpenSession, CheckoutFails, FirstDelivery, Ignore,
                    CommitWebhook, Processed, WebhookFails, Crash
<1>5. ASSUME NEW u \in Users, Decide(u)
      PROVE  \/ pc'[w] = pc[w] /\ want'[w] = want[w] /\ user'[w] = user[w]
             \/ w = Webhook
  BY <1>0, <1>5 DEF Decide
<1> QED
  BY <1>1, <1>2, <1>3, <1>4, <1>5 DEF Next, CheckoutStep, Deliver, WebhookStep

\* Every step keeps the promise about canceled rows.
LEMMA CancelStep ==
    ASSUME TypeOK, CancelInv, [Next]_vars
    PROVE  CancelInv'
<1> USE BillingAssumption DEF Writers
<1>1. ASSUME NEW c \in Checkouts, pc'[c] \in {"load", "commit"}
      PROVE  want'[c].status \in {"pending", "active"}
  <2>1. CASE pc[c] \in {"load", "commit"} /\ want'[c] = want[c]
    BY <2>1 DEF CancelInv
  <2>2. ASSUME NEW u \in Users, ReadForCheckout(c, u)
        PROVE  want'[c].status \in {"pending", "active"}
    <3>1. want'[c] = CheckoutWant(rows[u])
      BY <2>2 DEF ReadForCheckout, TypeOK
    <3> QED
      BY <3>1 DEF CheckoutWant
  <2> QED
    BY <1>1, <2>1, <2>2, WantChange
<1>2. ASSUME pc'[Webhook] \in {"load", "commit"}, Canceled(user[Webhook])',
             pc[Webhook] \in {"load", "commit"}, want'[Webhook] = want[Webhook],
             user'[Webhook] = user[Webhook]
      PROVE  want'[Webhook].status = "canceled"
  <2>1. CASE Canceled(user[Webhook])
    BY <1>2, <2>1 DEF CancelInv
  <2>2. CASE ~Canceled(user[Webhook])
    <3>1. rows' # rows
      BY <1>2, <2>2 DEF Canceled
    <3>2. ~CommitWebhook
      BY <1>2 DEF CommitWebhook, TypeOK
    <3>3. ASSUME NEW c \in Checkouts, CommitCheckout(c) PROVE FALSE
      <4>1. Commit(c) /\ c \in Writers /\ want[c].status \in {"pending", "active"}
        BY <3>3 DEF CommitCheckout, Commit, CancelInv
      <4>2. user[Webhook] \in Users
        BY <1>2 DEF TypeOK
      <4> QED
        BY <1>2, <2>2, <4>1, <4>2, CommitStatus DEF Canceled
    <3> QED
      BY <3>1, <3>2, <3>3, RowsChange
  <2> QED
    BY <2>1, <2>2
<1>3. ASSUME NEW u \in Users, Decide(u), Canceled(user[Webhook])'
      PROVE  want'[Webhook].status = "canceled"
  <2>1. /\ Applies(sent[current], u) /\ rows' = rows
        /\ user'[Webhook] = u /\ want'[Webhook].status = sent[current].to
    BY <1>3 DEF Decide, TypeOK
  <2>2. rows[u] # NoRow /\ rows[u].status = "canceled"
    BY <1>3, <2>1 DEF Canceled
  <2>3. rows[u].status = sent[current].to \/ sent[current].to \in Transitions[rows[u].status]
    BY <2>1, <2>2 DEF Applies, CanTransition
  <2> QED
    BY <2>1, <2>2, <2>3 DEF Transitions
<1> QED
  BY <1>1, <1>2, <1>3, WantChange DEF CancelInv

\* A canceled subscription is left by a checkout only: a webhook that decided on an
\* older row never revives it.
THEOREM CancellationCorrect == Spec => OnlyCheckoutsReviveCanceled
<1>1. Init => CancelInv
  BY BillingAssumption DEF Init, CancelInv, Writers
<1>2. ASSUME TypeOK, CancelInv, [Next]_vars
      PROVE  \A u \in Users : Canceled(u) /\ ~Canceled(u)' => pc'[Webhook] = pc[Webhook]
  <2> USE BillingAssumption DEF Writers
  <2> SUFFICES ASSUME NEW u \in Users, Canceled(u), ~Canceled(u)'
               PROVE  pc'[Webhook] = pc[Webhook]
    OBVIOUS
  <2>1. rows' # rows
    BY DEF Canceled
  <2>2. ASSUME NEW c \in Checkouts, CommitCheckout(c) PROVE pc'[Webhook] = pc[Webhook]
    BY <2>2 DEF CommitCheckout, TypeOK
  <2>3. ASSUME CommitWebhook PROVE FALSE
    <3>1. Commit(Webhook) /\ pc[Webhook] = "commit" /\ Webhook \in Writers
      BY <2>3 DEF CommitWebhook, Commit
    <3>2. Written(Webhook) \in Row /\ rows'[user[Webhook]] = Written(Webhook)
          /\ \A v \in Users \ {user[Webhook]} : rows'[v] = rows[v]
      BY <1>2, <3>1, WrittenType, CommitStatus
    <3>3. user[Webhook] = u
      BY <3>2 DEF Canceled
    <3>4. want[Webhook].status = "canceled" /\ Written(Webhook).status = "canceled"
      BY <1>2, <3>1, <3>3, CommitStatus DEF CancelInv, Canceled
    <3>5. Written(Webhook) # NoRow
      BY <3>2, NoRowAssumption
    <3> QED
      BY <3>2, <3>3, <3>4, <3>5 DEF Canceled
  <2> QED
    BY <1>2, <2>1, <2>2, <2>3, RowsChange
<1>3. Spec => []CancelInv
  BY <1>1, CancelStep, TypeCorrect, PTL DEF Spec
<1>4. TypeOK /\ CancelInv /\ [Next]_vars
        => [\A u \in Users : Canceled(u) /\ ~Canceled(u)' => pc'[Webhook] = pc[Webhook]]_vars
  BY <1>2
<1> QED
  BY <1>3, <1>4, TypeCorrect, PTL DEF Spec, OnlyCheckoutsReviveCanceled

----------------------------------------------------------------------------
(* Entitlement.                                                             *)

\* Subscriptions keep their owners, and events their place.
LEMMA HistoryGrows ==
    ASSUME TypeOK, [Next]_vars
    PROVE  /\ \A s \in Subs : owner[s] # None => owner'[s] = owner[s]
           /\ DOMAIN sent \subseteq DOMAIN sent'
           /\ \A e \in DOMAIN sent : sent'[e] = sent[e]
<1>1. CASE StripeStep
  <2>1. ASSUME NEW ev, Send(<<ev>>)
        PROVE  DOMAIN sent \subseteq DOMAIN sent' /\ \A e \in DOMAIN sent : sent'[e] = sent[e]
    <3>1. sent \in Seq(Event) /\ sent' = Append(sent, ev)
      BY <2>1 DEF Send, TypeOK
    <3> QED
      BY <3>1, AppendProperties, LenProperties
  <2>2. ASSUME NEW u \in Users, NEW s \in Subs, CompleteSession(u, s)
        PROVE  \A t \in Subs : owner[t] # None => owner'[t] = owner[t]
    BY <2>2 DEF CompleteSession, TypeOK
  <2>3. ASSUME NEW u \in Users, NEW s \in Subs, CompleteSession(u, s)
        PROVE  \E ev : Send(<<ev>>)
    BY <2>3 DEF CompleteSession
  <2>4. ASSUME NEW u \in Users, ExpireSession(u)
        PROVE  (\E ev : Send(<<ev>>)) /\ owner' = owner
    BY <2>4 DEF ExpireSession
  <2>5. ASSUME NEW s, NEW from, NEW kind, NEW to, MoveSubscription(s, from, kind, to)
        PROVE  (\E ev : Send(<<ev>>)) /\ owner' = owner
    BY <2>5 DEF MoveSubscription
  <2> QED
    BY <1>1, <2>1, <2>2, <2>3, <2>4, <2>5 DEF StripeStep
<1>2. CASE ~StripeStep
  <2>1. UNCHANGED <<owner, sent>>
    BY <1>2
    DEF Next, vars, stripeVars, CheckoutStep, ReadForCheckout, Load, CommitCheckout,
        OpenSession, CheckoutFails, Deliver, FirstDelivery, Duplicate, WebhookStep,
        Ignore, Decide, CommitWebhook, Processed, WebhookFails, Crash
  <2> QED
    BY <2>1
<1> QED
  BY <1>1, <1>2

\* What Stripe sends names the subscription and its owner.
LEMMA EventFacts ==
    ASSUME TypeOK, OwnerInv, [Next]_vars
    PROVE  \A e \in DOMAIN sent' :
              /\ sent'[e].kind = "expired" => sent'[e].to = "pending"
              /\ sent'[e].kind # "expired" => sent'[e].sub \in Subs
              /\ sent'[e].kind = "completed" => owner'[sent'[e].sub] = sent'[e].user
<1> DEFINE Fine(ev) == /\ ev.kind = "expired" => ev.to = "pending"
                       /\ ev.kind # "expired" => ev.sub \in Subs
                       /\ ev.kind = "completed" => owner'[ev.sub] = ev.user
<1>1. \A e \in DOMAIN sent : Fine(sent'[e])
  <2> SUFFICES ASSUME NEW e \in DOMAIN sent PROVE Fine(sent'[e])
    OBVIOUS
  <2>1. sent'[e] = sent[e]
    BY HistoryGrows
  <2>2. sent[e].kind = "completed" => sent[e].user \in Users /\ sent[e].user # None
    BY BillingAssumption DEF TypeOK
  <2>3. sent[e].kind = "completed" => owner'[sent[e].sub] = sent[e].user
    BY <2>2, HistoryGrows DEF OwnerInv
  <2> QED
    BY <2>1, <2>3 DEF OwnerInv
<1>2. ASSUME NEW ev, Send(<<ev>>), Fine(ev)
      PROVE  \A e \in DOMAIN sent' : Fine(sent'[e])
  <2>1. sent \in Seq(Event) /\ sent' = Append(sent, ev)
    BY <1>2 DEF Send, TypeOK
  <2>2. \A e \in DOMAIN sent' : e \in DOMAIN sent \/ sent'[e] = ev
    BY <2>1, AppendProperties, LenProperties
  <2> QED
    BY <1>1, <1>2, <2>2
<1>3. CASE StripeStep
  <2>1. ASSUME NEW u \in Users, NEW s \in Subs, CompleteSession(u, s)
        PROVE  \E ev : Send(<<ev>>) /\ Fine(ev)
    <3> DEFINE done == [kind |-> "completed", user |-> u, sub |-> s, to |-> "active"]
    <3>1. owner'[s] = u
      BY <2>1 DEF CompleteSession, TypeOK
    <3>2. Send(<<done>>)
      BY <2>1 DEF CompleteSession
    <3>3. /\ done.kind = "completed" /\ done.user = u /\ done.sub = s
          /\ s \in Subs
      OBVIOUS
    <3>4. Fine(done)
      BY <3>1, <3>3
    <3> HIDE DEF done, Fine
    <3> QED
      BY <3>2, <3>4
  <2>2. ASSUME NEW u \in Users, ExpireSession(u)
        PROVE  \E ev : Send(<<ev>>) /\ Fine(ev)
    <3> DEFINE gone == [kind |-> "expired", user |-> u, sub |-> None, to |-> "pending"]
    <3>1. Send(<<gone>>)
      BY <2>2 DEF ExpireSession
    <3>2. Fine(gone)
      OBVIOUS
    <3> HIDE DEF gone, Fine
    <3> QED
      BY <3>1, <3>2
  <2>3. ASSUME NEW s \in Subs, NEW from, NEW kind \in {"paid", "failed", "deleted", "updated"},
               NEW to, MoveSubscription(s, from, kind, to)
        PROVE  \E ev : Send(<<ev>>) /\ Fine(ev)
    <3> DEFINE moved == About(kind, s, to)
    <3>1. Send(<<moved>>)
      BY <2>3 DEF MoveSubscription
    <3>2. moved.kind = kind /\ moved.sub = s
      BY DEF About
    <3>3. Fine(moved)
      BY <3>2
    <3> HIDE DEF moved, Fine
    <3> QED
      BY <3>1, <3>3
  <2>4. \E ev : Send(<<ev>>) /\ Fine(ev)
    BY <1>3, <2>1, <2>2, <2>3 DEF StripeStep
  <2> QED
    BY <1>2, <2>4
<1>4. CASE sent' = sent
  BY <1>1, <1>4
<1>5. StripeStep \/ sent' = sent
  BY DEF Next, vars, stripeVars, CheckoutStep, ReadForCheckout, Load, CommitCheckout,
         OpenSession, CheckoutFails, Deliver, FirstDelivery, Duplicate, WebhookStep,
         Ignore, Decide, CommitWebhook, Processed, WebhookFails, Crash
<1> QED
  BY <1>3, <1>4, <1>5

\* What a commit leaves in a row comes from what was wanted or from the row itself.
LEMMA CommitParts ==
    ASSUME TypeOK, NEW w \in Writers, Commit(w)
    PROVE  LET u == user[w]
               same == rows[u] # NoRow
           IN  /\ Written(w).sub = want[w].sub \/ (same /\ Written(w).sub = rows[u].sub)
               /\ Written(w).entitled = want[w].entitled
                    \/ (same /\ Written(w).entitled = rows[u].entitled)
<1>1. loaded[w] # NoRow => rows[user[w]] # NoRow
  BY DEF TypeOK, Commit
<1> QED
  BY <1>1 DEF Written, Changed

\* Every step keeps rows and what is about to be written naming their user's own
\* subscriptions.
LEMMA OwnerStep ==
    ASSUME TypeOK, OwnerInv, [Next]_vars
    PROVE  OwnerInv'
<1> USE BillingAssumption
<1>1. ASSUME NEW s, s # None, s \in Subs \cup {None}, NEW u \in Users, owner[s] = u
      PROVE  owner'[s] = u
  BY <1>1, HistoryGrows
<1>2. ASSUME NEW u \in Users, rows'[u] # NoRow, rows'[u].sub # None
      PROVE  owner'[rows'[u].sub] = u
  <2>1. CASE rows'[u] = rows[u]
    <3>1. rows[u].sub \in Subs \cup {None}
      BY <1>2, <2>1 DEF TypeOK, Row
    <3> QED
      BY <1>1, <1>2, <2>1, <3>1 DEF OwnerInv
  <2>2. ASSUME NEW w \in Writers, Commit(w)
        PROVE  owner'[rows'[u].sub] = u
    <3>1. CASE u # user[w]
      BY <2>1, <2>2, <3>1, CommitStatus
    <3>2. CASE u = user[w]
      <4>1. /\ rows'[u] = Written(w) /\ Written(w) \in Row
            /\ pc[w] \in {"load", "commit"}
        BY <2>2, <3>2, CommitStatus, WrittenType DEF Commit
      <4>2. \/ Written(w).sub = want[w].sub
            \/ rows[u] # NoRow /\ Written(w).sub = rows[u].sub
        BY <2>2, <3>2, CommitParts
      <4>3. owner[Written(w).sub] = u
        BY <1>2, <3>2, <4>1, <4>2 DEF OwnerInv
      <4> QED
        BY <1>1, <1>2, <4>1, <4>3 DEF Row
    <3> QED
      BY <3>1, <3>2
  <2> QED
    BY <2>1, <2>2, RowsChange DEF CommitCheckout, CommitWebhook, Writers
<1>3. ASSUME NEW w \in Writers, pc'[w] \in {"load", "commit"}, want'[w].sub # None
      PROVE  owner'[want'[w].sub] = user'[w]
  <2>1. CASE pc[w] \in {"load", "commit"} /\ want'[w] = want[w] /\ user'[w] = user[w]
    <3>1. user[w] \in Users /\ want[w].sub \in Subs \cup {None}
      BY <2>1 DEF TypeOK, Row
    <3>2. owner[want[w].sub] = user[w]
      BY <1>3, <2>1 DEF OwnerInv
    <3> QED
      BY <1>1, <1>3, <2>1, <3>1, <3>2
  <2>2. ASSUME NEW u \in Users, ReadForCheckout(w, u), w \in Checkouts
        PROVE  owner'[want'[w].sub] = user'[w]
    <3>1. want'[w] = CheckoutWant(rows[u]) /\ user'[w] = u
      BY <2>2 DEF ReadForCheckout, TypeOK
    <3>2. rows[u] # NoRow /\ want'[w].sub = rows[u].sub
      BY <1>3, <3>1 DEF CheckoutWant
    <3>3. rows[u].sub \in Subs \cup {None} /\ owner[rows[u].sub] = u
      BY <1>3, <3>2 DEF TypeOK, Row, OwnerInv
    <3> QED
      BY <1>1, <1>3, <3>1, <3>2, <3>3
  <2>3. ASSUME NEW u \in Users, Decide(u), w = Webhook
        PROVE  owner'[want'[w].sub] = user'[w]
    <3> DEFINE ev == sent[current]
    <3>1. /\ user'[w] = u /\ Applies(ev, u) /\ owner' = owner
          /\ want'[w].sub = IF ev.kind = "expired" THEN rows[u].sub ELSE ev.sub
      BY <2>3 DEF Decide, TypeOK, stripeVars
    <3>2. current \in DOMAIN sent
      BY <2>3, LenProperties DEF Decide, TypeOK
    <3>3. CASE ev.kind = "expired"
      BY <1>3, <3>1, <3>3 DEF Applies, OwnerInv
    <3>4. CASE ev.kind = "completed"
      BY <3>1, <3>2, <3>4 DEF Applies, AboutUsers, OwnerInv
    <3>5. CASE ev.kind \notin {"completed", "expired"}
      <4>1. rows[u] # NoRow /\ rows[u].sub = ev.sub
        BY <3>1, <3>5 DEF Applies, AboutUsers
      <4> QED
        BY <1>3, <3>1, <3>5, <4>1 DEF OwnerInv
    <3> QED
      BY <3>3, <3>4, <3>5
  <2> QED
    BY <1>3, <2>1, <2>2, <2>3, WantChange
<1> QED
  BY <1>2, <1>3, EventFacts DEF OwnerInv

\* An entitlement that was granted stays granted.
LEMMA GrantedStays ==
    ASSUME TypeOK, OwnerInv, [Next]_vars, NEW u \in Users, Granted(u)
    PROVE  Granted(u)'
<1>1. PICK i \in DOMAIN applied :
         /\ sent[applied[i]].to = "active"
         /\ u = IF sent[applied[i]].kind = "completed" THEN sent[applied[i]].user
                ELSE owner[sent[applied[i]].sub]
  BY DEF Granted
<1>2. applied[i] \in DOMAIN sent
  BY ElementOfSeq, LenProperties DEF TypeOK
<1>3. i \in DOMAIN applied' /\ applied'[i] = applied[i]
  <2>1. applied' = applied \/ applied' = Append(applied, current)
    BY DEF Next, vars, StripeStep, CheckoutStep, ReadForCheckout, Load, CommitCheckout,
           OpenSession, CheckoutFails, Deliver, FirstDelivery, Duplicate, WebhookStep,
           Ignore, Decide, CommitWebhook, Processed, WebhookFails, Crash
  <2>2. applied \in Seq(1..Len(sent))
    BY DEF TypeOK
  <2> QED
    BY <2>1, <2>2, AppendProperties, LenProperties
<1>4. sent'[applied[i]] = sent[applied[i]]
  BY <1>2, HistoryGrows
<1>5. sent[applied[i]].kind \notin {"completed", "expired"}
        => owner'[sent[applied[i]].sub] = owner[sent[applied[i]].sub]
  BY <1>1, <1>2, HistoryGrows, BillingAssumption DEF OwnerInv
<1>6. sent[applied[i]].kind # "expired"
  BY <1>1, <1>2 DEF OwnerInv
<1> QED
  BY <1>1, <1>3, <1>4, <1>5, <1>6 DEF Granted

\* Every step keeps what entitlements come from.
LEMMA GrantStep ==
    ASSUME TypeOK, OwnerInv, EntitlementWasGranted, GrantInv, [Next]_vars
    PROVE  (EntitlementWasGranted /\ GrantInv)'
<1> USE BillingAssumption
<1>1. ASSUME NEW u \in Users, rows'[u] # NoRow, rows'[u].entitled
      PROVE  Granted(u)'
  <2>1. CASE rows'[u] = rows[u]
    BY <1>1, <2>1, GrantedStays DEF EntitlementWasGranted
  <2>2. ASSUME NEW w \in Writers, Commit(w), rows'[u] # rows[u]
        PROVE  /\ u = user[w] /\ pc[w] = "commit"
               /\ want[w].entitled \/ Granted(u)'
    <3>1. u = user[w] /\ rows'[u] = Written(w) /\ pc[w] = "commit"
      BY <2>2, CommitStatus DEF Commit
    <3>2. Written(w).entitled = want[w].entitled
          \/ (rows[u] # NoRow /\ Written(w).entitled = rows[u].entitled)
      BY <2>2, <3>1, CommitParts
    <3> QED
      BY <1>1, <3>1, <3>2, GrantedStays DEF EntitlementWasGranted
  <2>3. ASSUME NEW c \in Checkouts, CommitCheckout(c), rows'[u] # rows[u]
        PROVE  Granted(u)'
    BY <2>2, <2>3, GrantedStays DEF CommitCheckout, Writers, EntitlementWasGranted
  <2>4. ASSUME CommitWebhook, rows'[u] # rows[u], ~Granted(u)'
        PROVE  FALSE
    <3>1. u = user[Webhook] /\ pc[Webhook] = "commit" /\ want[Webhook].entitled
      BY <2>2, <2>4 DEF CommitWebhook, Writers
    <3>2. /\ sent[current].to = "active"
          /\ u = IF sent[current].kind = "completed" THEN sent[current].user
                 ELSE owner[sent[current].sub]
      BY <3>1 DEF GrantInv
    <3>3. applied' = Append(applied, current) /\ UNCHANGED <<sent, owner>>
      BY <2>4 DEF CommitWebhook, stripeVars
    <3>4. Len(applied) + 1 \in DOMAIN applied' /\ applied'[Len(applied) + 1] = current
      BY <3>3, AppendProperties, LenProperties DEF TypeOK
    <3> QED
      BY <2>4, <3>2, <3>3, <3>4 DEF Granted
  <2> QED
    BY <2>1, <2>3, <2>4, RowsChange
<1>2. ASSUME NEW c \in Checkouts, pc'[c] \in {"load", "commit"}, want'[c].entitled
      PROVE  Granted(user[c])'
  <2>1. CASE pc[c] \in {"load", "commit"} /\ want'[c] = want[c] /\ user'[c] = user[c]
    <3>1. Granted(user[c]) /\ user[c] \in Users
      BY <1>2, <2>1 DEF EntitlementWasGranted, TypeOK, Writers
    <3>2. \A u \in Users : Granted(u) => Granted(u)'
      BY GrantedStays
    <3> QED
      BY <2>1, <3>1, <3>2 DEF Granted
  <2>2. ASSUME NEW u \in Users, ReadForCheckout(c, u)
        PROVE  Granted(user[c])'
    <3>1. want'[c] = CheckoutWant(rows[u]) /\ user'[c] = u
      BY <2>2 DEF ReadForCheckout, TypeOK, Writers
    <3>2. rows[u] # NoRow /\ rows[u].entitled
      BY <1>2, <3>1 DEF CheckoutWant
    <3>3. Granted(u)'
      BY <3>2, GrantedStays DEF EntitlementWasGranted
    <3> QED
      BY <3>1, <3>3 DEF Granted
  <2> QED
    BY <1>2, <2>1, <2>2, WantChange DEF Writers
<1>3. ASSUME pc'[Webhook] \in {"load", "commit"}, want'[Webhook].entitled
      PROVE  /\ sent'[current'].to = "active"
             /\ user'[Webhook] = IF sent'[current'].kind = "completed"
                                 THEN sent'[current'].user
                                 ELSE owner'[sent'[current'].sub]
  <2>0. Webhook \in Writers /\ Webhook \notin Checkouts
    BY DEF Writers
  <2>1. CASE /\ pc[Webhook] \in {"load", "commit"}
             /\ want'[Webhook] = want[Webhook] /\ user'[Webhook] = user[Webhook]
    <3>1. /\ sent[current].to = "active" /\ user[Webhook] \in Users
          /\ user[Webhook] = IF sent[current].kind = "completed" THEN sent[current].user
                             ELSE owner[sent[current].sub]
      BY <1>3, <2>0, <2>1 DEF GrantInv, TypeOK
    <3>2. current \in DOMAIN sent
      BY <2>1, LenProperties DEF TypeOK
    <3>3. current' = current
      BY <1>3, <2>0, <2>1
      DEF Next, vars, StripeStep, CheckoutStep, ReadForCheckout, Load, CommitCheckout,
          OpenSession, CheckoutFails, Deliver, FirstDelivery, Delivered, Duplicate,
          WebhookStep, Ignore, Decide, CommitWebhook, Processed, WebhookFails, Crash
    <3>4. sent'[current] = sent[current] /\ sent[current].kind # "expired"
      BY <3>1, <3>2, HistoryGrows DEF OwnerInv
    <3>5. sent[current].kind # "completed"
            => owner'[sent[current].sub] = owner[sent[current].sub]
      BY <3>1, <3>2, <3>4, HistoryGrows DEF OwnerInv
    <3> QED
      BY <2>1, <3>1, <3>3, <3>4, <3>5
  <2>2. ASSUME NEW u \in Users, Decide(u)
        PROVE  /\ sent'[current'].to = "active"
               /\ user'[Webhook] = IF sent'[current'].kind = "completed"
                                   THEN sent'[current'].user
                                   ELSE owner'[sent'[current'].sub]
    <3> DEFINE ev == sent[current]
    <3>1. /\ user'[Webhook] = u /\ Applies(ev, u)
          /\ UNCHANGED <<owner, sent, current>>
          /\ want'[Webhook].entitled = (ev.to = "active")
      BY <2>0, <2>2 DEF Decide, TypeOK, stripeVars
    <3>2. current \in DOMAIN sent
      BY <2>2, LenProperties DEF Decide, TypeOK
    <3>3. ev.to = "active" /\ ev.kind # "expired"
      BY <1>3, <3>1, <3>2 DEF OwnerInv
    <3>4. CASE ev.kind = "completed"
      BY <3>1, <3>3, <3>4 DEF Applies, AboutUsers
    <3>5. CASE ev.kind # "completed"
      <4>1. rows[u] # NoRow /\ rows[u].sub = ev.sub /\ ev.sub \in Subs
        BY <3>1, <3>2, <3>3, <3>5 DEF Applies, AboutUsers, OwnerInv
      <4>2. owner[ev.sub] = u
        BY <4>1 DEF OwnerInv
      <4> QED
        BY <3>1, <3>3, <3>5, <4>2
    <3> QED
      BY <3>4, <3>5
  <2> QED
    BY <1>3, <2>0, <2>1, <2>2, WantChange
<1> QED
  BY <1>1, <1>2, <1>3 DEF EntitlementWasGranted, GrantInv

\* Nobody is entitled, and no checkout preserves an entitlement, without an event that
\* granted it to that very user: EntitlementWasGranted is an invariant of Billing.
THEOREM EntitlementCorrect == Spec => []EntitlementWasGranted
<1>1. Init => OwnerInv /\ EntitlementWasGranted /\ GrantInv
  BY BillingAssumption DEF Init, OwnerInv, EntitlementWasGranted, GrantInv, Writers
<1> QED
  BY <1>1, OwnerStep, GrantStep, TypeCorrect, PTL DEF Spec

=============================================================================
