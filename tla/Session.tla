------------------------------ MODULE Session ------------------------------
(***************************************************************************)
(* The session of the browser: the auth store, the bootstrap that restores  *)
(* it from the refresh cookie, login, registration, logout, the checkout    *)
(* that writes it after two awaits, the page a checkout returns to, and the  *)
(* guards and redirections of the routes.                                   *)
(*                                                                          *)
(* A step is a task of the event loop: a click, an answer with what follows  *)
(* it up to the next await, a redirection.  The pages behind a guard of the  *)
(* same kind are one: gated needs an entitlement, member and admin a role.   *)
(***************************************************************************)
EXTENDS Integers, FiniteSets

CONSTANTS
    Users,       \* accounts
    RoleOf,      \* account -> "member" or "admin", the role its tokens carry
    Payers,      \* accounts whose billing changes while the browser is open
    Statuses,    \* billing statuses it takes (a bound)
    Visited,     \* paths the user goes to (a bound)
    Checkouts,   \* ids of checkout sessions
    None,
    MaxCalls,    \* most calls whose continuations write the session at once (a bound)
    MaxLoads     \* most loads of the document (a bound)

ASSUME SessionAssumption ==
    /\ None \notin Users
    /\ None \notin Checkouts
    /\ RoleOf \in [Users -> {"member", "admin"}]
    /\ Payers \subseteq Users
    /\ Statuses \subseteq {"none", "pending", "active"}
    /\ Visited \subseteq {"dashboard", "gated", "member", "admin", "subscription", "login", "signup"}
    /\ MaxCalls \in Nat
    /\ MaxLoads \in Nat \ {0}

VARIABLES
    cookie,             \* the account of the refresh cookie, or None
    session,            \* the store: token (its account), role, entitlement
    resolved,
    checkoutSessionId,  \* the store's, and its copy in sessionStorage
    boot,               \* the bootstrap: what it awaits, and the account of its token
    loads,              \* documents loaded
    location,           \* path; for /login where to return, for success the id in the URL
    calls,              \* calls in flight and their continuations
    data,               \* what the page's query knows: SubscriptionPage's of the billing
                        \* status, CheckoutResultPage's of its checkout
    told,               \* history: accounts this document was told are entitled
    crossed             \* history: a call was started in this document before another ended

store == <<session, resolved, checkoutSessionId>>
history == <<told, crossed>>
vars == <<cookie, store, boot, loads, location, calls, data, history>>

Shell == {"dashboard", "gated", "member", "admin"}
Paths == Shell \cup {"subscription", "login", "signup", "verify", "success", "cancel", "away"}

\* A page that redirects nowhere says None.
ASSUME LocationAssumption ==
    None \notin [path : Paths, from : Paths, sid : Checkouts \cup {None}]

Entitlements == {"none", "pending", "active"}
Visitor == [token |-> None, role |-> "visitor", entitlement |-> "none"]

\* What a token says of its bearer, before the billing status is known.
FromToken(u) == [token |-> u, role |-> RoleOf[u], entitlement |-> "none"]

At(path) == [path |-> path, from |-> "dashboard", sid |-> None]

NoCall == [kind |-> "none"]
NoCalls == [i \in 1..MaxCalls |-> NoCall]

Init ==
    /\ cookie \in Users \cup {None}
    /\ session = Visitor
    /\ resolved = FALSE
    /\ checkoutSessionId = None
    /\ boot = [at |-> "refresh", user |-> None]
    /\ loads = 1
    /\ location \in {At(path) : path \in {"dashboard", "gated", "login"}}
    /\ calls = NoCalls
    /\ data = "loading"
    /\ told = {}
    /\ crossed = FALSE

-----------------------------------------------------------------------------
(* What the server answers about billing                                    *)

\* Answers about a billing status, which webhooks and administrators move at any time:
\* entitlement_active may be left out.
Answers(u) ==
    {a \in [status : IF u \in Payers THEN Statuses ELSE {"none"}, active : {"yes", "no", "absent"}] :
        a.active = "absent" \/ (a.active = "yes" <=> a.status = "active")}

\* mapEntitlement and resolveEntitlementFromBillingStatus that takes a checkout that was
\* begun for a subscription.
ResolvedEarly(a) ==
    IF a.active = "yes" \/ a.status # "none" THEN "active" ELSE "none"

Resolved(a) ==
    CASE a.active = "yes" -> "active"
      [] a.active = "no" -> "none"
      [] OTHER -> a.status

Told(u, a) == told' = IF a.status = "active" THEN told \cup {u} ELSE told

-----------------------------------------------------------------------------
(* The routes                                                               *)

Rank == [visitor |-> 0, member |-> 1, admin |-> 2]
Required(path) ==
    CASE path = "admin" -> 2 [] path \in {"gated", "member"} -> 1 [] OTHER -> 0

\* The checkout id a result page is about.
Effective == IF location.sid # None THEN location.sid ELSE checkoutSessionId

\* Where LoginPage sends who is signed in, if it returned him.
SignedInReturning(path) ==
    IF path = "login" THEN At(location.from) ELSE At("dashboard")

\* Where the pages for visitors send who is signed in.
SignedIn(path) == At("dashboard")

\* Where the page at hand sends the browser, or None: the guards, the pages for visitors,
\* the result of a checkout that is not what its URL says.
Target ==
    LET path == location.path
        role == session.role
    IN  CASE path \in Shell /\ Rank[role] < Required(path) -> [At("login") EXCEPT !.from = path]
          [] path = "gated" /\ Rank[role] >= 1 /\ session.entitlement # "active"
                /\ role # "admin" -> At("subscription")
          [] path \in {"login", "signup", "verify"} /\ role # "visitor" -> SignedIn(path)
          [] path \in {"success", "cancel"} /\ (session.token = None \/ Effective = None
                \/ data = "error"
                \/ data = IF path = "success" THEN "unpaid" ELSE "paid") -> At("dashboard")
          [] OTHER -> None

\* A page is left: its calls go on without it, its queries are aborted.
Go(loc) ==
    /\ location' = loc
    /\ data' = "loading"

Orphaned(cs) == [i \in 1..MaxCalls |-> IF cs[i] = NoCall THEN NoCall
                                       ELSE [cs[i] EXCEPT !.live = FALSE]]

\* A request for the customer portal that is dropped.
WithoutPortal(cs) ==
    [i \in 1..MaxCalls |-> IF cs[i] # NoCall /\ cs[i].kind = "portal" /\ cs[i].at = "request"
                           THEN NoCall ELSE cs[i]]

\* Leaving for a path: the sidebar, which aborts its request for the portal when it goes,
\* stays from one page of the shell to another.
Leaving(cs, path) == Orphaned(IF path \in Shell THEN cs ELSE WithoutPortal(cs))

\* The page is shown, and the user can act on it.
Shown == resolved /\ location.path # "away" /\ Target = None

Redirects ==
    /\ resolved /\ location.path # "away" /\ Target # None
    /\ Go(Target)
    /\ calls' = Leaving(calls, Target.path)
    /\ UNCHANGED <<cookie, store, boot, loads, history>>

\* The user goes to another page inside the document.
Navigates(path) ==
    /\ Shown
    /\ path \in Visited \ {location.path}
    /\ Go(At(path))
    /\ calls' = Leaving(calls, path)
    /\ UNCHANGED <<cookie, store, boot, loads, history>>

-----------------------------------------------------------------------------
(* Documents and the bootstrap                                              *)

\* Accounts the cookie may be of once the calls in flight are dropped with the document:
\* the answer to a login, a registration or a logout may have come.
Dropped ==
    LET requests == {c \in {calls[i] : i \in 1..MaxCalls} \ {NoCall} : c.at = "request"}
    IN  {cookie}
          \cup {c.session.token : c \in {d \in requests : d.kind \in {"login", "register"}}}
          \cup {None : c \in {d \in requests : d.kind = "logout"}}

\* A document is loaded: the store starts empty but for the checkout id.
Load(loc) ==
    /\ loads < MaxLoads
    /\ loads' = loads + 1
    /\ cookie' \in Dropped
    /\ Go(loc)
    /\ session' = Visitor
    /\ resolved' = FALSE
    /\ boot' = [at |-> "refresh", user |-> None]
    /\ calls' = NoCalls
    /\ told' = {}
    /\ crossed' = FALSE
    /\ UNCHANGED checkoutSessionId

Reloads == location.path # "away" /\ Load(location)

\* Back from Stripe's page: from a checkout, paid or not, or from the portal, whose return
\* URL is by default that of a paid checkout.
Returns ==
    /\ location.path = "away"
    /\ \/ location.from = "success" /\ Load(At("success"))
       \/ location.from = "away" /\ \E s \in Checkouts : Load([At("success") EXCEPT !.sid = s])
       \/ location.from = "away" /\ Load(At("cancel"))

\* The refresh cookie is exchanged for a token.
RefreshAnswers ==
    /\ boot.at = "refresh" /\ location.path # "away"
    /\ cookie # None
    /\ boot' = [at |-> "status", user |-> cookie]
    /\ UNCHANGED <<cookie, store, loads, location, calls, data, history>>

\* RefreshFails that leaves the page waiting.
RefreshFailsQuietly ==
    /\ boot.at = "refresh" /\ location.path # "away"
    /\ boot' = [at |-> "done", user |-> None]
    /\ UNCHANGED <<cookie, store, loads, location, calls, data, history>>

\* The refresh is refused or fails: the store is cleared unless it holds a session.
RefreshFails ==
    /\ boot.at = "refresh" /\ location.path # "away"
    /\ boot' = [at |-> "done", user |-> None]
    /\ resolved' = TRUE
    /\ IF session.token # None /\ session.role # "visitor"
       THEN UNCHANGED <<session, checkoutSessionId>>
       ELSE session' = Visitor /\ checkoutSessionId' = None
    /\ UNCHANGED <<cookie, loads, location, calls, data, history>>

\* The billing status comes, or fails and counts as none; the session is restored.
BootStatus ==
    /\ boot.at = "status" /\ location.path # "away"
    /\ boot' = [at |-> "done", user |-> None]
    /\ resolved' = TRUE
    /\ \/ \E a \in Answers(boot.user) :
             /\ session' = [FromToken(boot.user) EXCEPT !.entitlement = Resolved(a)]
             /\ Told(boot.user, a)
       \/ session' = FromToken(boot.user) /\ UNCHANGED told
    /\ UNCHANGED <<cookie, checkoutSessionId, loads, location, calls, data,
                   crossed>>

-----------------------------------------------------------------------------
(* Calls that write the session when they are answered                      *)

InFlight == {i \in 1..MaxCalls : calls[i] # NoCall}
LiveCall == \E i \in InFlight : calls[i].live

\* A call is started in a free place; live while the page that made it is mounted.
Start(cs, kind, sess, to) ==
    /\ \E i \in 1..MaxCalls :
          /\ cs[i] = NoCall
          /\ \A j \in 1..(i - 1) : cs[j] # NoCall
          /\ calls' = [cs EXCEPT ![i] = [kind |-> kind, at |-> "request", session |-> sess,
                                         to |-> to, live |-> TRUE]]
    /\ crossed' = (crossed \/ \E j \in 1..MaxCalls : cs[j] # NoCall)

\* LoginPage's form, disabled while its own request is pending.
Login(u) ==
    /\ Shown /\ location.path = "login" /\ ~LiveCall
    /\ Start(calls, "login", FromToken(u), location.from)
    /\ UNCHANGED <<cookie, store, boot, loads, location, data, told>>

\* SignupPage's form asks for a one-time password.
SendOtp(u) ==
    /\ Shown /\ location.path = "signup" /\ ~LiveCall
    /\ RoleOf[u] = "member"
    /\ Start(calls, "otp", FromToken(u), "dashboard")
    /\ UNCHANGED <<cookie, store, boot, loads, location, data, told>>

\* It was sent: on to the verification page, from wherever the user is by now.
OtpSent(i) ==
    /\ calls[i] # NoCall /\ calls[i].kind = "otp"
    /\ calls' = [Leaving(calls, "verify") EXCEPT ![i] = NoCall]
    /\ Go(At("verify"))
    /\ UNCHANGED <<cookie, store, boot, loads, history>>

\* The verification page's form: verify, then register.
Verify(u) ==
    /\ Shown /\ location.path = "verify" /\ ~LiveCall
    /\ RoleOf[u] = "member"
    /\ Start(calls, "verify", FromToken(u), "dashboard")
    /\ UNCHANGED <<cookie, store, boot, loads, location, data, told>>

Verified(i) ==
    /\ calls[i] # NoCall /\ calls[i].kind = "verify"
    /\ calls' = [calls EXCEPT ![i].kind = "register"]
    /\ UNCHANGED <<cookie, store, boot, loads, location, data, history>>

\* A login or a registration is answered with a token, and a cookie.
Authenticated(i) ==
    /\ calls[i] # NoCall /\ calls[i].kind \in {"login", "register"} /\ calls[i].at = "request"
    /\ cookie' = calls[i].session.token
    /\ calls' = [calls EXCEPT ![i].at = "status"]
    /\ UNCHANGED <<store, boot, loads, location, data, history>>

\* applyAuthenticatedSession goes on: the session is set and the user sent on.
SignsIn(i) ==
    /\ calls[i] # NoCall /\ calls[i].kind \in {"login", "register"} /\ calls[i].at = "status"
    /\ LET u == calls[i].session.token
       IN  \/ \E a \in Answers(u) :
                 /\ session' = [calls[i].session EXCEPT !.entitlement = Resolved(a)]
                 /\ Told(u, a)
           \/ session' = calls[i].session /\ UNCHANGED told
    /\ resolved' = TRUE
    /\ Go(At(calls[i].to))
    /\ calls' = [Leaving(calls, calls[i].to) EXCEPT ![i] = NoCall]
    /\ UNCHANGED <<cookie, checkoutSessionId, boot, loads, crossed>>

\* A call that fails before it has changed anything here.
CallFails(i) ==
    /\ calls[i] # NoCall /\ calls[i].at = "request"
    /\ calls' = [calls EXCEPT ![i] = NoCall]
    /\ UNCHANGED <<cookie, store, boot, loads, location, data, history>>

\* What is left of the store when the user logs out, if the token were kept until the
\* server has answered.
ClearedLater == session

Cleared == Visitor

\* Logout: the store is cleared at once, the request is not waited for.  The guard and
\* the handler both redirect: either may be the last.
Logout ==
    /\ Shown /\ location.path \in Shell
    /\ session.token # None
    /\ session' = Cleared
    /\ checkoutSessionId' = None
    /\ \E from \in {"dashboard"} \cup (IF Required(location.path) > 0 THEN {location.path} ELSE {}) :
          Go([At("login") EXCEPT !.from = from])
    /\ Start(Leaving(calls, "login"), "logout", Visitor, "login")
    /\ UNCHANGED <<cookie, resolved, boot, loads, told>>

LogoutAnswers(i) ==
    /\ calls[i] # NoCall /\ calls[i].kind = "logout"
    /\ cookie' = None
    /\ calls' = [calls EXCEPT ![i] = NoCall]
    /\ UNCHANGED <<store, boot, loads, location, data, history>>

\* The sidebar asks for a page of the customer portal; a newer request replaces the older.
OpenPortal ==
    /\ Shown /\ location.path \in Shell
    /\ session.token # None
    /\ Start(WithoutPortal(calls), "portal", session, "success")
    /\ UNCHANGED <<cookie, store, boot, loads, location, data, told>>

\* It is there, and the browser is told to go there.
PortalOpens(i) ==
    /\ calls[i] # NoCall /\ calls[i].kind = "portal" /\ calls[i].at = "request"
    /\ calls' = [calls EXCEPT ![i].at = "leaving"]
    /\ UNCHANGED <<cookie, store, boot, loads, location, data, history>>

-----------------------------------------------------------------------------
(* The subscription and its checkout                                        *)

\* SubscriptionPage's status query.
StatusLoads ==
    /\ Shown /\ location.path = "subscription"
    /\ session.token # None
    /\ \E a \in Answers(session.token) :
          /\ data' = a.status
          /\ Told(session.token, a)
    /\ UNCHANGED <<cookie, store, boot, loads, location, calls, crossed>>

\* What the page takes for the status: its query's, else the store's.
CurrentStatus == IF data \in Entitlements THEN data ELSE session.entitlement

\* A click on the plan: a visitor is sent to log in, who has the plan cannot click.
Checkout ==
    /\ Shown /\ location.path = "subscription" /\ ~LiveCall
    /\ CurrentStatus # "active"
    /\ IF session.token = None
       THEN /\ Go([At("login") EXCEPT !.from = "subscription"])
            /\ UNCHANGED <<calls, crossed>>
       ELSE /\ Start(calls, "checkout", [session EXCEPT !.entitlement = CurrentStatus], "away")
            /\ UNCHANGED <<location, data>>
    /\ UNCHANGED <<cookie, store, boot, loads, told>>

\* The checkout session is there: its id is kept, and the status asked for again.  The
\* continuation sees the store as the page last rendered it.
CheckoutAnswers(i) ==
    /\ calls[i] # NoCall /\ calls[i].kind = "checkout" /\ calls[i].at = "request"
    /\ \E s \in Checkouts : checkoutSessionId' = s
    /\ calls' = [calls EXCEPT ![i].at = "status",
                              ![i].session = IF calls[i].live
                                             THEN [session EXCEPT !.entitlement = CurrentStatus]
                                             ELSE calls[i].session]
    /\ UNCHANGED <<cookie, session, resolved, boot, loads, location, data,
                   history>>

\* Renewed that takes the role of whoever is signed in by then.
RenewedForCurrent(captured, entitlement) ==
    [captured EXCEPT !.role = session.role, !.entitlement = entitlement]

\* The session a checkout sets: the one its page rendered, with the new entitlement.
Renewed(captured, entitlement) == [captured EXCEPT !.entitlement = entitlement]

\* The status comes, or the last one is used; the session is set and the browser told to
\* leave for Stripe's page.
CheckoutSettles(i) ==
    /\ calls[i] # NoCall /\ calls[i].kind = "checkout" /\ calls[i].at = "status"
    /\ LET captured == calls[i].session
           u == captured.token
       IN  \/ \E a \in Answers(u) :
                 /\ session' = Renewed(captured, Resolved(a))
                 /\ Told(u, a)
           \/ /\ session' = Renewed(captured, captured.entitlement)
              /\ UNCHANGED told
    /\ resolved' = TRUE
    /\ data' = IF session'.token = session.token THEN data ELSE "loading"
    /\ calls' = [calls EXCEPT ![i].at = "leaving"]
    /\ UNCHANGED <<cookie, checkoutSessionId, boot, loads, location, crossed>>

\* The document is left for a page of Stripe's.
Leaves(i) ==
    /\ calls[i] # NoCall /\ calls[i].at = "leaving"
    /\ cookie' \in Dropped
    /\ Go([At("away") EXCEPT !.from = calls[i].to])
    /\ session' = Visitor
    /\ resolved' = FALSE
    /\ boot' = [at |-> "done", user |-> None]
    /\ calls' = NoCalls
    /\ told' = {}
    /\ crossed' = FALSE
    /\ UNCHANGED <<checkoutSessionId, loads>>

\* CheckoutResultPage keeps the id of its URL.
KeepsId ==
    /\ location.path \in {"success", "cancel"}
    /\ location.sid # None /\ location.sid # checkoutSessionId
    /\ checkoutSessionId' = location.sid
    /\ UNCHANGED <<cookie, session, resolved, boot, loads, location, calls, data,
                   history>>

\* It asks whether its checkout was paid.
AsksResult ==
    /\ Shown /\ location.path \in {"success", "cancel"} /\ data = "loading"
    /\ data' \in {"paid", "unpaid", "error"}
    /\ UNCHANGED <<cookie, store, boot, loads, location, calls, history>>

\* It brings the entitlement up to date when the answer is what its URL says.
SyncsResult ==
    /\ Shown
    /\ \/ location.path = "success" /\ data = "paid"
       \/ location.path = "cancel" /\ data = "unpaid"
    /\ data' = "synced"
    /\ \E a \in Answers(session.token) :
          /\ session' = [session EXCEPT !.entitlement = Resolved(a)]
          /\ Told(session.token, a)
    /\ UNCHANGED <<cookie, resolved, checkoutSessionId, boot, loads, location, calls,
                   crossed>>

-----------------------------------------------------------------------------
BootStep == RefreshAnswers \/ RefreshFails \/ BootStatus

UserStep ==
    \/ \E path \in Paths : Navigates(path)
    \/ \E u \in Users : Login(u) \/ SendOtp(u) \/ Verify(u)
    \/ Logout
    \/ OpenPortal
    \/ Checkout
    \/ Reloads
    \/ Returns

Answer ==
    \/ \E i \in 1..MaxCalls :
          OtpSent(i) \/ Verified(i) \/ Authenticated(i) \/ SignsIn(i) \/ CallFails(i)
            \/ LogoutAnswers(i) \/ PortalOpens(i) \/ CheckoutAnswers(i) \/ CheckoutSettles(i) \/ Leaves(i)
    \/ StatusLoads \/ KeepsId \/ AsksResult \/ SyncsResult

Next ==
    \/ BootStep
    \/ Redirects
    \/ UserStep
    \/ Answer

\* Requests are answered or fail, and React renders its redirections.
Fairness == WF_vars(BootStep) /\ WF_vars(Redirects)

Spec == Init /\ [][Next]_vars
LiveSpec == Spec /\ Fairness

-----------------------------------------------------------------------------
(* Properties                                                               *)

Sessions == [token : Users \cup {None}, role : {"visitor", "member", "admin"},
             entitlement : Entitlements]

Calls == [kind : {"login", "otp", "verify", "register", "logout", "portal", "checkout"},
          at : {"request", "status", "leaving"}, session : Sessions, to : Paths,
          live : BOOLEAN]

\* Every variable has its type.
TypeOK ==
    /\ cookie \in Users \cup {None}
    /\ session \in Sessions
    /\ resolved \in BOOLEAN
    /\ checkoutSessionId \in Checkouts \cup {None}
    /\ boot \in [at : {"refresh", "status", "done"}, user : Users \cup {None}]
    /\ loads \in 1..MaxLoads
    /\ location \in [path : Paths, from : Paths, sid : Checkouts \cup {None}]
    /\ calls \in [1..MaxCalls -> Calls \cup {NoCall}]
    /\ data \in Entitlements \cup {"loading", "paid", "unpaid", "error", "synced"}
    /\ told \subseteq Users
    /\ crossed \in BOOLEAN

\* Whatever continuation writes the store last, token and role are of one account, and a
\* store without a token is a visitor's.
OneAccount ==
    IF session.token = None THEN session = Visitor
    ELSE session.role = RoleOf[session.token]

\* A page that needs an entitlement shows its content only to an administrator or to an
\* account that this document was told is entitled.
ContentWasGranted ==
    Shown /\ location.path = "gated" =>
        /\ session.token # None
        /\ RoleOf[session.token] = "admin" \/ session.token \in told

\* When calls do not cross, the session shown is the one of the cookie: the next load of
\* the document restores the same account.
SessionFollowsCookie ==
    ~crossed /\ session.token # None => cookie = session.token

\* A document does not wait for its session for ever.
Resolves == (~resolved /\ location.path # "away") ~> (resolved \/ location.path = "away")

\* Guards and pages never send the browser round in a circle.
RedirectsSettle == []<>(~resolved \/ location.path = "away" \/ Target = None)
=============================================================================
