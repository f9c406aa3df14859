--------------------------- MODULE SessionProofs ---------------------------
(***************************************************************************)
(* Theorems of Session, for every set of accounts and every number of      *)
(* calls in flight: every variable keeps its type, token and role are of   *)
(* one account, gated content was granted, and the session is the          *)
(* cookie's while calls do not cross.                                      *)
(***************************************************************************)
EXTENDS Session, TLAPS

\* Nothing has happened in a document whose bootstrap is not done, and the token it
\* waits with is the cookie's.
BootFirst ==
    /\ boot.at # "done" => /\ ~resolved /\ calls = NoCalls /\ session = Visitor
                           /\ data = "loading" /\ told = {} /\ ~crossed
    /\ boot.at = "status" => boot.user # None /\ cookie = boot.user

\* A call carries the token and the role of one account.
OfAccount(c) ==
    IF c.kind = "logout" THEN c.session = Visitor
    ELSE c.session.token # None /\ c.session.role = RoleOf[c.session.token]

\* What a call carries was granted, and a checkout whose page is up has a session to
\* capture.
CallOK(c) ==
    /\ OfAccount(c)
    /\ c.session.entitlement = "active" => c.session.token \in told
    /\ c.live /\ c.kind = "checkout" => session.token # None

CallsInv == \A i \in InFlight : CallOK(calls[i])

\* An entitlement, in the store or in the page's query, was granted to the store's account.
GrantInv ==
    /\ session.entitlement = "active" => session.token \in told
    /\ data \in Entitlements => location.path = "subscription"
    /\ data = "active" => session.token \in told

\* A call in flight that will set a session, or clear the cookie, has the store's.
Follows(c) ==
    /\ IF c.kind \in {"portal", "checkout"} THEN c.session.token = session.token
       ELSE session.token = None
    /\ c.at = "status" => cookie = c.session.token

FollowInv ==
    ~crossed =>
        /\ session.token # None => cookie = session.token
        /\ \A i, j \in InFlight : i = j
        /\ \A i \in InFlight : Follows(calls[i])

IInv == TypeOK /\ OneAccount /\ BootFirst /\ CallsInv /\ GrantInv /\ FollowInv

-----------------------------------------------------------------------------
(* Sessions and answers.                                                    *)

CallArrays == [1..MaxCalls -> Calls \cup {NoCall}]

LEMMA NoCallIsNone == NoCall \notin Calls
BY DEF NoCall, Calls

LEMMA VisitorFacts ==
    /\ Visitor \in Sessions
    /\ Visitor.token = None
    /\ Visitor.role = "visitor"
    /\ Visitor.entitlement = "none"
BY DEF Visitor, Sessions, Entitlements

\* A token's session is its account's.
LEMMA FromTokenFacts ==
    ASSUME NEW u \in Users
    PROVE  /\ FromToken(u) \in Sessions
           /\ FromToken(u).token = u /\ u # None
           /\ FromToken(u).role = RoleOf[u]
           /\ FromToken(u).entitlement = "none"
<1>1. RoleOf[u] \in {"member", "admin"} /\ u # None
  BY SessionAssumption
<1> QED
  BY <1>1 DEF FromToken, Sessions, Entitlements

\* A billing answer read as an entitlement is active only when its status is.
LEMMA ResolvedFacts ==
    ASSUME NEW u, NEW a \in Answers(u)
    PROVE  /\ a.status \in Entitlements
           /\ Resolved(a) \in Entitlements
           /\ Resolved(a) = "active" => a.status = "active"
<1>1. a.status \in Entitlements /\ a.active \in {"yes", "no", "absent"}
  BY SessionAssumption DEF Answers, Entitlements
<1>2. a.active = "yes" => a.status = "active"
  BY DEF Answers
<1> QED
  BY <1>1, <1>2 DEF Resolved, Entitlements

-----------------------------------------------------------------------------
(* Calls.                                                                   *)

\* ds is cs with calls dropped, or cut off from their pages.
Fewer(cs, ds) ==
    \A i \in 1..MaxCalls :
        \/ ds[i] = NoCall
        \/ /\ cs[i] # NoCall
           /\ ds[i] = cs[i] \/ ds[i] = [cs[i] EXCEPT !.live = FALSE]

NoneLive(ds) == \A i \in 1..MaxCalls : ds[i] = NoCall \/ ~ds[i].live

LEMMA OrphanedFacts ==
    ASSUME NEW cs \in CallArrays
    PROVE  Orphaned(cs) \in CallArrays /\ Fewer(cs, Orphaned(cs)) /\ NoneLive(Orphaned(cs))
<1>1. ASSUME NEW i \in 1..MaxCalls, cs[i] # NoCall
      PROVE  [cs[i] EXCEPT !.live = FALSE] \in Calls /\ ~[cs[i] EXCEPT !.live = FALSE].live
  <2>1. cs[i] \in Calls
    BY <1>1 DEF CallArrays
  <2> QED
    BY <2>1 DEF Calls
<1> QED
  BY <1>1 DEF Orphaned, CallArrays, Fewer, NoneLive

LEMMA WithoutPortalFacts ==
    ASSUME NEW cs \in CallArrays
    PROVE  WithoutPortal(cs) \in CallArrays /\ Fewer(cs, WithoutPortal(cs))
BY DEF WithoutPortal, CallArrays, Fewer

LEMMA LeavingFacts ==
    ASSUME NEW cs \in CallArrays, NEW path
    PROVE  /\ Leaving(cs, path) \in CallArrays
           /\ Fewer(cs, Leaving(cs, path))
           /\ NoneLive(Leaving(cs, path))
<1>1. CASE path \in Shell
  BY <1>1, OrphanedFacts DEF Leaving
<1>2. CASE path \notin Shell
  <2> DEFINE ds == WithoutPortal(cs)
  <2>1. ds \in CallArrays /\ Fewer(cs, ds)
    BY WithoutPortalFacts
  <2>2. Leaving(cs, path) = Orphaned(ds)
    BY <1>2 DEF Leaving
  <2> HIDE DEF ds
  <2>3. Orphaned(ds) \in CallArrays /\ Fewer(ds, Orphaned(ds)) /\ NoneLive(Orphaned(ds))
    BY <2>1, OrphanedFacts
  <2>4. ASSUME NEW i \in 1..MaxCalls, Orphaned(ds)[i] # NoCall
        PROVE  /\ cs[i] # NoCall
               /\ Orphaned(ds)[i] = cs[i] \/ Orphaned(ds)[i] = [cs[i] EXCEPT !.live = FALSE]
    <3>1. ds[i] # NoCall
          /\ (Orphaned(ds)[i] = ds[i] \/ Orphaned(ds)[i] = [ds[i] EXCEPT !.live = FALSE])
      BY <2>3, <2>4 DEF Fewer
    <3>2. cs[i] # NoCall /\ (ds[i] = cs[i] \/ ds[i] = [cs[i] EXCEPT !.live = FALSE])
      BY <2>1, <3>1 DEF Fewer
    <3>3. cs[i] \in Calls
      BY <3>2 DEF CallArrays
    <3>4. ds[i] = cs[i] \/ ds[i] = [cs[i] EXCEPT !.live = FALSE]
      BY <3>2
    <3>5. [[cs[i] EXCEPT !.live = FALSE] EXCEPT !.live = FALSE] = [cs[i] EXCEPT !.live = FALSE]
      BY <3>3 DEF Calls
    <3>6. CASE ds[i] = cs[i]
      BY <3>1, <3>2, <3>6
    <3>7. CASE ds[i] = [cs[i] EXCEPT !.live = FALSE]
      BY <3>1, <3>2, <3>5, <3>7
    <3> QED
      BY <3>4, <3>6, <3>7
  <2> QED
    BY <2>2, <2>3, <2>4 DEF Fewer
<1> QED
  BY <1>1, <1>2

\* Calls that were dropped or cut off are as well-formed as before, under any session
\* that keeps what a live checkout relies on.
LEMMA FewerKeeps ==
    ASSUME TypeOK, CallsInv, Fewer(calls, calls'), told \subseteq told',
           \/ NoneLive(calls')
           \/ session'.token = session.token
           \/ session'.token # None
    PROVE  CallsInv'
<1> SUFFICES ASSUME NEW i \in 1..MaxCalls, calls'[i] # NoCall PROVE CallOK(calls[i])'
  BY DEF CallsInv, InFlight
<1>1. calls[i] # NoCall
      /\ (calls'[i] = calls[i] \/ calls'[i] = [calls[i] EXCEPT !.live = FALSE])
  BY DEF Fewer
<1>2. calls[i] \in Calls /\ CallOK(calls[i])
  BY <1>1 DEF TypeOK, CallsInv, InFlight
<1>3. /\ calls'[i].kind = calls[i].kind /\ calls'[i].session = calls[i].session
      /\ calls'[i].live => calls[i].live
  BY <1>1, <1>2 DEF Calls
<1>4. calls'[i].live => session'.token = session.token \/ session'.token # None
  BY DEF NoneLive
<1> QED
  BY <1>2, <1>3, <1>4 DEF CallOK, OfAccount

\* While calls do not cross, dropping and cutting off leaves what Follows says.
LEMMA FewerFollows ==
    ASSUME TypeOK, FollowInv, Fewer(calls, calls'), crossed' = crossed, cookie' = cookie,
           session'.token = session.token
    PROVE  FollowInv'
<1> SUFFICES ASSUME ~crossed
             PROVE  /\ session'.token # None => cookie' = session'.token
                    /\ \A i, j \in InFlight' : i = j
                    /\ \A i \in InFlight' : Follows(calls[i])'
  BY DEF FollowInv
<1>1. InFlight' \subseteq InFlight
  BY DEF InFlight, Fewer
<1>2. ASSUME NEW i \in InFlight' PROVE Follows(calls[i])'
  <2>1. calls'[i] = calls[i] \/ calls'[i] = [calls[i] EXCEPT !.live = FALSE]
    BY <1>2 DEF InFlight, Fewer
  <2>2. calls[i] \in Calls /\ Follows(calls[i])
    BY <1>1, <1>2 DEF TypeOK, InFlight, FollowInv
  <2>3. calls'[i].kind = calls[i].kind /\ calls'[i].session = calls[i].session
        /\ calls'[i].at = calls[i].at
    BY <2>1, <2>2 DEF Calls
  <2> QED
    BY <2>2, <2>3 DEF Follows
<1> QED
  BY <1>1, <1>2 DEF FollowInv

\* A call that is started is well-formed and, if nothing else is in flight, goes with the
\* session in force.
LEMMA StartKeeps ==
    ASSUME TypeOK, CallsInv, FollowInv,
           NEW cs \in CallArrays, Fewer(calls, cs),
           NEW kind \in {"login", "otp", "verify", "register", "logout", "portal", "checkout"},
           NEW sess \in Sessions, NEW to \in Paths,
           Start(cs, kind, sess, to), told' = told, cookie' = cookie,
           session'.token \in {session.token, None},
           IF kind = "logout" THEN sess = Visitor
           ELSE sess.token # None /\ sess.role = RoleOf[sess.token],
           sess.entitlement = "active" => sess.token \in told,
           IF kind \in {"portal", "checkout"} THEN sess.token = session'.token
           ELSE session'.token = None,
           NoneLive(cs) \/ session'.token = session.token
    PROVE  calls' \in CallArrays /\ CallsInv' /\ FollowInv' /\ crossed' \in BOOLEAN
<1> DEFINE new == [kind |-> kind, at |-> "request", session |-> sess, to |-> to, live |-> TRUE]
<1>1. PICK i \in 1..MaxCalls : cs[i] = NoCall /\ calls' = [cs EXCEPT ![i] = new]
  BY DEF Start
<1>2. new \in Calls
  BY DEF Calls
<1>3. /\ new.kind = kind /\ new.at = "request" /\ new.session = sess /\ new.live
  OBVIOUS
<1> HIDE DEF new
<1>4. calls' \in CallArrays /\ crossed' \in BOOLEAN
  BY <1>1, <1>2 DEF CallArrays, Start, TypeOK
<1>5. calls'[i] = new /\ \A j \in 1..MaxCalls \ {i} : calls'[j] = cs[j]
  BY <1>1 DEF CallArrays
<1>6. CallsInv'
  <2> SUFFICES ASSUME NEW j \in 1..MaxCalls, calls'[j] # NoCall PROVE CallOK(calls[j])'
    BY DEF CallsInv, InFlight
  <2>1. CASE j = i
    BY <1>3, <1>5, <2>1 DEF CallOK, OfAccount
  <2>2. CASE j # i
    <3>1. calls[j] # NoCall
          /\ (calls'[j] = calls[j] \/ calls'[j] = [calls[j] EXCEPT !.live = FALSE])
      BY <1>5, <2>2 DEF Fewer
    <3>2. calls[j] \in Calls /\ CallOK(calls[j])
      BY <3>1 DEF TypeOK, CallsInv, InFlight
    <3>3. /\ calls'[j].kind = calls[j].kind /\ calls'[j].session = calls[j].session
          /\ calls'[j].live => calls[j].live
      BY <3>1, <3>2 DEF Calls
    <3>4. calls'[j].live => session'.token = session.token
      BY <1>5, <2>2 DEF NoneLive
    <3> QED
      BY <3>2, <3>3, <3>4 DEF CallOK, OfAccount
  <2> QED
    BY <2>1, <2>2
<1>7. FollowInv'
  <2> SUFFICES ASSUME ~crossed'
               PROVE  /\ session'.token # None => cookie' = session'.token
                      /\ \A j, k \in InFlight' : j = k
                      /\ \A j \in InFlight' : Follows(calls[j])'
    BY DEF FollowInv
  <2>1. ~crossed /\ \A j \in 1..MaxCalls : cs[j] = NoCall
    BY DEF Start
  <2>2. InFlight' = {i}
    BY <1>2, <1>5, <2>1, NoCallIsNone DEF InFlight
  <2>3. session'.token # None => cookie' = session'.token
    BY <2>1 DEF FollowInv
  <2>4. Follows(calls[i])'
    BY <1>3, <1>5 DEF Follows
  <2> QED
    BY <2>2, <2>3, <2>4
<1> QED
  BY <1>4, <1>6, <1>7

-----------------------------------------------------------------------------
(* The steps.                                                               *)

\* Whoever may act, and whatever is in flight, the bootstrap is done.
LEMMA Booted ==
    ASSUME IInv, resolved \/ \E i \in 1..MaxCalls : calls[i] # NoCall
    PROVE  boot.at = "done"
BY DEF IInv, BootFirst, NoCalls

LEMMA StayBooted == ASSUME boot.at = "done", boot' = boot PROVE BootFirst'
BY DEF BootFirst

LEMMA AtFacts ==
    ASSUME NEW path \in Paths
    PROVE  /\ At(path) \in [path : Paths, from : Paths, sid : Checkouts \cup {None}]
           /\ At(path).path = path
BY DEF At, Paths, Shell

\* Entries of the places the user returns to.
Locations == [path : Paths, from : Paths, sid : Checkouts \cup {None}]

LEMMA TargetType == ASSUME TypeOK, Target # None PROVE Target \in Locations
<1>1. location \in Locations /\ location.path \in Paths
  BY DEF TypeOK, Locations
<1>2. \A path \in Paths : At(path) \in Locations /\ [At("login") EXCEPT !.from = path] \in Locations
  BY DEF At, Paths, Shell, Locations
<1>3. {"dashboard", "subscription"} \subseteq Paths
  BY DEF Paths, Shell
<1> QED
  BY <1>1, <1>2, <1>3 DEF Target, SignedIn

LEMMA InitIInv == ASSUME Init PROVE IInv
<1>1. \A i \in 1..MaxCalls : calls[i] = NoCall
  BY DEF Init, NoCalls
<1>2. location \in Locations
  BY AtFacts DEF Init, Locations, Paths, Shell
<1>3. TypeOK
  <2>1. calls \in [1..MaxCalls -> Calls \cup {NoCall}]
    BY DEF Init, NoCalls
  <2>2. boot \in [at : {"refresh", "status", "done"}, user : Users \cup {None}]
    BY DEF Init
  <2>3. loads \in 1..MaxLoads
    BY SessionAssumption DEF Init
  <2> QED
    BY <1>2, <2>1, <2>2, <2>3, VisitorFacts DEF Init, TypeOK, Locations
<1>4. OneAccount /\ GrantInv
  BY VisitorFacts DEF Init, OneAccount, GrantInv, Entitlements
<1>5. BootFirst
  BY DEF Init, BootFirst
<1>6. CallsInv /\ FollowInv
  BY <1>1, VisitorFacts DEF Init, CallsInv, FollowInv, InFlight
<1> QED
  BY <1>3, <1>4, <1>5, <1>6 DEF IInv

\* Another page, the session as it is.
LEMMA MovesKeep ==
    ASSUME IInv, NEW loc \in Locations, Go(loc),
           resolved \/ \E i \in 1..MaxCalls : calls[i] # NoCall,
           calls' \in CallArrays, Fewer(calls, calls'),
           UNCHANGED <<cookie, store, boot, loads, history>>
    PROVE  IInv'
<1> USE DEF store, history
<1>1. TypeOK'
  BY DEF IInv, TypeOK, Go, Locations, CallArrays
<1>2. OneAccount' /\ GrantInv'
  BY DEF IInv, OneAccount, GrantInv, Go, Entitlements
<1>3. BootFirst'
  BY Booted, StayBooted
<1>4. CallsInv' /\ FollowInv'
  BY FewerKeeps, FewerFollows DEF IInv
<1> QED
  BY <1>1, <1>2, <1>3, <1>4 DEF IInv

LEMMA RedirectsKeep == ASSUME IInv, Redirects PROVE IInv'
<1>1. calls \in CallArrays
  BY DEF IInv, TypeOK, CallArrays
<1>2. Target \in Locations
  BY TargetType DEF IInv, Redirects
<1>3. calls' \in CallArrays /\ Fewer(calls, calls')
  BY <1>1, LeavingFacts DEF Redirects
<1> QED
  BY <1>2, <1>3, MovesKeep DEF Redirects

LEMMA NavigatesKeep == ASSUME IInv, NEW path \in Paths, Navigates(path) PROVE IInv'
<1>1. calls \in CallArrays
  BY DEF IInv, TypeOK, CallArrays
<1>2. At(path) \in Locations
  BY AtFacts DEF Locations
<1>3. calls' \in CallArrays /\ Fewer(calls, calls')
  BY <1>1, LeavingFacts DEF Navigates
<1> QED
  BY <1>2, <1>3, MovesKeep DEF Navigates, Shown

\* Documents: nothing is in flight and nobody is signed in.
LEMMA EmptyKeeps ==
    ASSUME IInv, calls' = NoCalls, session' = Visitor, resolved' = FALSE, told' = {},
           crossed' = FALSE, data' = "loading", TypeOK', boot'.at # "status"
    PROVE  IInv'
<1>1. \A i \in 1..MaxCalls : calls'[i] = NoCall
  BY DEF NoCalls
<1>2. OneAccount' /\ GrantInv' /\ BootFirst'
  BY VisitorFacts DEF OneAccount, GrantInv, BootFirst, Entitlements
<1>3. CallsInv' /\ FollowInv'
  BY <1>1, VisitorFacts DEF CallsInv, FollowInv, InFlight
<1> QED
  BY <1>2, <1>3 DEF IInv

LEMMA DroppedFacts == ASSUME TypeOK PROVE Dropped \subseteq Users \cup {None}
<1>1. \A i \in 1..MaxCalls : calls[i] # NoCall => calls[i].session.token \in Users \cup {None}
  BY DEF TypeOK, Calls, Sessions
<1> QED
  BY <1>1 DEF Dropped, TypeOK

LEMMA LoadKeeps == ASSUME IInv, NEW loc \in Locations, Load(loc) PROVE IInv'
<1>1. TypeOK'
  <2>1. calls' \in [1..MaxCalls -> Calls \cup {NoCall}]
    BY DEF Load, NoCalls
  <2>2. boot' \in [at : {"refresh", "status", "done"}, user : Users \cup {None}]
    BY DEF Load
  <2>3. loads' \in 1..MaxLoads
    BY SessionAssumption DEF Load, IInv, TypeOK
  <2>4. cookie' \in Users \cup {None}
    BY DroppedFacts DEF Load, IInv
  <2> QED
    BY <2>1, <2>2, <2>3, <2>4, VisitorFacts DEF Load, Go, Locations, IInv, TypeOK
<1> QED
  BY <1>1, EmptyKeeps DEF Load, Go

LEMMA ReloadsKeep == ASSUME IInv, Reloads PROVE IInv'
BY LoadKeeps DEF Reloads, IInv, TypeOK, Locations

LEMMA ReturnsKeep == ASSUME IInv, Returns PROVE IInv'
<1>1. \A path \in {"success", "cancel"} : At(path) \in Locations
  BY AtFacts DEF Locations, Paths
<1>2. \A s \in Checkouts : [At("success") EXCEPT !.sid = s] \in Locations
  BY <1>1 DEF Locations
<1> QED
  BY <1>1, <1>2, LoadKeeps DEF Returns

LEMMA LeavesKeep == ASSUME IInv, NEW i \in 1..MaxCalls, Leaves(i) PROVE IInv'
<1>1. calls[i].to \in Paths
  BY DEF Leaves, IInv, TypeOK, Calls
<1>2. [At("away") EXCEPT !.from = calls[i].to] \in Locations
  BY <1>1 DEF At, Locations, Paths, Shell
<1>3. TypeOK'
  BY <1>2, DroppedFacts, VisitorFacts DEF IInv, TypeOK, Leaves, Go, Locations, NoCalls
<1> QED
  BY <1>3, EmptyKeeps DEF Leaves, Go

-----------------------------------------------------------------------------
(* The bootstrap.                                                           *)

LEMMA RefreshAnswersKeeps == ASSUME IInv, RefreshAnswers PROVE IInv'
<1> USE DEF RefreshAnswers, store, history
<1>1. TypeOK'
  BY DEF IInv, TypeOK
<1>2. OneAccount' /\ GrantInv'
  BY DEF IInv, OneAccount, GrantInv
<1>3. BootFirst'
  BY DEF IInv, BootFirst
<1>4. CallsInv' /\ FollowInv'
  BY DEF IInv, CallsInv, FollowInv, InFlight, CallOK, OfAccount, Follows
<1> QED
  BY <1>1, <1>2, <1>3, <1>4 DEF IInv

\* Once the bootstrap is done, with a session of one account that was granted what it
\* says and is the cookie's.
LEMMA BootDone ==
    ASSUME IInv, calls = NoCalls, calls' = calls, data = "loading", data' = data,
           boot'.at = "done", location' = location, TypeOK', OneAccount',
           session'.entitlement = "active" => session'.token \in told',
           session'.token # None => cookie' = session'.token
    PROVE  IInv'
<1>1. \A i \in 1..MaxCalls : calls'[i] = NoCall
  BY DEF NoCalls
<1>2. BootFirst' /\ GrantInv'
  BY DEF BootFirst, GrantInv, Entitlements
<1>3. CallsInv' /\ FollowInv'
  BY <1>1 DEF CallsInv, FollowInv, InFlight
<1> QED
  BY <1>2, <1>3 DEF IInv

LEMMA RefreshFailsKeeps == ASSUME IInv, RefreshFails PROVE IInv'
<1>1. session = Visitor /\ calls = NoCalls /\ data = "loading"
  BY DEF RefreshFails, IInv, BootFirst
<1>2. session' = Visitor /\ checkoutSessionId' = None
  BY <1>1, VisitorFacts DEF RefreshFails
<1>3. TypeOK'
  BY <1>2, VisitorFacts DEF RefreshFails, IInv, TypeOK, history
<1> QED
  BY <1>1, <1>2, <1>3, VisitorFacts, BootDone DEF RefreshFails, OneAccount, history

LEMMA BootStatusKeeps == ASSUME IInv, BootStatus PROVE IInv'
<1> DEFINE u == boot.user
<1>1. calls = NoCalls /\ data = "loading" /\ u \in Users /\ cookie = u
  BY DEF BootStatus, IInv, BootFirst, TypeOK
<1>2. /\ FromToken(u) \in Sessions /\ FromToken(u).token = u /\ u # None
      /\ FromToken(u).role = RoleOf[u] /\ FromToken(u).entitlement = "none"
  BY <1>1, FromTokenFacts
<1>3. /\ session' \in Sessions /\ session'.token = u /\ session'.role = RoleOf[u]
      /\ session'.entitlement = "active" => u \in told'
      /\ told' \subseteq Users
  <2>1. CASE session' = FromToken(u) /\ UNCHANGED told
    BY <1>2, <2>1 DEF IInv, TypeOK
  <2>2. CASE \E a \in Answers(u) :
               /\ session' = [FromToken(u) EXCEPT !.entitlement = Resolved(a)]
               /\ Told(u, a)
    <3>1. PICK a \in Answers(u) :
               /\ session' = [FromToken(u) EXCEPT !.entitlement = Resolved(a)]
               /\ Told(u, a)
      BY <2>2
    <3>2. /\ Resolved(a) \in Entitlements
          /\ Resolved(a) = "active" => a.status = "active"
      BY ResolvedFacts
    <3>3. session' \in Sessions /\ session'.token = u /\ session'.role = RoleOf[u]
          /\ session'.entitlement = Resolved(a)
      BY <1>2, <3>1, <3>2 DEF Sessions
    <3> QED
      BY <1>1, <3>1, <3>2, <3>3 DEF Told, IInv, TypeOK
  <2> QED
    BY <2>1, <2>2 DEF BootStatus
<1>4. TypeOK'
  BY <1>3 DEF BootStatus, IInv, TypeOK
<1>5. OneAccount'
  BY <1>2, <1>3 DEF OneAccount
<1> HIDE DEF u
<1> QED
  BY <1>1, <1>3, <1>4, <1>5, BootDone DEF BootStatus

-----------------------------------------------------------------------------
(* Calls are started.                                                       *)

\* A form of a page for visitors.
LEMMA FormKeeps ==
    ASSUME IInv, resolved, session.token = None, NEW u \in Users, NEW to \in Paths,
           NEW kind \in {"login", "otp", "verify"}, Start(calls, kind, FromToken(u), to),
           UNCHANGED <<cookie, store, boot, loads, location, data, told>>
    PROVE  IInv'
<1> USE DEF store
<1>1. calls \in CallArrays /\ Fewer(calls, calls)
  BY DEF IInv, TypeOK, CallArrays, Fewer
<1>2. /\ FromToken(u) \in Sessions /\ FromToken(u).token = u /\ u # None
      /\ FromToken(u).role = RoleOf[u] /\ FromToken(u).entitlement = "none"
  BY FromTokenFacts
<1>3. calls' \in CallArrays /\ CallsInv' /\ FollowInv' /\ crossed' \in BOOLEAN
  <2> HIDE DEF store
  <2>1. told' = told /\ cookie' = cookie /\ session' = session
    BY DEF store
  <2> QED
    BY <1>1, <1>2, <2>1, StartKeeps DEF IInv
<1>4. TypeOK'
  BY <1>3 DEF IInv, TypeOK, CallArrays
<1>5. OneAccount' /\ GrantInv'
  BY DEF IInv, OneAccount, GrantInv
<1> QED
  BY <1>3, <1>4, <1>5, Booted, StayBooted DEF IInv

LEMMA VisitorPages ==
    ASSUME IInv, Shown, location.path \in {"login", "signup", "verify"}
    PROVE  session.token = None
<1>1. session.role = "visitor"
  <2>1. At("dashboard") # None
    BY AtFacts, LocationAssumption DEF Paths, Shell
  <2> QED
    BY <2>1 DEF Shown, Target, Shell, SignedIn
<1>2. session.token \in Users => RoleOf[session.token] # "visitor"
  BY SessionAssumption
<1> QED
  BY <1>1, <1>2 DEF IInv, OneAccount, TypeOK, Sessions

LEMMA FormsKeep == ASSUME IInv, NEW u \in Users, Login(u) \/ SendOtp(u) \/ Verify(u) PROVE IInv'
<1>1. resolved /\ session.token = None
  BY VisitorPages DEF Login, SendOtp, Verify, Shown
<1>2. location.from \in Paths /\ "dashboard" \in Paths
  BY DEF IInv, TypeOK, Paths, Shell
<1> QED
  BY <1>1, <1>2, FormKeeps DEF Login, SendOtp, Verify

LEMMA LogoutKeeps == ASSUME IInv, Logout PROVE IInv'
<1> DEFINE cs == Leaving(calls, "login")
<1>1. cs \in CallArrays /\ Fewer(calls, cs) /\ NoneLive(cs)
  <2>1. calls \in CallArrays
    BY DEF IInv, TypeOK, CallArrays
  <2> QED
    BY <2>1, LeavingFacts
<1>2. Start(cs, "logout", Visitor, "login")
  BY DEF Logout
<1> HIDE DEF cs
<1>3. session' = Visitor /\ told' = told /\ cookie' = cookie /\ checkoutSessionId' = None
  BY DEF Logout, Cleared
<1>4. calls' \in CallArrays /\ CallsInv' /\ FollowInv' /\ crossed' \in BOOLEAN
  <2>1. "login" \in Paths /\ Visitor.entitlement # "active"
    BY VisitorFacts DEF Paths
  <2> QED
    BY <1>1, <1>2, <1>3, <2>1, VisitorFacts, StartKeeps DEF IInv
<1>5. location' \in Locations /\ data' = "loading"
  <2>1. PICK from \in {"dashboard"} \cup (IF Required(location.path) > 0
                                         THEN {location.path} ELSE {}) :
               Go([At("login") EXCEPT !.from = from])
    BY DEF Logout
  <2>2. from \in Paths
    BY <2>1 DEF IInv, TypeOK, Paths, Shell
  <2>3. At("login") \in Locations
    BY AtFacts DEF Locations, Paths
  <2> QED
    BY <2>1, <2>2, <2>3 DEF Go, Locations
<1>6. TypeOK'
  BY <1>3, <1>4, <1>5, VisitorFacts DEF Logout, IInv, TypeOK, CallArrays, Locations
<1>7. OneAccount' /\ GrantInv'
  BY <1>3, <1>5, VisitorFacts DEF OneAccount, GrantInv, Entitlements
<1>8. BootFirst'
  BY Booted, StayBooted DEF Logout, Shown
<1> QED
  BY <1>4, <1>6, <1>7, <1>8 DEF IInv

\* A request of who is signed in.
LEMMA RequestKeeps ==
    ASSUME IInv, resolved, session.token # None,
           NEW cs \in CallArrays, Fewer(calls, cs),
           NEW sess \in Sessions, sess.token = session.token, sess.role = session.role,
           sess.entitlement = "active" => session.token \in told,
           NEW kind \in {"portal", "checkout"}, NEW to \in Paths, Start(cs, kind, sess, to),
           UNCHANGED <<cookie, store, boot, loads, location, data, told>>
    PROVE  IInv'
<1>1. session' = session /\ told' = told /\ cookie' = cookie
  BY DEF store
<1>2. sess.role = RoleOf[sess.token]
  BY DEF IInv, OneAccount
<1>3. calls' \in CallArrays /\ CallsInv' /\ FollowInv' /\ crossed' \in BOOLEAN
  BY <1>1, <1>2, StartKeeps DEF IInv
<1>4. TypeOK'
  BY <1>3 DEF IInv, TypeOK, CallArrays, store
<1>5. OneAccount' /\ GrantInv'
  BY DEF IInv, OneAccount, GrantInv, store
<1>6. BootFirst'
  BY Booted, StayBooted
<1> QED
  BY <1>3, <1>4, <1>5, <1>6 DEF IInv

LEMMA OpenPortalKeeps == ASSUME IInv, OpenPortal PROVE IInv'
<1>1. WithoutPortal(calls) \in CallArrays /\ Fewer(calls, WithoutPortal(calls))
  BY WithoutPortalFacts DEF IInv, TypeOK, CallArrays
<1>2. session \in Sessions /\ (session.entitlement = "active" => session.token \in told)
  BY DEF IInv, TypeOK, GrantInv
<1>3. "success" \in Paths
  BY DEF Paths
<1> QED
  BY <1>1, <1>2, <1>3, RequestKeeps DEF OpenPortal, Shown

LEMMA CheckoutKeeps == ASSUME IInv, Checkout PROVE IInv'
<1>1. calls \in CallArrays /\ Fewer(calls, calls)
  BY DEF IInv, TypeOK, CallArrays, Fewer
<1>2. CASE session.token = None
  <2>1. [At("login") EXCEPT !.from = "subscription"] \in Locations
    BY DEF At, Locations, Paths, Shell
  <2> QED
    BY <1>1, <1>2, <2>1, MovesKeep DEF Checkout, Shown, history
<1>3. CASE session.token # None
  <2> DEFINE sess == [session EXCEPT !.entitlement = CurrentStatus]
  <2>1. CurrentStatus \in Entitlements /\ CurrentStatus # "active"
    BY DEF CurrentStatus, IInv, TypeOK, Sessions, Checkout
  <2>2. sess \in Sessions /\ sess.token = session.token /\ sess.role = session.role
        /\ sess.entitlement # "active"
    BY <2>1 DEF IInv, TypeOK, Sessions
  <2>3. Start(calls, "checkout", sess, "away") /\ resolved /\ "away" \in Paths
        /\ UNCHANGED <<cookie, store, boot, loads, location, data, told>>
    BY <1>3 DEF Checkout, Shown, Paths
  <2> HIDE DEF sess
  <2> QED
    BY <1>1, <1>3, <2>2, <2>3, RequestKeeps
<1> QED
  BY <1>2, <1>3

-----------------------------------------------------------------------------
(* Calls are answered.                                                      *)

\* One call becomes c, which suits the session.
LEMMA ChangeKeeps ==
    ASSUME TypeOK, CallsInv, FollowInv, NEW i \in 1..MaxCalls, calls[i] # NoCall,
           NEW c \in Calls \cup {NoCall}, calls' = [calls EXCEPT ![i] = c],
           told \subseteq told', session'.token = session.token \/ session'.token # None,
           crossed' = crossed,
           c # NoCall => /\ OfAccount(c)
                         /\ c.session.entitlement = "active" => c.session.token \in told'
                         /\ c.live /\ c.kind = "checkout" => session'.token # None,
           ~crossed => /\ session'.token # None => cookie' = session'.token
                       /\ c # NoCall =>
                            /\ IF c.kind \in {"portal", "checkout"}
                               THEN c.session.token = session'.token
                               ELSE session'.token = None
                            /\ c.at = "status" => cookie' = c.session.token
    PROVE  calls' \in CallArrays /\ CallsInv' /\ FollowInv'
<1>1. calls' \in CallArrays /\ calls'[i] = c
      /\ \A j \in 1..MaxCalls \ {i} : calls'[j] = calls[j]
  BY DEF TypeOK, CallArrays
<1>2. CallsInv'
  <2> SUFFICES ASSUME NEW j \in 1..MaxCalls, calls'[j] # NoCall PROVE CallOK(calls[j])'
    BY DEF CallsInv, InFlight
  <2>1. CASE j = i
    BY <1>1, <2>1 DEF CallOK, OfAccount
  <2>2. CASE j # i
    <3>1. calls'[j] = calls[j] /\ CallOK(calls[j])
      BY <1>1, <2>2 DEF CallsInv, InFlight
    <3> QED
      BY <3>1 DEF CallOK, OfAccount
  <2> QED
    BY <2>1, <2>2
<1>3. FollowInv'
  <2> SUFFICES ASSUME ~crossed
               PROVE  /\ session'.token # None => cookie' = session'.token
                      /\ \A j, k \in InFlight' : j = k
                      /\ \A j \in InFlight' : Follows(calls[j])'
    BY DEF FollowInv
  <2>1. \A j \in InFlight' : j = i
    BY <1>1 DEF FollowInv, InFlight
  <2>2. i \in InFlight' => c # NoCall
    BY <1>1 DEF InFlight
  <2>3. i \in InFlight' => Follows(calls[i])'
    BY <1>1, <2>2 DEF Follows
  <2> QED
    BY <2>1, <2>3
<1> QED
  BY <1>1, <1>2, <1>3

\* A call changes, the store, the page and what was granted do not.
LEMMA AnswerKeeps ==
    ASSUME IInv, NEW i \in 1..MaxCalls, calls[i] # NoCall,
           calls' \in CallArrays, CallsInv', FollowInv', cookie' \in Users \cup {None},
           UNCHANGED <<store, boot, loads, location, data, history>>
    PROVE  IInv'
<1>1. TypeOK'
  BY DEF IInv, TypeOK, CallArrays, store, history
<1>2. OneAccount' /\ GrantInv'
  BY DEF IInv, OneAccount, GrantInv, store, history
<1> QED
  BY <1>1, <1>2, Booted, StayBooted DEF IInv

LEMMA OtpSentKeeps == ASSUME IInv, NEW i \in 1..MaxCalls, OtpSent(i) PROVE IInv'
<1> DEFINE cs == Leaving(calls, "verify")
<1>1. cs \in CallArrays /\ Fewer(calls, cs)
  BY LeavingFacts DEF IInv, TypeOK, CallArrays
<1>2. calls' = [cs EXCEPT ![i] = NoCall]
  BY DEF OtpSent
<1> HIDE DEF cs
<1>3. calls' \in CallArrays /\ Fewer(calls, calls')
  BY <1>1, <1>2 DEF CallArrays, Fewer
<1>4. At("verify") \in Locations
  BY AtFacts DEF Locations, Paths
<1> QED
  BY <1>3, <1>4, MovesKeep DEF OtpSent

LEMMA VerifiedKeeps == ASSUME IInv, NEW i \in 1..MaxCalls, Verified(i) PROVE IInv'
<1> DEFINE c == [calls[i] EXCEPT !.kind = "register"]
<1>1. calls[i] \in Calls /\ calls[i] # NoCall /\ calls[i].kind = "verify" /\ CallOK(calls[i])
  BY DEF Verified, IInv, TypeOK, CallsInv, InFlight
<1>2. /\ c \in Calls /\ c.kind = "register" /\ c.session = calls[i].session
      /\ c.at = calls[i].at
  BY <1>1 DEF Calls
<1>3. calls' = [calls EXCEPT ![i] = c]
  BY DEF Verified
<1>4. ~crossed => Follows(calls[i]) /\ (session.token # None => cookie = session.token)
  BY <1>1 DEF IInv, FollowInv, InFlight
<1> HIDE DEF c
<1>5. OfAccount(c) /\ (c.session.entitlement = "active" => c.session.token \in told)
  BY <1>1, <1>2 DEF CallOK, OfAccount
<1>6. ~crossed => session.token = None /\ (c.at = "status" => cookie = c.session.token)
  BY <1>1, <1>2, <1>4 DEF Follows
<1>7. calls' \in CallArrays /\ CallsInv' /\ FollowInv'
  BY <1>1, <1>2, <1>3, <1>4, <1>5, <1>6, ChangeKeeps DEF IInv, Verified, store, history
<1> QED
  BY <1>1, <1>7, AnswerKeeps DEF Verified, IInv, TypeOK

LEMMA AuthenticatedKeeps == ASSUME IInv, NEW i \in 1..MaxCalls, Authenticated(i) PROVE IInv'
<1> DEFINE c == [calls[i] EXCEPT !.at = "status"]
<1>1. /\ calls[i] \in Calls /\ calls[i] # NoCall /\ CallOK(calls[i])
      /\ calls[i].kind \in {"login", "register"}
  BY DEF Authenticated, IInv, TypeOK, CallsInv, InFlight
<1>2. c \in Calls /\ c.kind = calls[i].kind /\ c.session = calls[i].session
  BY <1>1 DEF Calls
<1>3. calls' = [calls EXCEPT ![i] = c] /\ cookie' = c.session.token
  BY <1>2 DEF Authenticated
<1>4. ~crossed => Follows(calls[i])
  BY <1>1 DEF IInv, FollowInv, InFlight
<1> HIDE DEF c
<1>5. OfAccount(c) /\ (c.session.entitlement = "active" => c.session.token \in told)
  BY <1>1, <1>2 DEF CallOK, OfAccount
<1>6. ~crossed => session.token = None
  BY <1>1, <1>4 DEF Follows
<1>7. calls' \in CallArrays /\ CallsInv' /\ FollowInv'
  BY <1>1, <1>2, <1>3, <1>5, <1>6, ChangeKeeps DEF IInv, Authenticated, store, history
<1>8. cookie' \in Users \cup {None}
  BY <1>2, <1>3 DEF Calls, Sessions
<1> QED
  BY <1>1, <1>7, <1>8, AnswerKeeps DEF Authenticated

LEMMA CallFailsKeeps == ASSUME IInv, NEW i \in 1..MaxCalls, CallFails(i) PROVE IInv'
<1>1. Fewer(calls, calls') /\ calls' \in CallArrays
  BY DEF CallFails, IInv, TypeOK, CallArrays, Fewer
<1>2. CallsInv' /\ FollowInv'
  BY <1>1, FewerKeeps, FewerFollows DEF IInv, CallFails, store, history
<1> QED
  BY <1>1, <1>2, AnswerKeeps DEF CallFails, IInv, TypeOK

\* The cookie goes with the logout: unless calls crossed, nobody is signed in.
LEMMA LogoutAnswersKeeps == ASSUME IInv, NEW i \in 1..MaxCalls, LogoutAnswers(i) PROVE IInv'
<1>1. calls[i] # NoCall /\ calls[i].kind = "logout"
  BY DEF LogoutAnswers
<1>2. ~crossed => session.token = None
  BY <1>1 DEF IInv, FollowInv, InFlight, Follows
<1>3. calls' \in CallArrays /\ CallsInv' /\ FollowInv'
  BY <1>1, <1>2, ChangeKeeps DEF IInv, LogoutAnswers, store, history
<1> QED
  BY <1>1, <1>3, AnswerKeeps DEF LogoutAnswers

LEMMA PortalOpensKeeps == ASSUME IInv, NEW i \in 1..MaxCalls, PortalOpens(i) PROVE IInv'
<1> DEFINE c == [calls[i] EXCEPT !.at = "leaving"]
<1>1. /\ calls[i] \in Calls /\ calls[i] # NoCall /\ CallOK(calls[i])
      /\ calls[i].kind = "portal"
  BY DEF PortalOpens, IInv, TypeOK, CallsInv, InFlight
<1>2. c \in Calls /\ c.kind = "portal" /\ c.session = calls[i].session /\ c.at = "leaving"
  BY <1>1 DEF Calls
<1>3. calls' = [calls EXCEPT ![i] = c]
  BY DEF PortalOpens
<1>4. ~crossed => Follows(calls[i]) /\ (session.token # None => cookie = session.token)
  BY <1>1 DEF IInv, FollowInv, InFlight
<1> HIDE DEF c
<1>5. OfAccount(c) /\ (c.session.entitlement = "active" => c.session.token \in told)
  BY <1>1, <1>2 DEF CallOK, OfAccount
<1>6. ~crossed => c.session.token = session.token
  BY <1>1, <1>2, <1>4 DEF Follows
<1>7. calls' \in CallArrays /\ CallsInv' /\ FollowInv'
  BY <1>1, <1>2, <1>3, <1>4, <1>5, <1>6, ChangeKeeps DEF IInv, PortalOpens, store, history
<1> QED
  BY <1>1, <1>7, AnswerKeeps DEF PortalOpens, IInv, TypeOK

\* The session the checkout's page shows, if it is up, has a token.
LEMMA CheckoutAnswersKeeps ==
    ASSUME IInv, NEW i \in 1..MaxCalls, CheckoutAnswers(i) PROVE IInv'
<1> DEFINE sess == IF calls[i].live THEN [session EXCEPT !.entitlement = CurrentStatus]
                   ELSE calls[i].session
           c == [calls[i] EXCEPT !.at = "status", !.session = sess]
<1>1. /\ calls[i] \in Calls /\ calls[i] # NoCall /\ CallOK(calls[i])
      /\ calls[i].kind = "checkout"
  BY DEF CheckoutAnswers, IInv, TypeOK, CallsInv, InFlight
<1>2. /\ sess \in Sessions /\ sess.token # None /\ sess.role = RoleOf[sess.token]
      /\ sess.entitlement = "active" => sess.token \in told
  <2>1. CASE ~calls[i].live
    BY <1>1, <2>1 DEF Calls, CallOK, OfAccount
  <2>2. CASE calls[i].live
    <3>1. session \in Sessions /\ session.token # None /\ session.role = RoleOf[session.token]
      BY <1>1, <2>2 DEF CallOK, IInv, TypeOK, OneAccount
    <3>2. CurrentStatus \in Entitlements /\ (CurrentStatus = "active" => session.token \in told)
      BY <3>1 DEF CurrentStatus, Sessions, IInv, GrantInv
    <3>3. sess = [session EXCEPT !.entitlement = CurrentStatus]
      BY <2>2
    <3> QED
      BY <3>1, <3>2, <3>3 DEF Sessions
  <2> QED
    BY <2>1, <2>2
<1>3. ~crossed => Follows(calls[i]) /\ (session.token # None => cookie = session.token)
  BY <1>1 DEF IInv, FollowInv, InFlight
<1>4. ~crossed => sess.token = session.token
  <2>1. CASE calls[i].live
    BY <2>1 DEF IInv, TypeOK, Sessions
  <2>2. CASE ~calls[i].live
    BY <1>1, <1>3, <2>2 DEF Follows
  <2> QED
    BY <2>1, <2>2
<1>5. calls' = [calls EXCEPT ![i] = c]
  BY <1>1 DEF CheckoutAnswers, IInv, TypeOK, Calls
<1> HIDE DEF sess
<1>6. /\ c \in Calls /\ c.kind = "checkout" /\ c.session = sess /\ c.live = calls[i].live
  BY <1>1, <1>2 DEF Calls
<1> HIDE DEF c
<1>7. /\ OfAccount(c) /\ (c.session.entitlement = "active" => c.session.token \in told)
      /\ c.live => session.token # None
  BY <1>1, <1>2, <1>6 DEF CallOK, OfAccount
<1>8. calls' \in CallArrays /\ CallsInv' /\ FollowInv'
  <2>1. session' = session /\ told' = told /\ crossed' = crossed /\ cookie' = cookie
    BY DEF CheckoutAnswers, history
  <2> QED
    BY <1>1, <1>2, <1>3, <1>4, <1>5, <1>6, <1>7, <2>1, ChangeKeeps DEF IInv
<1>9. TypeOK'
  BY <1>8 DEF CheckoutAnswers, IInv, TypeOK, CallArrays, history
<1>10. OneAccount' /\ GrantInv'
  BY DEF CheckoutAnswers, IInv, OneAccount, GrantInv, history
<1>11. BootFirst'
  BY <1>1, Booted, StayBooted DEF CheckoutAnswers
<1> QED
  BY <1>8, <1>9, <1>10, <1>11 DEF IInv

-----------------------------------------------------------------------------
(* The session is set.                                                      *)

\* A session of one account, brought up to date by a billing answer or left as it is.
LEMMA SetFacts ==
    ASSUME TypeOK, NEW s \in Sessions, s.token # None, s.role = RoleOf[s.token],
           s.entitlement = "active" => s.token \in told,
           \/ \E a \in Answers(s.token) :
                  session' = [s EXCEPT !.entitlement = Resolved(a)] /\ Told(s.token, a)
           \/ session' = s /\ UNCHANGED told
    PROVE  /\ session' \in Sessions /\ session'.token = s.token /\ OneAccount'
           /\ session'.entitlement = "active" => session'.token \in told'
           /\ told \subseteq told' /\ told' \subseteq Users
<1>1. CASE session' = s /\ UNCHANGED told
  BY <1>1 DEF OneAccount, TypeOK
<1>2. CASE \E a \in Answers(s.token) :
              session' = [s EXCEPT !.entitlement = Resolved(a)] /\ Told(s.token, a)
  <2>1. PICK a \in Answers(s.token) :
              session' = [s EXCEPT !.entitlement = Resolved(a)] /\ Told(s.token, a)
    BY <1>2
  <2>2. Resolved(a) \in Entitlements /\ (Resolved(a) = "active" => a.status = "active")
    BY ResolvedFacts
  <2>3. /\ session' \in Sessions /\ session'.token = s.token /\ session'.role = s.role
        /\ session'.entitlement = Resolved(a)
    BY <2>1, <2>2 DEF Sessions
  <2>4. s.token \in Users
    BY DEF Sessions
  <2> QED
    BY <2>1, <2>2, <2>3, <2>4 DEF OneAccount, Told, TypeOK
<1> QED
  BY <1>1, <1>2

LEMMA SignsInKeeps == ASSUME IInv, NEW i \in 1..MaxCalls, SignsIn(i) PROVE IInv'
<1> DEFINE s == calls[i].session
           cs == Leaving(calls, calls[i].to)
<1>1. /\ calls[i] \in Calls /\ calls[i] # NoCall /\ CallOK(calls[i])
      /\ calls[i].kind \in {"login", "register"} /\ calls[i].at = "status"
  BY DEF SignsIn, IInv, TypeOK, CallsInv, InFlight
<1>2. s \in Sessions /\ s.token # None /\ s.role = RoleOf[s.token]
      /\ (s.entitlement = "active" => s.token \in told)
  BY <1>1 DEF Calls, CallOK, OfAccount
<1>3. /\ session' \in Sessions /\ session'.token = s.token /\ OneAccount'
      /\ session'.entitlement = "active" => session'.token \in told'
      /\ told \subseteq told' /\ told' \subseteq Users
  <2>1. \/ \E a \in Answers(s.token) :
               session' = [s EXCEPT !.entitlement = Resolved(a)] /\ Told(s.token, a)
        \/ session' = s /\ UNCHANGED told
    BY DEF SignsIn
  <2> HIDE DEF s
  <2> QED
    BY <1>2, <2>1, SetFacts DEF IInv
<1>4. cs \in CallArrays /\ Fewer(calls, cs)
  BY LeavingFacts DEF IInv, TypeOK, CallArrays
<1>5. calls' = [cs EXCEPT ![i] = NoCall]
  BY DEF SignsIn
<1>6. ~crossed => cookie = s.token /\ \A j \in 1..MaxCalls : calls[j] # NoCall => j = i
  BY <1>1 DEF IInv, FollowInv, InFlight, Follows
<1>7. At(calls[i].to) \in Locations
  BY <1>1, AtFacts DEF Locations, Calls
<1>8. location' \in Locations /\ data' = "loading" /\ cookie' = cookie
      /\ crossed' = crossed /\ boot' = boot /\ resolved' = TRUE
      /\ checkoutSessionId' = checkoutSessionId /\ loads' = loads
  BY <1>7 DEF SignsIn, Go
<1> HIDE DEF s, cs
<1>9. calls' \in CallArrays /\ Fewer(calls, calls') /\ calls'[i] = NoCall
  BY <1>4, <1>5 DEF CallArrays, Fewer
<1>10. TypeOK'
  BY <1>3, <1>8, <1>9 DEF IInv, TypeOK, CallArrays, Locations
<1>11. CallsInv'
  BY <1>2, <1>3, <1>9, FewerKeeps DEF IInv
<1>12. FollowInv'
  <2>1. ~crossed => \A j \in 1..MaxCalls : calls'[j] = NoCall
    BY <1>6, <1>9 DEF Fewer
  <2> QED
    BY <1>3, <1>6, <1>8, <2>1 DEF FollowInv, InFlight
<1>13. GrantInv' /\ BootFirst'
  BY <1>1, <1>3, <1>8, Booted, StayBooted DEF GrantInv, Entitlements
<1> QED
  BY <1>3, <1>10, <1>11, <1>12, <1>13 DEF IInv

\* The checkout's continuation puts back the whole session it captured, so token and role
\* stay of one account even when another is signed in by then.
LEMMA CheckoutSettlesKeeps ==
    ASSUME IInv, NEW i \in 1..MaxCalls, CheckoutSettles(i) PROVE IInv'
<1> DEFINE s == calls[i].session
           c == [calls[i] EXCEPT !.at = "leaving"]
<1>1. /\ calls[i] \in Calls /\ calls[i] # NoCall /\ CallOK(calls[i])
      /\ calls[i].kind = "checkout" /\ calls[i].at = "status"
  BY DEF CheckoutSettles, IInv, TypeOK, CallsInv, InFlight
<1>2. s \in Sessions /\ s.token # None /\ s.role = RoleOf[s.token]
      /\ (s.entitlement = "active" => s.token \in told)
  BY <1>1 DEF Calls, CallOK, OfAccount
<1>3. /\ session' \in Sessions /\ session'.token = s.token /\ OneAccount'
      /\ session'.entitlement = "active" => session'.token \in told'
      /\ told \subseteq told' /\ told' \subseteq Users
  <2>1. \/ \E a \in Answers(s.token) :
               session' = [s EXCEPT !.entitlement = Resolved(a)] /\ Told(s.token, a)
        \/ session' = [s EXCEPT !.entitlement = s.entitlement] /\ UNCHANGED told
    BY DEF CheckoutSettles, Renewed
  <2> HIDE DEF s
  <2>2. [s EXCEPT !.entitlement = s.entitlement] = s
    BY <1>2 DEF Sessions
  <2> QED
    BY <1>2, <2>1, <2>2, SetFacts DEF IInv
<1>4. ~crossed => /\ s.token = session.token /\ cookie = s.token
  BY <1>1 DEF IInv, FollowInv, InFlight, Follows
<1>5. c \in Calls /\ c.kind = "checkout" /\ c.session = s /\ c.at = "leaving"
  BY <1>1 DEF Calls
<1>6. /\ calls' = [calls EXCEPT ![i] = c] /\ cookie' = cookie /\ crossed' = crossed
      /\ boot' = boot /\ location' = location /\ resolved' = TRUE
      /\ checkoutSessionId' = checkoutSessionId /\ loads' = loads
      /\ data' = IF session'.token = session.token THEN data ELSE "loading"
  BY DEF CheckoutSettles
<1> HIDE DEF s, c
<1>7. OfAccount(c) /\ (c.session.entitlement = "active" => c.session.token \in told')
  BY <1>2, <1>3, <1>5 DEF OfAccount
<1>8. calls' \in CallArrays /\ CallsInv' /\ FollowInv'
  BY <1>1, <1>2, <1>3, <1>4, <1>5, <1>6, <1>7, ChangeKeeps DEF IInv
<1>9. TypeOK'
  BY <1>3, <1>6, <1>8 DEF IInv, TypeOK, CallArrays
<1>10. GrantInv'
  BY <1>3, <1>6 DEF IInv, GrantInv, Entitlements
<1>11. BootFirst'
  BY <1>1, <1>6, Booted, StayBooted
<1> QED
  BY <1>3, <1>8, <1>9, <1>10, <1>11 DEF IInv

LEMMA StatusLoadsKeeps == ASSUME IInv, StatusLoads PROVE IInv'
<1> DEFINE u == session.token
<1>1. u \in Users /\ location.path = "subscription" /\ resolved
  BY DEF StatusLoads, Shown, IInv, TypeOK, Sessions
<1>2. PICK a \in Answers(u) : data' = a.status /\ Told(u, a)
  BY DEF StatusLoads
<1>3. a.status \in Entitlements
  BY ResolvedFacts
<1>4. told \subseteq told' /\ told' \subseteq Users /\ (data' = "active" => u \in told')
  BY <1>1, <1>2 DEF Told, IInv, TypeOK
<1> HIDE DEF u
<1>5. TypeOK'
  BY <1>2, <1>3, <1>4 DEF StatusLoads, IInv, TypeOK, store
<1>6. OneAccount'
  BY DEF StatusLoads, IInv, OneAccount, store
<1>7. GrantInv'
  BY <1>1, <1>4 DEF u, StatusLoads, IInv, GrantInv, store
<1>8. BootFirst'
  BY <1>1, Booted, StayBooted DEF StatusLoads
<1>9. Fewer(calls, calls') /\ session' = session /\ cookie' = cookie /\ crossed' = crossed
  BY DEF StatusLoads, Fewer, store
<1>10. CallsInv' /\ FollowInv'
  BY <1>4, <1>9, FewerKeeps, FewerFollows DEF IInv
<1> QED
  BY <1>5, <1>6, <1>7, <1>8, <1>10 DEF IInv

LEMMA KeepsIdKeeps == ASSUME IInv, KeepsId PROVE IInv'
<1>1. TypeOK'
  BY DEF KeepsId, IInv, TypeOK, history
<1>2. OneAccount' /\ GrantInv' /\ BootFirst'
  BY DEF KeepsId, IInv, OneAccount, GrantInv, BootFirst, history
<1>3. Fewer(calls, calls') /\ session' = session /\ UNCHANGED <<cookie, told, crossed>>
  BY DEF KeepsId, Fewer, history
<1>4. CallsInv' /\ FollowInv'
  BY <1>3, FewerKeeps, FewerFollows DEF IInv
<1> QED
  BY <1>1, <1>2, <1>4 DEF IInv

LEMMA AsksResultKeeps == ASSUME IInv, AsksResult PROVE IInv'
<1>1. TypeOK'
  BY DEF AsksResult, IInv, TypeOK, store, history
<1>2. OneAccount' /\ GrantInv'
  BY DEF AsksResult, IInv, OneAccount, GrantInv, Entitlements, store, history
<1>3. BootFirst'
  BY Booted, StayBooted DEF AsksResult, Shown
<1>4. Fewer(calls, calls') /\ session' = session /\ UNCHANGED <<cookie, told, crossed>>
  BY DEF AsksResult, Fewer, store, history
<1>5. CallsInv' /\ FollowInv'
  BY <1>4, FewerKeeps, FewerFollows DEF IInv
<1> QED
  BY <1>1, <1>2, <1>3, <1>5 DEF IInv

LEMMA SyncsResultKeeps == ASSUME IInv, SyncsResult PROVE IInv'
<1>1. location.path \in {"success", "cancel"} /\ resolved
  BY DEF SyncsResult, Shown
<1>2. session.token # None
  <2>1. At("dashboard") # None
    BY AtFacts, LocationAssumption DEF Paths, Shell
  <2> QED
    BY <1>1, <2>1 DEF SyncsResult, Shown, Target, Shell
<1>3. session \in Sessions /\ session.role = RoleOf[session.token]
      /\ (session.entitlement = "active" => session.token \in told)
  BY <1>2 DEF IInv, TypeOK, OneAccount, GrantInv
<1>4. \E a \in Answers(session.token) :
         session' = [session EXCEPT !.entitlement = Resolved(a)] /\ Told(session.token, a)
  BY DEF SyncsResult
<1>5. /\ session' \in Sessions /\ session'.token = session.token /\ OneAccount'
      /\ session'.entitlement = "active" => session'.token \in told'
      /\ told \subseteq told' /\ told' \subseteq Users
  BY <1>2, <1>3, <1>4, SetFacts DEF IInv
<1>6. TypeOK'
  BY <1>5 DEF SyncsResult, IInv, TypeOK
<1>7. GrantInv' /\ BootFirst'
  BY <1>1, <1>5, Booted, StayBooted DEF SyncsResult, GrantInv, Entitlements
<1>8. Fewer(calls, calls') /\ UNCHANGED <<cookie, crossed>>
  BY DEF SyncsResult, Fewer
<1>9. CallsInv' /\ FollowInv'
  BY <1>5, <1>8, FewerKeeps, FewerFollows DEF IInv
<1> QED
  BY <1>5, <1>6, <1>7, <1>9 DEF IInv

-----------------------------------------------------------------------------
(* Theorems.                                                                *)

LEMMA StutterKeeps == ASSUME IInv, UNCHANGED vars PROVE IInv'
<1> USE DEF vars, store, history
<1>1. TypeOK'
  BY DEF IInv, TypeOK
<1>2. OneAccount' /\ GrantInv' /\ BootFirst'
  BY DEF IInv, OneAccount, GrantInv, BootFirst
<1>3. Fewer(calls, calls')
  BY DEF Fewer
<1>4. CallsInv' /\ FollowInv'
  <2>1. session' = session /\ UNCHANGED <<cookie, told, crossed>>
    OBVIOUS
  <2> QED
    BY <1>3, <2>1, FewerKeeps, FewerFollows DEF IInv
<1> QED
  BY <1>1, <1>2, <1>4 DEF IInv

LEMMA StepKeepsIInv == ASSUME IInv, [Next]_vars PROVE IInv'
<1>1. CASE BootStep
  BY <1>1, RefreshAnswersKeeps, RefreshFailsKeeps, BootStatusKeeps DEF BootStep
<1>2. CASE Redirects
  BY <1>2, RedirectsKeep
<1>3. CASE UserStep
  BY <1>3, NavigatesKeep, FormsKeep, LogoutKeeps, OpenPortalKeeps, CheckoutKeeps,
     ReloadsKeep, ReturnsKeep DEF UserStep
<1>4. CASE Answer
  BY <1>4, OtpSentKeeps, VerifiedKeeps, AuthenticatedKeeps, SignsInKeeps, CallFailsKeeps,
     LogoutAnswersKeeps, PortalOpensKeeps, CheckoutAnswersKeeps, CheckoutSettlesKeeps,
     LeavesKeep, StatusLoadsKeeps, KeepsIdKeeps, AsksResultKeeps, SyncsResultKeeps DEF Answer
<1>5. CASE UNCHANGED vars
  BY <1>5, StutterKeeps
<1> QED
  BY <1>1, <1>2, <1>3, <1>4, <1>5 DEF Next

LEMMA SpecIInv == Spec => []IInv
<1>1. Init => IInv
  BY InitIInv
<1>2. IInv /\ [Next]_vars => IInv'
  BY StepKeepsIInv
<1> QED
  BY <1>1, <1>2, PTL DEF Spec

\* The store holds the token and the role of one account, whichever of the login, the
\* bootstrap, the checkout's continuation and the result page wrote it last
\* (auth-store.ts, SubscriptionPage.tsx).
THEOREM AccountCorrect == Spec => []OneAccount
BY SpecIInv, PTL DEF IInv

\* Every variable keeps its type: a session has a token and a role or neither, and a call its
\* caller's document, however many continuations write the store (auth-store.ts, bootstrap.ts).
THEOREM TypeCorrect == Spec => []TypeOK
BY SpecIInv, PTL DEF IInv

\* The gated pages show their content only to who was told in this document that he is
\* entitled, or to an administrator (GuardedRoute.tsx, entitlement.ts).
THEOREM GrantCorrect == Spec => []ContentWasGranted
<1>1. IInv => ContentWasGranted
  <2> SUFFICES ASSUME IInv, Shown, location.path = "gated"
               PROVE  session.token # None
                      /\ (RoleOf[session.token] = "admin" \/ session.token \in told)
    BY DEF ContentWasGranted
  <2>1. \A path \in {"login", "subscription"} : At(path) # None
    BY AtFacts, LocationAssumption DEF Paths
  <2>2. [At("login") EXCEPT !.from = "gated"] # None
    <3>1. [At("login") EXCEPT !.from = "gated"]
             \in [path : Paths, from : Paths, sid : Checkouts \cup {None}]
      BY DEF At, Paths, Shell
    <3> QED
      BY <3>1, LocationAssumption
  <2>3. session.role \in {"visitor", "member", "admin"}
    BY DEF IInv, TypeOK, Sessions
  <2>4. session.role # "visitor"
    BY <2>2 DEF Shown, Target, Shell, Rank, Required
  <2>5. session.entitlement = "active" \/ session.role = "admin"
    BY <2>1, <2>3, <2>4 DEF Shown, Target, Shell, Rank, Required
  <2>6. session.token # None /\ session.role = RoleOf[session.token]
    BY <2>4, VisitorFacts DEF IInv, OneAccount
  <2> QED
    BY <2>5, <2>6 DEF IInv, GrantInv
<1> QED
  BY <1>1, SpecIInv, PTL

\* While no call was started before another had ended, who is signed in is who the refresh
\* cookie would sign in (auth-store.ts, nav-user.tsx, AppProviders.tsx).
THEOREM CookieCorrect == Spec => []SessionFollowsCookie
<1>1. IInv => SessionFollowsCookie
  BY DEF IInv, FollowInv, SessionFollowsCookie
<1> QED
  BY <1>1, SpecIInv, PTL
=============================================================================
