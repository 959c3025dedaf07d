----------------------------- MODULE AccessProofs -----------------------------
(***************************************************************************)
(* Proofs about Access, for every set of tenants, keys, sessions and calls *)
(* and every clock.                                                        *)
(***************************************************************************)
EXTENDS Access, TLAPS

\* What a call holds at each of its steps.
Shaped(w) ==
    /\ w.pc = "login" => w.by \in Sessions
    /\ w.pc = "session" => w.by \in Sessions /\ w.order \in Orders
    /\ w.pc \in {"admitted", "insert", "reply"} => w.by \in Sessions \cup {None} /\ w.order \in Orders
    /\ w.pc = "insert" => normalizeSlug(w.order.tenant) # None
    /\ w.pc = "reply" => w.key \in KeyIds
    /\ w.pc \in {"credential", "serve"} => w.by \in Credentials /\ w.order \in Order

AtWork == \A c \in Calls : Shaped(calls[c])

\* An issue that has found its tenant still has it when it stores the key.
TenantFound == \A c \in Calls : calls[c].pc = "insert" => Known(calls[c].order.tenant)

TypeInv == TypeOK /\ AtWork

\* What was revoked or ended when a call arrived still is.
PastStands ==
    \A c \in Calls : begun[c].revoked \subseteq Revoked /\ begun[c].ended \subseteq ended

\* A request let in names the tenant of its key, or of its token's claims.
ServedForOwnTenant ==
    \A c \in Calls : calls[c].pc = "serve" =>
        /\ calls[c].by \in KeyIds => OfTenant(calls[c].by, calls[c].order.tenant)
        /\ calls[c].by \in Jwts => calls[c].by.tenant = calls[c].order.tenant

\* The table agrees with the cookies, and a login under way is the only
\* holder of its token.
TableAgrees ==
    /\ \A t \in Sessions : sessions[t] # None => sessions[t] = cookies[t]
    /\ \A t \in ended : sessions[t] = None /\ cookies[t] # None
    /\ \A c \in Calls : calls[c].pc = "login" =>
        /\ cookies[calls[c].by] = None
        /\ \A d \in Calls \ {c} : calls[d].by # calls[c].by

IInv ==
    /\ TypeInv
    /\ TenantFound /\ KeysHaveTenant
    /\ PastStands /\ RevokedKeyAdmitsNothingNew
    /\ ServedForOwnTenant /\ WrittenForOwnTenant
    /\ TableAgrees /\ AdmittedSessionWasLive
-----------------------------------------------------------------------------
(* Types. *)

\* A call slot that is free is a well-formed call that nobody makes.
LEMMA IdleIsCall == Idle \in Call /\ Idle.pc = "idle" /\ Idle.by = None
<1> QED  BY DEF Idle, Call, PCs

\* A call that has stored its key remains well-formed.
LEMMA ReplyIsCall ==
    ASSUME NEW w \in Call, NEW k \in KeyIds
    PROVE  [w EXCEPT !.pc = "reply", !.key = k] \in Call
<1>1. [w EXCEPT !.pc = "reply"] \in Call
  BY DEF Call, PCs
<1>2. [[w EXCEPT !.pc = "reply"] EXCEPT !.key = k] \in Call
  BY <1>1 DEF Call
<1> QED  BY <1>2

\* What administrators ask for is well-formed, with a name or key where one is needed.
LEMMA OrdersAreOrders ==
    ASSUME NEW o \in Orders
    PROVE  /\ o \in Order /\ o # None
           /\ o.task \in {"create", "rename"} => o.arg \in DisplayNames
           /\ o.task = "revoke" => o.arg \in KeyIds
<1> QED  BY NoneAssumption DEF Orders, Order, Tasks

\* normalizeSlug yields a slug, or nothing.
LEMMA SlugOrNone ==
    ASSUME NEW spelling \in Spellings
    PROVE  normalizeSlug(spelling) \in Slugs \cup {None}
<1> QED  BY SpellingAssumption DEF normalizeSlug

\* What a call that begins leaves of the types and of the other calls.
LEMMA BeginTypes ==
    ASSUME TypeInv, NEW c \in Calls, NEW call \in Call, Begin(c, call)
    PROVE  /\ calls' \in [Calls -> Call]
           /\ arrivals' \in 0..MaxCalls
           /\ begun' \in [Calls -> [revoked: SUBSET KeyIds, ended: SUBSET Sessions]]
           /\ calls'[c] = call
           /\ \A d \in Calls \ {c} : calls'[d] = calls[d]
<1> QED  BY BoundAssumption DEF Begin, TypeInv, TypeOK, Revoked

\* A step that leads a call on changes where the call is and nothing else of it.
LEMMA GoTypes ==
    ASSUME TypeInv, NEW c \in Calls, NEW p \in PCs, Go(c, p)
    PROVE  /\ calls' \in [Calls -> Call]
           /\ calls'[c] = [calls[c] EXCEPT !.pc = p]
           /\ calls'[c].pc = p /\ calls'[c].by = calls[c].by
           /\ calls'[c].order = calls[c].order /\ calls'[c].now = calls[c].now
           /\ \A d \in Calls \ {c} : calls'[d] = calls[d]
<1> QED  BY DEF Go, TypeInv, TypeOK, Call

\* A call that ends frees its slot and leaves the others alone.
LEMMA EndTypes ==
    ASSUME TypeInv, NEW c \in Calls, End(c)
    PROVE  /\ calls' \in [Calls -> Call]
           /\ calls'[c] = Idle
           /\ \A d \in Calls \ {c} : calls'[d] = calls[d]
<1> QED  BY IdleIsCall DEF End, TypeInv, TypeOK

\* A sweep of the sessions' table leaves a table.
LEMMA UnexpiredTypes ==
    ASSUME TypeInv, NEW now \in Nat
    PROVE  Unexpired(now) \in [Sessions -> Nat \cup {None}]
<1> QED  BY DEF Unexpired, TypeInv, TypeOK
\* A free slot holds what a free slot should.
LEMMA IdleIsShaped == Shaped(Idle)
<1> QED  BY DEF Shaped, Idle

\* The initial state is well-typed.
LEMMA TypeInit == Init => TypeInv
<1> QED  BY IdleIsCall, IdleIsShaped, BoundAssumption DEF Init, TypeInv, TypeOK, AtWork

\* Every step keeps the types and what calls hold at their steps.
LEMMA TypeNext == TypeInv /\ [Next]_vars => TypeInv'
<1> SUFFICES ASSUME TypeInv, [Next]_vars
             PROVE  TypeInv'
    OBVIOUS
<1> USE DEF TypeInv, AtWork
<1>0. clock \in Nat
  BY BoundAssumption DEF TypeOK
<1>1. ASSUME NEW c \in Calls, NEW t \in Sessions, StartLogin(c, t)
      PROVE  TypeInv'
  <2> DEFINE call == [Idle EXCEPT !.pc = "login", !.by = t, !.now = clock]
  <2>1. call \in Call /\ Shaped(call)
    BY <1>0 DEF Idle, Call, PCs, Shaped
  <2> QED  BY <1>1, <2>1, BeginTypes DEF StartLogin, TypeOK
<1>2. ASSUME NEW c \in Calls, NEW t \in Sessions, NEW order \in Orders, CallConsole(c, t, order)
      PROVE  TypeInv'
  <2> DEFINE call == [Idle EXCEPT !.pc = "session", !.by = t, !.order = order, !.now = clock]
  <2>1. call \in Call /\ Shaped(call)
    BY <1>0, OrdersAreOrders DEF Idle, Call, PCs, Shaped
  <2> QED  BY <1>2, <2>1, BeginTypes DEF CallConsole, TypeOK
<1>3. ASSUME NEW c \in Calls, NEW order \in Orders, CallTerminal(c, order)
      PROVE  TypeInv'
  <2> DEFINE call == [Idle EXCEPT !.pc = "admitted", !.order = order]
  <2>1. call \in Call /\ Shaped(call)
    BY <1>0, OrdersAreOrders DEF Idle, Call, PCs, Shaped
  <2> QED  BY <1>3, <2>1, BeginTypes DEF CallTerminal, TypeOK
<1>4. ASSUME NEW c \in Calls, NEW by \in Credentials, NEW spelling \in Spellings,
              CallClient(c, by, spelling)
      PROVE  TypeInv'
  <2> DEFINE order == [task |-> "request", tenant |-> spelling, arg |-> None]
             call == [Idle EXCEPT !.pc = "credential", !.by = by, !.order = order]
  <2>1. order \in Order
    BY DEF Order, Tasks
  <2>2. call \in Call /\ Shaped(call)
    BY <2>1 DEF Idle, Call, PCs, Shaped
  <2> QED  BY <1>4, <2>2, BeginTypes DEF CallClient, TypeOK
<1>5. ASSUME NEW c \in Calls, AddSession(c)
      PROVE  TypeInv'
  <2>1. calls[c].by \in Sessions /\ calls[c].now + TTL \in Nat
    BY <1>5, TimeAssumption DEF AddSession, Shaped, TypeOK, Call
  <2>2. Unexpired(clock) \in [Sessions -> Nat \cup {None}]
    BY UnexpiredTypes DEF TypeOK
  <2> QED  BY <1>5, <2>1, <2>2, EndTypes, IdleIsShaped DEF AddSession, End, TypeOK
<1>6. ASSUME NEW c \in Calls, CheckSession(c)
      PROVE  TypeInv'
  <2>1. sessions' \in [Sessions -> Nat \cup {None}]
    BY <1>6, UnexpiredTypes DEF CheckSession, TypeOK, Call
  <2>2. CASE Go(c, "admitted")
    <3>1. calls' \in [Calls -> Call] /\ Shaped(calls'[c]) /\ \A d \in Calls \ {c} : calls'[d] = calls[d]
      BY <1>6, <2>2, GoTypes DEF CheckSession, Shaped, PCs
    <3> QED  BY <1>6, <2>1, <2>2, <3>1 DEF CheckSession, Go, TypeOK
  <2>3. CASE End(c)
    BY <1>6, <2>1, <2>3, EndTypes, IdleIsShaped DEF CheckSession, End, TypeOK
  <2> QED  BY <1>6, <2>2, <2>3 DEF CheckSession
<1>7. ASSUME NEW c \in Calls, CreateTenant(c) \/ UpdateTenantName(c)
      PROVE  TypeInv'
  <2>1. calls[c].order \in Orders /\ calls[c].order.task \in {"create", "rename"}
    BY <1>7 DEF CreateTenant, UpdateTenantName, Doing, Shaped
  <2>2. calls[c].order.arg \in DisplayNames
    BY <2>1, OrdersAreOrders
  <2>3. tenants' \in [Slugs -> DisplayNames \cup {None}] /\ End(c)
    BY <1>7, <2>2 DEF CreateTenant, UpdateTenantName, TypeOK
  <2> QED  BY <1>7, <2>3, EndTypes, IdleIsShaped DEF CreateTenant, UpdateTenantName, End, TypeOK
<1>8. ASSUME NEW c \in Calls, FindTenant(c)
      PROVE  TypeInv'
  <2>1. calls' \in [Calls -> Call] /\ Shaped(calls'[c]) /\ \A d \in Calls \ {c} : calls'[d] = calls[d]
    BY <1>8, GoTypes DEF FindTenant, Doing, Known, Shaped, PCs
  <2> QED  BY <1>8, <2>1 DEF FindTenant, Go, TypeOK
<1>9. ASSUME NEW c \in Calls, NEW k \in KeyIds, InsertKey(c, k)
      PROVE  TypeInv'
  <2>1. calls[c].order \in Order /\ calls[c].by \in Sessions \cup {None} /\ calls[c].order \in Orders
    BY <1>9, OrdersAreOrders DEF InsertKey, Shaped
  <2>2. calls' \in [Calls -> Call] /\ \A d \in Calls \ {c} : calls'[d] = calls[d]
    <3> DEFINE call == [calls[c] EXCEPT !.pc = "reply", !.key = k]
    <3>1. call \in Call
      BY ReplyIsCall DEF TypeOK
    <3>2. calls' = [calls EXCEPT ![c] = call]
      BY <1>9 DEF InsertKey, TypeOK
    <3> QED  BY <3>1, <3>2 DEF TypeOK
  <2>4. Shaped(calls'[c])
    BY <1>9, <2>1 DEF InsertKey, TypeOK, Call, Shaped
  <2>3. normalizeSlug(calls[c].order.tenant) \in Slugs
    BY <1>9, <2>1, SlugOrNone DEF InsertKey, Shaped, Order
  <2> QED  BY <1>9, <2>2, <2>3, <2>4 DEF InsertKey, TypeOK, Key
<1>10. ASSUME NEW c \in Calls, ReplyKey(c)
      PROVE  TypeInv'
  <2>1. calls[c].key \in KeyIds
    BY <1>10 DEF ReplyKey, Shaped
  <2> QED  BY <1>10, <2>1, EndTypes, IdleIsShaped DEF ReplyKey, End, TypeOK
<1>11. ASSUME NEW c \in Calls, RevokeAPIKey(c)
      PROVE  TypeInv'
  <2>1. calls[c].order.arg \in KeyIds
    BY <1>11, OrdersAreOrders DEF RevokeAPIKey, Doing, Shaped
  <2>2. keys' \in [KeyIds -> Key \cup {None}]
    BY <1>11, <2>1 DEF RevokeAPIKey, Active, OfTenant, TypeOK, Key
  <2> QED  BY <1>11, <2>2, EndTypes, IdleIsShaped DEF RevokeAPIKey, End, TypeOK
<1>12. ASSUME NEW c \in Calls, RefuseOrder(c) \/ RefuseRequest(c) \/ Fail(c)
      PROVE  TypeInv'
  BY <1>12, EndTypes, IdleIsShaped DEF RefuseOrder, RefuseRequest, Fail, End, TypeOK
<1>13. ASSUME NEW c \in Calls, VerifyAPIKey(c)
      PROVE  TypeInv'
  <2>1. calls' \in [Calls -> Call] /\ Shaped(calls'[c]) /\ \A d \in Calls \ {c} : calls'[d] = calls[d]
    BY <1>13, GoTypes DEF VerifyAPIKey, Shaped, PCs
  <2> QED  BY <1>13, <2>1 DEF VerifyAPIKey, Go, TypeOK
<1>14. ASSUME NEW c \in Calls, VerifyToken(c)
      PROVE  TypeInv'
  <2>1. calls' \in [Calls -> Call] /\ Shaped(calls'[c]) /\ \A d \in Calls \ {c} : calls'[d] = calls[d]
    BY <1>14, GoTypes DEF VerifyToken, Shaped, PCs
  <2> QED  BY <1>14, <2>1 DEF VerifyToken, Go, TypeOK
<1>15. ASSUME NEW c \in Calls, Serve(c)
      PROVE  TypeInv'
  <2>1. calls[c].by \in Credentials /\ calls[c].order.tenant \in Spellings
    BY <1>15 DEF Serve, Shaped, Order
  <2>2. data' \subseteq [tenant: Spellings, by: Credentials]
    BY <1>15, <2>1 DEF Serve, TypeOK
  <2> QED  BY <1>15, <2>2, EndTypes, IdleIsShaped DEF Serve, End, TypeOK
<1>16. ASSUME NEW t \in Sessions, Logout(t)
      PROVE  TypeInv'
  BY <1>16 DEF Logout, TypeOK
<1>17. CASE Tick
  BY <1>17, BoundAssumption DEF Tick, TypeOK
<1>18. CASE Restart
  BY <1>18, IdleIsCall, IdleIsShaped DEF Restart, TypeOK
<1>19. CASE UNCHANGED vars
  BY <1>19 DEF vars, TypeOK
<1> QED  BY <1>1, <1>2, <1>3, <1>4, <1>5, <1>6, <1>7, <1>8, <1>9, <1>10, <1>11, <1>12, <1>13, <1>14, <1>15, <1>16, <1>17, <1>18, <1>19
    DEF Next, Arrive, Authenticate, Administer
\* All collections, the sessions' table and all calls keep their types.
THEOREM TypeCorrect == Spec => []TypeOK
<1>1. Spec => []TypeInv
  BY TypeInit, TypeNext, PTL DEF Spec
<1>2. TypeInv => TypeOK
  BY DEF TypeInv
<1> QED  BY <1>1, <1>2, PTL

-----------------------------------------------------------------------------
(* What a step does to one call, to the tenants and to the keys. *)

\* A call stays as it is, ends, or takes one of the steps that lead on.
LEMMA Moves ==
    ASSUME TypeInv, [Next]_vars, NEW c \in Calls
    PROVE  \/ calls'[c] = calls[c] /\ begun'[c] = begun[c]
           \/ calls'[c] = Idle /\ begun'[c] = begun[c]
           \/ Arrive(c)
           \/ CheckSession(c) /\ Go(c, "admitted")
           \/ VerifyAPIKey(c) \/ VerifyToken(c)
           \/ FindTenant(c) \/ \E k \in KeyIds : InsertKey(c, k)
<1> USE DEF TypeInv, TypeOK
<1>1. ASSUME NEW d \in Calls,
             Arrive(d) \/ AddSession(d) \/ Authenticate(d) \/ Administer(d) \/ Serve(d) \/ Fail(d)
      PROVE  \/ End(d)
             \/ Arrive(d)
             \/ CheckSession(d) /\ Go(d, "admitted")
             \/ VerifyAPIKey(d) \/ VerifyToken(d)
             \/ FindTenant(d) \/ \E k \in KeyIds : InsertKey(d, k)
  <2>1. CASE CheckSession(d)
    BY <2>1 DEF CheckSession
  <2>2. CASE RefuseRequest(d) \/ AddSession(d) \/ Serve(d) \/ Fail(d)
    BY <2>2 DEF RefuseRequest, AddSession, Serve, Fail
  <2>3. CASE \/ CreateTenant(d) \/ UpdateTenantName(d) \/ ReplyKey(d)
             \/ RevokeAPIKey(d) \/ RefuseOrder(d)
    BY <2>3 DEF CreateTenant, UpdateTenantName, ReplyKey, RevokeAPIKey, RefuseOrder
  <2> QED  BY <1>1, <2>1, <2>2, <2>3 DEF Authenticate, Administer
<1>2. ASSUME NEW d \in Calls, d # c,
             \/ End(d) \/ Arrive(d) \/ Go(d, "admitted") \/ VerifyAPIKey(d) \/ VerifyToken(d)
             \/ FindTenant(d) \/ \E k \in KeyIds : InsertKey(d, k)
      PROVE  calls'[c] = calls[c] /\ begun'[c] = begun[c]
  BY <1>2 DEF End, Arrive, StartLogin, CallConsole, CallTerminal, CallClient, Begin, Go,
     VerifyAPIKey, VerifyToken, FindTenant, InsertKey
<1>3. CASE \E t \in Sessions : Logout(t)
  BY <1>3 DEF Logout
<1>4. CASE Tick \/ Restart \/ UNCHANGED vars
  BY <1>4 DEF Tick, Restart, vars
<1>5. ASSUME End(c)
      PROVE  calls'[c] = Idle /\ begun'[c] = begun[c]
  BY <1>5 DEF End
<1> QED  BY <1>1, <1>2, <1>3, <1>4, <1>5 DEF Next

\* How a call looks that has just begun.
LEMMA ArrivingCall ==
    ASSUME TypeInv, NEW c \in Calls, Arrive(c)
    PROVE  /\ calls[c] = Idle
           /\ begun'[c] = [revoked |-> Revoked, ended |-> ended]
           /\ calls'[c].pc \in {"login", "session", "admitted", "credential"}
           /\ calls'[c].pc = "login" => /\ calls'[c].by \in Sessions
                                       /\ cookies[calls'[c].by] = None
                                       /\ \A d \in Calls : calls[d].by # calls'[c].by
           /\ calls'[c].pc = "session" => cookies[calls'[c].by] # None
           /\ calls'[c].pc = "admitted" => calls'[c].by = None
           /\ calls'[c].pc = "credential" => calls'[c].by \in Credentials
           /\ \A d \in Calls \ {c} : calls'[d] = calls[d]
           /\ UNCHANGED <<tenants, keys, sessions, cookies, data, ended>>
<1> USE DEF TypeInv, TypeOK, Begin, Idle
<1>1. ASSUME NEW t \in Sessions, StartLogin(c, t)
      PROVE  calls'[c].pc = "login" /\ calls'[c].by = t
  BY <1>1 DEF StartLogin
<1>2. ASSUME NEW t \in Sessions, NEW order \in Orders, CallConsole(c, t, order)
      PROVE  calls'[c].pc = "session" /\ calls'[c].by = t
  BY <1>2 DEF CallConsole
<1>3. ASSUME NEW order \in Orders, CallTerminal(c, order)
      PROVE  calls'[c].pc = "admitted" /\ calls'[c].by = None
  BY <1>3 DEF CallTerminal
<1>4. ASSUME NEW by \in Credentials, NEW spelling \in Spellings, CallClient(c, by, spelling)
      PROVE  calls'[c].pc = "credential" /\ calls'[c].by = by
  BY <1>4 DEF CallClient
<1>5. CASE \E t \in Sessions : StartLogin(c, t)
  BY <1>1, <1>5 DEF StartLogin
<1>6. CASE \E t \in Sessions, order \in Orders : CallConsole(c, t, order)
  BY <1>2, <1>6 DEF CallConsole
<1>7. CASE \E order \in Orders : CallTerminal(c, order)
  BY <1>3, <1>7 DEF CallTerminal
<1>8. CASE \E by \in Credentials, spelling \in Spellings : CallClient(c, by, spelling)
  BY <1>4, <1>8 DEF CallClient
<1> QED  BY <1>5, <1>6, <1>7, <1>8 DEF Arrive

\* Steps that touch the tenants, and those that touch the keys.
LEMMA TenantSteps ==
    ASSUME TypeInv, [Next]_vars
    PROVE  UNCHANGED tenants \/ \E c \in Calls : CreateTenant(c) \/ UpdateTenantName(c)
<1> QED  BY DEF Next, Arrive, StartLogin, CallConsole, CallTerminal, CallClient, AddSession,
       Authenticate, CheckSession, VerifyAPIKey, VerifyToken, RefuseRequest, Administer,
       FindTenant, InsertKey, ReplyKey, RevokeAPIKey, RefuseOrder, Serve, Fail, Logout, Tick,
       Restart, vars

\* Only storing and revoking touch the keys.
LEMMA KeySteps ==
    ASSUME TypeInv, [Next]_vars
    PROVE  UNCHANGED keys
             \/ \E c \in Calls : RevokeAPIKey(c) \/ \E k \in KeyIds : InsertKey(c, k)
<1> QED  BY DEF Next, Arrive, StartLogin, CallConsole, CallTerminal, CallClient, AddSession,
       Authenticate, CheckSession, VerifyAPIKey, VerifyToken, RefuseRequest, Administer,
       CreateTenant, UpdateTenantName, FindTenant, ReplyKey, RefuseOrder, Serve, Fail, Logout,
       Tick, Restart, vars

\* A tenant stays: creating one overwrites none, renaming gives it a name.
LEMMA TenantsStand ==
    ASSUME TypeInv, [Next]_vars, NEW s \in Slugs, tenants[s] # None
    PROVE  tenants'[s] # None
<1>1. CASE UNCHANGED tenants
  BY <1>1
<1>2. ASSUME NEW c \in Calls, CreateTenant(c) \/ UpdateTenantName(c)
      PROVE  tenants'[s] # None
  <2>1. calls[c].order \in Orders /\ calls[c].order.task \in {"create", "rename"}
    BY <1>2 DEF TypeInv, AtWork, Shaped, CreateTenant, UpdateTenantName, Doing
  <2>2. calls[c].order.arg # None
    BY <2>1, OrdersAreOrders, NoneAssumption
  <2> QED  BY <1>2, <2>2 DEF CreateTenant, UpdateTenantName, TypeInv, TypeOK
<1> QED  BY <1>1, <1>2, TenantSteps

\* A stored key stays, keeps its tenant, and once revoked changes no more.
LEMMA KeysStand ==
    ASSUME TypeInv, [Next]_vars, NEW k \in KeyIds, keys[k] # None
    PROVE  /\ keys'[k] # None /\ keys'[k].tenant = keys[k].tenant
           /\ keys[k].revokedAt # None => keys'[k] = keys[k]
<1>1. CASE UNCHANGED keys
  BY <1>1
<1>2. ASSUME NEW c \in Calls, NEW i \in KeyIds, InsertKey(c, i)
      PROVE  keys'[k] = keys[k]
  BY <1>2 DEF InsertKey, TypeInv, TypeOK
<1>3. ASSUME NEW c \in Calls, RevokeAPIKey(c)
      PROVE  /\ keys'[k] # None /\ keys'[k].tenant = keys[k].tenant
             /\ keys[k].revokedAt # None => keys'[k] = keys[k]
  <2>1. CASE k = calls[c].order.arg
    <3>1. keys[k] \in Key /\ keys'[k] = [keys[k] EXCEPT !.revokedAt = clock] /\ keys[k].revokedAt = None
      BY <1>3, <2>1 DEF RevokeAPIKey, Active, OfTenant, TypeInv, TypeOK
    <3>2. keys'[k] \in Key /\ keys'[k].tenant = keys[k].tenant
      BY <3>1, BoundAssumption DEF Key, TypeInv, TypeOK
    <3> QED  BY <3>1, <3>2, NoneAssumption
  <2>2. CASE k # calls[c].order.arg
    BY <1>3, <2>2 DEF RevokeAPIKey, TypeInv, TypeOK
  <2> QED  BY <2>1, <2>2
<1> QED  BY <1>1, <1>2, <1>3, KeySteps
-----------------------------------------------------------------------------
(* Tenants of keys. *)

\* A tenant found stays, as a step of others leaves it.
LEMMA KnownStands ==
    ASSUME TypeInv, [Next]_vars, NEW spelling \in Spellings, Known(spelling)
    PROVE  normalizeSlug(spelling) # None /\ tenants'[normalizeSlug(spelling)] # None
<1>1. normalizeSlug(spelling) \in Slugs
  BY SlugOrNone DEF Known
<1> QED  BY <1>1, TenantsStand DEF Known

\* An order names a tenant in one of the known spellings.
LEMMA OrderOf ==
    ASSUME TypeInv, NEW c \in Calls, calls[c].order # None
    PROVE  calls[c].order.tenant \in Spellings
<1> QED  BY DEF TypeInv, TypeOK, Call, Order

\* An issue that found its tenant keeps it, whatever others do meanwhile.
LEMMA TenantNext == TypeInv /\ TenantFound /\ [Next]_vars => TenantFound'
<1> SUFFICES ASSUME TypeInv, TenantFound, [Next]_vars, NEW c \in Calls, calls'[c].pc = "insert"
             PROVE  LET slug == normalizeSlug(calls'[c].order.tenant)
                    IN  slug # None /\ tenants'[slug] # None
    BY DEF TenantFound, Known
<1>1. calls[c].pc \in {"insert", "admitted"} => calls[c].order.tenant \in Spellings
  BY OrdersAreOrders, OrderOf DEF TypeInv, AtWork, Shaped
<1>2. CASE calls'[c] = calls[c]
  BY <1>1, <1>2, KnownStands DEF TenantFound
<1>3. CASE FindTenant(c)
  <2>1. calls'[c].order = calls[c].order /\ calls[c].pc = "admitted" /\ Known(calls[c].order.tenant)
    BY <1>3, GoTypes DEF FindTenant, Doing, PCs
  <2> QED  BY <1>1, <2>1, KnownStands
<1>4. calls'[c] # Idle
  BY DEF Idle
<1>5. ~Arrive(c)
  <2> SUFFICES ASSUME Arrive(c) PROVE FALSE
      OBVIOUS
  <2> QED  BY ArrivingCall
<1>6. ~(CheckSession(c) /\ Go(c, "admitted")) /\ ~VerifyAPIKey(c) /\ ~VerifyToken(c)
  BY DEF Go, VerifyAPIKey, VerifyToken, TypeInv, TypeOK, Call
<1>7. ASSUME NEW k \in KeyIds
      PROVE  ~InsertKey(c, k)
  BY DEF InsertKey, TypeInv, TypeOK, Call
<1> QED  BY <1>2, <1>3, <1>4, <1>5, <1>6, <1>7, Moves

\* Every step keeps every stored key with a stored tenant.
LEMMA KeysHaveTenantNext ==
    TypeInv /\ TenantFound /\ KeysHaveTenant /\ [Next]_vars => KeysHaveTenant'
<1> SUFFICES ASSUME TypeInv, TenantFound, KeysHaveTenant, [Next]_vars,
                    NEW k \in KeyIds, keys'[k] # None
             PROVE  tenants'[keys'[k].tenant] # None
    BY DEF KeysHaveTenant
<1>1. CASE keys[k] # None
  <2>1. keys'[k].tenant = keys[k].tenant /\ keys[k].tenant \in Slugs
    BY <1>1, KeysStand DEF TypeInv, TypeOK, Key
  <2> QED  BY <1>1, <2>1, TenantsStand DEF KeysHaveTenant
<1>2. CASE keys[k] = None
  <2>1. PICK c \in Calls : RevokeAPIKey(c) \/ \E i \in KeyIds : InsertKey(c, i)
    BY <1>2, KeySteps
  <2>2. ~RevokeAPIKey(c)
    BY <1>2 DEF RevokeAPIKey, Active, OfTenant, TypeInv, TypeOK
  <2>3. InsertKey(c, k)
    BY <1>2, <2>1, <2>2 DEF InsertKey, TypeInv, TypeOK
  <2>4. keys'[k].tenant = normalizeSlug(calls[c].order.tenant) /\ UNCHANGED tenants
    BY <2>3 DEF InsertKey, TypeInv, TypeOK
  <2> QED  BY <2>3, <2>4 DEF InsertKey, TenantFound, Known
<1> QED  BY <1>1, <1>2

\* RevokeAPIKey never moves a key or the time of its first revocation.
THEOREM FirstRevocationSafe == Spec => FirstRevocationStands
<1>1. TypeInv /\ [Next]_vars =>
        [\A k \in KeyIds : keys[k] # None =>
            /\ keys'[k] # None /\ keys'[k].tenant = keys[k].tenant
            /\ keys[k].revokedAt # None => keys'[k] = keys[k]]_vars
  BY KeysStand
<1> QED  BY <1>1, TypeInit, TypeNext, PTL DEF Spec, FirstRevocationStands

-----------------------------------------------------------------------------
(* Requests and revocation. *)

\* What is revoked stays revoked.
LEMMA RevokedStays ==
    ASSUME TypeInv, [Next]_vars
    PROVE  Revoked \subseteq Revoked'
<1> QED  BY KeysStand DEF Revoked

\* Steps that touch the sessions' table, the cookies or what has ended.
LEMMA TableSteps ==
    ASSUME TypeInv, [Next]_vars
    PROVE  \/ UNCHANGED <<sessions, cookies, ended>>
           \/ \E c \in Calls : AddSession(c) \/ CheckSession(c)
           \/ \E t \in Sessions : Logout(t)
           \/ Restart
<1> QED  BY DEF Next, Arrive, StartLogin, CallConsole, CallTerminal, CallClient,
       Authenticate, VerifyAPIKey, VerifyToken, RefuseRequest, Administer, CreateTenant,
       UpdateTenantName, FindTenant, InsertKey, ReplyKey, RevokeAPIKey, RefuseOrder, Serve, Fail,
       Tick, vars

\* Only served requests write.
LEMMA DataSteps ==
    ASSUME TypeInv, [Next]_vars
    PROVE  UNCHANGED data \/ \E c \in Calls : Serve(c)
<1> QED  BY DEF Next, Arrive, StartLogin, CallConsole, CallTerminal, CallClient, AddSession,
       Authenticate, CheckSession, VerifyAPIKey, VerifyToken, RefuseRequest, Administer,
       CreateTenant, UpdateTenantName, FindTenant, InsertKey, ReplyKey, RevokeAPIKey, RefuseOrder,
       Fail, Logout, Tick, Restart, vars

\* What has ended stays ended.
LEMMA EndedStays ==
    ASSUME TypeInv, [Next]_vars
    PROVE  ended \subseteq ended'
<1> QED  BY TableSteps DEF AddSession, CheckSession, Logout, Restart

\* What held of keys and sessions when a call arrived still holds.
LEMMA PastNext == TypeInv /\ PastStands /\ [Next]_vars => PastStands'
<1> SUFFICES ASSUME TypeInv, PastStands, [Next]_vars, NEW c \in Calls
             PROVE  begun'[c].revoked \subseteq Revoked' /\ begun'[c].ended \subseteq ended'
    BY DEF PastStands
<1>1. CASE begun'[c] = begun[c]
  BY <1>1, RevokedStays, EndedStays DEF PastStands
<1>2. CASE Arrive(c)
  BY <1>2, ArrivingCall, RevokedStays, EndedStays
<1>3. \/ begun'[c] = begun[c]
      \/ Arrive(c)
  BY Moves DEF Go, VerifyAPIKey, VerifyToken, FindTenant, InsertKey
<1> QED  BY <1>1, <1>2, <1>3

\* A call that is served was being served before, or is let in by this step.
LEMMA ServedCall ==
    ASSUME TypeInv, [Next]_vars, NEW c \in Calls, calls'[c].pc = "serve"
    PROVE  /\ calls[c].pc \in {"serve", "credential"} /\ calls[c].by \in Credentials
           /\ calls[c].order \in Order /\ calls[c].order.tenant \in Spellings
           /\ calls'[c].by = calls[c].by /\ calls'[c].order = calls[c].order
           /\ begun'[c] = begun[c]
           /\ calls'[c] = calls[c] \/ VerifyAPIKey(c) \/ VerifyToken(c)
<1>1. calls'[c] # Idle /\ ~Arrive(c)
  BY ArrivingCall DEF Idle
<1>2. /\ ~(CheckSession(c) /\ Go(c, "admitted")) /\ ~FindTenant(c)
      /\ \A k \in KeyIds : ~InsertKey(c, k)
  BY DEF Go, FindTenant, InsertKey, TypeInv, TypeOK, Call
<1>3. \/ calls'[c] = calls[c] /\ begun'[c] = begun[c]
      \/ VerifyAPIKey(c) \/ VerifyToken(c)
  BY <1>1, <1>2, Moves
<1>4. /\ calls[c].pc \in {"serve", "credential"}
      /\ calls'[c].by = calls[c].by /\ calls'[c].order = calls[c].order
      /\ begun'[c] = begun[c]
  BY <1>3, GoTypes DEF VerifyAPIKey, VerifyToken, Go, PCs
<1>5. calls[c].by \in Credentials /\ calls[c].order \in Order
  BY <1>4 DEF TypeInv, AtWork, Shaped
<1> QED  BY <1>3, <1>4, <1>5 DEF Order

\* No step lets a request in with a key revoked before it arrived.
LEMMA RevokedKeyNext ==
    TypeInv /\ PastStands /\ RevokedKeyAdmitsNothingNew /\ [Next]_vars => RevokedKeyAdmitsNothingNew'
<1> SUFFICES ASSUME TypeInv, PastStands, RevokedKeyAdmitsNothingNew, [Next]_vars,
                    NEW c \in Calls, calls'[c].pc = "serve", calls'[c].by \in KeyIds
             PROVE  calls'[c].by \notin begun'[c].revoked
    BY DEF RevokedKeyAdmitsNothingNew
<1>1. CASE calls'[c] = calls[c]
  BY <1>1, ServedCall DEF RevokedKeyAdmitsNothingNew
<1>2. CASE VerifyAPIKey(c)
  <2>1. calls[c].by \notin Revoked
    BY <1>2 DEF VerifyAPIKey, Active, Revoked
  <2> QED  BY <2>1, ServedCall DEF PastStands
<1>3. CASE VerifyToken(c)
  BY <1>3, ServedCall, CredentialAssumption DEF VerifyToken
<1> QED  BY <1>1, <1>2, <1>3, ServedCall

\* Every request let in keeps naming the tenant of its credential.
LEMMA ServedForOwnTenantNext ==
    TypeInv /\ ServedForOwnTenant /\ [Next]_vars => ServedForOwnTenant'
<1> SUFFICES ASSUME TypeInv, ServedForOwnTenant, [Next]_vars,
                    NEW c \in Calls, calls'[c].pc = "serve"
             PROVE  /\ calls'[c].by \in KeyIds =>
                        /\ keys'[calls'[c].by] # None
                        /\ keys'[calls'[c].by].tenant = normalizeSlug(calls'[c].order.tenant)
                    /\ calls'[c].by \in Jwts => calls'[c].by.tenant = calls'[c].order.tenant
    BY DEF ServedForOwnTenant, OfTenant
<1>1. /\ calls[c].by \in KeyIds => OfTenant(calls[c].by, calls[c].order.tenant)
      /\ calls[c].by \in Jwts => calls[c].by.tenant = calls[c].order.tenant
  BY ServedCall, CredentialAssumption
  DEF ServedForOwnTenant, VerifyAPIKey, Active, VerifyToken, TokenAdmits
<1> QED  BY <1>1, ServedCall, KeysStand DEF OfTenant

\* Every step keeps what is written with the tenant of its credential.
LEMMA WrittenForOwnTenantNext ==
    TypeInv /\ ServedForOwnTenant /\ WrittenForOwnTenant /\ [Next]_vars => WrittenForOwnTenant'
<1> SUFFICES ASSUME TypeInv, ServedForOwnTenant, WrittenForOwnTenant, [Next]_vars, NEW d \in data'
             PROVE  /\ d.by \in KeyIds =>
                        keys'[d.by] # None /\ normalizeSlug(d.tenant) = keys'[d.by].tenant
                    /\ d.by \in Jwts => d.tenant = d.by.tenant
    BY DEF WrittenForOwnTenant
<1>1. CASE d \in data
  BY <1>1, KeysStand DEF WrittenForOwnTenant
<1>2. CASE d \notin data
  <2>1. PICK c \in Calls : Serve(c)
    BY <1>2, DataSteps
  <2>2. d.tenant = calls[c].order.tenant /\ d.by = calls[c].by
    BY <1>2, <2>1 DEF Serve
  <2> QED  BY <2>1, <2>2, KeysStand DEF Serve, ServedForOwnTenant, OfTenant
<1> QED  BY <1>1, <1>2
-----------------------------------------------------------------------------
(* Sessions. *)

\* A step that leads a call on leaves its credential and its order alone.
LEMMA GoesOn ==
    ASSUME TypeInv, NEW c \in Calls,
           \/ CheckSession(c) /\ Go(c, "admitted")
           \/ VerifyAPIKey(c) \/ VerifyToken(c)
           \/ FindTenant(c) \/ \E k \in KeyIds : InsertKey(c, k)
    PROVE  /\ calls'[c].pc \in {"admitted", "serve", "insert", "reply"}
           /\ calls'[c].by = calls[c].by /\ calls'[c].now = calls[c].now
           /\ begun'[c] = begun[c]
           /\ calls[c].pc \in {"session", "credential", "admitted", "insert"}
<1>1. CASE \E p \in {"admitted", "serve", "insert"} : Go(c, p)
  <2>1. PICK p \in {"admitted", "serve", "insert"} : Go(c, p)
    BY <1>1
  <2>2. p \in PCs
    BY DEF PCs
  <2>3. begun'[c] = begun[c]
    BY <2>1 DEF Go
  <2>4. calls[c].pc \in {"session", "credential", "admitted", "insert"}
    BY DEF CheckSession, VerifyAPIKey, VerifyToken, FindTenant, Doing, InsertKey
  <2> QED  BY <2>1, <2>2, <2>3, <2>4, GoTypes
<1>2. ASSUME NEW k \in KeyIds, InsertKey(c, k)
      PROVE  /\ calls'[c].pc = "reply" /\ calls'[c].by = calls[c].by /\ calls'[c].now = calls[c].now
             /\ begun'[c] = begun[c]
  <2>1. calls' = [calls EXCEPT ![c] = [calls[c] EXCEPT !.pc = "reply", !.key = k]]
    BY <1>2 DEF InsertKey, TypeInv, TypeOK
  <2>2. calls'[c] = [calls[c] EXCEPT !.pc = "reply", !.key = k]
    BY <2>1 DEF TypeInv, TypeOK
  <2>3. calls[c] \in Call /\ begun'[c] = begun[c]
    BY <1>2 DEF InsertKey, TypeInv, TypeOK
  <2> QED  BY <2>2, <2>3 DEF Call
<1>3. /\ (\E p \in {"admitted", "serve", "insert"} : Go(c, p)) \/ \E k \in KeyIds : InsertKey(c, k)
      /\ calls[c].pc \in {"session", "credential", "admitted", "insert"}
  BY DEF CheckSession, VerifyAPIKey, VerifyToken, FindTenant, Doing, InsertKey
<1> QED  BY <1>1, <1>2, <1>3

\* A login under way was under way before, or begins with this step.
LEMMA LoginCall ==
    ASSUME TypeInv, [Next]_vars, NEW c \in Calls, calls'[c].pc = "login"
    PROVE  calls'[c] = calls[c] \/ Arrive(c)
<1> QED  BY Moves, GoesOn, IdleIsCall

\* A call keeps its session, token or key to its end.
LEMMA ByStands ==
    ASSUME TypeInv, [Next]_vars, NEW c \in Calls
    PROVE  calls'[c].by = calls[c].by \/ calls'[c].by = None \/ Arrive(c)
<1> QED  BY Moves, GoesOn, IdleIsCall

\* Every step keeps the table in agreement with the cookies and logins apart.
LEMMA TableNext == TypeInv /\ TableAgrees /\ [Next]_vars => TableAgrees'
<1> SUFFICES ASSUME TypeInv, TableAgrees, [Next]_vars
             PROVE  TableAgrees'
    OBVIOUS
\* What is left of a table after a sweep still agrees.
<1>1. \A t \in Sessions, now \in Nat :
        Unexpired(now)[t] # None => sessions[t] # None /\ Unexpired(now)[t] = sessions[t]
  BY DEF Unexpired
<1>2. ASSUME NEW c \in Calls, AddSession(c)
      PROVE  /\ calls[c].by \in Sessions /\ calls[c].now + TTL \in Nat
             /\ sessions'[calls[c].by] = calls[c].now + TTL /\ cookies'[calls[c].by] = calls[c].now + TTL
             /\ \A t \in Sessions \ {calls[c].by} :
                    /\ cookies'[t] = cookies[t]
                    /\ sessions'[t] # None => sessions'[t] = sessions[t] /\ sessions[t] # None
             /\ calls[c].by \notin ended /\ ended' = ended
  <2>1. calls[c].by \in Sessions /\ calls[c].now + TTL \in Nat /\ clock \in Nat
    BY <1>2, TimeAssumption, BoundAssumption DEF AddSession, TypeInv, TypeOK, AtWork, Shaped, Call
  <2>2. Unexpired(clock) \in [Sessions -> Nat \cup {None}]
    BY <2>1, UnexpiredTypes
  <2>3. calls[c].by \notin ended
    BY <1>2 DEF AddSession, TableAgrees
  <2> QED  BY <1>1, <1>2, <2>1, <2>2, <2>3 DEF AddSession, TypeInv, TypeOK
<1>3. ASSUME NEW t \in Sessions, sessions'[t] # None
      PROVE  sessions'[t] = cookies'[t]
  <2>1. CASE UNCHANGED <<sessions, cookies, ended>>
    BY <1>3, <2>1 DEF TableAgrees
  <2>2. ASSUME NEW c \in Calls, AddSession(c)
        PROVE  sessions'[t] = cookies'[t]
    BY <1>2, <1>3, <2>2 DEF TableAgrees
  <2>3. ASSUME NEW c \in Calls, CheckSession(c)
        PROVE  sessions'[t] = cookies'[t]
    <3>1. calls[c].now \in Nat
      BY DEF TypeInv, TypeOK, Call
    <3> QED  BY <1>1, <1>3, <2>3, <3>1 DEF CheckSession, TableAgrees
  <2>4. CASE Restart \/ \E u \in Sessions : Logout(u)
    BY <1>3, <2>4 DEF Restart, Logout, TableAgrees, TypeInv, TypeOK
  <2> QED  BY <2>1, <2>2, <2>3, <2>4, TableSteps
<1>4. ASSUME NEW t \in ended'
      PROVE  sessions'[t] = None /\ cookies'[t] # None
  <2>1. CASE UNCHANGED <<sessions, cookies, ended>>
    BY <2>1 DEF TableAgrees
  <2>2. ASSUME NEW c \in Calls, AddSession(c)
        PROVE  sessions'[t] = None /\ cookies'[t] # None
    <3>1. t \in Sessions /\ t \in ended /\ t # calls[c].by
      BY <1>2, <2>2 DEF TypeInv, TypeOK
    <3> QED  BY <1>2, <2>2, <3>1 DEF TableAgrees
  <2>3. ASSUME NEW c \in Calls, CheckSession(c)
        PROVE  sessions'[t] = None /\ cookies'[t] # None
    <3>1. calls[c].now \in Nat /\ t \in ended /\ t \in Sessions
      BY <2>3 DEF CheckSession, TypeInv, TypeOK, Call
    <3> QED  BY <1>1, <2>3, <3>1 DEF CheckSession, TableAgrees
  <2>4. CASE Restart \/ \E u \in Sessions : Logout(u)
    BY <2>4 DEF Restart, Logout, TableAgrees, TypeInv, TypeOK
  <2> QED  BY <2>1, <2>2, <2>3, <2>4, TableSteps
<1>5. ASSUME NEW c \in Calls, calls'[c].pc = "login"
      PROVE  cookies'[calls'[c].by] = None
  <2>1. /\ cookies[calls'[c].by] = None /\ calls'[c].by \in Sessions
        /\ \A d \in Calls \ {c} : calls[d].by # calls'[c].by
    BY <1>5, LoginCall, ArrivingCall DEF TableAgrees, TypeInv, AtWork, Shaped
  <2>2. CASE \E d \in Calls : AddSession(d)
    <3>1. PICK d \in Calls : AddSession(d)
      BY <2>2
    <3>2. d # c
      BY <1>5, <3>1, EndTypes DEF AddSession, Idle
    <3> QED  BY <1>2, <2>1, <3>1, <3>2
  <2>3. CASE ~\E d \in Calls : AddSession(d)
    BY <2>1, <2>3, TableSteps DEF CheckSession, Logout, Restart
  <2> QED  BY <2>2, <2>3
<1>6. ASSUME NEW c \in Calls, calls'[c].pc = "login", NEW d \in Calls \ {c}
      PROVE  calls'[d].by # calls'[c].by
  <2>1. calls'[c].by \in Sessions /\ calls'[c].by # None
    BY <1>6, LoginCall, ArrivingCall, NoneAssumption DEF TypeInv, AtWork, Shaped
  <2>2. CASE Arrive(c)
    BY <1>6, <2>2, ArrivingCall
  <2>3. CASE calls'[c] = calls[c] /\ ~Arrive(c)
    <3>1. CASE Arrive(d)
      <4>1. calls'[d].by # calls[c].by
        BY <1>6, <2>1, <2>3, <3>1, ArrivingCall, CredentialAssumption DEF TableAgrees, Credentials
      <4> QED  BY <2>3, <4>1
    <3>2. CASE ~Arrive(d)
      BY <1>6, <2>1, <2>3, <3>2, ByStands DEF TableAgrees
    <3> QED  BY <3>1, <3>2
  <2> QED  BY <1>6, <2>2, <2>3, LoginCall
<1> QED  BY <1>3, <1>4, <1>5, <1>6 DEF TableAgrees

\* No step lets an administrative call in by a session that was not live.
LEMMA AdmittedSessionNext ==
    TypeInv /\ PastStands /\ TableAgrees /\ AdmittedSessionWasLive /\ [Next]_vars
        => AdmittedSessionWasLive'
<1> DEFINE Admitted(p) == p \in {"admitted", "insert", "reply"}
<1> SUFFICES ASSUME TypeInv, PastStands, TableAgrees, AdmittedSessionWasLive, [Next]_vars,
                    NEW c \in Calls, Admitted(calls'[c].pc), calls'[c].by \in Sessions
             PROVE  /\ calls'[c].by \notin begun'[c].ended
                    /\ cookies'[calls'[c].by] # None
                    /\ calls'[c].now < cookies'[calls'[c].by]
    BY DEF AdmittedSessionWasLive
<1>1. calls'[c] # Idle /\ ~Arrive(c)
  BY ArrivingCall, NoneAssumption DEF Idle
<1>2. ~VerifyAPIKey(c) /\ ~VerifyToken(c)
  BY GoTypes DEF VerifyAPIKey, VerifyToken, PCs
<1>3. /\ calls'[c].by = calls[c].by /\ calls'[c].now = calls[c].now /\ begun'[c] = begun[c]
      /\ Admitted(calls[c].pc) \/ (CheckSession(c) /\ Go(c, "admitted"))
  BY <1>1, <1>2, Moves, GoesOn DEF FindTenant, Doing, InsertKey
\* The call's own session was good before this step, and its cookie stands.
<1>4. /\ calls[c].by \notin begun[c].ended
      /\ cookies[calls[c].by] # None
      /\ calls[c].now < cookies[calls[c].by]
  <2>1. CASE Admitted(calls[c].pc)
    BY <1>3, <2>1 DEF AdmittedSessionWasLive
  <2>2. CASE CheckSession(c) /\ Go(c, "admitted")
    <3>1. calls[c].by \in Sessions /\ calls[c].now \in Nat
      BY <1>3 DEF TypeInv, TypeOK, Call
    <3>2. sessions'[calls[c].by] # None
      <4>1. CASE sessions'[calls[c].by] = None
        BY <2>2, <4>1, <1>1, EndTypes DEF CheckSession
      <4> QED  BY <4>1
    <3>3. sessions[calls[c].by] # None /\ sessions[calls[c].by] > calls[c].now
      BY <2>2, <3>1, <3>2 DEF CheckSession, Unexpired
    <3> QED  BY <3>1, <3>3 DEF TableAgrees, PastStands
  <2> QED  BY <1>3, <2>1, <2>2
<1>5. cookies'[calls[c].by] = cookies[calls[c].by]
  <2>1. ASSUME NEW d \in Calls, AddSession(d)
        PROVE  calls[d].by # calls[c].by /\ calls[d].by \in Sessions
    BY <1>4, <2>1 DEF AddSession, TableAgrees, TypeInv, AtWork, Shaped
  <2>2. ASSUME NEW d \in Calls, AddSession(d)
        PROVE  cookies'[calls[c].by] = cookies[calls[c].by]
    BY <1>3, <2>1, <2>2 DEF AddSession, TypeInv, TypeOK
  <2> QED  BY <2>2, TableSteps DEF CheckSession, Logout, Restart
<1> QED  BY <1>3, <1>4, <1>5
-----------------------------------------------------------------------------
(* The invariant, and what follows from it. *)

\* The invariant holds initially.
LEMMA IInvInit == Init => IInv
<1> SUFFICES ASSUME Init PROVE IInv
    OBVIOUS
<1>1. TypeInv
  BY TypeInit
<1>2. \A c \in Calls : calls[c] = Idle /\ calls[c].pc = "idle"
  BY IdleIsCall DEF Init
<1> QED  BY <1>1, <1>2 DEF Init, IInv, TenantFound, KeysHaveTenant, PastStands,
       RevokedKeyAdmitsNothingNew, ServedForOwnTenant, WrittenForOwnTenant, TableAgrees,
       AdmittedSessionWasLive

\* Every step keeps the invariant.
LEMMA IInvNext == IInv /\ [Next]_vars => IInv'
<1> QED  BY TypeNext, TenantNext, KeysHaveTenantNext, PastNext, RevokedKeyNext,
       ServedForOwnTenantNext, WrittenForOwnTenantNext, TableNext, AdmittedSessionNext DEF IInv

\* The invariant holds in every reachable state.
THEOREM IInvSafe == Spec => []IInv
<1> QED  BY IInvInit, IInvNext, PTL DEF Spec

\* Every stored key belongs to a stored tenant, in every reachable state.
THEOREM KeysHaveTenantSafe == Spec => []KeysHaveTenant
<1>1. IInv => KeysHaveTenant
  BY DEF IInv
<1> QED  BY <1>1, IInvSafe, PTL

\* No request that arrives after a key's revocation is let in with it.
THEOREM RevokedKeySafe == Spec => []RevokedKeyAdmitsNothingNew
<1>1. IInv => RevokedKeyAdmitsNothingNew
  BY DEF IInv
<1> QED  BY <1>1, IInvSafe, PTL

\* What is written belongs to the tenant of the credential that wrote it.
THEOREM WrittenForOwnTenantSafe == Spec => []WrittenForOwnTenant
<1>1. IInv => WrittenForOwnTenant
  BY DEF IInv
<1> QED  BY <1>1, IInvSafe, PTL

\* Only sessions that were live on arrival admit administrative calls.
THEOREM AdmittedSessionSafe == Spec => []AdmittedSessionWasLive
<1>1. IInv => AdmittedSessionWasLive
  BY DEF IInv
<1> QED  BY <1>1, IInvSafe, PTL

\* Sessions that were logged out or lost stay out of the table.
THEOREM EndedSessionsSafe == Spec => []EndedSessionsStayEnded
<1>1. IInv => EndedSessionsStayEnded
  BY DEF IInv, TableAgrees, EndedSessionsStayEnded
<1> QED  BY <1>1, IInvSafe, PTL
-----------------------------------------------------------------------------
(* Keys as an authority. *)

\* What is written under keys after a step that leaves the data alone, and
\* after a call has been served.
LEMMA WritingsKept == ASSUME data' = data PROVE WrittenByKeys' = WrittenByKeys
<1> QED  BY DEF WrittenByKeys, normalizeSlug

\* A call that is served adds what it writes under its key, and nothing when
\* it came with a token.
LEMMA WritingsGrow ==
    ASSUME NEW c \in Calls, Serve(c)
    PROVE  WrittenByKeys' =
              WrittenByKeys \cup
                {[by |-> k, tenant |-> normalizeSlug(calls[c].order.tenant)] : k \in LetInWith(c)}
<1> DEFINE Sealed(d) == [by |-> d.by, tenant |-> normalizeSlug(d.tenant)]
           it == [tenant |-> calls[c].order.tenant, by |-> calls[c].by]
<1>1. data' = data \cup {it} /\ LetInWith(c) = {calls[c].by} \cap KeyIds
  BY DEF Serve, LetInWith
<1>2. WrittenByKeys = {Sealed(d) : d \in {e \in data : e.by \in KeyIds}}
  BY DEF WrittenByKeys
<1>3. WrittenByKeys' = {Sealed(d) : d \in {e \in data \cup {it} : e.by \in KeyIds}}
  BY <1>1 DEF WrittenByKeys, normalizeSlug
<1>4. it.by = calls[c].by /\ Sealed(it) = [by |-> calls[c].by,
                                           tenant |-> normalizeSlug(calls[c].order.tenant)]
  OBVIOUS
<1>5. CASE calls[c].by \in KeyIds
  <2>1. {e \in data \cup {it} : e.by \in KeyIds} = {e \in data : e.by \in KeyIds} \cup {it}
    BY <1>4, <1>5
  <2>2. LetInWith(c) = {calls[c].by}
    BY <1>1, <1>5
  <2> HIDE DEF Sealed, it
  <2>3. {Sealed(d) : d \in {e \in data : e.by \in KeyIds} \cup {it}}
          = {Sealed(d) : d \in {e \in data : e.by \in KeyIds}} \cup {Sealed(it)}
    OBVIOUS
  <2> QED  BY <1>2, <1>3, <1>4, <2>1, <2>2, <2>3
<1>6. CASE calls[c].by \notin KeyIds
  <2>1. {e \in data \cup {it} : e.by \in KeyIds} = {e \in data : e.by \in KeyIds}
    BY <1>4, <1>6
  <2>2. LetInWith(c) = {}
    BY <1>1, <1>6
  <2> HIDE DEF Sealed, it
  <2> QED  BY <1>2, <1>3, <2>1, <2>2
<1> QED  BY <1>5, <1>6

\* Apart from the calls that VerifyAPIKey lets in, a step lets nobody in.
LEMMA NobodyLetIn ==
    ASSUME TypeInv, [Next]_vars, NEW c \in Calls, ~VerifyAPIKey(c)
    PROVE  LetInWith(c)' = LetInWith(c) \/ LetInWith(c)' = {}
<1>1. CASE calls'[c].pc # "serve"
  BY <1>1 DEF LetInWith
<1>2. CASE calls'[c].pc = "serve" /\ calls'[c] = calls[c]
  BY <1>2 DEF LetInWith
<1>3. CASE calls'[c].pc = "serve" /\ VerifyToken(c)
  <2>1. calls'[c].by = calls[c].by /\ calls[c].by \in Jwts
    BY <1>3, ServedCall DEF VerifyToken
  <2> QED  BY <2>1, CredentialAssumption DEF LetInWith
<1> QED  BY <1>1, <1>2, <1>3, ServedCall

\* VerifyAPIKey admits its call, under a key in force.
LEMMA VerifyAdmits ==
    ASSUME TypeInv, NEW c \in Calls, VerifyAPIKey(c)
    PROVE  Keyring!Admit(c, calls[c].by)
<1> DEFINE k == calls[c].by
<1>1. k \in KeyIds /\ keys[k] # None /\ keys[k].revokedAt = None
  BY DEF VerifyAPIKey, Active, OfTenant
<1>2. calls'[c] = [calls[c] EXCEPT !.pc = "serve"] /\ \A d \in Calls \ {c} : calls'[d] = calls[d]
  BY DEF VerifyAPIKey, Go, TypeInv, TypeOK
<1>3. LetInWith(c) = {} /\ LetInWith(c)' = {k} /\ \A d \in Calls \ {c} : LetInWith(d)' = LetInWith(d)
  <2>1. calls[c].pc = "credential" /\ calls[c] \in Call
    BY DEF VerifyAPIKey, TypeInv, TypeOK
  <2>2. calls'[c].pc = "serve" /\ calls'[c].by = k
    BY <1>2, <2>1 DEF Call
  <2> QED  BY <1>1, <1>2, <2>1, <2>2 DEF LetInWith
<1>4. UNCHANGED <<keys, WrittenByKeys>>
  BY WritingsKept DEF VerifyAPIKey
<1> QED  BY <1>1, <1>3, <1>4 DEF Keyring!Admit, Keyring!InForce

\* Serving a call that was let in with a key uses its admission up.
LEMMA ServeUses ==
    ASSUME TypeInv, ServedForOwnTenant, NEW c \in Calls, Serve(c), calls[c].by \in KeyIds
    PROVE  Keyring!Use(c, calls[c].by)
<1> DEFINE k == calls[c].by
<1>1. LetInWith(c) = {k}
  BY DEF Serve, LetInWith
<1>2. LetInWith(c)' = {} /\ \A d \in Calls \ {c} : LetInWith(d)' = LetInWith(d)
  BY IdleIsCall DEF Serve, End, LetInWith, TypeInv, TypeOK
<1>3. keys' = keys /\ keys[k].tenant = normalizeSlug(calls[c].order.tenant)
  BY DEF Serve, ServedForOwnTenant, OfTenant
<1>4. WrittenByKeys' = WrittenByKeys \cup {[by |-> k, tenant |-> keys[k].tenant]}
  BY <1>1, <1>3, WritingsGrow
<1> QED  BY <1>1, <1>2, <1>3, <1>4 DEF Keyring!Use

\* A stored key is granted to the tenant the form names.
LEMMA InsertGrants ==
    ASSUME TypeInv, NEW c \in Calls, NEW k \in KeyIds, InsertKey(c, k)
    PROVE  \E t \in Slugs : Keyring!Grant(k, t)
<1> DEFINE t == normalizeSlug(calls[c].order.tenant)
<1>1. t \in Slugs
  <2>1. t # None /\ calls[c].order \in Orders
    BY DEF InsertKey, TypeInv, AtWork, Shaped
  <2>2. calls[c].order.tenant \in Spellings
    BY <2>1 DEF Orders
  <2> QED  BY <2>1, <2>2, SlugOrNone
<1>2. \A d \in Calls : LetInWith(d)' = LetInWith(d)
  <2>1. \A d \in Calls \ {c} : calls'[d] = calls[d]
    BY DEF InsertKey, TypeInv, TypeOK
  <2>2. calls[c].pc = "insert" /\ calls'[c].pc = "reply"
    BY DEF InsertKey, TypeInv, TypeOK, Call
  <2> QED  BY <2>1, <2>2 DEF LetInWith
<1>3. UNCHANGED WrittenByKeys
  BY WritingsKept DEF InsertKey
<1>4. Keyring!Grant(k, t)
  BY <1>2, <1>3 DEF InsertKey, Keyring!Grant
<1> QED  BY <1>1, <1>4

\* A revocation withdraws a key that is in force, at the clock's time.
LEMMA RevokeWithdraws ==
    ASSUME TypeInv, NEW c \in Calls, RevokeAPIKey(c)
    PROVE  \E k \in KeyIds, at \in 0..MaxTime : Keyring!Withdraw(k, at)
<1> DEFINE k == calls[c].order.arg
<1>1. k \in KeyIds
  <2>1. calls[c].order \in Orders /\ calls[c].order.task = "revoke"
    BY DEF RevokeAPIKey, Doing, TypeInv, AtWork, Shaped
  <2> QED  BY <2>1 DEF Orders
<1>2. \A d \in Calls : LetInWith(d)' = LetInWith(d)
  BY IdleIsCall DEF RevokeAPIKey, Doing, End, LetInWith, TypeInv, TypeOK
<1>3. UNCHANGED WrittenByKeys
  BY WritingsKept DEF RevokeAPIKey
<1>4. Keyring!Withdraw(k, clock)
  BY <1>2, <1>3 DEF RevokeAPIKey, Active, OfTenant, Keyring!Withdraw, Keyring!InForce
<1>5. clock \in 0..MaxTime
  BY DEF TypeInv, TypeOK
<1> QED  BY <1>1, <1>4, <1>5

\* Any other step at most takes admissions away.
LEMMA OthersDrop ==
    ASSUME TypeInv, [Next]_vars, UNCHANGED <<keys, WrittenByKeys>>,
           \A c \in Calls : ~VerifyAPIKey(c)
    PROVE  \E lost \in SUBSET Calls : Keyring!Drop(lost)
<1> DEFINE lost == {c \in Calls : LetInWith(c)' = {}}
<1>1. \A c \in Calls : LetInWith(c)' = IF c \in lost THEN {} ELSE LetInWith(c)
  BY NobodyLetIn
<1>2. Keyring!Drop(lost)
  BY <1>1 DEF Keyring!Drop
<1> QED  BY <1>2

\* Every step is one of the authority's.
LEMMA AuthorityStep ==
    ASSUME TypeInv, ServedForOwnTenant, [Next]_vars
    PROVE  Keyring!Next
<1>1. ASSUME NEW c \in Calls, VerifyAPIKey(c)
      PROVE  Keyring!Next
  BY <1>1, VerifyAdmits DEF VerifyAPIKey, Keyring!Next
<1>2. ASSUME NEW c \in Calls, NEW k \in KeyIds, InsertKey(c, k)
      PROVE  Keyring!Next
  BY <1>2, InsertGrants DEF Keyring!Next
<1>3. ASSUME NEW c \in Calls, RevokeAPIKey(c)
      PROVE  Keyring!Next
  BY <1>3, RevokeWithdraws DEF Keyring!Next
<1>4. ASSUME NEW c \in Calls, Serve(c), calls[c].by \in KeyIds
      PROVE  Keyring!Next
  BY <1>4, ServeUses DEF Keyring!Next
<1>5. ASSUME NEW c \in Calls, Serve(c), calls[c].by \notin KeyIds
      PROVE  Keyring!Next
  <2>1. UNCHANGED <<keys, WrittenByKeys>>
    BY <1>5, WritingsGrow DEF Serve, LetInWith
  <2>2. \A d \in Calls : ~VerifyAPIKey(d)
    BY <1>5 DEF Serve, End, VerifyAPIKey, Go, Idle, TypeInv, TypeOK, Call
  <2> QED  BY <2>1, <2>2, OthersDrop DEF Keyring!Next
<1>6. ASSUME \A c \in Calls : /\ ~VerifyAPIKey(c) /\ ~RevokeAPIKey(c) /\ ~Serve(c)
                              /\ \A k \in KeyIds : ~InsertKey(c, k)
      PROVE  Keyring!Next
  <2>1. UNCHANGED <<keys, WrittenByKeys>>
    BY <1>6, KeySteps, DataSteps, WritingsKept
  <2> QED  BY <1>6, <2>1, OthersDrop DEF Keyring!Next
<1> QED  BY <1>1, <1>2, <1>3, <1>4, <1>5, <1>6

\* Whoever issues, revokes and uses keys at once, and whatever fails or
\* restarts in between: keys are granted and withdrawn once, admit only while
\* in force, and what is written under one is written for its tenant by a call
\* that it admitted.
THEOREM KeysImplementAuthority == Spec => ImplementsAuthority
<1>1. Init => Keyring!Init
  <2> SUFFICES ASSUME Init PROVE Keyring!Init
      OBVIOUS
  <2>1. \A c \in Calls : LetInWith(c) = {}
    BY IdleIsCall DEF Init, LetInWith
  <2>2. WrittenByKeys = {}
    BY DEF Init, WrittenByKeys
  <2> QED  BY <2>1, <2>2 DEF Init, Keyring!Init
<1>2. IInv /\ [Next]_vars => [Keyring!Next]_Keyring!vars
  BY AuthorityStep DEF IInv
<1> QED  BY <1>1, <1>2, IInvSafe, PTL DEF Spec, ImplementsAuthority, Keyring!Spec
=============================================================================
