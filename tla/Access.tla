-------------------------------- MODULE Access --------------------------------
(***************************************************************************)
(* Tenants, their API keys, the requests these admit, and the sessions of  *)
(* the admin console.  The console and the TUI create and rename tenants   *)
(* and issue and revoke keys; clients call with a key or a signed token.   *)
(* A call is authenticated first and does its work later; other calls,     *)
(* the passing of time and a restart of the server come between.           *)
(*                                                                         *)
(* tenants and keys are collections of the database; sessions is a table   *)
(* of the server process, under its mutex.  Definitions marked "Fault" are *)
(* wrong variants of the definition after them, used only to show that a   *)
(* property notices.                                                       *)
(***************************************************************************)
EXTENDS Naturals

CONSTANTS
    Slugs,         \* slugs of tenants, as normalizeSlug leaves them
    Spellings,     \* ways a tenant is written in a header or a form
    DisplayNames,  \* names of tenants
    KeyIds,        \* ids that issued keys are given
    Sessions,      \* tokens that logins draw
    Jwts,          \* signed tokens that clients hold
    Calls,         \* calls that may be under way at once
    TTL,           \* adminSessionTTL
    Leeway,        \* what the JWT library tolerates between two clocks
    MaxTime,       \* the clock's last reading (bound)
    MaxCalls,      \* calls made (bound)
    None           \* absence of a tenant, key, session or argument

\* A spelling is the slug itself, text that normalizes to it (capitals,
\* blanks), or text that slugPattern refuses.
Forms == {"slug", "folded", "malformed"}

ASSUME SpellingAssumption == Spellings \subseteq [slug: Slugs, form: Forms]
\* A token may lack any of its three times; without an expiry it never expires.
ASSUME JwtAssumption ==
    Jwts \subseteq [tenant: Spellings, issued: Nat \cup {None},
                    notBefore: Nat \cup {None}, expires: Nat \cup {None}]
ASSUME TimeAssumption == TTL \in Nat /\ Leeway \in Nat
ASSUME BoundAssumption == MaxTime \in Nat /\ MaxCalls \in Nat

VARIABLES
    tenants,   \* tenants[s]: the display name of the tenant with slug s
    keys,      \* keys[k]: the document of key k
    issued,    \* keys whose secret has been shown to somebody
    sessions,  \* sessions[t]: when session t expires
    cookies,   \* cookies[t]: the expiry the browser was told for t
    calls,     \* calls[c]: where call c is, and what it holds
    clock,     \* the server's clock
    data,      \* what served requests have written, and for which tenant
    arrivals,  \* calls made so far
    ended,     \* history: sessions logged out, or lost by a restart
    begun      \* history: revoked keys and ended sessions when c arrived

vars == <<tenants, keys, issued, sessions, cookies, calls, clock, data, arrivals, ended, begun>>

Key == [tenant: Slugs, revokedAt: Nat \cup {None}]
Credentials == KeyIds \cup Jwts

\* What a call asks for: one of the four administrative operations, or a
\* tenant's service.
Tasks == {"create", "rename", "issue", "revoke", "request"}
Order == [task: Tasks, tenant: Spellings, arg: DisplayNames \cup KeyIds \cup {None}]

\* What administrators ask for.
Orders ==
    [task: {"create", "rename"}, tenant: Spellings, arg: DisplayNames]
        \cup [task: {"issue"}, tenant: Spellings, arg: {None}]
        \cup [task: {"revoke"}, tenant: Spellings, arg: KeyIds]

\* "login": a login that has computed its expiry and waits for the mutex;
\* "session", "credential": a call that is to be authenticated; "admitted":
\* an administrative call before its first database call; "insert": an
\* issue that has found its tenant; "reply": one that has stored its key;
\* "serve": a request past authMiddleware.
PCs == {"idle", "login", "session", "credential", "admitted", "insert", "reply", "serve"}
Idle == [pc |-> "idle", by |-> None, order |-> None, now |-> 0, key |-> None]
Call == [pc: PCs, by: Credentials \cup Sessions \cup {None}, order: Order \cup {None},
         now: Nat, key: KeyIds \cup {None}]

ASSUME NoneAssumption ==
    None \notin Slugs \cup DisplayNames \cup KeyIds \cup Sessions \cup Jwts \cup Nat \cup Key \cup Order

\* Keys, tokens and sessions are told apart: a key's secret begins with key_.
ASSUME CredentialAssumption ==
    KeyIds \cap Jwts = {} /\ KeyIds \cap Sessions = {} /\ Jwts \cap Sessions = {}

TypeOK ==
    /\ tenants \in [Slugs -> DisplayNames \cup {None}]
    /\ keys \in [KeyIds -> Key \cup {None}]
    /\ issued \subseteq KeyIds
    /\ sessions \in [Sessions -> Nat \cup {None}]
    /\ cookies \in [Sessions -> Nat \cup {None}]
    /\ calls \in [Calls -> Call]
    /\ clock \in 0..MaxTime
    /\ data \subseteq [tenant: Spellings, by: Credentials]
    /\ arrivals \in 0..MaxCalls
    /\ ended \subseteq Sessions
    /\ begun \in [Calls -> [revoked: SUBSET KeyIds, ended: SUBSET Sessions]]

Init ==
    /\ tenants = [s \in Slugs |-> None]
    /\ keys = [k \in KeyIds |-> None]
    /\ issued = {}
    /\ sessions = [t \in Sessions |-> None]
    /\ cookies = [t \in Sessions |-> None]
    /\ calls = [c \in Calls |-> Idle]
    /\ clock = 0
    /\ data = {}
    /\ arrivals = 0
    /\ ended = {}
    /\ begun = [c \in Calls |-> [revoked |-> {}, ended |-> {}]]

-----------------------------------------------------------------------------
(* Reading the state. *)

normalizeSlug(spelling) == IF spelling.form = "malformed" THEN None ELSE spelling.slug

\* The tenant of that spelling exists.
Known(spelling) == normalizeSlug(spelling) # None /\ tenants[normalizeSlug(spelling)] # None

Revoked == {k \in KeyIds : keys[k] # None /\ keys[k].revokedAt # None}

\* The key is one of that tenant; it is, and has not been revoked.
OfTenant(k, spelling) == keys[k] # None /\ keys[k].tenant = normalizeSlug(spelling)
Active(k, spelling) == OfTenant(k, spelling) /\ keys[k].revokedAt = None

\* HMACVerifier.Verify, and the comparison with the header.
TokenAdmits(j, spelling) ==
    /\ j.expires # None => clock < j.expires + Leeway
    /\ j.notBefore # None => j.notBefore <= clock + Leeway
    /\ j.issued # None => j.issued <= clock + Leeway
    /\ j.tenant = spelling

\* removeExpiredLocked.
Unexpired(now) ==
    [t \in Sessions |-> IF sessions[t] # None /\ sessions[t] > now THEN sessions[t] ELSE None]

-----------------------------------------------------------------------------
(* Calls. *)

Begin(c, call) ==
    /\ calls[c] = Idle
    /\ arrivals < MaxCalls
    /\ arrivals' = arrivals + 1
    /\ calls' = [calls EXCEPT ![c] = call]
    /\ begun' = [begun EXCEPT ![c] = [revoked |-> Revoked, ended |-> ended]]

\* c goes on to step p.
Go(c, p) == calls' = [calls EXCEPT ![c].pc = p] /\ UNCHANGED <<arrivals, begun>>
End(c) == calls' = [calls EXCEPT ![c] = Idle] /\ UNCHANGED <<arrivals, begun>>

Doing(c, task) == calls[c].pc = "admitted" /\ calls[c].order.task = task
\* A login whose name and password are right draws a token and computes its
\* expiry; it enters the table later, under the mutex.
StartLogin(c, t) ==
    /\ cookies[t] = None
    /\ \A d \in Calls : calls[d].by # t
    /\ Begin(c, [Idle EXCEPT !.pc = "login", !.by = t, !.now = clock])
    /\ UNCHANGED <<tenants, keys, issued, sessions, cookies, clock, data, ended>>

AddSession(c) ==
    LET t == calls[c].by
        expiresAt == calls[c].now + TTL
    IN  /\ calls[c].pc = "login"
        /\ sessions' = [Unexpired(clock) EXCEPT ![t] = expiresAt]
        /\ cookies' = [cookies EXCEPT ![t] = expiresAt]
        /\ End(c)
        /\ UNCHANGED <<tenants, keys, issued, clock, data, ended>>

\* Fault: only the browser forgets the session.
LogoutInBrowser(t) ==
    /\ cookies[t] # None
    /\ ended' = ended \cup {t}
    /\ UNCHANGED <<tenants, keys, issued, sessions, cookies, calls, clock, data, arrivals, begun>>
Logout(t) ==
    /\ cookies[t] # None
    /\ sessions' = [sessions EXCEPT ![t] = None]
    /\ ended' = ended \cup {t}
    /\ UNCHANGED <<tenants, keys, issued, cookies, calls, clock, data, arrivals, begun>>

\* A call to the console's API: the clock is read before the mutex is taken.
CallConsole(c, t, order) ==
    /\ cookies[t] # None
    /\ Begin(c, [Idle EXCEPT !.pc = "session", !.by = t, !.order = order, !.now = clock])
    /\ UNCHANGED <<tenants, keys, issued, sessions, cookies, clock, data, ended>>

\* validSession, under the mutex.
\* Fault: expired sessions are neither removed nor refused.
CheckPresence(c) ==
    /\ calls[c].pc = "session"
    /\ IF sessions[calls[c].by] # None THEN Go(c, "admitted") ELSE End(c)
    /\ UNCHANGED <<tenants, keys, issued, sessions, cookies, clock, data, ended>>
CheckSession(c) ==
    /\ calls[c].pc = "session"
    /\ sessions' = Unexpired(calls[c].now)
    /\ IF sessions'[calls[c].by] # None THEN Go(c, "admitted") ELSE End(c)
    /\ UNCHANGED <<tenants, keys, issued, cookies, clock, data, ended>>

\* An operator of the TUI needs no session, and names one of the tenants
\* that the TUI has listed.
CallTerminal(c, order) ==
    /\ order.task # "create" => order.tenant.form = "slug" /\ Known(order.tenant)
    /\ Begin(c, [Idle EXCEPT !.pc = "admitted", !.order = order])
    /\ UNCHANGED <<tenants, keys, issued, sessions, cookies, clock, data, ended>>

CallClient(c, by, spelling) ==
    /\ by \in issued \cup Jwts
    /\ Begin(c, [Idle EXCEPT !.pc = "credential", !.by = by,
                             !.order = [task |-> "request", tenant |-> spelling, arg |-> None]])
    /\ UNCHANGED <<tenants, keys, issued, sessions, cookies, clock, data, ended>>

-----------------------------------------------------------------------------
(* Administration, once admitted. *)

CreateTenant(c) ==
    LET slug == normalizeSlug(calls[c].order.tenant)
    IN  /\ Doing(c, "create")
        /\ slug # None
        /\ tenants[slug] = None
        /\ tenants' = [tenants EXCEPT ![slug] = calls[c].order.arg]
        /\ End(c)
        /\ UNCHANGED <<keys, issued, sessions, cookies, clock, data, ended>>

UpdateTenantName(c) ==
    LET spelling == calls[c].order.tenant
    IN  /\ Doing(c, "rename")
        /\ Known(spelling)
        /\ tenants' = [tenants EXCEPT ![normalizeSlug(spelling)] = calls[c].order.arg]
        /\ End(c)
        /\ UNCHANGED <<keys, issued, sessions, cookies, clock, data, ended>>

\* IssueAPIKey: the tenant is found, the key stored, and its secret shown.
FindTenant(c) ==
    /\ Doing(c, "issue")
    /\ Known(calls[c].order.tenant)
    /\ Go(c, "insert")
    /\ UNCHANGED <<tenants, keys, issued, sessions, cookies, clock, data, ended>>

\* Fault: the key is stored under the tenant as the form spells it.
InsertForSpelling(c, k) ==
    /\ calls[c].pc = "insert"
    /\ keys[k] = None
    /\ keys' = [keys EXCEPT ![k] = [tenant |-> calls[c].order.tenant, revokedAt |-> None]]
    /\ calls' = [calls EXCEPT ![c].pc = "reply", ![c].key = k]
    /\ UNCHANGED <<tenants, issued, sessions, cookies, clock, data, arrivals, ended, begun>>
InsertKey(c, k) ==
    /\ calls[c].pc = "insert"
    /\ keys[k] = None
    /\ keys' = [keys EXCEPT ![k] = [tenant |-> normalizeSlug(calls[c].order.tenant),
                                    revokedAt |-> None]]
    /\ calls' = [calls EXCEPT ![c].pc = "reply", ![c].key = k]
    /\ UNCHANGED <<tenants, issued, sessions, cookies, clock, data, arrivals, ended, begun>>

ReplyKey(c) ==
    /\ calls[c].pc = "reply"
    /\ issued' = issued \cup {calls[c].key}
    /\ End(c)
    /\ UNCHANGED <<tenants, keys, sessions, cookies, clock, data, ended>>

RevokeAPIKey(c) ==
    LET k == calls[c].order.arg
    IN  /\ Doing(c, "revoke")
        /\ Active(k, calls[c].order.tenant)
        /\ keys' = [keys EXCEPT ![k].revokedAt = clock]
        /\ End(c)
        /\ UNCHANGED <<tenants, issued, sessions, cookies, clock, data, ended>>

\* The operation does not apply and the call returns an error.
RefuseOrder(c) ==
    LET order == calls[c].order
    IN  /\ calls[c].pc = "admitted"
        /\ \/ order.task = "create" /\ (normalizeSlug(order.tenant) = None \/ Known(order.tenant))
           \/ order.task \in {"rename", "issue"} /\ ~Known(order.tenant)
           \/ order.task = "revoke" /\ ~Active(order.arg, order.tenant)
        /\ End(c)
        /\ UNCHANGED <<tenants, keys, issued, sessions, cookies, clock, data, ended>>
-----------------------------------------------------------------------------
(* Requests of clients: authMiddleware, then the handler. *)

\* VerifyAPIKey reads the key's document once.
\* Fault: the tenant is left out of the filter.
VerifyForAnyTenant(c) ==
    /\ calls[c].pc = "credential"
    /\ calls[c].by \in KeyIds
    /\ keys[calls[c].by] # None /\ keys[calls[c].by].revokedAt = None
    /\ Go(c, "serve")
    /\ UNCHANGED <<tenants, keys, issued, sessions, cookies, clock, data, ended>>
\* Fault: revokedAt is not looked at.
VerifyRevoked(c) ==
    /\ calls[c].pc = "credential"
    /\ calls[c].by \in KeyIds
    /\ OfTenant(calls[c].by, calls[c].order.tenant)
    /\ Go(c, "serve")
    /\ UNCHANGED <<tenants, keys, issued, sessions, cookies, clock, data, ended>>
VerifyAPIKey(c) ==
    /\ calls[c].pc = "credential"
    /\ calls[c].by \in KeyIds
    /\ Active(calls[c].by, calls[c].order.tenant)
    /\ Go(c, "serve")
    /\ UNCHANGED <<tenants, keys, issued, sessions, cookies, clock, data, ended>>

VerifyToken(c) ==
    /\ calls[c].pc = "credential"
    /\ calls[c].by \in Jwts
    /\ TokenAdmits(calls[c].by, calls[c].order.tenant)
    /\ Go(c, "serve")
    /\ UNCHANGED <<tenants, keys, issued, sessions, cookies, clock, data, ended>>

RefuseRequest(c) ==
    /\ calls[c].pc = "credential"
    /\ calls[c].by \in KeyIds => ~Active(calls[c].by, calls[c].order.tenant)
    /\ calls[c].by \in Jwts => ~TokenAdmits(calls[c].by, calls[c].order.tenant)
    /\ End(c)
    /\ UNCHANGED <<tenants, keys, issued, sessions, cookies, clock, data, ended>>

\* The handler writes under the tenant as the header spells it.
Serve(c) ==
    /\ calls[c].pc = "serve"
    /\ data' = data \cup {[tenant |-> calls[c].order.tenant, by |-> calls[c].by]}
    /\ End(c)
    /\ UNCHANGED <<tenants, keys, issued, sessions, cookies, clock, ended>>

-----------------------------------------------------------------------------
(* What happens to all of them. *)

\* A database call fails, or the reply is lost.
Fail(c) ==
    /\ calls[c].pc \in {"credential", "admitted", "insert", "reply", "serve"}
    /\ End(c)
    /\ UNCHANGED <<tenants, keys, issued, sessions, cookies, clock, data, ended>>

Tick ==
    /\ clock < MaxTime
    /\ clock' = clock + 1
    /\ UNCHANGED <<tenants, keys, issued, sessions, cookies, calls, data, arrivals, ended, begun>>

\* Calls of the TUI, a process of its own.
AtTerminal(c) == calls[c].by = None

\* The server stops and starts: its table and the calls it served are gone.
Restart ==
    /\ sessions' = [t \in Sessions |-> None]
    /\ ended' = ended \cup {t \in Sessions : cookies[t] # None}
    /\ calls' = [c \in Calls |-> IF AtTerminal(c) THEN calls[c] ELSE Idle]
    /\ UNCHANGED <<tenants, keys, issued, cookies, clock, data, arrivals, begun>>

Administer(c) ==
    \/ CreateTenant(c) \/ UpdateTenantName(c)
    \/ FindTenant(c) \/ (\E k \in KeyIds : InsertKey(c, k)) \/ ReplyKey(c)
    \/ RevokeAPIKey(c) \/ RefuseOrder(c)

Authenticate(c) ==
    CheckSession(c) \/ VerifyAPIKey(c) \/ VerifyToken(c) \/ RefuseRequest(c)

Arrive(c) ==
    \/ \E t \in Sessions : StartLogin(c, t)
    \/ \E t \in Sessions, order \in Orders : CallConsole(c, t, order)
    \/ \E order \in Orders : CallTerminal(c, order)
    \/ \E by \in Credentials, spelling \in Spellings : CallClient(c, by, spelling)

Next ==
    \/ \E c \in Calls :
        Arrive(c) \/ AddSession(c) \/ Authenticate(c) \/ Administer(c) \/ Serve(c) \/ Fail(c)
    \/ \E t \in Sessions : Logout(t)
    \/ Tick
    \/ Restart

Spec == Init /\ [][Next]_vars

-----------------------------------------------------------------------------
(* Properties. *)

\* Every key belongs to a tenant that exists, although IssueAPIKey looks the
\* tenant up in one database call and stores the key in another.
KeysHaveTenant == \A k \in KeyIds : keys[k] # None => tenants[keys[k].tenant] # None

\* A request is let in with a key only if the key had not yet been revoked
\* when the request arrived; revocation stops everything that comes later,
\* while requests already let in go on (VerifyAPIKey, authMiddleware).
RevokedKeyAdmitsNothingNew ==
    \A c \in Calls :
        calls[c].pc = "serve" /\ calls[c].by \in KeyIds => calls[c].by \notin begun[c].revoked

\* What a key has written belongs to the key's own tenant, and what a token
\* has written to the tenant of its claims, however the header was spelled.
WrittenForOwnTenant ==
    \A d \in data :
        /\ d.by \in KeyIds => keys[d.by] # None /\ normalizeSlug(d.tenant) = keys[d.by].tenant
        /\ d.by \in Jwts => d.tenant = d.by.tenant

\* An administrative call is let in only by a session that, when the call
\* arrived, had not expired, been logged out or been lost by a restart
\* (validSession takes the mutex after it has read the clock).
AdmittedSessionWasLive ==
    \A c \in Calls :
        calls[c].pc \in {"admitted", "insert", "reply"} /\ calls[c].by \in Sessions =>
            /\ calls[c].by \notin begun[c].ended
            /\ cookies[calls[c].by] # None
            /\ calls[c].now < cookies[calls[c].by]

\* A session that was logged out or lost never comes back to the table,
\* whatever logins, sweeps and restarts follow.
EndedSessionsStayEnded == \A t \in ended : sessions[t] = None

\* A key keeps its tenant for good, and the time of its first revocation
\* stands although two operators may revoke it (RevokeAPIKey's filter).
FirstRevocationStands ==
    [][\A k \in KeyIds : keys[k] # None =>
        /\ keys'[k] # None /\ keys'[k].tenant = keys[k].tenant
        /\ keys[k].revokedAt # None => keys'[k] = keys[k]]_vars

\* The key that a call past authMiddleware was let in with, if it was a key.
LetInWith(c) == IF calls[c].pc = "serve" THEN {calls[c].by} \cap KeyIds ELSE {}

\* What keys have written, and the tenant each spelling stands for.
WrittenByKeys ==
    {[by |-> d.by, tenant |-> normalizeSlug(d.tenant)] : d \in {e \in data : e.by \in KeyIds}}

Keyring == INSTANCE Authority WITH
    Keys <- KeyIds, Tenants <- Slugs, Callers <- Calls, Times <- 0..MaxTime, Nothing <- None,
    grants <- keys, admitted <- [c \in Calls |-> LetInWith(c)], writings <- WrittenByKeys

\* Keys are granted once, withdrawn once, and admit calls only while in force;
\* nothing is written under a key but for its tenant, by a call it admitted
\* (VerifyAPIKey and the handler are separate database calls, and revocations,
\* other spellings of the tenant, failures and restarts come between).
ImplementsAuthority == Keyring!Spec
=============================================================================
