----------------------------- MODULE AuthSessions -----------------------------
(***************************************************************************)
(* Users, their cached records and their sessions: auth_service.go,        *)
(* user_repository.go, the user and session part of cache_service.go and   *)
(* the user view of user_service.go.                                       *)
(*                                                                         *)
(* One action is one SQL statement or one cache operation with the local   *)
(* code around it.  A statement is applied and answered, applied without   *)
(* its answer reaching the caller, or not applied.                         *)
(*                                                                         *)
(* A user is an e-mail address: it is unique, so it stands for the id too, *)
(* and the two cache keys of a user are one entry.  Of a password hash the *)
(* model keeps whether it is there: `blank' after user.PasswordHash = "".  *)
(***************************************************************************)
EXTENDS Naturals, FiniteSets

CONSTANTS
    User,          \* e-mail addresses
    Currency,      \* currencies a new user gets a wallet in
    Req,           \* goroutines serving requests
    Token,         \* refresh tokens; 32 random bytes never come twice
    OtherAdmin,    \* whether somebody outside User is an administrator
    Miss,          \* nothing cached, no token
    ShortLife,     \* 7 days
    LongLife,      \* 30 days
    MaxTime        \* bound on the clock

Role == {"client", "admin"}
Record == [role : Role, blank : BOOLEAN]

ASSUME AuthAssumption ==
    /\ Miss \notin Token /\ Miss \notin Record
    /\ User # {} /\ Currency # {}
    /\ ShortLife \in Nat \ {0} /\ LongLife \in Nat /\ ShortLife <= LongLife
    /\ MaxTime \in Nat /\ OtherAdmin \in BOOLEAN

VARIABLES
    row,           \* users: "none", or the role of the row
    session,       \* user_sessions: the row of each token, or Miss
    used,          \* tokens that have been drawn
    wallets,       \* the currencies each user has a wallet in
    userCache,     \* user:<id> and user:email:<email>, no TTL
    sessCache,     \* session:<token>: a row and the time it is dropped, or Miss
    admins,        \* users that were given an access token with role admin
    held,          \* refresh tokens clients have been given
    now,
    pc, loc,       \* what each request does next, its local variables
    acked,         \* history: tokens some request has deleted everywhere
    late,          \* history: tokens cached after their row was deleted
    booted,        \* history: users that had a row at the last start
    missed         \* history: wallets whose INSERT failed, or was never reached

store == <<row, session, used, wallets>>
histories == <<acked, late, booted, missed>>
vars == <<store, userCache, sessCache, admins, held, now, pc, loc, histories>>

Session == [user : User, expires : Nat, life : Nat]
Entry == [user : User, expires : Nat, life : Nat, until : Nat]

\* The locals of a request: `role' and `shared' describe its *User, shared when
\* the cache points to the same record; `read' is a session row it has read.
Local ==
    [op : {"register", "login", "refresh", "logout", "view"}, user : User,
     read : Session \cup {Miss}, token : Token \cup {Miss}, new : Token \cup {Miss}, role : Role,
     right : BOOLEAN, remember : BOOLEAN, todo : SUBSET Currency,
     shared : BOOLEAN, ticked : BOOLEAN]

AnyUser == CHOOSE u \in User : TRUE
Job(op, u, t) ==
    [op |-> op, user |-> u, read |-> Miss, token |-> t, new |-> Miss, role |-> "client",
     right |-> TRUE, remember |-> FALSE, todo |-> {}, shared |-> FALSE, ticked |-> FALSE]
Nothing == Job("logout", AnyUser, Miss)

Stage ==
    {"idle", "selectEmail", "fillEmail", "insert", "cacheUser", "addWallet",
     "selectSession", "fillSession", "lookupUser", "selectUser", "fillUser",
     "deleteRow", "dropEntry", "openSession", "cacheSession", "answer", "blankView"}

Init ==
    /\ row = [u \in User |-> "none"]
    /\ session = [t \in Token |-> Miss]
    /\ used = {}
    /\ wallets = [u \in User |-> {}]
    /\ userCache = [u \in User |-> Miss]
    /\ sessCache = [t \in Token |-> Miss]
    /\ admins = {}
    /\ held = {}
    /\ now = 0
    /\ pc = [r \in Req |-> "idle"]
    /\ loc = [r \in Req |-> Nothing]
    /\ acked = {} /\ late = {} /\ booted = {}
    /\ missed = [u \in User |-> {}]

-------------------------------------------------------------------------------
Step(r, from, to) == pc[r] = from /\ pc' = [pc EXCEPT ![r] = to]
Begin(r, job, to) == Step(r, "idle", to) /\ loc' = [loc EXCEPT ![r] = job]
End(r) == pc' = [pc EXCEPT ![r] = "idle"] /\ loc' = [loc EXCEPT ![r] = Nothing]

\* The copy GetUser and GetUserByEmail hand out, or the row just read.
Hold(r, role) == loc' = [loc EXCEPT ![r].role = role]

\* SetUser: the cache now points to r's record, and to nobody else's.
PutUser(r) ==
    LET u == loc[r].user
    IN  /\ userCache' = [userCache EXCEPT ![u] = [role |-> loc[r].role, blank |-> FALSE]]
        /\ loc' = [p \in Req |-> [loc[p] EXCEPT !.shared =
                       IF p = r THEN TRUE ELSE @ /\ loc[p].user # u]]

\* SetUser by a request that ends with it.
PutUserAndEnd(r) ==
    LET u == loc[r].user
    IN  /\ userCache' = [userCache EXCEPT ![u] = [role |-> loc[r].role, blank |-> FALSE]]
        /\ loc' = [p \in Req |-> IF p = r THEN Nothing
                                 ELSE [loc[p] EXCEPT !.shared = @ /\ loc[p].user # u]]
        /\ pc' = [pc EXCEPT ![r] = "idle"]

\* user.PasswordHash = "": reaches the cache if the record is the cached one.
BlankHash(r) ==
    userCache' = IF loc[r].shared THEN [userCache EXCEPT ![loc[r].user].blank = TRUE]
                 ELSE userCache

-------------------------------------------------------------------------------
\* Register and Login start with GetByEmail.  A cached user ends Register with
\* "email already registered", which changes nothing and is no step.
Register(r, u) ==
    /\ userCache[u] = Miss
    /\ Begin(r, Job("register", u, Miss), "selectEmail")
    /\ UNCHANGED <<store, userCache, sessCache, admins, held, now, histories>>

LoginJob(u, right, remember) ==
    [Job("login", u, Miss) EXCEPT !.right = right, !.remember = remember]

\* Mutant of LoginHit: the cache hands out its own record.
LoginHitByPointer(r, u, remember) ==
    /\ userCache[u] # Miss /\ ~userCache[u].blank
    /\ Begin(r, [LoginJob(u, TRUE, remember) EXCEPT !.role = userCache[u].role, !.shared = TRUE],
             "openSession")
    /\ UNCHANGED <<store, userCache, sessCache, admins, held, now, histories>>

\* A cache hit: the copy is compared with the password; a refusal is no step.
LoginHit(r, u, remember) ==
    /\ userCache[u] # Miss /\ ~userCache[u].blank
    /\ Begin(r, [LoginJob(u, TRUE, remember) EXCEPT !.role = userCache[u].role], "openSession")
    /\ UNCHANGED <<store, userCache, sessCache, admins, held, now, histories>>

LoginMiss(r, u, right, remember) ==
    /\ userCache[u] = Miss
    /\ Begin(r, LoginJob(u, right, remember), "selectEmail")
    /\ UNCHANGED <<store, userCache, sessCache, admins, held, now, histories>>

\* The query asks for clients only.  Register takes an error for "no such user".
SelectEmail(r) ==
    /\ pc[r] = "selectEmail"
    /\ \/ row[loc[r].user] = "client" /\ Step(r, "selectEmail", "fillEmail") /\ Hold(r, "client")
       \/ loc[r].op = "register" /\ Step(r, "selectEmail", "insert") /\ UNCHANGED loc
       \/ loc[r].op = "login" /\ End(r)
    /\ UNCHANGED <<store, userCache, sessCache, admins, held, now, histories>>

FillEmail(r) ==
    /\ pc[r] = "fillEmail"
    /\ IF loc[r].op = "login" /\ loc[r].right
       THEN Step(r, "fillEmail", "openSession") /\ PutUser(r)
       ELSE PutUserAndEnd(r)
    /\ UNCHANGED <<store, sessCache, admins, held, now, histories>>

\* UserCreateQuery; users.email is unique.
Insert(r) ==
    /\ pc[r] = "insert"
    /\ \/ /\ row[loc[r].user] = "none"
          /\ row' = [row EXCEPT ![loc[r].user] = "client"]
          /\ \/ Step(r, "insert", "cacheUser") /\ UNCHANGED <<loc, missed>>
             \/ End(r) /\ missed' = [missed EXCEPT ![loc[r].user] = Currency]
       \/ End(r) /\ UNCHANGED <<row, missed>>
    /\ UNCHANGED <<session, used, wallets, userCache, sessCache, admins, held, now,
                   acked, late, booted>>

\* Mutant of CacheUser: the currencies are not cached and their SELECT fails.
CacheUserUnlisted(r) ==
    LET u == loc[r].user
    IN  /\ Step(r, "cacheUser", "openSession")
        /\ userCache' = [userCache EXCEPT ![u] = [role |-> "client", blank |-> FALSE]]
        /\ loc' = [p \in Req |-> [loc[p] EXCEPT !.shared =
                       IF p = r THEN TRUE ELSE @ /\ loc[p].user # u]]
        /\ UNCHANGED <<store, sessCache, admins, held, now, histories>>

\* SetUser in UserRepository.Create; all currencies are cached by the warm-up.
CacheUser(r) ==
    LET u == loc[r].user
    IN  /\ Step(r, "cacheUser", "addWallet")
        /\ userCache' = [userCache EXCEPT ![u] = [role |-> "client", blank |-> FALSE]]
        /\ loc' = [p \in Req |->
                       IF p = r THEN [loc[p] EXCEPT !.shared = TRUE, !.todo = Currency]
                       ELSE [loc[p] EXCEPT !.shared = @ /\ loc[p].user # u]]
        /\ UNCHANGED <<store, sessCache, admins, held, now, histories>>

\* One turn of the loop over the currencies; its error is dropped.
AddWallet(r) ==
    /\ pc[r] = "addWallet"
    /\ \E c \in loc[r].todo :
        /\ \/ /\ wallets' = [wallets EXCEPT ![loc[r].user] = @ \cup {c}]
              /\ UNCHANGED missed
           \/ /\ missed' = [missed EXCEPT ![loc[r].user] = @ \cup {c}]
              /\ UNCHANGED wallets
        /\ loc' = [loc EXCEPT ![r].todo = @ \ {c}]
        /\ pc' = [pc EXCEPT ![r] = IF loc[r].todo = {c} THEN "openSession" ELSE "addWallet"]
    /\ UNCHANGED <<row, session, used, userCache, sessCache, admins, held, now,
                   acked, late, booted>>

-------------------------------------------------------------------------------
\* generateTokensWithRememberMe: the session row, its cache entry, the answer.
\* If the INSERT's answer is lost, nobody ever learns the token of the row.
Life(r) == IF loc[r].remember THEN LongLife ELSE ShortLife

OpenSession(r) ==
    /\ pc[r] = "openSession"
    /\ \/ \E t \in Token :
            /\ t \notin used
            /\ used' = used \cup {t}
            /\ session' = [session EXCEPT ![t] =
                   [user |-> loc[r].user, expires |-> now + Life(r), life |-> Life(r)]]
            /\ loc' = [loc EXCEPT ![r].new = t, ![r].read = session'[t]]
            /\ Step(r, "openSession", "cacheSession")
       \/ End(r) /\ UNCHANGED <<session, used>>
    /\ UNCHANGED <<row, wallets, userCache, sessCache, admins, held, now, histories>>

\* Mutant of PutSession: the TTL is CreatedAt - ExpiresAt.
PutSessionBackwards(t, s) ==
    sessCache' = [sessCache EXCEPT ![t] = [user |-> s.user, expires |-> s.expires,
                                           life |-> s.life, until |-> now - s.life]]

\* SetSession with the TTL ExpiresAt - CreatedAt, which starts to count now.
PutSession(t, s) ==
    sessCache' = [sessCache EXCEPT ![t] = [user |-> s.user, expires |-> s.expires,
                                           life |-> s.life, until |-> now + s.life]]

CacheSession(r) ==
    /\ Step(r, "cacheSession", "answer")
    /\ PutSession(loc[r].new, loc[r].read)
    /\ loc' = [loc EXCEPT ![r].read = Miss]
    /\ UNCHANGED <<store, userCache, admins, held, now, histories>>

\* Mutant of GenerateAccessToken: the role in the claims is always admin.
GenerateAccessTokenAsAdmin(r) == admins' = admins \cup {loc[r].user}

\* The access token carries the role its user had in the request.  That access
\* tokens expire is left out: an expired one opens nothing.
GenerateAccessToken(r) ==
    admins' = IF loc[r].role = "admin" THEN admins \cup {loc[r].user} ELSE admins

\* The hash is blanked and the client gets its two tokens.
Answer(r) ==
    /\ pc[r] = "answer"
    /\ BlankHash(r)
    /\ held' = held \cup {loc[r].new}
    /\ GenerateAccessToken(r)
    /\ End(r)
    /\ UNCHANGED <<store, sessCache, now, histories>>

-------------------------------------------------------------------------------
\* RefreshToken starts with GetSessionByToken.
Refresh(r, t) ==
    /\ t \in held
    /\ IF sessCache[t] = Miss THEN Begin(r, Job("refresh", AnyUser, t), "selectSession")
       ELSE Begin(r, Job("refresh", sessCache[t].user, t), "lookupUser")
    /\ UNCHANGED <<store, userCache, sessCache, admins, held, now, histories>>

\* Mutant of SelectSession: the query does not ask for expires_at > NOW().
SelectSessionExpired(r) ==
    /\ pc[r] = "selectSession"
    /\ LET s == session[loc[r].token]
       IN  \/ /\ s # Miss
              /\ Step(r, "selectSession", "fillSession")
              /\ loc' = [loc EXCEPT ![r].read = s]
           \/ End(r)
    /\ UNCHANGED <<store, userCache, sessCache, admins, held, now, histories>>

SelectSession(r) ==
    /\ pc[r] = "selectSession"
    /\ LET s == session[loc[r].token]
       IN  \/ /\ s # Miss /\ now < s.expires
              /\ Step(r, "selectSession", "fillSession")
              /\ loc' = [loc EXCEPT ![r].read = s]
           \/ End(r)
    /\ UNCHANGED <<store, userCache, sessCache, admins, held, now, histories>>

FillSession(r) ==
    LET t == loc[r].token
    IN  /\ Step(r, "fillSession", "lookupUser")
        /\ PutSession(t, loc[r].read)
        /\ loc' = [loc EXCEPT ![r].user = loc[r].read.user, ![r].read = Miss]
        /\ late' = IF session[t] = Miss THEN late \cup {t} ELSE late
        /\ UNCHANGED <<store, userCache, admins, held, now,
                       acked, booted, missed>>

\* GetByID for RefreshToken and for the admin's GetUserWithWallets.  On a hit
\* the view blanks the hash of its copy and is done.
LookupUser(r) ==
    /\ pc[r] = "lookupUser"
    /\ LET c == userCache[loc[r].user]
       IN  IF c = Miss THEN Step(r, "lookupUser", "selectUser") /\ UNCHANGED loc
           ELSE IF loc[r].op = "view" THEN End(r)
           ELSE Step(r, "lookupUser", "deleteRow") /\ Hold(r, c.role)
    /\ UNCHANGED <<store, userCache, sessCache, admins, held, now, histories>>

SelectUser(r) ==
    /\ pc[r] = "selectUser"
    /\ \/ /\ row[loc[r].user] # "none"
          /\ Step(r, "selectUser", "fillUser") /\ Hold(r, row[loc[r].user])
       \/ End(r)
    /\ UNCHANGED <<store, userCache, sessCache, admins, held, now, histories>>

FillUser(r) ==
    /\ Step(r, "fillUser", IF loc[r].op = "view" THEN "blankView" ELSE "deleteRow")
    /\ PutUser(r)
    /\ UNCHANGED <<store, sessCache, admins, held, now, histories>>

BlankView(r) ==
    /\ pc[r] = "blankView"
    /\ BlankHash(r)
    /\ End(r)
    /\ UNCHANGED <<store, sessCache, admins, held, now, histories>>

Logout(r, t) ==
    /\ t \in held
    /\ Begin(r, Job("logout", AnyUser, t), "deleteRow")
    /\ UNCHANGED <<store, userCache, sessCache, admins, held, now, histories>>

\* UserSessionDeleteQuery; that no row was there to delete is not noticed.
DeleteRow(r) ==
    /\ pc[r] = "deleteRow"
    /\ \/ /\ session' = [session EXCEPT ![loc[r].token] = Miss]
          /\ (Step(r, "deleteRow", "dropEntry") /\ UNCHANGED loc) \/ End(r)
       \/ End(r) /\ UNCHANGED session
    /\ UNCHANGED <<row, used, wallets, userCache, sessCache, admins, held, now, histories>>

\* Mutant of DropEntry: a refresh leaves the entry of the old token alone.
DropEntryOfLogout(r) ==
    LET t == loc[r].token
    IN  /\ pc[r] = "dropEntry"
        /\ acked' = acked \cup {t} /\ late' = late \ {t}
        /\ IF loc[r].op = "refresh"
           THEN Step(r, "dropEntry", "openSession") /\ UNCHANGED <<loc, sessCache>>
           ELSE End(r) /\ sessCache' = [sessCache EXCEPT ![t] = Miss]
        /\ UNCHANGED <<store, userCache, admins, held, now, booted, missed>>

\* DeleteSession of the cache; a refresh goes on to generateTokens.
DropEntry(r) ==
    LET t == loc[r].token
    IN  /\ pc[r] = "dropEntry"
        /\ sessCache' = [sessCache EXCEPT ![t] = Miss]
        /\ acked' = acked \cup {t} /\ late' = late \ {t}
        /\ IF loc[r].op = "refresh" THEN Step(r, "dropEntry", "openSession") /\ UNCHANGED loc
           ELSE End(r)
        /\ UNCHANGED <<store, userCache, admins, held, now,
                       booted, missed>>

-------------------------------------------------------------------------------
\* Authenticate and RequireRole("admin"): somebody has such an access token.
RequireRole == OtherAdmin \/ admins # {}

\* GET /admin/users/{id}.
View(r, u) ==
    /\ RequireRole
    /\ Begin(r, Job("view", u, Miss), "lookupUser")
    /\ UNCHANGED <<store, userCache, sessCache, admins, held, now, histories>>

\* The README's way to create an administrator: an UPDATE by hand.
Promote(u) ==
    /\ row[u] = "client"
    /\ row' = [row EXCEPT ![u] = "admin"]
    /\ UNCHANGED <<session, used, wallets, userCache, sessCache, admins, held, now, pc, loc, histories>>

\* The clock counts the shortest life; a request lasts less than one tick.
\* go-cache's Get does not return an entry that has expired.
Tick ==
    /\ now < MaxTime
    /\ \A r \in Req : ~loc[r].ticked
    /\ now' = now + 1
    /\ loc' = [r \in Req |-> [loc[r] EXCEPT !.ticked = pc[r] # "idle"]]
    /\ sessCache' = [t \in Token |->
           IF sessCache[t] # Miss /\ sessCache[t].until > now' THEN sessCache[t] ELSE Miss]
    /\ UNCHANGED <<store, userCache, admins, held, pc, histories>>

\* The row of u is there, but Register has not been through all currencies.
Registering(u) == \E r \in Req : pc[r] \in {"cacheUser", "addWallet"} /\ loc[r].user = u

\* The process dies and starts again; loadUsers caches every row, or it exits.
Restart ==
    /\ pc' = [r \in Req |-> "idle"]
    /\ loc' = [r \in Req |-> Nothing]
    /\ userCache' = [u \in User |-> IF row[u] = "none" THEN Miss
                                    ELSE [role |-> row[u], blank |-> FALSE]]
    /\ sessCache' = [t \in Token |-> Miss]
    /\ late' = {}
    /\ booted' = {u \in User : row[u] # "none"}
    /\ missed' = [u \in User |-> IF Registering(u) THEN Currency \ wallets[u] ELSE missed[u]]
    /\ UNCHANGED <<store, admins, held, now, acked>>

Serve(r) ==
    \/ SelectEmail(r) \/ FillEmail(r) \/ Insert(r) \/ CacheUser(r) \/ AddWallet(r)
    \/ OpenSession(r) \/ CacheSession(r) \/ Answer(r)
    \/ SelectSession(r) \/ FillSession(r) \/ LookupUser(r) \/ SelectUser(r) \/ FillUser(r)
    \/ BlankView(r) \/ DeleteRow(r) \/ DropEntry(r)

Call(r) ==
    \/ \E u \in User : Register(r, u) \/ View(r, u)
    \/ \E u \in User, remember \in BOOLEAN :
          \/ LoginHit(r, u, remember)
          \/ \E right \in BOOLEAN : LoginMiss(r, u, right, remember)
    \/ \E t \in Token : Refresh(r, t) \/ Logout(r, t)

Next ==
    \/ \E r \in Req : Call(r) \/ Serve(r)
    \/ \E u \in User : Promote(u)
    \/ Tick
    \/ Restart

Spec == Init /\ [][Next]_vars

-------------------------------------------------------------------------------
TypeOK ==
    /\ row \in [User -> Role \cup {"none"}]
    /\ session \in [Token -> Session \cup {Miss}]
    /\ used \subseteq Token
    /\ wallets \in [User -> SUBSET Currency]
    /\ userCache \in [User -> Record \cup {Miss}]
    /\ sessCache \in [Token -> Entry \cup {Miss}]
    /\ admins \subseteq User
    /\ held \subseteq Token
    /\ now \in Nat
    /\ pc \in [Req -> Stage] /\ loc \in [Req -> Local]
    /\ acked \subseteq Token /\ late \subseteq Token
    /\ booted \subseteq User
    /\ missed \in [User -> SUBSET Currency]

\* A token that a logout or a refresh has removed from the table and from the
\* cache is never accepted again, unless a read-through fill that had read the
\* row before put it back (user_repository.go:168 after :186).  So a refresh
\* token is good for one exchange, and one more for each refresh that was
\* under way together with the first (auth_service.go:113-121).
SpentTokenIsDead ==
    \A t \in acked : session[t] = Miss /\ (sessCache[t] # Miss => t \in late)

\* A cached session outlives expires_at, because the TTL of a fill starts anew
\* (user_repository.go:168), but never by more than one lifetime: the row is
\* read only before it expires.
OutlivesByOneLife ==
    \A t \in Token : sessCache[t] # Miss =>
        sessCache[t].until <= sessCache[t].expires + sessCache[t].life

\* Users that were there when the process started can log in until it stops:
\* their cached records are handed out as copies, so that no generateTokens
\* and no GetUser blanks their hash (cache_service.go:52 and :67).
BootedUsersCanLogIn ==
    \A u \in booted : userCache[u] # Miss /\ ~userCache[u].blank

\* A registered user has a wallet in every currency but those whose INSERT
\* failed or was never reached (auth_service.go:69-79); no later step of the
\* program creates the missing ones.
WalletsAccountedFor ==
    \A u \in User :
        row[u] = "none" \/ Registering(u) \/ wallets[u] = Currency \ missed[u]

\* Roles spread from the table to the cache, to requests and to access tokens,
\* never ahead of it: whoever passes RequireRole("admin") is an administrator
\* in the table, whatever copies of his record exist.
RolesNotAhead ==
    \A u \in User : row[u] # "admin" =>
        /\ u \notin admins
        /\ userCache[u] # Miss => userCache[u].role = "client"
        /\ \A r \in Req : loc[r].user = u => loc[r].role = "client"

\* What the comments at cache_service.go:52 and :67 promise: changes a request
\* makes to its record do not reach the cached one.
CachedHashesIntact == \A u \in User : userCache[u] # Miss => ~userCache[u].blank

===============================================================================
