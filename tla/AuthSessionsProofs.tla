--------------------------- MODULE AuthSessionsProofs ---------------------------
(***************************************************************************)
(* Proofs about AuthSessions, for any users, currencies, requests, tokens  *)
(* and lifetimes.                                                          *)
(***************************************************************************)
EXTENDS AuthSessions, TLAPS

\* What a stage s says of the locals l of a request.
Fits(s, l) ==
    /\ s \in {"fillSession", "cacheSession"} => l.read \in Session
    /\ s \in {"cacheSession", "answer"} => l.new \in Token
    /\ s # "idle" /\ l.op \in {"refresh", "logout"} => l.token \in Token
    /\ s \in {"selectSession", "fillSession"} => l.op = "refresh"
    /\ s \in {"deleteRow", "dropEntry"} => l.op \in {"refresh", "logout"}
    /\ s \in {"lookupUser", "selectUser", "fillUser"} => l.op \in {"refresh", "view"}
    /\ s \in {"idle", "selectSession", "fillSession"} => ~l.shared /\ l.role = "client"

StagesFit == \A r \in Req : Fits(pc[r], loc[r])

\* Only records in the cache are shared.
SharedCached == \A r \in Req : loc[r].shared => userCache[loc[r].user] # Miss

LocalsFit ==
    pc \in [Req -> Stage] /\ loc \in [Req -> Local] /\ StagesFit /\ SharedCached

\* The rest of the type.
DataTyped ==
    /\ row \in [User -> Role \cup {"none"}]
    /\ session \in [Token -> Session \cup {Miss}]
    /\ used \subseteq Token
    /\ wallets \in [User -> SUBSET Currency]
    /\ userCache \in [User -> Record \cup {Miss}]
    /\ sessCache \in [Token -> Entry \cup {Miss}]
    /\ admins \subseteq User
    /\ held \subseteq Token
    /\ now \in Nat
    /\ acked \subseteq Token /\ late \subseteq Token
    /\ booted \subseteq User
    /\ missed \in [User -> SUBSET Currency]

Shape == DataTyped /\ LocalsFit

-------------------------------------------------------------------------------
(* How the locals of the requests change *)

LEMMA NothingFits == Nothing \in Local /\ Fits("idle", Nothing) /\ ~Nothing.shared
  BY AuthAssumption DEF Nothing, Job, Local, Fits, AnyUser, Role

LEMMA JobTyped ==
    ASSUME NEW u \in User, NEW t \in Token \cup {Miss},
           NEW op \in {"register", "login", "refresh", "logout", "view"}
    PROVE  /\ Job(op, u, t) \in Local
           /\ ~Job(op, u, t).shared /\ Job(op, u, t).role = "client"
           /\ Job(op, u, t).op = op /\ Job(op, u, t).user = u /\ Job(op, u, t).token = t
  BY AuthAssumption DEF Job, Local, Role

LEMMA LoginJobTyped ==
    ASSUME NEW u \in User, NEW right \in BOOLEAN, NEW remember \in BOOLEAN
    PROVE  /\ LoginJob(u, right, remember) \in Local
           /\ ~LoginJob(u, right, remember).shared /\ LoginJob(u, right, remember).role = "client"
           /\ LoginJob(u, right, remember).op = "login" /\ LoginJob(u, right, remember).user = u
  BY AuthAssumption DEF Job, LoginJob, Local, Role

\* No entry of the user cache goes.
Kept == \A u \in User : userCache[u] # Miss => userCache'[u] # Miss

\* A request moves to another stage with other locals.
LEMMA MoveFits ==
    ASSUME LocalsFit, Kept,
           NEW r \in Req, NEW s \in Stage, NEW l \in Local, Fits(s, l),
           l.shared => userCache'[l.user] # Miss,
           pc' = [pc EXCEPT ![r] = s], loc' = [loc EXCEPT ![r] = l]
    PROVE  LocalsFit'
<1>1. pc' \in [Req -> Stage] /\ loc' \in [Req -> Local]
  BY DEF LocalsFit
<1>2. StagesFit'
  BY DEF LocalsFit, StagesFit
<1>3. SharedCached'
  <2> SUFFICES ASSUME NEW p \in Req, loc'[p].shared
               PROVE  userCache'[loc'[p].user] # Miss
    BY DEF SharedCached
  <2>1. CASE p = r
    BY <2>1 DEF LocalsFit
  <2>2. CASE p # r
    <3>1. loc'[p] = loc[p] /\ loc[p].user \in User
      BY <2>2 DEF LocalsFit, Local
    <3> QED
      BY <3>1 DEF LocalsFit, SharedCached, Kept
  <2> QED
    BY <2>1, <2>2
<1> QED
  BY <1>1, <1>2, <1>3 DEF LocalsFit

LEMMA EndFits ==
    ASSUME LocalsFit, Kept, NEW r \in Req, End(r)
    PROVE  LocalsFit'
  BY NothingFits, MoveFits, "idle" \in Stage DEF End, Stage

\* Its locals stay.
LEMMA StepFits ==
    ASSUME LocalsFit, Kept, NEW r \in Req, NEW s \in Stage,
           Fits(s, loc[r]), pc' = [pc EXCEPT ![r] = s], loc' = loc
    PROVE  LocalsFit'
<1>1. loc[r] \in Local /\ loc' = [loc EXCEPT ![r] = loc[r]]
  BY DEF LocalsFit
<1>2. loc[r].shared => userCache'[loc[r].user] # Miss
  BY <1>1 DEF LocalsFit, SharedCached, Kept, Local
<1> QED
  BY <1>1, <1>2, MoveFits

\* A record is put into the user cache: nobody shares the one it replaces.
Unshared(l, u) == [l EXCEPT !.shared = @ /\ l.user # u]

LEMMA UnsharedFits ==
    ASSUME NEW l \in Local, NEW s, NEW u, Fits(s, l)
    PROVE  /\ Unshared(l, u) \in Local /\ Fits(s, Unshared(l, u))
           /\ Unshared(l, u).shared => l.shared
  BY DEF Unshared, Local, Fits

LEMMA PutFits ==
    ASSUME LocalsFit, Kept, NEW r \in Req, NEW s \in Stage, NEW l \in Local, NEW u, Fits(s, l),
           l.shared => userCache'[l.user] # Miss,
           pc' = [pc EXCEPT ![r] = s],
           loc' = [p \in Req |-> IF p = r THEN l ELSE Unshared(loc[p], u)]
    PROVE  LocalsFit'
<1>1. \A p \in Req : loc[p] \in Local /\ Fits(pc[p], loc[p]) /\ loc[p].user \in User
  BY DEF LocalsFit, StagesFit, Local
<1>2. pc' \in [Req -> Stage] /\ loc' \in [Req -> Local]
  BY <1>1, UnsharedFits DEF LocalsFit
<1>3. StagesFit'
  BY <1>1, <1>2, UnsharedFits DEF LocalsFit, StagesFit
<1>4. SharedCached'
  <2> SUFFICES ASSUME NEW p \in Req, loc'[p].shared
               PROVE  userCache'[loc'[p].user] # Miss
    BY DEF SharedCached
  <2>1. CASE p = r
    BY <2>1
  <2>2. CASE p # r
    <3>1. loc'[p] = Unshared(loc[p], u)
      BY <2>2
    <3>2. Unshared(loc[p], u).shared => loc[p].shared
      BY <1>1, UnsharedFits
    <3>3. Unshared(loc[p], u).user = loc[p].user
      BY <1>1 DEF Unshared, Local
    <3>4. loc[p].shared
      BY <3>1, <3>2, Zenon
    <3>5. userCache[loc[p].user] # Miss
      BY <3>4 DEF LocalsFit, SharedCached
    <3> QED
      BY <1>1, <3>1, <3>3, <3>5 DEF Kept
  <2> QED
    BY <2>1, <2>2
<1> QED
  BY <1>2, <1>3, <1>4 DEF LocalsFit

-------------------------------------------------------------------------------
(* Every action keeps the locals fit *)

LEMMA CallsFit ==
    ASSUME Shape, NEW r \in Req, Call(r)
    PROVE  LocalsFit'
<1>0. LocalsFit /\ Kept /\ pc[r] = "idle"
  BY DEF Shape, Call, Register, View, LoginHit, LoginMiss, Refresh, Logout, Begin, Step, Kept
<1>1. ASSUME NEW u \in User, Register(r, u) PROVE LocalsFit'
  <2>1. /\ Job("register", u, Miss) \in Local /\ ~Job("register", u, Miss).shared
        /\ Fits("selectEmail", Job("register", u, Miss)) /\ "selectEmail" \in Stage
    BY JobTyped DEF Fits, Stage
  <2> QED
    BY <1>0, <1>1, <2>1, MoveFits DEF Register, Begin, Step
<1>2. ASSUME NEW u \in User, View(r, u) PROVE LocalsFit'
  <2>1. /\ Job("view", u, Miss) \in Local /\ ~Job("view", u, Miss).shared
        /\ Fits("lookupUser", Job("view", u, Miss)) /\ "lookupUser" \in Stage
    BY JobTyped DEF Fits, Stage
  <2> QED
    BY <1>0, <1>2, <2>1, MoveFits DEF View, Begin, Step
<1>3. ASSUME NEW u \in User, NEW remember \in BOOLEAN, LoginHit(r, u, remember)
      PROVE  LocalsFit'
  <2> DEFINE l == [LoginJob(u, TRUE, remember) EXCEPT !.role = userCache[u].role]
  <2>1. userCache[u].role \in Role
    BY <1>3 DEF LoginHit, Shape, DataTyped, Record
  <2>2. l \in Local /\ ~l.shared /\ l.op = "login"
    BY <2>1, AuthAssumption DEF Job, LoginJob, Local, Role
  <2>3. Fits("openSession", l) /\ "openSession" \in Stage
    BY <2>2 DEF Fits, Stage
  <2>4. pc' = [pc EXCEPT ![r] = "openSession"] /\ loc' = [loc EXCEPT ![r] = l]
    BY <1>3 DEF LoginHit, Begin, Step
  <2> HIDE DEF l
  <2> QED
    BY <1>0, <2>2, <2>3, <2>4, MoveFits
<1>4. ASSUME NEW u \in User, NEW right \in BOOLEAN, NEW remember \in BOOLEAN,
             LoginMiss(r, u, right, remember)
      PROVE  LocalsFit'
  <2> DEFINE l == LoginJob(u, right, remember)
  <2>1. l \in Local /\ ~l.shared /\ l.op = "login"
    BY LoginJobTyped
  <2>2. Fits("selectEmail", l) /\ "selectEmail" \in Stage
    BY <2>1 DEF Fits, Stage
  <2>3. pc' = [pc EXCEPT ![r] = "selectEmail"] /\ loc' = [loc EXCEPT ![r] = l]
    BY <1>4 DEF LoginMiss, Begin, Step
  <2> HIDE DEF l
  <2> QED
    BY <1>0, <2>1, <2>2, <2>3, MoveFits
<1>5. ASSUME NEW t \in Token, Refresh(r, t) PROVE LocalsFit'
  <2> DEFINE u == IF sessCache[t] = Miss THEN AnyUser ELSE sessCache[t].user
             s == IF sessCache[t] = Miss THEN "selectSession" ELSE "lookupUser"
             l == Job("refresh", u, t)
  <2>1. u \in User
    BY AuthAssumption DEF Shape, DataTyped, Entry, AnyUser
  <2> HIDE DEF u
  <2>2. l \in Local /\ ~l.shared /\ l.role = "client" /\ l.op = "refresh" /\ l.token = t
    BY <2>1, JobTyped
  <2>3. Fits(s, l) /\ s \in Stage
    BY <2>2 DEF Fits, Stage
  <2>4. pc' = [pc EXCEPT ![r] = s] /\ loc' = [loc EXCEPT ![r] = l]
    BY <1>5 DEF Refresh, Begin, Step, u
  <2> HIDE DEF s, l
  <2> QED
    BY <1>0, <2>2, <2>3, <2>4, MoveFits
<1>6. ASSUME NEW t \in Token, Logout(r, t) PROVE LocalsFit'
  <2> DEFINE l == Job("logout", AnyUser, t)
  <2>1. l \in Local /\ ~l.shared /\ l.op = "logout" /\ l.token = t
    BY AuthAssumption, JobTyped DEF AnyUser
  <2>2. Fits("deleteRow", l) /\ "deleteRow" \in Stage
    BY <2>1 DEF Fits, Stage
  <2>3. pc' = [pc EXCEPT ![r] = "deleteRow"] /\ loc' = [loc EXCEPT ![r] = l]
    BY <1>6 DEF Logout, Begin, Step
  <2> HIDE DEF l
  <2> QED
    BY <1>0, <2>1, <2>2, <2>3, MoveFits
<1> QED
  BY <1>1, <1>2, <1>3, <1>4, <1>5, <1>6 DEF Call

LEMMA SelectsFit ==
    ASSUME Shape, NEW r \in Req,
           SelectEmail(r) \/ SelectSession(r) \/ SelectUser(r) \/ LookupUser(r)
    PROVE  LocalsFit'
<1>0. LocalsFit /\ Kept /\ loc[r] \in Local /\ Fits(pc[r], loc[r])
  BY DEF Shape, LocalsFit, StagesFit, SelectEmail, SelectSession, SelectUser, LookupUser, Kept
<1>1. CASE End(r)
  BY <1>0, <1>1, EndFits
<1>2. ASSUME NEW s \in Stage, NEW role \in Role,
             pc[r] \in {"selectEmail", "lookupUser", "selectUser"},
             s \in {"fillEmail", "deleteRow", "fillUser"},
             Fits(s, loc[r]), Hold(r, role), Step(r, pc[r], s)
      PROVE  LocalsFit'
  <2> DEFINE l == [loc[r] EXCEPT !.role = role]
  <2>1. l \in Local /\ Fits(s, l) /\ l.shared = loc[r].shared /\ l.user = loc[r].user
    BY <1>0, <1>2 DEF Local, Fits
  <2>2. pc' = [pc EXCEPT ![r] = s] /\ loc' = [loc EXCEPT ![r] = l]
    BY <1>2 DEF Hold, Step
  <2>3. l.shared => userCache'[l.user] # Miss
    BY <1>0, <2>1 DEF LocalsFit, SharedCached, Kept, Local
  <2> HIDE DEF l
  <2> QED
    BY <1>0, <2>1, <2>2, <2>3, MoveFits
<1>3. CASE SelectEmail(r) /\ ~End(r)
  <2>1. CASE Hold(r, "client") /\ Step(r, "selectEmail", "fillEmail")
    BY <1>0, <1>2, <2>1, "fillEmail" \in Stage, "client" \in Role DEF Step, Fits, Stage, Role
  <2>2. CASE loc[r].op = "register" /\ Step(r, "selectEmail", "insert") /\ loc' = loc
    <3>1. Fits("insert", loc[r]) /\ "insert" \in Stage
      BY <1>0, <2>2 DEF Fits, Step, Stage
    <3> QED
      BY <1>0, <2>2, <3>1, StepFits DEF Step
  <2> QED
    BY <1>3, <2>1, <2>2 DEF SelectEmail
<1>4. CASE SelectSession(r) /\ ~End(r)
  <2> DEFINE s == session[loc[r].token]
             l == [loc[r] EXCEPT !.read = s]
  <2>0. pc[r] = "selectSession" /\ s # Miss /\ Step(r, "selectSession", "fillSession")
        /\ loc' = [loc EXCEPT ![r] = l]
    BY <1>4 DEF SelectSession
  <2>1. loc[r].token \in Token
    BY <1>0, <2>0 DEF Fits
  <2>2. s \in Session
    BY <2>0, <2>1 DEF Shape, DataTyped
  <2> HIDE DEF s
  <2>3. l \in Local /\ Fits("fillSession", l) /\ ~l.shared /\ "fillSession" \in Stage
    BY <1>0, <2>0, <2>2 DEF Local, Fits, Stage
  <2> HIDE DEF l
  <2> QED
    BY <1>0, <2>0, <2>3, MoveFits DEF Step
<1>5. CASE SelectUser(r) /\ ~End(r)
  <2>1. /\ pc[r] = "selectUser" /\ row[loc[r].user] \in Role
        /\ Step(r, "selectUser", "fillUser") /\ Hold(r, row[loc[r].user])
    BY <1>0, <1>5 DEF SelectUser, Shape, DataTyped, Local
  <2>2. Fits("fillUser", loc[r]) /\ "fillUser" \in Stage
    BY <1>0, <2>1 DEF Fits, Stage
  <2> QED
    BY <1>2, <2>1, <2>2
<1>6. CASE LookupUser(r) /\ ~End(r)
  <2>0. pc[r] = "lookupUser" /\ loc[r].user \in User
    BY <1>0, <1>6 DEF LookupUser, Local
  <2>1. CASE userCache[loc[r].user] = Miss
    <3>1. Fits("selectUser", loc[r]) /\ "selectUser" \in Stage
      BY <1>0, <2>0 DEF Fits, Stage
    <3> QED
      BY <1>0, <1>6, <2>1, <3>1, StepFits DEF LookupUser, Step
  <2>2. CASE userCache[loc[r].user] # Miss
    <3>1. /\ userCache[loc[r].user].role \in Role /\ loc[r].op # "view"
          /\ Step(r, "lookupUser", "deleteRow") /\ Hold(r, userCache[loc[r].user].role)
      BY <1>6, <2>0, <2>2 DEF LookupUser, Shape, DataTyped, Record
    <3>2. Fits("deleteRow", loc[r]) /\ "deleteRow" \in Stage
      BY <1>0, <2>0, <3>1 DEF Fits, Stage
    <3> QED
      BY <1>2, <2>0, <3>1, <3>2
  <2> QED
    BY <2>1, <2>2
<1> QED
  BY <1>1, <1>3, <1>4, <1>5, <1>6

\* SetUser keeps what other users have in the cache and adds a record.
LEMMA PutKept ==
    ASSUME Shape, NEW u \in User, NEW rec \in Record,
           userCache' = [userCache EXCEPT ![u] = rec]
    PROVE  Kept /\ userCache'[u] # Miss
  BY AuthAssumption DEF Shape, DataTyped, Kept

LEMMA PutsFit ==
    ASSUME Shape, NEW r \in Req, FillEmail(r) \/ FillUser(r) \/ CacheUser(r)
    PROVE  LocalsFit'
<1> DEFINE u == loc[r].user
<1>0. LocalsFit /\ loc[r] \in Local /\ Fits(pc[r], loc[r]) /\ u \in User /\ loc[r].role \in Role
  BY DEF Shape, LocalsFit, StagesFit, Local
<1>1. ASSUME NEW s \in Stage, Fits(s, loc[r]), s \notin {"idle", "selectSession", "fillSession"},
             pc' = [pc EXCEPT ![r] = s], PutUser(r)
      PROVE  LocalsFit'
  <2> DEFINE l == [loc[r] EXCEPT !.shared = TRUE]
  <2>1. l \in Local /\ Fits(s, l) /\ l.user = u
    BY <1>0, <1>1 DEF Local, Fits
  <2>2. Kept /\ userCache'[u] # Miss
    BY <1>0, <1>1, PutKept DEF PutUser, Record
  <2>3. loc' = [p \in Req |-> IF p = r THEN l ELSE Unshared(loc[p], u)]
    BY <1>1 DEF PutUser, Unshared
  <2> HIDE DEF l, u
  <2> QED
    BY <1>0, <1>1, <2>1, <2>2, <2>3, PutFits
<1>2. CASE FillEmail(r) /\ PutUserAndEnd(r)
  <2>1. Kept
    BY <1>0, <1>2, PutKept DEF PutUserAndEnd, Record
  <2>2. loc' = [p \in Req |-> IF p = r THEN Nothing ELSE Unshared(loc[p], u)]
    BY <1>2 DEF PutUserAndEnd, Unshared
  <2>3. pc' = [pc EXCEPT ![r] = "idle"] /\ "idle" \in Stage
    BY <1>2 DEF PutUserAndEnd, Stage
  <2> HIDE DEF u
  <2> QED
    BY <1>0, <2>1, <2>2, <2>3, NothingFits, PutFits
<1>3. CASE FillEmail(r) /\ ~PutUserAndEnd(r)
  <2>1. /\ loc[r].op = "login" /\ pc' = [pc EXCEPT ![r] = "openSession"] /\ PutUser(r)
    BY <1>3 DEF FillEmail, Step
  <2>2. Fits("openSession", loc[r]) /\ "openSession" \in Stage
    BY <2>1 DEF Fits, Stage
  <2> QED
    BY <1>1, <2>1, <2>2
<1>4. CASE FillUser(r)
  <2> DEFINE s == IF loc[r].op = "view" THEN "blankView" ELSE "deleteRow"
  <2>1. pc[r] = "fillUser" /\ pc' = [pc EXCEPT ![r] = s] /\ PutUser(r)
    BY <1>4 DEF FillUser, Step
  <2>2. Fits(s, loc[r]) /\ s \in Stage
    BY <1>0, <2>1 DEF Fits, Stage
  <2> QED
    BY <1>1, <2>1, <2>2
<1>5. CASE CacheUser(r)
  <2> DEFINE l == [loc[r] EXCEPT !.shared = TRUE, !.todo = Currency]
  <2>0. pc[r] = "cacheUser" /\ pc' = [pc EXCEPT ![r] = "addWallet"]
    BY <1>5 DEF CacheUser, Step
  <2>1. l \in Local /\ l.user = u /\ "addWallet" \in Stage
    BY <1>0 DEF Local, Stage
  <2>2. Fits("addWallet", l)
    BY <1>0, <2>0 DEF Local, Fits
  <2>3. Kept /\ userCache'[u] # Miss
    BY <1>0, <1>5, PutKept DEF CacheUser, Record, Role
  <2>4. loc' = [p \in Req |-> IF p = r THEN l ELSE Unshared(loc[p], u)]
    BY <1>5 DEF CacheUser, Unshared
  <2> HIDE DEF l, u
  <2> QED
    BY <1>0, <2>0, <2>1, <2>2, <2>3, <2>4, PutFits
<1> QED
  BY <1>2, <1>3, <1>4, <1>5

\* Blanking a hash does not take the record away.
LEMMA BlankKept ==
    ASSUME Shape, NEW r \in Req, BlankHash(r)
    PROVE  Kept /\ userCache' \in [User -> Record \cup {Miss}]
<1>1. loc[r].user \in User /\ (loc[r].shared => userCache[loc[r].user] # Miss)
  BY DEF Shape, LocalsFit, SharedCached, Local
<1>2. CASE ~loc[r].shared
  BY <1>2 DEF BlankHash, Kept, Shape, DataTyped
<1>3. CASE loc[r].shared
  <2> DEFINE c == [userCache[loc[r].user] EXCEPT !.blank = TRUE]
  <2>1. userCache' = [userCache EXCEPT ![loc[r].user] = c]
    BY <1>3 DEF BlankHash
  <2>2. c \in Record
    BY <1>1, <1>3 DEF Shape, DataTyped, Record
  <2> HIDE DEF c
  <2> QED
    BY <1>1, <2>1, <2>2, AuthAssumption DEF Kept, Shape, DataTyped
<1> QED
  BY <1>2, <1>3

LEMMA RegistrationFits ==
    ASSUME Shape, NEW r \in Req, Insert(r) \/ AddWallet(r)
    PROVE  LocalsFit'
<1>0. LocalsFit /\ Kept /\ loc[r] \in Local /\ Fits(pc[r], loc[r])
  BY DEF Shape, LocalsFit, StagesFit, Insert, AddWallet, Kept
<1>1. CASE End(r)
  BY <1>0, <1>1, EndFits
<1>2. CASE Insert(r) /\ ~End(r)
  <2>1. pc[r] = "insert" /\ Step(r, "insert", "cacheUser") /\ loc' = loc
    BY <1>2 DEF Insert
  <2>2. Fits("cacheUser", loc[r]) /\ "cacheUser" \in Stage
    BY <1>0, <2>1 DEF Fits, Stage
  <2> QED
    BY <1>0, <2>1, <2>2, StepFits DEF Step
<1>3. CASE AddWallet(r)
  <2>1. PICK c \in loc[r].todo :
          /\ loc' = [loc EXCEPT ![r].todo = @ \ {c}]
          /\ pc' = [pc EXCEPT ![r] = IF loc[r].todo = {c} THEN "openSession" ELSE "addWallet"]
    BY <1>3 DEF AddWallet
  <2> DEFINE l == [loc[r] EXCEPT !.todo = @ \ {c}]
             s == IF loc[r].todo = {c} THEN "openSession" ELSE "addWallet"
  <2>2. pc[r] = "addWallet"
    BY <1>3 DEF AddWallet
  <2>3. l \in Local /\ Fits(s, l) /\ s \in Stage /\ l.shared = loc[r].shared /\ l.user = loc[r].user
    BY <1>0, <2>2 DEF Local, Fits, Stage
  <2>4. pc' = [pc EXCEPT ![r] = s] /\ loc' = [loc EXCEPT ![r] = l]
    BY <2>1
  <2>5. l.shared => userCache'[l.user] # Miss
    BY <1>0, <2>3 DEF LocalsFit, SharedCached, Kept, Local
  <2> HIDE DEF l, s
  <2> QED
    BY <1>0, <2>3, <2>4, <2>5, MoveFits
<1> QED
  BY <1>1, <1>2, <1>3

LEMMA SessionsFit ==
    ASSUME Shape, NEW r \in Req, OpenSession(r) \/ CacheSession(r) \/ FillSession(r)
    PROVE  LocalsFit'
<1>0. LocalsFit /\ Kept /\ loc[r] \in Local /\ Fits(pc[r], loc[r])
  BY DEF Shape, LocalsFit, StagesFit, OpenSession, CacheSession, FillSession, Kept
<1>1. CASE End(r)
  BY <1>0, <1>1, EndFits
<1>2. CASE OpenSession(r) /\ ~End(r)
  <2>1. PICK t \in Token :
          /\ session' = [session EXCEPT ![t] =
                 [user |-> loc[r].user, expires |-> now + Life(r), life |-> Life(r)]]
          /\ loc' = [loc EXCEPT ![r].new = t, ![r].read = session'[t]]
          /\ Step(r, "openSession", "cacheSession")
    BY <1>2 DEF OpenSession
  <2> DEFINE x == [user |-> loc[r].user, expires |-> now + Life(r), life |-> Life(r)]
             l == [loc[r] EXCEPT !.new = t, !.read = x]
  <2>2. x \in Session
    BY <1>0, AuthAssumption DEF Session, Local, Life, Shape, DataTyped
  <2>3. session'[t] = x
    BY <2>1 DEF Shape, DataTyped
  <2>4. loc' = [loc EXCEPT ![r] = l]
    BY <2>1, <2>3
  <2> HIDE DEF x
  <2>5. /\ l \in Local /\ Fits("cacheSession", l) /\ "cacheSession" \in Stage
        /\ l.shared = loc[r].shared /\ l.user = loc[r].user
    BY <1>0, <2>1, <2>2 DEF Local, Fits, Stage, Step
  <2>6. l.shared => userCache'[l.user] # Miss
    BY <1>0, <2>5 DEF LocalsFit, SharedCached, Kept, Local
  <2> HIDE DEF l
  <2> QED
    BY <1>0, <2>1, <2>4, <2>5, <2>6, MoveFits DEF Step
<1>3. CASE CacheSession(r)
  <2> DEFINE l == [loc[r] EXCEPT !.read = Miss]
  <2>1. /\ pc[r] = "cacheSession" /\ pc' = [pc EXCEPT ![r] = "answer"]
        /\ loc' = [loc EXCEPT ![r] = l]
    BY <1>3 DEF CacheSession, Step
  <2>2. /\ l \in Local /\ Fits("answer", l) /\ "answer" \in Stage
        /\ l.shared = loc[r].shared /\ l.user = loc[r].user
    BY <1>0, <2>1 DEF Local, Fits, Stage
  <2>3. l.shared => userCache'[l.user] # Miss
    BY <1>0, <2>2 DEF LocalsFit, SharedCached, Kept, Local
  <2> HIDE DEF l
  <2> QED
    BY <1>0, <2>1, <2>2, <2>3, MoveFits
<1>4. CASE FillSession(r)
  <2> DEFINE l == [loc[r] EXCEPT !.user = loc[r].read.user, !.read = Miss]
  <2>1. /\ pc[r] = "fillSession" /\ pc' = [pc EXCEPT ![r] = "lookupUser"]
        /\ loc' = [loc EXCEPT ![r] = l]
    BY <1>4 DEF FillSession, Step
  <2>2. loc[r].read.user \in User
    BY <1>0, <2>1 DEF Fits, Session
  <2>3. l \in Local /\ Fits("lookupUser", l) /\ ~l.shared /\ "lookupUser" \in Stage
    BY <1>0, <2>1, <2>2 DEF Local, Fits, Stage
  <2> HIDE DEF l
  <2> QED
    BY <1>0, <2>1, <2>3, MoveFits
<1> QED
  BY <1>1, <1>2, <1>3, <1>4

LEMMA EndingsFit ==
    ASSUME Shape, NEW r \in Req, Answer(r) \/ BlankView(r) \/ DeleteRow(r) \/ DropEntry(r)
    PROVE  LocalsFit'
<1>0. LocalsFit /\ Kept /\ loc[r] \in Local /\ Fits(pc[r], loc[r])
  BY BlankKept DEF Shape, LocalsFit, StagesFit, Answer, BlankView, DeleteRow, DropEntry, Kept
<1>1. CASE End(r)
  BY <1>0, <1>1, EndFits
<1>2. CASE DeleteRow(r) /\ ~End(r)
  <2>1. Step(r, "deleteRow", "dropEntry") /\ loc' = loc
    BY <1>2 DEF DeleteRow
  <2>2. Fits("dropEntry", loc[r]) /\ "dropEntry" \in Stage
    BY <1>0, <2>1 DEF Fits, Stage, Step
  <2> QED
    BY <1>0, <2>1, <2>2, StepFits DEF Step
<1>3. CASE DropEntry(r) /\ ~End(r)
  <2>1. Step(r, "dropEntry", "openSession") /\ loc' = loc
    BY <1>3 DEF DropEntry
  <2>2. Fits("openSession", loc[r]) /\ "openSession" \in Stage
    BY <1>0, <2>1 DEF Fits, Stage, Step
  <2> QED
    BY <1>0, <2>1, <2>2, StepFits DEF Step
<1> QED
  BY <1>1, <1>2, <1>3 DEF Answer, BlankView

LEMMA ServesFit ==
    ASSUME Shape, NEW r \in Req, Serve(r)
    PROVE  LocalsFit'
  BY SelectsFit, PutsFit, RegistrationFits, SessionsFit, EndingsFit DEF Serve

LEMMA EnvironmentFits ==
    ASSUME Shape, (\E u \in User : Promote(u)) \/ Tick \/ Restart
    PROVE  LocalsFit'
<1>1. CASE \E u \in User : Promote(u)
  BY <1>1 DEF Promote, Shape, LocalsFit, StagesFit, SharedCached
<1>2. CASE Tick
  <2>1. \A r \in Req : loc[r] \in Local /\ Fits(pc[r], loc[r])
    BY DEF Shape, LocalsFit, StagesFit
  <2>2. ASSUME NEW r \in Req
        PROVE  /\ loc'[r] \in Local /\ Fits(pc'[r], loc'[r])
               /\ loc'[r].shared = loc[r].shared /\ loc'[r].user = loc[r].user
    <3> DEFINE l == [loc[r] EXCEPT !.ticked = pc[r] # "idle"]
    <3>1. l \in Local /\ Fits(pc[r], l) /\ l.shared = loc[r].shared /\ l.user = loc[r].user
      BY <2>1 DEF Local, Fits
    <3>2. loc'[r] = l /\ pc'[r] = pc[r]
      BY <1>2 DEF Tick
    <3> HIDE DEF l
    <3> QED
      BY <3>1, <3>2
  <2>3. loc' \in [Req -> Local] /\ pc' \in [Req -> Stage]
    BY <1>2, <2>2 DEF Tick, Shape, LocalsFit
  <2> QED
    BY <1>2, <2>2, <2>3 DEF Tick, Shape, LocalsFit, StagesFit, SharedCached
<1>3. CASE Restart
  <2>1. \A r \in Req : pc'[r] = "idle" /\ loc'[r] = Nothing
    BY <1>3 DEF Restart
  <2>2. pc' \in [Req -> Stage] /\ loc' \in [Req -> Local]
    BY <1>3, NothingFits DEF Restart, Stage
  <2> QED
    BY <2>1, <2>2, NothingFits DEF LocalsFit, StagesFit, SharedCached
<1> QED
  BY <1>1, <1>2, <1>3

-------------------------------------------------------------------------------
(* The type *)

LEMMA PutSessionTyped ==
    ASSUME DataTyped, NEW t \in Token, NEW x \in Session, PutSession(t, x)
    PROVE  sessCache' \in [Token -> Entry \cup {Miss}]
<1> DEFINE e == [user |-> x.user, expires |-> x.expires, life |-> x.life, until |-> now + x.life]
<1>1. e \in Entry
  BY DEF DataTyped, Session, Entry
<1>2. sessCache' = [sessCache EXCEPT ![t] = e]
  BY DEF PutSession
<1> HIDE DEF e
<1> QED
  BY <1>1, <1>2 DEF DataTyped

LEMMA CallsTyped ==
    ASSUME Shape, NEW r \in Req, Call(r)
    PROVE  DataTyped'
  BY DEF Shape, DataTyped, Call, Register, View, LoginHit, LoginMiss, Refresh, Logout,
         store, histories

LEMMA ServesTyped ==
    ASSUME Shape, NEW r \in Req, Serve(r)
    PROVE  DataTyped'
<1>0. /\ DataTyped /\ loc[r] \in Local /\ Fits(pc[r], loc[r]) /\ loc[r].user \in User
      /\ loc[r].role \in Role
  BY DEF Shape, LocalsFit, StagesFit, Local
<1>1. CASE SelectEmail(r) \/ SelectSession(r) \/ LookupUser(r) \/ SelectUser(r)
  BY <1>0, <1>1 DEF DataTyped, SelectEmail, SelectSession, LookupUser, SelectUser, store, histories
<1>2. ASSUME NEW rec \in Record, userCache' = [userCache EXCEPT ![loc[r].user] = rec],
             UNCHANGED <<store, sessCache, admins, held, now, histories>>
      PROVE  DataTyped'
  BY <1>0, <1>2 DEF DataTyped, store, histories
<1>3. CASE FillEmail(r) \/ CacheUser(r) \/ FillUser(r)
  <2>1. [role |-> loc[r].role, blank |-> FALSE] \in Record
        /\ [role |-> "client", blank |-> FALSE] \in Record
    BY <1>0 DEF Record, Role
  <2> QED
    BY <1>2, <1>3, <2>1 DEF FillEmail, CacheUser, FillUser, PutUser, PutUserAndEnd
<1>4. CASE Insert(r)
  BY <1>0, <1>4 DEF DataTyped, Insert, Role
<1>5. CASE AddWallet(r)
  BY <1>0, <1>5 DEF DataTyped, AddWallet, Local
<1>6. CASE OpenSession(r)
  <2>1. CASE End(r) /\ UNCHANGED <<session, used>>
    BY <1>0, <1>6, <2>1 DEF DataTyped, OpenSession, histories
  <2>2. ASSUME NEW t \in Token, used' = used \cup {t},
               session' = [session EXCEPT ![t] =
                   [user |-> loc[r].user, expires |-> now + Life(r), life |-> Life(r)]]
        PROVE  DataTyped'
    <3>1. [user |-> loc[r].user, expires |-> now + Life(r), life |-> Life(r)] \in Session
      BY <1>0, AuthAssumption DEF Session, Life, DataTyped
    <3> QED
      BY <1>0, <1>6, <2>2, <3>1 DEF DataTyped, OpenSession, histories
  <2> QED
    BY <1>6, <2>1, <2>2 DEF OpenSession
<1>7. CASE CacheSession(r)
  <2>1. loc[r].new \in Token /\ loc[r].read \in Session
    BY <1>0, <1>7 DEF CacheSession, Step, Fits
  <2>2. sessCache' \in [Token -> Entry \cup {Miss}]
    BY <1>0, <1>7, <2>1, PutSessionTyped DEF CacheSession
  <2> QED
    BY <1>0, <1>7, <2>2 DEF DataTyped, CacheSession, store, histories
<1>8. CASE FillSession(r)
  <2>1. loc[r].token \in Token /\ loc[r].read \in Session
    BY <1>0, <1>8 DEF FillSession, Step, Fits
  <2>2. sessCache' \in [Token -> Entry \cup {Miss}]
    BY <1>0, <1>8, <2>1, PutSessionTyped DEF FillSession
  <2> QED
    BY <1>0, <1>8, <2>1, <2>2 DEF DataTyped, FillSession, store
<1>9. CASE Answer(r)
  <2>1. loc[r].new \in Token
    BY <1>0, <1>9 DEF Answer, Fits
  <2>2. userCache' \in [User -> Record \cup {Miss}]
    BY <1>9, BlankKept DEF Answer
  <2> QED
    BY <1>0, <1>9, <2>1, <2>2 DEF DataTyped, Answer, GenerateAccessToken, store, histories
<1>10. CASE BlankView(r)
  <2>1. userCache' \in [User -> Record \cup {Miss}]
    BY <1>10, BlankKept DEF BlankView
  <2> QED
    BY <1>0, <1>10, <2>1 DEF DataTyped, BlankView, store, histories
<1>11. CASE DeleteRow(r)
  BY <1>0, <1>11 DEF DataTyped, DeleteRow, histories
<1>12. CASE DropEntry(r)
  <2>1. loc[r].token \in Token
    BY <1>0, <1>12 DEF DropEntry, End, Step, Fits
  <2> QED
    BY <1>0, <1>12, <2>1 DEF DataTyped, DropEntry, store
<1> QED
  BY <1>1, <1>3, <1>4, <1>5, <1>6, <1>7, <1>8, <1>9, <1>10, <1>11, <1>12 DEF Serve

LEMMA EnvironmentTyped ==
    ASSUME Shape, (\E u \in User : Promote(u)) \/ Tick \/ Restart
    PROVE  DataTyped'
<1>1. CASE \E u \in User : Promote(u)
  BY <1>1 DEF Shape, DataTyped, Promote, Role, histories
<1>2. CASE Tick
  BY <1>2 DEF Shape, DataTyped, Tick, store, histories
<1>3. CASE Restart
  BY <1>3 DEF Shape, DataTyped, Restart, Record, Role, store
<1> QED
  BY <1>1, <1>2, <1>3

\* The shape is inductive.
LEMMA ShapeStart == Init => Shape
<1> SUFFICES ASSUME Init PROVE Shape
  OBVIOUS
<1>1. DataTyped
  BY DEF Init, DataTyped, Role
<1>2. pc \in [Req -> Stage] /\ loc \in [Req -> Local]
  BY NothingFits DEF Init, Stage
<1>3. \A r \in Req : pc[r] = "idle" /\ loc[r] = Nothing
  BY DEF Init
<1>4. StagesFit /\ SharedCached
  BY <1>3, NothingFits DEF StagesFit, SharedCached
<1> QED
  BY <1>1, <1>2, <1>4 DEF Shape, LocalsFit

LEMMA ShapeStep == Shape /\ [Next]_vars => Shape'
<1> SUFFICES ASSUME Shape, [Next]_vars PROVE Shape'
  OBVIOUS
<1>1. CASE UNCHANGED vars
  BY <1>1 DEF Shape, DataTyped, LocalsFit, StagesFit, SharedCached, vars, store, histories
<1>2. CASE Next
  BY <1>2, CallsFit, ServesFit, EnvironmentFits, CallsTyped, ServesTyped, EnvironmentTyped
     DEF Next, Shape
<1> QED
  BY <1>1, <1>2

LEMMA ShapeHolds == Spec => []Shape
  BY ShapeStart, ShapeStep, PTL DEF Spec

\* Every variable keeps its type (auth_service.go, user_repository.go), for any
\* number of requests.
THEOREM TypeCorrect == Spec => []TypeOK
<1>1. Shape => TypeOK
  BY DEF Shape, DataTyped, LocalsFit, TypeOK
<1> QED
  BY <1>1, ShapeHolds, PTL

-------------------------------------------------------------------------------
(* What a step of one request does to the locals of the others *)

\* A request that is not at work keeps its place and its locals, but it may no
\* longer share its record.
Keeps(p) ==
    /\ pc'[p] = pc[p]
    /\ loc'[p].op = loc[p].op /\ loc'[p].user = loc[p].user /\ loc'[p].role = loc[p].role
    /\ loc'[p].token = loc[p].token /\ loc'[p].new = loc[p].new /\ loc'[p].read = loc[p].read
    /\ loc'[p].todo = loc[p].todo /\ loc'[p].ticked = loc[p].ticked
    /\ loc'[p].shared => loc[p].shared

LEMMA SameKeeps == ASSUME NEW p, pc'[p] = pc[p], loc'[p] = loc[p] PROVE Keeps(p)
  BY DEF Keeps

LEMMA UnsharedKeeps ==
    ASSUME NEW p, NEW u, loc[p] \in Local, pc'[p] = pc[p], loc'[p] = Unshared(loc[p], u)
    PROVE  Keeps(p)
<1> DEFINE l == loc[p]
           m == Unshared(l, u)
<1>1. l \in Local
  OBVIOUS
<1> HIDE DEF l
<1>2. /\ m.op = l.op /\ m.user = l.user /\ m.role = l.role /\ m.token = l.token
      /\ m.new = l.new /\ m.read = l.read /\ m.todo = l.todo /\ m.ticked = l.ticked
  BY <1>1 DEF Unshared, Local
<1>3. m.shared => l.shared
  BY <1>1 DEF Unshared, Local
<1> QED
  BY <1>2, <1>3 DEF Keeps, l

LEMMA OthersKeep ==
    ASSUME Shape, NEW r \in Req, Call(r) \/ Serve(r), NEW p \in Req, p # r
    PROVE  Keeps(p)
<1>0. pc \in [Req -> Stage] /\ loc \in [Req -> Local] /\ loc[p] \in Local
  BY DEF Shape, LocalsFit
<1>1. CASE Call(r)
  <2>1. pc'[p] = pc[p] /\ loc'[p] = loc[p]
    BY <1>0, <1>1 DEF Call, Register, View, LoginHit, LoginMiss, Refresh, Logout, Begin, Step
  <2> QED
    BY <2>1, SameKeeps
<1>2. CASE FillEmail(r) \/ CacheUser(r) \/ FillUser(r)
  <2>1. pc'[p] = pc[p] /\ loc'[p] = Unshared(loc[p], loc[r].user)
    BY <1>0, <1>2 DEF FillEmail, CacheUser, FillUser, PutUser, PutUserAndEnd, Step, Unshared
  <2> QED
    BY <1>0, <2>1, UnsharedKeeps
<1>3. CASE \/ SelectEmail(r) \/ Insert(r) \/ AddWallet(r) \/ OpenSession(r) \/ CacheSession(r)
           \/ Answer(r) \/ SelectSession(r) \/ FillSession(r) \/ LookupUser(r) \/ SelectUser(r)
           \/ BlankView(r) \/ DeleteRow(r) \/ DropEntry(r)
  <2>1. pc'[p] = pc[p] /\ loc'[p] = loc[p]
    BY <1>0, <1>3 DEF SelectEmail, Insert, AddWallet, OpenSession, CacheSession, Answer,
       SelectSession, FillSession, LookupUser, SelectUser, BlankView, DeleteRow, DropEntry,
       End, Step, Hold
  <2> QED
    BY <2>1, SameKeeps
<1> QED
  BY <1>1, <1>2, <1>3 DEF Serve

-------------------------------------------------------------------------------
(* Tokens are spent once *)

Born == {"cacheSession", "answer"}      \* a token has been drawn, not handed out

\* What the tokens in the hands of a request are worth.
TokensFit(s, l) ==
    /\ s \in Born => l.new \in used \ held
    /\ s # "idle" /\ l.op \in {"refresh", "logout"} => l.token \in held
    /\ s = "dropEntry" => session[l.token] = Miss

TokenInv ==
    /\ acked \subseteq held /\ held \subseteq used
    /\ SpentTokenIsDead
    /\ \A p \in Req : TokensFit(pc[p], loc[p])
    /\ \A p, q \in Req : pc[p] \in Born /\ pc[q] \in Born /\ loc[p].new = loc[q].new => p = q

tokenVars == <<session, used, held, sessCache, acked, late>>

\* A step that leaves the tokens alone and hands out none.
LEMMA TokensStay ==
    ASSUME TokenInv, UNCHANGED tokenVars,
           \A p \in Req : \/ Keeps(p)
                          \/ TokensFit(pc'[p], loc'[p]) /\ pc'[p] \notin Born
    PROVE  TokenInv'
<1>1. (acked \subseteq held /\ held \subseteq used /\ SpentTokenIsDead)'
  BY DEF TokenInv, tokenVars, SpentTokenIsDead
<1>2. \A p \in Req : TokensFit(pc'[p], loc'[p])
  BY DEF TokenInv, Keeps, TokensFit
<1>3. \A p \in Req : TokensFit(pc[p], loc[p])'
  BY <1>2 DEF TokensFit, tokenVars
<1>4. \A p, q \in Req : pc'[p] \in Born /\ pc'[q] \in Born /\ loc'[p].new = loc'[q].new => p = q
  BY DEF TokenInv, Keeps
<1> QED
  BY <1>1, <1>3, <1>4 DEF TokenInv, Born

LEMMA TokensCall ==
    ASSUME Shape, TokenInv, NEW r \in Req, Call(r)
    PROVE  TokenInv'
<1>0. UNCHANGED tokenVars
  BY DEF Call, Register, View, LoginHit, LoginMiss, Refresh, Logout, store, histories, tokenVars
<1>1. TokensFit(pc'[r], loc'[r]) /\ pc'[r] \notin Born
  <2>0. pc \in [Req -> Stage] /\ loc \in [Req -> Local]
    BY DEF Shape, LocalsFit
  <2>1. ASSUME NEW u \in User, Register(r, u) \/ View(r, u)
        PROVE  TokensFit(pc'[r], loc'[r]) /\ pc'[r] \notin Born
    <3>1. pc'[r] \in {"selectEmail", "lookupUser"} /\ loc'[r].op \in {"register", "view"}
      BY <2>0, <2>1, JobTyped DEF Register, View, Begin, Step
    <3> QED
      BY <3>1 DEF TokensFit, Born
  <2>2. ASSUME NEW u \in User, NEW right \in BOOLEAN, NEW remember \in BOOLEAN,
               LoginHit(r, u, remember) \/ LoginMiss(r, u, right, remember)
        PROVE  TokensFit(pc'[r], loc'[r]) /\ pc'[r] \notin Born
    <3>1. pc'[r] \in {"selectEmail", "openSession"} /\ loc'[r].op = "login"
      BY <2>0, <2>2 DEF LoginHit, LoginMiss, Begin, Step, LoginJob, Job
    <3> QED
      BY <3>1 DEF TokensFit, Born
  <2>3. ASSUME NEW t \in Token, Refresh(r, t) \/ Logout(r, t)
        PROVE  TokensFit(pc'[r], loc'[r]) /\ pc'[r] \notin Born
    <3>1. /\ pc'[r] \in {"selectSession", "lookupUser", "deleteRow"}
          /\ loc'[r].token = t /\ t \in held
      BY <2>0, <2>3 DEF Refresh, Logout, Begin, Step, Job
    <3> QED
      BY <3>1 DEF TokensFit, Born
  <2> QED
    BY <2>1, <2>2, <2>3 DEF Call
<1> QED
  BY <1>0, <1>1, TokensStay, OthersKeep

\* Steps of a request that have nothing to do with tokens.
LEMMA TokensQuiet ==
    ASSUME Shape, TokenInv, NEW r \in Req,
           \/ SelectEmail(r) \/ FillEmail(r) \/ Insert(r) \/ CacheUser(r) \/ AddWallet(r)
           \/ SelectSession(r) \/ LookupUser(r) \/ SelectUser(r) \/ FillUser(r) \/ BlankView(r)
    PROVE  TokenInv'
<1>0. UNCHANGED tokenVars /\ Serve(r)
  BY DEF SelectEmail, FillEmail, Insert, CacheUser, AddWallet, SelectSession, LookupUser,
     SelectUser, FillUser, BlankView, Serve, store, histories, tokenVars
<1>1. pc \in [Req -> Stage] /\ loc \in [Req -> Local] /\ loc[r] \in Local /\ pc[r] # "idle"
  BY DEF Shape, LocalsFit, SelectEmail, FillEmail, Insert, CacheUser, AddWallet, SelectSession,
     LookupUser, SelectUser, FillUser, BlankView, Step
<1>2. \/ pc'[r] = "idle"
      \/ /\ pc'[r] \notin Born \cup {"dropEntry"}
         /\ loc'[r].op = loc[r].op /\ loc'[r].token = loc[r].token
  <2>1. CASE SelectEmail(r) \/ Insert(r) \/ SelectSession(r) \/ LookupUser(r) \/ SelectUser(r)
             \/ BlankView(r)
    BY <1>1, <2>1 DEF SelectEmail, Insert, SelectSession, LookupUser, SelectUser, BlankView,
       End, Step, Hold, Local, Born
  <2>2. CASE AddWallet(r)
    BY <1>1, <2>2 DEF AddWallet, Local, Born
  <2>3. CASE FillEmail(r) \/ FillUser(r) \/ CacheUser(r)
    BY <1>1, <2>3 DEF FillEmail, FillUser, CacheUser, PutUser, PutUserAndEnd, Step, Local, Born
  <2> QED
    BY <2>1, <2>2, <2>3
<1>3. TokensFit(pc'[r], loc'[r]) /\ pc'[r] \notin Born
  BY <1>1, <1>2 DEF TokenInv, TokensFit, Born
<1> QED
  BY <1>0, <1>3, TokensStay, OthersKeep

LEMMA TokensOpen ==
    ASSUME Shape, TokenInv, NEW r \in Req, OpenSession(r)
    PROVE  TokenInv'
<1>0. /\ pc \in [Req -> Stage] /\ loc \in [Req -> Local] /\ loc[r] \in Local /\ pc[r] = "openSession"
      /\ session \in [Token -> Session \cup {Miss}] /\ Serve(r)
      /\ \A p \in Req : Fits(pc[p], loc[p])
      /\ \A p \in Req : p # r => Keeps(p)
  BY OthersKeep DEF Shape, LocalsFit, StagesFit, DataTyped, OpenSession, Serve
<1>1. CASE End(r) /\ UNCHANGED <<session, used>>
  <2>1. UNCHANGED tokenVars
    BY <1>1 DEF OpenSession, histories, tokenVars
  <2>2. TokensFit(pc'[r], loc'[r]) /\ pc'[r] \notin Born
    BY <1>0, <1>1 DEF End, TokensFit, Born
  <2> QED
    BY <1>0, <2>1, <2>2, TokensStay
<1>2. CASE ~(End(r) /\ UNCHANGED <<session, used>>)
  <2>1. PICK t \in Token :
          /\ t \notin used
          /\ used' = used \cup {t}
          /\ session' = [session EXCEPT ![t] =
                 [user |-> loc[r].user, expires |-> now + Life(r), life |-> Life(r)]]
          /\ loc' = [loc EXCEPT ![r].new = t, ![r].read = session'[t]]
          /\ Step(r, "openSession", "cacheSession")
    BY <1>2 DEF OpenSession
  <2>2. held' = held /\ acked' = acked /\ sessCache' = sessCache /\ late' = late
    BY DEF OpenSession, histories
  <2>3. \A x \in used : session'[x] = session[x]
    BY <2>1
  <2>4. pc'[r] = "cacheSession" /\ loc'[r].new = t /\ loc'[r].op = loc[r].op
        /\ loc'[r].token = loc[r].token
    BY <1>0, <2>1 DEF Step, Local
  <2>5. SpentTokenIsDead'
    BY <2>2, <2>3 DEF TokenInv, SpentTokenIsDead
  <2>6. ASSUME NEW p \in Req PROVE TokensFit(pc[p], loc[p])'
    <3>1. CASE p = r
      BY <1>0, <2>1, <2>2, <2>4, <3>1 DEF TokenInv, TokensFit, Born
    <3>2. CASE p # r
      <4>1. pc[p] = "dropEntry" => loc[p].token \in used
        BY <1>0 DEF Fits, TokenInv, TokensFit
      <4> QED
        BY <1>0, <2>1, <2>2, <2>3, <3>2, <4>1 DEF TokenInv, TokensFit, Keeps, Born
    <3> QED
      BY <3>1, <3>2
  <2>7. ASSUME NEW p \in Req, NEW q \in Req,
               pc'[p] \in Born, pc'[q] \in Born, loc'[p].new = loc'[q].new
        PROVE  p = q
    BY <1>0, <2>1, <2>4, <2>7 DEF TokenInv, TokensFit, Keeps
  <2> QED
    BY <2>1, <2>2, <2>5, <2>6, <2>7 DEF TokenInv, Born
<1> QED
  BY <1>1, <1>2

LEMMA TokensCached ==
    ASSUME Shape, TokenInv, NEW r \in Req, CacheSession(r) \/ FillSession(r)
    PROVE  TokenInv'
<1>0. /\ pc \in [Req -> Stage] /\ loc \in [Req -> Local] /\ loc[r] \in Local
      /\ sessCache \in [Token -> Entry \cup {Miss}]
      /\ session' = session /\ used' = used /\ held' = held /\ acked' = acked /\ Serve(r)
      /\ \A p \in Req : p # r => Keeps(p)
  BY OthersKeep DEF Shape, LocalsFit, DataTyped, CacheSession, FillSession, Serve, store, histories
<1>1. SpentTokenIsDead'
  <2>1. CASE CacheSession(r)
    <3>1. loc[r].new \notin acked /\ late' = late
      BY <2>1 DEF CacheSession, Step, TokenInv, TokensFit, Born, histories
    <3>2. \A x \in acked : sessCache'[x] = sessCache[x]
      BY <1>0, <2>1, <3>1 DEF CacheSession, PutSession, Shape, DataTyped
    <3> QED
      BY <1>0, <3>1, <3>2 DEF TokenInv, SpentTokenIsDead
  <2>2. CASE FillSession(r)
    <3>1. \A x \in acked : x # loc[r].token => sessCache'[x] = sessCache[x]
      BY <1>0, <2>2 DEF FillSession, PutSession, Shape, DataTyped
    <3>2. loc[r].token \in acked => loc[r].token \in late'
      BY <2>2 DEF FillSession, TokenInv, SpentTokenIsDead
    <3>3. late \subseteq late'
      BY <2>2 DEF FillSession
    <3> QED
      BY <1>0, <3>1, <3>2, <3>3 DEF TokenInv, SpentTokenIsDead
  <2> QED
    BY <2>1, <2>2
<1>2. /\ pc[r] \in {"cacheSession", "fillSession"} /\ loc'[r].op = loc[r].op
      /\ loc'[r].token = loc[r].token /\ loc'[r].new = loc[r].new
      /\ pc'[r] = IF pc[r] = "cacheSession" THEN "answer" ELSE "lookupUser"
  BY <1>0 DEF CacheSession, FillSession, Step, Local
<1>3. ASSUME NEW p \in Req PROVE TokensFit(pc[p], loc[p])'
  BY <1>0, <1>2 DEF TokenInv, TokensFit, Keeps, Born
<1>4. ASSUME NEW p \in Req, NEW q \in Req,
             pc'[p] \in Born, pc'[q] \in Born, loc'[p].new = loc'[q].new
      PROVE  p = q
  BY <1>0, <1>2, <1>4 DEF TokenInv, Keeps, Born
<1> QED
  BY <1>0, <1>1, <1>3, <1>4 DEF TokenInv, Born

LEMMA TokensAnswer ==
    ASSUME Shape, TokenInv, NEW r \in Req, Answer(r)
    PROVE  TokenInv'
<1>0. /\ pc \in [Req -> Stage] /\ loc \in [Req -> Local]
      /\ session' = session /\ used' = used /\ sessCache' = sessCache
      /\ acked' = acked /\ late' = late /\ held' = held \cup {loc[r].new}
      /\ pc[r] = "answer" /\ pc'[r] = "idle"
      /\ \A p \in Req : p # r => Keeps(p)
  BY OthersKeep DEF Shape, LocalsFit, Answer, End, Serve, store, histories
<1>1. ASSUME NEW p \in Req PROVE TokensFit(pc[p], loc[p])'
  <2>1. CASE p = r
    BY <1>0, <2>1 DEF TokensFit, Born
  <2>2. CASE p # r
    <3>1. pc[p] \in Born => loc[p].new # loc[r].new
      BY <1>0, <2>2 DEF TokenInv, Born
    <3> QED
      BY <1>0, <2>2, <3>1 DEF TokenInv, TokensFit, Keeps, Born
  <2> QED
    BY <2>1, <2>2
<1>2. loc[r].new \in used
  BY <1>0 DEF TokenInv, TokensFit, Born
<1>3. ASSUME NEW p \in Req, NEW q \in Req,
             pc'[p] \in Born, pc'[q] \in Born, loc'[p].new = loc'[q].new
      PROVE  p = q
  BY <1>0, <1>3 DEF TokenInv, Keeps, Born
<1>4. SpentTokenIsDead'
  BY <1>0 DEF TokenInv, SpentTokenIsDead
<1> QED
  BY <1>0, <1>1, <1>2, <1>3, <1>4 DEF TokenInv, Born

LEMMA TokensDeleted ==
    ASSUME Shape, TokenInv, NEW r \in Req, DeleteRow(r) \/ DropEntry(r)
    PROVE  TokenInv'
<1> DEFINE t == loc[r].token
<1>0. /\ pc \in [Req -> Stage] /\ loc \in [Req -> Local] /\ loc[r] \in Local
      /\ pc[r] \in {"deleteRow", "dropEntry"} /\ used' = used /\ held' = held /\ Serve(r)
      /\ session \in [Token -> Session \cup {Miss}]
      /\ sessCache \in [Token -> Entry \cup {Miss}]
      /\ Fits(pc[r], loc[r])
      /\ \A p \in Req : p # r => Keeps(p)
  BY OthersKeep DEF Shape, LocalsFit, StagesFit, DataTyped, DeleteRow, DropEntry, End, Step, Serve,
     store
<1>1. t \in held /\ t \in Token
  BY <1>0 DEF Fits, TokenInv, TokensFit
<1>2. \A x \in Token : session[x] = Miss => session'[x] = Miss
  BY <1>0, <1>1 DEF DeleteRow, DropEntry, store
<1>3. /\ pc'[r] \in {"idle", "dropEntry", "openSession"}
      /\ pc'[r] # "idle" => loc'[r] = loc[r]
      /\ pc'[r] = "dropEntry" => session'[t] = Miss
  BY <1>0, <1>1 DEF DeleteRow, DropEntry, End, Step
<1>4. /\ acked \subseteq acked' /\ acked' \subseteq acked \cup {t}
      /\ t \in acked' \ acked => session'[t] = Miss
      /\ \A x \in acked' : (x # t \/ acked' = acked) => sessCache'[x] = sessCache[x] \/ sessCache'[x] = Miss
      /\ \A x \in Token : x # t => (x \in late <=> x \in late')
      /\ late' = late \/ sessCache'[t] = Miss
      /\ t \in acked' \ acked => sessCache'[t] = Miss
  <2>1. CASE DeleteRow(r)
    BY <1>0, <2>1 DEF DeleteRow, histories
  <2>2. CASE DropEntry(r)
    <3>1. session[t] = Miss /\ session' = session
      BY <1>0, <2>2 DEF DropEntry, TokenInv, TokensFit, End, Step, store
    <3> QED
      BY <1>0, <1>1, <2>2, <3>1 DEF DropEntry
  <2> QED
    BY <2>1, <2>2
<1>5. acked' \subseteq held' /\ acked' \subseteq Token
  BY <1>0, <1>1, <1>4 DEF TokenInv, Shape, DataTyped
<1>6. SpentTokenIsDead'
  <2> SUFFICES ASSUME NEW x \in acked'
               PROVE  session'[x] = Miss /\ (sessCache'[x] # Miss => x \in late')
    BY DEF SpentTokenIsDead
  <2> HIDE DEF t
  <2>1. CASE x \in acked
    BY <1>2, <1>4, <1>5, <2>1 DEF TokenInv, SpentTokenIsDead
  <2>2. CASE x \notin acked
    BY <1>4, <2>2
  <2> QED
    BY <2>1, <2>2
<1>7. ASSUME NEW p \in Req PROVE TokensFit(pc[p], loc[p])'
  <2>1. CASE p = r
    BY <1>0, <1>1, <1>3, <2>1 DEF TokensFit, Born
  <2>2. CASE p # r
    <3>1. pc[p] = "dropEntry" => loc[p].token \in Token
      BY DEF Shape, LocalsFit, StagesFit, Fits
    <3> QED
      BY <1>0, <1>2, <2>2, <3>1 DEF TokenInv, TokensFit, Keeps, Born
  <2> QED
    BY <2>1, <2>2
<1>8. ASSUME NEW p \in Req, NEW q \in Req,
             pc'[p] \in Born, pc'[q] \in Born, loc'[p].new = loc'[q].new
      PROVE  p = q
  BY <1>0, <1>3, <1>8 DEF TokenInv, Keeps, Born
<1> QED
  BY <1>0, <1>5, <1>6, <1>7, <1>8 DEF TokenInv, Born

LEMMA TokensEnvironment ==
    ASSUME Shape, TokenInv, (\E u \in User : Promote(u)) \/ Tick \/ Restart
    PROVE  TokenInv'
<1>0. pc \in [Req -> Stage] /\ loc \in [Req -> Local]
  BY DEF Shape, LocalsFit
<1>1. CASE \E u \in User : Promote(u)
  <2>1. UNCHANGED tokenVars /\ \A p \in Req : pc'[p] = pc[p] /\ loc'[p] = loc[p]
    BY <1>1 DEF Promote, histories, tokenVars
  <2> QED
    BY <2>1, SameKeeps, TokensStay
<1>2. CASE Tick
  <2>1. ASSUME NEW p \in Req
        PROVE  pc'[p] = pc[p] /\ loc'[p].op = loc[p].op /\ loc'[p].token = loc[p].token
               /\ loc'[p].new = loc[p].new
    BY <1>0, <1>2 DEF Tick, Local
  <2>2. session' = session /\ used' = used /\ held' = held /\ acked' = acked /\ late' = late
    BY <1>2 DEF Tick, store, histories
  <2>3. SpentTokenIsDead'
    <3>1. \A t \in Token : sessCache'[t] = sessCache[t] \/ sessCache'[t] = Miss
      BY <1>2 DEF Tick
    <3> QED
      BY <2>2, <3>1 DEF TokenInv, SpentTokenIsDead, Shape, DataTyped
  <2>4. \A p \in Req : TokensFit(pc[p], loc[p])'
    BY <2>1, <2>2 DEF TokenInv, TokensFit, Born
  <2>5. \A p, q \in Req : pc'[p] \in Born /\ pc'[q] \in Born /\ loc'[p].new = loc'[q].new => p = q
    BY <2>1 DEF TokenInv
  <2> QED
    BY <2>2, <2>3, <2>4, <2>5 DEF TokenInv, Born
<1>3. CASE Restart
  <2>1. \A p \in Req : pc'[p] = "idle"
    BY <1>3 DEF Restart
  <2>2. session' = session /\ used' = used /\ held' = held /\ acked' = acked
    BY <1>3 DEF Restart, store
  <2>3. SpentTokenIsDead'
    BY <1>3, <2>2 DEF Restart, TokenInv, SpentTokenIsDead, Shape, DataTyped
  <2> QED
    BY <2>1, <2>2, <2>3 DEF TokenInv, TokensFit, Born
<1> QED
  BY <1>1, <1>2, <1>3

LEMMA TokensStart == Init => TokenInv
<1> SUFFICES ASSUME Init PROVE TokenInv
  OBVIOUS
<1>1. \A p \in Req : pc[p] = "idle"
  BY DEF Init
<1>2. acked = {} /\ held = {} /\ used = {}
  BY DEF Init
<1> QED
  BY <1>1, <1>2 DEF TokenInv, TokensFit, SpentTokenIsDead, Born

LEMMA TokensStep == Shape /\ TokenInv /\ [Next]_vars => TokenInv'
<1> SUFFICES ASSUME Shape, TokenInv, [Next]_vars PROVE TokenInv'
  OBVIOUS
<1>1. CASE UNCHANGED vars
  <2>1. UNCHANGED tokenVars /\ \A p \in Req : pc'[p] = pc[p] /\ loc'[p] = loc[p]
    BY <1>1 DEF vars, store, histories, tokenVars
  <2> QED
    BY <2>1, SameKeeps, TokensStay
<1>2. ASSUME NEW r \in Req, Serve(r) PROVE TokenInv'
  BY <1>2, TokensQuiet, TokensOpen, TokensCached, TokensAnswer, TokensDeleted DEF Serve
<1> QED
  BY <1>1, <1>2, TokensCall, TokensEnvironment DEF Next

\* A token that a logout or a refresh has removed from the table and the cache
\* is dead, but for a fill that read its row before (user_repository.go:168).
THEOREM SpentTokensDead == Spec => []SpentTokenIsDead
<1>1. TokenInv => SpentTokenIsDead
  BY DEF TokenInv
<1> QED
  BY <1>1, ShapeHolds, TokensStart, TokensStep, PTL DEF Spec

-------------------------------------------------------------------------------
(* Roles *)

\* The role of a request, an entry or a token is client, or the table says so too.
Sound(role, u) == role = "client" \/ row[u] = "admin"

RoleInv ==
    /\ \A u \in admins : row[u] = "admin"
    /\ \A u \in User : userCache[u] # Miss => Sound(userCache[u].role, u)
    /\ \A p \in Req : Sound(loc[p].role, loc[p].user)

\* Administrators stay administrators.
LEMMA AdminsStay ==
    ASSUME Shape, [Next]_vars, NEW u \in User, row[u] = "admin"
    PROVE  row'[u] = "admin"
<1>1. ASSUME NEW r \in Req, Insert(r) PROVE row'[u] = "admin"
  BY <1>1 DEF Insert, Shape, DataTyped
<1>2. ASSUME NEW x \in User, Promote(x) PROVE row'[u] = "admin"
  BY <1>2 DEF Promote, Shape, DataTyped
<1>3. ASSUME NEW r \in Req, Call(r) \/ (Serve(r) /\ ~Insert(r)) PROVE row' = row
  BY <1>3 DEF Call, Register, View, LoginHit, LoginMiss, Refresh, Logout, Serve,
     SelectEmail, FillEmail, CacheUser, AddWallet, OpenSession, CacheSession, Answer,
     SelectSession, FillSession, LookupUser, SelectUser, FillUser, BlankView, DeleteRow, DropEntry,
     store
<1>4. CASE Tick \/ Restart \/ UNCHANGED vars
  BY <1>4 DEF Tick, Restart, vars, store
<1> QED
  BY <1>1, <1>2, <1>3, <1>4 DEF Next

LEMMA RolesStay ==
    ASSUME Shape, RoleInv, [Next]_vars,
           \A u \in admins' : u \in admins \/ row[u] = "admin",
           \A u \in User : userCache'[u] # Miss =>
               \/ userCache[u] # Miss /\ userCache'[u].role = userCache[u].role
               \/ Sound(userCache'[u].role, u),
           \A p \in Req : Keeps(p) \/ Sound(loc'[p].role, loc'[p].user),
           \A p \in Req : loc'[p].user \in User
    PROVE  RoleInv'
<1>1. \A u \in User : userCache'[u] # Miss => Sound(userCache'[u].role, u)
  BY DEF RoleInv
<1>2. \A p \in Req : Sound(loc'[p].role, loc'[p].user)
  BY DEF RoleInv, Keeps
<1>3. \A u \in admins' : row[u] = "admin" /\ u \in User
  BY ShapeStep DEF RoleInv, Shape, DataTyped
<1> QED
  BY <1>1, <1>2, <1>3, AdminsStay DEF RoleInv, Sound

LEMMA RolesCall ==
    ASSUME Shape, RoleInv, NEW r \in Req, Call(r)
    PROVE  RoleInv'
<1>0. pc \in [Req -> Stage] /\ loc \in [Req -> Local] /\ LocalsFit' /\ Next
  BY CallsFit DEF Shape, LocalsFit, Next
<1>1. admins' = admins /\ userCache' = userCache
  BY DEF Call, Register, View, LoginHit, LoginMiss, Refresh, Logout
<1>2. Sound(loc'[r].role, loc'[r].user)
  <2>1. ASSUME NEW u \in User, NEW remember \in BOOLEAN, LoginHit(r, u, remember)
        PROVE  Sound(loc'[r].role, loc'[r].user)
    <3>1. loc'[r].role = userCache[u].role /\ loc'[r].user = u /\ userCache[u] # Miss
      BY <1>0, <2>1 DEF LoginHit, Begin, LoginJob, Job
    <3> QED
      BY <3>1 DEF RoleInv
  <2>2. ASSUME NEW u \in User, Register(r, u) \/ View(r, u)
        PROVE  loc'[r].role = "client"
    BY <1>0, <2>2 DEF Register, View, Begin, Job
  <2>3. ASSUME NEW u \in User, NEW right \in BOOLEAN, NEW remember \in BOOLEAN,
               LoginMiss(r, u, right, remember)
        PROVE  loc'[r].role = "client"
    BY <1>0, <2>3 DEF LoginMiss, Begin, LoginJob, Job
  <2>4. ASSUME NEW t \in Token, Refresh(r, t) \/ Logout(r, t)
        PROVE  loc'[r].role = "client"
    BY <1>0, <2>4 DEF Refresh, Logout, Begin, Job
  <2> QED
    BY <2>1, <2>2, <2>3, <2>4 DEF Call, Sound
<1>3. \A p \in Req : loc'[p].user \in User
  BY <1>0 DEF LocalsFit, Local
<1> QED
  BY <1>0, <1>1, <1>2, <1>3, RolesStay, OthersKeep

LEMMA RolesServe ==
    ASSUME Shape, RoleInv, NEW r \in Req, Serve(r)
    PROVE  RoleInv'
<1>0. /\ pc \in [Req -> Stage] /\ loc \in [Req -> Local] /\ loc[r] \in Local /\ Fits(pc[r], loc[r])
      /\ loc[r].user \in User /\ loc[r].role \in Role /\ Next
      /\ \A p \in Req : p # r => Keeps(p)
      /\ Sound(loc[r].role, loc[r].user)
      /\ Sound("client", loc[r].user)
  BY OthersKeep DEF Shape, LocalsFit, StagesFit, Next, RoleInv, Local, Sound
<1>1. \A p \in Req : loc'[p].user \in User
  BY ServesFit DEF LocalsFit, Local
<1>2. ASSUME admins' = admins, userCache' = userCache, Sound(loc'[r].role, loc'[r].user)
      PROVE  RoleInv'
  BY <1>0, <1>1, <1>2, RolesStay
<1>3. ASSUME End(r) PROVE Sound(loc'[r].role, loc'[r].user)
  BY <1>0, <1>3 DEF End, Nothing, Job, Sound
<1>4. CASE SelectEmail(r) \/ LookupUser(r) \/ SelectUser(r)
  <2>1. admins' = admins /\ userCache' = userCache
    BY <1>4 DEF SelectEmail, LookupUser, SelectUser
  <2>2. ASSUME NEW role, Hold(r, role), Sound(role, loc[r].user)
        PROVE  Sound(loc'[r].role, loc'[r].user)
    BY <1>0, <2>2 DEF Hold, Local
  <2>3. loc' = loc \/ End(r) \/ \E role \in Role : Hold(r, role) /\ Sound(role, loc[r].user)
    <3>1. CASE SelectEmail(r)
      BY <1>0, <3>1 DEF SelectEmail, Role
    <3>2. CASE LookupUser(r)
      BY <1>0, <3>2 DEF LookupUser, RoleInv, Shape, DataTyped, Record
    <3>3. CASE SelectUser(r)
      BY <1>0, <3>3 DEF SelectUser, Shape, DataTyped, Role, Sound
    <3> QED
      BY <1>4, <3>1, <3>2, <3>3
  <2>4. Sound(loc'[r].role, loc'[r].user)
    BY <1>0, <1>3, <2>2, <2>3
  <2> QED
    BY <1>2, <2>1, <2>4
<1>5. CASE \/ Insert(r) \/ AddWallet(r) \/ OpenSession(r) \/ CacheSession(r)
           \/ SelectSession(r) \/ DeleteRow(r) \/ DropEntry(r)
  <2>1. admins' = admins /\ userCache' = userCache
    BY <1>5 DEF Insert, AddWallet, OpenSession, CacheSession, SelectSession, DeleteRow, DropEntry
  <2>2. End(r) \/ (loc'[r].role = loc[r].role /\ loc'[r].user = loc[r].user)
    <3>1. CASE Insert(r) \/ DeleteRow(r) \/ DropEntry(r)
      BY <3>1 DEF Insert, DeleteRow, DropEntry
    <3>2. CASE AddWallet(r)
      <4>1. PICK x : loc' = [loc EXCEPT ![r].todo = x]
        BY <3>2 DEF AddWallet
      <4> QED
        BY <1>0, <4>1 DEF Local
    <3>3. CASE OpenSession(r) /\ ~End(r)
      <4>1. PICK t, x : loc' = [loc EXCEPT ![r].new = t, ![r].read = x]
        BY <3>3 DEF OpenSession
      <4> QED
        BY <1>0, <4>1 DEF Local
    <3>4. CASE CacheSession(r)
      BY <1>0, <3>4 DEF CacheSession, Local
    <3>5. CASE SelectSession(r) /\ ~End(r)
      <4>1. PICK x : loc' = [loc EXCEPT ![r].read = x]
        BY <3>5 DEF SelectSession
      <4> QED
        BY <1>0, <4>1 DEF Local
    <3> QED
      BY <1>5, <3>1, <3>2, <3>3, <3>4, <3>5
  <2> QED
    BY <1>0, <1>2, <1>3, <2>1, <2>2
<1>6. CASE FillSession(r)
  <2>1. loc'[r].role = "client" /\ admins' = admins /\ userCache' = userCache
    BY <1>0, <1>6 DEF FillSession, Step, Fits, Local
  <2> QED
    BY <1>2, <2>1 DEF Sound
<1>7. CASE FillEmail(r) \/ CacheUser(r) \/ FillUser(r)
  <2>1. admins' = admins
    BY <1>7 DEF FillEmail, CacheUser, FillUser
  <2>2. PICK role \in {loc[r].role, "client"} :
          userCache' = [userCache EXCEPT ![loc[r].user] = [role |-> role, blank |-> FALSE]]
    BY <1>7 DEF FillEmail, CacheUser, FillUser, PutUser, PutUserAndEnd
  <2>3. \A u \in User : userCache'[u] # Miss =>
               \/ userCache[u] # Miss /\ userCache'[u].role = userCache[u].role
               \/ Sound(userCache'[u].role, u)
    BY <1>0, <2>2 DEF Shape, DataTyped
  <2>4. \/ loc'[r] = Nothing
        \/ loc'[r].role = loc[r].role /\ loc'[r].user = loc[r].user
    <3>1. CASE PutUser(r)
      BY <1>0, <3>1 DEF PutUser, Local
    <3>2. CASE PutUserAndEnd(r)
      BY <1>0, <3>2 DEF PutUserAndEnd
    <3>3. CASE CacheUser(r)
      BY <1>0, <3>3 DEF CacheUser, Local
    <3> QED
      BY <1>7, <3>1, <3>2, <3>3 DEF FillEmail, FillUser
  <2>5. Sound(loc'[r].role, loc'[r].user)
    BY <1>0, <2>4 DEF Nothing, Job, Sound
  <2> QED
    BY <1>0, <1>1, <2>1, <2>3, <2>5, RolesStay
<1>8. CASE Answer(r) \/ BlankView(r)
  <2>1. BlankHash(r) /\ End(r)
    BY <1>8 DEF Answer, BlankView
  <2>2. \A u \in User : userCache'[u] # Miss =>
               userCache[u] # Miss /\ userCache'[u].role = userCache[u].role
    <3>1. loc[r].shared => userCache[loc[r].user] \in Record
      BY <1>0 DEF Shape, DataTyped, LocalsFit, SharedCached
    <3> QED
      BY <1>0, <2>1, <3>1, AuthAssumption DEF BlankHash, Shape, DataTyped, Record
  <2>3. \A u \in admins' : u \in admins \/ row[u] = "admin"
    BY <1>0, <1>8 DEF Answer, BlankView, GenerateAccessToken, Sound
  <2> QED
    BY <1>0, <1>1, <1>3, <2>1, <2>2, <2>3, RolesStay
<1> QED
  BY <1>4, <1>5, <1>6, <1>7, <1>8 DEF Serve

LEMMA RolesEnvironment ==
    ASSUME Shape, RoleInv, (\E u \in User : Promote(u)) \/ Tick \/ Restart \/ UNCHANGED vars
    PROVE  RoleInv'
<1>0. /\ pc \in [Req -> Stage] /\ loc \in [Req -> Local] /\ [Next]_vars
      /\ admins' = admins
      /\ \A p \in Req : loc'[p].user \in User
  <2>1. [Next]_vars
    BY DEF Next
  <2> QED
    BY <2>1, ShapeStep DEF Shape, LocalsFit, Local, Promote, Tick, Restart, vars
<1>1. \A u \in User : userCache'[u] # Miss =>
          \/ userCache[u] # Miss /\ userCache'[u].role = userCache[u].role
          \/ Sound(userCache'[u].role, u)
  <2>1. CASE Restart
    BY <2>1 DEF Restart, Sound, Shape, DataTyped, Role
  <2>2. CASE ~Restart
    BY <2>2 DEF Promote, Tick, vars
  <2> QED
    BY <2>1, <2>2
<1>2. ASSUME NEW p \in Req PROVE Keeps(p) \/ Sound(loc'[p].role, loc'[p].user)
  <2>1. CASE Restart
    BY <2>1 DEF Restart, Nothing, Job, Sound
  <2>2. CASE Tick
    <3>1. loc'[p].role = loc[p].role /\ loc'[p].user = loc[p].user
      BY <1>0, <2>2 DEF Tick, Local
    <3> QED
      BY <3>1 DEF RoleInv
  <2>3. CASE (\E u \in User : Promote(u)) \/ UNCHANGED vars
    BY <2>3, SameKeeps DEF Promote, vars
  <2> QED
    BY <2>1, <2>2, <2>3
<1> QED
  BY <1>0, <1>1, <1>2, RolesStay

LEMMA RolesStart == Init => RoleInv
<1> SUFFICES ASSUME Init PROVE RoleInv
  OBVIOUS
<1>1. \A p \in Req : loc[p].role = "client"
  BY DEF Init, Nothing, Job
<1> QED
  BY <1>1 DEF Init, RoleInv, Sound

LEMMA RolesStep == Shape /\ RoleInv /\ [Next]_vars => RoleInv'
  BY RolesCall, RolesServe, RolesEnvironment DEF Next

\* Whoever passes RequireRole("admin") (middleware/auth.go:29) is an
\* administrator in the table, and so is every copy with that role.
THEOREM RolesSound == Spec => []RolesNotAhead
<1>1. Shape /\ RoleInv => RolesNotAhead
  BY DEF RoleInv, Sound, RolesNotAhead
<1> QED
  BY <1>1, ShapeHolds, RolesStart, RolesStep, PTL DEF Spec

-------------------------------------------------------------------------------
(* Sessions outlive their rows by one life *)

\* The row a request is about to cache had not expired when it was read, and
\* the request has seen at most one tick since.
ReadInTime(s, l) ==
    s \in {"cacheSession", "fillSession"} =>
        now <= l.read.expires /\ (~l.ticked => now < l.read.expires)

LifeInv == OutlivesByOneLife /\ \A p \in Req : ReadInTime(pc[p], loc[p])

\* No entry is put, and no request takes up a row.
LEMMA LivesStay ==
    ASSUME LifeInv, now' = now,
           \A t \in Token : sessCache'[t] = sessCache[t] \/ sessCache'[t] = Miss,
           \A p \in Req : Keeps(p) \/ ReadInTime(pc'[p], loc'[p])
    PROVE  LifeInv'
<1>1. \A p \in Req : ReadInTime(pc'[p], loc'[p])
  BY DEF LifeInv, Keeps, ReadInTime
<1> QED
  BY <1>1 DEF LifeInv, OutlivesByOneLife, ReadInTime

LEMMA LivesServe ==
    ASSUME Shape, LifeInv, NEW r \in Req, Serve(r)
    PROVE  LifeInv'
<1>0. /\ pc \in [Req -> Stage] /\ loc \in [Req -> Local] /\ loc[r] \in Local /\ Fits(pc[r], loc[r])
      /\ \A p \in Req : p # r => Keeps(p)
      /\ now \in Nat /\ sessCache \in [Token -> Entry \cup {Miss}]
      /\ ReadInTime(pc[r], loc[r])
  BY OthersKeep DEF Shape, LocalsFit, StagesFit, DataTyped, LifeInv
<1>1. CASE \/ SelectEmail(r) \/ FillEmail(r) \/ Insert(r) \/ CacheUser(r) \/ AddWallet(r)
           \/ Answer(r) \/ LookupUser(r) \/ SelectUser(r) \/ FillUser(r) \/ BlankView(r)
           \/ DeleteRow(r) \/ DropEntry(r)
  <2>1. now' = now /\ \A t \in Token : sessCache'[t] = sessCache[t] \/ sessCache'[t] = Miss
    BY <1>0, <1>1 DEF SelectEmail, FillEmail, Insert, CacheUser, AddWallet, Answer, LookupUser,
       SelectUser, FillUser, BlankView, DeleteRow, DropEntry
  <2>2. pc'[r] \notin {"cacheSession", "fillSession"}
    <3>1. CASE SelectEmail(r) \/ Insert(r) \/ Answer(r) \/ LookupUser(r) \/ SelectUser(r)
               \/ BlankView(r) \/ DeleteRow(r) \/ DropEntry(r)
      BY <1>0, <3>1 DEF SelectEmail, Insert, Answer, LookupUser, SelectUser, BlankView, DeleteRow,
         DropEntry, End, Step
    <3>2. CASE AddWallet(r)
      BY <1>0, <3>2 DEF AddWallet
    <3>3. CASE FillEmail(r) \/ CacheUser(r) \/ FillUser(r)
      BY <1>0, <3>3 DEF FillEmail, CacheUser, FillUser, PutUserAndEnd, Step
    <3> QED
      BY <1>1, <3>1, <3>2, <3>3
  <2> QED
    BY <1>0, <2>1, <2>2, LivesStay DEF ReadInTime
<1>2. CASE OpenSession(r) \/ SelectSession(r)
  <2>1. now' = now /\ sessCache' = sessCache
    BY <1>2 DEF OpenSession, SelectSession
  <2>2. CASE End(r)
    BY <1>0, <2>1, <2>2, LivesStay DEF End, ReadInTime
  <2>3. CASE OpenSession(r) /\ ~End(r)
    <3>1. PICK t \in Token :
            /\ session' = [session EXCEPT ![t] =
                   [user |-> loc[r].user, expires |-> now + Life(r), life |-> Life(r)]]
            /\ loc' = [loc EXCEPT ![r].new = t, ![r].read = session'[t]]
      BY <2>3 DEF OpenSession
    <3>2. session'[t].expires = now + Life(r) /\ Life(r) \in Nat \ {0}
      BY <3>1, AuthAssumption DEF Shape, DataTyped, Life
    <3>3. loc'[r].read = session'[t]
      BY <1>0, <3>1 DEF Local
    <3>4. now < loc'[r].read.expires /\ now <= loc'[r].read.expires
      BY <1>0, <3>2, <3>3
    <3> QED
      BY <1>0, <2>1, <3>4, LivesStay DEF ReadInTime
  <2>4. CASE SelectSession(r) /\ ~End(r)
    <3>1. PICK x \in Session : loc' = [loc EXCEPT ![r].read = x] /\ now < x.expires
      <4>1. pc[r] = "selectSession" /\ loc[r].token \in Token
        BY <1>0, <2>4 DEF SelectSession, Fits
      <4> QED
        BY <2>4, <4>1 DEF SelectSession, Shape, DataTyped
    <3>2. now < loc'[r].read.expires
      BY <1>0, <3>1 DEF Local
    <3>3. now <= loc'[r].read.expires
      <4>1. loc'[r].read = x
        BY <1>0, <3>1 DEF Local
      <4> QED
        BY <1>0, <3>1, <4>1 DEF Session
    <3> QED
      BY <1>0, <2>1, <3>2, <3>3, LivesStay DEF ReadInTime
  <2> QED
    BY <1>2, <2>2, <2>3, <2>4
<1>3. CASE CacheSession(r) \/ FillSession(r)
  <2>1. PICK t \in Token : PutSession(t, loc[r].read)
    BY <1>0, <1>3 DEF CacheSession, FillSession, Step, Fits
  <2>2. loc[r].read \in Session /\ now <= loc[r].read.expires
    BY <1>0, <1>3 DEF CacheSession, FillSession, Step, Fits, ReadInTime
  <2>3. now' = now /\ pc'[r] \notin {"cacheSession", "fillSession"}
    BY <1>0, <1>3 DEF CacheSession, FillSession, Step
  <2>4. ASSUME NEW x \in Token, sessCache'[x] # Miss
        PROVE  sessCache'[x].until <= sessCache'[x].expires + sessCache'[x].life
    <3>1. CASE x = t
      BY <1>0, <2>1, <2>2, <3>1 DEF PutSession, Session
    <3>2. CASE x # t
      BY <1>0, <2>1, <2>4, <3>2 DEF PutSession, LifeInv, OutlivesByOneLife
    <3> QED
      BY <3>1, <3>2
  <2>5. \A p \in Req : ReadInTime(pc'[p], loc'[p])
    BY <1>0, <2>3 DEF LifeInv, Keeps, ReadInTime
  <2> QED
    BY <2>3, <2>4, <2>5 DEF LifeInv, OutlivesByOneLife, ReadInTime
<1> QED
  BY <1>1, <1>2, <1>3 DEF Serve

LEMMA LivesStep == Shape /\ LifeInv /\ [Next]_vars => LifeInv'
<1> SUFFICES ASSUME Shape, LifeInv, [Next]_vars PROVE LifeInv'
  OBVIOUS
<1>0. /\ pc \in [Req -> Stage] /\ loc \in [Req -> Local] /\ now \in Nat
      /\ sessCache \in [Token -> Entry \cup {Miss}]
  BY DEF Shape, LocalsFit, DataTyped
<1>1. ASSUME NEW r \in Req, Call(r) PROVE LifeInv'
  <2>1. now' = now /\ sessCache' = sessCache
    BY <1>1 DEF Call, Register, View, LoginHit, LoginMiss, Refresh, Logout
  <2>2. pc'[r] \notin {"cacheSession", "fillSession"}
    BY <1>0, <1>1 DEF Call, Register, View, LoginHit, LoginMiss, Refresh, Logout, Begin, Step
  <2> QED
    BY <1>1, <2>1, <2>2, LivesStay, OthersKeep DEF ReadInTime
<1>2. CASE (\E u \in User : Promote(u)) \/ UNCHANGED vars
  BY <1>2, SameKeeps, LivesStay DEF Promote, vars
<1>3. CASE Restart
  BY <1>0, <1>3, LivesStay DEF Restart, ReadInTime
<1>4. CASE Tick
  <2>1. ASSUME NEW p \in Req PROVE ReadInTime(pc[p], loc[p])'
    <3>1. /\ pc'[p] = pc[p] /\ loc'[p].read = loc[p].read
          /\ loc'[p].ticked = (pc[p] # "idle") /\ ~loc[p].ticked /\ now' = now + 1
      BY <1>0, <1>4 DEF Tick, Local
    <3>2. pc[p] \in {"cacheSession", "fillSession"} => loc[p].read.expires \in Nat
      BY DEF Shape, LocalsFit, StagesFit, Fits, Session
    <3>3. CASE pc[p] \in {"cacheSession", "fillSession"}
      <4>1. now < loc[p].read.expires
        BY <3>1, <3>3 DEF LifeInv, ReadInTime
      <4>2. now' <= loc'[p].read.expires
        BY <1>0, <3>1, <3>2, <3>3, <4>1
      <4>3. loc'[p].ticked
        BY <3>1, <3>3
      <4> QED
        BY <4>2, <4>3 DEF ReadInTime
    <3>4. CASE pc[p] \notin {"cacheSession", "fillSession"}
      BY <3>1, <3>4 DEF ReadInTime
    <3> QED
      BY <3>3, <3>4
  <2>2. \A t \in Token : sessCache'[t] = sessCache[t] \/ sessCache'[t] = Miss
    BY <1>4 DEF Tick
  <2> QED
    BY <2>1, <2>2 DEF LifeInv, OutlivesByOneLife, ReadInTime
<1> QED
  BY <1>1, <1>2, <1>3, <1>4, LivesServe DEF Next

\* A cached session outlives its row's expires_at by at most one lifetime
\* (user_repository.go:168, cache_service.go:267).
THEOREM SessionsOutliveByOneLife == Spec => []OutlivesByOneLife
<1>1. Init => LifeInv
  <2> SUFFICES ASSUME Init PROVE LifeInv
    OBVIOUS
  <2>1. \A p \in Req : pc[p] = "idle"
    BY DEF Init
  <2> QED
    BY <2>1 DEF Init, LifeInv, OutlivesByOneLife, ReadInTime
<1>2. LifeInv => OutlivesByOneLife
  BY DEF LifeInv
<1> QED
  BY <1>1, <1>2, ShapeHolds, LivesStep, PTL DEF Spec

-------------------------------------------------------------------------------
(* Users of the last start can log in *)

\* Stages a request comes to only after its user was not in the cache.
Missing ==
    {"selectEmail", "fillEmail", "insert", "cacheUser", "addWallet", "selectUser", "fillUser"}

\* Nobody puts or shares the record of a user that was there at the start.
Apart(s, l) == s \in Missing \/ l.shared => l.user \notin booted

BootInv == BootedUsersCanLogIn /\ \A p \in Req : Apart(pc[p], loc[p])

LEMMA BootsStay ==
    ASSUME Shape, BootInv, booted' = booted,
           \A u \in User : u \in booted => userCache'[u] = userCache[u],
           \A p \in Req : Keeps(p) \/ Apart(pc'[p], loc'[p])
    PROVE  BootInv'
<1>1. \A p \in Req : Apart(pc'[p], loc'[p])
  BY DEF BootInv, Keeps, Apart
<1>2. booted \subseteq User
  BY DEF Shape, DataTyped
<1> QED
  BY <1>1, <1>2 DEF BootInv, BootedUsersCanLogIn, Apart

LEMMA BootsCall ==
    ASSUME Shape, BootInv, NEW r \in Req, Call(r)
    PROVE  BootInv'
<1>0. pc \in [Req -> Stage] /\ loc \in [Req -> Local] /\ booted' = booted /\ userCache' = userCache
  BY DEF Shape, LocalsFit, Call, Register, View, LoginHit, LoginMiss, Refresh, Logout, histories
<1>1. Apart(pc'[r], loc'[r])
  <2>1. ASSUME NEW u \in User, NEW l, loc' = [loc EXCEPT ![r] = l], l.user = u, userCache[u] = Miss
        PROVE  Apart(pc'[r], loc'[r])
    BY <1>0, <2>1 DEF BootInv, BootedUsersCanLogIn, Apart
  <2>2. ASSUME NEW u \in User, Register(r, u) PROVE Apart(pc'[r], loc'[r])
    <3>1. loc' = [loc EXCEPT ![r] = Job("register", u, Miss)] /\ userCache[u] = Miss
      BY <2>2 DEF Register, Begin
    <3>2. Job("register", u, Miss).user = u
      BY JobTyped
    <3> QED
      BY <2>1, <3>1, <3>2
  <2>3. ASSUME NEW u \in User, NEW right \in BOOLEAN, NEW remember \in BOOLEAN,
               LoginMiss(r, u, right, remember)
        PROVE  Apart(pc'[r], loc'[r])
    <3>1. loc' = [loc EXCEPT ![r] = LoginJob(u, right, remember)] /\ userCache[u] = Miss
      BY <2>3 DEF LoginMiss, Begin
    <3>2. LoginJob(u, right, remember).user = u
      BY LoginJobTyped
    <3> QED
      BY <2>1, <3>1, <3>2
  <2>4. ASSUME NEW u \in User, View(r, u) PROVE Apart(pc'[r], loc'[r])
    <3>1. pc'[r] \notin Missing /\ ~loc'[r].shared
      BY <1>0, <2>4, JobTyped DEF View, Begin, Step, Missing
    <3> QED
      BY <3>1 DEF Apart
  <2>5. ASSUME NEW u \in User, NEW remember \in BOOLEAN, LoginHit(r, u, remember)
        PROVE  Apart(pc'[r], loc'[r])
    <3> DEFINE l == LoginJob(u, TRUE, remember)
    <3>1. l \in Local /\ ~l.shared
      BY LoginJobTyped
    <3>2. pc'[r] \notin Missing /\ loc'[r] = [l EXCEPT !.role = userCache[u].role]
      BY <1>0, <2>5 DEF LoginHit, Begin, Step, Missing
    <3> HIDE DEF l
    <3>3. ~loc'[r].shared
      BY <3>1, <3>2 DEF Local
    <3> QED
      BY <3>2, <3>3 DEF Apart
  <2>6. CASE \E t \in Token : Refresh(r, t) \/ Logout(r, t)
    <3>1. pc'[r] \notin Missing /\ ~loc'[r].shared
      BY <1>0, <2>6 DEF Refresh, Logout, Begin, Step, Job, Missing
    <3> QED
      BY <3>1 DEF Apart
  <2> QED
    BY <2>2, <2>3, <2>4, <2>5, <2>6 DEF Call
<1> QED
  BY <1>0, <1>1, BootsStay, OthersKeep

LEMMA BootsServe ==
    ASSUME Shape, BootInv, NEW r \in Req, Serve(r)
    PROVE  BootInv'
<1>0. /\ pc \in [Req -> Stage] /\ loc \in [Req -> Local] /\ loc[r] \in Local /\ Fits(pc[r], loc[r])
      /\ \A p \in Req : p # r => Keeps(p)
      /\ userCache \in [User -> Record \cup {Miss}] /\ booted \subseteq User
      /\ Apart(pc[r], loc[r]) /\ loc[r].user \in User
      /\ booted' = booted
  BY OthersKeep DEF Shape, LocalsFit, StagesFit, DataTyped, BootInv, Local, Serve, histories,
     SelectEmail, FillEmail, Insert, CacheUser, AddWallet, OpenSession, CacheSession, Answer,
     SelectSession, FillSession, LookupUser, SelectUser, FillUser, BlankView, DeleteRow, DropEntry
<1>1. ASSUME End(r) PROVE Apart(pc'[r], loc'[r])
  BY <1>0, <1>1 DEF End, Nothing, Job, Apart, Missing
<1>2. ASSUME loc'[r].shared => loc[r].shared, loc'[r].user = loc[r].user,
             pc'[r] \in Missing => pc[r] \in Missing
      PROVE  Apart(pc'[r], loc'[r])
  BY <1>0, <1>2 DEF Apart
<1>3. ASSUME userCache' = userCache, Apart(pc'[r], loc'[r])
      PROVE  BootInv'
  BY <1>0, <1>3, BootsStay
<1>4. CASE \/ SelectEmail(r) \/ Insert(r) \/ AddWallet(r) \/ OpenSession(r)
           \/ CacheSession(r) \/ SelectSession(r) \/ FillSession(r)
           \/ LookupUser(r) \/ SelectUser(r) \/ DeleteRow(r) \/ DropEntry(r)
  <2>1. userCache' = userCache
    BY <1>4 DEF SelectEmail, Insert, AddWallet, OpenSession, CacheSession, SelectSession,
       FillSession, LookupUser, SelectUser, DeleteRow, DropEntry, store
  <2>2. CASE End(r)
    BY <1>1, <1>3, <2>1, <2>2
  <2>3. CASE (SelectEmail(r) \/ SelectUser(r) \/ Insert(r)) /\ ~End(r)
    <3>1. pc[r] \in Missing /\ (loc' = loc \/ \E role : loc' = [loc EXCEPT ![r].role = role])
      BY <2>3 DEF SelectEmail, SelectUser, Insert, Hold, Missing
    <3>2. loc'[r].shared = loc[r].shared /\ loc'[r].user = loc[r].user
      BY <1>0, <3>1 DEF Local
    <3> QED
      BY <1>2, <1>3, <2>1, <3>1, <3>2
  <2>4. CASE AddWallet(r)
    <3>1. pc[r] \in Missing /\ \E x : loc' = [loc EXCEPT ![r].todo = x]
      BY <2>4 DEF AddWallet, Missing
    <3>2. loc'[r].shared = loc[r].shared /\ loc'[r].user = loc[r].user
      BY <1>0, <3>1 DEF Local
    <3> QED
      BY <1>2, <1>3, <2>1, <3>1, <3>2
  <2>5. CASE (OpenSession(r) \/ CacheSession(r) \/ DeleteRow(r) \/ DropEntry(r)) /\ ~End(r)
    <3>1. \/ loc' = loc
          \/ \E t, x : loc' = [loc EXCEPT ![r].new = t, ![r].read = x]
          \/ \E x : loc' = [loc EXCEPT ![r].read = x]
      BY <2>5 DEF OpenSession, CacheSession, DeleteRow, DropEntry
    <3>2. loc'[r].shared = loc[r].shared /\ loc'[r].user = loc[r].user
      <4>1. ASSUME NEW t, NEW x, loc' = [loc EXCEPT ![r].new = t, ![r].read = x]
            PROVE  loc'[r].shared = loc[r].shared /\ loc'[r].user = loc[r].user
        BY <1>0, <4>1 DEF Local
      <4>2. ASSUME NEW x, loc' = [loc EXCEPT ![r].read = x]
            PROVE  loc'[r].shared = loc[r].shared /\ loc'[r].user = loc[r].user
        BY <1>0, <4>2 DEF Local
      <4> QED
        BY <3>1, <4>1, <4>2
    <3>3. pc'[r] \notin Missing
      BY <1>0, <2>5 DEF OpenSession, CacheSession, DeleteRow, DropEntry, Step, Missing
    <3> QED
      BY <1>2, <1>3, <2>1, <3>2, <3>3
  <2>6. CASE (SelectSession(r) \/ FillSession(r)) /\ ~End(r)
    <3>1. ~loc[r].shared /\ pc'[r] \notin Missing
      BY <1>0, <2>6 DEF SelectSession, FillSession, Step, Fits, Missing
    <3>2. \/ \E x : loc' = [loc EXCEPT ![r].read = x]
          \/ \E x, u : loc' = [loc EXCEPT ![r].user = u, ![r].read = x]
      BY <2>6 DEF SelectSession, FillSession
    <3>3. ~loc'[r].shared
      <4>1. ASSUME NEW x, loc' = [loc EXCEPT ![r].read = x] PROVE ~loc'[r].shared
        BY <1>0, <3>1, <4>1 DEF Local
      <4>2. ASSUME NEW x, NEW u, loc' = [loc EXCEPT ![r].user = u, ![r].read = x]
            PROVE  ~loc'[r].shared
        BY <1>0, <3>1, <4>2 DEF Local
      <4> QED
        BY <3>2, <4>1, <4>2
    <3>4. Apart(pc'[r], loc'[r])
      BY <3>1, <3>3 DEF Apart
    <3> QED
      BY <1>3, <2>1, <3>4
  <2>7. CASE LookupUser(r) /\ ~End(r)
    <3>1. CASE userCache[loc[r].user] = Miss
      <4>1. loc'[r] = loc[r]
        BY <2>7, <3>1 DEF LookupUser
      <4>2. loc[r].user \notin booted
        BY <3>1 DEF BootInv, BootedUsersCanLogIn
      <4>3. Apart(pc'[r], loc'[r])
        BY <4>1, <4>2 DEF Apart
      <4> QED
        BY <1>3, <2>1, <4>3
    <3>2. CASE userCache[loc[r].user] # Miss
      <4>1. pc'[r] \notin Missing /\ \E role : loc' = [loc EXCEPT ![r].role = role]
        BY <1>0, <2>7, <3>2 DEF LookupUser, Hold, Step, Missing
      <4>2. loc'[r].shared = loc[r].shared /\ loc'[r].user = loc[r].user
        BY <1>0, <4>1 DEF Local
      <4> QED
        BY <1>2, <1>3, <2>1, <4>1, <4>2
    <3> QED
      BY <3>1, <3>2
  <2> QED
    BY <1>4, <2>2, <2>3, <2>4, <2>5, <2>6, <2>7
<1>5. CASE FillEmail(r) \/ CacheUser(r) \/ FillUser(r)
  <2>1. loc[r].user \notin booted
    BY <1>0, <1>5 DEF FillEmail, CacheUser, FillUser, Step, Apart, Missing
  <2>2. \A u \in User : u \in booted => userCache'[u] = userCache[u]
    BY <1>0, <1>5, <2>1 DEF FillEmail, CacheUser, FillUser, PutUser, PutUserAndEnd
  <2>3. (loc'[r] = Nothing /\ pc'[r] = "idle") \/ loc'[r].user = loc[r].user
    <3>1. CASE PutUser(r)
      BY <1>0, <3>1 DEF PutUser, Local
    <3>2. CASE PutUserAndEnd(r)
      BY <1>0, <3>2 DEF PutUserAndEnd
    <3>3. CASE CacheUser(r)
      BY <1>0, <3>3 DEF CacheUser, Local
    <3> QED
      BY <1>5, <3>1, <3>2, <3>3 DEF FillEmail, FillUser
  <2>4. Apart(pc'[r], loc'[r])
    BY <2>1, <2>3 DEF Apart, Nothing, Job, Missing
  <2> QED
    BY <1>0, <2>2, <2>4, BootsStay
<1>6. CASE Answer(r) \/ BlankView(r)
  <2>1. BlankHash(r) /\ End(r)
    BY <1>6 DEF Answer, BlankView
  <2>2. \A u \in User : u \in booted => userCache'[u] = userCache[u]
    BY <1>0, <2>1 DEF BlankHash, Apart
  <2> QED
    BY <1>0, <1>1, <2>1, <2>2, BootsStay
<1> QED
  BY <1>4, <1>5, <1>6 DEF Serve

LEMMA BootsStep == Shape /\ BootInv /\ [Next]_vars => BootInv'
<1> SUFFICES ASSUME Shape, BootInv, [Next]_vars PROVE BootInv'
  OBVIOUS
<1>0. pc \in [Req -> Stage] /\ loc \in [Req -> Local]
  BY DEF Shape, LocalsFit
<1>1. CASE (\E u \in User : Promote(u)) \/ UNCHANGED vars
  BY <1>1, SameKeeps, BootsStay DEF Promote, vars, histories
<1>2. CASE Tick
  <2>1. ASSUME NEW p \in Req PROVE Apart(pc'[p], loc'[p])
    <3>1. pc'[p] = pc[p] /\ loc'[p].shared = loc[p].shared /\ loc'[p].user = loc[p].user
      BY <1>0, <1>2 DEF Tick, Local
    <3> QED
      BY <3>1 DEF BootInv, Apart
  <2> QED
    BY <1>2, <2>1, BootsStay DEF Tick, histories
<1>3. CASE Restart
  <2>1. BootedUsersCanLogIn'
    <3> SUFFICES ASSUME NEW u \in User, row[u] # "none"
                 PROVE  userCache'[u] # Miss /\ ~userCache'[u].blank
      BY <1>3 DEF Restart, BootedUsersCanLogIn
    <3> DEFINE c == [role |-> row[u], blank |-> FALSE]
    <3>1. userCache'[u] = c
      BY <1>3 DEF Restart
    <3>2. c \in Record /\ ~c.blank
      BY DEF Shape, DataTyped, Record
    <3> HIDE DEF c
    <3> QED
      BY <3>1, <3>2, AuthAssumption
  <2>2. ASSUME NEW p \in Req PROVE Apart(pc[p], loc[p])'
    <3>1. pc'[p] = "idle" /\ loc'[p] = Nothing
      BY <1>3 DEF Restart
    <3> QED
      BY <3>1, NothingFits DEF Apart, Missing
  <2> QED
    BY <2>1, <2>2 DEF BootInv
<1> QED
  BY <1>1, <1>2, <1>3, BootsCall, BootsServe DEF Next

\* Users that were there when the process started can log in until it stops:
\* no request blanks or drops their record (cache_service.go:52, :67).
THEOREM BootedUsersServed == Spec => []BootedUsersCanLogIn
<1>1. Init => BootInv
  <2> SUFFICES ASSUME Init PROVE BootInv
    OBVIOUS
  <2>1. booted = {}
    BY DEF Init
  <2> QED
    BY <2>1 DEF BootInv, BootedUsersCanLogIn, Apart
<1>2. BootInv => BootedUsersCanLogIn
  BY DEF BootInv
<1> QED
  BY <1>1, <1>2, ShapeHolds, BootsStep, PTL DEF Spec

-------------------------------------------------------------------------------
(* Every wallet is there or accounted for *)

AtWork == {"cacheUser", "addWallet"}

\* What a registration at stage s has done for its user.
Entered(s, l) ==
    /\ s \in AtWork => row[l.user] # "none"
    /\ s = "cacheUser" => wallets[l.user] = {} /\ missed[l.user] = {}
    /\ s = "addWallet" => /\ wallets[l.user] = (Currency \ l.todo) \ missed[l.user]
                         /\ missed[l.user] \cap l.todo = {}

WalletInv ==
    /\ WalletsAccountedFor
    /\ \A u \in User : row[u] = "none" => wallets[u] = {} /\ missed[u] = {}
    /\ \A p \in Req : Entered(pc[p], loc[p])
    /\ \A p, q \in Req :
           pc[p] \in AtWork /\ pc[q] \in AtWork /\ loc[p].user = loc[q].user => p = q

\* A request stays at work for the same user, or is not at work.
Elsewhere(p) ==
    \/ pc'[p] = pc[p] /\ loc'[p].user = loc[p].user /\ loc'[p].todo = loc[p].todo
    \/ pc[p] \notin AtWork /\ pc'[p] \notin AtWork

LEMMA WalletsStay ==
    ASSUME Shape, WalletInv, wallets' = wallets, missed' = missed,
           \A u \in User : row'[u] = "none" <=> row[u] = "none",
           \A p \in Req : Elsewhere(p)
    PROVE  WalletInv'
<1>0. \A p \in Req : loc[p].user \in User
  BY DEF Shape, LocalsFit, Local
<1>1. ASSUME NEW u \in User PROVE Registering(u)' <=> Registering(u)
  BY DEF Registering, Elsewhere, AtWork
<1>2. WalletsAccountedFor'
  BY <1>1 DEF WalletInv, WalletsAccountedFor
<1>3. \A p \in Req : Entered(pc[p], loc[p])'
  BY <1>0 DEF WalletInv, Entered, Elsewhere, AtWork
<1>4. \A p, q \in Req :
           pc'[p] \in AtWork /\ pc'[q] \in AtWork /\ loc'[p].user = loc'[q].user => p = q
  BY DEF WalletInv, Elsewhere
<1> QED
  BY <1>2, <1>3, <1>4 DEF WalletInv, AtWork

LEMMA WalletsQuiet ==
    ASSUME Shape, WalletInv, NEW r \in Req,
           Call(r) \/ (Serve(r) /\ ~Insert(r) /\ ~CacheUser(r) /\ ~AddWallet(r))
    PROVE  WalletInv'
<1>0. pc \in [Req -> Stage] /\ loc \in [Req -> Local]
  BY DEF Shape, LocalsFit
<1>1. CASE Call(r)
  <2>1. UNCHANGED <<row, wallets, missed>>
    BY <1>1 DEF Call, Register, View, LoginHit, LoginMiss, Refresh, Logout, store, histories
  <2>2. pc[r] \notin AtWork /\ pc'[r] \notin AtWork
    BY <1>0, <1>1 DEF Call, Register, View, LoginHit, LoginMiss, Refresh, Logout, Begin, Step, AtWork
  <2> QED
    BY <1>1, <2>1, <2>2, WalletsStay, OthersKeep DEF Keeps, Elsewhere
<1>2. CASE ~Call(r)
  <2>0. Serve(r)
    BY <1>2
  <2>1. UNCHANGED <<row, wallets, missed>>
    BY <1>2 DEF Serve, SelectEmail, FillEmail, OpenSession, CacheSession, Answer, SelectSession,
       FillSession, LookupUser, SelectUser, FillUser, BlankView, DeleteRow, DropEntry, store, histories
  <2>2. pc[r] \notin AtWork /\ pc'[r] \notin AtWork
    <3>1. CASE \/ SelectEmail(r) \/ OpenSession(r) \/ CacheSession(r) \/ Answer(r)
               \/ SelectSession(r) \/ FillSession(r) \/ LookupUser(r) \/ SelectUser(r)
               \/ BlankView(r) \/ DeleteRow(r) \/ DropEntry(r)
      BY <1>0, <3>1 DEF SelectEmail, OpenSession, CacheSession, Answer, SelectSession, FillSession,
         LookupUser, SelectUser, BlankView, DeleteRow, DropEntry, End, Step, AtWork
    <3>2. CASE FillEmail(r) \/ FillUser(r)
      BY <1>0, <3>2 DEF FillEmail, FillUser, PutUserAndEnd, Step, AtWork
    <3> QED
      BY <1>2, <3>1, <3>2 DEF Serve
  <2> QED
    BY <2>0, <2>1, <2>2, WalletsStay, OthersKeep DEF Keeps, Elsewhere
<1> QED
  BY <1>1, <1>2

LEMMA EnteredStays ==
    ASSUME NEW p \in Req, pc'[p] = pc[p], loc'[p].user = loc[p].user, loc'[p].todo = loc[p].todo,
           pc[p] \in AtWork => /\ row[loc[p].user] # "none" => row'[loc[p].user] # "none"
                              /\ wallets'[loc[p].user] = wallets[loc[p].user]
                              /\ missed'[loc[p].user] = missed[loc[p].user],
           Entered(pc[p], loc[p])
    PROVE  Entered(pc[p], loc[p])'
<1>1. CASE pc[p] \notin AtWork
  BY <1>1 DEF Entered, AtWork
<1>2. CASE pc[p] = "cacheUser"
  BY <1>2 DEF Entered, AtWork
<1>3. CASE pc[p] = "addWallet"
  BY <1>3 DEF Entered, AtWork
<1> QED
  BY <1>1, <1>2, <1>3 DEF AtWork

LEMMA WalletsInsert ==
    ASSUME Shape, WalletInv, NEW r \in Req, Insert(r)
    PROVE  WalletInv'
<1> DEFINE x == loc[r].user
<1>0. /\ pc \in [Req -> Stage] /\ loc \in [Req -> Local] /\ x \in User /\ pc[r] = "insert"
      /\ row \in [User -> Role \cup {"none"}] /\ missed \in [User -> SUBSET Currency]
      /\ wallets' = wallets
      /\ \A p \in Req : p # r => Keeps(p)
  BY OthersKeep DEF Shape, LocalsFit, DataTyped, Local, Insert, Serve
<1>1. CASE row' = row
  <2>1. End(r) /\ missed' = missed
    BY <1>0, <1>1 DEF Insert, Role
  <2>2. pc[r] \notin AtWork /\ pc'[r] \notin AtWork
    BY <1>0, <2>1 DEF End, AtWork
  <2> QED
    BY <1>0, <1>1, <2>1, <2>2, WalletsStay DEF Keeps, Elsewhere
<1>2. CASE row' # row
  <2>1. row[x] = "none" /\ row' = [row EXCEPT ![x] = "client"]
    BY <1>2 DEF Insert
  <2>2. wallets[x] = {} /\ missed[x] = {}
    BY <1>0, <2>1 DEF WalletInv
  <2>3. \A p \in Req : pc[p] \in AtWork => loc[p].user # x
    BY <2>1 DEF WalletInv, Entered
  <2>4. \/ pc'[r] = "cacheUser" /\ loc' = loc /\ missed' = missed
        \/ pc'[r] = "idle" /\ missed' = [missed EXCEPT ![x] = Currency]
    BY <1>0, <1>2 DEF Insert, Step, End
  <2>5. \A p \in Req : p # r => (pc'[p] \in AtWork <=> pc[p] \in AtWork)
                               /\ loc'[p].user = loc[p].user /\ loc'[p].todo = loc[p].todo
    BY <1>0 DEF Keeps
  <2>6. \A u \in User : u # x => row'[u] = row[u] /\ missed'[u] = missed[u]
    BY <1>0, <2>1, <2>4
  <2> HIDE DEF x
  <2>7. \A p \in Req : Entered(pc[p], loc[p])'
    <3> SUFFICES ASSUME NEW p \in Req PROVE Entered(pc[p], loc[p])'
      OBVIOUS
    <3>1. CASE p = r
      BY <1>0, <2>1, <2>2, <2>4, <3>1 DEF Entered, AtWork, x
    <3>2. CASE p # r
      <4>1. loc[p].user \in User /\ pc'[p] = pc[p]
        BY <1>0, <3>2 DEF Keeps, Local
      <4>2. pc[p] \in AtWork => row'[loc[p].user] = row[loc[p].user] /\ missed'[loc[p].user] = missed[loc[p].user]
        BY <2>3, <2>6, <4>1
      <4>3. wallets'[loc[p].user] = wallets[loc[p].user] /\ Entered(pc[p], loc[p])
        BY <1>0 DEF WalletInv
      <4> QED
        BY <2>5, <3>2, <4>1, <4>2, <4>3, EnteredStays
    <3> QED
      BY <3>1, <3>2
  <2>8. \A p, q \in Req :
            pc'[p] \in AtWork /\ pc'[q] \in AtWork /\ loc'[p].user = loc'[q].user => p = q
    BY <1>0, <2>3, <2>4, <2>5 DEF WalletInv, AtWork, x
  <2>9. \A u \in User : row'[u] = "none" => wallets'[u] = {} /\ missed'[u] = {}
    BY <1>0, <2>1, <2>6 DEF WalletInv
  <2>10. WalletsAccountedFor'
    <3> SUFFICES ASSUME NEW u \in User, row'[u] # "none", ~Registering(u)'
                 PROVE  wallets'[u] = Currency \ missed'[u]
      BY DEF WalletsAccountedFor
    <3>1. CASE u = x
      <4>1. pc'[r] # "cacheUser"
        BY <2>4, <3>1 DEF Registering, x
      <4> QED
        BY <1>0, <2>2, <2>4, <3>1, <4>1
    <3>2. CASE u # x
      <4>1. ~Registering(u)
        BY <1>0, <2>5, <3>2 DEF Registering, AtWork, x
      <4> QED
        BY <1>0, <2>6, <3>2, <4>1 DEF WalletInv, WalletsAccountedFor
    <3> QED
      BY <3>1, <3>2
  <2> QED
    BY <2>7, <2>8, <2>9, <2>10 DEF WalletInv, AtWork
<1> QED
  BY <1>1, <1>2

LEMMA WalletsCacheUser ==
    ASSUME Shape, WalletInv, NEW r \in Req, CacheUser(r)
    PROVE  WalletInv'
<1>0. /\ pc \in [Req -> Stage] /\ loc \in [Req -> Local] /\ loc[r] \in Local
      /\ pc[r] = "cacheUser" /\ pc'[r] = "addWallet"
      /\ row' = row /\ wallets' = wallets /\ missed' = missed
      /\ \A p \in Req : p # r => Keeps(p)
  BY OthersKeep DEF Shape, LocalsFit, CacheUser, Serve, Step, store, histories
<1>1. loc'[r].user = loc[r].user /\ loc'[r].todo = Currency
  BY <1>0 DEF CacheUser, Local
<1>2. \A p \in Req : (pc'[p] \in AtWork <=> pc[p] \in AtWork) /\ loc'[p].user = loc[p].user
  BY <1>0, <1>1 DEF Keeps, AtWork
<1>3. \A p \in Req : Entered(pc[p], loc[p])'
  <2> SUFFICES ASSUME NEW p \in Req PROVE Entered(pc[p], loc[p])'
    OBVIOUS
  <2>1. CASE p = r
    <3>1. row[loc[r].user] # "none" /\ wallets[loc[r].user] = {} /\ missed[loc[r].user] = {}
      BY <1>0 DEF WalletInv, Entered, AtWork
    <3> QED
      BY <1>0, <1>1, <2>1, <3>1 DEF Entered, AtWork
  <2>2. CASE p # r
    <3>1. pc'[p] = pc[p] /\ loc'[p].user = loc[p].user /\ loc'[p].todo = loc[p].todo
      BY <1>0, <2>2 DEF Keeps
    <3>2. Entered(pc[p], loc[p])
      BY DEF WalletInv
    <3> QED
      BY <1>0, <3>1, <3>2, EnteredStays
  <2> QED
    BY <2>1, <2>2
<1>4. \A u \in User : Registering(u)' <=> Registering(u)
  BY <1>2 DEF Registering, AtWork
<1> QED
  BY <1>0, <1>2, <1>3, <1>4 DEF WalletInv, WalletsAccountedFor, AtWork

LEMMA WalletsAddWallet ==
    ASSUME Shape, WalletInv, NEW r \in Req, AddWallet(r)
    PROVE  WalletInv'
<1> DEFINE x == loc[r].user
           gone == pc'[r] # "addWallet"
<1>0. /\ pc \in [Req -> Stage] /\ loc \in [Req -> Local] /\ loc[r] \in Local
      /\ x \in User /\ loc[r].todo \subseteq Currency
      /\ pc[r] = "addWallet" /\ row' = row
      /\ wallets \in [User -> SUBSET Currency] /\ missed \in [User -> SUBSET Currency]
      /\ \A p \in Req : p # r => Keeps(p)
  BY OthersKeep DEF Shape, LocalsFit, DataTyped, Local, AddWallet, Serve
<1>1. PICK c \in loc[r].todo :
        /\ \/ /\ wallets' = [wallets EXCEPT ![x] = @ \cup {c}]
              /\ missed' = missed
           \/ /\ missed' = [missed EXCEPT ![x] = @ \cup {c}]
              /\ wallets' = wallets
        /\ loc' = [loc EXCEPT ![r].todo = @ \ {c}]
        /\ pc' = [pc EXCEPT ![r] = IF loc[r].todo = {c} THEN "openSession" ELSE "addWallet"]
  BY DEF AddWallet
<1>2. /\ row[x] # "none"
      /\ wallets[x] = (Currency \ loc[r].todo) \ missed[x]
      /\ missed[x] \cap loc[r].todo = {}
      /\ c \in Currency
  BY <1>0 DEF WalletInv, Entered, AtWork
<1>3. loc'[r].user = x /\ loc'[r].todo = loc[r].todo \ {c}
  BY <1>0, <1>1 DEF Local
<1>4. /\ loc[r].todo = {c} => pc'[r] = "openSession"
      /\ loc[r].todo # {c} => pc'[r] = "addWallet"
  BY <1>0, <1>1
<1>5. \A p \in Req : p # r => /\ pc'[p] = pc[p] /\ loc'[p].user = loc[p].user
                             /\ loc'[p].todo = loc[p].todo
  BY <1>0 DEF Keeps
<1>6. \A u \in User : u # x => wallets'[u] = wallets[u] /\ missed'[u] = missed[u]
  BY <1>0, <1>1
<1>7. \A p \in Req : p # r /\ pc[p] \in AtWork => loc[p].user # x
  BY <1>0 DEF WalletInv, AtWork
<1>8. wallets'[x] = (Currency \ loc'[r].todo) \ missed'[x] /\ missed'[x] \cap loc'[r].todo = {}
  <2>1. \/ wallets'[x] = wallets[x] \cup {c} /\ missed'[x] = missed[x]
        \/ missed'[x] = missed[x] \cup {c} /\ wallets'[x] = wallets[x]
    BY <1>0, <1>1
  <2> QED
    BY <1>0, <1>2, <1>3, <2>1
<1> HIDE DEF x
<1>9. \A p \in Req : Entered(pc[p], loc[p])'
  <2> SUFFICES ASSUME NEW p \in Req PROVE Entered(pc[p], loc[p])'
    OBVIOUS
  <2>1. CASE p = r
    BY <1>0, <1>2, <1>3, <1>4, <1>8, <2>1 DEF Entered, AtWork
  <2>2. CASE p # r
    <3>1. loc[p].user \in User /\ Entered(pc[p], loc[p])
      BY <1>0 DEF WalletInv, Local
    <3> QED
      BY <1>0, <1>5, <1>6, <1>7, <2>2, <3>1, EnteredStays
  <2> QED
    BY <2>1, <2>2
<1>10. \A p, q \in Req :
           pc'[p] \in AtWork /\ pc'[q] \in AtWork /\ loc'[p].user = loc'[q].user => p = q
  BY <1>0, <1>3, <1>5, <1>7 DEF WalletInv
<1>11. \A u \in User : row'[u] = "none" => wallets'[u] = {} /\ missed'[u] = {}
  BY <1>0, <1>2, <1>6 DEF WalletInv
<1>12. WalletsAccountedFor'
  <2> SUFFICES ASSUME NEW u \in User, row'[u] # "none", ~Registering(u)'
               PROVE  wallets'[u] = Currency \ missed'[u]
    BY DEF WalletsAccountedFor
  <2>1. CASE u = x
    <3>1. pc'[r] # "addWallet"
      BY <1>3, <2>1 DEF Registering
    <3>2. loc'[r].todo = {}
      BY <1>3, <1>4, <3>1
    <3> QED
      BY <1>8, <2>1, <3>2
  <2>2. CASE u # x
    <3>1. ~Registering(u)
      BY <1>0, <1>5, <2>2 DEF Registering, x
    <3> QED
      BY <1>0, <1>6, <2>2, <3>1 DEF WalletInv, WalletsAccountedFor
  <2> QED
    BY <2>1, <2>2
<1> QED
  BY <1>9, <1>10, <1>11, <1>12 DEF WalletInv

LEMMA WalletsRestart == Shape /\ WalletInv /\ Restart => WalletInv'
<1> SUFFICES ASSUME Shape, WalletInv, Restart PROVE WalletInv'
  OBVIOUS
<1>0. /\ wallets' = wallets /\ row' = row /\ wallets \in [User -> SUBSET Currency]
      /\ \A u \in User : missed'[u] = IF Registering(u) THEN Currency \ wallets[u] ELSE missed[u]
      /\ \A p \in Req : pc'[p] = "idle"
  BY DEF Restart, store, Shape, DataTyped
<1>1. WalletsAccountedFor'
  <2> SUFFICES ASSUME NEW u \in User, row'[u] # "none" PROVE wallets'[u] = Currency \ missed'[u]
    BY DEF WalletsAccountedFor
  <2>1. CASE Registering(u)
    BY <1>0, <2>1
  <2>2. CASE ~Registering(u)
    BY <1>0, <2>2 DEF WalletInv, WalletsAccountedFor
  <2> QED
    BY <2>1, <2>2
<1>2. \A u \in User : row'[u] = "none" => wallets'[u] = {} /\ missed'[u] = {}
  <2> SUFFICES ASSUME NEW u \in User, row[u] = "none" PROVE wallets'[u] = {} /\ missed'[u] = {}
    BY <1>0
  <2>1. ~Registering(u)
    BY DEF WalletInv, Entered, Registering, AtWork
  <2> QED
    BY <1>0, <2>1 DEF WalletInv
<1>3. \A p \in Req : pc'[p] \notin AtWork
  BY <1>0 DEF AtWork
<1>4. \A p \in Req : Entered(pc[p], loc[p])'
  BY <1>0 DEF Entered, AtWork
<1> QED
  BY <1>1, <1>2, <1>3, <1>4 DEF WalletInv

LEMMA WalletsStep == Shape /\ WalletInv /\ [Next]_vars => WalletInv'
<1> SUFFICES ASSUME Shape, WalletInv, [Next]_vars PROVE WalletInv'
  OBVIOUS
<1>0. /\ pc \in [Req -> Stage] /\ loc \in [Req -> Local]
      /\ row \in [User -> Role \cup {"none"}]
  BY DEF Shape, LocalsFit, DataTyped
<1>1. CASE \E u \in User : Promote(u)
  <2>1. \A u \in User : row'[u] = "none" <=> row[u] = "none"
    BY <1>0, <1>1 DEF Promote, Role
  <2> QED
    BY <1>1, <2>1, WalletsStay DEF Promote, Elsewhere, histories
<1>2. CASE UNCHANGED vars
  BY <1>2, WalletsStay DEF vars, store, histories, Elsewhere
<1>3. CASE Tick
  <2>1. ASSUME NEW p \in Req PROVE Elsewhere(p)
    BY <1>0, <1>3 DEF Tick, Local, Elsewhere
  <2> QED
    BY <1>3, <2>1, WalletsStay DEF Tick, store, histories
<1> QED
  BY <1>1, <1>2, <1>3, WalletsRestart, WalletsQuiet, WalletsInsert, WalletsCacheUser,
     WalletsAddWallet DEF Next

\* A registered user has a wallet in every currency but those whose INSERT
\* failed or was never reached (auth_service.go:69-79).
THEOREM WalletsComplete == Spec => []WalletsAccountedFor
<1>1. Init => WalletInv
  <2> SUFFICES ASSUME Init PROVE WalletInv
    OBVIOUS
  <2>1. /\ \A u \in User : row[u] = "none" /\ wallets[u] = {} /\ missed[u] = {}
        /\ \A p \in Req : pc[p] = "idle"
    BY DEF Init
  <2> QED
    BY <2>1 DEF WalletInv, WalletsAccountedFor, Entered, AtWork
<1>2. WalletInv => WalletsAccountedFor
  BY DEF WalletInv
<1> QED
  BY <1>1, <1>2, ShapeHolds, WalletsStep, PTL DEF Spec

================================================================================
