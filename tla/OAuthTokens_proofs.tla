------------------------- MODULE OAuthTokens_proofs -------------------------
(* Theorems about OAuthTokens, for any numbers of accounts, consumers,       *)
(* workers, editors, tokens and instants.                                    *)
EXTENDS OAuthTokens, FiniteSetTheorems, TLAPS

\* What a worker's record says about the table at each step of its grant.
WorkOK(q) ==
  /\ q.old \in 0..issued /\ q.access \in 0..issued /\ q.refresh \in 0..issued
  /\ q.access # NoToken => token[q.access].parent = q.old
  /\ q.refresh # NoToken => token[q.refresh].parent = q.old
  /\ q.grant = "refresh" =>
       /\ q.step \in {"revokeAccess", "revokeRefresh", "issueAccess", "issueRefresh", "answer"}
       /\ q.old \in Token /\ token[q.old].kind = "refresh"
       /\ q.step # "revokeAccess" => row[token[q.old].access] # "live"
       /\ q.step \notin {"revokeAccess", "revokeRefresh"} => row[q.old] # "live"
  /\ q.grant = "auth_code" =>
       /\ q.step \in {"issueAccess", "issueRefresh", "revokeCode", "answer"}
       /\ q.old \in Token /\ token[q.old].kind = "code"
       /\ q.step = "answer" => row[q.old] # "live"
  /\ q.grant \in {"password", "client_credentials"} =>
       q.step \in {"issueAccess", "issueRefresh", "answer"} /\ q.old = NoToken
  /\ q.grant = "authorize" => q.step \in {"issueCode", "answer"} /\ q.old = NoToken
  /\ q.grant = "resource" =>
       q.step \in {"load", "block", "noToken", "noConsumer"} /\ q.old \in Token
  /\ q.step = "issueRefresh" => q.access \in Token

\* Every link of a token leads to an older one.
LinksOK ==
  \A t \in Token :
    /\ token[t].parent # NoToken =>
         /\ token[t].parent \in Token
         /\ token[token[t].parent].kind \in {"refresh", "code"}
    /\ token[t].kind = "refresh" => token[t].access \in Token

RedeemInv ==
  /\ TypeOK
  /\ \A r \in Request : request[r] # Idle => WorkOK(request[r])
  /\ LinksOK
  /\ RedeemedIsSpent

\* What any step does to the table: tokens are added, those there are keep
\* what was sealed into them, and rows only go from live to revoked to absent.
TableStep ==
  /\ issued \in Nat /\ issued' \in Nat /\ issued <= issued'
  /\ \A t \in Token :
       /\ token'[t] = token[t]
       /\ row[t] # "live" => row'[t] # "live"
       /\ row[t] = "absent" => row'[t] = "absent"

---------------------------------------------------------------------------
\* A step that leaves the table alone is a TableStep.
LEMMA UnchangedTable ==
  ASSUME TypeOK, UNCHANGED tableVars
  PROVE  TableStep
BY DEF TypeOK, tableVars, TableStep, Token

\* persistNew() is a TableStep.
LEMMA PersistNewTable ==
  ASSUME TypeOK, NEW info, PersistNew(info)
  PROVE  TableStep
BY DEF TypeOK, PersistNew, TableStep, Token

\* The save of revoke() is a TableStep.
LEMMA SaveRevokedTable ==
  ASSUME TypeOK, NEW t, SaveRevoked(t)
  PROVE  TableStep
BY DEF TypeOK, SaveRevoked, Stored, TableStep, Token

\* deleteMultipleTokens() is a TableStep.
LEMMA DeleteTable ==
  ASSUME TypeOK, NEW ids, DeleteMultipleTokens(ids)
  PROVE  TableStep
BY DEF TypeOK, DeleteMultipleTokens, TableStep, Token

\* Every step of the system is one of those four.
LEMMA NextTable ==
  ASSUME TypeOK, [Next]_vars
  PROVE  TableStep
<1>1. CASE UNCHANGED vars
  BY <1>1, UnchangedTable DEF vars
<1>2. ASSUME NEW r \in Request, Serve(r)
      PROVE  TableStep
  <2>1. CASE RevokeSave(r) \/ RevokeBlocked(r)
    BY <2>1, SaveRevokedTable DEF RevokeSave, RevokeBlocked
  <2>2. CASE IssueAccessToken(r) \/ IssueRefreshToken(r) \/ IssueAuthCode(r)
    BY <2>2, PersistNewTable DEF IssueAccessToken, IssueRefreshToken, IssueAuthCode
  <2>3. CASE UNCHANGED tableVars
    BY <2>3, UnchangedTable
  <2> QED
    BY <1>2, <2>1, <2>2, <2>3
    DEF Serve, BeginPassword, BeginAuthorize, BeginClientCredentials, BeginRefresh,
        BeginAuthCode, BeginResource, RevokeLoad, Answer, Abort, Authenticate
<1>3. CASE Cron
  BY <1>3, DeleteTable, UnchangedTable DEF Cron, CronCollect, CronDelete, CronAbort
<1>4. CASE Administer
  BY <1>4, DeleteTable, UnchangedTable
  DEF Administer, UpdateAccount, UpdateConsumer, CommitUpdate, RollBackUpdate,
      DeleteAccount, DeleteConsumer
<1>5. CASE Tick
  BY <1>5, UnchangedTable DEF Tick
<1> QED
  BY <1>1, <1>2, <1>3, <1>4, <1>5 DEF Next

---------------------------------------------------------------------------
(* Type correctness.                                                       *)

\* A worker never becomes idle in the middle of a grant.
LEMMA AfterType == \A q : After(q) \in Step \ {"idle"}
BY DEF After, Step

\* The types hold of the empty table.
LEMMA InitTypeOK == Init => TypeOK
BY ConfigAssumption DEF Init, TypeOK, Token, Idle, NoEdit

\* A step of a worker keeps the types.
LEMMA ServeTypeOK ==
  ASSUME RedeemInv, NEW r \in Request, Serve(r)
  PROVE  TypeOK'
<1> USE ConfigAssumption DEF RedeemInv
<1>a. TableStep
  BY NextTable DEF Next
<1>1. ASSUME NEW g \in Grant, NEW s \in Step \ {"idle"}, NEW u \in User,
             NEW c \in Client, NEW t \in Nat, Start(r, g, s, u, c, t),
             UNCHANGED <<tableVars, delivered, now, cron, edit, siteVars, sweptVars>>
      PROVE  TypeOK'
  BY <1>1 DEF Start, Work, TypeOK, Token, NoToken, tableVars, siteVars, sweptVars
<1>2. CASE \/ \E u \in User, c \in Client : BeginPassword(r, u, c) \/ BeginAuthorize(r, u, c)
           \/ \E c \in Client : BeginClientCredentials(r, c)
  <2>1. NoToken \in Nat
    BY DEF NoToken
  <2>2. \A c \in Client : DefaultUser[c] # NoUser => DefaultUser[c] \in User
    OBVIOUS
  <2> QED
    BY <1>1, <1>2, <2>1, <2>2
    DEF BeginPassword, BeginAuthorize, BeginClientCredentials, Grant, Step
<1>3. CASE \E t \in delivered : BeginRefresh(r, t) \/ BeginAuthCode(r, t) \/ BeginResource(r, t)
  <2>1. PICK t \in delivered : BeginRefresh(r, t) \/ BeginAuthCode(r, t) \/ BeginResource(r, t)
    BY <1>3
  <2>2. t \in Nat /\ token[t].user \in User /\ token[t].client \in Client
    BY DEF TypeOK, Token, TokenInfo
  <2> QED
    BY <1>1, <2>1, <2>2 DEF BeginRefresh, BeginAuthCode, BeginResource, Grant, Step
<1>4. ASSUME UNCHANGED <<tableVars, delivered, now, cron, edit, siteVars, sweptVars>>,
             NEW q \in Work \cup {Idle}, request' = [request EXCEPT ![r] = q]
      PROVE  TypeOK'
  BY <1>4 DEF TypeOK, tableVars, siteVars, sweptVars, Token
<1>5. CASE RevokeLoad(r)
  <2>1. request[r] \in Work
    BY <1>5 DEF RevokeLoad, TypeOK, Idle
  <2>2. [request[r] EXCEPT !.loaded = TRUE] \in Work
    BY <2>1 DEF Work
  <2>3. [request[r] EXCEPT !.step = After(request[r])] \in Work
    BY <2>1, AfterType DEF Work
  <2> QED
    BY <1>4, <1>5, <2>2, <2>3 DEF RevokeLoad
<1>6. CASE RevokeSave(r)
  <2>1. request[r] \in Work
    BY <1>6 DEF RevokeSave, TypeOK, Idle
  <2>2. [request[r] EXCEPT !.step = After(request[r]), !.loaded = FALSE] \in Work
    BY <2>1, AfterType DEF Work
  <2> QED
    BY <1>6, <2>2 DEF RevokeSave, SaveRevoked, TypeOK, Status, siteVars, sweptVars, Token
<1>7. ASSUME NEW info \in TokenInfo, PersistNew(info), NEW q \in Work,
             request' = [request EXCEPT ![r] = q],
             UNCHANGED <<delivered, now, cron, edit, siteVars, sweptVars>>
      PROVE  TypeOK'
  BY <1>7 DEF PersistNew, TypeOK, Status, siteVars, sweptVars, Token
<1>8. CASE IssueAccessToken(r) \/ IssueRefreshToken(r) \/ IssueAuthCode(r)
  <2>1. request[r] \in Work
    BY <1>8 DEF IssueAccessToken, IssueRefreshToken, IssueAuthCode, TypeOK, Idle
  <2>2. /\ [request[r] EXCEPT !.step = After(request[r]), !.access = issued + 1] \in Work
        /\ [request[r] EXCEPT !.step = After(request[r]), !.refresh = issued + 1] \in Work
    <3>1. issued + 1 \in Nat /\ After(request[r]) \in Step \ {"idle"}
      BY AfterType DEF TypeOK
    <3>2. ASSUME NEW s \in Step \ {"idle"}, NEW n \in Nat
          PROVE  /\ [request[r] EXCEPT !.step = s, !.access = n] \in Work
                 /\ [request[r] EXCEPT !.step = s, !.refresh = n] \in Work
      BY <2>1 DEF Work
    <3> QED
      BY <3>1, <3>2
  <2>3. ASSUME NEW k \in Kind, NEW ttl \in Nat, NEW a \in Nat, NEW p \in Nat
        PROVE  [kind |-> k, user |-> request[r].user, client |-> request[r].client,
                expire |-> now + ttl, access |-> a, parent |-> p] \in TokenInfo
    BY <2>1 DEF Work, TypeOK, TokenInfo
  <2>4. /\ request[r].old \in Nat /\ request[r].access \in Nat /\ NoToken \in Nat
        /\ {"access", "refresh", "code"} \subseteq Kind
    BY <2>1 DEF Work, NoToken, Kind
  <2> QED
    BY <1>7, <1>8, <2>2, <2>3, <2>4
    DEF IssueAccessToken, IssueRefreshToken, IssueAuthCode
<1>9. CASE Answer(r)
  <2>1. request[r] # Idle /\ request[r].access \in 0..issued /\ request[r].refresh \in 0..issued
    BY <1>9 DEF Answer, Idle, WorkOK
  <2>2. {request[r].access, request[r].refresh} \ {NoToken} \subseteq Token
    BY <2>1 DEF NoToken, Token, TypeOK
  <2>3. UNCHANGED <<tableVars, now, cron, edit, siteVars, sweptVars>> /\ Token' = Token
    BY <1>9 DEF Answer, tableVars, Token
  <2>4. delivered' \subseteq Token /\ request' \in [Request -> Work \cup {Idle}]
    BY <1>9, <2>2 DEF Answer, TypeOK
  <2> QED
    BY <2>3, <2>4 DEF TypeOK, tableVars, siteVars, sweptVars
<1>10. CASE Abort(r)
  BY <1>4, <1>10 DEF Abort
<1>11. CASE Authenticate(r)
  <2>1. request[r] \in Work
    BY <1>11 DEF Authenticate, TypeOK, Idle
  <2>2. ASSUME NEW s \in Step \ {"idle"}
        PROVE  [request[r] EXCEPT !.step = s] \in Work
    BY <2>1 DEF Work
  <2>3. AuthenticateOutcome(request[r].old) \in Step
    BY DEF AuthenticateOutcome, Step
  <2> QED
    BY <1>4, <1>11, <2>2, <2>3 DEF Authenticate
<1>12. CASE RevokeBlocked(r)
  BY <1>12 DEF RevokeBlocked, SaveRevoked, TypeOK, Status, siteVars, sweptVars, Token
<1> QED
  BY <1>2, <1>3, <1>5, <1>6, <1>8, <1>9, <1>10, <1>11, <1>12, Serve(r) DEF Serve

\* Cron, updates, deletions and the clock keep the types.
LEMMA OthersTypeOK ==
  ASSUME TypeOK, Cron \/ Administer \/ Tick \/ UNCHANGED vars
  PROVE  TypeOK'
<1> USE ConfigAssumption
<1>1. CASE Cron
  <2>1. Batches \subseteq SUBSET Token
    BY DEF Batches, Expired
  <2>2. CASE CronCollect
    BY <2>1, <2>2 DEF CronCollect, TypeOK, tableVars, siteVars, sweptVars, Token
  <2>3. CASE CronDelete
    BY <2>3 DEF CronDelete, DeleteMultipleTokens, TypeOK, Status, siteVars, sweptVars, Token
  <2>4. CASE CronAbort
    BY <2>4 DEF CronAbort, TypeOK, tableVars, siteVars, sweptVars, Token
  <2> QED
    BY <1>1, <2>2, <2>3, <2>4 DEF Cron
<1>2. ASSUME NEW e \in Editor, NEW d \in Edit \cup {NoEdit},
             edit' = [edit EXCEPT ![e] = d],
             UNCHANGED <<tableVars, delivered, now, request, cron, siteVars, sweptVars>>
      PROVE  TypeOK'
  BY <1>2 DEF TypeOK, tableVars, siteVars, sweptVars, Token
<1>3. ASSUME NEW e \in Editor, NEW u \in User, NEW s \in {"active", "blocked"},
             UpdateAccount(e, u, s)
      PROVE  TypeOK'
  <2>1. /\ CollectForAccount(u) \in SUBSET Nat /\ ClientsOf(u) \in SUBSET Client
        /\ issued \in Nat
    BY DEF CollectForAccount, CollectForClient, ClientsOf, Token, TypeOK
  <2> QED
    BY <1>2, <1>3, <2>1 DEF UpdateAccount, Edit
<1>4. ASSUME NEW e \in Editor, NEW c \in Client, UpdateConsumer(e, c)
      PROVE  TypeOK'
  <2>1. CollectForClient(c) \in SUBSET Nat /\ {c} \in SUBSET Client /\ issued \in Nat
    BY DEF CollectForClient, Token, TypeOK
  <2> QED
    BY <1>2, <1>4, <2>1 DEF UpdateConsumer, Edit
<1>5. ASSUME NEW e \in Editor, CommitUpdate(e)
      PROVE  TypeOK'
  <2>1. edit[e] \in Edit
    BY <1>5 DEF CommitUpdate, TypeOK
  <2>2. edit[e].status \in {"active", "blocked"} /\ edit[e].upto \in Nat
    BY <2>1 DEF Edit
  <2>3. /\ account' \in [User -> {"active", "blocked", "deleted"}]
        /\ userSwept' \in [User -> Nat] /\ clientSwept' \in [Client -> Nat]
    BY <1>5, <2>2 DEF CommitUpdate, TypeOK, Later
  <2> QED
    BY <1>5, <2>3 DEF CommitUpdate, DeleteMultipleTokens, TypeOK, Status, Token
<1>6. ASSUME NEW e \in Editor, RollBackUpdate(e)
      PROVE  TypeOK'
  BY <1>2, <1>6 DEF RollBackUpdate
<1>7. ASSUME NEW u \in User, DeleteAccount(u)
      PROVE  TypeOK'
  BY <1>7 DEF DeleteAccount, TypeOK, tableVars, sweptVars, Token
<1>8. ASSUME NEW c \in Client, DeleteConsumer(c)
      PROVE  TypeOK'
  BY <1>8 DEF DeleteConsumer, TypeOK, tableVars, sweptVars, Token
<1>9. CASE Tick
  BY <1>9 DEF Tick, TypeOK, tableVars, siteVars, sweptVars, Token
<1>10. CASE UNCHANGED vars
  BY <1>10 DEF vars, TypeOK, tableVars, siteVars, sweptVars, Token
<1> QED
  BY <1>1, <1>3, <1>4, <1>5, <1>6, <1>7, <1>8, <1>9, <1>10 DEF Administer

---------------------------------------------------------------------------
(* Redeemed tokens are spent.                                              *)

\* RedeemInv holds of the empty table.
LEMMA InitRedeemInv == Init => RedeemInv
BY InitTypeOK DEF Init, RedeemInv, LinksOK, RedeemedIsSpent, Token, Idle

\* Facts about older tokens survive any step of the table.
LEMMA WorkStable ==
  ASSUME TypeOK, LinksOK, TableStep, NEW q \in Work, WorkOK(q)
  PROVE  WorkOK(q)'
<1>1. /\ issued \in Nat /\ issued' \in Nat /\ issued <= issued'
      /\ \A n \in 0..issued : n \in 0..issued'
      /\ Token \subseteq Token'
  BY DEF TableStep, Token
<1>2. \A t \in Token : token'[t] = token[t] /\ (row[t] # "live" => row'[t] # "live")
  BY DEF TableStep
<1>3. /\ q.old \in 0..issued' /\ q.access \in 0..issued' /\ q.refresh \in 0..issued'
  BY <1>1 DEF WorkOK
<1>4. /\ q.access # NoToken => token'[q.access].parent = q.old
      /\ q.refresh # NoToken => token'[q.refresh].parent = q.old
  BY <1>2 DEF WorkOK, Token, NoToken, TypeOK
<1>5. q.old \in Token /\ token[q.old].kind = "refresh" => token[q.old].access \in Token
  BY DEF LinksOK
<1> QED
  BY <1>1, <1>2, <1>3, <1>4, <1>5 DEF WorkOK

\* What is sealed into a token does not change, nor does a spent token revive.
LEMMA LinksStable ==
  ASSUME RedeemInv, TableStep, issued' = issued, delivered' = delivered
  PROVE  LinksOK' /\ RedeemedIsSpent'
<1>1. Token' = Token
  BY DEF Token
<1>2. \A t \in Token : token'[t] = token[t] /\ (row[t] # "live" => row'[t] # "live")
  BY DEF TableStep
<1>3. LinksOK'
  BY <1>1, <1>2 DEF RedeemInv, LinksOK
<1>4. RedeemedIsSpent'
  <2> SUFFICES ASSUME NEW t \in Token, token[t].parent # NoToken,
                      t \in delivered \/ token[token[t].parent].kind = "refresh"
               PROVE  /\ row'[token[t].parent] # "live"
                      /\ token[token[t].parent].kind = "refresh" =>
                           row'[token[token[t].parent].access] # "live"
    BY <1>1, <1>2 DEF RedeemInv, LinksOK, RedeemedIsSpent
  <2>1. /\ token[t].parent \in Token
        /\ token[token[t].parent].kind = "refresh" => token[token[t].parent].access \in Token
    BY DEF RedeemInv, LinksOK
  <2> QED
    BY <1>2, <2>1 DEF RedeemInv, RedeemedIsSpent
<1> QED
  BY <1>3, <1>4

\* It is enough to look at the worker that takes the step.
LEMMA OneWorker ==
  ASSUME RedeemInv, TableStep, NEW r \in Request, NEW q,
         request' = [request EXCEPT ![r] = q], q = Idle \/ WorkOK(q)'
  PROVE  \A s \in Request : request'[s] # Idle => WorkOK(request[s])'
<1> SUFFICES ASSUME NEW s \in Request, request'[s] # Idle
             PROVE  WorkOK(request[s])'
  OBVIOUS
<1>1. CASE s = r
  BY <1>1 DEF RedeemInv, TypeOK, WorkOK
<1>2. CASE s # r
  BY <1>2, WorkStable DEF RedeemInv, TypeOK, WorkOK
<1> QED
  BY <1>1, <1>2

\* A worker that neither creates nor delivers a token.
LEMMA QuietStep ==
  ASSUME RedeemInv, TableStep, issued' = issued, delivered' = delivered, TypeOK',
         NEW r \in Request, NEW q,
         request' = [request EXCEPT ![r] = q], q = Idle \/ WorkOK(q)'
  PROVE  RedeemInv'
BY OneWorker, LinksStable DEF RedeemInv

\* A worker that creates a token from the token it redeems.
LEMMA IssueStep ==
  ASSUME RedeemInv, TableStep, TypeOK', delivered' = delivered,
         NEW r \in Request, request[r] # Idle, NEW info \in TokenInfo, PersistNew(info),
         info.parent = request[r].old, request[r].grant # "resource",
         request[r].grant = "refresh" => request[r].step \in {"issueAccess", "issueRefresh"},
         info.kind = "refresh" => info.access \in Token,
         NEW q, request' = [request EXCEPT ![r] = q], WorkOK(q)'
  PROVE  RedeemInv'
<1> DEFINE p == request[r].old
<1>1. /\ issued \in Nat /\ issued' = issued + 1
      /\ Token' = Token \cup {issued + 1} /\ issued + 1 \notin Token
      /\ token'[issued + 1] = info
      /\ \A t \in Token : token'[t] = token[t] /\ row'[t] = row[t]
  BY DEF PersistNew, Token, RedeemInv, TypeOK
<1>2. /\ p # NoToken => p \in Token /\ token[p].kind \in {"refresh", "code"}
      /\ p # NoToken /\ token[p].kind = "refresh" =>
           row[p] # "live" /\ row[token[p].access] # "live" /\ token[p].access \in Token
  <2>1. request[r] \in Work /\ WorkOK(request[r])
    BY DEF RedeemInv, TypeOK
  <2>2. request[r].grant \in {"password", "client_credentials", "auth_code", "refresh", "authorize"}
    BY <2>1 DEF Work, Grant
  <2> QED
    BY <2>1, <2>2 DEF WorkOK, RedeemInv, LinksOK
<1>3. LinksOK'
  BY <1>1, <1>2 DEF RedeemInv, LinksOK
<1>4. RedeemedIsSpent'
  <2> SUFFICES ASSUME NEW t \in Token', token'[t].parent # NoToken,
                      t \in delivered \/ token'[token'[t].parent].kind = "refresh"
               PROVE  /\ row'[token'[t].parent] # "live"
                      /\ token'[token'[t].parent].kind = "refresh" =>
                           row'[token'[token'[t].parent].access] # "live"
    BY DEF RedeemedIsSpent
  <2>1. CASE t \in Token
    <3>1. /\ token[t].parent \in Token
          /\ token[token[t].parent].kind = "refresh" => token[token[t].parent].access \in Token
      BY <1>1, <2>1 DEF RedeemInv, LinksOK
    <3> QED
      BY <1>1, <2>1, <3>1 DEF RedeemInv, RedeemedIsSpent
  <2>2. CASE t = issued + 1
    <3>1. t \notin delivered /\ token'[t].parent = p
      BY <1>1, <2>2 DEF RedeemInv, TypeOK
    <3> QED
      BY <1>1, <1>2, <3>1
  <2> QED
    BY <1>1, <2>1, <2>2
<1> QED
  BY <1>3, <1>4, OneWorker DEF RedeemInv

\* A step of a worker keeps RedeemInv.
LEMMA ServeRedeemInv ==
  ASSUME RedeemInv, NEW r \in Request, Serve(r)
  PROVE  RedeemInv'
<1>a. TypeOK' /\ TableStep
  BY ServeTypeOK, NextTable DEF RedeemInv, Next
<1>b. TypeOK /\ LinksOK /\ issued \in Nat
  BY DEF RedeemInv, TypeOK
<1>c. \A q \in Work : WorkOK(q) => WorkOK(q)'
  BY <1>a, <1>b, WorkStable
<1>d. request[r] # Idle => request[r] \in Work /\ WorkOK(request[r])
  BY DEF RedeemInv, TypeOK
<1>1. ASSUME NEW g \in Grant, NEW s \in Step, NEW u, NEW c, NEW t, Start(r, g, s, u, c, t),
             UNCHANGED <<tableVars, delivered, now, cron, edit, siteVars, sweptVars>>,
             \/ /\ g = "password" \/ g = "client_credentials"
                /\ s = "issueAccess" /\ t = NoToken
             \/ g = "authorize" /\ s = "issueCode" /\ t = NoToken
             \/ g = "refresh" /\ s = "revokeAccess" /\ t \in Token /\ token[t].kind = "refresh"
             \/ g = "auth_code" /\ s = "issueAccess" /\ t \in Token /\ token[t].kind = "code"
             \/ g = "resource" /\ s = "load" /\ t \in Token
      PROVE  RedeemInv'
  <2> DEFINE q == [step |-> s, grant |-> g, user |-> u, client |-> c, old |-> t,
                   access |-> NoToken, refresh |-> NoToken, loaded |-> FALSE]
  <2>1. UNCHANGED <<issued, row, token>> /\ delivered' = delivered
    BY <1>1 DEF tableVars
  <2>2. WorkOK(q)
    BY <1>1, <1>b DEF WorkOK, NoToken, Token
  <2>3. WorkOK(q)'
    BY <2>1, <2>2 DEF WorkOK, Token
  <2> HIDE DEF q
  <2>4. request' = [request EXCEPT ![r] = q]
    BY <1>1 DEF Start, q
  <2> QED
    BY <1>a, <2>1, <2>3, <2>4, QuietStep
<1>2. ASSUME NEW u \in User, NEW c \in Client, BeginPassword(r, u, c) \/ BeginAuthorize(r, u, c)
      PROVE  RedeemInv'
  BY <1>1, <1>2 DEF BeginPassword, BeginAuthorize, Grant, Step
<1>3. ASSUME NEW c \in Client, BeginClientCredentials(r, c)
      PROVE  RedeemInv'
  BY <1>1, <1>3 DEF BeginClientCredentials, Grant, Step
<1>4. ASSUME NEW t \in delivered, BeginRefresh(r, t) \/ BeginAuthCode(r, t) \/ BeginResource(r, t)
      PROVE  RedeemInv'
  <2>1. t \in Token
    BY <1>b DEF TypeOK
  <2> QED
    BY <1>1, <1>4, <2>1
    DEF BeginRefresh, BeginAuthCode, BeginResource, Redeemable, Grant, Step
<1>5. CASE RevokeLoad(r)
  <2>0. PICK q : q = request[r]
    OBVIOUS
  <2> DEFINE ql == [q EXCEPT !.loaded = TRUE]
             qs == [q EXCEPT !.step = After(q)]
  <2>1. /\ q \in Work /\ WorkOK(q) /\ UNCHANGED <<issued, row, token, delivered>>
        /\ q.step \in {"revokeAccess", "revokeRefresh", "revokeCode"}
    BY <2>0, <1>5, <1>d DEF RevokeLoad, tableVars, Idle
  <2>2. WorkOK(ql)
    BY <2>1 DEF Work, WorkOK
  <2>3. ASSUME ~Stored(Revoking(q))
        PROVE  WorkOK(qs)
    <3>1. row[Revoking(q)] # "live"
      BY <2>3 DEF Stored
    <3>2. qs.old = q.old /\ qs.access = q.access /\ qs.refresh = q.refresh
          /\ qs.grant = q.grant /\ qs.step = After(q)
      BY <2>1 DEF Work
    <3> QED
      BY <2>1, <3>1, <3>2 DEF WorkOK, Revoking, After
  <2>4. WorkOK(ql)'  /\ (~Stored(Revoking(q)) => WorkOK(qs)')
    BY <2>1, <2>2, <2>3 DEF WorkOK, Token
  <2>5. \/ request' = [request EXCEPT ![r] = ql]
        \/ ~Stored(Revoking(q)) /\ request' = [request EXCEPT ![r] = qs]
    BY <2>0, <1>5 DEF RevokeLoad
  <2> HIDE DEF ql, qs
  <2> QED
    BY <1>a, <2>1, <2>4, <2>5, QuietStep
<1>6. CASE RevokeSave(r)
  <2>0. PICK q : q = request[r]
    OBVIOUS
  <2> DEFINE qs == [q EXCEPT !.step = After(q), !.loaded = FALSE]
  <2>1. /\ q \in Work /\ WorkOK(q) /\ UNCHANGED <<issued, token, delivered>>
        /\ q.step \in {"revokeAccess", "revokeRefresh", "revokeCode"}
        /\ request' = [request EXCEPT ![r] = qs]
        /\ row' = [row EXCEPT ![Revoking(q)] = IF Stored(Revoking(q)) THEN "revoked" ELSE "absent"]
    BY <2>0, <1>6, <1>d DEF RevokeSave, SaveRevoked, tableVars, Idle
  <2>2. qs.old = q.old /\ qs.access = q.access /\ qs.refresh = q.refresh
        /\ qs.grant = q.grant /\ qs.step = After(q)
    BY <2>1 DEF Work
  <2>3. Revoking(q) \in Token /\ row'[Revoking(q)] # "live"
    <3>1. Revoking(q) \in Token
      BY <2>1, <1>b DEF WorkOK, Revoking, LinksOK, Work, Grant
    <3> QED
      BY <2>1, <3>1, <1>b DEF TypeOK
  <2>4. /\ WorkOK(q)' /\ row'[Revoking(q)] # "live" /\ Token' = Token
    BY <1>c, <2>1, <2>3 DEF Token
  <2>5. WorkOK(qs)'
    <3>1. /\ q.grant = "refresh" => q.step \in {"revokeAccess", "revokeRefresh"}
          /\ q.grant = "auth_code" => q.step = "revokeCode"
          /\ q.grant \in {"refresh", "auth_code"}
      BY <2>1 DEF WorkOK, Work, Grant
    <3>2. q.step = "revokeAccess" => qs.step = "revokeRefresh" /\ Revoking(q) = token'[q.old].access
      BY <2>1, <2>2 DEF After, Revoking
    <3>3. q.step = "revokeRefresh" => qs.step = "issueAccess" /\ Revoking(q) = q.old
      BY <2>1, <2>2 DEF After, Revoking
    <3>4. q.step = "revokeCode" => qs.step = "answer" /\ Revoking(q) = q.old
      BY <2>1, <2>2 DEF After, Revoking
    <3> HIDE DEF qs
    <3>5. CASE q.step = "revokeAccess"
      BY <3>5, <2>2, <2>4, <3>1, <3>2 DEF WorkOK
    <3>6. CASE q.step = "revokeRefresh"
      BY <3>6, <2>2, <2>4, <3>1, <3>3 DEF WorkOK
    <3>7. CASE q.step = "revokeCode"
      BY <3>7, <2>2, <2>4, <3>1, <3>4 DEF WorkOK
    <3> QED
      BY <2>1, <3>5, <3>6, <3>7
  <2> HIDE DEF qs
  <2> QED
    BY <1>a, <2>1, <2>5, QuietStep
<1>7. CASE IssueAccessToken(r) \/ IssueRefreshToken(r) \/ IssueAuthCode(r)
  <2>0. PICK q : q = request[r]
    OBVIOUS
  <2>n. PICK n : n = issued + 1
    OBVIOUS
  <2> DEFINE qa == [q EXCEPT !.step = After(q), !.access = n]
             qr == [q EXCEPT !.step = After(q), !.refresh = n]
  <2>1. /\ q \in Work /\ WorkOK(q) /\ q # Idle /\ delivered' = delivered
        /\ q.step \in {"issueAccess", "issueRefresh", "issueCode"}
    BY <2>0, <1>7, <1>d DEF IssueAccessToken, IssueRefreshToken, IssueAuthCode, Idle
  <2>2. PICK info \in TokenInfo :
          /\ PersistNew(info) /\ info.parent = q.old
          /\ info.kind = "refresh" => q.step = "issueRefresh" /\ info.access = q.access
          /\ \/ q.step \in {"issueAccess", "issueCode"} /\ request' = [request EXCEPT ![r] = qa]
             \/ q.step = "issueRefresh" /\ request' = [request EXCEPT ![r] = qr]
    <3> DEFINE I(k, ttl, a, p) == [kind |-> k, user |-> q.user, client |-> q.client,
                                   expire |-> now + ttl, access |-> a, parent |-> p]
    <3>1. \A k \in Kind, ttl \in Nat, a \in Nat, p \in Nat : I(k, ttl, a, p) \in TokenInfo
      BY <2>1, <1>b DEF Work, TypeOK, TokenInfo
    <3>2. q.old \in Nat /\ q.access \in Nat /\ NoToken \in Nat
      BY <2>1 DEF Work, NoToken
    <3>3. CASE IssueAccessToken(r)
      BY <3>1, <3>2, <3>3, <2>0, <2>n, ConfigAssumption DEF IssueAccessToken, Kind
    <3>4. CASE IssueRefreshToken(r)
      BY <3>1, <3>2, <3>4, <2>0, <2>n, ConfigAssumption DEF IssueRefreshToken, Kind
    <3>5. CASE IssueAuthCode(r)
      <4>1. q.old = NoToken
        BY <2>0, <2>1, <3>5 DEF IssueAuthCode, WorkOK, Work, Grant
      <4> QED
        BY <3>1, <3>2, <3>5, <4>1, <2>0, <2>n, ConfigAssumption DEF IssueAuthCode, Kind
    <3> QED
      BY <1>7, <3>3, <3>4, <3>5
  <2>3. /\ issued' = n /\ token'[n] = info /\ Token \subseteq Token'
        /\ n \in Token'
    BY <1>b, <2>n, <2>2 DEF PersistNew, Token
  <2>4. WorkOK(q)'
    BY <1>c, <2>1
  <2>5. /\ q.grant # "resource"
        /\ q.grant = "refresh" => q.step \in {"issueAccess", "issueRefresh"}
        /\ q.grant = "auth_code" => q.step \in {"issueAccess", "issueRefresh"}
        /\ q.grant \in {"password", "client_credentials"} => q.step \in {"issueAccess", "issueRefresh"}
        /\ q.grant = "authorize" => q.step = "issueCode"
    BY <2>1 DEF WorkOK
  <2>6. q.step # "issueRefresh" => WorkOK(qa)'
    <3>1. /\ qa.old = q.old /\ qa.access = n /\ qa.refresh = q.refresh
          /\ qa.grant = q.grant /\ qa.step = After(q)
      BY <2>1 DEF Work
    <3> HIDE DEF qa
    <3>2. qa.access \in 0..issued'
      BY <1>b, <2>n, <2>3, <3>1
    <3> QED
      BY <2>1, <2>2, <2>3, <2>4, <2>5, <3>1, <3>2 DEF WorkOK, After
  <2>7. q.step = "issueRefresh" => WorkOK(qr)'
    <3>1. /\ qr.old = q.old /\ qr.access = q.access /\ qr.refresh = n
          /\ qr.grant = q.grant /\ qr.step = After(q)
      BY <2>1 DEF Work
    <3> HIDE DEF qr
    <3>2. qr.refresh \in 0..issued'
      BY <1>b, <2>n, <2>3, <3>1
    <3> QED
      BY <2>1, <2>2, <2>3, <2>4, <2>5, <3>1, <3>2 DEF WorkOK, After
  <2>8. info.kind = "refresh" => info.access \in Token
    BY <2>1, <2>2 DEF WorkOK
  <2> HIDE DEF qa, qr
  <2> QED
    BY <1>a, <2>0, <2>1, <2>2, <2>5, <2>6, <2>7, <2>8, IssueStep
<1>8. CASE Answer(r)
  <2>1. /\ request[r] \in Work /\ WorkOK(request[r]) /\ request[r].step = "answer"
        /\ UNCHANGED <<issued, row, token>> /\ request' = [request EXCEPT ![r] = Idle]
        /\ delivered' = delivered \cup ({request[r].access, request[r].refresh} \ {NoToken})
    BY <1>8, <1>d DEF Answer, tableVars, Idle
  <2>2. \A s \in Request : request'[s] # Idle => WorkOK(request[s])'
    BY <1>a, <2>1, OneWorker
  <2>3. LinksOK'
    BY <1>b, <2>1 DEF LinksOK, Token
  <2>4. RedeemedIsSpent'
    <3> SUFFICES ASSUME NEW t \in Token, token[t].parent # NoToken,
                        t \in delivered' \/ token[token[t].parent].kind = "refresh"
                 PROVE  /\ row[token[t].parent] # "live"
                        /\ token[token[t].parent].kind = "refresh" =>
                             row[token[token[t].parent].access] # "live"
      BY <2>1 DEF RedeemedIsSpent, Token
    <3>1. CASE t \in delivered \/ token[token[t].parent].kind = "refresh"
      BY <3>1 DEF RedeemInv, RedeemedIsSpent
    <3>2. CASE t = request[r].access \/ t = request[r].refresh
      <4>1. t # NoToken /\ token[t].parent = request[r].old
        BY <2>1, <3>2 DEF WorkOK, Token, NoToken
      <4>2. request[r].grant \in {"refresh", "auth_code"}
        BY <2>1, <4>1 DEF WorkOK, Work, Grant
      <4> QED
        BY <2>1, <4>1, <4>2 DEF WorkOK
    <3> QED
      BY <2>1, <3>1, <3>2
  <2> QED
    BY <1>a, <2>2, <2>3, <2>4 DEF RedeemInv
<1>9. CASE Abort(r)
  BY <1>9, <1>a, QuietStep DEF Abort, tableVars
<1>10. CASE Authenticate(r)
  <2>0. PICK q : q = request[r]
    OBVIOUS
  <2>s. PICK s : s = AuthenticateOutcome(q.old)
    OBVIOUS
  <2> DEFINE qs == [q EXCEPT !.step = s]
  <2>1. q \in Work /\ WorkOK(q) /\ q.step = "load" /\ UNCHANGED <<issued, row, token, delivered>>
    BY <2>0, <1>10, <1>d DEF Authenticate, tableVars, Idle
  <2>2. q.grant = "resource"
    BY <2>1 DEF WorkOK, Work, Grant
  <2>3. s \in {"noToken", "noConsumer", "block", "idle"}
    BY <2>s DEF AuthenticateOutcome
  <2>4. qs.old = q.old /\ qs.access = q.access /\ qs.refresh = q.refresh
        /\ qs.grant = q.grant /\ qs.step = s
    BY <2>1 DEF Work
  <2>5. request' = [request EXCEPT ![r] = IF s = "idle" THEN Idle ELSE qs]
    BY <2>0, <2>s, <1>10 DEF Authenticate
  <2> HIDE DEF qs
  <2>6. s # "idle" => WorkOK(qs)
    BY <2>1, <2>2, <2>3, <2>4 DEF WorkOK
  <2>7. s # "idle" => WorkOK(qs)'
    BY <2>1, <2>6 DEF WorkOK, Token
  <2> QED
    BY <1>a, <2>1, <2>5, <2>7, QuietStep
<1>11. CASE RevokeBlocked(r)
  BY <1>11, <1>a, QuietStep DEF RevokeBlocked, SaveRevoked
<1> QED
  BY <1>2, <1>3, <1>4, <1>5, <1>6, <1>7, <1>8, <1>9, <1>10, <1>11, Serve(r) DEF Serve

\* Every step keeps RedeemInv.
LEMMA NextRedeemInv ==
  ASSUME RedeemInv, [Next]_vars
  PROVE  RedeemInv'
<1>1. CASE \E r \in Request : Serve(r)
  BY <1>1, ServeRedeemInv
<1>2. CASE Cron \/ Administer \/ Tick \/ UNCHANGED vars
  <2>1. TypeOK' /\ TableStep
    BY <1>2, OthersTypeOK, NextTable DEF RedeemInv
  <2>2. UNCHANGED <<issued, delivered, request>>
    BY <1>2 DEF Cron, CronCollect, CronDelete, CronAbort, Administer, UpdateAccount,
       UpdateConsumer, CommitUpdate, RollBackUpdate, DeleteAccount, DeleteConsumer,
       Tick, vars, tableVars, DeleteMultipleTokens
  <2>3. LinksOK' /\ RedeemedIsSpent'
    BY <2>1, <2>2, LinksStable
  <2>4. ASSUME NEW r \in Request, request[r] # Idle
        PROVE  WorkOK(request[r])'
    <3>1. PICK q \in Work : q = request[r] /\ WorkOK(q)
      BY <2>4 DEF RedeemInv, TypeOK
    <3>2. WorkOK(q)'
      BY <2>1, <3>1, WorkStable DEF RedeemInv
    <3> QED
      BY <2>2, <3>1, <3>2
  <2> QED
    BY <2>1, <2>2, <2>3, <2>4 DEF RedeemInv
<1> QED
  BY <1>1, <1>2 DEF Next

\* RedeemInv is an invariant of the specification.
LEMMA RedeemInvariant == Spec => []RedeemInv
BY InitRedeemInv, NextRedeemInv, PTL DEF Spec

\* The table, the workers, cron and the saves in progress always hold values of
\* their types: in particular only tokens that exist are delivered or collected.
THEOREM TypeCorrect == Spec => []TypeOK
BY RedeemInvariant, PTL DEF RedeemInv

\* Rotation and single use of the token endpoint: a token that was redeemed for
\* one a client holds is spent, and so is the access token of a redeemed
\* refresh token, however the workers interleave and wherever they die.
THEOREM RedeemedTokensAreSpent == Spec => []RedeemedIsSpent
BY RedeemInvariant, PTL DEF RedeemInv

---------------------------------------------------------------------------
(* The table implements the life cycle of tokens.                          *)

\* The empty table is the initial state of the life cycle.
LEMMA InitLifecycle == Init => Lifecycle!Init
BY DEF Init, Lifecycle!Init, Token

\* Every step of the table is a step of the life cycle, or none.
LEMMA NextLifecycle ==
  ASSUME TypeOK, TypeOK', [Next]_vars
  PROVE  [Lifecycle!Next]_<<{t \in Token : ~IsRevoked(t)}, {t \in Token : IsRevoked(t)}>>
<1> DEFINE good == {t \in Token : ~IsRevoked(t)}
           spent == {t \in Token : IsRevoked(t)}
<1>1. TableStep
  BY NextTable
<1>2. good = {t \in Token : row[t] = "live"} /\ spent = {t \in Token : row[t] # "live"}
  BY DEF TypeOK, Status, IsRevoked, Stored
<1>3. good' = {t \in Token' : row'[t] = "live"} /\ spent' = {t \in Token' : row'[t] # "live"}
  BY DEF TypeOK, Status, IsRevoked, Stored
<1> HIDE DEF good, spent
<1>4. CASE issued' = issued
  <2>1. Token' = Token
    BY <1>4 DEF Token
  <2>2. good' \subseteq good /\ spent' = spent \cup (good \ good')
    BY <1>1, <1>2, <1>3, <2>1 DEF TableStep
  <2> QED
    BY <2>2 DEF Lifecycle!Next, Lifecycle!Spend, good, spent
<1>5. CASE issued' # issued
  <2>1. PICK info : PersistNew(info)
    BY <1>5 DEF Next, Serve, BeginPassword, BeginAuthorize, BeginClientCredentials,
       BeginRefresh, BeginAuthCode, BeginResource, RevokeLoad, RevokeSave, SaveRevoked,
       IssueAccessToken, IssueRefreshToken, IssueAuthCode, Answer, Abort, Authenticate,
       RevokeBlocked, Cron, CronCollect, CronDelete, CronAbort, Administer,
       UpdateAccount, UpdateConsumer, CommitUpdate, RollBackUpdate, DeleteAccount,
       DeleteConsumer, Tick, vars, tableVars, DeleteMultipleTokens
  <2>2. /\ Token' = Token \cup {issued + 1} /\ issued + 1 \notin Token
        /\ row'[issued + 1] = "live" /\ \A t \in Token : row'[t] = row[t]
    BY <2>1 DEF PersistNew, Token, TypeOK
  <2>3. /\ issued + 1 \in good' \ (good \cup spent)
        /\ good' = good \cup {issued + 1} /\ spent' = spent
    BY <1>2, <1>3, <2>2
  <2> QED
    BY <2>3 DEF Lifecycle!Next, Lifecycle!Issue, good, spent
<1> QED
  BY <1>4, <1>5

\* The table with all its concurrent writers implements TokenLifecycle: no
\* interleaving makes a spent token good again.
THEOREM TableImplementsLifecycle == Spec => TokensFollowLifecycle
<1>1. Spec => []TypeOK
  BY TypeCorrect
<1>2. ASSUME TypeOK, TypeOK', [Next]_vars
      PROVE  [Lifecycle!Next]_<<{t \in Token : ~IsRevoked(t)}, {t \in Token : IsRevoked(t)}>>
  BY <1>2, NextLifecycle
<1> QED
  BY <1>1, <1>2, InitLifecycle, PTL DEF Spec, TokensFollowLifecycle, Lifecycle!Spec

---------------------------------------------------------------------------
(* Updates of accounts and consumers delete what they have to, and no      *)
(* refresh token.                                                          *)

\* The save d has collected every row it must delete that existed when it read
\* the table and is still there, and no refresh token.
EditOK(d) ==
  /\ d.upto <= issued
  /\ d.ids \subseteq Token
  /\ \A t \in d.ids : token[t].kind # "refresh"
  /\ \A t \in Token :
       /\ t <= d.upto /\ token[t].kind # "refresh" /\ row[t] # "absent"
       /\ token[t].user = d.user \/ token[t].client \in d.clients
       => t \in d.ids

SweepInv ==
  /\ RedeemInv
  /\ \A e \in Editor : edit[e] # NoEdit => EditOK(edit[e])
  /\ \A t \in cron : token[t].expire < now
  /\ \A u \in User : userSwept[u] <= issued
  /\ \A c \in Client : clientSwept[c] <= issued
  /\ SweptAreGone

\* SweepInv holds of the empty table.
LEMMA InitSweepInv == Init => SweepInv
BY InitRedeemInv DEF Init, SweepInv, SweptAreGone, Token

\* An edit that has read the table is not disturbed by the steps of others.
LEMMA EditStable ==
  ASSUME TypeOK, TableStep, NEW d \in Edit, EditOK(d)
  PROVE  EditOK(d)'
<1>1. /\ d.upto \in Nat /\ issued \in Nat /\ issued' \in Nat /\ issued <= issued'
      /\ Token \subseteq Token'
      /\ \A t \in Token' : t <= d.upto => t \in Token
  BY DEF TableStep, Token, Edit, EditOK
<1>2. \A t \in Token : token'[t] = token[t] /\ (row[t] = "absent" => row'[t] = "absent")
  BY DEF TableStep
<1> QED
  BY <1>1, <1>2 DEF EditOK

\* Rows of swept tokens stay away while nothing is swept anew.
LEMMA SweptStable ==
  ASSUME SweepInv, TypeOK', TableStep, UNCHANGED sweptVars
  PROVE  /\ SweptAreGone'
         /\ \A u \in User : userSwept'[u] <= issued'
         /\ \A c \in Client : clientSwept'[c] <= issued'
<1>1. /\ issued \in Nat /\ issued' \in Nat /\ issued <= issued'
      /\ \A t \in Token : token'[t] = token[t] /\ (row[t] = "absent" => row'[t] = "absent")
  BY DEF TableStep
<1>2. /\ \A u \in User : userSwept'[u] \in Nat /\ userSwept'[u] <= issued
      /\ \A c \in Client : clientSwept'[c] \in Nat /\ clientSwept'[c] <= issued
      /\ userSwept' = userSwept /\ clientSwept' = clientSwept
  BY DEF SweepInv, RedeemInv, TypeOK, sweptVars
<1>3. SweptAreGone'
  <2> SUFFICES ASSUME NEW t \in Token', token'[t].kind # "refresh",
                      \/ t <= userSwept'[token'[t].user]
                      \/ t <= clientSwept'[token'[t].client]
               PROVE  row'[t] = "absent"
    BY DEF SweptAreGone, Stored
  <2>1. token'[t].user \in User /\ token'[t].client \in Client
    BY DEF TypeOK, TokenInfo
  <2>2. t \in Token
    BY <1>1, <1>2, <2>1 DEF Token
  <2> QED
    BY <1>1, <1>2, <2>2 DEF SweepInv, SweptAreGone, Stored
<1> QED
  BY <1>1, <1>2, <1>3

\* A step that neither commits a save nor runs the collectors.
LEMMA SweepStep ==
  ASSUME SweepInv, RedeemInv', TableStep, UNCHANGED <<sweptVars, edit, cron>>, now <= now'
  PROVE  SweepInv'
<1>1. /\ SweptAreGone'
      /\ \A u \in User : userSwept'[u] <= issued'
      /\ \A c \in Client : clientSwept'[c] <= issued'
  BY SweptStable DEF RedeemInv
<1>2. ASSUME NEW e \in Editor, edit[e] # NoEdit
      PROVE  EditOK(edit[e])'
  <2>1. PICK d \in Edit : d = edit[e] /\ EditOK(d)
    BY <1>2 DEF SweepInv, RedeemInv, TypeOK
  <2>2. EditOK(d)'
    BY <2>1, EditStable DEF SweepInv, RedeemInv
  <2> QED
    BY <2>1, <2>2
<1>3. \A t \in cron : token'[t].expire < now'
  BY DEF SweepInv, RedeemInv, TypeOK, TableStep, TokenInfo
<1> QED
  BY <1>1, <1>2, <1>3 DEF SweepInv

\* A commit deletes what its collector found, and nothing else was left.
LEMMA CommitSweep ==
  ASSUME SweepInv, RedeemInv', TableStep, NEW e \in Editor, CommitUpdate(e)
  PROVE  SweepInv'
<1>0. PICK d \in Edit : d = edit[e] /\ EditOK(d)
  BY DEF CommitUpdate, SweepInv, RedeemInv, TypeOK
<1>1. /\ UNCHANGED <<issued, token, cron, now>> /\ Token' = Token
      /\ row' = [t \in Token |-> IF t \in d.ids THEN "absent" ELSE row[t]]
      /\ edit' = [edit EXCEPT ![e] = NoEdit]
      /\ userSwept' = [u \in User |-> IF u = d.user THEN Later(userSwept[u], d.upto)
                                      ELSE userSwept[u]]
      /\ clientSwept' = [c \in Client |-> IF c \in d.clients THEN Later(clientSwept[c], d.upto)
                                          ELSE clientSwept[c]]
  BY <1>0 DEF CommitUpdate, DeleteMultipleTokens, Token
<1>2. /\ d.upto \in Nat /\ d.upto <= issued /\ issued \in Nat
      /\ \A u \in User : userSwept[u] \in Nat /\ userSwept[u] <= issued
      /\ \A c \in Client : clientSwept[c] \in Nat /\ clientSwept[c] <= issued
  BY <1>0 DEF Edit, EditOK, SweepInv, RedeemInv, TypeOK
<1>3. /\ \A u \in User : userSwept'[u] <= issued'
      /\ \A c \in Client : clientSwept'[c] <= issued'
  BY <1>1, <1>2 DEF Later
<1>4. SweptAreGone'
  <2> SUFFICES ASSUME NEW t \in Token, token[t].kind # "refresh",
                      \/ t <= userSwept'[token[t].user]
                      \/ t <= clientSwept'[token[t].client],
                      row[t] # "absent"
               PROVE  t \in d.ids
    BY <1>1 DEF SweptAreGone, Stored
  <2>1. token[t].user \in User /\ token[t].client \in Client /\ t \in Nat
    BY DEF SweepInv, RedeemInv, TypeOK, TokenInfo, Token
  <2>2. ~(t <= userSwept[token[t].user]) /\ ~(t <= clientSwept[token[t].client])
    BY DEF SweepInv, SweptAreGone, Stored
  <2>3. t <= d.upto /\ (token[t].user = d.user \/ token[t].client \in d.clients)
    BY <1>1, <1>2, <2>1, <2>2 DEF Later
  <2> QED
    BY <1>0, <2>3 DEF EditOK
<1>5. ASSUME NEW f \in Editor, edit'[f] # NoEdit
      PROVE  EditOK(edit[f])'
  <2>1. f # e /\ edit'[f] = edit[f]
    BY <1>1, <1>5 DEF SweepInv, RedeemInv, TypeOK
  <2>2. PICK g \in Edit : g = edit[f] /\ EditOK(g)
    BY <1>5, <2>1 DEF SweepInv, RedeemInv, TypeOK
  <2>3. EditOK(g)'
    BY <2>2, EditStable DEF SweepInv, RedeemInv
  <2> QED
    BY <2>1, <2>2, <2>3
<1>6. \A t \in cron' : token'[t].expire < now'
  BY <1>1 DEF SweepInv
<1> QED
  BY <1>3, <1>4, <1>5, <1>6 DEF SweepInv

\* An editor begins or abandons a save.
LEMMA EditSweep ==
  ASSUME SweepInv, RedeemInv', NEW e \in Editor, NEW d \in Edit \cup {NoEdit},
         edit' = [edit EXCEPT ![e] = d], d = NoEdit \/ EditOK(d),
         UNCHANGED <<tableVars, now, cron, sweptVars>>
  PROVE  SweepInv'
<1>1. UNCHANGED <<issued, row, token, now, cron, userSwept, clientSwept>> /\ Token' = Token
  BY DEF tableVars, sweptVars, Token
<1>2. SweptAreGone'
  BY <1>1 DEF SweepInv, SweptAreGone, Stored
<1>3. ASSUME NEW f \in Editor, edit'[f] # NoEdit
      PROVE  EditOK(edit[f])'
  <2>1. EditOK(edit'[f])
    BY <1>3 DEF SweepInv, RedeemInv, TypeOK
  <2> QED
    BY <1>1, <2>1 DEF EditOK
<1> QED
  BY <1>1, <1>2, <1>3 DEF SweepInv

\* The collector finds every access token and code of what is updated.
LEMMA UpdateSweep ==
  ASSUME SweepInv, RedeemInv', NEW e \in Editor,
         \/ \E u \in User, s \in {"active", "blocked"} : UpdateAccount(e, u, s)
         \/ \E c \in Client : UpdateConsumer(e, c)
         \/ RollBackUpdate(e)
  PROVE  SweepInv'
<1>1. TypeOK /\ issued \in Nat
  BY DEF SweepInv, RedeemInv, TypeOK
<1>2. ASSUME NEW u \in User, NEW s \in {"active", "blocked"}, UpdateAccount(e, u, s)
      PROVE  SweepInv'
  <2>0. PICK d : d = [of |-> "account", user |-> u, status |-> s, clients |-> ClientsOf(u),
                      ids |-> CollectForAccount(u), upto |-> issued]
    OBVIOUS
  <2>1. d \in Edit
    BY <1>1, <2>0 DEF Edit, ClientsOf, CollectForAccount, CollectForClient, Token
  <2>2. EditOK(d)
    BY <1>1, <2>0 DEF EditOK, CollectForAccount, CollectForClient, Stored
  <2> QED
    BY <1>2, <2>0, <2>1, <2>2, EditSweep DEF UpdateAccount
<1>3. ASSUME NEW c \in Client, UpdateConsumer(e, c)
      PROVE  SweepInv'
  <2>0. PICK d : d = [of |-> "consumer", user |-> NoUser, status |-> "active",
                      clients |-> {c}, ids |-> CollectForClient(c), upto |-> issued]
    OBVIOUS
  <2>1. d \in Edit
    BY <1>1, <2>0 DEF Edit, CollectForClient, Token
  <2>2. EditOK(d)
    BY <1>1, <2>0, ConfigAssumption DEF EditOK, CollectForClient, Stored, TypeOK, TokenInfo
  <2> QED
    BY <1>3, <2>0, <2>1, <2>2, EditSweep DEF UpdateConsumer
<1>4. CASE RollBackUpdate(e)
  BY <1>4, EditSweep DEF RollBackUpdate
<1> QED
  BY <1>2, <1>3, <1>4

\* Cron deletes rows, which keeps SweepInv.
LEMMA CronSweep ==
  ASSUME SweepInv, RedeemInv', TableStep, Cron
  PROVE  SweepInv'
<1>1. UNCHANGED <<issued, token, now, edit, userSwept, clientSwept>> /\ Token' = Token
  BY DEF Cron, CronCollect, CronDelete, CronAbort, DeleteMultipleTokens, tableVars,
     sweptVars, Token
<1>2. /\ SweptAreGone'
      /\ \A u \in User : userSwept'[u] <= issued'
      /\ \A c \in Client : clientSwept'[c] <= issued'
  BY <1>1, SweptStable DEF RedeemInv, sweptVars
<1>3. ASSUME NEW f \in Editor, edit'[f] # NoEdit
      PROVE  EditOK(edit[f])'
  <2>1. PICK g \in Edit : g = edit[f] /\ EditOK(g)
    BY <1>1, <1>3 DEF SweepInv, RedeemInv, TypeOK
  <2>2. EditOK(g)'
    BY <2>1, EditStable DEF SweepInv, RedeemInv
  <2> QED
    BY <1>1, <2>1, <2>2
<1>4. cron' \subseteq Expired \cup cron
  BY DEF Cron, CronCollect, CronDelete, CronAbort, Batches
<1>5. \A t \in cron' : token'[t].expire < now'
  BY <1>1, <1>4 DEF SweepInv, Expired
<1> QED
  BY <1>1, <1>2, <1>3, <1>5 DEF SweepInv

\* Every step keeps SweepInv.
LEMMA NextSweepInv ==
  ASSUME SweepInv, [Next]_vars
  PROVE  SweepInv'
<1>1. RedeemInv' /\ TableStep /\ now \in Nat
  BY NextRedeemInv, NextTable DEF SweepInv, RedeemInv, TypeOK
<1>2. CASE \E r \in Request : Serve(r)
  <2>1. UNCHANGED <<sweptVars, edit, cron, now>>
    BY <1>2 DEF Serve, BeginPassword, BeginAuthorize, BeginClientCredentials,
       BeginRefresh, BeginAuthCode, BeginResource, RevokeLoad, RevokeSave,
       IssueAccessToken, IssueRefreshToken, IssueAuthCode, Answer, Abort, Authenticate,
       RevokeBlocked
  <2> QED
    BY <1>1, <2>1, SweepStep
<1>3. CASE Cron
  BY <1>1, <1>3, CronSweep
<1>4. CASE Administer
  <2>1. CASE \/ \E u \in User \cap Deletable : DeleteAccount(u)
             \/ \E c \in Client \cap Deletable : DeleteConsumer(c)
    BY <1>1, <2>1, SweepStep DEF DeleteAccount, DeleteConsumer
  <2> QED
    BY <1>1, <1>4, <2>1, UpdateSweep, CommitSweep DEF Administer
<1>5. CASE Tick \/ UNCHANGED vars
  BY <1>1, <1>5, SweepStep DEF Tick, vars
<1> QED
  BY <1>2, <1>3, <1>4, <1>5 DEF Next

\* Once an update of an account or a consumer has committed, none of its access
\* tokens and codes that existed when the collector read the table has a row,
\* nor will it have one again: a revocation in flight updates, never inserts.
THEOREM UpdatesSweep == Spec => []SweptAreGone
<1>1. Spec => []SweepInv
  BY InitSweepInv, NextSweepInv, PTL DEF Spec
<1> QED
  BY <1>1, PTL DEF SweepInv

\* Only the deletion of expired rows takes a refresh token away.
LEMMA NextKeepsRefresh ==
  ASSUME SweepInv, [Next]_vars, NEW t \in Token, token[t].kind = "refresh", Stored(t),
         row'[t] = "absent"
  PROVE  token[t].expire < now
<1>0. t \in Token /\ row[t] # "absent" /\ row \in [Token -> Status] /\ issued \in Nat
  BY DEF Stored, SweepInv, RedeemInv, TypeOK
<1>1. ASSUME NEW ids, DeleteMultipleTokens(ids)
      PROVE  t \in ids
  BY <1>0, <1>1 DEF DeleteMultipleTokens
<1>2. ASSUME NEW s, SaveRevoked(s)
      PROVE  FALSE
  BY <1>0, <1>2 DEF SaveRevoked, Stored
<1>3. ASSUME NEW info, PersistNew(info)
      PROVE  FALSE
  BY <1>0, <1>3 DEF PersistNew, Token
<1>4. CASE CronDelete
  <2>1. t \in cron
    BY <1>0, <1>4 DEF CronDelete, DeleteMultipleTokens
  <2> QED
    BY <2>1 DEF SweepInv
<1>5. ASSUME NEW e \in Editor, CommitUpdate(e)
      PROVE  FALSE
  <2>1. EditOK(edit[e]) /\ t \in edit[e].ids
    BY <1>1, <1>5 DEF CommitUpdate, SweepInv
  <2> QED
    BY <2>1 DEF EditOK
<1> QED
  BY <1>0, <1>2, <1>3, <1>4, <1>5
  DEF Next, Serve, BeginPassword, BeginAuthorize, BeginClientCredentials,
      BeginRefresh, BeginAuthCode, BeginResource, RevokeLoad, RevokeSave,
      IssueAccessToken, IssueRefreshToken, IssueAuthCode, Answer, Abort, Authenticate,
      RevokeBlocked, Cron, CronCollect, CronAbort, Administer,
      UpdateAccount, UpdateConsumer, RollBackUpdate, DeleteAccount,
      DeleteConsumer, Tick, vars, tableVars

\* Updates never end a session: the row of a refresh token is only ever deleted
\* after the token has expired.
THEOREM UpdatesKeepRefreshTokens == Spec => RefreshOutlivesUpdates
<1>1. Spec => []SweepInv
  BY InitSweepInv, NextSweepInv, PTL DEF Spec
<1>2. ASSUME SweepInv, [Next]_vars
      PROVE  [\A t \in Token : token[t].kind = "refresh" /\ Stored(t) /\ row'[t] = "absent"
                => token[t].expire < now]_vars
  BY <1>2, NextKeepsRefresh
<1> QED
  BY <1>1, <1>2, PTL DEF Spec, RefreshOutlivesUpdates


---------------------------------------------------------------------------
(* Forks are bounded.                                                      *)

\* The delivered refresh tokens that p was redeemed for, and the workers that
\* are redeeming p.
Successors(p) == {t \in delivered : token[t].kind = "refresh" /\ token[t].parent = p}
Redeeming(q, p) == q # Idle /\ q.grant \in {"refresh", "auth_code"} /\ q.old = p
Workers(p) == {r \in Request : Redeeming(request[r], p)}

\* A worker that redeems a token is on the way to at most one successor; and none
\* starts once there is a first, since its delivery comes after the revocation.
ForkInv ==
  /\ RedeemInv
  /\ \A r \in Request : request[r] # Idle /\ request[r].access # NoToken =>
       token[request[r].access].kind # "refresh"
  /\ \A p \in Token :
       Cardinality(Successors(p)) + Cardinality(Workers(p)) <= Cardinality(Request)

\* Workers that give up, and successors that do not appear, leave room.
LEMMA RoomKept ==
  ASSUME NEW S, IsFiniteSet(S), NEW W, IsFiniteSet(W), NEW n \in Nat,
         Cardinality(S) + Cardinality(W) <= n,
         NEW S2 \in SUBSET S, NEW W2 \in SUBSET W
  PROVE  Cardinality(S2) + Cardinality(W2) <= n
<1>1. /\ IsFiniteSet(S2) /\ Cardinality(S2) <= Cardinality(S)
      /\ IsFiniteSet(W2) /\ Cardinality(W2) <= Cardinality(W)
  BY FS_Subset
<1>2. /\ Cardinality(S) \in Nat /\ Cardinality(W) \in Nat
      /\ Cardinality(S2) \in Nat /\ Cardinality(W2) \in Nat
  BY <1>1, FS_CardinalityType
<1> QED BY <1>1, <1>2

\* A worker that is done makes room for its successor.
LEMMA RoomHandedOver ==
  ASSUME NEW S, IsFiniteSet(S), NEW W, IsFiniteSet(W), NEW n \in Nat,
         Cardinality(S) + Cardinality(W) <= n,
         NEW r \in W, NEW t, NEW S2 \in SUBSET (S \cup {t}), NEW W2 \in SUBSET (W \ {r})
  PROVE  Cardinality(S2) + Cardinality(W2) <= n
<1>0. Cardinality(S) \in Nat /\ Cardinality(W) \in Nat
  BY FS_CardinalityType
<1>1. /\ IsFiniteSet(S \cup {t}) /\ Cardinality(S \cup {t}) <= Cardinality(S) + 1
      /\ IsFiniteSet(W \ {r}) /\ Cardinality(W \ {r}) = Cardinality(W) - 1
  <2>1. /\ IsFiniteSet(S \cup {t})
        /\ Cardinality(S \cup {t}) \in {Cardinality(S), Cardinality(S) + 1}
    BY FS_AddElement
  <2>2. IsFiniteSet(W \ {r}) /\ Cardinality(W \ {r}) = Cardinality(W) - 1
    BY FS_RemoveElement
  <2> QED BY <1>0, <2>1, <2>2
<1>2. Cardinality(S \cup {t}) \in Nat /\ Cardinality(W \ {r}) \in Nat
  BY <1>1, FS_CardinalityType
<1>3. Cardinality(S \cup {t}) + Cardinality(W \ {r}) <= n
  BY <1>0, <1>1, <1>2
<1> QED BY <1>1, <1>3, RoomKept

\* The sets that are counted are finite.
LEMMA ForksFinite ==
  ASSUME TypeOK, NEW p
  PROVE  /\ IsFiniteSet(Successors(p)) /\ IsFiniteSet(Workers(p))
         /\ Workers(p) \subseteq Request /\ Cardinality(Request) \in Nat
<1>1. IsFiniteSet(Token)
  BY FS_Interval DEF TypeOK, Token
<1>2. Successors(p) \in SUBSET Token /\ Workers(p) \in SUBSET Request
  BY DEF Successors, Workers, TypeOK
<1> QED BY <1>1, <1>2, ConfigAssumption, FS_Subset, FS_CardinalityType

\* Without successors there is room for all workers.
LEMMA RoomForAll ==
  ASSUME NEW W \in SUBSET Request
  PROVE  Cardinality({}) + Cardinality(W) <= Cardinality(Request)
<1>1. Cardinality(W) <= Cardinality(Request) /\ Cardinality(W) \in Nat
  BY ConfigAssumption, FS_Subset, FS_CardinalityType
<1>2. Cardinality({}) = 0 /\ Cardinality(Request) \in Nat
  BY ConfigAssumption, FS_EmptySet, FS_CardinalityType
<1> QED BY <1>1, <1>2

\* What was just issued has no successors yet.
LEMMA NewWithoutSuccessors ==
  ASSUME RedeemInv, TableStep, delivered' = delivered, NEW p \in Token' \ Token
  PROVE  Successors(p)' = {}
<1>1. \A t \in delivered : t \in Token /\ token'[t] = token[t]
  BY DEF RedeemInv, TypeOK, TableStep
<1>2. \A t \in Token : token[t].parent # p
  BY DEF RedeemInv, LinksOK, Token, NoToken
<1> QED BY <1>1, <1>2 DEF Successors

\* A step of a worker that delivers nothing and begins to redeem nothing.
LEMMA ForkQuiet ==
  ASSUME ForkInv, RedeemInv', TableStep, delivered' = delivered,
         NEW r \in Request, NEW q, request' = [request EXCEPT ![r] = q],
         \A p \in Token : Redeeming(q, p) => Redeeming(request[r], p),
         q # Idle /\ q.access # NoToken => token'[q.access].kind # "refresh"
  PROVE  ForkInv'
<1>1. TypeOK /\ TypeOK' /\ \A t \in Token : token'[t] = token[t]
  BY DEF ForkInv, RedeemInv, TableStep
<1>2. \A s \in Request : request'[s] = IF s = r THEN q ELSE request[s]
  BY <1>1 DEF TypeOK
<1>3. ASSUME NEW s \in Request, request'[s] # Idle, request'[s].access # NoToken
      PROVE  token'[request'[s].access].kind # "refresh"
  <2>1. CASE s = r
    BY <1>2, <1>3, <2>1
  <2>2. CASE s # r
    <3>1. request'[s] = request[s] /\ request[s] # Idle /\ request[s].access # NoToken
      BY <1>2, <1>3, <2>2
    <3>2. WorkOK(request[s]) /\ token[request[s].access].kind # "refresh"
      BY <3>1 DEF ForkInv, RedeemInv
    <3>3. request[s].access \in Token
      BY <1>1, <3>1, <3>2 DEF WorkOK, Token, NoToken, TypeOK
    <3> QED BY <1>1, <3>1, <3>2, <3>3
  <2> QED BY <2>1, <2>2
<1>4. ASSUME NEW p \in Token
      PROVE  Successors(p)' \in SUBSET Successors(p) /\ Workers(p)' \in SUBSET Workers(p)
  <2>1. \A t \in delivered : token'[t] = token[t]
    BY <1>1 DEF TypeOK
  <2>2. \A s \in Request : Redeeming(request'[s], p) => Redeeming(request[s], p)
    BY <1>2
  <2> QED BY <2>1, <2>2 DEF Successors, Workers
<1>5. ASSUME NEW p \in Token'
      PROVE  (Cardinality(Successors(p)) + Cardinality(Workers(p)) <= Cardinality(Request))'
  <2>1. CASE p \in Token
    <3>1. /\ IsFiniteSet(Successors(p)) /\ IsFiniteSet(Workers(p)) /\ Cardinality(Request) \in Nat
          /\ Cardinality(Successors(p)) + Cardinality(Workers(p)) <= Cardinality(Request)
      BY <1>1, <2>1, ForksFinite DEF ForkInv
    <3> QED BY <1>4, <2>1, <3>1, RoomKept
  <2>2. CASE p \notin Token
    <3>1. Successors(p)' = {}
      BY <2>2, NewWithoutSuccessors DEF ForkInv
    <3>2. Workers(p)' \in SUBSET Request
      BY DEF Workers
    <3> QED BY <3>1, <3>2, RoomForAll
  <2> QED BY <2>1, <2>2
<1> QED BY <1>3, <1>5 DEF ForkInv

\* Begin: the token is still live, so no successor of it has been delivered.
LEMMA ForkBegin ==
  ASSUME ForkInv, RedeemInv', NEW r \in Request, NEW t \in delivered, row[t] = "live",
         NEW q, request' = [request EXCEPT ![r] = q], q.access = NoToken, q.old = t,
         UNCHANGED <<issued, row, token, delivered>>
  PROVE  ForkInv'
<1>1. TypeOK /\ TypeOK' /\ t \in Token /\ Token' = Token /\ t # NoToken
  BY DEF ForkInv, RedeemInv, TypeOK, Token, NoToken
<1>2. \A s \in Request : request'[s] = IF s = r THEN q ELSE request[s]
  BY <1>1 DEF TypeOK
<1>3. \A s \in Request : request'[s] # Idle /\ request'[s].access # NoToken =>
        token'[request'[s].access].kind # "refresh"
  BY <1>2 DEF ForkInv
<1>4. \A p : Successors(p)' = Successors(p)
  BY DEF Successors
<1>5. Successors(t) = {}
  BY <1>1 DEF ForkInv, RedeemInv, RedeemedIsSpent, Successors, TypeOK
<1>6. ASSUME NEW p \in Token
      PROVE  (Cardinality(Successors(p)) + Cardinality(Workers(p)) <= Cardinality(Request))'
  <2>1. CASE p = t
    <3>1. Successors(p)' = {} /\ Workers(p)' \in SUBSET Request
      BY <1>4, <1>5, <2>1 DEF Workers
    <3> QED BY <3>1, RoomForAll
  <2>2. CASE p # t
    <3>1. Workers(p)' \in SUBSET Workers(p)
      BY <1>2, <2>2 DEF Workers, Redeeming
    <3>2. /\ IsFiniteSet(Successors(p)) /\ IsFiniteSet(Workers(p)) /\ Cardinality(Request) \in Nat
          /\ Cardinality(Successors(p)) + Cardinality(Workers(p)) <= Cardinality(Request)
      BY <1>1, ForksFinite DEF ForkInv
    <3> QED BY <1>4, <3>1, <3>2, RoomKept
  <2> QED BY <2>1, <2>2
<1> QED BY <1>1, <1>3, <1>6 DEF ForkInv

\* Answer: the successor takes the place of its worker.
LEMMA ForkAnswer ==
  ASSUME ForkInv, RedeemInv', NEW r \in Request, Answer(r)
  PROVE  ForkInv'
<1> DEFINE q == request[r]
<1>1. /\ TypeOK /\ TypeOK' /\ Token' = Token /\ q # Idle /\ q \in Work /\ WorkOK(q)
      /\ UNCHANGED <<issued, row, token>> /\ request' = [request EXCEPT ![r] = Idle]
      /\ delivered' = delivered \cup ({q.access, q.refresh} \ {NoToken})
      /\ q.step = "answer"
  BY DEF Answer, ForkInv, RedeemInv, TypeOK, tableVars, Token, Idle
<1>2. \A s \in Request : request'[s] = IF s = r THEN Idle ELSE request[s]
  BY <1>1 DEF TypeOK
<1>3. \A s \in Request : request'[s] # Idle /\ request'[s].access # NoToken =>
        token'[request'[s].access].kind # "refresh"
  BY <1>1, <1>2 DEF ForkInv
<1>4. q.access # NoToken => token[q.access].kind # "refresh"
  BY <1>1 DEF ForkInv
<1>5. ASSUME NEW p \in Token
      PROVE  (Cardinality(Successors(p)) + Cardinality(Workers(p)) <= Cardinality(Request))'
  <2>0. /\ IsFiniteSet(Successors(p)) /\ IsFiniteSet(Workers(p)) /\ Cardinality(Request) \in Nat
        /\ Cardinality(Successors(p)) + Cardinality(Workers(p)) <= Cardinality(Request)
    BY <1>1, ForksFinite DEF ForkInv
  <2>1. Workers(p)' \in SUBSET (Workers(p) \ {r})
    BY <1>2 DEF Workers, Redeeming
  <2>2. CASE q.refresh # NoToken /\ q.old = p
    <3>1. q.grant \in {"refresh", "auth_code"}
      BY <1>1, <1>5, <2>2 DEF WorkOK, Work, Grant, Token, NoToken
    <3>2. r \in Workers(p)
      BY <1>1, <2>2, <3>1 DEF Workers, Redeeming
    <3>3. Successors(p)' \in SUBSET (Successors(p) \cup {q.refresh})
      BY <1>1, <1>4 DEF Successors
    <3>4. PICK S, W, S2, W2, n, t :
            /\ S = Successors(p) /\ W = Workers(p) /\ S2 = Successors(p)' /\ W2 = Workers(p)'
            /\ n = Cardinality(Request) /\ t = q.refresh
      OBVIOUS
    <3>5. /\ IsFiniteSet(S) /\ IsFiniteSet(W) /\ n \in Nat /\ Cardinality(S) + Cardinality(W) <= n
          /\ r \in W /\ S2 \in SUBSET (S \cup {t}) /\ W2 \in SUBSET (W \ {r})
      BY <2>0, <2>1, <3>2, <3>3, <3>4
    <3>6. Cardinality(S2) + Cardinality(W2) <= n
      BY <3>5, RoomHandedOver
    <3> QED BY <3>4, <3>6
  <2>3. CASE ~(q.refresh # NoToken /\ q.old = p)
    <3>1. q.refresh # NoToken => token[q.refresh].parent # p
      BY <1>1, <2>3 DEF WorkOK
    <3>2. Successors(p)' \in SUBSET Successors(p)
      BY <1>1, <1>4, <3>1 DEF Successors
    <3> QED BY <2>0, <2>1, <3>2, RoomKept
  <2> QED BY <2>2, <2>3
<1> QED BY <1>1, <1>3, <1>5 DEF ForkInv

\* Every step keeps ForkInv.
LEMMA NextForkInv == ForkInv /\ [Next]_vars => ForkInv'
<1> SUFFICES ASSUME ForkInv, [Next]_vars PROVE ForkInv'
  OBVIOUS
<1>a. RedeemInv /\ RedeemInv' /\ TypeOK /\ TypeOK' /\ TableStep
  BY NextRedeemInv, NextTable DEF ForkInv, RedeemInv
<1>1. ASSUME NEW r \in Request, Serve(r) PROVE ForkInv'
  <2> DEFINE q == request[r]
  <2>w. q # Idle => q \in Work /\ (q.access # NoToken =>
          q.access \in Token /\ token'[q.access].kind # "refresh")
    <3>1. ASSUME q # Idle, q.access # NoToken
          PROVE  q.access \in Token /\ token[q.access].kind # "refresh"
      BY <1>a, <3>1 DEF ForkInv, RedeemInv, WorkOK, Token, NoToken, TypeOK
    <3> QED BY <1>a, <3>1 DEF TableStep, TypeOK
  <2>1. ASSUME NEW g, NEW s, NEW u, NEW c, Start(r, g, s, u, c, NoToken),
               delivered' = delivered
        PROVE  ForkInv'
    <3> DEFINE n == [step |-> s, grant |-> g, user |-> u, client |-> c, old |-> NoToken,
                     access |-> NoToken, refresh |-> NoToken, loaded |-> FALSE]
    <3>1. n.old = NoToken /\ n.access = NoToken /\ request' = [request EXCEPT ![r] = n]
      BY <2>1 DEF Start
    <3> HIDE DEF n
    <3>2. \A p \in Token : ~Redeeming(n, p)
      BY <3>1 DEF Redeeming, Token, NoToken
    <3> QED BY <1>a, <2>1, <3>1, <3>2, ForkQuiet
  <2>2. CASE \/ \E u \in User, c \in Client : BeginPassword(r, u, c) \/ BeginAuthorize(r, u, c)
             \/ \E c \in Client : BeginClientCredentials(r, c)
    BY <2>1, <2>2 DEF BeginPassword, BeginAuthorize, BeginClientCredentials
  <2>3. ASSUME NEW t \in delivered, BeginRefresh(r, t) \/ BeginAuthCode(r, t) \/ BeginResource(r, t)
        PROVE  ForkInv'
    <3>1. PICK n : /\ n.old = t /\ n.access = NoToken /\ request' = [request EXCEPT ![r] = n]
      BY <2>3 DEF BeginRefresh, BeginAuthCode, BeginResource, Start
    <3>2. row[t] = "live"
      <4>1. ~IsRevoked(t) /\ row[t] \in Status
        BY <1>a, <2>3 DEF BeginRefresh, BeginAuthCode, BeginResource, Redeemable, TypeOK
      <4> QED BY <4>1 DEF IsRevoked, Stored, Status
    <3>3. UNCHANGED <<issued, row, token, delivered>>
      BY <2>3 DEF BeginRefresh, BeginAuthCode, BeginResource, tableVars
    <3> QED BY <1>a, <3>1, <3>2, <3>3, ForkBegin
  <2>4. ASSUME NEW n, request' = [request EXCEPT ![r] = n], delivered' = delivered,
               \/ n = Idle
               \/ q # Idle /\ n.grant = q.grant /\ n.old = q.old /\ n.access = q.access
        PROVE  ForkInv'
    <3>1. \A p \in Token : Redeeming(n, p) => Redeeming(q, p)
      BY <2>4 DEF Redeeming
    <3>2. n # Idle /\ n.access # NoToken => token'[n.access].kind # "refresh"
      BY <2>4, <2>w
    <3> QED BY <1>a, <2>4, <3>1, <3>2, ForkQuiet
  <2>5. CASE RevokeLoad(r)
    <3>1. q # Idle /\ q \in Work /\ delivered' = delivered
      BY <2>5, <2>w DEF RevokeLoad, Idle
    <3>2. ASSUME NEW s
          PROVE  /\ [q EXCEPT !.loaded = TRUE].grant = q.grant
                 /\ [q EXCEPT !.loaded = TRUE].old = q.old
                 /\ [q EXCEPT !.loaded = TRUE].access = q.access
                 /\ [q EXCEPT !.step = s].grant = q.grant
                 /\ [q EXCEPT !.step = s].old = q.old
                 /\ [q EXCEPT !.step = s].access = q.access
      BY <3>1 DEF Work
    <3>3. \/ request' = [request EXCEPT ![r] = [q EXCEPT !.loaded = TRUE]]
          \/ request' = [request EXCEPT ![r] = [q EXCEPT !.step = After(q)]]
      BY <2>5 DEF RevokeLoad
    <3> QED BY <2>4, <3>1, <3>2, <3>3
  <2>6. CASE RevokeSave(r)
    <3>1. q # Idle /\ q \in Work /\ delivered' = delivered
      BY <2>6, <2>w DEF RevokeSave, Idle
    <3> DEFINE n == [q EXCEPT !.step = After(q), !.loaded = FALSE]
    <3>2. n.grant = q.grant /\ n.old = q.old /\ n.access = q.access
      BY <3>1 DEF Work
    <3>3. request' = [request EXCEPT ![r] = n]
      BY <2>6 DEF RevokeSave
    <3> HIDE DEF n
    <3> QED BY <2>4, <3>1, <3>2, <3>3
  <2>7. CASE IssueRefreshToken(r)
    <3>1. q # Idle /\ q \in Work /\ delivered' = delivered
      BY <2>7, <2>w DEF IssueRefreshToken, Idle
    <3> DEFINE n == [q EXCEPT !.step = After(q), !.refresh = issued + 1]
    <3>2. n.grant = q.grant /\ n.old = q.old /\ n.access = q.access
      BY <3>1 DEF Work
    <3>3. request' = [request EXCEPT ![r] = n]
      BY <2>7 DEF IssueRefreshToken
    <3> HIDE DEF n
    <3> QED BY <2>4, <3>1, <3>2, <3>3
  <2>8. CASE IssueAccessToken(r) \/ IssueAuthCode(r)
    <3>1. q # Idle /\ q \in Work /\ delivered' = delivered
      BY <2>8, <2>w DEF IssueAccessToken, IssueAuthCode, Idle
    <3> DEFINE n == [q EXCEPT !.step = After(q), !.access = issued + 1]
    <3>2. n.grant = q.grant /\ n.old = q.old /\ n.access = issued + 1
      BY <3>1 DEF Work
    <3>3. request' = [request EXCEPT ![r] = n]
      BY <2>8 DEF IssueAccessToken, IssueAuthCode
    <3>4. PICK info : PersistNew(info) /\ info.kind \in {"access", "code"}
      BY <2>8 DEF IssueAccessToken, IssueAuthCode
    <3>5. token'[issued + 1].kind # "refresh"
      BY <1>a, <3>4 DEF PersistNew, TypeOK, Token
    <3>6. \A p \in Token : Redeeming(n, p) => Redeeming(q, p)
      BY <3>1, <3>2 DEF Redeeming
    <3> HIDE DEF n
    <3> QED BY <1>a, <3>1, <3>2, <3>3, <3>5, <3>6, ForkQuiet
  <2>9. CASE Answer(r)
    BY <1>a, <2>9, ForkAnswer
  <2>10. CASE Abort(r) \/ RevokeBlocked(r)
    BY <2>4, <2>10 DEF Abort, RevokeBlocked
  <2>11. CASE Authenticate(r)
    <3>1. q # Idle /\ q \in Work /\ delivered' = delivered
      BY <2>11, <2>w DEF Authenticate, Idle
    <3>2. PICK s : request' = [request EXCEPT ![r] = IF s = "idle" THEN Idle ELSE [q EXCEPT !.step = s]]
      BY <2>11 DEF Authenticate
    <3>3. /\ [q EXCEPT !.step = s].grant = q.grant /\ [q EXCEPT !.step = s].old = q.old
          /\ [q EXCEPT !.step = s].access = q.access
      BY <3>1 DEF Work
    <3> QED BY <2>4, <3>1, <3>2, <3>3
  <2> QED BY <1>1, <2>2, <2>3, <2>5, <2>6, <2>7, <2>8, <2>9, <2>10, <2>11 DEF Serve
<1>2. CASE Cron \/ Administer \/ Tick \/ UNCHANGED vars
  <2>1. UNCHANGED <<issued, delivered, request>>
    BY <1>2 DEF Cron, CronCollect, CronDelete, CronAbort, Administer, UpdateAccount,
       UpdateConsumer, CommitUpdate, RollBackUpdate, DeleteAccount, DeleteConsumer,
       Tick, vars, tableVars, DeleteMultipleTokens
  <2>2. Token' = Token /\ \A t \in Token : token'[t] = token[t]
    BY <1>a, <2>1 DEF Token, TableStep
  <2>3. ASSUME NEW r \in Request, request'[r] # Idle, request'[r].access # NoToken
        PROVE  token'[request'[r].access].kind # "refresh"
    <3>1. request[r].access \in Token /\ token[request[r].access].kind # "refresh"
      BY <1>a, <2>1, <2>3 DEF ForkInv, RedeemInv, WorkOK, Token, NoToken, TypeOK
    <3> QED BY <2>1, <2>2, <3>1
  <2>4. \A p : Successors(p)' = Successors(p) /\ Workers(p)' = Workers(p)
    BY <1>a, <2>1, <2>2 DEF Successors, Workers, TypeOK
  <2> QED BY <1>a, <2>2, <2>3, <2>4 DEF ForkInv
<1> QED BY <1>1, <1>2 DEF Next

\* However many requests redeem one token at the same time, and wherever they
\* die, no more of its successors are delivered than there are workers.
THEOREM ForksAreBounded == Spec => []ForksBounded
<1>1. Init => ForkInv
  BY InitRedeemInv DEF Init, ForkInv, Token
<1>2. ForkInv => ForksBounded
  <2> SUFFICES ASSUME ForkInv, NEW p \in Token
               PROVE  Cardinality(Successors(p)) <= Cardinality(Request)
    BY DEF ForksBounded, Successors
  <2>1. /\ IsFiniteSet(Successors(p)) /\ IsFiniteSet(Workers(p)) /\ Cardinality(Request) \in Nat
        /\ Cardinality(Successors(p)) + Cardinality(Workers(p)) <= Cardinality(Request)
    BY ForksFinite DEF ForkInv, RedeemInv
  <2>2. Cardinality(Successors(p)) \in Nat /\ Cardinality(Workers(p)) \in Nat
    BY <2>1, FS_CardinalityType
  <2> QED BY <2>1, <2>2
<1> QED BY <1>1, <1>2, NextForkInv, PTL DEF Spec
===========================================================================
