---------------------------- MODULE OAuthTokens ----------------------------
(* The oauth2_token table of simple_oauth and everything that writes it: the *)
(* token endpoint (password, client_credentials, authorization_code and      *)
(* refresh_token grants), the authorize endpoint, the bearer check of a      *)
(* resource request, cron, and the updates of accounts and consumers.  Each  *)
(* PHP request is a process of its own; every call that reads or writes the  *)
(* table is a step, so requests interleave between any two of them.          *)
(*                                                                           *)
(* The order of the calls inside a grant is that of league/oauth2-server     *)
(* 8.5.2, which is not part of the repository; what each call does to the    *)
(* table is the repository's code.                                           *)
EXTENDS Naturals, FiniteSets

CONSTANTS
  User, NoUser,   \* accounts
  Client,         \* consumers
  DefaultUser,    \* [Client -> User \cup {NoUser}]: consumer field user_id
  Enabled,        \* the grants and request types that are in use
  Deletable,      \* the accounts and consumers that get deleted
  Request,        \* workers: HTTP requests served at the same time
  Editor,         \* saves of an account or of a consumer at the same time
  AccessTTL, RefreshTTL, CodeTTL,
  CronBatch,      \* token_cron_batch_size, 0 = no limit
  MaxToken,       \* bound: number of rows ever created
  MaxTime         \* bound: last instant of the clock

ASSUME ConfigAssumption ==
  /\ NoUser \notin User
  /\ DefaultUser \in [Client -> User \cup {NoUser}]
  /\ IsFiniteSet(Request)
  /\ AccessTTL \in Nat /\ RefreshTTL \in Nat /\ CodeTTL \in Nat
  /\ CronBatch \in Nat /\ MaxToken \in Nat /\ MaxTime \in Nat

VARIABLES
  issued,     \* number of rows created so far; token t exists iff t <= issued
  row,        \* row[t]: no row, a row with status TRUE, one with status FALSE
  token,      \* token[t]: what was sealed into token t when it was created
  delivered,  \* tokens whose response reached a client
  now,        \* the clock
  request,    \* request[r]: the HTTP request that worker r serves
  cron,       \* rows that a running cron has collected
  edit,       \* edit[e]: the save that editor e has in progress
  account,    \* account[u]: active, blocked or deleted
  consumer,   \* consumer[c]: the entity exists
  userSwept,  \* newest token that an update of user u was bound to delete
  clientSwept \* newest token that an update of client c was bound to delete

tableVars == <<issued, row, token>>
sweptVars == <<userSwept, clientSwept>>
siteVars  == <<account, consumer>>
vars == <<tableVars, delivered, now, request, cron, edit, siteVars, sweptVars>>

---------------------------------------------------------------------------
(* The table.                                                              *)

Token   == 1..issued
NoToken == 0

Kind   == {"access", "refresh", "code"}
Status == {"absent", "live", "revoked"}

\* "access" is the access token a refresh token was issued with; "parent" the
\* code or refresh token that was redeemed for this one.
TokenInfo ==
  [kind: Kind, user: User, client: Client, expire: Nat, access: Nat, parent: Nat]

\* loadByProperties(['value' => ...]) finds a row.
Stored(t) == row[t] # "absent"

\* Mutants: isRevoked() that ignores the status, or lets a missing row pass.
IsRevokedByAbsence(t) == ~Stored(t)
IsRevokedByStatus(t)  == row[t] = "revoked"

\* A missing row counts as revoked.
IsRevoked(t) == ~Stored(t) \/ row[t] = "revoked"

\* Mutant: the next token gets the same identifier.
PersistNewReusing(info) ==
  /\ issued < MaxToken
  /\ issued' = issued
  /\ row' = [t \in 1..issued + 1 |-> IF t \in Token THEN row[t] ELSE "live"]
  /\ token' = [t \in 1..issued + 1 |-> IF t \in Token THEN token[t] ELSE info]

\* persistNew(): a row with status TRUE, under an identifier never used before.
PersistNew(info) ==
  /\ issued < MaxToken
  /\ issued' = issued + 1
  /\ row' = [t \in 1..issued + 1 |-> IF t \in Token THEN row[t] ELSE "live"]
  /\ token' = [t \in 1..issued + 1 |-> IF t \in Token THEN token[t] ELSE info]

\* Mutants: a save that never happens, one that inserts a deleted row again.
SaveRevokedForgotten(t) == UNCHANGED <<row, issued, token>>
SaveRevokedUpsert(t) ==
  /\ row' = [row EXCEPT ![t] = "revoked"]
  /\ UNCHANGED <<issued, token>>

\* save() of a loaded entity updates its row and never inserts one.
SaveRevoked(t) ==
  /\ row' = [row EXCEPT ![t] = IF Stored(t) THEN "revoked" ELSE "absent"]
  /\ UNCHANGED <<issued, token>>

DeleteMultipleTokens(ids) ==
  /\ row' = [t \in Token |-> IF t \in ids THEN "absent" ELSE row[t]]
  /\ UNCHANGED <<issued, token>>

---------------------------------------------------------------------------
(* What the collector selects.                                             *)

Expired == {t \in Token : Stored(t) /\ token[t].expire < now}

\* The normalizer of refresh tokens stores no client.
CollectForClient(c) ==
  {t \in Token : Stored(t) /\ token[t].kind # "refresh" /\ token[t].client = c}

ClientsOf(u) == {c \in Client : consumer[c] /\ DefaultUser[c] = u}

\* Mutant: without the bundle condition.
CollectEveryBundle(u) ==
  {t \in Token : Stored(t) /\ token[t].user = u}
    \cup UNION {CollectForClient(c) : c \in ClientsOf(u)}

CollectForAccount(u) ==
  {t \in Token : Stored(t) /\ token[t].kind # "refresh" /\ token[t].user = u}
    \cup UNION {CollectForClient(c) : c \in ClientsOf(u)}

---------------------------------------------------------------------------
(* A worker: what it serves, where it is, the token it was presented, the  *)
(* tokens it has created, and whether revoke() has loaded its entity.      *)

Grant == {"password", "client_credentials", "auth_code", "refresh",
          "authorize", "resource"}
Step  == {"idle", "revokeAccess", "revokeRefresh", "revokeCode", "issueAccess",
          "issueRefresh", "issueCode", "answer", "load", "block", "noToken",
          "noConsumer"}
Idle  == [step |-> "idle"]
Work  == [step: Step \ {"idle"}, grant: Grant, user: User, client: Client,
          old: Nat, access: Nat, refresh: Nat, loaded: BOOLEAN]

Start(r, g, s, u, c, t) ==
  /\ request[r] = Idle /\ g \in Enabled
  /\ request' = [request EXCEPT ![r] =
       [step |-> s, grant |-> g, user |-> u, client |-> c, old |-> t,
        access |-> NoToken, refresh |-> NoToken, loaded |-> FALSE]]

\* The order in which league calls the repositories of each grant.
After(q) ==
  IF q.step = "revokeAccess" THEN "revokeRefresh"
  ELSE IF q.step = "revokeRefresh" THEN "issueAccess"
  ELSE IF q.step = "issueAccess" /\ q.grant # "client_credentials" THEN "issueRefresh"
  ELSE IF q.step = "issueRefresh" /\ q.grant = "auth_code" THEN "revokeCode"
  ELSE "answer"

---------------------------------------------------------------------------
(* The token endpoint.  A request that a check rejects changes nothing and *)
(* is not a step.                                                          *)

\* UserAuth checks the password only, not the status of the account.
BeginPassword(r, u, c) ==
  /\ consumer[c] /\ account[u] # "deleted"
  /\ Start(r, "password", "issueAccess", u, c, NoToken)
  /\ UNCHANGED <<tableVars, delivered, now, cron, edit, siteVars, sweptVars>>

\* The token belongs to the target of user_id, whether or not it still exists.
BeginClientCredentials(r, c) ==
  /\ consumer[c] /\ DefaultUser[c] # NoUser
  /\ Start(r, "client_credentials", "issueAccess", DefaultUser[c], c, NoToken)
  /\ UNCHANGED <<tableVars, delivered, now, cron, edit, siteVars, sweptVars>>

Redeemable(t, kind) ==
  /\ token[t].kind = kind
  /\ consumer[token[t].client]
  /\ now <= token[t].expire
  /\ ~IsRevoked(t)

BeginRefresh(r, t) ==
  /\ Redeemable(t, "refresh")
  /\ Start(r, "refresh", "revokeAccess", token[t].user, token[t].client, t)
  /\ UNCHANGED <<tableVars, delivered, now, cron, edit, siteVars, sweptVars>>

BeginAuthCode(r, t) ==
  /\ Redeemable(t, "code")
  /\ Start(r, "auth_code", "issueAccess", token[t].user, token[t].client, t)
  /\ UNCHANGED <<tableVars, delivered, now, cron, edit, siteVars, sweptVars>>

\* A logged-in user grants a code.
BeginAuthorize(r, u, c) ==
  /\ consumer[c] /\ account[u] = "active"
  /\ Start(r, "authorize", "issueCode", u, c, NoToken)
  /\ UNCHANGED <<tableVars, delivered, now, cron, edit, siteVars, sweptVars>>

Revoking(q) == IF q.step = "revokeAccess" THEN token[q.old].access ELSE q.old

\* revoke(): the load; nothing found, nothing to save.
RevokeLoad(r) ==
  LET q == request[r] IN
  /\ q.step \in {"revokeAccess", "revokeRefresh", "revokeCode"} /\ ~q.loaded
  /\ request' = [request EXCEPT ![r] =
       IF Stored(Revoking(q)) THEN [q EXCEPT !.loaded = TRUE]
                              ELSE [q EXCEPT !.step = After(q)]]
  /\ UNCHANGED <<tableVars, delivered, now, cron, edit, siteVars, sweptVars>>

\* revoke(): the save.
RevokeSave(r) ==
  LET q == request[r] IN
  /\ q.step \in {"revokeAccess", "revokeRefresh", "revokeCode"} /\ q.loaded
  /\ SaveRevoked(Revoking(q))
  /\ request' = [request EXCEPT ![r] = [q EXCEPT !.step = After(q), !.loaded = FALSE]]
  /\ UNCHANGED <<delivered, now, cron, edit, siteVars, sweptVars>>

IssueAccessToken(r) ==
  LET q == request[r] IN
  /\ q.step = "issueAccess"
  /\ PersistNew([kind |-> "access", user |-> q.user, client |-> q.client,
                 expire |-> now + AccessTTL, access |-> NoToken, parent |-> q.old])
  /\ request' = [request EXCEPT ![r] =
       [q EXCEPT !.step = After(q), !.access = issued + 1]]
  /\ UNCHANGED <<delivered, now, cron, edit, siteVars, sweptVars>>

IssueRefreshToken(r) ==
  LET q == request[r] IN
  /\ q.step = "issueRefresh"
  /\ PersistNew([kind |-> "refresh", user |-> q.user, client |-> q.client,
                 expire |-> now + RefreshTTL, access |-> q.access, parent |-> q.old])
  /\ request' = [request EXCEPT ![r] =
       [q EXCEPT !.step = After(q), !.refresh = issued + 1]]
  /\ UNCHANGED <<delivered, now, cron, edit, siteVars, sweptVars>>

IssueAuthCode(r) ==
  LET q == request[r] IN
  /\ q.step = "issueCode"
  /\ PersistNew([kind |-> "code", user |-> q.user, client |-> q.client,
                 expire |-> now + CodeTTL, access |-> NoToken, parent |-> NoToken])
  /\ request' = [request EXCEPT ![r] =
       [q EXCEPT !.step = After(q), !.access = issued + 1]]
  /\ UNCHANGED <<delivered, now, cron, edit, siteVars, sweptVars>>

\* The response carries what the worker has created.
Answer(r) ==
  LET q == request[r] IN
  /\ q.step = "answer"
  /\ delivered' = delivered \cup ({q.access, q.refresh} \ {NoToken})
  /\ request' = [request EXCEPT ![r] = Idle]
  /\ UNCHANGED <<tableVars, now, cron, edit, siteVars, sweptVars>>

\* The PHP process dies, or its response is lost: what was saved stays.
Abort(r) ==
  /\ request[r] # Idle
  /\ request' = [request EXCEPT ![r] = Idle]
  /\ UNCHANGED <<tableVars, delivered, now, cron, edit, siteVars, sweptVars>>

---------------------------------------------------------------------------
(* A resource request with a bearer token.                                 *)

\* validateAuthenticatedRequest(): the JWT has not expired, its row is live.
BeginResource(r, t) ==
  /\ token[t].kind = "access"
  /\ now < token[t].expire
  /\ ~IsRevoked(t)
  /\ Start(r, "resource", "load", token[t].user, token[t].client, t)
  /\ UNCHANGED <<tableVars, delivered, now, cron, edit, siteVars, sweptVars>>

\* The account TokenAuthUser acts as: the default user of the consumer when the
\* token's own account is gone.
Subject(t) == IF account[token[t].user] # "deleted" THEN token[t].user
              ELSE DefaultUser[token[t].client]

HasSubject(t) == Subject(t) # NoUser /\ account[Subject(t)] # "deleted"

\* The rest of authenticate(): the row is loaded a second time.  "block" goes on
\* to revoke the token, "idle" is an answer (served, or no account to act as);
\* the other two steps are PHP type errors, on $token and on the consumer.
AuthenticateOutcome(t) ==
  IF ~Stored(t) THEN "noToken"
  ELSE IF account[token[t].user] = "deleted" /\ ~consumer[token[t].client] THEN "noConsumer"
  ELSE IF ~HasSubject(t) THEN "idle"
  ELSE IF account[Subject(t)] = "blocked" THEN "block"
  ELSE IF ~consumer[token[t].client] THEN "noConsumer"
  ELSE "idle"

Authenticate(r) ==
  LET q == request[r]
      s == AuthenticateOutcome(q.old)
  IN /\ q.step = "load"
     /\ request' = [request EXCEPT ![r] = IF s = "idle" THEN Idle ELSE [q EXCEPT !.step = s]]
     /\ UNCHANGED <<tableVars, delivered, now, cron, edit, siteVars, sweptVars>>

RevokeBlocked(r) ==
  /\ request[r].step = "block"
  /\ SaveRevoked(request[r].old)
  /\ request' = [request EXCEPT ![r] = Idle]
  /\ UNCHANGED <<delivered, now, cron, edit, siteVars, sweptVars>>

---------------------------------------------------------------------------
(* Cron deletes one batch of expired rows; the query has no order, so any  *)
(* of them can be in the batch.  cron is {} when no run has rows to delete. *)

Batches == IF CronBatch = 0 \/ Cardinality(Expired) <= CronBatch
           THEN {Expired}
           ELSE {b \in SUBSET Expired : Cardinality(b) = CronBatch}

CronCollect ==
  /\ cron = {}
  /\ Expired # {}
  /\ cron' \in Batches
  /\ UNCHANGED <<tableVars, delivered, now, request, edit, siteVars, sweptVars>>

CronDelete ==
  /\ cron # {}
  /\ DeleteMultipleTokens(cron)
  /\ cron' = {}
  /\ UNCHANGED <<delivered, now, request, edit, siteVars, sweptVars>>

CronAbort ==
  /\ cron # {}
  /\ cron' = {}
  /\ UNCHANGED <<tableVars, delivered, now, request, edit, siteVars, sweptVars>>

---------------------------------------------------------------------------
(* Saves of accounts and consumers.  hook_entity_update() runs inside the  *)
(* transaction of the save: the collector reads at one point, the changed  *)
(* fields and the deletions become visible together when it commits.       *)

NoEdit == [of |-> "none"]

\* "upto", the newest token when the collector read, is bookkeeping for the
\* properties.
Edit == [of: {"account", "consumer"}, user: User \cup {NoUser},
         status: {"active", "blocked"}, clients: SUBSET Client,
         ids: SUBSET Nat, upto: Nat]

UpdateAccount(e, u, s) ==
  /\ edit[e] = NoEdit /\ account[u] # "deleted"
  /\ edit' = [edit EXCEPT ![e] =
       [of |-> "account", user |-> u, status |-> s, clients |-> ClientsOf(u),
        ids |-> CollectForAccount(u), upto |-> issued]]
  /\ UNCHANGED <<tableVars, delivered, now, request, cron, siteVars, sweptVars>>

UpdateConsumer(e, c) ==
  /\ edit[e] = NoEdit /\ consumer[c]
  /\ edit' = [edit EXCEPT ![e] =
       [of |-> "consumer", user |-> NoUser, status |-> "active", clients |-> {c},
        ids |-> CollectForClient(c), upto |-> issued]]
  /\ UNCHANGED <<tableVars, delivered, now, request, cron, siteVars, sweptVars>>

Later(m, n) == IF m < n THEN n ELSE m

CommitUpdate(e) ==
  LET d == edit[e] IN
  /\ d # NoEdit
  /\ DeleteMultipleTokens(d.ids)
  /\ account' = [u \in User |-> IF u = d.user /\ account[u] # "deleted"
                                THEN d.status ELSE account[u]]
  /\ userSwept' = [u \in User |-> IF u = d.user THEN Later(userSwept[u], d.upto)
                                  ELSE userSwept[u]]
  /\ clientSwept' = [c \in Client |-> IF c \in d.clients THEN Later(clientSwept[c], d.upto)
                                      ELSE clientSwept[c]]
  /\ edit' = [edit EXCEPT ![e] = NoEdit]
  /\ UNCHANGED <<delivered, now, request, cron, consumer>>

RollBackUpdate(e) ==
  /\ edit[e] # NoEdit
  /\ edit' = [edit EXCEPT ![e] = NoEdit]
  /\ UNCHANGED <<tableVars, delivered, now, request, cron, siteVars, sweptVars>>

\* Deletions touch no token: the module implements no hook for them.
DeleteAccount(u) ==
  /\ account[u] # "deleted"
  /\ account' = [account EXCEPT ![u] = "deleted"]
  /\ UNCHANGED <<tableVars, delivered, now, request, cron, edit, consumer, sweptVars>>

DeleteConsumer(c) ==
  /\ consumer[c]
  /\ consumer' = [consumer EXCEPT ![c] = FALSE]
  /\ UNCHANGED <<tableVars, delivered, now, request, cron, edit, account, sweptVars>>

Tick ==
  /\ now < MaxTime
  /\ now' = now + 1
  /\ UNCHANGED <<tableVars, delivered, request, cron, edit, siteVars, sweptVars>>

---------------------------------------------------------------------------
Init ==
  /\ issued = 0 /\ row = [t \in {} |-> "absent"] /\ token = [t \in {} |-> NoToken]
  /\ delivered = {} /\ now = 0
  /\ request = [r \in Request |-> Idle]
  /\ cron = {} /\ edit = [e \in Editor |-> NoEdit]
  /\ account = [u \in User |-> "active"] /\ consumer = [c \in Client |-> TRUE]
  /\ userSwept = [u \in User |-> 0] /\ clientSwept = [c \in Client |-> 0]

Serve(r) ==
  \/ \E u \in User, c \in Client : BeginPassword(r, u, c) \/ BeginAuthorize(r, u, c)
  \/ \E c \in Client : BeginClientCredentials(r, c)
  \/ \E t \in delivered : BeginRefresh(r, t) \/ BeginAuthCode(r, t) \/ BeginResource(r, t)
  \/ RevokeLoad(r) \/ RevokeSave(r)
  \/ IssueAccessToken(r) \/ IssueRefreshToken(r) \/ IssueAuthCode(r)
  \/ Answer(r) \/ Abort(r)
  \/ Authenticate(r) \/ RevokeBlocked(r)

Cron == CronCollect \/ CronDelete \/ CronAbort

Administer ==
  \/ \E e \in Editor :
       \/ \E u \in User, s \in {"active", "blocked"} : UpdateAccount(e, u, s)
       \/ \E c \in Client : UpdateConsumer(e, c)
       \/ CommitUpdate(e) \/ RollBackUpdate(e)
  \/ \E u \in User \cap Deletable : DeleteAccount(u)
  \/ \E c \in Client \cap Deletable : DeleteConsumer(c)

Next == (\E r \in Request : Serve(r)) \/ Cron \/ Administer \/ Tick

Spec == Init /\ [][Next]_vars

---------------------------------------------------------------------------
(* Properties.                                                             *)

\* persistNew() puts every token in a row of its own, and what requests, cron and
\* updates hold on to are tokens that were issued.
TypeOK ==
  /\ issued \in Nat /\ now \in Nat
  /\ row \in [Token -> Status]
  /\ token \in [Token -> TokenInfo]
  /\ delivered \subseteq Token /\ cron \subseteq Token
  /\ request \in [Request -> Work \cup {Idle}]
  /\ edit \in [Editor -> Edit \cup {NoEdit}]
  /\ account \in [User -> {"active", "blocked", "deleted"}]
  /\ consumer \in [Client -> BOOLEAN]
  /\ userSwept \in [User -> Nat] /\ clientSwept \in [Client -> Nat]

\* Rotation and single use: once a client holds a token that was obtained by
\* redeeming a refresh token or a code, the redeemed token is no longer live,
\* nor is the access token the redeemed refresh token was issued with.  The
\* successors of a refresh token do not even have to be delivered.
RedeemedIsSpent ==
  \A t \in Token :
    LET p == token[t].parent IN
    p # NoToken /\ (t \in delivered \/ token[p].kind = "refresh") =>
      /\ row[p] # "live"
      /\ token[p].kind = "refresh" => row[token[p].access] # "live"

\* Two requests may redeem one token when both pass its check before either
\* has revoked it, so a token has at most as many delivered refresh-token
\* successors as there are workers, however often it is presented, whatever
\* dies half way.  With one worker this is single use.
ForksBounded ==
  \A p \in Token :
    Cardinality({t \in delivered : token[t].kind = "refresh" /\ token[t].parent = p})
      <= Cardinality(Request)

\* A committed update of an account or of a consumer leaves none of the access
\* tokens and codes that existed when its collector ran: neither a request in
\* flight nor a concurrent update brings one back.
SweptAreGone ==
  \A t \in Token :
    /\ token[t].kind # "refresh"
    /\ \/ t <= userSwept[token[t].user]
       \/ t <= clientSwept[token[t].client]
    => ~Stored(t)

\* Refresh tokens survive every update (collectForAccount() excludes them on
\* purpose, so an edited account keeps its sessions): only expiry removes one.
RefreshOutlivesUpdates ==
  [][\A t \in Token : token[t].kind = "refresh" /\ Stored(t) /\ row'[t] = "absent"
                        => token[t].expire < now]_vars

\* The table implements the life cycle of a token: it is good exactly while a
\* row with status TRUE holds it, and whatever the interleaving of revocations
\* (a load and a save), deletions and new tokens, it never becomes good again.
Lifecycle == INSTANCE TokenLifecycle WITH
               good  <- {t \in Token : ~IsRevoked(t)},
               spent <- {t \in Token : IsRevoked(t)}

TokensFollowLifecycle == Lifecycle!Spec
===========================================================================
