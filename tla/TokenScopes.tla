---------------------------- MODULE TokenScopes ----------------------------
(* What a token allows and who agreed to it.  A scope is a role: the bearer   *)
(* acts with the roles of the token, which ScopeRepository settles when it is *)
(* issued, and which updates of the user and of the consumer delete.  A user  *)
(* agrees to the scopes that a third-party consumer asks for on a form, and   *)
(* KnownClientsRepository remembers them.  Workers are PHP processes.         *)
(*                                                                            *)
(* Every user and token has the role "authenticated", which is left out.  The *)
(* calls that a grant makes are those of league/oauth2-server 8.5.2, which is *)
(* not part of the repository.                                                *)
EXTENDS Naturals, FiniteSets

CONSTANTS
  User, Client, Role,
  ThirdParty,    \* the consumers that need the user's consent
  NoUser,
  DefaultUser,   \* consumer field user_id
  Asks,          \* sets of scopes that clients ask for
  UserRoles, ClientRoles, \* sets of roles that users and consumers are given
  Worker,
  Editor,        \* processes that save users and consumers
  MaxTokens      \* bound: number of tokens stored at once

ASSUME ConfigAssumption ==
  /\ ThirdParty \subseteq Client
  /\ NoUser \notin User /\ DefaultUser \in [Client -> User \cup {NoUser}]
  /\ Asks \subseteq SUBSET Role
  /\ UserRoles \subseteq SUBSET Role /\ ClientRoles \subseteq SUBSET Role
  /\ MaxTokens \in Nat

VARIABLES
  users,       \* the users there are
  userRoles,   \* roles of a user
  clientRoles, \* roles of a consumer
  tokens,      \* stored tokens that are not revoked
  known,       \* known[u][c]: the user data of u under the client c, if there is any
  request,     \* what a worker serves
  edit,        \* what an editor is saving, in a transaction
  consented,   \* history: the scopes on the forms that u has granted to c
  muddled      \* history: pairs of user and client of which two requests were
               \* remembered at once, or one was cut off

siteVars == <<users, userRoles, clientRoles>>
vars == <<siteVars, tokens, known, request, edit, consented, muddled>>

\* "refreshed" and "late" are histories of access tokens: the scopes were taken over from a refresh
\* token; they were settled before an update of the user or the client was committed,
\* and the token was stored after that update had collected its tokens, or while one
\* was being saved.
Info == [kind: {"code", "access", "refresh"}, user: User, client: Client,
         scopes: SUBSET Role, refreshed: BOOLEAN, late: BOOLEAN]

Idle == [step |-> "idle"]
Step == {"form", "remember", "write", "access", "tokens"}
Work == [step: Step, user: User, client: Client, scopes: SUBSET Role,
         refreshed: BOOLEAN, late: BOOLEAN, code: SUBSET Info]

Serving(s, u, c, S) ==
  [step |-> s, user |-> u, client |-> c, scopes |-> S,
   refreshed |-> FALSE, late |-> FALSE, code |-> {}]

Put(w, q) == request' = [request EXCEPT ![w] = q]

NoEdit == [of |-> "nothing"]
Edit == [of: {"user"}, id: User, tokens: SUBSET Info]
          \cup [of: {"client"}, id: Client, tokens: SUBSET Info]

---------------------------------------------------------------------------
\* Mutants: the roles of the consumer are added as one element; they have to be
\* asked for as well.
FinalizeScopesPushed(S, u, c) == (S \cap userRoles[u]) \cup {clientRoles[c]}
FinalizeScopesAsked(S, u, c) == S \cap (userRoles[u] \cup clientRoles[c])

\* finalizeScopes(): nothing if the user cannot be loaded; of what was asked for, the
\* roles that the user has; and the roles of the consumer.
FinalizeScopes(S, u, c) ==
  IF u \in users THEN (S \cap userRoles[u]) \cup clientRoles[c] ELSE {}

\* Mutant: one scope that the user agreed to is enough.
IsAuthorizedByOne(u, c, S) ==
  known[u][c].set /\ (S = {} \/ S \cap known[u][c].scopes # {})

IsAuthorized(u, c, S) == known[u][c].set /\ S \subseteq known[u][c].scopes

\* Mutant: what was remembered is replaced.
MergedNot(u, c, S) == S

\* rememberClient(): the new scopes and those it has read.
Merged(u, c, S) == S \cup known[u][c].scopes

\* Tokens are known by what they hold.  One that is gone, or is stored now, is not
\* among those that editors have collected, even if it is like one of them.
Without(S) ==
  [e \in Editor |-> IF edit[e] = NoEdit THEN NoEdit
                    ELSE [edit[e] EXCEPT !.tokens = @ \ S]]

\* Tokens are stored and others revoked or deleted.
Replace(old, new) ==
  /\ Cardinality((tokens \ old) \cup new) <= MaxTokens
  /\ tokens' = (tokens \ old) \cup new
  /\ edit' = Without(old \cup new)

Code(u, c, S) ==
  [kind |-> "code", user |-> u, client |-> c, scopes |-> S,
   refreshed |-> FALSE, late |-> FALSE]

---------------------------------------------------------------------------
(* The authorize endpoint.                                                 *)

\* The form is skipped for known clients and those of the site itself.
AuthorizeKnown(u, c, S) ==
  /\ u \in users
  /\ c \notin ThirdParty \/ IsAuthorized(u, c, S)
  /\ Replace({}, {Code(u, c, S)})
  /\ UNCHANGED <<siteVars, known, request, consented, muddled>>

AuthorizeForm(w, u, c, S) ==
  /\ request[w] = Idle /\ u \in users
  /\ c \in ThirdParty /\ ~IsAuthorized(u, c, S)
  /\ Put(w, Serving("form", u, c, S))
  /\ UNCHANGED <<siteVars, edit, tokens, known, consented, muddled>>

\* The user grants: the code is issued, then the client is remembered.
SubmitForm(w) ==
  LET q == request[w] IN
  /\ q.step = "form" /\ q.user \in users
  /\ Replace({}, {Code(q.user, q.client, q.scopes)})
  /\ consented' = [consented EXCEPT ![q.user][q.client] = @ \cup q.scopes]
  /\ Put(w, [q EXCEPT !.step = "remember"])
  /\ UNCHANGED <<siteVars, known, muddled>>

\* Another worker has read what is remembered of this client and user.
Writing(w) ==
  \E v \in Worker \ {w} : /\ request[v].step = "write"
                          /\ request[v].user = request[w].user
                          /\ request[v].client = request[w].client

\* rememberClient(): the read.
RememberRead(w) ==
  LET q == request[w] IN
  /\ q.step = "remember"
  /\ Put(w, [q EXCEPT !.step = "write", !.scopes = Merged(q.user, q.client, q.scopes)])
  /\ muddled' = muddled \cup (IF Writing(w) THEN {<<q.user, q.client>>} ELSE {})
  /\ UNCHANGED <<siteVars, edit, tokens, known, consented>>

\* rememberClient(): the write.
RememberWrite(w) ==
  LET q == request[w] IN
  /\ q.step = "write"
  /\ known' = [known EXCEPT ![q.user][q.client] = [set |-> TRUE, scopes |-> q.scopes]]
  /\ Put(w, Idle)
  /\ UNCHANGED <<siteVars, edit, tokens, consented, muddled>>

---------------------------------------------------------------------------
(* The token endpoint.                                                     *)

RedeemCode(w, t) ==
  /\ request[w] = Idle
  /\ t.kind = "code"
  /\ Put(w, [Serving("tokens", t.user, t.client,
                     FinalizeScopes(t.scopes, t.user, t.client)) EXCEPT !.code = {t}])
  /\ UNCHANGED <<siteVars, edit, tokens, known, consented, muddled>>

Password(w, u, c, S) ==
  /\ request[w] = Idle /\ u \in users
  /\ Put(w, Serving("tokens", u, c, FinalizeScopes(S, u, c)))
  /\ UNCHANGED <<siteVars, edit, tokens, known, consented, muddled>>

\* The consumer must have a default user, whether or not that user still exists.
ClientCredentials(w, c, S) ==
  /\ request[w] = Idle /\ DefaultUser[c] # NoUser
  /\ Put(w, Serving("access", DefaultUser[c], c, FinalizeScopes(S, DefaultUser[c], c)))
  /\ UNCHANGED <<siteVars, edit, tokens, known, consented, muddled>>

\* The refresh grant takes scopes of the old token and does not finalize them.
Refresh(w, t, S) ==
  /\ request[w] = Idle
  /\ t.kind = "refresh" /\ S \subseteq t.scopes
  /\ Replace({t}, {})
  /\ Put(w, [Serving("tokens", t.user, t.client, S) EXCEPT !.refreshed = TRUE])
  /\ UNCHANGED <<siteVars, known, consented, muddled>>

\* Is d the save of the user or the client of a request?
Saves(d, q) == \/ d.of = "user" /\ d.id = q.user
               \/ d.of = "client" /\ d.id = q.client

\* The tokens of a request: an access token, and but for client credentials a refresh
\* token, which no update deletes.
Token(kind, q, refreshed, late) ==
  [kind |-> kind, user |-> q.user, client |-> q.client, scopes |-> q.scopes,
   refreshed |-> refreshed, late |-> late]
Late(q) == q.late \/ \E e \in Editor : Saves(edit[e], q)
NewTokens(q) ==
  {Token("access", q, q.refreshed, Late(q))}
    \cup (IF q.step = "access" THEN {} ELSE {Token("refresh", q, FALSE, FALSE)})

\* The tokens are stored, and the code is revoked.
Persist(w) ==
  LET q == request[w] IN
  /\ q.step \in {"access", "tokens"}
  /\ Replace(q.code, NewTokens(q))
  /\ Put(w, Idle)
  /\ UNCHANGED <<siteVars, known, consented, muddled>>

\* The request ends early, or the form is left.
Abort(w) ==
  LET q == request[w] IN
  /\ q # Idle
  /\ Put(w, Idle)
  /\ muddled' = muddled \cup (IF q.step \in {"remember", "write"} THEN {<<q.user, q.client>>}
                              ELSE {})
  /\ UNCHANGED <<siteVars, edit, tokens, known, consented>>

Expire(t) ==
  /\ t \in tokens
  /\ Replace({t}, {})
  /\ UNCHANGED <<siteVars, known, request, consented, muddled>>

---------------------------------------------------------------------------
(* hook_entity_update().                                                   *)

\* collectForAccount() and collectForClient().  The normalizer of refresh tokens
\* stores neither a user nor a client with them.
OfUser(u) == {t \in tokens : t.kind # "refresh" /\ (t.user = u \/ DefaultUser[t.client] = u)}
OfClient(c) == {t \in tokens : t.kind # "refresh" /\ t.client = c}

\* The hook runs before the save is committed: it collects the tokens there are.
\* Until the commit others read the old roles, so the new ones are chosen there.
Update(e, of, id, collected) ==
  /\ edit[e] = NoEdit
  /\ edit' = [edit EXCEPT ![e] = [of |-> of, id |-> id, tokens |-> collected]]
  /\ UNCHANGED <<siteVars, tokens, known, request, consented, muddled>>

UpdateUser(e, u) == u \in users /\ Update(e, "user", u, OfUser(u))
UpdateClient(e, c) == Update(e, "client", c, OfClient(c))

CommitUpdate(e) ==
  LET d == edit[e] IN
  /\ tokens' = tokens \ d.tokens
  /\ request' = [w \in Worker |->
       IF request[w].step \in {"access", "tokens"} /\ Saves(d, request[w])
       THEN [request[w] EXCEPT !.late = TRUE] ELSE request[w]]
  /\ edit' = [Without(d.tokens) EXCEPT ![e] = NoEdit]
  /\ UNCHANGED <<users, known, consented, muddled>>

CommitUser(e, R) ==
  /\ edit[e].of = "user"
  /\ userRoles' = [userRoles EXCEPT ![edit[e].id] = R]
  /\ CommitUpdate(e)
  /\ UNCHANGED clientRoles

CommitClient(e, R) ==
  /\ edit[e].of = "client"
  /\ clientRoles' = [clientRoles EXCEPT ![edit[e].id] = R]
  /\ CommitUpdate(e)
  /\ UNCHANGED userRoles

RollBackUpdate(e) ==
  /\ edit[e] # NoEdit
  /\ edit' = [edit EXCEPT ![e] = NoEdit]
  /\ UNCHANGED <<siteVars, tokens, known, request, consented, muddled>>

\* The module does nothing when a user is deleted.  What is remembered of one is not
\* read again.
DeleteUser(u) ==
  /\ u \in users
  /\ users' = users \ {u}
  /\ UNCHANGED <<userRoles, clientRoles, tokens, known, request, edit, consented, muddled>>

Init ==
  /\ users = User
  /\ userRoles \in [User -> UserRoles]
  /\ clientRoles \in [Client -> ClientRoles]
  /\ tokens = {}
  /\ known = [u \in User |-> [c \in Client |-> [set |-> FALSE, scopes |-> {}]]]
  /\ request = [w \in Worker |-> Idle]
  /\ edit = [e \in Editor |-> NoEdit]
  /\ consented = [u \in User |-> [c \in Client |-> {}]]
  /\ muddled = {}

Next ==
  \/ \E u \in User, c \in Client, S \in Asks :
       AuthorizeKnown(u, c, S) \/ \E w \in Worker : AuthorizeForm(w, u, c, S)
  \/ \E w \in Worker :
       \/ SubmitForm(w) \/ RememberRead(w) \/ RememberWrite(w) \/ Persist(w) \/ Abort(w)
       \/ \E t \in tokens : RedeemCode(w, t)
       \/ \E t \in tokens, S \in Asks : Refresh(w, t, S)
       \/ \E u \in User, c \in Client, S \in Asks : Password(w, u, c, S)
       \/ \E c \in Client, S \in Asks : ClientCredentials(w, c, S)
  \/ \E t \in tokens : Expire(t)
  \/ \E e \in Editor :
       \/ \E u \in User : UpdateUser(e, u)
       \/ \E c \in Client : UpdateClient(e, c)
       \/ \E R \in UserRoles : CommitUser(e, R)
       \/ \E R \in ClientRoles : CommitClient(e, R)
       \/ RollBackUpdate(e)
  \/ \E u \in User : DeleteUser(u)

Spec == Init /\ [][Next]_vars

---------------------------------------------------------------------------
TypeOK ==
  /\ users \subseteq User
  /\ userRoles \in [User -> SUBSET Role]
  /\ clientRoles \in [Client -> SUBSET Role]
  /\ tokens \subseteq Info
  /\ known \in [User -> [Client -> [set: BOOLEAN, scopes: SUBSET Role]]]
  /\ request \in [Worker -> Work \cup {Idle}]
  /\ edit \in [Editor -> Edit \cup {NoEdit}]
  /\ consented \in [User -> [Client -> SUBSET Role]]
  /\ muddled \subseteq User \X Client

\* A third-party client gets a code only for scopes that this user has granted to
\* this client on a form, now or earlier, whatever was remembered at the same time.
ConsentFirst ==
  \A t \in tokens : t.kind = "code" /\ t.client \in ThirdParty =>
    t.scopes \subseteq consented[t.user][t.client]

\* KnownClientsRepositoryInterface.php:29: "Passed in scopes are merged with already
\* accepted scopes".  A user is not asked again for what he has granted, unless two
\* requests were remembered at once: the later write undoes the other.
GrantedOnce ==
  \A u \in User, c \in Client :
    /\ consented[u][c] # {} /\ <<u, c>> \notin muddled
    /\ \A w \in Worker : request[w].step \in {"remember", "write"} =>
         request[w].user # u \/ request[w].client # c
    => IsAuthorized(u, c, consented[u][c])

\* The roles a bearer acts with are roles that the user and the consumer have now,
\* and all of the consumer's: for tokens whose scopes were finalized, of users that
\* exist.  An update deletes the tokens that it collected before its commit; one that
\* was settled with the old roles and stored after that ("late") need not fit.
FreshTokensFit ==
  \A t \in tokens : t.kind = "access" /\ t.user \in users /\ ~t.refreshed /\ ~t.late =>
    /\ clientRoles[t.client] \subseteq t.scopes
    /\ t.scopes \subseteq userRoles[t.user] \cup clientRoles[t.client]

\* RolesNegotiationFunctionalTest.php:171, of a user who has lost a role: "Even though
\* the TokenUser has the roles assigned, the underlying user doesn't, so access should
\* not be granted."  Here also for tokens that are issued after the update.
TokensFit ==
  \A t \in tokens : t.kind = "access" /\ ~t.late =>
    t.scopes \subseteq userRoles[t.user] \cup clientRoles[t.client]
===========================================================================
