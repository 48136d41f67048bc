------------------------- MODULE TokenScopes_proofs -------------------------
(* Proofs about TokenScopes: its types, that third-party clients get no code   *)
(* without consent, that consent is asked for once, and that the scopes of     *)
(* fresh tokens are roles of the user and of the consumer.                     *)
EXTENDS TokenScopes, TLAPS

\* A step of the module, by the actions it can be.
LEMMA Steps ==
  ASSUME TypeOK, Next
  PROVE  \/ \E u \in User, c \in Client, S \in SUBSET Role : AuthorizeKnown(u, c, S)
         \/ \E w \in Worker, u \in User, c \in Client, S \in SUBSET Role :
              AuthorizeForm(w, u, c, S) \/ Password(w, u, c, S)
         \/ \E w \in Worker, c \in Client, S \in SUBSET Role : ClientCredentials(w, c, S)
         \/ \E w \in Worker : SubmitForm(w) \/ RememberRead(w) \/ RememberWrite(w)
                              \/ Persist(w) \/ Abort(w)
         \/ \E w \in Worker, t \in Info : t \in tokens /\ RedeemCode(w, t)
         \/ \E w \in Worker, t \in Info, S \in SUBSET Role : t \in tokens /\ Refresh(w, t, S)
         \/ \E t \in Info : Expire(t)
         \/ \E e \in Editor, u \in User : UpdateUser(e, u)
         \/ \E e \in Editor, c \in Client : UpdateClient(e, c)
         \/ \E e \in Editor, R \in SUBSET Role : CommitUser(e, R) \/ CommitClient(e, R)
         \/ \E e \in Editor : RollBackUpdate(e)
         \/ \E u \in User : DeleteUser(u)
BY ConfigAssumption DEF Next, TypeOK

\* What finalizeScopes() returns.
LEMMA Finalized ==
  ASSUME TypeOK, NEW u \in User, NEW c \in Client, NEW S \in SUBSET Role
  PROVE  /\ FinalizeScopes(S, u, c) \in SUBSET Role
         /\ u \in users => clientRoles[c] \subseteq FinalizeScopes(S, u, c)
         /\ FinalizeScopes(S, u, c) \subseteq userRoles[u] \cup clientRoles[c]
BY DEF FinalizeScopes, TypeOK

\* A worker serves a request.
LEMMA Served ==
  ASSUME TypeOK, NEW w \in Worker, request[w].step # "idle"
  PROVE  request[w] \in Work /\ request[w] # Idle
BY DEF TypeOK, Idle, Work

\* What editors keep of the tokens they have collected.
LEMMA Kept ==
  ASSUME TypeOK, NEW S, NEW e \in Editor
  PROVE  \/ edit[e] = NoEdit /\ Without(S)[e] = NoEdit
         \/ /\ edit[e] \in Edit /\ Without(S)[e] \in Edit
            /\ Without(S)[e].of = edit[e].of /\ Without(S)[e].id = edit[e].id
            /\ Without(S)[e].tokens = edit[e].tokens \ S
<1>1. CASE edit[e] = NoEdit
  BY <1>1 DEF Without
<1>2. CASE edit[e] # NoEdit
  <2>1. edit[e] \in Edit
    BY <1>2 DEF TypeOK
  <2>2. Without(S)[e] = [edit[e] EXCEPT !.tokens = @ \ S]
    BY <1>2 DEF Without
  <2>3. CASE edit[e] \in [of: {"user"}, id: User, tokens: SUBSET Info]
    BY <2>1, <2>2, <2>3 DEF Edit
  <2>4. CASE edit[e] \in [of: {"client"}, id: Client, tokens: SUBSET Info]
    BY <2>1, <2>2, <2>4 DEF Edit
  <2> QED BY <2>1, <2>3, <2>4 DEF Edit
<1> QED BY <1>1, <1>2

LEMMA KeptTyped ==
  ASSUME TypeOK, NEW S
  PROVE  Without(S) \in [Editor -> Edit \cup {NoEdit}]
<1>1. \A e \in Editor : Without(S)[e] \in Edit \cup {NoEdit}
  BY Kept
<1>2. \E f : Without(S) = [e \in Editor |-> f[e]]
  <2> DEFINE f == [e \in Editor |-> Without(S)[e]]
  <2>1. Without(S) = [e \in Editor |-> f[e]]
    BY DEF Without
  <2> QED BY <2>1
<1> QED BY <1>1, <1>2

\* Storing tokens of the right type.
LEMMA Replaced ==
  ASSUME TypeOK, NEW old, NEW new \in SUBSET Info, Replace(old, new)
  PROVE  tokens' \subseteq Info /\ edit' \in [Editor -> Edit \cup {NoEdit}]
BY KeptTyped DEF Replace, TypeOK

\* Every step keeps the types.
LEMMA TypeStep == TypeOK /\ [Next]_vars => TypeOK'
<1> SUFFICES ASSUME TypeOK, [Next]_vars PROVE TypeOK'
  OBVIOUS
<1>a. TypeOK
  OBVIOUS
<1>1. ASSUME NEW u \in User, NEW c \in Client, NEW S \in SUBSET Role, AuthorizeKnown(u, c, S)
      PROVE TypeOK'
  <2>1. Code(u, c, S) \in Info
    BY DEF Code, Info
  <2>2. tokens' \subseteq Info /\ edit' \in [Editor -> Edit \cup {NoEdit}]
    BY <1>1, <1>a, <2>1, Replaced DEF AuthorizeKnown
  <2> QED BY <1>1, <2>2 DEF AuthorizeKnown, siteVars, TypeOK
<1>2. ASSUME NEW w \in Worker, NEW u \in User, NEW c \in Client, NEW S \in SUBSET Role,
             AuthorizeForm(w, u, c, S)
      PROVE TypeOK'
  BY <1>2 DEF AuthorizeForm, Put, Serving, Work, Step, siteVars, TypeOK
<1>3. ASSUME NEW w \in Worker, NEW u \in User, NEW c \in Client, NEW S \in SUBSET Role,
             Password(w, u, c, S)
      PROVE TypeOK'
  <2> DEFINE F == FinalizeScopes(S, u, c)
  <2>1. F \in SUBSET Role
    BY <1>a, Finalized
  <2>2. Serving("tokens", u, c, F) \in Work
    BY <2>1 DEF Serving, Work, Step
  <2> QED BY <1>3, <2>2 DEF Password, Put, siteVars, TypeOK
<1>4. ASSUME NEW w \in Worker, NEW c \in Client, NEW S \in SUBSET Role, ClientCredentials(w, c, S)
      PROVE TypeOK'
  <2> DEFINE F == FinalizeScopes(S, DefaultUser[c], c)
  <2>0. DefaultUser[c] \in User
    BY <1>4, ConfigAssumption DEF ClientCredentials
  <2>1. F \in SUBSET Role
    BY <1>a, <2>0, Finalized
  <2>2. Serving("access", DefaultUser[c], c, F) \in Work
    BY <2>0, <2>1 DEF Serving, Work, Step
  <2> QED BY <1>4, <2>2 DEF ClientCredentials, Put, siteVars, TypeOK
<1>5. ASSUME NEW w \in Worker, SubmitForm(w) PROVE TypeOK'
  <2>1. request[w] \in Work
    BY <1>a, <1>5, Served DEF SubmitForm
  <2>2. Code(request[w].user, request[w].client, request[w].scopes) \in Info
    BY <2>1 DEF Code, Info, Work
  <2>3. [request[w] EXCEPT !.step = "remember"] \in Work
    BY <2>1 DEF Work, Step
  <2>4. request' \in [Worker -> Work \cup {Idle}]
    BY <1>5, <2>3 DEF SubmitForm, Put, TypeOK
  <2>6. tokens' \subseteq Info /\ edit' \in [Editor -> Edit \cup {NoEdit}]
    BY <1>5, <1>a, <2>2, Replaced DEF SubmitForm
  <2>5. consented' \in [User -> [Client -> SUBSET Role]]
    BY <1>5, <2>1 DEF SubmitForm, Work, TypeOK
  <2> QED BY <1>5, <2>4, <2>5, <2>6 DEF SubmitForm, siteVars, TypeOK
<1>6. ASSUME NEW w \in Worker, RememberRead(w) PROVE TypeOK'
  <2> DEFINE q == request[w]
             S == Merged(q.user, q.client, q.scopes)
  <2>1. q \in Work
    BY <1>a, <1>6, Served DEF RememberRead
  <2>2. S \in SUBSET Role /\ q.user \in User /\ q.client \in Client
    BY <2>1 DEF Merged, Work, TypeOK
  <2>3. [q EXCEPT !.step = "write", !.scopes = S] \in Work
    BY <2>1, <2>2 DEF Work, Step
  <2> HIDE DEF S
  <2> QED BY <1>6, <2>2, <2>3 DEF RememberRead, Put, siteVars, TypeOK, S
<1>7. ASSUME NEW w \in Worker, RememberWrite(w) PROVE TypeOK'
  <2>1. request[w] \in Work
    BY <1>a, <1>7, Served DEF RememberWrite
  <2>2. [set |-> TRUE, scopes |-> request[w].scopes] \in [set: BOOLEAN, scopes: SUBSET Role]
    BY <2>1 DEF Work
  <2> QED BY <1>7, <2>1, <2>2 DEF RememberWrite, Put, Work, siteVars, TypeOK
<1>8. ASSUME NEW w \in Worker, Persist(w) PROVE TypeOK'
  <2>1. request[w] \in Work
    BY <1>a, <1>8, Served DEF Persist
  <2>2. Late(request[w]) \in BOOLEAN
    BY <2>1 DEF Late, Work
  <2>3. NewTokens(request[w]) \in SUBSET Info
    <3>1. \A k \in {"access", "refresh"}, f, l \in BOOLEAN : Token(k, request[w], f, l) \in Info
      BY <2>1 DEF Token, Info, Work
    <3>2. request[w].refreshed \in BOOLEAN
      BY <2>1 DEF Work
    <3> QED BY <2>2, <3>1, <3>2 DEF NewTokens
  <2>5. Replace(request[w].code, NewTokens(request[w]))
    BY <1>8 DEF Persist
  <2>4. tokens' \subseteq Info /\ edit' \in [Editor -> Edit \cup {NoEdit}]
    BY <1>a, <2>3, <2>5, Replaced
  <2> QED BY <1>8, <2>4 DEF Persist, Put, siteVars, TypeOK
<1>9. ASSUME NEW w \in Worker, Abort(w) PROVE TypeOK'
  <2>1. request[w] \in Work
    BY <1>9 DEF Abort, TypeOK
  <2> QED BY <1>9, <2>1 DEF Abort, Put, Work, siteVars, TypeOK
<1>10. ASSUME NEW w \in Worker, NEW t \in Info, RedeemCode(w, t) PROVE TypeOK'
  <2> DEFINE F == FinalizeScopes(t.scopes, t.user, t.client)
  <2>1. t.user \in User /\ t.client \in Client /\ t.scopes \in SUBSET Role
    BY DEF Info
  <2>2. F \in SUBSET Role
    BY <1>a, <2>1, Finalized
  <2>3. [Serving("tokens", t.user, t.client, F) EXCEPT !.code = {t}] \in Work
    BY <2>1, <2>2 DEF Serving, Work, Step
  <2> QED BY <1>10, <2>3 DEF RedeemCode, Put, siteVars, TypeOK
<1>11. ASSUME NEW w \in Worker, NEW t \in Info, NEW S \in SUBSET Role, Refresh(w, t, S)
       PROVE TypeOK'
  <2>1. [Serving("tokens", t.user, t.client, S) EXCEPT !.refreshed = TRUE] \in Work
    BY DEF Serving, Work, Step, Info
  <2>2. tokens' \subseteq Info /\ edit' \in [Editor -> Edit \cup {NoEdit}]
    BY <1>11, <1>a, Replaced DEF Refresh
  <2> QED BY <1>11, <2>1, <2>2 DEF Refresh, Put, siteVars, TypeOK
<1>12. ASSUME NEW t \in Info, Expire(t) PROVE TypeOK'
  <2>1. tokens' \subseteq Info /\ edit' \in [Editor -> Edit \cup {NoEdit}]
    BY <1>12, <1>a, Replaced DEF Expire
  <2> QED BY <1>12, <2>1 DEF Expire, siteVars, TypeOK
<1>13. ASSUME NEW e \in Editor, NEW u \in User, UpdateUser(e, u) PROVE TypeOK'
  <2>1. [of |-> "user", id |-> u, tokens |-> OfUser(u)] \in Edit
    BY DEF OfUser, Edit, TypeOK
  <2> QED BY <1>13, <2>1 DEF UpdateUser, Update, siteVars, TypeOK
<1>14. ASSUME NEW e \in Editor, NEW c \in Client, UpdateClient(e, c) PROVE TypeOK'
  <2>1. [of |-> "client", id |-> c, tokens |-> OfClient(c)] \in Edit
    BY DEF OfClient, Edit, TypeOK
  <2> QED BY <1>14, <2>1 DEF UpdateClient, Update, siteVars, TypeOK
<1>u. ASSUME NEW e \in Editor, CommitUpdate(e)
      PROVE  /\ users' \subseteq User /\ tokens' \subseteq Info
             /\ request' \in [Worker -> Work \cup {Idle}]
             /\ edit' \in [Editor -> Edit \cup {NoEdit}]
             /\ UNCHANGED <<known, consented, muddled>>
  <2>1. ASSUME NEW w \in Worker, request[w].step \in {"access", "tokens"}
        PROVE  [request[w] EXCEPT !.late = TRUE] \in Work
    <3>1. request[w] \in Work
      BY <2>1 DEF Idle, TypeOK
    <3> QED BY <3>1 DEF Work
  <2>2. request' \in [Worker -> Work \cup {Idle}]
    BY <1>u, <2>1 DEF CommitUpdate, TypeOK
  <2>3. edit' \in [Editor -> Edit \cup {NoEdit}]
    BY <1>u, <1>a, KeptTyped DEF CommitUpdate
  <2> QED BY <1>u, <2>2, <2>3 DEF CommitUpdate, TypeOK
<1>16. ASSUME NEW e \in Editor, NEW R \in SUBSET Role, CommitUser(e, R) PROVE TypeOK'
  BY <1>16, <1>u DEF CommitUser, TypeOK
<1>17. ASSUME NEW e \in Editor, NEW R \in SUBSET Role, CommitClient(e, R) PROVE TypeOK'
  BY <1>17, <1>u DEF CommitClient, TypeOK
<1>18. ASSUME NEW e \in Editor, RollBackUpdate(e) PROVE TypeOK'
  BY <1>18 DEF RollBackUpdate, siteVars, TypeOK
<1>19. ASSUME NEW u \in User, DeleteUser(u) PROVE TypeOK'
  BY <1>19 DEF DeleteUser, TypeOK
<1>15. CASE UNCHANGED vars
  BY <1>15 DEF vars, siteVars, TypeOK
<1> QED BY <1>1, <1>2, <1>3, <1>4, <1>5, <1>6, <1>7, <1>8, <1>9, <1>10, <1>11, <1>12, <1>13,
           <1>14, <1>15, <1>16, <1>17, <1>18, <1>19, Steps

\* Nothing has been asked for.
LEMMA TypeInit == Init => TypeOK
BY ConfigAssumption DEF Init, TypeOK

\* Tokens, user data and requests hold roles of the site, whatever is merged.
THEOREM TypeCorrect == Spec => []TypeOK
BY TypeInit, TypeStep, PTL DEF Spec

---------------------------------------------------------------------------
(* Consent: what is remembered, what is about to be, and the scopes of codes  *)
(* are scopes on forms that the user has granted.                             *)

Remembering(w) == request[w].step \in {"remember", "write"}

ConsentInv ==
  /\ TypeOK
  /\ \A u \in User, c \in Client : known[u][c].scopes \subseteq consented[u][c]
  /\ \A w \in Worker : Remembering(w) =>
       request[w].scopes \subseteq consented[request[w].user][request[w].client]
  /\ ConsentFirst

\* Steps that issue no code, and neither remember nor forget a consent.
LEMMA ConsentKept ==
  ASSUME ConsentInv, TypeOK', UNCHANGED <<known, consented>>,
         \A t \in tokens' : t.kind = "code" => t \in tokens,
         \A w \in Worker : Remembering(w)' =>
           Remembering(w) /\ request'[w] = request[w]
  PROVE  ConsentInv'
BY DEF ConsentInv, ConsentFirst, Remembering

\* A request that begins, ends or is overtaken is not one to be remembered.
LEMMA ConsentPut ==
  ASSUME ConsentInv, TypeOK', UNCHANGED <<known, consented>>,
         \A t \in tokens' : t.kind = "code" => t \in tokens,
         NEW w \in Worker, NEW q, Put(w, q), q.step \notin {"remember", "write"}
  PROVE  ConsentInv'
<1>1. \A v \in Worker : Remembering(v)' => Remembering(v) /\ request'[v] = request[v]
  BY DEF Put, Remembering, ConsentInv, TypeOK
<1> QED BY <1>1, ConsentKept

\* A request that a commit overtakes issues tokens, late.
LEMMA Overtaken ==
  ASSUME TypeOK, NEW e \in Editor, CommitUpdate(e), NEW w \in Worker
  PROVE  \/ /\ request[w].step \in {"access", "tokens"} /\ request'[w].late
            /\ request'[w].step = request[w].step /\ ~Remembering(w) /\ ~Remembering(w)'
         \/ /\ request'[w] = request[w] /\ (Remembering(w)' <=> Remembering(w))
            /\ request[w].step \in {"access", "tokens"} => ~Saves(edit[e], request[w])
<1>1. CASE request[w].step \in {"access", "tokens"} /\ Saves(edit[e], request[w])
  <2>1. request[w] \in Work
    BY <1>1 DEF Idle, TypeOK
  <2>2. request'[w] = [request[w] EXCEPT !.late = TRUE]
    BY <1>1 DEF CommitUpdate
  <2>3. request'[w].late /\ request'[w].step = request[w].step
    BY <2>1, <2>2 DEF Work
  <2> QED BY <1>1, <2>3 DEF Remembering
<1>2. CASE ~(request[w].step \in {"access", "tokens"} /\ Saves(edit[e], request[w]))
  <2>1. request'[w] = request[w]
    BY <1>2 DEF CommitUpdate
  <2> QED BY <1>2, <2>1 DEF Remembering
<1> QED BY <1>1, <1>2

LEMMA ConsentStep == ConsentInv /\ [Next]_vars => ConsentInv'
<1> SUFFICES ASSUME ConsentInv, [Next]_vars PROVE ConsentInv'
  OBVIOUS
<1>a. ConsentInv /\ TypeOK /\ TypeOK'
  BY TypeStep DEF ConsentInv
<1>1. ASSUME NEW u \in User, NEW c \in Client, NEW S \in SUBSET Role, AuthorizeKnown(u, c, S)
      PROVE ConsentInv'
  <2>1. c \in ThirdParty => S \subseteq consented[u][c]
    BY <1>1 DEF AuthorizeKnown, IsAuthorized, ConsentInv
  <2>2. tokens' = tokens \cup {Code(u, c, S)} /\ UNCHANGED <<known, request, consented>>
    BY <1>1 DEF AuthorizeKnown, Replace
  <2>3. ConsentFirst'
    BY <2>1, <2>2 DEF Code, ConsentInv, ConsentFirst
  <2> QED BY <1>a, <2>2, <2>3 DEF ConsentInv, Remembering
<1>2. ASSUME NEW w \in Worker, NEW u \in User, NEW c \in Client, NEW S \in SUBSET Role,
             AuthorizeForm(w, u, c, S)
      PROVE ConsentInv'
  BY <1>2, <1>a, ConsentPut DEF AuthorizeForm, Serving
<1>3. ASSUME NEW w \in Worker, NEW u \in User, NEW c \in Client, NEW S \in SUBSET Role,
             Password(w, u, c, S)
      PROVE ConsentInv'
  BY <1>3, <1>a, ConsentPut DEF Password, Serving
<1>4. ASSUME NEW w \in Worker, NEW c \in Client, NEW S \in SUBSET Role, ClientCredentials(w, c, S)
      PROVE ConsentInv'
  BY <1>4, <1>a, ConsentPut DEF ClientCredentials, Serving
<1>5. ASSUME NEW w \in Worker, SubmitForm(w) PROVE ConsentInv'
  <2> DEFINE q == request[w]
             u == q.user
             c == q.client
  <2>1. q \in Work /\ u \in User /\ c \in Client
    BY <1>a, <1>5, Served DEF SubmitForm, Work
  <2>2. /\ consented' = [consented EXCEPT ![u][c] = @ \cup q.scopes]
        /\ tokens' = tokens \cup {Code(u, c, q.scopes)}
        /\ request' = [request EXCEPT ![w] = [q EXCEPT !.step = "remember"]]
        /\ UNCHANGED known
    BY <1>5 DEF SubmitForm, Replace, Put
  <2>3. \A v \in User, d \in Client : consented[v][d] \subseteq consented'[v][d]
    BY <1>a, <2>1, <2>2 DEF TypeOK
  <2>4. q.scopes \subseteq consented'[u][c]
    BY <1>a, <2>1, <2>2 DEF TypeOK
  <2>5. ConsentFirst'
    <3>1. \A t \in tokens : t.user \in User /\ t.client \in Client
      BY <1>a DEF TypeOK, Info
    <3> QED BY <1>a, <2>2, <2>3, <2>4, <3>1 DEF Code, ConsentInv, ConsentFirst
  <2>6. ASSUME NEW v \in Worker, Remembering(v)'
        PROVE  request'[v].scopes \subseteq consented'[request'[v].user][request'[v].client]
    <3>1. CASE v = w
      <4>1. request'[w] = [q EXCEPT !.step = "remember"]
        BY <1>a, <2>2 DEF TypeOK
      <4> QED BY <3>1, <4>1, <2>1, <2>4 DEF Work
    <3>2. CASE v # w
      <4>1. request'[v] = request[v] /\ Remembering(v)
        BY <3>2, <1>a, <2>2, <2>6 DEF TypeOK, Remembering
      <4>2. request[v].user \in User /\ request[v].client \in Client
        BY <1>a, <4>1, Served DEF Remembering, Work
      <4> QED BY <4>1, <4>2, <2>3 DEF ConsentInv
    <3> QED BY <3>1, <3>2
  <2>7. \A v \in User, d \in Client : known'[v][d].scopes \subseteq consented'[v][d]
    BY <2>2, <2>3 DEF ConsentInv
  <2> QED BY <1>a, <2>5, <2>6, <2>7 DEF ConsentInv
<1>6. ASSUME NEW w \in Worker, RememberRead(w) PROVE ConsentInv'
  <2> DEFINE q == request[w]
             S == Merged(q.user, q.client, q.scopes)
  <2>1. q \in Work /\ q.user \in User /\ q.client \in Client /\ Remembering(w)
    BY <1>a, <1>6, Served DEF RememberRead, Work, Remembering
  <2>2. /\ request' = [request EXCEPT ![w] = [q EXCEPT !.step = "write", !.scopes = S]]
        /\ UNCHANGED <<known, consented, tokens>>
    BY <1>6 DEF RememberRead, Put
  <2>3. S \subseteq consented[q.user][q.client]
    BY <2>1 DEF Merged, ConsentInv
  <2> HIDE DEF S
  <2>4. ASSUME NEW v \in Worker, Remembering(v)'
        PROVE  request'[v].scopes \subseteq consented'[request'[v].user][request'[v].client]
    <3>1. CASE v = w
      <4>1. request'[w] = [q EXCEPT !.step = "write", !.scopes = S]
        BY <1>a, <2>2 DEF TypeOK
      <4> QED BY <3>1, <4>1, <2>1, <2>2, <2>3 DEF Work
    <3>2. CASE v # w
      BY <3>2, <1>a, <2>2, <2>4 DEF TypeOK, Remembering, ConsentInv
    <3> QED BY <3>1, <3>2
  <2> QED BY <1>a, <2>2, <2>4 DEF ConsentInv, ConsentFirst
<1>7. ASSUME NEW w \in Worker, RememberWrite(w) PROVE ConsentInv'
  <2> DEFINE q == request[w]
  <2>1. q.user \in User /\ q.client \in Client /\ q.scopes \subseteq consented[q.user][q.client]
    BY <1>a, <1>7, Served DEF RememberWrite, Work, Remembering, ConsentInv
  <2>2. /\ known' = [known EXCEPT ![q.user][q.client] = [set |-> TRUE, scopes |-> q.scopes]]
        /\ request' = [request EXCEPT ![w] = Idle]
        /\ UNCHANGED <<tokens, consented>>
    BY <1>7 DEF RememberWrite, Put
  <2>3. \A v \in User, d \in Client : known'[v][d].scopes \subseteq consented'[v][d]
    BY <1>a, <2>1, <2>2 DEF TypeOK, ConsentInv
  <2>4. ASSUME NEW v \in Worker, Remembering(v)'
        PROVE  Remembering(v) /\ request'[v] = request[v]
    BY <1>a, <2>2, <2>4 DEF TypeOK, Remembering, Idle
  <2> QED BY <1>a, <2>2, <2>3, <2>4 DEF ConsentInv, ConsentFirst
<1>8. ASSUME NEW w \in Worker, Persist(w) PROVE ConsentInv'
  <2>1. \A t \in tokens' : t.kind = "code" => t \in tokens
    BY <1>8 DEF Persist, Replace, NewTokens, Token
  <2> QED BY <1>8, <1>a, <2>1, ConsentPut DEF Persist, Idle
<1>9. ASSUME NEW w \in Worker, Abort(w) PROVE ConsentInv'
  BY <1>9, <1>a, ConsentPut DEF Abort, Idle
<1>10. ASSUME NEW w \in Worker, NEW t \in Info, RedeemCode(w, t) PROVE ConsentInv'
  BY <1>10, <1>a, ConsentPut DEF RedeemCode, Serving
<1>11. ASSUME NEW w \in Worker, NEW t \in Info, NEW S \in SUBSET Role, Refresh(w, t, S)
       PROVE ConsentInv'
  BY <1>11, <1>a, ConsentPut DEF Refresh, Replace, Serving
<1>12. ASSUME NEW t \in Info, Expire(t) PROVE ConsentInv'
  BY <1>12, <1>a, ConsentKept DEF Expire, Replace, Remembering
<1>13. ASSUME NEW e \in Editor, NEW u \in User, UpdateUser(e, u) PROVE ConsentInv'
  BY <1>13, <1>a, ConsentKept DEF UpdateUser, Update, Remembering
<1>14. ASSUME NEW e \in Editor, NEW c \in Client, UpdateClient(e, c) PROVE ConsentInv'
  BY <1>14, <1>a, ConsentKept DEF UpdateClient, Update, Remembering
<1>16. ASSUME NEW e \in Editor, NEW R \in SUBSET Role, CommitUser(e, R) PROVE ConsentInv'
  BY <1>16, <1>a, Overtaken, ConsentKept DEF CommitUser, CommitUpdate
<1>17. ASSUME NEW e \in Editor, NEW R \in SUBSET Role, CommitClient(e, R) PROVE ConsentInv'
  BY <1>17, <1>a, Overtaken, ConsentKept DEF CommitClient, CommitUpdate
<1>18. ASSUME NEW e \in Editor, RollBackUpdate(e) PROVE ConsentInv'
  BY <1>18, <1>a, ConsentKept DEF RollBackUpdate, Remembering
<1>19. ASSUME NEW u \in User, DeleteUser(u) PROVE ConsentInv'
  BY <1>19, <1>a, ConsentKept DEF DeleteUser, Remembering
<1>15. CASE UNCHANGED vars
  BY <1>15, <1>a, ConsentKept DEF vars, Remembering
<1> QED BY <1>a, <1>1, <1>2, <1>3, <1>4, <1>5, <1>6, <1>7, <1>8, <1>9, <1>10, <1>11, <1>12, <1>13,
           <1>14, <1>15, <1>16, <1>17, <1>18, <1>19, Steps

\* Nothing is remembered at first.
LEMMA ConsentInit == Init => ConsentInv
BY TypeInit DEF Init, ConsentInv, ConsentFirst, Remembering, Idle

\* However the forms, the remembering and the redemptions of a user's requests
\* overlap, and wherever they end early, a third-party client gets a code only for
\* scopes that this user has granted to it.
THEOREM NoCodeWithoutConsent == Spec => []ConsentFirst
<1>1. ConsentInv => ConsentFirst
  BY DEF ConsentInv
<1> QED BY <1>1, ConsentInit, ConsentStep, PTL DEF Spec

---------------------------------------------------------------------------
(* Fresh tokens: finalizeScopes() returns fitting scopes, which stay fitting   *)
(* until an update, and an update deletes the tokens that no longer fit.       *)

Fits(S, u, c) == clientRoles[c] \subseteq S /\ S \subseteq userRoles[u] \cup clientRoles[c]

Fresh(q) == q.step \in {"access", "tokens"} /\ ~q.refreshed /\ ~q.late

FreshToken(t) == t.kind = "access" /\ ~t.refreshed /\ ~t.late

\* An editor has collected every fresh token of the user or the client it saves.
Collected(e) == \A t \in tokens : FreshToken(t) /\ Saves(edit[e], t) => t \in edit[e].tokens

RequestsFit ==
  \A w \in Worker : Fresh(request[w]) /\ request[w].user \in users =>
    Fits(request[w].scopes, request[w].user, request[w].client)

FreshInv ==
  /\ TypeOK
  /\ RequestsFit
  /\ FreshTokensFit
  /\ \A e \in Editor : Collected(e)

\* What is taken out of a collection is not stored, or is not of the one that is saved.
LEMMA CollectedWithout ==
  ASSUME FreshInv, NEW e \in Editor, NEW S, edit'[e] = Without(S)[e],
         \A t \in tokens' : FreshToken(t) /\ Saves(edit[e], t) => t \in tokens /\ t \notin S
  PROVE  Collected(e)'
<1> SUFFICES ASSUME NEW t \in tokens', FreshToken(t), Saves(edit'[e], t)
             PROVE  t \in edit'[e].tokens
  BY DEF Collected
<1>1. edit[e] # NoEdit
  BY Kept DEF FreshInv, Saves, NoEdit
<1>2. /\ edit'[e].of = edit[e].of /\ edit'[e].id = edit[e].id
      /\ edit'[e].tokens = edit[e].tokens \ S
  BY <1>1, Kept DEF FreshInv
<1>3. Saves(edit[e], t)
  BY <1>2 DEF Saves
<1>4. t \in tokens /\ t \notin S
  BY <1>3
<1> QED BY <1>2, <1>3, <1>4 DEF FreshInv, Collected

\* No fresh token is added for the user or the client that is being saved.
LEMMA CollectedReplaced ==
  ASSUME FreshInv, NEW old, NEW new, Replace(old, new),
         \A t \in new, e \in Editor : FreshToken(t) => ~Saves(edit[e], t)
  PROVE  \A e \in Editor : Collected(e)'
<1> SUFFICES ASSUME NEW e \in Editor PROVE Collected(e)'
  OBVIOUS
<1>1. edit'[e] = Without(old \cup new)[e] /\ tokens' = (tokens \ old) \cup new
  BY DEF Replace
<1> QED BY <1>1, CollectedWithout

\* No token is added, and editors do nothing: what is at work stays or fits.
LEMMA FreshKept ==
  ASSUME FreshInv, TypeOK', UNCHANGED <<userRoles, clientRoles>>, users' \subseteq users,
         \A t \in tokens' : FreshToken(t) => t \in tokens,
         \A e \in Editor : Collected(e)',
         \A w \in Worker : Fresh(request'[w]) =>
           \/ request'[w] = request[w]
           \/ request'[w].user \in users =>
                Fits(request'[w].scopes, request'[w].user, request'[w].client)
  PROVE  FreshInv'
<1>1. RequestsFit'
  BY DEF FreshInv, RequestsFit, Fits
<1>2. FreshTokensFit'
  BY DEF FreshInv, FreshTokensFit, FreshToken
<1> QED BY <1>1, <1>2 DEF FreshInv

LEMMA FreshPut ==
  ASSUME FreshInv, TypeOK', UNCHANGED siteVars,
         \A t \in tokens' : FreshToken(t) => t \in tokens,
         \A e \in Editor : Collected(e)',
         NEW w \in Worker, NEW q, Put(w, q),
         Fresh(q) /\ q.user \in users => Fits(q.scopes, q.user, q.client)
  PROVE  FreshInv'
<1>1. \A v \in Worker : request'[v] = request[v] \/ (v = w /\ request'[v] = q)
  BY DEF Put, FreshInv, TypeOK
<1> QED BY <1>1, FreshKept DEF siteVars

\* Editors, and the tokens, are left alone.
LEMMA SameCollected ==
  ASSUME FreshInv, UNCHANGED <<tokens, edit>>
  PROVE  \A e \in Editor : Collected(e)'
BY DEF FreshInv, Collected

LEMMA FreshStep == FreshInv /\ [Next]_vars => FreshInv'
<1> SUFFICES ASSUME FreshInv, [Next]_vars PROVE FreshInv'
  OBVIOUS
<1>a. FreshInv /\ TypeOK /\ TypeOK'
  BY TypeStep DEF FreshInv
<1>1. ASSUME NEW u \in User, NEW c \in Client, NEW S \in SUBSET Role, AuthorizeKnown(u, c, S)
      PROVE FreshInv'
  <2>1. Replace({}, {Code(u, c, S)}) /\ UNCHANGED <<siteVars, request>>
    BY <1>1 DEF AuthorizeKnown
  <2>2. ~FreshToken(Code(u, c, S))
    BY DEF FreshToken, Code
  <2>3. \A t \in tokens' : FreshToken(t) => t \in tokens
    BY <2>1, <2>2 DEF Replace
  <2>4. \A e \in Editor : Collected(e)'
    BY <1>a, <2>1, <2>2, CollectedReplaced
  <2> QED BY <1>a, <2>1, <2>3, <2>4, FreshKept DEF siteVars
<1>2. ASSUME NEW w \in Worker, NEW u \in User, NEW c \in Client, NEW S \in SUBSET Role,
             AuthorizeForm(w, u, c, S)
      PROVE FreshInv'
  BY <1>2, <1>a, FreshPut, SameCollected DEF AuthorizeForm, Serving, Fresh
<1>f. ASSUME NEW u \in User, NEW c \in Client, NEW S \in SUBSET Role, u \in users
      PROVE  Fits(FinalizeScopes(S, u, c), u, c)
  BY <1>a, <1>f, Finalized DEF Fits
<1>3. ASSUME NEW w \in Worker, NEW u \in User, NEW c \in Client, NEW S \in SUBSET Role,
             Password(w, u, c, S)
      PROVE FreshInv'
  BY <1>3, <1>a, <1>f, FreshPut, SameCollected DEF Password, Serving
<1>4. ASSUME NEW w \in Worker, NEW c \in Client, NEW S \in SUBSET Role, ClientCredentials(w, c, S)
      PROVE FreshInv'
  <2>1. DefaultUser[c] \in User
    BY <1>4, ConfigAssumption DEF ClientCredentials
  <2> QED BY <1>4, <1>a, <1>f, <2>1, FreshPut, SameCollected DEF ClientCredentials, Serving
<1>5. ASSUME NEW w \in Worker, SubmitForm(w) PROVE FreshInv'
  <2> DEFINE k == Code(request[w].user, request[w].client, request[w].scopes)
  <2>1. request[w] \in Work
    BY <1>a, <1>5, Served DEF SubmitForm
  <2>2. [request[w] EXCEPT !.step = "remember"].step = "remember"
    BY <2>1 DEF Work
  <2>3. Replace({}, {k})
    BY <1>5 DEF SubmitForm
  <2>4. ~FreshToken(k)
    BY DEF FreshToken, Code
  <2>5. \A t \in tokens' : FreshToken(t) => t \in tokens
    BY <2>3, <2>4 DEF Replace
  <2>6. \A e \in Editor : Collected(e)'
    BY <1>a, <2>3, <2>4, CollectedReplaced
  <2> QED BY <1>5, <1>a, <2>2, <2>5, <2>6, FreshPut DEF SubmitForm, Fresh
<1>6. ASSUME NEW w \in Worker, RememberRead(w) PROVE FreshInv'
  <2> DEFINE S == Merged(request[w].user, request[w].client, request[w].scopes)
  <2>1. request[w] \in Work
    BY <1>a, <1>6, Served DEF RememberRead
  <2> HIDE DEF S
  <2>2. [request[w] EXCEPT !.step = "write", !.scopes = S].step = "write"
    BY <2>1 DEF Work
  <2> QED BY <1>6, <1>a, <2>2, FreshPut, SameCollected DEF RememberRead, Fresh, S
<1>7. ASSUME NEW w \in Worker, RememberWrite(w) PROVE FreshInv'
  BY <1>7, <1>a, FreshPut, SameCollected DEF RememberWrite, Fresh, Idle
<1>8. ASSUME NEW w \in Worker, Persist(w) PROVE FreshInv'
  <2> DEFINE q == request[w]
             access == Token("access", q, q.refreshed, Late(q))
             new == NewTokens(q)
  <2>1. q.step \in {"access", "tokens"} /\ Put(w, Idle) /\ UNCHANGED siteVars
    BY <1>8 DEF Persist
  <2>2. Replace(q.code, new)
    BY <1>8 DEF Persist
  <2>3. \A t \in new : FreshToken(t) => t = access
    BY DEF FreshToken, NewTokens, Token
  <2>4. FreshToken(access) => Fresh(q) /\ \A e \in Editor : ~Saves(edit[e], access)
    BY <2>1 DEF FreshToken, Fresh, Saves, Token, Late
  <2>5. access.user = q.user /\ access.client = q.client /\ access.scopes = q.scopes
    BY DEF Token
  <2> HIDE DEF access, new
  <2>6. \A e \in Editor : Collected(e)'
    BY <1>a, <2>2, <2>3, <2>4, CollectedReplaced
  <2>7. \A t \in tokens' : FreshToken(t) => t \in tokens \/ (t = access /\ Fresh(q))
    BY <2>2, <2>3, <2>4 DEF Replace
  <2>8. FreshTokensFit'
    BY <1>a, <2>1, <2>5, <2>7
       DEF FreshInv, FreshTokensFit, FreshToken, RequestsFit, Fits, siteVars
  <2>9. \A v \in Worker : Fresh(request'[v]) => request'[v] = request[v]
    BY <1>a, <2>1 DEF Put, Fresh, Idle, TypeOK
  <2> QED BY <1>a, <2>1, <2>6, <2>8, <2>9 DEF FreshInv, RequestsFit, Fits, siteVars
<1>9. ASSUME NEW w \in Worker, Abort(w) PROVE FreshInv'
  BY <1>9, <1>a, FreshPut, SameCollected DEF Abort, Fresh, Idle
<1>10. ASSUME NEW w \in Worker, NEW t \in Info, RedeemCode(w, t) PROVE FreshInv'
  <2>1. t.user \in User /\ t.client \in Client /\ t.scopes \in SUBSET Role
    BY DEF Info
  <2> QED BY <1>10, <1>a, <1>f, <2>1, FreshPut, SameCollected DEF RedeemCode, Serving
<1>11. ASSUME NEW w \in Worker, NEW t \in Info, NEW S \in SUBSET Role, Refresh(w, t, S)
       PROVE FreshInv'
  <2>1. \A e \in Editor : Collected(e)'
    BY <1>11, <1>a, CollectedReplaced DEF Refresh
  <2>2. tokens' \subseteq tokens
    BY <1>11 DEF Refresh, Replace
  <2> QED BY <1>11, <1>a, <2>1, <2>2, FreshPut DEF Refresh, Serving, Fresh
<1>12. ASSUME NEW t \in Info, Expire(t) PROVE FreshInv'
  <2>1. \A e \in Editor : Collected(e)'
    BY <1>12, <1>a, CollectedReplaced DEF Expire
  <2>2. tokens' \subseteq tokens
    BY <1>12 DEF Expire, Replace
  <2> QED BY <1>12, <1>a, <2>1, <2>2, FreshKept DEF Expire, siteVars
<1>13. ASSUME NEW e \in Editor, NEW u \in User, UpdateUser(e, u) PROVE FreshInv'
  <2>1. /\ edit' = [edit EXCEPT ![e] = [of |-> "user", id |-> u, tokens |-> OfUser(u)]]
        /\ UNCHANGED <<siteVars, tokens, request>>
    BY <1>13 DEF UpdateUser, Update
  <2>2. \A t \in tokens : t.kind = "access" /\ t.user = u => t \in OfUser(u)
    BY DEF OfUser
  <2>3. \A f \in Editor : Collected(f)'
    BY <1>a, <2>1, <2>2 DEF FreshInv, Collected, FreshToken, Saves, TypeOK
  <2> QED BY <1>a, <2>1, <2>3, FreshKept DEF siteVars
<1>14. ASSUME NEW e \in Editor, NEW c \in Client, UpdateClient(e, c) PROVE FreshInv'
  <2>1. /\ edit' = [edit EXCEPT ![e] = [of |-> "client", id |-> c, tokens |-> OfClient(c)]]
        /\ UNCHANGED <<siteVars, tokens, request>>
    BY <1>14 DEF UpdateClient, Update
  <2>2. \A t \in tokens : t.kind = "access" /\ t.client = c => t \in OfClient(c)
    BY DEF OfClient
  <2>3. \A f \in Editor : Collected(f)'
    BY <1>a, <2>1, <2>2 DEF FreshInv, Collected, FreshToken, Saves, TypeOK
  <2> QED BY <1>a, <2>1, <2>3, FreshKept DEF siteVars
<1>u. ASSUME NEW e \in Editor, CommitUpdate(e)
      PROVE  /\ users' = users
             /\ \A f \in Editor : Collected(f)'
             /\ \A w \in Worker : Fresh(request'[w]) =>
                  request'[w] = request[w] /\ ~Saves(edit[e], request[w])
             /\ \A t \in tokens' : FreshToken(t) => t \in tokens /\ ~Saves(edit[e], t)
  <2> DEFINE S == edit[e].tokens
  <2>1. tokens' = tokens \ S /\ edit' = [Without(S) EXCEPT ![e] = NoEdit] /\ users' = users
    BY <1>u DEF CommitUpdate
  <2>2. edit'[e] = NoEdit /\ \A f \in Editor : f # e => edit'[f] = Without(S)[f]
    BY <1>a, <2>1, KeptTyped
  <2> HIDE DEF S
  <2>3. \A f \in Editor : f # e => Collected(f)'
    BY <1>a, <2>1, <2>2, CollectedWithout
  <2>4. Collected(e)'
    BY <2>2 DEF Collected, Saves, NoEdit
  <2>5. \A t \in tokens' : FreshToken(t) => t \in tokens /\ ~Saves(edit[e], t)
    BY <1>a, <2>1 DEF FreshInv, Collected, S
  <2>6. \A w \in Worker : Fresh(request'[w]) =>
          request'[w] = request[w] /\ ~Saves(edit[e], request[w])
    BY <1>a, <1>u, Overtaken DEF Fresh
  <2> QED BY <2>1, <2>3, <2>4, <2>5, <2>6
<1>16. ASSUME NEW e \in Editor, NEW R \in SUBSET Role, CommitUser(e, R) PROVE FreshInv'
  <2>1. /\ CommitUpdate(e) /\ edit[e].of = "user" /\ clientRoles' = clientRoles
        /\ \A u \in User : u # edit[e].id => userRoles'[u] = userRoles[u]
    BY <1>16, <1>a DEF CommitUser, TypeOK
  <2>2. RequestsFit'
    <3> SUFFICES ASSUME NEW w \in Worker, Fresh(request'[w]), request'[w].user \in users'
                 PROVE  Fits(request[w].scopes, request[w].user, request[w].client)'
      BY DEF RequestsFit
    <3>1. /\ request'[w] = request[w] /\ users' = users /\ ~Saves(edit[e], request[w])
          /\ request[w].user \in User
      BY <1>a, <1>u, <2>1 DEF TypeOK
    <3>2. userRoles'[request[w].user] = userRoles[request[w].user]
      BY <2>1, <3>1 DEF Saves
    <3> QED BY <1>a, <2>1, <3>1, <3>2 DEF FreshInv, RequestsFit, Fits
  <2>3. FreshTokensFit'
    <3> SUFFICES ASSUME NEW t \in tokens', FreshToken(t), t.user \in users'
                 PROVE  Fits(t.scopes, t.user, t.client)'
      BY DEF FreshTokensFit, FreshToken, Fits
    <3>1. t \in tokens /\ users' = users /\ ~Saves(edit[e], t) /\ t.user \in User
      BY <1>a, <1>u, <2>1 DEF TypeOK
    <3>2. userRoles'[t.user] = userRoles[t.user]
      BY <2>1, <3>1 DEF Saves
    <3> QED BY <1>a, <2>1, <3>1, <3>2 DEF FreshInv, FreshTokensFit, FreshToken, Fits
  <2> QED BY <1>a, <1>u, <2>1, <2>2, <2>3 DEF FreshInv
<1>17. ASSUME NEW e \in Editor, NEW R \in SUBSET Role, CommitClient(e, R) PROVE FreshInv'
  <2>1. /\ CommitUpdate(e) /\ edit[e].of = "client" /\ userRoles' = userRoles
        /\ \A c \in Client : c # edit[e].id => clientRoles'[c] = clientRoles[c]
    BY <1>17, <1>a DEF CommitClient, TypeOK
  <2>2. RequestsFit'
    <3> SUFFICES ASSUME NEW w \in Worker, Fresh(request'[w]), request'[w].user \in users'
                 PROVE  Fits(request[w].scopes, request[w].user, request[w].client)'
      BY DEF RequestsFit
    <3>1. /\ request'[w] = request[w] /\ users' = users /\ ~Saves(edit[e], request[w])
          /\ request[w].client \in Client
      BY <1>a, <1>u, <2>1 DEF Fresh, Idle, Work, TypeOK
    <3>2. clientRoles'[request[w].client] = clientRoles[request[w].client]
      BY <2>1, <3>1 DEF Saves
    <3> QED BY <1>a, <2>1, <3>1, <3>2 DEF FreshInv, RequestsFit, Fits
  <2>3. FreshTokensFit'
    <3> SUFFICES ASSUME NEW t \in tokens', FreshToken(t), t.user \in users'
                 PROVE  Fits(t.scopes, t.user, t.client)'
      BY DEF FreshTokensFit, FreshToken, Fits
    <3>1. t \in tokens /\ users' = users /\ ~Saves(edit[e], t) /\ t.client \in Client
      BY <1>a, <1>u, <2>1 DEF Info, TypeOK
    <3>2. clientRoles'[t.client] = clientRoles[t.client]
      BY <2>1, <3>1 DEF Saves
    <3> QED BY <1>a, <2>1, <3>1, <3>2 DEF FreshInv, FreshTokensFit, FreshToken, Fits
  <2> QED BY <1>a, <1>u, <2>1, <2>2, <2>3 DEF FreshInv
<1>18. ASSUME NEW e \in Editor, RollBackUpdate(e) PROVE FreshInv'
  <2>1. edit' = [edit EXCEPT ![e] = NoEdit] /\ UNCHANGED <<siteVars, tokens, request>>
    BY <1>18 DEF RollBackUpdate
  <2>2. \A f \in Editor : Collected(f)'
    BY <1>a, <2>1 DEF FreshInv, Collected, Saves, NoEdit, TypeOK
  <2> QED BY <1>a, <2>1, <2>2, FreshKept DEF siteVars
<1>19. ASSUME NEW u \in User, DeleteUser(u) PROVE FreshInv'
  BY <1>19, <1>a, FreshKept, SameCollected DEF DeleteUser
<1>15. CASE UNCHANGED vars
  BY <1>15, <1>a, FreshKept, SameCollected DEF vars, siteVars
<1> QED BY <1>a, <1>1, <1>2, <1>3, <1>4, <1>5, <1>6, <1>7, <1>8, <1>9, <1>10, <1>11, <1>12, <1>13,
           <1>14, <1>15, <1>16, <1>17, <1>18, <1>19, Steps

LEMMA FreshInit == Init => FreshInv
BY TypeInit DEF Init, FreshInv, FreshTokensFit, RequestsFit, Collected, Fresh, Idle

\* However requests and the saves of users and consumers overlap, inside each other's
\* transactions, and whichever of them are rolled back: an access token whose scopes
\* were finalized, that was not stored during a save of its user or consumer and that
\* no save has overtaken, names every role the consumer has now and none that
\* neither the user nor the consumer has.  The argument: an editor has collected all
\* such tokens of the one it saves, and goes on having them.
THEOREM FreshTokensAreFitting == Spec => []FreshTokensFit
<1>1. FreshInv => FreshTokensFit
  BY DEF FreshInv
<1> QED BY <1>1, FreshInit, FreshStep, PTL DEF Spec

---------------------------------------------------------------------------
(* Granting once: unless requests were remembered at once or cut off, one      *)
(* request at most writes for a user and a client, it has read all that is     *)
(* remembered, and what was granted is remembered or about to be.              *)

Of(w, u, c) == request[w].user = u /\ request[w].client = c

Pending(w, u, c) == Remembering(w) /\ Of(w, u, c)
WriteOf(w, u, c) == request[w].step = "write" /\ Of(w, u, c)

PairOK(u, c) ==
  /\ \A v, w \in Worker : WriteOf(v, u, c) /\ WriteOf(w, u, c) => v = w
  /\ \A w \in Worker : WriteOf(w, u, c) => known[u][c].scopes \subseteq request[w].scopes
  /\ \A r \in consented[u][c] :
       r \in known[u][c].scopes \/ \E w \in Worker : Pending(w, u, c) /\ r \in request[w].scopes

GrantInv ==
  /\ TypeOK
  /\ \A u \in User, c \in Client : known[u][c].scopes # {} => known[u][c].set
  /\ \A u \in User, c \in Client : <<u, c>> \notin muddled => PairOK(u, c)

\* Steps of other requests.
LEMMA GrantKept ==
  ASSUME GrantInv, TypeOK', UNCHANGED <<known, consented>>, muddled \subseteq muddled',
         \A w \in Worker :
           \/ request'[w] = request[w]
           \/ ~Remembering(w) /\ ~Remembering(w)'
           \/ \E u \in User, c \in Client : <<u, c>> \in muddled' /\ Of(w, u, c) /\ ~Remembering(w)'
  PROVE  GrantInv'
<1>1. ASSUME NEW u \in User, NEW c \in Client, <<u, c>> \notin muddled'
      PROVE  PairOK(u, c)'
  <2>1. PairOK(u, c)
    BY <1>1 DEF GrantInv
  <2>2. \A w \in Worker : Pending(w, u, c) \/ Pending(w, u, c)' => request'[w] = request[w]
    BY <1>1 DEF Pending, Of
  <2>3. \A w \in Worker : WriteOf(w, u, c)' => WriteOf(w, u, c) /\ request'[w] = request[w]
    BY <2>2 DEF WriteOf, Pending, Remembering, Of
  <2>4. \A w \in Worker : Pending(w, u, c) => Pending(w, u, c)' /\ request'[w] = request[w]
    BY <2>2 DEF Pending, Remembering, Of
  <2> QED BY <2>1, <2>3, <2>4 DEF PairOK
<1> QED BY <1>1 DEF GrantInv

LEMMA GrantPut ==
  ASSUME GrantInv, TypeOK', UNCHANGED <<known, consented, muddled>>,
         NEW w \in Worker, NEW q, Put(w, q),
         ~Remembering(w), q.step \notin {"remember", "write"}
  PROVE  GrantInv'
<1>1. \A v \in Worker : \/ request'[v] = request[v]
                        \/ ~Remembering(v) /\ ~Remembering(v)'
  BY DEF Put, Remembering, GrantInv, TypeOK
<1> QED BY <1>1, GrantKept

LEMMA GrantStep == GrantInv /\ [Next]_vars => GrantInv'
<1> SUFFICES ASSUME GrantInv, [Next]_vars PROVE GrantInv'
  OBVIOUS
<1>a. GrantInv /\ TypeOK /\ TypeOK'
  BY TypeStep DEF GrantInv
<1>1. ASSUME NEW u \in User, NEW c \in Client, NEW S \in SUBSET Role, AuthorizeKnown(u, c, S)
      PROVE GrantInv'
  BY <1>1, <1>a, GrantKept DEF AuthorizeKnown
<1>2. ASSUME NEW w \in Worker, NEW u \in User, NEW c \in Client, NEW S \in SUBSET Role,
             AuthorizeForm(w, u, c, S)
      PROVE GrantInv'
  BY <1>2, <1>a, GrantPut DEF AuthorizeForm, Serving, Remembering, Idle
<1>3. ASSUME NEW w \in Worker, NEW u \in User, NEW c \in Client, NEW S \in SUBSET Role,
             Password(w, u, c, S)
      PROVE GrantInv'
  BY <1>3, <1>a, GrantPut DEF Password, Serving, Remembering, Idle
<1>4. ASSUME NEW w \in Worker, NEW c \in Client, NEW S \in SUBSET Role, ClientCredentials(w, c, S)
      PROVE GrantInv'
  BY <1>4, <1>a, GrantPut DEF ClientCredentials, Serving, Remembering, Idle
<1>5. ASSUME NEW w \in Worker, SubmitForm(w) PROVE GrantInv'
  <2> DEFINE q == request[w]
             p == [q EXCEPT !.step = "remember"]
  <2>1. q \in Work /\ q.user \in User /\ q.client \in Client /\ q.step = "form"
    BY <1>a, <1>5, Served DEF SubmitForm, Work
  <2>2. p.step = "remember" /\ p.user = q.user /\ p.client = q.client /\ p.scopes = q.scopes
    BY <2>1 DEF Work
  <2>3. /\ request' = [request EXCEPT ![w] = p]
        /\ consented' = [consented EXCEPT ![q.user][q.client] = @ \cup q.scopes]
        /\ UNCHANGED <<known, muddled>>
    BY <1>5 DEF SubmitForm, Put
  <2> HIDE DEF p
  <2>4. request'[w] = p /\ \A v \in Worker : v # w => request'[v] = request[v]
    BY <1>a, <2>3 DEF TypeOK
  <2>5. ASSUME NEW u \in User, NEW c \in Client, <<u, c>> \notin muddled'
        PROVE  PairOK(u, c)'
    <3>1. PairOK(u, c)
      BY <1>a, <2>3, <2>5 DEF GrantInv
    <3>2. \A v \in Worker : WriteOf(v, u, c)' => WriteOf(v, u, c) /\ request'[v] = request[v]
      BY <2>2, <2>4 DEF WriteOf, Of
    <3>3. \A v \in Worker : Pending(v, u, c) => Pending(v, u, c)' /\ request'[v] = request[v]
      BY <2>1, <2>4 DEF Pending, Remembering, Of
    <3>4. \A r \in consented'[u][c] : \/ r \in consented[u][c]
                                      \/ u = q.user /\ c = q.client /\ r \in q.scopes
      BY <1>a, <2>1, <2>3 DEF TypeOK
    <3>5. u = q.user /\ c = q.client => Pending(w, u, c)' /\ request'[w].scopes = q.scopes
      BY <2>2, <2>4 DEF Pending, Remembering, Of
    <3>6. ASSUME NEW r \in consented'[u][c]
          PROVE  \/ r \in known'[u][c].scopes
                 \/ \E v \in Worker : Pending(v, u, c)' /\ r \in request'[v].scopes
      <4>1. CASE r \in consented[u][c]
        BY <4>1, <2>3, <3>1, <3>3 DEF PairOK
      <4>2. CASE u = q.user /\ c = q.client /\ r \in q.scopes
        BY <4>2, <3>5
      <4> QED BY <3>4, <3>6, <4>1, <4>2
    <3> QED BY <2>3, <3>1, <3>2, <3>6 DEF PairOK
  <2> QED BY <1>a, <2>3, <2>5 DEF GrantInv
<1>6. ASSUME NEW w \in Worker, RememberRead(w) PROVE GrantInv'
  <2> DEFINE q == request[w]
             S == Merged(q.user, q.client, q.scopes)
             p == [q EXCEPT !.step = "write", !.scopes = S]
  <2>1. q \in Work /\ q.user \in User /\ q.client \in Client /\ q.step = "remember"
    BY <1>a, <1>6, Served DEF RememberRead, Work
  <2>2. q.scopes \subseteq S /\ known[q.user][q.client].scopes \subseteq S
    BY DEF Merged
  <2> HIDE DEF S
  <2>3. p.step = "write" /\ p.user = q.user /\ p.client = q.client /\ p.scopes = S
    BY <2>1 DEF Work
  <2>4. /\ request' = [request EXCEPT ![w] = p]
        /\ muddled \subseteq muddled'
        /\ Writing(w) => <<q.user, q.client>> \in muddled'
        /\ UNCHANGED <<known, consented>>
    BY <1>6 DEF RememberRead, Put, S
  <2> HIDE DEF p
  <2>5. request'[w] = p /\ \A v \in Worker : v # w => request'[v] = request[v]
    BY <1>a, <2>4 DEF TypeOK
  <2>6. ASSUME NEW u \in User, NEW c \in Client, <<u, c>> \notin muddled'
        PROVE  PairOK(u, c)'
    <3>1. PairOK(u, c)
      BY <1>a, <2>4, <2>6 DEF GrantInv
    <3>2. \A v \in Worker : WriteOf(v, u, c)' =>
            \/ v # w /\ WriteOf(v, u, c) /\ request'[v] = request[v]
            \/ v = w /\ u = q.user /\ c = q.client /\ ~Writing(w)
      BY <2>3, <2>4, <2>5, <2>6 DEF WriteOf, Of
    <3>3. \A v \in Worker : v # w /\ WriteOf(v, q.user, q.client) => Writing(w)
      BY DEF Writing, WriteOf, Of
    <3>4. \A v \in Worker : Pending(v, u, c) =>
            Pending(v, u, c)' /\ request[v].scopes \subseteq request'[v].scopes
      BY <2>2, <2>3, <2>5 DEF Pending, Remembering, Of
    <3>5. \A v, z \in Worker : WriteOf(v, u, c)' /\ WriteOf(z, u, c)' => v = z
      BY <3>1, <3>2, <3>3 DEF PairOK
    <3>6. \A v \in Worker : WriteOf(v, u, c)' => known'[u][c].scopes \subseteq request'[v].scopes
      BY <3>1, <3>2, <2>2, <2>3, <2>4, <2>5 DEF PairOK
    <3>7. \A r \in consented'[u][c] :
            \/ r \in known'[u][c].scopes
            \/ \E v \in Worker : Pending(v, u, c)' /\ r \in request'[v].scopes
      BY <2>4, <3>1, <3>4 DEF PairOK
    <3> QED BY <3>5, <3>6, <3>7 DEF PairOK
  <2> QED BY <1>a, <2>4, <2>6 DEF GrantInv
<1>7. ASSUME NEW w \in Worker, RememberWrite(w) PROVE GrantInv'
  <2> DEFINE q == request[w]
  <2>1. q \in Work /\ q.user \in User /\ q.client \in Client /\ q.step = "write"
    BY <1>a, <1>7, Served DEF RememberWrite, Work
  <2>2. /\ known' = [known EXCEPT ![q.user][q.client] = [set |-> TRUE, scopes |-> q.scopes]]
        /\ request' = [request EXCEPT ![w] = Idle]
        /\ UNCHANGED <<consented, muddled>>
    BY <1>7 DEF RememberWrite, Put
  <2>3. request'[w] = Idle /\ \A v \in Worker : v # w => request'[v] = request[v]
    BY <1>a, <2>2 DEF TypeOK
  <2>4. \A u \in User, c \in Client :
          IF u = q.user /\ c = q.client THEN known'[u][c] = [set |-> TRUE, scopes |-> q.scopes]
                                        ELSE known'[u][c] = known[u][c]
    BY <1>a, <2>1, <2>2 DEF TypeOK
  <2>5. ASSUME NEW u \in User, NEW c \in Client, <<u, c>> \notin muddled'
        PROVE  PairOK(u, c)'
    <3>1. PairOK(u, c)
      BY <1>a, <2>2, <2>5 DEF GrantInv
    <3>2. \A v \in Worker : WriteOf(v, u, c)' =>
            v # w /\ WriteOf(v, u, c) /\ request'[v] = request[v]
      BY <2>3 DEF WriteOf, Of, Idle
    <3>3. \A v \in Worker : Pending(v, u, c) => v = w \/ (Pending(v, u, c)' /\ request'[v] = request[v])
      BY <2>3 DEF Pending, Remembering, Of
    <3>4. CASE ~(u = q.user /\ c = q.client)
      <4>1. ~Pending(w, u, c) /\ known'[u][c] = known[u][c] /\ consented'[u][c] = consented[u][c]
        BY <3>4, <2>2, <2>4 DEF Pending, Of
      <4> QED BY <3>1, <3>2, <3>3, <4>1 DEF PairOK
    <3>5. CASE u = q.user /\ c = q.client
      <4>1. WriteOf(w, u, c) /\ known'[u][c].scopes = q.scopes /\ consented'[u][c] = consented[u][c]
        BY <3>5, <2>1, <2>2, <2>4 DEF WriteOf, Of
      <4>2. \A v \in Worker : ~WriteOf(v, u, c)'
        BY <3>1, <3>2, <4>1 DEF PairOK
      <4>3. known[u][c].scopes \subseteq q.scopes
        BY <3>1, <4>1 DEF PairOK
      <4>4. \A r \in consented'[u][c] :
              \/ r \in known'[u][c].scopes
              \/ \E v \in Worker : Pending(v, u, c)' /\ r \in request'[v].scopes
        BY <3>1, <3>3, <4>1, <4>3 DEF PairOK
      <4> QED BY <4>2, <4>4 DEF PairOK
    <3> QED BY <3>4, <3>5
  <2>6. \A u \in User, c \in Client : known'[u][c].scopes # {} => known'[u][c].set
    BY <1>a, <2>4 DEF GrantInv
  <2> QED BY <1>a, <2>5, <2>6 DEF GrantInv
<1>8. ASSUME NEW w \in Worker, Persist(w) PROVE GrantInv'
  BY <1>8, <1>a, GrantPut DEF Persist, Remembering, Idle
<1>9. ASSUME NEW w \in Worker, Abort(w) PROVE GrantInv'
  <2>1. request[w] \in Work
    BY <1>9, <1>a DEF Abort, TypeOK
  <2>2. request'[w] = Idle /\ \A v \in Worker : v # w => request'[v] = request[v]
    BY <1>9, <1>a DEF Abort, Put, TypeOK
  <2>3. ~Remembering(w)'
    BY <2>2 DEF Remembering, Idle
  <2>4. Remembering(w) => \E u \in User, c \in Client : <<u, c>> \in muddled' /\ Of(w, u, c)
    BY <1>9, <2>1 DEF Abort, Remembering, Of, Work
  <2>5. muddled \subseteq muddled' /\ UNCHANGED <<known, consented>>
    BY <1>9 DEF Abort
  <2>6. \A v \in Worker :
          \/ request'[v] = request[v]
          \/ ~Remembering(v) /\ ~Remembering(v)'
          \/ \E u \in User, c \in Client : <<u, c>> \in muddled' /\ Of(v, u, c) /\ ~Remembering(v)'
    BY <2>2, <2>3, <2>4
  <2> QED BY <1>a, <2>5, <2>6, GrantKept
<1>10. ASSUME NEW w \in Worker, NEW t \in Info, RedeemCode(w, t) PROVE GrantInv'
  BY <1>10, <1>a, GrantPut DEF RedeemCode, Serving, Remembering, Idle
<1>11. ASSUME NEW w \in Worker, NEW t \in Info, NEW S \in SUBSET Role, Refresh(w, t, S)
       PROVE GrantInv'
  BY <1>11, <1>a, GrantPut DEF Refresh, Serving, Remembering, Idle
<1>12. ASSUME NEW t \in Info, Expire(t) PROVE GrantInv'
  BY <1>12, <1>a, GrantKept DEF Expire
<1>13. ASSUME NEW e \in Editor, NEW u \in User, UpdateUser(e, u) PROVE GrantInv'
  BY <1>13, <1>a, GrantKept DEF UpdateUser, Update
<1>14. ASSUME NEW e \in Editor, NEW c \in Client, UpdateClient(e, c) PROVE GrantInv'
  BY <1>14, <1>a, GrantKept DEF UpdateClient, Update
<1>u. ASSUME NEW e \in Editor, CommitUpdate(e) PROVE GrantInv'
  <2>1. \A w \in Worker : request'[w] = request[w] \/ (~Remembering(w) /\ ~Remembering(w)')
    BY <1>u, <1>a, Overtaken
  <2> QED BY <1>u, <1>a, <2>1, GrantKept DEF CommitUpdate
<1>16. ASSUME NEW e \in Editor, NEW R \in SUBSET Role, CommitUser(e, R) PROVE GrantInv'
  BY <1>16, <1>u DEF CommitUser
<1>17. ASSUME NEW e \in Editor, NEW R \in SUBSET Role, CommitClient(e, R) PROVE GrantInv'
  BY <1>17, <1>u DEF CommitClient
<1>18. ASSUME NEW e \in Editor, RollBackUpdate(e) PROVE GrantInv'
  BY <1>18, <1>a, GrantKept DEF RollBackUpdate
<1>19. ASSUME NEW u \in User, DeleteUser(u) PROVE GrantInv'
  BY <1>19, <1>a, GrantKept DEF DeleteUser
<1>15. CASE UNCHANGED vars
  BY <1>15, <1>a, GrantKept DEF vars
<1> QED BY <1>a, <1>1, <1>2, <1>3, <1>4, <1>5, <1>6, <1>7, <1>8, <1>9, <1>10, <1>11, <1>12, <1>13,
           <1>14, <1>15, <1>16, <1>17, <1>18, <1>19, Steps

LEMMA GrantInit == Init => GrantInv
<1> SUFFICES ASSUME Init PROVE GrantInv
  OBVIOUS
<1>1. \A u \in User, c \in Client : known[u][c].scopes = {} /\ consented[u][c] = {}
  BY DEF Init
<1>2. \A w \in Worker : request[w].step = "idle"
  BY DEF Init, Idle
<1> QED BY <1>1, <1>2, TypeInit DEF GrantInv, PairOK, WriteOf

\* The read, merge and write of rememberClient() lose nothing that a user has
\* granted, whatever else goes on, unless two of them overlap or one is cut off.
THEOREM ConsentIsRemembered == Spec => []GrantedOnce
<1>1. ASSUME GrantInv PROVE GrantedOnce
  <2> SUFFICES ASSUME NEW u \in User, NEW c \in Client,
                      consented[u][c] # {}, <<u, c>> \notin muddled,
                      \A w \in Worker : request[w].step \in {"remember", "write"} =>
                        request[w].user # u \/ request[w].client # c
               PROVE  IsAuthorized(u, c, consented[u][c])
    BY DEF GrantedOnce
  <2>1. PairOK(u, c) /\ \A w \in Worker : ~Pending(w, u, c)
    BY <1>1 DEF GrantInv, Pending, Remembering, Of
  <2>2. consented[u][c] \subseteq known[u][c].scopes
    BY <2>1 DEF PairOK
  <2> QED BY <1>1, <2>2 DEF GrantInv, IsAuthorized
<1> QED BY <1>1, GrantInit, GrantStep, PTL DEF Spec
===========================================================================
