# Formal model of the d10-composer site

The repository is a Composer project for a decoupled Drupal site. Its own
directory `web/modules/custom` is empty; the program logic it ships is the set of
modules under `web/modules/contrib`: `simple_oauth`, `consumers`, `subrequests`,
`graphql`, `graphql_compose`, `pathauto`, `next`, `decoupled_router`, `ctools`,
`token` and `typed_data`. Drupal core, Symfony and the PHP libraries that Composer
would install (among them `league/oauth2-server` 8.5.2) are not in the repository
and are modelled only as far as this code uses them; such definitions are marked
external in `PROJECT.json`.

Every PHP request is a process of its own. Processes share the database and
nothing else, and the code takes no locks: what two requests do to the same rows
interleaves between any two calls to the storage, and a process can die after any
of them. That is where most of what is hard about this system lies. The rest lies in
page scripts: these run one at a time in a browser, but keep a state of their own over
long sequences of calls (the tree of tokens), or race with messages and the loading of
pages (the site preview).

Paths below are relative to `src/web/modules/contrib/`.

## 1. Inventory

| component | state | operations | hard behaviour | what makes it correct |
|---|---|---|---|---|
| `simple_oauth`: token table | the rows of `oauth2_token`: bundle, value, user, client, expiry, status | grants (password, client credentials, authorization code, refresh), authorize, bearer check, cron, sweeps on the update of an account or consumer | check, revoke and issue are separate calls; requests overlap; responses get lost; cron and sweeps delete rows in use | what was redeemed is spent; a spent token never comes back; an update sweeps what it must and nothing else |
| `simple_oauth`: scopes, known clients | roles of users, consumers and tokens; scopes a user granted to a client (user data) | scope finalization, refresh; the form and when it is skipped; read, merge and write of the record | roles change while tokens are issued and used; lost update of the record | no role that neither user nor consumer has; no code without consent; no grant forgotten |
| `simple_oauth`: keys, page cache, OpenID Connect | two key files | generation of a key pair | a failure between two files | keys match |
| `consumers` | consumers and their `is_default` flag; the negotiated consumer, cached in the process | consumer form, make-default form, delete form; negotiation | a save resets other entities; access checks on them; overlapping takeovers | one default, never taken without the right to, never lost by a save |
| `subrequests` | a blueprint, the levels of its execution sequence, the responses so far | ordering, token replacement, execution of a level | dependencies, cycles, unresolvable ids; copies for every combination of values; responses that hold nothing, or something else | dependencies before dependents; exactly the stuck blueprints abort; every combination once |
| `graphql_compose`: connections | the arguments, the query, the deferred load, the page | `setPagination()`, `execute()`, `pageInfo()`, `edges()` | four expressions of the arguments that must agree; entities that come and go between pages and before the load | Relay's edges; flags that tell what follows; walks complete, forward, ending when changes do |
| `graphql` | buffers that join the loads of deferred resolvers; result cache | add, resolve; execute | one resolver drains the buffer that others filled | every item is resolved, with its own entity |
| `pathauto` | aliases, the state that says whether an alias is automatic | generate, uniquify, save, bulk update | check and save are apart; update actions; caches of the process | one source per alias; manual aliases stay |
| `next`: site preview | the location of the window, the route of the iframe, messages between them | message handler; loading of pages | messages lost or late; reload loops | the window shows the page of the last route; it settles, unless pages send each other round |
| `next`, `next_extras`: events | events collected for the shutdown of a request | dispatch, revalidation of the front end | process death before the shutdown; failed calls that are not repeated | the front end learns of every change |
| `decoupled_router` | redirects, read only | translation of a path | chains and loops of redirects edited meanwhile | an answer, and the right one |
| `ctools` | cached values of a wizard, in a shared temporary store | step forward, back, finish | two editors of one wizard | no step lost silently |
| `token`: the tree of tokens | `jquery.treetable.js`: nodes, children, rows of the page, their classes and visibility | load, move, remove, unload, sort, expand, collapse, reveal, clicks, init, destroy | long sequences of calls on state that is kept twice, in objects and in rows | a forest; rows below their ancestors, subtrees together; shown exactly if open |
| `token`: insertion, replacement; `typed_data` | the last focused field | insertion at a cursor; placeholder replacement, navigation of data | recursion over the site's data | pure functions |

How they interact: `simple_oauth` and `consumers` share the consumer entity
(clients of tokens are consumers; an update of a consumer sweeps its tokens, a
deletion does not). `subrequests` runs the others' routes as sub requests of one
process. `graphql_compose` builds on the buffers of `graphql`. `pathauto` uses
`token`; `next` and `decoupled_router` read the aliases and entities that the
others write.

`PROJECT.json` lists the components with their sources and status, and the
hazards of the code, each at its line, with the properties that cover it.

## 2. Plan

Modelled, in this order: the token table; the default consumer; blueprints;
connections; the tree of tokens; the site preview; scopes and consent. Each is a
module with its state machine and properties, a module of proofs (two for the tree of
tokens), and configurations for TLC. The modules do not share variables: `TokenScopes` and `OAuthTokens` look at
the same table for two questions, the one at what rows hold, the other at which
rows there are, and a product of both is too large to check.

What remains worth doing:

1. `TokenScopes` with the deletion of roles and the implicit grant.
2. Parts left out of the present modules (section 7): repeated request ids, the delete
   form of a token, aggregated sort fields.

## 3. Modules

### OAuthTokens, TokenLifecycle

The table `oauth2_token` and all its readers and writers. A token is a number in
the order of creation; `row[t]` is the row (absent, live, revoked), `token[t]` what
was sealed into the token. `Request` is a set of workers; `request[r].step` is the
next call that worker `r` makes. Each call to a repository is one action:

| code | action |
|---|---|
| `RevocableTokenRepositoryTrait::persistNew()` | `PersistNew`, in `IssueAccessToken`, `IssueRefreshToken`, `IssueAuthCode` |
| `::revoke()` | `RevokeLoad`, then `RevokeSave`: rows may vanish between the two |
| `::isRevoked()` | `IsRevoked`, in `Redeemable` and `BeginResource` |
| `Oauth2Token::token()` per grant | `BeginPassword`, `BeginClientCredentials`, `BeginRefresh`, `BeginAuthCode` and the steps of `After` |
| `Oauth2AuthorizeController::authorize()` | `BeginAuthorize` |
| `SimpleOauthAuthenticationProvider::authenticate()` | `BeginResource` (check), `Authenticate` (second load), `RevokeBlocked` |
| `simple_oauth_cron()`, `ExpiredCollector::collect()` | `CronCollect`, `CronDelete`, `CronAbort` |
| `simple_oauth_entity_update()` | `UpdateAccount` or `UpdateConsumer` (the reads), `CommitUpdate` or `RollBackUpdate` |
| death of a process, lost response | `Abort` |

The order of the calls in a grant (`After`) is league's. A request that a check
rejects changes nothing and is no step. `hook_entity_update` runs inside the
transaction of the save, so its deletions and the changed fields become visible
together, in `CommitUpdate`. `TokenLifecycle` is the abstract specification:
tokens become good once and, once spent, are never good again; the property
`TokensFollowLifecycle` is the refinement.

### ConsumerDefault

`exists` and `default` are the stored consumers and those with the flag; `edit[e]`
is what editor `e` has loaded, and after `preSave()` what its transaction will
write. `Load` loads, `ConsumerForm` and `MakeDefaultForm` run `Consumer::preSave()`
(`Saving`: the query for other defaults, the access check, dropping the flag when
refused), `Commit` writes. `Create` and `Delete` are the other operations. `disturbed`
remembers that two editors were at work at once or that a consumer was created as
the default: the two cases in which the code does not keep one default.

### Subrequests

`Stack` and `Abort` are the loop of `buildExecutionSequence()`, `Run` its end;
`Process` is `replaceBatch()` and the handling of one level, `Reject` a token that
the replacer refuses. A token is known by the id it refers to, a response by the
number of values a path finds in it (or that it finds something that is not a
scalar). `Subjects` models the regular expression that selects responses, through
`Contains`, since it is not anchored. `Copies` are the copies of a subrequest, named
by the chosen values of its URI and of its body.

### EntityConnection

`request` holds the arguments, `fetched` the rows of the query, `page` the answer.
`Refuse` and `Execute` are `setPagination()` and `execute()`, `Load` the deferred
promise with `pageInfo()` and the edges. `Continue` is a client that follows the
cursors; `Insert`, `Update` and `Delete` are other requests. They may happen before
every query, and between a query and its load as well; `gap` remembers which kinds did.
`RelayEdges` is the reference definition of a page, written from the Relay rules in the
order of the connection, while the code computes with reversed queries. The flags are
compared in `FlagsTellTheRest` with what `graphql_compose.graphqls` (lines 190 to 197)
says of them: whether the connection has pages after and before this one. Ordered
results are sets with an order: rows are cursors, and no two have the same id.

### TreeTable

`jquery.treetable.js`, which `token.js` attaches to the tables of tokens. The state
that the plugin keeps in objects: `tree` (the keys of `Tree.tree`), `nodes` (the array),
`parent` and `children` of every node; arrays of children are sets with an order
(`order`). The state that it keeps in the page: `above` (the order of the rows) and
`view` (the class, indentation, visibility and expander of each row, and which nodes
are initialized). Every method of the plugin is an action, `Toggle` is a click on an
expander, `Destroy` and `Reinit` take the plugin away and attach it again, with the
rows as the page has them. The constructor of a node puts another indenter into its cell,
and nothing takes the old ones out: `worn` is how wide those are, `view.indent` the width
of the node's own, and `Indentation` what the row shows. Methods call each other down a
tree; the model gives the result of the recursion as a closure (`Ancestors`,
`Descendants`, `visited` in `Show`), which is unique as the tree is finite.

Two histories mark states in which a property need not hold. `strayed`: a row was
put where its visibility is wrong (`loadBranch()` shows rows under a node that is
hidden, `move()` keeps the visibility of the moved rows). `mixed`: a branch was
loaded below a node whose last descendant in the arrays was not the last on the page
(after a move, which puts rows first and children last). Without these conditions
`ShownIffOpen`, `SubtreesTogether` and `ExpandAllShowsAll` are violated, as TLC shows;
no comment of the plugin promises them, so they are stated as conditions.

### SitePreview

`next.site_preview.iframe.js` and the page around it. `pathname`, `route` and `messages`
are the window, its iframe and the queue of messages between them; `Attach` adds
the listener, `Receive` is the handler, `Load` replaces the page, its iframe and its
listener, and drops its messages. `Browse` and `Visit` are the user. Where a path leads
(`Lands`) and what a page embeds (`Embeds`) are constants; all that is assumed of them is
that pathnames lead to themselves. A page may embed a route that leads to another page,
or to itself by another path: `Looping` are the pages that send the window round in this
way. `Skip` are the configured routes in lower case, as `Iframe::render()` passes them on.

### TokenScopes

Roles of users and consumers, the tokens with the scopes they carry, the record of
known clients, and workers that serve a request step by step. `AuthorizeKnown` is
`authorize()` when the form is skipped; `AuthorizeForm`, `SubmitForm`, `RememberRead` and
`RememberWrite` are the form and `redirectToCallback()` after it; `RedeemCode`, `Password`
and `ClientCredentials` settle the scopes with `FinalizeScopes`, `Refresh` takes them
over, `Persist` stores the tokens. A save of a user or consumer is a transaction of an
editor: `UpdateUser` and `UpdateClient` are `hook_entity_update()`, which collects the
tokens there are, and `CommitUser` and `CommitClient` delete them and change the roles for
everybody else; `RollBackUpdate` does neither. `FinalizeScopes` gives no scopes to a user
that `DeleteUser` has removed. `late` marks access tokens that were stored while their user
or consumer was being saved, or settled before a save was committed and stored after it;
`muddled` the users and clients for which two calls of `rememberClient()` overlapped or one
was cut off.

## 4. Runs

All runs are made with `tlc -config <run>.cfg <module>`; state counts are distinct
states.

| run | question | states |
|---|---|---|
| `OAuthTokens_redemption` | `RedeemedIsSpent`, `ForksBounded`: codes and refresh tokens under concurrent presentation, lost responses and deaths | 1 782 000 |
| `OAuthTokens_updates` | `SweptAreGone`, `RefreshOutlivesUpdates`, `TokensFollowLifecycle`: updates, rollbacks, deletions, blocked accounts, bearer requests and cron | 1 158 519 |
| `ConsumerDefault_editors` | `SingleWhenAlone`, `ProtectedDefault`, `DefaultKept` with two editors, one without the right to one consumer | 30 039 |
| `ConsumerDefault_created` | finding: `SingleDefault` when consumers are created as default | violation |
| `Subrequests_blueprints` | `AbortsIfStuck`, `CopiesAreComplete`, `DependenciesFirst`, `Terminates` | 33 652 |
| `Subrequests_prefix` | finding: `TokensReadTheirRequest` | violation |
| `Subrequests_unanswered` | finding: `ResponsesFirst` | violation |
| `EntityConnection_pages` | `PageIsRelay`, `FlagsTellTheRest`, `WalkIsComplete`, `WalkAdvances`, `Terminates` | 1 732 792 |
| `TreeTable_calls` | `TreeIsForest`, `ChildrenAgree`, `RowsBelow`, `SubtreesTogether`, `ShownIffOpen`, `Rendered`, `ExpandAllShowsAll`, `RevealShows` | 117 511 |
| `SitePreview_routes` | `LastRouteIsShown`, `Settles` | 165 549 |
| `TokenScopes_consent` | `ConsentFirst`, `GrantedOnce`, `FreshTokensFit` | 3 000 361 |
| `TokenScopes_refreshed` | finding: `TokensFit` | violation |

Each module's `TypeOK` is checked in its first run. Deadlock is not checked where
the system really stops: when the bounds on tokens and time are used up, and when a
blueprint or a walk is finished, or when the user of a preview stops. An editor can always load or create a consumer,
or is at work, so `ConsumerDefault` runs with the check.

Bounds, and why the interesting cases happen within them:

- `OAuthTokens_redemption`: seven tokens are a code and three redemptions of it or
  of its successors (two tokens each), one more than two workers may deliver; so a
  third successor, which `ForksBounded` forbids, is within reach. Workers are
  interchangeable (symmetry). Time stands still: expiry only disables checks here.
- `OAuthTokens_updates`: two tokens are one that the collector reads and one issued
  after that, or an access token and its refresh token. The consumer acts as the
  second user, so that both paths of `collectForAccount()` and the substitution in
  `TokenAuthUser` occur. With one worker and one editor all three kinds of
  processes (request, save, cron) overlap; overlaps of more are covered by proofs.
  Cron deletes one row at a time, whichever the query finds.
- `ConsumerDefault`: four consumers leave room for the old default that the
  restricted editor may not reset, one that each of two editors makes the default,
  and one that is created or deleted meanwhile.
- `Subrequests`: three subrequests make chains, forks, joins, cycles, and a
  dependency on an id no blueprint has; two values per response tell apart every
  combination from some of them. A wait list of three ids is left out.
- `EntityConnection`: three entities and two sort values give ties in the sort
  field and a page size smaller than, equal to and larger than the rest; sizes 0
  and 3 lie on both sides of the accepted ones (`MAX_LIMIT` 2).

- `TreeTable`: nodes 1 to 5, of which 1, 2 and 3 are a chain (levels and subtrees of
  two steps), 4 a second root to move from and to, and 5 a row that is marked as a
  branch and has no child; batches of one row and of two, one below the other. Two
  calls that change the forest let each kind act on the result of each other; calls
  that only change what is shown are not bounded. A table is initialized again as long
  as no old indenter in it is wider than `MaxWorn` (0), so once with indented rows, and
  any number of times before. States after a row has strayed are
  not followed further (`NotStrayed`): the forest does not depend on the view.
- `SitePreview`: seven paths are an entity whose page embeds its own route, a revision
  whose page embeds the route of its entity, an entity whose page embeds its path with a
  query, and so sends itself round, a path to skip with and without capitals, and a page
  without an iframe; four links or messages are enough for two routes
  to follow one another on each of two pages.
- `TokenScopes`: one user and one consumer, since both histories and properties speak
  of one pair at a time (the proofs are for any number); two roles, of which one may
  be lost; two workers and one editor, so that a save overlaps with two requests; two
  tokens are an access and a refresh token, or a code and what is stored meanwhile.

A property that fails under a wider configuration is stated with its condition:
`SingleWhenAlone` and `DefaultKept` hold with one editor at a time and without
consumers created as default. Two overlapping takeovers each reset the default they
read and not each other, and both keep the flag; a takeover of a consumer that is
deleted before the commit leaves no default. `PageIsRelay`, `FlagsTellTheRest` and
`WalkIsComplete` speak of pages and walks in which nothing happened between a query and
its load, `WalkAdvances` of walks in which nothing was updated there; `Terminates` of
walks during which creations and changes come to an end; `Settles` leaves out the pages
that send the window round; `FreshTokensFit` the tokens that are `late`.

## 5. Fairness

- `Subrequests`: weak fairness of `Next`: one PHP process runs a blueprint and does
  nothing else.
- `EntityConnection`: weak fairness of `Refuse \/ Execute`, `Load` and `Continue`: a
  process answers, and the client asks on. Other requests may go on or stop.
- `SitePreview`: weak fairness of `Attach`, `Receive` and `Load`: scripts run, messages
  arrive, pages load. The user may stop at any time.

The other modules assume no fairness: nothing in them is claimed to happen in the end.

## 6. Theorems

`tlapm` proves the modules `*_proofs`, for every value of the constants that
satisfies `ConfigAssumption` (and `NoneAssumption`, that the marks for a missing
value and a deleted entity are no data). The bounds on time and on the number of
tokens are arbitrary numbers in the proofs.

- `OAuthTokens_proofs`. `TypeCorrect`. `RedeemedTokensAreSpent`: `RedeemedIsSpent`
  alone is not inductive, since it says nothing of a request that is half way; the
  invariant `RedeemInv` adds `WorkOK` (what each step of a worker may rely on: past
  the revocations of a refresh the old tokens are not live) and `LinksOK` (links
  lead to older tokens of the right kind). `TableImplementsLifecycle` rests on
  `TableStep`, which every action satisfies: tokens are added, those present keep
  what is sealed into them, and rows go only from live to revoked to absent.
  `UpdatesSweep` and `UpdatesKeepRefreshTokens` use `SweepInv`, whose part `EditOK`
  says of a save in progress that it has collected every row it must delete that
  existed when it read and is still there, and no refresh token; `TableStep` keeps
  that true whatever others do. `ForksAreBounded`, for any finite set of workers, by
  `ForkInv`: the refresh tokens that were delivered for a token and the workers that are
  redeeming it are together at most as many as the workers. A worker that delivers is
  done with the token; and none begins once there is a first successor, since
  `RedeemInv` says that the token was spent before.
- `ConsumerDefault_proofs`. `TypeCorrect`; `DefaultsAreProtected`, by `PermittedInv`
  (what an editor edits and resets is its to update, since it was checked when it
  was read); `OneEditorOneDefault`, by `SoloInv` (a save that will set the flag
  resets every other default, as long as nothing was `disturbed`); `SavesKeepADefault`,
  by `KeptInv`, which adds to it that what an undisturbed save clears, it replaces.
- `Subrequests_proofs`. `TypeCorrect`; `DependenciesComeFirst`, by `LevelInv` (what is
  stacked lies above everything it waits for, and what was answered below the
  current level) and `CopyInv`: a level that has run has answered every copy of its
  subrequests, and there is one unless a token finds no value; `OnlyStuckBlueprintsAbort`, by `StuckInv` (no set of mutually
  waiting subrequests is ever touched; when nothing is ready, those left are such a
  set); `AnswersAreComplete`, by `CopyInv` (what was answered for a subrequest of an earlier
  level is exactly the copies that its tokens name now: all they refer to was answered
  before, and later levels add nothing to it). Both assume
  that no id occurs in another, as `Subrequests_blueprints` does and as the finding of
  `Subrequests_prefix` shows to be necessary. `BlueprintsRunOut`: every step uses up one
  of the steps `Left` (two per subrequest to stack, one per level to run, one to
  start), if blueprints are finite. That a step is always possible until the blueprint
  is decided, and so that every blueprint is, is liveness and left to TLC.
- `EntityConnection_proofs`. `TypeCorrect`; `WalksAdvance`, by `WalkInv` (what was seen
  lies behind the cursor of the walk, what was fetched ahead of it, and the cursor
  that a page offers is its last edge); `WalksAreComplete`, by `CompleteInv` (if
  nothing happened between a query and its load, every entity of the walk has been
  seen, is on the page, or lies ahead of the cursor that the page offers);
  `PagesAreRelay` and `FlagsAreTold`, by `RelayInv` (what was fetched is the first `Limit + 1` matching rows
  of the order that the query asks for): the reversed query, the row more than asked
  for and the reversal of the result together give the slice that Relay defines in the
  order of the connection, and one row more than the limit is there exactly if the
  connection goes on. `WalksAdvance` allows creations and deletions between a query and
  its load, but no change of a sort value: the cursor of a loaded edge would then not be
  that of the fetched row, and walks do go back.
- `TreeTable_proofs`. `ForestIsKept`: the parents form a forest, that is, every set of
  nodes has one whose parent is outside of it, which every call keeps (a node moves
  only below one that is not its descendant);
  `ChildrenAreThoseOfParents`: `children` is the inverse of `parent`, which needs the
  forest and the order of the rows at a re-initialization; `RowsStayBelow`, which in
  turn needs both, so that the three are proved from one invariant, `ForestInv`.
  `RowsInv` adds the orders: rows and children are totally ordered and `Tree.nodes` lists
  the nodes. `BranchesStayTogether`, by `TogetherInv`: when a branch is put below a row,
  in the order of a walk over it, no branch is torn apart (`InsertTogether`,
  `WalkTogether`), and `findLastNode()` finds the last row of its branch as long as
  `mixed` does not hold (`LastNodeIsLast`). It assumes `RowsTogether`: the tables and the
  batches that scripts load have no row between one and those below it. The tables of
  tokens are printed by a walk over the tree of tokens, so that theirs are; the plugin
  does not rearrange rows that come otherwise.
- `TreeView_proofs`, about what the page shows, on top of `RowsInv`. A view belongs to a
  forest, so the lemmas about `Render`, `Show`, `Expand`, `Collapse`, `Initialize` and
  `Branches` speak of any forest (`Ground`) and any view (`Views`); the loops over arrays
  are recursive functions whose values all stay in a set that each step keeps
  (`LoopRuns`, `ExpandedRun`). `TypeCorrect` and `RowsAreRendered`, by `ViewInv`: what is
  initialized is drawn for its depth and its children (`Drawn`), by the indenter that was
  put into its cell last. `ShownAreOpen`, by
  `OpenInv`: as long as nothing strayed, what is shown was initialized, and a row is shown
  exactly if it is a root or its parent is shown and expanded (`Opened`). The property
  alone is not inductive: without the first part, `show()` of a node could find it
  uninitialized with a class of its own and hide its branch. Its main lemma is
  `ShowOpened`: `show()` of siblings makes every row below them shown as its parent says,
  if their own parent is open and nothing is shown below a closed node (`Showable`).
  `RevealedIsShown` and `AllExpandedAreShown` follow from `OpenInv`: a node is shown by
  the time it is expanded if all its ancestors were expanded before (`ExpandedStay`).
- `SitePreview_proofs`. `TypeCorrect`; `WindowFollowsRoutes`, by an invariant that says, as
  long as nothing was hasty, where the last route is: in the queue of a page that
  listens, being loaded, or shown. Nothing is assumed of where routes lead.
- `TokenScopes_proofs`. `TypeCorrect`; `NoCodeWithoutConsent`, by `ConsentInv` (what is
  remembered, and what requests are about to remember, was granted on a form);
  `FreshTokensAreFitting`, by `FreshInv`: settled scopes fit until a commit, which marks the
  requests that hold them (`Overtaken`); and an editor has collected every token of the one
  it saves that is not marked (`Collected`), which stays so as tokens that are stored
  meanwhile are marked;
  `ConsentIsRemembered`, by `GrantInv` (for a pair that is not muddled at most one
  request writes, it has read all that is remembered, and what was granted is
  remembered or about to be).

Every invariant and action property that the passing runs check is stated by a
theorem. Only model-checked is what is temporal under fairness, which the provers
cannot treat: `Settles` and the two `Terminates`.

## 7. Findings, and what is not modelled

The four violations are listed in `PROJECT.json` under "findings", each with the line
of the code and the sentence it contradicts: a consumer created as default does not
clear the others; a token of a blueprint reads the response of another subrequest
whose id contains its own; a subrequest is processed although one that it waits for got no
response; a refresh token brings back a role that its user has lost.

Observed without a run of its own:

- `simple_oauth`: `authenticate()` loads the row of a token a second time and goes on
  with `FALSE` when it was deleted in between (step `noToken` of `OAuthTokens`); a
  consumer can be deleted while its tokens stay valid, and `TokenAuthUser.php:52` then
  finds none (step `noConsumer`). `KnownClientsRepository`: two overlapping calls lose
  the scopes of one (`muddled`). The batches of cron are limited and unordered: while
  tokens go on expiring, one row can be passed over in every run. A token that was settled
  with the old roles of its user or consumer, and stored after `hook_entity_update()` has
  collected, is not deleted and keeps these roles (`late`).
- `consumers`: two overlapping takeovers each reset the default they read and not each
  other, and both keep the flag.
- `graphql_compose`: a deletion between the query and the load of a page makes
  `hasNextPage` (`EntityConnection.php:114`) false although more rows follow. The flag
  against the direction of the request (lines 114 and 118) is true whenever there is a
  cursor, also if its row is gone and nothing else is on that side; an empty page answers
  both flags with false (lines 95 to 101). An update in the same gap makes a walk go back or
  skip entities, since the next cursor has the new sort value, and a walk during which
  entities are created beyond the cursor for ever does not end.
- `token`: `removeChild()` (`jquery.treetable.js:131`) would remove the last child for a
  node that is not found; `ChildrenAgree` shows that this does not happen. Every
  further `init()` puts another indenter before those in the cells (line 33), so that rows
  are indented by the widths of all of them; clicks on old expanders
  after `destroy()` throw (the TODO of line 71); `removeNode()` does not correct the class
  of the parent; `Tree.roots` keeps removed nodes. `loadBranch()` under a hidden node shows
  its rows, and `move()` keeps the visibility of what it moves (`strayed`).
- `next`: `Iframe.php:142-145` never stores the routes to skip that its form asks for
  (121-132), and line 245 lower-cases the routes, while the script compares paths as they
  are: a route that was configured with capitals is not skipped (the model has this case).
  A page whose iframe posts another path than its own is reloaded for ever (`Looping`). A
  user who goes from A to B and back to A while B is loading ends at B (`hasty`).

Left out of the modules:

- `OAuthTokens`: the delete form of a single token, the implicit grant, the client's
  secret and PKCE (checks that only reject), changes of a consumer's default user,
  failures of the database other than a rollback.
- `ConsumerDefault`: taking the flag away by JSON:API or code, changes of owner and of
  rights, the install hook run again.
- `Subrequests`: blueprints that repeat a request id, values that look like tokens,
  what a subrequest changes on the site, the formats of the combined response.
- `EntityConnection`: cursors that cannot be decoded, aggregated sort fields (no query
  helper of the repository has one), NULL as a sort value, access checks and
  translations of entities, reuse of the id of a deleted entity.
- `TreeTable`: rows whose parent is not in the table (several methods throw for them), a
  table that is hidden as a whole, callbacks of the settings (the site sets none),
  the text of indenters and titles.
- `SitePreview`: the switch `sync_route`, without which the script does nothing (taken as
  on); the spinner of lines 8 to 16 (if the iframe loads before the listener
  is attached, it stays), navigations that the user cancels, history and back button.
- `TokenScopes`: the role "authenticated", which all have; deletion of a role; the
  permission to grant codes; requests without scopes, which league rejects or gives
  a default; the roles of the consumer, which it gets without being asked for by design.

Not modelled at all, with the reason, are the other components of `PROJECT.json`.
`pathauto`, `decoupled_router` and the wizard of `ctools` check and save through storages of
Drupal core and of modules that are not part of the repository, and what they race
for is decided there. The events of `next` are dispatched once, by one process, and
nothing repeats them. The insertion of a token into a field (`token.js:12-89`) is a list
of editors tried in order and one insertion at a cursor. The key generator, the
negotiator and the buffers of `graphql` work within one process; further hazards
there are a failure between two key files (`KeyGeneratorService.php:81`), a replaced
value that is a token itself (`JsonPathReplacer.php:54`) and a level that is rejected
after earlier ones have run (`SubrequestsManager.php:60`). The scripts of the GraphQL
explorer, the schema generation, display, plugin plumbing and the site scaffolding have
no state that several steps or actors share.
