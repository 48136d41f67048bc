-------------------------- MODULE EntityConnection --------------------------
(* The paginated connections of graphql_compose.  A request is checked, the  *)
(* query fetches one row more than asked for, and the entities of its ids    *)
(* are loaded later, when the deferred promise runs; the loaded edges give   *)
(* the page and its pageInfo.  A client walks a connection page by page,     *)
(* while others create, delete and change the entities it lists.             *)
(*                                                                           *)
(* A cursor is the sort value of an entity and its id.  The rows of a query  *)
(* are the set of their cursors; where the order of a result matters, it is  *)
(* the order of the query that counts.                                       *)
EXTENDS Integers, FiniteSets

CONSTANTS
  Entity,     \* entity ids
  Value,      \* values of the sort field
  None, Gone, \* NULL; the mark of a deleted entity
  Limits,     \* the values of "first" and "last" that clients send
  MaxLimit    \* MAX_LIMIT

ASSUME ConfigAssumption ==
  /\ Entity \subseteq Int /\ Value \subseteq Int /\ Limits \subseteq Int
  /\ IsFiniteSet(Entity)
  /\ MaxLimit \in Nat

Cursor == [value: Value, id: Entity]

ASSUME NoneAssumption ==
  /\ None \notin Int /\ None \notin Cursor
  /\ Gone \notin Int /\ Gone # None

Request == [first: Limits \cup {None}, after: Cursor \cup {None},
            last: Limits \cup {None}, before: Cursor \cup {None}, reverse: BOOLEAN]

VARIABLES
  stored,   \* stored[e]: the sort value of an entity, None before it is created
  request,  \* the arguments of the page that is asked for
  status,
  fetched,  \* the rows of the query
  page,     \* the last answer
  seen,     \* the cursors of the pages before it
  steady,   \* entities of the walk that nobody has touched since it began
  gap       \* what others did between a query and the load of its entities

vars == <<stored, request, status, fetched, page, seen, steady, gap>>

Less(a, b) == a.value < b.value \/ (a.value = b.value /\ a.id < b.id)

Precedes(a, b, ascending) == IF ascending THEN Less(a, b) ELSE Less(b, a)

Row(e) == [value |-> stored[e], id |-> e]
Rows   == {Row(e) : e \in {f \in Entity : stored[f] \in Value}}

---------------------------------------------------------------------------
(* The arguments.                                                          *)

AssertValidPagination(q) ==
  /\ q.first # None \/ q.last # None
  /\ q.first = None \/ q.last = None
  /\ q.first = None \/ q.before = None
  /\ q.last = None \/ q.after = None
  /\ q.first # None => 0 < q.first /\ q.first <= MaxLimit
  /\ q.last # None => 0 < q.last /\ q.last <= MaxLimit

Limit(q) == IF q.first # None THEN q.first ELSE q.last

\* The sort direction, of the sort field and of the id field.
Ascending(q) ==
  (q.first # None /\ ~q.reverse) \/ (q.last # None /\ q.reverse)

\* Mutant: the reversed query keeps the operator.
LessThanIfBefore(q) == q.before # None

\* The operator that compares a row with the cursor: '<', or else '>'.
LessThan(q) ==
  (q.before # None /\ ~q.reverse) \/ (q.after # None /\ q.reverse)

\* Mutant: the comparison with the cursor includes the row it was taken from.
BeyondOrEqual(c, cursor, lessThan) ==
  c = cursor \/ IF lessThan THEN Less(c, cursor) ELSE Less(cursor, c)

Beyond(c, cursor, lessThan) ==
  IF lessThan THEN Less(c, cursor) ELSE Less(cursor, c)

\* The rows that the query may return.
Matching(q) ==
  LET cursor == IF q.after # None THEN q.after ELSE q.before
  IN {c \in Rows : cursor # None => Beyond(c, cursor, LessThan(q))}

\* S is what a limit of n leaves of the ordered set T.
IsHead(S, T, n, ascending) ==
  /\ S \subseteq T
  /\ \A c \in S, d \in T \ S : Precedes(c, d, ascending)
  /\ Cardinality(S) <= n
  /\ S # T => Cardinality(S) = n

IsFirst(c, S, ascending) == c \in S /\ \A d \in S \ {c} : Precedes(c, d, ascending)

---------------------------------------------------------------------------
(* One page.                                                               *)

NoPage == [edges |-> {}, ascending |-> TRUE, next |-> FALSE, previous |-> FALSE,
           start |-> None, end |-> None]
Page == [edges: SUBSET Cursor, ascending: BOOLEAN, next: BOOLEAN, previous: BOOLEAN,
         start: Cursor \cup {None}, end: Cursor \cup {None}]

Refuse ==
  /\ status = "ask" /\ ~AssertValidPagination(request)
  /\ status' = "refused"
  /\ UNCHANGED <<stored, request, fetched, page, seen, steady, gap>>

\* Mutant: no row more than asked for.
FetchedExactly(S, q) == IsHead(S, Matching(q), Limit(q), Ascending(q))

\* Fetch N + 1, so we know if there are more pages.
Fetched(S, q) == IsHead(S, Matching(q), Limit(q) + 1, Ascending(q))

Execute ==
  /\ status = "ask" /\ AssertValidPagination(request)
  /\ \E S \in SUBSET Matching(request) : Fetched(S, request) /\ fetched' = S
  /\ status' = "loading"
  /\ UNCHANGED <<stored, request, page, seen, steady, gap>>

\* Mutant: a missing entity yields an edge.
LoadedOrNull == fetched

\* The entity buffer leaves out the entities it does not find.
Loaded == {c \in fetched : stored[c.id] \in Value}

\* Mutant: a page that is just filled promises another one.
MoreOrEqual(n) == n # None /\ n <= Cardinality(Loaded)

\* N first or last results were requested and we have more.
More(n) == n # None /\ n < Cardinality(Loaded)

\* pageInfo() and the ordered edges.  The edges and the cursors are those of the
\* entities as loaded.
Info(q, head, first, last) ==
  [edges     |-> {Row(c.id) : c \in head},
   ascending |-> IF q.last # None THEN ~Ascending(q) ELSE Ascending(q),
   next      |-> q.before # None \/ More(q.first),
   previous  |-> q.after # None \/ More(q.last),
   start     |-> Row(IF q.last # None THEN last.id ELSE first.id),
   end       |-> Row(IF q.last # None THEN first.id ELSE last.id)]

Load ==
  /\ status = "loading"
  /\ IF Loaded = {} THEN page' = NoPage
     ELSE \E head \in SUBSET Loaded : \E first, last \in head :
            /\ IsHead(head, Loaded, Limit(request), Ascending(request))
            /\ IsFirst(first, head, Ascending(request))
            /\ IsFirst(last, head, ~Ascending(request))
            /\ page' = Info(request, head, first, last)
  /\ status' = "answered"
  /\ UNCHANGED <<stored, request, fetched, seen, steady, gap>>

---------------------------------------------------------------------------
(* The client and the others.                                              *)

\* A client that asks for the first ones goes on after the end cursor, one that
\* asks for the last ones before the start cursor.
Continue ==
  /\ status = "answered"
  /\ seen' = seen \cup page.edges
  /\ IF request.first # None /\ page.next
     THEN request' = [request EXCEPT !.after = page.end] /\ status' = "ask"
     ELSE IF request.last # None /\ page.previous
     THEN request' = [request EXCEPT !.before = page.start] /\ status' = "ask"
     ELSE status' = "done" /\ UNCHANGED request
  /\ UNCHANGED <<stored, fetched, page, steady, gap>>

Change(kind, e, v) ==
  /\ status \in {"ask", "loading"}
  /\ stored' = [stored EXCEPT ![e] = v]
  /\ steady' = steady \ {e}
  /\ gap' = IF status = "loading" THEN gap \cup {kind} ELSE gap
  /\ UNCHANGED <<request, status, fetched, page, seen>>

\* The id of a deleted entity is not used again.
Insert == \E e \in Entity, v \in Value : stored[e] = None /\ Change("insert", e, v)
Update == \E e \in Entity, v \in Value :
            stored[e] \in Value \ {v} /\ Change("update", e, v)
Delete == \E e \in Entity : stored[e] \in Value /\ Change("delete", e, Gone)

Init ==
  /\ stored \in [Entity -> Value \cup {None}]
  /\ request \in Request
  /\ status = "ask" /\ fetched = {} /\ page = NoPage /\ seen = {}
  /\ steady = {c.id : c \in Matching(request)} /\ gap = {}

Next == Refuse \/ Execute \/ Load \/ Continue \/ Insert \/ Update \/ Delete

Spec == Init /\ [][Next]_vars

\* The client asks on; the others go on or stop as they like.
FairSpec == Spec /\ WF_vars(Refuse \/ Execute) /\ WF_vars(Load) /\ WF_vars(Continue)

---------------------------------------------------------------------------
\* Every answer is a page of cursors, also when entities are deleted between
\* getQuery() and the load of the entity buffer: no edge stands for a missing one.
TypeOK ==
  /\ stored \in [Entity -> Value \cup {None, Gone}]
  /\ request \in Request
  /\ status \in {"ask", "refused", "loading", "answered", "done"}
  /\ fetched \subseteq Cursor
  /\ page \in Page
  /\ seen \subseteq Cursor
  /\ steady \subseteq Entity
  /\ gap \subseteq {"insert", "update", "delete"}

\* The edges that the Relay specification wants in a page, for the rows of the
\* connection in its own order, whichever way the query runs.
RelayEdges(q) ==
  LET Comes(a, b) == Precedes(a, b, ~q.reverse)
      range == {c \in Rows : /\ q.after # None => Comes(q.after, c)
                             /\ q.before # None => Comes(c, q.before)}
  IN {c \in range :
        /\ q.first # None => Cardinality({d \in range : Comes(d, c)}) < q.first
        /\ q.last # None => Cardinality({d \in range : Comes(c, d)}) < q.last}

\* Every accepted request, with or without a cursor, whether or not the entity of
\* the cursor still exists, is answered with the edges that Relay defines, in the
\* order of the connection, and with the cursors of the first and the last of
\* them; unless something happened between getQuery() and the load.
PageIsRelay ==
  LET edges == RelayEdges(request)
  IN status = "answered" /\ gap = {} =>
       /\ page.edges = edges
       /\ edges = {} => page.start = None /\ page.end = None
       /\ edges # {} => /\ page.ascending = ~request.reverse
                        /\ IsFirst(page.start, edges, ~request.reverse)
                        /\ IsFirst(page.end, edges, request.reverse)

\* The schema: hasNextPage is "Whether there are more pages in this connection",
\* hasPreviousPage "Whether there are previous pages".  The flag that pageInfo()
\* answers for the direction of the walk is TRUE exactly when the connection has
\* rows on that side of the page (of the cursor, if the page is empty).  That for
\* the other direction is, if there is no cursor, or the row it was taken from is
\* still there and the page has an edge; otherwise it may promise a page that is
\* gone, or deny one.
FlagsTellTheRest ==
  LET Comes(a, b) == Precedes(a, b, ~request.reverse)
      later   == {c \in Rows : \A e \in page.edges \cup ({request.after} \ {None}) : Comes(e, c)}
      earlier == {c \in Rows : \A e \in page.edges \cup ({request.before} \ {None}) : Comes(c, e)}
      cursors == {request.after, request.before} \ {None}
      anchored == cursors = {} \/ (cursors \subseteq Rows /\ page.edges # {})
  IN status = "answered" /\ gap = {} =>
       /\ request.first # None \/ anchored => (page.next <=> later # {})
       /\ request.last # None \/ anchored => (page.previous <=> earlier # {})

\* A client that walks to the end has seen every entity that was there from the
\* beginning and did not change, whatever happened to the others between its
\* requests, the one that the cursor was taken from included; unless something
\* happened between a query and the load.
WalkIsComplete == status = "done" /\ gap = {} => \A e \in steady : Row(e) \in seen

\* No page shows again what an earlier one has shown, or anything before it,
\* whatever is created, changed and deleted between the requests, or is created
\* and deleted between a query and the load.  What is updated there is shown with
\* a value that the query did not order by, which the next cursor takes over.
WalkAdvances ==
  status = "answered" /\ "update" \notin gap =>
    \A c \in seen, d \in page.edges : Precedes(c, d, Ascending(request))

\* A walk ends once entities are no longer created or changed: the cursor moves
\* on past finitely many rows, also if these go on being deleted, and wherever
\* earlier changes have put it.  While they are, each page can have another one
\* after it.
Terminates ==
  <>[][\A e \in Entity : stored'[e] \in {stored[e], Gone}]_vars
    => <>(status \in {"refused", "done"})
===========================================================================
