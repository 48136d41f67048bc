---------------------- MODULE EntityConnection_proofs ----------------------
(* Proofs about EntityConnection, for every set of entities, sort values and *)
(* page sizes: walks advance as long as the entities of a running query keep *)
(* their sort value; unless something happens between a query and its load,  *)
(* they are complete and their pages are those that Relay defines.           *)
EXTENDS EntityConnection, FiniteSetTheorems, TLAPS

---------------------------------------------------------------------------
(* Types.                                                                  *)

\* A row is the cursor of a stored entity.
LEMMA RowsAreCursors ==
  ASSUME TypeOK
  PROVE  /\ Rows \subseteq Cursor
         /\ \A c \in Rows : c.id \in Entity /\ stored[c.id] = c.value /\ c = Row(c.id)
BY DEF Rows, Row, Cursor, TypeOK

\* The edges of a page carry the cursors of loaded entities.
LEMMA EdgesAreCursors ==
  ASSUME TypeOK, NEW head \in SUBSET Loaded
  PROVE  /\ \A c \in head : Row(c.id) \in Cursor
         /\ {Row(c.id) : c \in head} \subseteq Cursor
BY DEF Loaded, Row, Cursor, TypeOK

\* The answer of a connection without edges is a page.
LEMMA NoPageType == NoPage \in Page
BY DEF NoPage, Page

\* Every answer is a page.
LEMMA LoadType == TypeOK /\ Load => page' \in Page
<1> SUFFICES ASSUME TypeOK, Load PROVE page' \in Page
  OBVIOUS
<1>1. CASE Loaded = {}
  BY <1>1, NoPageType DEF Load
<1>2. CASE Loaded # {}
  <2>1. PICK head \in SUBSET Loaded : \E first, last \in head :
          page' = Info(request, head, first, last)
    BY <1>2 DEF Load
  <2>2. PICK first \in head, last \in head : page' = Info(request, head, first, last)
    BY <2>1
  <2>3. /\ Row(first.id) \in Cursor /\ Row(last.id) \in Cursor
        /\ {Row(c.id) : c \in head} \subseteq Cursor
    BY EdgesAreCursors
  <2>4. Ascending(request) \in BOOLEAN
    BY DEF Ascending
  <2>5. Row(IF request.last # None THEN last.id ELSE first.id) \in Cursor
    BY <2>3
  <2>6. Row(IF request.last # None THEN first.id ELSE last.id) \in Cursor
    BY <2>3
  <2> QED BY <2>2, <2>3, <2>4, <2>5, <2>6 DEF Info, Page
<1> QED BY <1>1, <1>2

\* What a page asks for next is a request again.
LEMMA ContinueType == TypeOK /\ Continue => request' \in Request
<1> SUFFICES ASSUME TypeOK, Continue PROVE request' \in Request
  OBVIOUS
<1>1. page.start \in Cursor \cup {None} /\ page.end \in Cursor \cup {None}
  BY DEF TypeOK, Page
<1> QED BY <1>1 DEF Continue, TypeOK, Request

\* Changes made by others keep the types.
LEMMA ChangeType ==
  ASSUME TypeOK, NEW e \in Entity, NEW v \in Value \cup {Gone},
         NEW kind \in {"insert", "update", "delete"}, Change(kind, e, v)
  PROVE  TypeOK'
BY DEF TypeOK, Change

\* The types hold of the first request.
LEMMA TypeInit == Init => TypeOK
<1> SUFFICES ASSUME Init PROVE TypeOK
  OBVIOUS
<1>1. \A c \in Rows : c.id \in Entity
  BY DEF Rows, Row
<1> QED BY <1>1, NoPageType DEF Init, TypeOK, Matching

\* Every step keeps the types.
LEMMA TypeStep == TypeOK /\ [Next]_vars => TypeOK'
<1> SUFFICES ASSUME TypeOK, [Next]_vars PROVE TypeOK'
  OBVIOUS
<1>1. CASE Refuse
  BY <1>1 DEF Refuse, TypeOK
<1>2. CASE Execute
  <2>1. fetched' \subseteq Rows
    BY <1>2 DEF Execute, Matching
  <2> QED BY <1>2, <2>1, RowsAreCursors DEF Execute, TypeOK
<1>3. CASE Load
  BY <1>3, LoadType DEF Load, TypeOK
<1>4. CASE Continue
  <2>1. page.edges \subseteq Cursor
    BY DEF TypeOK, Page
  <2>2. status' \in {"ask", "done"}
    BY <1>4 DEF Continue
  <2> QED BY <1>4, <2>1, <2>2, ContinueType DEF Continue, TypeOK
<1>5. CASE Insert
  BY <1>5, ChangeType DEF Insert
<1>6. CASE Update
  BY <1>6, ChangeType DEF Update
<1>7. CASE Delete
  BY <1>7, ChangeType DEF Delete
<1>8. CASE UNCHANGED vars
  BY <1>8 DEF vars, TypeOK
<1> QED BY <1>1, <1>2, <1>3, <1>4, <1>5, <1>6, <1>7, <1>8 DEF Next

\* Requests, rows, pages and cursors stay within their types.
THEOREM TypeCorrect == Spec => []TypeOK
BY TypeInit, TypeStep, PTL DEF Spec

---------------------------------------------------------------------------
(* The order.                                                              *)

\* Where the walk has arrived.
Current(q) == IF q.after # None THEN q.after ELSE q.before

\* A walk has arrived at a cursor, or has just begun.
LEMMA CurrentType == ASSUME TypeOK PROVE Current(request) \in Cursor \cup {None}
BY DEF TypeOK, Request, Current

\* Cursors hold integers, and are compared by value and then by id.
LEMMA LessTransitive ==
  ASSUME NEW a \in Cursor, NEW b \in Cursor, NEW c \in Cursor, Less(a, b), Less(b, c)
  PROVE  Less(a, c)
<1>1. /\ a.value \in Int /\ b.value \in Int /\ c.value \in Int
      /\ a.id \in Int /\ b.id \in Int /\ c.id \in Int
  BY ConfigAssumption DEF Cursor
<1> QED BY <1>1 DEF Less

\* The order of cursors is transitive, in both directions.
LEMMA PrecedesTransitive ==
  ASSUME NEW a \in Cursor, NEW b \in Cursor, NEW c \in Cursor, NEW up \in BOOLEAN,
         Precedes(a, b, up), Precedes(b, c, up)
  PROVE  Precedes(a, c, up)
<1>1. CASE up
  BY <1>1, LessTransitive DEF Precedes
<1>2. CASE ~up
  BY <1>2, LessTransitive DEF Precedes
<1> QED BY <1>1, <1>2

\* The operator of the condition fits the direction of the query: what an
\* accepted request matches comes after its cursor.
LEMMA BeyondIsAfter ==
  ASSUME NEW q \in Request, AssertValidPagination(q), Current(q) # None, NEW c
  PROVE  Beyond(c, Current(q), LessThan(q)) <=> Precedes(Current(q), c, Ascending(q))
<1>1. CASE q.first # None
  BY <1>1 DEF AssertValidPagination, Current, LessThan, Ascending, Precedes, Beyond, Request
<1>2. CASE q.last # None
  BY <1>2 DEF AssertValidPagination, Current, LessThan, Ascending, Precedes, Beyond, Request
<1> QED BY <1>1, <1>2 DEF AssertValidPagination

\* The rows that a query matches are those after the cursor of the walk.
LEMMA MatchingIsAfter ==
  ASSUME NEW q \in Request, AssertValidPagination(q), NEW c \in Rows
  PROVE  c \in Matching(q) <=> (Current(q) # None => Precedes(Current(q), c, Ascending(q)))
BY BeyondIsAfter DEF Matching, Current

\* The next request of a walk differs in its cursor alone.
LEMMA ContinueRequest ==
  ASSUME TypeOK, AssertValidPagination(request), Continue, status' = "ask"
  PROVE  /\ Ascending(request') = Ascending(request)
         /\ \/ request.first # None /\ page.next /\ Current(request') = page.end
            \/ request.last # None /\ page.previous /\ Current(request') = page.start
         /\ AssertValidPagination(request')
<1> DEFINE q == request
<1>0. request \in Request
  BY DEF TypeOK
<1>1. CASE request.first # None /\ page.next
  <2>1. request' = [request EXCEPT !.after = page.end]
    BY <1>1 DEF Continue
  <2>2. /\ request'.after = page.end /\ request'.first = request.first
        /\ request'.last = request.last /\ request'.before = request.before
        /\ request'.reverse = request.reverse
    BY <1>0, <2>1 DEF Request
  <2>3. request.before = None /\ request.last = None
    BY <1>1 DEF AssertValidPagination
  <2> QED BY <1>1, <2>2, <2>3 DEF Ascending, Current, AssertValidPagination
<1>2. CASE ~(request.first # None /\ page.next)
  <2>1. request.last # None /\ page.previous /\ request' = [request EXCEPT !.before = page.start]
    BY <1>2 DEF Continue
  <2>2. /\ request'.after = request.after /\ request'.first = request.first
        /\ request'.last = request.last /\ request'.before = page.start
        /\ request'.reverse = request.reverse
    BY <1>0, <2>1 DEF Request
  <2>3. request.after = None /\ request.first = None
    BY <2>1 DEF AssertValidPagination
  <2> QED BY <2>1, <2>2, <2>3 DEF Ascending, Current, AssertValidPagination
<1> QED BY <1>1, <1>2

---------------------------------------------------------------------------
(* Walks advance.                                                          *)

Walking == status \in {"ask", "loading", "answered"}

\* c is the cursor of the walk or lies behind it.
Passed(c) == c = Current(request) \/ Precedes(c, Current(request), Ascending(request))

\* c lies ahead of the cursor.
Ahead(c) ==
  Current(request) # None => Precedes(Current(request), c, Ascending(request))

\* What has been seen is behind the cursor, what has been fetched is ahead of it
\* and stands for entities that at most disappear, and the cursor that the page
\* offers is the last of its edges.
WalkInv ==
  /\ TypeOK
  /\ status \in {"loading", "answered"} \/ (Walking /\ seen # {}) =>
       AssertValidPagination(request)
  /\ Walking => \A c \in seen : Current(request) # None /\ Passed(c)
  /\ status = "loading" => \A c \in fetched :
       Ahead(c) /\ stored[c.id] \in {c.value, Gone}
  /\ status = "answered" =>
       /\ \A d \in page.edges : Ahead(d)
       /\ request.first # None /\ page.next =>
            /\ page.end \in page.edges
            /\ \A d \in page.edges \ {page.end} : Precedes(d, page.end, Ascending(request))
       /\ request.last # None /\ page.previous =>
            /\ page.start \in page.edges
            /\ \A d \in page.edges \ {page.start} : Precedes(d, page.start, Ascending(request))

\* A walk begins with nothing seen.
LEMMA WalkInit == Init => WalkInv
<1> SUFFICES ASSUME Init PROVE WalkInv
  OBVIOUS
<1>1. status = "ask" /\ seen = {} /\ fetched = {}
  BY DEF Init
<1> QED BY <1>1, TypeInit DEF WalkInv

\* The query returns rows beyond the cursor, so beyond what was seen.
LEMMA WalkExecute == WalkInv /\ Execute => WalkInv'
<1> SUFFICES ASSUME WalkInv, Execute PROVE WalkInv'
  OBVIOUS
<1>1. TypeOK /\ TypeOK'
  BY TypeStep DEF WalkInv, Next
<1>2. /\ status = "ask" /\ status' = "loading" /\ AssertValidPagination(request)
      /\ UNCHANGED <<stored, request, page, seen, steady, gap>>
  BY DEF Execute
<1>3. fetched' \subseteq Matching(request)
  BY DEF Execute
<1>4. ASSUME NEW c \in fetched' PROVE Ahead(c) /\ stored[c.id] = c.value
  <2>1. c \in Matching(request) /\ c \in Rows
    BY <1>3 DEF Matching
  <2>2. Ahead(c)
    BY <1>1, <1>2, <2>1, MatchingIsAfter DEF Ahead, TypeOK
  <2> QED BY <1>1, <2>1, <2>2, RowsAreCursors
<1>5. Current(request)' = Current(request) /\ Ascending(request)' = Ascending(request)
  BY <1>2
<1>6. AssertValidPagination(request)'
  BY <1>2
<1>7. (\A c \in seen : Current(request) # None /\ Passed(c))'
  BY <1>2, <1>5 DEF WalkInv, Passed, Walking
<1>8. (\A c \in fetched : Ahead(c) /\ stored[c.id] \in {c.value, Gone})'
  BY <1>2, <1>4, <1>5 DEF Ahead
<1> QED BY <1>1, <1>2, <1>6, <1>7, <1>8 DEF WalkInv

\* A loaded row has kept its sort value.
LEMMA LoadedRows ==
  ASSUME WalkInv, status = "loading", NEW c \in Loaded
  PROVE  Row(c.id) = c /\ c \in Cursor
<1>1. c \in fetched /\ c \in Cursor /\ stored[c.id] \in Value
  BY DEF WalkInv, TypeOK, Loaded
<1>2. Gone \notin Value
  BY ConfigAssumption, NoneAssumption
<1>3. stored[c.id] = c.value
  BY <1>1, <1>2 DEF WalkInv
<1> QED BY <1>1, <1>3 DEF Row, Cursor

\* What Load makes of a non-empty result.
LEMMA LoadedPage ==
  ASSUME WalkInv, Load, Loaded # {}
  PROVE  \E head \in SUBSET Loaded : \E first, last \in head :
           /\ IsHead(head, Loaded, Limit(request), Ascending(request))
           /\ IsFirst(last, head, ~Ascending(request))
           /\ page'.edges = head
           /\ page'.next <=> (request.before # None \/
                (request.first # None /\ request.first < Cardinality(Loaded)))
           /\ page'.previous <=> (request.after # None \/
                (request.last # None /\ request.last < Cardinality(Loaded)))
           /\ request.last = None => page'.end = last
           /\ request.last # None => page'.start = last
<1>1. PICK head \in SUBSET Loaded : \E first, last \in head :
        /\ IsHead(head, Loaded, Limit(request), Ascending(request))
        /\ IsFirst(first, head, Ascending(request))
        /\ IsFirst(last, head, ~Ascending(request))
        /\ page' = Info(request, head, first, last)
  BY DEF Load
<1>2. PICK first \in head, last \in head :
        /\ IsHead(head, Loaded, Limit(request), Ascending(request))
        /\ IsFirst(first, head, Ascending(request))
        /\ IsFirst(last, head, ~Ascending(request))
        /\ page' = Info(request, head, first, last)
  BY <1>1
<1>3. \A c \in head : Row(c.id) = c
  BY LoadedRows DEF Load
<1>4. page'.edges = {Row(c.id) : c \in head}
  BY <1>2 DEF Info
<1>5. page'.edges = head
  BY <1>3, <1>4
<1>6. /\ page'.next <=> (request.before # None \/
           (request.first # None /\ request.first < Cardinality(Loaded)))
      /\ page'.previous <=> (request.after # None \/
           (request.last # None /\ request.last < Cardinality(Loaded)))
  BY <1>2 DEF Info, More
<1>7. /\ request.last = None => page'.end = last
      /\ request.last # None => page'.start = last
  BY <1>2, <1>3 DEF Info
<1> QED BY <1>2, <1>5, <1>6, <1>7

\* The last element in one direction is the first in the other.
LEMMA LastIsBehind ==
  ASSUME NEW S, NEW l \in S, IsFirst(l, S, ~Ascending(request)), NEW d \in S \ {l}
  PROVE  Precedes(d, l, Ascending(request))
BY DEF IsFirst, Precedes, Ascending

\* The page lies beyond what was seen, and its end cursor is its last edge.
LEMMA WalkLoad == WalkInv /\ Load => WalkInv'
<1> SUFFICES ASSUME WalkInv, Load PROVE WalkInv'
  OBVIOUS
<1>1. TypeOK /\ TypeOK'
  BY TypeStep DEF WalkInv, Next
<1>2. /\ status = "loading" /\ status' = "answered"
      /\ UNCHANGED <<stored, request, fetched, seen, steady, gap>>
  BY DEF Load
<1>3. AssertValidPagination(request) /\ AssertValidPagination(request)'
  BY <1>2 DEF WalkInv
<1>4. Current(request)' = Current(request) /\ Ascending(request)' = Ascending(request)
  BY <1>2
<1>5. (\A c \in seen : Current(request) # None /\ Passed(c))'
  BY <1>2, <1>4 DEF WalkInv, Passed, Walking
<1>6. CASE Loaded = {}
  <2>1. page' = NoPage
    BY <1>6 DEF Load
  <2>2. page'.edges = {} /\ page'.next = FALSE /\ page'.previous = FALSE
    BY <2>1 DEF NoPage
  <2> QED BY <1>1, <1>2, <1>3, <1>5, <2>2 DEF WalkInv
<1>7. CASE Loaded # {}
  <2>1. PICK head \in SUBSET Loaded : \E first, last \in head :
          /\ IsFirst(last, head, ~Ascending(request))
          /\ page'.edges = head
          /\ request.last = None => page'.end = last
          /\ request.last # None => page'.start = last
    BY <1>7, LoadedPage
  <2>2. PICK last \in head :
          /\ IsFirst(last, head, ~Ascending(request))
          /\ page'.edges = head
          /\ request.last = None => page'.end = last
          /\ request.last # None => page'.start = last
    BY <2>1
  <2>3. \A d \in head : Ahead(d)
    BY <1>2 DEF WalkInv, Loaded
  <2>4. (\A d \in page.edges : Ahead(d))'
    BY <1>2, <1>4, <2>2, <2>3 DEF Ahead
  <2>5. \A d \in head \ {last} : Precedes(d, last, Ascending(request))
    BY <2>2, LastIsBehind
  <2>6. request.first # None => request.last = None
    BY <1>3 DEF AssertValidPagination
  <2>7. request.first # None =>
          /\ page'.end \in page'.edges
          /\ \A d \in page'.edges \ {page'.end} : Precedes(d, page'.end, Ascending(request))
    BY <2>2, <2>5, <2>6
  <2>8. request.last # None =>
          /\ page'.start \in page'.edges
          /\ \A d \in page'.edges \ {page'.start} : Precedes(d, page'.start, Ascending(request))
    BY <2>2, <2>5
  <2> QED BY <1>1, <1>2, <1>3, <1>4, <1>5, <2>4, <2>7, <2>8 DEF WalkInv
<1> QED BY <1>6, <1>7

\* The next cursor is the end of the page, beyond everything seen.
LEMMA WalkContinue == WalkInv /\ Continue => WalkInv'
<1> SUFFICES ASSUME WalkInv, Continue PROVE WalkInv'
  OBVIOUS
<1>1. TypeOK /\ TypeOK'
  BY TypeStep DEF WalkInv, Next
<1>2. status = "answered" /\ seen' = seen \cup page.edges /\ status' \in {"ask", "done"}
  BY DEF Continue
<1>3. AssertValidPagination(request)
  BY <1>2 DEF WalkInv
<1>4. CASE status' = "done"
  BY <1>1, <1>2, <1>4 DEF WalkInv, Walking
<1>5. CASE status' = "ask"
  <2>1. /\ Ascending(request') = Ascending(request)
        /\ \/ request.first # None /\ page.next /\ Current(request') = page.end
           \/ request.last # None /\ page.previous /\ Current(request') = page.start
        /\ AssertValidPagination(request')
    BY <1>1, <1>3, <1>5, ContinueRequest
  <2> DEFINE to == Current(request')
  <2>2. to \in page.edges
        /\ \A d \in page.edges \ {to} : Precedes(d, to, Ascending(request))
    BY <1>2, <2>1 DEF WalkInv
  <2>3. page.edges \subseteq Cursor /\ seen \subseteq Cursor /\ to \in Cursor
    BY <1>1, <2>2 DEF TypeOK, Page
  <2>4. to # None
    BY <2>3, NoneAssumption
  <2>6. ASSUME NEW c \in seen PROVE Precedes(c, to, Ascending(request))
    <3>1. Current(request) # None /\ Passed(c)
      BY <1>2 DEF WalkInv, Walking
    <3>2. Current(request) \in Cursor
      BY <1>1, <3>1, CurrentType
    <3>3. Precedes(Current(request), to, Ascending(request))
      BY <1>2, <2>2, <3>1 DEF WalkInv, Ahead
    <3>4. Ascending(request) \in BOOLEAN
      BY DEF Ascending
    <3> QED BY <2>3, <3>1, <3>2, <3>3, <3>4, PrecedesTransitive DEF Passed
  <2>7. \A c \in seen' : c = to \/ Precedes(c, to, Ascending(request'))
    BY <1>2, <2>1, <2>2, <2>6
  <2>8. (\A c \in seen : Current(request) # None /\ Passed(c))'
    BY <2>4, <2>7 DEF Passed
  <2>9. AssertValidPagination(request)'
    BY <2>1
  <2> QED BY <1>1, <1>5, <2>8, <2>9 DEF WalkInv
<1> QED BY <1>2, <1>4, <1>5

\* Others only touch a fetched row by deleting its entity, unless they update it
\* in the gap.
LEMMA WalkChange ==
  ASSUME WalkInv, TypeOK', NEW e \in Entity, NEW v, NEW kind, Change(kind, e, v),
         status = "loading" => stored[e] = None \/ v = Gone
  PROVE  WalkInv'
<1>1. /\ UNCHANGED <<request, status, fetched, page, seen>>
      /\ stored' = [stored EXCEPT ![e] = v]
      /\ status \in {"ask", "loading"}
  BY DEF Change
<1>2. Current(request)' = Current(request) /\ Ascending(request)' = Ascending(request)
      /\ AssertValidPagination(request)' = AssertValidPagination(request)
  BY <1>1
<1>3. (Walking => \A c \in seen : Current(request) # None /\ Passed(c))'
  BY <1>1, <1>2 DEF WalkInv, Passed, Walking
<1>4. ASSUME status = "loading", NEW c \in fetched
      PROVE  Ahead(c) /\ stored'[c.id] \in {c.value, Gone}
  <2>1. Ahead(c) /\ stored[c.id] \in {c.value, Gone} /\ c \in Cursor
    BY <1>4 DEF WalkInv, TypeOK
  <2>2. c.value \in Int /\ c.id \in Entity
    BY <2>1, ConfigAssumption DEF Cursor
  <2>3. stored[c.id] # None
    BY <2>1, <2>2, NoneAssumption
  <2>4. stored \in [Entity -> Value \cup {None, Gone}]
    BY DEF WalkInv, TypeOK
  <2>5. CASE c.id = e
    BY <1>1, <1>4, <2>1, <2>3, <2>4, <2>5
  <2>6. CASE c.id # e
    BY <1>1, <2>1, <2>2, <2>4, <2>6
  <2> QED BY <2>1, <2>5, <2>6
<1>5. (status = "loading" => \A c \in fetched : Ahead(c) /\ stored[c.id] \in {c.value, Gone})'
  BY <1>1, <1>2, <1>4 DEF Ahead
<1> QED BY <1>1, <1>2, <1>3, <1>5 DEF WalkInv, Walking

\* What happened in a gap is not forgotten.
LEMMA GapGrows == [Next]_vars => gap \subseteq gap'
BY DEF Next, Refuse, Execute, Load, Continue, Insert, Update, Delete, Change, vars

\* Every step keeps WalkInv, unless others change sort values in the gap.
LEMMA WalkStep ==
  ASSUME WalkInv, [Next]_vars, "update" \notin gap'
  PROVE  WalkInv'
<1>0. TypeOK'
  BY TypeStep DEF WalkInv
<1>1. CASE Refuse
  BY <1>0, <1>1 DEF Refuse, WalkInv, Walking
<1>2. CASE Execute
  BY <1>2, WalkExecute
<1>3. CASE Load
  BY <1>3, WalkLoad
<1>4. CASE Continue
  BY <1>4, WalkContinue
<1>5. CASE Insert
  BY <1>0, <1>5, WalkChange DEF Insert
<1>6. CASE Update
  <2>1. PICK e \in Entity, v \in Value : Change("update", e, v)
    BY <1>6 DEF Update
  <2>2. status # "loading"
    BY <2>1 DEF Change
  <2> QED BY <1>0, <2>1, <2>2, WalkChange
<1>7. CASE Delete
  BY <1>0, <1>7, WalkChange DEF Delete
<1>8. CASE UNCHANGED vars
  <2>1. /\ UNCHANGED <<stored, request, status, fetched, page, seen>>
        /\ Current(request)' = Current(request) /\ Ascending(request)' = Ascending(request)
        /\ AssertValidPagination(request)' = AssertValidPagination(request)
    BY <1>8 DEF vars
  <2> QED BY <1>0, <2>1 DEF WalkInv, Walking, Passed, Ahead
<1> QED BY <1>1, <1>2, <1>3, <1>4, <1>5, <1>6, <1>7, <1>8 DEF Next

\* WalkInv is as strong as the property.
LEMMA WalkInvAdvances == WalkInv => WalkAdvances
<1> SUFFICES ASSUME WalkInv, status = "answered", NEW c \in seen, NEW d \in page.edges
             PROVE  Precedes(c, d, Ascending(request))
  BY DEF WalkAdvances
<1>1. Current(request) # None /\ Passed(c) /\ Ahead(d)
  BY DEF WalkInv, Walking
<1>2. c \in Cursor /\ d \in Cursor /\ Current(request) \in Cursor
  BY <1>1, CurrentType DEF WalkInv, TypeOK, Page
<1>3. Ascending(request) \in BOOLEAN
  BY DEF Ascending
<1> QED BY <1>1, <1>2, <1>3, PrecedesTransitive DEF Passed, Ahead

\* Unless entities change their sort value between a query and its load, no page
\* goes back to what an earlier one has shown.
THEOREM WalksAdvance == Spec => []WalkAdvances
<1> DEFINE Inv == "update" \notin gap => WalkInv
<1>1. Inv /\ [Next]_vars => Inv'
  <2> SUFFICES ASSUME Inv, [Next]_vars, "update" \notin gap' PROVE WalkInv'
    OBVIOUS
  <2>1. "update" \notin gap
    BY GapGrows
  <2> QED BY <2>1, WalkStep
<1>2. Inv => WalkAdvances
  BY WalkInvAdvances DEF WalkAdvances
<1> QED BY <1>1, <1>2, WalkInit, PTL DEF Spec

---------------------------------------------------------------------------
(* Walks are complete.                                                     *)

\* What a walk still owes to the client is ahead of its cursor.
Pending(e) == Row(e) \in seen \/ Ahead(Row(e))

\* What the page that was loaded leaves to the next one.
NextLeft(e) == request.first # None /\ page.next /\ Precedes(page.end, Row(e), Ascending(request))
PreviousLeft(e) == request.last # None /\ page.previous /\ Precedes(page.start, Row(e), Ascending(request))

\* Nothing of the walk is lost: it is in the pages seen, in the one that was
\* loaded, or ahead of the cursor that this page offers.
Owed ==
  /\ \A e \in steady : stored[e] \in Value
  /\ status = "ask" /\ AssertValidPagination(request) => \A e \in steady : Pending(e)
  /\ status = "loading" => Fetched(fetched, request) /\ \A e \in steady : Pending(e)
  /\ status = "answered" =>
       \A e \in steady : Row(e) \in seen \cup page.edges \/ NextLeft(e) \/ PreviousLeft(e)
  /\ status = "done" => \A e \in steady : Row(e) \in seen

CompleteInv == gap = {} => WalkInv /\ Owed

\* The rows are finitely many.
LEMMA RowsFinite == IsFiniteSet(Rows)
<1> DEFINE E == {f \in Entity : stored[f] \in Value}
           F == [e \in E |-> Row(e)]
<1>1. IsFiniteSet(E)
  BY ConfigAssumption, FS_Subset
<1>2. F \in Surjection(E, Rows)
  BY DEF Surjection, Rows
<1> QED BY <1>1, <1>2, FS_Surjection

\* A limit that is met leaves out nothing, and what a proper head leaves out is
\* counted.
LEMMA HeadCounts ==
  ASSUME NEW T, IsFiniteSet(T), NEW n \in Nat, NEW S, NEW up, IsHead(S, T, n, up)
  PROVE  /\ IsFiniteSet(S) /\ Cardinality(S) \in Nat /\ Cardinality(T) \in Nat
         /\ Cardinality(S) <= n
         /\ S # T => Cardinality(S) = n /\ n < Cardinality(T)
<1>1. S \subseteq T
  BY DEF IsHead
<1>2. IsFiniteSet(S) /\ Cardinality(S) <= Cardinality(T) /\ (Cardinality(T) = Cardinality(S) => T = S)
  BY <1>1, FS_Subset
<1>3. Cardinality(S) \in Nat /\ Cardinality(T) \in Nat
  BY <1>2, FS_CardinalityType
<1> QED BY <1>2, <1>3 DEF IsHead

\* When the walk begins, everything it is to find is ahead of it.
LEMMA CompleteInit == Init => CompleteInv
<1> SUFFICES ASSUME Init PROVE CompleteInv
  OBVIOUS
<1>1. WalkInv /\ TypeOK /\ status = "ask"
  BY WalkInit DEF WalkInv, Init
<1>2. ASSUME NEW e \in steady
      PROVE  stored[e] \in Value /\ Row(e) \in Rows /\ Row(e) \in Matching(request)
  <2>1. PICK c \in Matching(request) : e = c.id
    BY <1>2 DEF Init
  <2>2. c \in Rows
    BY <2>1 DEF Matching
  <2>3. PICK f \in Entity : stored[f] \in Value /\ c = Row(f)
    BY <2>2 DEF Rows
  <2>4. e = f /\ Row(e) = c
    BY <2>1, <2>3 DEF Row
  <2> QED BY <2>1, <2>2, <2>3, <2>4
<1>3. ASSUME AssertValidPagination(request), NEW e \in steady PROVE Pending(e)
  BY <1>1, <1>2, <1>3, MatchingIsAfter DEF Pending, Ahead, TypeOK
<1> QED BY <1>1, <1>2, <1>3 DEF CompleteInv, Owed

\* The query takes the first of what is ahead and leaves the rest ahead.
LEMMA CompleteExecute == WalkInv /\ Owed /\ Execute => Owed'
<1> SUFFICES ASSUME WalkInv, Owed, Execute PROVE Owed'
  OBVIOUS
<1>1. /\ status = "ask" /\ status' = "loading" /\ AssertValidPagination(request)
      /\ UNCHANGED <<stored, request, page, seen, steady, gap>>
  BY DEF Execute
<1>2. Fetched(fetched', request)
  BY DEF Execute
<1>3. /\ Matching(request)' = Matching(request) /\ Ascending(request)' = Ascending(request)
      /\ Limit(request)' = Limit(request) /\ Current(request)' = Current(request)
  BY <1>1 DEF Matching, Rows, Row, LessThan
<1>4. Fetched(fetched, request)'
  BY <1>1, <1>2, <1>3 DEF Fetched
<1>5. ASSUME NEW e \in steady PROVE Pending(e)'
  <2>1. Row(e)' = Row(e)
    BY <1>1 DEF Row
  <2> QED BY <1>1, <1>3, <2>1 DEF Owed, Pending, Ahead
<1> QED BY <1>1, <1>4, <1>5 DEF Owed

\* A page leaves an entity to the next one only if it says that there is one.
LEMMA CompleteLoad == WalkInv /\ Owed /\ Load => Owed'
<1> SUFFICES ASSUME WalkInv, Owed, Load PROVE Owed'
  OBVIOUS
<1> DEFINE up == Ascending(request)
           n  == Limit(request)
<1>1. WalkInv /\ TypeOK /\ WalkInv' /\ TypeOK'
  BY WalkLoad DEF WalkInv
<1>2. /\ status = "loading" /\ status' = "answered"
      /\ UNCHANGED <<stored, request, fetched, seen, steady, gap>>
  BY DEF Load
<1>3. AssertValidPagination(request) /\ Fetched(fetched, request)
  BY <1>1, <1>2 DEF WalkInv, Owed
<1>4. n \in Nat /\ n >= 1 /\ n + 1 \in Nat
  <2>1. n \in Limits /\ 0 < n
    BY <1>1, <1>3 DEF Limit, AssertValidPagination, TypeOK, Request
  <2>2. n \in Int
    BY <2>1, ConfigAssumption
  <2> HIDE DEF n
  <2> QED BY <2>1, <2>2
<1>5. IsHead(fetched, Matching(request), n + 1, up)
  BY <1>3 DEF Fetched
<1>6. /\ fetched \subseteq Rows /\ Matching(request) \subseteq Rows
      /\ IsFiniteSet(Matching(request))
  <2>1. Matching(request) \subseteq Rows
    BY DEF Matching
  <2> QED BY <1>5, <2>1, RowsFinite, FS_Subset DEF IsHead
<1>7. /\ IsFiniteSet(fetched) /\ Cardinality(fetched) \in Nat
      /\ fetched # Matching(request) => Cardinality(fetched) = n + 1
  BY <1>4, <1>5, <1>6, HeadCounts
<1>8. Loaded = fetched
  BY <1>1, <1>6, RowsAreCursors DEF Loaded, Rows, Row
<1>9. ASSUME NEW e \in steady
      PROVE  /\ Row(e)' = Row(e) /\ stored[e] \in Value
             /\ Row(e) \notin seen => Row(e) \in Matching(request)
  <2>1. Row(e)' = Row(e) /\ stored[e] \in Value /\ Pending(e)
    BY <1>2 DEF Row, Owed
  <2>2. Row(e) \in Rows
    BY <1>1, <2>1 DEF TypeOK, Rows
  <2> QED BY <1>1, <1>3, <2>1, <2>2, MatchingIsAfter DEF Pending, Ahead, TypeOK
<1>10. ASSUME NEW e \in steady
       PROVE  (Row(e) \in seen \cup page.edges \/ NextLeft(e) \/ PreviousLeft(e))'
  <2>1. CASE Row(e) \in seen
    BY <1>2, <1>9, <2>1
  <2>2. CASE Row(e) \notin seen /\ Loaded = {}
    <3>1. fetched = {} /\ Row(e) \in Matching(request)
      BY <1>8, <1>9, <2>2
    <3>2. Cardinality(fetched) = n + 1
      BY <1>7, <3>1
    <3>3. Cardinality({}) = 0
      BY FS_EmptySet
    <3> QED BY <1>4, <3>1, <3>2, <3>3
  <2>3. CASE Row(e) \notin seen /\ Loaded # {}
    <3>1. PICK head \in SUBSET Loaded : \E first, last \in head :
            /\ IsHead(head, Loaded, n, up)
            /\ IsFirst(last, head, ~up)
            /\ page'.edges = head
            /\ page'.next <=> (request.before # None \/
                 (request.first # None /\ request.first < Cardinality(Loaded)))
            /\ page'.previous <=> (request.after # None \/
                 (request.last # None /\ request.last < Cardinality(Loaded)))
            /\ request.last = None => page'.end = last
            /\ request.last # None => page'.start = last
      BY <1>1, <2>3, LoadedPage
    <3>2. PICK last \in head :
            /\ IsHead(head, Loaded, n, up)
            /\ page'.edges = head
            /\ page'.next <=> (request.before # None \/
                 (request.first # None /\ request.first < Cardinality(Loaded)))
            /\ page'.previous <=> (request.after # None \/
                 (request.last # None /\ request.last < Cardinality(Loaded)))
            /\ request.last = None => page'.end = last
            /\ request.last # None => page'.start = last
      BY <3>1
    <3>3. Row(e) \in Matching(request)
      BY <1>9, <2>3
    <3>4. CASE Row(e) \in head
      BY <1>9, <3>2, <3>4
    <3>5. CASE Row(e) \notin head
      <4>1. Precedes(last, Row(e), up) /\ n < Cardinality(Loaded)
        <5>1. CASE Row(e) \in fetched
          <6>1. head # Loaded
            BY <1>8, <3>5, <5>1
          <6>2. n < Cardinality(Loaded)
            BY <1>4, <1>7, <1>8, <3>2, <6>1, HeadCounts
          <6>3. Precedes(last, Row(e), up)
            BY <1>8, <3>2, <3>5, <5>1 DEF IsHead
          <6> QED BY <6>2, <6>3
        <5>2. CASE Row(e) \notin fetched
          <6>1. Cardinality(Loaded) = n + 1
            BY <1>7, <1>8, <3>3, <5>2
          <6>2. last \in fetched
            BY <1>8
          <6>3. Precedes(last, Row(e), up)
            BY <1>5, <3>3, <5>2, <6>2 DEF IsHead
          <6> QED BY <1>4, <6>1, <6>3
        <5> QED BY <5>1, <5>2
      <4>2. Ascending(request)' = Ascending(request)
        BY <1>2
      <4>3. CASE request.first # None
        <5>1. request.last = None /\ n = request.first
          BY <1>3, <4>3 DEF AssertValidPagination, Limit
        <5> QED BY <1>2, <1>9, <3>2, <4>1, <4>2, <4>3, <5>1 DEF NextLeft
      <4>4. CASE request.first = None
        <5>1. request.last # None /\ n = request.last
          BY <1>3, <4>4 DEF AssertValidPagination, Limit
        <5> QED BY <1>2, <1>9, <3>2, <4>1, <4>2, <5>1 DEF PreviousLeft
      <4> QED BY <4>3, <4>4
    <3> QED BY <3>4, <3>5
  <2> QED BY <2>1, <2>2, <2>3
<1> QED BY <1>1, <1>2, <1>9, <1>10 DEF Owed

\* What the next cursor leaves behind has been seen.
LEMMA CompleteContinue == WalkInv /\ Owed /\ Continue => Owed'
<1> SUFFICES ASSUME WalkInv, Owed, Continue PROVE Owed'
  OBVIOUS
<1>1. WalkInv /\ TypeOK /\ WalkInv'
  BY WalkContinue DEF WalkInv
<1>2. /\ status = "answered" /\ seen' = seen \cup page.edges /\ status' \in {"ask", "done"}
      /\ UNCHANGED <<stored, fetched, page, steady, gap>>
  BY DEF Continue
<1>3. AssertValidPagination(request)
  BY <1>1, <1>2 DEF WalkInv
<1>4. ASSUME NEW e \in steady
      PROVE  /\ Row(e)' = Row(e) /\ stored[e] \in Value
             /\ Row(e) \in seen' \/ NextLeft(e) \/ PreviousLeft(e)
  BY <1>2 DEF Owed, Row
<1>5. CASE status' = "done"
  <2>1. ~(request.first # None /\ page.next) /\ ~(request.last # None /\ page.previous)
    BY <1>5 DEF Continue
  <2> QED BY <1>1, <1>2, <1>4, <1>5, <2>1 DEF Owed, NextLeft, PreviousLeft
<1>6. CASE status' = "ask"
  <2>1. /\ Ascending(request') = Ascending(request)
        /\ \/ request.first # None /\ page.next /\ Current(request') = page.end
           \/ request.last # None /\ page.previous /\ Current(request') = page.start
    BY <1>1, <1>3, <1>6, ContinueRequest
  <2>2. ASSUME NEW e \in steady PROVE Pending(e)'
    <3>1. request.first = None \/ request.last = None
      BY <1>3 DEF AssertValidPagination
    <3>2. CASE Row(e) \in seen'
      BY <1>4, <3>2 DEF Pending
    <3>3. CASE NextLeft(e) \/ PreviousLeft(e)
      <4>1. Precedes(Current(request'), Row(e), Ascending(request'))
        BY <2>1, <3>1, <3>3 DEF NextLeft, PreviousLeft
      <4> QED BY <1>4, <4>1 DEF Pending, Ahead
    <3> QED BY <1>4, <3>2, <3>3
  <2> QED BY <1>1, <1>2, <1>4, <1>6, <2>2 DEF Owed
<1> QED BY <1>2, <1>5, <1>6

\* Changes made by others take an entity out of the walk.
LEMMA CompleteChange ==
  ASSUME WalkInv, Owed, NEW e \in Entity, NEW v, NEW kind, Change(kind, e, v), gap' = {}
  PROVE  Owed'
<1>1. /\ UNCHANGED <<request, status, fetched, page, seen>> /\ status = "ask"
      /\ stored' = [stored EXCEPT ![e] = v] /\ steady' = steady \ {e}
  BY DEF Change
<1>2. Current(request)' = Current(request) /\ Ascending(request)' = Ascending(request)
      /\ AssertValidPagination(request)' = AssertValidPagination(request)
  BY <1>1
<1>3. ASSUME NEW f \in steady' PROVE f \in steady /\ stored'[f] = stored[f] /\ Row(f)' = Row(f)
  <2>1. stored \in [Entity -> Value \cup {None, Gone}] /\ steady \subseteq Entity
    BY DEF WalkInv, TypeOK
  <2>2. f \in steady /\ stored'[f] = stored[f]
    BY <1>1, <2>1
  <2> QED BY <2>2 DEF Row
<1>4. ASSUME AssertValidPagination(request), NEW f \in steady' PROVE Pending(f)'
  BY <1>1, <1>2, <1>3, <1>4 DEF Owed, Pending, Ahead
<1> QED BY <1>1, <1>2, <1>3, <1>4 DEF Owed

\* Every step keeps CompleteInv: once something happened between a query and its
\* load, there is nothing left to show.
LEMMA CompleteStep == CompleteInv /\ [Next]_vars => CompleteInv'
<1> SUFFICES ASSUME CompleteInv, [Next]_vars, gap' = {} PROVE WalkInv' /\ Owed'
  BY DEF CompleteInv
<1>9. gap = {}
  BY GapGrows
<1>0. WalkInv /\ WalkInv'
  BY <1>9, WalkStep DEF CompleteInv
<1>1. CASE Refuse
  <2>1. Owed /\ UNCHANGED stored /\ UNCHANGED steady /\ status' = "refused"
    BY <1>1 DEF Refuse, CompleteInv
  <2> QED BY <1>0, <2>1 DEF Owed
<1>2. CASE Execute
  <2> QED BY <1>0, <1>2, <1>9, CompleteExecute DEF CompleteInv
<1>3. CASE Load
  <2> QED BY <1>0, <1>3, <1>9, CompleteLoad DEF CompleteInv
<1>4. CASE Continue
  <2> QED BY <1>0, <1>4, <1>9, CompleteContinue DEF CompleteInv
<1>5. CASE Insert \/ Update \/ Delete
  <2>1. PICK e \in Entity : \E v \in Value \cup {Gone} :
          \E kind \in {"insert", "update", "delete"} : Change(kind, e, v)
    BY <1>5 DEF Insert, Update, Delete
  <2>2. PICK v \in Value \cup {Gone}, kind \in {"insert", "update", "delete"} :
          Change(kind, e, v)
    BY <2>1
  <2> QED BY <1>0, <1>9, <2>2, CompleteChange DEF CompleteInv
<1>6. CASE UNCHANGED vars
  <2>1. /\ UNCHANGED <<stored, request, status, fetched, page, seen, steady, gap>>
        /\ AssertValidPagination(request)' = AssertValidPagination(request)
        /\ \A e \in steady : /\ Row(e)' = Row(e) /\ Pending(e)' = Pending(e)
                             /\ NextLeft(e)' = NextLeft(e)
                             /\ PreviousLeft(e)' = PreviousLeft(e)
        /\ Fetched(fetched, request)' = Fetched(fetched, request)
    BY <1>6 DEF vars, Row, Pending, Ahead, NextLeft, PreviousLeft, Fetched, Matching,
                Rows, Ascending, Current, Limit, LessThan
  <2> QED BY <1>0, <2>1 DEF CompleteInv, Owed
<1> QED BY <1>1, <1>2, <1>3, <1>4, <1>5, <1>6 DEF Next

\* Unless something happens between a query and the load of its entities, a
\* client that walks to the end has seen every entity that was there all along,
\* whatever happens to the others between its requests.
THEOREM WalksAreComplete == Spec => []WalkIsComplete
<1>1. CompleteInv => WalkIsComplete
  BY DEF CompleteInv, Owed, WalkIsComplete
<1> QED BY <1>1, CompleteInit, CompleteStep, PTL DEF Spec

---------------------------------------------------------------------------
(* Pages are those that Relay defines.                                     *)

\* The order of cursors is strict, in both directions.
LEMMA PrecedesAsymmetric ==
  ASSUME NEW a \in Cursor, NEW b \in Cursor, NEW up \in BOOLEAN, Precedes(a, b, up)
  PROVE  ~Precedes(b, a, up)
<1>1. /\ a.value \in Int /\ b.value \in Int /\ a.id \in Int /\ b.id \in Int
  BY ConfigAssumption DEF Cursor
<1> QED BY <1>1 DEF Less, Precedes

\* A limited query returns the rows that fewer than the limit come before.
LEMMA HeadIsRanked ==
  ASSUME NEW T \in SUBSET Cursor, IsFiniteSet(T), NEW n \in Nat, NEW up \in BOOLEAN,
         NEW S, IsHead(S, T, n, up)
  PROVE  S = {c \in T : Cardinality({d \in T : Precedes(d, c, up)}) < n}
<1>1. S \in SUBSET T /\ IsFiniteSet(S) /\ Cardinality(S) \in Nat /\ Cardinality(S) <= n
  BY HeadCounts DEF IsHead
<1>2. ASSUME NEW c \in S PROVE Cardinality({d \in T : Precedes(d, c, up)}) < n
  <2> DEFINE P == {d \in T : Precedes(d, c, up)}
  <2>1. ASSUME NEW d \in P PROVE d \in S \ {c}
    <3>1. c \in Cursor /\ d \in Cursor /\ ~Precedes(c, d, up)
      BY <1>1, <2>1, PrecedesAsymmetric
    <3> QED BY <1>1, <2>1, <3>1 DEF IsHead
  <2>2. P \in SUBSET (S \ {c})
    BY <2>1
  <2>3. IsFiniteSet(S \ {c}) /\ Cardinality(S \ {c}) = Cardinality(S) - 1
    BY <1>1, <1>2, FS_RemoveElement
  <2>4. Cardinality(P) <= Cardinality(S \ {c}) /\ IsFiniteSet(P)
    BY <2>2, <2>3, FS_Subset
  <2>5. Cardinality(P) \in Nat
    BY <2>4, FS_CardinalityType
  <2> HIDE DEF P
  <2>6. Cardinality(P) < n
    BY <1>1, <2>3, <2>4, <2>5
  <2> QED BY <2>6 DEF P
<1>3. ASSUME NEW c \in T \ S PROVE ~(Cardinality({d \in T : Precedes(d, c, up)}) < n)
  <2> DEFINE P == {d \in T : Precedes(d, c, up)}
  <2>1. S \in SUBSET P
    BY <1>1, <1>3 DEF IsHead
  <2>2. IsFiniteSet(P)
    BY FS_Subset
  <2>3. Cardinality(S) <= Cardinality(P) /\ Cardinality(P) \in Nat
    BY <2>1, <2>2, FS_Subset, FS_CardinalityType
  <2>4. Cardinality(S) = n
    BY <1>3 DEF IsHead
  <2> HIDE DEF P
  <2>5. ~(Cardinality(P) < n)
    BY <2>3, <2>4
  <2> QED BY <2>5 DEF P
<1> QED BY <1>1, <1>2, <1>3

\* The page of the fetched rows is the page of all rows, and there is a row more
\* than asked for exactly if the page is not all of them.
LEMMA HeadOfFetched ==
  ASSUME NEW T, IsFiniteSet(T), NEW n \in Nat, NEW up,
         NEW F, IsHead(F, T, n + 1, up), NEW S, IsHead(S, F, n, up)
  PROVE  /\ IsHead(S, T, n, up)
         /\ S # T <=> n < Cardinality(F)
<1>1. IsFiniteSet(F) /\ Cardinality(F) \in Nat
  BY HeadCounts
<1>2. /\ S \subseteq F /\ F \subseteq T /\ Cardinality(S) \in Nat /\ Cardinality(S) <= n
      /\ S # F => Cardinality(S) = n /\ n < Cardinality(F)
  BY <1>1, HeadCounts DEF IsHead
<1>3. F # T => Cardinality(F) = n + 1
  BY DEF IsHead
<1>4. S = F => F = T
  BY <1>2, <1>3
<1>5. \A c \in S, d \in T \ S : Precedes(c, d, up)
  BY <1>2 DEF IsHead
<1> QED BY <1>1, <1>2, <1>4, <1>5 DEF IsHead

\* The rows that a query matches are those of the range that Relay defines, and
\* the direction of the query follows from the kind of the limit.
LEMMA MatchingIsRange ==
  ASSUME NEW q \in Request, AssertValidPagination(q)
  PROVE  /\ Matching(q) =
              {c \in Rows : /\ q.after # None => Precedes(q.after, c, ~q.reverse)
                            /\ q.before # None => Precedes(c, q.before, ~q.reverse)}
         /\ q.first # None => q.last = None /\ Limit(q) = q.first /\ Ascending(q) = ~q.reverse
         /\ q.last # None => q.first = None /\ Limit(q) = q.last /\ Ascending(q) = q.reverse
         /\ Limit(q) \in Nat /\ Limit(q) >= 1
<1>0. q.reverse \in BOOLEAN
  BY DEF Request
<1>1. CASE q.first # None
  <2>1. q.last = None /\ q.before = None /\ Limit(q) = q.first
    BY <1>1 DEF AssertValidPagination, Limit
  <2>2. Ascending(q) = ~q.reverse
    BY <1>0, <1>1, <2>1 DEF Ascending
  <2>3. Limit(q) \in Nat /\ Limit(q) >= 1
    <3>1. q.first \in Int
      BY <1>1, ConfigAssumption DEF Request
    <3>2. 0 < q.first
      BY <1>1 DEF AssertValidPagination
    <3> QED BY <2>1, <3>1, <3>2
  <2>4. ASSUME NEW c \in Rows
        PROVE c \in Matching(q) <=> (q.after # None => Precedes(q.after, c, ~q.reverse))
    BY <1>0, <2>1, <2>2, MatchingIsAfter DEF Current
  <2> QED BY <1>1, <2>1, <2>2, <2>3, <2>4 DEF Matching
<1>2. CASE q.last # None
  <2>1. q.first = None /\ q.after = None /\ Limit(q) = q.last
    BY <1>2 DEF AssertValidPagination, Limit
  <2>2. Ascending(q) = q.reverse
    BY <1>0, <1>2, <2>1 DEF Ascending
  <2>3. Limit(q) \in Nat /\ Limit(q) >= 1
    <3>1. q.last \in Int
      BY <1>2, ConfigAssumption DEF Request
    <3>2. 0 < q.last
      BY <1>2 DEF AssertValidPagination
    <3> QED BY <2>1, <3>1, <3>2
  <2>4. ASSUME NEW c \in Rows
        PROVE c \in Matching(q) <=> (q.before # None => Precedes(c, q.before, ~q.reverse))
    BY <1>0, <2>1, <2>2, MatchingIsAfter DEF Current, Precedes
  <2> QED BY <1>2, <2>1, <2>2, <2>3, <2>4 DEF Matching
<1> QED BY <1>1, <1>2 DEF AssertValidPagination

\* The edges of Relay, for an accepted request: the first ones that the query finds.
HeadEdges(q) ==
  {c \in Matching(q) :
     Cardinality({d \in Matching(q) : Precedes(d, c, Ascending(q))}) < Limit(q)}

\* Relay counts from the end that the query starts from.
LEMMA RelayEdgesAreHead ==
  ASSUME NEW q \in Request, AssertValidPagination(q)
  PROVE  RelayEdges(q) = HeadEdges(q)
<1> DEFINE range == {c \in Rows : /\ q.after # None => Precedes(q.after, c, ~q.reverse)
                                  /\ q.before # None => Precedes(c, q.before, ~q.reverse)}
           edges == {c \in range :
              /\ q.first # None => Cardinality({d \in range : Precedes(d, c, ~q.reverse)}) < q.first
              /\ q.last # None => Cardinality({d \in range : Precedes(c, d, ~q.reverse)}) < q.last}
<1>1. range = Matching(q)
  BY MatchingIsRange
<1>2. edges = HeadEdges(q)
  <2>1. CASE q.first # None
    <3>1. Ascending(q) = ~q.reverse /\ q.last = None /\ Limit(q) = q.first
      BY <2>1, MatchingIsRange
    <3> HIDE DEF range
    <3>2. edges = {c \in range : Cardinality({d \in range : Precedes(d, c, ~q.reverse)}) < q.first}
      BY <2>1, <3>1
    <3> QED BY <1>1, <3>1, <3>2 DEF HeadEdges
  <2>2. CASE q.last # None
    <3>1. Ascending(q) = q.reverse /\ q.first = None /\ Limit(q) = q.last /\ q.reverse \in BOOLEAN
      BY <2>2, MatchingIsRange DEF Request
    <3>2. \A c, d : Precedes(c, d, ~q.reverse) <=> Precedes(d, c, q.reverse)
      BY <3>1 DEF Precedes
    <3>3. \A c : {d \in range : Precedes(c, d, ~q.reverse)} = {d \in range : Precedes(d, c, q.reverse)}
      BY <3>2
    <3> HIDE DEF range
    <3>4. edges = {c \in range : Cardinality({d \in range : Precedes(d, c, q.reverse)}) < q.last}
      BY <2>2, <3>1, <3>3
    <3> QED BY <1>1, <3>1, <3>4 DEF HeadEdges
  <2> QED BY <2>1, <2>2 DEF AssertValidPagination
<1>3. RelayEdges(q) = edges
  BY DEF RelayEdges
<1> HIDE DEF range, edges
<1> QED BY <1>2, <1>3

\* What the page p says of the rows, for the request q.
Describes(p, q) ==
  LET M == Matching(q)
      e == HeadEdges(q)
  IN /\ p.edges = e
     /\ IsHead(e, M, Limit(q), Ascending(q))
     /\ e = {} => p = NoPage
     /\ e # {} => /\ p.ascending = ~q.reverse
                  /\ p.next <=> q.before # None \/ (q.first # None /\ M # e)
                  /\ p.previous <=> q.after # None \/ (q.last # None /\ M # e)
                  /\ IsFirst(p.start, e, ~q.reverse)
                  /\ IsFirst(p.end, e, q.reverse)

\* As long as nothing happens after a query its rows are those of the connection,
\* and the page made of them describes these.
RelayInv ==
  /\ TypeOK
  /\ status \in {"loading", "answered"} => AssertValidPagination(request)
  /\ status = "loading" /\ gap = {} => Fetched(fetched, request)
  /\ status = "answered" /\ gap = {} => Describes(page, request)

\* What was fetched is there to be loaded, as it was.
LEMMA AllLoaded ==
  ASSUME TypeOK, fetched \subseteq Rows
  PROVE  Loaded = fetched /\ \A c \in fetched : Row(c.id) = c
BY RowsAreCursors DEF Loaded, Rows, Row

\* The page that Load makes of all that was fetched describes the rows.
LEMMA InfoDescribes ==
  ASSUME TypeOK, AssertValidPagination(request), Loaded = fetched,
         fetched \subseteq Rows, Fetched(fetched, request),
         NEW head \in SUBSET Loaded, NEW first \in head, NEW last \in head,
         IsHead(head, Loaded, Limit(request), Ascending(request)),
         IsFirst(first, head, Ascending(request)),
         IsFirst(last, head, ~Ascending(request))
  PROVE  Describes(Info(request, head, first, last), request)
<1> DEFINE q == request
           up == Ascending(q)
           M  == Matching(q)
           p  == Info(q, head, first, last)
<1>0. request \in Request /\ q.reverse \in BOOLEAN /\ up \in BOOLEAN
  BY DEF TypeOK, Request, Ascending
<1>1. /\ q.first # None => q.last = None /\ Limit(q) = q.first /\ up = ~q.reverse
      /\ q.last # None => q.first = None /\ Limit(q) = q.last /\ up = q.reverse
      /\ Limit(q) \in Nat /\ (q.first # None \/ q.last # None)
  BY <1>0, MatchingIsRange DEF AssertValidPagination
<1>2. Rows \subseteq Cursor /\ M \subseteq Rows /\ IsFiniteSet(M)
  <2>1. M \subseteq Rows
    BY DEF Matching
  <2> QED BY <2>1, RowsAreCursors, RowsFinite, FS_Subset
<1>3. /\ IsHead(head, M, Limit(q), up)
      /\ head # M <=> Limit(q) < Cardinality(Loaded)
      /\ M \in SUBSET Cursor
  <2>1. IsHead(fetched, M, Limit(q) + 1, up) /\ IsHead(head, fetched, Limit(q), up)
    BY DEF Fetched
  <2> HIDE DEF M, up
  <2>2. /\ IsHead(head, M, Limit(q), up)
        /\ head # M <=> Limit(q) < Cardinality(fetched)
    BY <1>1, <1>2, <2>1, HeadOfFetched
  <2> QED BY <1>2, <2>2
<1>4. head = HeadEdges(q)
  BY <1>0, <1>1, <1>2, <1>3, HeadIsRanked DEF HeadEdges
<1>5. head # {} /\ {Row(c.id) : c \in head} = head /\ Row(first.id) = first /\ Row(last.id) = last
  BY AllLoaded
<1>6. /\ p.edges = head
      /\ p.ascending = ~q.reverse
      /\ p.start = IF q.last # None THEN last ELSE first
      /\ p.end = IF q.last # None THEN first ELSE last
  BY <1>0, <1>1, <1>5 DEF Info
<1>7. /\ p.next <=> q.before # None \/ (q.first # None /\ q.first < Cardinality(Loaded))
      /\ p.previous <=> q.after # None \/ (q.last # None /\ q.last < Cardinality(Loaded))
  BY DEF Info, More
<1>8. /\ p.next <=> q.before # None \/ (q.first # None /\ M # head)
      /\ p.previous <=> q.after # None \/ (q.last # None /\ M # head)
  BY <1>1, <1>3, <1>7
<1>9. IsFirst(p.start, head, ~q.reverse) /\ IsFirst(p.end, head, q.reverse)
  BY <1>0, <1>1, <1>6
<1> HIDE DEF p, M
<1> QED BY <1>3, <1>4, <1>5, <1>6, <1>8, <1>9 DEF Describes, p, M

\* Without rows the page is empty.
LEMMA NoPageDescribes ==
  ASSUME TypeOK, AssertValidPagination(request), fetched = {}, Fetched(fetched, request)
  PROVE  Describes(NoPage, request)
<1>0. request \in Request
  BY DEF TypeOK
<1>1. Limit(request) \in Nat
  BY <1>0, MatchingIsRange
<1>2. Matching(request) = {}
  BY <1>1, FS_EmptySet DEF Fetched, IsHead
<1>3. HeadEdges(request) = {}
  BY <1>2 DEF HeadEdges
<1>4. IsHead({}, {}, Limit(request), Ascending(request))
  BY <1>1, FS_EmptySet DEF IsHead
<1> QED BY <1>2, <1>3, <1>4 DEF Describes, NoPage

\* Every step keeps RelayInv.
LEMMA RelayStep == RelayInv /\ [Next]_vars => RelayInv'
<1> SUFFICES ASSUME RelayInv, [Next]_vars PROVE RelayInv'
  OBVIOUS
<1>0. TypeOK /\ TypeOK'
  BY TypeStep DEF RelayInv
<1>1. CASE Refuse
  BY <1>0, <1>1 DEF Refuse, RelayInv
<1>2. CASE Execute
  <2>1. /\ status' = "loading" /\ AssertValidPagination(request)
        /\ UNCHANGED <<stored, request>> /\ Fetched(fetched', request)
    BY <1>2 DEF Execute
  <2>2. AssertValidPagination(request)' /\ Fetched(fetched, request)'
    BY <2>1 DEF Fetched, Matching, Rows, Row
  <2> QED BY <1>0, <2>1, <2>2 DEF RelayInv
<1>3. CASE Load
  <2>1. /\ status = "loading" /\ status' = "answered" /\ AssertValidPagination(request)
        /\ UNCHANGED <<stored, request, fetched, gap>>
    BY <1>3 DEF Load, RelayInv
  <2>2. ASSUME gap = {} PROVE Describes(page', request)
    <3>1. Fetched(fetched, request) /\ fetched \subseteq Rows
      BY <2>1, <2>2 DEF RelayInv, Fetched, IsHead, Matching
    <3>2. Loaded = fetched
      BY <1>0, <3>1, AllLoaded
    <3>3. CASE Loaded = {}
      BY <1>0, <1>3, <2>1, <3>1, <3>2, <3>3, NoPageDescribes DEF Load
    <3>4. CASE Loaded # {}
      <4>1. PICK head \in SUBSET Loaded : \E first, last \in head :
              /\ IsHead(head, Loaded, Limit(request), Ascending(request))
              /\ IsFirst(first, head, Ascending(request))
              /\ IsFirst(last, head, ~Ascending(request))
              /\ page' = Info(request, head, first, last)
        BY <1>3, <3>4 DEF Load
      <4>2. PICK first \in head, last \in head :
              /\ IsHead(head, Loaded, Limit(request), Ascending(request))
              /\ IsFirst(first, head, Ascending(request))
              /\ IsFirst(last, head, ~Ascending(request))
              /\ page' = Info(request, head, first, last)
        BY <4>1
      <4> QED BY <1>0, <2>1, <3>1, <3>2, <4>2, InfoDescribes
    <3> QED BY <3>3, <3>4
  <2>3. Describes(page, request)' <=> Describes(page', request)
    BY <2>1 DEF Describes, HeadEdges, Matching, Rows, Row
  <2>4. AssertValidPagination(request)'
    BY <2>1
  <2> QED BY <1>0, <2>1, <2>2, <2>3, <2>4 DEF RelayInv
<1>4. CASE Continue
  <2>1. status' \in {"ask", "done"}
    BY <1>4 DEF Continue
  <2> QED BY <1>0, <2>1 DEF RelayInv
<1>5. CASE Insert \/ Update \/ Delete
  <2>1. UNCHANGED <<request, status>> /\ (status = "ask" \/ (status = "loading" /\ gap' # {}))
    BY <1>5 DEF Insert, Update, Delete, Change
  <2>2. AssertValidPagination(request)' = AssertValidPagination(request)
    BY <2>1
  <2> QED BY <1>0, <2>1, <2>2 DEF RelayInv
<1>6. CASE UNCHANGED vars
  <2>1. UNCHANGED <<stored, request, status, fetched, page, gap>>
    BY <1>6 DEF vars
  <2>2. /\ AssertValidPagination(request)' = AssertValidPagination(request)
        /\ Fetched(fetched, request)' = Fetched(fetched, request)
        /\ Describes(page, request)' = Describes(page, request)
    BY <2>1 DEF Fetched, Matching, Rows, Row, Describes, HeadEdges
  <2> QED BY <1>0, <2>1, <2>2 DEF RelayInv
<1> QED BY <1>1, <1>2, <1>3, <1>4, <1>5, <1>6 DEF Next

\* RelayInv holds before the first query.
LEMMA RelayInit == Init => RelayInv
BY TypeInit DEF Init, RelayInv

\* Every accepted request is answered with the edges and cursors that Relay
\* defines, unless something happened between getQuery() and the load.
THEOREM PagesAreRelay == Spec => []PageIsRelay
<1>1. RelayInv => PageIsRelay
  <2> SUFFICES ASSUME RelayInv, status = "answered", gap = {}
               PROVE  /\ page.edges = RelayEdges(request)
                      /\ RelayEdges(request) = {} => page.start = None /\ page.end = None
                      /\ RelayEdges(request) # {} =>
                           /\ page.ascending = ~request.reverse
                           /\ IsFirst(page.start, RelayEdges(request), ~request.reverse)
                           /\ IsFirst(page.end, RelayEdges(request), request.reverse)
    BY DEF PageIsRelay
  <2>1. RelayEdges(request) = HeadEdges(request)
    BY RelayEdgesAreHead DEF RelayInv, TypeOK
  <2> QED BY <2>1 DEF RelayInv, Describes, NoPage
<1> QED BY <1>1, RelayInit, RelayStep, PTL DEF Spec

\* The rows of S beyond the cursor k; those ahead of the edges e and of k; and
\* those behind e.
RowsBeyond(S, k, up)   == {c \in S : k # None => Precedes(k, c, up)}
RowsAhead(S, e, k, up) == {c \in S : \A x \in e \cup ({k} \ {None}) : Precedes(x, c, up)}
RowsBehind(S, e, up)   == {c \in S : \A x \in e : Precedes(c, x, up)}

\* For a query that goes up from the cursor k: the rows ahead of a page are those
\* that the query matched and the page leaves out.
LEMMA SideAhead ==
  ASSUME NEW S \in SUBSET Cursor, NEW k \in Cursor \cup {None}, NEW up \in BOOLEAN,
         NEW n \in Nat, n >= 1,
         NEW e, IsHead(e, RowsBeyond(S, k, up), n, up)
  PROVE  RowsAhead(S, e, k, up) = RowsBeyond(S, k, up) \ e
<1> DEFINE M == RowsBeyond(S, k, up)
<1>0. M = {c \in S : k # None => Precedes(k, c, up)}
  BY DEF RowsBeyond
<1> HIDE DEF M
<1>1. e \subseteq M /\ M \subseteq S /\ \A c \in e, d \in M \ e : Precedes(c, d, up)
  BY <1>0 DEF IsHead, M
<1>3. ASSUME NEW c \in M \ e
      PROVE  c \in {d \in S : \A x \in e \cup ({k} \ {None}) : Precedes(x, d, up)}
  BY <1>0, <1>1, <1>3
<1>4. ASSUME NEW c \in S, \A x \in e \cup ({k} \ {None}) : Precedes(x, c, up)
      PROVE  c \in M \ e
  <2>1. c \in M
    BY <1>0, <1>4
  <2>2. c \notin e
    BY <1>4, PrecedesAsymmetric
  <2> QED BY <2>1, <2>2
<1> QED BY <1>1, <1>3, <1>4 DEF RowsAhead, M

\* There are rows behind it if the row of k is there and the page has an edge, and
\* none if there is no cursor.
LEMMA SideBehind ==
  ASSUME NEW S \in SUBSET Cursor, NEW k \in Cursor \cup {None}, NEW up \in BOOLEAN,
         NEW n \in Nat, n >= 1,
         NEW e, IsHead(e, RowsBeyond(S, k, up), n, up)
  PROVE  /\ k = None => RowsBehind(S, e, up) = {}
         /\ k \in S /\ e # {} => RowsBehind(S, e, up) # {}
<1> DEFINE M == RowsBeyond(S, k, up)
<1>0. M = {c \in S : k # None => Precedes(k, c, up)}
  BY DEF RowsBeyond
<1>4. e = {} => M = {}
  BY FS_EmptySet DEF IsHead
<1> HIDE DEF M
<1>1. e \subseteq M /\ M \subseteq S /\ \A c \in e, d \in M \ e : Precedes(c, d, up)
  BY <1>0 DEF IsHead, M
<1>2. ASSUME k = None, NEW c \in S, \A x \in e : Precedes(c, x, up) PROVE FALSE
  <2>1. c \in M
    BY <1>0, <1>2
  <2>2. c \notin e
    BY <1>2, PrecedesAsymmetric
  <2>3. PICK x \in e : TRUE
    BY <1>4, <2>1
  <2>4. Precedes(x, c, up) /\ Precedes(c, x, up) /\ x \in Cursor
    BY <1>1, <1>2, <2>1, <2>2
  <2> QED BY <2>4, PrecedesAsymmetric
<1>3. ASSUME k \in S, e # {} PROVE \A x \in e : Precedes(k, x, up)
  BY <1>0, <1>1, <1>3, NoneAssumption
<1> QED BY <1>2, <1>3 DEF RowsBehind

\* The flag for the direction of the walk says whether the connection has rows on
\* that side of the page, and the other one does if the row of the cursor is there
\* and the page has an edge, unless something happened between getQuery() and the load.
THEOREM FlagsAreTold == Spec => []FlagsTellTheRest
<1>1. RelayInv => FlagsTellTheRest
  <2> DEFINE q == request
             M == Matching(q)
             e == HeadEdges(q)
             up == Ascending(q)
             Comes(a, b) == Precedes(a, b, ~q.reverse)
             later   == {c \in Rows : \A x \in page.edges \cup ({q.after} \ {None}) : Comes(x, c)}
             earlier == {c \in Rows : \A x \in page.edges \cup ({q.before} \ {None}) : Comes(c, x)}
             anchored == \/ {q.after, q.before} \ {None} = {}
                         \/ {q.after, q.before} \ {None} \subseteq Rows /\ page.edges # {}
  <2> SUFFICES ASSUME RelayInv, status = "answered", gap = {}
               PROVE  /\ q.first # None \/ anchored => (page.next <=> later # {})
                      /\ q.last # None \/ anchored => (page.previous <=> earlier # {})
    BY DEF FlagsTellTheRest
  <2>1. /\ q \in Request /\ AssertValidPagination(q) /\ Rows \in SUBSET Cursor
        /\ q.reverse \in BOOLEAN /\ up \in BOOLEAN
    BY RowsAreCursors DEF RelayInv, TypeOK, Request, Ascending
  <2>2. /\ page.edges = e /\ IsHead(e, M, Limit(q), up)
        /\ e = {} => ~page.next /\ ~page.previous
        /\ e # {} => /\ page.next <=> q.before # None \/ (q.first # None /\ M # e)
                     /\ page.previous <=> q.after # None \/ (q.last # None /\ M # e)
    BY DEF RelayInv, Describes, NoPage
  <2>3. Limit(q) \in Nat /\ Limit(q) >= 1
    BY <2>1, MatchingIsRange
  <2>4. CASE q.first # None
    <3>1. q.last = None /\ q.before = None /\ q.after \in Cursor \cup {None}
      BY <2>1, <2>4 DEF AssertValidPagination, Request
    <3>5. up = ~q.reverse
      BY <2>1, <2>4, MatchingIsRange
    <3>2. M = RowsBeyond(Rows, q.after, up)
      BY <2>1, <3>1, <3>5, MatchingIsRange DEF RowsBeyond
    <3>3. /\ later = RowsAhead(Rows, e, q.after, up)
          /\ earlier = RowsBehind(Rows, e, up)
      BY <2>2, <3>1, <3>5 DEF RowsAhead, RowsBehind
    <3> HIDE DEF M, e, up, later, earlier
    <3>4. /\ later # {} <=> M # e
          /\ e = {} => M = {}
          /\ q.after = None => earlier = {}
          /\ q.after \in Rows /\ e # {} => earlier # {}
      <4>1. IsHead(e, RowsBeyond(Rows, q.after, up), Limit(q), up)
        BY <2>2, <3>2
      <4> HIDE DEF q
      <4>2. RowsAhead(Rows, e, q.after, up) = RowsBeyond(Rows, q.after, up) \ e
        BY <2>1, <2>3, <3>1, <4>1, SideAhead
      <4>3. /\ q.after = None => RowsBehind(Rows, e, up) = {}
            /\ q.after \in Rows /\ e # {} => RowsBehind(Rows, e, up) # {}
        BY <2>1, <2>3, <3>1, <4>1, SideBehind
      <4>4. e \subseteq RowsBeyond(Rows, q.after, up)
        BY <4>1 DEF IsHead
      <4>5. e = {} => RowsBeyond(Rows, q.after, up) = {}
        BY <2>3, <4>1, FS_EmptySet DEF IsHead
      <4> QED BY <3>2, <3>3, <4>2, <4>3, <4>4, <4>5
    <3> QED BY <2>2, <2>4, <3>1, <3>4
  <2>5. CASE q.last # None
    <3>1. q.first = None /\ q.after = None /\ q.before \in Cursor \cup {None}
      BY <2>1, <2>5 DEF AssertValidPagination, Request
    <3>6. up = q.reverse
      BY <2>1, <2>5, MatchingIsRange
    <3>2. \A a, b : Comes(a, b) <=> Precedes(b, a, up)
      BY <2>1, <3>6 DEF Precedes
    <3>3. M = RowsBeyond(Rows, q.before, up)
      BY <2>1, <3>1, <3>2, MatchingIsRange DEF RowsBeyond
    <3>4. /\ earlier = RowsAhead(Rows, e, q.before, up)
          /\ later = RowsBehind(Rows, e, up)
      BY <2>2, <3>1, <3>2 DEF RowsAhead, RowsBehind
    <3> HIDE DEF M, e, up, later, earlier
    <3>5. /\ earlier # {} <=> M # e
          /\ e = {} => M = {}
          /\ q.before = None => later = {}
          /\ q.before \in Rows /\ e # {} => later # {}
      <4>1. IsHead(e, RowsBeyond(Rows, q.before, up), Limit(q), up)
        BY <2>2, <3>3
      <4> HIDE DEF q
      <4>2. RowsAhead(Rows, e, q.before, up) = RowsBeyond(Rows, q.before, up) \ e
        BY <2>1, <2>3, <3>1, <4>1, SideAhead
      <4>3. /\ q.before = None => RowsBehind(Rows, e, up) = {}
            /\ q.before \in Rows /\ e # {} => RowsBehind(Rows, e, up) # {}
        BY <2>1, <2>3, <3>1, <4>1, SideBehind
      <4>4. e \subseteq RowsBeyond(Rows, q.before, up)
        BY <4>1 DEF IsHead
      <4>5. e = {} => RowsBeyond(Rows, q.before, up) = {}
        BY <2>3, <4>1, FS_EmptySet DEF IsHead
      <4> QED BY <3>3, <3>4, <4>2, <4>3, <4>4, <4>5
    <3> QED BY <2>2, <2>5, <3>1, <3>5
  <2> QED BY <2>1, <2>4, <2>5 DEF AssertValidPagination
<1> QED BY <1>1, RelayInit, RelayStep, PTL DEF Spec
=============================================================================
