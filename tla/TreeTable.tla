----------------------------- MODULE TreeTable -----------------------------
(* jquery.treetable.js: a table whose rows form a forest.  The plugin keeps  *)
(* the forest three times: in its nodes (parent and children), in the order  *)
(* of the rows of the page, and in what it shows.  One action is one call of *)
(* a method or one click; scripts of a page do not interleave.               *)
(* An array is a set with an order: "above" orders the rows of the page,     *)
(* "order" the children of every node.                                       *)
EXTENDS Integers, Sequences, FiniteSets, SequencesExt

CONSTANTS
  Id,        \* values of data-tt-id
  None,      \* no parent
  Tables,    \* tables of the page, as sequences of rows
  Batches,   \* sequences of rows that scripts load into a node
  BranchRows,\* rows with data-tt-branch
  Settings,  \* options passed to init()
  SortKeys,  \* orders to sort by
  MaxEdits,  \* bound: calls that change the forest
  MaxWorn    \* bound: how worn the rows are that init() or destroy() is called on

\* The ids of a sequence of rows, their parents, and which of two is above the other.
Ids(rows) == {rows[i].id : i \in DOMAIN rows}
ParentId(rows, n) == rows[CHOOSE i \in DOMAIN rows : rows[i].id = n].parent
RowOrder(rows) ==
  {<<rows[p[1]].id, rows[p[2]].id>> :
     p \in {q \in (DOMAIN rows) \X (DOMAIN rows) : q[1] < q[2]}}

\* Ids are unique and a parent's row comes before its children's.
Rows(rows) ==
  /\ rows \in Seq([id: Id, parent: Id \cup {None}])
  /\ \A i, j \in DOMAIN rows : rows[i].id = rows[j].id => i = j
  /\ \A i \in DOMAIN rows : rows[i].parent # None =>
       \E j \in 1..(i - 1) : rows[j].id = rows[i].parent

ASSUME ConfigAssumption ==
  /\ None \notin Id
  /\ \A rows \in Tables \cup Batches : Rows(rows)
  /\ BranchRows \subseteq Id
  /\ Settings \subseteq [expandable: BOOLEAN, initialState: {"collapsed", "expanded"}]
  /\ SortKeys \subseteq [Id -> Int]
  /\ MaxEdits \in Nat /\ MaxWorn \in Nat

VARIABLES
  tree,      \* the ids in Tree.tree
  nodes,     \* Tree.nodes, in the order in which they were loaded
  parent,    \* parentId of a node and of its row
  children,  \* children of a node
  order,     \* <<a, b>>: a comes before b among the children of their parent
  above,     \* <<a, b>>: the row of a comes before the row of b
  view,      \* classes and visibility of the rows, widths of their nodes' indenters
  worn,      \* widths of the indenters that earlier initializations left in the rows
  settings,
  alive,     \* whether the table has its Tree: FALSE after destroy()
  edits,     \* number of calls that changed the forest
  strayed,   \* history: a call has put a row where it is not shown or hidden as
             \* its new place requires
  mixed      \* history: rows were loaded into a branch whose rows on the page
             \* are not in the order of its children

forest == <<tree, nodes, parent, children, order, above>>
vars == <<forest, view, worn, settings, alive, edits, strayed, mixed>>

---------------------------------------------------------------------------
(* Nodes                                                                   *)
---------------------------------------------------------------------------
\* ancestors(), by the parents pa; and the descendants, by the children ch.
Ancestors(pa, n) ==
  LET parents == {pa[x] : x \in Id} \ {None}
      closed  == {S \in SUBSET parents : \A x \in S \cup {n} : pa[x] \in S \cup {None}}
  IN {a \in parents : \A S \in closed : a \in S}
Descendants(ch, n) ==
  LET below  == UNION {ch[x] : x \in Id}
      closed == {S \in SUBSET below : \A x \in S \cup {n} : ch[x] \subseteq S}
  IN {d \in below : \A S \in closed : d \in S}

Level(pa, n) == Cardinality(Ancestors(pa, n))
IsBranchNode(ch, n) == ch[n] # {} \/ n \in BranchRows

\* The pairs of a branch D in the order of a walk that visits a node before its
\* children, these in the order "or".
WalkOrder(pa, or, D) ==
  LET Line(x) == {x} \cup Ancestors(pa, x) IN
  {q \in D \X D :
     \/ q[1] \in Ancestors(pa, q[2])
     \/ \E p \in or : p[1] \in Line(q[1]) /\ p[2] \in Line(q[2])}

\* Mutant: setParent() does not take the node from its old parent.
SplicedNothing(p, n) == {}

\* removeChild() finds the child in the array; for one that is not there
\* splice(-1, 1) takes the last instead.
Spliced(p, n) ==
  IF n \in children[p] THEN {n}
  ELSE {c \in children[p] : \A d \in children[p] \ {c} : <<d, c>> \in order}

\* Mutant: the last child, without those below it.
FindLastChild(n) ==
  {l \in {n} \cup children[n] :
     /\ l = n => children[n] = {}
     /\ \A c \in children[n] : <<l, c>> \notin order}

\* findLastNode(): the last child of the last child, and so on; a set of one node.
FindLastNode(n) ==
  {l \in {n} \cup Descendants(children, n) :
     /\ children[l] = {}
     /\ \A p \in order : p[1] \in Descendants(children, n) =>
          p[1] \notin {l} \cup Ancestors(parent, l)}

---------------------------------------------------------------------------
(* What the page shows                                                     *)
---------------------------------------------------------------------------
Collapsing(s) == s.expandable /\ s.initialState = "collapsed"

\* Mutant: the indentation is set once.
RenderOnce(s, pa, ch, v, N) ==
  [v EXCEPT
     !.expander = @ \cup {n \in N : s.expandable /\ IsBranchNode(ch, n)},
     !.indent   = [n \in Id |-> IF n \in N /\ @[n] = 0 THEN Level(pa, n) ELSE @[n]]]

\* render() of the nodes N: the expander, if there is something to expand, and
\* the indentation.
Render(s, pa, ch, v, N) ==
  [v EXCEPT
     !.expander = @ \cup {n \in N : s.expandable /\ IsBranchNode(ch, n)},
     !.indent   = [n \in Id |-> IF n \in N THEN Level(pa, n) ELSE @[n]]]

\* Mutant: a node hides its children and leaves the rows below them.
HideChildrenOnly(ch, v, n) == [v EXCEPT !.shown = @ \ ch[n]]

HideChildren(ch, v, n) == [v EXCEPT !.shown = @ \ Descendants(ch, n)]

Collapse(ch, v, n) ==
  IF v.class[n] = "collapsed" THEN v
  ELSE HideChildren(ch, [v EXCEPT !.class[n] = "collapsed"], n)

\* show() of siblings N.  A node that is shown for the first time is initialized:
\* rendered, and collapsed or expanded as the settings say.  show() goes on with
\* the children of the nodes that are expanded then.
Show(s, pa, ch, v, N) ==
  LET Open(n) == IF n \in v.ready THEN v.class[n] = "expanded" ELSE ~Collapsing(s)
      below   == (UNION {ch[x] : x \in Id}) \ N
      closed  == {S \in SUBSET below : \A x \in S \cup N : Open(x) => ch[x] \subseteq S \cup N}
      visited == N \cup {d \in below : \A S \in closed : d \in S}
      new     == visited \ v.ready
      closing == {n \in new : Collapsing(s) /\ v.class[n] # "collapsed"}
      state   == IF Collapsing(s) THEN "collapsed" ELSE "expanded"
  IN Render(s, pa, ch,
       [v EXCEPT
          !.shown = (@ \ UNION {Descendants(ch, n) : n \in closing}) \cup visited,
          !.class = [n \in Id |-> IF n \in new THEN state ELSE @[n]],
          !.ready = @ \cup new], new)

Expand(s, pa, ch, v, n) ==
  LET w == [v EXCEPT !.class[n] = "expanded"] IN
  CASE v.class[n] = "expanded" -> v
    [] v.class[n] # "expanded" /\ n \in v.shown -> Show(s, pa, ch, w, ch[n])
    [] OTHER -> w

\* expandNode() initializes the node first; in a collapsing table this collapses
\* it, with the effects on its children, before it is expanded.
Initialize(s, pa, ch, v, n) ==
  LET w == Render(s, pa, ch, v, {n}) IN
  [(IF Collapsing(s) THEN Collapse(ch, w, n) ELSE Expand(s, pa, ch, w, n))
     EXCEPT !.ready = @ \cup {n}]

\* updateBranchLeafClass() of the nodes N.
Branches(ch, v, N) ==
  [v EXCEPT !.branch = (@ \ N) \cup {n \in N : IsBranchNode(ch, n)}]

\* The rows D leave the page.
Forget(v, D) ==
  [class    |-> [n \in Id |-> IF n \in D THEN "none" ELSE v.class[n]],
   indent   |-> [n \in Id |-> IF n \in D THEN 0 ELSE v.indent[n]],
   shown    |-> v.shown \ D,    ready  |-> v.ready \ D,
   expander |-> v.expander \ D, branch |-> v.branch \ D]

---------------------------------------------------------------------------
(* The forest                                                              *)
---------------------------------------------------------------------------
\* Mutant: the rows are put above that of "at".
InsertBefore(D, at, inner) ==
  inner
  \cup {p \in above : p[1] \notin D /\ p[2] \notin D}
  \cup {p \in (tree \ D) \X D : \A r \in at : <<p[1], r>> \in above}
  \cup {p \in D \X (tree \ D) : \E r \in at : r = p[2] \/ <<r, p[2]>> \in above}

\* The order of the rows after those of D, ordered among themselves as "inner" says,
\* were put below the row in the set "at", or, if it is empty, at the end.
InsertAfter(D, at, inner) ==
  inner
  \cup {p \in above : p[1] \notin D /\ p[2] \notin D}
  \cup {p \in (tree \ D) \X D : \A r \in at : p[1] = r \/ <<p[1], r>> \in above}
  \cup {p \in D \X (tree \ D) : \E r \in at : <<r, p[2]>> \in above}

\* loadRows(): of the new nodes, in the order "inner", those whose parent is in
\* the tree by then become its children.
NewChildren(pa, old, new, inner) ==
  [p \in Id |-> {n \in new : pa[n] = p /\ (p \in old \/ <<p, n>> \in inner)}]

\* Children c and d of one node, the latter new and loaded after the former.
NewOrder(ch, new, inner) ==
  {p \in Id \X new : /\ \E n \in Id : p[1] \in ch[n] /\ p[2] \in ch[n]
                     /\ p[1] \in new => p \in inner
                     /\ p[1] # p[2]}

\* The constructor of Tree, loadRows() of all rows of the table and render().
Load(tr, pa, rowOrder, v, s) ==
  LET ch    == NewChildren(pa, {}, tr, rowOrder)
      roots == tr \ UNION {ch[n] : n \in tr}
      fresh == [v EXCEPT !.ready = {}, !.indent = [n \in Id |-> 0]]
  IN /\ children' = ch
     /\ order' = NewOrder(ch, tr, rowOrder)
     /\ nodes' = [i \in 1..Cardinality(tr) |-> CHOOSE n \in tr :
                    Cardinality({m \in tr : <<m, n>> \in rowOrder}) = i - 1]
     /\ view' = Show(s, pa, ch, Branches(ch, fresh, tr), roots)

\* How far a row is indented: every indenter in its cell takes its width.
Indentation(n) == worn[n] + view.indent[n]
Initializable == \A n \in tree : worn[n] <= MaxWorn

\* init() with "force", or after destroy().  Ids and parents are read from the
\* rows; classes and visibility are what they were, and a new indenter is put
\* before those of the nodes there were, which stay in the cells.
Reinit(s) ==
  /\ Initializable
  /\ Load(tree, parent, above, view, s)
  /\ worn' = [n \in Id |-> Indentation(n)]
  /\ settings' = s
  /\ alive' = TRUE
  /\ UNCHANGED <<tree, parent, above, edits, strayed, mixed>>

Destroy ==
  /\ alive
  /\ Initializable
  /\ alive' = FALSE
  /\ UNCHANGED <<forest, view, worn, settings, edits, strayed, mixed>>

\* Calls that change what is shown and nothing else.
Shows(v) ==
  /\ alive
  /\ view' = v
  /\ UNCHANGED <<forest, worn, settings, alive, edits, strayed, mixed>>

Expanding(v, n)  == Expand(settings, parent, children, v, n)
Collapsed(v, n)  == Collapse(children, v, n)

\* Mutant: the nodes are expanded from the last to the first.
ExpandedBackwards(seq) ==
  LET v[i \in 0..Len(seq)] == IF i = 0 THEN view ELSE Expanding(v[i - 1], seq[Len(seq) + 1 - i])
  IN v[Len(seq)]

\* The views after each of a sequence of nodes was expanded, or collapsed.
ExpandedIn(seq) ==
  LET v[i \in 0..Len(seq)] == IF i = 0 THEN view ELSE Expanding(v[i - 1], seq[i])
  IN v[Len(seq)]
CollapsedIn(seq) ==
  LET v[i \in 0..Len(seq)] == IF i = 0 THEN view ELSE Collapsed(v[i - 1], seq[i])
  IN v[Len(seq)]

ExpandedAll == ExpandedIn(nodes)

ExpandAll   == Shows(ExpandedAll)
CollapseAll == Shows(CollapsedIn(nodes))

ExpandNode(n) ==
  /\ n \in tree
  /\ Shows(Expanding(IF n \in view.ready THEN view
                     ELSE Initialize(settings, parent, children, view, n), n))

CollapseNode(n) == n \in tree /\ Shows(Collapsed(view, n))

\* The handler of the expander, which is on the page if its row is shown.
Toggle(n) ==
  /\ n \in tree \cap view.shown \cap view.expander
  /\ Shows(IF view.class[n] = "expanded" THEN Collapsed(view, n) ELSE Expanding(view, n))

\* Ancestors first.
Revealed(n) ==
  LET line == {n} \cup Ancestors(parent, n)
      path == [i \in 1..Cardinality(line) |-> CHOOSE m \in line : Level(parent, m) = i - 1]
  IN ExpandedIn(path)

Reveal(n) == n \in tree /\ Shows(Revealed(n))

Edit == alive /\ edits < MaxEdits /\ edits' = edits + 1

\* Rows that come without a parent are given n.
LoadBranch(n, rows) ==
  LET new    == Ids(rows)
      inner  == RowOrder(rows)
      pa     == [m \in Id |->
                   IF m \notin new THEN parent[m]
                   ELSE IF ParentId(rows, m) = None THEN n ELSE ParentId(rows, m)]
      added  == NewChildren(pa, tree, new, inner)
      ch     == [p \in Id |-> children[p] \cup added[p]]
      page   == Branches(ch, [view EXCEPT !.shown = @ \cup new], tree \cup new)
      v[i \in 0..Len(rows)] ==
        IF i = 0 THEN page ELSE Show(settings, pa, ch, v[i - 1], {rows[i].id})
      loaded == v[Len(rows)]
  IN
  /\ Edit
  /\ n \in tree \cup {None}
  /\ new \cap tree = {}
  /\ parent' = pa
  /\ children' = ch
  /\ order' = order \cup NewOrder(ch, new, inner)
  /\ tree' = tree \cup new
  /\ nodes' = nodes \o [i \in DOMAIN rows |-> rows[i].id]
  /\ above' = InsertAfter(new, IF n = None THEN {} ELSE FindLastNode(n), inner)
  /\ view' = IF n = None THEN loaded
             ELSE Expand(settings, pa, ch, Render(settings, pa, ch, loaded, {n}), n)
  /\ strayed' = (strayed \/ (n # None /\ n \notin view.shown)
                 \/ (Collapsing(settings) /\ \E i \in DOMAIN rows : rows[i].parent # None))
  /\ mixed' = (mixed \/ \E p \in order :
                 n # None /\ p[1] \in Descendants(children, n) /\ p \notin above)
  /\ UNCHANGED <<worn, settings, alive>>

\* Mutant: a node may be moved below itself.
MovesBelowItself(n, d) == n # d /\ d # parent[n]

\* Is n moved?  Otherwise it would stay where it is, or below itself.
Moves(n, d) == n # d /\ d # parent[n] /\ n \notin Ancestors(parent, d)

\* setParent(), _moveRows(), the expander of a node that gets its first child.
Move(n, d) ==
  LET old    == parent[n]
      gone   == IF old = None THEN {} ELSE Spliced(old, n)
      pa     == [parent EXCEPT ![n] = d]
      ch     == [p \in Id |-> (children[p] \ (IF p = old THEN gone ELSE {}))
                              \cup (IF p = d THEN {n} ELSE {})]
      or     == {p \in order : p[1] \notin gone /\ p[2] \notin gone}
                  \cup (children[d] \X {n})
      branch == {n} \cup Descendants(ch, n)
      redraw == branch \cup (IF ch[d] = {n} THEN {d} ELSE {})
  IN
  /\ Edit
  /\ n \in tree /\ d \in tree
  /\ Moves(n, d)
  /\ parent' = pa
  /\ children' = ch
  /\ order' = or
  /\ above' = InsertAfter(branch, {d}, WalkOrder(pa, or, branch))
  /\ view' = Branches(ch, Render(settings, pa, ch, view, redraw), {n, d, old} \ {None})
  /\ strayed' = (strayed \/
       (n \in view.shown) # (d \in view.shown /\ view.class[d] = "expanded"))
  /\ UNCHANGED <<tree, nodes, worn, settings, alive, mixed>>

\* A refused move only corrects the classes.
MoveRefused(n, d) ==
  /\ n \in tree /\ d \in tree
  /\ ~Moves(n, d)
  /\ Shows(Branches(children, view, {n, parent[n]} \ {None}))

\* Mutant: nodes are deleted from Tree.tree only.
NodesDeleted(D) == nodes

NodesWithout(D) ==
  LET kept[i \in 0..Len(nodes)] ==
        IF i = 0 THEN <<>>
        ELSE IF nodes[i] \in D THEN kept[i - 1] ELSE Append(kept[i - 1], nodes[i])
  IN kept[Len(nodes)]

\* The nodes D, a branch or what is below one, leave the tree and the page.
Prune(D, pruned, v) ==
  /\ Edit
  /\ tree' = tree \ D
  /\ nodes' = NodesWithout(D)
  /\ parent' = [n \in Id |-> IF n \in D THEN None ELSE parent[n]]
  /\ children' = [n \in Id |-> IF n \in D THEN {} ELSE pruned[n]]
  /\ order' = {p \in order : \E n \in Id : p[1] \in children'[n] /\ p[2] \in children'[n]}
  /\ above' = {p \in above : p[1] \notin D /\ p[2] \notin D}
  /\ view' = Forget(v, D)
  /\ worn' = [n \in Id |-> IF n \in D THEN 0 ELSE worn[n]]
  /\ UNCHANGED <<settings, alive, strayed, mixed>>

RemoveNode(n) ==
  /\ n \in tree
  /\ Prune({n} \cup Descendants(children, n),
            IF parent[n] = None THEN children
            ELSE [children EXCEPT ![parent[n]] = @ \ Spliced(parent[n], n)],
            view)

UnloadBranch(n) ==
  LET none == [children EXCEPT ![n] = {}] IN
  /\ n \in tree
  /\ Prune(Descendants(children, n), none, Branches(none, view, {n}))

\* A stable sort, and the rows of the branch put below that of n again.
SortBranch(n, key) ==
  LET Sorted(a, b) == key[a] < key[b] \/ (key[a] = key[b] /\ <<a, b>> \in order)
      or    == {p \in order : p[1] \notin children[n]} \cup
               {p \in children[n] \X children[n] : Sorted(p[1], p[2])}
      below == Descendants(children, n)
  IN
  /\ Edit
  /\ n \in tree
  /\ order' = or
  /\ above' = InsertAfter(below, {n}, WalkOrder(parent, or, below))
  /\ view' = Render(settings, parent, children, view, {n} \cup below)
  /\ UNCHANGED <<tree, nodes, parent, children, worn, settings, alive, strayed, mixed>>

\* A table as the server sends it: every row is shown and has no class.
Init ==
  \E rows \in Tables, s \in Settings :
    LET up == [n \in Id |-> IF n \in Ids(rows) THEN ParentId(rows, n) ELSE None]
        ch == NewChildren(up, {}, Ids(rows), RowOrder(rows))
        page == [class |-> [n \in Id |-> "none"], indent |-> [n \in Id |-> 0],
                 shown |-> Ids(rows), ready |-> {}, expander |-> {}, branch |-> {}]
    IN /\ tree = Ids(rows)
       /\ nodes = [i \in DOMAIN rows |-> rows[i].id]
       /\ parent = up
       /\ children = ch
       /\ order = NewOrder(ch, Ids(rows), RowOrder(rows))
       /\ above = RowOrder(rows)
       /\ view = Show(s, up, ch, Branches(ch, page, Ids(rows)),
                      {n \in Ids(rows) : up[n] = None})
       /\ worn = [n \in Id |-> 0]
       /\ settings = s /\ alive = TRUE
       /\ edits = 0 /\ strayed = FALSE /\ mixed = FALSE

Next ==
  \/ Destroy \/ ExpandAll \/ CollapseAll
  \/ \E s \in Settings : Reinit(s)
  \/ \E n \in Id : \/ ExpandNode(n) \/ CollapseNode(n) \/ Toggle(n) \/ Reveal(n)
                   \/ RemoveNode(n) \/ UnloadBranch(n)
                   \/ \E d \in Id : Move(n, d) \/ MoveRefused(n, d)
                   \/ \E key \in SortKeys : SortBranch(n, key)
  \/ \E n \in Id \cup {None}, rows \in Batches : LoadBranch(n, rows)

Spec == Init /\ [][Next]_vars

---------------------------------------------------------------------------
View == [class: [Id -> {"none", "collapsed", "expanded"}], indent: [Id -> Nat],
         shown: SUBSET tree, ready: SUBSET tree, expander: SUBSET tree,
         branch: SUBSET tree]

\* Tree.tree, Tree.nodes, the arrays of children and the rows on the page speak of
\* the same nodes: removeNode() leaves nothing of a branch behind in any of them.
TypeOK ==
  /\ tree \subseteq Id
  /\ nodes \in Seq(tree) /\ ToSet(nodes) = tree
  /\ parent \in [Id -> tree \cup {None}]
  /\ children \in [Id -> SUBSET tree]
  /\ order \subseteq tree \X tree
  /\ above \subseteq tree \X tree
  /\ view \in View
  /\ worn \in [Id -> Nat]

\* Parents never lead back to a node, however branches are moved, removed and loaded
\* again: ancestors() and the recursion over the children end (lines 40-48, 318).
TreeIsForest ==
  \A S \in SUBSET tree : S # {} => \E n \in S : parent[n] \notin S

\* The children of a node are the nodes that have it as their parent.  removeChild()
\* rests on this: for a node that it does not find it takes out another (line 131).
ChildrenAgree ==
  \A p \in tree : children[p] = {n \in tree : parent[n] = p}

\* The row of a node is below those of its ancestors: loadRows() would make a node
\* whose parent comes later a root when the table is initialized again (line 293).
RowsBelow == \A n \in tree : \A a \in Ancestors(parent, n) : <<a, n>> \in above

\* No other row is between a node and its descendants, after moves and sorts too.
\* moved nodes come last in the array of children and first on the page (lines 175,
\* 403), and rows that are then put after the last of the array can end up in the
\* middle of another branch (line 521): "mixed".
SubtreesTogether ==
  ~mixed => \A n \in tree : LET D == Descendants(children, n) IN
    \A d \in D, o \in tree \ (D \cup {n}) : ~(<<n, o>> \in above /\ <<o, d>> \in above)

\* A row is shown exactly if all its ancestors are expanded, also those that have
\* not been initialized.  A move shows and hides nothing, and loadBranch() shows its
\* rows wherever they are (lines 309-337, 528): "strayed".
ShownIffOpen ==
  ~strayed => \A n \in tree :
    n \in view.shown <=> \A a \in Ancestors(parent, n) : view.class[a] = "expanded"

\* A row that was once shown is indented by its present depth, beside what the
\* indenters of earlier initializations add (line 33; nothing removes them, line 71),
\* and can be expanded if it has children, wherever it was moved to (lines 134-159,
\* 324, 404, 533).
Rendered ==
  \A n \in view.ready :
    /\ Indentation(n) = worn[n] + Level(parent, n)
    /\ IsBranchNode(children, n) =>
         /\ n \in view.branch
         /\ settings.expandable => n \in view.expander

\* Of nodes that were never shown, those above were loaded before those below.
LoadedInOrder ==
  \A i \in DOMAIN nodes : \A a \in Ancestors(parent, nodes[i]) :
    nodes[i] \notin view.ready => \E j \in 1..(i - 1) : nodes[j] = a

\* expandAll() shows every row.  It goes through the nodes as they were loaded; one
\* that is expanded before it is first shown is collapsed again when it is (lines
\* 213, 262-271), so that nodes moved below later ones can stay hidden.
ExpandAllShowsAll == alive /\ ~strayed /\ LoadedInOrder => ExpandedAll.shown = tree

\* reveal() shows the node and leaves it expanded, also if it was never shown before
\* (lines 161-166).
RevealShows ==
  alive /\ ~strayed => \A n \in tree :
    LET v == Revealed(n) IN n \in v.shown /\ v.class[n] = "expanded"
===========================================================================
