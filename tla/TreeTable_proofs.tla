-------------------------- MODULE TreeTable_proofs --------------------------
(* Proofs about TreeTable: the forest that the plugin keeps stays one, in    *)
(* its nodes, in their children and on the page, and the rows of its branches *)
(* stay together.  What is shown is not part of the argument.                *)
EXTENDS TreeTable, SequenceTheorems, FiniteSetTheorems, WellFoundedInduction, TLAPS

ParentMap == [Id -> Id \cup {None}]
Kids(pa) == [p \in Id |-> {n \in Id : pa[n] = p}]
Forest(tr, pa) == \A S \in SUBSET tr : S # {} => \E n \in S : pa[n] \notin S
Below(tr, pa, ab) == \A n \in tr : \A a \in Ancestors(pa, n) : <<a, n>> \in ab

\* The children of a node are those that have it as their parent; only nodes of
\* the tree have one or are one.
ForestInv ==
  /\ tree \in SUBSET Id
  /\ parent \in [Id -> tree \cup {None}]
  /\ \A n \in Id \ tree : parent[n] = None
  /\ children = Kids(parent)
  /\ Forest(tree, parent)
  /\ Below(tree, parent, above)

---------------------------------------------------------------------------
(* Ancestors and descendants                                               *)
---------------------------------------------------------------------------
LEMMA Minimum ==
  ASSUME NEW T \in SUBSET Nat, T # {}
  PROVE  \E x \in T : \A y \in T : x <= y
<1>1. PICK x \in T : \A y \in T : ~(<<y, x>> \in OpToRel(<, Nat))
  BY NatLessThanWellFounded, WFMin
<1>2. \A y \in T : ~(y < x)
  BY <1>1, Zenon DEF OpToRel
<1>. QED BY <1>2, SMT

\* The ancestors are in every set that holds the parent of n and of its members.
LEMMA AncestorsMin ==
  ASSUME NEW pa \in ParentMap, NEW n \in Id, NEW S,
         \A x \in S \cup {n} : pa[x] \in S \cup {None}
  PROVE  Ancestors(pa, n) \subseteq S
<1>. DEFINE P == {pa[x] : x \in Id} \ {None}
            closed == {T \in SUBSET P : \A x \in T \cup {n} : pa[x] \in T \cup {None}}
<1>1. P \subseteq Id
  BY DEF ParentMap
<1>2. S \cap P \in closed
  BY <1>1
<1>3. Ancestors(pa, n) = {a \in P : \A T \in closed : a \in T}
  BY Zenon DEF Ancestors
<1>. QED BY <1>2, <1>3, Zenon

LEMMA AncestorsClosed ==
  ASSUME NEW pa \in ParentMap, NEW n \in Id
  PROVE  /\ Ancestors(pa, n) \subseteq Id
         /\ \A x \in Ancestors(pa, n) \cup {n} : pa[x] \in Ancestors(pa, n) \cup {None}
<1>. DEFINE P == {pa[x] : x \in Id} \ {None}
            closed == {T \in SUBSET P : \A x \in T \cup {n} : pa[x] \in T \cup {None}}
<1>1. P \subseteq Id
  BY DEF ParentMap
<1>2. Ancestors(pa, n) = {a \in P : \A T \in closed : a \in T}
  BY Zenon DEF Ancestors
<1>3. ASSUME NEW x \in Ancestors(pa, n) \cup {n}, pa[x] # None
      PROVE  pa[x] \in Ancestors(pa, n)
  <2>1. x \in Id /\ pa[x] \in P
    BY <1>1, <1>2, <1>3
  <2>2. ASSUME NEW T \in closed PROVE pa[x] \in T
    <3>1. x \in T \cup {n}
      BY <1>2, <1>3
    <3>. QED BY <3>1, <1>3
  <2>. QED BY <2>1, <2>2, <1>2
<1>. QED BY <1>1, <1>2, <1>3

\* The same for descendants, which follow the children.
LEMMA DescendantsMin ==
  ASSUME NEW pa \in ParentMap, NEW n \in Id, NEW S,
         \A y \in Id : pa[y] \in S \cup {n} => y \in S
  PROVE  Descendants(Kids(pa), n) \subseteq S
<1>. DEFINE ch == Kids(pa)
            B == UNION {ch[x] : x \in Id}
            closed == {T \in SUBSET B : \A x \in T \cup {n} : ch[x] \subseteq T}
<1>1. B \subseteq Id /\ \A x \in Id : ch[x] = {y \in Id : pa[y] = x}
  BY DEF Kids
<1>2. S \cap B \in closed
  <2>1. ASSUME NEW x \in (S \cap B) \cup {n} PROVE ch[x] \subseteq S \cap B
    <3>1. x \in Id /\ x \in S \cup {n}
      BY <1>1
    <3>2. ch[x] \subseteq B
      BY <3>1
    <3>3. \A y \in ch[x] : y \in Id /\ pa[y] = x
      BY <3>1, <1>1
    <3>. HIDE DEF B, ch
    <3>. QED BY <3>1, <3>2, <3>3
  <2>. QED BY <2>1
<1>3. Descendants(ch, n) = {d \in B : \A T \in closed : d \in T}
  BY Zenon DEF Descendants
<1>. QED BY <1>2, <1>3, Zenon

LEMMA DescendantsClosed ==
  ASSUME NEW pa \in ParentMap, NEW n \in Id
  PROVE  /\ Descendants(Kids(pa), n) \subseteq Id
         /\ \A y \in Id : pa[y] \in Descendants(Kids(pa), n) \cup {n}
                            => y \in Descendants(Kids(pa), n)
<1>. DEFINE ch == Kids(pa)
            B == UNION {ch[x] : x \in Id}
            closed == {T \in SUBSET B : \A x \in T \cup {n} : ch[x] \subseteq T}
<1>1. B \subseteq Id /\ \A x \in Id : ch[x] = {y \in Id : pa[y] = x}
  BY DEF Kids
<1>2. Descendants(ch, n) = {d \in B : \A T \in closed : d \in T}
  BY Zenon DEF Descendants
<1>3. ASSUME NEW y \in Id, pa[y] \in Descendants(ch, n) \cup {n}
      PROVE  y \in Descendants(ch, n)
  <2>1. pa[y] \in Id
    BY <1>1, <1>2, <1>3
  <2>2. y \in ch[pa[y]]
    BY <2>1, <1>1
  <2>3. y \in B
    BY <2>1, <2>2
  <2>4. ASSUME NEW T \in closed PROVE y \in T
    <3>1. pa[y] \in T \cup {n}
      BY <1>2, <1>3
    <3>2. ch[pa[y]] \subseteq T
      BY <3>1
    <3>. QED BY <3>2, <2>2
  <2>. QED BY <2>3, <2>4, <1>2
<1>. QED BY <1>1, <1>2, <1>3

LEMMA DescendantsParent ==
  ASSUME NEW pa \in ParentMap, NEW n \in Id, NEW d \in Descendants(Kids(pa), n)
  PROVE  pa[d] \in Descendants(Kids(pa), n) \cup {n}
<1>. DEFINE D == Descendants(Kids(pa), n)
            S == {y \in D : pa[y] \in D \cup {n}}
<1>1. \A y \in Id : pa[y] \in D \cup {n} => y \in D
  BY DescendantsClosed
<1>2. \A y \in Id : pa[y] \in S \cup {n} => y \in S
  BY <1>1
<1>3. D \subseteq S
  <2>. HIDE DEF S
  <2>. QED BY <1>2, DescendantsMin
<1>. QED BY <1>3

\* The ancestors of n are its parent and those of the parent.
LEMMA AncestorsUp ==
  ASSUME NEW pa \in ParentMap, NEW n \in Id, pa[n] # None
  PROVE  /\ Ancestors(pa, n) \subseteq {pa[n]} \cup Ancestors(pa, pa[n])
         /\ Ancestors(pa, pa[n]) \subseteq Ancestors(pa, n)
<1>1. pa[n] \in Id
  BY DEF ParentMap
<1>. DEFINE S == {pa[n]} \cup Ancestors(pa, pa[n])
<1>2. \A x \in S \cup {n} : pa[x] \in S \cup {None}
  BY <1>1, AncestorsClosed
<1>3. Ancestors(pa, n) \subseteq S
  <2>. HIDE DEF S
  <2>. QED BY <1>2, AncestorsMin
<1>4. \A x \in Ancestors(pa, n) \cup {pa[n]} : pa[x] \in Ancestors(pa, n) \cup {None}
  BY AncestorsClosed
<1>5. Ancestors(pa, pa[n]) \subseteq Ancestors(pa, n)
  BY <1>1, <1>4, AncestorsMin
<1>. QED BY <1>3, <1>5

\* Of nodes outside a set R that the parents never enter, the ancestors stay.
LEMMA AncestorsKept ==
  ASSUME NEW pa \in ParentMap, NEW pb \in ParentMap, NEW R, NEW n \in Id \ R,
         \A x \in Id \ R : pb[x] = pa[x] /\ pb[x] \notin R
  PROVE  Ancestors(pb, n) \subseteq Ancestors(pa, n) \ R
<1>. DEFINE S == Ancestors(pa, n) \ R
<1>1. \A x \in S \cup {n} : pb[x] \in S \cup {None}
  BY AncestorsClosed
<1>. HIDE DEF S
<1>2. Ancestors(pb, n) \subseteq S
  BY <1>1, AncestorsMin
<1>. QED BY <1>2 DEF S

\* Above a node of the branch of n are nodes of the branch and what is above n.
LEMMA BranchAncestors ==
  ASSUME NEW pa \in ParentMap, NEW n \in Id,
         NEW x \in {n} \cup Descendants(Kids(pa), n)
  PROVE  Ancestors(pa, x) \subseteq {n} \cup Descendants(Kids(pa), n) \cup Ancestors(pa, n)
<1>. DEFINE D == Descendants(Kids(pa), n)
            S == {n} \cup D \cup Ancestors(pa, n)
<1>1. x \in Id
  BY DescendantsClosed
<1>2. \A y \in S \cup {x} : pa[y] \in S \cup {None}
  BY DescendantsParent, AncestorsClosed
<1>. HIDE DEF S
<1>3. Ancestors(pa, x) \subseteq S
  BY <1>1, <1>2, AncestorsMin
<1>. QED BY <1>3 DEF S

LEMMA DescendantsAncestors ==
  ASSUME NEW pa \in ParentMap, None \notin Id, NEW n \in Id,
         NEW d \in Descendants(Kids(pa), n)
  PROVE  {n} \cup Ancestors(pa, n) \subseteq Ancestors(pa, d)
<1>. DEFINE S == {y \in Id : {n} \cup Ancestors(pa, n) \subseteq Ancestors(pa, y)}
<1>1. ASSUME NEW y \in Id, pa[y] \in S \cup {n} PROVE y \in S
  <2>1. pa[y] \in Id /\ pa[y] # None
    BY <1>1
  <2>2. pa[y] \in Ancestors(pa, y) /\ Ancestors(pa, pa[y]) \subseteq Ancestors(pa, y)
    BY <2>1, AncestorsClosed, AncestorsUp
  <2>. QED BY <2>2, <1>1
<1>. HIDE DEF S
<1>2. d \in S
  BY <1>1, DescendantsMin
<1>. QED BY <1>2 DEF S

---------------------------------------------------------------------------
(* Rows as they are loaded                                                 *)
---------------------------------------------------------------------------
\* A row's parent is none or comes earlier.
LEMMA RowsParents ==
  ASSUME NEW rows, Rows(rows), None \notin Id
  PROVE  /\ Ids(rows) \subseteq Id
         /\ RowOrder(rows) \subseteq Ids(rows) \X Ids(rows)
         /\ \A m \in Ids(rows) :
              /\ ParentId(rows, m) \in Ids(rows) \cup {None}
              /\ ParentId(rows, m) # None => <<ParentId(rows, m), m>> \in RowOrder(rows)
              /\ \A k \in Ids(rows) : <<k, m>> \in RowOrder(rows) =>
                   /\ ParentId(rows, k) # None
                        => <<ParentId(rows, k), m>> \in RowOrder(rows)
<1>1. rows \in Seq([id: Id, parent: Id \cup {None}])
  BY DEF Rows
<1>2. \A i, j \in DOMAIN rows : rows[i].id = rows[j].id => i = j
  BY DEF Rows
<1>3. DOMAIN rows \subseteq Nat
  BY <1>1
<1>4. \A i, j \in DOMAIN rows : i < j => <<rows[i].id, rows[j].id>> \in RowOrder(rows)
  <2>1. SUFFICES ASSUME NEW i \in DOMAIN rows, NEW j \in DOMAIN rows, i < j
                 PROVE  <<rows[i].id, rows[j].id>> \in RowOrder(rows)
    BY Zenon
  <2>2. <<i, j>> \in {q \in (DOMAIN rows) \X (DOMAIN rows) : q[1] < q[2]}
    BY <2>1
  <2>. QED BY <2>2 DEF RowOrder
<1>5. \A k, m : <<k, m>> \in RowOrder(rows) =>
        \E i, j \in DOMAIN rows : i < j /\ rows[i].id = k /\ rows[j].id = m
  BY DEF RowOrder
<1>6. ASSUME NEW i \in DOMAIN rows, NEW m, m = rows[i].id
      PROVE  /\ ParentId(rows, m) = rows[i].parent
             /\ ParentId(rows, m) # None =>
                  \E j \in DOMAIN rows : j < i /\ rows[j].id = ParentId(rows, m)
  <2>1. (CHOOSE k \in DOMAIN rows : rows[k].id = m) = i
    BY <1>2, <1>6
  <2>2. ParentId(rows, m) = rows[i].parent
    BY <2>1 DEF ParentId
  <2>3. i \in 1..Len(rows)
    BY <1>1
  <2>4. rows[i].parent # None => \E j \in 1..(i - 1) : rows[j].id = rows[i].parent
    BY DEF Rows
  <2>5. \A j \in 1..(i - 1) : j \in DOMAIN rows /\ j < i
    BY <1>1, <2>3
  <2>. QED BY <2>2, <2>4, <2>5
<1>7. Ids(rows) \subseteq Id
  <2>1. \A i \in DOMAIN rows : rows[i] \in [id: Id, parent: Id \cup {None}]
    <3>. DEFINE Row == [id: Id, parent: Id \cup {None}]
    <3>1. rows \in Seq(Row)
      BY <1>1
    <3>. HIDE DEF Row
    <3>2. DOMAIN rows = 1..Len(rows) /\ \A i \in 1..Len(rows) : rows[i] \in Row
      BY <3>1, ElementOfSeq
    <3>. QED BY <3>2 DEF Row
  <2>2. \A i \in DOMAIN rows : rows[i].id \in Id
    BY <2>1
  <2>. QED BY <2>2 DEF Ids
<1>8. RowOrder(rows) \subseteq Ids(rows) \X Ids(rows)
  BY DEF RowOrder, Ids
<1>9. ASSUME NEW m \in Ids(rows)
      PROVE  /\ ParentId(rows, m) \in Ids(rows) \cup {None}
             /\ ParentId(rows, m) # None => <<ParentId(rows, m), m>> \in RowOrder(rows)
  <2>1. PICK i \in DOMAIN rows : rows[i].id = m
    BY DEF Ids
  <2>. QED BY <2>1, <1>4, <1>6 DEF Ids
<1>10. ASSUME NEW m \in Ids(rows), NEW k \in Ids(rows), <<k, m>> \in RowOrder(rows),
              ParentId(rows, k) # None
       PROVE  <<ParentId(rows, k), m>> \in RowOrder(rows)
  <2>1. PICK i, j \in DOMAIN rows : i < j /\ rows[i].id = k /\ rows[j].id = m
    BY <1>5, <1>10
  <2>2. PICK l \in DOMAIN rows : l < i /\ rows[l].id = ParentId(rows, k)
    BY <2>1, <1>6, <1>10
  <2>3. l < j
    BY <2>1, <2>2, <1>3
  <2>. QED BY <2>1, <2>2, <2>3, <1>4
<1>. QED BY <1>7, <1>8, <1>9, <1>10

\* So every set of rows has one whose parent is not in it: the first.
LEMMA RowsForest ==
  ASSUME NEW rows, Rows(rows), None \notin Id,
         NEW S \in SUBSET Ids(rows), S # {}
  PROVE  \E m \in S : ParentId(rows, m) \notin S
<1>1. rows \in Seq([id: Id, parent: Id \cup {None}])
  BY DEF Rows
<1>. DEFINE T == {i \in DOMAIN rows : rows[i].id \in S}
<1>2. T \in SUBSET Nat /\ T # {}
  BY <1>1 DEF Ids
<1>3. PICK i \in T : \A j \in T : i <= j
  <2>. HIDE DEF T
  <2>. QED BY <1>2, Minimum
<1>4. (CHOOSE k \in DOMAIN rows : rows[k].id = rows[i].id) = i
  BY DEF Rows
<1>5. ParentId(rows, rows[i].id) = rows[i].parent
  BY <1>4 DEF ParentId
<1>6. ASSUME rows[i].parent \in S PROVE FALSE
  <2>1. rows[i].parent # None
    BY <1>6, RowsParents
  <2>2. PICK j \in 1..(i - 1) : rows[j].id = rows[i].parent
    BY <2>1 DEF Rows
  <2>3. j \in DOMAIN rows /\ j < i
    BY <2>2, <1>1
  <2>. QED BY <2>2, <2>3, <1>3, <1>6, <1>1
<1>. QED BY <1>5, <1>6

---------------------------------------------------------------------------
(* The steps                                                               *)
---------------------------------------------------------------------------
LEMMA InitForest == Init => ForestInv
<1>. SUFFICES ASSUME Init PROVE ForestInv
  OBVIOUS
<1>. USE ConfigAssumption
<1>1. PICK rows \in Tables :
        /\ tree = Ids(rows)
        /\ parent = [n \in Id |-> IF n \in Ids(rows) THEN ParentId(rows, n) ELSE None]
        /\ children = NewChildren(parent, {}, Ids(rows), RowOrder(rows))
        /\ above = RowOrder(rows)
  BY Zenon DEF Init
<1>2. Rows(rows)
  OBVIOUS
<1>3. /\ tree \in SUBSET Id
      /\ \A m \in tree : /\ parent[m] = ParentId(rows, m)
                         /\ parent[m] \in tree \cup {None}
                         /\ parent[m] # None => <<parent[m], m>> \in above
      /\ \A m \in Id \ tree : parent[m] = None
      /\ parent \in [Id -> tree \cup {None}]
  BY <1>1, <1>2, RowsParents
<1>4. children = Kids(parent)
  <2>1. \A p \in Id : {n \in tree : parent[n] = p /\ (p \in {} \/ <<p, n>> \in above)}
                        = {n \in Id : parent[n] = p}
    BY <1>3
  <2>. QED BY <1>1, <2>1 DEF NewChildren, Kids
<1>5. Forest(tree, parent)
  BY <1>1, <1>2, <1>3, RowsForest DEF Forest
<1>6. Below(tree, parent, above)
  <2>. SUFFICES ASSUME NEW x \in tree PROVE \A a \in Ancestors(parent, x) : <<a, x>> \in above
    BY DEF Below
  <2>. DEFINE S == {k \in tree : <<k, x>> \in above}
  <2>1. \A y \in S \cup {x} : parent[y] \in S \cup {None}
    BY <1>1, <1>2, <1>3, RowsParents
  <2>2. parent \in ParentMap /\ x \in Id
    BY <1>3 DEF ParentMap
  <2>. HIDE DEF S
  <2>3. Ancestors(parent, x) \subseteq S
    BY <2>1, <2>2, AncestorsMin
  <2>. QED BY <2>3 DEF S
<1>. QED BY <1>3, <1>4, <1>5, <1>6 DEF ForestInv

\* Facts of a state that every step uses.
LEMMA ForestFacts ==
  ASSUME ForestInv
  PROVE  /\ parent \in ParentMap
         /\ \A n \in Id : Ancestors(parent, n) \subseteq tree
         /\ \A n \in tree : {n} \cup Descendants(children, n) \subseteq tree
<1>. USE ConfigAssumption
<1>1. parent \in ParentMap
  BY DEF ForestInv, ParentMap
<1>2. ASSUME NEW n \in Id PROVE Ancestors(parent, n) \subseteq tree
  <2>1. \A x \in tree \cup {n} : parent[x] \in tree \cup {None}
    BY DEF ForestInv
  <2>. QED BY <1>1, <2>1, AncestorsMin
<1>3. ASSUME NEW n \in tree PROVE Descendants(children, n) \subseteq tree
  <2>1. \A y \in Id : parent[y] \in tree \cup {n} => y \in tree
    BY DEF ForestInv
  <2>. QED BY <1>1, <2>1, DescendantsMin DEF ForestInv
<1>. QED BY <1>1, <1>2, <1>3 DEF ForestInv

\* Reading the page again finds the same children: every parent comes first.
LEMMA ReinitForest == ASSUME ForestInv, NEW s, Reinit(s) PROVE ForestInv'
<1>. USE ConfigAssumption
<1>1. /\ UNCHANGED <<tree, parent, above>>
      /\ children' = NewChildren(parent, {}, tree, above)
  BY DEF Reinit, Load
<1>2. \A n \in tree : parent[n] # None => <<parent[n], n>> \in above
  BY ForestFacts, AncestorsClosed DEF ForestInv, Below
<1>3. \A p \in Id : {n \in tree : parent[n] = p /\ (p \in {} \/ <<p, n>> \in above)}
                      = {n \in Id : parent[n] = p}
  BY <1>2 DEF ForestInv
<1>4. children' = Kids(parent)
  BY <1>1, <1>3 DEF NewChildren, Kids
<1>. QED BY <1>1, <1>4 DEF ForestInv, Forest, Below

LEMMA PruneForest ==
  ASSUME ForestInv, NEW D \in SUBSET tree, NEW pruned, NEW v, Prune(D, pruned, v),
         \A y \in Id : parent[y] \in D => y \in D,
         \A p \in Id \ D : pruned[p] = children[p] \ D
  PROVE  ForestInv'
<1>. USE ConfigAssumption
<1>1. /\ tree' = tree \ D
      /\ parent' = [n \in Id |-> IF n \in D THEN None ELSE parent[n]]
      /\ children' = [n \in Id |-> IF n \in D THEN {} ELSE pruned[n]]
      /\ above' = {p \in above : p[1] \notin D /\ p[2] \notin D}
  BY DEF Prune
<1>2. /\ tree' \in SUBSET Id
      /\ parent' \in [Id -> tree' \cup {None}]
      /\ \A n \in Id \ tree' : parent'[n] = None
  BY <1>1 DEF ForestInv
<1>3. children' = Kids(parent')
  <2>1. ASSUME NEW p \in Id
        PROVE  (IF p \in D THEN {} ELSE pruned[p]) = {n \in Id : parent'[n] = p}
    BY <1>1 DEF ForestInv, Kids
  <2>. QED BY <1>1, <2>1 DEF Kids
<1>4. Forest(tree', parent')
  <2>. SUFFICES ASSUME NEW S \in SUBSET tree', S # {} PROVE \E n \in S : parent'[n] \notin S
    BY DEF Forest
  <2>1. PICK n \in S : parent[n] \notin S
    BY <1>1 DEF ForestInv, Forest
  <2>. QED BY <1>1, <2>1 DEF ForestInv
<1>5. Below(tree', parent', above')
  <2>. SUFFICES ASSUME NEW x \in tree', NEW a \in Ancestors(parent', x)
                PROVE  <<a, x>> \in above'
    BY DEF Below
  <2>1. parent' \in ParentMap
    BY <1>2 DEF ParentMap, ForestInv
  <2>2. x \in Id \ D /\ x \in tree
    BY <1>1 DEF ForestInv
  <2>3. \A y \in Id \ D : parent'[y] = parent[y] /\ parent'[y] \notin D
    BY <1>1
  <2>4. a \in Ancestors(parent, x) \ D
    BY <2>1, <2>2, <2>3, ForestFacts, AncestorsKept
  <2>. QED BY <1>1, <2>2, <2>4 DEF ForestInv, Below
<1>. QED BY <1>2, <1>3, <1>4, <1>5 DEF ForestInv

LEMMA RemoveForest ==
  ASSUME ForestInv, NEW n \in Id, RemoveNode(n) \/ UnloadBranch(n) PROVE ForestInv'
<1>. USE ConfigAssumption
<1>. DEFINE D == Descendants(children, n)
<1>1. /\ n \in tree
      /\ D \subseteq tree
      /\ \A y \in Id : parent[y] \in D \cup {n} => y \in D
  BY ForestFacts, DescendantsClosed DEF ForestInv, RemoveNode, UnloadBranch
<1>2. \A p \in Id : children[p] = {m \in Id : parent[m] = p}
  BY DEF ForestInv, Kids
<1>3. \A d \in D : parent[d] \in D \cup {n}
  BY ForestFacts, DescendantsParent DEF ForestInv
<1>4. CASE RemoveNode(n)
  <2>. DEFINE E == {n} \cup D
              pruned == IF parent[n] = None THEN children
                        ELSE [children EXCEPT ![parent[n]] = @ \ Spliced(parent[n], n)]
  <2>1. Prune(E, pruned, view)
    BY <1>4 DEF RemoveNode
  <2>2. parent[n] # None => parent[n] \in Id /\ n \in children[parent[n]]
    BY <1>1, <1>2 DEF ForestInv
  <2>3. parent[n] # None => Spliced(parent[n], n) = {n}
    BY <2>2 DEF Spliced
  <2>4. \A p \in Id \ E : children[p] \cap D = {}
    BY <1>2, <1>3
  <2>5. \A p \in Id : p # parent[n] => n \notin children[p]
    BY <1>2
  <2>6. \A p \in Id \ E : pruned[p] = children[p] \ E
    <3>1. children \in [Id -> SUBSET Id]
      BY DEF ForestInv, Kids
    <3>2. CASE parent[n] = None
      BY <3>2, <2>4, <2>5
    <3>3. CASE parent[n] # None
      <4>1. pruned = [children EXCEPT ![parent[n]] = @ \ {n}]
        BY <3>3, <2>3
      <4>. QED BY <4>1, <3>1, <2>4, <2>5
    <3>. QED BY <3>2, <3>3
  <2>7. E \in SUBSET tree /\ \A y \in Id : parent[y] \in E => y \in E
    BY <1>1
  <2>. HIDE DEF E, pruned, D
  <2>. QED BY <2>1, <2>6, <2>7, PruneForest
<1>5. CASE UnloadBranch(n)
  <2>. DEFINE none == [children EXCEPT ![n] = {}]
  <2>1. Prune(D, none, Branches(none, view, {n}))
    BY <1>5 DEF UnloadBranch
  <2>2. children \in [Id -> SUBSET Id]
    BY DEF ForestInv, Kids
  <2>3. \A p \in Id \ D : none[p] = children[p] \ D
    BY <1>1, <1>2, <1>3, <2>2
  <2>. HIDE DEF D, none
  <2>. QED BY <1>1, <2>1, <2>3, PruneForest
<1>. QED BY <1>4, <1>5

LEMMA SortForest ==
  ASSUME ForestInv, NEW n \in Id, NEW key, SortBranch(n, key) PROVE ForestInv'
<1>. USE ConfigAssumption
<1>. DEFINE D == Descendants(children, n)
<1>1. PICK or : /\ n \in tree
                /\ UNCHANGED <<tree, parent, children>>
                /\ above' = InsertAfter(D, {n}, WalkOrder(parent, or, D))
  BY DEF SortBranch
<1>2. /\ D \subseteq tree
      /\ \A y \in Id : parent[y] \in D => y \in D
      /\ parent \in ParentMap
  BY <1>1, ForestFacts, DescendantsClosed DEF ForestInv
<1>3. ASSUME NEW x \in tree, NEW a \in Ancestors(parent, x) PROVE <<a, x>> \in above'
  <2>1. a \in tree /\ x \in Id
    BY ForestFacts DEF ForestInv
  <2>2. CASE x \notin D
    <3>1. a \notin D
      BY <1>2, <2>1, <2>2, AncestorsKept
    <3>. QED BY <1>1, <1>3, <2>2, <3>1 DEF ForestInv, Below, InsertAfter
  <2>3. CASE x \in D /\ a \in D
    BY <1>1, <1>3, <2>3 DEF WalkOrder, InsertAfter
  <2>4. CASE x \in D /\ a \notin D
    <3>1. a \in {n} \cup Ancestors(parent, n)
      BY <1>2, <1>3, <2>4, BranchAncestors DEF ForestInv
    <3>2. a = n \/ <<a, n>> \in above
      BY <1>1, <3>1 DEF ForestInv, Below
    <3>3. <<a, x>> \in {p \in (tree \ D) \X D : \A r \in {n} : p[1] = r \/ <<p[1], r>> \in above}
      BY <2>1, <2>4, <3>2
    <3>. QED BY <1>1, <3>3 DEF InsertAfter
  <2>. QED BY <2>2, <2>3, <2>4
<1>. QED BY <1>1, <1>3 DEF ForestInv, Forest, Below

\* A set of nodes of which each has its parent in the set would have to hold n and
\* its new parent d, and so, in the old forest, d and what is above it without n.
LEMMA MoveForest ==
  ASSUME ForestInv, NEW n \in Id, NEW d \in Id, Move(n, d) PROVE ForestInv'
<1>. USE ConfigAssumption
<1>. DEFINE pa == [parent EXCEPT ![n] = d]
            B  == {n} \cup Descendants(Kids(pa), n)
<1>1. /\ n \in tree /\ d \in tree
      /\ n # d /\ d # parent[n] /\ n \notin Ancestors(parent, d)
      /\ tree' = tree /\ parent' = pa
  BY DEF Move, Moves
<1>2. /\ parent \in ParentMap /\ pa \in ParentMap
      /\ pa \in [Id -> tree \cup {None}]
      /\ pa[n] = d /\ \A y \in Id \ {n} : pa[y] = parent[y]
  BY <1>1, ForestFacts DEF ForestInv, ParentMap
<1>3. children' = Kids(pa)
  <2>1. \A p \in Id : children[p] = {m \in Id : parent[m] = p}
    BY DEF ForestInv, Kids
  <2>. DEFINE gone == IF parent[n] = None THEN {} ELSE Spliced(parent[n], n)
              ch == [p \in Id |-> (children[p] \ (IF p = parent[n] THEN gone ELSE {}))
                                   \cup (IF p = d THEN {n} ELSE {})]
  <2>2. children' = ch
    BY Zenon DEF Move
  <2>3. parent[n] # None => gone = {n}
    BY <1>2, <2>1 DEF Spliced, ForestInv
  <2>4. ASSUME NEW p \in Id PROVE ch[p] = {m \in Id : pa[m] = p}
    BY <1>1, <1>2, <2>1, <2>3
  <2>. QED BY <2>2, <2>4 DEF Kids
<1>4. Forest(tree, pa)
  <2>. SUFFICES ASSUME NEW S \in SUBSET tree, S # {} PROVE \E x \in S : pa[x] \notin S
    BY DEF Forest
  <2>1. CASE n \in S /\ d \in S
    <3>. DEFINE T == S \cap ({d} \cup Ancestors(parent, d))
    <3>1. PICK x \in T : parent[x] \notin T
      <4>. T \in SUBSET tree /\ T # {}
        BY <2>1
      <4>. HIDE DEF T
      <4>. QED BY DEF ForestInv, Forest
    <3>2. x # n /\ x \in Id
      BY <1>1 DEF ForestInv
    <3>3. parent[x] \in Ancestors(parent, d) \cup {None}
      BY <1>2, AncestorsClosed
    <3>4. parent[x] \notin S
      BY <3>1, <3>3 DEF ForestInv
    <3>. QED BY <1>2, <3>2, <3>4
  <2>2. CASE n \in S /\ d \notin S
    BY <1>2, <2>2
  <2>3. CASE n \notin S
    <3>1. PICK x \in S : parent[x] \notin S
      BY DEF ForestInv, Forest
    <3>. QED BY <1>2, <2>3, <3>1 DEF ForestInv
  <2>. QED BY <2>1, <2>2, <2>3
<1>5. /\ \A y \in Id : pa[y] \in B => y \in B
      /\ B \subseteq Id
  BY <1>2, DescendantsClosed
<1>6. d \notin B
  <2>. DEFINE S == {y \in Id : n \in Ancestors(parent, y)}
  <2>1. ASSUME NEW y \in Id, pa[y] \in S \cup {n} PROVE y \in S
    <3>1. y # n /\ pa[y] = parent[y]
      BY <1>1, <1>2, <2>1
    <3>2. parent[y] # None
      BY <2>1, <3>1
    <3>3. parent[y] \in Ancestors(parent, y) /\ Ancestors(parent, parent[y]) \subseteq Ancestors(parent, y)
      BY <1>2, <3>2, AncestorsClosed, AncestorsUp
    <3>. QED BY <2>1, <3>1, <3>3
  <2>. HIDE DEF S
  <2>2. Descendants(Kids(pa), n) \subseteq S
    BY <1>2, <2>1, DescendantsMin
  <2>. QED BY <1>1, <2>2 DEF S
<1>7. \A y \in Id \ B : Ancestors(pa, y) \subseteq Ancestors(parent, y) \ B
  <2>1. \A y \in Id \ B : pa[y] = parent[y] /\ pa[y] \notin B
    BY <1>2, <1>5
  <2>. HIDE DEF pa, B
  <2>. QED BY <1>2, <2>1, AncestorsKept
<1>8. PICK or : above' = InsertAfter(B, {d}, WalkOrder(pa, or, B))
  <2>. DEFINE gone == IF parent[n] = None THEN {} ELSE Spliced(parent[n], n)
              ch == [p \in Id |-> (children[p] \ (IF p = parent[n] THEN gone ELSE {}))
                                   \cup (IF p = d THEN {n} ELSE {})]
              or == {p \in order : p[1] \notin gone /\ p[2] \notin gone} \cup (children[d] \X {n})
              C  == {n} \cup Descendants(ch, n)
  <2>1. children' = ch /\ above' = InsertAfter(C, {d}, WalkOrder(pa, or, C))
    BY Zenon DEF Move
  <2>2. C = B
    BY <2>1, <1>3, Zenon
  <2>. QED BY <2>1, <2>2, Zenon
<1>9. ASSUME NEW x \in tree, NEW a \in Ancestors(pa, x) PROVE <<a, x>> \in above'
  <2>1. x \in Id
    BY DEF ForestInv
  <2>2. CASE x \notin B
    <3>1. a \in Ancestors(parent, x) \ B
      BY <1>7, <1>9, <2>1, <2>2
    <3>. QED BY <1>8, <2>2, <3>1 DEF ForestInv, Below, InsertAfter
  <2>3. CASE x \in B /\ a \in B
    <3>1. <<a, x>> \in WalkOrder(pa, or, B)
      BY <1>9, <2>3 DEF WalkOrder
    <3>. QED BY <1>8, <3>1 DEF InsertAfter
  <2>4. CASE x \in B /\ a \notin B
    <3>1. a \in Ancestors(pa, n)
      BY <1>2, <1>9, <2>4, BranchAncestors
    <3>2. a \in {d} \cup Ancestors(pa, d)
      BY <1>2, <3>1, AncestorsUp
    <3>3. a = d \/ a \in Ancestors(parent, d)
      BY <1>6, <1>7, <3>2
    <3>4. a \in tree /\ (a = d \/ <<a, d>> \in above)
      BY <1>1, <3>3, ForestFacts DEF ForestInv, Below
    <3>5. <<a, x>> \in {p \in (tree \ B) \X B : \A r \in {d} : p[1] = r \/ <<p[1], r>> \in above}
      BY <2>4, <3>4
    <3>. QED BY <1>8, <3>5 DEF InsertAfter
  <2>. QED BY <2>2, <2>3, <2>4
<1>10. \A x \in Id \ tree : pa[x] = None
  BY <1>1, <1>2 DEF ForestInv
<1>. QED
  <2>1. Below(tree', parent', above')
    BY <1>1, <1>9, Zenon DEF Below
  <2>. QED BY <1>1, <1>2, <1>3, <1>4, <1>10, <2>1 DEF ForestInv

LEMMA LoadForest ==
  ASSUME ForestInv, NEW n \in Id \cup {None}, NEW rows \in Batches, LoadBranch(n, rows)
  PROVE  ForestInv'
<1>. USE ConfigAssumption
<1>. DEFINE new == Ids(rows)
            inner == RowOrder(rows)
            pa == [m \in Id |-> IF m \notin new THEN parent[m]
                                ELSE IF ParentId(rows, m) = None THEN n ELSE ParentId(rows, m)]
            at == IF n = None THEN {} ELSE FindLastNode(n)
<1>1. /\ n \in tree \cup {None}
      /\ new \cap tree = {}
      /\ tree' = tree \cup new
      /\ parent' = pa
      /\ children' = [p \in Id |-> children[p] \cup NewChildren(pa, tree, new, inner)[p]]
      /\ above' = InsertAfter(new, at, inner)
  BY Zenon DEF LoadBranch
<1>2. Rows(rows)
  OBVIOUS
<1>3. /\ new \subseteq Id
      /\ \A m \in new : /\ ParentId(rows, m) \in new \cup {None}
                        /\ ParentId(rows, m) # None => <<ParentId(rows, m), m>> \in inner
                        /\ \A k \in new : <<k, m>> \in inner =>
                             (ParentId(rows, k) # None => <<ParentId(rows, k), m>> \in inner)
  BY <1>2, RowsParents
<1>4. /\ \A m \in Id \ new : pa[m] = parent[m]
      /\ \A m \in new : pa[m] = IF ParentId(rows, m) = None THEN n ELSE ParentId(rows, m)
  BY <1>3
<1>. HIDE DEF new, inner, pa, at
<1>5. /\ tree' \in SUBSET Id
      /\ pa \in [Id -> tree' \cup {None}]
      /\ \A m \in Id \ tree' : pa[m] = None
      /\ pa \in ParentMap /\ parent \in ParentMap
  <2>1. ASSUME NEW m \in Id PROVE pa[m] \in tree' \cup {None}
    <3>1. CASE m \in new
      BY <1>1, <1>3, <1>4, <3>1
    <3>2. CASE m \notin new
      <4>1. pa[m] = parent[m] /\ parent[m] \in tree \cup {None}
        BY <1>4, <3>2 DEF ForestInv
      <4>. QED BY <1>1, <4>1
    <3>. QED BY <3>1, <3>2
  <2>2. pa \in [Id -> tree' \cup {None}]
    BY <2>1 DEF pa
  <2>. QED BY <1>1, <1>3, <1>4, <2>2, ForestFacts DEF ForestInv, ParentMap
<1>6. children' = Kids(pa)
  <2>1. ASSUME NEW p \in Id
        PROVE  children[p] \cup {m \in new : pa[m] = p /\ (p \in tree \/ <<p, m>> \in inner)}
                 = {m \in Id : pa[m] = p}
    <3>1. children[p] = {m \in Id : parent[m] = p}
      BY DEF ForestInv, Kids
    <3>2. \A m \in new : pa[m] = p => p \in tree \/ <<p, m>> \in inner
      BY <1>1, <1>3, <1>4
    <3>3. \A m \in new : parent[m] = None
      BY <1>1, <1>3 DEF ForestInv
    <3>4. \A m \in Id : m \in new \/ pa[m] = parent[m]
      BY <1>4
    <3>. QED BY <3>1, <3>2, <3>3, <3>4, <1>3
  <2>. QED BY <1>1, <2>1 DEF NewChildren, Kids
<1>7. Forest(tree', pa)
  <2>. SUFFICES ASSUME NEW S \in SUBSET tree', S # {} PROVE \E x \in S : pa[x] \notin S
    BY DEF Forest
  <2>1. CASE S \cap tree # {}
    <3>1. PICK x \in S \cap tree : parent[x] \notin S \cap tree
      BY <2>1 DEF ForestInv, Forest
    <3>2. x \in Id \ new /\ parent[x] \in tree \cup {None}
      BY <1>1 DEF ForestInv
    <3>3. None \notin S
      BY <1>5
    <3>. QED BY <1>4, <3>1, <3>2, <3>3
  <2>2. CASE S \cap tree = {}
    <3>1. S \in SUBSET new
      BY <1>1, <2>2
    <3>2. PICK m \in S : ParentId(rows, m) \notin S
      BY <1>2, <3>1, RowsForest DEF new
    <3>3. n \notin S
      BY <1>1, <1>5, <2>2
    <3>. QED BY <1>4, <3>1, <3>2, <3>3
  <2>. QED BY <2>1, <2>2
<1>8. ASSUME n # None, NEW a \in {n} \cup Ancestors(parent, n), NEW r \in at
      PROVE  a = r \/ <<a, r>> \in above
  <2>1. n \in tree /\ r \in {n} \cup Descendants(children, n)
    BY <1>1, <1>8 DEF at, FindLastNode
  <2>2. r \in tree
    BY <2>1, ForestFacts
  <2>3. r # n => a \in Ancestors(parent, r)
    BY <1>5, <1>8, <2>1, DescendantsAncestors DEF ForestInv
  <2>. QED BY <1>8, <2>1, <2>2, <2>3 DEF ForestInv, Below
<1>9. ASSUME NEW x \in tree', NEW a \in Ancestors(pa, x) PROVE <<a, x>> \in above'
  <2>1. CASE x \notin new
    <3>1. x \in Id \ new /\ x \in tree
      BY <1>1, <1>5, <2>1
    <3>2. \A y \in Id \ new : pa[y] = parent[y] /\ pa[y] \notin new
      BY <1>1, <1>3, <1>4 DEF ForestInv
    <3>3. a \in Ancestors(parent, x) \ new
      BY <1>5, <1>9, <3>1, <3>2, AncestorsKept
    <3>. QED BY <1>1, <2>1, <3>1, <3>3 DEF ForestInv, Below, InsertAfter
  <2>2. CASE x \in new
    <3>. DEFINE L == IF n = None THEN {} ELSE {n} \cup Ancestors(parent, n)
                S == {k \in new : <<k, x>> \in inner} \cup L
    <3>1. L \subseteq tree /\ \A y \in L : parent[y] \in L \cup {None}
      BY <1>1, <1>5, ForestFacts, AncestorsClosed DEF ForestInv
    <3>2. ASSUME NEW y \in S \cup {x} PROVE pa[y] \in S \cup {None}
      <4>1. CASE y \in L
        <5>1. y \in Id \ new
          BY <1>1, <3>1, <4>1 DEF ForestInv
        <5>. QED BY <1>4, <3>1, <4>1, <5>1
      <4>2. CASE y \notin L
        <5>1. y \in new /\ (y = x \/ <<y, x>> \in inner)
          BY <2>2, <3>2, <4>2
        <5>2. CASE ParentId(rows, y) = None
          BY <1>4, <5>1, <5>2
        <5>3. CASE ParentId(rows, y) # None
          BY <1>3, <1>4, <2>2, <5>1, <5>3
        <5>. QED BY <5>2, <5>3
      <4>. QED BY <4>1, <4>2
    <3>3. a \in S
      <4>1. x \in Id
        BY <1>3, <2>2
      <4>. HIDE DEF S
      <4>. QED BY <1>5, <1>9, <3>2, <4>1, AncestorsMin
    <3>4. CASE <<a, x>> \in inner
      BY <1>1, <3>4 DEF InsertAfter
    <3>5. CASE a \in L
      <4>1. a \in tree \ new
        BY <1>1, <3>1, <3>5
      <4>2. \A r \in at : a = r \/ <<a, r>> \in above
        BY <1>8, <3>5
      <4>3. <<a, x>> \in {p \in (tree \ new) \X new : \A r \in at : p[1] = r \/ <<p[1], r>> \in above}
        BY <2>2, <4>1, <4>2
      <4>. QED BY <1>1, <4>3 DEF InsertAfter
    <3>. QED BY <3>3, <3>4, <3>5
  <2>. QED BY <2>1, <2>2
<1>. QED
  <2>1. Below(tree', parent', above')
    BY <1>1, <1>9, Zenon DEF Below
  <2>. QED BY <1>1, <1>5, <1>6, <1>7, <2>1 DEF ForestInv

LEMMA NextForest == ForestInv /\ [Next]_vars => ForestInv'
<1>. SUFFICES ASSUME ForestInv, [Next]_vars PROVE ForestInv'
  OBVIOUS
<1>1. ASSUME UNCHANGED forest PROVE ForestInv'
  BY <1>1 DEF forest, ForestInv, Forest, Below
<1>2. CASE UNCHANGED vars
  BY <1>1, <1>2 DEF vars
<1>3. CASE Destroy \/ ExpandAll \/ CollapseAll
  BY <1>1, <1>3 DEF Destroy, ExpandAll, CollapseAll, Shows
<1>4. ASSUME NEW s \in Settings, Reinit(s) PROVE ForestInv'
  BY <1>4, ReinitForest
<1>5. ASSUME NEW n \in Id, ExpandNode(n) \/ CollapseNode(n) \/ Toggle(n) \/ Reveal(n)
      PROVE  ForestInv'
  <2>1. UNCHANGED forest
    BY <1>5 DEF ExpandNode, CollapseNode, Toggle, Reveal, Shows
  <2>. QED BY <1>1, <2>1
<1>6. ASSUME NEW n \in Id, RemoveNode(n) \/ UnloadBranch(n) PROVE ForestInv'
  BY <1>6, RemoveForest
<1>7. ASSUME NEW n \in Id, NEW d \in Id, Move(n, d) \/ MoveRefused(n, d) PROVE ForestInv'
  <2>1. MoveRefused(n, d) => UNCHANGED forest
    BY DEF MoveRefused, Shows
  <2>. QED BY <1>1, <1>7, <2>1, MoveForest
<1>8. ASSUME NEW n \in Id, NEW key \in SortKeys, SortBranch(n, key) PROVE ForestInv'
  BY <1>8, SortForest
<1>9. ASSUME NEW n \in Id \cup {None}, NEW rows \in Batches, LoadBranch(n, rows)
      PROVE  ForestInv'
  BY <1>9, LoadForest
<1>. QED BY <1>2, <1>3, <1>4, <1>5, <1>6, <1>7, <1>8, <1>9, Zenon DEF Next

LEMMA SpecForest == Spec => []ForestInv
<1>. QED BY InitForest, NextForest, PTL DEF Spec

---------------------------------------------------------------------------
\* However branches are moved, loaded, removed and sorted, no node is its own
\* ancestor: the guard of move() and the order of loaded rows are enough.
THEOREM ForestIsKept == Spec => []TreeIsForest
<1>1. ForestInv => TreeIsForest
  BY DEF ForestInv, Forest, TreeIsForest
<1>. QED BY <1>1, SpecForest, PTL

\* The arrays of children list the nodes whose parentId says so, so that
\* removeChild() always finds the child it is to take out.
THEOREM ChildrenAreThoseOfParents == Spec => []ChildrenAgree
<1>1. ForestInv => ChildrenAgree
  <2>. SUFFICES ASSUME ForestInv, NEW p \in tree
                PROVE  children[p] = {n \in tree : parent[n] = p}
    BY DEF ChildrenAgree
  <2>1. p \in Id /\ p # None
    BY ConfigAssumption DEF ForestInv
  <2>2. children[p] = {n \in Id : parent[n] = p}
    BY <2>1 DEF ForestInv, Kids
  <2>. QED BY <2>1, <2>2 DEF ForestInv
<1>. QED BY <1>1, SpecForest, PTL

\* Rows stay below those of all their ancestors, for any order of calls, so that
\* the table can be read again from the page.
THEOREM RowsStayBelow == Spec => []RowsBelow
<1>1. ForestInv => RowsBelow
  BY DEF ForestInv, Below, RowsBelow
<1>. QED BY <1>1, SpecForest, PTL

---------------------------------------------------------------------------
(* The order of the rows                                                   *)
---------------------------------------------------------------------------
\* No node is its own ancestor.
Trees(pa) == pa \in ParentMap /\ \A x \in Id : x \notin Ancestors(pa, x)

Line(pa, x)   == {x} \cup Ancestors(pa, x)
Branch(pa, n) == {n} \cup Descendants(Kids(pa), n)

\* R orders S strictly and totally.
Orders(R, S) ==
  /\ \A x \in S : <<x, x>> \notin R
  /\ \A x, y \in S : x # y => <<x, y>> \in R \/ <<y, x>> \in R
  /\ \A x, y, z \in S : <<x, y>> \in R /\ <<y, z>> \in R => <<x, z>> \in R

\* R orders the children of every node, and nothing else.
OrdersChildren(R, pa) ==
  /\ R \subseteq Id \X Id
  /\ \A p \in R : pa[p[1]] = pa[p[2]] /\ pa[p[1]] \in Id
  /\ \A p \in Id : Orders(R, Kids(pa)[p])

---------------------------------------------------------------------------
(* Lines                                                                   *)
---------------------------------------------------------------------------
LEMMA AncestorsOfRoot ==
  ASSUME NEW pa \in ParentMap, NEW n \in Id, pa[n] = None
  PROVE  Ancestors(pa, n) = {}
<1>1. \A x \in {} \cup {n} : pa[x] \in {} \cup {None}
  OBVIOUS
<1>. QED BY <1>1, AncestorsMin

LEMMA AncestorsTransitive ==
  ASSUME NEW pa \in ParentMap, NEW n \in Id, NEW a \in Ancestors(pa, n)
  PROVE  a \in Id /\ Ancestors(pa, a) \subseteq Ancestors(pa, n)
<1>1. a \in Id /\ \A x \in Ancestors(pa, n) \cup {a} : pa[x] \in Ancestors(pa, n) \cup {None}
  BY AncestorsClosed
<1>. QED BY <1>1, AncestorsMin

LEMMA ForestIsTrees ==
  ASSUME NEW tr \in SUBSET Id, NEW pa \in [Id -> tr \cup {None}], Forest(tr, pa), None \notin Id
  PROVE  Trees(pa)
<1>1. pa \in ParentMap
  BY DEF ParentMap
<1>2. ASSUME NEW x \in Id, x \in Ancestors(pa, x) PROVE FALSE
  <2>. DEFINE S == {y \in tr : y \in Ancestors(pa, x) /\ x \in Ancestors(pa, y)}
  <2>1. \A y \in tr \cup {x} : pa[y] \in tr \cup {None}
    OBVIOUS
  <2>2. Ancestors(pa, x) \subseteq tr
    BY <1>1, <2>1, AncestorsMin
  <2>3. PICK y \in S : pa[y] \notin S
    <3>1. S \in SUBSET tr /\ x \in S
      BY <1>2, <2>2
    <3>. HIDE DEF S
    <3>. QED BY <3>1 DEF Forest
  <2>4. y \in Id /\ pa[y] # None
    BY <1>1, <2>3, AncestorsOfRoot
  <2>5. pa[y] \in Ancestors(pa, x) /\ x \in {pa[y]} \cup Ancestors(pa, pa[y])
    BY <1>1, <2>3, <2>4, AncestorsUp, AncestorsClosed
  <2>. QED BY <1>2, <2>2, <2>3, <2>5
<1>. QED BY <1>1, <1>2 DEF Trees

\* Of two nodes on the line from a node up to its root one is above the other.
LEMMA LineIsChain ==
  ASSUME NEW pa \in ParentMap, NEW x \in Id, NEW a \in Line(pa, x), NEW b \in Line(pa, x)
  PROVE  a = b \/ a \in Ancestors(pa, b) \/ b \in Ancestors(pa, a)
<1>. DEFINE Comparable(c) == a = c \/ a \in Ancestors(pa, c) \/ c \in Ancestors(pa, a)
            S == {c \in Ancestors(pa, x) : Comparable(c)}
<1>1. a \in Id /\ Comparable(x) /\ Ancestors(pa, x) \subseteq Id
  BY AncestorsClosed DEF Line
<1>2. ASSUME NEW c \in S \cup {x}, pa[c] # None PROVE pa[c] \in S
  <2>1. c \in Id /\ Comparable(c) /\ pa[c] \in Ancestors(pa, x)
    BY <1>1, <1>2, AncestorsClosed
  <2>2. pa[c] \in Ancestors(pa, c)
    BY <1>2, <2>1, AncestorsClosed
  <2>3. c \in Ancestors(pa, a) => pa[c] \in Ancestors(pa, a)
    BY <1>1, <1>2, AncestorsClosed
  <2>4. a \in Ancestors(pa, c) => a = pa[c] \/ a \in Ancestors(pa, pa[c])
    BY <1>2, <2>1, AncestorsUp
  <2>. QED BY <2>1, <2>2, <2>3, <2>4
<1>. HIDE DEF S
<1>3. Ancestors(pa, x) \subseteq S
  BY <1>2, AncestorsMin
<1>. QED BY <1>1, <1>3 DEF S, Line

\* Two children of one node are on no common line.
LEMMA SiblingsApart ==
  ASSUME NEW pa, Trees(pa), None \notin Id, NEW a \in Id, NEW b \in Id, a # b,
         pa[a] = pa[b], pa[a] \in Id,
         NEW x \in Id, a \in Line(pa, x), b \in Line(pa, x)
  PROVE  FALSE
<1>1. pa \in ParentMap /\ pa[a] # None
  BY DEF Trees
<1>2. ASSUME NEW c \in Id, NEW d \in Id, pa[c] = pa[a], pa[d] = pa[a], c \in Ancestors(pa, d)
      PROVE  FALSE
  <2>1. c \in {pa[c]} \cup Ancestors(pa, pa[c])
    BY <1>1, <1>2, AncestorsUp
  <2>2. {pa[c]} \cup Ancestors(pa, pa[c]) \subseteq Ancestors(pa, c)
    BY <1>1, <1>2, AncestorsUp, AncestorsClosed
  <2>. QED BY <2>1, <2>2 DEF Trees
<1>3. a \in Ancestors(pa, b) \/ b \in Ancestors(pa, a)
  BY <1>1, LineIsChain
<1>. QED BY <1>2, <1>3

\* What is above a child of a node is the node and what is above that.
LEMMA LineUp ==
  ASSUME NEW pa \in ParentMap, None \notin Id, NEW x \in Id, pa[x] \in Id
  PROVE  Ancestors(pa, x) = Line(pa, pa[x])
<1>1. pa[x] # None
  OBVIOUS
<1>. QED BY <1>1, AncestorsUp, AncestorsClosed DEF Line

LEMMA ChildOnLine ==
  ASSUME NEW pa \in ParentMap, NEW y \in Id, NEW c \in Ancestors(pa, y)
  PROVE  \E b \in Line(pa, y) : pa[b] = c
<1>. SUFFICES ASSUME \A b \in Line(pa, y) : pa[b] # c PROVE FALSE
  OBVIOUS
<1>. DEFINE S == Ancestors(pa, y) \ {c}
<1>1. \A x \in S \cup {y} : pa[x] \in S \cup {None}
  BY AncestorsClosed DEF Line
<1>. HIDE DEF S
<1>2. Ancestors(pa, y) \subseteq S
  BY <1>1, AncestorsMin
<1>. QED BY <1>2 DEF S

\* The lines of two nodes of a branch, neither above the other, fork in it.
LEMMA LinesFork ==
  ASSUME NEW tr \in SUBSET Id, NEW pa \in [Id -> tr \cup {None}], Forest(tr, pa), None \notin Id,
         NEW n \in tr, NEW x \in Branch(pa, n) \cap tr, NEW y \in Branch(pa, n),
         x \notin Line(pa, y), y \notin Line(pa, x)
  PROVE  \E a \in Line(pa, x), b \in Line(pa, y) :
            /\ a # b /\ pa[a] = pa[b] /\ pa[a] \in Id
            /\ a \in Branch(pa, n) \ {n}
<1>0. pa \in ParentMap /\ n \in Id
  BY DEF ParentMap
<1>1. x \in Id /\ y \in Id
  BY <1>0, DescendantsClosed DEF Branch
<1>2. /\ Line(pa, x) \subseteq Branch(pa, n) \cup Ancestors(pa, n)
      /\ Line(pa, n) \subseteq Line(pa, y)
  BY <1>0, <1>1, BranchAncestors, DescendantsAncestors DEF Branch, Line
<1>. DEFINE S == Line(pa, x) \ Line(pa, y)
<1>3. S \in SUBSET tr /\ S # {}
  <2>1. \A z \in tr \cup {x} : pa[z] \in tr \cup {None}
    OBVIOUS
  <2>2. Ancestors(pa, x) \subseteq tr
    BY <1>0, <1>1, <2>1, AncestorsMin
  <2>. QED BY <2>2 DEF Line
<1>4. PICK a \in S : pa[a] \notin S
  <2>. HIDE DEF S
  <2>. QED BY <1>3 DEF Forest
<1>5. a \in Descendants(Kids(pa), n) /\ a # n
  BY <1>2, <1>4 DEF Branch, Line
<1>6. pa[a] \in Branch(pa, n) /\ pa[a] \in Id /\ a \in Id
  BY <1>0, <1>5, DescendantsParent, DescendantsClosed DEF Branch
<1>7. pa[a] \in Line(pa, x) \ {x}
  <2>1. pa[a] \in Ancestors(pa, x)
    BY <1>0, <1>1, <1>4, <1>6, AncestorsClosed DEF Line
  <2>2. x \notin Ancestors(pa, x)
    BY <1>1, ForestIsTrees DEF Trees
  <2>. QED BY <2>1, <2>2 DEF Line
<1>8. pa[a] \in Ancestors(pa, y)
  BY <1>4, <1>7 DEF Line
<1>9. PICK b \in Line(pa, y) : pa[b] = pa[a]
  BY <1>0, <1>1, <1>8, ChildOnLine
<1>. QED BY <1>4, <1>5, <1>6, <1>9 DEF Branch

---------------------------------------------------------------------------
(* The walk                                                                *)
---------------------------------------------------------------------------
\* The walk visits x before y.
Walks(pa, or, x, y) ==
  \/ x \in Ancestors(pa, y)
  \/ \E a \in Line(pa, x), b \in Line(pa, y) : <<a, b>> \in or

LEMMA WalkPairs ==
  ASSUME NEW pa, NEW or \in SUBSET (Id \X Id), NEW D
  PROVE  /\ WalkOrder(pa, or, D) \subseteq D \X D
         /\ \A x, y \in D : <<x, y>> \in WalkOrder(pa, or, D) <=> Walks(pa, or, x, y)
<1>1. ASSUME NEW x \in D, NEW y \in D
      PROVE  (\E p \in or : p[1] \in Line(pa, x) /\ p[2] \in Line(pa, y))
               <=> \E a \in Line(pa, x), b \in Line(pa, y) : <<a, b>> \in or
  <2>1. \A p \in or : p = <<p[1], p[2]>>
    OBVIOUS
  <2>. QED BY <2>1
<1>2. \A x, y \in D : <<x, y>> \in WalkOrder(pa, or, D) <=>
        \/ x \in Ancestors(pa, y)
        \/ \E p \in or : p[1] \in Line(pa, x) /\ p[2] \in Line(pa, y)
  BY DEF WalkOrder, Line
<1>. QED BY <1>1, <1>2 DEF Walks, WalkOrder

\* No node comes before itself, nor do two before each other.
LEMMA WalkIsAsymmetric ==
  ASSUME NEW pa, Trees(pa), None \notin Id, NEW or, OrdersChildren(or, pa),
         NEW x \in Id, NEW y \in Id, Walks(pa, or, x, y), Walks(pa, or, y, x)
  PROVE  FALSE
<1>1. /\ pa \in ParentMap
      /\ \A p \in or : p \in Id \X Id /\ pa[p[1]] = pa[p[2]] /\ pa[p[1]] \in Id
      /\ \A a \in Id : <<a, a>> \notin or
  <2>1. ASSUME NEW a \in Id, <<a, a>> \in or PROVE FALSE
    <3>1. pa[a] \in Id /\ a \in Kids(pa)[pa[a]]
      BY <2>1 DEF OrdersChildren, Kids
    <3>. QED BY <2>1, <3>1 DEF OrdersChildren, Orders
  <2>. QED BY <2>1 DEF Trees, OrdersChildren
<1>2. ASSUME NEW u \in Id, NEW v \in Id, u \in Ancestors(pa, v), Walks(pa, or, v, u)
      PROVE  FALSE
  <2>1. v \notin Ancestors(pa, u)
    BY <1>1, <1>2, AncestorsTransitive DEF Trees
  <2>2. PICK a \in Line(pa, v), b \in Line(pa, u) : <<a, b>> \in or
    BY <1>2, <2>1 DEF Walks
  <2>3. a \in Id /\ b \in Id /\ a # b /\ pa[a] = pa[b] /\ pa[a] \in Id
    BY <1>1, <2>2
  <2>4. b \in Line(pa, v)
    BY <1>1, <1>2, AncestorsTransitive DEF Line
  <2>. QED BY <2>3, <2>4, SiblingsApart
<1>3. /\ \E a \in Line(pa, x), b \in Line(pa, y) : <<a, b>> \in or
      /\ \E c \in Line(pa, y), d \in Line(pa, x) : <<c, d>> \in or
  BY <1>2 DEF Walks
<1>4. PICK a \in Line(pa, x), b \in Line(pa, y) : <<a, b>> \in or
  BY <1>3
<1>5. PICK c \in Line(pa, y), d \in Line(pa, x) : <<c, d>> \in or
  BY <1>3
<1>6. /\ a \in Id /\ b \in Id /\ a # b /\ pa[a] = pa[b] /\ pa[a] \in Id
      /\ c \in Id /\ d \in Id /\ c # d /\ pa[c] = pa[d] /\ pa[c] \in Id
  BY <1>1, <1>4, <1>5
<1>7. /\ Ancestors(pa, a) = Ancestors(pa, b) /\ Ancestors(pa, c) = Ancestors(pa, d)
      /\ Ancestors(pa, b) \subseteq Line(pa, y) /\ Ancestors(pa, c) \subseteq Line(pa, y)
  <2>1. \A u, v \in Id : pa[u] = pa[v] /\ pa[u] \in Id => Ancestors(pa, u) = Ancestors(pa, v)
    BY <1>1, LineUp
  <2>2. \A u \in Line(pa, y) : Ancestors(pa, u) \subseteq Line(pa, y)
    BY <1>1, AncestorsTransitive DEF Line
  <2>. QED BY <1>6, <2>1, <2>2
<1>8. a \notin Ancestors(pa, d) /\ d \notin Ancestors(pa, a)
  <2>1. a \notin Line(pa, y) /\ d \notin Line(pa, y)
    BY <1>4, <1>5, <1>6, SiblingsApart
  <2>. QED BY <1>7, <2>1
<1>9. a = d
  BY <1>1, <1>8, LineIsChain
<1>10. b = c
  BY <1>6, <1>9, SiblingsApart
<1>11. <<a, a>> \in or
  <2>1. pa[a] \in Id /\ a \in Kids(pa)[pa[a]] /\ b \in Kids(pa)[pa[a]]
    BY <1>6 DEF Kids
  <2>. QED BY <1>4, <1>5, <1>9, <1>10, <2>1 DEF OrdersChildren, Orders
<1>. QED BY <1>1, <1>6, <1>11

LEMMA WalkIsTransitive ==
  ASSUME NEW pa, Trees(pa), None \notin Id, NEW or, OrdersChildren(or, pa),
         NEW x \in Id, NEW y \in Id, NEW z \in Id, Walks(pa, or, x, y), Walks(pa, or, y, z)
  PROVE  Walks(pa, or, x, z)
<1>1. /\ pa \in ParentMap
      /\ \A p \in or : p \in Id \X Id /\ pa[p[1]] = pa[p[2]] /\ pa[p[1]] \in Id
  BY DEF Trees, OrdersChildren
<1>2. \A a, b \in Id : pa[a] = pa[b] /\ pa[a] \in Id => Ancestors(pa, a) = Ancestors(pa, b)
  BY <1>1, LineUp
<1>3. \A w \in Id : \A a \in Line(pa, w) : a \in Id /\ Line(pa, a) \subseteq Line(pa, w)
  BY <1>1, AncestorsTransitive DEF Line
<1>4. CASE x \in Ancestors(pa, y) /\ y \in Ancestors(pa, z)
  BY <1>1, <1>4, AncestorsTransitive DEF Walks
<1>5. ASSUME x \in Ancestors(pa, y), NEW a \in Line(pa, y), NEW b \in Line(pa, z), <<a, b>> \in or
      PROVE  Walks(pa, or, x, z)
  <2>1. a \in Line(pa, x) \/ x \in Ancestors(pa, a)
    BY <1>1, <1>5, LineIsChain DEF Line
  <2>2. CASE x \in Ancestors(pa, a)
    <3>1. x \in Ancestors(pa, b)
      BY <1>1, <1>2, <1>5, <2>2
    <3>2. Ancestors(pa, b) \subseteq Ancestors(pa, z)
      BY <1>1, <1>5, AncestorsTransitive DEF Line
    <3>. QED BY <3>1, <3>2 DEF Walks
  <2>. QED BY <1>5, <2>1, <2>2 DEF Walks
<1>6. ASSUME NEW a \in Line(pa, x), NEW b \in Line(pa, y), <<a, b>> \in or, y \in Ancestors(pa, z)
      PROVE  Walks(pa, or, x, z)
  <2>1. b \in Line(pa, z)
    BY <1>3, <1>6 DEF Line
  <2>. QED BY <1>6, <2>1 DEF Walks
<1>7. ASSUME NEW a \in Line(pa, x), NEW b \in Line(pa, y), <<a, b>> \in or,
             NEW c \in Line(pa, y), NEW d \in Line(pa, z), <<c, d>> \in or
      PROVE  Walks(pa, or, x, z)
  <2>1. /\ a \in Id /\ b \in Id /\ c \in Id /\ d \in Id
        /\ pa[a] = pa[b] /\ pa[a] \in Id /\ pa[c] = pa[d] /\ pa[c] \in Id
    BY <1>1, <1>7
  <2>2. b = c \/ b \in Ancestors(pa, c) \/ c \in Ancestors(pa, b)
    BY <1>1, <1>7, LineIsChain
  <2>3. CASE b = c
    <3>1. /\ a \in Kids(pa)[pa[a]] /\ b \in Kids(pa)[pa[a]] /\ d \in Kids(pa)[pa[a]]
      BY <2>1, <2>3 DEF Kids
    <3>2. <<a, d>> \in or
      BY <1>7, <2>1, <2>3, <3>1 DEF OrdersChildren, Orders
    <3>. QED BY <3>2 DEF Walks
  <2>4. CASE b \in Ancestors(pa, c)
    <3>1. b \in Line(pa, z)
      BY <1>2, <1>3, <2>1, <2>4 DEF Line
    <3>. QED BY <1>7, <3>1 DEF Walks
  <2>5. CASE c \in Ancestors(pa, b)
    <3>1. c \in Line(pa, x)
      BY <1>2, <1>3, <2>1, <2>5 DEF Line
    <3>. QED BY <1>7, <3>1 DEF Walks
  <2>. QED BY <2>2, <2>3, <2>4, <2>5
<1>. QED BY <1>4, <1>5, <1>6, <1>7 DEF Walks

\* Within a branch it orders all nodes.
LEMMA WalkIsOrder ==
  ASSUME NEW tr \in SUBSET Id, NEW pa \in [Id -> tr \cup {None}], Forest(tr, pa), None \notin Id,
         NEW or, OrdersChildren(or, pa), NEW n \in tr, NEW D \in SUBSET (Branch(pa, n) \cap tr)
  PROVE  Orders(WalkOrder(pa, or, D), D)
<1>1. Trees(pa) /\ or \in SUBSET (Id \X Id) /\ pa \in ParentMap
  BY ForestIsTrees DEF OrdersChildren, Trees
<1>2. ASSUME NEW x \in D, NEW y \in D, x # y PROVE Walks(pa, or, x, y) \/ Walks(pa, or, y, x)
  <2>1. CASE x \in Line(pa, y) \/ y \in Line(pa, x)
    BY <1>2, <2>1 DEF Line, Walks
  <2>2. CASE x \notin Line(pa, y) /\ y \notin Line(pa, x)
    <3>1. PICK a \in Line(pa, x), b \in Line(pa, y) :
            a # b /\ pa[a] = pa[b] /\ pa[a] \in Id
      BY <2>2, LinesFork
    <3>2. a \in Id /\ b \in Id
      BY <1>1, AncestorsClosed DEF Line
    <3>3. a \in Kids(pa)[pa[a]] /\ b \in Kids(pa)[pa[a]]
      BY <3>1, <3>2 DEF Kids
    <3>4. <<a, b>> \in or \/ <<b, a>> \in or
      BY <3>1, <3>3 DEF OrdersChildren, Orders
    <3>. QED BY <3>4 DEF Walks
  <2>. QED BY <2>1, <2>2
<1>3. \A x \in D : ~Walks(pa, or, x, x)
  BY <1>1, WalkIsAsymmetric
<1>4. \A x, y, z \in D : Walks(pa, or, x, y) /\ Walks(pa, or, y, z) => Walks(pa, or, x, z)
  BY <1>1, WalkIsTransitive
<1>. QED BY <1>1, <1>2, <1>3, <1>4, WalkPairs DEF Orders

---------------------------------------------------------------------------
(* Ordered sets                                                            *)
---------------------------------------------------------------------------
\* The row of x is not below those of "at".
Over(at, x) == \A r \in at : x = r \/ <<x, r>> \in above

LEMMA InsertedPairs ==
  ASSUME above \subseteq tree \X tree, Orders(above, tree),
         NEW D, NEW at \in SUBSET tree, NEW inner \in SUBSET (D \X D),
         NEW R, R = InsertAfter(D, at, inner)
  PROVE  /\ R \subseteq (tree \cup D) \X (tree \cup D)
         /\ \A x, y \in D : <<x, y>> \in R <=> <<x, y>> \in inner
         /\ \A x, y \in tree \ D : <<x, y>> \in R <=> <<x, y>> \in above
         /\ \A x \in tree \ D, y \in D : <<x, y>> \in R <=> Over(at, x)
         /\ \A x \in D, y \in tree \ D : <<x, y>> \in R <=> ~Over(at, y)
<1>1. R \subseteq (tree \cup D) \X (tree \cup D)
  BY DEF InsertAfter
<1>2. \A x, y \in D : <<x, y>> \in R <=> <<x, y>> \in inner
  BY DEF InsertAfter
<1>3. \A x, y \in tree \ D : <<x, y>> \in R <=> <<x, y>> \in above
  BY DEF InsertAfter
<1>4. \A x \in tree \ D, y \in D : <<x, y>> \in R <=> Over(at, x)
  BY DEF InsertAfter, Over
<1>5. \A x \in D, y \in tree \ D : <<x, y>> \in R <=> \E r \in at : <<r, y>> \in above
  BY DEF InsertAfter
<1>6. \A y \in tree : (\E r \in at : <<r, y>> \in above) <=> ~Over(at, y)
  BY DEF Orders, Over
<1>. QED BY <1>1, <1>2, <1>3, <1>4, <1>5, <1>6

\* Putting the rows of an ordered set D below others keeps all rows ordered.
LEMMA InsertIsOrder ==
  ASSUME above \subseteq tree \X tree, Orders(above, tree),
         NEW D, NEW at \in SUBSET tree, NEW inner \in SUBSET (D \X D), Orders(inner, D),
         NEW R, R = InsertAfter(D, at, inner)
  PROVE  R \subseteq (tree \cup D) \X (tree \cup D) /\ Orders(R, tree \cup D)
<1>1. /\ R \subseteq (tree \cup D) \X (tree \cup D)
      /\ \A x, y \in D : <<x, y>> \in R <=> <<x, y>> \in inner
      /\ \A x, y \in tree \ D : <<x, y>> \in R <=> <<x, y>> \in above
      /\ \A x \in tree \ D, y \in D : <<x, y>> \in R <=> Over(at, x)
      /\ \A x \in D, y \in tree \ D : <<x, y>> \in R <=> ~Over(at, y)
  BY InsertedPairs
<1>2. \A x, y \in tree : Over(at, y) /\ <<x, y>> \in above => Over(at, x)
  BY DEF Orders, Over
<1>3. \A x, y \in tree : x # y /\ Over(at, x) /\ ~Over(at, y) => <<x, y>> \in above
  BY <1>2 DEF Orders
<1>4. \A x \in tree \cup D : <<x, x>> \notin R
  BY <1>1 DEF Orders
<1>5. \A x, y \in tree \cup D : x # y => <<x, y>> \in R \/ <<y, x>> \in R
  BY <1>1 DEF Orders
<1>6. ASSUME NEW x \in tree \cup D, NEW y \in tree \cup D, NEW z \in tree \cup D,
             <<x, y>> \in R, <<y, z>> \in R
      PROVE  <<x, z>> \in R
  <2>1. CASE x \in D /\ y \in D
    BY <1>1, <1>6, <2>1 DEF Orders
  <2>2. CASE x \in D /\ y \notin D
    BY <1>1, <1>2, <1>6, <2>2 DEF Orders
  <2>3. CASE x \notin D /\ y \in D
    BY <1>1, <1>3, <1>6, <2>3 DEF Orders
  <2>4. CASE x \notin D /\ y \notin D
    BY <1>1, <1>2, <1>6, <2>4 DEF Orders
  <2>. QED BY <2>1, <2>2, <2>3, <2>4
<1>. QED BY <1>1, <1>4, <1>5, <1>6 DEF Orders

\* The children that are loaded come after those that are there.
LEMMA NewOrderOrders ==
  ASSUME NEW pa, NEW pb \in ParentMap, NEW or, OrdersChildren(or, pa), None \notin Id,
         NEW new \in SUBSET Id, NEW inner, Orders(inner, new),
         \A m \in Id \ new : pb[m] = pa[m], \A m \in new : pa[m] = None,
         NEW R, R = or \cup NewOrder(Kids(pb), new, inner)
  PROVE  OrdersChildren(R, pb)
<1>1. \A p \in or : /\ p = <<p[1], p[2]>> /\ p[1] \in Id \ new /\ p[2] \in Id \ new
                    /\ pb[p[1]] = pb[p[2]] /\ pb[p[1]] \in Id
  BY DEF OrdersChildren
<1>2. \A p \in NewOrder(Kids(pb), new, inner) :
        /\ p = <<p[1], p[2]>> /\ p[1] \in Id /\ p[2] \in new
        /\ pb[p[1]] = pb[p[2]] /\ pb[p[1]] \in Id
  BY DEF NewOrder, Kids
<1>3. ASSUME NEW n \in Id PROVE Orders(R, Kids(pb)[n])
  <2>. DEFINE K == Kids(pb)[n]
  <2>1. \A x \in K : x \in Id /\ pb[x] = n
    BY DEF Kids
  <2>2. \A x, y \in K : x \notin new /\ y \notin new =>
          /\ <<x, y>> \in R <=> <<x, y>> \in or
          /\ x \in Kids(pa)[n] /\ y \in Kids(pa)[n]
    BY <1>2, <2>1 DEF Kids
  <2>3. \A x, y \in K : x \in new /\ y \notin new => <<x, y>> \notin R
    BY <1>1, <1>2
  <2>4. ASSUME NEW x \in K, NEW y \in K, y \in new
        PROVE  <<x, y>> \in R <=> x # y /\ (x \in new => <<x, y>> \in inner)
    <3>1. <<x, y>> \in R <=> <<x, y>> \in NewOrder(Kids(pb), new, inner)
      BY <1>1, <2>4
    <3>2. <<x, y>> \in Id \X new
      BY <2>1, <2>4
    <3>. QED BY <3>1, <3>2 DEF NewOrder
  <2>5. Orders(or, Kids(pa)[n])
    BY DEF OrdersChildren
  <2>. HIDE DEF K
  <2>6. \A x \in K : <<x, x>> \notin R
    BY <2>2, <2>3, <2>4, <2>5 DEF Orders
  <2>7. \A x, y \in K : x # y => <<x, y>> \in R \/ <<y, x>> \in R
    BY <2>2, <2>3, <2>4, <2>5 DEF Orders
  <2>8. ASSUME NEW x \in K, NEW y \in K, NEW z \in K, <<x, y>> \in R, <<y, z>> \in R
        PROVE  <<x, z>> \in R
    <3>1. CASE z \notin new
      BY <2>2, <2>3, <2>5, <2>8, <3>1 DEF Orders
    <3>2. CASE z \in new
      BY <2>3, <2>4, <2>8, <3>2 DEF Orders
    <3>. QED BY <3>1, <3>2
  <2>. QED BY <2>6, <2>7, <2>8 DEF Orders, K
<1>4. \A p \in R : p \in Id \X Id /\ pb[p[1]] = pb[p[2]] /\ pb[p[1]] \in Id
  <2>. DEFINE N == NewOrder(Kids(pb), new, inner)
  <2>1. R = or \cup N
    OBVIOUS
  <2>2. \A p \in N : p \in Id \X Id
    BY DEF NewOrder
  <2>3. or \subseteq Id \X Id
    BY DEF OrdersChildren
  <2>. HIDE DEF N
  <2>. QED BY <1>1, <1>2, <2>1, <2>2, <2>3 DEF N
<1>. QED BY <1>3, <1>4 DEF OrdersChildren

\* The rows are in one order.
LEMMA RowOrderOrders ==
  ASSUME NEW rows, Rows(rows)
  PROVE  /\ Orders(RowOrder(rows), Ids(rows))
         /\ IsFiniteSet(Ids(rows))
         /\ [i \in DOMAIN rows |-> rows[i].id] \in Seq(Ids(rows))
         /\ ToSet([i \in DOMAIN rows |-> rows[i].id]) = Ids(rows)
<1>1. /\ \A i, j \in DOMAIN rows : rows[i].id = rows[j].id => i = j
      /\ Len(rows) \in Nat /\ DOMAIN rows = 1..Len(rows)
  BY DEF Rows
<1>2. ASSUME NEW i \in DOMAIN rows, NEW j \in DOMAIN rows
      PROVE  <<rows[i].id, rows[j].id>> \in RowOrder(rows) <=> i < j
  <2>. DEFINE P == {q \in (DOMAIN rows) \X (DOMAIN rows) : q[1] < q[2]}
  <2>1. i < j => <<i, j>> \in P
    OBVIOUS
  <2>2. \A p \in P : p[1] \in DOMAIN rows /\ p[2] \in DOMAIN rows /\ p[1] < p[2]
    OBVIOUS
  <2>3. RowOrder(rows) = {<<rows[p[1]].id, rows[p[2]].id>> : p \in P}
    BY DEF RowOrder
  <2>. HIDE DEF P
  <2>4. ASSUME i < j PROVE <<rows[i].id, rows[j].id>> \in RowOrder(rows)
    <3>1. <<i, j>>[1] = i /\ <<i, j>>[2] = j
      OBVIOUS
    <3>. QED BY <2>1, <2>3, <2>4, <3>1
  <2>5. ASSUME <<rows[i].id, rows[j].id>> \in RowOrder(rows) PROVE i < j
    <3>1. PICK p \in P : rows[i].id = rows[p[1]].id /\ rows[j].id = rows[p[2]].id
      BY <2>3, <2>5
    <3>. QED BY <1>1, <2>2, <3>1
  <2>. QED BY <2>4, <2>5
<1>3. \A x \in Ids(rows) : \E i \in DOMAIN rows : x = rows[i].id
  BY DEF Ids
<1>4. Orders(RowOrder(rows), Ids(rows))
  <2>1. ASSUME NEW x \in Ids(rows), NEW y \in Ids(rows), NEW z \in Ids(rows)
        PROVE  /\ <<x, x>> \notin RowOrder(rows)
               /\ x # y => <<x, y>> \in RowOrder(rows) \/ <<y, x>> \in RowOrder(rows)
               /\ <<x, y>> \in RowOrder(rows) /\ <<y, z>> \in RowOrder(rows)
                    => <<x, z>> \in RowOrder(rows)
    <3>1. PICK i, j, k \in DOMAIN rows : x = rows[i].id /\ y = rows[j].id /\ z = rows[k].id
      BY <1>3
    <3>2. i \in Nat /\ j \in Nat /\ k \in Nat
      BY <1>1
    <3>3. x # y => i < j \/ j < i
      BY <3>1, <3>2
    <3>4. ~(i < i) /\ (i < j /\ j < k => i < k)
      BY <3>2
    <3>. QED BY <1>2, <3>1, <3>3, <3>4
  <2>. QED BY <2>1 DEF Orders
<1>. DEFINE f == [i \in DOMAIN rows |-> rows[i].id]
<1>5. f \in Surjection(1..Len(rows), Ids(rows))
  BY <1>1, <1>3 DEF Ids, Surjection
<1>6. IsFiniteSet(Ids(rows))
  BY <1>1, <1>5, FS_Interval, FS_Surjection
<1>7. f \in Seq(Ids(rows)) /\ ToSet(f) = Ids(rows)
  BY <1>1 DEF Ids, ToSet
<1>. QED BY <1>4, <1>6, <1>7

\* How many elements come before n, and the elements by that number.
Rank(S, R, n) == Cardinality({m \in S : <<m, n>> \in R})
ByRank(S, R)  == [i \in 1..Cardinality(S) |-> CHOOSE n \in S : Rank(S, R, n) = i - 1]

\* The ranks in an order are 0, 1, and so on, each of them once.
LEMMA Ranks ==
  ASSUME NEW S, IsFiniteSet(S), NEW R, Orders(R, S)
  PROVE  /\ Cardinality(S) \in Nat
         /\ \A n \in S : Rank(S, R, n) \in 0..(Cardinality(S) - 1)
         /\ \A i \in 1..Cardinality(S) : \E n \in S : Rank(S, R, n) = i - 1
         /\ \A n, k \in S : <<n, k>> \in R => Rank(S, R, n) < Rank(S, R, k)
<1>. DEFINE B(n) == {m \in S : <<m, n>> \in R}
            N == Cardinality(S)
            rank == [n \in S |-> Cardinality(B(n))]
<1>1. N \in Nat /\ \A n \in S : B(n) \in SUBSET S
  BY FS_CardinalityType
<1>2. ASSUME NEW n \in S, NEW T \in SUBSET S, B(n) \subseteq T, n \in T
      PROVE  /\ Cardinality(B(n)) \in Nat /\ Cardinality(T) \in Nat
             /\ Cardinality(B(n)) < Cardinality(T)
  <2>1. IsFiniteSet(T) /\ n \notin B(n)
    BY FS_Subset DEF Orders
  <2>. DEFINE Bn == B(n)
  <2>2. Bn \in SUBSET T /\ Bn # T
    BY <1>2, <2>1
  <2>. HIDE DEF Bn
  <2>3. IsFiniteSet(Bn) /\ Cardinality(Bn) <= Cardinality(T) /\ Cardinality(Bn) # Cardinality(T)
    BY <2>1, <2>2, FS_Subset
  <2>4. Cardinality(Bn) \in Nat /\ Cardinality(T) \in Nat
    BY <2>1, <2>3, FS_CardinalityType
  <2>5. Cardinality(Bn) < Cardinality(T)
    BY <2>3, <2>4
  <2>. QED BY <2>4, <2>5 DEF Bn
<1>3. \A n \in S : rank[n] \in 0..(N - 1)
  BY <1>1, <1>2
<1>4. ASSUME NEW n \in S, NEW k \in S, <<n, k>> \in R PROVE rank[n] < rank[k]
  <2>1. B(n) \subseteq B(k) /\ n \in B(k)
    BY <1>4 DEF Orders
  <2>. QED BY <1>1, <1>2, <2>1
<1>5. \A n, k \in S : n # k => rank[n] # rank[k]
  <2>1. SUFFICES ASSUME NEW n \in S, NEW k \in S, n # k PROVE rank[n] # rank[k]
    BY Zenon
  <2>2. <<n, k>> \in R \/ <<k, n>> \in R
    BY <2>1 DEF Orders
  <2>3. rank[n] < rank[k] \/ rank[k] < rank[n]
    BY <1>4, <2>2
  <2>4. rank[n] \in Int /\ rank[k] \in Int
    BY <1>3
  <2>. HIDE DEF rank
  <2>. QED BY <2>3, <2>4
<1>6. rank \in Surjection(S, 0..(N - 1))
  <2>. DEFINE T == 0..(N - 1)
  <2>1. rank \in Injection(S, T)
    BY <1>3, <1>5 DEF Injection, IsInjective
  <2>2. IsFiniteSet(T) /\ Cardinality(T) = N
    BY <1>1, FS_Interval
  <2>. HIDE DEF rank, T
  <2>3. rank \in Surjection(S, T)
    BY <2>1, <2>2, FS_Injection
  <2>. QED BY <2>3 DEF T
<1>7. \A i \in 1..N : \E n \in S : rank[n] = i - 1
  <2>1. \A i \in 1..N : i - 1 \in 0..(N - 1)
    BY <1>1
  <2>. HIDE DEF rank, N
  <2>. QED BY <1>6, <2>1 DEF Surjection
<1>. QED BY <1>1, <1>3, <1>4, <1>7 DEF Rank

---------------------------------------------------------------------------
(* Loops                                                                   *)
---------------------------------------------------------------------------
LEMMA UpTo ==
  ASSUME NEW len \in Nat, NEW T, 0 \in T, \A i \in 1..len : i - 1 \in T => i \in T
  PROVE  \A i \in 0..len : i \in T
<1>. DEFINE S == (0..len) \ T
<1>. SUFFICES ASSUME S # {} PROVE FALSE
  OBVIOUS
<1>1. S \in SUBSET Nat
  OBVIOUS
<1>2. PICK i \in S : \A j \in S : i <= j
  <2>. HIDE DEF S
  <2>. QED BY <1>1, Minimum
<1>3. i \in 1..len
  BY <1>2
<1>4. i - 1 \in 0..len /\ ~(i <= i - 1)
  BY <1>3
<1>. QED BY <1>2, <1>3, <1>4

\* The bodies of loops of a length that keep their state in V, and the run of one.
Bodies(len, V) == [V \X (1..len) -> V]
IsRun(f, len, base, step) ==
  f[0] = base /\ \A i \in 1..len : f[i] = step[<<f[i - 1], i>>]

LEMMA LoopRuns ==
  ASSUME NEW len \in Nat, NEW V, NEW base \in V, NEW step \in Bodies(len, V)
  PROVE  \E f \in [0..len -> V] : IsRun(f, len, base, step)
<1>. USE DEF Bodies, IsRun
<1>. DEFINE Runs(k) == \E f \in [0..k -> V] :
                         f[0] = base /\ \A i \in 1..k : f[i] = step[<<f[i - 1], i>>]
            T == {k \in 0..len : Runs(k)}
<1>1. 0 \in T
  <2>1. [i \in 0..0 |-> base] \in [0..0 -> V] /\ [i \in 0..0 |-> base][0] = base
    OBVIOUS
  <2>2. \A i \in 1..0 : FALSE
    OBVIOUS
  <2>3. Runs(0)
    BY <2>1, <2>2
  <2>. QED BY <2>3
<1>2. ASSUME NEW k \in 1..len, k - 1 \in T PROVE k \in T
  <2>1. PICK f \in [0..(k - 1) -> V] :
          f[0] = base /\ \A i \in 1..(k - 1) : f[i] = step[<<f[i - 1], i>>]
    BY <1>2
  <2>. DEFINE g == [i \in 0..k |-> IF i = k THEN step[<<f[k - 1], k>>] ELSE f[i]]
  <2>2. f[k - 1] \in V /\ step[<<f[k - 1], k>>] \in V
    BY <2>1
  <2>3. g \in [0..k -> V] /\ g[0] = base
    BY <2>1, <2>2
  <2>4. ASSUME NEW i \in 1..k PROVE g[i] = step[<<g[i - 1], i>>]
    <3>1. i - 1 \in 0..k /\ i - 1 # k /\ i \in 0..k
      OBVIOUS
    <3>2. g[i - 1] = f[i - 1]
      BY <3>1
    <3>3. i # k => i \in 1..(k - 1)
      OBVIOUS
    <3>. QED BY <2>1, <3>1, <3>2, <3>3
  <2>. HIDE DEF g
  <2>. QED BY <2>3, <2>4
<1>. HIDE DEF T
<1>3. \A i \in 0..len : i \in T
  BY <1>1, <1>2, UpTo
<1>4. len \in 0..len
  OBVIOUS
<1>5. Runs(len)
  <2>. HIDE DEF Runs
  <2>. QED BY <1>3, <1>4 DEF T
<1>. QED BY <1>5

\* NodesWithout leaves the other nodes.
LEMMA NodesLeft ==
  ASSUME NEW D, nodes \in Seq(tree), ToSet(nodes) = tree
  PROVE  NodesWithout(D) \in Seq(tree \ D) /\ ToSet(NodesWithout(D)) = tree \ D
<1>. DEFINE len == Len(nodes)
            V == Seq(tree \ D)
            empty == <<>>
            Kept(s, i) == IF nodes[i] \in D THEN s ELSE Append(s, nodes[i])
            step == [p \in V \X (1..len) |-> Kept(p[1], p[2])]
            Eq(g) == g = [i \in 0..len |-> IF i = 0 THEN empty ELSE Kept(g[i - 1], i)]
            kept == CHOOSE g : Eq(g)
<1>1. len \in Nat /\ \A i \in 1..len : nodes[i] \in tree
  OBVIOUS
<1>2. /\ empty \in V /\ ToSet(empty) = {}
      /\ \A s \in V, i \in 1..len :
           /\ Kept(s, i) \in V
           /\ ToSet(Kept(s, i)) = ToSet(s) \cup ({nodes[i]} \ D)
  <2>1. ASSUME NEW s \in V, NEW x \in tree \ D
        PROVE  Append(s, x) \in V /\ ToSet(Append(s, x)) = ToSet(s) \cup {x}
    <3>1. /\ Append(s, x) \in V
          /\ Len(s) \in Nat /\ DOMAIN s = 1..Len(s)
          /\ DOMAIN Append(s, x) = 1..(Len(s) + 1)
          /\ \A i \in 1..Len(s) : Append(s, x)[i] = s[i]
          /\ Append(s, x)[Len(s) + 1] = x
      BY AppendProperties
    <3>2. 1..(Len(s) + 1) = (1..Len(s)) \cup {Len(s) + 1}
      BY <3>1
    <3>. QED BY <3>1, <3>2 DEF ToSet
  <2>2. empty \in V /\ ToSet(empty) = {}
    BY DEF ToSet
  <2>3. ASSUME NEW s \in V, NEW i \in 1..len
        PROVE  Kept(s, i) \in V /\ ToSet(Kept(s, i)) = ToSet(s) \cup ({nodes[i]} \ D)
    <3>1. CASE nodes[i] \in D
      <4>1. Kept(s, i) = s /\ {nodes[i]} \ D = {}
        BY <3>1
      <4>. HIDE DEF Kept, V
      <4>. QED BY <4>1
    <3>2. CASE nodes[i] \notin D
      <4>1. nodes[i] \in tree \ D
        BY <1>1, <3>2
      <4>2. Kept(s, i) = Append(s, nodes[i])
        BY <3>2
      <4>3. {nodes[i]} \ D = {nodes[i]}
        BY <4>1
      <4>. HIDE DEF Kept, V
      <4>. QED BY <2>1, <4>1, <4>2, <4>3
    <3>. QED BY <3>1, <3>2
  <2>. HIDE DEF Kept, V
  <2>. QED BY <2>2, <2>3
<1>3. NodesWithout(D) = kept[len]
  BY Zenon DEF NodesWithout
<1>. HIDE DEF len, V, empty, Kept
<1>4. step \in Bodies(len, V) /\ \A s \in V, i \in 1..len : step[<<s, i>>] = Kept(s, i)
  BY <1>2 DEF Bodies
<1>. HIDE DEF step
<1>5. \E g : Eq(g)
  <2>1. PICK f \in [0..len -> V] : IsRun(f, len, empty, step)
    BY <1>1, <1>2, <1>4, LoopRuns
  <2>2. \A i \in 1..len : f[i - 1] \in V
    BY <1>1
  <2>3. \A i \in 1..len : f[i] = Kept(f[i - 1], i)
    BY <1>4, <2>1, <2>2 DEF IsRun
  <2>4. \A i \in 0..len : i = 0 \/ i \in 1..len
    BY <1>1
  <2>5. \A i \in 0..len : f[i] = IF i = 0 THEN empty ELSE Kept(f[i - 1], i)
    BY <2>1, <2>3, <2>4 DEF IsRun
  <2>. QED BY <2>5
<1>6. Eq(kept)
  <2>. HIDE DEF Eq
  <2>. QED BY <1>5
<1>. HIDE DEF kept
<1>7. kept[0] = empty /\ \A i \in 1..len : kept[i] = Kept(kept[i - 1], i)
  BY <1>1, <1>6
<1>. DEFINE T == {i \in 0..len : kept[i] \in V /\ ToSet(kept[i]) = {nodes[j] : j \in 1..i} \ D}
<1>8. 0 \in T
  <2>1. {nodes[j] : j \in 1..0} = {}
    OBVIOUS
  <2>. QED BY <1>1, <1>2, <1>7, <2>1
<1>9. ASSUME NEW i \in 1..len, i - 1 \in T PROVE i \in T
  <2>1. {nodes[j] : j \in 1..i} = {nodes[j] : j \in 1..(i - 1)} \cup {nodes[i]}
    BY <1>1
  <2>. QED BY <1>2, <1>7, <1>9, <2>1
<1>. HIDE DEF T
<1>10. len \in T
  <2>1. len \in 0..len
    BY <1>1
  <2>. QED BY <1>1, <1>8, <1>9, <2>1, UpTo
<1>11. {nodes[j] : j \in 1..len} = tree
  BY DEF ToSet, len
<1>. QED BY <1>3, <1>10, <1>11 DEF T, V

---------------------------------------------------------------------------
(* The steps keep the rows and the children ordered                        *)
---------------------------------------------------------------------------
\* The rows of the page are in one order, as are the children of every node, and
\* Tree.nodes lists the nodes of the tree.
RowsInv ==
  /\ ForestInv
  /\ IsFiniteSet(tree)
  /\ nodes \in Seq(tree) /\ ToSet(nodes) = tree
  /\ OrdersChildren(order, parent)
  /\ above \subseteq tree \X tree /\ Orders(above, tree)

\* The children of a table that is read from its rows.
LEMMA NewOrderAlone ==
  ASSUME NEW pb \in ParentMap, NEW new \in SUBSET Id, NEW inner, Orders(inner, new),
         \A m \in Id \ new : pb[m] = None
  PROVE  OrdersChildren(NewOrder(Kids(pb), new, inner), pb)
<1>. DEFINE pa == [m \in Id |-> None]
<1>1. \A m \in Id : pa[m] = None
  OBVIOUS
<1>. HIDE DEF pa
<1>2. None \notin Id
  BY ConfigAssumption
<1>3. OrdersChildren({}, pa)
  <2>1. \A p \in Id : Kids(pa)[p] = {}
    BY <1>1, <1>2 DEF Kids
  <2>. QED BY <2>1 DEF OrdersChildren, Orders
<1>4. /\ \A m \in Id \ new : pb[m] = pa[m]
      /\ \A m \in new : pa[m] = None
  BY <1>1
<1>. DEFINE none == {}
            N == NewOrder(Kids(pb), new, inner)
<1>5. OrdersChildren(none, pa) /\ N = none \cup N
  BY <1>3
<1>. HIDE DEF none
<1>. HIDE DEF N
<1>6. \A R : R = none \cup NewOrder(Kids(pb), new, inner) => OrdersChildren(R, pb)
  <2>. SUFFICES ASSUME NEW R, R = none \cup NewOrder(Kids(pb), new, inner)
                PROVE  OrdersChildren(R, pb)
    OBVIOUS
  <2>1. OrdersChildren(none, pa)
    BY <1>5
  <2>. QED BY <1>2, <1>4, <2>1, NewOrderOrders, Zenon
<1>. QED BY <1>5, <1>6 DEF N

LEMMA InitRows == Init => RowsInv
<1>. SUFFICES ASSUME Init PROVE RowsInv
  OBVIOUS
<1>1. PICK rows \in Tables :
        /\ tree = Ids(rows)
        /\ nodes = [i \in DOMAIN rows |-> rows[i].id]
        /\ parent = [n \in Id |-> IF n \in Ids(rows) THEN ParentId(rows, n) ELSE None]
        /\ children = NewChildren(parent, {}, Ids(rows), RowOrder(rows))
        /\ order = NewOrder(children, Ids(rows), RowOrder(rows))
        /\ above = RowOrder(rows)
  BY Zenon DEF Init
<1>2. Rows(rows) /\ None \notin Id
  BY ConfigAssumption
<1>3. ForestInv /\ parent \in ParentMap /\ children = Kids(parent)
  BY InitForest, ForestFacts DEF ForestInv
<1>4. OrdersChildren(order, parent)
  BY <1>1, <1>2, <1>3, RowOrderOrders, NewOrderAlone DEF ForestInv
<1>5. above \subseteq tree \X tree
  BY <1>1, <1>2, RowsParents
<1>. QED BY <1>1, <1>2, <1>3, <1>4, <1>5, RowOrderOrders DEF RowsInv

\* The rows of the page, in their order, when the table is read again.
LEMMA RowsRanked ==
  ASSUME NEW S, IsFiniteSet(S), NEW R, Orders(R, S)
  PROVE  ByRank(S, R) \in Seq(S) /\ ToSet(ByRank(S, R)) = S
<1>. DEFINE N == Cardinality(S)
            r(n) == Rank(S, R, n)
            q == ByRank(S, R)
<1>1. /\ N \in Nat
      /\ \A n \in S : r(n) \in 0..(N - 1)
      /\ \A i \in 1..N : \E n \in S : r(n) = i - 1
      /\ \A n, k \in S : <<n, k>> \in R => r(n) < r(k)
  BY Ranks
<1>2. DOMAIN q = 1..N /\ \A i \in 1..N : q[i] = CHOOSE n \in S : r(n) = i - 1
  BY DEF ByRank
<1>. HIDE DEF N, r, q
<1>3. \A i \in 1..N : q[i] \in S /\ r(q[i]) = i - 1
  BY <1>1, <1>2
<1>4. ASSUME NEW n \in S, NEW k \in S, r(n) = r(k) PROVE n = k
  <2>1. ~(r(n) < r(k)) /\ ~(r(k) < r(n))
    BY <1>1, <1>4
  <2>. QED BY <1>1, <2>1 DEF Orders
<1>5. ASSUME NEW n \in S PROVE \E i \in 1..N : q[i] = n
  <2>1. PICK i \in 1..N : i - 1 = r(n)
    <3>1. r(n) + 1 \in 1..N /\ (r(n) + 1) - 1 = r(n)
      BY <1>1
    <3>. QED BY <3>1
  <2>2. q[i] \in S /\ r(q[i]) = r(n)
    BY <1>3, <2>1
  <2>. QED BY <1>4, <2>2
<1>6. q \in [1..N -> S]
  BY <1>2, <1>3 DEF q, ByRank, N
<1>7. q \in Seq(S)
  BY <1>1, <1>6
<1>8. ToSet(q) = {q[i] : i \in 1..N}
  BY <1>2 DEF ToSet
<1>9. {q[i] : i \in 1..N} = S
  BY <1>3, <1>5
<1>. QED BY <1>7, <1>8, <1>9 DEF q

LEMMA ReinitRows == ASSUME RowsInv, NEW s, Reinit(s) PROVE RowsInv'
<1>1. /\ UNCHANGED <<tree, parent, above>>
      /\ order' = NewOrder(children', tree, above)
      /\ nodes' = ByRank(tree, above)
  BY DEF Reinit, Load, ByRank, Rank
<1>2. ForestInv' /\ children' = Kids(parent) /\ parent \in ParentMap
  BY <1>1, ReinitForest, ForestFacts DEF RowsInv, ForestInv
<1>3. OrdersChildren(order', parent)
  BY <1>1, <1>2, NewOrderAlone DEF RowsInv, ForestInv
<1>4. nodes' \in Seq(tree) /\ ToSet(nodes') = tree
  BY <1>1, RowsRanked DEF RowsInv
<1>5. ToSet(nodes)' = ToSet(nodes')
  BY DEF ToSet
<1>. QED BY <1>1, <1>2, <1>3, <1>4, <1>5 DEF RowsInv

LEMMA PruneRows ==
  ASSUME RowsInv, ForestInv', NEW D \in SUBSET tree, NEW pruned, NEW v, Prune(D, pruned, v)
  PROVE  RowsInv'
<1>1. /\ tree' = tree \ D
      /\ nodes' = NodesWithout(D)
      /\ parent' = [n \in Id |-> IF n \in D THEN None ELSE parent[n]]
      /\ order' = {p \in order : \E n \in Id : p[1] \in children'[n] /\ p[2] \in children'[n]}
      /\ above' = {p \in above : p[1] \notin D /\ p[2] \notin D}
  BY DEF Prune
<1>2. children' = Kids(parent') /\ None \notin Id
  BY ConfigAssumption DEF ForestInv
<1>3. IsFiniteSet(tree') /\ nodes' \in Seq(tree') /\ ToSet(nodes)' = tree'
  <2>1. ToSet(nodes)' = ToSet(nodes')
    BY DEF ToSet
  <2>. QED BY <1>1, <2>1, NodesLeft, FS_Difference DEF RowsInv
<1>4. OrdersChildren(order', parent')
  <2>1. /\ order' \subseteq Id \X Id
        /\ \A p \in order' : parent'[p[1]] = parent'[p[2]] /\ parent'[p[1]] \in Id
    BY <1>1, <1>2 DEF RowsInv, OrdersChildren, Kids
  <2>2. ASSUME NEW n \in Id PROVE Orders(order', Kids(parent')[n])
    <3>1. Kids(parent')[n] \subseteq Kids(parent)[n]
      BY <1>1, <1>2 DEF Kids
    <3>2. \A x, y \in Kids(parent')[n] : <<x, y>> \in order' <=> <<x, y>> \in order
      BY <1>1, <1>2
    <3>3. Orders(order, Kids(parent)[n])
      BY DEF RowsInv, OrdersChildren
    <3>. QED BY <3>1, <3>2, <3>3 DEF Orders
  <2>. QED BY <2>1, <2>2 DEF OrdersChildren
<1>5. above' \subseteq tree' \X tree' /\ Orders(above', tree')
  <2>1. \A x, y \in tree' : <<x, y>> \in above' <=> <<x, y>> \in above
    BY <1>1
  <2>2. above' \subseteq tree' \X tree'
    BY <1>1 DEF RowsInv
  <2>3. tree' \subseteq tree /\ Orders(above, tree)
    BY <1>1 DEF RowsInv
  <2>. QED BY <2>1, <2>2, <2>3 DEF Orders
<1>. QED BY <1>3, <1>4, <1>5 DEF RowsInv

LEMMA RemoveRows ==
  ASSUME RowsInv, NEW n \in Id, RemoveNode(n) \/ UnloadBranch(n) PROVE RowsInv'
<1>1. ForestInv' /\ ForestInv
  BY RemoveForest DEF RowsInv
<1>2. n \in tree /\ {n} \cup Descendants(children, n) \subseteq tree
  BY <1>1, ForestFacts DEF RemoveNode, UnloadBranch
<1>3. \E D \in SUBSET tree : \E pruned, v : Prune(D, pruned, v)
  <2>1. CASE RemoveNode(n)
    BY <1>2, <2>1, Zenon DEF RemoveNode
  <2>2. CASE UnloadBranch(n)
    <3>1. Descendants(children, n) \in SUBSET tree
      BY <1>2
    <3>. QED BY <2>2, <3>1, Zenon DEF UnloadBranch
  <2>. QED BY <2>1, <2>2
<1>. QED BY <1>1, <1>3, PruneRows

\* Rows of a branch that were put below others in the order of a walk.
LEMMA WalkInserted ==
  ASSUME above \subseteq tree \X tree, Orders(above, tree),
         tree \in SUBSET Id, NEW pa \in [Id -> tree \cup {None}], Forest(tree, pa),
         NEW or, OrdersChildren(or, pa), NEW n \in tree, NEW D \in SUBSET tree,
         D \subseteq Branch(pa, n), NEW at \in SUBSET tree,
         NEW R, R = InsertAfter(D, at, WalkOrder(pa, or, D))
  PROVE  R \subseteq tree \X tree /\ Orders(R, tree)
<1>. DEFINE inner == WalkOrder(pa, or, D)
<1>1. Orders(inner, D)
  BY ConfigAssumption, WalkIsOrder
<1>2. inner \in SUBSET (D \X D)
  BY WalkPairs DEF OrdersChildren
<1>3. tree \cup D = tree /\ R = InsertAfter(D, at, inner)
  OBVIOUS
<1>. HIDE DEF inner
<1>. QED BY <1>1, <1>2, <1>3, InsertIsOrder

LEMMA MoveRows ==
  ASSUME RowsInv, NEW n \in Id, NEW d \in Id, Move(n, d) PROVE RowsInv'
<1>. DEFINE pa   == [parent EXCEPT ![n] = d]
            gone == IF parent[n] = None THEN {} ELSE Spliced(parent[n], n)
            ch == [p \in Id |-> (children[p] \ (IF p = parent[n] THEN gone ELSE {}))
                                 \cup (IF p = d THEN {n} ELSE {})]
            or == {p \in order : p[1] \notin gone /\ p[2] \notin gone} \cup (children[d] \X {n})
            C  == {n} \cup Descendants(ch, n)
<1>1. /\ n \in tree /\ d \in tree /\ n # d /\ d # parent[n]
      /\ UNCHANGED <<tree, nodes>> /\ parent' = pa /\ children' = ch
      /\ order' = or /\ above' = InsertAfter(C, {d}, WalkOrder(pa, or, C))
  BY Zenon DEF Move, Moves
<1>2. ForestInv /\ ForestInv' /\ None \notin Id
  BY MoveForest, ConfigAssumption DEF RowsInv
<1>3. /\ \A p \in Id : children[p] = {m \in Id : parent[m] = p}
      /\ parent \in [Id -> tree \cup {None}] /\ tree \in SUBSET Id
  BY <1>2 DEF ForestInv, Kids
<1>4. /\ pa[n] = d /\ \A y \in Id \ {n} : pa[y] = parent[y]
      /\ pa \in [Id -> tree \cup {None}] /\ Forest(tree, pa) /\ ch = Kids(pa)
  BY <1>1, <1>2, <1>3 DEF ForestInv
<1>5. parent[n] # None => gone = {n}
  BY <1>3 DEF Spliced
<1>6. \A p \in order : p \in Id \X Id /\ parent[p[1]] = parent[p[2]] /\ parent[p[1]] \in Id
  BY DEF RowsInv, OrdersChildren
<1>7. n \notin children[d] /\ children[d] \subseteq Id
  BY <1>1, <1>3
<1>8. \A x, y \in Id : <<x, y>> \in or <=>
        \/ x # n /\ y # n /\ <<x, y>> \in order
        \/ x \in children[d] /\ y = n
  <2>1. CASE parent[n] # None
    BY <1>5, <1>7, <2>1
  <2>2. CASE parent[n] = None
    BY <1>2, <1>6, <1>7, <2>2
  <2>. QED BY <2>1, <2>2
<1>9. OrdersChildren(or, pa)
  <2>1. or \subseteq Id \X Id
    BY <1>6, <1>7
  <2>2. ASSUME NEW x \in Id, NEW y \in Id, <<x, y>> \in or
        PROVE  pa[x] = pa[y] /\ pa[x] \in Id
    <3>1. CASE x # n /\ y # n /\ <<x, y>> \in order
      BY <1>4, <1>6, <3>1
    <3>2. CASE x \in children[d] /\ y = n
      BY <1>3, <1>4, <1>7, <3>2
    <3>. QED BY <1>8, <2>2, <3>1, <3>2
  <2>3. ASSUME NEW k \in Id PROVE Orders(or, Kids(pa)[k])
    <3>1. Orders(order, Kids(parent)[k])
      BY DEF RowsInv, OrdersChildren
    <3>2. /\ \A x \in Kids(pa)[k] : x \in Id /\ (x # n => x \in Kids(parent)[k])
          /\ n \in Kids(pa)[k] => k = d
      BY <1>4 DEF Kids
    <3>3. \A x \in Kids(pa)[d] : x # n => x \in children[d]
      BY <1>3, <1>4 DEF Kids
    <3>. DEFINE K == Kids(pa)[k]
    <3>4. n \in K => \A x \in K : <<x, n>> \in or <=> x # n
      BY <1>7, <1>8, <3>2, <3>3
    <3>5. \A x \in K : <<n, x>> \notin or
      BY <1>7, <1>8, <3>2
    <3>6. \A x, y \in K : x # n /\ y # n =>
            /\ <<x, y>> \in or <=> <<x, y>> \in order
            /\ x \in Kids(parent)[k] /\ y \in Kids(parent)[k]
      BY <1>8, <3>2
    <3>. HIDE DEF or, K
    <3>7. \A x, y \in K : x # y => <<x, y>> \in or \/ <<y, x>> \in or
      BY <3>1, <3>4, <3>6 DEF Orders
    <3>8. \A x \in K : <<x, x>> \notin or
      BY <3>1, <3>5, <3>6 DEF Orders
    <3>9. \A x, y, z \in K : <<x, y>> \in or /\ <<y, z>> \in or => <<x, z>> \in or
      BY <3>1, <3>4, <3>5, <3>6 DEF Orders
    <3>. QED BY <3>7, <3>8, <3>9 DEF Orders, K
  <2>4. \A p \in or : pa[p[1]] = pa[p[2]] /\ pa[p[1]] \in Id
    BY <2>1, <2>2
  <2>. QED BY <2>1, <2>3, <2>4 DEF OrdersChildren
<1>10. C \in SUBSET tree /\ C \subseteq Branch(pa, n)
  <2>1. pa \in ParentMap /\ \A y \in Id : pa[y] \in tree \cup {n} => y \in tree
    BY <1>1, <1>2, <1>3, <1>4 DEF ForestInv, ParentMap
  <2>. HIDE DEF pa
  <2>2. Descendants(Kids(pa), n) \subseteq tree
    BY <1>1, <1>3, <2>1, DescendantsMin
  <2>. QED BY <1>1, <1>4, <2>2 DEF Branch
<1>11. above' \subseteq tree \X tree /\ Orders(above', tree)
  <2>. HIDE DEF or, C, pa
  <2>. QED BY <1>1, <1>3, <1>4, <1>9, <1>10, WalkInserted DEF RowsInv
<1>12. ToSet(nodes)' = ToSet(nodes)
  BY <1>1 DEF ToSet
<1>. QED
  <2>. HIDE DEF or, C, pa
  <2>. QED BY <1>1, <1>2, <1>9, <1>11, <1>12 DEF RowsInv

LEMMA SortRows ==
  ASSUME RowsInv, NEW n \in Id, NEW key \in SortKeys, SortBranch(n, key) PROVE RowsInv'
<1>. DEFINE Sorted(a, b) == key[a] < key[b] \/ (key[a] = key[b] /\ <<a, b>> \in order)
            K  == children[n]
            or == {p \in order : p[1] \notin K} \cup {p \in K \X K : Sorted(p[1], p[2])}
            D  == Descendants(children, n)
<1>1. /\ n \in tree /\ UNCHANGED <<tree, nodes, parent, children>>
      /\ order' = or /\ above' = InsertAfter(D, {n}, WalkOrder(parent, or, D))
  BY Zenon DEF SortBranch
<1>2. /\ ForestInv /\ ForestInv' /\ None \notin Id
      /\ key \in [Id -> Int]
  BY SortForest, ConfigAssumption DEF RowsInv
<1>3. /\ \A p \in Id : children[p] = {m \in Id : parent[m] = p} /\ Kids(parent)[p] = children[p]
      /\ parent \in [Id -> tree \cup {None}] /\ tree \in SUBSET Id /\ Forest(tree, parent)
      /\ children = Kids(parent)
  BY <1>2 DEF ForestInv, Kids
<1>4. \A p \in order : p \in Id \X Id /\ parent[p[1]] = parent[p[2]] /\ parent[p[1]] \in Id
  BY DEF RowsInv, OrdersChildren
<1>5. \A k \in Id : Orders(order, children[k])
  BY <1>3 DEF RowsInv, OrdersChildren
<1>6. \A x, y \in Id : <<x, y>> \in or <=> \/ x \notin K /\ <<x, y>> \in order
                                           \/ x \in K /\ y \in K /\ Sorted(x, y)
  BY <1>3
<1>7. Orders(or, K)
  <2>1. K \subseteq Id /\ Orders(order, K)
    BY <1>3, <1>5
  <2>. HIDE DEF or, K
  <2>2. \A x, y \in K : <<x, y>> \in or <=> Sorted(x, y)
    BY <1>6, <2>1
  <2>3. \A x, y \in K : key[x] \in Int /\ key[y] \in Int
    BY <1>2, <2>1
  <2>4. ASSUME NEW x \in K, NEW y \in K, NEW z \in K
        PROVE  /\ ~Sorted(x, x)
               /\ x # y => Sorted(x, y) \/ Sorted(y, x)
               /\ Sorted(x, y) /\ Sorted(y, z) => Sorted(x, z)
    <3>1. key[x] \in Int /\ key[y] \in Int /\ key[z] \in Int
      BY <2>3
    <3>2. <<x, x>> \notin order /\ (x # y => <<x, y>> \in order \/ <<y, x>> \in order)
      BY <2>1 DEF Orders
    <3>3. <<x, y>> \in order /\ <<y, z>> \in order => <<x, z>> \in order
      BY <2>1 DEF Orders
    <3>. QED BY <3>1, <3>2, <3>3
  <2>. HIDE DEF Sorted
  <2>. QED BY <2>2, <2>4 DEF Orders
<1>8. OrdersChildren(or, parent)
  <2>1. or \subseteq Id \X Id
    BY <1>3, <1>4
  <2>2. ASSUME NEW x \in Id, NEW y \in Id, <<x, y>> \in or
        PROVE  parent[x] = parent[y] /\ parent[x] \in Id
    BY <1>3, <1>4, <1>6, <2>2
  <2>3. ASSUME NEW k \in Id PROVE Orders(or, Kids(parent)[k])
    <3>1. CASE k = n
      BY <1>3, <1>7, <3>1
    <3>2. CASE k # n
      <4>1. \A x, y \in children[k] : x \in Id /\ y \in Id /\ x \notin K
        BY <1>3, <3>2
      <4>. HIDE DEF or, K
      <4>. QED BY <1>3, <1>5, <1>6, <4>1 DEF Orders
    <3>. QED BY <3>1, <3>2
  <2>4. \A p \in or : parent[p[1]] = parent[p[2]] /\ parent[p[1]] \in Id
    BY <2>1, <2>2
  <2>. QED BY <2>1, <2>3, <2>4 DEF OrdersChildren
<1>9. D \in SUBSET tree /\ D \subseteq Branch(parent, n)
  BY <1>1, <1>2, <1>3, ForestFacts DEF Branch
<1>10. above' \subseteq tree \X tree /\ Orders(above', tree)
  <2>. HIDE DEF or, D
  <2>. QED BY <1>1, <1>3, <1>8, <1>9, WalkInserted DEF RowsInv
<1>11. ToSet(nodes)' = ToSet(nodes)
  BY <1>1 DEF ToSet
<1>. QED
  <2>. HIDE DEF or, D
  <2>. QED BY <1>1, <1>2, <1>8, <1>10, <1>11 DEF RowsInv

LEMMA LoadRowsOrdered ==
  ASSUME RowsInv, NEW n \in Id \cup {None}, NEW rows \in Batches, LoadBranch(n, rows)
  PROVE  RowsInv'
<1>. DEFINE new == Ids(rows)
            inner == RowOrder(rows)
            pa == [m \in Id |-> IF m \notin new THEN parent[m]
                                ELSE IF ParentId(rows, m) = None THEN n ELSE ParentId(rows, m)]
            ch == [p \in Id |-> children[p] \cup NewChildren(pa, tree, new, inner)[p]]
            at == IF n = None THEN {} ELSE FindLastNode(n)
            seq == [i \in DOMAIN rows |-> rows[i].id]
<1>1. /\ n \in tree \cup {None}
      /\ new \cap tree = {}
      /\ tree' = tree \cup new
      /\ nodes' = nodes \o seq
      /\ parent' = pa /\ children' = ch
      /\ order' = order \cup NewOrder(ch, new, inner)
      /\ above' = InsertAfter(new, at, inner)
  BY Zenon DEF LoadBranch
<1>2. Rows(rows) /\ None \notin Id
  BY ConfigAssumption
<1>3. /\ ForestInv /\ ForestInv'
      /\ parent \in [Id -> tree \cup {None}] /\ tree \in SUBSET Id
      /\ \A m \in Id \ tree : parent[m] = None
  BY LoadForest DEF RowsInv, ForestInv
<1>4. /\ new \in SUBSET Id /\ Orders(inner, new) /\ IsFiniteSet(new)
      /\ inner \in SUBSET (new \X new)
      /\ seq \in Seq(new) /\ ToSet(seq) = new
  BY <1>2, RowsParents, RowOrderOrders
<1>5. \A m \in Id \ new : pa[m] = parent[m]
  OBVIOUS
<1>. HIDE DEF new, inner, pa, seq
<1>6. /\ pa \in ParentMap /\ children' = Kids(pa)
      /\ \A m \in new : parent[m] = None
  BY <1>1, <1>2, <1>3, <1>4 DEF ForestInv, ParentMap
<1>7. OrdersChildren(order', pa)
  <2>1. order' = order \cup NewOrder(Kids(pa), new, inner)
    BY <1>1, <1>6
  <2>2. OrdersChildren(order, parent)
    BY DEF RowsInv
  <2>. QED BY <1>2, <1>4, <1>5, <1>6, <2>1, <2>2, NewOrderOrders, Zenon
<1>8. above' \subseteq tree' \X tree' /\ Orders(above', tree')
  <2>1. at \in SUBSET tree
    <3>1. n # None => FindLastNode(n) \subseteq {n} \cup Descendants(children, n)
      BY DEF FindLastNode
    <3>. QED BY <1>1, <1>3, <3>1, ForestFacts
  <2>. HIDE DEF at
  <2>. QED BY <1>1, <1>4, <2>1, InsertIsOrder DEF RowsInv
<1>9. IsFiniteSet(tree')
  BY <1>1, <1>4, FS_Union DEF RowsInv
<1>10. nodes' \in Seq(tree') /\ ToSet(nodes)' = tree'
  <2>1. nodes \in Seq(tree') /\ seq \in Seq(tree')
    BY <1>1, <1>4 DEF RowsInv
  <2>2. /\ Len(nodes) \in Nat /\ Len(seq) \in Nat
        /\ nodes' \in Seq(tree') /\ DOMAIN nodes' = 1..(Len(nodes) + Len(seq))
        /\ \A i \in 1..(Len(nodes) + Len(seq)) :
             nodes'[i] = IF i <= Len(nodes) THEN nodes[i] ELSE seq[i - Len(nodes)]
    BY <1>1, <2>1, ConcatProperties
  <2>3. /\ tree = {nodes[i] : i \in 1..Len(nodes)} /\ new = {seq[i] : i \in 1..Len(seq)}
    <3>1. DOMAIN nodes = 1..Len(nodes) /\ DOMAIN seq = 1..Len(seq)
      BY <2>1
    <3>2. tree = {nodes[i] : i \in DOMAIN nodes}
      BY DEF RowsInv, ToSet
    <3>3. new = {seq[i] : i \in DOMAIN seq}
      BY <1>4 DEF ToSet
    <3>. QED BY <3>1, <3>2, <3>3
  <2>4. ToSet(nodes)' = {nodes'[i] : i \in 1..(Len(nodes) + Len(seq))}
    BY <2>2 DEF ToSet
  <2>5. ASSUME NEW x \in tree' PROVE \E i \in 1..(Len(nodes) + Len(seq)) : nodes'[i] = x
    <3>1. CASE x \in tree
      <4>1. PICK i \in 1..Len(nodes) : x = nodes[i]
        BY <2>3, <3>1
      <4>2. i \in 1..(Len(nodes) + Len(seq)) /\ i <= Len(nodes)
        BY <2>2
      <4>. QED BY <2>2, <4>1, <4>2
    <3>2. CASE x \in new
      <4>1. PICK i \in 1..Len(seq) : x = seq[i]
        BY <2>3, <3>2
      <4>2. /\ Len(nodes) + i \in 1..(Len(nodes) + Len(seq))
            /\ ~(Len(nodes) + i <= Len(nodes)) /\ (Len(nodes) + i) - Len(nodes) = i
        BY <2>2
      <4>3. nodes'[Len(nodes) + i] = seq[i]
        BY <2>2, <4>2
      <4>. QED BY <4>1, <4>2, <4>3
    <3>. QED BY <1>1, <3>1, <3>2
  <2>6. \A i \in 1..(Len(nodes) + Len(seq)) : nodes'[i] \in tree'
    BY <2>2
  <2>. QED BY <2>2, <2>4, <2>5, <2>6
<1>. QED BY <1>1, <1>3, <1>7, <1>8, <1>9, <1>10 DEF RowsInv

LEMMA NextRows == RowsInv /\ [Next]_vars => RowsInv'
<1>. SUFFICES ASSUME RowsInv, [Next]_vars PROVE RowsInv'
  OBVIOUS
<1>1. ASSUME UNCHANGED forest PROVE RowsInv'
  <2>1. ForestInv'
    BY <1>1 DEF forest, RowsInv, ForestInv, Forest, Below
  <2>. QED BY <1>1, <2>1 DEF forest, RowsInv, ToSet
<1>2. CASE UNCHANGED vars
  BY <1>1, <1>2 DEF vars
<1>3. CASE Destroy \/ ExpandAll \/ CollapseAll
  BY <1>1, <1>3 DEF Destroy, ExpandAll, CollapseAll, Shows
<1>4. ASSUME NEW s \in Settings, Reinit(s) PROVE RowsInv'
  BY <1>4, ReinitRows
<1>5. ASSUME NEW n \in Id, ExpandNode(n) \/ CollapseNode(n) \/ Toggle(n) \/ Reveal(n)
      PROVE  RowsInv'
  <2>1. UNCHANGED forest
    BY <1>5 DEF ExpandNode, CollapseNode, Toggle, Reveal, Shows
  <2>. QED BY <1>1, <2>1
<1>6. ASSUME NEW n \in Id, RemoveNode(n) \/ UnloadBranch(n) PROVE RowsInv'
  BY <1>6, RemoveRows
<1>7. ASSUME NEW n \in Id, NEW d \in Id, Move(n, d) \/ MoveRefused(n, d) PROVE RowsInv'
  <2>1. MoveRefused(n, d) => UNCHANGED forest
    BY DEF MoveRefused, Shows
  <2>. QED BY <1>1, <1>7, <2>1, MoveRows
<1>8. ASSUME NEW n \in Id, NEW key \in SortKeys, SortBranch(n, key) PROVE RowsInv'
  BY <1>8, SortRows
<1>9. ASSUME NEW n \in Id \cup {None}, NEW rows \in Batches, LoadBranch(n, rows)
      PROVE  RowsInv'
  BY <1>9, LoadRowsOrdered
<1>. QED BY <1>2, <1>3, <1>4, <1>5, <1>6, <1>7, <1>8, <1>9, Zenon DEF Next

---------------------------------------------------------------------------
(* Branches stay together                                                  *)
---------------------------------------------------------------------------
\* Between a node and one below it are only nodes below it.
Together(tr, pa, ab) ==
  \A n, d, o \in tr :
    n \in Ancestors(pa, d) /\ n \notin Line(pa, o)
      => ~(<<n, o>> \in ab /\ <<o, d>> \in ab)

LEMMA DescendantsAreBelow ==
  ASSUME NEW pa, Trees(pa), None \notin Id, NEW n \in Id, NEW d \in Id
  PROVE  d \in Descendants(Kids(pa), n) <=> n \in Ancestors(pa, d)
<1>0. pa \in ParentMap
  BY DEF Trees
<1>1. d \in Descendants(Kids(pa), n) => n \in Ancestors(pa, d)
  BY <1>0, DescendantsAncestors
<1>2. ASSUME n \in Ancestors(pa, d), d \notin Descendants(Kids(pa), n) PROVE FALSE
  <2>. DEFINE B == Branch(pa, n)
              S == Ancestors(pa, d) \ B
  <2>1. d \notin B /\ n \in B
    BY <1>2 DEF Trees, Branch
  <2>2. \A x \in Id : pa[x] \in B => x \in B
    BY <1>0, DescendantsClosed DEF Branch
  <2>3. \A x \in S \cup {d} : pa[x] \in S \cup {None}
    BY <1>0, <2>1, <2>2, AncestorsClosed
  <2>. HIDE DEF S
  <2>4. Ancestors(pa, d) \subseteq S
    BY <1>0, <2>3, AncestorsMin
  <2>. QED BY <1>2, <2>1, <2>4 DEF S
<1>. QED BY <1>1, <1>2

\* Of nodes whose parents do not change and lead to no others, the ancestors stay.
LEMMA AncestorsSame ==
  ASSUME NEW pa \in ParentMap, NEW pb \in ParentMap, NEW R, NEW n \in Id \ R,
         \A x \in Id \ R : pb[x] = pa[x] /\ pb[x] \notin R
  PROVE  Ancestors(pb, n) = Ancestors(pa, n) /\ Ancestors(pa, n) \cap R = {}
<1>1. Ancestors(pb, n) \subseteq Ancestors(pa, n) \ R
  BY AncestorsKept
<1>2. \A x \in Id \ R : pa[x] = pb[x] /\ pa[x] \notin R
  OBVIOUS
<1>3. Ancestors(pa, n) \subseteq Ancestors(pb, n) \ R
  BY <1>2, AncestorsKept
<1>. QED BY <1>1, <1>3

\* Rows D, all below the same other nodes L, keep the branches together if their
\* new place does.
LEMMA InsertTogether ==
  ASSUME above \subseteq tree \X tree, Orders(above, tree),
         NEW D, NEW at \in SUBSET tree, NEW inner \in SUBSET (D \X D),
         NEW R, R = InsertAfter(D, at, inner),
         NEW pa, NEW L \in SUBSET (tree \ D),
         Together(tree \ D, pa, above), Together(D, pa, inner),
         \A x \in D : Ancestors(pa, x) \subseteq L \cup D /\ L \subseteq Ancestors(pa, x),
         \A x \in tree \ D : Ancestors(pa, x) \cap D = {},
         \A n \in L, o \in tree \ D :
           Over(at, o) /\ <<n, o>> \in above => n \in Ancestors(pa, o),
         \A n \in tree \ (D \cup L), d \in tree \ D :
           Over(at, n) /\ ~Over(at, d) => n \notin Ancestors(pa, d)
  PROVE  Together(tree \cup D, pa, R)
<1>1. /\ \A x, y \in D : <<x, y>> \in R <=> <<x, y>> \in inner
      /\ \A x, y \in tree \ D : <<x, y>> \in R <=> <<x, y>> \in above
      /\ \A x \in tree \ D, y \in D : <<x, y>> \in R <=> Over(at, x)
      /\ \A x \in D, y \in tree \ D : <<x, y>> \in R <=> ~Over(at, y)
  BY InsertedPairs
<1>. SUFFICES ASSUME NEW n \in tree \cup D, NEW d \in tree \cup D, NEW o \in tree \cup D,
                     n \in Ancestors(pa, d), n \notin Line(pa, o),
                     <<n, o>> \in R, <<o, d>> \in R
              PROVE  FALSE
  BY DEF Together
<1>2. n \notin Ancestors(pa, o) /\ n # o
  BY DEF Line
<1>3. CASE n \in D
  <2>1. d \in D
    BY <1>3
  <2>2. CASE o \in D
    BY <1>1, <1>3, <2>1, <2>2 DEF Together
  <2>3. CASE o \notin D
    BY <1>1, <1>3, <2>1, <2>3
  <2>. QED BY <2>2, <2>3
<1>4. CASE n \notin D /\ d \in D
  <2>1. n \in L
    BY <1>4
  <2>2. o \notin D
    BY <1>2, <2>1
  <2>. QED BY <1>1, <1>2, <1>4, <2>1, <2>2
<1>5. CASE n \notin D /\ d \notin D /\ o \in D
  <2>1. n \notin L
    BY <1>2, <1>5
  <2>. QED BY <1>1, <1>5, <2>1
<1>6. CASE n \notin D /\ d \notin D /\ o \notin D
  BY <1>1, <1>6 DEF Together
<1>. QED BY <1>3, <1>4, <1>5, <1>6

\* A walk leaves a branch only when it is through with it.
LEMMA WalkTogether ==
  ASSUME NEW pa, Trees(pa), None \notin Id, NEW or, OrdersChildren(or, pa),
         NEW D \in SUBSET Id
  PROVE  Together(D, pa, WalkOrder(pa, or, D))
<1>0. pa \in ParentMap /\ or \in SUBSET (Id \X Id)
  BY DEF Trees, OrdersChildren
<1>. SUFFICES ASSUME NEW n \in D, NEW d \in D, NEW o \in D,
                     n \in Ancestors(pa, d), n \notin Line(pa, o),
                     Walks(pa, or, n, o), Walks(pa, or, o, d)
              PROVE  FALSE
  BY <1>0, WalkPairs DEF Together
<1>1. PICK a \in Line(pa, n), b \in Line(pa, o) : <<a, b>> \in or
  BY DEF Walks, Line
<1>2. a \in Line(pa, d)
  BY <1>0, <1>1, AncestorsTransitive DEF Line
<1>3. Walks(pa, or, d, o)
  BY <1>1, <1>2 DEF Walks
<1>. QED BY <1>3, WalkIsAsymmetric

LEMMA OrderHasLast ==
  ASSUME NEW S, IsFiniteSet(S), S # {}, NEW R, Orders(R, S)
  PROVE  \E l \in S : \A x \in S : x = l \/ <<x, l>> \in R
<1>1. Cardinality(S) \in Nat /\ Cardinality(S) # 0
  BY FS_CardinalityType, FS_EmptySet
<1>2. Cardinality(S) \in 1..Cardinality(S)
  BY <1>1
<1>3. PICK l \in S : Rank(S, R, l) = Cardinality(S) - 1
  BY <1>2, Ranks
<1>4. ASSUME NEW x \in S, <<l, x>> \in R PROVE FALSE
  <2>1. Rank(S, R, l) < Rank(S, R, x) /\ Rank(S, R, x) \in 0..(Cardinality(S) - 1)
    BY <1>4, Ranks
  <2>. QED BY <1>1, <1>3, <2>1
<1>. QED BY <1>4 DEF Orders

\* If the rows below n are in the order of the children, findLastNode() finds the
\* last of them.
LEMMA LastNodeIsLast ==
  ASSUME RowsInv, Together(tree, parent, above), NEW n \in tree,
         \A p \in order : p[1] \in Descendants(children, n) => p \in above
  PROVE  \E l \in Branch(parent, n) :
            /\ FindLastNode(n) = {l}
            /\ \A x \in Branch(parent, n) : x = l \/ <<x, l>> \in above
<1>. DEFINE D == Descendants(children, n)
            B == Branch(parent, n)
<1>1. /\ ForestInv /\ parent \in ParentMap /\ tree \in SUBSET Id /\ n \in Id
      /\ None \notin Id /\ children = Kids(parent)
      /\ parent \in [Id -> tree \cup {None}] /\ Forest(tree, parent)
      /\ \A p \in Id : children[p] = {m \in Id : parent[m] = p}
  BY ForestFacts, ConfigAssumption DEF RowsInv, ForestInv, Kids
<1>2. Trees(parent)
  BY <1>1, ForestIsTrees
<1>3. B = {n} \cup D /\ B \in SUBSET tree
  BY <1>1, ForestFacts DEF Branch
<1>4. \A x \in Id : x \in D <=> n \in Ancestors(parent, x)
  BY <1>1, <1>2, DescendantsAreBelow
<1>. HIDE DEF D, B
<1>5. PICK l \in B : \A x \in B : x = l \/ <<x, l>> \in above
  <2>1. IsFiniteSet(B) /\ B # {} /\ Orders(above, B)
    BY <1>3, FS_Subset DEF RowsInv, Orders
  <2>. QED BY <2>1, OrderHasLast
<1>6. /\ \A x, y \in tree : <<x, y>> \in above => <<y, x>> \notin above /\ x # y
      /\ \A x \in tree : \A a \in Ancestors(parent, x) : a \in tree /\ <<a, x>> \in above
      /\ \A p \in order : p \in Id \X Id /\ parent[p[1]] = parent[p[2]] /\ parent[p[1]] \in Id
  BY <1>1, ForestFacts DEF RowsInv, Orders, ForestInv, Below, OrdersChildren
<1>7. children[l] = {}
  <2>1. SUFFICES ASSUME NEW c \in children[l] PROVE FALSE
    OBVIOUS
  <2>2. c \in tree /\ l \in Ancestors(parent, c) /\ c \in B
    <3>1. c \in Id /\ parent[c] = l /\ l \in Id
      BY <1>1, <1>3, <2>1
    <3>2. l \in Ancestors(parent, c)
      BY <1>1, <3>1, AncestorsClosed
    <3>3. n \in Ancestors(parent, c)
      BY <1>1, <1>3, <1>4, <3>1, <3>2, AncestorsTransitive
    <3>. QED BY <1>3, <1>4, <3>1, <3>2, <3>3
  <2>. QED BY <1>3, <1>5, <1>6, <2>2
<1>8. \A p \in order : p[1] \in D => p[1] \notin Line(parent, l)
  <2>1. SUFFICES ASSUME NEW p \in order, p[1] \in D, p[1] \in Line(parent, l) PROVE FALSE
    BY Zenon
  <2>2. PICK x, y \in Id : p = <<x, y>>
    BY <1>6
  <2>3. /\ x \in D /\ x \in Line(parent, l) /\ <<x, y>> \in above /\ <<x, y>> \in order
        /\ parent[x] = parent[y] /\ parent[x] \in Id
    BY <1>6, <2>1, <2>2 DEF D
  <2>4. x # y /\ x \in tree /\ y \in tree
    BY <1>6, <2>3 DEF RowsInv
  <2>5. y \in B
    <3>1. n \in Ancestors(parent, x) /\ Ancestors(parent, x) = Ancestors(parent, y)
      BY <1>1, <1>4, <2>3, LineUp
    <3>. QED BY <1>3, <1>4, <3>1
  <2>6. y \notin Line(parent, l)
    BY <1>1, <1>2, <1>3, <2>3, <2>4, SiblingsApart
  <2>7. <<y, l>> \in above
    BY <1>5, <2>5, <2>6 DEF Line
  <2>8. x # l
    BY <1>3, <1>6, <2>3, <2>4, <2>7
  <2>9. x \notin Line(parent, y)
    BY <1>1, <1>2, <2>3, <2>4, SiblingsApart DEF Line
  <2>. QED BY <1>3, <2>3, <2>4, <2>7, <2>8, <2>9 DEF Together, Line
<1>9. ASSUME NEW r \in B, children[r] = {},
             \A p \in order : p[1] \in D => p[1] \notin Line(parent, r)
      PROVE  r = l
  <2>1. SUFFICES ASSUME r # l PROVE FALSE
    OBVIOUS
  <2>2. r \notin Line(parent, l) /\ l \notin Line(parent, r)
    <3>1. ASSUME NEW x \in Id, NEW y \in Id, children[x] = {}, x \in Ancestors(parent, y)
          PROVE  FALSE
      <4>1. PICK z \in Line(parent, y) : parent[z] = x
        BY <1>1, <3>1, ChildOnLine
      <4>2. z \in Id
        BY <1>1, AncestorsClosed DEF Line
      <4>. QED BY <1>1, <3>1, <4>1, <4>2
    <3>. QED BY <1>1, <1>3, <1>7, <1>9, <2>1, <3>1 DEF Line
  <2>3. PICK a \in Line(parent, r), b \in Line(parent, l) :
          /\ a # b /\ parent[a] = parent[b] /\ parent[a] \in Id
          /\ a \in Branch(parent, n) \ {n}
    BY <1>1, <1>3, <2>2, LinesFork DEF B
  <2>4. a \in D /\ a \in Id /\ b \in Id
    BY <1>1, <1>3, <2>3, AncestorsClosed DEF B, Line
  <2>5. b \in D
    <3>1. Ancestors(parent, a) = Ancestors(parent, b)
      BY <1>1, <2>3, <2>4, LineUp
    <3>. QED BY <1>4, <2>4, <3>1
  <2>6. <<a, b>> \in order \/ <<b, a>> \in order
    <3>1. a \in Kids(parent)[parent[a]] /\ b \in Kids(parent)[parent[a]]
      BY <2>3, <2>4 DEF Kids
    <3>. QED BY <2>3, <3>1 DEF RowsInv, OrdersChildren, Orders
  <2>. QED BY <1>8, <1>9, <2>3, <2>4, <2>5, <2>6
<1>10. FindLastNode(n) = {r \in B : /\ children[r] = {}
                                    /\ \A p \in order : p[1] \in D => p[1] \notin Line(parent, r)}
  BY <1>3 DEF FindLastNode, Line, D
<1>11. FindLastNode(n) = {l}
  BY <1>7, <1>8, <1>9, <1>10
<1>. QED BY <1>5, <1>11 DEF B

\* Rows put directly below the row of the node that all of them are below.
LEMMA InsertBelow ==
  ASSUME above \subseteq tree \X tree, Orders(above, tree), tree \in SUBSET Id,
         NEW pa, Trees(pa), None \notin Id, NEW or, OrdersChildren(or, pa),
         NEW D \in SUBSET tree, NEW p \in tree \ D,
         NEW R, R = InsertAfter(D, {p}, WalkOrder(pa, or, D)),
         Line(pa, p) \subseteq tree \ D,
         Together(tree \ D, pa, above),
         \A x \in D : Ancestors(pa, x) \subseteq Line(pa, p) \cup D /\ Line(pa, p) \subseteq Ancestors(pa, x),
         \A x \in tree \ D : Ancestors(pa, x) \cap D = {}
  PROVE  Together(tree, pa, R)
<1>. DEFINE inner == WalkOrder(pa, or, D)
            at == {p}
            L == Line(pa, p)
<1>1. inner \in SUBSET (D \X D) /\ Together(D, pa, inner)
  BY WalkPairs, WalkTogether DEF OrdersChildren
<1>2. \A x \in tree : Over(at, x) <=> x = p \/ <<x, p>> \in above
  BY DEF Over
<1>3. /\ \A x \in tree : <<x, x>> \notin above
      /\ \A x, y \in tree : x # y => <<x, y>> \in above \/ <<y, x>> \in above
      /\ \A x, y, z \in tree : <<x, y>> \in above /\ <<y, z>> \in above => <<x, z>> \in above
  BY DEF Orders
<1>4. ASSUME NEW n \in L, NEW o \in tree \ D, Over(at, o), <<n, o>> \in above
      PROVE  n \in Ancestors(pa, o)
  <2>1. n \in tree \ D /\ n # o /\ (n = p \/ n \in Ancestors(pa, p))
    BY <1>3, <1>4 DEF Line
  <2>2. CASE o = p
    BY <2>1, <2>2
  <2>3. CASE o # p
    <3>1. <<o, p>> \in above /\ n # p
      BY <1>2, <1>3, <1>4, <2>1, <2>3
    <3>2. n \in Line(pa, o)
      BY <1>4, <2>1, <3>1 DEF Together
    <3>. QED BY <2>1, <3>2 DEF Line
  <2>. QED BY <2>2, <2>3
<1>5. ASSUME NEW n \in tree \ (D \cup L), NEW d \in tree \ D, Over(at, n), ~Over(at, d)
      PROVE  n \notin Ancestors(pa, d)
  <2>1. n # p /\ <<n, p>> \in above /\ <<p, d>> \in above
    BY <1>2, <1>3, <1>5 DEF Line
  <2>. QED BY <1>5, <2>1 DEF Together
<1>6. tree \cup D = tree /\ R = InsertAfter(D, at, inner) /\ at \in SUBSET tree /\ L \in SUBSET (tree \ D)
  OBVIOUS
<1>7. \A x \in D : Ancestors(pa, x) \subseteq L \cup D /\ L \subseteq Ancestors(pa, x)
  OBVIOUS
<1>. HIDE DEF inner, at, L
<1>8. Together(tree \cup D, pa, R)
  BY <1>1, <1>4, <1>5, <1>6, <1>7, InsertTogether
<1>. QED BY <1>6, <1>8

TogetherInv == RowsInv /\ (~mixed => Together(tree, parent, above))

LEMMA MoveTogether ==
  ASSUME TogetherInv, NEW n \in Id, NEW d \in Id, Move(n, d) PROVE TogetherInv'
<1>. DEFINE pa   == [parent EXCEPT ![n] = d]
            gone == IF parent[n] = None THEN {} ELSE Spliced(parent[n], n)
            ch == [p \in Id |-> (children[p] \ (IF p = parent[n] THEN gone ELSE {}))
                                 \cup (IF p = d THEN {n} ELSE {})]
            or == {p \in order : p[1] \notin gone /\ p[2] \notin gone} \cup (children[d] \X {n})
            C  == {n} \cup Descendants(ch, n)
            B  == Branch(pa, n)
<1>1. /\ n \in tree /\ d \in tree /\ n # d
      /\ tree' = tree /\ mixed' = mixed /\ parent' = pa /\ children' = ch
      /\ order' = or /\ above' = InsertAfter(C, {d}, WalkOrder(pa, or, C))
  BY Zenon DEF Move, Moves
<1>2. RowsInv /\ RowsInv' /\ None \notin Id
  BY MoveRows, ConfigAssumption DEF TogetherInv
<1>3. /\ tree \in SUBSET Id /\ parent \in [Id -> tree \cup {None}]
      /\ pa \in [Id -> tree \cup {None}] /\ Forest(tree, pa) /\ ch = Kids(pa)
      /\ \A m \in Id \ tree : pa[m] = None
      /\ above \subseteq tree \X tree /\ Orders(above, tree) /\ OrdersChildren(order', pa)
  BY <1>1, <1>2 DEF RowsInv, ForestInv
<1>4. /\ pa \in ParentMap /\ parent \in ParentMap
      /\ pa[n] = d /\ \A y \in Id \ {n} : pa[y] = parent[y]
  BY <1>3 DEF ParentMap
<1>5. C = B
  BY <1>3, Zenon DEF Branch
<1>. HIDE DEF pa, gone, ch, or, C
<1>6. Trees(pa)
  BY <1>2, <1>3, ForestIsTrees
<1>7. /\ \A y \in Id : pa[y] \in B => y \in B
      /\ B \in SUBSET tree /\ n \in B
  <2>1. \A y \in Id : pa[y] \in tree \cup {n} => y \in tree
    BY <1>1, <1>2, <1>3
  <2>. QED BY <1>1, <1>4, <2>1, DescendantsClosed, DescendantsMin DEF Branch
<1>8. \A x \in B : n \in Line(pa, x)
  BY <1>2, <1>4, DescendantsAncestors DEF Branch, Line
<1>9. Ancestors(pa, n) = Line(pa, d)
  BY <1>1, <1>2, <1>4, LineUp
<1>10. d \notin B
  <2>1. d \in B => n \in Ancestors(pa, d)
    BY <1>1, <1>8 DEF Line
  <2>. QED BY <1>1, <1>6, <1>9, <2>1 DEF Line, Trees
<1>11. \A x \in Id \ B : Ancestors(pa, x) = Ancestors(parent, x) /\ Ancestors(pa, x) \cap B = {}
  <2>1. \A y \in Id \ B : parent[y] = pa[y] /\ parent[y] \notin B
    BY <1>4, <1>7
  <2>2. \A y \in Id \ B : pa[y] = parent[y] /\ pa[y] \notin B
    BY <2>1
  <2>. HIDE DEF B
  <2>. QED BY <1>4, <2>1, <2>2, AncestorsSame
<1>12. Line(pa, d) \subseteq tree \ B
  <2>1. \A x \in tree \cup {d} : pa[x] \in tree \cup {None}
    BY <1>3
  <2>2. Ancestors(pa, d) \subseteq tree
    BY <1>4, <2>1, AncestorsMin
  <2>. QED BY <1>1, <1>10, <1>11, <2>2 DEF Line
<1>13. ASSUME NEW x \in B
       PROVE  /\ Ancestors(pa, x) \subseteq Line(pa, d) \cup B
              /\ Line(pa, d) \subseteq Ancestors(pa, x)
  <2>1. x \in Id /\ Ancestors(pa, x) \subseteq B \cup Ancestors(pa, n)
    BY <1>3, <1>4, <1>7, BranchAncestors DEF Branch
  <2>2. Ancestors(pa, n) \subseteq Ancestors(pa, x)
    BY <1>4, <1>8, <2>1, AncestorsTransitive DEF Line
  <2>. QED BY <1>9, <2>1, <2>2
<1>14. ASSUME ~mixed PROVE Together(tree, pa, above')
  <2>1. Together(tree \ B, pa, above)
    <3>1. \A x \in tree \ B : Line(pa, x) = Line(parent, x) /\ Ancestors(pa, x) = Ancestors(parent, x)
      BY <1>3, <1>11 DEF Line
    <3>. QED BY <1>14, <3>1 DEF TogetherInv, Together
  <2>2. above' = InsertAfter(B, {d}, WalkOrder(pa, order', B))
    BY <1>1, <1>5
  <2>3. d \in tree \ B /\ \A x \in tree \ B : Ancestors(pa, x) \cap B = {}
    BY <1>1, <1>3, <1>10, <1>11
  <2>. HIDE DEF B
  <2>. QED BY <1>2, <1>3, <1>6, <1>7, <1>12, <1>13, <2>1, <2>2, <2>3, InsertBelow
<1>. QED BY <1>1, <1>2, <1>14 DEF TogetherInv

LEMMA SortTogether ==
  ASSUME TogetherInv, NEW n \in Id, NEW key \in SortKeys, SortBranch(n, key) PROVE TogetherInv'
<1>. DEFINE D == Descendants(children, n)
<1>1. /\ n \in tree /\ UNCHANGED <<tree, parent, children, mixed>>
      /\ above' = InsertAfter(D, {n}, WalkOrder(parent, order', D))
  BY DEF SortBranch
<1>2. RowsInv /\ RowsInv' /\ None \notin Id /\ ForestInv
  BY SortRows, ConfigAssumption DEF TogetherInv, RowsInv
<1>3. /\ tree \in SUBSET Id /\ parent \in [Id -> tree \cup {None}] /\ Forest(tree, parent)
      /\ children = Kids(parent) /\ parent \in ParentMap
      /\ above \subseteq tree \X tree /\ Orders(above, tree) /\ OrdersChildren(order', parent)
  BY <1>1, <1>2, ForestFacts DEF RowsInv, ForestInv
<1>4. Trees(parent) /\ D \in SUBSET tree
  BY <1>1, <1>2, <1>3, ForestIsTrees, ForestFacts
<1>5. \A x \in Id : x \in D <=> n \in Ancestors(parent, x)
  BY <1>2, <1>3, <1>4, DescendantsAreBelow
<1>6. ASSUME NEW x \in D
      PROVE  /\ Ancestors(parent, x) \subseteq Line(parent, n) \cup D
             /\ Line(parent, n) \subseteq Ancestors(parent, x)
  <2>1. Ancestors(parent, x) \subseteq {n} \cup D \cup Ancestors(parent, n)
    BY <1>3, <1>6, BranchAncestors
  <2>2. {n} \cup Ancestors(parent, n) \subseteq Ancestors(parent, x)
    BY <1>2, <1>3, <1>6, DescendantsAncestors
  <2>. QED BY <2>1, <2>2 DEF Line
<1>7. \A x \in tree \ D : Ancestors(parent, x) \cap D = {}
  <2>1. ASSUME NEW x \in tree \ D, NEW a \in Ancestors(parent, x), a \in D PROVE FALSE
    <3>1. n \in Ancestors(parent, a) /\ a \in Id
      BY <1>3, <1>4, <1>5, <2>1
    <3>2. n \in Ancestors(parent, x)
      BY <1>3, <2>1, <3>1, AncestorsTransitive
    <3>. QED BY <1>3, <1>5, <2>1, <3>2
  <2>. QED BY <2>1
<1>8. Line(parent, n) \subseteq tree \ D
  <2>1. n \notin D /\ n \in tree \ D
    BY <1>1, <1>3, <1>4, <1>5 DEF Trees
  <2>. QED BY <1>2, <1>3, <1>7, <2>1, ForestFacts DEF Line
<1>9. ASSUME ~mixed PROVE Together(tree, parent, above')
  <2>1. Together(tree \ D, parent, above)
    BY <1>9 DEF TogetherInv, Together
  <2>2. n \in tree \ D
    BY <1>8 DEF Line
  <2>. HIDE DEF D
  <2>. QED BY <1>1, <1>2, <1>3, <1>4, <1>6, <1>7, <1>8, <2>1, <2>2, InsertBelow
<1>. QED BY <1>1, <1>2, <1>9 DEF TogetherInv

---------------------------------------------------------------------------
\* The parents that rows come with.
RowParents(rows) == [m \in Id |-> IF m \in Ids(rows) THEN ParentId(rows, m) ELSE None]

\* Tables and batches come with the rows below a row directly after it.
RowsTogether ==
  \A rows \in Tables \cup Batches : Together(Ids(rows), RowParents(rows), RowOrder(rows))

\* Rows loaded below n: the nodes above them, and those above them among themselves.
LEMMA LoadedLines ==
  ASSUME ForestInv, NEW rows, Rows(rows), Ids(rows) \cap tree = {},
         NEW n \in tree \cup {None}, NEW pb \in ParentMap,
         \A m \in Id \ Ids(rows) : pb[m] = parent[m],
         \A m \in Ids(rows) :
           pb[m] = IF ParentId(rows, m) = None THEN n ELSE ParentId(rows, m)
  PROVE  /\ \A x \in Id \ Ids(rows) :
              Ancestors(pb, x) = Ancestors(parent, x) /\ Ancestors(pb, x) \cap Ids(rows) = {}
         /\ \A x \in Ids(rows) :
              /\ n = None => Ancestors(pb, x) \subseteq Ids(rows)
              /\ n # None => /\ Ancestors(pb, x) \subseteq Line(parent, n) \cup Ids(rows)
                             /\ Line(parent, n) \subseteq Ancestors(pb, x)
              /\ \A y \in Ids(rows) : y \in Ancestors(pb, x)
                                        <=> y \in Ancestors(RowParents(rows), x)
<1>. DEFINE new == Ids(rows)
            rp  == RowParents(rows)
<1>1. /\ new \subseteq Id /\ parent \in ParentMap /\ None \notin Id
      /\ tree \in SUBSET Id /\ parent \in [Id -> tree \cup {None}]
      /\ \A m \in new : ParentId(rows, m) \in new \cup {None}
  BY ConfigAssumption, ForestFacts, RowsParents DEF ForestInv
<1>2. /\ rp \in ParentMap
      /\ \A m \in Id \ new : rp[m] = None
      /\ \A m \in new : rp[m] \in new \cup {None} /\ pb[m] = IF rp[m] = None THEN n ELSE rp[m]
  BY <1>1 DEF RowParents, ParentMap
<1>3. n \notin new /\ n \in Id \cup {None}
  BY <1>1
<1>4. \A x \in Id \ new : pb[x] = parent[x] /\ pb[x] \notin new
  BY <1>1
<1>5. \A S \in SUBSET new : S # {} => \E m \in S : rp[m] \notin S
  BY <1>1, RowsForest DEF RowParents
<1>. HIDE DEF new, rp
<1>6. ASSUME NEW x \in Id \ new
      PROVE  Ancestors(pb, x) = Ancestors(parent, x) /\ Ancestors(pb, x) \cap new = {}
  BY <1>1, <1>4, AncestorsSame
<1>7. ASSUME NEW x \in new, NEW y \in new
      PROVE  y \in Ancestors(pb, x) <=> y \in Ancestors(rp, x)
  <2>. DEFINE S == Ancestors(rp, x) \cup (Id \ new)
  <2>1. Ancestors(rp, x) \subseteq new
    BY <1>1, <1>2, AncestorsMin
  <2>2. \A z \in S \cup {x} : pb[z] \in S \cup {None}
    <3>1. \A z \in Ancestors(rp, x) \cup {x} : rp[z] \in Ancestors(rp, x) \cup {None}
      BY <1>1, <1>2, AncestorsClosed
    <3>2. \A z \in Ancestors(rp, x) \cup {x} : pb[z] \in S \cup {None}
      BY <1>2, <1>3, <2>1, <3>1
    <3>3. \A z \in Id \ new : pb[z] \in S \cup {None}
      BY <1>4 DEF ParentMap
    <3>. QED BY <3>2, <3>3
  <2>. HIDE DEF S
  <2>3. Ancestors(pb, x) \subseteq S
    BY <1>1, <2>2, AncestorsMin
  <2>4. \A z \in Ancestors(pb, x) \cup {x} : rp[z] \in Ancestors(pb, x) \cup {None}
    BY <1>1, <1>2, AncestorsClosed
  <2>5. Ancestors(rp, x) \subseteq Ancestors(pb, x)
    BY <1>1, <1>2, <2>4, AncestorsMin
  <2>. QED BY <2>3, <2>5 DEF S
<1>8. ASSUME NEW x \in new, n = None PROVE Ancestors(pb, x) \subseteq new
  <2>1. \A z \in new \cup {x} : pb[z] \in new \cup {None}
    BY <1>2, <1>8
  <2>. QED BY <1>1, <2>1, AncestorsMin
<1>9. ASSUME n # None, NEW x \in new
      PROVE  /\ Ancestors(pb, x) \subseteq Line(parent, n) \cup new
             /\ Line(parent, n) \subseteq Ancestors(pb, x)
  <2>. DEFINE L == Line(parent, n)
  <2>0. n \in Id \ new
    BY <1>3, <1>9
  <2>1. /\ L = Line(pb, n) /\ L \cap new = {}
        /\ \A z \in L : pb[z] \in L \cup {None}
    BY <1>6, <2>0, AncestorsClosed DEF Line
  <2>2. n \in L
    BY DEF Line
  <2>. HIDE DEF L
  <2>3. \A z \in L \cup new \cup {x} : pb[z] \in L \cup new \cup {None}
    BY <1>2, <2>1, <2>2
  <2>4. Ancestors(pb, x) \subseteq L \cup new
    BY <1>1, <2>3, AncestorsMin
  <2>5. n \in Ancestors(pb, x)
    <3>. DEFINE S == {y \in new : n \notin Ancestors(pb, y)}
    <3>1. ASSUME S # {} PROVE FALSE
      <4>1. PICK m \in S : rp[m] \notin S
        BY <1>5, <3>1
      <4>2. m \in new /\ m \in Id
        BY <1>1
      <4>3. CASE rp[m] = None
        <5>1. pb[m] = n
          BY <1>2, <4>2, <4>3
        <5>. QED BY <1>9, <4>1, <4>2, <5>1, AncestorsClosed
      <4>4. CASE rp[m] # None
        <5>1. rp[m] \in new /\ pb[m] = rp[m] /\ n \in Ancestors(pb, rp[m])
          BY <1>2, <4>1, <4>2, <4>4
        <5>. QED BY <4>1, <4>2, <4>4, <5>1, AncestorsUp
      <4>. QED BY <4>3, <4>4
    <3>. QED BY <3>1
  <2>6. L \subseteq Ancestors(pb, x)
    BY <1>1, <2>1, <2>5, AncestorsTransitive DEF Line
  <2>. QED BY <2>4, <2>6 DEF L
<1>10. Ids(rows) = new /\ RowParents(rows) = rp
  BY DEF new, rp
<1>. QED BY <1>6, <1>7, <1>8, <1>9, <1>10

LEMMA LoadTogether ==
  ASSUME RowsTogether, TogetherInv, NEW n \in Id \cup {None}, NEW rows \in Batches,
         LoadBranch(n, rows)
  PROVE  TogetherInv'
<1>. DEFINE new == Ids(rows)
            inner == RowOrder(rows)
            pa == [m \in Id |-> IF m \notin new THEN parent[m]
                                ELSE IF ParentId(rows, m) = None THEN n ELSE ParentId(rows, m)]
            at == IF n = None THEN {} ELSE FindLastNode(n)
            L  == IF n = None THEN {} ELSE Line(parent, n)
<1>1. /\ n \in tree \cup {None}
      /\ new \cap tree = {}
      /\ tree' = tree \cup new
      /\ parent' = pa
      /\ above' = InsertAfter(new, at, inner)
      /\ mixed' = (mixed \/ \E p \in order :
                     n # None /\ p[1] \in Descendants(children, n) /\ p \notin above)
  BY Zenon DEF LoadBranch
<1>2. RowsInv /\ RowsInv' /\ None \notin Id /\ Rows(rows)
  BY LoadRowsOrdered, ConfigAssumption DEF TogetherInv
<1>3. /\ tree \in SUBSET Id /\ parent \in [Id -> tree \cup {None}] /\ Forest(tree, parent)
      /\ children = Kids(parent) /\ parent \in ParentMap
      /\ above \subseteq tree \X tree /\ Orders(above, tree)
      /\ pa \in ParentMap /\ \A m \in Id \ tree : parent[m] = None
  BY <1>1, <1>2, ForestFacts DEF RowsInv, ForestInv, ParentMap
<1>. SUFFICES ASSUME ~mixed' PROVE Together(tree \cup new, pa, above')
  BY <1>1, <1>2 DEF TogetherInv
<1>4. /\ \A m \in Id \ new : pa[m] = parent[m]
      /\ \A m \in new : pa[m] = IF ParentId(rows, m) = None THEN n ELSE ParentId(rows, m)
  BY <1>2, RowsParents
<1>5. inner \in SUBSET (new \X new)
  BY <1>2, RowsParents
<1>6. Together(tree, parent, above) /\ Together(new, RowParents(rows), inner)
  BY <1>1 DEF TogetherInv, RowsTogether
<1>. HIDE DEF pa, new, inner
<1>7. /\ \A x \in Id \ new : Ancestors(pa, x) = Ancestors(parent, x) /\ Ancestors(pa, x) \cap new = {}
      /\ \A x \in new : /\ Ancestors(pa, x) \subseteq L \cup new /\ L \subseteq Ancestors(pa, x)
                        /\ \A y \in new : y \in Ancestors(pa, x)
                                            <=> y \in Ancestors(RowParents(rows), x)
  <2>1. /\ Ids(rows) \cap tree = {}
        /\ \A m \in Id \ Ids(rows) : pa[m] = parent[m]
        /\ \A m \in Ids(rows) :
             pa[m] = IF ParentId(rows, m) = None THEN n ELSE ParentId(rows, m)
    BY <1>1, <1>4 DEF new
  <2>2. /\ \A x \in Id \ Ids(rows) :
             Ancestors(pa, x) = Ancestors(parent, x) /\ Ancestors(pa, x) \cap Ids(rows) = {}
        /\ \A x \in Ids(rows) :
             /\ n = None => Ancestors(pa, x) \subseteq Ids(rows)
             /\ n # None => /\ Ancestors(pa, x) \subseteq Line(parent, n) \cup Ids(rows)
                            /\ Line(parent, n) \subseteq Ancestors(pa, x)
             /\ \A y \in Ids(rows) : y \in Ancestors(pa, x)
                                       <=> y \in Ancestors(RowParents(rows), x)
    <3>. HIDE DEF L, at
    <3>1. ForestInv
      BY <1>2 DEF RowsInv
    <3>. QED BY <1>1, <1>2, <1>3, <2>1, <3>1, LoadedLines, Zenon
  <2>3. Ids(rows) = new
    BY DEF new
  <2>. HIDE DEF new
  <2>. QED BY <2>2, <2>3
<1>8. Trees(parent)
  BY <1>2, <1>3, ForestIsTrees
<1>9. L \in SUBSET (tree \ new)
  <2>1. n # None => Ancestors(parent, n) \subseteq tree
    BY <1>1, <1>2, <1>3, ForestFacts DEF RowsInv
  <2>. QED BY <1>1, <2>1 DEF Line
<1>10. Together(tree \ new, pa, above) /\ Together(new, pa, inner)
  <2>1. \A x \in tree : Line(pa, x) = Line(parent, x) /\ Ancestors(pa, x) = Ancestors(parent, x)
    BY <1>1, <1>3, <1>7 DEF Line
  <2>2. Together(tree \ new, pa, above)
    BY <1>6, <2>1 DEF Together
  <2>3. Together(new, pa, inner)
    BY <1>6, <1>7 DEF Together, Line
  <2>. QED BY <2>2, <2>3
<1>11. /\ \A x \in tree : <<x, x>> \notin above
       /\ \A x, y \in tree : x # y => <<x, y>> \in above \/ <<y, x>> \in above
       /\ \A x, y, z \in tree : <<x, y>> \in above /\ <<y, z>> \in above => <<x, z>> \in above
  BY <1>3 DEF Orders
<1>12. CASE n = None
  <2>1. at = {} /\ L = {}
    BY <1>12
  <2>2. \A x \in tree : Over(at, x)
    BY <2>1 DEF Over
  <2>. HIDE DEF at, L
  <2>3. \A x \in tree \ new : Ancestors(pa, x) \cap new = {}
    BY <1>3, <1>7
  <2>. QED BY <1>1, <1>3, <1>5, <1>7, <1>9, <1>10, <2>1, <2>2, <2>3, InsertTogether
<1>13. CASE n # None
  <2>1. n \in tree /\ at = FindLastNode(n) /\ L = Line(parent, n)
    BY <1>1, <1>13
  <2>2. PICK l \in Branch(parent, n) :
          at = {l} /\ \A x \in Branch(parent, n) : x = l \/ <<x, l>> \in above
    BY <1>1, <1>2, <1>6, <1>13, <2>1, LastNodeIsLast
  <2>3. /\ Branch(parent, n) \subseteq tree
        /\ \A x \in tree : x \in Branch(parent, n) <=> n \in Line(parent, x)
    BY <1>2, <1>3, <1>8, <2>1, ForestFacts, DescendantsAreBelow DEF Branch, Line, RowsInv
  <2>. HIDE DEF at, L
  <2>4. \A x \in tree : Over(at, x) <=> x = l \/ <<x, l>> \in above
    BY <2>2 DEF Over
  <2>5. l \in tree /\ l \in Id /\ n \in Line(parent, l) /\ L \subseteq Line(parent, l)
    BY <1>3, <2>1, <2>2, <2>3, AncestorsTransitive DEF Line
  <2>6. ASSUME NEW m \in L, NEW o \in tree \ new, Over(at, o), <<m, o>> \in above
        PROVE  m \in Ancestors(pa, o)
    <3>1. m \in tree /\ m # o /\ m \in Line(parent, l) /\ Ancestors(pa, o) = Ancestors(parent, o)
      BY <1>3, <1>7, <1>9, <1>11, <2>5, <2>6
    <3>2. CASE o = l
      BY <3>1, <3>2 DEF Line
    <3>3. CASE <<o, l>> \in above
      <4>1. m # l
        BY <1>11, <2>5, <2>6, <3>1, <3>3
      <4>. QED BY <1>6, <2>5, <2>6, <3>1, <3>3, <4>1 DEF Together, Line
    <3>. QED BY <2>4, <2>6, <3>2, <3>3
  <2>7. ASSUME NEW m \in tree \ (new \cup L), NEW d \in tree \ new, Over(at, m), ~Over(at, d),
               m \in Ancestors(pa, d)
        PROVE  FALSE
    <3>1. <<l, d>> \in above /\ d # l /\ m \in Ancestors(parent, d)
      BY <1>3, <1>7, <1>11, <2>4, <2>5, <2>7
    <3>2. d \notin Branch(parent, n)
      BY <1>11, <2>2, <2>5, <3>1
    <3>3. n \notin Line(parent, m)
      <4>1. n \in Line(parent, m) => n \in Line(parent, d)
        BY <1>3, <3>1, AncestorsTransitive DEF Line
      <4>. QED BY <2>3, <3>2, <4>1
    <3>4. m # l
      BY <2>5, <3>3
    <3>5. m \in Line(parent, l)
      BY <1>6, <2>4, <2>5, <2>7, <3>1, <3>4 DEF Together
    <3>6. m \in Ancestors(parent, l) /\ n # m
      BY <3>3, <3>4, <3>5 DEF Line
    <3>7. m \in Ancestors(parent, n)
      <4>1. n \notin Ancestors(parent, m) /\ n \in Line(parent, l)
        BY <2>5, <3>3 DEF Line
      <4>. QED BY <1>3, <2>5, <3>5, <3>6, <4>1, LineIsChain
    <3>. QED BY <2>1, <2>7, <3>7 DEF Line
  <2>8. \A x \in tree \ new : Ancestors(pa, x) \cap new = {}
    BY <1>3, <1>7
  <2>9. at \in SUBSET tree
    BY <2>2, <2>5
  <2>10. /\ \A m \in L, o \in tree \ new :
             Over(at, o) /\ <<m, o>> \in above => m \in Ancestors(pa, o)
         /\ \A m \in tree \ (new \cup L), d \in tree \ new :
             Over(at, m) /\ ~Over(at, d) => m \notin Ancestors(pa, d)
    BY <2>6, <2>7
  <2>11. \A x \in new : Ancestors(pa, x) \subseteq L \cup new /\ L \subseteq Ancestors(pa, x)
    BY <1>7
  <2>. QED
    BY <1>1, <1>3, <1>5, <1>9, <1>10, <2>8, <2>9, <2>10, <2>11, InsertTogether
<1>. QED BY <1>12, <1>13

LEMMA InitTogether == ASSUME RowsTogether, Init PROVE TogetherInv
<1>1. PICK rows \in Tables :
        /\ tree = Ids(rows)
        /\ parent = [n \in Id |-> IF n \in Ids(rows) THEN ParentId(rows, n) ELSE None]
        /\ above = RowOrder(rows)
  BY Zenon DEF Init
<1>2. parent = RowParents(rows)
  BY <1>1 DEF RowParents
<1>3. Together(tree, parent, above)
  BY <1>1, <1>2 DEF RowsTogether
<1>. QED BY <1>3, InitRows DEF TogetherInv

\* What is left of the page when a branch has gone is together as it was.
LEMMA RemoveTogether ==
  ASSUME TogetherInv, NEW n \in Id, RemoveNode(n) \/ UnloadBranch(n) PROVE TogetherInv'
<1>1. RowsInv /\ RowsInv' /\ ForestInv /\ ForestInv'
  BY RemoveRows DEF TogetherInv, RowsInv
<1>2. /\ n \in tree /\ parent \in ParentMap /\ parent' \in ParentMap
      /\ {n} \cup Descendants(children, n) \subseteq tree
      /\ \A y \in Id : parent[y] \in Descendants(children, n) \cup {n}
                         => y \in Descendants(children, n)
  <2>1. n \in tree /\ parent \in ParentMap
    BY <1>1, ForestFacts DEF RemoveNode, UnloadBranch
  <2>2. parent' \in ParentMap
    BY <1>1 DEF ForestInv, ParentMap
  <2>. QED BY <1>1, <2>1, <2>2, ForestFacts, DescendantsClosed DEF ForestInv
<1>3. \E D \in SUBSET tree :
        /\ \A y \in Id : parent[y] \in D => y \in D
        /\ \E pruned, v : Prune(D, pruned, v)
  <2>1. CASE RemoveNode(n)
    <3>. DEFINE D == {n} \cup Descendants(children, n)
    <3>1. D \in SUBSET tree /\ \A y \in Id : parent[y] \in D => y \in D
      BY <1>2
    <3>2. \E pruned, v : Prune(D, pruned, v)
      BY <2>1, Zenon DEF RemoveNode
    <3>. QED BY <3>1, <3>2, Zenon
  <2>2. CASE UnloadBranch(n)
    <3>. DEFINE D == Descendants(children, n)
    <3>1. D \in SUBSET tree /\ \A y \in Id : parent[y] \in D => y \in D
      BY <1>2
    <3>2. \E pruned, v : Prune(D, pruned, v)
      BY <2>2, Zenon DEF UnloadBranch
    <3>. QED BY <3>1, <3>2, Zenon
  <2>. QED BY <2>1, <2>2
<1>4. PICK D \in SUBSET tree :
        /\ \A y \in Id : parent[y] \in D => y \in D
        /\ tree' = tree \ D
        /\ parent' = [m \in Id |-> IF m \in D THEN None ELSE parent[m]]
        /\ above' = {p \in above : p[1] \notin D /\ p[2] \notin D}
        /\ mixed' = mixed
  BY <1>3, Zenon DEF Prune
<1>5. \A x \in Id \ D : parent'[x] = parent[x] /\ parent'[x] \notin D
  BY <1>4
<1>6. \A x \in Id \ D : Ancestors(parent', x) = Ancestors(parent, x)
  BY <1>2, <1>5, AncestorsSame
<1>7. /\ tree' \subseteq tree /\ tree \subseteq Id
      /\ \A x \in tree' : x \in tree /\ Ancestors(parent', x) = Ancestors(parent, x)
                            /\ Line(parent', x) = Line(parent, x)
  BY <1>1, <1>4, <1>6 DEF ForestInv, Line
<1>8. above' \subseteq above
  BY <1>4
<1>9. ~mixed => Together(tree', parent', above')
  BY <1>7, <1>8 DEF TogetherInv, Together
<1>. QED BY <1>1, <1>4, <1>9 DEF TogetherInv

LEMMA NextTogether == RowsTogether /\ TogetherInv /\ [Next]_vars => TogetherInv'
<1>. SUFFICES ASSUME RowsTogether, TogetherInv, [Next]_vars PROVE TogetherInv'
  OBVIOUS
<1>0. RowsInv'
  BY NextRows DEF TogetherInv
<1>1. ASSUME UNCHANGED <<tree, parent, above, mixed>> PROVE TogetherInv'
  BY <1>0, <1>1 DEF TogetherInv
<1>2. CASE UNCHANGED vars
  BY <1>1, <1>2 DEF vars, forest
<1>3. CASE Destroy \/ ExpandAll \/ CollapseAll
  BY <1>1, <1>3 DEF Destroy, ExpandAll, CollapseAll, Shows, forest
<1>4. ASSUME NEW s \in Settings, Reinit(s) PROVE TogetherInv'
  BY <1>1, <1>4 DEF Reinit
<1>5. ASSUME NEW n \in Id, ExpandNode(n) \/ CollapseNode(n) \/ Toggle(n) \/ Reveal(n)
      PROVE  TogetherInv'
  BY <1>1, <1>5 DEF ExpandNode, CollapseNode, Toggle, Reveal, Shows, forest
<1>6. ASSUME NEW n \in Id, RemoveNode(n) \/ UnloadBranch(n) PROVE TogetherInv'
  BY <1>6, RemoveTogether
<1>7. ASSUME NEW n \in Id, NEW d \in Id, Move(n, d) \/ MoveRefused(n, d) PROVE TogetherInv'
  <2>1. MoveRefused(n, d) => TogetherInv'
    BY <1>1 DEF MoveRefused, Shows, forest
  <2>. QED BY <1>7, <2>1, MoveTogether
<1>8. ASSUME NEW n \in Id, NEW key \in SortKeys, SortBranch(n, key) PROVE TogetherInv'
  BY <1>8, SortTogether
<1>9. ASSUME NEW n \in Id \cup {None}, NEW rows \in Batches, LoadBranch(n, rows)
      PROVE  TogetherInv'
  BY <1>9, LoadTogether
<1>. QED BY <1>2, <1>3, <1>4, <1>5, <1>6, <1>7, <1>8, <1>9, Zenon DEF Next

\* Moves, sorts, removals and loads keep the rows of a branch together, if tables and
\* batches come that way, until rows are loaded into a branch whose rows are not in
\* the order of its children: findLastNode() finds the last row of any other.
THEOREM BranchesStayTogether ==
  ASSUME RowsTogether PROVE Spec => []SubtreesTogether
<1>1. Init => TogetherInv
  BY InitTogether
<1>2. TogetherInv /\ [Next]_vars => TogetherInv'
  BY NextTogether
<1>3. TogetherInv => SubtreesTogether
  <2>. SUFFICES ASSUME TogetherInv, ~mixed, NEW n \in tree,
                       NEW d \in Descendants(children, n),
                       NEW o \in tree \ (Descendants(children, n) \cup {n}),
                       <<n, o>> \in above, <<o, d>> \in above
                PROVE  FALSE
    BY DEF SubtreesTogether
  <2>1. /\ tree \in SUBSET Id /\ children = Kids(parent) /\ None \notin Id
        /\ Trees(parent) /\ Descendants(children, n) \subseteq tree
    BY ConfigAssumption, ForestFacts, ForestIsTrees DEF TogetherInv, RowsInv, ForestInv
  <2>2. n \in Ancestors(parent, d) /\ n \notin Line(parent, o)
    BY <2>1, DescendantsAreBelow DEF Line
  <2>. QED BY <2>1, <2>2 DEF TogetherInv, Together
<1>. QED BY <1>1, <1>2, <1>3, PTL DEF Spec
===========================================================================
