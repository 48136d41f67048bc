--------------------------- MODULE TreeView_proofs ---------------------------
(* Proofs about TreeTable: what is shown of the rows, and how it is drawn.    *)
EXTENDS TreeTable_proofs

\* A forest pa of the nodes tr.
Ground(tr, pa) ==
  /\ tr \in SUBSET Id /\ IsFiniteSet(tr)
  /\ pa \in [Id -> tr \cup {None}]
  /\ \A m \in Id \ tr : pa[m] = None
  /\ Forest(tr, pa)

Views(tr) ==
  [class: [Id -> {"none", "collapsed", "expanded"}], indent: [Id -> Nat],
   shown: SUBSET tr, ready: SUBSET tr, expander: SUBSET tr, branch: SUBSET tr]

---------------------------------------------------------------------------
(* A forest                                                                *)
---------------------------------------------------------------------------
LEMMA GroundFacts ==
  ASSUME NEW tr, NEW pa, Ground(tr, pa)
  PROVE  /\ None \notin Id /\ pa \in ParentMap /\ Trees(pa)
         /\ tr \subseteq Id
         /\ \A n \in Id : /\ Kids(pa)[n] = {m \in tr : pa[m] = n}
                          /\ Ancestors(pa, n) \subseteq tr
                          /\ Descendants(Kids(pa), n) = {d \in tr : n \in Ancestors(pa, d)}
                          /\ Level(pa, n) \in Nat
<1>1. /\ None \notin Id /\ pa \in ParentMap /\ Trees(pa) /\ tr \in SUBSET Id
      /\ pa \in [Id -> tr \cup {None}]
  BY ConfigAssumption, ForestIsTrees DEF Ground, ParentMap
<1>2. ASSUME NEW n \in Id PROVE Kids(pa)[n] = {m \in tr : pa[m] = n}
  BY <1>1 DEF Kids, Ground
<1>3. ASSUME NEW n \in Id PROVE Ancestors(pa, n) \subseteq tr
  BY <1>1, AncestorsMin
<1>4. ASSUME NEW n \in Id
      PROVE  Descendants(Kids(pa), n) = {d \in tr : n \in Ancestors(pa, d)}
  <2>1. \A d \in Id \ tr : Ancestors(pa, d) = {}
    BY <1>1, AncestorsOfRoot DEF Ground
  <2>2. Descendants(Kids(pa), n) \subseteq Id
    BY <1>1, DescendantsClosed
  <2>. QED BY <1>1, <2>1, <2>2, DescendantsAreBelow
<1>5. ASSUME NEW n \in Id PROVE Level(pa, n) \in Nat
  BY <1>3, FS_Subset, FS_CardinalityType DEF Ground, Level
<1>. QED BY <1>1, <1>2, <1>3, <1>4, <1>5

---------------------------------------------------------------------------
(* Rendering, showing, expanding                                           *)
---------------------------------------------------------------------------
RendersAs(tr, s, pa, v, N) ==
  LET w == Render(s, pa, Kids(pa), v, N) IN
  /\ w \in Views(tr)
  /\ w.class = v.class /\ w.shown = v.shown /\ w.ready = v.ready /\ w.branch = v.branch
  /\ \A n \in Id : w.indent[n] = IF n \in N THEN Level(pa, n) ELSE v.indent[n]
  /\ w.expander = v.expander \cup {n \in N : s.expandable /\ IsBranchNode(Kids(pa), n)}

LEMMA RenderFacts ==
  ASSUME NEW tr, NEW pa, Ground(tr, pa), NEW s, NEW v \in Views(tr), NEW N \in SUBSET tr
  PROVE  RendersAs(tr, s, pa, v, N)
<1>. DEFINE w == Render(s, pa, Kids(pa), v, N)
            X == {n \in N : s.expandable /\ IsBranchNode(Kids(pa), n)}
            I == [n \in Id |-> IF n \in N THEN Level(pa, n) ELSE v.indent[n]]
<1>1. w = [v EXCEPT !.expander = @ \cup X, !.indent = I]
  BY DEF Render
<1>2. I \in [Id -> Nat]
  BY GroundFacts DEF Views
<1>3. \A n \in Id : I[n] = IF n \in N THEN Level(pa, n) ELSE v.indent[n]
  OBVIOUS
<1>4. X \in SUBSET tr
  OBVIOUS
<1>. HIDE DEF X, I, w
<1>5. /\ w \in Views(tr) /\ w.indent = I /\ w.expander = v.expander \cup X
      /\ w.class = v.class /\ w.shown = v.shown /\ w.ready = v.ready /\ w.branch = v.branch
  BY <1>1, <1>2, <1>4 DEF Views
<1>. QED BY <1>3, <1>5 DEF X, w, RendersAs

\* Whether the children of n are shown if n is; the nodes that show() comes to.
Opens(s, v, n) == IF n \in v.ready THEN v.class[n] = "expanded" ELSE ~Collapsing(s)
Visited(s, ch, v, N) ==
  LET below  == (UNION {ch[x] : x \in Id}) \ N
      closed == {S \in SUBSET below :
                   \A x \in S \cup N : Opens(s, v, x) => ch[x] \subseteq S \cup N}
  IN N \cup {d \in below : \A S \in closed : d \in S}

LEMMA VisitedMin ==
  ASSUME NEW pa \in ParentMap, NEW s, NEW v, NEW N \in SUBSET Id, NEW S, N \subseteq S,
         \A x \in S \cap Id : Opens(s, v, x) => Kids(pa)[x] \subseteq S
  PROVE  Visited(s, Kids(pa), v, N) \subseteq S
<1>. DEFINE ch == Kids(pa)
            all == UNION {ch[x] : x \in Id}
            below == all \ N
            closed == {T \in SUBSET below :
                         \A x \in T \cup N : Opens(s, v, x) => ch[x] \subseteq T \cup N}
            T == S \cap below
<1>1. \A x \in Id : ch[x] \subseteq Id /\ ch[x] \subseteq below \cup N
  <2>1. \A x \in Id : ch[x] \subseteq Id
    BY DEF Kids
  <2>2. ASSUME NEW x \in Id, NEW y \in ch[x] PROVE y \in all
    <3>. HIDE DEF ch
    <3>. QED BY <2>2, Zenon
  <2>. HIDE DEF ch, all
  <2>. QED BY <2>1, <2>2
<1>2. \A x \in T \cup N : Opens(s, v, x) => ch[x] \subseteq T \cup N
  <2>1. T \cup N \subseteq S \cap Id
    BY <1>1
  <2>. QED BY <1>1, <2>1
<1>3. T \in closed
  BY <1>2
<1>4. Visited(s, ch, v, N) = N \cup {d \in below : \A R \in closed : d \in R}
  BY Zenon DEF Visited
<1>. HIDE DEF closed, ch
<1>. QED BY <1>3, <1>4 DEF ch

LEMMA VisitedClosed ==
  ASSUME NEW pa \in ParentMap, NEW s, NEW v, NEW N \in SUBSET Id
  PROVE  /\ N \subseteq Visited(s, Kids(pa), v, N)
         /\ Visited(s, Kids(pa), v, N) \subseteq Id
         /\ \A x \in Visited(s, Kids(pa), v, N) :
              Opens(s, v, x) => Kids(pa)[x] \subseteq Visited(s, Kids(pa), v, N)
<1>. DEFINE ch == Kids(pa)
            all == UNION {ch[x] : x \in Id}
            below == all \ N
            closed == {T \in SUBSET below :
                         \A x \in T \cup N : Opens(s, v, x) => ch[x] \subseteq T \cup N}
            V == Visited(s, ch, v, N)
<1>1. \A x \in Id : ch[x] \subseteq Id /\ ch[x] \subseteq below \cup N
  <2>1. \A x \in Id : ch[x] \subseteq Id
    BY DEF Kids
  <2>2. ASSUME NEW x \in Id, NEW y \in ch[x] PROVE y \in all
    <3>. HIDE DEF ch
    <3>. QED BY <2>2, Zenon
  <2>. HIDE DEF ch, all
  <2>. QED BY <2>1, <2>2
<1>2. V = N \cup {d \in below : \A R \in closed : d \in R}
  BY Zenon DEF Visited
<1>3. N \subseteq V /\ V \subseteq Id
  BY <1>1, <1>2
<1>4. ASSUME NEW x \in V, Opens(s, v, x), NEW y \in ch[x] PROVE y \in V
  <2>1. y \in below \cup N
    BY <1>1, <1>3, <1>4
  <2>2. ASSUME NEW R \in closed PROVE y \in R \cup N
    <3>1. x \in R \cup N
      BY <1>2, <1>4, <2>2
    <3>. QED BY <1>4, <2>2, <3>1
  <2>. HIDE DEF closed
  <2>. QED BY <1>2, <2>1, <2>2
<1>. QED BY <1>3, <1>4

\* show(): what it does to the nodes it comes to, of which those that are shown for
\* the first time are initialized.
ShowsAs(tr, s, pa, v, N) ==
  LET w == Show(s, pa, Kids(pa), v, N)
      V == Visited(s, Kids(pa), v, N)
  IN /\ V \subseteq tr
     /\ w \in Views(tr)
     /\ w.ready = v.ready \cup V /\ w.branch = v.branch
     /\ \A n \in Id : /\ w.indent[n] = IF n \in V \ v.ready THEN Level(pa, n) ELSE v.indent[n]
                      /\ w.class[n] = IF n \notin V \ v.ready THEN v.class[n]
                                      ELSE IF Collapsing(s) THEN "collapsed" ELSE "expanded"
     /\ w.expander = v.expander
          \cup {n \in V \ v.ready : s.expandable /\ IsBranchNode(Kids(pa), n)}
     /\ \A x \in tr : x \in w.shown <=>
          \/ x \in V
          \/ /\ x \in v.shown
             /\ \A y \in V \ v.ready : Collapsing(s) /\ v.class[y] # "collapsed"
                  => y \notin Ancestors(pa, x)

LEMMA ShowFacts ==
  ASSUME NEW tr, NEW pa, Ground(tr, pa), NEW s, NEW v \in Views(tr), NEW N \in SUBSET tr
  PROVE  ShowsAs(tr, s, pa, v, N)
<1>. DEFINE w == Show(s, pa, Kids(pa), v, N)
            V == Visited(s, Kids(pa), v, N)
            ch == Kids(pa)
            new == V \ v.ready
            closing == {n \in new : Collapsing(s) /\ v.class[n] # "collapsed"}
            state == IF Collapsing(s) THEN "collapsed" ELSE "expanded"
            gone == UNION {Descendants(ch, n) : n \in closing}
            class == [n \in Id |-> IF n \in new THEN state ELSE v.class[n]]
            u == [v EXCEPT !.shown = (@ \ gone) \cup V, !.class = class, !.ready = @ \cup new]
<1>1. w = Render(s, pa, ch, u, new)
  BY Zenon DEF Show, Visited, Opens
<1>2. V \subseteq tr
  <2>1. \A x \in tr \cap Id : Opens(s, v, x) => Kids(pa)[x] \subseteq tr
    BY GroundFacts
  <2>2. pa \in ParentMap /\ tr \subseteq Id
    BY GroundFacts
  <2>. QED BY <2>1, <2>2, VisitedMin
<1>3. class \in [Id -> {"none", "collapsed", "expanded"}]
  BY DEF Views
<1>4. \A n \in Id : class[n] = IF n \notin new THEN v.class[n] ELSE state
  OBVIOUS
<1>5. \A x \in tr : x \in gone <=> \E y \in closing : y \in Ancestors(pa, x)
  <2>1. \A y \in closing : y \in Id /\ Descendants(ch, y) = {d \in tr : y \in Ancestors(pa, d)}
    BY <1>2, GroundFacts
  <2>. QED BY <2>1
<1>. HIDE DEF class, gone, w, V
<1>6. /\ u \in Views(tr) /\ u.shown = (v.shown \ gone) \cup V /\ u.class = class
      /\ u.ready = v.ready \cup new /\ u.branch = v.branch /\ u.indent = v.indent
      /\ u.expander = v.expander
  BY <1>2, <1>3 DEF Views
<1>. HIDE DEF u
<1>7. new \in SUBSET tr
  BY <1>2
<1>8. /\ w \in Views(tr)
      /\ w.class = class /\ w.shown = u.shown /\ w.ready = u.ready /\ w.branch = v.branch
      /\ \A n \in Id : w.indent[n] = IF n \in new THEN Level(pa, n) ELSE v.indent[n]
      /\ w.expander = v.expander \cup {n \in new : s.expandable /\ IsBranchNode(ch, n)}
  <2>. HIDE DEF new
  <2>1. RendersAs(tr, s, pa, u, new)
    BY <1>6, <1>7, RenderFacts
  <2>. QED BY <1>1, <1>6, <2>1 DEF RendersAs
<1>9. w.ready = v.ready \cup V
  BY <1>6, <1>8
<1>10. \A x \in tr : x \in w.shown <=> x \in V \/ (x \in v.shown /\ x \notin gone)
  BY <1>6, <1>8
<1>. QED BY <1>2, <1>4, <1>5, <1>8, <1>9, <1>10 DEF ShowsAs, w, V

CollapsesAs(tr, pa, v, n) ==
  LET w == Collapse(Kids(pa), v, n) IN
  /\ w \in Views(tr)
  /\ w.ready = v.ready /\ w.branch = v.branch /\ w.indent = v.indent
  /\ w.expander = v.expander
  /\ \A m \in Id : w.class[m] = IF m = n THEN "collapsed" ELSE v.class[m]
  /\ \A x \in tr : x \in w.shown <=>
       x \in v.shown /\ (v.class[n] = "collapsed" \/ n \notin Ancestors(pa, x))

LEMMA CollapseFacts ==
  ASSUME NEW tr, NEW pa, Ground(tr, pa), NEW v \in Views(tr), NEW n \in tr
  PROVE  CollapsesAs(tr, pa, v, n)
<1>. DEFINE w == Collapse(Kids(pa), v, n)
            D == Descendants(Kids(pa), n)
            u == [v EXCEPT !.class[n] = "collapsed"]
<1>1. n \in Id /\ \A x \in tr : x \in D <=> n \in Ancestors(pa, x)
  BY GroundFacts
<1>2. CASE v.class[n] = "collapsed"
  BY <1>1, <1>2 DEF Collapse, Views, CollapsesAs
<1>3. CASE v.class[n] # "collapsed"
  <2>1. w = [u EXCEPT !.shown = @ \ D]
    BY <1>3 DEF Collapse, HideChildren
  <2>. HIDE DEF D, w
  <2>2. /\ u \in Views(tr) /\ u.class = [v.class EXCEPT ![n] = "collapsed"] /\ u.shown = v.shown
        /\ u.ready = v.ready /\ u.branch = v.branch /\ u.indent = v.indent
        /\ u.expander = v.expander
    BY <1>1 DEF Views
  <2>. HIDE DEF u
  <2>3. /\ w \in Views(tr) /\ w.class = u.class /\ w.shown = u.shown \ D
        /\ w.ready = u.ready /\ w.branch = u.branch /\ w.indent = u.indent
        /\ w.expander = u.expander
    BY <2>1, <2>2 DEF Views
  <2>4. \A m \in Id : u.class[m] = IF m = n THEN "collapsed" ELSE v.class[m]
    BY <2>2 DEF Views
  <2>. QED BY <1>1, <1>3, <2>2, <2>3, <2>4 DEF CollapsesAs, w
<1>. QED BY <1>2, <1>3

\* expand(): the class, and show() of the children if the node is shown.
ExpandsAs(tr, s, pa, v, n) ==
  LET w == Expand(s, pa, Kids(pa), v, n) IN
  \E u \in Views(tr) :
    /\ u.shown = v.shown /\ u.ready = v.ready /\ u.branch = v.branch
    /\ u.indent = v.indent /\ u.expander = v.expander
    /\ \A m \in Id : u.class[m] = IF m = n THEN "expanded" ELSE v.class[m]
    /\ \/ w = u /\ (v.class[n] = "expanded" \/ n \notin v.shown)
       \/ /\ w = Show(s, pa, Kids(pa), u, Kids(pa)[n])
          /\ v.class[n] # "expanded" /\ n \in v.shown

LEMMA ExpandFacts ==
  ASSUME NEW tr, NEW pa, Ground(tr, pa), NEW s, NEW v \in Views(tr), NEW n \in tr
  PROVE  ExpandsAs(tr, s, pa, v, n)
<1>. DEFINE w == Expand(s, pa, Kids(pa), v, n)
            u == [v EXCEPT !.class[n] = "expanded"]
<1>1. n \in Id
  BY GroundFacts
<1>2. /\ u \in Views(tr) /\ u.shown = v.shown /\ u.ready = v.ready /\ u.branch = v.branch
      /\ u.indent = v.indent /\ u.expander = v.expander
      /\ u.class = [v.class EXCEPT ![n] = "expanded"]
  BY <1>1 DEF Views
<1>3. v.class[n] = "expanded" => u = v
  BY <1>1 DEF Views
<1>4. \A m \in Id : u.class[m] = IF m = n THEN "expanded" ELSE v.class[m]
  BY <1>2 DEF Views
<1>5. \/ w = u /\ (v.class[n] = "expanded" \/ n \notin v.shown)
      \/ /\ w = Show(s, pa, Kids(pa), u, Kids(pa)[n])
         /\ v.class[n] # "expanded" /\ n \in v.shown
  <2>1. CASE v.class[n] = "expanded"
    BY <1>3, <2>1 DEF Expand
  <2>2. CASE v.class[n] # "expanded" /\ n \in v.shown
    BY <2>2 DEF Expand
  <2>3. CASE v.class[n] # "expanded" /\ n \notin v.shown
    BY <2>3 DEF Expand
  <2>. QED BY <2>1, <2>2, <2>3
<1>. HIDE DEF u
<1>. QED BY <1>2, <1>4, <1>5 DEF ExpandsAs

LEMMA ExpandTyped ==
  ASSUME NEW tr, NEW pa, Ground(tr, pa), NEW s, NEW v \in Views(tr), NEW n \in tr
  PROVE  Expand(s, pa, Kids(pa), v, n) \in Views(tr)
<1>. DEFINE w == Expand(s, pa, Kids(pa), v, n)
<1>1. ExpandsAs(tr, s, pa, v, n)
  BY ExpandFacts
<1>2. PICK u \in Views(tr) : w = u \/ w = Show(s, pa, Kids(pa), u, Kids(pa)[n])
  BY <1>1 DEF ExpandsAs
<1>3. Kids(pa)[n] \in SUBSET tr
  BY GroundFacts
<1>4. ShowsAs(tr, s, pa, u, Kids(pa)[n])
  BY <1>3, ShowFacts
<1>. QED BY <1>2, <1>4 DEF ShowsAs

\* expandNode() of a node that was not initialized: as collapse() or expand() of the
\* rendered node, which is initialized then.
InitializesAs(tr, s, pa, v, n) ==
  LET w == Initialize(s, pa, Kids(pa), v, n)
      u == Render(s, pa, Kids(pa), v, {n})
      t == IF Collapsing(s) THEN Collapse(Kids(pa), u, n) ELSE Expand(s, pa, Kids(pa), u, n)
  IN /\ u \in Views(tr) /\ t \in Views(tr) /\ w \in Views(tr)
     /\ w.class = t.class /\ w.shown = t.shown /\ w.branch = t.branch
     /\ w.indent = t.indent /\ w.expander = t.expander
     /\ w.ready = t.ready \cup {n}

LEMMA InitializeFacts ==
  ASSUME NEW tr, NEW pa, Ground(tr, pa), NEW s, NEW v \in Views(tr), NEW n \in tr
  PROVE  InitializesAs(tr, s, pa, v, n)
<1>. DEFINE w == Initialize(s, pa, Kids(pa), v, n)
            u == Render(s, pa, Kids(pa), v, {n})
            t == IF Collapsing(s) THEN Collapse(Kids(pa), u, n)
                 ELSE Expand(s, pa, Kids(pa), u, n)
<1>1. u \in Views(tr)
  <2>1. {n} \in SUBSET tr
    OBVIOUS
  <2>2. RendersAs(tr, s, pa, v, {n})
    BY <2>1, RenderFacts
  <2>. QED BY <2>2 DEF RendersAs
<1>2. t \in Views(tr)
  <2>. HIDE DEF u
  <2>1. CollapsesAs(tr, pa, u, n) /\ Expand(s, pa, Kids(pa), u, n) \in Views(tr)
    BY <1>1, CollapseFacts, ExpandTyped
  <2>. QED BY <2>1 DEF CollapsesAs
<1>3. w = [t EXCEPT !.ready = @ \cup {n}]
  BY Zenon DEF Initialize
<1>. HIDE DEF w, t, u
<1>4. /\ w \in Views(tr)
      /\ w.class = t.class /\ w.shown = t.shown /\ w.branch = t.branch
      /\ w.indent = t.indent /\ w.expander = t.expander
      /\ w.ready = t.ready \cup {n}
  BY <1>2, <1>3 DEF Views
<1>. QED BY <1>1, <1>2, <1>4 DEF InitializesAs, w, t, u

BranchesAs(tr, pa, v, N) ==
  LET w == Branches(Kids(pa), v, N) IN
  /\ w \in Views(tr)
  /\ w.class = v.class /\ w.shown = v.shown /\ w.ready = v.ready
  /\ w.indent = v.indent /\ w.expander = v.expander
  /\ \A n \in tr : n \in w.branch <=> IF n \in N THEN IsBranchNode(Kids(pa), n)
                                      ELSE n \in v.branch

LEMMA BranchesFacts ==
  ASSUME NEW tr, NEW pa, Ground(tr, pa), NEW v \in Views(tr), NEW N \in SUBSET tr
  PROVE  BranchesAs(tr, pa, v, N)
<1>. DEFINE w == Branches(Kids(pa), v, N)
            X == {n \in N : IsBranchNode(Kids(pa), n)}
<1>1. w = [v EXCEPT !.branch = (@ \ N) \cup X] /\ X \in SUBSET tr
  BY DEF Branches
<1>2. \A n : n \in X <=> n \in N /\ IsBranchNode(Kids(pa), n)
  OBVIOUS
<1>. HIDE DEF X, w
<1>. QED BY <1>1, <1>2 DEF Views, BranchesAs, w

---------------------------------------------------------------------------
(* Drawn rows                                                              *)
---------------------------------------------------------------------------
DrawnNode(s, pa, v, n) ==
  /\ v.indent[n] = Level(pa, n)
  /\ IsBranchNode(Kids(pa), n) /\ s.expandable => n \in v.expander

\* Initialized nodes are drawn at their depth; the nodes with children are marked.
Drawn(s, tr, pa, v) ==
  /\ v \in Views(tr)
  /\ \A n \in tr : IsBranchNode(Kids(pa), n) => n \in v.branch
  /\ \A n \in v.ready : DrawnNode(s, pa, v, n)

\* w is drawn, and so is what was drawn in v.
Redrawn(s, tr, pa, v, w) ==
  /\ Drawn(s, tr, pa, w)
  /\ \A n \in tr : DrawnNode(s, pa, v, n) => DrawnNode(s, pa, w, n)

LEMMA RenderDrawn ==
  ASSUME NEW tr, NEW pa, Ground(tr, pa), NEW s, NEW v, Drawn(s, tr, pa, v),
         NEW N \in SUBSET tr
  PROVE  /\ Redrawn(s, tr, pa, v, Render(s, pa, Kids(pa), v, N))
         /\ \A n \in N : DrawnNode(s, pa, Render(s, pa, Kids(pa), v, N), n)
<1>1. v \in Views(tr) /\ tr \subseteq Id /\ v.ready \subseteq tr
  BY GroundFacts DEF Drawn, Views
<1>2. RendersAs(tr, s, pa, v, N)
  BY <1>1, RenderFacts
<1>. QED BY <1>1, <1>2 DEF RendersAs, Redrawn, Drawn, DrawnNode

LEMMA ShowDrawn ==
  ASSUME NEW tr, NEW pa, Ground(tr, pa), NEW s, NEW v, Drawn(s, tr, pa, v),
         NEW N \in SUBSET tr
  PROVE  Redrawn(s, tr, pa, v, Show(s, pa, Kids(pa), v, N))
<1>1. v \in Views(tr) /\ tr \subseteq Id /\ v.ready \subseteq tr
  BY GroundFacts DEF Drawn, Views
<1>2. ShowsAs(tr, s, pa, v, N)
  BY <1>1, ShowFacts
<1>. DEFINE w == Show(s, pa, Kids(pa), v, N)
            V == Visited(s, Kids(pa), v, N)
<1>3. ASSUME NEW n \in tr, DrawnNode(s, pa, v, n) \/ n \in V \ v.ready
      PROVE  DrawnNode(s, pa, w, n)
  <2>. HIDE DEF V
  <2>. QED BY <1>1, <1>2, <1>3 DEF ShowsAs, DrawnNode, V
<1>4. w \in Views(tr) /\ w.ready = v.ready \cup V /\ w.branch = v.branch /\ V \subseteq tr
  BY <1>2 DEF ShowsAs
<1>. HIDE DEF w, V
<1>5. Redrawn(s, tr, pa, v, w)
  BY <1>1, <1>3, <1>4 DEF Redrawn, Drawn
<1>. QED BY <1>5 DEF w

LEMMA CollapseDrawn ==
  ASSUME NEW tr, NEW pa, Ground(tr, pa), NEW s, NEW v, Drawn(s, tr, pa, v), NEW n \in tr
  PROVE  Redrawn(s, tr, pa, v, Collapse(Kids(pa), v, n))
<1>1. v \in Views(tr)
  BY DEF Drawn
<1>2. CollapsesAs(tr, pa, v, n)
  BY <1>1, CollapseFacts
<1>. QED BY <1>2 DEF CollapsesAs, Redrawn, Drawn, DrawnNode

LEMMA ExpandDrawn ==
  ASSUME NEW tr, NEW pa, Ground(tr, pa), NEW s, NEW v, Drawn(s, tr, pa, v), NEW n \in tr
  PROVE  Redrawn(s, tr, pa, v, Expand(s, pa, Kids(pa), v, n))
<1>1. v \in Views(tr) /\ Kids(pa)[n] \in SUBSET tr
  BY GroundFacts DEF Drawn
<1>2. ExpandsAs(tr, s, pa, v, n)
  BY <1>1, ExpandFacts
<1>. DEFINE w == Expand(s, pa, Kids(pa), v, n)
<1>3. PICK u \in Views(tr) :
        /\ u.shown = v.shown /\ u.ready = v.ready /\ u.branch = v.branch
        /\ u.indent = v.indent /\ u.expander = v.expander
        /\ w = u \/ w = Show(s, pa, Kids(pa), u, Kids(pa)[n])
  BY <1>2 DEF ExpandsAs
<1>4. Redrawn(s, tr, pa, v, u)
  BY <1>3 DEF Redrawn, Drawn, DrawnNode
<1>5. Redrawn(s, tr, pa, u, Show(s, pa, Kids(pa), u, Kids(pa)[n]))
  BY <1>1, <1>4, ShowDrawn DEF Redrawn
<1>. QED BY <1>3, <1>4, <1>5 DEF Redrawn

LEMMA InitializeDrawn ==
  ASSUME NEW tr, NEW pa, Ground(tr, pa), NEW s, NEW v, Drawn(s, tr, pa, v), NEW n \in tr
  PROVE  Redrawn(s, tr, pa, v, Initialize(s, pa, Kids(pa), v, n))
<1>. DEFINE w == Initialize(s, pa, Kids(pa), v, n)
            u == Render(s, pa, Kids(pa), v, {n})
            t == IF Collapsing(s) THEN Collapse(Kids(pa), u, n) ELSE Expand(s, pa, Kids(pa), u, n)
<1>1. v \in Views(tr) /\ {n} \in SUBSET tr
  BY DEF Drawn
<1>2. InitializesAs(tr, s, pa, v, n)
  BY <1>1, InitializeFacts
<1>3. Redrawn(s, tr, pa, v, u) /\ DrawnNode(s, pa, u, n)
  BY <1>1, RenderDrawn
<1>4. Redrawn(s, tr, pa, u, t)
  <2>. HIDE DEF u
  <2>. QED BY <1>3, CollapseDrawn, ExpandDrawn DEF Redrawn
<1>5. /\ w \in Views(tr)
      /\ w.class = t.class /\ w.shown = t.shown /\ w.branch = t.branch
      /\ w.indent = t.indent /\ w.expander = t.expander
      /\ w.ready = t.ready \cup {n}
  BY <1>2, Zenon DEF InitializesAs
<1>. HIDE DEF w, u, t
<1>6. Redrawn(s, tr, pa, v, w)
  BY <1>3, <1>4, <1>5 DEF Redrawn, Drawn, DrawnNode
<1>. QED BY <1>6 DEF w

\* Marking nodes N keeps a view drawn; it is enough that the others are marked.
LEMMA BranchesDrawn ==
  ASSUME NEW tr, NEW pa, Ground(tr, pa), NEW s, NEW v \in Views(tr), NEW N \in SUBSET tr,
         \A n \in tr \ N : IsBranchNode(Kids(pa), n) => n \in v.branch,
         \A n \in v.ready : DrawnNode(s, pa, v, n)
  PROVE  Drawn(s, tr, pa, Branches(Kids(pa), v, N))
<1>1. BranchesAs(tr, pa, v, N)
  BY BranchesFacts
<1>. QED BY <1>1 DEF BranchesAs, Drawn, DrawnNode

---------------------------------------------------------------------------
(* Loops over the nodes                                                    *)
---------------------------------------------------------------------------
\* The views that a loop of expand() goes through, all of which are in V.
LEMMA ExpandedRun ==
  ASSUME NEW T, NEW seq \in Seq(T), NEW V, view \in V,
         \A v \in V, n \in T : Expanding(v, n) \in V
  PROVE  \E f \in [0..Len(seq) -> V] :
           /\ f[0] = view
           /\ \A i \in 1..Len(seq) : f[i] = Expanding(f[i - 1], seq[i])
           /\ ExpandedIn(seq) = f[Len(seq)]
<1>. DEFINE len == Len(seq)
            After(v, i) == Expanding(v, seq[i])
            step == [p \in V \X (1..len) |-> After(p[1], p[2])]
            Eq(g) == g = [i \in 0..len |-> IF i = 0 THEN view ELSE After(g[i - 1], i)]
            run == CHOOSE g : Eq(g)
<1>1. len \in Nat /\ \A i \in 1..len : seq[i] \in T
  OBVIOUS
<1>2. \A v \in V, i \in 1..len : After(v, i) \in V
  BY <1>1
<1>3. ExpandedIn(seq) = run[len]
  BY Zenon DEF ExpandedIn
<1>4. \A v, i : After(v, i) = Expanding(v, seq[i])
  OBVIOUS
<1>. HIDE DEF len, After
<1>5. step \in Bodies(len, V) /\ \A v \in V, i \in 1..len : step[<<v, i>>] = After(v, i)
  BY <1>2 DEF Bodies
<1>. HIDE DEF step
<1>6. \E g : Eq(g)
  <2>1. PICK f \in [0..len -> V] : IsRun(f, len, view, step)
    BY <1>1, <1>5, LoopRuns
  <2>2. \A i \in 1..len : f[i - 1] \in V
    BY <1>1
  <2>3. \A i \in 1..len : f[i] = After(f[i - 1], i)
    BY <1>5, <2>1, <2>2 DEF IsRun
  <2>4. \A i \in 0..len : i = 0 \/ i \in 1..len
    BY <1>1
  <2>5. \A i \in 0..len : f[i] = IF i = 0 THEN view ELSE After(f[i - 1], i)
    BY <2>1, <2>3, <2>4 DEF IsRun
  <2>. QED BY <2>5
<1>7. Eq(run)
  <2>. HIDE DEF Eq
  <2>. QED BY <1>6
<1>. HIDE DEF run
<1>8. DOMAIN run = 0..len /\ run[0] = view /\ \A i \in 1..len : run[i] = After(run[i - 1], i)
  BY <1>1, <1>7
<1>. DEFINE S == {i \in 0..len : run[i] \in V}
<1>9. 0 \in S /\ \A i \in 1..len : i - 1 \in S => i \in S
  BY <1>1, <1>2, <1>8
<1>. HIDE DEF S
<1>10. \A i \in 0..len : run[i] \in V
  <2>1. \A i \in 0..len : i \in S
    BY <1>1, <1>9, UpTo
  <2>. QED BY <2>1 DEF S
<1>11. run = [i \in 0..len |-> run[i]]
  BY <1>7
<1>12. run \in [0..len -> V]
  BY <1>10, <1>11
<1>. QED BY <1>3, <1>4, <1>8, <1>12 DEF len

\* The same for collapse().
LEMMA CollapsedRun ==
  ASSUME NEW T, NEW seq \in Seq(T), NEW V, view \in V,
         \A v \in V, n \in T : Collapsed(v, n) \in V
  PROVE  \E f \in [0..Len(seq) -> V] :
           /\ f[0] = view
           /\ \A i \in 1..Len(seq) : f[i] = Collapsed(f[i - 1], seq[i])
           /\ CollapsedIn(seq) = f[Len(seq)]
<1>. DEFINE len == Len(seq)
            After(v, i) == Collapsed(v, seq[i])
            step == [p \in V \X (1..len) |-> After(p[1], p[2])]
            Eq(g) == g = [i \in 0..len |-> IF i = 0 THEN view ELSE After(g[i - 1], i)]
            run == CHOOSE g : Eq(g)
<1>1. len \in Nat /\ \A i \in 1..len : seq[i] \in T
  OBVIOUS
<1>2. \A v \in V, i \in 1..len : After(v, i) \in V
  BY <1>1
<1>3. CollapsedIn(seq) = run[len]
  BY Zenon DEF CollapsedIn
<1>4. \A v, i : After(v, i) = Collapsed(v, seq[i])
  OBVIOUS
<1>. HIDE DEF len, After
<1>5. step \in Bodies(len, V) /\ \A v \in V, i \in 1..len : step[<<v, i>>] = After(v, i)
  BY <1>2 DEF Bodies
<1>. HIDE DEF step
<1>6. \E g : Eq(g)
  <2>1. PICK f \in [0..len -> V] : IsRun(f, len, view, step)
    BY <1>1, <1>5, LoopRuns
  <2>2. \A i \in 1..len : f[i - 1] \in V
    BY <1>1
  <2>3. \A i \in 1..len : f[i] = After(f[i - 1], i)
    BY <1>5, <2>1, <2>2 DEF IsRun
  <2>4. \A i \in 0..len : i = 0 \/ i \in 1..len
    BY <1>1
  <2>5. \A i \in 0..len : f[i] = IF i = 0 THEN view ELSE After(f[i - 1], i)
    BY <2>1, <2>3, <2>4 DEF IsRun
  <2>. QED BY <2>5
<1>7. Eq(run)
  <2>. HIDE DEF Eq
  <2>. QED BY <1>6
<1>. HIDE DEF run
<1>8. DOMAIN run = 0..len /\ run[0] = view /\ \A i \in 1..len : run[i] = After(run[i - 1], i)
  BY <1>1, <1>7
<1>. DEFINE S == {i \in 0..len : run[i] \in V}
<1>9. 0 \in S /\ \A i \in 1..len : i - 1 \in S => i \in S
  BY <1>1, <1>2, <1>8
<1>. HIDE DEF S
<1>10. \A i \in 0..len : run[i] \in V
  <2>1. \A i \in 0..len : i \in S
    BY <1>1, <1>9, UpTo
  <2>. QED BY <2>1 DEF S
<1>11. run = [i \in 0..len |-> run[i]]
  BY <1>7
<1>12. run \in [0..len -> V]
  BY <1>10, <1>11
<1>. QED BY <1>3, <1>4, <1>8, <1>12 DEF len

\* reveal() goes through the line from the root down to n.
Path(pa, n) ==
  LET line == {n} \cup Ancestors(pa, n)
  IN [i \in 1..Cardinality(line) |-> CHOOSE m \in line : Level(pa, m) = i - 1]

LeadsDown(tr, pa, n, path) ==
  /\ path \in Seq(tr)
  /\ \E i \in 1..Len(path) : path[i] = n
  /\ \A i \in 1..Len(path) : \A a \in Ancestors(pa, path[i]) :
       \E j \in 1..(i - 1) : path[j] = a

LEMMA PathFacts ==
  ASSUME NEW tr, NEW pa, Ground(tr, pa), NEW n \in tr
  PROVE  LeadsDown(tr, pa, n, Path(pa, n))
<1>. DEFINE line == {n} \cup Ancestors(pa, n)
            R == {p \in line \X line : p[1] \in Ancestors(pa, p[2])}
            N == Cardinality(line)
            q == Path(pa, n)
<1>1. /\ pa \in ParentMap /\ Trees(pa) /\ tr \subseteq Id /\ n \in Id
      /\ line \in SUBSET tr /\ IsFiniteSet(tr) /\ line = Line(pa, n)
  BY GroundFacts DEF Ground, Line
<1>2. \A x \in line : x \in Id /\ Ancestors(pa, x) \subseteq line
  BY <1>1, AncestorsTransitive
<1>3. \A x, y \in line : <<x, y>> \in R <=> x \in Ancestors(pa, y)
  OBVIOUS
<1>4. IsFiniteSet(line)
  BY <1>1, FS_Subset
<1>. HIDE DEF line, R
<1>5. Orders(R, line)
  <2>1. \A x \in line : x \notin Ancestors(pa, x)
    BY <1>1, <1>2 DEF Trees
  <2>2. \A x, y \in line : x # y => x \in Ancestors(pa, y) \/ y \in Ancestors(pa, x)
    BY <1>1, LineIsChain
  <2>3. \A x, y, z \in line :
          x \in Ancestors(pa, y) /\ y \in Ancestors(pa, z) => x \in Ancestors(pa, z)
    BY <1>1, <1>2, AncestorsTransitive
  <2>. QED BY <1>3, <2>1, <2>2, <2>3 DEF Orders
<1>6. \A m \in line : Level(pa, m) = Rank(line, R, m)
  <2>. SUFFICES ASSUME NEW m \in line PROVE {x \in line : <<x, m>> \in R} = Ancestors(pa, m)
    BY DEF Level, Rank
  <2>. QED BY <1>2, <1>3
<1>7. /\ N \in Nat
      /\ \A m \in line : Level(pa, m) \in 0..(N - 1)
      /\ \A i \in 1..N : \E m \in line : Level(pa, m) = i - 1
      /\ \A a, m \in line : <<a, m>> \in R => Level(pa, a) < Level(pa, m)
  BY <1>4, <1>5, <1>6, Ranks
<1>8. q = [i \in 1..N |-> CHOOSE m \in line : Level(pa, m) = i - 1]
  BY DEF Path, line
<1>. HIDE DEF q, N
<1>9. \A i \in 1..N : q[i] \in line /\ Level(pa, q[i]) = i - 1
  BY <1>7, <1>8
<1>10. q \in Seq(tr) /\ Len(q) = N
  <2>1. q \in [1..N -> tr]
    BY <1>1, <1>8, <1>9
  <2>. QED BY <1>7, <2>1
<1>11. ASSUME NEW m \in line, NEW k \in line, Level(pa, m) = Level(pa, k) PROVE m = k
  <2>1. <<m, k>> \notin R /\ <<k, m>> \notin R
    BY <1>7, <1>11
  <2>. QED BY <1>5, <2>1 DEF Orders
<1>12. ASSUME NEW m \in line PROVE \E i \in 1..N : q[i] = m /\ Level(pa, m) = i - 1
  <2>1. Level(pa, m) + 1 \in 1..N /\ (Level(pa, m) + 1) - 1 = Level(pa, m)
    BY <1>7
  <2>2. q[Level(pa, m) + 1] \in line /\ Level(pa, q[Level(pa, m) + 1]) = Level(pa, m)
    BY <1>9, <2>1
  <2>3. q[Level(pa, m) + 1] = m
    BY <1>11, <2>2
  <2>. QED BY <2>1, <2>3
<1>13. n \in line
  BY DEF line
<1>14. ASSUME NEW i \in 1..N, NEW a \in Ancestors(pa, q[i]) PROVE \E j \in 1..(i - 1) : q[j] = a
  <2>1. a \in line /\ q[i] \in line /\ <<a, q[i]>> \in R
    BY <1>2, <1>3, <1>9
  <2>2. PICK j \in 1..N : q[j] = a /\ Level(pa, a) = j - 1
    BY <1>12, <2>1
  <2>3. Level(pa, a) < Level(pa, q[i]) /\ Level(pa, q[i]) = i - 1
    BY <1>7, <1>9, <2>1
  <2>4. j \in 1..(i - 1)
    BY <1>7, <2>2, <2>3
  <2>. QED BY <2>2, <2>4
<1>15. \E i \in 1..N : q[i] = n
  BY <1>12, <1>13
<1>. HIDE DEF q
<1>16. LeadsDown(tr, pa, n, q)
  BY <1>10, <1>14, <1>15 DEF LeadsDown
<1>. QED BY <1>16 DEF q

LEMMA RevealedPath ==
  ASSUME NEW n \in tree PROVE Revealed(n) = ExpandedIn(Path(parent, n))
BY Zenon DEF Revealed, Path

---------------------------------------------------------------------------
(* The steps keep the rows drawn                                           *)
---------------------------------------------------------------------------
ViewInv == RowsInv /\ Drawn(settings, tree, parent, view)

LEMMA RowsGround ==
  ASSUME RowsInv
  PROVE  Ground(tree, parent) /\ children = Kids(parent) /\ tree \subseteq Id
BY DEF RowsInv, ForestInv, Ground

LEMMA InitView == Init => ViewInv
<1>. SUFFICES ASSUME Init PROVE ViewInv
  OBVIOUS
<1>. DEFINE page == [class |-> [n \in Id |-> "none"], indent |-> [n \in Id |-> 0],
                     shown |-> tree, ready |-> {}, expander |-> {}, branch |-> {}]
            roots == {n \in tree : parent[n] = None}
            start == Branches(children, page, tree)
<1>1. view = Show(settings, parent, children, start, roots)
  BY Zenon DEF Init
<1>2. RowsInv /\ Ground(tree, parent) /\ children = Kids(parent)
  BY InitRows, RowsGround
<1>3. page \in Views(tree) /\ page.ready = {}
  BY DEF Views
<1>. HIDE DEF page
<1>4. Drawn(settings, tree, parent, start)
  BY <1>2, <1>3, BranchesDrawn
<1>5. roots \in SUBSET tree
  OBVIOUS
<1>. HIDE DEF start, roots
<1>. QED BY <1>1, <1>2, <1>4, <1>5, ShowDrawn DEF ViewInv, Redrawn

LEMMA ReinitView == ASSUME ViewInv, NEW s, Reinit(s) PROVE ViewInv'
<1>. DEFINE fresh == [view EXCEPT !.ready = {}, !.indent = [n \in Id |-> 0]]
            roots == tree \ UNION {children'[n] : n \in tree}
            start == Branches(children', fresh, tree)
<1>1. /\ settings' = s /\ UNCHANGED <<tree, parent>>
      /\ view' = Show(s, parent, children', start, roots)
  BY Zenon DEF Reinit, Load
<1>2. RowsInv' /\ Ground(tree, parent) /\ children' = Kids(parent)
  <2>1. RowsInv' /\ Ground(tree, parent)
    BY ReinitRows, RowsGround DEF ViewInv
  <2>. QED BY <1>1, <2>1 DEF RowsInv, ForestInv
<1>3. fresh \in Views(tree) /\ fresh.ready = {}
  BY DEF ViewInv, Drawn, Views
<1>. HIDE DEF fresh
<1>4. Drawn(s, tree, parent, start)
  BY <1>2, <1>3, BranchesDrawn
<1>5. roots \in SUBSET tree
  OBVIOUS
<1>. HIDE DEF start, roots
<1>6. Drawn(s, tree, parent, view')
  BY <1>1, <1>2, <1>4, <1>5, ShowDrawn DEF Redrawn
<1>. QED BY <1>1, <1>2, <1>6 DEF ViewInv

\* The views drawn for the present forest, which the loops stay in.
DrawnViews == {v \in Views(tree) : Drawn(settings, tree, parent, v)}

LEMMA StepsDrawn ==
  ASSUME ViewInv
  PROVE  /\ view \in DrawnViews
         /\ \A v \in DrawnViews, n \in tree :
              Expanding(v, n) \in DrawnViews /\ Collapsed(v, n) \in DrawnViews
<1>1. view \in DrawnViews
  BY DEF ViewInv, DrawnViews, Drawn
<1>2. ASSUME NEW v \in DrawnViews, NEW n \in tree
      PROVE  Expanding(v, n) \in DrawnViews /\ Collapsed(v, n) \in DrawnViews
  <2>1. Drawn(settings, tree, parent, v) /\ Ground(tree, parent) /\ children = Kids(parent)
    BY RowsGround DEF ViewInv, DrawnViews
  <2>2. /\ Redrawn(settings, tree, parent, v, Collapse(Kids(parent), v, n))
        /\ Redrawn(settings, tree, parent, v, Expand(settings, parent, Kids(parent), v, n))
    BY <2>1, CollapseDrawn, ExpandDrawn
  <2>. QED BY <2>1, <2>2 DEF Redrawn, Drawn, DrawnViews, Expanding, Collapsed
<1>. QED BY <1>1, <1>2

\* Calls that only show and hide.
LEMMA ShowsView ==
  ASSUME ViewInv, NEW v \in DrawnViews, Shows(v) PROVE ViewInv'
<1>1. UNCHANGED <<forest, settings>> /\ view' = v
  BY DEF Shows
<1>2. RowsInv'
  <2>1. ForestInv'
    BY <1>1 DEF forest, ViewInv, RowsInv, ForestInv, Forest, Below
  <2>. QED BY <1>1, <2>1 DEF forest, ViewInv, RowsInv, ToSet
<1>. QED BY <1>1, <1>2 DEF ViewInv, DrawnViews, forest

LEMMA LoopsView ==
  ASSUME ViewInv, NEW seq \in Seq(tree)
  PROVE  ExpandedIn(seq) \in DrawnViews /\ CollapsedIn(seq) \in DrawnViews
<1>1. PICK f \in [0..Len(seq) -> DrawnViews] : ExpandedIn(seq) = f[Len(seq)]
  BY StepsDrawn, ExpandedRun
<1>2. PICK g \in [0..Len(seq) -> DrawnViews] : CollapsedIn(seq) = g[Len(seq)]
  BY StepsDrawn, CollapsedRun
<1>3. Len(seq) \in 0..Len(seq)
  OBVIOUS
<1>. QED BY <1>1, <1>2, <1>3

LEMMA CallsView ==
  ASSUME ViewInv, ExpandAll \/ CollapseAll \/ \E n \in Id : ExpandNode(n) \/ CollapseNode(n)
                    \/ Toggle(n) \/ Reveal(n) \/ \E d \in Id : MoveRefused(n, d)
  PROVE  ViewInv'
<1>1. Ground(tree, parent) /\ children = Kids(parent) /\ nodes \in Seq(tree)
  BY RowsGround DEF ViewInv, RowsInv
<1>2. view \in DrawnViews /\ Drawn(settings, tree, parent, view)
  BY StepsDrawn DEF ViewInv
<1>3. CASE ExpandAll \/ CollapseAll
  BY <1>1, <1>3, LoopsView, ShowsView DEF ExpandAll, CollapseAll, ExpandedAll
<1>4. ASSUME NEW n \in Id, ExpandNode(n) PROVE ViewInv'
  <2>. DEFINE v == IF n \in view.ready THEN view
                   ELSE Initialize(settings, parent, children, view, n)
  <2>1. n \in tree /\ Shows(Expanding(v, n))
    BY <1>4 DEF ExpandNode
  <2>2. v \in DrawnViews
    <3>1. Redrawn(settings, tree, parent, view, Initialize(settings, parent, Kids(parent), view, n))
      BY <1>1, <1>2, <2>1, InitializeDrawn
    <3>. QED BY <1>1, <1>2, <3>1 DEF Redrawn, Drawn, DrawnViews
  <2>. HIDE DEF v
  <2>3. Expanding(v, n) \in DrawnViews
    BY <2>1, <2>2, StepsDrawn
  <2>. QED BY <2>1, <2>3, ShowsView
<1>5. ASSUME NEW n \in Id, CollapseNode(n) \/ Toggle(n) PROVE ViewInv'
  <2>1. /\ n \in tree
        /\ Shows(Expanding(view, n)) \/ Shows(Collapsed(view, n))
    BY <1>5 DEF CollapseNode, Toggle
  <2>2. Expanding(view, n) \in DrawnViews /\ Collapsed(view, n) \in DrawnViews
    BY <1>2, <2>1, StepsDrawn
  <2>. QED BY <2>1, <2>2, ShowsView
<1>6. ASSUME NEW n \in Id, Reveal(n) PROVE ViewInv'
  <2>1. n \in tree /\ Shows(ExpandedIn(Path(parent, n)))
    BY <1>6, RevealedPath DEF Reveal
  <2>2. Path(parent, n) \in Seq(tree)
    BY <1>1, <2>1, PathFacts DEF LeadsDown
  <2>. QED BY <2>1, <2>2, LoopsView, ShowsView
<1>7. ASSUME NEW n \in Id, NEW d \in Id, MoveRefused(n, d) PROVE ViewInv'
  <2>. DEFINE N == {n, parent[n]} \ {None}
              v == Branches(children, view, N)
  <2>1. n \in tree /\ Shows(v)
    BY <1>7 DEF MoveRefused
  <2>2. N \in SUBSET tree
    BY <2>1 DEF ViewInv, RowsInv, ForestInv
  <2>. HIDE DEF N
  <2>3. Drawn(settings, tree, parent, v)
    BY <1>1, <1>2, <2>2, BranchesDrawn DEF Drawn
  <2>4. v \in DrawnViews
    BY <2>3 DEF Drawn, DrawnViews
  <2>. QED BY <2>1, <2>4, ShowsView
<1>. QED BY <1>3, <1>4, <1>5, <1>6, <1>7

LEMMA PruneView ==
  ASSUME ViewInv, RowsInv', NEW D \in SUBSET tree, NEW v \in Views(tree),
         v.ready = view.ready, v.indent = view.indent, v.expander = view.expander,
         \A y \in Id : parent[y] \in D => y \in D,
         tree' = tree \ D, parent' = [m \in Id |-> IF m \in D THEN None ELSE parent[m]],
         \A m \in tree \ D : IsBranchNode(Kids(parent'), m) => m \in v.branch,
         settings' = settings, view' = Forget(v, D)
  PROVE  ViewInv'
<1>1. /\ Ground(tree, parent) /\ Ground(tree', parent') /\ None \notin Id
      /\ parent \in ParentMap /\ parent' \in ParentMap /\ tree \subseteq Id
  <2>1. Ground(tree, parent) /\ Ground(tree', parent')
    BY RowsGround DEF ViewInv, RowsInv, ForestInv, Ground
  <2>. QED BY <2>1, GroundFacts
<1>2. view' \in Views(tree')
  BY <1>1 DEF Forget, Views
<1>3. /\ view'.ready = view.ready \ D /\ view'.branch = v.branch \ D
      /\ view'.expander = view.expander \ D
      /\ \A m \in tree \ D : view'.indent[m] = view.indent[m]
  BY <1>1 DEF Forget
<1>4. \A x \in Id \ D : parent'[x] = parent[x] /\ parent'[x] \notin D
  BY <1>1
<1>5. ASSUME NEW x \in tree \ D
      PROVE  /\ Level(parent', x) = Level(parent, x)
             /\ IsBranchNode(Kids(parent'), x) => IsBranchNode(Kids(parent), x)
  <2>1. Ancestors(parent', x) = Ancestors(parent, x)
    BY <1>1, <1>4, AncestorsSame
  <2>2. Kids(parent')[x] \subseteq Kids(parent)[x]
    BY <1>1, <1>4 DEF Kids
  <2>. QED BY <2>1, <2>2 DEF Level, IsBranchNode
<1>6. \A m \in view'.ready : DrawnNode(settings, parent', view', m)
  <2>1. \A m \in view.ready : m \in tree /\ DrawnNode(settings, parent, view, m)
    BY DEF ViewInv, Drawn, Views
  <2>. QED BY <1>3, <1>5, <2>1 DEF DrawnNode
<1>. QED BY <1>2, <1>3, <1>6 DEF ViewInv, Drawn

LEMMA RemoveView ==
  ASSUME ViewInv, NEW n \in Id, RemoveNode(n) \/ UnloadBranch(n) PROVE ViewInv'
<1>. DEFINE D == Descendants(children, n)
            none == [children EXCEPT ![n] = {}]
            u == Branches(none, view, {n})
<1>1. RowsInv' /\ RowsInv /\ Ground(tree, parent) /\ children = Kids(parent) /\ tree \subseteq Id
      /\ view \in Views(tree) /\ children' = Kids(parent')
      /\ \A m \in tree : IsBranchNode(Kids(parent), m) => m \in view.branch
  BY RemoveRows, RowsGround DEF ViewInv, RowsInv, ForestInv, Drawn
<1>2. n \in tree /\ None \notin Id
  BY <1>1, GroundFacts DEF RemoveNode, UnloadBranch
<1>3. /\ D \in SUBSET tree /\ {n} \cup D \in SUBSET tree
      /\ \A y \in Id : parent[y] \in D => y \in D
      /\ \A y \in Id : parent[y] \in {n} \cup D => y \in {n} \cup D
  <2>1. \A y \in Id : parent[y] \in D \cup {n} => y \in D
    BY <1>1, GroundFacts, DescendantsClosed
  <2>2. D \subseteq tree
    BY <1>1, GroundFacts
  <2>. QED BY <1>2, <2>1, <2>2
<1>4. \A E \in {D, {n} \cup D} :
        parent' = [m \in Id |-> IF m \in E THEN None ELSE parent[m]]
          => \A m \in tree \ E : /\ m \in Id
                                 /\ Kids(parent')[m] \subseteq Kids(parent)[m]
  BY <1>1, <1>2 DEF Kids
<1>5. CASE RemoveNode(n)
  <2>. DEFINE E == {n} \cup D
  <2>1. /\ tree' = tree \ E /\ settings' = settings /\ view' = Forget(view, E)
        /\ parent' = [m \in Id |-> IF m \in E THEN None ELSE parent[m]]
    BY <1>5, Zenon DEF RemoveNode, Prune
  <2>2. \A m \in tree \ E : IsBranchNode(Kids(parent'), m) => m \in view.branch
    <3>1. \A m \in tree \ E : Kids(parent')[m] \subseteq Kids(parent)[m]
      BY <1>4, <2>1
    <3>. QED BY <1>1, <3>1 DEF IsBranchNode
  <2>3. E \in SUBSET tree /\ \A y \in Id : parent[y] \in E => y \in E
    BY <1>3
  <2>. HIDE DEF E
  <2>. QED BY <1>1, <2>1, <2>2, <2>3, PruneView
<1>6. CASE UnloadBranch(n)
  <2>1. /\ tree' = tree \ D /\ settings' = settings /\ view' = Forget(u, D)
        /\ parent' = [m \in Id |-> IF m \in D THEN None ELSE parent[m]]
        /\ children' = [m \in Id |-> IF m \in D THEN {} ELSE none[m]]
    BY <1>6, Zenon DEF UnloadBranch, Prune
  <2>2. none[n] = {} /\ children'[n] = {}
    BY <1>1, <1>2, <2>1 DEF Kids
  <2>3. u = [view EXCEPT !.branch = (@ \ {n}) \cup {m \in {n} : IsBranchNode(none, m)}]
    BY DEF Branches
  <2>. HIDE DEF none, u, D
  <2>4. /\ u \in Views(tree) /\ u.ready = view.ready /\ u.indent = view.indent
        /\ u.expander = view.expander
        /\ \A m \in tree : m \in u.branch <=>
             IF m = n THEN IsBranchNode(none, n) ELSE m \in view.branch
    BY <1>1, <1>2, <2>3 DEF Views
  <2>5. \A m \in tree \ D : IsBranchNode(Kids(parent'), m) => m \in u.branch
    <3>1. \A m \in tree \ D : Kids(parent')[m] \subseteq Kids(parent)[m]
      BY <1>4, <2>1
    <3>2. IsBranchNode(Kids(parent'), n) => IsBranchNode(none, n)
      BY <1>1, <2>2 DEF IsBranchNode
    <3>. QED BY <1>1, <2>4, <3>1, <3>2 DEF IsBranchNode
  <2>. QED BY <1>1, <1>3, <2>1, <2>4, <2>5, PruneView
<1>. QED BY <1>5, <1>6

LEMMA SortView ==
  ASSUME ViewInv, NEW n \in Id, NEW key \in SortKeys, SortBranch(n, key) PROVE ViewInv'
<1>. DEFINE N == {n} \cup Descendants(children, n)
<1>1. /\ n \in tree /\ UNCHANGED <<tree, parent, settings>>
      /\ view' = Render(settings, parent, children, view, N)
  BY Zenon DEF SortBranch
<1>2. RowsInv' /\ Ground(tree, parent) /\ children = Kids(parent)
  BY SortRows, RowsGround DEF ViewInv
<1>3. N \in SUBSET tree
  BY <1>1, <1>2, GroundFacts
<1>. HIDE DEF N
<1>4. Drawn(settings, tree, parent, view')
  BY <1>1, <1>2, <1>3, RenderDrawn DEF ViewInv, Redrawn
<1>. QED BY <1>1, <1>2, <1>4 DEF ViewInv

\* A branch is drawn again where it was moved to; the other nodes are where they were.
LEMMA MoveView ==
  ASSUME ViewInv, NEW n \in Id, NEW d \in Id, Move(n, d) PROVE ViewInv'
<1>. DEFINE pa   == [parent EXCEPT ![n] = d]
            gone == IF parent[n] = None THEN {} ELSE Spliced(parent[n], n)
            ch == [p \in Id |-> (children[p] \ (IF p = parent[n] THEN gone ELSE {}))
                                 \cup (IF p = d THEN {n} ELSE {})]
            B  == {n} \cup Descendants(ch, n)
            redraw == B \cup (IF ch[d] = {n} THEN {d} ELSE {})
            N == {n, d, parent[n]} \ {None}
            u == Render(settings, pa, ch, view, redraw)
<1>1. /\ n \in tree /\ d \in tree /\ n # d /\ d # parent[n]
      /\ UNCHANGED <<tree, settings>> /\ parent' = pa /\ children' = ch
      /\ view' = Branches(ch, u, N)
  BY Zenon DEF Move, Moves
<1>2. RowsInv' /\ RowsInv
  BY MoveRows DEF ViewInv
<1>3. /\ Ground(tree, parent) /\ children = Kids(parent) /\ None \notin Id /\ tree \subseteq Id
      /\ Ground(tree, pa) /\ ch = Kids(pa) /\ parent \in ParentMap /\ pa \in ParentMap
  <2>1. Ground(tree, pa) /\ ch = Kids(pa)
    BY <1>1, <1>2 DEF RowsInv, ForestInv, Ground
  <2>. HIDE DEF pa, ch
  <2>. QED BY <1>2, <2>1, RowsGround, GroundFacts
<1>4. pa[n] = d /\ \A y \in Id \ {n} : pa[y] = parent[y]
  BY <1>3 DEF ParentMap
<1>. HIDE DEF pa, ch
<1>5. B \in SUBSET tree /\ n \in B /\ \A y \in Id : pa[y] \in B => y \in B
  <2>1. B = {n} \cup Descendants(Kids(pa), n)
    BY <1>3
  <2>2. Descendants(Kids(pa), n) \subseteq tree
    BY <1>3, GroundFacts
  <2>. QED BY <1>1, <1>3, <2>1, <2>2, DescendantsClosed
<1>. HIDE DEF B
<1>6. redraw \in SUBSET tree /\ N \in SUBSET tree
  <2>1. parent[n] \in tree \cup {None}
    BY <1>3 DEF Ground
  <2>. QED BY <1>1, <1>5, <2>1
<1>7. ASSUME NEW m \in tree \ redraw
      PROVE  /\ Level(pa, m) = Level(parent, m)
             /\ IsBranchNode(Kids(pa), m) => IsBranchNode(Kids(parent), m)
  <2>1. m \in Id \ B
    BY <1>3
  <2>2. \A y \in Id \ B : pa[y] = parent[y] /\ pa[y] \notin B
    BY <1>4, <1>5
  <2>3. Ancestors(pa, m) = Ancestors(parent, m)
    BY <1>3, <2>1, <2>2, AncestorsSame
  <2>4. CASE m # d
    <3>1. Kids(pa)[m] \subseteq Kids(parent)[m]
      BY <1>1, <1>3, <1>4, <2>4 DEF Kids
    <3>. QED BY <2>3, <3>1 DEF Level, IsBranchNode
  <2>5. CASE m = d
    <3>1. PICK k \in Kids(pa)[d] : k # n
      <4>1. n \in Kids(pa)[d] /\ Kids(pa)[d] # {n}
        BY <1>3, <1>4, <2>5 DEF Kids
      <4>. QED BY <4>1
    <3>2. k \in Kids(parent)[d]
      BY <1>4, <3>1 DEF Kids
    <3>. QED BY <2>3, <2>5, <3>2 DEF Level, IsBranchNode
  <2>. QED BY <2>4, <2>5
<1>8. RendersAs(tree, settings, pa, view, redraw) /\ view \in Views(tree) /\ ch = Kids(pa)
  BY <1>3, <1>6, RenderFacts DEF ViewInv, Drawn
<1>. HIDE DEF redraw
<1>9. \A m \in u.ready : DrawnNode(settings, pa, u, m)
  <2>1. \A m \in view.ready : m \in tree /\ m \in Id /\ DrawnNode(settings, parent, view, m)
    BY <1>3 DEF ViewInv, Drawn, Views
  <2>. QED BY <1>7, <1>8, <2>1 DEF RendersAs, DrawnNode
<1>10. \A m \in tree \ N : IsBranchNode(Kids(pa), m) => m \in u.branch
  <2>1. \A m \in tree \ N : Kids(pa)[m] \subseteq Kids(parent)[m]
    BY <1>1, <1>3, <1>4 DEF Kids
  <2>2. \A m \in tree : IsBranchNode(Kids(parent), m) => m \in view.branch
    BY DEF ViewInv, Drawn
  <2>. QED BY <1>8, <2>1, <2>2 DEF RendersAs, IsBranchNode
<1>11. u \in Views(tree)
  BY <1>8 DEF RendersAs
<1>. HIDE DEF u, N
<1>12. Drawn(settings, tree, pa, view')
  BY <1>1, <1>3, <1>6, <1>9, <1>10, <1>11, BranchesDrawn
<1>. QED BY <1>1, <1>2, <1>12 DEF ViewInv

\* The view after loadRows() showed the rows one after another.
LoadedView(s, pa, ch, rows, page) ==
  LET v[i \in 0..Len(rows)] ==
        IF i = 0 THEN page ELSE Show(s, pa, ch, v[i - 1], {rows[i].id})
  IN v[Len(rows)]

\* The views that it goes through, all of V.
KeepsViews(s, pa, ch, rows, V) ==
  \A v \in V, i \in 1..Len(rows) : Show(s, pa, ch, v, {rows[i].id}) \in V
LoadsThrough(s, pa, ch, rows, V, page) ==
  \E f \in [0..Len(rows) -> V] :
    /\ f[0] = page
    /\ \A i \in 1..Len(rows) : f[i] = Show(s, pa, ch, f[i - 1], {rows[i].id})
    /\ LoadedView(s, pa, ch, rows, page) = f[Len(rows)]

LEMMA LoadedRun ==
  ASSUME NEW s, NEW pa, NEW ch, NEW rows, Len(rows) \in Nat, NEW V, NEW page \in V,
         KeepsViews(s, pa, ch, rows, V)
  PROVE  LoadsThrough(s, pa, ch, rows, V, page)
<1>. DEFINE len == Len(rows)
            After(v, i) == Show(s, pa, ch, v, {rows[i].id})
            step == [p \in V \X (1..len) |-> After(p[1], p[2])]
            Eq(g) == g = [i \in 0..len |-> IF i = 0 THEN page ELSE After(g[i - 1], i)]
            run == CHOOSE g : Eq(g)
<1>1. len \in Nat
  OBVIOUS
<1>2. \A v \in V, i \in 1..len : After(v, i) \in V
  BY DEF KeepsViews
<1>3. LoadedView(s, pa, ch, rows, page) = run[len]
  BY Zenon DEF LoadedView
<1>4. \A v, i : After(v, i) = Show(s, pa, ch, v, {rows[i].id})
  OBVIOUS
<1>. HIDE DEF len, After
<1>5. step \in Bodies(len, V) /\ \A v \in V, i \in 1..len : step[<<v, i>>] = After(v, i)
  BY <1>2 DEF Bodies
<1>. HIDE DEF step
<1>6. \E g : Eq(g)
  <2>1. PICK f \in [0..len -> V] : IsRun(f, len, page, step)
    BY <1>1, <1>5, LoopRuns
  <2>2. \A i \in 1..len : f[i - 1] \in V
    BY <1>1
  <2>3. \A i \in 1..len : f[i] = After(f[i - 1], i)
    BY <1>5, <2>1, <2>2 DEF IsRun
  <2>4. \A i \in 0..len : i = 0 \/ i \in 1..len
    BY <1>1
  <2>5. \A i \in 0..len : f[i] = IF i = 0 THEN page ELSE After(f[i - 1], i)
    BY <2>1, <2>3, <2>4 DEF IsRun
  <2>. QED BY <2>5
<1>7. Eq(run)
  <2>. HIDE DEF Eq
  <2>. QED BY <1>6
<1>. HIDE DEF run
<1>8. DOMAIN run = 0..len /\ run[0] = page /\ \A i \in 1..len : run[i] = After(run[i - 1], i)
  BY <1>1, <1>7
<1>. DEFINE S == {i \in 0..len : run[i] \in V}
<1>9. 0 \in S /\ \A i \in 1..len : i - 1 \in S => i \in S
  BY <1>1, <1>2, <1>8
<1>. HIDE DEF S
<1>10. \A i \in 0..len : run[i] \in V
  <2>1. \A i \in 0..len : i \in S
    BY <1>1, <1>9, UpTo
  <2>. QED BY <2>1 DEF S
<1>11. run = [i \in 0..len |-> run[i]]
  BY <1>7
<1>12. run \in [0..len -> V]
  BY <1>10, <1>11
<1>13. \E f \in [0..Len(rows) -> V] :
         /\ f[0] = page
         /\ \A i \in 1..Len(rows) : f[i] = Show(s, pa, ch, f[i - 1], {rows[i].id})
         /\ LoadedView(s, pa, ch, rows, page) = f[Len(rows)]
  BY <1>3, <1>4, <1>8, <1>12 DEF len
<1>. QED BY <1>13, Zenon DEF LoadsThrough

\* Where rows are loaded: the parents, and the view that the loop starts with.
LoadedParents(n, rows) ==
  [m \in Id |-> IF m \notin Ids(rows) THEN parent[m]
                ELSE IF ParentId(rows, m) = None THEN n ELSE ParentId(rows, m)]
LoadedPage(n, rows) ==
  Branches(Kids(LoadedParents(n, rows)), [view EXCEPT !.shown = @ \cup Ids(rows)],
           tree \cup Ids(rows))

LoadsAs(n, rows) ==
  LET new    == Ids(rows)
      tr     == tree \cup new
      pa     == LoadedParents(n, rows)
      loaded == LoadedView(settings, pa, Kids(pa), rows, LoadedPage(n, rows))
  IN
  /\ n \in tree \cup {None} /\ new \cap tree = {}
  /\ tree' = tr /\ parent' = pa /\ settings' = settings
  /\ RowsInv' /\ Ground(tree, parent) /\ Ground(tr, pa) /\ None \notin Id
  /\ \A m \in Id \ new : pa[m] = parent[m]
  /\ \A m \in new : pa[m] = IF ParentId(rows, m) = None THEN n ELSE ParentId(rows, m)
  /\ Rows(rows) /\ Len(rows) \in Nat
  /\ \A i \in 1..Len(rows) : rows[i].id \in new
  /\ \A m \in new : \E i \in 1..Len(rows) : rows[i].id = m
  /\ BranchesAs(tr, pa, [view EXCEPT !.shown = @ \cup new], tr)
  /\ LoadedPage(n, rows) = Branches(Kids(pa), [view EXCEPT !.shown = @ \cup new], tr)
  /\ view' = IF n = None THEN loaded
             ELSE Expand(settings, pa, Kids(pa), Render(settings, pa, Kids(pa), loaded, {n}), n)

LEMMA LoadFacts ==
  ASSUME RowsInv, view \in Views(tree), NEW n \in Id \cup {None}, NEW rows \in Batches,
         LoadBranch(n, rows)
  PROVE  LoadsAs(n, rows)
<1>. DEFINE pa == LoadedParents(n, rows)
<1>0. pa = LoadedParents(n, rows)
  OBVIOUS
<1>. HIDE DEF pa
<1>. DEFINE new == Ids(rows)
            up == [m \in Id |-> IF m \notin new THEN parent[m]
                                ELSE IF ParentId(rows, m) = None THEN n ELSE ParentId(rows, m)]
            ch == [p \in Id |-> children[p]
                                  \cup NewChildren(up, tree, new, RowOrder(rows))[p]]
            shown == [view EXCEPT !.shown = @ \cup new]
            page == Branches(ch, shown, tree \cup new)
            loaded == LoadedView(settings, up, ch, rows, page)
<1>1. /\ n \in tree \cup {None} /\ new \cap tree = {}
      /\ tree' = tree \cup new /\ parent' = up /\ children' = ch /\ settings' = settings
      /\ view' = IF n = None THEN loaded
                 ELSE Expand(settings, up, ch, Render(settings, up, ch, loaded, {n}), n)
  BY Zenon DEF LoadBranch, LoadedView
<1>2. up = pa
  BY <1>0, Zenon DEF LoadedParents
<1>3. RowsInv' /\ Ground(tree, parent) /\ None \notin Id /\ tree \subseteq Id /\ Rows(rows)
  BY LoadRowsOrdered, RowsGround, ConfigAssumption
<1>4. new \subseteq Id /\ Len(rows) \in Nat /\ DOMAIN rows = 1..Len(rows)
  <2>1. new \subseteq Id
    BY <1>3, RowsParents
  <2>. QED BY <1>3, <2>1 DEF Rows
<1>5. /\ \A m \in Id \ new : up[m] = parent[m]
      /\ \A m \in new : up[m] = IF ParentId(rows, m) = None THEN n ELSE ParentId(rows, m)
      /\ \A i \in 1..Len(rows) : rows[i].id \in new
      /\ \A m \in new : \E i \in 1..Len(rows) : rows[i].id = m
  BY <1>4 DEF Ids
<1>. HIDE DEF up, ch, new
<1>6. Ground(tree \cup new, pa) /\ ch = Kids(pa)
  BY <1>1, <1>2, <1>3 DEF RowsInv, ForestInv, Ground
<1>7. shown \in Views(tree \cup new)
  BY DEF Views
<1>. HIDE DEF shown
<1>8. BranchesAs(tree \cup new, pa, shown, tree \cup new)
  BY <1>6, <1>7, BranchesFacts
<1>9. page = LoadedPage(n, rows)
  <2>1. LoadedPage(n, rows) = Branches(Kids(pa), shown, tree \cup new)
    BY <1>0 DEF LoadedPage, shown, new
  <2>. QED BY <1>6, <2>1
<1>10. LoadedPage(n, rows) = Branches(Kids(pa), shown, tree \cup new)
  BY <1>6, <1>9
<1>. HIDE DEF page
<1>11. loaded = LoadedView(settings, pa, Kids(pa), rows, LoadedPage(n, rows))
  BY <1>2, <1>6, <1>9
<1>. HIDE DEF loaded
<1>12. view' = IF n = None THEN loaded
               ELSE Expand(settings, pa, Kids(pa), Render(settings, pa, Kids(pa), loaded, {n}), n)
  BY <1>1, <1>2, <1>6
<1>13. /\ n \in tree \cup {None} /\ new \cap tree = {}
       /\ tree' = tree \cup new /\ parent' = pa /\ settings' = settings
       /\ RowsInv' /\ Ground(tree, parent) /\ Ground(tree \cup new, pa) /\ None \notin Id
       /\ \A m \in Id \ new : pa[m] = parent[m]
       /\ \A m \in new : pa[m] = IF ParentId(rows, m) = None THEN n ELSE ParentId(rows, m)
       /\ Rows(rows) /\ Len(rows) \in Nat
       /\ \A i \in 1..Len(rows) : rows[i].id \in new
       /\ \A m \in new : \E i \in 1..Len(rows) : rows[i].id = m
       /\ BranchesAs(tree \cup new, pa, shown, tree \cup new)
       /\ LoadedPage(n, rows) = Branches(Kids(pa), shown, tree \cup new)
  BY <1>1, <1>2, <1>3, <1>4, <1>5, <1>6, <1>8, <1>10
<1>. QED BY <1>0, <1>11, <1>12, <1>13, Zenon DEF LoadsAs, new, shown

LEMMA LoadView ==
  ASSUME ViewInv, NEW n \in Id \cup {None}, NEW rows \in Batches, LoadBranch(n, rows)
  PROVE  ViewInv'
<1>. DEFINE new == Ids(rows)
            pa == LoadedParents(n, rows)
            tr == tree \cup new
            first == [view EXCEPT !.shown = @ \cup new]
            page == LoadedPage(n, rows)
            Marks(v) == \A m \in tr : IsBranchNode(Kids(pa), m) => m \in v.branch
            V == {v \in Views(tr) : /\ Marks(v)
                                    /\ \A m \in v.ready : m = n \/ DrawnNode(settings, pa, v, m)}
            loaded == LoadedView(settings, pa, Kids(pa), rows, page)
<1>1. RowsInv /\ view \in Views(tree)
  BY DEF ViewInv, Drawn
<1>. HIDE DEF pa
<1>2. pa = LoadedParents(n, rows)
  BY DEF pa
<1>3. /\ n \in tree \cup {None} /\ new \cap tree = {}
      /\ tree' = tr /\ parent' = pa /\ settings' = settings
      /\ RowsInv' /\ Ground(tree, parent) /\ Ground(tr, pa) /\ None \notin Id
      /\ \A m \in Id \ new : pa[m] = parent[m]
      /\ \A m \in new : pa[m] = IF ParentId(rows, m) = None THEN n ELSE ParentId(rows, m)
      /\ Rows(rows) /\ Len(rows) \in Nat
      /\ \A i \in 1..Len(rows) : rows[i].id \in new
      /\ BranchesAs(tr, pa, first, tr)
      /\ page = Branches(Kids(pa), first, tr)
      /\ view' = IF n = None THEN loaded
                 ELSE Expand(settings, pa, Kids(pa), Render(settings, pa, Kids(pa), loaded, {n}), n)
  <2>1. LoadsAs(n, rows)
    BY <1>1, LoadFacts
  <2>. QED BY <1>2, <2>1, Zenon DEF LoadsAs
<1>4. /\ new \subseteq Id /\ tree \subseteq Id /\ parent \in ParentMap /\ pa \in ParentMap
      /\ \A m \in new : ParentId(rows, m) \in new \cup {None}
  BY <1>3, RowsParents, GroundFacts
<1>5. \A m \in tree : pa[m] = parent[m] /\ pa[m] \notin new
  BY <1>3, <1>4 DEF Ground
<1>. HIDE DEF page, loaded, new
<1>6. ASSUME NEW m \in tree, m # n
      PROVE  /\ Level(pa, m) = Level(parent, m)
             /\ IsBranchNode(Kids(pa), m) => IsBranchNode(Kids(parent), m)
  <2>1. Ancestors(pa, m) = Ancestors(parent, m)
    <3>1. \A x \in Id \ new : pa[x] = parent[x] /\ pa[x] \notin new
      BY <1>3, <1>4 DEF Ground
    <3>2. m \in Id \ new
      BY <1>3, <1>4, <1>6
    <3>. QED BY <1>4, <3>1, <3>2, AncestorsSame
  <2>2. Kids(pa)[m] \subseteq Kids(parent)[m]
    BY <1>3, <1>4, <1>6 DEF Kids
  <2>. QED BY <2>1, <2>2 DEF Level, IsBranchNode
<1>7. page \in V
  <2>1. first.ready = view.ready /\ first.indent = view.indent /\ first.expander = view.expander
    BY <1>1 DEF Views
  <2>2. \A m \in view.ready : m \in tree /\ DrawnNode(settings, parent, view, m)
    BY DEF ViewInv, Drawn, Views
  <2>. HIDE DEF first
  <2>3. /\ page \in Views(tr) /\ page.ready = view.ready /\ page.indent = view.indent
        /\ page.expander = view.expander
        /\ \A m \in tr : m \in page.branch <=> IsBranchNode(Kids(pa), m)
    BY <1>3, <2>1 DEF BranchesAs
  <2>4. \A m \in page.ready : m = n \/ DrawnNode(settings, pa, page, m)
    BY <1>6, <2>2, <2>3 DEF DrawnNode
  <2>. QED BY <2>3, <2>4
<1>8. ASSUME NEW v \in V, NEW N \in SUBSET tr PROVE Show(settings, pa, Kids(pa), v, N) \in V
  <2>1. ShowsAs(tr, settings, pa, v, N)
    BY <1>3, ShowFacts
  <2>2. v.ready \subseteq tr /\ tr \subseteq Id
    BY <1>4 DEF Views
  <2>3. v \in Views(tr) /\ Marks(v) /\ \A m \in v.ready : m = n \/ DrawnNode(settings, pa, v, m)
    OBVIOUS
  <2>. DEFINE w == Show(settings, pa, Kids(pa), v, N)
              S == Visited(settings, Kids(pa), v, N)
  <2>4. /\ S \subseteq tr /\ w \in Views(tr) /\ w.ready = v.ready \cup S /\ w.branch = v.branch
        /\ \A m \in Id : w.indent[m] = IF m \in S \ v.ready THEN Level(pa, m) ELSE v.indent[m]
        /\ w.expander = v.expander \cup {m \in S \ v.ready : settings.expandable
                                                             /\ IsBranchNode(Kids(pa), m)}
    BY <2>1 DEF ShowsAs
  <2>. HIDE DEF w, S, V
  <2>5. \A m \in w.ready : m = n \/ DrawnNode(settings, pa, w, m)
    BY <2>2, <2>3, <2>4 DEF DrawnNode
  <2>6. w \in V
    BY <2>3, <2>4, <2>5 DEF V
  <2>. QED BY <2>6 DEF w
<1>9. loaded \in V
  <2>1. KeepsViews(settings, pa, Kids(pa), rows, V)
    <3>. HIDE DEF V
    <3>. QED BY <1>3, <1>8 DEF KeepsViews
  <2>. HIDE DEF V
  <2>2. LoadsThrough(settings, pa, Kids(pa), rows, V, page)
    BY <1>3, <1>7, <2>1, LoadedRun
  <2>3. Len(rows) \in 0..Len(rows)
    BY <1>3
  <2>. QED BY <2>2, <2>3 DEF loaded, LoadsThrough
<1>10. CASE n = None
  <2>1. \A m \in loaded.ready : m # n
    BY <1>3, <1>4, <1>9, <1>10 DEF Views
  <2>2. Drawn(settings, tr, pa, loaded)
    BY <1>9, <2>1 DEF Drawn
  <2>. QED BY <1>3, <1>10, <2>2 DEF ViewInv
<1>11. CASE n # None
  <2>. DEFINE u == Render(settings, pa, Kids(pa), loaded, {n})
  <2>1. {n} \in SUBSET tr /\ n \in tr
    BY <1>3, <1>11
  <2>2. RendersAs(tr, settings, pa, loaded, {n})
    BY <1>3, <1>9, <2>1, RenderFacts
  <2>3. \A m \in loaded.ready : m \in Id
    BY <1>4, <1>9 DEF Views
  <2>4. Drawn(settings, tr, pa, u)
    BY <1>9, <2>1, <2>2, <2>3 DEF RendersAs, Drawn, DrawnNode
  <2>. HIDE DEF u
  <2>5. Redrawn(settings, tr, pa, u, Expand(settings, pa, Kids(pa), u, n))
    BY <1>3, <2>1, <2>4, ExpandDrawn
  <2>6. view' = Expand(settings, pa, Kids(pa), u, n)
    BY <1>3, <1>11 DEF u
  <2>. QED BY <1>3, <2>5, <2>6 DEF ViewInv, Redrawn
<1>. QED BY <1>10, <1>11

LEMMA NextView == ViewInv /\ [Next]_vars => ViewInv'
<1>. SUFFICES ASSUME ViewInv, [Next]_vars PROVE ViewInv'
  OBVIOUS
<1>0. RowsInv'
  BY NextRows DEF ViewInv
<1>1. ASSUME UNCHANGED <<tree, parent, view, settings>> PROVE ViewInv'
  BY <1>0, <1>1 DEF ViewInv
<1>2. CASE UNCHANGED vars \/ Destroy
  BY <1>1, <1>2 DEF vars, forest, Destroy
<1>3. CASE ExpandAll \/ CollapseAll
  BY <1>3, CallsView
<1>4. ASSUME NEW s \in Settings, Reinit(s) PROVE ViewInv'
  BY <1>4, ReinitView
<1>5. ASSUME NEW n \in Id, ExpandNode(n) \/ CollapseNode(n) \/ Toggle(n) \/ Reveal(n)
      PROVE  ViewInv'
  BY <1>5, CallsView
<1>6. ASSUME NEW n \in Id, RemoveNode(n) \/ UnloadBranch(n) PROVE ViewInv'
  BY <1>6, RemoveView
<1>7. ASSUME NEW n \in Id, NEW d \in Id, Move(n, d) \/ MoveRefused(n, d) PROVE ViewInv'
  BY <1>7, MoveView, CallsView
<1>8. ASSUME NEW n \in Id, NEW key \in SortKeys, SortBranch(n, key) PROVE ViewInv'
  BY <1>8, SortView
<1>9. ASSUME NEW n \in Id \cup {None}, NEW rows \in Batches, LoadBranch(n, rows)
      PROVE  ViewInv'
  BY <1>9, LoadView
<1>. QED BY <1>2, <1>3, <1>4, <1>5, <1>6, <1>7, <1>8, <1>9, Zenon DEF Next

LEMMA SpecView == Spec => []ViewInv
<1>. QED BY InitView, NextView, PTL DEF Spec

\* What earlier initializations left in the cells is a width.
WornInv == ViewInv /\ worn \in [Id -> Nat]

LEMMA NextWorn == WornInv /\ [Next]_vars => WornInv'
<1>. SUFFICES ASSUME WornInv, [Next]_vars PROVE worn' \in [Id -> Nat]
  BY NextView DEF WornInv
<1>1. CASE UNCHANGED worn
  BY <1>1 DEF WornInv
<1>2. ASSUME NEW s \in Settings, Reinit(s) PROVE worn' \in [Id -> Nat]
  <2>1. worn' = [n \in Id |-> worn[n] + view.indent[n]]
    BY <1>2 DEF Reinit, Indentation
  <2>2. \A n \in Id : worn[n] \in Nat /\ view.indent[n] \in Nat
    BY DEF WornInv, ViewInv, Drawn, Views
  <2>. QED BY <2>1, <2>2
<1>3. ASSUME NEW D, NEW pruned, NEW v, Prune(D, pruned, v) PROVE worn' \in [Id -> Nat]
  <2>1. worn' = [n \in Id |-> IF n \in D THEN 0 ELSE worn[n]]
    BY <1>3 DEF Prune
  <2>2. \A n \in Id : worn[n] \in Nat
    BY DEF WornInv
  <2>. QED BY <2>1, <2>2
<1>4. ASSUME NEW n \in Id, RemoveNode(n) \/ UnloadBranch(n) PROVE worn' \in [Id -> Nat]
  <2>1. \E D, pruned, v : Prune(D, pruned, v)
    BY <1>4 DEF RemoveNode, UnloadBranch
  <2>. QED BY <1>3, <2>1
<1>5. ASSUME NEW v, Shows(v) PROVE UNCHANGED worn
  BY <1>5 DEF Shows
<1>6. CASE Destroy \/ ExpandAll \/ CollapseAll \/ UNCHANGED vars
  BY <1>1, <1>5, <1>6 DEF Destroy, ExpandAll, CollapseAll, vars
<1>7. ASSUME NEW n \in Id, ExpandNode(n) \/ CollapseNode(n) \/ Toggle(n) \/ Reveal(n)
      PROVE  UNCHANGED worn
  BY <1>5, <1>7 DEF ExpandNode, CollapseNode, Toggle, Reveal
<1>8. ASSUME NEW n \in Id, NEW d \in Id, Move(n, d) \/ MoveRefused(n, d)
      PROVE  UNCHANGED worn
  BY <1>5, <1>8 DEF Move, MoveRefused
<1>9. ASSUME NEW n \in Id, NEW key \in SortKeys, SortBranch(n, key) PROVE UNCHANGED worn
  BY <1>9 DEF SortBranch
<1>10. ASSUME NEW n \in Id \cup {None}, NEW rows \in Batches, LoadBranch(n, rows)
       PROVE  UNCHANGED worn
  BY <1>10 DEF LoadBranch
<1>. QED BY <1>1, <1>2, <1>4, <1>6, <1>7, <1>8, <1>9, <1>10 DEF Next

LEMMA SpecWorn == Spec => []WornInv
<1>1. Init => WornInv
  <2>1. Init => worn = [n \in Id |-> 0]
    BY DEF Init
  <2>. QED BY <2>1, InitView DEF WornInv
<1>. QED BY <1>1, NextWorn, PTL DEF Spec

\* The nodes, the arrays of children, the rows and what is kept of each row always
\* speak of the nodes in Tree.tree, after any calls.
THEOREM TypeCorrect == Spec => []TypeOK
<1>1. WornInv => TypeOK
  <2>. SUFFICES ASSUME WornInv PROVE TypeOK
    OBVIOUS
  <2>1. /\ tree \subseteq Id /\ nodes \in Seq(tree) /\ ToSet(nodes) = tree
        /\ parent \in [Id -> tree \cup {None}] /\ above \subseteq tree \X tree
        /\ view \in View /\ children = Kids(parent) /\ None \notin Id
        /\ \A n \in Id \ tree : parent[n] = None
    BY ConfigAssumption DEF WornInv, ViewInv, RowsInv, ForestInv, Drawn, Views, View
  <2>2. children \in [Id -> SUBSET tree]
    BY <2>1 DEF Kids
  <2>3. order \subseteq tree \X tree
    <3>1. order \subseteq Id \X Id /\ \A p \in order : parent[p[1]] = parent[p[2]] /\ parent[p[1]] \in Id
      BY DEF WornInv, ViewInv, RowsInv, OrdersChildren
    <3>. QED BY <2>1, <3>1
  <2>. QED BY <2>1, <2>2, <2>3 DEF WornInv, TypeOK
<1>. QED BY <1>1, SpecWorn, PTL

\* A row that was once shown is indented by its depth, beside what the indenters of
\* earlier initializations add, and can be expanded if it has children, through all
\* moves, loads and removals: render() is called for every row whose depth changes and
\* for every node that gets its first child.
THEOREM RowsAreRendered == Spec => []Rendered
<1>1. ViewInv => Rendered
  <2>. SUFFICES ASSUME ViewInv, NEW n \in view.ready
                PROVE  /\ view.indent[n] = Level(parent, n)
                       /\ IsBranchNode(children, n) =>
                            /\ n \in view.branch
                            /\ settings.expandable => n \in view.expander
    BY DEF Rendered, Indentation
  <2>1. n \in tree /\ children = Kids(parent)
    BY RowsGround DEF ViewInv, Drawn, Views
  <2>. QED BY <2>1 DEF ViewInv, Drawn, DrawnNode
<1>. QED BY <1>1, SpecView, PTL

---------------------------------------------------------------------------
(* What is shown.                                                          *)
---------------------------------------------------------------------------
\* A row is shown if its parent is shown and expanded; and what is shown was
\* initialized.  In a forest this says that all ancestors are expanded.
Placed(pa, v, m) ==
  m \in v.shown <=> \/ pa[m] = None
                    \/ pa[m] \in v.shown /\ v.class[pa[m]] = "expanded"
Opened(tr, pa, v) ==
  v \in Views(tr) /\ v.shown \subseteq v.ready /\ \A m \in tr : Placed(pa, v, m)

LEMMA OpenedIff ==
  ASSUME NEW tr, NEW pa, Ground(tr, pa), NEW v, Opened(tr, pa, v), NEW m \in tr
  PROVE  m \in v.shown <=> \A a \in Ancestors(pa, m) : v.class[a] = "expanded"
<1>. DEFINE Open(x) == \A a \in Ancestors(pa, x) : v.class[a] = "expanded"
            T == {x \in tr : ~(x \in v.shown <=> Open(x))}
<1>1. None \notin Id /\ pa \in ParentMap /\ tr \subseteq Id /\ pa \in [Id -> tr \cup {None}]
  BY GroundFacts DEF Ground
<1>2. ASSUME NEW x \in T, pa[x] \notin T PROVE FALSE
  <2>1. x \in tr /\ Placed(pa, v, x)
    BY <1>2 DEF Opened
  <2>2. CASE pa[x] = None
    BY <1>1, <1>2, <2>1, <2>2, AncestorsOfRoot DEF Placed
  <2>3. CASE pa[x] # None
    <3>1. pa[x] \in tr
      BY <1>1, <2>1, <2>3
    <3>2. Ancestors(pa, x) = {pa[x]} \cup Ancestors(pa, pa[x])
      BY <1>1, <2>1, <3>1, LineUp DEF Line
    <3>3. Open(x) <=> v.class[pa[x]] = "expanded" /\ Open(pa[x])
      BY <3>2
    <3>. QED BY <1>2, <2>1, <2>3, <3>1, <3>3 DEF Placed
  <2>. QED BY <2>2, <2>3
<1>3. T = {}
  BY <1>2 DEF Ground, Forest
<1>. QED BY <1>3

\* show() goes below a node only if that is expanded, or is then.
LEMMA VisitedParent ==
  ASSUME NEW pa \in ParentMap, NEW s, NEW v, NEW N \in SUBSET Id,
         NEW y \in Visited(s, Kids(pa), v, N), y \notin N
  PROVE  pa[y] \in Visited(s, Kids(pa), v, N) /\ Opens(s, v, pa[y])
<1>. DEFINE V == Visited(s, Kids(pa), v, N)
            S == {x \in V : x \in N \/ (pa[x] \in V /\ Opens(s, v, pa[x]))}
<1>1. /\ N \subseteq V /\ V \subseteq Id
      /\ \A x \in V : Opens(s, v, x) => Kids(pa)[x] \subseteq V
  BY VisitedClosed
<1>. HIDE DEF V
<1>2. N \subseteq S
  BY <1>1
<1>3. ASSUME NEW x \in S \cap Id, Opens(s, v, x) PROVE Kids(pa)[x] \subseteq S
  BY <1>1, <1>3 DEF Kids
<1>. HIDE DEF S
<1>4. Visited(s, Kids(pa), v, N) \subseteq S
  BY <1>2, <1>3, VisitedMin
<1>. QED BY <1>4 DEF S, V

\* The branches of siblings N, and when show() of them leaves every row shown or
\* hidden as its parent says: rows in other branches already are, the parent of N
\* is open, and below a node that stays closed nothing is shown.
BranchOf(tr, pa, N) == {y \in tr : y \in N \/ \E x \in N : x \in Ancestors(pa, y)}
Showable(tr, s, pa, v, N) ==
  /\ v \in Views(tr) /\ N \in SUBSET tr
  /\ \A x \in N : /\ \/ pa[x] = None
                     \/ pa[x] \in v.shown /\ v.class[pa[x]] = "expanded"
                  /\ pa[x] \notin BranchOf(tr, pa, N)
  /\ \A y \in tr \ BranchOf(tr, pa, N) :
       Placed(pa, v, y) /\ (y \in v.shown => y \in v.ready)
  /\ \A x \in BranchOf(tr, pa, N), y \in tr :
       (/\ x \in Ancestors(pa, y)
        /\ ~Opens(s, v, x)
        /\ (x \in v.ready \/ v.class[x] = "collapsed"))
       => y \notin v.shown

LEMMA BranchOfFacts ==
  ASSUME NEW tr, NEW pa, Ground(tr, pa), NEW N \in SUBSET tr
  PROVE  /\ N \subseteq BranchOf(tr, pa, N)
         /\ \A y \in tr : \A x \in Ancestors(pa, y) :
              x \in BranchOf(tr, pa, N) => y \in BranchOf(tr, pa, N)
         /\ \A y \in BranchOf(tr, pa, N) \ N : pa[y] \in BranchOf(tr, pa, N)
         /\ \A y \in tr \ BranchOf(tr, pa, N) : pa[y] \notin BranchOf(tr, pa, N)
<1>. DEFINE B == BranchOf(tr, pa, N)
<1>1. None \notin Id /\ pa \in ParentMap /\ tr \subseteq Id /\ pa \in [Id -> tr \cup {None}]
  BY GroundFacts DEF Ground
<1>2. \A y \in tr : y \in B <=> y \in N \/ \E x \in N : x \in Ancestors(pa, y)
  BY DEF BranchOf
<1>. HIDE DEF B
<1>3. ASSUME NEW y \in tr, NEW x \in Ancestors(pa, y), x \in B PROVE y \in B
  <2>1. x \in tr /\ Ancestors(pa, x) \subseteq Ancestors(pa, y)
    BY <1>1, AncestorsTransitive, GroundFacts
  <2>. QED BY <1>2, <1>3, <2>1
<1>4. ASSUME NEW y \in tr, pa[y] # None
      PROVE  pa[y] \in tr /\ Ancestors(pa, y) = {pa[y]} \cup Ancestors(pa, pa[y])
  BY <1>1, <1>4, LineUp DEF Line
<1>5. ASSUME NEW y \in B, y \notin N PROVE pa[y] \in B
  <2>1. y \in tr
    BY DEF B, BranchOf
  <2>2. PICK x \in N : x \in Ancestors(pa, y)
    BY <1>2, <1>5, <2>1
  <2>3. pa[y] # None
    BY <1>1, <2>1, <2>2, AncestorsOfRoot
  <2>. QED BY <1>2, <1>4, <2>1, <2>2, <2>3
<1>6. ASSUME NEW y \in tr, y \notin B PROVE pa[y] \notin B
  <2>1. CASE pa[y] = None
    BY <1>1, <2>1 DEF B, BranchOf
  <2>2. CASE pa[y] # None
    BY <1>3, <1>4, <1>6, <2>2
  <2>. QED BY <2>1, <2>2
<1>. QED BY <1>2, <1>3, <1>5, <1>6 DEF B

\* Of the rows in these branches show() leaves those shown that it visits.
LEMMA ShowVisits ==
  ASSUME NEW tr, NEW pa, Ground(tr, pa), NEW s, NEW v, NEW N, Showable(tr, s, pa, v, N)
  PROVE  /\ Visited(s, Kids(pa), v, N) \subseteq BranchOf(tr, pa, N)
         /\ \A y \in BranchOf(tr, pa, N) :
              y \in Show(s, pa, Kids(pa), v, N).shown <=> y \in Visited(s, Kids(pa), v, N)
<1>. DEFINE B == BranchOf(tr, pa, N)
            V == Visited(s, Kids(pa), v, N)
            w == Show(s, pa, Kids(pa), v, N)
<1>1. /\ None \notin Id /\ pa \in ParentMap /\ tr \subseteq Id /\ pa \in [Id -> tr \cup {None}]
      /\ v \in Views(tr) /\ N \in SUBSET tr
  BY GroundFacts DEF Ground, Showable
<1>2. /\ N \subseteq B /\ B \subseteq tr
      /\ \A y \in tr : \A x \in Ancestors(pa, y) : x \in B => y \in B
      /\ \A y \in B \ N : pa[y] \in B
  BY <1>1, BranchOfFacts DEF BranchOf
<1>3. \A x \in B, y \in tr :
        (/\ x \in Ancestors(pa, y)
         /\ ~Opens(s, v, x)
         /\ (x \in v.ready \/ v.class[x] = "collapsed"))
        => y \notin v.shown
  BY DEF Showable
<1>4. /\ N \subseteq V /\ V \subseteq Id
      /\ \A x \in V : Opens(s, v, x) => Kids(pa)[x] \subseteq V
  BY <1>1, VisitedClosed
<1>5. \A x \in tr : x \in w.shown <=>
        \/ x \in V
        \/ /\ x \in v.shown
           /\ \A y \in V \ v.ready : Collapsing(s) /\ v.class[y] # "collapsed"
                => y \notin Ancestors(pa, x)
  <2>1. ShowsAs(tr, s, pa, v, N)
    BY <1>1, ShowFacts
  <2>. QED BY <2>1 DEF ShowsAs
<1>6. V \subseteq B
  <2>1. ASSUME NEW x \in B \cap Id, NEW k \in Kids(pa)[x] PROVE k \in B
    <3>1. k \in tr /\ pa[k] = x
      BY <1>1, GroundFacts
    <3>2. x \in Ancestors(pa, k)
      BY <1>1, <2>1, <3>1, AncestorsClosed
    <3>. QED BY <1>2, <3>1, <3>2
  <2>2. \A x \in B \cap Id : Opens(s, v, x) => Kids(pa)[x] \subseteq B
    BY <2>1
  <2>. HIDE DEF B
  <2>. QED BY <1>1, <1>2, <2>2, VisitedMin DEF V
<1>. HIDE DEF B, V, w
<1>7. ASSUME NEW y \in B, y \notin V, y \in w.shown PROVE FALSE
  <2>. DEFINE T == {z \in Line(pa, y) \cap tr : z \in B /\ z \notin V}
  <2>1. y \in tr /\ y \in Line(pa, y) /\ Ancestors(pa, y) \subseteq tr
    BY <1>1, <1>2, <1>7, GroundFacts DEF Line
  <2>2. PICK z \in T : pa[z] \notin T
    <3>1. T \in SUBSET tr /\ T # {}
      BY <1>7, <2>1
    <3>. QED BY <3>1 DEF Ground, Forest
  <2>3. z \in B /\ z \notin V /\ z \notin N /\ z \in tr /\ z \in Line(pa, y)
    BY <1>4, <2>2
  <2>4. pa[z] \in B /\ pa[z] \in tr /\ pa[z] # None
    BY <1>1, <1>2, <2>3
  <2>5. pa[z] \in Ancestors(pa, y)
    <3>1. pa[z] \in Ancestors(pa, z)
      BY <1>1, <2>3, <2>4, AncestorsClosed
    <3>2. z = y \/ Ancestors(pa, z) \subseteq Ancestors(pa, y)
      BY <1>1, <2>1, <2>3, AncestorsTransitive DEF Line
    <3>. QED BY <3>1, <3>2
  <2>6. pa[z] \in V
    BY <2>2, <2>4, <2>5 DEF Line
  <2>7. ~Opens(s, v, pa[z])
    BY <1>1, <1>4, <2>3, <2>4, <2>6 DEF Kids
  <2>8. CASE pa[z] \in v.ready \/ v.class[pa[z]] = "collapsed"
    BY <1>3, <1>5, <1>7, <2>1, <2>4, <2>5, <2>7, <2>8
  <2>9. CASE pa[z] \notin v.ready /\ v.class[pa[z]] # "collapsed"
    BY <1>5, <1>7, <2>1, <2>5, <2>6, <2>7, <2>9 DEF Opens
  <2>. QED BY <2>8, <2>9
<1>8. \A y \in B : y \in V => y \in w.shown
  BY <1>2, <1>5
<1>. QED BY <1>6, <1>7, <1>8 DEF B, V, w

LEMMA ShowOpened ==
  ASSUME NEW tr, NEW pa, Ground(tr, pa), NEW s, NEW v, NEW N, Showable(tr, s, pa, v, N)
  PROVE  Opened(tr, pa, Show(s, pa, Kids(pa), v, N))
<1>. DEFINE B == BranchOf(tr, pa, N)
            V == Visited(s, Kids(pa), v, N)
            w == Show(s, pa, Kids(pa), v, N)
<1>1. /\ None \notin Id /\ pa \in ParentMap /\ tr \subseteq Id /\ pa \in [Id -> tr \cup {None}]
      /\ v \in Views(tr) /\ N \in SUBSET tr
  BY GroundFacts DEF Ground, Showable
<1>2. /\ N \subseteq B /\ B \subseteq tr
      /\ \A y \in tr : \A x \in Ancestors(pa, y) : x \in B => y \in B
      /\ \A y \in B \ N : pa[y] \in B
      /\ \A y \in tr \ B : pa[y] \notin B
  BY <1>1, BranchOfFacts DEF BranchOf
<1>3. /\ \A x \in N : /\ \/ pa[x] = None
                         \/ pa[x] \in v.shown /\ v.class[pa[x]] = "expanded"
                      /\ pa[x] \notin B
      /\ \A y \in tr \ B : Placed(pa, v, y) /\ (y \in v.shown => y \in v.ready)
  BY DEF Showable
<1>4. /\ N \subseteq V /\ V \subseteq Id
      /\ \A x \in V : Opens(s, v, x) => Kids(pa)[x] \subseteq V
  BY <1>1, VisitedClosed
<1>5. /\ w \in Views(tr) /\ w.ready = v.ready \cup V
      /\ \A n \in Id : w.class[n] = IF n \notin V \ v.ready THEN v.class[n]
                                    ELSE IF Collapsing(s) THEN "collapsed" ELSE "expanded"
      /\ \A x \in tr : x \in w.shown <=>
           \/ x \in V
           \/ /\ x \in v.shown
              /\ \A y \in V \ v.ready : Collapsing(s) /\ v.class[y] # "collapsed"
                   => y \notin Ancestors(pa, x)
  <2>1. ShowsAs(tr, s, pa, v, N)
    BY <1>1, ShowFacts
  <2>. QED BY <2>1 DEF ShowsAs
<1>6. V \subseteq B /\ \A y \in B : y \in w.shown <=> y \in V
  BY ShowVisits
<1>7. \A y \in V \ N : pa[y] \in V /\ Opens(s, v, pa[y])
  BY <1>1, VisitedParent
<1>. HIDE DEF B, V, w
<1>8. \A x \in tr \ B : (x \in w.shown <=> x \in v.shown) /\ w.class[x] = v.class[x]
  BY <1>1, <1>2, <1>5, <1>6
<1>9. \A x \in V : w.class[x] = "expanded" <=> Opens(s, v, x)
  BY <1>4, <1>5 DEF Opens
<1>10. ASSUME NEW y \in tr PROVE Placed(pa, w, y)
  <2>1. pa[y] \in tr \/ pa[y] = None
    BY <1>1
  <2>2. CASE y \notin B
    BY <1>2, <1>3, <1>8, <2>1, <2>2 DEF Placed
  <2>3. CASE y \in N
    BY <1>2, <1>3, <1>4, <1>6, <1>8, <2>1, <2>3 DEF Placed
  <2>4. CASE y \in B \ N
    <3>1. pa[y] \in B /\ pa[y] \in tr /\ pa[y] # None
      BY <1>1, <1>2, <2>4
    <3>2. pa[y] \in V /\ Opens(s, v, pa[y]) => y \in V
      BY <1>1, <1>4 DEF Kids
    <3>. QED BY <1>6, <1>7, <1>9, <2>4, <3>1, <3>2 DEF Placed
  <2>. QED BY <2>2, <2>3, <2>4
<1>11. w.shown \subseteq w.ready
  <2>1. w.shown \subseteq tr
    BY <1>5 DEF Views
  <2>. QED BY <1>3, <1>5, <1>6, <1>8, <2>1
<1>12. Opened(tr, pa, w)
  BY <1>5, <1>10, <1>11 DEF Opened
<1>. QED BY <1>12 DEF w

\* The nodes of the branches below n.
LEMMA BelowOf ==
  ASSUME NEW tr, NEW pa, Ground(tr, pa), NEW n \in tr
  PROVE  /\ Kids(pa)[n] \in SUBSET tr
         /\ \A y \in tr : y \in BranchOf(tr, pa, Kids(pa)[n]) <=> n \in Ancestors(pa, y)
         /\ \A x \in Kids(pa)[n] : pa[x] = n
         /\ n \notin BranchOf(tr, pa, Kids(pa)[n])
<1>. DEFINE N == Kids(pa)[n]
<1>1. None \notin Id /\ Trees(pa) /\ pa \in ParentMap /\ tr \subseteq Id
  BY GroundFacts
<1>2. N = {m \in tr : pa[m] = n}
  BY <1>1, GroundFacts
<1>. HIDE DEF N
<1>3. \A y \in tr : y \in BranchOf(tr, pa, N) <=> y \in N \/ \E x \in N : x \in Ancestors(pa, y)
  BY DEF BranchOf
<1>4. \A x \in N : n \in Ancestors(pa, x)
  BY <1>1, <1>2, AncestorsClosed
<1>5. ASSUME NEW y \in tr, NEW x \in N, x \in Ancestors(pa, y) PROVE n \in Ancestors(pa, y)
  BY <1>1, <1>4, <1>5, AncestorsTransitive
<1>6. ASSUME NEW y \in tr, n \in Ancestors(pa, y) PROVE y \in N \/ \E x \in N : x \in Ancestors(pa, y)
  <2>1. PICK b \in Line(pa, y) : pa[b] = n
    BY <1>1, <1>6, ChildOnLine
  <2>2. b \in tr
    BY <1>1, <2>1, GroundFacts DEF Line
  <2>. QED BY <1>2, <2>1, <2>2 DEF Line
<1>7. n \notin Ancestors(pa, n)
  BY <1>1 DEF Trees
<1>. QED BY <1>2, <1>3, <1>4, <1>5, <1>6, <1>7 DEF N

LEMMA ExpandOpened ==
  ASSUME NEW tr, NEW pa, Ground(tr, pa), NEW s, NEW v, Opened(tr, pa, v), NEW n \in tr
  PROVE  Opened(tr, pa, Expand(s, pa, Kids(pa), v, n))
<1>. DEFINE w == Expand(s, pa, Kids(pa), v, n)
            N == Kids(pa)[n]
            B == BranchOf(tr, pa, N)
<1>1. /\ None \notin Id /\ pa \in ParentMap /\ tr \subseteq Id /\ pa \in [Id -> tr \cup {None}]
      /\ v \in Views(tr) /\ v.shown \subseteq v.ready /\ \A m \in tr : Placed(pa, v, m)
  BY GroundFacts DEF Ground, Opened
<1>2. PICK u \in Views(tr) :
        /\ u.shown = v.shown /\ u.ready = v.ready
        /\ \A m \in Id : u.class[m] = IF m = n THEN "expanded" ELSE v.class[m]
        /\ \/ w = u /\ (v.class[n] = "expanded" \/ n \notin v.shown)
           \/ /\ w = Show(s, pa, Kids(pa), u, N)
              /\ v.class[n] # "expanded" /\ n \in v.shown
  <2>1. ExpandsAs(tr, s, pa, v, n)
    BY <1>1, ExpandFacts
  <2>. QED BY <2>1 DEF ExpandsAs
<1>. HIDE DEF w
<1>3. \A m \in tr : pa[m] # n => Placed(pa, u, m)
  BY <1>1, <1>2 DEF Placed
<1>4. CASE v.class[n] = "expanded" \/ n \notin v.shown
  <2>1. w = u
    BY <1>2, <1>4
  <2>2. \A m \in tr : Placed(pa, u, m)
    BY <1>1, <1>2, <1>3, <1>4 DEF Placed
  <2>. QED BY <1>1, <1>2, <2>1, <2>2 DEF Opened, w
<1>5. CASE v.class[n] # "expanded" /\ n \in v.shown
  <2>1. w = Show(s, pa, Kids(pa), u, N)
    BY <1>2, <1>5
  <2>2. /\ N \in SUBSET tr /\ \A x \in N : pa[x] = n
        /\ \A y \in tr : y \in B <=> n \in Ancestors(pa, y)
        /\ n \notin B
    BY BelowOf
  <2>3. B \subseteq tr
    BY DEF BranchOf
  <2>. HIDE DEF N, B
  <2>4. \A y \in B : y \notin v.shown
    BY <1>5, <2>2, <2>3, OpenedIff
  <2>5. \A y \in tr \ B : Placed(pa, u, y) /\ (y \in u.shown => y \in u.ready)
    <3>1. \A y \in tr \ B : pa[y] # n
      BY <1>1, <2>2, AncestorsClosed
    <3>. QED BY <1>1, <1>2, <1>3, <3>1
  <2>6. \A x \in B, y \in tr : x \in Ancestors(pa, y) => y \notin u.shown
    <3>1. \A x \in B, y \in tr : x \in Ancestors(pa, y) => y \in B
      BY <1>1, <2>2, <2>3, AncestorsTransitive
    <3>. QED BY <1>2, <2>4, <3>1
  <2>7. \A x \in N : pa[x] \in u.shown /\ u.class[pa[x]] = "expanded" /\ pa[x] \notin B
    BY <1>1, <1>2, <1>5, <2>2
  <2>8. Showable(tr, s, pa, u, N)
    BY <1>2, <2>2, <2>5, <2>6, <2>7 DEF Showable, B
  <2>9. Opened(tr, pa, Show(s, pa, Kids(pa), u, N))
    BY <2>8, ShowOpened
  <2>. QED BY <2>1, <2>9 DEF w
<1>. QED BY <1>4, <1>5

LEMMA CollapseOpened ==
  ASSUME NEW tr, NEW pa, Ground(tr, pa), NEW v, Opened(tr, pa, v), NEW n \in tr
  PROVE  Opened(tr, pa, Collapse(Kids(pa), v, n))
<1>. DEFINE w == Collapse(Kids(pa), v, n)
<1>1. /\ None \notin Id /\ pa \in ParentMap /\ tr \subseteq Id /\ pa \in [Id -> tr \cup {None}]
      /\ v \in Views(tr) /\ v.shown \subseteq v.ready /\ \A m \in tr : Placed(pa, v, m)
  BY GroundFacts DEF Ground, Opened
<1>2. /\ w \in Views(tr) /\ w.ready = v.ready
      /\ \A m \in Id : w.class[m] = IF m = n THEN "collapsed" ELSE v.class[m]
      /\ \A x \in tr : x \in w.shown <=>
           x \in v.shown /\ (v.class[n] = "collapsed" \/ n \notin Ancestors(pa, x))
  <2>1. CollapsesAs(tr, pa, v, n)
    BY <1>1, CollapseFacts
  <2>. QED BY <2>1 DEF CollapsesAs
<1>. HIDE DEF w
<1>3. ASSUME NEW m \in tr PROVE Placed(pa, w, m)
  <2>1. CASE pa[m] = None
    BY <1>1, <1>2, <2>1, AncestorsOfRoot DEF Placed
  <2>2. CASE pa[m] # None
    <3>1. pa[m] \in tr
      BY <1>1, <2>2
    <3>2. Ancestors(pa, m) = {pa[m]} \cup Ancestors(pa, pa[m])
      BY <1>1, <3>1, LineUp DEF Line
    <3>. QED BY <1>1, <1>2, <2>2, <3>1, <3>2 DEF Placed
  <2>. QED BY <2>1, <2>2
<1>4. w.shown \subseteq w.ready
  BY <1>1, <1>2 DEF Views
<1>5. Opened(tr, pa, w)
  BY <1>2, <1>3, <1>4 DEF Opened
<1>. QED BY <1>5 DEF w

LEMMA InitializeOpened ==
  ASSUME NEW tr, NEW pa, Ground(tr, pa), NEW s, NEW v, Opened(tr, pa, v), NEW n \in tr
  PROVE  Opened(tr, pa, Initialize(s, pa, Kids(pa), v, n))
<1>. DEFINE w == Initialize(s, pa, Kids(pa), v, n)
            u == Render(s, pa, Kids(pa), v, {n})
            t == IF Collapsing(s) THEN Collapse(Kids(pa), u, n) ELSE Expand(s, pa, Kids(pa), u, n)
<1>1. v \in Views(tr) /\ {n} \in SUBSET tr
  BY DEF Opened
<1>2. /\ w \in Views(tr) /\ w.class = t.class /\ w.shown = t.shown /\ w.ready = t.ready \cup {n}
  <2>1. InitializesAs(tr, s, pa, v, n)
    BY <1>1, InitializeFacts
  <2>. QED BY <2>1 DEF InitializesAs
<1>3. Opened(tr, pa, u)
  <2>1. RendersAs(tr, s, pa, v, {n})
    BY <1>1, RenderFacts
  <2>. QED BY <2>1 DEF RendersAs, Opened, Placed
<1>. HIDE DEF u
<1>4. Opened(tr, pa, t)
  BY <1>3, CollapseOpened, ExpandOpened
<1>. HIDE DEF w, t
<1>5. Opened(tr, pa, w)
  BY <1>2, <1>4 DEF Opened, Placed
<1>. QED BY <1>5 DEF w

\* The first show(), of all roots.
LEMMA RootsOpened ==
  ASSUME NEW tr, NEW pa, Ground(tr, pa), NEW s, NEW v \in Views(tr), v.ready = {},
         \A x, y \in tr : x \in Ancestors(pa, y) /\ v.class[x] = "collapsed" => y \notin v.shown,
         NEW N, N = {m \in tr : pa[m] = None}
  PROVE  Opened(tr, pa, Show(s, pa, Kids(pa), v, N))
<1>1. /\ None \notin Id /\ pa \in ParentMap /\ tr \subseteq Id /\ pa \in [Id -> tr \cup {None}]
  BY GroundFacts DEF Ground
<1>. DEFINE B == BranchOf(tr, pa, N)
<1>2. /\ N \in SUBSET tr /\ B \subseteq tr /\ N \subseteq B
      /\ \A y \in tr : \A x \in Ancestors(pa, y) : x \in B => y \in B
  <2>1. N \in SUBSET tr /\ B \subseteq tr
    BY DEF BranchOf
  <2>. QED BY <2>1, BranchOfFacts
<1>. HIDE DEF B
<1>3. tr \ B = {}
  <2>1. ASSUME NEW y \in tr \ B, pa[y] \notin tr \ B PROVE FALSE
    <3>1. pa[y] # None
      BY <1>2, <2>1
    <3>2. pa[y] \in B /\ pa[y] \in tr
      BY <1>1, <2>1, <3>1
    <3>3. pa[y] \in Ancestors(pa, y)
      BY <1>1, <3>1, AncestorsClosed
    <3>. QED BY <1>2, <2>1, <3>2, <3>3
  <2>2. tr \ B \in SUBSET tr
    OBVIOUS
  <2>. QED BY <2>1, <2>2 DEF Ground, Forest
<1>4. None \notin B
  BY <1>1, <1>2
<1>5. Showable(tr, s, pa, v, N)
  BY <1>2, <1>3, <1>4 DEF Showable, B
<1>. QED BY <1>5, ShowOpened

OpenInv == ViewInv /\ (~strayed => Opened(tree, parent, view))

LEMMA InitOpened == Init => OpenInv
<1>. SUFFICES ASSUME Init PROVE OpenInv
  OBVIOUS
<1>. DEFINE page == [class |-> [n \in Id |-> "none"], indent |-> [n \in Id |-> 0],
                     shown |-> tree, ready |-> {}, expander |-> {}, branch |-> {}]
            roots == {n \in tree : parent[n] = None}
            start == Branches(children, page, tree)
<1>1. view = Show(settings, parent, children, start, roots)
  BY Zenon DEF Init
<1>2. RowsInv /\ Ground(tree, parent) /\ children = Kids(parent) /\ tree \subseteq Id
  BY InitRows, RowsGround
<1>3. page \in Views(tree) /\ page.ready = {} /\ page.class = [n \in Id |-> "none"]
  BY DEF Views
<1>. HIDE DEF page
<1>4. BranchesAs(tree, parent, page, tree)
  BY <1>2, <1>3, BranchesFacts
<1>5. start \in Views(tree) /\ start.ready = {} /\ \A x \in tree : start.class[x] # "collapsed"
  BY <1>2, <1>3, <1>4 DEF BranchesAs
<1>. HIDE DEF start
<1>6. Opened(tree, parent, view)
  BY <1>1, <1>2, <1>5, RootsOpened
<1>. QED BY <1>6, InitView DEF OpenInv

LEMMA ReinitOpened == ASSUME OpenInv, NEW s, Reinit(s) PROVE OpenInv'
<1>. DEFINE fresh == [view EXCEPT !.ready = {}, !.indent = [n \in Id |-> 0]]
            roots == tree \ UNION {children'[n] : n \in tree}
            start == Branches(children', fresh, tree)
<1>1. /\ UNCHANGED <<tree, parent, strayed>>
      /\ view' = Show(s, parent, children', start, roots)
  BY Zenon DEF Reinit, Load
<1>2. ViewInv' /\ Ground(tree, parent) /\ children' = Kids(parent)
  <2>1. ViewInv' /\ Ground(tree, parent)
    BY ReinitView, RowsGround DEF ViewInv, OpenInv
  <2>. QED BY <1>1, <2>1 DEF ViewInv, RowsInv, ForestInv
<1>3. roots = {m \in tree : parent[m] = None}
  <2>1. \A n \in tree : children'[n] = {m \in tree : parent[m] = n}
    BY <1>2, GroundFacts
  <2>2. \A m \in tree : parent[m] \in tree \/ parent[m] = None
    BY <1>2 DEF Ground
  <2>3. None \notin tree
    BY <1>2, GroundFacts
  <2>. HIDE DEF Ground
  <2>. QED BY <2>1, <2>2, <2>3
<1>4. /\ fresh \in Views(tree) /\ fresh.ready = {}
      /\ fresh.class = view.class /\ fresh.shown = view.shown
  BY DEF OpenInv, ViewInv, Drawn, Views
<1>. HIDE DEF fresh, roots
<1>5. BranchesAs(tree, parent, fresh, tree)
  BY <1>2, <1>4, BranchesFacts
<1>6. /\ start \in Views(tree) /\ start.ready = {}
      /\ start.class = view.class /\ start.shown = view.shown
  BY <1>2, <1>4, <1>5 DEF BranchesAs
<1>. HIDE DEF start
<1>7. ASSUME ~strayed PROVE Opened(tree, parent, view')
  <2>1. \A x, y \in tree :
          x \in Ancestors(parent, y) /\ start.class[x] = "collapsed" => y \notin start.shown
    <3>1. Opened(tree, parent, view)
      BY <1>7 DEF OpenInv
    <3>2. ASSUME NEW x \in tree, NEW y \in tree, x \in Ancestors(parent, y),
                 view.class[x] = "collapsed", y \in view.shown
          PROVE  FALSE
      BY <1>2, <3>1, <3>2, OpenedIff
    <3>. QED BY <1>6, <3>2
  <2>. QED BY <1>1, <1>2, <1>3, <1>6, <2>1, RootsOpened
<1>. QED BY <1>1, <1>2, <1>7 DEF OpenInv

\* The views that show each row as its parent says, which the loops stay in.
OpenedViews == {v \in Views(tree) : Opened(tree, parent, v)}

LEMMA StepsOpened ==
  ASSUME ViewInv, Opened(tree, parent, view)
  PROVE  /\ view \in OpenedViews
         /\ \A v \in OpenedViews, n \in tree :
              Expanding(v, n) \in OpenedViews /\ Collapsed(v, n) \in OpenedViews
<1>1. view \in OpenedViews
  BY DEF OpenedViews, Opened
<1>2. ASSUME NEW v \in OpenedViews, NEW n \in tree
      PROVE  Expanding(v, n) \in OpenedViews /\ Collapsed(v, n) \in OpenedViews
  <2>1. Opened(tree, parent, v) /\ Ground(tree, parent) /\ children = Kids(parent)
    BY RowsGround DEF ViewInv, OpenedViews
  <2>2. /\ Opened(tree, parent, Collapse(Kids(parent), v, n))
        /\ Opened(tree, parent, Expand(settings, parent, Kids(parent), v, n))
    BY <2>1, CollapseOpened, ExpandOpened
  <2>. QED BY <2>1, <2>2 DEF Opened, OpenedViews, Expanding, Collapsed
<1>. QED BY <1>1, <1>2

LEMMA ShowsOpened ==
  ASSUME OpenInv, ViewInv', NEW v, ~strayed => Opened(tree, parent, v), Shows(v)
  PROVE  OpenInv'
<1>1. UNCHANGED <<tree, parent, strayed>> /\ view' = v
  BY DEF Shows, forest
<1>. QED BY <1>1 DEF OpenInv

LEMMA LoopsOpened ==
  ASSUME ViewInv, Opened(tree, parent, view), NEW seq \in Seq(tree)
  PROVE  /\ Opened(tree, parent, ExpandedIn(seq))
         /\ Opened(tree, parent, CollapsedIn(seq))
<1>1. PICK f \in [0..Len(seq) -> OpenedViews] : ExpandedIn(seq) = f[Len(seq)]
  BY StepsOpened, ExpandedRun
<1>2. PICK g \in [0..Len(seq) -> OpenedViews] : CollapsedIn(seq) = g[Len(seq)]
  BY StepsOpened, CollapsedRun
<1>3. Len(seq) \in 0..Len(seq)
  OBVIOUS
<1>. QED BY <1>1, <1>2, <1>3 DEF OpenedViews

LEMMA CallsOpened ==
  ASSUME OpenInv, ExpandAll \/ CollapseAll \/ \E n \in Id : ExpandNode(n) \/ CollapseNode(n)
                    \/ Toggle(n) \/ Reveal(n) \/ \E d \in Id : MoveRefused(n, d)
  PROVE  OpenInv'
<1>1. /\ Ground(tree, parent) /\ children = Kids(parent) /\ nodes \in Seq(tree)
      /\ ViewInv /\ view \in Views(tree)
  BY RowsGround DEF OpenInv, ViewInv, RowsInv, Drawn
<1>2. ViewInv'
  BY CallsView DEF OpenInv
<1>3. ASSUME ~strayed PROVE view \in OpenedViews
  BY <1>1, <1>3 DEF OpenInv, OpenedViews
<1>4. ASSUME NEW v, ~strayed => v \in OpenedViews, Shows(v) PROVE OpenInv'
  BY <1>2, <1>4, ShowsOpened DEF OpenedViews
<1>5. ASSUME NEW v, ~strayed => v \in OpenedViews, NEW n \in tree
      PROVE  ~strayed => Expanding(v, n) \in OpenedViews /\ Collapsed(v, n) \in OpenedViews
  BY <1>1, <1>3, <1>5, StepsOpened DEF OpenedViews
<1>6. CASE ExpandAll \/ CollapseAll
  <2>1. ~strayed => Opened(tree, parent, ExpandedIn(nodes)) /\ Opened(tree, parent, CollapsedIn(nodes))
    BY <1>1, LoopsOpened DEF OpenInv
  <2>. QED BY <1>2, <1>6, <2>1, ShowsOpened DEF ExpandAll, CollapseAll, ExpandedAll
<1>7. ASSUME NEW n \in Id, ExpandNode(n) PROVE OpenInv'
  <2>. DEFINE v == IF n \in view.ready THEN view
                   ELSE Initialize(settings, parent, children, view, n)
  <2>1. n \in tree /\ Shows(Expanding(v, n))
    BY <1>7 DEF ExpandNode
  <2>2. ~strayed => v \in OpenedViews
    <3>1. ~strayed =>
            Opened(tree, parent, Initialize(settings, parent, Kids(parent), view, n))
      BY <1>1, <2>1, InitializeOpened DEF OpenInv
    <3>. QED BY <1>1, <1>3, <3>1 DEF Opened, OpenedViews
  <2>. HIDE DEF v
  <2>3. ~strayed => Expanding(v, n) \in OpenedViews
    BY <1>5, <2>1, <2>2
  <2>. QED BY <1>4, <2>1, <2>3
<1>8. ASSUME NEW n \in Id, CollapseNode(n) \/ Toggle(n) PROVE OpenInv'
  <2>1. /\ n \in tree
        /\ Shows(Expanding(view, n)) \/ Shows(Collapsed(view, n))
    BY <1>8 DEF CollapseNode, Toggle
  <2>2. ~strayed => Expanding(view, n) \in OpenedViews /\ Collapsed(view, n) \in OpenedViews
    BY <1>3, <1>5, <2>1
  <2>. QED BY <1>4, <2>1, <2>2
<1>9. ASSUME NEW n \in Id, Reveal(n) PROVE OpenInv'
  <2>1. n \in tree /\ Shows(ExpandedIn(Path(parent, n)))
    BY <1>9, RevealedPath DEF Reveal
  <2>2. Path(parent, n) \in Seq(tree)
    BY <1>1, <2>1, PathFacts DEF LeadsDown
  <2>3. ~strayed => Opened(tree, parent, ExpandedIn(Path(parent, n)))
    BY <1>1, <2>2, LoopsOpened DEF OpenInv
  <2>. QED BY <1>2, <2>1, <2>3, ShowsOpened
<1>10. ASSUME NEW n \in Id, NEW d \in Id, MoveRefused(n, d) PROVE OpenInv'
  <2>. DEFINE N == {n, parent[n]} \ {None}
              v == Branches(children, view, N)
  <2>1. n \in tree /\ Shows(v)
    BY <1>10 DEF MoveRefused
  <2>2. N \in SUBSET tree
    BY <1>1, <2>1 DEF Ground
  <2>. HIDE DEF N
  <2>3. BranchesAs(tree, parent, view, N)
    BY <1>1, <2>2, BranchesFacts
  <2>4. ~strayed => Opened(tree, parent, v)
    BY <1>1, <2>3 DEF BranchesAs, OpenInv, Opened, Placed
  <2>. QED BY <1>2, <2>1, <2>4, ShowsOpened
<1>. QED BY <1>6, <1>7, <1>8, <1>9, <1>10

\* Removing, sorting and moving change neither classes nor what is shown of the rows
\* that stay.
LEMMA RemoveOpened ==
  ASSUME OpenInv, NEW n \in Id, RemoveNode(n) \/ UnloadBranch(n) PROVE OpenInv'
<1>. DEFINE none == [children EXCEPT ![n] = {}]
<1>1. ViewInv' /\ Ground(tree, parent) /\ children = Kids(parent) /\ tree \subseteq Id
      /\ view \in Views(tree) /\ None \notin Id
  BY RemoveView, RowsGround, GroundFacts DEF OpenInv, ViewInv, Drawn
<1>2. n \in tree
  BY DEF RemoveNode, UnloadBranch
<1>3. PICK E \in SUBSET tree :
        /\ \A y \in Id : parent[y] \in E => y \in E
        /\ tree' = tree \ E /\ strayed' = strayed
        /\ parent' = [m \in Id |-> IF m \in E THEN None ELSE parent[m]]
        /\ \/ view' = Forget(view, E)
           \/ view' = Forget(Branches(none, view, {n}), E)
  <2>. DEFINE D == Descendants(children, n)
  <2>1. /\ D \in SUBSET tree /\ {n} \cup D \in SUBSET tree
        /\ \A y \in Id : parent[y] \in D => y \in D
        /\ \A y \in Id : parent[y] \in {n} \cup D => y \in {n} \cup D
    <3>1. \A y \in Id : parent[y] \in D \cup {n} => y \in D
      BY <1>1, GroundFacts, DescendantsClosed
    <3>2. D \subseteq tree
      BY <1>1, GroundFacts
    <3>. QED BY <1>2, <3>1, <3>2
  <2>2. CASE RemoveNode(n)
    <3>. DEFINE E == {n} \cup D
    <3>1. /\ tree' = tree \ E /\ strayed' = strayed /\ view' = Forget(view, E)
          /\ parent' = [m \in Id |-> IF m \in E THEN None ELSE parent[m]]
      BY <2>2, Zenon DEF RemoveNode, Prune
    <3>. HIDE DEF D
    <3>. QED BY <2>1, <3>1
  <2>3. CASE UnloadBranch(n)
    <3>1. /\ tree' = tree \ D /\ strayed' = strayed
          /\ view' = Forget(Branches(none, view, {n}), D)
          /\ parent' = [m \in Id |-> IF m \in D THEN None ELSE parent[m]]
      BY <2>3, Zenon DEF UnloadBranch, Prune
    <3>. HIDE DEF D, none
    <3>. QED BY <2>1, <3>1
  <2>. QED BY <2>2, <2>3
<1>4. \A m \in tree \ E : parent'[m] = parent[m] /\ parent'[m] \notin E
  BY <1>1, <1>3
<1>5. /\ view'.shown = view.shown \ E /\ view'.ready = view.ready \ E
      /\ \A m \in Id \ E : view'.class[m] = view.class[m]
  BY <1>1, <1>3 DEF Forget, Branches, Views
<1>6. view' \in Views(tree')
  BY <1>1 DEF ViewInv, Drawn
<1>7. ASSUME Opened(tree, parent, view) PROVE Opened(tree', parent', view')
  <2>1. /\ view.shown \subseteq view.ready
        /\ \A m \in tree : Placed(parent, view, m)
    BY <1>7 DEF Opened
  <2>2. \A m \in tree \ E : parent[m] \in Id \/ parent[m] = None
    BY <1>1 DEF Ground
  <2>3. ASSUME NEW m \in tree \ E PROVE Placed(parent', view', m)
    BY <1>1, <1>4, <1>5, <2>1, <2>2 DEF Placed
  <2>. QED BY <1>3, <1>5, <1>6, <2>1, <2>3 DEF Opened
<1>. QED BY <1>1, <1>3, <1>7 DEF OpenInv

LEMMA SortOpened ==
  ASSUME OpenInv, NEW n \in Id, NEW key \in SortKeys, SortBranch(n, key) PROVE OpenInv'
<1>. DEFINE N == {n} \cup Descendants(children, n)
<1>1. /\ n \in tree /\ UNCHANGED <<tree, parent, strayed>>
      /\ view' = Render(settings, parent, children, view, N)
  BY Zenon DEF SortBranch
<1>2. ViewInv' /\ Ground(tree, parent) /\ children = Kids(parent) /\ view \in Views(tree)
  BY SortView, RowsGround DEF OpenInv, ViewInv, Drawn
<1>3. N \in SUBSET tree
  BY <1>1, <1>2, GroundFacts
<1>. HIDE DEF N
<1>4. RendersAs(tree, settings, parent, view, N)
  BY <1>2, <1>3, RenderFacts
<1>5. /\ view' \in Views(tree) /\ view'.class = view.class
      /\ view'.shown = view.shown /\ view'.ready = view.ready
  BY <1>1, <1>2, <1>4 DEF RendersAs
<1>6. Opened(tree, parent, view) => Opened(tree, parent, view')
  BY <1>5 DEF Opened, Placed
<1>. QED BY <1>1, <1>2, <1>6 DEF OpenInv

\* A branch that was shown where it was and is to be shown where it goes, or neither.
LEMMA MoveOpened ==
  ASSUME OpenInv, NEW n \in Id, NEW d \in Id, Move(n, d) PROVE OpenInv'
<1>. DEFINE pa   == [parent EXCEPT ![n] = d]
            gone == IF parent[n] = None THEN {} ELSE Spliced(parent[n], n)
            ch == [p \in Id |-> (children[p] \ (IF p = parent[n] THEN gone ELSE {}))
                                 \cup (IF p = d THEN {n} ELSE {})]
            B  == {n} \cup Descendants(ch, n)
            redraw == B \cup (IF ch[d] = {n} THEN {d} ELSE {})
            N == {n, d, parent[n]} \ {None}
            u == Render(settings, pa, ch, view, redraw)
<1>1. /\ n \in tree /\ d \in tree /\ tree' = tree /\ parent' = pa
      /\ view' = Branches(ch, u, N)
      /\ strayed' = (strayed \/
           (n \in view.shown) # (d \in view.shown /\ view.class[d] = "expanded"))
  BY Zenon DEF Move
<1>2. ViewInv' /\ tree \subseteq Id /\ view \in Views(tree) /\ None \notin Id
      /\ parent \in [Id -> tree \cup {None}]
  BY MoveView, RowsGround, GroundFacts DEF OpenInv, ViewInv, Drawn, Ground
<1>3. /\ view'.class = view.class /\ view'.shown = view.shown /\ view'.ready = view.ready
  <2>1. u.class = view.class /\ u.shown = view.shown /\ u.ready = view.ready
    BY <1>2 DEF Render, Views
  <2>2. view' = [u EXCEPT !.branch = (@ \ N) \cup {x \in N : IsBranchNode(ch, x)}]
    BY <1>1 DEF Branches
  <2>3. u = [view EXCEPT
               !.expander = @ \cup {x \in redraw : settings.expandable /\ IsBranchNode(ch, x)},
               !.indent   = [x \in Id |-> IF x \in redraw THEN Level(pa, x) ELSE @[x]]]
    BY DEF Render
  <2>. HIDE DEF redraw, N, ch, pa
  <2>. QED BY <1>2, <2>1, <2>2, <2>3 DEF Views
<1>4. \A m \in tree : pa[m] = IF m = n THEN d ELSE parent[m]
  BY <1>2
<1>5. view' \in Views(tree)
  BY <1>1, <1>2 DEF ViewInv, Drawn
<1>. HIDE DEF pa
<1>6. ASSUME ~strayed' PROVE Opened(tree, pa, view')
  <2>1. /\ view.shown \subseteq view.ready
        /\ \A m \in tree : Placed(parent, view, m)
        /\ n \in view.shown <=> d \in view.shown /\ view.class[d] = "expanded"
    BY <1>1, <1>6 DEF OpenInv, Opened
  <2>2. ASSUME NEW m \in tree PROVE Placed(pa, view', m)
    BY <1>1, <1>2, <1>3, <1>4, <2>1 DEF Placed
  <2>. QED BY <1>3, <1>5, <2>1, <2>2 DEF Opened
<1>. QED BY <1>1, <1>2, <1>6 DEF OpenInv

\* Where loadBranch() does not stray: the rows come into an open place, and in a
\* collapsing table without rows below them.
LEMMA LoadStraight ==
  ASSUME NEW n \in Id \cup {None}, NEW rows \in Batches, LoadBranch(n, rows), ~strayed'
  PROVE  /\ ~strayed /\ (n # None => n \in view.shown)
         /\ Collapsing(settings) => \A m \in Ids(rows) : ParentId(rows, m) = None
<1>1. strayed' = (strayed \/ (n # None /\ n \notin view.shown)
                  \/ (Collapsing(settings) /\ \E i \in DOMAIN rows : rows[i].parent # None))
  BY Zenon DEF LoadBranch
<1>2. ASSUME Collapsing(settings), NEW m \in Ids(rows) PROVE ParentId(rows, m) = None
  <2>1. \E i \in DOMAIN rows : rows[i].id = m
    BY DEF Ids
  <2>2. (CHOOSE i \in DOMAIN rows : rows[i].id = m) \in DOMAIN rows
    BY <2>1
  <2>. QED BY <1>1, <1>2, <2>2 DEF ParentId
<1>. QED BY <1>1, <1>2

\* The views while the rows are shown one after another: all of them are shown, and
\* those that were initialized are expanded if the table does not collapse its nodes.
LoadingViews(rows) ==
  {v \in Views(tree \cup Ids(rows)) :
     /\ v.shown = view.shown \cup Ids(rows)
     /\ \A m \in tree : v.class[m] = view.class[m]
     /\ view.ready \subseteq v.ready /\ v.ready \subseteq view.ready \cup Ids(rows)
     /\ \A m \in v.ready \cap Ids(rows) :
          ~Collapsing(settings) => v.class[m] = "expanded"}

\* Nodes of the forest with the new rows.
LEMMA LoadedPlaces ==
  ASSUME RowsInv, view \in Views(tree), NEW n \in Id \cup {None}, NEW rows \in Batches,
         LoadBranch(n, rows), ~strayed', NEW pa, pa = LoadedParents(n, rows)
  PROVE  /\ Ids(rows) \subseteq Id /\ tree \subseteq Id /\ Ids(rows) \cap tree = {}
         /\ None \notin Id
         /\ \A m \in tree : pa[m] = parent[m] /\ pa[m] \notin Ids(rows)
         /\ \A m \in Ids(rows) : \/ pa[m] = n
                                 \/ pa[m] \in Ids(rows) /\ ~Collapsing(settings)
         /\ Collapsing(settings) =>
              \A x \in tree \cup Ids(rows) : Ancestors(pa, x) \cap Ids(rows) = {}
<1>. DEFINE new == Ids(rows)
            tr == tree \cup new
<1>1. /\ n \in tree \cup {None} /\ new \cap tree = {} /\ None \notin Id
      /\ Ground(tree, parent) /\ Ground(tr, pa)
      /\ \A m \in Id \ new : pa[m] = parent[m]
      /\ \A m \in new : pa[m] = IF ParentId(rows, m) = None THEN n ELSE ParentId(rows, m)
      /\ Rows(rows)
  <2>1. LoadsAs(n, rows)
    BY LoadFacts
  <2>. QED BY <2>1, Zenon DEF LoadsAs
<1>2. /\ new \subseteq Id /\ tree \subseteq Id /\ pa \in ParentMap
      /\ \A m \in new : ParentId(rows, m) \in new \cup {None}
  BY <1>1, RowsParents, GroundFacts
<1>. HIDE DEF new
<1>3. Collapsing(settings) => \A m \in new : ParentId(rows, m) = None
  BY LoadStraight DEF new
<1>4. \A m \in tree : pa[m] = parent[m] /\ pa[m] \notin new
  BY <1>1, <1>2 DEF Ground
<1>5. \A m \in new : pa[m] = n \/ (pa[m] \in new /\ ~Collapsing(settings))
  BY <1>1, <1>2, <1>3
<1>6. ASSUME Collapsing(settings), NEW x \in tr, NEW a \in new, a \in Ancestors(pa, x)
      PROVE  FALSE
  <2>1. PICK b \in Line(pa, x) : pa[b] = a
    BY <1>2, <1>6, ChildOnLine
  <2>2. b \in tr
    BY <1>1, <1>2, <2>1, GroundFacts DEF Line
  <2>. QED BY <1>1, <1>2, <1>4, <1>5, <1>6, <2>1, <2>2
<1>. QED BY <1>1, <1>2, <1>4, <1>5, <1>6 DEF new

LEMMA LoadingShow ==
  ASSUME RowsInv, view \in Views(tree), NEW n \in Id \cup {None}, NEW rows \in Batches,
         LoadBranch(n, rows), ~strayed', NEW pa, pa = LoadedParents(n, rows),
         NEW v \in LoadingViews(rows), NEW x \in Ids(rows)
  PROVE  /\ Show(settings, pa, Kids(pa), v, {x}) \in LoadingViews(rows)
         /\ v.ready \cup {x} \subseteq Show(settings, pa, Kids(pa), v, {x}).ready
<1>. DEFINE new == Ids(rows)
            tr == tree \cup new
            w == Show(settings, pa, Kids(pa), v, {x})
            S == Visited(settings, Kids(pa), v, {x})
<1>1. /\ new \subseteq Id /\ tree \subseteq Id /\ new \cap tree = {}
      /\ \A m \in tree : pa[m] \notin new
      /\ Collapsing(settings) => \A y \in tr : Ancestors(pa, y) \cap new = {}
  BY LoadedPlaces
<1>2. Ground(tr, pa) /\ pa \in ParentMap
  <2>1. LoadsAs(n, rows)
    BY LoadFacts
  <2>2. Ground(tr, pa)
    BY <2>1, Zenon DEF LoadsAs
  <2>. QED BY <2>2, GroundFacts
<1>3. /\ v \in Views(tr) /\ v.shown = view.shown \cup new
      /\ \A m \in tree : v.class[m] = view.class[m]
      /\ view.ready \subseteq v.ready /\ v.ready \subseteq view.ready \cup new
      /\ \A m \in v.ready \cap new : ~Collapsing(settings) => v.class[m] = "expanded"
  BY DEF LoadingViews
<1>4. /\ S \subseteq tr /\ w \in Views(tr) /\ w.ready = v.ready \cup S
      /\ \A m \in Id : w.class[m] = IF m \notin S \ v.ready THEN v.class[m]
                                    ELSE IF Collapsing(settings) THEN "collapsed" ELSE "expanded"
      /\ \A z \in tr : z \in w.shown <=>
           \/ z \in S
           \/ /\ z \in v.shown
              /\ \A y \in S \ v.ready : Collapsing(settings) /\ v.class[y] # "collapsed"
                   => y \notin Ancestors(pa, z)
  <2>1. {x} \in SUBSET tr
    OBVIOUS
  <2>2. ShowsAs(tr, settings, pa, v, {x})
    BY <1>2, <1>3, <2>1, ShowFacts
  <2>. QED BY <2>2 DEF ShowsAs
<1>5. x \in S /\ S \subseteq new
  <2>1. ASSUME NEW y \in new, NEW k \in Kids(pa)[y] PROVE k \in new
    <3>1. k \in tr /\ pa[k] = y
      BY <1>1, <1>2, <2>1, GroundFacts
    <3>. QED BY <1>1, <3>1
  <2>2. \A y \in new \cap Id : Opens(settings, v, y) => Kids(pa)[y] \subseteq new
    BY <2>1
  <2>3. {x} \in SUBSET Id /\ {x} \subseteq new
    BY <1>1
  <2>. HIDE DEF new
  <2>4. S \subseteq new
    BY <1>2, <2>2, <2>3, VisitedMin
  <2>5. {x} \subseteq S
    BY <1>2, <2>3, VisitedClosed
  <2>. QED BY <2>4, <2>5
<1>. HIDE DEF S, w, new
<1>6. w.shown = view.shown \cup new
  <2>1. \A z \in tr : z \in w.shown <=> z \in view.shown \cup new
    BY <1>1, <1>3, <1>4, <1>5
  <2>2. w.shown \subseteq tr /\ view.shown \subseteq tr
    BY <1>4 DEF Views
  <2>. QED BY <2>1, <2>2
<1>7. \A m \in tree : w.class[m] = view.class[m]
  BY <1>1, <1>3, <1>4, <1>5
<1>8. \A m \in w.ready \cap new : ~Collapsing(settings) => w.class[m] = "expanded"
  BY <1>1, <1>3, <1>4, <1>5
<1>9. w \in LoadingViews(rows)
  BY <1>3, <1>4, <1>5, <1>6, <1>7, <1>8 DEF LoadingViews, new
<1>. QED BY <1>4, <1>5, <1>9 DEF w, new

LEMMA LoadingLoop ==
  ASSUME RowsInv, view \in Views(tree), NEW n \in Id \cup {None}, NEW rows \in Batches,
         LoadBranch(n, rows), ~strayed', NEW pa, pa = LoadedParents(n, rows),
         NEW w, w = LoadedView(settings, pa, Kids(pa), rows, LoadedPage(n, rows))
  PROVE  w \in LoadingViews(rows) /\ Ids(rows) \subseteq w.ready
<1>. DEFINE new == Ids(rows)
            tr == tree \cup new
            V == LoadingViews(rows)
            first == [view EXCEPT !.shown = @ \cup new]
            page == LoadedPage(n, rows)
            len == Len(rows)
<1>1. /\ new \cap tree = {} /\ len \in Nat
      /\ \A i \in 1..len : rows[i].id \in new
      /\ \A m \in new : \E i \in 1..len : rows[i].id = m
      /\ BranchesAs(tr, pa, first, tr)
      /\ page = Branches(Kids(pa), first, tr)
  <2>1. LoadsAs(n, rows)
    BY LoadFacts
  <2>. QED BY <2>1, Zenon DEF LoadsAs
<1>2. page \in V
  <2>1. first.class = view.class /\ first.ready = view.ready /\ first.shown = view.shown \cup new
    BY DEF Views
  <2>2. view.ready \cap new = {}
    BY <1>1 DEF Views
  <2>. HIDE DEF first, page, new
  <2>3. /\ page \in Views(tr) /\ page.class = view.class /\ page.ready = view.ready
        /\ page.shown = view.shown \cup new
    BY <1>1, <2>1 DEF BranchesAs
  <2>. HIDE DEF tr
  <2>4. /\ \A m \in tree : page.class[m] = view.class[m]
        /\ view.ready \subseteq page.ready /\ page.ready \subseteq view.ready \cup new
        /\ \A m \in page.ready \cap new : ~Collapsing(settings) => page.class[m] = "expanded"
    BY <2>2, <2>3
  <2>. QED BY <2>3, <2>4 DEF LoadingViews, tr, new
<1>3. ASSUME NEW v \in V, NEW i \in 1..len
      PROVE  /\ Show(settings, pa, Kids(pa), v, {rows[i].id}) \in V
             /\ v.ready \cup {rows[i].id} \subseteq Show(settings, pa, Kids(pa), v, {rows[i].id}).ready
  BY <1>1, LoadingShow
<1>4. KeepsViews(settings, pa, Kids(pa), rows, V)
  <2>. HIDE DEF V
  <2>. QED BY <1>3 DEF KeepsViews
<1>. HIDE DEF V, page
<1>5. LoadsThrough(settings, pa, Kids(pa), rows, V, page)
  BY <1>1, <1>2, <1>4, LoadedRun
<1>6. PICK f \in [0..len -> V] :
        /\ f[0] = page
        /\ \A i \in 1..len : f[i] = Show(settings, pa, Kids(pa), f[i - 1], {rows[i].id})
        /\ LoadedView(settings, pa, Kids(pa), rows, page) = f[len]
  BY <1>5 DEF LoadsThrough
<1>7. w = f[len]
  BY <1>6 DEF page
<1>. DEFINE T == {i \in 0..len : \A j \in 1..i : rows[j].id \in f[i].ready}
<1>8. 0 \in T
  BY <1>1
<1>9. ASSUME NEW i \in 1..len, i - 1 \in T PROVE i \in T
  <2>1. i - 1 \in 0..len /\ f[i - 1] \in V /\ i \in 0..len
    BY <1>1
  <2>2. f[i - 1].ready \cup {rows[i].id} \subseteq f[i].ready
    BY <1>3, <1>6, <2>1
  <2>3. \A j \in 1..i : j = i \/ j \in 1..(i - 1)
    BY <1>1
  <2>4. \A j \in 1..i : rows[j].id \in f[i].ready
    BY <1>9, <2>1, <2>2, <2>3
  <2>. QED BY <2>1, <2>4
<1>. HIDE DEF T
<1>10. len \in T
  <2>1. \A i \in 0..len : i \in T
    BY <1>1, <1>8, <1>9, UpTo
  <2>. QED BY <1>1, <2>1
<1>11. \A j \in 1..len : rows[j].id \in w.ready
  BY <1>7, <1>10 DEF T
<1>12. w \in V
  BY <1>1, <1>6, <1>7
<1>. QED BY <1>1, <1>11, <1>12 DEF V

\* Below a node that is not open nothing is shown when its children are; and the
\* rows that were loaded are open themselves.
LEMMA LoadShowable ==
  ASSUME OpenInv, NEW n \in Id, NEW rows \in Batches,
         LoadBranch(n, rows), ~strayed', NEW pa, pa = LoadedParents(n, rows),
         view.class[n] # "expanded",
         NEW e \in Views(tree \cup Ids(rows)),
         e.shown = view.shown \cup Ids(rows), e.ready = view.ready \cup Ids(rows),
         \A m \in tree : e.class[m] = IF m = n THEN "expanded" ELSE view.class[m],
         \A m \in Ids(rows) : ~Collapsing(settings) => e.class[m] = "expanded"
  PROVE  Showable(tree \cup Ids(rows), settings, pa, e, Kids(pa)[n])
<1>. DEFINE new == Ids(rows)
            tr == tree \cup new
            N == Kids(pa)[n]
            B == BranchOf(tr, pa, N)
<1>1. RowsInv /\ view \in Views(tree) /\ ForestInv
  BY DEF OpenInv, ViewInv, Drawn, RowsInv
<1>2. /\ new \subseteq Id /\ tree \subseteq Id /\ new \cap tree = {} /\ None \notin Id
      /\ \A m \in tree : pa[m] = parent[m] /\ pa[m] \notin new
      /\ Collapsing(settings) => \A x \in tr : Ancestors(pa, x) \cap new = {}
  BY <1>1, LoadedPlaces
<1>3. /\ n \in tree /\ Ground(tr, pa) /\ Ground(tree, parent) /\ Rows(rows)
      /\ \A m \in Id \ new : pa[m] = parent[m]
      /\ \A m \in new : pa[m] = IF ParentId(rows, m) = None THEN n ELSE ParentId(rows, m)
  <2>1. LoadsAs(n, rows)
    BY <1>1, LoadFacts
  <2>. QED BY <1>2, <2>1, Zenon DEF LoadsAs
<1>4. pa \in ParentMap /\ parent \in ParentMap /\ Trees(parent)
  BY <1>3, GroundFacts
<1>5. /\ \A x \in tree : Ancestors(pa, x) = Ancestors(parent, x)
      /\ \A x \in new : /\ Ancestors(pa, x) \subseteq Line(parent, n) \cup new
                        /\ n \in Ancestors(pa, x)
  <2>1. /\ \A x \in Id \ new : Ancestors(pa, x) = Ancestors(parent, x)
        /\ \A x \in new : n # None => /\ Ancestors(pa, x) \subseteq Line(parent, n) \cup new
                                      /\ Line(parent, n) \subseteq Ancestors(pa, x)
    BY <1>1, <1>2, <1>3, <1>4, LoadedLines
  <2>. QED BY <1>2, <1>3, <2>1 DEF Line
<1>6. /\ ~strayed /\ n \in view.shown /\ Opened(tree, parent, view)
      /\ \A m \in tree : Placed(parent, view, m)
      /\ view.shown \subseteq view.ready
  BY <1>2, LoadStraight DEF OpenInv, Opened
<1>7. /\ N \in SUBSET tr /\ \A x \in N : pa[x] = n
      /\ \A y \in tr : y \in B <=> n \in Ancestors(pa, y)
      /\ n \notin B /\ B \subseteq tr
  BY <1>3, BelowOf DEF BranchOf
<1>. HIDE DEF N, B, new
<1>8. \A x \in N : pa[x] \in e.shown /\ e.class[pa[x]] = "expanded" /\ pa[x] \notin B
  BY <1>3, <1>6, <1>7 DEF new
<1>9. ASSUME NEW y \in tr \ B PROVE Placed(pa, e, y) /\ (y \in e.shown => y \in e.ready)
  <2>1. y \in tree
    BY <1>5, <1>7, <1>9
  <2>2. pa[y] # n
    BY <1>2, <1>3, <1>4, <1>7, <1>9, <2>1, AncestorsClosed
  <2>3. pa[y] = parent[y] /\ pa[y] \notin new /\ (parent[y] \in tree \/ parent[y] = None)
    BY <1>2, <1>3, <2>1 DEF Ground
  <2>4. y \in e.shown <=> y \in view.shown
    BY <1>2, <2>1 DEF new
  <2>5. pa[y] \in e.shown <=> pa[y] \in view.shown
    BY <2>3 DEF new
  <2>6. parent[y] \in tree => e.class[pa[y]] = view.class[pa[y]]
    BY <2>2, <2>3
  <2>7. Placed(parent, view, y)
    BY <1>6, <2>1
  <2>. QED BY <1>6, <2>3, <2>4, <2>5, <2>6, <2>7 DEF Placed, new
<1>10. ASSUME NEW x \in B, NEW y \in tr, x \in Ancestors(pa, y), ~Opens(settings, e, x),
              y \in e.shown
       PROVE  FALSE
  <2>1. n \in Ancestors(pa, x)
    BY <1>7
  <2>2. n \in Ancestors(pa, y)
    BY <1>2, <1>4, <1>10, <2>1, AncestorsTransitive
  <2>3. CASE x \in new
    BY <1>2, <1>10, <2>3 DEF Opens, new
  <2>4. CASE x \notin new /\ y \in new
    <3>1. x \in tree /\ x \in Line(parent, n) /\ n \in Ancestors(parent, x)
      BY <1>5, <1>7, <1>10, <2>1, <2>4
    <3>2. n \in Ancestors(parent, n)
      BY <1>2, <1>3, <1>4, <3>1, AncestorsTransitive DEF Line
    <3>. QED BY <1>2, <1>3, <1>4, <3>2 DEF Trees
  <2>5. CASE y \in tree
    <3>1. n \in Ancestors(parent, y) /\ y \in view.shown
      BY <1>2, <1>5, <2>2, <2>5, <1>10 DEF new
    <3>. QED BY <1>3, <1>6, <2>5, <3>1, OpenedIff
  <2>. QED BY <2>3, <2>4, <2>5
<1>11. Showable(tr, settings, pa, e, N)
  BY <1>7, <1>8, <1>9, <1>10 DEF Showable, B, new
<1>. QED BY <1>11 DEF N, new

LEMMA LoadOpened ==
  ASSUME OpenInv, NEW n \in Id \cup {None}, NEW rows \in Batches, LoadBranch(n, rows)
  PROVE  OpenInv'
<1>. SUFFICES ASSUME ~strayed' PROVE Opened(tree', parent', view')
  BY LoadView DEF OpenInv
<1>. DEFINE new == Ids(rows)
            tr == tree \cup new
            pa == LoadedParents(n, rows)
            w == LoadedView(settings, pa, Kids(pa), rows, LoadedPage(n, rows))
            u == Render(settings, pa, Kids(pa), w, {n})
<1>0. pa = LoadedParents(n, rows)
  OBVIOUS
<1>. HIDE DEF pa
<1>1. RowsInv /\ view \in Views(tree)
  BY DEF OpenInv, ViewInv, Drawn
<1>2. /\ new \subseteq Id /\ tree \subseteq Id /\ new \cap tree = {} /\ None \notin Id
      /\ \A m \in tree : pa[m] = parent[m] /\ pa[m] \notin new
      /\ \A m \in new : pa[m] = n \/ (pa[m] \in new /\ ~Collapsing(settings))
  BY <1>0, <1>1, LoadedPlaces
<1>3. /\ n \in tree \cup {None} /\ tree' = tr /\ parent' = pa
      /\ Ground(tr, pa) /\ Ground(tree, parent)
      /\ view' = IF n = None THEN w ELSE Expand(settings, pa, Kids(pa), u, n)
  <2>1. LoadsAs(n, rows)
    BY <1>1, LoadFacts
  <2>. QED BY <1>0, <2>1, Zenon DEF LoadsAs
<1>4. w \in LoadingViews(rows) /\ new \subseteq w.ready
  BY <1>0, <1>1, LoadingLoop
<1>. HIDE DEF w, new
<1>5. /\ w \in Views(tr) /\ w.shown = view.shown \cup new /\ w.ready = view.ready \cup new
      /\ \A m \in tree : w.class[m] = view.class[m]
      /\ \A m \in new : ~Collapsing(settings) => w.class[m] = "expanded"
  BY <1>4 DEF LoadingViews, new
<1>6. /\ n # None => n \in view.shown
      /\ Opened(tree, parent, view)
      /\ \A m \in tree : Placed(parent, view, m)
      /\ view.shown \subseteq view.ready
  BY LoadStraight DEF OpenInv, Opened
<1>7. ASSUME NEW v \in Views(tr), v.shown = w.shown, v.ready = w.ready,
             \A m \in Id : v.class[m] = w.class[m],
             n = None \/ view.class[n] = "expanded"
      PROVE  Opened(tr, pa, v)
  <2>1. ASSUME NEW m \in tree PROVE Placed(pa, v, m)
    <3>1. pa[m] = parent[m] /\ pa[m] \notin new /\ (parent[m] \in tree \/ parent[m] = None)
      BY <1>2, <1>3 DEF Ground
    <3>2. m \in v.shown <=> m \in view.shown
      BY <1>2, <1>5, <1>7
    <3>3. parent[m] \in tree => v.class[pa[m]] = view.class[pa[m]]
      BY <1>2, <1>5, <1>7, <3>1
    <3>4. Placed(parent, view, m)
      BY <1>6
    <3>. QED BY <1>5, <1>7, <3>1, <3>2, <3>3, <3>4 DEF Placed
  <2>2. ASSUME NEW m \in new PROVE Placed(pa, v, m)
    <3>1. m \in v.shown
      BY <1>5, <1>7
    <3>2. CASE pa[m] = n
      BY <1>2, <1>3, <1>5, <1>6, <1>7, <3>1, <3>2 DEF Placed
    <3>3. CASE pa[m] \in new /\ ~Collapsing(settings)
      BY <1>2, <1>5, <1>7, <3>1, <3>3 DEF Placed
    <3>. QED BY <1>2, <3>2, <3>3
  <2>3. v.shown \subseteq v.ready
    BY <1>5, <1>6, <1>7
  <2>. QED BY <2>1, <2>2, <2>3 DEF Opened
<1>8. CASE n = None
  BY <1>3, <1>5, <1>7, <1>8
<1>9. CASE n # None
  <2>1. n \in tree /\ n \in tr /\ {n} \in SUBSET tr /\ n \in Id
    BY <1>2, <1>3, <1>9
  <2>2. /\ u \in Views(tr) /\ u.class = w.class /\ u.shown = w.shown /\ u.ready = w.ready
    <3>1. RendersAs(tr, settings, pa, w, {n})
      BY <1>3, <1>5, <2>1, RenderFacts
    <3>. QED BY <3>1 DEF RendersAs
  <2>. HIDE DEF u
  <2>3. PICK e \in Views(tr) :
          /\ e.shown = u.shown /\ e.ready = u.ready
          /\ \A m \in Id : e.class[m] = IF m = n THEN "expanded" ELSE u.class[m]
          /\ \/ view' = e /\ (u.class[n] = "expanded" \/ n \notin u.shown)
             \/ /\ view' = Show(settings, pa, Kids(pa), e, Kids(pa)[n])
                /\ u.class[n] # "expanded" /\ n \in u.shown
    <3>1. ExpandsAs(tr, settings, pa, u, n)
      BY <1>3, <2>1, <2>2, ExpandFacts
    <3>2. view' = Expand(settings, pa, Kids(pa), u, n)
      BY <1>3, <1>9
    <3>. QED BY <3>1, <3>2 DEF ExpandsAs
  <2>4. u.class[n] = view.class[n] /\ n \in u.shown
    BY <1>5, <1>6, <1>9, <2>1, <2>2
  <2>5. CASE view.class[n] = "expanded"
    <3>1. view' = e /\ \A m \in Id : e.class[m] = w.class[m]
      BY <2>2, <2>3, <2>4, <2>5
    <3>. QED BY <1>3, <1>7, <2>2, <2>3, <2>5, <3>1
  <2>6. CASE view.class[n] # "expanded"
    <3>1. view' = Show(settings, pa, Kids(pa), e, Kids(pa)[n])
      BY <2>3, <2>4, <2>6
    <3>2. /\ e \in Views(tree \cup Ids(rows))
          /\ e.shown = view.shown \cup Ids(rows) /\ e.ready = view.ready \cup Ids(rows)
          /\ \A m \in tree : e.class[m] = IF m = n THEN "expanded" ELSE view.class[m]
          /\ \A m \in Ids(rows) : ~Collapsing(settings) => e.class[m] = "expanded"
      BY <1>2, <1>5, <2>2, <2>3 DEF new
    <3>3. Showable(tree \cup Ids(rows), settings, pa, e, Kids(pa)[n])
      BY <1>0, <2>1, <2>6, <3>2, LoadShowable
    <3>4. Opened(tr, pa, Show(settings, pa, Kids(pa), e, Kids(pa)[n]))
      BY <1>3, <3>3, ShowOpened DEF new
    <3>. QED BY <1>3, <3>1, <3>4
  <2>. QED BY <2>5, <2>6
<1>. QED BY <1>8, <1>9

LEMMA NextOpened == OpenInv /\ [Next]_vars => OpenInv'
<1>. SUFFICES ASSUME OpenInv, [Next]_vars PROVE OpenInv'
  OBVIOUS
<1>0. ViewInv'
  BY NextView DEF OpenInv
<1>1. ASSUME UNCHANGED <<tree, parent, view, strayed>> PROVE OpenInv'
  BY <1>0, <1>1 DEF OpenInv
<1>2. CASE UNCHANGED vars \/ Destroy
  BY <1>1, <1>2 DEF vars, forest, Destroy
<1>3. CASE ExpandAll \/ CollapseAll
  BY <1>3, CallsOpened
<1>4. ASSUME NEW s \in Settings, Reinit(s) PROVE OpenInv'
  BY <1>4, ReinitOpened
<1>5. ASSUME NEW n \in Id, ExpandNode(n) \/ CollapseNode(n) \/ Toggle(n) \/ Reveal(n)
      PROVE  OpenInv'
  BY <1>5, CallsOpened
<1>6. ASSUME NEW n \in Id, RemoveNode(n) \/ UnloadBranch(n) PROVE OpenInv'
  BY <1>6, RemoveOpened
<1>7. ASSUME NEW n \in Id, NEW d \in Id, Move(n, d) \/ MoveRefused(n, d) PROVE OpenInv'
  BY <1>7, MoveOpened, CallsOpened
<1>8. ASSUME NEW n \in Id, NEW key \in SortKeys, SortBranch(n, key) PROVE OpenInv'
  BY <1>8, SortOpened
<1>9. ASSUME NEW n \in Id \cup {None}, NEW rows \in Batches, LoadBranch(n, rows)
      PROVE  OpenInv'
  BY <1>9, LoadOpened
<1>. QED BY <1>2, <1>3, <1>4, <1>5, <1>6, <1>7, <1>8, <1>9, Zenon DEF Next

LEMMA SpecOpened == Spec => []OpenInv
<1>. QED BY InitOpened, NextOpened, PTL DEF Spec

\* Until a call puts a row where it is not shown or hidden as its new place requires,
\* exactly the rows whose ancestors are all expanded are shown: show() and hide() walk
\* over the branch of a node, and the first show() of a node leaves its children as
\* its class says.
THEOREM ShownAreOpen == Spec => []ShownIffOpen
<1>1. OpenInv => ShownIffOpen
  <2>. SUFFICES ASSUME OpenInv, ~strayed, NEW n \in tree
                PROVE  n \in view.shown <=>
                         \A a \in Ancestors(parent, n) : view.class[a] = "expanded"
    BY DEF ShownIffOpen
  <2>1. Ground(tree, parent) /\ Opened(tree, parent, view)
    BY RowsGround DEF OpenInv, ViewInv
  <2>. QED BY <2>1, OpenedIff
<1>. QED BY <1>1, SpecOpened, PTL

\* What expand() does to nodes that were initialized: they stay expanded, and n is.
KeepsExpanded(v, w, n) ==
  /\ v.ready \subseteq w.ready
  /\ \A x \in v.ready : x = n \/ v.class[x] = "expanded" => w.class[x] = "expanded"

LEMMA ExpandKeeps ==
  ASSUME NEW tr, NEW pa, Ground(tr, pa), NEW s, NEW v, Opened(tr, pa, v), NEW n \in tr
  PROVE  KeepsExpanded(v, Expand(s, pa, Kids(pa), v, n), n)
<1>. DEFINE w == Expand(s, pa, Kids(pa), v, n)
<1>. SUFFICES KeepsExpanded(v, w, n)
  OBVIOUS
<1>1. v \in Views(tr) /\ tr \subseteq Id /\ v.ready \subseteq Id
  BY GroundFacts DEF Opened, Views
<1>2. PICK u \in Views(tr) :
        /\ u.ready = v.ready
        /\ \A m \in Id : u.class[m] = IF m = n THEN "expanded" ELSE v.class[m]
        /\ w = u \/ w = Show(s, pa, Kids(pa), u, Kids(pa)[n])
  <2>1. ExpandsAs(tr, s, pa, v, n)
    BY <1>1, ExpandFacts
  <2>. QED BY <2>1 DEF ExpandsAs
<1>. HIDE DEF w
<1>3. CASE w = u
  BY <1>1, <1>2, <1>3 DEF KeepsExpanded
<1>4. CASE w = Show(s, pa, Kids(pa), u, Kids(pa)[n])
  <2>1. Kids(pa)[n] \in SUBSET tr
    BY BelowOf
  <2>2. ShowsAs(tr, s, pa, u, Kids(pa)[n])
    BY <1>2, <2>1, ShowFacts
  <2>3. /\ u.ready \subseteq w.ready
        /\ \A x \in Id : x \in u.ready => w.class[x] = u.class[x]
    BY <1>4, <2>2 DEF ShowsAs
  <2>. QED BY <1>1, <1>2, <2>3 DEF KeepsExpanded
<1>. QED BY <1>2, <1>3, <1>4

\* Nodes that are expanded one after another, each one initialized or below nodes that
\* were expanded before it, are all expanded in the end.
LEMMA ExpandedStay ==
  ASSUME ViewInv, Opened(tree, parent, view), NEW seq \in Seq(tree),
         \A i \in 1..Len(seq) :
           seq[i] \notin view.ready =>
             \A a \in Ancestors(parent, seq[i]) : \E j \in 1..(i - 1) : seq[j] = a
  PROVE  /\ Opened(tree, parent, ExpandedIn(seq))
         /\ \A i \in 1..Len(seq) : ExpandedIn(seq).class[seq[i]] = "expanded"
<1>. DEFINE len == Len(seq)
<1>1. /\ Ground(tree, parent) /\ children = Kids(parent)
      /\ len \in Nat /\ \A i \in 1..len : seq[i] \in tree
  BY RowsGround DEF ViewInv
<1>2. PICK f \in [0..len -> OpenedViews] :
        /\ f[0] = view
        /\ \A i \in 1..len : f[i] = Expanding(f[i - 1], seq[i])
        /\ ExpandedIn(seq) = f[len]
  BY StepsOpened, ExpandedRun
<1>3. \A i \in 0..len : Opened(tree, parent, f[i])
  BY <1>2 DEF OpenedViews
<1>. DEFINE Held(i) == /\ view.ready \subseteq f[i].ready
                       /\ \A j \in 1..i : seq[j] \in f[i].ready
                                          /\ f[i].class[seq[j]] = "expanded"
            T == {i \in 0..len : Held(i)}
<1>4. 0 \in T
  BY <1>1, <1>2
<1>5. ASSUME NEW i \in 1..len, i - 1 \in T PROVE i \in T
  <2>1. i - 1 \in 0..len /\ i \in 0..len /\ Held(i - 1) /\ seq[i] \in tree
    BY <1>1, <1>5
  <2>2. f[i] = Expand(settings, parent, Kids(parent), f[i - 1], seq[i])
    BY <1>1, <1>2 DEF Expanding
  <2>3. seq[i] \in f[i - 1].ready
    <3>1. CASE seq[i] \in view.ready
      BY <2>1, <3>1
    <3>2. CASE seq[i] \notin view.ready
      <4>1. \A a \in Ancestors(parent, seq[i]) : f[i - 1].class[a] = "expanded"
        <5>. SUFFICES ASSUME NEW a \in Ancestors(parent, seq[i])
                      PROVE  f[i - 1].class[a] = "expanded"
          OBVIOUS
        <5>1. PICK j \in 1..(i - 1) : seq[j] = a
          BY <3>2
        <5>. QED BY <2>1, <5>1
      <4>2. seq[i] \in f[i - 1].shown
        BY <1>1, <1>3, <2>1, <4>1, OpenedIff
      <4>. QED BY <1>3, <2>1, <4>2 DEF Opened
    <3>. QED BY <3>1, <3>2
  <2>4. /\ f[i - 1].ready \subseteq f[i].ready
        /\ \A x \in f[i - 1].ready :
             x = seq[i] \/ f[i - 1].class[x] = "expanded" => f[i].class[x] = "expanded"
    <3>1. Ground(tree, parent) /\ Opened(tree, parent, f[i - 1]) /\ seq[i] \in tree
      BY <1>1, <1>3, <2>1
    <3>2. KeepsExpanded(f[i - 1], Expand(settings, parent, Kids(parent), f[i - 1], seq[i]),
                        seq[i])
      BY <3>1, ExpandKeeps
    <3>3. KeepsExpanded(f[i - 1], f[i], seq[i])
      BY <2>2, <3>2, Zenon
    <3>. QED BY <3>3 DEF KeepsExpanded
  <2>5. \A j \in 1..i : j = i \/ j \in 1..(i - 1)
    BY <1>1
  <2>6. Held(i)
    BY <2>1, <2>3, <2>4, <2>5
  <2>. QED BY <2>1, <2>6
<1>6. len \in T
  <2>. HIDE DEF T
  <2>1. \A i \in 0..len : i \in T
    BY <1>1, <1>4, <1>5, UpTo
  <2>. QED BY <1>1, <2>1
<1>. QED BY <1>1, <1>2, <1>3, <1>6

\* reveal() shows its node and expands it, whatever was initialized before: the path
\* begins at a root, and every node on it is shown by the time it is expanded.
THEOREM RevealedIsShown == Spec => []RevealShows
<1>1. OpenInv => RevealShows
  <2>. SUFFICES ASSUME OpenInv, ~strayed, NEW n \in tree
                PROVE  n \in Revealed(n).shown /\ Revealed(n).class[n] = "expanded"
    BY Zenon DEF RevealShows
  <2>. DEFINE path == Path(parent, n)
              w == ExpandedIn(path)
  <2>1. ViewInv /\ Ground(tree, parent) /\ Opened(tree, parent, view)
    BY RowsGround DEF OpenInv, ViewInv
  <2>2. /\ path \in Seq(tree)
        /\ \E i \in 1..Len(path) : path[i] = n
        /\ \A i \in 1..Len(path) : \A a \in Ancestors(parent, path[i]) :
             \E j \in 1..(i - 1) : path[j] = a
    <3>1. LeadsDown(tree, parent, n, path)
      BY <2>1, PathFacts
    <3>. QED BY <3>1 DEF LeadsDown
  <2>. HIDE DEF path
  <2>3. /\ Opened(tree, parent, w)
        /\ \A i \in 1..Len(path) : w.class[path[i]] = "expanded"
    BY <2>1, <2>2, ExpandedStay
  <2>4. \A a \in Ancestors(parent, n) : w.class[a] = "expanded"
    <3>1. PICK i \in 1..Len(path) : path[i] = n
      BY <2>2
    <3>2. ASSUME NEW a \in Ancestors(parent, n) PROVE \E j \in 1..Len(path) : path[j] = a
      <4>1. PICK j \in 1..(i - 1) : path[j] = a
        BY <2>2, <3>1
      <4>. QED BY <2>2, <4>1
    <3>. QED BY <2>3, <3>2
  <2>5. n \in w.shown /\ w.class[n] = "expanded"
    BY <2>1, <2>2, <2>3, <2>4, OpenedIff
  <2>. QED BY <2>5, RevealedPath DEF path
<1>. QED BY <1>1, SpecOpened, PTL

\* expandAll() shows every row if the nodes that were never shown were loaded after
\* their ancestors.
THEOREM AllExpandedAreShown == Spec => []ExpandAllShowsAll
<1>1. OpenInv => ExpandAllShowsAll
  <2>. SUFFICES ASSUME OpenInv, ~strayed, LoadedInOrder PROVE ExpandedIn(nodes).shown = tree
    BY DEF ExpandAllShowsAll, ExpandedAll
  <2>. DEFINE w == ExpandedIn(nodes)
  <2>1. /\ ViewInv /\ Ground(tree, parent) /\ Opened(tree, parent, view)
        /\ nodes \in Seq(tree) /\ ToSet(nodes) = tree
    BY RowsGround DEF OpenInv, ViewInv, RowsInv
  <2>2. \A m \in tree : \E i \in 1..Len(nodes) : nodes[i] = m
    BY <2>1 DEF ToSet
  <2>3. \A i \in 1..Len(nodes) : nodes[i] \notin view.ready =>
          \A a \in Ancestors(parent, nodes[i]) : \E j \in 1..(i - 1) : nodes[j] = a
    BY <2>1 DEF LoadedInOrder
  <2>4. /\ Opened(tree, parent, w)
        /\ \A i \in 1..Len(nodes) : w.class[nodes[i]] = "expanded"
    BY <2>1, <2>3, ExpandedStay
  <2>5. \A m \in tree : w.class[m] = "expanded"
    BY <2>2, <2>4
  <2>. HIDE DEF w
  <2>6. \A m \in tree : m \in w.shown
    BY <2>1, <2>4, <2>5, GroundFacts, OpenedIff
  <2>7. w.shown \subseteq tree
    BY <2>4 DEF Opened, Views
  <2>. QED BY <2>6, <2>7 DEF w
<1>. QED BY <1>1, SpecOpened, PTL
===========================================================================
