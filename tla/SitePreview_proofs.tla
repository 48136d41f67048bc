------------------------- MODULE SitePreview_proofs -------------------------
(* Proofs about SitePreview: its types, and that the window ends at the last   *)
(* route.  That it stops loading pages is liveness, which only TLC checks.     *)
EXTENDS SitePreview, SequenceTheorems, TLAPS

\* Every step keeps the types.
LEMMA TypeStep == TypeOK /\ [Next]_vars => TypeOK'
<1> SUFFICES ASSUME TypeOK, [Next]_vars PROVE TypeOK'
  OBVIOUS
<1> USE ConfigAssumption DEF TypeOK
<1>1. CASE Attach
  BY <1>1 DEF Attach
<1>2. CASE Receive
  <2>1. /\ Head(messages) \in Path \cup {Other}
        /\ Tail(messages) \in Seq(Path \cup {Other})
    BY <1>2, HeadTailProperties DEF Receive
  <2> QED BY <1>2, <2>1 DEF Receive, Follows
<1>3. CASE PostOther
  <2>1. Append(messages, Other) \in Seq(Path \cup {Other})
    BY AppendProperties
  <2> QED BY <1>3, <2>1 DEF PostOther
<1>4. ASSUME NEW p \in Path, Browse(p) PROVE TypeOK'
  <2>1. Append(messages, p) \in Seq(Path \cup {Other})
    BY AppendProperties
  <2>2. last' \in Path /\ hasty' \in BOOLEAN
    BY <1>4 DEF Browse
  <2> QED BY <1>4, <2>1, <2>2 DEF Browse
<1>5. ASSUME NEW p \in Path, Visit(p) PROVE TypeOK'
  BY <1>5 DEF Visit
<1>6. ASSUME NEW posts \in BOOLEAN, Load(posts) PROVE TypeOK'
  <2>1. Lands[going] \in Path /\ Embeds[Lands[going]] \in Path \cup {None}
    BY <1>6 DEF Load
  <2>2. <<>> \in Seq(Path \cup {Other})
    BY EmptySeq
  <2>3. messages' \in Seq(Path \cup {Other})
    <3>1. CASE messages' = <<>>
      BY <2>2, <3>1
    <3>2. CASE messages' # <<>>
      <4>1. messages' = <<Embeds[Lands[going]]>> /\ Embeds[Lands[going]] # None
        BY <1>6, <3>2 DEF Load
      <4>2. Embeds[Lands[going]] \in Path \cup {Other}
        BY <2>1, <4>1
      <4> QED BY <4>1, <4>2
    <3> QED BY <3>1, <3>2
  <2>4. last' \in Path /\ hasty' \in BOOLEAN
    BY <1>6, <2>1 DEF Load
  <2> QED BY <1>6, <2>1, <2>3, <2>4 DEF Load
<1>7. CASE UNCHANGED vars
  BY <1>7 DEF vars
<1> QED BY <1>1, <1>2, <1>3, <1>4, <1>5, <1>6, <1>7 DEF Next

\* A page is at one of its pathnames, and nothing has happened.
LEMMA TypeInit == Init => TypeOK
<1> SUFFICES ASSUME Init PROVE TypeOK
  OBVIOUS
<1>1. pathname \in Path
  BY ConfigAssumption DEF Init
<1>2. messages \in Seq(Path \cup {Other})
  BY EmptySeq DEF Init
<1>3. route \in Path \cup {None} /\ last \in Path /\ routes \in 0..MaxRoutes
  BY <1>1, ConfigAssumption DEF Init
<1> QED BY <1>1, <1>2, <1>3 DEF Init, TypeOK

\* Only paths are loaded, whatever else is posted to the page.
THEOREM TypeCorrect == Spec => []TypeOK
BY TypeInit, TypeStep, PTL DEF Spec

---------------------------------------------------------------------------
\* The messages from the i-th on send the window nowhere.
IdleFrom(i) == \A j \in i..Len(messages) : ~Follows(messages[j])

\* The last path that was asked for is that of the page, is being loaded, or is a
\* message that will be received; no other message will be followed.
Arrived  == going = None /\ pathname = Lands[last] /\ IdleFrom(1)
OnTheWay == going = last /\ IdleFrom(1)
Posted   ==
  /\ going = None /\ attached /\ last \notin Skip
  /\ \E k \in 1..Len(messages) :
       messages[k] = last /\ \A j \in 1..Len(messages) : j # k => ~Follows(messages[j])

ShownInv ==
  /\ TypeOK
  /\ Lands[pathname] = pathname
  /\ ~hasty => Arrived \/ OnTheWay \/ Posted

\* A message that goes nowhere is added behind the others.
LEMMA AddedIdle ==
  ASSUME TypeOK, NEW m \in Path \cup {Other}, ~Follows(m), messages' = Append(messages, m),
         UNCHANGED <<pathname, going, attached, last>>, Arrived \/ OnTheWay \/ Posted
  PROVE  Arrived' \/ OnTheWay' \/ Posted'
<1>1. /\ Len(messages') = Len(messages) + 1 /\ Len(messages) \in Nat
      /\ messages'[Len(messages) + 1] = m
      /\ \A j \in 1..Len(messages) : messages'[j] = messages[j]
  BY AppendProperties, LenProperties DEF TypeOK
<1>2. \A x : Follows(x)' = Follows(x)
  BY DEF Follows
<1>3. CASE IdleFrom(1) /\ (Arrived \/ OnTheWay)
  <2>1. IdleFrom(1)'
    BY <1>1, <1>2, <1>3 DEF IdleFrom
  <2> QED BY <1>3, <2>1 DEF Arrived, OnTheWay
<1>4. CASE Posted
  <2>1. PICK k \in 1..Len(messages) :
          messages[k] = last /\ \A j \in 1..Len(messages) : j # k => ~Follows(messages[j])
    BY <1>4 DEF Posted
  <2>2. k \in 1..Len(messages') /\ messages'[k] = last'
    BY <1>1, <2>1
  <2>3. \A j \in 1..Len(messages') : j # k => ~Follows(messages[j])'
    BY <1>1, <1>2, <2>1
  <2> QED BY <1>4, <2>2, <2>3 DEF Posted
<1> QED BY <1>3, <1>4 DEF Arrived, OnTheWay

\* What is received is the first message.
LEMMA FirstReceived ==
  ASSUME TypeOK, Receive, Arrived \/ OnTheWay \/ Posted, Lands[pathname] = pathname
  PROVE  Arrived' \/ OnTheWay' \/ Posted'
<1>1. /\ Len(messages) \in Nat \ {0} /\ Head(messages) = messages[1]
      /\ Len(messages') = Len(messages) - 1
      /\ \A j \in 1..Len(messages') : messages'[j] = messages[j + 1]
  BY HeadTailProperties, LenProperties, EmptySeq DEF TypeOK, Receive
<1>2. \A x : Follows(x)' = Follows(x)
  BY DEF Follows, Receive
<1>3. ASSUME IdleFrom(1) PROVE IdleFrom(1)' /\ going' = going
  <2>1. ~Follows(messages[1])
    BY <1>1, <1>3 DEF IdleFrom
  <2>2. \A j \in 1..Len(messages') : ~Follows(messages[j + 1])
    BY <1>1, <1>3 DEF IdleFrom
  <2> QED BY <1>1, <1>2, <2>1, <2>2 DEF IdleFrom, Receive
<1>4. CASE Arrived
  BY <1>3, <1>4 DEF Arrived, Receive
<1>5. CASE OnTheWay
  BY <1>3, <1>5 DEF OnTheWay, Receive
<1>6. CASE Posted
  <2>1. PICK k \in 1..Len(messages) :
          messages[k] = last /\ \A j \in 1..Len(messages) : j # k => ~Follows(messages[j])
    BY <1>6 DEF Posted
  <2>2. CASE k = 1
    <3>1. IdleFrom(1)'
      BY <1>1, <1>2, <2>1, <2>2 DEF IdleFrom
    <3>2. CASE pathname = last
      BY <1>1, <1>6, <2>1, <2>2, <3>1, <3>2 DEF Arrived, Posted, Receive, Follows
    <3>3. CASE pathname # last
      <4>1. Follows(last)
        BY <1>6, <3>3, ConfigAssumption DEF Posted, Follows, TypeOK
      <4> QED BY <1>1, <1>6, <2>1, <2>2, <3>1, <4>1 DEF OnTheWay, Posted, Receive
    <3> QED BY <3>2, <3>3
  <2>3. CASE k # 1
    <3>1. k - 1 \in 1..Len(messages') /\ messages'[k - 1] = last'
      BY <1>1, <2>1, <2>3 DEF Receive
    <3>2. \A j \in 1..Len(messages') : j # k - 1 => ~Follows(messages[j])'
      BY <1>1, <1>2, <2>1
    <3>3. going' = going
      BY <1>1, <2>1, <2>3 DEF Receive
    <3> QED BY <1>6, <3>1, <3>2, <3>3 DEF Posted, Receive
  <2> QED BY <2>2, <2>3
<1> QED BY <1>4, <1>5, <1>6

\* Every step keeps ShownInv.
LEMMA ShownStep == ShownInv /\ [Next]_vars => ShownInv'
<1> SUFFICES ASSUME ShownInv, [Next]_vars PROVE ShownInv'
  OBVIOUS
<1>0. TypeOK /\ TypeOK' /\ Lands[pathname] = pathname
  BY TypeStep DEF ShownInv
<1> DEFINE Shown == ~hasty => Arrived \/ OnTheWay \/ Posted
<1>a. Shown
  BY DEF ShownInv
<1>b. (Lands[pathname] = pathname)'
  BY <1>0, ConfigAssumption
     DEF Next, Attach, Receive, PostOther, Browse, Visit, Load, vars, TypeOK
<1> SUFFICES Shown'
  BY <1>0, <1>b DEF ShownInv
<1>1. CASE Attach
  BY <1>1, <1>a DEF Attach, Arrived, OnTheWay, Posted, IdleFrom, Follows
<1>2. CASE Receive
  <2>1. hasty' = hasty
    BY <1>2 DEF Receive
  <2> QED BY <1>0, <1>2, <1>a, <2>1, FirstReceived
<1>3. CASE PostOther
  <2>1. hasty' = hasty /\ ~Follows(Other)
    BY <1>3 DEF PostOther, Follows
  <2> QED BY <1>0, <1>3, <1>a, <2>1, AddedIdle DEF PostOther
<1>4. ASSUME NEW p \in Path, Browse(p) PROVE Shown'
  <2>1. CASE p \in Skip
    <3>1. hasty' = hasty /\ ~Follows(p) /\ last' = last
      BY <1>4, <2>1 DEF Browse, Follows
    <3> QED BY <1>0, <1>4, <1>a, <3>1, AddedIdle DEF Browse
  <2>2. CASE p \notin Skip
    <3>1. SUFFICES ASSUME going = None, messages = <<>>, attached PROVE Posted'
      BY <1>4, <2>2 DEF Browse
    <3>2. messages' = <<p>> /\ last' = p /\ going' = None /\ attached'
      BY <1>4, <2>2, <3>1 DEF Browse
    <3>3. Len(messages') = 1 /\ messages'[1] = p
      BY <3>2
    <3>4. \A j \in 1..Len(messages') : j = 1
      BY <3>3
    <3> QED BY <2>2, <3>2, <3>3, <3>4 DEF Posted
  <2> QED BY <2>1, <2>2
<1>5. ASSUME NEW p \in Path, Visit(p) PROVE Shown'
  <2>1. SUFFICES ASSUME messages = <<>> PROVE OnTheWay'
    BY <1>5 DEF Visit
  <2> QED BY <1>5, <2>1 DEF Visit, OnTheWay, IdleFrom
<1>6. ASSUME NEW posts \in BOOLEAN, Load(posts) PROVE Shown'
  <2>1. SUFFICES ASSUME ~hasty' PROVE Arrived'
    OBVIOUS
  <2>2. /\ ~hasty /\ last' = last /\ going' = None /\ pathname' = Lands[going]
        /\ messages' = <<>> \/ (messages' = <<Embeds[Lands[going]]>>
                                /\ Embeds[Lands[going]] \in Skip \cup {Lands[going]})
    BY <1>0, <1>6, <2>1 DEF Load, TypeOK
  <2>3. going = last
    BY <1>6, <1>a, <2>2 DEF Load, Arrived, OnTheWay, Posted
  <2>4. IdleFrom(1)'
    <3>1. CASE messages' = <<>>
      BY <3>1 DEF IdleFrom
    <3>2. CASE messages' = <<Embeds[Lands[going]]>>
               /\ Embeds[Lands[going]] \in Skip \cup {Lands[going]}
      <4>1. Len(messages') = 1 /\ messages'[1] = Embeds[Lands[going]]
        BY <3>2
      <4>2. \A j \in 1..Len(messages') : j = 1
        BY <4>1
      <4>3. ~Follows(messages[1])'
        BY <2>2, <3>2, <4>1 DEF Follows
      <4> QED BY <4>2, <4>3 DEF IdleFrom
    <3> QED BY <2>2, <3>1, <3>2
  <2> QED BY <2>2, <2>3, <2>4 DEF Arrived
<1>7. CASE UNCHANGED vars
  BY <1>7, <1>a DEF vars, Arrived, OnTheWay, Posted, IdleFrom, Follows
<1> QED BY <1>1, <1>2, <1>3, <1>4, <1>5, <1>6, <1>7 DEF Next

\* When nothing is on its way the window shows the page of the last route, for all
\* paths, redirects and routes to skip, and for any number of messages.
THEOREM WindowFollowsRoutes == Spec => []LastRouteIsShown
<1>1. Init => ShownInv
  <2> SUFFICES ASSUME Init PROVE ShownInv
    OBVIOUS
  <2>1. TypeOK /\ messages = <<>> /\ pathname = Lands[pathname]
    BY TypeInit, ConfigAssumption DEF Init, TypeOK
  <2>2. IdleFrom(1)
    BY <2>1 DEF IdleFrom
  <2> QED BY <2>1, <2>2 DEF Init, ShownInv, Arrived
<1>2. ShownInv => LastRouteIsShown
  <2> SUFFICES ASSUME ShownInv, going = None, messages = <<>>, ~hasty
               PROVE pathname = Lands[last]
    BY DEF LastRouteIsShown
  <2>1. Len(messages) = 0 /\ last # None
    BY ConfigAssumption DEF ShownInv, TypeOK
  <2> QED BY <2>1 DEF ShownInv, Arrived, OnTheWay, Posted
<1> QED BY <1>1, <1>2, ShownStep, PTL DEF Spec
===========================================================================
