------------------------- MODULE Subrequests_proofs -------------------------
(* Proofs about Subrequests, for every set of blueprints: dependencies come  *)
(* first, exactly the blueprints that cannot be ordered are refused, copies  *)
(* are complete, and a blueprint only takes a bounded number of steps.       *)
EXTENDS Subrequests, FiniteSetTheorems, TLAPS

\* A level only holds copies of its subrequests.
LEMMA BatchOfLevel ==
  ASSUME NEW c \in Batch
  PROVE  c.of \in Level
BY DEF Batch, Copies

\* Every step keeps the types.
LEMMA TypeStep == TypeOK /\ [Next]_vars => TypeOK'
<1> SUFFICES ASSUME TypeOK, [Next]_vars PROVE TypeOK'
  OBVIOUS
<1> USE ConfigAssumption DEF TypeOK, Requests
<1>1. CASE Stack
  BY <1>1 DEF Stack
<1>2. CASE Abort
  BY <1>2 DEF Abort
<1>3. CASE Run
  BY <1>3 DEF Run
<1>4. CASE Process
  <2>1. UNCHANGED <<blueprint, level, levels>> /\ current' \in Nat
    BY <1>4 DEF Process
  <2>2. status' \in {"run", "done"}
    BY <1>4 DEF Process
  <2>3. ASSUME NEW r \in responses' PROVE r.cid.of \in Requests /\ r.answer \in Answer
    <3>1. CASE r \in responses
      BY <3>1
    <3>2. CASE r \notin responses
      <4>1. PICK answer \in [{c \in Batch : Read(c.of)} -> Answer] :
              r \in {[cid |-> c, answer |-> IF Read(c.of) THEN answer[c] ELSE 0] : c \in Batch}
        BY <1>4, <3>2 DEF Process
      <4>2. PICK c \in Batch :
              r = [cid |-> c, answer |-> IF Read(c.of) THEN answer[c] ELSE 0]
        BY <4>1
      <4>3. c.of \in Requests
        BY BatchOfLevel DEF Level
      <4>4. 0 \in Answer
        BY DEF Answer, NotScalar
      <4>5. r.answer \in Answer
        BY <4>2, <4>4
      <4> QED BY <4>2, <4>3, <4>5
    <3> QED BY <3>1, <3>2
  <2> QED BY <2>1, <2>2, <2>3
<1>5. CASE Reject
  BY <1>5 DEF Reject
<1>6. CASE UNCHANGED vars
  BY <1>6 DEF vars
<1> QED BY <1>1, <1>2, <1>3, <1>4, <1>5, <1>6 DEF Next

\* The type invariant holds initially.
LEMMA TypeInit == Init => TypeOK
BY ConfigAssumption DEF Init, TypeOK, Requests

\* Levels, responses and statuses stay within their types.
THEOREM TypeCorrect == Spec => []TypeOK
BY TypeInit, TypeStep, PTL DEF Spec

---------------------------------------------------------------------------
\* A subrequest is stacked above everything it waits for, and what has been
\* answered was on a level below the current one.
LevelInv ==
  /\ TypeOK
  /\ current >= 1 /\ levels >= 1
  /\ \A i \in Requests : level[i] <= levels
  /\ \A i \in Stacked : \A w \in WaitsFor(i) : w \in Stacked /\ level[w] < level[i]
  /\ \A r \in responses : r.cid.of \in Stacked /\ level[r.cid.of] < current
  /\ status = "build" => responses = {}

\* LevelInv holds of the first level.
LEMMA LevelInit == Init => LevelInv
<1> SUFFICES ASSUME Init PROVE LevelInv
  OBVIOUS
<1>1. TypeOK
  BY TypeInit
<1>2. \A i \in Stacked : WaitsFor(i) = {}
  BY DEF Init, Stacked, WaitsFor, Requests
<1> QED BY <1>1, <1>2 DEF Init, LevelInv, Requests

\* Every step keeps LevelInv.
LEMMA LevelStep == LevelInv /\ [Next]_vars => LevelInv'
<1> SUFFICES ASSUME LevelInv, [Next]_vars PROVE LevelInv'
  OBVIOUS
<1>0. TypeOK /\ TypeOK'
  BY TypeStep DEF LevelInv
<1>1. CASE Stack
  <2>1. UNCHANGED <<blueprint, current, responses, status>> /\ responses = {}
    BY <1>1 DEF Stack, LevelInv
  <2>2. Requests' = Requests /\ levels' = levels + 1 /\ levels \in Nat
    BY <1>0, <1>1, <2>1 DEF Requests, Stack, TypeOK
  <2>3. \A i \in Requests : level'[i] = IF Ready(i) THEN levels + 1 ELSE level[i]
    BY <1>1 DEF Stack
  <2>4. \A i \in Requests : level[i] \in Nat /\ level[i] <= levels
    BY <1>0 DEF LevelInv, TypeOK
  <2>5. \A i \in Requests : level'[i] <= levels'
    BY <2>2, <2>3, <2>4
  <2>6. \A i \in Requests : WaitsFor(i)' = WaitsFor(i)
    BY <2>1 DEF WaitsFor
  <2>7. \A w \in Stacked : w \in Stacked' /\ level'[w] = level[w]
    BY <2>2, <2>3 DEF Stacked, Ready, Pending
  <2>8. ASSUME NEW i \in Stacked', NEW w \in WaitsFor(i)
        PROVE  w \in Stacked' /\ level'[w] < level'[i]
    <3>1. CASE Ready(i)
      <4>1. i \in Requests /\ w \in Stacked
        BY <2>6, <2>8, <3>1 DEF Ready, Pending, WaitsFor
      <4>2. level'[i] = levels + 1 /\ level'[w] = level[w] /\ w \in Requests
        BY <2>3, <2>7, <3>1, <4>1 DEF Stacked
      <4> QED BY <2>2, <2>4, <2>7, <4>1, <4>2
    <3>2. CASE ~Ready(i)
      <4>1. i \in Stacked /\ level'[i] = level[i]
        BY <2>2, <2>3, <2>8, <3>2 DEF Stacked
      <4> QED BY <2>7, <2>8, <4>1 DEF LevelInv
    <3> QED BY <3>1, <3>2
  <2>9. \A i \in Stacked' : i \in Requests
    BY <2>2 DEF Stacked
  <2>10. levels' >= 1 /\ current' >= 1 /\ responses' = {}
    BY <1>0, <2>1, <2>2 DEF LevelInv, TypeOK
  <2> QED BY <1>0, <2>2, <2>5, <2>6, <2>8, <2>9, <2>10 DEF LevelInv
<1>2. CASE Abort
  BY <1>0, <1>2 DEF Abort, LevelInv, Stacked, WaitsFor, Requests
<1>3. CASE Run
  BY <1>0, <1>3 DEF Run, LevelInv, Stacked, WaitsFor, Requests
<1>4. CASE Process
  <2>1. UNCHANGED <<blueprint, level, levels>> /\ current' = current + 1 /\ status' # "build"
    BY <1>4 DEF Process
  <2>2. Stacked' = Stacked /\ Requests' = Requests /\ current \in Nat
    BY <1>0, <2>1 DEF Stacked, Requests, TypeOK
  <2>3. ASSUME NEW r \in responses' PROVE r.cid.of \in Stacked /\ level[r.cid.of] < current'
    <3>1. CASE r \in responses
      BY <1>0, <2>1, <3>1 DEF LevelInv, TypeOK, Stacked
    <3>2. CASE r \notin responses
      <4>1. PICK c \in Batch : r.cid = c
        BY <1>4, <3>2 DEF Process
      <4>2. r.cid.of \in Level
        BY <4>1, BatchOfLevel
      <4> QED BY <1>0, <2>1, <4>2 DEF Level, LevelInv, Stacked, TypeOK
    <3> QED BY <3>1, <3>2
  <2>4. \A i \in Requests : WaitsFor(i)' = WaitsFor(i)
    BY <2>1 DEF WaitsFor
  <2>5. \A i \in Stacked : i \in Requests
    BY DEF Stacked
  <2>6. current' >= 1
    BY <2>1, <2>2
  <2> QED BY <1>0, <2>1, <2>2, <2>3, <2>4, <2>5, <2>6 DEF LevelInv
<1>5. CASE Reject
  BY <1>0, <1>5 DEF Reject, LevelInv, Stacked, WaitsFor, Requests
<1>6. CASE UNCHANGED vars
  BY <1>0, <1>6 DEF vars, LevelInv, Stacked, WaitsFor, Requests
<1> QED BY <1>1, <1>2, <1>3, <1>4, <1>5, <1>6 DEF Next

---------------------------------------------------------------------------
\* No subrequest that can never be the first is ever stacked; and a blueprint
\* is given up when none of those left is ready, run when none is left.
StuckInv ==
  /\ TypeOK
  /\ \A S \in SUBSET Requests : Stuck(S) => S \cap Stacked = {}
  /\ status = "unresolvable" => Pending # {} /\ \A i \in Pending : ~Ready(i)
  /\ status \in {"run", "badToken", "done"} => Pending = {}

\* No stuck subrequest is on the first level.
LEMMA StuckInit == Init => StuckInv
<1> SUFFICES ASSUME Init PROVE StuckInv
  OBVIOUS
<1>1. TypeOK
  BY TypeInit
<1>2. \A i \in Stacked : WaitsFor(i) = {}
  BY DEF Init, Stacked, WaitsFor, Requests
<1>3. \A S \in SUBSET Requests : Stuck(S) => S \cap Stacked = {}
  BY <1>2 DEF Stuck
<1> QED BY <1>1, <1>3 DEF Init, StuckInv

\* Every step keeps StuckInv.
LEMMA StuckStep == StuckInv /\ [Next]_vars => StuckInv'
<1> SUFFICES ASSUME StuckInv, [Next]_vars PROVE StuckInv'
  OBVIOUS
<1>0. TypeOK /\ TypeOK'
  BY TypeStep DEF StuckInv
<1>1. CASE Stack
  <2>1. UNCHANGED <<blueprint, status>> /\ status = "build"
    BY <1>1 DEF Stack
  <2>2. Requests' = Requests
    BY <2>1 DEF Requests
  <2>3. \A S : Stuck(S)' = Stuck(S)
    BY <2>1, <2>2 DEF Stuck, WaitsFor
  <2>4. ASSUME NEW S \in SUBSET Requests, Stuck(S), NEW i \in S \cap Stacked' PROVE FALSE
    <3>1. i \notin Stacked
      BY <2>4 DEF StuckInv
    <3>2. Ready(i)
      BY <1>1, <2>2, <2>4, <3>1 DEF Stack, Stacked
    <3>3. PICK w \in WaitsFor(i) : w \in S \/ w \notin Requests
      BY <2>4 DEF Stuck
    <3>4. w \in Stacked
      BY <3>2 DEF Ready, WaitsFor
    <3> QED BY <2>4, <3>3, <3>4 DEF StuckInv, Stacked
  <2>5. \A S \in SUBSET Requests : Stuck(S) => S \cap Stacked' = {}
    BY <2>4
  <2> QED BY <1>0, <2>1, <2>2, <2>3, <2>5 DEF StuckInv
<1>2. ASSUME UNCHANGED <<blueprint, level>>
      PROVE  \A S \in SUBSET Requests' : Stuck(S)' => S \cap Stacked' = {}
  BY <1>2 DEF StuckInv, Stuck, Stacked, WaitsFor, Requests
<1>3. CASE Abort
  BY <1>0, <1>2, <1>3 DEF Abort, StuckInv, Pending, Ready, Stacked, Requests
<1>4. CASE Run
  BY <1>0, <1>2, <1>4 DEF Run, StuckInv, Pending, Requests
<1>5. CASE Process
  BY <1>0, <1>2, <1>5 DEF Process, StuckInv, Pending, Requests
<1>6. CASE Reject
  BY <1>0, <1>2, <1>6 DEF Reject, StuckInv, Pending, Requests
<1>7. CASE UNCHANGED vars
  BY <1>0, <1>2, <1>7 DEF vars, StuckInv, Pending, Ready, Stacked, Requests
<1> QED BY <1>1, <1>3, <1>4, <1>5, <1>6, <1>7 DEF Next

\* Exactly the blueprints with subrequests that can never be ordered are
\* refused as unresolvable.
THEOREM OnlyStuckBlueprintsAbort == Spec => []AbortsIfStuck
<1>1. StuckInv => AbortsIfStuck
  <2> SUFFICES ASSUME StuckInv PROVE AbortsIfStuck
    OBVIOUS
  <2>1. ASSUME status = "unresolvable"
        PROVE \E S \in SUBSET Requests : S # {} /\ Stuck(S)
    <3>1. ASSUME NEW i \in Pending PROVE \E w \in WaitsFor(i) : w \in Pending \/ w \notin Requests
      <4>1. ~(blueprint[i].waitFor \subseteq Stacked \cup {Root})
        BY <2>1, <3>1 DEF StuckInv, Ready
      <4>2. PICK w \in blueprint[i].waitFor : w \notin Stacked /\ w # Root
        BY <4>1
      <4>3. w \in WaitsFor(i) /\ (w \in Pending \/ w \notin Requests)
        BY <4>2 DEF WaitsFor, Pending, Stacked, StuckInv, TypeOK
      <4> QED BY <4>3
    <3>2. Pending \in SUBSET Requests /\ Pending # {}
      BY <2>1 DEF Pending, StuckInv
    <3>3. Stuck(Pending)
      BY <3>1 DEF Stuck
    <3> QED BY <3>2, <3>3
  <2>2. ASSUME status \in {"run", "badToken", "done"}, NEW S \in SUBSET Requests, Stuck(S)
        PROVE S = {}
    <3>1. S \cap Stacked = {} /\ Pending = {}
      BY <2>2 DEF StuckInv
    <3> QED BY <2>2, <3>1 DEF Pending, Stacked, StuckInv, TypeOK
  <2> QED BY <2>1, <2>2 DEF AbortsIfStuck
<1> QED BY <1>1, StuckInit, StuckStep, PTL DEF Spec

---------------------------------------------------------------------------
(* Copies are complete.                                                    *)

Answered(x) == {r \in responses : r.cid.of = x}

\* What was answered for a subrequest of an earlier level is what its tokens find
\* now, all of which was answered before: later levels add nothing to it.
CopyInv ==
  /\ LevelInv
  /\ \A i \in Stacked : level[i] < current =>
       /\ \A x \in Tokens(i) : Answered(x) # {}
       /\ {r.cid : r \in Answered(i)} = Copies(i)
  /\ status = "build" => current = 1
  /\ status = "run" => current <= levels /\ Pending = {}
  /\ status = "done" => current > levels /\ Pending = {}

\* A token refers to the responses of one subrequest, if no id occurs in another.
LEMMA SubjectsAnswer ==
  ASSUME \A x \in Id : Contains[x] = {x}, NEW x \in Id
  PROVE  Subjects(x) = Answered(x)
BY DEF Subjects, Answered

\* The tokens of a subrequest are ids.
LEMMA TokensAreIds ==
  ASSUME TypeOK, NEW i \in Requests
  PROVE  Tokens(i) \subseteq Id /\ blueprint[i].uri \subseteq Id /\ blueprint[i].body \subseteq Id
BY DEF TypeOK, Subrequest, Tokens

\* The copies of a subrequest are those of its tokens' subjects.
LEMMA CopiesOfSubjects ==
  ASSUME UNCHANGED blueprint, NEW i \in Requests,
         \A x \in Tokens(i) : Subjects(x)' = Subjects(x)
  PROVE  Copies(i)' = Copies(i)
<1>1. \A x \in Tokens(i) : Values(x)' = Values(x)
  BY DEF Values
<1>2. ASSUME NEW T \in SUBSET Tokens(i) PROVE Points(T)' = Points(T)
  <2>1. {Values(x)' : x \in T} = {Values(x) : x \in T}
    BY <1>1
  <2> QED BY <1>1, <2>1 DEF Points
<1>3. /\ Points(blueprint[i].uri)' = Points(blueprint[i].uri)
      /\ Points(blueprint[i].body)' = Points(blueprint[i].body)
  BY <1>2 DEF Tokens
<1> QED BY <1>3 DEF Copies

\* Running a level answers every copy of its subrequests.
LEMMA ProcessAnswers ==
  ASSUME Process
  PROVE  /\ \A r \in responses' \ responses : r.cid \in Batch
         /\ responses \subseteq responses'
         /\ \A c \in Batch : \E r \in responses' : r.cid = c
<1>1. PICK answer \in [{c \in Batch : Read(c.of)} -> Answer] :
        responses' = responses \cup
          {[cid |-> c, answer |-> IF Read(c.of) THEN answer[c] ELSE 0] : c \in Batch}
  BY DEF Process
<1> DEFINE New(c) == [cid |-> c, answer |-> IF Read(c.of) THEN answer[c] ELSE 0]
<1>2. \A c : New(c).cid = c
  OBVIOUS
<1>3. responses' = responses \cup {New(c) : c \in Batch}
  BY <1>1
<1> HIDE DEF New
<1> QED BY <1>2, <1>3

\* Process keeps CopyInv: all subjects of a level have run before it.
LEMMA CopyProcess ==
  ASSUME \A x \in Id : Contains[x] = {x}, CopyInv, LevelInv', Process
  PROVE  CopyInv'
<1>1. /\ UNCHANGED <<blueprint, level, levels>> /\ current' = current + 1
      /\ status' = IF current = levels THEN "done" ELSE "run"
      /\ status = "run" /\ \A i \in Level : ~BadToken(i)
  BY DEF Process
<1>2. /\ TypeOK /\ current \in Nat /\ levels \in Nat /\ current <= levels
      /\ Pending = {} /\ Pending' = Pending /\ Requests' = Requests /\ Stacked' = Stacked
      /\ \A r \in responses : r.cid.of \in Stacked /\ level[r.cid.of] < current
  BY <1>1 DEF CopyInv, LevelInv, TypeOK, Pending, Requests, Stacked
<1>3. \A r \in responses' \ responses : r.cid \in Batch /\ level[r.cid.of] = current
  BY ProcessAnswers, BatchOfLevel DEF Level
<1>4. ASSUME NEW x \in Id, Answered(x) # {}
      PROVE  Answered(x)' = Answered(x) /\ Subjects(x)' = Subjects(x)
  <2>1. x \in Requests /\ level[x] \in Nat /\ level[x] < current
    BY <1>2, <1>4 DEF Answered, Stacked, TypeOK
  <2>2. Answered(x)' = Answered(x)
    BY <1>2, <1>3, <2>1, ProcessAnswers DEF Answered
  <2>3. Subjects(x)' = Answered(x)'
    BY DEF Subjects, Answered
  <2> QED BY <2>2, <2>3, SubjectsAnswer
<1>5. ASSUME NEW i \in Stacked, level[i] <= current
      PROVE  \A x \in Tokens(i) : Answered(x) # {}
  <2>1. CASE level[i] = current
    <3>1. ~BadToken(i) /\ i \in Requests
      BY <1>1, <2>1 DEF Level, Stacked
    <3> QED BY <1>2, <3>1, SubjectsAnswer, TokensAreIds DEF BadToken
  <2>2. CASE level[i] # current
    <3>1. level[i] < current
      BY <1>2, <1>5, <2>2 DEF Stacked, TypeOK
    <3> QED BY <1>5, <3>1 DEF CopyInv
  <2> QED BY <2>1, <2>2
<1>6. ASSUME NEW i \in Stacked, level[i] <= current
      PROVE  Copies(i)' = Copies(i)
  <2>1. i \in Requests
    BY DEF Stacked
  <2> QED BY <1>1, <1>2, <1>4, <1>5, <1>6, <2>1, CopiesOfSubjects, TokensAreIds
<1>7. ASSUME NEW i \in Stacked', level'[i] < current'
      PROVE  (/\ \A x \in Tokens(i) : Answered(x) # {}
              /\ {r.cid : r \in Answered(i)} = Copies(i))'
  <2>1. i \in Requests /\ i \in Stacked /\ level[i] \in Nat /\ level[i] <= current
    BY <1>1, <1>2, <1>7 DEF Stacked, TypeOK
  <2>2. Tokens(i)' = Tokens(i)
    BY <1>1 DEF Tokens
  <2>3. \A x \in Tokens(i) : Answered(x)' # {}
    BY <1>2, <1>4, <1>5, <2>1, TokensAreIds
  <2>4. CASE level[i] = current
    <3>1. Answered(i) = {}
      BY <1>2, <2>1, <2>4 DEF Answered
    <3>2. ASSUME NEW c \in Batch, c.of = i PROVE c \in Copies(i)
      BY <3>2 DEF Batch, Copies
    <3>3. \A c \in Copies(i) : c \in Batch /\ c.of = i
      BY <2>1, <2>4 DEF Batch, Level, Copies
    <3>4. \A r \in Answered(i)' : r.cid \in Copies(i)
      BY <1>3, <3>1, <3>2 DEF Answered
    <3>5. \A c \in Copies(i) : \E r \in Answered(i)' : r.cid = c
      BY <3>3, ProcessAnswers DEF Answered
    <3> QED BY <1>6, <2>1, <2>2, <2>3, <3>4, <3>5
  <2>5. CASE level[i] # current
    <3>1. level[i] < current
      BY <1>2, <2>1, <2>5
    <3>2. Answered(i)' = Answered(i)
      BY <1>2, <1>3, <2>1, <2>5, ProcessAnswers DEF Answered
    <3> QED BY <1>6, <2>1, <2>2, <2>3, <3>1, <3>2 DEF CopyInv
  <2> QED BY <2>4, <2>5
<1>8. /\ status' # "build"
      /\ status' = "run" => current' <= levels'
      /\ status' = "done" => current' > levels'
  BY <1>1, <1>2
<1> QED BY <1>1, <1>2, <1>7, <1>8 DEF CopyInv

\* Every step keeps CopyInv.
LEMMA CopyStep ==
  ASSUME \A x \in Id : Contains[x] = {x}
  PROVE  CopyInv /\ [Next]_vars => CopyInv'
<1> SUFFICES ASSUME CopyInv, [Next]_vars PROVE CopyInv'
  OBVIOUS
<1>0. LevelInv /\ LevelInv'
  BY LevelStep DEF CopyInv
<1>1. CASE Stack
  <2>1. status = "build" /\ UNCHANGED <<status, current>> /\ current = 1
    BY <1>1 DEF Stack, CopyInv
  <2>2. \A i \in Stacked' : ~(level'[i] < current')
    BY <1>0, <2>1 DEF LevelInv, TypeOK, Stacked
  <2> QED BY <1>0, <2>1, <2>2 DEF CopyInv
<1>2. ASSUME UNCHANGED <<blueprint, level, levels, current, responses>>
      PROVE  /\ \A i \in Stacked' : level'[i] < current' =>
                  (/\ \A x \in Tokens(i) : Answered(x) # {}
                   /\ {r.cid : r \in Answered(i)} = Copies(i))'
             /\ Pending' = Pending
  <2>1. /\ Stacked' = Stacked /\ Pending' = Pending /\ Requests' = Requests
        /\ level' = level /\ current' = current
    BY <1>2 DEF Stacked, Pending, Requests
  <2>2. \A i : Tokens(i)' = Tokens(i)
    BY <1>2 DEF Tokens
  <2>3. \A i : Answered(i)' = Answered(i) /\ Subjects(i)' = Subjects(i)
    BY <1>2 DEF Answered, Subjects
  <2>4. \A i \in Requests : Copies(i)' = Copies(i)
    BY <1>2, <2>3, CopiesOfSubjects
  <2>5. ASSUME NEW i \in Stacked, level[i] < current
        PROVE  (/\ \A x \in Tokens(i) : Answered(x) # {}
                /\ {r.cid : r \in Answered(i)} = Copies(i))'
    <3>1. i \in Requests
      BY DEF Stacked
    <3>2. /\ \A x \in Tokens(i) : Answered(x) # {}
          /\ {r.cid : r \in Answered(i)} = Copies(i)
      BY <2>5 DEF CopyInv
    <3> QED BY <2>2, <2>3, <2>4, <3>1, <3>2
  <2> QED BY <2>1, <2>5
<1>3. CASE Abort
  BY <1>0, <1>2, <1>3 DEF Abort, CopyInv
<1>4. CASE Run
  <2>1. current <= levels
    BY <1>0, <1>4 DEF Run, CopyInv, LevelInv
  <2> QED BY <1>0, <1>2, <1>4, <2>1 DEF Run, CopyInv
<1>5. CASE Process
  BY <1>0, <1>5, CopyProcess
<1>6. CASE Reject
  BY <1>0, <1>2, <1>6 DEF Reject, CopyInv
<1>7. CASE UNCHANGED vars
  BY <1>0, <1>2, <1>7 DEF vars, CopyInv
<1> QED BY <1>1, <1>3, <1>4, <1>5, <1>6, <1>7 DEF Next

\* A subrequest has a copy unless one of its tokens finds no value.
LEMMA CopyExists ==
  ASSUME NEW i \in Requests, \A x \in Tokens(i) : Values(x) # {}
  PROVE  Copies(i) # {}
<1>1. ASSUME NEW T \in SUBSET Tokens(i) PROVE Points(T) # {}
  <2> DEFINE p == [x \in T |-> CHOOSE v \in Values(x) : TRUE]
  <2>1. \A x \in T : p[x] \in Values(x)
    OBVIOUS
  <2>2. p \in [T -> UNION {Values(x) : x \in T}]
    BY <2>1
  <2> HIDE DEF p
  <2>3. p \in Points(T)
    BY <2>1, <2>2 DEF Points
  <2> QED BY <2>3
<1>2. PICK u \in Points(blueprint[i].uri), d \in Points(blueprint[i].body) : TRUE
  BY <1>1 DEF Tokens
<1>3. [of |-> i, uri |-> u, body |-> d] \in Copies(i)
  BY <1>2 DEF Copies
<1> QED BY <1>3

\* CopyInv holds of a parsed blueprint.
LEMMA CopyInit == Init => CopyInv
<1> SUFFICES ASSUME Init PROVE CopyInv
  OBVIOUS
<1>1. LevelInv /\ current = 1 /\ status = "build"
  BY LevelInit DEF Init
<1>2. \A i \in Stacked : ~(level[i] < current)
  BY <1>1 DEF LevelInv, TypeOK, Stacked
<1> QED BY <1>1, <1>2 DEF CopyInv

\* If no id occurs in another, a subrequest is only processed when what it waits
\* for was answered by an earlier level, or has no copy and is never answered.
THEOREM DependenciesComeFirst ==
  ASSUME \A x \in Id : Contains[x] = {x}
  PROVE  Spec => DependenciesFirst
<1> DEFINE Came(w) == /\ w \in Requests
                      /\ \/ \E q \in responses : q.cid.of = w
                         \/ \E x \in Tokens(w) : Values(x) = {}
           Ordered == \A r \in responses' \ responses : \A w \in WaitsFor(r.cid.of) : Came(w)
<1>1. CopyInv /\ [Next]_vars => [Ordered]_vars
  <2> SUFFICES ASSUME CopyInv, Next, NEW r \in responses' \ responses,
                      NEW w \in WaitsFor(r.cid.of)
               PROVE  Came(w)
    OBVIOUS
  <2>1. Process
    BY DEF Next, Stack, Abort, Run, Reject
  <2>2. r.cid \in Batch
    BY <2>1, ProcessAnswers
  <2>3. r.cid.of \in Requests /\ level[r.cid.of] = current
    BY <2>2, BatchOfLevel DEF Level
  <2>4. r.cid.of \in Stacked
    BY <2>3 DEF CopyInv, LevelInv, TypeOK, Stacked
  <2>5. w \in Stacked /\ level[w] < current
    BY <2>3, <2>4 DEF CopyInv, LevelInv
  <2>6. w \in Requests /\ {q.cid : q \in Answered(w)} = Copies(w)
    BY <2>5 DEF CopyInv, Stacked
  <2>7. CASE Answered(w) # {}
    BY <2>6, <2>7 DEF Answered
  <2>8. CASE Answered(w) = {}
    BY <2>6, <2>8, CopyExists
  <2> QED BY <2>7, <2>8
<1> QED BY <1>1, CopyInit, CopyStep, PTL DEF Spec, DependenciesFirst

\* If no id occurs in another, a blueprint that was answered was answered
\* completely: once for every combination of the values that its tokens find.
THEOREM AnswersAreComplete ==
  ASSUME \A x \in Id : Contains[x] = {x}
  PROVE  Spec => []CopiesAreComplete
<1>1. CopyInv => CopiesAreComplete
  <2> DEFINE Held == {<<r.cid, k>> : r \in responses, k \in 1..MaxValues}
             Finds(x, v) == v[1].of = x /\ \E r \in responses : r.cid = v[1] /\ v[2] <= r.answer
             Found(T, p) == \A x \in T : Finds(x, p[x])
  <2> SUFFICES ASSUME CopyInv, status = "done", NEW i \in Requests,
                      NEW u \in [blueprint[i].uri -> Held], NEW d \in [blueprint[i].body -> Held]
               PROVE  (\E r \in responses : r.cid = [of |-> i, uri |-> u, body |-> d])
                        <=> Found(blueprint[i].uri, u) /\ Found(blueprint[i].body, d)
    BY SMTT(60) DEF CopiesAreComplete
  <2>1. i \in Stacked /\ level[i] < current
    BY DEF CopyInv, LevelInv, TypeOK, Pending, Stacked
  <2>2. {r.cid : r \in Answered(i)} = Copies(i)
    BY <2>1 DEF CopyInv
  <2>3. /\ blueprint[i].uri \subseteq Id /\ blueprint[i].body \subseteq Id
        /\ \A r \in responses : r.answer \in Int /\ r.answer <= MaxValues
    BY TokensAreIds, ConfigAssumption DEF CopyInv, LevelInv, TypeOK, Answer, NotScalar
  <2>4. ASSUME NEW x \in Id, NEW v \in Held PROVE v \in Values(x) <=> Finds(x, v)
    <3>1. PICK q \in responses, k \in 1..MaxValues : v = <<q.cid, k>>
      OBVIOUS
    <3>2. v \in Values(x) <=> \E r \in Subjects(x) : v \in {<<r.cid, j>> : j \in 1..r.answer}
      BY DEF Values
    <3>3. v \in Values(x) <=> \E r \in Subjects(x) : r.cid = q.cid /\ k \in 1..r.answer
      BY <3>1, <3>2
    <3>4. \A r \in Subjects(x) : k \in 1..r.answer <=> k <= r.answer
      BY <2>3, <3>1, ConfigAssumption DEF Subjects
    <3>5. Subjects(x) = {r \in responses : r.cid.of = x}
      BY SubjectsAnswer DEF Answered
    <3> QED BY <3>1, <3>3, <3>4, <3>5
  <2>5. ASSUME NEW T \in SUBSET Id, NEW p \in [T -> Held]
        PROVE  p \in Points(T) <=> Found(T, p)
    <3>1. ASSUME NEW x \in T PROVE p[x] \in Values(x) <=> Finds(x, p[x])
      <4> DEFINE v == p[x]
      <4>1. x \in Id /\ v \in Held
        OBVIOUS
      <4> HIDE DEF v, Held
      <4>2. v \in Values(x) <=> Finds(x, v)
        BY <2>4, <4>1
      <4> QED BY <4>2 DEF v
    <3>2. (\A x \in T : p[x] \in Values(x)) => p \in [T -> UNION {Values(x) : x \in T}]
      OBVIOUS
    <3>3. p \in Points(T) <=> \A x \in T : p[x] \in Values(x)
      BY <3>2 DEF Points
    <3> HIDE DEF Finds
    <3> QED BY <3>1, <3>3
  <2> HIDE DEF Found, Held
  <2>6. [of |-> i, uri |-> u, body |-> d] \in Copies(i) <=>
          u \in Points(blueprint[i].uri) /\ d \in Points(blueprint[i].body)
    <3> DEFINE U == Points(blueprint[i].uri)
               D == Points(blueprint[i].body)
               Copy(v, w) == [of |-> i, uri |-> v, body |-> w]
    <3>1. \A v, w : Copy(v, w).uri = v /\ Copy(v, w).body = w
      OBVIOUS
    <3>2. \A c : c \in Copies(i) <=> \E v \in U, w \in D : c = Copy(v, w)
      BY DEF Copies
    <3> HIDE DEF U, D, Copy
    <3>3. Copy(u, d) \in Copies(i) <=> u \in U /\ d \in D
      BY <3>1, <3>2
    <3> QED BY <3>3 DEF U, D, Copy
  <2>7. (\E r \in responses : r.cid = [of |-> i, uri |-> u, body |-> d])
          <=> [of |-> i, uri |-> u, body |-> d] \in Copies(i)
    <3>1. [of |-> i, uri |-> u, body |-> d].of = i
      OBVIOUS
    <3> QED BY <2>2, <3>1 DEF Answered
  <2> QED BY <2>3, <2>5, <2>6, <2>7
<1> QED BY <1>1, CopyInit, CopyStep, PTL DEF Spec

---------------------------------------------------------------------------
(* Blueprints run out.                                                     *)

\* The steps that a blueprint can still take, at most: two per subrequest to stack, for
\* stacking it and for its level, one per level to run, and one to start.
Left ==
  CASE status = "build" -> 2 * Cardinality(Pending) + levels + 1
    [] status = "run"   -> levels - current + 1
    [] OTHER            -> 0

\* The list of subrequests is finite, and there is a level to run.
PhaseInv ==
  /\ LevelInv
  /\ IsFiniteSet(Requests)
  /\ status = "build" => current = 1
  /\ status = "run" => current <= levels

\* Every step keeps PhaseInv.
LEMMA PhaseStep == PhaseInv /\ [Next]_vars => PhaseInv'
<1> SUFFICES ASSUME PhaseInv, [Next]_vars PROVE PhaseInv'
  OBVIOUS
<1>1. LevelInv' /\ Requests' = Requests
  BY LevelStep DEF PhaseInv, Next, Stack, Abort, Run, Process, Reject, vars, Requests
<1>2. current \in Nat /\ levels \in Nat /\ levels >= 1
  BY DEF PhaseInv, LevelInv, TypeOK
<1>3. status' = "build" => current' = 1
  BY DEF PhaseInv, Next, Stack, Abort, Run, Process, Reject, vars
<1>4. status' = "run" => current' <= levels'
  <2>1. CASE Process
    BY <1>2, <2>1 DEF PhaseInv, Process
  <2>2. CASE Run
    BY <1>2, <2>2 DEF PhaseInv, Run
  <2>3. CASE Stack \/ Abort \/ Reject \/ UNCHANGED vars
    BY <2>3 DEF PhaseInv, Stack, Abort, Reject, vars
  <2> QED BY <2>1, <2>2, <2>3 DEF Next
<1> QED BY <1>1, <1>3, <1>4 DEF PhaseInv

\* Stacking a level leaves fewer subrequests to stack.
LEMMA StackShrinks ==
  ASSUME PhaseInv, Stack
  PROVE  /\ Cardinality(Pending) \in Nat /\ Cardinality(Pending') \in Nat
         /\ Cardinality(Pending') < Cardinality(Pending)
<1>1. Pending' = {i \in Pending : ~Ready(i)}
  BY DEF Stack, Pending, Requests, Ready, PhaseInv, LevelInv, TypeOK
<1>2. IsFiniteSet(Pending)
  BY FS_Subset DEF PhaseInv, Pending
<1>3. Pending' \in SUBSET Pending /\ Pending' # Pending
  BY <1>1 DEF Stack
<1>4. IsFiniteSet(Pending') /\ Cardinality(Pending') <= Cardinality(Pending)
  BY <1>2, <1>3, FS_Subset
<1>5. Cardinality(Pending') # Cardinality(Pending)
  BY <1>2, <1>3, FS_Subset
<1>6. Cardinality(Pending) \in Nat /\ Cardinality(Pending') \in Nat
  BY <1>2, <1>4, FS_CardinalityType
<1> QED BY <1>4, <1>5, <1>6

\* The steps left are a number.
LEMMA LeftIsNat == PhaseInv => Left \in Nat
<1> SUFFICES ASSUME PhaseInv PROVE Left \in Nat
  OBVIOUS
<1>1. current \in Nat /\ levels \in Nat
  BY DEF PhaseInv, LevelInv, TypeOK
<1>2. IsFiniteSet(Pending)
  BY FS_Subset DEF PhaseInv, Pending
<1>3. Cardinality(Pending) \in Nat
  BY <1>2, FS_CardinalityType
<1> QED BY <1>1, <1>3 DEF PhaseInv, Left

\* Every step of a blueprint, whatever its dependencies and whatever the responses,
\* uses up one of finitely many: building and running it cannot go on for ever.
THEOREM BlueprintsRunOut ==
  ASSUME \A b \in Blueprints : IsFiniteSet(DOMAIN b)
  PROVE  Spec => [](Left \in Nat) /\ [][Left' < Left]_vars
<1>1. Init => PhaseInv
  <2> SUFFICES ASSUME Init PROVE PhaseInv
    OBVIOUS
  <2> QED BY LevelInit DEF Init, PhaseInv, Requests
<1>2. PhaseInv /\ PhaseInv' /\ [Next]_vars => [Left' < Left]_vars
  <2> SUFFICES ASSUME PhaseInv, PhaseInv', Next PROVE Left' < Left
    OBVIOUS
  <2>1. current \in Nat /\ levels \in Nat /\ Left \in Nat /\ levels >= 1
    BY LeftIsNat DEF PhaseInv, LevelInv, TypeOK
  <2>2. CASE Stack
    <3> DEFINE n == Cardinality(Pending)
               m == Cardinality(Pending')
    <3>1. n \in Nat /\ m \in Nat /\ m < n
      BY <2>2, StackShrinks
    <3>2. Left = 2 * n + levels + 1 /\ Left' = 2 * m + (levels + 1) + 1
      BY <2>2 DEF Left, Stack
    <3> HIDE DEF n, m
    <3> QED BY <2>1, <3>1, <3>2
  <2>3. CASE Run
    <3>1. Pending = {} /\ status = "build" /\ current = 1 /\ UNCHANGED <<levels, current>>
      BY <2>3 DEF Run, PhaseInv
    <3>2. Cardinality(Pending) = 0
      BY <3>1, FS_EmptySet
    <3>3. Left = levels + 1
      BY <2>1, <3>1, <3>2 DEF Left
    <3>4. Left' = levels
      BY <2>1, <2>3, <3>1 DEF Left, Run
    <3> QED BY <2>1, <3>3, <3>4
  <2>4. CASE Abort
    <3>1. IsFiniteSet(Pending)
      BY FS_Subset DEF PhaseInv, Pending
    <3>2. Cardinality(Pending) \in Nat
      BY <3>1, FS_CardinalityType
    <3>3. Left = 2 * Cardinality(Pending) + levels + 1 /\ Left' = 0
      BY <2>4 DEF Left, Abort
    <3> QED BY <2>1, <3>2, <3>3
  <2>5. CASE Process
    <3>1. Left = levels - current + 1 /\ current <= levels
      BY <2>5 DEF Left, Process, PhaseInv
    <3>2. Left' = IF current = levels THEN 0 ELSE levels - (current + 1) + 1
      BY <2>5 DEF Left, Process
    <3> QED BY <2>1, <3>1, <3>2
  <2>6. CASE Reject
    <3>1. Left = levels - current + 1 /\ current <= levels /\ Left' = 0
      BY <2>6 DEF Left, Reject, PhaseInv
    <3> QED BY <2>1, <3>1
  <2> QED BY <2>2, <2>3, <2>4, <2>5, <2>6 DEF Next
<1> QED BY <1>1, <1>2, PhaseStep, LeftIsNat, PTL DEF Spec
===========================================================================
