---------------------- MODULE ConsumerDefault_proofs ----------------------
(* Proofs about ConsumerDefault: its types, the access check, and that one   *)
(* editor at a time leaves one default.                                      *)
EXTENDS ConsumerDefault, TLAPS

\* preSave() only touches what the running save is: the result is an Edit.
LEMMA SavingType ==
  ASSUME NEW e \in Editor, NEW d \in Edit, default \subseteq Consumer
  PROVE  /\ Saving(e, d) \in Edit
         /\ Saving(e, d).of = d.of
         /\ Saving(e, d).step = "saving"
BY DEF Saving, Edit, OtherDefaults

\* preSave() resets no consumer that the editor may not update.
LEMMA SavingIsPermitted ==
  ASSUME NEW e \in Editor, NEW d \in Edit
  PROVE  Saving(e, d).clear \subseteq Allowed[e]
BY DEF Saving, Edit, OtherDefaults

\* Every step of an editor keeps the types.
LEMMA TypeStep == TypeOK /\ [Next]_vars => TypeOK'
<1> SUFFICES ASSUME TypeOK, [Next]_vars PROVE TypeOK'
  OBVIOUS
<1> USE ConfigAssumption DEF TypeOK
<1>1. ASSUME NEW e \in Editor, NEW c \in Consumer, Load(e, c) PROVE TypeOK'
  BY <1>1 DEF Load, Edit, Idle
<1>2. ASSUME NEW e \in Editor, NEW c \in Consumer, Delete(e, c) PROVE TypeOK'
  BY <1>2 DEF Delete
<1>3. ASSUME NEW e \in Editor, NEW c \in Consumer, NEW flag \in NewFlags, Create(e, c, flag)
      PROVE TypeOK'
  <2> DEFINE d == [step |-> "loaded", of |-> c, new |-> TRUE, flag |-> flag, clear |-> {}]
  <2>1. d \in Edit
    BY DEF Edit
  <2>2. Saving(e, d) \in Edit
    BY <2>1, SavingType
  <2> QED BY <1>3, <2>2 DEF Create
<1>4. ASSUME NEW e \in Editor, ConsumerForm(e) PROVE TypeOK'
  <2>1. edit[e] \in Edit
    BY <1>4 DEF ConsumerForm
  <2>2. Saving(e, edit[e]) \in Edit
    BY <2>1, SavingType
  <2> QED BY <1>4, <2>2 DEF ConsumerForm
<1>5. ASSUME NEW e \in Editor, MakeDefaultForm(e) PROVE TypeOK'
  <2> DEFINE d == [edit[e] EXCEPT !.flag = TRUE]
  <2>1. d \in Edit
    BY <1>5 DEF MakeDefaultForm, Edit
  <2>2. Saving(e, d) \in Edit
    BY <2>1, SavingType
  <2> QED BY <1>5, <2>2 DEF MakeDefaultForm
<1>6. ASSUME NEW e \in Editor, Commit(e) PROVE TypeOK'
  <2>1. edit[e] \in Edit
    BY <1>6 DEF Commit
  <2>2. edit[e].of \in Consumer
    BY <2>1 DEF Edit
  <2> QED BY <1>6, <2>2 DEF Commit, Flags
<1>7. ASSUME NEW e \in Editor, Abandon(e) PROVE TypeOK'
  BY <1>7 DEF Abandon
<1>8. CASE UNCHANGED vars
  BY <1>8 DEF vars
<1> QED BY <1>1, <1>2, <1>3, <1>4, <1>5, <1>6, <1>7, <1>8 DEF Next

\* The flag is only ever on a stored consumer, whatever saves and deletions
\* overlap.
THEOREM TypeCorrect == Spec => []TypeOK
<1>1. Init => TypeOK
  BY DEF Init, TypeOK
<1> QED BY <1>1, TypeStep, PTL DEF Spec

---------------------------------------------------------------------------
\* What an editor works on, and what its save resets, is its to update: the
\* access checks were made when the entity and the old defaults were loaded.
PermittedInv ==
  /\ TypeOK
  /\ \A e \in Editor : edit[e] # Idle =>
       edit[e].of \in Allowed[e] /\ edit[e].clear \subseteq Allowed[e]

\* Every step of an editor keeps PermittedInv.
LEMMA PermittedStep == PermittedInv /\ [Next]_vars => PermittedInv'
<1> SUFFICES ASSUME PermittedInv, [Next]_vars PROVE PermittedInv'
  OBVIOUS
<1>0. TypeOK /\ TypeOK'
  BY TypeStep DEF PermittedInv
<1> DEFINE Mine(e) == edit[e] # Idle =>
                        edit[e].of \in Allowed[e] /\ edit[e].clear \subseteq Allowed[e]
<1> SUFFICES ASSUME NEW f \in Editor PROVE Mine(f)'
  BY <1>0 DEF PermittedInv
<1>a. Mine(f)
  BY DEF PermittedInv
<1>1. ASSUME NEW e \in Editor, NEW c \in Consumer, Load(e, c) PROVE Mine(f)'
  BY <1>0, <1>1, <1>a DEF Load, Idle, TypeOK
<1>2. ASSUME NEW e \in Editor, NEW c \in Consumer, Delete(e, c) PROVE Mine(f)'
  BY <1>2, <1>a DEF Delete
<1>3. ASSUME NEW e \in Editor, NEW c \in Consumer, NEW flag \in NewFlags, Create(e, c, flag)
      PROVE Mine(f)'
  <2> DEFINE d == [step |-> "loaded", of |-> c, new |-> TRUE, flag |-> flag, clear |-> {}]
  <2>1. d \in Edit /\ d.of = c
    BY ConfigAssumption DEF Edit
  <2>2. Saving(e, d).of = c
    BY <1>0, <2>1, SavingType DEF TypeOK
  <2>3. Saving(e, d).clear \subseteq Allowed[e]
    BY <2>1, SavingIsPermitted
  <2>4. edit' = [edit EXCEPT ![e] = Saving(e, d)] /\ c \in Allowed[e]
    BY <1>3 DEF Create
  <2> HIDE DEF d
  <2> QED BY <1>0, <1>a, <2>2, <2>3, <2>4 DEF TypeOK
<1>4. ASSUME NEW e \in Editor, ConsumerForm(e) PROVE Mine(f)'
  <2>1. edit[e] \in Edit /\ edit[e].of \in Allowed[e]
    BY <1>4 DEF ConsumerForm, PermittedInv, TypeOK
  <2>2. Saving(e, edit[e]).of \in Allowed[e]
    BY <1>0, <2>1, SavingType DEF TypeOK
  <2>3. Saving(e, edit[e]).clear \subseteq Allowed[e]
    BY <2>1, SavingIsPermitted
  <2> QED BY <1>0, <1>4, <1>a, <2>2, <2>3 DEF ConsumerForm, TypeOK
<1>5. ASSUME NEW e \in Editor, MakeDefaultForm(e) PROVE Mine(f)'
  <2> DEFINE d == [edit[e] EXCEPT !.flag = TRUE]
  <2>1. d \in Edit /\ d.of \in Allowed[e]
    BY <1>5 DEF MakeDefaultForm, PermittedInv, TypeOK, Edit
  <2>2. Saving(e, d).of \in Allowed[e]
    BY <1>0, <2>1, SavingType DEF TypeOK
  <2>3. Saving(e, d).clear \subseteq Allowed[e]
    BY <2>1, SavingIsPermitted
  <2> QED BY <1>0, <1>5, <1>a, <2>2, <2>3 DEF MakeDefaultForm, TypeOK
<1>6. ASSUME NEW e \in Editor, Commit(e) PROVE Mine(f)'
  BY <1>0, <1>6, <1>a DEF Commit, TypeOK
<1>7. ASSUME NEW e \in Editor, Abandon(e) PROVE Mine(f)'
  BY <1>0, <1>7, <1>a DEF Abandon, TypeOK
<1>8. CASE UNCHANGED vars
  BY <1>8, <1>a DEF vars
<1> QED BY <1>1, <1>2, <1>3, <1>4, <1>5, <1>6, <1>7, <1>8 DEF Next

\* A consumer loses the flag only through an editor who may update it, however
\* many editors change defaults at once.
THEOREM DefaultsAreProtected == Spec => ProtectedDefault
<1> DEFINE Losing == \A c \in default \ default' :
                       \E e \in Editor : c \in Allowed[e] /\ (edit'[e] # edit[e] \/ c \notin exists')
<1>1. Init => PermittedInv
  BY DEF Init, PermittedInv, TypeOK
<1>2. PermittedInv /\ [Next]_vars => [Losing]_vars
  <2> SUFFICES ASSUME PermittedInv, Next, NEW c \in default \ default'
               PROVE \E e \in Editor : c \in Allowed[e] /\ (edit'[e] # edit[e] \/ c \notin exists')
    OBVIOUS
  <2>1. ASSUME NEW e \in Editor, NEW k \in Consumer, Delete(e, k)
        PROVE \E f \in Editor : c \in Allowed[f] /\ (edit'[f] # edit[f] \/ c \notin exists')
    BY <2>1 DEF Delete, PermittedInv, TypeOK
  <2>2. ASSUME NEW e \in Editor, Commit(e)
        PROVE \E f \in Editor : c \in Allowed[f] /\ (edit'[f] # edit[f] \/ c \notin exists')
    <3>1. c \in edit[e].clear \cup {edit[e].of}
      BY <2>2 DEF Commit, Flags
    <3>2. c \in Allowed[e]
      BY <2>2, <3>1 DEF Commit, PermittedInv
    <3>3. edit'[e] # edit[e]
      BY <2>2 DEF Commit, PermittedInv, TypeOK
    <3> QED BY <3>2, <3>3
  <2>3. \/ \E e \in Editor, k \in Consumer : Delete(e, k)
        \/ \E e \in Editor : Commit(e)
    BY DEF Next, Load, Create, ConsumerForm, MakeDefaultForm, Abandon
  <2> QED BY <2>1, <2>2, <2>3
<1> QED BY <1>1, <1>2, PermittedStep, PTL DEF Spec, ProtectedDefault

---------------------------------------------------------------------------
\* While editors work one at a time: there is one default, a save about to set the
\* flag resets every other one, and nobody works beside the editor who does.
SoloInv ==
  /\ TypeOK
  /\ ~disturbed =>
       /\ SingleDefault
       /\ \A e \in Editor : edit[e] # Idle => Alone(e)
       /\ \A e \in Editor : edit[e] # Idle /\ edit[e].step = "loaded" => ~edit[e].new
       /\ \A e \in Editor : edit[e] # Idle /\ edit[e].step = "saving" /\ edit[e].flag =>
            default \ edit[e].clear \subseteq {edit[e].of}

\* preSave() of a stored consumer, when there is one default.
LEMMA SavingTakesOver ==
  ASSUME NEW e \in Editor, NEW d \in Edit, ~d.new, SingleDefault
  PROVE  Saving(e, d).flag => default \ Saving(e, d).clear \subseteq {d.of}
BY DEF Saving, Edit, OtherDefaults, SingleDefault

\* A new consumer saved without the flag.
LEMMA SavingWithout ==
  ASSUME NEW e \in Editor, NEW d \in Edit, ~d.flag
  PROVE  ~Saving(e, d).flag
BY DEF Saving, Edit

\* Every step of an editor keeps SoloInv.
LEMMA SoloStep == SoloInv /\ [Next]_vars => SoloInv'
<1> SUFFICES ASSUME SoloInv, [Next]_vars PROVE SoloInv'
  OBVIOUS
<1>0. TypeOK /\ TypeOK'
  BY TypeStep DEF SoloInv
<1> DEFINE Takes(e) == edit[e] # Idle /\ edit[e].step = "saving" /\ edit[e].flag =>
                         default \ edit[e].clear \subseteq {edit[e].of}
           Stored(e) == edit[e] # Idle /\ edit[e].step = "loaded" => ~edit[e].new
           Solo(e) == edit[e] # Idle => Alone(e)
           Good == SingleDefault /\ \A e \in Editor : Solo(e) /\ Stored(e) /\ Takes(e)
<1> SUFFICES ASSUME ~disturbed' PROVE Good'
  BY <1>0 DEF SoloInv
<1>b. disturbed => disturbed'
  BY <1>0 DEF Next, Load, Create, ConsumerForm, MakeDefaultForm, Commit, Abandon, Delete,
              vars, TypeOK
<1>a. Good
  BY <1>b DEF SoloInv
<1>1. ASSUME NEW e \in Editor, NEW c \in Consumer, Load(e, c) PROVE Good'
  <2>1. Alone(e)
    BY <1>1 DEF Load
  <2>2. \A f \in Editor : f # e => edit'[f] = Idle
    BY <1>0, <1>1, <2>1 DEF Load, Alone, TypeOK
  <2>3. /\ edit'[e] = [step |-> "loaded", of |-> c, new |-> FALSE, flag |-> c \in default, clear |-> {}]
        /\ default' = default
    BY <1>0, <1>1 DEF Load, TypeOK
  <2>4. Alone(e)'
    BY <2>2 DEF Alone
  <2> QED BY <1>a, <2>2, <2>3, <2>4 DEF SingleDefault
<1>2. ASSUME NEW e \in Editor, NEW c \in Consumer, Delete(e, c) PROVE Good'
  <2>1. default' \subseteq default /\ edit' = edit
    BY <1>2 DEF Delete
  <2> QED BY <1>a, <2>1 DEF SingleDefault, Alone
<1>3. ASSUME NEW e \in Editor, NEW c \in Consumer, NEW flag \in NewFlags, Create(e, c, flag)
      PROVE Good'
  <2> DEFINE d == [step |-> "loaded", of |-> c, new |-> TRUE, flag |-> flag, clear |-> {}]
  <2>0. Alone(e) /\ ~flag
    BY <1>3 DEF Create
  <2>1. d \in Edit /\ ~d.flag
    BY <2>0, ConfigAssumption DEF Edit
  <2>2. ~Saving(e, d).flag /\ Saving(e, d).step = "saving"
    BY <1>0, <2>1, SavingType, SavingWithout DEF TypeOK
  <2>3. edit' = [edit EXCEPT ![e] = Saving(e, d)] /\ default' = default
    BY <1>3 DEF Create
  <2> HIDE DEF d
  <2>4. edit'[e] = Saving(e, d) /\ \A f \in Editor : f # e => edit'[f] = Idle
    BY <1>0, <2>0, <2>3 DEF Alone, TypeOK
  <2>5. Alone(e)'
    BY <2>4 DEF Alone
  <2> QED BY <1>a, <2>2, <2>3, <2>4, <2>5 DEF SingleDefault
<1>4. ASSUME NEW e \in Editor, NEW d \in Edit, ~d.new, d.of = edit[e].of, edit[e] # Idle,
             default' = default,
             \/ edit' = [edit EXCEPT ![e] = Saving(e, d)]
             \/ edit' = [edit EXCEPT ![e] = Idle]
      PROVE Good'
  <2>1. Saving(e, d).of = edit[e].of /\ Saving(e, d).step = "saving"
    BY <1>0, <1>4, SavingType DEF TypeOK
  <2>2. Saving(e, d).flag => default \ Saving(e, d).clear \subseteq {edit[e].of}
    BY <1>a, <1>4, SavingTakesOver
  <2>3. \A f \in Editor : f # e => edit'[f] = Idle
    BY <1>0, <1>4, <1>a DEF Alone, TypeOK
  <2>4. Alone(e)'
    BY <2>3 DEF Alone
  <2>5. edit'[e] = Saving(e, d) \/ edit'[e] = Idle
    BY <1>0, <1>4 DEF TypeOK
  <2> QED BY <1>a, <1>4, <2>1, <2>2, <2>3, <2>4, <2>5 DEF SingleDefault
<1>5. ASSUME NEW e \in Editor, ConsumerForm(e) PROVE Good'
  <2>1. edit[e] \in Edit /\ ~edit[e].new /\ edit[e] # Idle
    BY <1>0, <1>5, <1>a DEF ConsumerForm, TypeOK
  <2> QED BY <1>4, <1>5, <2>1 DEF ConsumerForm
<1>6. ASSUME NEW e \in Editor, MakeDefaultForm(e) PROVE Good'
  <2> DEFINE d == [edit[e] EXCEPT !.flag = TRUE]
  <2>1. edit[e] \in Edit /\ ~edit[e].new /\ edit[e] # Idle
    BY <1>0, <1>6, <1>a DEF MakeDefaultForm, TypeOK
  <2>2. d \in Edit /\ ~d.new /\ d.of = edit[e].of
    BY <2>1 DEF Edit
  <2>3. /\ default' = default
        /\ \/ edit' = [edit EXCEPT ![e] = Saving(e, d)]
           \/ edit' = [edit EXCEPT ![e] = Idle]
    BY <1>6 DEF MakeDefaultForm
  <2> HIDE DEF d
  <2> QED BY <1>4, <2>1, <2>2, <2>3
<1>7. ASSUME NEW e \in Editor, Commit(e) PROVE Good'
  <2>1. SingleDefault'
    <3>1. CASE edit[e].flag
      BY <1>7, <1>a, <3>1 DEF Commit, Flags, SingleDefault
    <3>2. CASE ~edit[e].flag
      BY <1>7, <1>a, <3>2 DEF Commit, Flags, SingleDefault
    <3> QED BY <3>1, <3>2
  <2>2. \A f \in Editor : edit'[f] = Idle
    BY <1>0, <1>7, <1>a DEF Commit, Alone, TypeOK
  <2> QED BY <2>1, <2>2
<1>8. ASSUME NEW e \in Editor, Abandon(e) PROVE Good'
  <2>1. \A f \in Editor : edit'[f] = Idle
    BY <1>0, <1>8, <1>a DEF Abandon, Alone, TypeOK
  <2> QED BY <1>8, <1>a, <2>1 DEF Abandon, SingleDefault
<1>9. CASE UNCHANGED vars
  BY <1>9, <1>a DEF vars, SingleDefault, Alone
<1> QED BY <1>1, <1>2, <1>3, <1>5, <1>6, <1>7, <1>8, <1>9 DEF Next

\* There is one default at the beginning, and nobody at work.
LEMMA SoloInit == Init => SoloInv
BY DEF Init, SoloInv, TypeOK, SingleDefault, Idle

\* With one editor at a time, and consumers created without the flag, there is never
\* more than one default consumer.
THEOREM OneEditorOneDefault == Spec => []SingleWhenAlone
<1>1. SoloInv => SingleWhenAlone
  BY DEF SoloInv, SingleWhenAlone
<1> QED BY <1>1, SoloInit, SoloStep, PTL DEF Spec

---------------------------------------------------------------------------
\* While editors work one at a time, the consumer that one works on is there, has
\* the flag in the editor's copy if it has it in the table, and a save that resets
\* others sets it.
KeptInv ==
  /\ SoloInv
  /\ ~disturbed => \A e \in Editor : edit[e] # Idle =>
       /\ edit[e].new \/ edit[e].of \in exists
       /\ edit[e].of \in default => edit[e].flag
       /\ edit[e].clear # {} => edit[e].flag

\* preSave() keeps the flag of a default, and resets others only to set it.
LEMMA SavingKeeps ==
  ASSUME NEW e \in Editor, NEW d \in Edit, default \subseteq exists,
         d.new => d.of \notin exists, d.of \in default => d.flag
  PROVE  /\ d.of \in default => Saving(e, d).flag
         /\ Saving(e, d).clear # {} => Saving(e, d).flag
         /\ Saving(e, d).new = d.new
BY DEF Saving, Edit, OtherDefaults

\* Every step of an editor keeps KeptInv.
LEMMA KeptStep == KeptInv /\ [Next]_vars => KeptInv'
<1> SUFFICES ASSUME KeptInv, [Next]_vars PROVE KeptInv'
  OBVIOUS
<1>0. SoloInv /\ SoloInv' /\ TypeOK /\ TypeOK'
  BY SoloStep DEF KeptInv, SoloInv
<1> DEFINE Kept(e) == edit[e] # Idle =>
                        /\ edit[e].new \/ edit[e].of \in exists
                        /\ edit[e].of \in default => edit[e].flag
                        /\ edit[e].clear # {} => edit[e].flag
<1> SUFFICES ASSUME ~disturbed', NEW f \in Editor PROVE Kept(f)'
  BY <1>0 DEF KeptInv
<1>b. ~disturbed
  BY <1>0 DEF Next, Load, Create, ConsumerForm, MakeDefaultForm, Commit, Abandon, Delete,
              vars, TypeOK
<1>a. Kept(f)
  BY <1>b DEF KeptInv
<1>c. ASSUME NEW e \in Editor, edit[e] # Idle
      PROVE  /\ edit[e] \in Edit /\ Kept(e)
             /\ edit[e].step = "loaded" => ~edit[e].new
             /\ f # e => edit[f] = Idle
  BY <1>0, <1>b, <1>c DEF KeptInv, SoloInv, Alone, TypeOK
<1>d. ASSUME NEW e \in Editor, NEW d \in Edit, default' = default, exists' = exists,
             d.new => d.of \notin exists, d.of \in default => d.flag,
             d.new \/ d.of \in exists, f # e => edit[f] = Idle,
             \/ edit' = [edit EXCEPT ![e] = Saving(e, d)]
             \/ edit' = [edit EXCEPT ![e] = Idle]
      PROVE  Kept(f)'
  <2>1. default \subseteq exists /\ default \subseteq Consumer
    BY <1>0 DEF TypeOK
  <2>2. /\ d.of \in default => Saving(e, d).flag
        /\ Saving(e, d).clear # {} => Saving(e, d).flag
        /\ Saving(e, d).new = d.new
    BY <1>d, <2>1, SavingKeeps
  <2>3. Saving(e, d).of = d.of
    BY <2>1, SavingType
  <2>4. CASE f # e
    BY <1>0, <1>d, <2>4 DEF TypeOK
  <2>5. CASE f = e
    BY <1>0, <1>d, <2>2, <2>3, <2>5 DEF TypeOK
  <2> QED BY <2>4, <2>5
<1>1. ASSUME NEW e \in Editor, NEW c \in Consumer, Load(e, c) PROVE Kept(f)'
  BY <1>0, <1>1, <1>a DEF Load, TypeOK
<1>2. ASSUME NEW e \in Editor, NEW c \in Consumer, Delete(e, c) PROVE Kept(f)'
  <2>1. edit' = edit /\ edit[f] = Idle
    BY <1>2 DEF Delete, Alone
  <2> QED BY <2>1
<1>3. ASSUME NEW e \in Editor, NEW c \in Consumer, NEW flag \in NewFlags, Create(e, c, flag)
      PROVE Kept(f)'
  <2> DEFINE d == [step |-> "loaded", of |-> c, new |-> TRUE, flag |-> flag, clear |-> {}]
  <2>0. Alone(e) /\ flag \in BOOLEAN /\ c \notin exists /\ c \notin default
    BY <1>0, <1>3, ConfigAssumption DEF Create, TypeOK
  <2>1. d \in Edit /\ d.new /\ d.of = c
    BY <2>0 DEF Edit
  <2>2. edit' = [edit EXCEPT ![e] = Saving(e, d)] /\ default' = default /\ exists' = exists
    BY <1>3 DEF Create
  <2>3. f # e => edit[f] = Idle
    BY <2>0 DEF Alone
  <2> HIDE DEF d
  <2> QED BY <1>d, <2>0, <2>1, <2>2, <2>3
<1>4. ASSUME NEW e \in Editor, ConsumerForm(e) PROVE Kept(f)'
  <2>1. edit[e] # Idle /\ edit[e].step = "loaded"
    BY <1>4 DEF ConsumerForm
  <2>2. edit[e] \in Edit /\ ~edit[e].new /\ Kept(e) /\ (f # e => edit[f] = Idle)
    BY <1>c, <2>1
  <2>3. edit[e].new = FALSE
    BY <2>2 DEF Edit
  <2> QED BY <1>4, <1>d, <2>1, <2>2, <2>3 DEF ConsumerForm
<1>5. ASSUME NEW e \in Editor, MakeDefaultForm(e) PROVE Kept(f)'
  <2> DEFINE d == [edit[e] EXCEPT !.flag = TRUE]
  <2>1. edit[e] # Idle /\ edit[e].step = "loaded"
    BY <1>5 DEF MakeDefaultForm
  <2>2. edit[e] \in Edit /\ ~edit[e].new /\ Kept(e) /\ (f # e => edit[f] = Idle)
    BY <1>c, <2>1
  <2>3. d \in Edit /\ d.new = FALSE /\ d.flag /\ d.of = edit[e].of
    BY <2>2 DEF Edit
  <2>4. /\ default' = default /\ exists' = exists
        /\ \/ edit' = [edit EXCEPT ![e] = Saving(e, d)]
           \/ edit' = [edit EXCEPT ![e] = Idle]
    BY <1>5 DEF MakeDefaultForm
  <2> HIDE DEF d
  <2> QED BY <1>d, <2>1, <2>2, <2>3, <2>4
<1>6. ASSUME NEW e \in Editor, Commit(e) PROVE Kept(f)'
  <2>1. edit' = [edit EXCEPT ![e] = Idle] /\ (f # e => edit[f] = Idle)
    BY <1>6, <1>c DEF Commit
  <2>2. edit'[f] = Idle
    BY <1>0, <2>1 DEF TypeOK
  <2> QED BY <2>2 DEF Idle
<1>7. ASSUME NEW e \in Editor, Abandon(e) PROVE Kept(f)'
  BY <1>0, <1>7, <1>a DEF Abandon, TypeOK
<1>8. CASE UNCHANGED vars
  BY <1>8, <1>a DEF vars
<1> QED BY <1>1, <1>2, <1>3, <1>4, <1>5, <1>6, <1>7, <1>8 DEF Next

\* As long as one editor works at a time, no save leaves the site without a default.
THEOREM SavesKeepADefault == Spec => DefaultKept
<1> DEFINE Keeping == ~disturbed /\ default # {} /\ exists \subseteq exists' => default' # {}
<1>1. Init => KeptInv
  BY SoloInit DEF Init, KeptInv
<1>2. KeptInv /\ [Next]_vars => [Keeping]_vars
  <2> SUFFICES ASSUME KeptInv, Next, ~disturbed, default # {}, exists \subseteq exists'
               PROVE default' # {}
    OBVIOUS
  <2>0. TypeOK
    BY DEF KeptInv, SoloInv
  <2>1. ASSUME NEW e \in Editor, NEW c \in Consumer, Delete(e, c) PROVE default' # {}
    BY <2>1 DEF Delete
  <2>2. ASSUME NEW e \in Editor, Commit(e) PROVE default' # {}
    <3>1. /\ edit[e].new \/ edit[e].of \in exists
          /\ edit[e].of \in default => edit[e].flag
          /\ edit[e].clear # {} => edit[e].flag
      BY <2>2 DEF Commit, KeptInv
    <3> QED BY <2>2, <3>1 DEF Commit, Flags
  <2>3. \/ \E e \in Editor, k \in Consumer : Delete(e, k)
        \/ \E e \in Editor : Commit(e)
        \/ default' = default
    BY DEF Next, Load, Create, ConsumerForm, MakeDefaultForm, Abandon
  <2> QED BY <2>1, <2>2, <2>3
<1> QED BY <1>1, <1>2, KeptStep, PTL DEF Spec, DefaultKept
===========================================================================
