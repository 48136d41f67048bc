-------------------------- MODULE ConsumerDefault --------------------------
(* Which consumer carries the is_default flag.  Consumer::preSave() clears   *)
(* the flag of the others when a save sets it; MakeDefaultForm, ConsumerForm *)
(* and the delete form are the operations.  An editor is a PHP process: it   *)
(* loads the entity, and later saves it in one transaction, whose reads see  *)
(* the database as it was when the transaction began.                        *)
EXTENDS Naturals, FiniteSets

CONSTANTS
  Consumer,
  Editor,    \* processes that edit consumers at the same time
  Allowed,   \* Allowed[e]: the consumers that editor e may update and delete
  NewFlags   \* values of is_default that a consumer is created with

ASSUME ConfigAssumption ==
  /\ Allowed \in [Editor -> SUBSET Consumer]
  /\ NewFlags \subseteq BOOLEAN

VARIABLES
  exists,    \* the stored consumers
  default,   \* those with is_default set
  edit,      \* edit[e]: the entity editor e works on
  disturbed  \* history: editors have worked at the same time, or a consumer was
             \* created as the default

vars == <<exists, default, edit, disturbed>>


Idle == [step |-> "idle"]
Alone(e) == \A f \in Editor : f # e => edit[f] = Idle

\* "flag" is is_default in the loaded object, "clear" the old defaults that the
\* running save resets.
Edit == [step: {"loaded", "saving"}, of: Consumer, new: BOOLEAN, flag: BOOLEAN,
         clear: SUBSET Consumer]

---------------------------------------------------------------------------
\* The old defaults that removeDefaultConsumerFlags() looks for.  A new entity
\* has no id yet, and "id != NULL" is true of no row.
OtherDefaults(c, new) == IF new THEN {} ELSE default \ {c}

\* Mutants: the others are left alone; the access check is left out; the old
\* defaults are reset before it.
SavingKeepsOthers(e, d) == [d EXCEPT !.step = "saving"]
SavingUnchecked(e, d) ==
  [d EXCEPT !.step = "saving", !.clear = OtherDefaults(d.of, d.new)]
SavingClearsFirst(e, d) ==
  LET takesOver == d.flag /\ (d.new \/ d.of \notin default)
      others    == IF takesOver THEN OtherDefaults(d.of, d.new) ELSE {}
  IN [d EXCEPT !.step  = "saving",
               !.flag  = d.flag /\ others \subseteq Allowed[e],
               !.clear = others]

\* preSave(): a save that turns the flag on clears the others; if the user may
\* not update one of them, the flag is dropped and the rest is saved.
Saving(e, d) ==
  LET takesOver == d.flag /\ (d.new \/ d.of \notin default)
      others    == IF takesOver THEN OtherDefaults(d.of, d.new) ELSE {}
      permitted == others \subseteq Allowed[e]
  IN [d EXCEPT !.step  = "saving",
               !.flag  = d.flag /\ permitted,
               !.clear = IF permitted THEN others ELSE {}]

\* The entity a form works on is loaded when its request begins.
Load(e, c) ==
  /\ edit[e] = Idle
  /\ c \in exists \cap Allowed[e]
  /\ edit' = [edit EXCEPT ![e] =
       [step |-> "loaded", of |-> c, new |-> FALSE, flag |-> c \in default, clear |-> {}]]
  /\ disturbed' = (disturbed \/ ~Alone(e))
  /\ UNCHANGED <<exists, default>>

Create(e, c, flag) ==
  /\ edit[e] = Idle
  /\ c \notin exists /\ c \in Allowed[e]
  /\ \A f \in Editor : edit[f] # Idle => edit[f].of # c
  /\ edit' = [edit EXCEPT ![e] =
       Saving(e, [step |-> "loaded", of |-> c, new |-> TRUE, flag |-> flag, clear |-> {}])]
  /\ disturbed' = (disturbed \/ ~Alone(e) \/ flag)
  /\ UNCHANGED <<exists, default>>

\* Saving an entity that was deleted meanwhile is an exception.
ConsumerForm(e) ==
  LET d == edit[e] IN
  /\ d # Idle /\ d.step = "loaded"
  /\ edit' = [edit EXCEPT ![e] = IF d.of \in exists THEN Saving(e, d) ELSE Idle]
  /\ UNCHANGED <<exists, default, disturbed>>

\* Nothing is saved when the loaded consumer is the default already.
MakeDefaultForm(e) ==
  LET d == edit[e] IN
  /\ d # Idle /\ d.step = "loaded"
  /\ edit' = [edit EXCEPT ![e] =
       IF ~d.flag /\ d.of \in exists THEN Saving(e, [d EXCEPT !.flag = TRUE]) ELSE Idle]
  /\ UNCHANGED <<exists, default, disturbed>>

\* Mutant: the flag is written for an entity that was deleted meanwhile.
FlagsOfDeleted(d) ==
  ((default \ d.clear) \ {d.of}) \cup (IF d.flag THEN {d.of} ELSE {})

\* What the transaction writes: the cleared defaults and the entity itself.
Flags(d) ==
  ((default \ d.clear) \ {d.of}) \cup
    (IF d.flag /\ (d.new \/ d.of \in exists) THEN {d.of} ELSE {})

Commit(e) ==
  LET d == edit[e] IN
  /\ d # Idle /\ d.step = "saving"
  /\ exists' = exists \cup (IF d.new THEN {d.of} ELSE {})
  /\ default' = Flags(d)
  /\ edit' = [edit EXCEPT ![e] = Idle]
  /\ UNCHANGED disturbed

\* The request ends without a save, or its transaction is rolled back.
Abandon(e) ==
  /\ edit[e] # Idle
  /\ edit' = [edit EXCEPT ![e] = Idle]
  /\ UNCHANGED <<exists, default, disturbed>>

Delete(e, c) ==
  /\ edit[e] = Idle
  /\ c \in exists \cap Allowed[e]
  /\ exists' = exists \ {c} /\ default' = default \ {c}
  /\ disturbed' = (disturbed \/ ~Alone(e))
  /\ UNCHANGED edit

\* consumers_install() creates the first default consumer.
Init ==
  /\ \E c \in Consumer : exists = {c} /\ default = {c}
  /\ edit = [e \in Editor |-> Idle]
  /\ disturbed = FALSE

Next ==
  \E e \in Editor :
    \/ \E c \in Consumer : Load(e, c) \/ Delete(e, c)
    \/ \E c \in Consumer, flag \in NewFlags : Create(e, c, flag)
    \/ ConsumerForm(e) \/ MakeDefaultForm(e) \/ Commit(e) \/ Abandon(e)

Spec == Init /\ [][Next]_vars

---------------------------------------------------------------------------
\* The flag is only ever on a stored consumer: save() and delete() of editors that
\* overlap leave no default consumer behind that does not exist.
TypeOK ==
  /\ exists \subseteq Consumer
  /\ default \subseteq exists
  /\ edit \in [Editor -> Edit \cup {Idle}]
  /\ disturbed \in BOOLEAN

\* Consumer.php:181: "There can only be one default consumer."
SingleDefault == \A c, d \in default : c = d

\* There is one default consumer as long as one editor works at a time and no
\* consumer is created as the default: whatever a save takes over, drops or fails
\* at, the flags it leaves are those of one consumer.
SingleWhenAlone == ~disturbed => SingleDefault

\* A consumer loses the flag only through an editor who may update it: the
\* access check of removeDefaultConsumerFlags() holds up against other saves
\* that change who is the default between the check and the commit.
ProtectedDefault ==
  [][\A c \in default \ default' :
       \E e \in Editor : c \in Allowed[e] /\ (edit'[e] # edit[e] \/ c \notin exists')]_vars

\* A save of one editor at a time, refused takeovers included, never takes the last
\* default away: only deleting it does, and from then on Negotiator finds none.
DefaultKept ==
  [][~disturbed /\ default # {} /\ exists \subseteq exists' => default' # {}]_vars
===========================================================================
