---------------------------- MODULE Subrequests ----------------------------
(* A blueprint of subrequests, from the parsed list to the responses that    *)
(* the front controller combines.  JsonBlueprintDenormalizer orders the      *)
(* subrequests into the levels of a SubrequestsTree, SubrequestsManager runs *)
(* the levels one after the other, and JsonPathReplacer turns a subrequest   *)
(* with tokens into one copy per combination of the values its tokens find.  *)
(*                                                                           *)
(* A token {{id.body@path}} is known by the id it refers to; what a response *)
(* holds is the number of values that a path finds in it.                    *)
EXTENDS Integers

CONSTANTS
  Id, Root,      \* request ids, and the '<ROOT>' that stands for no dependency
  Contains,      \* Contains[x]: the ids that the text x occurs in
  Blueprints,    \* the blueprints that clients send
  MaxValues      \* bound: values that a path finds in one response

\* Subrequest::waitFor is never empty: fillDefaults() puts '<ROOT>' there.
Subrequest == [waitFor: SUBSET (Id \cup {Root}) \ {{}}, uri: SUBSET Id, body: SUBSET Id]

ASSUME ConfigAssumption ==
  /\ Root \notin Id
  /\ Contains \in [Id -> SUBSET Id] /\ \A x \in Id : x \in Contains[x]
  /\ \A b \in Blueprints : DOMAIN b \subseteq Id /\ b \in [DOMAIN b -> Subrequest]
  /\ MaxValues \in Nat

VARIABLES
  blueprint,  \* the subrequests, by their requestId
  level,      \* level[i]: the level of the tree that i is stacked on, 0 if none
  levels,     \* the number of levels
  current,    \* the level to run
  responses,  \* the responses so far: their content id and what they hold
  status

vars == <<blueprint, level, levels, current, responses, status>>

Requests == DOMAIN blueprint
Stacked  == {i \in Requests : level[i] > 0}
WaitsFor(i) == blueprint[i].waitFor \ {Root}

---------------------------------------------------------------------------
(* The execution sequence.                                                 *)

Pending == {i \in Requests : level[i] = 0}

\* Mutants: '<ROOT>' is not in allIds(); one resolved dependency is enough.
ReadyWithoutRoot(i) == i \in Pending /\ blueprint[i].waitFor \subseteq Stacked
ReadyWithAny(i)     == i \in Pending /\ blueprint[i].waitFor \cap (Stacked \cup {Root}) # {}

\* array_diff(waitFor, allIds()) is empty.
Ready(i) == i \in Pending /\ blueprint[i].waitFor \subseteq Stacked \cup {Root}

\* Mutants: what was stacked stays in the list; what is only waited for is
\* stacked as well.
StackAgain ==
  /\ status = "build" /\ Pending # {}
  /\ \E i \in Pending : Ready(i)
  /\ UNCHANGED vars
StackUnknown ==
  /\ status = "build" /\ Pending # {}
  /\ \E i \in Pending : Ready(i)
  /\ level' = [i \in Requests \cup UNION {WaitsFor(j) : j \in Requests} |->
       IF i \in Requests /\ level[i] > 0 THEN level[i] ELSE levels + 1]
  /\ levels' = levels + 1
  /\ UNCHANGED <<blueprint, current, responses, status>>

Stack ==
  /\ status = "build" /\ Pending # {}
  /\ \E i \in Pending : Ready(i)
  /\ level' = [i \in Requests |-> IF Ready(i) THEN levels + 1 ELSE level[i]]
  /\ levels' = levels + 1
  /\ UNCHANGED <<blueprint, current, responses, status>>

\* "Waiting for unresolvable request. Abort."
Abort ==
  /\ status = "build" /\ Pending # {}
  /\ \A i \in Pending : ~Ready(i)
  /\ status' = "unresolvable"
  /\ UNCHANGED <<blueprint, level, levels, current, responses>>

Run ==
  /\ status = "build" /\ Pending = {}
  /\ status' = "run"
  /\ UNCHANGED <<blueprint, level, levels, current, responses>>

---------------------------------------------------------------------------
(* Tokens.                                                                 *)

NotScalar == -1
Answer    == NotScalar..MaxValues

\* The responses that a token refers to.  The pattern /id(#.*)?/ matches the
\* copies of a subrequest; it is not anchored.
Subjects(x) == {r \in responses : r.cid.of \in Contains[x]}

Values(x) == UNION {{<<r.cid, k>> : k \in 1..r.answer} : r \in Subjects(x)}

\* One value for every token of a location.
Points(tokens) ==
  {p \in [tokens -> UNION {Values(x) : x \in tokens}] :
     \A x \in tokens : p[x] \in Values(x)}

\* Mutant: a token that the URI has replaced is not replaced in the body.
CopiesOfUri(i) ==
  {[of |-> i, uri |-> u, body |-> b] :
     u \in Points(blueprint[i].uri), b \in Points(blueprint[i].body \ blueprint[i].uri)}

\* The copies of a subrequest, named by their content id: the id followed by the
\* index of the point of the URI and that of the body.
Copies(i) ==
  {[of |-> i, uri |-> u, body |-> b] :
     u \in Points(blueprint[i].uri), b \in Points(blueprint[i].body)}

Tokens(i) == blueprint[i].uri \cup blueprint[i].body

\* A token without a subject, or with a value that is not a scalar.
BadToken(i) ==
  \E x \in Tokens(i) :
    Subjects(x) = {} \/ \E r \in Subjects(x) : r.answer = NotScalar

---------------------------------------------------------------------------
(* Running a level: replaceBatch(), then handle() for every copy.          *)

Level == {i \in Requests : level[i] = current}
Batch == UNION {Copies(i) : i \in Level}

\* Some token reads the responses of i; the others hold whatever they hold.
Read(i) == \E j \in Requests : \E x \in Tokens(j) : i \in Contains[x]

Process ==
  /\ status = "run"
  /\ \A i \in Level : ~BadToken(i)
  /\ \E answer \in [{c \in Batch : Read(c.of)} -> Answer] :
       responses' = responses \cup
         {[cid |-> c, answer |-> IF Read(c.of) THEN answer[c] ELSE 0] : c \in Batch}
  /\ current' = current + 1
  /\ status' = IF current = levels THEN "done" ELSE "run"
  /\ UNCHANGED <<blueprint, level, levels>>

\* The earlier levels have run; their responses are lost.
Reject ==
  /\ status = "run"
  /\ \E i \in Level : BadToken(i)
  /\ status' = "badToken"
  /\ UNCHANGED <<blueprint, level, levels, current, responses>>

\* The first level holds the subrequests that wait for '<ROOT>' alone, and may
\* be empty.
Init ==
  /\ blueprint \in Blueprints
  /\ level = [i \in Requests |-> IF blueprint[i].waitFor = {Root} THEN 1 ELSE 0]
  /\ levels = 1 /\ current = 1
  /\ responses = {} /\ status = "build"

Next == Stack \/ Abort \/ Run \/ Process \/ Reject

Spec == Init /\ [][Next]_vars

\* One PHP process runs the blueprint from start to end.
FairSpec == Spec /\ WF_vars(Next)

---------------------------------------------------------------------------
\* buildExecutionSequence() stacks the subrequests of the blueprint and nothing
\* else, and every response belongs to one of them.
TypeOK ==
  /\ Requests \subseteq Id /\ blueprint \in [Requests -> Subrequest]
  /\ level \in [Requests -> Nat]
  /\ levels \in Nat /\ current \in Nat
  /\ \A r \in responses : r.cid.of \in Requests /\ r.answer \in Answer
  /\ status \in {"build", "unresolvable", "run", "badToken", "done"}

\* A subrequest is processed only when each request that it waits for has been
\* answered by a level that ran before; or when that request has no copy at all,
\* one of its tokens finding no value in the responses, so that it will never be
\* answered.
DependenciesFirst ==
  [][\A r \in responses' \ responses : \A w \in WaitsFor(r.cid.of) :
       /\ w \in Requests
       /\ \/ \E q \in responses : q.cid.of = w
          \/ \E x \in Tokens(w) : Values(x) = {}]_vars

\* Subrequests none of which can ever be the first: each waits for another one
\* of them, or for an id that is not in the blueprint.
Stuck(S) ==
  \A i \in S : \E w \in WaitsFor(i) : w \in S \/ w \notin Requests

\* buildExecutionSequence() gives up on the blueprints that have such
\* subrequests, and on no others.
AbortsIfStuck ==
  LET stuck == \E S \in SUBSET Requests : S # {} /\ Stuck(S)
  IN /\ status = "unresolvable" => stuck
     /\ status \in {"run", "badToken", "done"} => ~stuck

\* In the end a copy of a subrequest was answered exactly for every combination
\* of values, one per token and location, that the answers to the subrequests
\* named by its tokens hold, whichever level these ran on; provided no id occurs
\* in another.
CopiesAreComplete ==
  LET Held  == {<<r.cid, k>> : r \in responses, k \in 1..MaxValues}
      Finds(x, v) == v[1].of = x /\ \E r \in responses : r.cid = v[1] /\ v[2] <= r.answer
  IN status = "done" =>
       \A i \in Requests :
         \A u \in [blueprint[i].uri -> Held], d \in [blueprint[i].body -> Held] :
           (\E r \in responses : r.cid = [of |-> i, uri |-> u, body |-> d])
             <=> /\ \A x \in blueprint[i].uri  : Finds(x, u[x])
                 /\ \A x \in blueprint[i].body : Finds(x, d[x])

\* A blueprint is answered or refused, whatever waits for what.
Terminates == <>(status \in {"unresolvable", "badToken", "done"})

\* SPECIFICATION.md: "The replacement data will be extracted from the response
\* to the request indicated by the request ID in the replacement token."
TokensReadTheirRequest ==
  \A r \in responses :
    /\ \A x \in DOMAIN r.cid.uri  : r.cid.uri[x][1].of = x
    /\ \A x \in DOMAIN r.cid.body : r.cid.body[x][1].of = x

\* SPECIFICATION.md, of waitFor: a subrequest "cannot be processed until the
\* referenced request has generated a response".
ResponsesFirst ==
  \A r \in responses : \A w \in WaitsFor(r.cid.of) : \E q \in responses : q.cid.of = w
===========================================================================
