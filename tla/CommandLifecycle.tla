--------------------------- MODULE CommandLifecycle ---------------------------
(***************************************************************************)
(* What the MQTT agent promises about command structures and callbacks,    *)
(* with no pool, queue or pending list: a structure goes round the cycle   *)
(* free -> building -> submitted -> called -> free, or back from building  *)
(* to free when the call fails; the callback of an accepted call runs      *)
(* exactly once, before the structure can serve another call.              *)
(***************************************************************************)
EXTENDS Integers, FiniteSets

CONSTANTS
  Commands,   \* the command structures
  Callers,    \* the tasks that submit requests
  NoCaller    \* the owner of a cleared structure, not a caller

VARIABLES
  stage,   \* where each command structure is in its cycle
  owner,   \* the caller whose callback the structure names
  owed     \* accepted calls whose callback has not run yet, per caller

vars == <<stage, owner, owed>>

Stages == {"free", "building", "submitted", "called"}

Init ==
  /\ stage = [m \in Commands |-> "free"]
  /\ owner \in [Commands -> Callers \cup {NoCaller}]
  /\ owed = [c \in Callers |-> 0]

Move(m, from, to) ==
  /\ stage[m] = from
  /\ stage' = [stage EXCEPT ![m] = to]

\* A caller gets a structure.
Take(m) == Move(m, "free", "building") /\ UNCHANGED <<owner, owed>>

\* The caller writes its request, and itself as the owner, into the structure
\* (or leaves it cleared, when the request is refused).
Fill(m, c) ==
  /\ stage[m] = "building"
  /\ owner' = [owner EXCEPT ![m] = c]
  /\ UNCHANGED <<stage, owed>>

\* The agent accepts the request: it owes the caller one callback.
Submit(m) ==
  /\ owner[m] # NoCaller
  /\ Move(m, "building", "submitted")
  /\ owed' = [owed EXCEPT ![owner[m]] = @ + 1]
  /\ UNCHANGED owner

\* The call fails and the structure goes back unused.
Abandon(m) == Move(m, "building", "free") /\ UNCHANGED <<owner, owed>>

\* The callback runs.
CallBack(m) ==
  /\ Move(m, "submitted", "called")
  /\ owed' = [owed EXCEPT ![owner[m]] = @ - 1]
  /\ UNCHANGED owner

\* The structure may be used again.
Return(m) == Move(m, "called", "free") /\ UNCHANGED <<owner, owed>>

Next == \E m \in Commands :
  \/ Take(m)
  \/ \E c \in Callers \cup {NoCaller} : Fill(m, c)
  \/ Submit(m)
  \/ Abandon(m)
  \/ CallBack(m)
  \/ Return(m)

Spec == Init /\ [][Next]_vars

\* The type of every variable.
TypeOK ==
  /\ stage \in [Commands -> Stages]
  /\ owner \in [Commands -> Callers \cup {NoCaller}]
  /\ owed \in [Callers -> Int]

\* The commands submitted for caller c.
SubmittedFor(c) == {m \in Commands : stage[m] = "submitted" /\ owner[m] = c}

\* Each caller is owed as many callbacks as it has submitted commands: no
\* accepted call of MQTTAgent_Publish, _Subscribe or _Unsubscribe is
\* forgotten and none is answered twice.
OwedIsSubmitted == \A c \in Callers : owed[c] = Cardinality(SubmittedFor(c))
=============================================================================
