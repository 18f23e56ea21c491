------------------------------ MODULE StagedStore ------------------------------
(***************************************************************************)
(* What the configuration store promises: a value is staged in memory and  *)
(* becomes durable when some task writes its key; a reset throws away what *)
(* is only staged, and leaves a key that was being written old or new.     *)
(* Only a write that fails may lose its key.  A key staged by one task     *)
(* while another writes it is torn: anything may become durable.           *)
(*                                                                         *)
(* It does not promise to load: the first write of a key creates it, and a *)
(* reset that finds a key created and without a value may leave a store    *)
(* that never loads.  Nothing else does.                                   *)
(***************************************************************************)
CONSTANTS Tasks, Keys, Values, Unset, Torn

VARIABLES
  staged,     \* what a get returns
  committed,  \* what a reset leaves
  created,    \* keys that were created and have no value
  loaded,     \* the store is in use
  writing,    \* <<task, key>>: the task is writing the key
  torn,       \* the writes during which another task staged the key
  failed      \* the writes that failed

vars == <<staged, committed, created, loaded, writing, torn, failed>>

Init ==
  /\ staged = [k \in Keys |-> Unset] /\ committed = [k \in Keys |-> Unset]
  /\ created = {} /\ loaded = TRUE
  /\ writing = {} /\ torn = {} /\ failed = {}

Stage(k, v) ==
  /\ loaded
  /\ staged' = [staged EXCEPT ![k] = v]
  /\ torn' = torn \cup {w \in writing : w[2] = k}
  /\ UNCHANGED <<committed, created, loaded, writing, failed>>

Begin(t, k) ==
  /\ loaded /\ staged[k] # Unset
  /\ writing' = writing \cup {<<t, k>>}
  /\ UNCHANGED <<staged, committed, created, loaded, torn, failed>>

Creates(t, k) ==
  /\ <<t, k>> \in writing
  /\ committed[k] = Unset
  /\ created' = created \cup {k}

Create(t, k) ==
  /\ Creates(t, k)
  /\ UNCHANGED <<staged, committed, loaded, writing, torn, failed>>

End(t, k) ==
  /\ <<t, k>> \in writing
  /\ writing' = writing \ {<<t, k>>}
  /\ torn' = torn \ {<<t, k>>} /\ failed' = failed \ {<<t, k>>}
  /\ UNCHANGED <<staged, loaded>>

Persist(t, k) ==
  /\ End(t, k) /\ <<t, k>> \notin failed
  /\ \E v \in IF <<t, k>> \in torn THEN Values \cup {Torn} ELSE {staged[k]} :
       committed' = [committed EXCEPT ![k] = v]
  /\ created' = created \ {k}

Error(t, k) ==
  /\ <<t, k>> \in writing
  /\ failed' = failed \cup {<<t, k>>}
  /\ UNCHANGED <<staged, committed, created, loaded, writing, torn>>

Lose(t, k) ==
  /\ End(t, k) /\ <<t, k>> \in failed
  /\ committed' = [committed EXCEPT ![k] = Unset]
  /\ created' = created \ {k}

GiveUp(t, k) ==
  /\ End(t, k)
  /\ Creates(t, k) \/ UNCHANGED created
  /\ UNCHANGED committed

Restart ==
  /\ writing' = {} /\ torn' = {} /\ failed' = {}
  /\ UNCHANGED <<committed, created>>

Load ==
  /\ staged' \in [Keys -> Values \cup {Unset, Torn}]
  /\ \A k \in Keys : staged'[k] \in {committed[k], Unset}
  /\ loaded' = TRUE
  /\ Restart

LoadFails ==
  /\ created # {}
  /\ staged' = [k \in Keys |-> Unset]
  /\ loaded' = FALSE
  /\ Restart

Next ==
  \/ Load \/ LoadFails
  \/ \E k \in Keys : \/ \E v \in Values : Stage(k, v)
                     \/ \E t \in Tasks : Begin(t, k) \/ Create(t, k) \/ Persist(t, k)
                                        \/ Error(t, k) \/ Lose(t, k) \/ GiveUp(t, k)

Spec == Init /\ [][Next]_vars
=============================================================================
