---------------------------- MODULE KVStoreProofs ----------------------------
(***************************************************************************)
(* Proofs about KVStore for any number of keys and any values.  The        *)
(* invariant says what the cache, the flags of pending changes and the     *)
(* files have to do with each other (StoreInv), and what a task that is    *)
(* inside a commit still knows of the entry it writes, though the other    *)
(* task sets it meanwhile (WriterInv).                                     *)
(***************************************************************************)
EXTENDS KVStore, TLAPS

InFile == {"open", "write", "close", "remove"}

\* A key that is not pending is durable, or was not found at the boot; what
\* is pending has been set by a task.
StoreInv ==
  /\ cache = meant
  /\ \A k \in Keys : pending[k] => meant[k] \in Values
  /\ \A k \in Keys : ~pending[k] => meant[k] \in {file[k], Unset}

\* A task writes a pending key; until another task sets it, what it writes
\* is the value of the key.
WriterInv(t) ==
  /\ pc[t] # "idle" => at[t] # 0 /\ running
  /\ pc[t] \in InFile => pending[at[t]]
  /\ stale[t] => pc[t] \in InFile /\ at[t] \in disturbed[t]
  /\ pc[t] = "remove" => buffer[t] = Erred
  /\ buffer[t] = Erred => pc[t] \in {"close", "remove"}
  /\ pc[t] = "close" /\ buffer[t] # Erred =>
       buffer[t] \in Values \cup {Torn} /\ (~stale[t] => buffer[t] = meant[at[t]])

Inv == TypeOK /\ StoreInv /\ \A t \in Tasks : WriterInv(t)

USE StoreAssumption DEF Tasks, Keys

\* The initial state.
LEMMA InvInit == Init => Inv
<1> SUFFICES ASSUME Init PROVE Inv
  OBVIOUS
<1>1. TypeOK
  BY DEF Init, TypeOK, EachTask
<1>2. StoreInv
  BY DEF Init, StoreInv
<1>3. \A t \in Tasks : WriterInv(t)
  BY DEF Init, WriterInv, EachTask, InFile
<1>4. QED
  BY <1>1, <1>2, <1>3 DEF Inv

\* A set makes its key pending or finds it as it is; whoever writes that key
\* is disturbed.
LEMMA InvSet ==
  ASSUME Inv, NEW t \in Tasks, NEW k \in Keys, NEW v \in Values, Set(t, k, v)
  PROVE  Inv'
<1> USE DEF Inv
<1>1. /\ \A l \in Keys : meant'[l] = IF l = k THEN v ELSE meant[l]
      /\ \A l \in Keys : cache'[l] = IF l = k THEN v ELSE cache[l]
      /\ \A l \in Keys : pending[l] => pending'[l]
      /\ pending'[k] \/ v = cache[k]
      /\ \A l \in Keys : l # k => pending'[l] = pending[l]
  BY DEF Set, TypeOK, Changes
<1>2. /\ meant' \in [Keys -> Values \cup {Unset, Torn}]
      /\ cache' \in [Keys -> Values \cup {Unset, Torn}]
  BY DEF Set, TypeOK
<1>3. pending' \in [Keys -> BOOLEAN]
  BY Zenon DEF Set, TypeOK, Changes
<1>4. /\ stale' \in [Tasks -> BOOLEAN]
      /\ \A u \in Tasks : stale'[u] <=> (stale[u] \/ (u # t /\ Writing(u, k)))
  BY DEF Set, TypeOK
<1>5. /\ disturbed' \in [Tasks -> SUBSET Keys]
      /\ \A u \in Tasks : disturbed[u] \subseteq disturbed'[u]
      /\ \A u \in Tasks : u # t /\ pc[u] # "idle" => k \in disturbed'[u]
  BY DEF Set, TypeOK, Disturb
<1>6. /\ pc[t] = "idle"
      /\ UNCHANGED <<file, running, pc, at, buffer, xSuccess>>
  BY DEF Set
<1>7. TypeOK'
  BY <1>2, <1>3, <1>4, <1>5, <1>6 DEF TypeOK
<1>8. StoreInv'
  <2>1. cache' = meant'
    BY <1>1, <1>2 DEF StoreInv
  <2>2. QED
    BY <1>1, <1>6, <2>1 DEF StoreInv
<1>9. ASSUME NEW u \in Tasks PROVE WriterInv(u)'
  <2>1. pc[u] \in InFile => at[u] \in Keys
    BY DEF TypeOK, InFile
  <2>2. CASE u = t
    BY <1>1, <1>4, <1>5, <1>6, <2>2 DEF WriterInv, InFile
  <2>3. CASE u # t
    BY <1>1, <1>4, <1>5, <1>6, <2>1, <2>3 DEF WriterInv, InFile, Writing
  <2>4. QED
    BY <2>2, <2>3
<1>10. QED
  BY <1>7, <1>8, <1>9

\* The next iteration leaves the other tasks where they are.
LEMMA InvContinue ==
  ASSUME Inv, NEW t \in Tasks, pc[t] \in InFile, NEW success \in BOOLEAN, Continue(t, success)
  PROVE  /\ pc' \in [Tasks -> {"idle", "next", "open", "write", "close", "remove"}]
         /\ at' \in [Tasks -> 0 .. NumKeys + 1]
         /\ \A u \in Tasks : pc'[u] \notin {"idle", "next"} => at'[u] \in Keys
         /\ buffer' \in [Tasks -> Values \cup {Unset, Torn, Erred}]
         /\ stale' \in [Tasks -> BOOLEAN] /\ xSuccess' \in [Tasks -> BOOLEAN]
         /\ pc'[t] = "next" /\ at'[t] = at[t] + 1 /\ buffer'[t] = Unset /\ ~stale'[t]
         /\ xSuccess'[t] <=> (xSuccess[t] /\ success)
         /\ \A u \in Tasks \ {t} :
              pc'[u] = pc[u] /\ at'[u] = at[u] /\ buffer'[u] = buffer[u] /\ stale'[u] = stale[u] /\ (xSuccess'[u] <=> xSuccess[u])
<1>1. at[t] \in Keys
  BY DEF Inv, TypeOK, InFile
<1>2. /\ xSuccess' \in [Tasks -> BOOLEAN]
      /\ xSuccess'[t] <=> (xSuccess[t] /\ success)
      /\ \A u \in Tasks \ {t} : xSuccess'[u] <=> xSuccess[u]
  BY DEF Inv, TypeOK, Continue
<1>3. /\ at' \in [Tasks -> 0 .. NumKeys + 1] /\ at'[t] = at[t] + 1
      /\ \A u \in Tasks \ {t} : at'[u] = at[u]
  BY <1>1 DEF Inv, TypeOK, Continue
<1>4. /\ pc' \in [Tasks -> {"idle", "next", "open", "write", "close", "remove"}]
      /\ pc'[t] = "next" /\ \A u \in Tasks \ {t} : pc'[u] = pc[u]
  BY DEF Inv, TypeOK, Continue
<1>5. /\ buffer' \in [Tasks -> Values \cup {Unset, Torn, Erred}]
      /\ stale' \in [Tasks -> BOOLEAN]
      /\ buffer'[t] = Unset /\ ~stale'[t]
      /\ \A u \in Tasks \ {t} : buffer'[u] = buffer[u] /\ stale'[u] = stale[u]
  BY DEF Inv, TypeOK, Continue
<1>6. QED
  BY <1>2, <1>3, <1>4, <1>5 DEF Inv, TypeOK

\* A task whose variables are left alone, and that at most was disturbed.
LEMMA OtherWriter ==
  ASSUME Inv, NEW u \in Tasks, WriterInv(u),
         pc'[u] = pc[u], at'[u] = at[u], buffer'[u] = buffer[u], stale'[u] = stale[u],
         pending' = pending, meant' = meant, running' = running,
         disturbed[u] \subseteq disturbed'[u]
  PROVE  WriterInv(u)'
  BY DEF WriterInv

\* The end of a file operation: its key was pending, and so may change.
LEMMA InvWritten ==
  ASSUME Inv, NEW t \in Tasks, pc[t] \in InFile, NEW success \in BOOLEAN, Continue(t, success),
         file' \in [Keys -> Values \cup {Unset, Torn, Empty}],
         \A k \in Keys \ {at[t]} : file'[k] = file[k],
         disturbed' \in [Tasks -> SUBSET Keys],
         \A u \in Tasks : disturbed[u] \subseteq disturbed'[u],
         UNCHANGED <<running, cache, pending, meant>>
  PROVE  Inv'
<1>1. TypeOK'
  BY InvContinue DEF Inv, TypeOK
<1>2. StoreInv'
  BY DEF Inv, StoreInv, WriterInv
<1>3. ASSUME NEW u \in Tasks PROVE WriterInv(u)'
  <2>1. CASE u = t
    BY <2>1, InvContinue DEF Inv, TypeOK, WriterInv, InFile
  <2>2. CASE u # t
    BY <2>2, InvContinue, OtherWriter DEF Inv
  <2>3. QED
    BY <2>1, <2>2
<1>4. QED
  BY <1>1, <1>2, <1>3 DEF Inv

\* Disturb adds to what disturbs the other tasks.
LEMMA DisturbAdds ==
  ASSUME Inv, NEW t \in Tasks, NEW k \in Keys, Disturb(t, k)
  PROVE  /\ disturbed' \in [Tasks -> SUBSET Keys]
         /\ \A u \in Tasks : disturbed[u] \subseteq disturbed'[u]
         /\ \A u \in Tasks : u # t /\ pc[u] # "idle" => k \in disturbed'[u]
         /\ disturbed'[t] = disturbed[t]
  BY DEF Inv, TypeOK, Disturb

\* Opening a file creates it, if there is none.
LEMMA CreatesOne ==
  ASSUME Inv, NEW k \in Keys, Create(k)
  PROVE  /\ file' \in [Keys -> Values \cup {Unset, Torn, Empty}]
         /\ file'[k] = IF file[k] = Unset THEN Empty ELSE file[k]
         /\ \A l \in Keys \ {k} : file'[l] = file[l]
  BY DEF Inv, TypeOK, Create

\* The steps of a commit.
LEMMA InvCommit ==
  ASSUME Inv, NEW t \in Tasks, (running /\ StartCommit(t)) \/ CommitStep(t)
  PROVE  Inv'
<1> USE DEF Inv
<1>1. CASE running /\ StartCommit(t)
  <2>1. TypeOK'
    BY <1>1 DEF StartCommit, TypeOK
  <2>2. StoreInv'
    BY <1>1 DEF StartCommit, StoreInv
  <2>3. ASSUME NEW u \in Tasks PROVE WriterInv(u)'
    <3>1. CASE u = t
      BY <1>1, <3>1 DEF StartCommit, WriterInv, TypeOK, InFile
    <3>2. CASE u # t
      BY <1>1, <3>2, OtherWriter DEF StartCommit, TypeOK
    <3>3. QED
      BY <3>1, <3>2
  <2>4. QED
    BY <2>1, <2>2, <2>3
<1>2. CASE NextKey(t)
  <2>1. TypeOK'
    <3>1. CASE pending[at[t]]
      BY <1>2, <3>1 DEF NextKey, TypeOK
    <3>2. CASE ~pending[at[t]]
      BY <1>2, <3>2 DEF NextKey, TypeOK
    <3>3. QED
      BY <3>1, <3>2
  <2>2. StoreInv'
    BY <1>2 DEF NextKey, StoreInv
  <2>3. ASSUME NEW u \in Tasks PROVE WriterInv(u)'
    <3>1. CASE u = t
      BY <1>2, <3>1 DEF NextKey, WriterInv, TypeOK, InFile
    <3>2. CASE u # t
      BY <1>2, <3>2, OtherWriter DEF NextKey, TypeOK
    <3>3. QED
      BY <3>1, <3>2
  <2>4. QED
    BY <2>1, <2>2, <2>3
<1>3. CASE OpenFile(t)
  <2>1. /\ pc[t] = "open" /\ at[t] \in Keys /\ pc' = [pc EXCEPT ![t] = "write"]
        /\ UNCHANGED <<running, cache, pending, at, buffer, stale, xSuccess, meant, disturbed>>
    BY <1>3 DEF OpenFile, TypeOK
  <2>2. /\ file' \in [Keys -> Values \cup {Unset, Torn, Empty}]
        /\ \A k \in Keys \ {at[t]} : file'[k] = file[k]
    BY <1>3, <2>1, CreatesOne DEF OpenFile
  <2>3. TypeOK'
    BY <2>1, <2>2 DEF TypeOK
  <2>4. StoreInv'
    BY <2>1, <2>2 DEF StoreInv, WriterInv, InFile
  <2>5. ASSUME NEW u \in Tasks PROVE WriterInv(u)'
    BY <2>1 DEF WriterInv, TypeOK, InFile
  <2>6. QED
    BY <2>3, <2>4, <2>5
<1>4. CASE OpenFails(t)
  <2>1. /\ pc[t] = "open" /\ at[t] \in Keys /\ Continue(t, FALSE)
        /\ UNCHANGED <<running, cache, pending, meant, disturbed>>
    BY <1>4 DEF OpenFails, TypeOK
  <2>2. /\ file' \in [Keys -> Values \cup {Unset, Torn, Empty}]
        /\ \A k \in Keys \ {at[t]} : file'[k] = file[k]
    BY <1>4, <2>1, CreatesOne DEF OpenFails, TypeOK
  <2>3. QED
    BY <2>1, <2>2, InvWritten DEF TypeOK, InFile
<1>5. CASE WriteFile(t)
  <2>1. /\ pc[t] = "write" /\ at[t] \in Keys
        /\ UNCHANGED <<file, running, cache, pending, at, stale, xSuccess, meant, disturbed>>
        /\ pc' = [pc EXCEPT ![t] = "close"]
    BY <1>5 DEF WriteFile, TypeOK
  <2>2. PICK v : /\ v \in IF stale[t] THEN Values \cup {Torn} ELSE {cache[at[t]]}
                 /\ buffer' = [buffer EXCEPT ![t] = v]
    BY <1>5 DEF WriteFile
  <2>3. v \in Values \cup {Torn} /\ (~stale[t] => v = meant[at[t]])
    BY <2>1, <2>2 DEF StoreInv, WriterInv, InFile
  <2>4. TypeOK'
    BY <2>1, <2>2, <2>3 DEF TypeOK
  <2>5. StoreInv'
    BY <2>1 DEF StoreInv
  <2>6. ASSUME NEW u \in Tasks PROVE WriterInv(u)'
    <3>1. CASE u = t
      BY <2>1, <2>2, <2>3, <3>1 DEF WriterInv, TypeOK, InFile
    <3>2. CASE u # t
      BY <2>1, <2>2, <3>2, OtherWriter DEF TypeOK
    <3>3. QED
      BY <3>1, <3>2
  <2>7. QED
    BY <2>4, <2>5, <2>6
<1>6. CASE WriteFails(t)
  <2>1. TypeOK'
    BY <1>6 DEF WriteFails, TypeOK
  <2>2. StoreInv'
    BY <1>6 DEF WriteFails, StoreInv
  <2>3. ASSUME NEW u \in Tasks PROVE WriterInv(u)'
    <3>1. CASE u = t
      BY <1>6, <3>1 DEF WriteFails, WriterInv, TypeOK, InFile
    <3>2. CASE u # t
      BY <1>6, <3>2, OtherWriter DEF WriteFails, TypeOK
    <3>3. QED
      BY <3>1, <3>2
  <2>4. QED
    BY <2>1, <2>2, <2>3
<1>7. CASE CloseFile(t)
  <2>1. /\ pc[t] = "close" /\ at[t] \in Keys
        /\ UNCHANGED <<running, cache, pending, meant>>
    BY <1>7 DEF CloseFile, TypeOK
  <2>2. /\ file' \in [Keys -> Values \cup {Unset, Torn, Empty}]
        /\ \A k \in Keys \ {at[t]} : file'[k] = file[k]
    <3>1. file' = file \/ (buffer[t] # Erred /\ file' = [file EXCEPT ![at[t]] = buffer[t]])
      BY <1>7 DEF CloseFile
    <3>2. file \in [Keys -> Values \cup {Unset, Torn, Empty}]
      BY DEF TypeOK
    <3>3. buffer[t] # Erred => buffer[t] \in Values \cup {Unset, Torn, Empty}
      BY DEF TypeOK
    <3>4. QED
      BY <2>1, <3>1, <3>2, <3>3
  <2>3. /\ disturbed' \in [Tasks -> SUBSET Keys]
        /\ \A u \in Tasks : disturbed[u] \subseteq disturbed'[u]
    BY <1>7, <2>1, DisturbAdds DEF CloseFile, TypeOK
  <2>4. CASE buffer[t] = Erred
    <3>1. /\ pc' = [pc EXCEPT ![t] = "remove"]
          /\ UNCHANGED <<at, buffer, stale, xSuccess>>
      BY <1>7, <2>4 DEF CloseFile
    <3>2. TypeOK'
      BY <2>1, <2>2, <2>3, <3>1 DEF TypeOK
    <3>3. StoreInv'
      BY <2>1, <2>2 DEF StoreInv, WriterInv, InFile
    <3>4. ASSUME NEW u \in Tasks PROVE WriterInv(u)'
      <4>1. CASE u = t
        BY <2>1, <2>3, <2>4, <3>1, <4>1 DEF WriterInv, TypeOK, InFile
      <4>2. CASE u # t
        BY <2>1, <2>3, <3>1, <4>2, OtherWriter DEF TypeOK
      <4>3. QED
        BY <4>1, <4>2
    <3>5. QED
      BY <3>2, <3>3, <3>4
  <2>5. CASE buffer[t] # Erred
    <3>1. Continue(t, TRUE)
      BY <1>7, <2>5 DEF CloseFile
    <3>2. QED
      BY <2>1, <2>2, <2>3, <3>1, InvWritten DEF InFile
  <2>6. QED
    BY <2>4, <2>5
<1>8. CASE RemoveFile(t)
  <2>1. /\ pc[t] = "remove" /\ at[t] \in Keys
        /\ UNCHANGED <<running, cache, pending, meant>> /\ Continue(t, FALSE)
    BY <1>8 DEF RemoveFile, TypeOK
  <2>2. /\ file' \in [Keys -> Values \cup {Unset, Torn, Empty}]
        /\ \A k \in Keys \ {at[t]} : file'[k] = file[k]
    BY <1>8, <2>1 DEF RemoveFile, TypeOK
  <2>3. /\ disturbed' \in [Tasks -> SUBSET Keys]
        /\ \A u \in Tasks : disturbed[u] \subseteq disturbed'[u]
    BY <1>8, <2>1, DisturbAdds DEF RemoveFile
  <2>4. QED
    BY <2>1, <2>2, <2>3, InvWritten DEF InFile
<1>9. CASE Return(t)
  <2>1. TypeOK'
    BY <1>9 DEF Return, Done, TypeOK
  <2>2. StoreInv'
    BY <1>9 DEF Return, StoreInv
  <2>3. ASSUME NEW u \in Tasks PROVE WriterInv(u)'
    <3>1. CASE u = t
      BY <1>9, <3>1 DEF Return, Done, WriterInv, TypeOK, InFile
    <3>2. CASE u # t
      BY <1>9, <3>2, OtherWriter DEF Return, TypeOK
    <3>3. QED
      BY <3>1, <3>2
  <2>4. QED
    BY <2>1, <2>2, <2>3
<1>10. QED
  BY <1>1, <1>2, <1>3, <1>4, <1>5, <1>6, <1>7, <1>8, <1>9 DEF CommitStep

\* What vprvCacheInit loads is durable, or unset; it loads nothing, or all.
LEMMA InvReset == Inv /\ (Reset \/ BootFails) => Inv'
<1> SUFFICES ASSUME Inv, Reset \/ BootFails PROVE Inv'
  OBVIOUS
<1>1. /\ \A k \in Keys : cache'[k] \in {file[k], Unset}
      /\ cache' \in [Keys -> Values \cup {Unset, Torn}]
      /\ running' \in BOOLEAN /\ Restart
  BY DEF Reset, BootFails, Loaded
<1>2. TypeOK'
  BY <1>1 DEF Restart, Inv, TypeOK, EachTask
<1>3. StoreInv'
  BY <1>1 DEF Restart, StoreInv
<1>4. \A t \in Tasks : WriterInv(t)'
  BY <1>1 DEF Restart, WriterInv, EachTask, InFile
<1>5. QED
  BY <1>2, <1>3, <1>4 DEF Inv

\* Every step.
LEMMA InvNext == Inv /\ [Next]_vars => Inv'
<1> SUFFICES ASSUME Inv, [Next]_vars PROVE Inv'
  OBVIOUS
<1>1. CASE UNCHANGED vars
  BY <1>1 DEF Inv, TypeOK, StoreInv, WriterInv, vars, commitVars
<1>2. QED
  BY <1>1, InvSet, InvCommit, InvReset DEF Next, Step

\* The invariant holds throughout.
LEMMA InvHolds == Spec => []Inv
  BY InvInit, InvNext, PTL DEF Spec

\* Every variable keeps its type.
THEOREM TypeCorrect == Spec => []TypeOK
<1>1. Inv => TypeOK
  BY DEF Inv
<1>2. QED
  BY <1>1, InvHolds, PTL

\* Whatever fails and whoever interrupts, a key whose file is not what it was
\* last set to is one that the next commit writes (xChangePending).
THEOREM NoChangeIsForgotten == Spec => []DifferenceIsPending
<1>1. Inv => DifferenceIsPending
  BY DEF Inv, StoreInv, DifferenceIsPending
<1>2. QED
  BY <1>1, InvHolds, PTL

-----------------------------------------------------------------------------
(* What a commit that reports success has done.                            *)

\* While no operation of its own has failed, the keys behind a commit are
\* durable, but for those the other task has disturbed.
Behind(t) == {k \in Keys \ disturbed[t] : k < at[t] /\ meant[k] # Unset}
SuccessInv ==
  \A t \in Tasks : pc[t] # "idle" /\ xSuccess[t] => \A k \in Behind(t) : file[k] = meant[k]

\* A step that writes no file and sets no key, after which a commit has no
\* more keys behind it, or one more that is durable.
LEMMA SuccessStays ==
  ASSUME Inv, SuccessInv, NEW u \in Tasks, UNCHANGED <<file, meant>>,
         pc'[u] # "idle" /\ xSuccess'[u] => pc[u] # "idle" /\ xSuccess[u],
         disturbed[u] \subseteq disturbed'[u],
         \/ at'[u] = at[u]
         \/ /\ at'[u] = at[u] + 1 /\ at[u] \in Keys
            /\ at[u] \notin disturbed'[u] /\ meant[at[u]] # Unset => file[at[u]] = meant[at[u]]
  PROVE  pc'[u] # "idle" /\ xSuccess'[u] => \A k \in Behind(u)' : file'[k] = meant'[k]
<1> SUFFICES ASSUME pc'[u] # "idle", xSuccess'[u], NEW k \in Keys, k \notin disturbed'[u],
                    k < at'[u], meant[k] # Unset
             PROVE  file[k] = meant[k]
  BY DEF Behind
<1>1. at[u] \in Int
  BY DEF Inv, TypeOK
<1>2. CASE k < at[u]
  BY <1>2 DEF SuccessInv, Behind
<1>3. CASE ~(k < at[u])
  BY <1>1, <1>3
<1>4. QED
  BY <1>2, <1>3

\* A step of another task that writes only key k, and disturbs it unless what
\* the file then holds is its value.
LEMMA SuccessWritten ==
  ASSUME Inv, SuccessInv, NEW u \in Tasks, NEW k \in Keys,
         pc'[u] = pc[u], at'[u] = at[u], xSuccess'[u] <=> xSuccess[u], meant' = meant,
         \A l \in Keys \ {k} : file'[l] = file[l],
         disturbed[u] \subseteq disturbed'[u],
         pc[u] # "idle" => k \in disturbed'[u] \/ file'[k] \in {file[k], meant[k]}
  PROVE  pc'[u] # "idle" /\ xSuccess'[u] => \A l \in Behind(u)' : file'[l] = meant'[l]
  BY DEF SuccessInv, Behind

\* A step that may create a file: that of a durable key is there.
LEMMA SuccessCreated ==
  ASSUME Inv, SuccessInv, NEW u \in Tasks, NEW k \in Keys, Create(k),
         pc'[u] # "idle" <=> pc[u] # "idle", at'[u] = at[u], xSuccess'[u] <=> xSuccess[u],
         meant' = meant, disturbed' = disturbed
  PROVE  pc'[u] # "idle" /\ xSuccess'[u] => \A l \in Behind(u)' : file'[l] = meant'[l]
  BY CreatesOne DEF SuccessInv, Behind

\* Every step; an error of lfs_file_sync is not looked at, so there is none.
LEMMA SuccessNext ==
  ASSUME "sync" \notin Faults, Inv, SuccessInv, [Next]_vars
  PROVE  SuccessInv'
<1> SUFFICES ASSUME NEW u \in Tasks
             PROVE  pc'[u] # "idle" /\ xSuccess'[u] => \A k \in Behind(u)' : file'[k] = meant'[k]
  BY DEF SuccessInv
<1> USE DEF Inv
<1>1. CASE UNCHANGED vars
  BY <1>1, SuccessStays DEF vars, commitVars
<1>2. CASE Reset \/ BootFails
  BY <1>2 DEF Reset, BootFails, Restart, EachTask
<1>3. ASSUME NEW t \in Tasks, NEW k \in Keys, NEW v \in Values, Set(t, k, v)
      PROVE  pc'[u] # "idle" /\ xSuccess'[u] => \A l \in Behind(u)' : file'[l] = meant'[l]
  <2>1. /\ pc[t] = "idle" /\ UNCHANGED <<file, pc, at, xSuccess>>
        /\ \A l \in Keys \ {k} : meant'[l] = meant[l]
    BY <1>3 DEF Set, TypeOK
  <2>2. /\ disturbed[u] \subseteq disturbed'[u]
        /\ u # t /\ pc[u] # "idle" => k \in disturbed'[u]
    BY <1>3, DisturbAdds DEF Set
  <2>3. QED
    BY <2>1, <2>2 DEF SuccessInv, Behind
<1>4. ASSUME NEW t \in Tasks, StartCommit(t)
      PROVE  pc'[u] # "idle" /\ xSuccess'[u] => \A k \in Behind(u)' : file'[k] = meant'[k]
  <2>1. CASE u = t
    <3>1. at'[u] = 1
      BY <1>4, <2>1 DEF StartCommit, TypeOK
    <3>2. QED
      BY <3>1 DEF Behind
  <2>2. CASE u # t
    BY <1>4, <2>2, SuccessStays DEF StartCommit, TypeOK
  <2>3. QED
    BY <2>1, <2>2
<1>5. ASSUME NEW t \in Tasks, CommitStep(t)
      PROVE  pc'[u] # "idle" /\ xSuccess'[u] => \A k \in Behind(u)' : file'[k] = meant'[k]
  <2>1. CASE NextKey(t)
    <3>1. CASE u # t
      BY <2>1, <3>1, SuccessStays DEF NextKey, TypeOK
    <3>2. CASE u = t /\ pending[at[t]]
      BY <2>1, <3>2, SuccessStays DEF NextKey, TypeOK
    <3>3. CASE u = t /\ ~pending[at[t]]
      <4>1. at[t] \in Keys /\ at'[t] = at[t] + 1 /\ UNCHANGED <<pc, xSuccess, disturbed, file, meant>>
        BY <2>1, <3>3 DEF NextKey, TypeOK
      <4>2. meant[at[t]] # Unset => file[at[t]] = meant[at[t]]
        BY <3>3, <4>1 DEF StoreInv
      <4>3. QED
        BY <3>3, <4>1, <4>2, SuccessStays
    <3>4. QED
      BY <3>1, <3>2, <3>3
  <2>2. CASE OpenFile(t)
    <3>1. /\ at[t] \in Keys /\ Create(at[t])
          /\ UNCHANGED <<at, xSuccess, meant, disturbed>> /\ (pc'[u] # "idle" <=> pc[u] # "idle")
      BY <2>2 DEF OpenFile, TypeOK
    <3>2. QED
      BY <3>1, SuccessCreated
  <2>3. CASE OpenFails(t)
    <3>1. CASE u = t
      BY <2>3, <3>1, InvContinue DEF OpenFails, InFile
    <3>2. CASE u # t
      <4>1. /\ at[t] \in Keys /\ (Create(at[t]) \/ file' = file)
            /\ meant' = meant /\ disturbed' = disturbed
        BY <2>3 DEF OpenFails, TypeOK
      <4>2. pc'[u] = pc[u] /\ at'[u] = at[u] /\ (xSuccess'[u] <=> xSuccess[u])
        BY <2>3, <3>2, InvContinue DEF OpenFails, InFile
      <4>3. QED
        BY <4>1, <4>2, SuccessCreated, SuccessStays
    <3>3. QED
      BY <3>1, <3>2
  <2>4. CASE WriteFile(t)
    BY <2>4, SuccessStays DEF WriteFile, TypeOK
  <2>5. CASE WriteFails(t)
    BY <2>5, SuccessStays DEF WriteFails, TypeOK
  <2>6. CASE CloseFile(t)
    <3>1. /\ pc[t] = "close" /\ at[t] \in Keys /\ UNCHANGED meant
          /\ file' = IF buffer[t] = Erred THEN file ELSE [file EXCEPT ![at[t]] = buffer[t]]
      BY <2>6 DEF CloseFile, TypeOK
    <3>2. /\ file'[at[t]] = IF buffer[t] = Erred THEN file[at[t]] ELSE buffer[t]
          /\ \A l \in Keys \ {at[t]} : file'[l] = file[l]
      BY <3>1 DEF TypeOK
    <3>3. /\ disturbed[u] \subseteq disturbed'[u]
          /\ u # t /\ pc[u] # "idle" => at[t] \in disturbed'[u] \/ buffer[t] = meant[at[t]]
      BY <2>6, <3>1, DisturbAdds DEF CloseFile
    <3>4. CASE u # t
      <4>1. pc'[u] = pc[u] /\ at'[u] = at[u] /\ (xSuccess'[u] <=> xSuccess[u])
        <5>1. CASE buffer[t] = Erred
          BY <2>6, <3>4, <5>1 DEF CloseFile, TypeOK
        <5>2. CASE buffer[t] # Erred
          <6>1. Continue(t, TRUE) /\ pc[t] \in InFile
            BY <2>6, <3>1, <5>2 DEF CloseFile, InFile
          <6>2. QED
            BY <3>4, <6>1, InvContinue
        <5>3. QED
          BY <5>1, <5>2
      <4>2. pc[u] # "idle" => at[t] \in disturbed'[u] \/ file'[at[t]] \in {file[at[t]], meant[at[t]]}
        BY <3>2, <3>3, <3>4
      <4>3. QED
        BY <3>1, <3>2, <3>3, <4>1, <4>2, SuccessWritten
    <3>5. CASE u = t /\ buffer[t] = Erred
      <4>1. at'[u] = at[u] /\ (xSuccess'[u] <=> xSuccess[u])
        BY <2>6, <3>5 DEF CloseFile
      <4>2. QED
        BY <3>1, <3>2, <3>3, <3>5, <4>1 DEF SuccessInv, Behind
    <3>6. CASE u = t /\ buffer[t] # Erred
      <4>1. at'[t] = at[t] + 1 /\ (xSuccess'[t] <=> xSuccess[t])
        BY <2>6, <3>1, <3>6, InvContinue DEF CloseFile, InFile
      <4>2. at[t] \in disturbed[t] \/ file'[at[t]] = meant[at[t]]
        BY <3>1, <3>2, <3>6 DEF WriterInv
      <4>3. at[t] \in Int
        BY <3>1
      <4>4. QED
        BY <3>1, <3>2, <3>3, <3>6, <4>1, <4>2, <4>3 DEF SuccessInv, Behind
    <3>7. QED
      BY <3>4, <3>5, <3>6
  <2>7. CASE RemoveFile(t)
    <3>1. /\ pc[t] = "remove" /\ at[t] \in Keys /\ UNCHANGED meant
          /\ \A l \in Keys \ {at[t]} : file'[l] = file[l]
      BY <2>7 DEF RemoveFile, TypeOK
    <3>2. CASE u = t
      BY <2>7, <3>1, <3>2, InvContinue DEF RemoveFile, InFile
    <3>3. CASE u # t
      <4>a. pc'[u] = pc[u] /\ at'[u] = at[u] /\ xSuccess'[u] = xSuccess[u]
        BY <2>7, <3>3 DEF RemoveFile, Continue, Inv, TypeOK
      <4>1. pc'[u] = pc[u] /\ at'[u] = at[u] /\ (xSuccess'[u] <=> xSuccess[u])
        BY <4>a
      <4>2. /\ disturbed[u] \subseteq disturbed'[u]
            /\ pc[u] # "idle" => at[t] \in disturbed'[u]
        BY <2>7, <3>1, <3>3, DisturbAdds DEF RemoveFile
      <4>3. QED
        BY <3>1, <4>1, <4>2, SuccessWritten
    <3>4. QED
      BY <3>2, <3>3
  <2>8. CASE Return(t)
    <3>1. CASE u = t
      BY <2>8, <3>1 DEF Return, TypeOK
    <3>2. CASE u # t
      BY <2>8, <3>2, SuccessStays DEF Return, TypeOK
    <3>3. QED
      BY <3>1, <3>2
  <2>9. QED
    BY <1>5, <2>1, <2>2, <2>3, <2>4, <2>5, <2>6, <2>7, <2>8 DEF CommitStep
<1>6. QED
  BY <1>1, <1>2, <1>3, <1>4, <1>5 DEF Next, Step

\* "Configuration saved to NVM" is true, wherever writes have failed and
\* however the other task has set and committed meanwhile, as long as
\* lfs_file_sync itself does not fail: its result is not looked at.
THEOREM SuccessMeansDurable ==
  ASSUME "sync" \notin Faults
  PROVE  Spec => []SuccessIsDurable
<1>1. Init => SuccessInv
  BY DEF Init, SuccessInv, EachTask
<1>2. Inv /\ SuccessInv /\ [Next]_vars => SuccessInv'
  BY SuccessNext
<1>3. Inv /\ SuccessInv => SuccessIsDurable
  <2> SUFFICES ASSUME Inv, SuccessInv, NEW t \in Tasks, Done(t), xSuccess[t],
                      NEW k \in Keys \ disturbed[t], meant[k] # Unset
               PROVE  file[k] = meant[k]
    BY DEF SuccessIsDurable
  <2>1. at[t] \in 0 .. NumKeys + 1 /\ at[t] # 0 /\ at[t] \notin 1 .. NumKeys
    BY DEF Inv, TypeOK, WriterInv, Done
  <2>2. k < at[t]
    BY <2>1
  <2>3. QED
    BY <2>2 DEF SuccessInv, Behind, Done
<1>4. QED
  BY <1>1, <1>2, <1>3, InvHolds, PTL DEF Spec

-----------------------------------------------------------------------------
(* The store implements StagedStore.                                       *)

\* The writes under way, before and after a step.
LEMMA Members ==
  /\ Writes \subseteq Tasks \X Keys /\ Writes' \subseteq Tasks \X Keys
  /\ TornWrites \subseteq Writes /\ TornWrites' \subseteq Writes'
  /\ FailedWrites \subseteq Writes /\ FailedWrites' \subseteq Writes'
  /\ \A u \in Tasks, k \in Keys :
       /\ <<u, k>> \in Writes <=> pc[u] \in InFile /\ at[u] = k
       /\ <<u, k>> \in Writes' <=> pc'[u] \in InFile /\ at'[u] = k
       /\ <<u, k>> \in TornWrites <=> <<u, k>> \in Writes /\ stale[u]
       /\ <<u, k>> \in TornWrites' <=> <<u, k>> \in Writes' /\ stale'[u]
       /\ <<u, k>> \in FailedWrites <=> <<u, k>> \in Writes /\ buffer[u] = Erred
       /\ <<u, k>> \in FailedWrites' <=> <<u, k>> \in Writes' /\ buffer'[u] = Erred
  BY DEF Writes, TornWrites, FailedWrites, Writing, InFile

\* A write is a task and a key.
LEMMA PairIs ==
  ASSUME NEW A, NEW B, NEW w \in A \X B
  PROVE  w = <<w[1], w[2]>> /\ w[1] \in A /\ w[2] \in B
  OBVIOUS

\* Sets of writes are the same when the same tasks write the same keys.
LEMMA SamePairs ==
  ASSUME NEW S, NEW T, S \subseteq Tasks \X Keys, T \subseteq Tasks \X Keys,
         \A u \in Tasks, k \in Keys : <<u, k>> \in S <=> <<u, k>> \in T
  PROVE  S = T
<1>1. ASSUME NEW w \in Tasks \X Keys PROVE w \in S <=> w \in T
  <2>1. w = <<w[1], w[2]>> /\ w[1] \in Tasks /\ w[2] \in Keys
    BY PairIs, ZenonT(30)
  <2>2. <<w[1], w[2]>> \in S <=> <<w[1], w[2]>> \in T
    BY <2>1
  <2>3. QED
    BY <2>1, <2>2, Zenon
<1>2. QED
  BY <1>1, Zenon

\* No write begins or ends.
LEMMA WritesStay ==
  ASSUME \A u \in Tasks : /\ pc'[u] \in InFile <=> pc[u] \in InFile
                          /\ pc[u] \in InFile => at'[u] = at[u]
  PROVE  /\ Writes' = Writes
         /\ (\A u \in Tasks : pc[u] \in InFile => (stale'[u] <=> stale[u]))
               => TornWrites' = TornWrites
         /\ (\A u \in Tasks : pc[u] \in InFile => (buffer'[u] = Erred <=> buffer[u] = Erred))
               => FailedWrites' = FailedWrites
<1>1. Writes' = Writes
  <2>1. Writes \subseteq Tasks \X Keys /\ Writes' \subseteq Tasks \X Keys
    BY Members
  <2>2. \A u \in Tasks, k \in Keys : <<u, k>> \in Writes' <=> <<u, k>> \in Writes
    BY Members
  <2>3. QED
    BY <2>1, <2>2, SamePairs, Zenon
<1>2. ASSUME \A u \in Tasks : pc[u] \in InFile => (stale'[u] <=> stale[u])
      PROVE  TornWrites' = TornWrites
  <2>1. TornWrites \subseteq Tasks \X Keys /\ TornWrites' \subseteq Tasks \X Keys
    BY Members
  <2>2. \A u \in Tasks, k \in Keys : <<u, k>> \in TornWrites <=> <<u, k>> \in TornWrites'
    BY <1>1, <1>2, Members
  <2>3. QED
    BY ONLY <2>1, <2>2, SamePairs
<1>3. ASSUME \A u \in Tasks : pc[u] \in InFile => (buffer'[u] = Erred <=> buffer[u] = Erred)
      PROVE  FailedWrites' = FailedWrites
  <2>1. FailedWrites \subseteq Tasks \X Keys /\ FailedWrites' \subseteq Tasks \X Keys
    BY Members
  <2>2. \A u \in Tasks, k \in Keys : <<u, k>> \in FailedWrites <=> <<u, k>> \in FailedWrites'
    BY <1>1, <1>3, Members
  <2>3. QED
    BY ONLY <2>1, <2>2, SamePairs
<1>4. QED
  BY <1>1, <1>2, <1>3

\* One write ends.
LEMMA WriteEnds ==
  ASSUME Inv, NEW t \in Tasks, pc[t] \in InFile, NEW success \in BOOLEAN, Continue(t, success)
  PROVE  /\ at[t] \in Keys /\ <<t, at[t]>> \in Writes
         /\ Writes' = Writes \ {<<t, at[t]>>}
         /\ TornWrites' = TornWrites \ {<<t, at[t]>>}
         /\ FailedWrites' = FailedWrites \ {<<t, at[t]>>}
<1>1. at[t] \in Keys /\ <<t, at[t]>> \in Writes
  BY Members DEF Inv, TypeOK, InFile
<1>2. ASSUME NEW u \in Tasks, NEW k \in Keys
      PROVE  /\ <<u, k>> \in Writes' <=> <<u, k>> \in Writes \ {<<t, at[t]>>}
             /\ <<u, k>> \in TornWrites' <=> <<u, k>> \in TornWrites \ {<<t, at[t]>>}
             /\ <<u, k>> \in FailedWrites' <=> <<u, k>> \in FailedWrites \ {<<t, at[t]>>}
  <2>1. CASE u = t
    BY <1>1, <2>1, Members, InvContinue DEF InFile
  <2>2. CASE u # t
    BY <2>2, Members, InvContinue
  <2>3. QED
    BY <2>1, <2>2
<1>3. /\ Writes' \subseteq Tasks \X Keys /\ Writes \ {<<t, at[t]>>} \subseteq Tasks \X Keys
      /\ TornWrites' \subseteq Tasks \X Keys /\ TornWrites \ {<<t, at[t]>>} \subseteq Tasks \X Keys
      /\ FailedWrites' \subseteq Tasks \X Keys /\ FailedWrites \ {<<t, at[t]>>} \subseteq Tasks \X Keys
  BY Members
<1>4. QED
  BY ONLY <1>1, <1>2, <1>3, SamePairs

\* A file is written.
LEMMA CommittedSet ==
  ASSUME Inv, NEW k \in Keys, NEW x, file' = [file EXCEPT ![k] = x]
  PROVE  /\ Committed' = [Committed EXCEPT ![k] = IF x = Empty THEN Unset ELSE x]
         /\ Created' = IF x = Empty THEN Created \cup {k} ELSE Created \ {k}
  BY DEF Inv, TypeOK, Committed, Created

\* A file is created: its key was unset and still is.
LEMMA FileCreated ==
  ASSUME Inv, NEW k \in Keys, Create(k)
  PROVE  /\ Committed' = Committed
         /\ \/ Created' = Created
            \/ Committed[k] = Unset /\ Created' = Created \cup {k}
<1>1. Committed' = Committed
  <2>1. \A l \in Keys : Committed'[l] = Committed[l]
    BY CreatesOne DEF Committed
  <2>2. QED
    BY <2>1 DEF Committed
<1>2. CASE file[k] = Unset
  BY <1>1, <1>2, CreatesOne DEF Committed, Created
<1>3. CASE file[k] # Unset
  BY <1>1, <1>3, CreatesOne DEF Created
<1>4. QED
  BY <1>1, <1>2, <1>3

\* Setting a key stages its value.
LEMMA RefineSet ==
  ASSUME Inv, NEW t \in Tasks, NEW k \in Keys, NEW v \in Values, running, Set(t, k, v)
  PROVE  Abstract!Stage(k, v)
<1>1. /\ meant' = [meant EXCEPT ![k] = v] /\ UNCHANGED <<file, running, pc, at, buffer>>
      /\ pc[t] = "idle"
      /\ \A u \in Tasks : stale'[u] <=> (stale[u] \/ (u # t /\ Writing(u, k)))
  BY DEF Set
<1>2. /\ Writes' = Writes /\ FailedWrites' = FailedWrites
      /\ Committed' = Committed /\ Created' = Created
  BY <1>1, WritesStay DEF Committed, Created
<1>3. TornWrites' = TornWrites \cup {w \in Writes : w[2] = k}
  <2> DEFINE S == TornWrites \cup {w \in Writes : w[2] = k}
  <2>1. TornWrites' \subseteq Tasks \X Keys /\ S \subseteq Tasks \X Keys
    BY Members
  <2>2. ASSUME NEW u \in Tasks, NEW l \in Keys
        PROVE  <<u, l>> \in TornWrites' <=> <<u, l>> \in S
    <3>1. <<u, l>> \in S <=> <<u, l>> \in Writes /\ (stale[u] \/ l = k)
      BY Members
    <3>2. <<u, l>> \in Writes => u # t /\ pc[u] \in InFile /\ at[u] = l
      BY <1>1, Members DEF InFile
    <3>3. <<u, l>> \in TornWrites' <=> <<u, l>> \in Writes /\ (stale[u] \/ (u # t /\ Writing(u, k)))
      BY <1>1, <1>2, Members
    <3>4. QED
      BY <3>1, <3>2, <3>3 DEF Writing, InFile
  <2> HIDE DEF S
  <2>3. TornWrites' = S
    BY <2>1, <2>2, SamePairs
  <2>4. QED
    BY <2>3 DEF S
<1>4. QED
  BY <1>1, <1>2, <1>3 DEF Abstract!Stage

\* The steps of a commit begin, spoil or end a write, or are not seen.
LEMMA RefineCommit ==
  ASSUME Inv, NEW t \in Tasks, StartCommit(t) \/ CommitStep(t)
  PROVE  \/ UNCHANGED Abstract!vars
         \/ \E k \in Keys : \/ Abstract!Begin(t, k) \/ Abstract!Create(t, k) \/ Abstract!Persist(t, k)
                            \/ Abstract!Error(t, k) \/ Abstract!Lose(t, k) \/ Abstract!GiveUp(t, k)
<1> USE DEF Inv, Abstract!vars
<1>1. ASSUME StartCommit(t) \/ WriteFile(t) \/ Return(t)
      PROVE  UNCHANGED Abstract!vars
  <2>1. \A u \in Tasks : pc'[u] \in InFile <=> pc[u] \in InFile
    BY <1>1 DEF StartCommit, WriteFile, Return, Done, TypeOK, InFile
  <2>2. \A u \in Tasks : pc[u] \in InFile => at'[u] = at[u]
    BY <1>1 DEF StartCommit, WriteFile, Return, Done, TypeOK, InFile
  <2>3. UNCHANGED <<meant, file, running, stale>>
    BY <1>1 DEF StartCommit, WriteFile, Return
  <2>4. \A u \in Tasks : pc[u] \in InFile => (buffer'[u] = Erred <=> buffer[u] = Erred)
    <3>1. CASE WriteFile(t)
      <4>1. pc[t] = "write" /\ at[t] \in Keys /\ pending[at[t]]
        BY <3>1 DEF WriteFile, TypeOK, WriterInv, InFile
      <4>2. PICK v : /\ v \in IF stale[t] THEN Values \cup {Torn} ELSE {cache[at[t]]}
                     /\ buffer' = [buffer EXCEPT ![t] = v]
        BY <3>1 DEF WriteFile
      <4>3. v # Erred /\ buffer[t] # Erred
        BY <4>1, <4>2 DEF StoreInv, WriterInv
      <4>4. QED
        BY <4>2, <4>3 DEF TypeOK
    <3>2. CASE ~WriteFile(t)
      BY <1>1, <3>2 DEF StartCommit, Return
    <3>3. QED
      BY <3>1, <3>2
  <2>5. Writes' = Writes /\ TornWrites' = TornWrites /\ FailedWrites' = FailedWrites
    BY <2>1, <2>2, <2>3, <2>4, WritesStay
  <2>6. QED
    BY <2>3, <2>5 DEF Committed, Created
<1>2. ASSUME NextKey(t)
      PROVE  \/ UNCHANGED Abstract!vars
             \/ \E k \in Keys : Abstract!Begin(t, k)
  <2>1. /\ pc[t] = "next" /\ at[t] \in Keys
        /\ UNCHANGED <<file, running, buffer, stale, meant>> /\ running
    BY <1>2 DEF NextKey, WriterInv
  <2>2. Committed' = Committed /\ Created' = Created
    BY <2>1 DEF Committed, Created
  <2>3. CASE pending[at[t]]
    <3>1. pc' = [pc EXCEPT ![t] = "open"] /\ at' = at
      BY <1>2, <2>3 DEF NextKey
    <3>2. meant[at[t]] # Unset
      BY <2>1, <2>3 DEF StoreInv
    <3>3. ~stale[t] /\ buffer[t] # Erred
      BY <2>1 DEF WriterInv, InFile
    <3>4. /\ pc'[t] \in InFile
          /\ \A u \in Tasks : u # t => (pc'[u] \in InFile <=> pc[u] \in InFile)
      BY <2>1, <3>1 DEF TypeOK, InFile
    <3>5. ASSUME NEW u \in Tasks, NEW k \in Keys
          PROVE  /\ <<u, k>> \in Writes' <=> <<u, k>> \in Writes \cup {<<t, at[t]>>}
                 /\ <<u, k>> \in TornWrites' <=> <<u, k>> \in TornWrites
                 /\ <<u, k>> \in FailedWrites' <=> <<u, k>> \in FailedWrites
      <4>1. <<t, k>> \notin Writes
        BY <2>1, Members DEF InFile
      <4>2. CASE u = t
        BY <2>1, <3>1, <3>3, <3>4, <4>1, <4>2, Members
      <4>3. CASE u # t
        BY <2>1, <3>1, <3>4, <4>3, Members
      <4>4. QED
        BY <4>2, <4>3
    <3>6. /\ Writes' \subseteq Tasks \X Keys /\ Writes \cup {<<t, at[t]>>} \subseteq Tasks \X Keys
          /\ TornWrites' \subseteq Tasks \X Keys /\ TornWrites \subseteq Tasks \X Keys
          /\ FailedWrites' \subseteq Tasks \X Keys /\ FailedWrites \subseteq Tasks \X Keys
      BY <2>1, Members
    <3>7. /\ Writes' = Writes \cup {<<t, at[t]>>}
          /\ TornWrites' = TornWrites /\ FailedWrites' = FailedWrites
      <4> DEFINE S == Writes \cup {<<t, at[t]>>}
      <4>1. /\ S \subseteq Tasks \X Keys
            /\ \A u \in Tasks, k \in Keys : <<u, k>> \in Writes' <=> <<u, k>> \in S
        BY <3>5, <3>6
      <4> HIDE DEF S
      <4>2. Writes' = S
        BY <3>6, <4>1, SamePairs
      <4>3. TornWrites' = TornWrites /\ FailedWrites' = FailedWrites
        BY <3>5, <3>6, SamePairs
      <4>4. QED
        BY <4>2, <4>3 DEF S
    <3>8. QED
      BY <2>1, <2>2, <3>2, <3>7 DEF Abstract!Begin
  <2>4. CASE ~pending[at[t]]
    <3>1. pc' = pc /\ at' = [at EXCEPT ![t] = @ + 1]
      BY <1>2, <2>4 DEF NextKey
    <3>2. \A u \in Tasks : pc[u] \in InFile => at'[u] = at[u]
      BY <2>1, <3>1 DEF TypeOK, InFile
    <3>3. Writes' = Writes /\ TornWrites' = TornWrites /\ FailedWrites' = FailedWrites
      BY <2>1, <3>1, <3>2, WritesStay
    <3>4. QED
      BY <2>1, <2>2, <3>3
  <2>5. QED
    BY <2>3, <2>4
<1>3. ASSUME OpenFile(t) \/ OpenFails(t)
      PROVE  \/ UNCHANGED Abstract!vars
             \/ \E k \in Keys : Abstract!Create(t, k) \/ Abstract!GiveUp(t, k)
  <2>1. /\ pc[t] = "open" /\ pc[t] \in InFile /\ at[t] \in Keys
        /\ UNCHANGED <<running, meant>>
        /\ Create(at[t]) \/ file' = file
    BY <1>3 DEF OpenFile, OpenFails, TypeOK, InFile
  <2>2. /\ Committed' = Committed
        /\ \/ Created' = Created
           \/ Committed[at[t]] = Unset /\ Created' = Created \cup {at[t]}
    <3>1. CASE Create(at[t])
      BY <2>1, <3>1, FileCreated
    <3>2. CASE file' = file
      BY <3>2 DEF Committed, Created
    <3>3. QED
      BY <2>1, <3>1, <3>2
  <2>3. <<t, at[t]>> \in Writes
    BY <2>1, Members
  <2>4. CASE OpenFile(t)
    <3>1. pc' = [pc EXCEPT ![t] = "write"] /\ UNCHANGED <<at, buffer, stale>>
      BY <2>4 DEF OpenFile
    <3>2. \A u \in Tasks : pc'[u] \in InFile <=> pc[u] \in InFile
      BY <2>1, <3>1 DEF TypeOK, InFile
    <3>3. Writes' = Writes /\ TornWrites' = TornWrites /\ FailedWrites' = FailedWrites
      BY <3>1, <3>2, WritesStay
    <3>4. ASSUME Created' = Created PROVE UNCHANGED Abstract!vars
      BY <2>1, <2>2, <3>3, <3>4, Zenon
    <3>5. ASSUME Committed[at[t]] = Unset, Created' = Created \cup {at[t]}
          PROVE  Abstract!Create(t, at[t])
      BY <2>1, <2>2, <2>3, <3>3, <3>5, Zenon DEF Abstract!Create, Abstract!Creates
    <3>6. QED
      BY <2>1, <2>2, <3>4, <3>5, Zenon
  <2>5. CASE OpenFails(t)
    <3>1. Continue(t, FALSE)
      BY <2>5 DEF OpenFails
    <3>2. Abstract!End(t, at[t])
      BY <2>1, <3>1, WriteEnds DEF Abstract!End
    <3>3. Abstract!Creates(t, at[t]) \/ UNCHANGED Created
      BY <2>2, <2>3, Zenon DEF Abstract!Creates
    <3>4. QED
      BY <2>1, <2>2, <3>2, <3>3, Zenon DEF Abstract!GiveUp
  <2>6. QED
    BY <1>3, <2>4, <2>5
<1>4. ASSUME WriteFails(t) PROVE \E k \in Keys : Abstract!Error(t, k)
  <2>1. /\ pc[t] = "write" /\ at[t] \in Keys /\ pc' = [pc EXCEPT ![t] = "close"]
        /\ buffer' = [buffer EXCEPT ![t] = Erred]
        /\ UNCHANGED <<file, running, at, stale, meant>>
    BY <1>4 DEF WriteFails, TypeOK
  <2>2. \A u \in Tasks : pc'[u] \in InFile <=> pc[u] \in InFile
    BY <2>1 DEF TypeOK, InFile
  <2>3. /\ Writes' = Writes /\ TornWrites' = TornWrites
        /\ Committed' = Committed /\ Created' = Created
    BY <2>1, <2>2, WritesStay DEF Committed, Created
  <2>4. <<t, at[t]>> \in Writes
    BY <2>1, Members DEF InFile
  <2>5. FailedWrites' = FailedWrites \cup {<<t, at[t]>>}
    <3>1. ASSUME NEW u \in Tasks, NEW k \in Keys
          PROVE  <<u, k>> \in FailedWrites' <=> <<u, k>> \in FailedWrites \cup {<<t, at[t]>>}
      BY <2>1, <2>3, <2>4, Members DEF TypeOK
    <3>2. /\ FailedWrites' \subseteq Tasks \X Keys
          /\ FailedWrites \cup {<<t, at[t]>>} \subseteq Tasks \X Keys
      BY <2>1, Members
    <3>3. QED
      BY ONLY <3>1, <3>2, SamePairs
  <2>6. QED
    BY <2>1, <2>3, <2>4, <2>5 DEF Abstract!Error
<1>5. ASSUME CloseFile(t)
      PROVE  \/ UNCHANGED Abstract!vars
             \/ \E k \in Keys : Abstract!Persist(t, k) \/ Abstract!GiveUp(t, k)
  <2>1. /\ pc[t] = "close" /\ pc[t] \in InFile /\ at[t] \in Keys /\ UNCHANGED <<running, meant>>
        /\ file' = file \/ (buffer[t] # Erred /\ file' = [file EXCEPT ![at[t]] = buffer[t]])
    BY <1>5 DEF CloseFile, TypeOK, InFile
  <2>2. <<t, at[t]>> \in Writes
    BY <2>1, Members
  <2>3. CASE buffer[t] = Erred
    <3>1. pc' = [pc EXCEPT ![t] = "remove"] /\ UNCHANGED <<at, buffer, stale, file>>
      BY <1>5, <2>1, <2>3 DEF CloseFile
    <3>2. \A u \in Tasks : pc'[u] \in InFile <=> pc[u] \in InFile
      BY <2>1, <3>1 DEF TypeOK, InFile
    <3>3. Writes' = Writes /\ TornWrites' = TornWrites /\ FailedWrites' = FailedWrites
      BY <3>1, <3>2, WritesStay
    <3>4. QED
      BY <2>1, <3>1, <3>3 DEF Committed, Created
  <2>4. CASE buffer[t] # Erred
    <3>1. Continue(t, TRUE)
      BY <1>5, <2>4 DEF CloseFile
    <3>2. <<t, at[t]>> \notin FailedWrites
      BY <2>1, <2>4, Members
    <3>3. Abstract!End(t, at[t])
      BY <2>1, <3>1, WriteEnds DEF Abstract!End
    <3>4. CASE file' = file
      BY <2>1, <3>3, <3>4 DEF Abstract!GiveUp, Committed, Created
    <3>5. CASE file' = [file EXCEPT ![at[t]] = buffer[t]]
      <4>1. buffer[t] \in IF <<t, at[t]>> \in TornWrites THEN Values \cup {Torn} ELSE {meant[at[t]]}
        BY <2>1, <2>2, <2>4, Members DEF WriterInv
      <4>2. buffer[t] # Empty
        BY <2>1, <2>4 DEF WriterInv
      <4>3. Committed' = [Committed EXCEPT ![at[t]] = buffer[t]] /\ Created' = Created \ {at[t]}
        BY <2>1, <3>5, <4>2, CommittedSet
      <4>4. QED
        BY <2>1, <3>2, <3>3, <4>1, <4>3 DEF Abstract!Persist
    <3>6. QED
      BY <2>1, <3>4, <3>5
  <2>5. QED
    BY <2>3, <2>4
<1>6. ASSUME RemoveFile(t) PROVE \E k \in Keys : Abstract!Lose(t, k)
  <2>1. /\ pc[t] = "remove" /\ pc[t] \in InFile /\ at[t] \in Keys /\ UNCHANGED <<running, meant>>
        /\ Continue(t, FALSE) /\ file' = [file EXCEPT ![at[t]] = Unset]
    BY <1>6 DEF RemoveFile, TypeOK, InFile
  <2>2. <<t, at[t]>> \in FailedWrites
    BY <2>1, Members DEF WriterInv
  <2>3. Committed' = [Committed EXCEPT ![at[t]] = Unset] /\ Created' = Created \ {at[t]}
    BY <2>1, CommittedSet
  <2>4. QED
    BY <2>1, <2>2, <2>3, WriteEnds DEF Abstract!Lose, Abstract!End
<1>7. QED
  BY <1>1, <1>2, <1>3, <1>4, <1>5, <1>6 DEF CommitStep

\* A reset throws away what is only staged.
LEMMA RefineRestart ==
  ASSUME Inv, Restart
  PROVE  Abstract!Restart
<1>1. \A u \in Tasks : pc'[u] \notin InFile
  BY DEF Restart, EachTask, InFile
<1>2. \A u \in Tasks, k \in Keys : <<u, k>> \in Writes' <=> <<u, k>> \in {}
  BY <1>1, Members
<1>3. Writes' \subseteq Tasks \X Keys /\ {} \subseteq Tasks \X Keys
  BY Members
<1>4. Writes' = {}
  BY ONLY <1>2, <1>3, SamePairs
<1>5. TornWrites' = {} /\ FailedWrites' = {}
  BY <1>4, Members
<1>6. Committed' = Committed /\ Created' = Created
  BY DEF Restart, Committed, Created
<1>7. QED
  BY <1>4, <1>5, <1>6 DEF Abstract!Restart

\* A boot that loads a key as it is, or as unset, and one that loads nothing.
LEMMA RefineReset ==
  ASSUME Inv
  PROVE  /\ Reset => Abstract!Load
         /\ BootFails => Abstract!LoadFails
<1>1. ASSUME Reset PROVE Abstract!Load
  <2>1. \A k \in Keys : meant'[k] \in {Committed[k], Unset}
    BY <1>1 DEF Reset, Restart, Loaded, Committed
  <2>2. meant' \in [Keys -> Values \cup {Unset, Torn}] /\ running' = TRUE
    BY <1>1 DEF Reset, Restart
  <2>3. QED
    BY <1>1, <2>1, <2>2, RefineRestart DEF Reset, Abstract!Load
<1>2. ASSUME BootFails PROVE Abstract!LoadFails
  <2>1. Created # {}
    BY <1>2 DEF BootFails, Created
  <2>2. meant' = [k \in Keys |-> Unset] /\ running' = FALSE
    BY <1>2 DEF BootFails, Restart
  <2>3. QED
    BY <1>2, <2>1, <2>2, RefineRestart DEF BootFails, Abstract!LoadFails
<1>3. QED
  BY <1>1, <1>2

\* The configuration store, with its cache, its two committing tasks, failing
\* files, files created and not yet written, and resets, is a store of staged
\* and committed values.
THEOREM StoreIsStaged == Spec => ImplementsStagedStore
<1>1. Init => Abstract!Init
  <2> SUFFICES ASSUME Init PROVE Abstract!Init
    OBVIOUS
  <2>1. Writes = {}
    BY DEF Init, Writes, Writing, EachTask
  <2>2. TornWrites = {} /\ FailedWrites = {}
    BY <2>1, Members
  <2>3. /\ meant = [k \in Keys |-> Unset] /\ Committed = [k \in Keys |-> Unset]
        /\ Created = {} /\ running = TRUE
    BY DEF Init, Committed, Created
  <2>4. QED
    BY <2>1, <2>2, <2>3 DEF Abstract!Init
<1>2. Inv /\ [Next]_vars => [Abstract!Next]_(Abstract!vars)
  <2> SUFFICES ASSUME Inv, [Next]_vars PROVE [Abstract!Next]_(Abstract!vars)
    OBVIOUS
  <2>1. CASE UNCHANGED vars
    BY <2>1 DEF vars, commitVars, Abstract!vars, Committed, Created, Writes, TornWrites, FailedWrites, Writing
  <2>2. CASE Reset \/ BootFails
    BY <2>2, RefineReset DEF Abstract!Next
  <2>3. ASSUME NEW t \in Tasks, NEW k \in Keys, NEW v \in Values, running, Set(t, k, v)
        PROVE  Abstract!Next
    BY <2>3, RefineSet DEF Abstract!Next
  <2>4. ASSUME NEW t \in Tasks, StartCommit(t) \/ CommitStep(t)
        PROVE  [Abstract!Next]_(Abstract!vars)
    BY <2>4, RefineCommit DEF Abstract!Next
  <2>5. QED
    BY <2>1, <2>2, <2>3, <2>4 DEF Next, Step
<1>3. QED
  BY <1>1, <1>2, InvHolds, PTL DEF Spec, ImplementsStagedStore, Abstract!Spec
=============================================================================
