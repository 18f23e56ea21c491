-------------------------------- MODULE KVStore --------------------------------
(***************************************************************************)
(* The configuration store: a cache in RAM (kvstore_cache.c) behind the    *)
(* calls of kvstore.c, over one littlefs file for each key                 *)
(* (kvstore_nv_littlefs.c).  The console sets any key and commits; the     *)
(* fleet provisioning task, of the lowest priority, sets its own key and   *)
(* commits.  The mutex of kvstore.c is taken by getters only.              *)
(*                                                                         *)
(* A set is one step: the console's is not interrupted by the other        *)
(* writer, and of that one's, a word, an interruption sees the old word or *)
(* zero.  A commit blocks in the file system, so each file operation is a  *)
(* step.  Values are opaque; where the code follows a pointer into an      *)
(* entry that was set meanwhile, the value written is any.                 *)
(***************************************************************************)
EXTENDS Integers

CONSTANTS
  Console, Fleet,  \* the tasks that set and commit
  NumKeys,         \* CS_NUM_KEYS; the last one is the fleet task's
  Values,
  Unset,           \* KV_TYPE_NONE in the cache, no file (a get returns the default)
  Torn,            \* bytes of an entry that was freed or rewritten under the writer
  Empty,           \* a file that was created and has no content yet
  Erred,           \* an open file whose writing failed
  Faults           \* what may fail: reset, open, write, sync, read

ASSUME StoreAssumption ==
  /\ NumKeys \in Nat \ {0} /\ Console # Fleet
  /\ Faults \subseteq {"reset", "open", "write", "sync", "read"}
  /\ {Unset, Torn, Empty, Erred} \cap Values = {}
  /\ Unset \notin {Torn, Empty, Erred} /\ Torn \notin {Empty, Erred} /\ Empty # Erred

Tasks == {Console, Fleet}
Keys == 1 .. NumKeys
KeysOf(t) == IF t = Fleet THEN {NumKeys} ELSE Keys

VARIABLES
  file,       \* durable: the file of each key
  running,    \* the last boot got past KVStore_init
  cache,      \* kvStoreCache
  pending,    \* xChangePending
  pc,         \* where each task is in KVStore_xCommitChanges
  at,         \* its loop variable
  buffer,     \* what it has written into the open file
  stale,      \* the entry was set since it read the entry's pointer and length
  xSuccess,   \* the conjunction of its results
  meant,      \* history: the value last set, or found at the boot
  disturbed   \* history: keys that others set, or wrote otherwise, during its commit

commitVars == <<pc, at, buffer, stale, xSuccess>>
vars == <<file, running, cache, pending, commitVars, meant, disturbed>>

EachTask(x) == [t \in Tasks |-> x]

Init ==
  /\ file = [k \in Keys |-> Unset] /\ running = TRUE
  /\ cache = [k \in Keys |-> Unset] /\ pending = [k \in Keys |-> FALSE]
  /\ meant = [k \in Keys |-> Unset]
  /\ pc = EachTask("idle") /\ at = EachTask(0) /\ buffer = EachTask(Unset)
  /\ stale = EachTask(FALSE) /\ xSuccess = EachTask(TRUE) /\ disturbed = EachTask({})

Writing(t, k) == pc[t] \in {"open", "write", "close", "remove"} /\ at[t] = k

-----------------------------------------------------------------------------
(* kvstore_cache.c: setting.                                               *)

\* Key k changes under every other task that commits.
Disturb(t, k) ==
  disturbed' = [u \in Tasks |-> IF u # t /\ pc[u] # "idle" THEN disturbed[u] \cup {k}
                                ELSE disturbed[u]]

Changes(k, v) == cache[k] # v

\* xprvWriteCacheEntry, behind the setters.
Set(t, k, v) ==
  /\ pc[t] = "idle"
  /\ k \in KeysOf(t)
  /\ LET written == pending[k] \/ Changes(k, v) IN
     /\ pending' = [pending EXCEPT ![k] = written]
     /\ cache' = [cache EXCEPT ![k] = IF written THEN v ELSE @]
  /\ meant' = [meant EXCEPT ![k] = v]
  /\ stale' = [u \in Tasks |-> stale[u] \/ (u # t /\ Writing(u, k))]
  /\ Disturb(t, k)
  /\ UNCHANGED <<file, running, pc, at, buffer, xSuccess>>

-----------------------------------------------------------------------------
(* KVStore_xCommitChanges, and xprvWriteValueToImpl for each pending key.  *)

StartCommit(t) ==
  /\ pc[t] = "idle"
  /\ pc' = [pc EXCEPT ![t] = "next"] /\ at' = [at EXCEPT ![t] = 1]
  /\ xSuccess' = [xSuccess EXCEPT ![t] = TRUE]
  /\ disturbed' = [disturbed EXCEPT ![t] = {}]
  /\ UNCHANGED <<file, running, cache, pending, buffer, stale, meant>>

\* Faulty variant of NextKey: the change is taken off before it is durable.
NextKeyTakesOff(t) ==
  /\ pc[t] = "next" /\ at[t] \in Keys
  /\ IF pending[at[t]]
     THEN pc' = [pc EXCEPT ![t] = "open"] /\ UNCHANGED at
     ELSE at' = [at EXCEPT ![t] = @ + 1] /\ UNCHANGED pc
  /\ pending' = [pending EXCEPT ![at[t]] = FALSE]
  /\ UNCHANGED <<file, running, cache, buffer, stale, xSuccess, meant, disturbed>>

\* The loop; xChangePending is never cleared.
NextKey(t) ==
  /\ pc[t] = "next" /\ at[t] \in Keys
  /\ IF pending[at[t]]
     THEN pc' = [pc EXCEPT ![t] = "open"] /\ UNCHANGED at
     ELSE at' = [at EXCEPT ![t] = @ + 1] /\ UNCHANGED pc
  /\ UNCHANGED <<file, running, cache, pending, buffer, stale, xSuccess, meant, disturbed>>

\* The next iteration, with the result of this one.
Continue(t, success) ==
  /\ pc' = [pc EXCEPT ![t] = "next"] /\ at' = [at EXCEPT ![t] = @ + 1]
  /\ buffer' = [buffer EXCEPT ![t] = Unset] /\ stale' = [stale EXCEPT ![t] = FALSE]
  /\ xSuccess' = [xSuccess EXCEPT ![t] = @ /\ success]

\* Faulty variant of OpenFile: the file is truncated at once.
OpenFileTruncates(t) ==
  /\ pc[t] = "open"
  /\ pc' = [pc EXCEPT ![t] = "write"]
  /\ file' = [file EXCEPT ![at[t]] = Empty]
  /\ UNCHANGED <<running, cache, pending, at, buffer, stale, xSuccess, meant, disturbed>>

\* With LFS_O_CREAT and LFS_O_TRUNC.  littlefs makes a new file durable at once,
\* without content, and keeps the content of an old one until it is closed.
Create(k) == file' = [file EXCEPT ![k] = IF @ = Unset THEN Empty ELSE @]

OpenFile(t) ==
  /\ pc[t] = "open"
  /\ pc' = [pc EXCEPT ![t] = "write"]
  /\ Create(at[t])
  /\ UNCHANGED <<running, cache, pending, at, buffer, stale, xSuccess, meant, disturbed>>

\* Whether or not it has created the file.
OpenFails(t) ==
  /\ pc[t] = "open" /\ "open" \in Faults
  /\ Create(at[t]) \/ UNCHANGED file
  /\ Continue(t, FALSE)
  /\ UNCHANGED <<running, cache, pending, meant, disturbed>>

\* Header and data, through the pointer that the loop read.
WriteFile(t) ==
  /\ pc[t] = "write"
  /\ \E v \in IF stale[t] THEN Values \cup {Torn} ELSE {cache[at[t]]} :
       buffer' = [buffer EXCEPT ![t] = v]
  /\ pc' = [pc EXCEPT ![t] = "close"]
  /\ UNCHANGED <<file, running, cache, pending, at, stale, xSuccess, meant, disturbed>>

WriteFails(t) ==
  /\ pc[t] = "write" /\ "write" \in Faults
  /\ buffer' = [buffer EXCEPT ![t] = Erred]
  /\ pc' = [pc EXCEPT ![t] = "close"]
  /\ UNCHANGED <<file, running, cache, pending, at, stale, xSuccess, meant, disturbed>>

\* Faulty variant of CloseFile: that the writing failed is not looked at.
CloseFileUnchecked(t) ==
  /\ pc[t] = "close"
  /\ file' = [file EXCEPT ![at[t]] = IF buffer[t] = Erred THEN @ ELSE buffer[t]]
  /\ Continue(t, TRUE)
  /\ IF buffer[t] = meant[at[t]] THEN UNCHANGED disturbed ELSE Disturb(t, at[t])
  /\ UNCHANGED <<running, cache, pending, meant>>

\* lfs_file_sync and lfs_file_close, whose results are not looked at.  After a
\* failed write they write nothing.
CloseFile(t) ==
  /\ pc[t] = "close"
  /\ \/ buffer[t] # Erred /\ file' = [file EXCEPT ![at[t]] = buffer[t]]
     \/ (buffer[t] = Erred \/ "sync" \in Faults) /\ UNCHANGED file
  /\ IF buffer[t] = Erred
     THEN pc' = [pc EXCEPT ![t] = "remove"] /\ UNCHANGED <<at, buffer, stale, xSuccess>>
     ELSE Continue(t, TRUE)
  /\ IF buffer[t] = meant[at[t]] THEN UNCHANGED disturbed ELSE Disturb(t, at[t])
  /\ UNCHANGED <<running, cache, pending, meant>>

\* "Delete partially written file if writing was not successful".
RemoveFile(t) ==
  /\ pc[t] = "remove"
  /\ file' = [file EXCEPT ![at[t]] = Unset]
  /\ Continue(t, FALSE)
  /\ Disturb(t, at[t])
  /\ UNCHANGED <<running, cache, pending, meant>>

\* The loop is over; Return gives the result to the caller.
Done(t) == pc[t] = "next" /\ at[t] \notin Keys

Return(t) ==
  /\ Done(t)
  /\ pc' = [pc EXCEPT ![t] = "idle"] /\ at' = [at EXCEPT ![t] = 0]
  /\ xSuccess' = [xSuccess EXCEPT ![t] = TRUE]
  /\ disturbed' = [disturbed EXCEPT ![t] = {}]
  /\ UNCHANGED <<file, running, cache, pending, buffer, stale, meant>>

-----------------------------------------------------------------------------
(* vprvCacheInit after a reset.                                            *)

\* What the boot finds: an entry keeps KV_TYPE_NONE when its file is missing or
\* cannot be read.
Loaded(k) ==
  ({file[k]} \ {Empty}) \cup (IF "read" \in Faults THEN {Unset} ELSE {})

\* RAM is lost.
Restart ==
  /\ "reset" \in Faults
  /\ pending' = [k \in Keys |-> FALSE]
  /\ meant' = cache'
  /\ pc' = EachTask("idle") /\ at' = EachTask(0) /\ buffer' = EachTask(Unset)
  /\ stale' = EachTask(FALSE) /\ xSuccess' = EachTask(TRUE) /\ disturbed' = EachTask({})
  /\ UNCHANGED file

Reset ==
  /\ cache' \in [Keys -> Values \cup {Unset, Torn}]
  /\ \A k \in Keys : cache'[k] \in Loaded(k)
  /\ running' = TRUE
  /\ Restart

\* An empty file has a length below zero: the buffer for it cannot be allocated,
\* and the hook for that resets the device, at this boot and at every other.
BootFails ==
  /\ \E k \in Keys : file[k] = Empty
  /\ cache' = [k \in Keys |-> Unset]
  /\ running' = FALSE
  /\ Restart

-----------------------------------------------------------------------------
CommitStep(t) ==
  \/ NextKey(t) \/ OpenFile(t) \/ OpenFails(t) \/ WriteFile(t) \/ WriteFails(t)
  \/ CloseFile(t) \/ RemoveFile(t) \/ Return(t)

Step(t) ==
  \/ \E k \in Keys, v \in Values : running /\ Set(t, k, v)
  \/ running /\ StartCommit(t)
  \/ CommitStep(t)

Next ==
  \/ Reset \/ BootFails
  \/ \E t \in Tasks : Step(t)

Spec == Init /\ [][Next]_vars

-----------------------------------------------------------------------------
(* Properties.                                                             *)

\* The type of every variable.
TypeOK ==
  /\ file \in [Keys -> Values \cup {Unset, Torn, Empty}] /\ running \in BOOLEAN
  /\ cache \in [Keys -> Values \cup {Unset, Torn}]
  /\ meant \in [Keys -> Values \cup {Unset, Torn}]
  /\ pending \in [Keys -> BOOLEAN]
  /\ pc \in [Tasks -> {"idle", "next", "open", "write", "close", "remove"}]
  /\ at \in [Tasks -> 0 .. NumKeys + 1]
  /\ \A t \in Tasks : pc[t] \notin {"idle", "next"} => at[t] \in Keys
  /\ buffer \in [Tasks -> Values \cup {Unset, Torn, Erred}]
  /\ stale \in [Tasks -> BOOLEAN] /\ xSuccess \in [Tasks -> BOOLEAN]
  /\ disturbed \in [Tasks -> SUBSET Keys]

\* The changes that a commit looks for are all there: a key whose file is not
\* what it was last set to is pending, whatever writes have failed, or met
\* sets and writes of the other task, since.  (A key the boot could not read
\* is unset, and its file stays.)
DifferenceIsPending ==
  \A k \in Keys : meant[k] # Unset /\ file[k] # meant[k] => pending[k]

\* "Configuration saved to NVM": when a commit reports success, each key that
\* the other task left alone meanwhile is durable with the value it was set to.
SuccessIsDurable ==
  \A t \in Tasks : Done(t) /\ xSuccess[t] =>
    \A k \in Keys \ disturbed[t] : meant[k] # Unset => file[k] = meant[k]

\* Who writes which key, during which of these writes the key was set, and
\* which have failed; what a reset leaves, and which keys have an empty file.
Writes       == {w \in Tasks \X Keys : Writing(w[1], w[2])}
TornWrites   == {w \in Writes : stale[w[1]]}
FailedWrites == {w \in Writes : buffer[w[1]] = Erred}
Committed    == [k \in Keys |-> IF file[k] = Empty THEN Unset ELSE file[k]]
Created      == {k \in Keys : file[k] = Empty}

\* "This change is staged in volatile memory until a commit operation occurs":
\* sets and commits of two tasks, failed operations and resets are those of a
\* store with a staged and a committed value, which loads after a reset unless
\* the first write of a key was cut short.
Abstract == INSTANCE StagedStore WITH
  staged <- meant, committed <- Committed, created <- Created, loaded <- running,
  writing <- Writes, torn <- TornWrites, failed <- FailedWrites

ImplementsStagedStore == Abstract!Spec

-----------------------------------------------------------------------------
(* What the comments say and the code does not do.                         *)

\* "@return length of the value stored in the KVStore or 0 if not found": a key
\* without a value does not keep the device from starting.
DeviceStarts == running
=============================================================================
