----------------------- MODULE SubscriptionManagerProofs -----------------------
(***************************************************************************)
(* Proofs about SubscriptionManager for any tasks, filters and sizes of    *)
(* the tables, asked for with either QoS: its types, the mutex that the    *)
(* agent holds, and the filters that reach their callbacks wherever they   *)
(* are moved.                                                              *)
(***************************************************************************)
EXTENDS SubscriptionManager, FiniteSetTheorems, FunctionTheorems,
        WellFoundedInduction, TLAPS

-----------------------------------------------------------------------------
(* Searching and compressing the table.                                    *)

\* A set of slots has a first one.
LEMMA LeastSlot ==
  ASSUME NEW S \in SUBSET Nat, S # {}
  PROVE  \E i \in S : \A j \in S : i <= j
<1> DEFINE R == OpToRel(<, Nat)
<1>1. IsWellFoundedOn(R, Nat)
  BY NatLessThanWellFounded
<1>2. \A i, j \in Nat : <<j, i>> \in R <=> j < i
  BY DEF OpToRel
<1> HIDE DEF R
<1>3. PICK i \in S : \A j \in S : ~ (<<j, i>> \in R)
  BY <1>1, WFMin
<1>4. ASSUME NEW j \in S PROVE i <= j
  <2>1. i \in Nat /\ j \in Nat
    OBVIOUS
  <2>2. ~ (<<j, i>> \in R)
    BY <1>3
  <2>3. ~ (j < i)
    BY <1>2, <2>1, <2>2
  <2>4. QED
    BY <2>1, <2>3
<1>5. QED
  BY <1>4

\* What a search ends at: a slot of those it looks for, if there is one.
LEMMA FirstIs ==
  ASSUME NEW S \in SUBSET Slots
  PROVE  /\ S # {} => First(S) \in S
         /\ FirstOrNone(S) \in Slots \cup {NoSlot}
         /\ FirstOrNone(S) # NoSlot => FirstOrNone(S) \in S
         /\ S # {} => FirstOrNone(S) \in S
<1>1. S \in SUBSET Nat
  BY TablesAssumption DEF Slots
<1>2. S # {} => First(S) \in S
  BY <1>1, LeastSlot DEF First
<1>3. QED
  BY <1>2 DEF FirstOrNone

\* The slot a subscription gets holds its filter or is empty.
LEMMA TargetIs ==
  ASSUME TypeOK, NEW topic \in Topics
  PROVE  /\ Target(topic) \in Slots \cup {NoSlot}
         /\ Target(topic) # NoSlot => filter[Target(topic)] = topic \/ Target(topic) \in Empty
         /\ ResetAck(topic) \in [Slots -> {"failure", "granted"}]
<1>1. Matches(topic) \in SUBSET Slots /\ Empty \in SUBSET Slots
  BY DEF Matches, Empty
<1>2. CASE Matches(topic) # {}
  <2>1. Target(topic) \in Matches(topic)
    BY <1>1, <1>2, FirstIs DEF Target
  <2>2. QED
    BY <1>1, <2>1 DEF Matches, Empty, ResetAck, TypeOK
<1>3. CASE Matches(topic) = {}
  <2>1. Target(topic) = FirstOrNone(Empty)
    BY <1>3 DEF Target
  <2>2. Target(topic) \in Slots \cup {NoSlot} /\ (Target(topic) # NoSlot => Target(topic) \in Empty)
    BY <1>1, <2>1, FirstIs
  <2>3. QED
    BY <1>1, <2>2 DEF ResetAck, TypeOK
<1>4. QED
  BY <1>2, <1>3

\* The places that the filters move to are different, in the table, and all
\* the places from the first one on.
LEMMA RankIs ==
  /\ IsFiniteSet(Used) /\ Cardinality(Used) \in Nat /\ Cardinality(Used) <= MaxSubs
  /\ \A i \in Used : Rank(i) \in 1..Cardinality(Used) /\ Rank(i) \in Slots
  /\ \A i, j \in Used : Rank(i) = Rank(j) => i = j
  /\ \A n \in 1..Cardinality(Used) : \E i \in Used : Rank(i) = n
<1>1. MaxSubs \in Nat /\ Used \in SUBSET (1..MaxSubs) /\ Slots = 1..MaxSubs
  BY TablesAssumption DEF Used, Slots
<1>2. IsFiniteSet(1..MaxSubs) /\ Cardinality(1..MaxSubs) = MaxSubs
  BY <1>1, FS_Interval
<1>3. /\ IsFiniteSet(Used) /\ Cardinality(Used) <= MaxSubs /\ Cardinality(Used) \in Nat
  BY <1>1, <1>2, FS_Subset, FS_CardinalityType
<1> DEFINE Upto(i) == {j \in Used : j <= i}
<1>4. ASSUME NEW i \in Used PROVE Rank(i) \in 1..Cardinality(Used)
  <2>1. Upto(i) \in SUBSET Used /\ i \in Upto(i)
    BY <1>1
  <2>2. IsFiniteSet(Upto(i)) /\ Cardinality(Upto(i)) \in Nat /\ Cardinality(Upto(i)) <= Cardinality(Used)
    BY <1>3, <2>1, FS_Subset, FS_CardinalityType
  <2>3. Cardinality(Upto(i)) # 0
    BY <2>1, <2>2, FS_EmptySet
  <2>4. Rank(i) = Cardinality(Upto(i))
    BY DEF Rank
  <2>5. QED
    BY <1>3, <2>2, <2>3, <2>4
<1>5. ASSUME NEW i \in Used, NEW j \in Used, i < j PROVE Rank(i) # Rank(j)
  <2>1. Upto(j) \in SUBSET Used /\ Upto(i) \in SUBSET Upto(j)
    <3>1. i \in Nat /\ j \in Nat /\ \A k \in Used : k \in Nat
      BY <1>1
    <3>2. \A k \in Used : k <= i => k <= j
      BY <1>5, <3>1
    <3>3. QED
      BY <3>2
  <2>2. j \in Upto(j) /\ j \notin Upto(i)
    BY <1>1, <1>5
  <2>3. IsFiniteSet(Upto(j))
    BY <1>3, <2>1, FS_Subset
  <2>4. Cardinality(Upto(j)) # Cardinality(Upto(i))
    BY <2>1, <2>2, <2>3, FS_Subset
  <2>5. Rank(i) = Cardinality(Upto(i)) /\ Rank(j) = Cardinality(Upto(j))
    BY DEF Rank
  <2>6. QED
    BY <2>4, <2>5
<1>6. \A i, j \in Used : Rank(i) = Rank(j) => i = j
  <2> SUFFICES ASSUME NEW i \in Used, NEW j \in Used, i # j PROVE Rank(i) # Rank(j)
    OBVIOUS
  <2>1. i < j \/ j < i
    BY <1>1
  <2>2. QED
    BY <1>5, <2>1
<1> DEFINE place == [i \in Used |-> Rank(i)]
           N == 1..Cardinality(Used)
<1>7. place \in [Used -> N] /\ \A i \in Used : place[i] = Rank(i)
  BY <1>4
<1>8. IsFiniteSet(N) /\ Cardinality(N) = Cardinality(Used)
  BY <1>3, FS_Interval
<1> HIDE DEF place, N
<1>9. place \in Injection(Used, N)
  BY <1>6, <1>7, Fun_IsInj
<1>10. place \in Surjection(Used, N)
  BY <1>3, <1>8, <1>9, FS_Injection
<1>11. \A n \in N : \E i \in Used : Rank(i) = n
  BY <1>7, <1>10, Fun_SurjectionProperties
<1>12. QED
  BY <1>1, <1>3, <1>4, <1>6, <1>11 DEF N

\* After prvCompressSubscriptionList each filter is in its new place, and its
\* callbacks name that place.
LEMMA CompressIs ==
  ASSUME TypeOK, IsFiniteSet(callbacks), CompressSubscriptionList
  PROVE  /\ filter' \in [Slots -> Topics \cup {NoTopic}]
         /\ \A i \in Used : Rank(i) \in Slots /\ filter'[Rank(i)] = filter[i]
         /\ \A e \in callbacks : e.sub \in Used => [sub |-> Rank(e.sub), task |-> e.task] \in callbacks'
         /\ callbacks' \subseteq [sub : Slots, task : Tasks]
         /\ IsFiniteSet(callbacks') /\ Cardinality(callbacks') <= MaxCallbacks
<1>1. filter' = [i \in Slots |-> IF i <= Cardinality(Used)
                                 THEN filter[CHOOSE j \in Used : Rank(j) = i] ELSE NoTopic]
  BY DEF CompressSubscriptionList
<1>2. Used \subseteq Slots /\ Slots = 1..MaxSubs /\ MaxSubs \in Nat
  BY TablesAssumption DEF Used, Slots
<1>3. ASSUME NEW n \in 1..Cardinality(Used)
      PROVE  (CHOOSE j \in Used : Rank(j) = n) \in Used /\ Rank(CHOOSE j \in Used : Rank(j) = n) = n
  BY RankIs
<1>4. ASSUME NEW n \in Slots PROVE filter'[n] \in Topics \cup {NoTopic}
  <2>1. CASE n <= Cardinality(Used)
    <3>1. n \in 1..Cardinality(Used)
      BY <1>2, <2>1, RankIs
    <3>2. filter'[n] = filter[CHOOSE j \in Used : Rank(j) = n]
      BY <1>1, <2>1
    <3>3. QED
      BY <1>2, <1>3, <3>1, <3>2 DEF TypeOK
  <2>2. CASE ~ (n <= Cardinality(Used))
    BY <1>1, <2>2
  <2>3. QED
    BY <2>1, <2>2
<1>5. filter' \in [Slots -> Topics \cup {NoTopic}]
  BY <1>1, <1>4
<1>6. ASSUME NEW i \in Used PROVE Rank(i) \in Slots /\ filter'[Rank(i)] = filter[i]
  <2>1. Rank(i) \in Slots /\ Rank(i) \in 1..Cardinality(Used)
    BY RankIs
  <2>2. filter'[Rank(i)] = filter[CHOOSE j \in Used : Rank(j) = Rank(i)]
    BY <1>1, <2>1, RankIs
  <2>3. (CHOOSE j \in Used : Rank(j) = Rank(i)) = i
    BY <1>3, <2>1, RankIs
  <2>4. QED
    BY <2>1, <2>2, <2>3
<1> DEFINE moved(e) == [sub |-> IF e.sub \in Used THEN Rank(e.sub) ELSE e.sub, task |-> e.task]
<1>7. callbacks' = {moved(e) : e \in callbacks}
  BY DEF CompressSubscriptionList
<1>8. \A e \in callbacks : e.sub \in Slots /\ e.task \in Tasks
  BY DEF TypeOK
<1>9. \A e \in callbacks : moved(e) \in [sub : Slots, task : Tasks]
  BY <1>8, RankIs
<1>10. \A e \in callbacks : e.sub \in Used => [sub |-> Rank(e.sub), task |-> e.task] \in callbacks'
  BY <1>7
<1>11. IsFiniteSet(callbacks') /\ Cardinality(callbacks') <= Cardinality(callbacks)
  <2> DEFINE f == [e \in callbacks |-> moved(e)]
  <2>1. f \in [callbacks -> callbacks'] /\ \A x \in callbacks' : \E e \in callbacks : f[e] = x
    BY <1>7
  <2> HIDE DEF f
  <2>2. f \in Surjection(callbacks, callbacks')
    BY <2>1, Fun_IsSurj
  <2>3. QED
    BY <2>2, FS_Surjection
<1>12. Cardinality(callbacks') <= MaxCallbacks
  <2>1. Cardinality(callbacks) \in Nat /\ Cardinality(callbacks') \in Nat /\ MaxCallbacks \in Nat
    BY <1>11, FS_CardinalityType, TablesAssumption
  <2>2. Cardinality(callbacks) <= MaxCallbacks
    BY DEF TypeOK
  <2>3. QED
    BY <1>11, <2>1, <2>2
<1>13. QED
  BY <1>5, <1>6, <1>7, <1>9, <1>10, <1>11, <1>12

-----------------------------------------------------------------------------
(* The invariant.                                                          *)

\* Until the first connection the agent holds the mutex, and nobody else has
\* begun anything.
FreshInv ==
  clean => /\ locked /\ queue = <<>> /\ phase \notin {"up", "blocked"}
           /\ \A c \in Senders : sent[c] = "no"
           /\ subscribed = {} /\ \A t \in Tasks : pc[t] = "idle"

\* A call to subscribe has a slot; a task that unsubscribes is not subscribed.
Subscribing(t) == pc[t] \in {"subSend", "subWait"}
CallInv ==
  \A t \in Tasks : /\ Subscribing(t) => slot[t] \in Slots
                   /\ pc[t] \in {"unsubSend", "unsubWait", "unsubRemove"} => t \notin subscribed

Inv == TypeOK /\ IsFiniteSet(callbacks) /\ FreshInv /\ CallInv

\* The types of what the callers and the connection change.
CallTypes ==
  /\ pc \in [Tasks -> PCs] /\ slot \in [Tasks -> Slots \cup {NoSlot}]
  /\ count \in [Tasks -> Nat] /\ note \in [Tasks -> Notes] /\ subscribed \subseteq Tasks
  /\ misplaced \subseteq Tasks
TableTypes ==
  /\ filter \in [Slots -> Topics \cup {NoTopic}]
  /\ subAck \in [Slots -> {"failure", "granted"}]
  /\ cbCount \in [Slots -> Nat]
  /\ callbacks \subseteq [sub : Slots, task : Tasks]
  /\ Cardinality(callbacks) <= MaxCallbacks /\ IsFiniteSet(callbacks)
LinkTypes ==
  /\ phase \in Phases /\ known \subseteq Topics /\ asked \in 0..MaxSubs
  /\ queue \in Seq(Senders) /\ sent \in [Senders -> {"no", "unanswered", "answered"}]
FlagTypes == locked \in BOOLEAN /\ clean \in BOOLEAN /\ left \in BOOLEAN

\* The type invariant is the types of these parts.
LEMMA TypeParts == TypeOK /\ IsFiniteSet(callbacks) <=> CallTypes /\ TableTypes /\ LinkTypes /\ FlagTypes
  BY DEF TypeOK, CallTypes, TableTypes, LinkTypes, FlagTypes

\* A queue with one more sender.
LEMMA EnqueueType ==
  ASSUME NEW S, NEW q \in Seq(S), NEW x \in S
  PROVE  Append(q, x) \in Seq(S)
  OBVIOUS

\* Whether a queue holds a sender's command, and no more than one of them.
Has(q, x)  == \E i \in 1..Len(q) : q[i] = x
Once(q, x) == \A i, j \in 1..Len(q) : q[i] = x /\ q[j] = x => i = j

\* Queueing a command.
LEMMA AppendHas ==
  ASSUME NEW S, NEW q \in Seq(S), NEW x \in S, NEW y
  PROVE  /\ Has(Append(q, x), y) <=> Has(q, y) \/ x = y
         /\ Once(q, y) /\ (x = y => ~Has(q, y)) => Once(Append(q, x), y)
<1>1. /\ Len(q) \in Nat /\ Len(Append(q, x)) = Len(q) + 1 /\ Append(q, x)[Len(q) + 1] = x
      /\ \A i \in 1..Len(q) : Append(q, x)[i] = q[i]
  OBVIOUS
<1> DEFINE r == Append(q, x)
<1> HIDE DEF r
<1>2. /\ Len(r) = Len(q) + 1 /\ r[Len(q) + 1] = x /\ \A i \in 1..Len(q) : r[i] = q[i]
  BY <1>1 DEF r
<1>3. \A i \in 1..Len(r) : i \in 1..Len(q) \/ i = Len(q) + 1
  BY <1>1, <1>2
<1>4. \A i \in 1..Len(q) : i \in 1..Len(r)
  BY <1>1, <1>2
<1>5. Len(q) + 1 \in 1..Len(r)
  BY <1>1, <1>2
<1>6. Has(r, y) <=> Has(q, y) \/ x = y
  BY ONLY <1>2, <1>3, <1>4, <1>5, Zenon DEF Has
<1>7. Once(q, y) /\ (x = y => ~Has(q, y)) => Once(r, y)
  <2> SUFFICES ASSUME Once(q, y), x = y => ~Has(q, y),
                      NEW i \in 1..Len(r), NEW j \in 1..Len(r), r[i] = y, r[j] = y
               PROVE  i = j
    BY DEF Once
  <2>1. CASE i \in 1..Len(q) /\ j \in 1..Len(q)
    BY <1>2, <2>1 DEF Once
  <2>2. CASE i \notin 1..Len(q) /\ j \notin 1..Len(q)
    BY <1>3, <2>2
  <2>3. ASSUME NEW k \in 1..Len(q), r[k] = y, r[Len(q) + 1] = y PROVE FALSE
    BY <1>2, <2>3 DEF Has
  <2>4. QED
    BY <1>3, <2>1, <2>2, <2>3
<1>8. QED
  BY <1>6, <1>7 DEF r

\* Taking the command at the head.
LEMMA TailHas ==
  ASSUME NEW S, NEW q \in Seq(S), q # <<>>, NEW y
  PROVE  /\ Has(Tail(q), y) => Has(q, y)
         /\ Once(q, y) => Once(Tail(q), y)
         /\ Has(q, Head(q)) /\ (Once(q, Head(q)) => ~Has(Tail(q), Head(q)))
<1> DEFINE r == Tail(q)
<1>1. /\ Len(q) \in Nat \ {0} /\ Len(r) = Len(q) - 1 /\ Head(q) = q[1]
      /\ \A i \in 1..Len(r) : r[i] = q[i + 1]
  OBVIOUS
<1> HIDE DEF r
<1>2. \A i \in 1..Len(r) : i + 1 \in 1..Len(q) /\ i + 1 # 1
  BY <1>1
<1>3. 1 \in 1..Len(q)
  BY <1>1
<1>4. Has(r, y) => Has(q, y)
  BY <1>1, <1>2 DEF Has
<1>5. Once(q, y) => Once(r, y)
  BY <1>1, <1>2 DEF Once
<1>6. Has(q, Head(q)) /\ (Once(q, Head(q)) => ~Has(r, Head(q)))
  BY <1>1, <1>2, <1>3 DEF Has, Once
<1>7. QED
  BY <1>4, <1>5, <1>6 DEF r

\* A queue without its first n elements.
LEMMA SuffixType ==
  ASSUME NEW S, NEW q \in Seq(S), NEW n \in 0..Len(q)
  PROVE  /\ SubSeq(q, n + 1, Len(q)) \in Seq(S)
         /\ q = <<>> => SubSeq(q, n + 1, Len(q)) = <<>>
         /\ \A y : Has(SubSeq(q, n + 1, Len(q)), y) => Has(q, y)
<1>1. Len(q) \in Nat
  OBVIOUS
<1>2. SubSeq(q, n + 1, Len(q)) \in Seq(S)
  BY <1>1
<1>3. q = <<>> => SubSeq(q, n + 1, Len(q)) = <<>>
  BY <1>1
<1> DEFINE r == SubSeq(q, n + 1, Len(q))
<1>4. Len(r) = Len(q) - n /\ \A i \in 1..Len(r) : r[i] = q[n + i]
  BY <1>1
<1> HIDE DEF r
<1>5. \A i \in 1..Len(r) : n + i \in 1..Len(q)
  BY <1>1, <1>4
<1>6. \A y : Has(r, y) => Has(q, y)
  BY <1>4, <1>5 DEF Has
<1>7. QED
  BY <1>2, <1>3, <1>6 DEF r

\* The head and the rest of a queue.
LEMMA HeadTailType ==
  ASSUME NEW S, NEW q \in Seq(S), q # <<>>
  PROVE  Head(q) \in S /\ Tail(q) \in Seq(S)
  OBVIOUS

\* The initial state.
LEMMA InvInit == Init => Inv
<1> SUFFICES ASSUME Init PROVE Inv
  OBVIOUS
<1>1. CallTypes
  BY DEF Init, CallTypes, PCs, Notes
<1>2. TableTypes
  <2>1. IsFiniteSet(callbacks) /\ Cardinality(callbacks) = 0
    BY FS_EmptySet DEF Init
  <2>2. QED
    BY <2>1, TablesAssumption DEF Init, TableTypes
<1>3. LinkTypes
  BY TablesAssumption DEF Init, LinkTypes, Phases
<1>4. FlagTypes
  BY Zenon DEF Init, FlagTypes
<1>5. FreshInv /\ CallInv
  BY DEF Init, FreshInv, CallInv, Subscribing
<1>6. QED
  BY <1>1, <1>2, <1>3, <1>4, <1>5, TypeParts DEF Inv

\* The callbacks of concluded commands give the mutex only for the agent's own.
LEMMA ConcludeIs ==
  ASSUME TypeOK, NEW C, ConcludeAll(C)
  PROVE  /\ note' \in [Tasks -> Notes] /\ subAck' \in [Slots -> {"failure", "granted"}]
         /\ locked' \in BOOLEAN /\ (C \cap Own = {} => (locked' <=> locked))
<1>1. note' \in [Tasks -> Notes]
  BY DEF ConcludeAll, TypeOK, Notes
<1>2. CASE C \cap Own # {}
  <2>1. PICK codes \in [Active -> {"failure", "granted"}] : ResubscribeCallback(codes)
    BY <1>2 DEF ConcludeAll
  <2>2. subAck' \in [Slots -> {"failure", "granted"}]
    BY <2>1 DEF ResubscribeCallback, TypeOK
  <2>3. locked' \in BOOLEAN
    BY <2>1, Zenon DEF ResubscribeCallback
  <2>4. QED
    BY <1>1, <1>2, <2>2, <2>3
<1>3. CASE C \cap Own = {}
  <2>1. subAck' = subAck
    BY <1>3 DEF ConcludeAll
  <2>2. locked' \in BOOLEAN /\ (locked' <=> locked)
    BY <1>3, Zenon DEF ConcludeAll, TypeOK
  <2>3. QED
    BY <1>1, <2>1, <2>2 DEF TypeOK
<1>4. QED
  BY <1>2, <1>3

\* The agent's own commands under way are those in the queue and those that
\* await an acknowledgment.
LEMMA PendingIs ==
  ASSUME TypeOK
  PROVE  \A c : c \in Pending <=> c \in Own /\ (Has(queue, c) \/ sent[c] # "no")
<1>1. Own \subseteq Senders /\ \A c : c \in Queued <=> Has(queue, c)
  BY DEF Senders, Queued, Has
<1>2. QED
  BY <1>1 DEF Pending, Waiting

\* What a cancellation concludes is under way.
LEMMA CancelledIsPending ==
  ASSUME TypeOK, NEW n \in 0..Len(queue)
  PROVE  (FromQueue(n) \cup Waiting) \cap Own \subseteq Pending
<1>1. Len(queue) \in Nat
  BY DEF TypeOK
<1>2. FromQueue(n) \subseteq Queued
  BY <1>1 DEF FromQueue, Queued
<1>3. QED
  BY <1>2 DEF Pending

\* Cancelling leaves the mutex alone unless a SUBSCRIBE of the agent's is under
\* way, and puts nothing in the queue.
LEMMA CancelIs ==
  ASSUME TypeOK, CancelAll
  PROVE  /\ queue' \in Seq(Senders) /\ sent' = [c \in Senders |-> "no"]
         /\ note' \in [Tasks -> Notes] /\ subAck' \in [Slots -> {"failure", "granted"}]
         /\ locked' \in BOOLEAN /\ (Pending = {} => (locked' <=> locked))
         /\ queue = <<>> => queue' = <<>>
         /\ \A c : Has(queue', c) => Has(queue, c)
<1>1. PICK n \in 0..Len(queue) :
        /\ queue' = SubSeq(queue, n + 1, Len(queue))
        /\ sent' = [c \in Senders |-> "no"]
        /\ ConcludeAll(FromQueue(n) \cup Waiting)
  BY DEF CancelAll
<1>2. queue \in Seq(Senders)
  BY DEF TypeOK
<1>3. /\ queue' \in Seq(Senders) /\ (queue = <<>> => queue' = <<>>)
      /\ \A c : Has(queue', c) => Has(queue, c)
  <2>1. queue' = SubSeq(queue, n + 1, Len(queue))
    BY <1>1
  <2>2. QED
    BY ONLY <1>2, <2>1, SuffixType
<1> DEFINE C == FromQueue(n) \cup Waiting
<1>4. Pending = {} => C \cap Own = {}
  BY CancelledIsPending
<1>5. ConcludeAll(C)
  BY <1>1
<1> HIDE DEF C
<1>6. QED
  BY <1>1, <1>3, <1>4, <1>5, ConcludeIs

\* The steps of a task keep the types.
LEMMA TaskTypes ==
  ASSUME Inv, NEW t \in Tasks, TaskStep(t)
  PROVE  TypeOK' /\ IsFiniteSet(callbacks')
<1> USE DEF tables, agent, commands, callers, history
<1>1. CallTypes /\ TableTypes /\ LinkTypes /\ FlagTypes
  BY TypeParts DEF Inv
<1>2. SUFFICES CallTypes' /\ TableTypes' /\ LinkTypes' /\ FlagTypes'
  BY DEF TypeOK, CallTypes, TableTypes, LinkTypes, FlagTypes
<1>3. FlagTypes'
  BY <1>1, Zenon DEF FlagTypes, TaskStep, CallStep, SubscribeSync, UnSubscribeSync, SendSubRequest,
    SubRequestDone, SendUnsubRequest, UnsubRequestDone, RemoveCallback
<1>4. LinkTypes'
  <2>1. /\ phase' = phase /\ known' = known /\ sent' = sent /\ asked' = asked
        /\ queue' = queue \/ queue' = Append(queue, t)
    BY DEF TaskStep, CallStep, SubscribeSync, UnSubscribeSync, SendSubRequest,
      SubRequestDone, SendUnsubRequest, UnsubRequestDone, RemoveCallback, Enqueue
  <2>2. queue \in Seq(Senders) /\ t \in Senders
    BY <1>1 DEF LinkTypes, Senders
  <2>3. Append(queue, t) \in Seq(Senders)
    BY ONLY <2>2, EnqueueType
  <2>4. QED
    BY <1>1, <2>1, <2>2, <2>3 DEF LinkTypes
<1>5. CASE SubscribeSync(t)
  <2> DEFINE topic == TopicOf[t]
             s == Target(topic)
             entry == [sub |-> s, task |-> t]
             fits == s # NoSlot /\ (entry \in callbacks \/ Cardinality(callbacks) < MaxCallbacks)
  <2>1. topic \in Topics
    BY TablesAssumption
  <2>2. /\ s \in Slots \cup {NoSlot}
        /\ ResetAck(topic) \in [Slots -> {"failure", "granted"}]
    BY <2>1, TargetIs DEF Inv
  <2>3. subAck' \in [Slots -> {"failure", "granted"}]
    BY <1>5, <2>2 DEF SubscribeSync
  <2>4. CASE UNCHANGED <<filter, cbCount, callbacks, pc, slot, misplaced>>
    BY <1>1, <1>3, <1>4, <1>5, <2>3, <2>4 DEF SubscribeSync, CallTypes, TableTypes
  <2>5. CASE /\ fits
             /\ filter' = [filter EXCEPT ![s] = topic] \/ filter' = filter
             /\ callbacks' = callbacks \cup {entry}
             /\ cbCount' = IF entry \in callbacks THEN cbCount ELSE [cbCount EXCEPT ![s] = @ + 1]
             /\ pc' = [pc EXCEPT ![t] = "subSend"] /\ slot' = [slot EXCEPT ![t] = s]
             /\ misplaced' = misplaced \cup {t} \/ misplaced' = misplaced \ {t}
    <3>1. s \in Slots /\ entry \in [sub : Slots, task : Tasks]
      BY <2>2, <2>5
    <3>2. IsFiniteSet(callbacks') /\ Cardinality(callbacks') <= MaxCallbacks
      <4>1. IsFiniteSet(callbacks) /\ Cardinality(callbacks) \in Nat /\ Cardinality(callbacks) <= MaxCallbacks
        BY <1>1, FS_CardinalityType DEF TableTypes
      <4>2. CASE entry \in callbacks
        <5>1. callbacks' = callbacks
          BY <2>5, <4>2
        <5>2. QED
          BY <4>1, <5>1
      <4>3. CASE entry \notin callbacks
        <5>1. IsFiniteSet(callbacks') /\ Cardinality(callbacks') = Cardinality(callbacks) + 1
          BY <2>5, <4>1, <4>3, FS_AddElement, Zenon
        <5>2. Cardinality(callbacks) < MaxCallbacks
          BY <2>5, <4>3
        <5>3. QED
          BY <4>1, <5>1, <5>2, TablesAssumption
      <4>4. QED
        BY <4>2, <4>3
    <3>3. /\ filter' \in [Slots -> Topics \cup {NoTopic}] /\ cbCount' \in [Slots -> Nat]
          /\ callbacks' \subseteq [sub : Slots, task : Tasks]
      BY <1>1, <2>1, <2>5, <3>1 DEF TableTypes
    <3>4. CallTypes'
      BY <1>1, <1>5, <2>5, <3>1 DEF CallTypes, SubscribeSync, PCs
    <3>5. QED
      BY <1>3, <1>4, <2>3, <3>2, <3>3, <3>4 DEF TableTypes
  <2>6. QED
    BY <1>5, <2>4, <2>5 DEF SubscribeSync
<1>6. CASE UnSubscribeSync(t)
  <2> DEFINE s == FirstOrNone({i \in Slots : filter[i] = TopicOf[t]})
             n == IF s = NoSlot THEN 0 ELSE cbCount[s]
  <2>1. s \in Slots \cup {NoSlot}
    BY FirstIs
  <2>2. n \in Nat /\ (n > 0 => n - 1 \in Nat /\ s \in Slots)
    BY <1>1, <2>1 DEF TableTypes
  <2>3. /\ count' = [count EXCEPT ![t] = n]
        /\ cbCount' = IF n > 0 THEN [cbCount EXCEPT ![s] = n - 1] ELSE cbCount
    BY <1>6 DEF UnSubscribeSync
  <2> HIDE DEF n, s
  <2>4. count' \in [Tasks -> Nat] /\ cbCount' \in [Slots -> Nat]
    BY <1>1, <2>2, <2>3 DEF CallTypes, TableTypes
  <2>5. QED
    BY <1>1, <1>3, <1>4, <1>6, <2>4 DEF UnSubscribeSync, CallTypes, TableTypes, PCs
<1>7. CASE CallStep(t)
  <2>1. CASE SubRequestDone(t)
    <3>1. subAck' \in [Slots -> {"failure", "granted"}]
      BY <1>1, <2>1 DEF SubRequestDone, TableTypes
    <3>2. TableTypes'
      BY <1>1, <2>1, <3>1 DEF SubRequestDone, TableTypes
    <3>3. CallTypes'
      BY <1>1, <2>1 DEF SubRequestDone, Return, CallTypes, PCs, Notes
    <3>4. QED
      BY <1>3, <1>4, <3>2, <3>3
  <2>2. CASE SendSubRequest(t)
    BY <1>1, <1>3, <1>4, <2>2 DEF SendSubRequest, Return, CallTypes, TableTypes, PCs
  <2>3. CASE SendUnsubRequest(t) \/ UnsubRequestDone(t)
    BY <1>1, <1>3, <1>4, <2>3 DEF SendUnsubRequest, UnsubRequestDone, CallTypes, TableTypes, PCs, Notes
  <2>4. QED
    BY <1>7, <2>1, <2>2, <2>3 DEF CallStep
<1>8. CASE RemoveCallback(t)
  <2>1. callbacks' \in SUBSET callbacks
    BY <1>8 DEF RemoveCallback
  <2>2. IsFiniteSet(callbacks') /\ Cardinality(callbacks') <= MaxCallbacks
    <3>1. IsFiniteSet(callbacks') /\ Cardinality(callbacks') <= Cardinality(callbacks)
      BY <1>1, <2>1, FS_Subset DEF TableTypes
    <3>2. /\ Cardinality(callbacks') \in Nat /\ Cardinality(callbacks) \in Nat /\ MaxCallbacks \in Nat
          /\ Cardinality(callbacks) <= MaxCallbacks
      BY <1>1, <3>1, FS_CardinalityType, TablesAssumption DEF TableTypes
    <3>3. QED
      BY <3>1, <3>2
  <2>3. filter' \in [Slots -> Topics \cup {NoTopic}] /\ subAck' \in [Slots -> {"failure", "granted"}]
    BY <1>1, <1>8 DEF RemoveCallback, TableTypes
  <2>4. TableTypes'
    BY <1>1, <1>8, <2>1, <2>2, <2>3 DEF RemoveCallback, TableTypes
  <2>5. CallTypes'
    BY <1>1, <1>8 DEF RemoveCallback, Return, CallTypes, PCs
  <2>6. QED
    BY <1>3, <1>4, <2>4, <2>5
<1>9. QED
  BY <1>5, <1>6, <1>7, <1>8 DEF TaskStep

\* The filters that a command names, once it can be sent, are filters.
LEMMA CommandTopics ==
  ASSUME Inv, NEW c \in Senders, NoTopic \notin Subscribes(c)
  PROVE  Granted(Subscribes(c)) \subseteq Topics
<1>1. filter \in [Slots -> Topics \cup {NoTopic}]
  BY DEF Inv, TypeOK
<1>2. CASE c \in Own
  <2>1. \A i \in 1..asked : i \in Slots
    BY TablesAssumption DEF Inv, TypeOK, Slots
  <2>2. Subscribes(c) = {filter[i] : i \in 1..asked}
    BY <1>2, TablesAssumption DEF Subscribes
  <2>3. QED
    BY <1>1, <2>1, <2>2 DEF Granted
<1>3. CASE c \notin Own /\ c \in Tasks /\ pc[c] = "subWait"
  <2>1. slot[c] \in Slots
    BY <1>3 DEF Inv, CallInv, Subscribing
  <2>2. Subscribes(c) = {filter[slot[c]]}
    BY <1>3 DEF Subscribes
  <2>3. QED
    BY <1>1, <2>1, <2>2 DEF Granted
<1>4. CASE c \notin Own /\ ~ (c \in Tasks /\ pc[c] = "subWait")
  <2>1. Subscribes(c) = {}
    BY <1>4 DEF Subscribes
  <2>2. QED
    BY <2>1 DEF Granted
<1>5. QED
  BY <1>2, <1>3, <1>4

\* The agent's steps keep the types.
LEMMA AgentTypes ==
  ASSUME Inv, AgentStep \/ ConnectFails \/ IncomingPublish \/ LoopEnds \/ AssertionFails
  PROVE  TypeOK' /\ IsFiniteSet(callbacks')
<1> USE DEF tables, agent, commands, callers, history
<1>1. CallTypes /\ TableTypes /\ LinkTypes /\ FlagTypes
  BY TypeParts DEF Inv
<1>2. SUFFICES CallTypes' /\ TableTypes' /\ LinkTypes' /\ FlagTypes'
  BY DEF TypeOK, CallTypes, TableTypes, LinkTypes, FlagTypes
<1>3. clean' \in BOOLEAN /\ left' \in BOOLEAN
  <2>1. CASE Close
    BY <1>1, <2>1, Zenon DEF FlagTypes, Close
  <2>2. CASE ~Close
    BY <1>1, <2>2, Zenon DEF FlagTypes, AgentStep, StartConnect, ConnectMade, ConnectClean, ConnectPresent,
      ConnectNew, Execute, ExecuteCommand, ExecuteFails, LockTables, ReceiveAck, ConnectFails,
      IncomingPublish, LoopEnds, AssertionFails
  <2>3. QED
    BY <2>1, <2>2
<1>4. CASE StartConnect \/ Close
  <2>1. CancelAll
    BY <1>4 DEF StartConnect, Close
  <2>2. /\ queue' \in Seq(Senders) /\ sent' \in [Senders -> {"no", "unanswered", "answered"}]
        /\ note' \in [Tasks -> Notes] /\ subAck' \in [Slots -> {"failure", "granted"}]
        /\ locked' \in BOOLEAN
    BY <2>1, CancelIs DEF Inv
  <2>3. CallTypes'
    BY <1>1, <1>4, <2>2 DEF StartConnect, Close, CallTypes
  <2>4. TableTypes'
    BY <1>1, <1>4, <2>2 DEF StartConnect, Close, TableTypes
  <2>5. LinkTypes'
    BY <1>1, <1>4, <2>2 DEF StartConnect, Close, LinkTypes, Phases
  <2>6. QED
    BY <1>3, <2>2, <2>3, <2>4, <2>5 DEF FlagTypes
<1>5. CASE ConnectFails \/ IncomingPublish \/ LoopEnds \/ AssertionFails
  <2>1. locked' \in BOOLEAN
    BY <1>1, <1>5, Zenon DEF FlagTypes, ConnectFails, IncomingPublish, LoopEnds, AssertionFails
  <2>2. CallTypes' /\ TableTypes'
    BY <1>1, <1>5 DEF ConnectFails, IncomingPublish, LoopEnds, AssertionFails, CallTypes, TableTypes
  <2>3. LinkTypes'
    BY <1>1, <1>5 DEF ConnectFails, IncomingPublish, LoopEnds, AssertionFails, LinkTypes, Phases
  <2>4. QED
    BY <1>3, <2>1, <2>2, <2>3 DEF FlagTypes
<1>6. CASE ConnectClean
  <2>1. locked' \in BOOLEAN
    BY <1>6, Zenon DEF ConnectClean
  <2>2. IsFiniteSet(callbacks') /\ Cardinality(callbacks') = 0
    BY <1>6, FS_EmptySet DEF ConnectClean
  <2>3. TableTypes'
    BY <1>6, <2>2, TablesAssumption DEF ConnectClean, TableTypes
  <2>4. CallTypes' /\ LinkTypes'
    BY <1>1, <1>6, TablesAssumption DEF ConnectClean, CallTypes, LinkTypes, Phases
  <2>5. QED
    BY <1>3, <2>1, <2>3, <2>4 DEF FlagTypes
<1>7. CASE ConnectPresent
  <2>1. locked' \in BOOLEAN
    BY <1>7, Zenon DEF ConnectPresent
  <2>2. CallTypes' /\ TableTypes' /\ LinkTypes'
    BY <1>1, <1>7 DEF ConnectPresent, CallTypes, TableTypes, LinkTypes, Phases
  <2>3. QED
    BY <1>3, <2>1, <2>2 DEF FlagTypes
<1>8. CASE ConnectNew
  <2>1. locked' \in BOOLEAN
    BY <1>1, <1>8, Zenon DEF ConnectNew, HandleResubscribe, FlagTypes
  <2>2. CompressSubscriptionList
    BY <1>8 DEF ConnectNew, HandleResubscribe
  <2>3. TableTypes'
    <3>1. cbCount' = cbCount /\ subAck' = subAck
      BY <2>2 DEF CompressSubscriptionList
    <3>2. QED
      BY <1>1, <2>2, <3>1, CompressIs DEF TableTypes, Inv
  <2>4. CallTypes'
    BY <1>1, <1>8 DEF ConnectNew, CallTypes
  <2>5. LinkTypes'
    <3>1. queue' = queue \/ \E c \in Own : queue' = Append(queue, c)
      <4>1. Own \ Pending # {} => (CHOOSE c \in Own \ Pending : TRUE) \in Own
        OBVIOUS
      <4>2. QED
        BY <1>8, <4>1 DEF ConnectNew, HandleResubscribe, Enqueue
    <3>2. queue \in Seq(Senders) /\ Own \subseteq Senders
      BY <1>1 DEF LinkTypes, Senders
    <3>3. queue' \in Seq(Senders)
      BY ONLY <3>1, <3>2, EnqueueType
    <3>4. asked' \in 0..MaxSubs
      <4>1. Cardinality(Used) \in 0..MaxSubs
        BY RankIs, TablesAssumption
      <4>2. asked' = asked \/ asked' = Cardinality(Used)
        BY <1>8 DEF ConnectNew, HandleResubscribe
      <4>3. QED
        BY <1>1, <4>1, <4>2 DEF LinkTypes
    <3>5. QED
      BY <1>1, <1>8, <3>3, <3>4 DEF ConnectNew, HandleResubscribe, LinkTypes, Phases
  <2>6. QED
    BY <1>3, <2>1, <2>3, <2>4, <2>5 DEF FlagTypes
<1>9. CASE Execute
  <2>1. queue # <<>> /\ queue' = Tail(queue)
    BY <1>9 DEF Execute, ExecuteCommand, ExecuteFails
  <2>2. Head(queue) \in Senders /\ queue' \in Seq(Senders)
    <3>1. queue \in Seq(Senders)
      BY <1>1 DEF LinkTypes
    <3>2. QED
      BY ONLY <2>1, <3>1, HeadTailType
  <2>3. CASE ExecuteCommand
    <3>1. locked' \in BOOLEAN
      BY <1>1, <2>3, Zenon DEF ExecuteCommand, FlagTypes
    <3>2. Granted(Subscribes(Head(queue))) \subseteq Topics
      BY <2>2, <2>3, CommandTopics DEF ExecuteCommand
    <3>3. known' \subseteq Topics
      <4>1. known' \subseteq known \cup Granted(Subscribes(Head(queue)))
        BY <2>3 DEF ExecuteCommand
      <4>2. QED
        BY <1>1, <3>2, <4>1 DEF LinkTypes
    <3>4. sent' \in [Senders -> {"no", "unanswered", "answered"}]
      BY <1>1, <2>3 DEF ExecuteCommand, LinkTypes
    <3>5. LinkTypes'
      BY <1>1, <2>2, <2>3, <3>3, <3>4 DEF ExecuteCommand, LinkTypes
    <3>6. CallTypes' /\ TableTypes'
      BY <1>1, <2>3 DEF ExecuteCommand, CallTypes, TableTypes
    <3>7. QED
      BY <1>3, <3>1, <3>5, <3>6 DEF FlagTypes
  <2>4. CASE ExecuteFails
    <3>1. ConcludeAll({Head(queue)})
      BY <2>4 DEF ExecuteFails
    <3>2. /\ note' \in [Tasks -> Notes] /\ subAck' \in [Slots -> {"failure", "granted"}]
          /\ locked' \in BOOLEAN
      BY <3>1, ConcludeIs DEF Inv
    <3>3. CallTypes'
      BY <1>1, <2>4, <3>2 DEF ExecuteFails, CallTypes
    <3>4. TableTypes'
      BY <1>1, <2>4, <3>2 DEF ExecuteFails, TableTypes
    <3>5. LinkTypes'
      BY <1>1, <2>2, <2>4 DEF ExecuteFails, LinkTypes, Phases
    <3>6. QED
      BY <1>3, <3>2, <3>3, <3>4, <3>5 DEF FlagTypes
  <2>5. QED
    BY <1>9, <2>3, <2>4 DEF Execute
<1>10. CASE LockTables
  <2>1. locked' \in BOOLEAN
    BY <1>10, Zenon DEF LockTables
  <2>2. CallTypes' /\ TableTypes' /\ LinkTypes'
    BY <1>1, <1>10 DEF LockTables, CallTypes, TableTypes, LinkTypes, Phases
  <2>3. QED
    BY <1>3, <2>1, <2>2 DEF FlagTypes
<1>11. ASSUME NEW c \in Senders, ReceiveAck(c) PROVE CallTypes' /\ TableTypes' /\ LinkTypes' /\ FlagTypes'
  <2>1. locked' \in BOOLEAN
    BY <1>1, <1>11, Zenon DEF ReceiveAck, ResubscribeCallback, FlagTypes
  <2>2. note' \in [Tasks -> Notes] /\ subAck' \in [Slots -> {"failure", "granted"}]
    <3>1. CASE c \in Own
      <4>1. note' = note
        BY <1>11, <3>1 DEF ReceiveAck
      <4>2. subAck' \in [Slots -> {"failure", "granted"}]
        BY <1>1, <1>11, <3>1 DEF ReceiveAck, ResubscribeCallback, TableTypes
      <4>3. QED
        BY <1>1, <4>1, <4>2 DEF CallTypes
    <3>2. CASE c \notin Own
      <4>1. subAck' = subAck
        BY <1>11, <3>2 DEF ReceiveAck
      <4>2. \E v \in {"granted", "refused"} : note' = [note EXCEPT ![c] = v]
        BY <1>11, <3>2 DEF ReceiveAck
      <4>3. QED
        BY <1>1, <4>1, <4>2 DEF CallTypes, TableTypes, Notes
    <3>3. QED
      BY <3>1, <3>2
  <2>3. CallTypes'
    BY <1>1, <1>11, <2>2 DEF ReceiveAck, CallTypes
  <2>4. TableTypes'
    BY <1>1, <1>11, <2>2 DEF ReceiveAck, TableTypes
  <2>5. LinkTypes'
    BY <1>1, <1>11 DEF ReceiveAck, LinkTypes
  <2>6. QED
    BY <1>3, <2>1, <2>3, <2>4, <2>5 DEF FlagTypes
<1>12. QED
  BY <1>4, <1>5, <1>6, <1>7, <1>8, <1>9, <1>10, <1>11 DEF AgentStep, ConnectMade

\* A task moves alone: the callers' places, slots, successes and misplacements
\* are its own.
LEMMA OneTask ==
  ASSUME Inv, NEW t \in Tasks, TaskStep(t)
  PROVE  /\ \A u \in Tasks \ {t} : /\ pc'[u] = pc[u] /\ slot'[u] = slot[u]
                                   /\ u \in subscribed' <=> u \in subscribed
                                   /\ u \in misplaced' <=> u \in misplaced
         /\ ~clean /\ ~clean'
<1> USE DEF tables, agent, commands, callers, history
<1>1. \A u \in Tasks \ {t} : /\ pc'[u] = pc[u] /\ slot'[u] = slot[u]
                             /\ u \in subscribed' <=> u \in subscribed
                             /\ u \in misplaced' <=> u \in misplaced
  <2> SUFFICES ASSUME NEW u \in Tasks \ {t}
               PROVE  /\ pc'[u] = pc[u] /\ slot'[u] = slot[u]
                      /\ u \in subscribed' <=> u \in subscribed
                      /\ u \in misplaced' <=> u \in misplaced
    OBVIOUS
  <2>1. CASE SubscribeSync(t)
    <3>1. \/ UNCHANGED <<pc, slot, misplaced>>
          \/ \E s : /\ pc' = [pc EXCEPT ![t] = "subSend"] /\ slot' = [slot EXCEPT ![t] = s]
                    /\ misplaced' = misplaced \cup {t} \/ misplaced' = misplaced \ {t}
      BY <2>1 DEF SubscribeSync
    <3>2. subscribed' = subscribed
      BY <2>1 DEF SubscribeSync
    <3>3. QED
      BY <3>1, <3>2 DEF Inv, TypeOK
  <2>2. CASE UnSubscribeSync(t)
    BY <2>2 DEF UnSubscribeSync, Inv, TypeOK
  <2>3. CASE SendSubRequest(t)
    BY <2>3 DEF SendSubRequest, Return, Inv, TypeOK
  <2>4. CASE SubRequestDone(t)
    BY <2>4 DEF SubRequestDone, Return, Inv, TypeOK
  <2>5. CASE SendUnsubRequest(t) \/ UnsubRequestDone(t)
    BY <2>5 DEF SendUnsubRequest, UnsubRequestDone, Inv, TypeOK
  <2>6. CASE RemoveCallback(t)
    BY <2>6 DEF RemoveCallback, Return, Inv, TypeOK
  <2>7. QED
    BY <2>1, <2>2, <2>3, <2>4, <2>5, <2>6 DEF TaskStep, CallStep
<1>2. ~locked \/ pc[t] # "idle"
  BY DEF TaskStep, CallStep, SubscribeSync, UnSubscribeSync, SendSubRequest,
    SubRequestDone, SendUnsubRequest, UnsubRequestDone, RemoveCallback
<1>3. ~clean
  BY <1>2 DEF Inv, FreshInv
<1>4. clean' = clean
  BY DEF TaskStep, CallStep, SubscribeSync, UnSubscribeSync, SendSubRequest,
    SubRequestDone, SendUnsubRequest, UnsubRequestDone, RemoveCallback
<1>5. QED
  BY <1>1, <1>3, <1>4

\* The agent's steps leave the callers' places alone.
LEMMA AgentAlone ==
  ASSUME AgentStep \/ ConnectFails \/ IncomingPublish \/ LoopEnds \/ AssertionFails
  PROVE  pc' = pc /\ slot' = slot /\ subscribed' = subscribed /\ misplaced' = misplaced
  BY DEF AgentStep, StartConnect, ConnectMade, ConnectClean, ConnectPresent,
    ConnectNew, Execute, ExecuteCommand, ExecuteFails, Close, LockTables, ReceiveAck, ConnectFails,
    IncomingPublish, LoopEnds, AssertionFails, tables, agent, commands, callers, history

\* Nothing begins before the first connection.
LEMMA FreshNext == Inv /\ [Next]_vars => FreshInv'
<1> SUFFICES ASSUME Inv, [Next]_vars, clean'
             PROVE  /\ locked' /\ queue' = <<>> /\ phase' \notin {"up", "blocked"}
                    /\ \A c \in Senders : sent'[c] = "no"
                    /\ subscribed' = {} /\ \A t \in Tasks : pc'[t] = "idle"
  BY DEF FreshInv
<1> USE DEF tables, agent, commands, callers, history
<1>1. \A t \in Tasks : ~TaskStep(t)
  BY OneTask
<1>2. CASE UNCHANGED vars
  BY <1>2 DEF Inv, FreshInv, vars
<1>3. CASE AgentStep \/ ConnectFails \/ IncomingPublish \/ LoopEnds \/ AssertionFails
  <2>1. clean
    BY <1>3, Zenon DEF AgentStep, StartConnect, ConnectMade, ConnectClean, ConnectPresent,
      ConnectNew, Execute, ExecuteCommand, ExecuteFails, Close, LockTables, ReceiveAck, ConnectFails,
      IncomingPublish, LoopEnds, AssertionFails
  <2>2. /\ locked /\ queue = <<>> /\ phase \notin {"up", "blocked"}
        /\ \A c \in Senders : sent[c] = "no"
        /\ subscribed = {} /\ \A t \in Tasks : pc[t] = "idle"
    BY <2>1 DEF Inv, FreshInv
  <2>3. subscribed' = {} /\ \A t \in Tasks : pc'[t] = "idle"
    BY <1>3, <2>2, AgentAlone
  <2>4. StartConnect \/ ConnectFails \/ Close \/ LockTables \/ AssertionFails
    <3>1. ~ConnectClean
      BY Zenon DEF ConnectClean
    <3>2. ~ConnectPresent /\ ~ConnectNew
      BY <2>1 DEF ConnectPresent, ConnectNew
    <3>3. ~Execute /\ ~IncomingPublish /\ ~LoopEnds
      BY <2>2 DEF Execute, ExecuteCommand, ExecuteFails, IncomingPublish, LoopEnds
    <3>4. \A c \in Senders : ~ReceiveAck(c)
      BY <2>2 DEF ReceiveAck
    <3>5. QED
      BY <1>3, <3>1, <3>2, <3>3, <3>4 DEF AgentStep, ConnectMade
  <2>5. CASE StartConnect \/ Close
    <3>1. CancelAll /\ phase' \in {"connecting", "locking"}
      BY <2>5 DEF StartConnect, Close
    <3>2. Pending = {}
      BY <2>2 DEF Pending, Queued, Waiting
    <3>3. locked' /\ queue' = <<>> /\ sent' = [c \in Senders |-> "no"]
      BY <2>2, <3>1, <3>2, CancelIs DEF Inv
    <3>4. QED
      BY <2>3, <3>1, <3>3
  <2>6. CASE ConnectFails
    BY <2>2, <2>3, <2>6 DEF ConnectFails
  <2>7. CASE LockTables
    BY <2>2, <2>3, <2>7 DEF LockTables
  <2>8. CASE AssertionFails
    BY <2>2, <2>3, <2>8 DEF AssertionFails
  <2>9. QED
    BY <2>4, <2>5, <2>6, <2>7, <2>8
<1>4. QED
  BY <1>1, <1>2, <1>3 DEF Next

\* A call keeps its slot; a task gives up its subscription as it unsubscribes.
LEMMA CallNext == Inv /\ [Next]_vars => CallInv'
<1> SUFFICES ASSUME Inv, [Next]_vars PROVE CallInv'
  OBVIOUS
<1> USE DEF tables, agent, commands, callers, history
<1>1. ASSUME NEW t \in Tasks, TaskStep(t) PROVE CallInv'
  <2>1. SUFFICES /\ pc'[t] \in {"subSend", "subWait"} => slot'[t] \in Slots
                 /\ pc'[t] \in {"unsubSend", "unsubWait", "unsubRemove"} => t \notin subscribed'
    BY <1>1, OneTask DEF Inv, CallInv, Subscribing
  <2>2. CASE SubscribeSync(t)
    <3>1. CASE UNCHANGED <<pc, slot, misplaced>>
      BY <2>2, <3>1 DEF SubscribeSync
    <3>2. CASE \E s : /\ s # NoSlot /\ s = Target(TopicOf[t])
                      /\ pc' = [pc EXCEPT ![t] = "subSend"] /\ slot' = [slot EXCEPT ![t] = s]
      <4>1. Target(TopicOf[t]) \in Slots \cup {NoSlot}
        BY TargetIs, TablesAssumption DEF Inv
      <4>2. QED
        BY <3>2, <4>1 DEF Inv, TypeOK
    <3>3. QED
      BY <2>2, <3>1, <3>2 DEF SubscribeSync
  <2>3. CASE UnSubscribeSync(t)
    BY <2>3 DEF UnSubscribeSync, Inv, TypeOK
  <2>4. CASE SendSubRequest(t)
    BY <2>4 DEF SendSubRequest, Return, Inv, TypeOK, CallInv, Subscribing
  <2>5. CASE SubRequestDone(t)
    BY <2>5 DEF SubRequestDone, Return, Inv, TypeOK
  <2>6. CASE SendUnsubRequest(t) \/ UnsubRequestDone(t)
    BY <2>6 DEF SendUnsubRequest, UnsubRequestDone, Inv, TypeOK, CallInv, Subscribing
  <2>7. CASE RemoveCallback(t)
    BY <2>7 DEF RemoveCallback, Return, Inv, TypeOK
  <2>8. QED
    BY <1>1, <2>2, <2>3, <2>4, <2>5, <2>6, <2>7 DEF TaskStep, CallStep
<1>2. ASSUME pc' = pc, slot' = slot, subscribed' = subscribed PROVE CallInv'
  BY <1>2 DEF Inv, CallInv, Subscribing
<1>3. QED
  BY <1>1, <1>2, AgentAlone DEF Next, vars

\* Every step keeps the invariant.
LEMMA InvNext == Inv /\ [Next]_vars => Inv'
<1> SUFFICES ASSUME Inv, [Next]_vars PROVE Inv'
  OBVIOUS
<1>1. TypeOK' /\ IsFiniteSet(callbacks')
  <2>1. CASE UNCHANGED vars
    <3>1. locked' \in BOOLEAN /\ clean' \in BOOLEAN /\ left' \in BOOLEAN
      BY <2>1, Zenon DEF Inv, TypeOK, vars, agent, history
    <3>2. QED
      BY <2>1, <3>1 DEF Inv, TypeOK, vars, tables, agent, commands, callers, history
  <2>2. QED
    BY <2>1, TaskTypes, AgentTypes DEF Next
<1>2. QED
  BY <1>1, FreshNext, CallNext DEF Inv

\* The invariant holds in every reachable state.
LEMMA InvHolds == Spec => []Inv
  BY InvInit, InvNext, PTL DEF Spec

-----------------------------------------------------------------------------
(* The theorems.                                                           *)

\* Every variable keeps its type: the reference counts never pass below zero,
\* though compressing the table leaves them behind, and the entries never
\* exceed the callback table.
THEOREM TypeCorrect == Spec => []TypeOK
<1>1. Inv => TypeOK
  BY DEF Inv
<1>2. QED
  BY <1>1, InvHolds, PTL

\* Unless a SUBSCRIBE of the agent's outlives its connection, at most one is
\* under way, none while the agent is not connected, and the agent holds the
\* mutex as long as there is one.
UnderWay(c) == Has(queue, c) \/ sent[c] # "no"
OwnInv ==
  ~left => /\ \A c \in Own : UnderWay(c) => locked /\ phase \notin {"offline", "connecting", "locking"}
           /\ \A c, d \in Own : UnderWay(c) /\ UnderWay(d) => c = d
           /\ \A c \in Own : Once(queue, c) /\ (Has(queue, c) => sent[c] = "no")
           /\ phase \in {"offline", "connecting"} => locked
           /\ phase # "halted"

\* It is what AgentHoldsTables says and more.
LEMMA OwnHolds == TypeOK /\ OwnInv => AgentHoldsTables
  BY PendingIs DEF OwnInv, UnderWay, AgentHoldsTables

\* No assertion fails as long as it holds.
LEMMA OwnAsserts ==
  ASSUME TypeOK, OwnInv, AssertionFails
  PROVE  left
<1> SUFFICES ASSUME ~left PROVE FALSE
  OBVIOUS
<1>1. \A c \in Own : UnderWay(c) => locked
  BY DEF OwnInv
<1>2. \A c, d \in Own : UnderWay(c) /\ UnderWay(d) => c = d
  BY DEF OwnInv
<1>3. \A C : C \cap Own \subseteq Pending => MutexIsOwned(C)
  BY <1>1, <1>2, PendingIs DEF MutexIsOwned, UnderWay
<1>4. \A n \in 0..Len(queue) : MutexIsOwned(FromQueue(n) \cup Waiting)
  BY <1>3, CancelledIsPending
<1>5. queue # <<>> => MutexIsOwned({Head(queue)})
  <2>1. queue \in Seq(Senders)
    BY DEF TypeOK
  <2>2. queue # <<>> => Has(queue, Head(queue))
    BY ONLY <2>1, TailHas
  <2>3. queue # <<>> => {Head(queue)} \cap Own \subseteq Pending
    BY <2>2, PendingIs
  <2>4. QED
    BY <1>3, <2>3
<1>6. \A c \in Own : sent[c] = "answered" => MutexIsOwned({c})
  BY <1>3, PendingIs
<1>7. phase = "connecting" => locked
  BY DEF OwnInv
<1>8. QED
  BY <1>4, <1>5, <1>6, <1>7 DEF AssertionFails

\* Every step keeps it.
LEMMA OwnNext ==
  ASSUME Inv, OwnInv, [Next]_vars
  PROVE  OwnInv'
<1> USE DEF tables, agent, commands, callers, history
<1>1. /\ queue \in Seq(Senders) /\ Own \subseteq Senders /\ Tasks \subseteq Senders /\ Own \cap Tasks = {}
      /\ sent \in [Senders -> {"no", "unanswered", "answered"}] /\ locked \in BOOLEAN
  BY TablesAssumption DEF Inv, TypeOK, Senders
<1>2. ASSUME NEW t \in Tasks, TaskStep(t) PROVE OwnInv'
  <2>1. /\ phase' = phase /\ sent' = sent /\ left' = left
        /\ queue' = queue \/ queue' = Append(queue, t)
    BY <1>2 DEF TaskStep, CallStep, SubscribeSync, UnSubscribeSync, SendSubRequest,
      SubRequestDone, SendUnsubRequest, UnsubRequestDone, RemoveCallback, Enqueue
  <2>2. locked' = locked
    BY <1>2 DEF TaskStep, CallStep, SubscribeSync, UnSubscribeSync, SendSubRequest,
      SubRequestDone, SendUnsubRequest, UnsubRequestDone, RemoveCallback
  <2>3. t \in Senders /\ \A c \in Own : t # c
    BY <1>1
  <2>4. \A c \in Own : /\ Has(Append(queue, t), c) <=> Has(queue, c)
                       /\ Once(queue, c) => Once(Append(queue, t), c)
    BY ONLY <1>1, <2>3, AppendHas
  <2>5. QED
    BY <2>1, <2>2, <2>4 DEF OwnInv, UnderWay
<1>3. CASE Close
  <2>1. /\ queue' \in Seq(Senders) /\ sent' = [c \in Senders |-> "no"]
        /\ left' = (\E c \in Own, i \in DOMAIN queue' : queue'[i] = c) /\ phase' = "locking"
    BY <1>3, CancelIs DEF Close, Inv
  <2>2. ~left' => \A c \in Own : ~Has(queue', c)
    BY <2>1 DEF Has
  <2>3. ~left' => \A c \in Own : ~UnderWay(c)' /\ Once(queue', c)
    BY <1>1, <2>1, <2>2 DEF UnderWay, Has, Once
  <2>4. QED
    BY <2>1, <2>2, <2>3 DEF OwnInv
<1>4. ASSUME left' = left, ~left => OwnInv' PROVE OwnInv'
  BY <1>4 DEF OwnInv
<1>5. CASE StartConnect
  <2>1. left' = left /\ phase' = "connecting" /\ phase = "offline" /\ CancelAll
    BY <1>5 DEF StartConnect
  <2>2. /\ sent' = [c \in Senders |-> "no"] /\ (Pending = {} => (locked' <=> locked))
        /\ \A c : Has(queue', c) => Has(queue, c)
    BY <2>1, CancelIs DEF Inv
  <2>3. ASSUME ~left PROVE OwnInv'
    <3>1. locked /\ \A c \in Own : ~UnderWay(c)
      BY <2>1, <2>3 DEF OwnInv
    <3>2. Pending = {}
      BY <3>1, PendingIs DEF Inv, UnderWay
    <3>3. \A c \in Own : ~Has(queue', c) /\ sent'[c] = "no"
      BY <1>1, <2>2, <3>1 DEF UnderWay
    <3>4. \A c \in Own : ~UnderWay(c)' /\ Once(queue', c)
      BY <3>3 DEF UnderWay, Has, Once
    <3>5. QED
      BY <2>1, <2>2, <3>1, <3>2, <3>3, <3>4 DEF OwnInv
  <2>4. QED
    BY <1>4, <2>1, <2>3
<1>6. CASE ConnectFails \/ IncomingPublish \/ LoopEnds
  <2>1. /\ queue' = queue /\ sent' = sent /\ left' = left
        /\ phase' \notin {"offline", "connecting", "locking", "halted"}
    BY <1>6 DEF ConnectFails, IncomingPublish, LoopEnds
  <2>2. locked' = locked
    BY <1>6 DEF ConnectFails, IncomingPublish, LoopEnds
  <2>3. QED
    BY <2>1, <2>2 DEF OwnInv, UnderWay
<1>7. CASE ConnectMade
  <2>1. phase = "connecting" /\ left' = left
    BY <1>7 DEF ConnectMade, ConnectClean, ConnectPresent, ConnectNew
  <2>2. sent' = sent /\ phase' \in {"up", "closing"}
    BY <1>7 DEF ConnectMade, ConnectClean, ConnectPresent, ConnectNew, HandleResubscribe
  <2>3. ASSUME ~left PROVE OwnInv'
    <3>1. locked /\ \A c \in Own : ~UnderWay(c) /\ Once(queue, c)
      BY <2>1, <2>3 DEF OwnInv
    <3>2. CASE queue' = queue
      <4>1. \A c \in Own : ~UnderWay(c)' /\ Once(queue', c)
        BY <2>2, <3>1, <3>2 DEF UnderWay
      <4>2. QED
        BY <2>2, <4>1 DEF OwnInv, UnderWay
    <3>3. CASE queue' # queue
      <4>1. ConnectNew
        BY <1>7, <3>3 DEF ConnectMade, ConnectClean, ConnectPresent
      <4>2. PICK c \in Own : queue' = Append(queue, c)
        <5>1. Own \ Pending # {} => (CHOOSE c \in Own \ Pending : TRUE) \in Own
          OBVIOUS
        <5>2. QED
          BY <3>3, <4>1, <5>1 DEF ConnectNew, HandleResubscribe, Enqueue
      <4>3. locked'
        BY <3>1, <3>3, <4>1 DEF ConnectNew, HandleResubscribe
      <4>4. \A d \in Own : /\ Has(queue', d) <=> c = d
                           /\ Once(queue', d)
        <5>1. c \in Senders /\ \A d \in Own : ~Has(queue, d) /\ Once(queue, d)
          BY <1>1, <3>1 DEF UnderWay
        <5>2. QED
          BY ONLY <1>1, <4>2, <5>1, AppendHas
      <4>5. \A d \in Own : sent'[d] = "no"
        BY <2>2, <3>1 DEF UnderWay
      <4>6. QED
        BY <2>2, <4>3, <4>4, <4>5 DEF OwnInv, UnderWay
    <3>4. QED
      BY <3>2, <3>3
  <2>4. QED
    BY <1>4, <2>1, <2>3
<1>8. CASE Execute
  <2>1. /\ queue # <<>> /\ queue' = Tail(queue) /\ left' = left
        /\ phase' \notin {"offline", "connecting", "locking", "halted"}
    BY <1>8 DEF Execute, ExecuteCommand, ExecuteFails
  <2>2. ASSUME ~left PROVE OwnInv'
    <3>1. \A c \in Own : Once(queue, c) /\ (Has(queue, c) => sent[c] = "no")
      BY <2>2 DEF OwnInv
    <3>2. /\ \A c \in Own : Has(Tail(queue), c) => Has(queue, c)
          /\ \A c \in Own : Once(Tail(queue), c)
          /\ Head(queue) \in Own => Has(queue, Head(queue)) /\ ~Has(Tail(queue), Head(queue))
          /\ Head(queue) \in Senders
      <4>1. Head(queue) \in Senders
        BY ONLY <1>1, <2>1, HeadTailType
      <4>2. /\ \A c \in Own : Has(Tail(queue), c) => Has(queue, c)
            /\ \A c \in Own : Once(queue, c) => Once(Tail(queue), c)
            /\ Has(queue, Head(queue)) /\ (Once(queue, Head(queue)) => ~Has(Tail(queue), Head(queue)))
        BY ONLY <1>1, <2>1, TailHas
      <4>3. QED
        BY ONLY <3>1, <4>1, <4>2
    <3>3. /\ \A c \in Own : UnderWay(c) => locked
          /\ \A c, d \in Own : UnderWay(c) /\ UnderWay(d) => c = d
      BY <2>2 DEF OwnInv
    <3>4. CASE ExecuteCommand
      <4>1. /\ \A c \in Senders : c # Head(queue) => sent'[c] = sent[c]
            /\ locked' = locked
        BY <1>1, <3>4 DEF ExecuteCommand
      <4>2. \A c \in Own : UnderWay(c)' => UnderWay(c)
        BY <1>1, <2>1, <3>2, <4>1 DEF UnderWay
      <4>3. \A c \in Own : Has(queue', c) => sent'[c] = "no"
        BY <1>1, <2>1, <3>1, <3>2, <4>1
      <4>4. QED
        BY <2>1, <3>2, <3>3, <4>1, <4>2, <4>3 DEF OwnInv
    <3>5. CASE ExecuteFails
      <4>1. ConcludeAll({Head(queue)}) /\ sent' = sent
        BY <3>5 DEF ExecuteFails
      <4>2. CASE Head(queue) \in Own
        <5>1. \A c \in Own : ~UnderWay(c)'
          BY <2>1, <3>1, <3>2, <3>3, <4>1, <4>2 DEF UnderWay
        <5>2. QED
          BY <2>1, <3>2, <5>1 DEF OwnInv, UnderWay
      <4>3. CASE Head(queue) \notin Own
        <5>1. locked' <=> locked
          BY <4>1, <4>3, ConcludeIs DEF Inv
        <5>2. \A c \in Own : UnderWay(c)' => UnderWay(c)
          BY <2>1, <3>2, <4>1 DEF UnderWay
        <5>3. \A c \in Own : Has(queue', c) => sent'[c] = "no"
          BY <2>1, <3>1, <3>2, <4>1
        <5>4. QED
          BY <2>1, <3>2, <3>3, <5>1, <5>2, <5>3 DEF OwnInv
      <4>4. QED
        BY <4>2, <4>3
    <3>6. QED
      BY <1>8, <3>4, <3>5 DEF Execute
  <2>3. QED
    BY <1>4, <2>1, <2>2
<1>9. CASE LockTables
  BY <1>9 DEF LockTables, OwnInv, UnderWay
<1>10. ASSUME NEW c \in Senders, ReceiveAck(c) PROVE OwnInv'
  <2>1. /\ queue' = queue /\ phase' = phase /\ left' = left
        /\ phase = "up" /\ sent' = [sent EXCEPT ![c] = "no"] /\ sent[c] = "answered"
    BY <1>10 DEF ReceiveAck
  <2>2. \A d \in Own : UnderWay(d)' => UnderWay(d)
    BY <1>1, <2>1 DEF UnderWay
  <2>3. \A d \in Own : Has(queue, d) /\ sent[d] = "no" => sent'[d] = "no"
    BY <1>1, <2>1
  <2>4. CASE c \in Own
    <3>1. ~left => \A d \in Own : ~UnderWay(d)'
      BY <1>1, <2>1, <2>4 DEF OwnInv, UnderWay
    <3>2. QED
      BY <2>1, <2>3, <3>1 DEF OwnInv
  <2>5. CASE c \notin Own
    <3>1. locked' = locked
      BY <1>10, <2>5 DEF ReceiveAck
    <3>2. QED
      BY <2>1, <2>2, <2>3, <3>1 DEF OwnInv
  <2>6. QED
    BY <2>4, <2>5
<1>11. CASE AssertionFails
  <2>1. left /\ left' = left
    BY <1>11, OwnAsserts DEF AssertionFails, Inv
  <2>2. QED
    BY <2>1 DEF OwnInv
<1>12. CASE UNCHANGED vars
  BY <1>12 DEF vars, OwnInv, UnderWay
<1>13. QED
  BY <1>2, <1>3, <1>5, <1>6, <1>7, <1>8, <1>9, <1>10, <1>11, <1>12 DEF Next, AgentStep

\* The agent holds the mutex from a disconnection until its resubscription is
\* acknowledged, and no assertion on MUTEX_IS_OWNED fails, through every
\* connection that is not followed by a SUBSCRIBE of the agent's that the
\* cancellation left in the queue, whatever else it leaves there.
THEOREM AgentKeepsMutex == Spec => []AgentHoldsTables
<1>1. Init => OwnInv
  BY DEF Init, OwnInv, UnderWay, Has, Once, Senders
<1>2. Inv /\ OwnInv /\ [Next]_vars => OwnInv'
  BY OwnNext
<1>3. Inv /\ OwnInv => AgentHoldsTables
  BY OwnHolds DEF Inv
<1>4. QED
  BY <1>1, <1>2, <1>3, InvHolds, PTL DEF Spec

\* A task that no other shares its filter with has its route from the moment its
\* call has a slot with the filter to the one it gives the subscription up.
Reached(t) == Exclusive(t) /\ t \notin misplaced /\ (t \in subscribed \/ Subscribing(t))
RoutedInv == \A t \in Tasks : Reached(t) => Routed(t)

\* A route stays when its callback does and filters are put in empty slots only.
LEMMA RouteStays ==
  ASSUME Inv, callbacks \subseteq callbacks',
         \A i \in Slots : filter[i] # NoTopic => filter'[i] = filter[i],
         NEW t \in Tasks, Routed(t)
  PROVE  Routed(t)'
<1>1. PICK e \in callbacks : e.task = t /\ filter[e.sub] = TopicOf[t]
  BY DEF Routed
<1>2. e.sub \in Slots /\ TopicOf[t] # NoTopic
  BY TablesAssumption DEF Inv, TypeOK
<1>3. e \in callbacks' /\ filter'[e.sub] = TopicOf[t]
  BY <1>1, <1>2
<1>4. QED
  BY <1>1, <1>3 DEF Routed

\* A call to subscribe makes the route before it gives the mutex, or has found a
\* slot without a filter.
LEMMA SubscribeRoutes ==
  ASSUME Inv, RoutedInv, NEW t \in Tasks, SubscribeSync(t)
  PROVE  RoutedInv'
<1> DEFINE topic == TopicOf[t]
           s == Target(topic)
           entry == [sub |-> s, task |-> t]
           copies == s # NoSlot /\ ResetAck(topic)[s] = "failure" /\ filter[s] = NoTopic
<1>1. topic \in Topics /\ topic # NoTopic
  BY TablesAssumption
<1>2. /\ s \in Slots \cup {NoSlot}
      /\ s # NoSlot => filter[s] = topic \/ s \in Empty
  BY <1>1, TargetIs DEF Inv
<1>3. subscribed' = subscribed
  BY DEF SubscribeSync
<1>4. CASE UNCHANGED <<filter, cbCount, callbacks, pc, slot, misplaced>>
  BY <1>3, <1>4 DEF RoutedInv, Reached, Routed, Subscribing
<1>5. CASE /\ s # NoSlot
           /\ filter' = IF copies THEN [filter EXCEPT ![s] = topic] ELSE filter
           /\ callbacks' = callbacks \cup {entry}
           /\ pc' = [pc EXCEPT ![t] = "subSend"]
           /\ misplaced' = IF filter'[s] = NoTopic THEN misplaced \cup {t} ELSE misplaced \ {t}
  <2>1. s \in Slots /\ filter \in [Slots -> Topics \cup {NoTopic}]
    BY <1>2, <1>5 DEF Inv, TypeOK
  <2>2. filter'[s] \in {topic, NoTopic}
    <3>1. CASE copies
      BY <1>5, <2>1, <3>1
    <3>2. CASE ~copies
      BY <1>2, <1>5, <3>2 DEF Empty
    <3>3. QED
      BY <3>1, <3>2
  <2>3. \A i \in Slots : filter[i] # NoTopic => filter'[i] = filter[i]
    BY <1>5, <2>1
  <2>4. t \notin misplaced' => Routed(t)'
    <3>1. entry \in callbacks' /\ entry.task = t /\ entry.sub = s
      BY <1>5
    <3>2. t \notin misplaced' => filter'[s] = topic
      BY <1>5, <2>2
    <3> HIDE DEF entry, s
    <3>3. QED
      BY <3>1, <3>2 DEF Routed
  <2>5. ASSUME NEW u \in Tasks, Reached(u)', u # t PROVE Routed(u)'
    <3>1. Reached(u)
      BY <1>3, <1>5, <2>5 DEF Reached, Exclusive, Subscribing, Inv, TypeOK
    <3>2. Routed(u)
      BY <3>1 DEF RoutedInv
    <3>3. callbacks \subseteq callbacks'
      BY <1>5
    <3>4. QED
      BY <2>3, <3>2, <3>3, RouteStays
  <2>6. QED
    BY <2>4, <2>5 DEF RoutedInv, Reached
<1>6. QED
  BY <1>4, <1>5 DEF SubscribeSync

\* Every step keeps the routes.
LEMMA RoutedNext ==
  ASSUME Inv, RoutedInv, [Next]_vars
  PROVE  RoutedInv'
<1> USE DEF tables, agent, commands, callers, history
<1>1. ASSUME NEW t \in Tasks, SubscribeSync(t) PROVE RoutedInv'
  BY <1>1, SubscribeRoutes
<1>2. ASSUME callbacks' = callbacks, filter' = filter, \A t \in Tasks : Reached(t)' => Reached(t)
      PROVE  RoutedInv'
  BY <1>2 DEF RoutedInv, Routed
<1>3. ASSUME NEW t \in Tasks, TaskStep(t), CallStep(t) \/ UnSubscribeSync(t) PROVE RoutedInv'
  <2>1. callbacks' = callbacks /\ filter' = filter
    BY <1>3 DEF CallStep, UnSubscribeSync, SendSubRequest, SubRequestDone, SendUnsubRequest, UnsubRequestDone
  <2>2. \A u \in Tasks \ {t} : Reached(u)' => Reached(u)
    BY <1>3, OneTask DEF Reached, Exclusive, Subscribing
  <2>3. Reached(t)' => Reached(t)
    <3>1. misplaced' = misplaced
      BY <1>3 DEF CallStep, UnSubscribeSync, SendSubRequest, SubRequestDone, SendUnsubRequest,
        UnsubRequestDone
    <3>2. CASE UnSubscribeSync(t)
      BY <3>1, <3>2 DEF UnSubscribeSync, Reached, Exclusive, Subscribing, Inv, TypeOK
    <3>3. CASE SendSubRequest(t) \/ SubRequestDone(t)
      BY <3>1, <3>3 DEF SendSubRequest, SubRequestDone, Reached, Exclusive, Subscribing
    <3>4. CASE SendUnsubRequest(t) \/ UnsubRequestDone(t)
      BY <3>1, <3>4 DEF SendUnsubRequest, UnsubRequestDone, Reached, Exclusive, Subscribing, Inv, TypeOK
    <3>5. QED
      BY <1>3, <3>2, <3>3, <3>4 DEF CallStep
  <2>4. QED
    BY <1>2, <2>1, <2>2, <2>3
<1>4. ASSUME NEW t \in Tasks, TaskStep(t), RemoveCallback(t) PROVE RoutedInv'
  <2> DEFINE S == {i \in Slots : cbCount[i] = 0 /\ filter[i] = TopicOf[t]}
             s == FirstOrNone(S)
             entry == [sub |-> s, task |-> t]
             last == entry \in callbacks /\ count[t] = 1
  <2>1. callbacks' = callbacks \ {entry} /\ filter' = IF last THEN [filter EXCEPT ![s] = NoTopic] ELSE filter
    BY <1>4 DEF RemoveCallback
  <2>2. ~Reached(t)'
    BY <1>4 DEF RemoveCallback, Return, Reached, Subscribing, Inv, TypeOK, CallInv
  <2>3. s \in Slots => filter[s] = TopicOf[t]
    <3>1. S \in SUBSET Slots
      OBVIOUS
    <3>2. s # NoSlot => s \in S
      BY <3>1, FirstIs
    <3>3. QED
      BY <3>2, TablesAssumption DEF Slots, NoSlot
  <2>4. entry.task = t
    OBVIOUS
  <2> HIDE DEF entry, s, last
  <2>5. ASSUME NEW u \in Tasks, Reached(u)' PROVE Routed(u)'
    <3>1. u # t /\ TopicOf[u] # TopicOf[t]
      BY <2>2, <2>5 DEF Reached, Exclusive
    <3>2. Reached(u)
      BY <1>4, <2>5, <3>1, OneTask DEF Reached, Exclusive, Subscribing
    <3>3. PICK e \in callbacks : e.task = u /\ filter[e.sub] = TopicOf[u]
      BY <3>2 DEF RoutedInv, Routed
    <3>4. e \in callbacks'
      BY <2>1, <2>4, <3>1, <3>3
    <3>5. e.sub \in Slots /\ e.sub # s
      BY <2>3, <3>1, <3>3 DEF Inv, TypeOK
    <3>6. filter'[e.sub] = filter[e.sub]
      BY <2>1, <3>5 DEF Inv, TypeOK
    <3>7. QED
      BY <3>3, <3>4, <3>6 DEF Routed
  <2>6. QED
    BY <2>5 DEF RoutedInv
<1>5. CASE ConnectClean
  <2>1. \A t \in Tasks : ~Reached(t)'
    BY <1>5 DEF ConnectClean, Inv, FreshInv, Reached, Subscribing
  <2>2. QED
    BY <2>1 DEF RoutedInv
<1>6. CASE ConnectNew
  <2>1. CompressSubscriptionList
    BY <1>6 DEF ConnectNew, HandleResubscribe
  <2>2. /\ \A i \in Used : Rank(i) \in Slots /\ filter'[Rank(i)] = filter[i]
        /\ \A e \in callbacks : e.sub \in Used => [sub |-> Rank(e.sub), task |-> e.task] \in callbacks'
    BY <2>1, CompressIs DEF Inv
  <2>3. pc' = pc /\ subscribed' = subscribed /\ misplaced' = misplaced
    BY <1>6, AgentAlone DEF AgentStep, ConnectMade
  <2>4. ASSUME NEW t \in Tasks, Reached(t)' PROVE Routed(t)'
    <3>1. PICK e \in callbacks : e.task = t /\ filter[e.sub] = TopicOf[t]
      BY <2>3, <2>4 DEF RoutedInv, Reached, Exclusive, Subscribing, Routed
    <3>2. e.sub \in Used
      BY <3>1, TablesAssumption DEF Inv, TypeOK, Used
    <3> DEFINE moved == [sub |-> Rank(e.sub), task |-> e.task]
    <3>3. moved \in callbacks' /\ moved.task = t /\ moved.sub = Rank(e.sub)
      BY <2>2, <3>1, <3>2
    <3> HIDE DEF moved
    <3>4. filter'[moved.sub] = TopicOf[t]
      BY <2>2, <3>1, <3>2, <3>3
    <3>5. QED
      BY <3>3, <3>4 DEF Routed
  <2>5. QED
    BY <2>4 DEF RoutedInv
<1>7. CASE \/ StartConnect \/ ConnectPresent \/ Execute \/ Close \/ LockTables
           \/ \E c \in Senders : ReceiveAck(c)
           \/ ConnectFails \/ IncomingPublish \/ LoopEnds \/ AssertionFails
  <2>1. callbacks' = callbacks /\ filter' = filter
    BY <1>7 DEF StartConnect, ConnectPresent, Execute, ExecuteCommand, ExecuteFails, Close, LockTables,
      ReceiveAck, ConnectFails, IncomingPublish, LoopEnds, AssertionFails
  <2>2. pc' = pc /\ subscribed' = subscribed /\ misplaced' = misplaced
    BY <1>7, AgentAlone DEF AgentStep, ConnectMade
  <2>3. QED
    BY <1>2, <2>1, <2>2 DEF Reached, Exclusive, Subscribing
<1>8. CASE UNCHANGED vars
  BY <1>2, <1>8 DEF vars, Reached, Exclusive, Subscribing
<1>9. QED
  BY <1>1, <1>3, <1>4, <1>5, <1>6, <1>7, <1>8 DEF Next, TaskStep, AgentStep, ConnectMade

\* A successful subscriber whose filter no other task uses, asked for with
\* either QoS, is reached through it, however often the connection is lost, the
\* table is compressed and other filters come and go, unless its call found a
\* slot without a filter.
THEOREM SubscribersAreReached == Spec => []SubscribedIsRouted
<1>1. Init => RoutedInv
  BY DEF Init, RoutedInv, Reached, Subscribing
<1>2. Inv /\ RoutedInv /\ [Next]_vars => RoutedInv'
  BY RoutedNext
<1>3. TypeOK /\ RoutedInv => SubscribedIsRouted
  BY DEF RoutedInv, Reached, Routed, SubscribedIsRouted, TypeOK
<1>4. Inv => TypeOK
  BY DEF Inv
<1>5. QED
  BY <1>1, <1>2, <1>3, <1>4, InvHolds, PTL DEF Spec
=============================================================================
