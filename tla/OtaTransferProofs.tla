--------------------------- MODULE OtaTransferProofs ---------------------------
(***************************************************************************)
(* Proofs about OtaTransfer, for every number of jobs, blocks and buffers, *)
(* every length of the queue and all faults.  The invariant Inv says where *)
(* each handler waits and with what, that a buffer is with one party at a  *)
(* time (Carries), and what the bitmap and the counts are worth.  With     *)
(* room in the queue, no buffer is forgotten (Covered) and something will  *)
(* wake the agent (Awake).                                                 *)
(***************************************************************************)
EXTENDS OtaTransfer, FiniteSetTheorems, TLAPS

USE TransferAssumption

EventType == [id : Events, buf : Buffers \cup {NoBuffer}]
Carriers == {"ReceivedJobDocument", "ReceivedFileBlock"}

\* q carries buffers of u only, each once, and those of blocks hold one in d.
Carries(q, u, d) ==
  /\ \A i \in DOMAIN q : q[i].buf # NoBuffer <=> q[i].id \in Carriers
  /\ \A i \in DOMAIN q : q[i].buf # NoBuffer => q[i].buf \in u
  /\ \A i, j \in DOMAIN q : q[i].buf # NoBuffer /\ q[i].buf = q[j].buf => i = j
  /\ \A i \in DOMAIN q :
       q[i].id = "ReceivedFileBlock" => d[q[i].buf].job \in JobIds /\ d[q[i].buf].block \in Blocks

\* Every buffer of u is in q.
Covers(q, u) == \A b \in u : \E i \in DOMAIN q : q[i].buf = b

-----------------------------------------------------------------------------
(* The queue.                                                              *)

\* The names the transition table uses.
LEMMA Names ==
  /\ Events = {"Start", "RequestJobDocument", "RequestTimer", "ReceivedJobDocument", "CreateFile",
               "RequestFileBlock", "ReceivedFileBlock", "CloseFile", "Shutdown"}
  /\ States = {"Ready", "RequestingJob", "WaitingForJob", "CreatingFile", "RequestingFileBlock",
               "WaitingForFileBlock", "ShuttingDown", "Stopped", "Reset"}
BY DEF Events, States, Table

\* Taking the first event.
LEMMA TailFacts ==
  ASSUME NEW q \in Seq(EventType), q # <<>>
  PROVE  /\ Tail(q) \in Seq(EventType) /\ Len(Tail(q)) = Len(q) - 1
         /\ 1 \in DOMAIN q /\ Head(q) = q[1] /\ q[1] \in EventType
         /\ \A i \in DOMAIN Tail(q) : 
            i \in Nat /\ i + 1 \in DOMAIN q /\ i + 1 # 1 /\ Tail(q)[i] = q[i + 1]
         /\ \A i \in DOMAIN q : i = 1 \/ (i - 1 \in DOMAIN Tail(q) /\ Tail(q)[i - 1] = q[i])
OBVIOUS

\* Adding one at the end.
LEMMA AppendFacts ==
  ASSUME NEW q \in Seq(EventType), NEW e \in EventType
  PROVE  /\ Append(q, e) \in Seq(EventType) /\ Len(Append(q, e)) = Len(q) + 1
         /\ \A i \in DOMAIN q : i \in DOMAIN Append(q, e) /\ Append(q, e)[i] = q[i]
         /\ Len(q) + 1 \in DOMAIN Append(q, e) /\ Append(q, e)[Len(q) + 1] = e
         /\ \A i \in DOMAIN Append(q, e) : i = Len(q) + 1 \/ i \in DOMAIN q
OBVIOUS

\* The handler of the first event has its buffer, with whatever content.
LEMMA CarriesTail ==
  ASSUME NEW q \in Seq(EventType), q # <<>>, NEW u, NEW d, NEW e, Carries(q, u, d),
         \A b \in u \ {Head(q).buf} : e[b] = d[b]
  PROVE  Carries(Tail(q), u \ {Head(q).buf}, e)
<1> DEFINE p == Tail(q)
           v == u \ {Head(q).buf}
<1>1. \A i \in DOMAIN p : i \in Nat /\ i + 1 \in DOMAIN q /\ i + 1 # 1 /\ p[i] = q[i + 1]
  BY TailFacts
<1>2. 1 \in DOMAIN q /\ Head(q).buf = q[1].buf
  BY TailFacts
<1> HIDE DEF p
<1>3. \A i \in DOMAIN p : p[i].buf # NoBuffer => p[i].buf \in v
  BY <1>1, <1>2 DEF Carries
<1>4. \A i, j \in DOMAIN p : p[i].buf # NoBuffer /\ p[i].buf = p[j].buf => i = j
  <2> TAKE i \in DOMAIN p, j \in DOMAIN p
  <2> HAVE p[i].buf # NoBuffer /\ p[i].buf = p[j].buf
  <2>1. i + 1 = j + 1
    BY <1>1 DEF Carries
  <2>2. QED
    BY <2>1, <1>1
<1>5. \A i \in DOMAIN p : p[i].buf # NoBuffer <=> p[i].id \in Carriers
  BY <1>1 DEF Carries
<1>6. \A i \in DOMAIN p :
        p[i].id = "ReceivedFileBlock" => e[p[i].buf].job \in JobIds /\ e[p[i].buf].block \in Blocks
  <2> TAKE i \in DOMAIN p
  <2> HAVE p[i].id = "ReceivedFileBlock"
  <2>1. p[i].buf \in v
    BY <1>3, <1>5 DEF Carriers
  <2>2. d[p[i].buf].job \in JobIds /\ d[p[i].buf].block \in Blocks
    BY <1>1 DEF Carries
  <2>3. QED
    BY <2>1, <2>2
<1>7. Carries(p, v, e)
  BY <1>3, <1>4, <1>5, <1>6 DEF Carries
<1>8. QED
  BY <1>7 DEF p

\* An event without a buffer.
LEMMA CarriesMore ==
  ASSUME NEW q \in Seq(EventType), NEW id \in Events \ Carriers, NEW u, NEW d, Carries(q, u, d)
  PROVE  Carries(Append(q, Ev(id)), u, d)
<1>1. Ev(id) \in EventType /\ Ev(id).id = id /\ Ev(id).buf = NoBuffer
  BY DEF Ev, EventType
<1> DEFINE p == Append(q, Ev(id))
<1>2. \A i \in DOMAIN p : (i \in DOMAIN q /\ p[i] = q[i]) \/ p[i] = Ev(id)
  BY <1>1, AppendFacts
<1> HIDE DEF p
<1>3. Carries(p, u, d)
  <2>1. \A i \in DOMAIN p : p[i].buf # NoBuffer => i \in DOMAIN q /\ p[i] = q[i]
    BY <1>1, <1>2
  <2>2. \A i \in DOMAIN p : p[i].buf # NoBuffer <=> p[i].id \in Carriers
    BY <1>1, <1>2 DEF Carries
  <2>3. \A i \in DOMAIN p : p[i].buf # NoBuffer => p[i].buf \in u
    BY <2>1 DEF Carries
  <2>4. \A i, j \in DOMAIN p : p[i].buf # NoBuffer /\ p[i].buf = p[j].buf => i = j
    BY <2>1 DEF Carries
  <2>5. \A i \in DOMAIN p :
          p[i].id = "ReceivedFileBlock" => d[p[i].buf].job \in JobIds /\ d[p[i].buf].block \in Blocks
    BY <1>1, <1>2 DEF Carries, Carriers
  <2>6. QED
    BY <2>2, <2>3, <2>4, <2>5 DEF Carries
<1>4. QED
  BY <1>3 DEF p

\* An event with a new buffer.
LEMMA CarriesNew ==
  ASSUME NEW q \in Seq(EventType), NEW u, NEW d, NEW e, Carries(q, u, d),
         NEW id \in Carriers, NEW b \in Buffers \ u, \A c \in u : e[c] = d[c],
         id = "ReceivedFileBlock" => e[b].job \in JobIds /\ e[b].block \in Blocks
  PROVE  Carries(Append(q, [id |-> id, buf |-> b]), u \cup {b}, e)
<1> DEFINE n == [id |-> id, buf |-> b]
           p == Append(q, n)
           l == Len(q) + 1
<1>1. n \in EventType /\ n.id = id /\ n.buf = b /\ b # NoBuffer
  BY Names DEF EventType, Carriers, Buffers, NoBuffer
<1>2. \A i \in DOMAIN p : (i \in DOMAIN q /\ p[i] = q[i]) \/ (i = l /\ p[i] = n)
  BY <1>1, AppendFacts
<1> HIDE DEF p, l, n
<1>3. \A i \in DOMAIN p : p[i].buf # NoBuffer <=> p[i].id \in Carriers
  BY <1>1, <1>2 DEF Carries
<1>4. \A i \in DOMAIN p : p[i].buf # NoBuffer => p[i].buf \in u \cup {b}
  BY <1>1, <1>2 DEF Carries
<1>5. \A i \in DOMAIN q : q[i].buf # b
  BY <1>1 DEF Carries
<1>6. \A i, j \in DOMAIN p : p[i].buf # NoBuffer /\ p[i].buf = p[j].buf => i = j
  BY <1>1, <1>2, <1>5 DEF Carries
<1>7. \A i \in DOMAIN p :
        p[i].id = "ReceivedFileBlock" => e[p[i].buf].job \in JobIds /\ e[p[i].buf].block \in Blocks
  <2> TAKE i \in DOMAIN p
  <2> HAVE p[i].id = "ReceivedFileBlock"
  <2>1. CASE i \in DOMAIN q /\ p[i] = q[i]
    <3>1. p[i].buf \in u /\ d[p[i].buf].job \in JobIds /\ d[p[i].buf].block \in Blocks
      BY <2>1 DEF Carries, Carriers
    <3>2. QED
      BY <3>1
  <2>2. CASE p[i] = n
    BY <1>1, <2>2
  <2>3. QED
    BY <1>2, <2>1, <2>2
<1>8. Carries(p, u \cup {b}, e)
  BY <1>3, <1>4, <1>6, <1>7 DEF Carries
<1>9. QED
  BY <1>8 DEF p, n

\* More buffers, and other contents of those the queue does not carry.
LEMMA CarriesSame ==
  ASSUME NEW q, NEW u, NEW v, NEW d, NEW e, Carries(q, u, d),
         u \subseteq v, \A b \in u : e[b] = d[b]
  PROVE  Carries(q, v, e)
<1>1. \A i \in DOMAIN q :
        q[i].id = "ReceivedFileBlock" => e[q[i].buf].job \in JobIds /\ e[q[i].buf].block \in Blocks
  <2> TAKE i \in DOMAIN q
  <2> HAVE q[i].id = "ReceivedFileBlock"
  <2>1. q[i].buf \in u /\ d[q[i].buf].job \in JobIds /\ d[q[i].buf].block \in Blocks
    BY DEF Carries, Carriers
  <2>2. QED
    BY <2>1
<1>2. QED
  BY <1>1 DEF Carries

\* The same for Covers.
LEMMA CoversQueue ==
  ASSUME NEW q \in Seq(EventType), NEW u, Covers(q, u)
  PROVE  /\ q # <<>> => Covers(Tail(q), u \ {Head(q).buf})
         /\ \A e \in EventType : Covers(Append(q, e), u \cup {e.buf}) /\ Covers(Append(q, e), u)
<1>1. ASSUME q # <<>> PROVE Covers(Tail(q), u \ {Head(q).buf})
  <2> SUFFICES ASSUME NEW b \in u \ {Head(q).buf}
               PROVE  \E i \in DOMAIN Tail(q) : Tail(q)[i].buf = b
    BY DEF Covers
  <2>1. PICK i \in DOMAIN q : q[i].buf = b
    BY DEF Covers
  <2>2. i # 1
    BY <1>1, <2>1, TailFacts
  <2>3. i - 1 \in DOMAIN Tail(q) /\ Tail(q)[i - 1] = q[i]
    BY <1>1, <2>2, TailFacts
  <2>4. QED
    BY <2>1, <2>3
<1>2. ASSUME NEW e \in EventType
      PROVE  Covers(Append(q, e), u \cup {e.buf}) /\ Covers(Append(q, e), u)
  <2> SUFFICES ASSUME NEW b \in u \cup {e.buf}
               PROVE  \E i \in DOMAIN Append(q, e) : Append(q, e)[i].buf = b
    BY DEF Covers
  <2>1. CASE b \in u
    <3>1. PICK i \in DOMAIN q : q[i].buf = b
      BY <2>1 DEF Covers
    <3>2. i \in DOMAIN Append(q, e) /\ Append(q, e)[i] = q[i]
      BY AppendFacts
    <3>3. QED
      BY <3>1, <3>2
  <2>2. CASE b = e.buf
    <3>1. Len(q) + 1 \in DOMAIN Append(q, e) /\ Append(q, e)[Len(q) + 1] = e
      BY AppendFacts
    <3>2. QED
      BY <2>2, <3>1
  <2>3. QED
    BY <2>1, <2>2
<1>3. QED
  BY <1>1, <1>2

-----------------------------------------------------------------------------
(* The invariant.                                                          *)

\* The buffers that are neither with the handler that waits nor lost.
Queued == used \ (leaked \cup {doing.buf})

BufferInv ==
  /\ Carries(queue, Queued, data)
  /\ doing.buf # NoBuffer => doing.buf \in used \ leaked

Transferring == {"CreatingFile", "RequestingFileBlock", "WaitingForFileBlock"}

\* Where each handler waits, and with what.
WaitInv ==
  /\ doing.buf # NoBuffer <=> doing.at \in {"replace", "refuse", "progress", "final", "notice"}
  /\ doing.complete => doing.at = "final"
  /\ doing.at = "requestJob" => state \in {"RequestingJob", "WaitingForFileBlock"}
  /\ doing.at \in {"replace", "refuse"} => state = "WaitingForJob"
  /\ doing.at = "initFile" => state = "CreatingFile"
  /\ doing.at \in {"requestData", "giveUp"} =>
       state \in {"RequestingFileBlock", "WaitingForFileBlock"}
  /\ doing.at \in {"progress", "final", "close", "notice"} => state = "WaitingForFileBlock"
  /\ doing.at = "shutdown" <=> state = "ShuttingDown"
  /\ state \in {"Ready", "Stopped", "Reset"} => doing.at = "idle"
  /\ doing.at = "requestData" => momentum < MaxMomentum

\* The context is a job's wherever it is used, and an active job has blocks
\* left until its last one is handled.
JobInv ==
  /\ state \in Transferring \/ active # NoJob \/ doing.at \in {"replace", "refuse"} => ctx \in JobIds
  /\ active # NoJob => remaining > 0 \/ doing.at = "final"
  /\ state \in {"CreatingFile", "RequestingFileBlock"} \/ doing.at = "progress" => remaining > 0
  /\ state = "Ready" => ~timer

Control == WaitInv /\ JobInv

Inv == TypeOK /\ BufferInv /\ Control /\ FileIsCounted

\* TypeOK is about the queue and its buffers, and about the rest.
QueueTypes ==
  /\ queue \in Seq(EventType) /\ Len(queue) <= QueueLength
  /\ used \subseteq Buffers /\ leaked \subseteq used
  /\ data \in [Buffers -> [job : JobIds \cup {NoJob}, block : Blocks \cup {0}]]
AgentTypes ==
  /\ state \in States /\ timer \in BOOLEAN
  /\ momentum \in 0 .. MaxMomentum /\ expected \in 0 .. Window
  /\ doing \in [at : Steps, buf : Buffers \cup {NoBuffer}, complete : BOOLEAN]
JobTypes ==
  /\ active \in JobIds \cup {NoJob} /\ ctx \in JobIds \cup {NoJob}
  /\ serving \in JobIds \cup {NoJob}
  /\ missing \subseteq Blocks /\ remaining \in 0 .. NumBlocks /\ opened \in BOOLEAN
  /\ streams \subseteq JobIds /\ pal \in {"closed", "open", "verified"}
  /\ answers \subseteq [job : JobIds \cup {NoJob}, notice : BOOLEAN]
  /\ net \subseteq JobIds \X Blocks /\ written \subseteq JobIds \X Blocks

\* The parts are all of it.
LEMMA TypeParts == TypeOK <=> QueueTypes /\ AgentTypes /\ JobTypes
BY DEF TypeOK, QueueTypes, AgentTypes, JobTypes, EventType

-----------------------------------------------------------------------------
(* What a step does to the queue and the buffers.                          *)

\* p is q, or q and one more event without a buffer.
Extends(q, p) == p = q \/ \E id \in Events \ Carriers : p = Sent(q, Ev(id))

FreesOrKeeps(b) == Free(b) \/ (b = NoBuffer /\ UNCHANGED buffers)

Takes ==
  /\ queue # <<>> /\ doing = Idle
  /\ queue' = Tail(queue) /\ doing'.buf = Head(queue).buf
  /\ UNCHANGED buffers
TakesAndFrees ==
  /\ queue # <<>> /\ doing = Idle
  /\ Extends(Tail(queue), queue') /\ doing' = Idle
  /\ FreesOrKeeps(Head(queue).buf)
GivesBack ==
  /\ Extends(queue, queue') /\ doing'.buf = NoBuffer
  /\ \/ FreesOrKeeps(doing.buf)
     \/ doing.buf # NoBuffer /\ leaked' = leaked \cup {doing.buf} /\ UNCHANGED <<used, data>>
KeepsOn == UNCHANGED <<queue, buffers>> /\ doing'.buf = doing.buf

QueueStep == Takes \/ TakesAndFrees \/ GivesBack \/ KeepsOn

\* A full queue takes nothing more.
LEMMA ExtendsFacts ==
  ASSUME NEW q \in Seq(EventType), NEW p, Extends(q, p), Len(q) <= QueueLength
  PROVE  /\ p \in Seq(EventType) /\ Len(p) <= QueueLength
         /\ \A u, d : Carries(q, u, d) => Carries(p, u, d)
         /\ \A u : Covers(q, u) => Covers(p, u)
<1>1. CASE p = q
  BY <1>1
<1>2. ASSUME NEW id \in Events \ Carriers, p = Sent(q, Ev(id)), Len(q) < QueueLength
      PROVE  /\ p = Append(q, Ev(id)) /\ Ev(id) \in EventType
             /\ p \in Seq(EventType) /\ Len(p) <= QueueLength
  BY <1>2, AppendFacts DEF Sent, Ev, EventType
<1>3. ASSUME NEW id \in Events \ Carriers, p = Sent(q, Ev(id))
      PROVE  /\ p \in Seq(EventType) /\ Len(p) <= QueueLength
             /\ \A u, d : Carries(q, u, d) => Carries(p, u, d)
             /\ \A u : Covers(q, u) => Covers(p, u)
  <2>1. CASE Len(q) < QueueLength
    BY <1>2, <1>3, <2>1, CarriesMore, CoversQueue
  <2>2. CASE ~(Len(q) < QueueLength)
    BY <1>3, <2>2 DEF Sent
  <2>3. QED
    BY <2>1, <2>2
<1>4. QED
  BY <1>1, <1>3 DEF Extends

\* Giving a buffer back.
LEMMA FreeFacts ==
  ASSUME QueueTypes, NEW b \in Buffers \cup {NoBuffer}, FreesOrKeeps(b)
  PROVE  /\ used' = used \ {b} /\ leaked' = leaked
         /\ data' \in [Buffers -> [job : JobIds \cup {NoJob}, block : Blocks \cup {0}]]
         /\ \A c \in Buffers : c # b => data'[c] = data[c]
<1>1. NoBuffer \notin Buffers
  BY DEF NoBuffer, Buffers
<1>2. CASE Free(b)
  BY <1>2, Zenon DEF Free, QueueTypes, Nothing, NoJob
<1>3. CASE b = NoBuffer /\ UNCHANGED buffers
  BY <1>1, <1>3 DEF QueueTypes, buffers
<1>4. QED
  BY <1>2, <1>3 DEF FreesOrKeeps

\* The agent's steps keep the types, and each buffer with one party.
LEMMA QueueKeeps ==
  ASSUME QueueTypes, doing \in [at : Steps, buf : Buffers \cup {NoBuffer}, complete : BOOLEAN],
         BufferInv, QueueStep
  PROVE  /\ QueueTypes' /\ BufferInv'
         /\ Covers(queue, Queued) => Covers(queue', Queued')
<1> USE DEF QueueTypes
<1>1. NoBuffer \notin Buffers /\ NoBuffer \notin used
  BY DEF NoBuffer, Buffers
<1>2. CASE Takes
  <2>1. /\ Tail(queue) \in Seq(EventType) /\ Len(Tail(queue)) <= QueueLength
        /\ Head(queue) \in EventType /\ 1 \in DOMAIN queue /\ Head(queue) = queue[1]
    BY <1>2, TailFacts DEF Takes
  <2>2. doing.buf = NoBuffer /\ Queued = used \ leaked
    BY <1>1, <1>2 DEF Takes, Idle, Queued
  <2>3. Queued' = Queued \ {Head(queue).buf}
    BY <1>2, <2>2 DEF Takes, buffers, Queued
  <2>4. Carries(queue', Queued', data')
    BY <1>2, <2>3, CarriesTail DEF Takes, BufferInv, buffers
  <2>5. Head(queue).buf # NoBuffer => Head(queue).buf \in Queued
    BY <2>1 DEF BufferInv, Carries
  <2>6. Covers(queue, Queued) => Covers(queue', Queued')
    BY <1>2, <2>3, CoversQueue DEF Takes
  <2>7. QED
    BY <1>2, <2>1, <2>2, <2>4, <2>5, <2>6 DEF Takes, BufferInv, buffers
<1>3. CASE TakesAndFrees
  <2> DEFINE b == Head(queue).buf
  <2>1. /\ Tail(queue) \in Seq(EventType) /\ Len(Tail(queue)) <= QueueLength
        /\ Head(queue) \in EventType
    BY <1>3, TailFacts DEF TakesAndFrees
  <2>2. b \in Buffers \cup {NoBuffer}
    BY <2>1 DEF EventType
  <2>3. /\ used' = used \ {b} /\ leaked' = leaked
        /\ data' \in [Buffers -> [job : JobIds \cup {NoJob}, block : Blocks \cup {0}]]
        /\ \A c \in Buffers : c # b => data'[c] = data[c]
    BY <1>3, <2>1, <2>2, FreeFacts DEF TakesAndFrees
  <2>4. doing.buf = NoBuffer /\ doing'.buf = NoBuffer
    BY <1>3 DEF TakesAndFrees, Idle
  <2>5. Queued' = Queued \ {b} /\ Queued \subseteq Buffers
    BY <1>1, <2>3, <2>4 DEF Queued
  <2>6. Carries(Tail(queue), Queued', data')
    BY <1>3, <2>3, <2>5, CarriesTail DEF TakesAndFrees, BufferInv
  <2>7. b # NoBuffer => b \notin leaked
    BY <1>3, TailFacts DEF TakesAndFrees, BufferInv, Carries, Queued
  <2>8. leaked' \subseteq used'
    BY <1>1, <2>3, <2>7
  <2>9. Covers(queue, Queued) => Covers(Tail(queue), Queued')
    BY <1>3, <2>5, CoversQueue DEF TakesAndFrees
  <2>10. /\ queue' \in Seq(EventType) /\ Len(queue') <= QueueLength
         /\ Carries(queue', Queued', data')
         /\ Covers(queue, Queued) => Covers(queue', Queued')
    BY <1>3, <2>1, <2>6, <2>9, ExtendsFacts DEF TakesAndFrees
  <2>11. QED
    BY <2>1, <2>2, <2>3, <2>4, <2>8, <2>10 DEF BufferInv
<1>4. CASE GivesBack
  <2>1. CASE FreesOrKeeps(doing.buf)
    <3>1. /\ used' = used \ {doing.buf} /\ leaked' = leaked
          /\ data' \in [Buffers -> [job : JobIds \cup {NoJob}, block : Blocks \cup {0}]]
          /\ \A c \in Buffers : c # doing.buf => data'[c] = data[c]
      BY <2>1, FreeFacts
    <3>2. Queued' = Queued /\ Queued \subseteq Buffers \ {doing.buf} /\ leaked' \subseteq used'
      BY <1>1, <1>4, <3>1 DEF GivesBack, Queued, BufferInv
    <3>3. Carries(queue, Queued', data')
      BY <3>1, <3>2, CarriesSame DEF BufferInv
    <3>4. /\ queue' \in Seq(EventType) /\ Len(queue') <= QueueLength
          /\ Carries(queue, Queued', data') => Carries(queue', Queued', data')
          /\ Covers(queue, Queued') => Covers(queue', Queued')
      BY <1>4, ExtendsFacts DEF GivesBack
    <3>5. doing'.buf = NoBuffer /\ used' \subseteq Buffers
      BY <1>4, <3>1 DEF GivesBack
    <3>6. QED
      BY <3>1, <3>2, <3>3, <3>4, <3>5 DEF BufferInv
  <2>2. CASE doing.buf # NoBuffer /\ leaked' = leaked \cup {doing.buf} /\ UNCHANGED <<used, data>>
    <3>1. Queued' = Queued /\ leaked' \subseteq used'
      BY <1>1, <1>4, <2>2 DEF GivesBack, Queued, BufferInv
    <3>2. Carries(queue, Queued', data')
      BY <2>2, <3>1 DEF BufferInv
    <3>3. /\ queue' \in Seq(EventType) /\ Len(queue') <= QueueLength
          /\ Carries(queue', Queued', data')
          /\ Covers(queue, Queued) => Covers(queue', Queued')
      BY <1>4, <3>1, <3>2, ExtendsFacts DEF GivesBack
    <3>4. doing'.buf = NoBuffer
      BY <1>4 DEF GivesBack
    <3>5. QED
      BY <2>2, <3>1, <3>3, <3>4 DEF BufferInv
  <2>3. QED
    BY <1>4, <2>1, <2>2 DEF GivesBack
<1>5. CASE KeepsOn
  BY <1>5 DEF KeepsOn, BufferInv, Queued, buffers
<1>6. QED
  BY <1>2, <1>3, <1>4, <1>5 DEF QueueStep

\* The head of the queue, in the state where its handler takes it.
LEMMA HeadFacts ==
  ASSUME QueueTypes, Carries(queue, Queued, data), NEW ids, Receives(ids)
  PROVE  /\ doing = Idle /\ queue # <<>> /\ state \notin {"Stopped", "Reset"}
         /\ Head(queue).id \in ids \cap Events /\ Buffer \in Buffers \cup {NoBuffer}
         /\ Buffer # NoBuffer <=> Head(queue).id \in Carriers
         /\ Head(queue).id = "ReceivedFileBlock" =>
              data[Buffer].job \in JobIds /\ data[Buffer].block \in Blocks
<1>1. queue # <<>> /\ queue \in Seq(EventType)
  BY DEF Receives, QueueTypes
<1>2. 1 \in DOMAIN queue /\ Head(queue) = queue[1] /\ queue[1] \in EventType
  BY <1>1, TailFacts
<1>3. QED
  BY <1>1, <1>2 DEF Receives, Buffer, Carries, EventType

\* Every step of the agent is such a step.
LEMMA AgentQueue ==
  ASSUME QueueTypes, Carries(queue, Queued, data), WaitInv, AgentTypes, AgentStep
  PROVE  QueueStep
<1> DEFINE Head1 == Head(queue).id
<1>n. /\ "RequestJobDocument" \in Events \ Carriers /\ "CreateFile" \in Events \ Carriers
      /\ "RequestFileBlock" \in Events \ Carriers /\ "CloseFile" \in Events \ Carriers
      /\ "Shutdown" \in Events \ Carriers
  BY Names DEF Carriers
<1>e. /\ \A q : Extends(q, q)
      /\ \A q : \A id \in Events \ Carriers : Extends(q, Sent(q, Ev(id)))
  BY DEF Extends
<1>h. ASSUME NEW ids, Receives(ids)
      PROVE  /\ doing = Idle /\ queue # <<>> /\ Head1 \in ids
             /\ Buffer = Head(queue).buf
             /\ Buffer # NoBuffer <=> Head1 \in Carriers
  BY <1>h, HeadFacts DEF Buffer
<1> HIDE DEF Head1
<1>b. Idle.buf = NoBuffer /\ \A s, b : Waiting(s, b).buf = b
  BY DEF Idle, Waiting
<1>1. CASE StartHandler
  <2>1. Receives({"Start"}) /\ Buffer = NoBuffer
    BY <1>1, <1>h DEF StartHandler, Handles, Carriers
  <2>2. TakesAndFrees
    BY <1>1, <1>h, <1>n, <1>e, <2>1 DEF StartHandler, TakesAndFrees, FreesOrKeeps
  <2>3. QED
    BY <2>2 DEF QueueStep
<1>2. CASE RequestJob
  <2>1. Receives({"RequestJobDocument", "RequestTimer"}) \/ Receives({"RequestJobDocument"})
    BY <1>2 DEF RequestJob, Handles
  <2>2. Takes
    BY <1>2, <1>h, <1>b, <2>1 DEF RequestJob, Takes, Carriers
  <2>3. QED
    BY <2>2 DEF QueueStep
<1>3. ASSUME NEW ok \in BOOLEAN, RequestJobDone(ok) PROVE QueueStep
  <2>1. doing.buf = NoBuffer /\ doing'.buf = NoBuffer /\ UNCHANGED buffers
    BY <1>3, <1>b DEF RequestJobDone, Ends, WaitInv
  <2>2. Extends(queue, queue')
    BY <1>3, <1>n, <1>e DEF RequestJobDone, RetryOrShutdown
  <2>3. QED
    BY <2>1, <2>2 DEF QueueStep, GivesBack, FreesOrKeeps
<1>4. CASE ProcessNoJob
  BY <1>4, <1>h, <1>e DEF ProcessNoJob, Handles, QueueStep, TakesAndFrees, FreesOrKeeps, agent
<1>5. ASSUME NEW j, NEW b, NEW ok \in BOOLEAN, NEW q, Begin(j, b, ok, q)
      PROVE  \/ doing' = Idle /\ Free(b) /\ Extends(q, queue')
             \/ doing'.buf = b /\ UNCHANGED buffers /\ queue' = q
  BY <1>5, <1>n, <1>e, <1>b DEF Begin
<1>6. ASSUME NEW ok \in BOOLEAN, ProcessJob(ok) PROVE QueueStep
  <2>1. Receives({"ReceivedJobDocument"})
    BY <1>6 DEF ProcessJob, TakesJob, Handles
  <2>2. Begin(data[Buffer].job, Buffer, ok, Tail(queue))
    BY <1>6 DEF ProcessJob
  <2>3. \/ doing' = Idle /\ Free(Buffer) /\ Extends(Tail(queue), queue')
        \/ doing'.buf = Buffer /\ UNCHANGED buffers /\ queue' = Tail(queue)
    BY <1>5, <2>2
  <2>4. doing = Idle /\ queue # <<>> /\ Buffer = Head(queue).buf
    BY <1>h, <2>1
  <2>5. QED
    BY <2>3, <2>4 DEF QueueStep, TakesAndFrees, Takes, FreesOrKeeps
<1>7. CASE ContinueJob
  BY <1>7, <1>h, <1>e, <1>n
     DEF ContinueJob, TakesJob, Handles, QueueStep, TakesAndFrees, FreesOrKeeps
<1>8. CASE ReplaceJob
  BY <1>8, <1>h, <1>b DEF ReplaceJob, TakesJob, Handles, QueueStep, Takes
<1>9. ASSUME NEW ok \in BOOLEAN, ReplaceJobDone(ok) PROVE QueueStep
  <2>1. Begin(ctx, doing.buf, ok, queue)
    BY <1>9 DEF ReplaceJobDone
  <2>2. QED
    BY <1>5, <1>b, <2>1 DEF QueueStep, GivesBack, KeepsOn, FreesOrKeeps
<1>10. ASSUME NEW ok \in BOOLEAN, RefuseDone(ok) PROVE QueueStep
  BY <1>10, <1>e, <1>b DEF RefuseDone, Ends, QueueStep, GivesBack, FreesOrKeeps
<1>11. CASE InitFile
  BY <1>11, <1>h, <1>b DEF InitFile, Handles, QueueStep, Takes, Carriers
<1>12. ASSUME NEW ok \in BOOLEAN, InitFileDone(ok) PROVE QueueStep
  <2>1. doing.buf = NoBuffer /\ doing'.buf = NoBuffer /\ UNCHANGED buffers
    BY <1>12, <1>b DEF InitFileDone, Ends, WaitInv
  <2>2. Extends(queue, queue')
    BY <1>12, <1>n, <1>e DEF InitFileDone, RetryOrShutdown
  <2>3. QED
    BY <2>1, <2>2 DEF QueueStep, GivesBack, FreesOrKeeps
<1>13. ASSUME DataIsDue
       PROVE  doing = Idle /\ queue # <<>> /\ Head(queue).buf = NoBuffer
  <2>1. Receives({"RequestFileBlock", "RequestTimer"})
    BY <1>13 DEF DataIsDue, Handles
  <2>2. QED
    BY <1>h, <2>1 DEF Carriers
<1>14. CASE RequestData
  BY <1>13, <1>14, <1>b DEF RequestData, QueueStep, Takes
<1>15. ASSUME NEW ok \in BOOLEAN, RequestDataDone(ok) PROVE QueueStep
  <2>1. doing.buf = NoBuffer /\ doing'.buf = NoBuffer /\ UNCHANGED buffers /\ UNCHANGED queue
    BY <1>15, <1>b DEF RequestDataDone, Ends, WaitInv
  <2>2. QED
    BY <2>1, <1>e DEF QueueStep, GivesBack, FreesOrKeeps
<1>16. CASE NothingToRequest
  BY <1>13, <1>16, <1>e DEF NothingToRequest, QueueStep, TakesAndFrees, FreesOrKeeps
<1>17. CASE GiveUp
  BY <1>13, <1>17, <1>b, <1>e, <1>n DEF GiveUp, QueueStep, Takes, TakesAndFrees, FreesOrKeeps
<1>18. ASSUME NEW ok \in BOOLEAN, GiveUpDone(ok) PROVE QueueStep
  <2>1. doing.buf = NoBuffer /\ doing'.buf = NoBuffer /\ UNCHANGED buffers
    BY <1>18, <1>b DEF GiveUpDone, Ends, WaitInv
  <2>2. Extends(queue, queue')
    BY <1>18, <1>n, <1>e DEF GiveUpDone
  <2>3. QED
    BY <2>1, <2>2 DEF QueueStep, GivesBack, FreesOrKeeps
<1>19. ASSUME TakesBlock PROVE doing = Idle /\ queue # <<>> /\ Buffer = Head(queue).buf
  BY <1>19, <1>h DEF TakesBlock, Handles
<1>20. CASE RefuseBlock
  BY <1>19, <1>20, <1>b DEF RefuseBlock, Reject, QueueStep, Takes
<1>21. CASE DuplicateBlock
  BY <1>19, <1>21, <1>e DEF DuplicateBlock, QueueStep, TakesAndFrees, FreesOrKeeps, agent
<1>22. CASE FirstBlock
  BY <1>19, <1>22, <1>b DEF FirstBlock, WritesBlock, QueueStep, Takes
<1>23. ASSUME NEW q, Continue(q) PROVE Extends(q, queue')
  BY <1>23, <1>n, <1>e DEF Continue
<1>24. CASE ProgressDone
  BY <1>23, <1>24, <1>b DEF ProgressDone, Ends, QueueStep, GivesBack, FreesOrKeeps
<1>25. CASE NextBlock
  BY <1>19, <1>23, <1>25 DEF NextBlock, WritesBlock, QueueStep, TakesAndFrees, FreesOrKeeps
<1>26. ASSUME NEW valid \in BOOLEAN, LastBlock(valid) PROVE QueueStep
  BY <1>19, <1>26 DEF LastBlock, WritesBlock, QueueStep, Takes
<1>27. ASSUME NEW ok \in BOOLEAN, FinalDone(ok) PROVE QueueStep
  BY <1>27, <1>n, <1>e, <1>b DEF FinalDone, Ends, QueueStep, GivesBack, FreesOrKeeps
<1>28. CASE CloseFile
  BY <1>28, <1>h, <1>b DEF CloseFile, Handles, QueueStep, Takes, Carriers
<1>29. CASE CloseFileDone
  BY <1>29, <1>e, <1>b DEF CloseFileDone, Ends, WaitInv, QueueStep, GivesBack, FreesOrKeeps
<1>30. CASE JobNotification
  BY <1>30, <1>h, <1>b DEF JobNotification, Handles, QueueStep, Takes
<1>31. CASE JobNotificationDone
  BY <1>31, <1>n, <1>e, <1>b DEF JobNotificationDone, Ends, WaitInv, QueueStep, GivesBack
<1>32. CASE Shutdown
  BY <1>32, <1>h, <1>b DEF Shutdown, QueueStep, Takes, Carriers
<1>33. CASE ShutdownDone
  BY <1>33, <1>e, <1>b DEF ShutdownDone, Ends, WaitInv, QueueStep, GivesBack, FreesOrKeeps
<1>34. CASE UnexpectedEvent
  BY <1>34, <1>h, <1>e DEF UnexpectedEvent, QueueStep, TakesAndFrees, FreesOrKeeps, agent
<1>35. \A fault : Outcome(fault) \subseteq BOOLEAN
  BY DEF Outcome
<1>36. Published \subseteq BOOLEAN
  BY <1>35 DEF Published
<1>37. QED
  BY <1>1, <1>2, <1>3, <1>4, <1>6, <1>7, <1>8, <1>9, <1>10, <1>11, <1>12, <1>14, <1>15, <1>16, <1>17,
     <1>18, <1>20, <1>21, <1>22, <1>24, <1>25, <1>26, <1>27, <1>28, <1>29, <1>30, <1>31, <1>32,
     <1>33, <1>34, <1>35, <1>36 DEF AgentStep

HasRoom == Len(queue) < QueueLength
Running == state \notin {"Stopped", "Reset"}

\* The timer, the callbacks and the services do nothing to a buffer in use.
LEMMA OutsideQueue ==
  ASSUME QueueTypes, doing \in [at : Steps, buf : Buffers \cup {NoBuffer}, complete : BOOLEAN],
         JobTypes, BufferInv, TimerExpires \/ ServiceStep
  PROVE  /\ QueueTypes' /\ BufferInv' /\ doing' = doing /\ state' = state
         /\ Running /\ HasRoom /\ Covers(queue, Queued) => Covers(queue', Queued')
<1>1. CASE TimerExpires
  <2>1. UNCHANGED <<used, leaked, data, doing, state>> /\ Queued' = Queued
    BY <1>1 DEF TimerExpires, agent, buffers, Queued
  <2>2. "RequestTimer" \in Events \ Carriers /\ Ev("RequestTimer") \in EventType
    BY Names DEF Carriers, Ev, EventType
  <2>3. CASE Accepts(queue)
    <3>1. queue' = Append(queue, Ev("RequestTimer")) /\ Len(queue) < QueueLength
      BY <1>1, <2>3 DEF TimerExpires, Accepts
    <3>2. queue' \in Seq(EventType) /\ Len(queue') <= QueueLength
      BY <2>2, <3>1, AppendFacts DEF QueueTypes
    <3>3. Carries(queue', Queued, data)
      BY <2>2, <3>1, CarriesMore DEF QueueTypes, BufferInv
    <3>4. Covers(queue, Queued) => Covers(queue', Queued)
      BY <2>2, <3>1, CoversQueue DEF QueueTypes
    <3>5. QED
      BY <2>1, <3>2, <3>3, <3>4 DEF QueueTypes, BufferInv
  <2>4. CASE ~Accepts(queue)
    BY <1>1, <2>1, <2>4 DEF TimerExpires, QueueTypes, BufferInv
  <2>5. QED
    BY <2>3, <2>4
<1>2. ASSUME NEW id \in Carriers, NEW job \in JobIds \cup {NoJob}, NEW block \in Blocks \cup {0},
             id = "ReceivedFileBlock" => job \in JobIds /\ block \in Blocks,
             Arrives(id, job, block), UNCHANGED <<leaked, doing, state>>
      PROVE  /\ QueueTypes' /\ BufferInv'
             /\ Running /\ HasRoom /\ Covers(queue, Queued) => Covers(queue', Queued')
  <2>1. CASE UNCHANGED <<queue, used, data>>
    BY <1>2, <2>1 DEF QueueTypes, BufferInv, Queued
  <2>2. ASSUME NEW b \in Unused,
               used' = used \cup {b},
               data' = [data EXCEPT ![b] = [job |-> job, block |-> block]],
               queue' = IF Accepts(queue) THEN Append(queue, [id |-> id, buf |-> b]) ELSE queue
        PROVE  /\ QueueTypes' /\ BufferInv'
               /\ Running /\ HasRoom /\ Covers(queue, Queued) => Covers(queue', Queued')
    <3>1. b \in Buffers /\ b \notin used /\ b # NoBuffer
      BY DEF Unused, Buffers, NoBuffer
    <3>2. /\ data' \in [Buffers -> [job : JobIds \cup {NoJob}, block : Blocks \cup {0}]]
          /\ data'[b].job = job /\ data'[b].block = block
          /\ \A c \in Buffers : c # b => data'[c] = data[c]
      BY <2>2, <3>1 DEF QueueTypes
    <3>3. /\ Queued' = Queued \cup {b} /\ b \notin Queued /\ Queued \subseteq Buffers
          /\ used' \subseteq Buffers /\ leaked' \subseteq used'
          /\ doing'.buf # NoBuffer => doing'.buf \in used' \ leaked'
      BY <1>2, <2>2, <3>1 DEF QueueTypes, BufferInv, Queued
    <3>4. \A c \in Queued : data'[c] = data[c]
      BY <3>2, <3>3
    <3>5. CASE Accepts(queue)
      <4> DEFINE n == [id |-> id, buf |-> b]
      <4>1. n \in EventType /\ n.buf = b
        BY <1>2, <3>1, Names DEF EventType, Carriers
      <4>2. queue' = Append(queue, n) /\ Len(queue) < QueueLength /\ queue \in Seq(EventType)
        BY <2>2, <3>5 DEF Accepts, QueueTypes
      <4>3. queue' \in Seq(EventType) /\ Len(queue') <= QueueLength
        BY <4>1, <4>2, AppendFacts
      <4>4. Carries(queue', Queued', data')
        BY <1>2, <3>1, <3>2, <3>3, <3>4, <4>2, CarriesNew DEF BufferInv
      <4>5. Covers(queue, Queued) => Covers(queue', Queued')
        BY <3>3, <4>1, <4>2, CoversQueue
      <4>6. QED
        BY <3>2, <3>3, <4>3, <4>4, <4>5 DEF QueueTypes, BufferInv
    <3>6. CASE ~Accepts(queue)
      <4>1. queue' = queue
        BY <2>2, <3>6
      <4>2. Carries(queue, Queued, data) /\ Queued \subseteq Queued'
        BY <3>3 DEF BufferInv
      <4>3. Carries(queue, Queued', data')
        BY <3>4, <4>2, CarriesSame
      <4>4. ~(Running /\ HasRoom)
        BY <3>6 DEF Accepts, Running, HasRoom
      <4>5. QED
        BY <3>2, <3>3, <4>1, <4>3, <4>4 DEF QueueTypes, BufferInv
    <3>7. QED
      BY <3>5, <3>6
  <2>3. QED
    BY <1>2, <2>1, <2>2 DEF Arrives
<1>3. ASSUME NEW p \in net, BlockArrives(p)
      PROVE  /\ QueueTypes' /\ BufferInv' /\ doing' = doing /\ state' = state
             /\ Running /\ HasRoom /\ Covers(queue, Queued) => Covers(queue', Queued')
  <2>1. /\ p[1] \in JobIds /\ p[2] \in Blocks
        /\ Arrives("ReceivedFileBlock", p[1], p[2]) /\ UNCHANGED <<leaked, doing, state>>
    BY <1>3 DEF BlockArrives, agent, JobTypes
  <2>2. QED
    BY <1>2, <2>1 DEF Carriers
<1>4. ASSUME NEW m \in answers, NEW again \in BOOLEAN, DocumentArrives(m, again)
      PROVE  /\ QueueTypes' /\ BufferInv' /\ doing' = doing /\ state' = state
             /\ Running /\ HasRoom /\ Covers(queue, Queued) => Covers(queue', Queued')
  <2>1. /\ m.job \in JobIds \cup {NoJob}
        /\ Arrives("ReceivedJobDocument", m.job, 0) /\ UNCHANGED <<leaked, doing, state>>
    BY <1>4 DEF DocumentArrives, agent, JobTypes
  <2>2. QED
    BY <1>2, <2>1 DEF Carriers
<1>5. CASE JobCancelled
  BY <1>5 DEF JobCancelled, agent, buffers, QueueTypes, BufferInv, Queued
<1>6. QED
  BY <1>1, <1>3, <1>4, <1>5 DEF ServiceStep

-----------------------------------------------------------------------------
(* The state machine of the agent.                                         *)

\* What the service returns, and announces.
LEMMA ServiceTypes ==
  ASSUME JobTypes
  PROVE  /\ \A j \in JobIds \cup {NoJob} : After(j) \in JobIds \cup {NoJob}
         /\ \A j \in JobIds \cup {NoJob}, n \in BOOLEAN :
              Document(j, n) \in [job : JobIds \cup {NoJob}, notice : BOOLEAN]
         /\ \A told \in BOOLEAN : JobEnds(told) =>
              /\ serving' \in JobIds \cup {NoJob}
              /\ answers' \subseteq [job : JobIds \cup {NoJob}, notice : BOOLEAN]
<1>1. \A j \in JobIds \cup {NoJob} : After(j) \in JobIds \cup {NoJob}
  BY DEF After, JobIds, NoJob
<1>2. \A j \in JobIds \cup {NoJob}, n \in BOOLEAN :
        Document(j, n) \in [job : JobIds \cup {NoJob}, notice : BOOLEAN]
  BY DEF Document
<1>3. Document(After(serving), TRUE) \in [job : JobIds \cup {NoJob}, notice : BOOLEAN]
  BY <1>1, <1>2 DEF JobTypes
<1>4. QED
  BY <1>1, <1>2, <1>3 DEF JobEnds, JobTypes

\* The parts of the invariant that are about the agent, after a step of it.
Kept == AgentTypes' /\ JobTypes' /\ Control'

\* Nothing that the agent waits for is a buffer's business but these.
LEMMA WaitTypes ==
  /\ Idle \in [at : Steps, buf : Buffers \cup {NoBuffer}, complete : BOOLEAN]
  /\ Idle.at = "idle" /\ Idle.buf = NoBuffer /\ Idle.complete = FALSE
  /\ \A s \in Steps, b \in Buffers \cup {NoBuffer} :
       /\ Waiting(s, b) \in [at : Steps, buf : Buffers \cup {NoBuffer}, complete : BOOLEAN]
       /\ Waiting(s, b).at = s /\ Waiting(s, b).buf = b /\ Waiting(s, b).complete = FALSE
BY DEF Idle, Waiting, Steps

\* Closing the file, and what follows when the broker cannot be reached.
LEMMA CloseTypes ==
  ASSUME JobTypes, Close
  PROVE  /\ missing' \subseteq Blocks /\ written' \subseteq JobIds \X Blocks
         /\ streams' \subseteq JobIds /\ net' \subseteq JobIds \X Blocks
         /\ opened' = FALSE /\ pal' = "closed" /\ UNCHANGED <<ctx, remaining>>
BY DEF JobTypes, Close, Unsubscribe

\* What follows when the service does not answer a request for a job.
LEMMA RetryTypes ==
  ASSUME AgentTypes, RetryOrShutdown
  PROVE  momentum' \in 0 .. MaxMomentum /\ timer' \in BOOLEAN
<1>1. timer' \in BOOLEAN
  BY Zenon DEF RetryOrShutdown
<1>2. momentum' \in 0 .. MaxMomentum
  BY DEF AgentTypes, RetryOrShutdown
<1>3. QED
  BY <1>1, <1>2

USE DEF file, agent, outside, buffers, AgentTypes, JobTypes, Control, WaitInv, JobInv, Transferring, Kept

\* Job documents.
LEMMA DocumentsKeep ==
  ASSUME QueueTypes, AgentTypes, JobTypes, BufferInv, Control,
         \/ StartHandler \/ RequestJob \/ ProcessNoJob \/ ContinueJob \/ ReplaceJob
         \/ \E ok \in BOOLEAN : \/ RequestJobDone(ok) \/ ProcessJob(ok) \/ ReplaceJobDone(ok)
                                \/ RefuseDone(ok)
  PROVE  Kept
<1>h. ASSUME NEW ids, Receives(ids)
      PROVE  /\ doing = Idle /\ Head(queue).id \in ids
             /\ Buffer \in Buffers \cup {NoBuffer}
             /\ Buffer # NoBuffer <=> Head(queue).id \in Carriers
  BY <1>h, HeadFacts DEF BufferInv
<1>d. ASSUME Receives({"ReceivedJobDocument"})
      PROVE  data[Buffer].job \in JobIds \cup {NoJob} /\ Buffer \in Buffers /\ Buffer # NoBuffer
  <2>1. Buffer # NoBuffer /\ Buffer \in Buffers
    BY <1>d, <1>h DEF Carriers
  <2>2. QED
    BY <2>1 DEF QueueTypes
<1>n. 0 \notin JobIds /\ NumBlocks > 0 /\ Blocks \subseteq Blocks
  BY DEF JobIds
<1>1. CASE StartHandler
  BY <1>1, <1>h, WaitTypes, Names DEF StartHandler, Handles
<1>2. CASE RequestJob
  <2>1. doing.at = "idle" /\ state \in {"RequestingJob", "WaitingForFileBlock"}
    BY <1>2, <1>h, WaitTypes DEF RequestJob, Handles
  <2>2. doing'.at = "requestJob" /\ doing'.buf = NoBuffer /\ doing'.complete = FALSE
        /\ doing' \in [at : Steps, buf : Buffers \cup {NoBuffer}, complete : BOOLEAN]
    BY <1>2, WaitTypes DEF RequestJob, Steps
  <2>3. QED
    BY <1>2, <2>1, <2>2 DEF RequestJob
<1>3. ASSUME NEW ok \in BOOLEAN, RequestJobDone(ok) PROVE Kept
  <2>1. answers' \subseteq [job : JobIds \cup {NoJob}, notice : BOOLEAN]
    <3>1. Document(serving, FALSE) \in [job : JobIds \cup {NoJob}, notice : BOOLEAN]
      BY ServiceTypes
    <3>2. QED
      BY <1>3, <3>1 DEF RequestJobDone
  <2>2. doing.at = "requestJob" /\ doing' = Idle
    BY <1>3 DEF RequestJobDone, Ends
  <2>3. CASE ok
    <3>1. timer' \in BOOLEAN /\ momentum' = 0 /\ state' = "WaitingForJob"
      BY <1>3, <2>3, Zenon DEF RequestJobDone
    <3>2. QED
      BY <1>3, <2>1, <2>2, <3>1, WaitTypes, Names DEF RequestJobDone
  <2>4. CASE ~ok
    <3>1. momentum' \in 0 .. MaxMomentum /\ timer' \in BOOLEAN /\ state' = state
      BY <1>3, <2>4, RetryTypes DEF RequestJobDone
    <3>2. QED
      BY <1>3, <2>1, <2>2, <3>1, WaitTypes DEF RequestJobDone
  <2>5. QED
    BY <2>3, <2>4
<1>4. CASE ProcessNoJob
  BY <1>4 DEF ProcessNoJob
<1>5. ASSUME NEW j \in JobIds, NEW b \in Buffers, NEW ok \in BOOLEAN, NEW q, Begin(j, b, ok, q),
             state = "WaitingForJob", streams' \subseteq JobIds, net' \subseteq JobIds \X Blocks
      PROVE  Kept
  <2>1. b # NoBuffer /\ j # NoJob
    BY DEF Buffers, NoBuffer, JobIds, NoJob
  <2>2. CASE ok
    BY <1>5, <2>1, <2>2, <1>n, WaitTypes, Names DEF Begin
  <2>3. CASE ~ok
    <3>1. doing'.at = "refuse" /\ doing'.buf = b /\ doing'.complete = FALSE
          /\ doing' \in [at : Steps, buf : Buffers \cup {NoBuffer}, complete : BOOLEAN]
      BY <1>5, <2>3, WaitTypes DEF Begin, Steps
    <3>2. QED
      BY <1>5, <2>1, <2>3, <3>1, <1>n DEF Begin
  <2>4. QED
    BY <2>2, <2>3
<1>6. ASSUME NEW ok \in BOOLEAN, ProcessJob(ok) PROVE Kept
  <2>1. /\ state = "WaitingForJob" /\ Receives({"ReceivedJobDocument"})
        /\ data[Buffer].job # NoJob /\ Begin(data[Buffer].job, Buffer, ok, Tail(queue))
        /\ UNCHANGED <<streams, net>>
    BY <1>6 DEF ProcessJob, TakesJob, Handles
  <2>2. data[Buffer].job \in JobIds /\ Buffer \in Buffers
    BY <2>1, <1>d
  <2>3. QED
    BY <2>1, <2>2, <1>5
<1>7. CASE ContinueJob
  <2>1. /\ state = "WaitingForJob" /\ Receives({"ReceivedJobDocument"})
        /\ data[Buffer].job # NoJob /\ active = data[Buffer].job
    BY <1>7 DEF ContinueJob, TakesJob, Handles
  <2>2. active # NoJob /\ doing.at = "idle"
    BY <2>1, <1>h, WaitTypes
  <2>3. QED
    BY <1>7, <2>1, <2>2, Names DEF ContinueJob
<1>8. CASE ReplaceJob
  <2>1. /\ state = "WaitingForJob" /\ Receives({"ReceivedJobDocument"})
        /\ data[Buffer].job # NoJob
    BY <1>8 DEF ReplaceJob, TakesJob, Handles
  <2>2. data[Buffer].job \in JobIds /\ Buffer \in Buffers /\ Buffer # NoBuffer /\ doing.at = "idle"
    BY <2>1, <1>d, <1>h, WaitTypes
  <2>3. doing'.at = "replace" /\ doing'.buf = Buffer /\ doing'.complete = FALSE
        /\ doing' \in [at : Steps, buf : Buffers \cup {NoBuffer}, complete : BOOLEAN]
    BY <1>8, <2>2, WaitTypes DEF ReplaceJob, Steps
  <2>4. QED
    BY <1>8, <2>1, <2>2, <2>3 DEF ReplaceJob
<1>9. ASSUME NEW ok \in BOOLEAN, ReplaceJobDone(ok) PROVE Kept
  <2>1. doing.at = "replace" /\ Begin(ctx, doing.buf, ok, queue) /\ Unsubscribe
    BY <1>9 DEF ReplaceJobDone
  <2>2. ctx \in JobIds /\ doing.buf \in Buffers /\ state = "WaitingForJob"
    BY <2>1
  <2>3. streams' \subseteq JobIds /\ net' \subseteq JobIds \X Blocks
    BY <2>1 DEF Unsubscribe
  <2>4. QED
    BY <1>5, <2>1, <2>2, <2>3
<1>10. ASSUME NEW ok \in BOOLEAN, RefuseDone(ok) PROVE Kept
  <2>1. /\ serving' \in JobIds \cup {NoJob}
        /\ answers' \subseteq [job : JobIds \cup {NoJob}, notice : BOOLEAN]
    BY <1>10, ServiceTypes DEF RefuseDone
  <2>2. QED
    BY <1>10, <2>1, WaitTypes DEF RefuseDone, Ends, Close, Unsubscribe
<1>11. QED
  BY <1>1, <1>2, <1>3, <1>4, <1>6, <1>7, <1>8, <1>9, <1>10

\* Requests for blocks, and giving up.
LEMMA RequestsKeep ==
  ASSUME QueueTypes, AgentTypes, JobTypes, BufferInv, Control,
         \/ InitFile \/ RequestData \/ NothingToRequest \/ GiveUp \/ Shutdown \/ ShutdownDone
         \/ UnexpectedEvent
         \/ \E ok \in BOOLEAN : InitFileDone(ok) \/ RequestDataDone(ok) \/ GiveUpDone(ok)
  PROVE  Kept
<1>h. ASSUME NEW ids, Receives(ids)
      PROVE  /\ doing = Idle /\ Head(queue).id \in ids /\ doing.at = "idle"
             /\ state \notin {"Stopped", "Reset"}
  BY <1>h, HeadFacts, WaitTypes DEF BufferInv
<1>w. ASSUME NEW s \in Steps, doing' = Waiting(s, NoBuffer)
      PROVE  /\ doing'.at = s /\ doing'.buf = NoBuffer /\ doing'.complete = FALSE
             /\ doing' \in [at : Steps, buf : Buffers \cup {NoBuffer}, complete : BOOLEAN]
  BY <1>w, WaitTypes
<1>1. CASE InitFile
  <2>1. doing.at = "idle" /\ state = "CreatingFile"
    BY <1>1, <1>h DEF InitFile, Handles
  <2>2. doing'.at = "initFile" /\ doing'.buf = NoBuffer /\ doing'.complete = FALSE
        /\ doing' \in [at : Steps, buf : Buffers \cup {NoBuffer}, complete : BOOLEAN]
    BY <1>1, <1>w DEF InitFile, Steps
  <2>3. QED
    BY <1>1, <2>1, <2>2 DEF InitFile
<1>2. ASSUME NEW ok \in BOOLEAN, InitFileDone(ok) PROVE Kept
  <2>1. doing.at = "initFile" /\ doing' = Idle /\ streams' \subseteq JobIds
    BY <1>2 DEF InitFileDone, Ends
  <2>2. CASE ok
    BY <1>2, <2>1, <2>2, WaitTypes, Names DEF InitFileDone
  <2>3. CASE ~ok
    <3>1. momentum' \in 0 .. MaxMomentum /\ timer' \in BOOLEAN /\ state' = state
      BY <1>2, <2>3, RetryTypes DEF InitFileDone
    <3>2. QED
      BY <1>2, <2>1, <3>1, WaitTypes DEF InitFileDone
  <2>4. QED
    BY <2>2, <2>3
<1>d. ASSUME DataIsDue
      PROVE  /\ doing.at = "idle" /\ doing = Idle
             /\ state \in {"RequestingFileBlock", "WaitingForFileBlock"}
  BY <1>d, <1>h DEF DataIsDue, Handles
<1>3. CASE RequestData
  <2>1. doing'.at = "requestData" /\ doing'.buf = NoBuffer /\ doing'.complete = FALSE
        /\ doing' \in [at : Steps, buf : Buffers \cup {NoBuffer}, complete : BOOLEAN]
    BY <1>3, <1>w DEF RequestData, Steps
  <2>2. QED
    BY <1>3, <1>d, <2>1 DEF RequestData
<1>4. ASSUME NEW ok \in BOOLEAN, RequestDataDone(ok) PROVE Kept
  <2>1. net' \subseteq JobIds \X Blocks
    BY <1>4 DEF RequestDataDone, Ends, Requested
  <2>2. QED
    BY <1>4, <2>1, WaitTypes, Names DEF RequestDataDone, Ends
<1>5. CASE NothingToRequest
  BY <1>5, <1>d, Names DEF NothingToRequest
<1>6. CASE GiveUp
  <2>1. timer' \in BOOLEAN
    BY <1>6, Zenon DEF GiveUp
  <2>2. /\ remaining > 0 /\ pal' = "closed"
        /\ UNCHANGED <<state, expected, active, ctx, missing, remaining, opened, written,
                       streams, serving, answers, net>>
    BY <1>6 DEF GiveUp
  <2>3. \/ doing' = Waiting("giveUp", NoBuffer) /\ momentum' = momentum
        \/ doing' = doing /\ momentum' = 0
    BY <1>6 DEF GiveUp
  <2>4. /\ doing.at = "idle" /\ doing = Idle
        /\ state \in {"RequestingFileBlock", "WaitingForFileBlock"}
    BY <1>6, <1>d DEF GiveUp
  <2>5. "giveUp" \in Steps
    BY DEF Steps
  <2>6. doing' \in [at : Steps, buf : Buffers \cup {NoBuffer}, complete : BOOLEAN]
    BY <2>3, <2>5, WaitTypes
  <2>7. momentum' \in 0 .. MaxMomentum
    BY <2>3
  <2>8. AgentTypes' /\ JobTypes'
    BY <2>1, <2>2, <2>6, <2>7
  <2>9. Control'
    BY <2>2, <2>3, <2>4, <2>5, <1>w
  <2>10. QED
    BY <2>8, <2>9
<1>7. ASSUME NEW ok \in BOOLEAN, GiveUpDone(ok) PROVE Kept
  <2>1. /\ serving' \in JobIds \cup {NoJob}
        /\ answers' \subseteq [job : JobIds \cup {NoJob}, notice : BOOLEAN]
    BY <1>7, ServiceTypes DEF GiveUpDone
  <2>2. QED
    BY <1>7, <2>1, WaitTypes DEF GiveUpDone, Ends
<1>8. CASE Shutdown
  <2>1. doing'.at = "shutdown" /\ doing'.buf = NoBuffer /\ doing'.complete = FALSE
        /\ doing' \in [at : Steps, buf : Buffers \cup {NoBuffer}, complete : BOOLEAN]
    BY <1>8, <1>w DEF Shutdown, Steps
  <2>2. doing.at = "idle"
    BY <1>8, <1>h DEF Shutdown
  <2>3. QED
    BY <1>8, <2>1, <2>2, Names DEF Shutdown
<1>9. CASE ShutdownDone
  <2>1. /\ doing' = Idle /\ active' = NoJob /\ momentum' = 0 /\ expected' = 0 /\ state' = "Stopped"
        /\ Close /\ UNCHANGED <<timer, serving, answers>>
    BY <1>9 DEF ShutdownDone, Ends
  <2>2. AgentTypes'
    BY <2>1, WaitTypes, Names
  <2>3. JobTypes'
    BY <2>1, CloseTypes
  <2>4. Control'
    BY <2>1, WaitTypes, CloseTypes
  <2>5. QED
    BY <2>2, <2>3, <2>4
<1>10. CASE UnexpectedEvent
  BY <1>10 DEF UnexpectedEvent
<1>11. QED
  BY <1>1, <1>2, <1>3, <1>4, <1>5, <1>6, <1>7, <1>8, <1>9, <1>10

\* Blocks, and the end of a file.
LEMMA BlocksKeep ==
  ASSUME QueueTypes, AgentTypes, JobTypes, BufferInv, Control,
         \/ RefuseBlock \/ DuplicateBlock \/ FirstBlock \/ ProgressDone \/ NextBlock
         \/ CloseFile \/ CloseFileDone \/ JobNotification \/ JobNotificationDone
         \/ \E ok \in BOOLEAN : LastBlock(ok) \/ FinalDone(ok)
  PROVE  Kept
<1>h. ASSUME NEW ids, Receives(ids)
      PROVE  /\ doing = Idle /\ doing.at = "idle" /\ Head(queue).id \in ids
             /\ Buffer \in Buffers \cup {NoBuffer}
             /\ Buffer # NoBuffer <=> Head(queue).id \in Carriers
             /\ Head(queue).id = "ReceivedFileBlock" =>
                  data[Buffer].job \in JobIds /\ data[Buffer].block \in Blocks
  BY <1>h, HeadFacts, WaitTypes DEF BufferInv
<1>w. ASSUME NEW s \in Steps, NEW b \in Buffers \cup {NoBuffer}, doing' = Waiting(s, b)
      PROVE  /\ doing'.at = s /\ doing'.buf = b /\ doing'.complete = FALSE
             /\ doing' \in [at : Steps, buf : Buffers \cup {NoBuffer}, complete : BOOLEAN]
  BY <1>w, WaitTypes
<1>s. {"progress", "final", "close", "notice"} \subseteq Steps
  BY DEF Steps
<1>t. ASSUME TakesBlock
      PROVE  /\ state = "WaitingForFileBlock" /\ doing = Idle /\ doing.at = "idle"
             /\ Buffer \in Buffers /\ Buffer # NoBuffer
             /\ data[Buffer].job \in JobIds /\ Block \in Blocks
  <2>1. state = "WaitingForFileBlock" /\ Receives({"ReceivedFileBlock"})
    BY <1>t DEF TakesBlock, Handles
  <2>2. QED
    BY <1>h, <2>1 DEF Carriers, Block
<1>1. CASE RefuseBlock
  <2>1. /\ TakesBlock /\ doing' = Waiting("final", Buffer) /\ pal' = "closed"
        /\ UNCHANGED <<state, momentum, expected, active, ctx, missing, remaining, opened, written,
                       streams, outside>>
    BY <1>1 DEF RefuseBlock, Reject
  <2>2. timer' \in BOOLEAN
    BY <1>1, Zenon DEF RefuseBlock, ExpectsBlock
  <2>3. QED
    BY <1>t, <1>w, <1>s, <2>1, <2>2
<1>2. CASE DuplicateBlock
  <2>1. /\ TakesBlock /\ UNCHANGED <<agent, file, streams, outside>>
    BY <1>2 DEF DuplicateBlock
  <2>2. timer' \in BOOLEAN
    BY <1>2, Zenon DEF DuplicateBlock, ExpectsBlock
  <2>3. QED
    BY <1>t, <2>1, <2>2
<1>3. ASSUME WritesBlock
      PROVE  /\ missing' \subseteq Blocks /\ written' \subseteq JobIds \X Blocks /\ ctx' = ctx
             /\ remaining > 0 /\ remaining' = remaining - 1 /\ remaining' \in 0 .. NumBlocks
             /\ state = "WaitingForFileBlock" /\ doing = Idle /\ doing.at = "idle"
             /\ Buffer \in Buffers /\ Buffer # NoBuffer
  BY <1>3, <1>t DEF WritesBlock
<1>4. CASE FirstBlock
  <2>1. /\ doing' = Waiting("progress", Buffer) /\ momentum' = 0 /\ remaining = NumBlocks
        /\ UNCHANGED <<state, expected, active, opened, pal, streams, outside>>
    BY <1>4 DEF FirstBlock
  <2>2. NumBlocks > 1 /\ WritesBlock
    BY <1>4 DEF FirstBlock
  <2>3. timer' \in BOOLEAN
    BY <1>4, Zenon DEF FirstBlock
  <2>4. /\ doing'.at = "progress" /\ doing'.buf = Buffer /\ doing'.complete = FALSE
        /\ doing' \in [at : Steps, buf : Buffers \cup {NoBuffer}, complete : BOOLEAN]
    BY <1>3, <1>w, <1>s, <2>1, <2>2
  <2>5. remaining' > 0
    BY <1>3, <2>1, <2>2
  <2>6. AgentTypes' /\ JobTypes'
    BY <1>3, <2>1, <2>2, <2>3, <2>4
  <2>7. Control'
    BY <1>3, <2>1, <2>2, <2>4, <2>5
  <2>8. QED
    BY <2>6, <2>7
<1>5. ASSUME NEW q, Continue(q) PROVE expected' \in 0 .. Window
  BY <1>5 DEF Continue
<1>6. CASE ProgressDone
  <2>1. /\ doing.at = "progress" /\ doing' = Idle /\ Continue(queue)
        /\ UNCHANGED <<state, momentum, active, file, streams, outside>>
    BY <1>6 DEF ProgressDone, Ends
  <2>2. timer' \in BOOLEAN
    BY <1>6, Zenon DEF ProgressDone
  <2>3. QED
    BY <1>5, <2>1, <2>2, WaitTypes
<1>7. CASE NextBlock
  <2>1. /\ WritesBlock /\ Continue(Tail(queue)) /\ momentum' = 0 /\ remaining \in 2 .. (NumBlocks - 1)
        /\ UNCHANGED <<state, active, doing, opened, pal, streams, outside>>
    BY <1>7 DEF NextBlock
  <2>2. timer' \in BOOLEAN
    BY <1>7, Zenon DEF NextBlock
  <2>3. QED
    BY <1>3, <1>5, <2>1, <2>2
<1>8. ASSUME NEW valid \in BOOLEAN, LastBlock(valid) PROVE Kept
  <2>1. /\ WritesBlock /\ doing' = [at |-> "final", buf |-> Buffer, complete |-> valid]
        /\ pal' \in {"closed", "open", "verified"}
        /\ UNCHANGED <<state, momentum, expected, active, streams, outside>>
    BY <1>8 DEF LastBlock
  <2>2. timer' \in BOOLEAN /\ opened' \in BOOLEAN
    BY <1>8, Zenon DEF LastBlock
  <2>3. /\ doing'.at = "final" /\ doing'.buf = Buffer
        /\ doing' \in [at : Steps, buf : Buffers \cup {NoBuffer}, complete : BOOLEAN]
    BY <1>3, <1>s, <2>1
  <2>4. QED
    BY <1>3, <2>1, <2>2, <2>3
<1>9. ASSUME NEW told \in BOOLEAN, FinalDone(told) PROVE Kept
  <2>1. JobEnds(told /\ ~doing.complete) /\ (told /\ ~doing.complete) \in BOOLEAN
    BY <1>9 DEF FinalDone
  <2>2. /\ serving' \in JobIds \cup {NoJob}
        /\ answers' \subseteq [job : JobIds \cup {NoJob}, notice : BOOLEAN]
    BY <2>1, ServiceTypes
  <2>3. /\ doing.at = "final" /\ doing' = Idle /\ active' = NoJob
        /\ state' \in {"Reset", state} /\ UNCHANGED <<momentum, expected, file, streams, net>>
    BY <1>9 DEF FinalDone, Ends
  <2>4. timer' \in BOOLEAN
    BY <1>9, Zenon DEF FinalDone
  <2>5. QED
    BY <2>2, <2>3, <2>4, WaitTypes, Names
<1>10. CASE CloseFile
  <2>1. state = "WaitingForFileBlock" /\ doing.at = "idle"
    BY <1>10, <1>h DEF CloseFile, Handles
  <2>2. /\ doing' = Waiting("close", NoBuffer)
        /\ UNCHANGED <<state, timer, momentum, expected, active, file, streams, outside>>
    BY <1>10 DEF CloseFile
  <2>3. QED
    BY <1>w, <1>s, <2>1, <2>2
<1>11. CASE CloseFileDone
  <2>1. /\ doing.at = "close" /\ doing' = Idle /\ state' = "WaitingForJob" /\ Close
        /\ UNCHANGED <<timer, momentum, expected, active, serving, answers>>
    BY <1>11 DEF CloseFileDone, Ends
  <2>2. AgentTypes'
    BY <2>1, WaitTypes, Names
  <2>3. JobTypes'
    BY <2>1, CloseTypes
  <2>4. Control'
    <3>1. /\ doing'.at = "idle" /\ doing'.buf = NoBuffer /\ doing'.complete = FALSE
          /\ ctx' = ctx /\ remaining' = remaining
      BY <2>1, WaitTypes, CloseTypes
    <3>2. QED
      BY <2>1, <3>1
  <2>5. QED
    BY <2>2, <2>3, <2>4
<1>12. CASE JobNotification
  <2>1. state = "WaitingForFileBlock" /\ doing.at = "idle" /\ Buffer \in Buffers /\ Buffer # NoBuffer
    BY <1>12, <1>h DEF JobNotification, Handles, Carriers
  <2>2. /\ doing' = Waiting("notice", Buffer) /\ pal' = "closed"
        /\ UNCHANGED <<state, momentum, expected, active, ctx, missing, remaining, opened, written,
                       streams, outside>>
    BY <1>12 DEF JobNotification
  <2>3. timer' \in BOOLEAN
    BY <1>12, Zenon DEF JobNotification
  <2>4. QED
    BY <1>w, <1>s, <2>1, <2>2, <2>3
<1>13. CASE JobNotificationDone
  <2>1. /\ doing.at = "notice" /\ doing' = Idle /\ state' = "RequestingJob" /\ active' = NoJob /\ Close
        /\ UNCHANGED <<timer, momentum, expected, serving, answers>>
    BY <1>13 DEF JobNotificationDone, Ends
  <2>2. AgentTypes'
    BY <2>1, WaitTypes, Names
  <2>3. JobTypes'
    BY <2>1, CloseTypes
  <2>4. Control'
    BY <2>1, WaitTypes, CloseTypes
  <2>5. QED
    BY <2>2, <2>3, <2>4
<1>14. QED
  BY <1>1, <1>2, <1>4, <1>6, <1>7, <1>8, <1>9, <1>10, <1>11, <1>12, <1>13

\* The timer, the callbacks and the services.
LEMMA OutsideKeeps ==
  ASSUME AgentTypes, JobTypes, Control, TimerExpires \/ ServiceStep
  PROVE  Kept
<1>1. CASE TimerExpires
  <2>1. timer' \in BOOLEAN
    BY <1>1, Zenon DEF TimerExpires
  <2>2. timer /\ UNCHANGED <<agent, file, streams, outside>>
    BY <1>1 DEF TimerExpires
  <2>3. QED
    BY <2>1, <2>2
<1>2. ASSUME NEW p \in net, BlockArrives(p) PROVE Kept
  BY <1>2 DEF BlockArrives
<1>3. ASSUME NEW d \in answers, NEW again \in BOOLEAN, DocumentArrives(d, again) PROVE Kept
  <2>1. Document(d.job, FALSE) \in [job : JobIds \cup {NoJob}, notice : BOOLEAN]
    BY <1>3, ServiceTypes
  <2>2. answers' \subseteq [job : JobIds \cup {NoJob}, notice : BOOLEAN]
    BY <1>3, <2>1 DEF DocumentArrives
  <2>3. UNCHANGED <<agent, timer, file, streams, serving, net>>
    BY <1>3 DEF DocumentArrives
  <2>4. QED
    BY <2>2, <2>3
<1>4. CASE JobCancelled
  <2>1. /\ After(serving) \in JobIds \cup {NoJob}
        /\ Document(After(serving), TRUE) \in [job : JobIds \cup {NoJob}, notice : BOOLEAN]
    BY ServiceTypes
  <2>2. /\ serving' \in JobIds \cup {NoJob}
        /\ answers' \subseteq [job : JobIds \cup {NoJob}, notice : BOOLEAN]
        /\ UNCHANGED <<agent, timer, file, streams, net>>
    BY <1>4, <2>1 DEF JobCancelled
  <2>3. QED
    BY <2>2
<1>5. QED
  BY <1>1, <1>2, <1>3, <1>4 DEF ServiceStep

HIDE DEF file, agent, outside, buffers, AgentTypes, JobTypes, Control, WaitInv, JobInv, Transferring, Kept

-----------------------------------------------------------------------------
(* The blocks of the open file.                                            *)

\* Blocks are finite, and so is what is written of them.
LEMMA BlocksAreFinite == IsFiniteSet(Blocks) /\ Cardinality(Blocks) = NumBlocks
  BY FS_Interval DEF Blocks

\* A block that was missing.
LEMMA WriteCounts ==
  ASSUME JobTypes, QueueTypes, FileIsCounted, WritesBlock, data[Buffer].job \in JobIds
  PROVE  /\ {w[2] : w \in written'} = Blocks \ missing'
         /\ Cardinality(written') = NumBlocks - remaining'
         /\ remaining' = Cardinality(missing')
<1> DEFINE n == <<data[Buffer].job, Block>>
<1>1. /\ opened /\ Block \in missing /\ Block \in Blocks
      /\ missing' = missing \ {Block} /\ remaining' = remaining - 1 /\ written' = written \cup {n}
      /\ remaining \in Nat /\ missing \subseteq Blocks
  BY DEF WritesBlock, JobTypes
<1>2. /\ {w[2] : w \in written} = Blocks \ missing
      /\ Cardinality(written) = NumBlocks - remaining /\ remaining = Cardinality(missing)
  BY <1>1 DEF FileIsCounted
<1>3. n[2] = Block
  OBVIOUS
<1> HIDE DEF n
<1>4. n \notin written
  BY <1>1, <1>2, <1>3
<1>5. {w[2] : w \in written'} = {w[2] : w \in written} \cup {Block}
  BY <1>1, <1>3
<1>6. {w[2] : w \in written'} = Blocks \ missing'
  BY <1>1, <1>2, <1>5
<1>7. IsFiniteSet(missing)
  BY <1>1, BlocksAreFinite, FS_Subset
<1>8. Cardinality(missing') = Cardinality(missing) - 1
  BY <1>1, <1>7, FS_RemoveElement
<1>9. IsFiniteSet(written)
  <2>1. IsFiniteSet(JobIds)
    BY FS_Interval DEF JobIds
  <2>2. IsFiniteSet(JobIds \X Blocks)
    BY <2>1, BlocksAreFinite, FS_Product
  <2>3. written \subseteq JobIds \X Blocks
    BY DEF JobTypes
  <2>4. QED
    BY <2>2, <2>3, FS_Subset
<1>10. Cardinality(written') = Cardinality(written) + 1
  BY <1>1, <1>4, <1>9, FS_AddElement
<1>11. Cardinality(written') = NumBlocks - remaining'
  BY <1>1, <1>2, <1>10
<1>12. QED
  BY <1>1, <1>2, <1>6, <1>8, <1>11

\* A file that is begun.
LEMMA BeginCounts ==
  ASSUME NEW j, NEW b, NEW ok, NEW q, Begin(j, b, ok, q)
  PROVE  FileIsCounted'
<1>1. missing' = Blocks /\ remaining' = NumBlocks /\ written' = {}
  BY DEF Begin
<1>2. {w[2] : w \in written'} = Blocks \ missing' /\ Cardinality(written') = 0
  BY <1>1, FS_EmptySet
<1>3. Cardinality(written') = NumBlocks - remaining' /\ remaining' = Cardinality(missing')
  BY <1>1, <1>2, BlocksAreFinite
<1>4. QED
  BY <1>2, <1>3 DEF FileIsCounted

\* Every step counts.
LEMMA FileKeeps ==
  ASSUME JobTypes, QueueTypes, BufferInv, FileIsCounted, Next
  PROVE  FileIsCounted'
<1>1. ASSUME WritesBlock PROVE FileIsCounted'
  <2>1. Receives({"ReceivedFileBlock"})
    BY <1>1 DEF WritesBlock, TakesBlock, Handles
  <2>2. data[Buffer].job \in JobIds
    BY <2>1, HeadFacts DEF BufferInv
  <2>3. QED
    BY <1>1, <2>2, WriteCounts DEF FileIsCounted
<1>2. ASSUME UNCHANGED <<opened, missing, remaining, written>> PROVE FileIsCounted'
  BY <1>2 DEF FileIsCounted
<1>3. ASSUME opened' = FALSE PROVE FileIsCounted'
  BY <1>3 DEF FileIsCounted
<1>4. ASSUME Close PROVE FileIsCounted'
  BY <1>3, <1>4 DEF Close
<1> HIDE DEF FileIsCounted
<1>5. CASE FirstBlock \/ NextBlock \/ \E valid \in BOOLEAN : LastBlock(valid)
  BY <1>1, <1>5 DEF FirstBlock, NextBlock, LastBlock
<1>6. CASE \/ StartHandler \/ RequestJob \/ ProcessNoJob \/ ContinueJob \/ InitFile \/ RequestData
           \/ NothingToRequest \/ GiveUp \/ RefuseBlock \/ DuplicateBlock \/ ProgressDone
           \/ CloseFile \/ JobNotification \/ Shutdown \/ UnexpectedEvent \/ TimerExpires
           \/ ServiceStep
  BY <1>2, <1>6
     DEF file, StartHandler, RequestJob, ProcessNoJob, ContinueJob, InitFile, RequestData,
         NothingToRequest, GiveUp, RefuseBlock, DuplicateBlock, ProgressDone, CloseFile,
         JobNotification, Shutdown, UnexpectedEvent, TimerExpires, ServiceStep, BlockArrives,
         DocumentArrives, JobCancelled
<1>7. ASSUME NEW ok, RequestJobDone(ok) \/ InitFileDone(ok) \/ RequestDataDone(ok) \/ GiveUpDone(ok)
                       \/ FinalDone(ok)
      PROVE  FileIsCounted'
  BY <1>2, <1>7 DEF file, RequestJobDone, InitFileDone, RequestDataDone, GiveUpDone, FinalDone
<1>8. ASSUME NEW ok, ProcessJob(ok) \/ ReplaceJobDone(ok) PROVE FileIsCounted'
  BY <1>8, BeginCounts DEF ProcessJob, ReplaceJobDone
<1>9. CASE ReplaceJob
  BY <1>3, <1>9 DEF ReplaceJob
<1>10. CASE \/ CloseFileDone \/ JobNotificationDone \/ ShutdownDone
            \/ \E told \in Published : RefuseDone(told)
  BY <1>4, <1>10 DEF CloseFileDone, JobNotificationDone, ShutdownDone, RefuseDone
<1>11. QED
  BY <1>5, <1>6, <1>7, <1>8, <1>9, <1>10 DEF Next, AgentStep

-----------------------------------------------------------------------------
(* The invariant holds.                                                    *)

\* The initial state.
LEMMA InvInit == Init => Inv
<1> SUFFICES ASSUME Init PROVE Inv
  OBVIOUS
<1>1. Ev("Start") \in EventType /\ Ev("Start").buf = NoBuffer /\ Ev("Start").id = "Start"
  BY Names DEF Ev, EventType
<1>2. /\ queue \in Seq(EventType) /\ Len(queue) <= QueueLength
      /\ \A i \in DOMAIN queue : queue[i] = Ev("Start")
  BY <1>1 DEF Init
<1>3. data \in [Buffers -> [job : JobIds \cup {NoJob}, block : Blocks \cup {0}]]
  BY DEF Init, Nothing
<1>4. QueueTypes
  BY <1>2, <1>3 DEF Init, QueueTypes
<1>5. /\ AgentTypes
      /\ JobTypes
      /\ FileIsCounted
  <2>1. timer \in BOOLEAN /\ opened \in BOOLEAN /\ FileIsCounted
    BY Zenon DEF Init, FileIsCounted
  <2>2. AgentTypes
    BY <2>1, WaitTypes, Names DEF Init, AgentTypes
  <2>3. JobTypes
    BY <2>1 DEF Init, JobTypes, JobIds, NoJob
  <2>4. QED
    BY <2>1, <2>2, <2>3
<1>6. Carries(queue, Queued, data)
  <2>1. DOMAIN queue = {1}
    BY DEF Init
  <2>2. QED
    BY <1>1, <1>2, <2>1 DEF Carries, Carriers
<1>7. BufferInv /\ Control
  BY <1>6, WaitTypes DEF Init, BufferInv, Control, WaitInv, JobInv, Transferring
<1>8. QED
  BY <1>4, <1>5, <1>7, TypeParts DEF Inv

\* One step.
LEMMA InvNext == Inv /\ [Next]_vars => Inv'
<1> SUFFICES ASSUME Inv, [Next]_vars PROVE Inv'
  OBVIOUS
<1>1. QueueTypes /\ AgentTypes /\ JobTypes /\ BufferInv /\ Control /\ FileIsCounted
  BY TypeParts DEF Inv
<1>2. doing \in [at : Steps, buf : Buffers \cup {NoBuffer}, complete : BOOLEAN]
  BY <1>1 DEF AgentTypes
<1>3. CASE AgentStep
  <2>1. QueueTypes' /\ BufferInv'
    <3>1. QueueStep
      BY <1>1, <1>3, AgentQueue DEF BufferInv, Control
    <3>2. QED
      BY <1>1, <1>2, <3>1, QueueKeeps
  <2>2. AgentTypes' /\ JobTypes' /\ Control'
    <3>1. /\ Published \subseteq BOOLEAN /\ Outcome("create") \subseteq BOOLEAN
          /\ Outcome("subscribe") \subseteq BOOLEAN
      BY DEF Published, Outcome
    <3>2. QED
      BY <1>1, <1>3, <3>1, DocumentsKeep, RequestsKeep, BlocksKeep DEF AgentStep, Kept
  <2>3. FileIsCounted'
    BY <1>1, <1>3, FileKeeps DEF Next
  <2>4. TypeOK'
    BY <2>1, <2>2 DEF TypeOK, QueueTypes, AgentTypes, JobTypes, EventType
  <2>5. QED
    BY <2>1, <2>2, <2>3, <2>4 DEF Inv
<1>4. CASE TimerExpires \/ ServiceStep
  <2>1. QueueTypes' /\ BufferInv'
    BY <1>1, <1>2, <1>4, OutsideQueue
  <2>2. AgentTypes' /\ JobTypes' /\ Control'
    BY <1>1, <1>4, OutsideKeeps DEF Kept
  <2>3. FileIsCounted'
    BY <1>1, <1>4, FileKeeps DEF Next
  <2>4. TypeOK'
    BY <2>1, <2>2 DEF TypeOK, QueueTypes, AgentTypes, JobTypes, EventType
  <2>5. QED
    BY <2>1, <2>2, <2>3, <2>4 DEF Inv
<1>5. CASE UNCHANGED vars
  BY <1>1, <1>5
     DEF vars, agent, file, buffers, outside, Inv, TypeOK, BufferInv, Queued, Control, WaitInv, JobInv,
         Transferring, FileIsCounted
<1>6. QED
  BY <1>3, <1>4, <1>5 DEF Next

\* Every variable keeps its type: neither the count of blocks nor the momentum
\* leaves its range, and a buffer that is lost is one that is in use.
THEOREM TypeCorrect == Spec => []TypeOK
<1>1. Inv => TypeOK
  BY DEF Inv
<1>2. QED
  BY InvInit, InvNext, <1>1, PTL DEF Spec

\* Whatever comes twice, late or for another file, the bitmap of the open file
\* and the count that ends its transfer agree with the blocks written.
THEOREM BlocksAreCounted == Spec => []FileIsCounted
<1>1. Inv => FileIsCounted
  BY DEF Inv
<1>2. QED
  BY InvInit, InvNext, <1>1, PTL DEF Spec

-----------------------------------------------------------------------------
(* The buffers.                                                            *)

\* How many parties owe a buffer.
LEMMA OwingFacts ==
  ASSUME Inv, NEW b \in Buffers
  PROVE  /\ Owing(b) \in {0, 1}
         /\ b \notin used => Owing(b) = 0
         /\ Covers(queue, Queued) /\ b \in used => Owing(b) = 1
<1> DEFINE S == {i \in DOMAIN queue : queue[i].buf = b}
<1>1. /\ b # NoBuffer /\ leaked \subseteq used
      /\ doing.buf # NoBuffer => doing.buf \in used \ leaked
      /\ Carries(queue, Queued, data)
  BY DEF Inv, TypeOK, BufferInv, Buffers, NoBuffer
<1>2. Owing(b) = Cardinality(S) + (IF doing.buf = b THEN 1 ELSE 0) + (IF b \in leaked THEN 1 ELSE 0)
  BY DEF Owing
<1>3. b \notin Queued => S = {}
  BY <1>1 DEF Carries
<1>4. S = {} \/ \E i \in DOMAIN queue : S = {i}
  BY <1>1 DEF Carries
<1>5. Covers(queue, Queued) /\ b \in Queued => S # {}
  BY DEF Covers
<1>6. (S = {} => Cardinality(S) = 0) /\ \A i : S = {i} => Cardinality(S) = 1
  BY FS_EmptySet, FS_Singleton
<1> HIDE DEF S
<1>7. Cardinality(S) \in {0, 1} /\ (S = {} => Cardinality(S) = 0) /\ (S # {} => Cardinality(S) = 1)
  BY <1>4, <1>6
<1>8. CASE b \notin used
  BY <1>1, <1>2, <1>3, <1>7, <1>8 DEF Queued
<1>9. CASE b \in leaked
  BY <1>1, <1>2, <1>3, <1>7, <1>9 DEF Queued
<1>10. CASE doing.buf = b
  BY <1>1, <1>2, <1>3, <1>7, <1>10 DEF Queued
<1>11. CASE b \in Queued
  BY <1>1, <1>2, <1>5, <1>7, <1>11 DEF Queued
<1>12. QED
  BY <1>8, <1>9, <1>10, <1>11 DEF Queued

\* No buffer is owed twice, nor owed by anybody when it is free.
NoBufferIsShared == \A b \in Buffers : Owing(b) <= (IF b \in used THEN 1 ELSE 0)

\* Whatever is lost or dropped, an event's buffer is never handed out again
\* before its handler is done with it, nor given back twice.
THEOREM BuffersAreNotShared == Spec => []NoBufferIsShared
<1>1. Inv => NoBufferIsShared
  <2> SUFFICES ASSUME Inv, NEW b \in Buffers PROVE Owing(b) <= (IF b \in used THEN 1 ELSE 0)
    BY DEF NoBufferIsShared
  <2>1. QED
    BY OwingFacts
<1>2. QED
  BY InvInit, InvNext, <1>1, PTL DEF Spec

Covered == Running => Covers(queue, Queued)

\* The agent does not start again.
LEMMA AgentRuns == Inv /\ AgentStep => Running
<1> SUFFICES ASSUME Inv, AgentStep, state \in {"Stopped", "Reset"} PROVE FALSE
  BY DEF Running
<1>1. doing.at = "idle"
  BY DEF Inv, Control, WaitInv
<1>2. \A ids : ~Receives(ids)
  BY DEF Receives
<1>3. \A s, ids : ~Handles(s, ids)
  BY <1>2 DEF Handles
<1>4. \A s \in Steps \ {"idle"} : ~Ends(s)
  BY <1>1 DEF Ends
<1>5. {"requestJob", "refuse", "initFile", "requestData", "giveUp", "progress", "final", "close",
       "notice", "shutdown"} \subseteq Steps \ {"idle"}
  BY DEF Steps
<1>6. ~TakesJob /\ ~TakesBlock /\ ~DataIsDue /\ ~WritesBlock
  BY <1>3 DEF TakesJob, TakesBlock, DataIsDue, WritesBlock
<1>7. /\ ~StartHandler /\ ~RequestJob /\ ~ProcessNoJob /\ ~ContinueJob /\ ~ReplaceJob /\ ~InitFile
      /\ ~RequestData /\ ~NothingToRequest /\ ~GiveUp /\ ~RefuseBlock /\ ~DuplicateBlock
      /\ ~FirstBlock /\ ~NextBlock /\ ~CloseFile /\ ~JobNotification /\ ~Shutdown /\ ~UnexpectedEvent
      /\ \A ok : ~ProcessJob(ok) /\ ~LastBlock(ok)
  BY <1>2, <1>3, <1>6
     DEF StartHandler, RequestJob, ProcessNoJob, ContinueJob, ReplaceJob, InitFile, RequestData,
         NothingToRequest, GiveUp, RefuseBlock, DuplicateBlock, FirstBlock, NextBlock, CloseFile,
         JobNotification, Shutdown, UnexpectedEvent, ProcessJob, LastBlock
<1>8. /\ ~ProgressDone /\ ~CloseFileDone /\ ~JobNotificationDone /\ ~ShutdownDone
      /\ \A ok : /\ ~RequestJobDone(ok) /\ ~ReplaceJobDone(ok) /\ ~RefuseDone(ok) /\ ~InitFileDone(ok)
                 /\ ~RequestDataDone(ok) /\ ~GiveUpDone(ok) /\ ~FinalDone(ok)
  BY <1>1, <1>4, <1>5
     DEF ProgressDone, CloseFileDone, JobNotificationDone, ShutdownDone, RequestJobDone,
         ReplaceJobDone, RefuseDone, InitFileDone, RequestDataDone, GiveUpDone, FinalDone
<1>9. QED
  BY <1>7, <1>8 DEF AgentStep

\* With room in the queue no buffer is forgotten.
LEMMA CoveredNext == Inv /\ HasRoom /\ Covered /\ [Next]_vars => Covered'
<1> SUFFICES ASSUME Inv, HasRoom, Covered, [Next]_vars, Running' PROVE Covers(queue', Queued')
  BY DEF Covered
<1>1. QueueTypes /\ AgentTypes /\ JobTypes /\ BufferInv /\ Control
  BY TypeParts DEF Inv
<1>2. doing \in [at : Steps, buf : Buffers \cup {NoBuffer}, complete : BOOLEAN]
  BY <1>1 DEF AgentTypes
<1>3. CASE AgentStep
  <2>1. Covers(queue, Queued)
    BY <1>3, AgentRuns DEF Covered
  <2>2. QueueStep
    BY <1>1, <1>3, AgentQueue DEF BufferInv, Control
  <2>3. QED
    BY <1>1, <1>2, <2>1, <2>2, QueueKeeps
<1>4. CASE TimerExpires \/ ServiceStep
  <2>1. state' = state
    BY <1>1, <1>2, <1>4, OutsideQueue
  <2>2. Running /\ Covers(queue, Queued)
    BY <2>1 DEF Running, Covered
  <2>3. QED
    BY <1>1, <1>2, <1>4, <2>2, OutsideQueue
<1>5. CASE UNCHANGED vars
  BY <1>5 DEF vars, agent, buffers, Covered, Running, Queued
<1>6. QED
  BY <1>3, <1>4, <1>5 DEF Next

\* As long as the queue has room, a buffer in use is owed by exactly one
\* party: a queued event, the handler that waits, or the one that kept it.
THEOREM BuffersAreOwed == Spec => ([]HasRoom => []BufferIsOwed)
<1>1. Init => Covered
  BY WaitTypes DEF Init, Covered, Covers, Queued
<1>2. Inv /\ Covered => BufferIsOwed
  <2> SUFFICES ASSUME Inv, Covered, Running, NEW b \in Buffers
               PROVE  Owing(b) = (IF b \in used THEN 1 ELSE 0)
    BY DEF BufferIsOwed, Running
  <2>1. QED
    BY OwingFacts DEF Covered
<1>3. QED
  BY InvInit, InvNext, CoveredNext, <1>1, <1>2, PTL DEF Spec

-----------------------------------------------------------------------------
(* What wakes the agent.                                                   *)

\* An event of ids is queued, and the events that the agent acts on in a state.
Has(q, ids) == \E i \in DOMAIN q : q[i].id \in ids
Wakes(s) == {"Shutdown"} \cup {id \in Events : <<s, id>> \in Table}

Active == {"Ready", "RequestingJob", "CreatingFile", "RequestingFileBlock", "WaitingForFileBlock",
           "ShuttingDown"}

\* The request timer runs, or has expired, while a handler waits that leaves
\* the rest to it; a file without blocks to come is about to be closed.
Awake ==
  /\ doing.at = "idle" /\ state \in Active => timer \/ Has(queue, Wakes(state))
  /\ doing.at \in {"requestData", "progress"} => timer \/ Has(queue, {"RequestTimer"})
  /\ state = "WaitingForFileBlock" /\ remaining = 0 /\ doing.at \notin {"final", "close", "notice"} =>
       Has(queue, {"CloseFile"})

\* What the states act on.
LEMMA WakesFacts ==
  /\ \A s : "Shutdown" \in Wakes(s)
  /\ \A s \in {"RequestingJob", "CreatingFile", "RequestingFileBlock", "WaitingForFileBlock"} :
       "RequestTimer" \in Wakes(s)
  /\ "RequestJobDocument" \in Wakes("RequestingJob")
  /\ "CreateFile" \in Wakes("CreatingFile")
  /\ "RequestFileBlock" \in Wakes("RequestingFileBlock")
  /\ "CloseFile" \in Wakes("WaitingForFileBlock")
BY Names DEF Wakes, Table

\* An event stays until it is the first and is taken.
LEMMA HasFacts ==
  ASSUME NEW q \in Seq(EventType), NEW ids
  PROVE  /\ q # <<>> /\ Has(q, ids) /\ Head(q).id \notin ids => Has(Tail(q), ids)
         /\ \A e \in EventType : Has(q, ids) \/ e.id \in ids => Has(Append(q, e), ids)
<1>1. ASSUME q # <<>>, Has(q, ids), Head(q).id \notin ids PROVE Has(Tail(q), ids)
  <2>1. PICK i \in DOMAIN q : q[i].id \in ids
    BY <1>1 DEF Has
  <2>2. i # 1
    BY <1>1, <2>1, TailFacts
  <2>3. i - 1 \in DOMAIN Tail(q) /\ Tail(q)[i - 1] = q[i]
    BY <1>1, <2>2, TailFacts
  <2>4. QED
    BY <2>1, <2>3 DEF Has
<1>2. ASSUME NEW e \in EventType, Has(q, ids) PROVE Has(Append(q, e), ids)
  <2>1. PICK i \in DOMAIN q : q[i].id \in ids
    BY <1>2 DEF Has
  <2>2. i \in DOMAIN Append(q, e) /\ Append(q, e)[i] = q[i]
    BY AppendFacts
  <2>3. QED
    BY <2>1, <2>2 DEF Has
<1>3. ASSUME NEW e \in EventType, e.id \in ids PROVE Has(Append(q, e), ids)
  <2>1. Len(q) + 1 \in DOMAIN Append(q, e) /\ Append(q, e)[Len(q) + 1] = e
    BY AppendFacts
  <2>2. QED
    BY <1>3, <2>1 DEF Has
<1>4. QED
  BY <1>1, <1>2, <1>3

\* What is sent into a queue with room is there.
LEMMA SentFacts ==
  ASSUME NEW q \in Seq(EventType), NEW id \in Events, NEW ids
  PROVE  /\ Has(q, ids) => Has(Sent(q, Ev(id)), ids)
         /\ Len(q) < QueueLength /\ id \in ids => Has(Sent(q, Ev(id)), ids)
<1>1. Ev(id) \in EventType /\ Ev(id).id = id
  BY DEF Ev, EventType
<1>2. QED
  BY <1>1, HasFacts DEF Sent

\* Steps of the outside leave what there is in the queue.
LEMMA OutsideHas ==
  ASSUME QueueTypes, JobTypes, TimerExpires \/ ServiceStep, NEW ids, Has(queue, ids)
  PROVE  Has(queue', ids)
<1>1. CASE TimerExpires
  <2>1. Ev("RequestTimer") \in EventType
    BY Names DEF Ev, EventType
  <2>2. QED
    BY <1>1, <2>1, HasFacts DEF TimerExpires, QueueTypes
<1>2. ASSUME NEW id \in Carriers, NEW job, NEW block, Arrives(id, job, block) PROVE Has(queue', ids)
  <2>1. \A b \in Unused : [id |-> id, buf |-> b] \in EventType
    BY Names DEF Unused, EventType, Carriers
  <2>2. \A b \in Unused : Has(Append(queue, [id |-> id, buf |-> b]), ids)
    BY <2>1, HasFacts DEF QueueTypes
  <2>3. QED
    BY <1>2, <2>2 DEF Arrives
<1>3. ASSUME NEW p \in net, BlockArrives(p) PROVE Has(queue', ids)
  BY <1>2, <1>3 DEF BlockArrives, Carriers
<1>4. ASSUME NEW m \in answers, NEW again \in BOOLEAN, DocumentArrives(m, again)
      PROVE Has(queue', ids)
  BY <1>2, <1>4 DEF DocumentArrives, Carriers
<1>5. CASE JobCancelled
  BY <1>5 DEF JobCancelled
<1>6. QED
  BY <1>1, <1>3, <1>4, <1>5 DEF ServiceStep

\* They leave the agent awake.
LEMMA OutsideAwake ==
  ASSUME QueueTypes, AgentTypes, JobTypes, Control, HasRoom, Awake, TimerExpires \/ ServiceStep
  PROVE  Awake'
<1>1. UNCHANGED <<doing, state, remaining>>
  BY DEF TimerExpires, ServiceStep, BlockArrives, DocumentArrives, JobCancelled, agent, file
<1>2. \A ids : Has(queue, ids) => Has(queue', ids)
  BY OutsideHas
<1>3. CASE ServiceStep
  <2>1. timer' = timer
    BY <1>3 DEF ServiceStep, BlockArrives, DocumentArrives, JobCancelled
  <2>2. QED
    BY <1>1, <1>2, <2>1 DEF Awake
<1>4. CASE TimerExpires
  <2>1. state \in {"RequestingJob", "CreatingFile", "RequestingFileBlock", "WaitingForFileBlock"} =>
          \A ids : "RequestTimer" \in ids => Has(queue', ids)
    <3>1. Ev("RequestTimer") \in EventType /\ Ev("RequestTimer").id = "RequestTimer"
      BY Names DEF Ev, EventType
    <3>2. state \notin {"Stopped", "Reset"} => queue' = Append(queue, Ev("RequestTimer"))
      BY <1>4 DEF TimerExpires, Accepts, HasRoom
    <3>3. \A ids : "RequestTimer" \in ids => Has(Append(queue, Ev("RequestTimer")), ids)
      <4>1. queue \in Seq(EventType)
        BY DEF QueueTypes
      <4>2. ASSUME NEW ids, "RequestTimer" \in ids PROVE Has(Append(queue, Ev("RequestTimer")), ids)
        BY <3>1, <4>1, <4>2, HasFacts
      <4>3. QED
        BY <4>2
    <3>4. QED
      BY <3>2, <3>3
  <2>2. timer
    BY <1>4 DEF TimerExpires
  <2>3. doing'.at = "idle" /\ state' \in Active => Has(queue', Wakes(state'))
    BY <1>1, <2>1, <2>2, WakesFacts DEF Active, Control, WaitInv, JobInv
  <2>4. doing'.at \in {"requestData", "progress"} => Has(queue', {"RequestTimer"})
    BY <1>1, <2>1 DEF Control, WaitInv
  <2>5. QED
    BY <1>1, <1>2, <2>3, <2>4 DEF Awake
<1>5. QED
  BY <1>3, <1>4

\* What follows when the broker cannot be reached wakes the agent in any state.
LEMMA RetryWakes ==
  ASSUME QueueTypes, HasRoom, RetryOrShutdown
  PROVE  /\ timer' \/ \A s : Has(queue', Wakes(s))
         /\ \A ids : Has(queue, ids) => Has(queue', ids)
<1>1. "Shutdown" \in Events /\ queue \in Seq(EventType) /\ Len(queue) < QueueLength
  BY Names DEF QueueTypes, HasRoom
<1>2. /\ \A s : Has(Sent(queue, Ev("Shutdown")), Wakes(s))
      /\ \A ids : Has(queue, ids) => Has(Sent(queue, Ev("Shutdown")), ids)
  BY <1>1, SentFacts, WakesFacts
<1>3. timer' \/ queue' = Sent(queue, Ev("Shutdown"))
  BY Zenon DEF RetryOrShutdown
<1>4. queue' = queue \/ queue' = Sent(queue, Ev("Shutdown"))
  BY DEF RetryOrShutdown
<1>5. QED
  BY <1>2, <1>3, <1>4

\* The agent falls asleep only when something will wake it.
LEMMA DocumentsAwake ==
  ASSUME QueueTypes, AgentTypes, JobTypes, BufferInv, Control, HasRoom, Awake,
         \/ StartHandler \/ RequestJob \/ ProcessNoJob \/ ContinueJob \/ ReplaceJob
         \/ \E ok \in BOOLEAN : \/ RequestJobDone(ok) \/ ProcessJob(ok) \/ ReplaceJobDone(ok)
                                \/ RefuseDone(ok)
  PROVE  Awake'
<1> USE DEF Awake, Active, outside, file, agent
<1>q. queue \in Seq(EventType) /\ Len(queue) < QueueLength
  BY DEF QueueTypes, HasRoom
<1>h. ASSUME NEW ids, Receives(ids)
      PROVE  /\ queue # <<>> /\ doing.at = "idle" /\ Head(queue).id \in ids
             /\ Tail(queue) \in Seq(EventType) /\ Len(Tail(queue)) < QueueLength
  BY <1>h, <1>q, HeadFacts, TailFacts, WaitTypes DEF BufferInv
<1>n. {"RequestJobDocument", "CreateFile", "Shutdown"} \subseteq Events
  BY Names
<1>i. NumBlocks > 0 /\ Idle.at = "idle" /\ \A s, b : Waiting(s, b).at = s
  BY DEF Idle, Waiting
<1>1. CASE StartHandler
  <2>1. queue' = Sent(Tail(queue), Ev("RequestJobDocument")) /\ state' = "RequestingJob" /\ doing' = doing
    BY <1>1 DEF StartHandler
  <2>2. Receives({"Start"})
    BY <1>1 DEF StartHandler, Handles
  <2>3. doing.at = "idle" /\ Has(queue', Wakes("RequestingJob"))
    BY <1>h, <1>n, <2>1, <2>2, SentFacts, WakesFacts
  <2>4. QED
    BY <2>1, <2>3
<1>2. CASE RequestJob
  <2>1. /\ doing.at = "idle" /\ queue # <<>> /\ Head(queue).id \in {"RequestJobDocument", "RequestTimer"}
    BY <1>2, <1>h DEF RequestJob, Handles
  <2>2. Has(queue, {"CloseFile"}) => Has(Tail(queue), {"CloseFile"})
    BY <1>q, <2>1, HasFacts
  <2>3. /\ queue' = Tail(queue) /\ doing'.at = "requestJob" /\ UNCHANGED <<state, timer, remaining>>
    BY <1>2, <1>i DEF RequestJob
  <2>4. QED
    BY <2>1, <2>2, <2>3
<1>3. ASSUME NEW ok \in BOOLEAN, RequestJobDone(ok) PROVE Awake'
  <2>1. doing.at = "requestJob" /\ doing'.at = "idle" /\ remaining' = remaining
    BY <1>3, <1>i DEF RequestJobDone, Ends
  <2>2. CASE ok
    BY <1>3, <2>1, <2>2 DEF RequestJobDone
  <2>3. CASE ~ok
    <3>1. state' = state /\ RetryOrShutdown
      BY <1>3, <2>3 DEF RequestJobDone
    <3>2. /\ timer' \/ \A s : Has(queue', Wakes(s))
          /\ \A ids : Has(queue, ids) => Has(queue', ids)
      BY <3>1, RetryWakes
    <3>3. QED
      BY <2>1, <3>1, <3>2
  <2>4. QED
    BY <2>2, <2>3
<1>4. ASSUME state' = "WaitingForJob", doing'.at \notin {"requestData", "progress"} PROVE Awake'
  BY <1>4
<1>5. CASE ProcessNoJob
  BY <1>4, <1>5, <1>h DEF ProcessNoJob, Handles
<1>6. ASSUME NEW j, NEW b, NEW ok \in BOOLEAN, NEW q \in Seq(EventType), Len(q) < QueueLength,
             Begin(j, b, ok, q), state = "WaitingForJob"
      PROVE  Awake'
  <2>1. CASE ok
    <3>1. /\ queue' = Sent(q, Ev("CreateFile")) /\ state' = "CreatingFile" /\ doing'.at = "idle"
      BY <1>6, <1>i, <2>1 DEF Begin
    <3>2. Has(queue', Wakes("CreatingFile"))
      BY <1>6, <1>n, <3>1, SentFacts, WakesFacts
    <3>3. QED
      BY <3>1, <3>2
  <2>2. CASE ~ok
    BY <1>4, <1>6, <1>i, <2>2 DEF Begin
  <2>3. QED
    BY <2>1, <2>2
<1>7. ASSUME NEW ok \in BOOLEAN, ProcessJob(ok) PROVE Awake'
  <2>1. /\ state = "WaitingForJob" /\ Receives({"ReceivedJobDocument"})
        /\ Begin(data[Buffer].job, Buffer, ok, Tail(queue))
    BY <1>7 DEF ProcessJob, TakesJob, Handles
  <2>2. QED
    BY <1>h, <1>6, <2>1
<1>8. CASE ContinueJob
  <2>1. /\ Receives({"ReceivedJobDocument"}) /\ state' = "CreatingFile" /\ doing' = doing
        /\ queue' = Sent(Tail(queue), Ev("CreateFile"))
    BY <1>8 DEF ContinueJob, TakesJob, Handles
  <2>2. doing.at = "idle" /\ Has(queue', Wakes("CreatingFile"))
    BY <1>h, <1>n, <2>1, SentFacts, WakesFacts
  <2>3. QED
    BY <2>1, <2>2
<1>9. CASE ReplaceJob
  BY <1>4, <1>9, <1>i DEF ReplaceJob, TakesJob, Handles
<1>10. ASSUME NEW ok \in BOOLEAN, ReplaceJobDone(ok) PROVE Awake'
  <2>1. state = "WaitingForJob" /\ Begin(ctx, doing.buf, ok, queue)
    BY <1>10 DEF ReplaceJobDone, Control, WaitInv
  <2>2. QED
    BY <1>q, <1>6, <2>1
<1>11. ASSUME NEW ok \in BOOLEAN, RefuseDone(ok) PROVE Awake'
  BY <1>4, <1>11, <1>i DEF RefuseDone, Ends, Control, WaitInv
<1>12. QED
  BY <1>1, <1>2, <1>3, <1>5, <1>7, <1>8, <1>9, <1>10, <1>11

\* The same for the handlers that ask for blocks and that give up.
LEMMA RequestsAwake ==
  ASSUME QueueTypes, AgentTypes, JobTypes, BufferInv, Control, HasRoom, Awake,
         \/ InitFile \/ RequestData \/ NothingToRequest \/ GiveUp \/ Shutdown \/ ShutdownDone
         \/ UnexpectedEvent
         \/ \E ok \in BOOLEAN : InitFileDone(ok) \/ RequestDataDone(ok) \/ GiveUpDone(ok)
  PROVE  Awake'
<1> USE DEF Awake, Active, outside, file, agent
<1>q. queue \in Seq(EventType) /\ Len(queue) < QueueLength
  BY DEF QueueTypes, HasRoom
<1>h. ASSUME NEW ids, Receives(ids)
      PROVE  /\ queue # <<>> /\ doing.at = "idle" /\ Head(queue).id \in ids \cap Events
             /\ Tail(queue) \in Seq(EventType) /\ Len(Tail(queue)) < QueueLength
             /\ \A w : Has(queue, w) /\ Head(queue).id \notin w => Has(Tail(queue), w)
  BY <1>h, <1>q, HeadFacts, TailFacts, HasFacts, WaitTypes DEF BufferInv
<1>n. {"RequestFileBlock", "Shutdown"} \subseteq Events
  BY Names
<1>i. Idle.at = "idle" /\ \A s, b : Waiting(s, b).at = s
  BY DEF Idle, Waiting
<1>1. CASE InitFile
  BY <1>1, <1>i DEF InitFile, Handles
<1>2. ASSUME NEW ok \in BOOLEAN, InitFileDone(ok) PROVE Awake'
  <2>1. doing.at = "initFile" /\ state = "CreatingFile" /\ doing'.at = "idle" /\ remaining' = remaining
    BY <1>2, <1>i DEF InitFileDone, Ends, Control, WaitInv
  <2>2. CASE ok
    <3>1. state' = "RequestingFileBlock" /\ queue' = Sent(queue, Ev("RequestFileBlock"))
      BY <1>2, <2>2 DEF InitFileDone
    <3>2. Has(queue', Wakes("RequestingFileBlock"))
      BY <1>q, <1>n, <3>1, SentFacts, WakesFacts
    <3>3. QED
      BY <2>1, <3>1, <3>2
  <2>3. CASE ~ok
    <3>1. state' = state /\ RetryOrShutdown
      BY <1>2, <2>3 DEF InitFileDone
    <3>2. timer' \/ \A s : Has(queue', Wakes(s))
      BY <3>1, RetryWakes
    <3>3. QED
      BY <2>1, <3>1, <3>2
  <2>4. QED
    BY <2>2, <2>3
<1>d. ASSUME DataIsDue
      PROVE  /\ doing.at = "idle" /\ state \in {"RequestingFileBlock", "WaitingForFileBlock"}
             /\ Tail(queue) \in Seq(EventType) /\ Len(Tail(queue)) < QueueLength
             /\ Has(queue, {"CloseFile"}) => Has(Tail(queue), {"CloseFile"})
  <2>1. /\ Receives({"RequestFileBlock", "RequestTimer"})
        /\ state \in {"RequestingFileBlock", "WaitingForFileBlock"}
    BY <1>d DEF DataIsDue, Handles
  <2>2. QED
    BY <1>h, <2>1
<1>3. CASE RequestData
  <2>1. /\ doing'.at = "requestData" /\ remaining > 0 /\ remaining' = remaining
    BY <1>3, <1>i DEF RequestData
  <2>2. timer'
    BY <1>3 DEF RequestData
  <2>3. QED
    BY <2>1, <2>2
<1>4. ASSUME NEW ok \in BOOLEAN, RequestDataDone(ok) PROVE Awake'
  <2>1. /\ doing.at = "requestData" /\ doing'.at = "idle" /\ UNCHANGED <<queue, timer, remaining>>
        /\ state \in {"RequestingFileBlock", "WaitingForFileBlock"}
        /\ state' \in {state, "WaitingForFileBlock"}
    BY <1>4, <1>i DEF RequestDataDone, Ends, Control, WaitInv
  <2>2. Has(queue, {"RequestTimer"}) =>
          Has(queue, Wakes("RequestingFileBlock")) /\ Has(queue, Wakes("WaitingForFileBlock"))
    BY WakesFacts DEF Has
  <2>3. state' = "WaitingForFileBlock" /\ remaining' = 0 => Has(queue', {"CloseFile"})
    BY <2>1 DEF Control, JobInv
  <2>4. QED
    BY <2>1, <2>2, <2>3
<1>5. CASE NothingToRequest
  <2>1. /\ DataIsDue /\ remaining = 0 /\ queue' = Tail(queue)
        /\ state' = "WaitingForFileBlock" /\ UNCHANGED <<doing, remaining>>
    BY <1>5 DEF NothingToRequest
  <2>2. Has(Tail(queue), {"CloseFile"})
    BY <1>d, <2>1 DEF Control, JobInv
  <2>3. Has(Tail(queue), Wakes("WaitingForFileBlock"))
    BY <2>2, WakesFacts DEF Has
  <2>4. QED
    BY <1>d, <2>1, <2>2, <2>3
<1>6. CASE GiveUp
  <2>1. DataIsDue /\ remaining > 0 /\ UNCHANGED <<state, remaining>>
    BY <1>6 DEF GiveUp
  <2>2. CASE active # NoJob
    BY <1>6, <1>i, <2>1, <2>2 DEF GiveUp
  <2>3. CASE active = NoJob
    <3>1. queue' = Sent(Tail(queue), Ev("Shutdown")) /\ doing' = doing
      BY <1>6, <2>3 DEF GiveUp
    <3>2. \A s : Has(queue', Wakes(s))
      BY <1>d, <1>n, <2>1, <3>1, SentFacts, WakesFacts
    <3>3. QED
      BY <1>d, <2>1, <3>1, <3>2
  <2>4. QED
    BY <2>2, <2>3
<1>7. ASSUME NEW ok \in BOOLEAN, GiveUpDone(ok) PROVE Awake'
  <2>1. /\ queue' = Sent(queue, Ev("Shutdown")) /\ UNCHANGED <<state, remaining>>
        /\ doing.at = "giveUp" /\ doing'.at = "idle"
    BY <1>7, <1>i DEF GiveUpDone, Ends
  <2>2. \A s : Has(queue', Wakes(s))
    BY <1>q, <1>n, <2>1, SentFacts, WakesFacts
  <2>3. Has(queue, {"CloseFile"}) => Has(queue', {"CloseFile"})
    BY <1>q, <1>n, <2>1, SentFacts
  <2>4. QED
    BY <2>1, <2>2, <2>3
<1>8. CASE Shutdown
  BY <1>8, <1>i DEF Shutdown
<1>9. CASE ShutdownDone
  BY <1>9, <1>i DEF ShutdownDone, Ends
<1>10. CASE UnexpectedEvent
  <2>1. /\ Receives(Events \ {"Shutdown"}) /\ <<state, Head(queue).id>> \notin Table
        /\ queue' = Tail(queue) /\ UNCHANGED <<doing, state, timer, remaining>>
    BY <1>10 DEF UnexpectedEvent
  <2>2. Head(queue).id \notin Wakes(state)
    BY <1>h, <2>1 DEF Wakes
  <2>3. state = "WaitingForFileBlock" => Head(queue).id # "CloseFile"
    BY <2>2, WakesFacts
  <2>4. /\ Has(queue, Wakes(state)) => Has(queue', Wakes(state'))
        /\ state = "WaitingForFileBlock" /\ Has(queue, {"CloseFile"}) => Has(queue', {"CloseFile"})
    BY <1>h, <2>1, <2>2, <2>3
  <2>5. doing.at = "idle"
    BY <1>h, <2>1
  <2>6. QED
    BY <2>1, <2>4, <2>5
<1>11. QED
  BY <1>1, <1>2, <1>3, <1>4, <1>5, <1>6, <1>7, <1>8, <1>9, <1>10

\* The same for the handlers of blocks, of the end of a file and of notices.
LEMMA BlocksAwake ==
  ASSUME QueueTypes, AgentTypes, JobTypes, BufferInv, Control, HasRoom, Awake,
         \/ RefuseBlock \/ DuplicateBlock \/ FirstBlock \/ ProgressDone \/ NextBlock
         \/ CloseFile \/ CloseFileDone \/ JobNotification \/ JobNotificationDone
         \/ \E ok \in BOOLEAN : LastBlock(ok) \/ FinalDone(ok)
  PROVE  Awake'
<1> USE DEF Awake, Active, outside, file, agent
<1>q. queue \in Seq(EventType) /\ Len(queue) < QueueLength /\ remaining \in Nat
  BY DEF QueueTypes, HasRoom, JobTypes
<1>n. {"RequestFileBlock", "RequestJobDocument", "CloseFile"} \subseteq Events
  BY Names
<1>i. Idle.at = "idle" /\ \A s, b : Waiting(s, b).at = s
  BY DEF Idle, Waiting
<1>t. ASSUME TakesBlock PROVE doing.at = "idle" /\ state = "WaitingForFileBlock"
  <2>1. Receives({"ReceivedFileBlock"}) /\ state = "WaitingForFileBlock"
    BY <1>t DEF TakesBlock, Handles
  <2>2. QED
    BY <2>1, <1>i DEF Receives
<1>1. CASE RefuseBlock
  BY <1>1, <1>i DEF RefuseBlock, Reject
<1>2. CASE DuplicateBlock
  <2>1. timer' /\ remaining > 0
    BY <1>2 DEF DuplicateBlock, ExpectsBlock
  <2>2. UNCHANGED <<state, doing, remaining>> /\ TakesBlock
    BY <1>2 DEF DuplicateBlock
  <2>3. QED
    BY <1>t, <2>1, <2>2
<1>3. CASE FirstBlock
  <2>1. doing'.at = "progress" /\ remaining' = remaining - 1 /\ remaining = NumBlocks /\ NumBlocks > 1
    BY <1>3, <1>i DEF FirstBlock, WritesBlock
  <2>2. timer'
    BY <1>3 DEF FirstBlock
  <2>3. remaining' # 0
    BY <1>q, <2>1
  <2>4. QED
    BY <2>1, <2>2, <2>3
<1>4. CASE ProgressDone
  <2>1. /\ doing.at = "progress" /\ doing'.at = "idle" /\ UNCHANGED <<state, remaining>>
        /\ state = "WaitingForFileBlock" /\ remaining > 0
    BY <1>4, <1>i DEF ProgressDone, Ends, Control, WaitInv, JobInv
  <2>2. timer => timer'
    BY <1>4, Zenon DEF ProgressDone
  <2>3. Has(queue, {"RequestTimer"}) => Has(queue', {"RequestTimer"})
    <3>1. Has(queue, {"RequestTimer"}) => Has(Sent(queue, Ev("RequestFileBlock")), {"RequestTimer"})
      BY <1>q, <1>n, SentFacts
    <3>2. QED
      BY <1>4, <3>1 DEF ProgressDone, Continue
  <2>4. Has(queue', {"RequestTimer"}) => Has(queue', Wakes("WaitingForFileBlock"))
    BY WakesFacts DEF Has
  <2>5. QED
    BY <2>1, <2>2, <2>3, <2>4
<1>5. CASE NextBlock
  <2>1. /\ doing' = doing /\ remaining' = remaining - 1 /\ remaining \in 2 .. (NumBlocks - 1)
        /\ TakesBlock
    BY <1>5 DEF NextBlock, WritesBlock
  <2>2. timer'
    BY <1>5 DEF NextBlock
  <2>3. remaining' # 0
    BY <2>1
  <2>4. QED
    BY <1>t, <2>1, <2>2, <2>3
<1>6. ASSUME NEW valid \in BOOLEAN, LastBlock(valid) PROVE Awake'
  BY <1>6 DEF LastBlock
<1>7. ASSUME NEW told \in BOOLEAN, FinalDone(told) PROVE Awake'
  <2>1. /\ doing'.at = "idle" /\ state' \in {"Reset", state} /\ state = "WaitingForFileBlock"
        /\ queue' = Sent(queue, Ev("CloseFile"))
    BY <1>7, <1>i DEF FinalDone, Ends, Control, WaitInv
  <2>2. Has(queue', {"CloseFile"}) /\ Has(queue', Wakes("WaitingForFileBlock"))
    BY <1>q, <1>n, <2>1, SentFacts, WakesFacts
  <2>3. QED
    BY <2>1, <2>2
<1>8. CASE CloseFile \/ JobNotification
  BY <1>8, <1>i DEF CloseFile, JobNotification
<1>9. CASE CloseFileDone
  BY <1>9, <1>i DEF CloseFileDone, Ends
<1>10. CASE JobNotificationDone
  <2>1. /\ doing'.at = "idle" /\ state' = "RequestingJob" /\ queue' = Sent(queue, Ev("RequestJobDocument"))
    BY <1>10, <1>i DEF JobNotificationDone, Ends
  <2>2. Has(queue', Wakes("RequestingJob"))
    BY <1>q, <1>n, <2>1, SentFacts, WakesFacts
  <2>3. QED
    BY <2>1, <2>2
<1>11. QED
  BY <1>1, <1>2, <1>3, <1>4, <1>5, <1>6, <1>7, <1>8, <1>9, <1>10

\* The initial state.
LEMMA AwakeInit == Init => Awake
<1> SUFFICES ASSUME Init PROVE Awake
  OBVIOUS
<1>1. state = "Ready" /\ doing.at = "idle" /\ queue[1].id = "Start" /\ 1 \in DOMAIN queue
  BY WaitTypes DEF Init, Ev
<1>2. "Start" \in Wakes("Ready")
  BY Names DEF Wakes, Table
<1>3. QED
  BY <1>1, <1>2 DEF Awake, Has

\* One step keeps the agent awake.
LEMMA AwakeNext == Inv /\ HasRoom /\ Awake /\ [Next]_vars => Awake'
<1> SUFFICES ASSUME Inv, HasRoom, Awake, [Next]_vars PROVE Awake'
  OBVIOUS
<1>1. QueueTypes /\ AgentTypes /\ JobTypes /\ BufferInv /\ Control
  BY TypeParts DEF Inv
<1>2. CASE AgentStep
  <2>1. /\ Published \subseteq BOOLEAN /\ Outcome("create") \subseteq BOOLEAN
        /\ Outcome("subscribe") \subseteq BOOLEAN
    BY DEF Published, Outcome
  <2>2. QED
    BY <1>1, <1>2, <2>1, DocumentsAwake, RequestsAwake, BlocksAwake DEF AgentStep
<1>3. CASE TimerExpires \/ ServiceStep
  BY <1>1, <1>3, OutsideAwake
<1>4. CASE UNCHANGED vars
  BY <1>4 DEF vars, agent, file, Awake
<1>5. QED
  BY <1>2, <1>3, <1>4 DEF Next

\* As long as the queue has room, the agent never waits for an event while
\* neither its timer runs nor an event is queued that it acts on.
THEOREM AgentIsAwake == Spec => ([]HasRoom => []NeverStranded)
<1>1. Inv /\ Awake => NeverStranded
  <2> SUFFICES ASSUME Inv, Awake, doing = Idle, state \in Active, ~timer
               PROVE  \E i \in DOMAIN queue :
                        queue[i].id = "Shutdown" \/ <<state, queue[i].id>> \in Table
    BY Zenon DEF NeverStranded, Active
  <2>1. Has(queue, Wakes(state))
    BY WaitTypes DEF Awake
  <2>2. QED
    BY <2>1 DEF Has, Wakes
<1>2. QED
  BY InvInit, InvNext, AwakeInit, AwakeNext, <1>1, PTL DEF Spec
============
