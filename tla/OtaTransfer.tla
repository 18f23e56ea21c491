----------------------------- MODULE OtaTransfer -----------------------------
(***************************************************************************)
(* The transfer of an update: the OTA agent task, a state machine that     *)
(* takes one event at a time from its queue, and those who put events      *)
(* there - the MQTT callbacks, each with a buffer of the event pool, the   *)
(* request timer, and the handlers themselves.                             *)
(*                                                                         *)
(* A handler that publishes, subscribes or unsubscribes waits for the MQTT *)
(* agent, and events arrive meanwhile: it is two actions, the second named *)
(* ...Done.  The platform layer (OtaPal) is here only as far as a handler  *)
(* sees it; self-test jobs are left to that module.                        *)
(***************************************************************************)
EXTENDS Integers, Sequences, FiniteSets

CONSTANTS
  Jobs,         \* how many updates the job service has, one after the other
  NumBlocks,    \* blocks in the file of each
  Window,       \* otaconfigMAX_NUM_BLOCKS_REQUEST
  MaxMomentum,  \* otaconfigMAX_NUM_REQUEST_MOMENTUM
  QueueLength,  \* MAX_MESSAGES
  Faults        \* what may go wrong: a subset of FaultKinds

FaultKinds == {"create", "write", "publish", "subscribe", "activate"}
ASSUME TransferAssumption ==
  /\ Jobs \in Nat \ {0} /\ NumBlocks \in Nat \ {0} /\ Window \in Nat \ {0}
  /\ MaxMomentum \in Nat /\ QueueLength \in Nat \ {0}
  /\ Faults \subseteq FaultKinds

NoJob == 0
JobIds == 1 .. Jobs
Blocks == 1 .. NumBlocks
NoBuffer == 0
Buffers == 1 .. (Window + 1)  \* otaconfigMAX_NUM_OTA_DATA_BUFFERS

VARIABLES
  \* the OTA agent
  state, queue, timer,  \* OtaRequestTimer is running
  momentum,             \* requestMomentum
  expected,             \* numOfBlocksToReceive
  active,               \* pActiveJobName
  ctx,                  \* the job whose file fileContext describes
  missing, remaining,   \* pRxBlockBitmap, blocksRemaining
  opened,               \* pFile # NULL
  doing,                \* the handler that waits, its buffer, and whether the file is complete
  \* the application and the platform layer
  used, data,           \* the event buffers: bufferUsed, and what each holds
  streams,              \* jobs whose data stream has a callback
  pal,                  \* the update image: closed, open or verified
  \* the job and streaming services
  serving,              \* the job the service would return now
  answers,              \* documents on their way
  net,                  \* blocks on their way
  \* history: the blocks written into the open file, and the buffers of
  \* events whose handler did not give them back
  written, leaked

file == <<ctx, missing, remaining, opened, pal, written>>
agent == <<state, momentum, expected, active, doing>>
buffers == <<used, data, leaked>>
outside == <<serving, answers, net>>
vars == <<agent, queue, timer, file, buffers, streams, outside>>

Nothing == [job |-> NoJob, block |-> 0]
Document(j, notice) == [job |-> j, notice |-> notice]
Ev(id) == [id |-> id, buf |-> NoBuffer]
Idle == [at |-> "idle", buf |-> NoBuffer, complete |-> FALSE]
Waiting(step, b) == [at |-> step, buf |-> b, complete |-> FALSE]
After(j) == IF j \in 1 .. (Jobs - 1) THEN j + 1 ELSE NoJob

\* vOTAUpdateTask has created the pool, the agent and its task, and has
\* signalled the start.
Init ==
  /\ state = "Ready" /\ queue = <<Ev("Start")>> /\ timer = FALSE
  /\ momentum = 0 /\ expected = 0 /\ active = NoJob
  /\ ctx = NoJob /\ missing = {} /\ remaining = 0 /\ opened = FALSE
  /\ doing = Idle
  /\ used = {} /\ data = [b \in Buffers |-> Nothing]
  /\ streams = {} /\ pal = "closed"
  /\ serving = 1 /\ answers = {} /\ net = {}
  /\ written = {} /\ leaked = {}

\* otaTransitionTable, without the rows of events nobody sends here (suspend,
\* resume, user abort) and of the self-test.
Table == {
  <<"Ready", "Start">>,
  <<"RequestingJob", "RequestJobDocument">>, <<"RequestingJob", "RequestTimer">>,
  <<"WaitingForJob", "ReceivedJobDocument">>,
  <<"CreatingFile", "CreateFile">>, <<"CreatingFile", "RequestTimer">>,
  <<"RequestingFileBlock", "RequestFileBlock">>, <<"RequestingFileBlock", "RequestTimer">>,
  <<"WaitingForFileBlock", "ReceivedFileBlock">>, <<"WaitingForFileBlock", "RequestTimer">>,
  <<"WaitingForFileBlock", "RequestFileBlock">>, <<"WaitingForFileBlock", "RequestJobDocument">>,
  <<"WaitingForFileBlock", "ReceivedJobDocument">>, <<"WaitingForFileBlock", "CloseFile">> }
States == {e[1] : e \in Table} \cup {"ShuttingDown", "Stopped", "Reset"}
Events == {e[2] : e \in Table} \cup {"Shutdown"}

\* OTA_SignalEvent: nothing is queued once the agent has stopped, or when
\* the queue is full.
Sent(q, e) == IF Len(q) < QueueLength THEN Append(q, e) ELSE q
Accepts(q) == state \notin {"Stopped", "Reset"} /\ Len(q) < QueueLength

\* receiveAndProcessOtaEvent, searchTransition
Receives(ids) ==
  /\ doing = Idle /\ state \notin {"Stopped", "Reset"}
  /\ queue # <<>> /\ Head(queue).id \in ids
Handles(s, ids) == state = s /\ Receives(ids) /\ <<s, Head(queue).id>> \in Table
Buffer == Head(queue).buf

Ends(step) == doing.at = step /\ doing' = Idle
Outcome(fault) == {TRUE} \cup (IF fault \in Faults THEN {FALSE} ELSE {})

\* OtaJobEventProcessed: otaAppCallback frees the buffer, whose content no
\* longer matters.
Free(b) ==
  /\ used' = used \ {b}
  /\ data' = IF b \in Buffers THEN [data EXCEPT ![b] = Nothing] ELSE data
  /\ UNCHANGED leaked

\* The service learns that the active job has ended, and announces the next.
JobEnds(told) ==
  LET ended == told /\ active # NoJob /\ serving = active
  IN  /\ serving' = IF ended THEN After(serving) ELSE serving
      /\ answers' = IF ended THEN answers \cup {Document(After(serving), TRUE)} ELSE answers

-----------------------------------------------------------------------------
(* Jobs.                                                                   *)

StartHandler ==
  /\ Handles("Ready", {"Start"})
  /\ queue' = Sent(Tail(queue), Ev("RequestJobDocument"))
  /\ state' = "RequestingJob"
  /\ UNCHANGED <<timer, momentum, expected, active, doing, file, buffers, streams, outside>>

\* requestJobHandler: subscribe to the notifications and publish the request.
RequestJob ==
  /\ \/ Handles("RequestingJob", {"RequestJobDocument", "RequestTimer"})
     \/ Handles("WaitingForFileBlock", {"RequestJobDocument"})
  /\ queue' = Tail(queue)
  /\ doing' = Waiting("requestJob", NoBuffer)
  /\ UNCHANGED <<state, timer, momentum, expected, active, file, buffers, streams, outside>>

\* Faulty variant of RetryOrShutdown: the timer is not started.
RetryWithoutTimer ==
  IF momentum < MaxMomentum
  THEN timer' = FALSE /\ momentum' = momentum + 1 /\ UNCHANGED queue
  ELSE timer' = FALSE /\ queue' = Sent(queue, Ev("Shutdown")) /\ UNCHANGED momentum

\* What follows a failure to reach the broker: the timer, or too much
\* momentum and the end of the agent.
RetryOrShutdown ==
  IF momentum < MaxMomentum
  THEN timer' = TRUE /\ momentum' = momentum + 1 /\ UNCHANGED queue
  ELSE timer' = FALSE /\ queue' = Sent(queue, Ev("Shutdown")) /\ UNCHANGED momentum

\* A request that was reported lost may still have been sent.
RequestJobDone(ok) ==
  /\ Ends("requestJob")
  /\ IF ok
     THEN timer' = FALSE /\ momentum' = 0 /\ state' = "WaitingForJob" /\ UNCHANGED queue
     ELSE RetryOrShutdown /\ UNCHANGED state
  /\ answers' \in {answers \cup {Document(serving, FALSE)}} \cup (IF ok THEN {} ELSE {answers})
  /\ UNCHANGED <<expected, active, file, buffers, streams, serving, net>>

\* processJobHandler with a document that holds no job.
ProcessNoJob ==
  /\ Handles("WaitingForJob", {"ReceivedJobDocument"})
  /\ data[Buffer].job = NoJob
  /\ queue' = Tail(queue)
  /\ Free(Buffer)
  /\ UNCHANGED <<agent, timer, file, streams, outside>>

\* processJobHandler with a job.
TakesJob ==
  /\ Handles("WaitingForJob", {"ReceivedJobDocument"})
  /\ data[Buffer].job # NoJob

\* getFileContextFromJob: the context is filled and the file created.  Where
\* it cannot be created the job is aborted (setImageStateWithReason).
Begin(j, b, created, q) ==
  /\ active' = j /\ ctx' = j
  /\ missing' = Blocks /\ remaining' = NumBlocks /\ written' = {}
  /\ IF created
     THEN /\ pal' = "open" /\ opened' = TRUE
          /\ state' = "CreatingFile"
          /\ queue' = Sent(q, Ev("CreateFile"))
          /\ Free(b) /\ doing' = Idle
     ELSE /\ doing' = Waiting("refuse", b)
          /\ queue' = q
          /\ UNCHANGED <<state, pal, opened, buffers>>
  /\ UNCHANGED <<timer, momentum, expected, serving, answers>>

ProcessJob(created) ==
  /\ TakesJob /\ active = NoJob
  /\ Begin(data[Buffer].job, Buffer, created, Tail(queue))
  /\ UNCHANGED <<streams, net>>

\* verifyActiveJobStatus: a stale event may have brought the agent here with
\* its job still active.  News of that job leaves the context as it is.
ContinueJob ==
  /\ TakesJob /\ active = data[Buffer].job
  /\ state' = "CreatingFile"
  /\ queue' = Sent(Tail(queue), Ev("CreateFile"))
  /\ Free(Buffer)
  /\ UNCHANGED <<timer, momentum, expected, active, doing, file, streams, outside>>

\* cleanupData_Mqtt: prvMQTTUnsubscribe removes the callback whatever the broker
\* answers; blocks that are on their way find nobody.
Unsubscribe ==
  /\ streams' = streams \ {ctx}
  /\ net' = {p \in net : p[1] # ctx}

\* Another job takes its place.  The context has the new job's stream when
\* the old one is to be unsubscribed.
ReplaceJob ==
  /\ TakesJob /\ active \notin {NoJob, data[Buffer].job}
  /\ ctx' = data[Buffer].job
  /\ pal' = "closed" /\ opened' = FALSE
  /\ queue' = Tail(queue)
  /\ doing' = Waiting("replace", Buffer)
  /\ UNCHANGED <<state, timer, momentum, expected, active, missing, remaining, written,
                 buffers, streams, outside>>

ReplaceJobDone(created) ==
  /\ doing.at = "replace"
  /\ Begin(ctx, doing.buf, created, queue)
  /\ Unsubscribe

\* otaClose: the platform layer aborts the file if there is one, and the bitmap
\* is cleared.
Close ==
  /\ Unsubscribe
  /\ opened' = FALSE /\ pal' = "closed" /\ missing' = {} /\ written' = {}
  /\ UNCHANGED <<ctx, remaining>>

RefuseDone(told) ==
  /\ Ends("refuse")
  /\ JobEnds(told)
  /\ active' = NoJob
  /\ Close
  /\ Free(doing.buf)
  /\ UNCHANGED <<state, queue, timer, momentum, expected>>

\* initFileHandler: subscribe to the data stream.
InitFile ==
  /\ Handles("CreatingFile", {"CreateFile", "RequestTimer"})
  /\ queue' = Tail(queue)
  /\ doing' = Waiting("initFile", NoBuffer)
  /\ UNCHANGED <<state, timer, momentum, expected, active, file, buffers, streams, outside>>

InitFileDone(ok) ==
  /\ Ends("initFile")
  /\ IF ok
     THEN /\ momentum' = 0 /\ state' = "RequestingFileBlock"
          /\ queue' = Sent(queue, Ev("RequestFileBlock"))
          /\ UNCHANGED timer
     ELSE RetryOrShutdown /\ UNCHANGED state
  /\ streams' \in {streams \cup {ctx}} \cup (IF ok THEN {} ELSE {streams})
  /\ UNCHANGED <<expected, active, file, buffers, outside>>

-----------------------------------------------------------------------------
(* Blocks.                                                                 *)

\* requestDataHandler is called.
DataIsDue ==
  \E s \in {"RequestingFileBlock", "WaitingForFileBlock"} :
    Handles(s, {"RequestFileBlock", "RequestTimer"})

\* requestDataHandler: a request, unless too many were not answered; then
\* the image is aborted, the service told, and the agent shut down.
RequestData ==
  /\ DataIsDue
  /\ remaining > 0 /\ momentum < MaxMomentum
  /\ timer' = TRUE /\ expected' = Window
  /\ queue' = Tail(queue)
  /\ doing' = Waiting("requestData", NoBuffer)
  /\ UNCHANGED <<state, momentum, active, file, buffers, streams, outside>>

\* The first blocks that the bitmap says are missing (requestFileBlock_Mqtt).
Requested == {i \in missing : Cardinality({k \in missing : k < i}) < Window}

\* Faulty variant of RequestDataDone: a request that was sent is not counted.
RequestDataDoneUncounted(ok) ==
  /\ Ends("requestData")
  /\ momentum' = IF ok THEN momentum ELSE momentum + 1
  /\ state' = IF ok THEN "WaitingForFileBlock" ELSE state
  /\ net' \in {net \cup ({ctx} \X Requested)} \cup (IF ok THEN {} ELSE {net})
  /\ UNCHANGED <<queue, timer, expected, active, file, buffers, streams, serving, answers>>

RequestDataDone(ok) ==
  /\ Ends("requestData")
  /\ momentum' = momentum + 1
  /\ state' = IF ok THEN "WaitingForFileBlock" ELSE state
  /\ net' \in {net \cup ({ctx} \X Requested)} \cup (IF ok THEN {} ELSE {net})
  /\ UNCHANGED <<queue, timer, expected, active, file, buffers, streams, serving, answers>>

NothingToRequest ==
  /\ DataIsDue
  /\ remaining = 0
  /\ queue' = Tail(queue)
  /\ state' = "WaitingForFileBlock"
  /\ UNCHANGED <<timer, momentum, expected, active, doing, file, buffers, streams, outside>>

\* Without an active job nothing is published, and nothing waited for.
GiveUp ==
  /\ DataIsDue
  /\ remaining > 0 /\ momentum >= MaxMomentum
  /\ timer' = FALSE /\ pal' = "closed"
  /\ IF active # NoJob
     THEN /\ queue' = Tail(queue) /\ doing' = Waiting("giveUp", NoBuffer)
          /\ UNCHANGED momentum
     ELSE /\ queue' = Sent(Tail(queue), Ev("Shutdown")) /\ momentum' = 0
          /\ UNCHANGED doing
  /\ UNCHANGED <<state, expected, active, ctx, missing, remaining, opened, written,
                 buffers, streams, outside>>

GiveUpDone(told) ==
  /\ Ends("giveUp")
  /\ JobEnds(told)
  /\ active' = NoJob /\ momentum' = 0
  /\ queue' = Sent(queue, Ev("Shutdown"))
  /\ UNCHANGED <<state, timer, expected, file, buffers, streams, net>>

\* processDataHandler takes a block.
TakesBlock == Handles("WaitingForFileBlock", {"ReceivedFileBlock"})
Block == data[Buffer].block

\* decodeAndStoreDataBlock restarts the timer while blocks are missing.
ExpectsBlock == remaining > 0 /\ timer' = TRUE

\* The platform layer rejects the image; the job has failed.
Reject == pal' = "closed" /\ doing' = Waiting("final", Buffer)

\* A block after the last one, without an open file, or that cannot be written.
RefuseBlock ==
  /\ TakesBlock
  /\ \/ remaining = 0 /\ UNCHANGED timer
     \/ ExpectsBlock /\ ~opened
     \/ ExpectsBlock /\ opened /\ Block \in missing /\ (pal # "open" \/ "write" \in Faults)
  /\ queue' = Tail(queue)
  /\ Reject
  /\ UNCHANGED <<state, momentum, expected, active, ctx, missing, remaining, opened, written,
                 buffers, streams, outside>>

DuplicateBlock ==
  /\ TakesBlock
  /\ ExpectsBlock /\ opened /\ Block \notin missing
  /\ queue' = Tail(queue)
  /\ Free(Buffer)
  /\ UNCHANGED <<agent, file, streams, outside>>

\* Faulty variant of WritesBlock: the bitmap is not looked at.
WritesAnyBlock ==
  /\ TakesBlock
  /\ remaining > 0 /\ opened /\ pal = "open"
  /\ missing' = missing \ {Block} /\ remaining' = remaining - 1
  /\ written' = written \cup {<<data[Buffer].job, Block>>}
  /\ UNCHANGED ctx

\* processDataBlock writes the block and marks it in the bitmap.  The file id
\* in the block is decoded and not compared.
WritesBlock ==
  /\ TakesBlock
  /\ remaining > 0 /\ opened /\ Block \in missing /\ pal = "open"
  /\ missing' = missing \ {Block} /\ remaining' = remaining - 1
  /\ written' = written \cup {<<data[Buffer].job, Block>>}
  /\ UNCHANGED ctx

\* IngestResultAccepted_Continue: the handler asks for more once all the
\* blocks it asked for have come; q is the queue it signals that to.
Continue(q) ==
  IF expected > 1
  THEN expected' = expected - 1 /\ queue' = q
  ELSE queue' = Sent(q, Ev("RequestFileBlock")) /\ UNCHANGED expected

\* The first block of a file is reported to the service, which takes a wait
\* (otaconfigOTA_UPDATE_STATUS_FREQUENCY is more than the files here have).
FirstBlock ==
  /\ WritesBlock
  /\ remaining = NumBlocks /\ NumBlocks > 1
  /\ queue' = Tail(queue)
  /\ timer' = TRUE /\ momentum' = 0
  /\ doing' = Waiting("progress", Buffer)
  /\ UNCHANGED <<state, expected, active, opened, pal, buffers, streams, outside>>

ProgressDone ==
  /\ Ends("progress")
  /\ Continue(queue)
  /\ timer' = (timer \/ expected <= 1)
  /\ Free(doing.buf)
  /\ UNCHANGED <<state, momentum, active, file, streams, outside>>

NextBlock ==
  /\ WritesBlock
  /\ remaining \in 2 .. (NumBlocks - 1)
  /\ Continue(Tail(queue))
  /\ timer' = TRUE /\ momentum' = 0
  /\ Free(Buffer)
  /\ UNCHANGED <<state, active, doing, opened, pal, streams, outside>>

\* ingestDataBlockCleanup: otaPal_CloseFile checks the signature.  No image
\* with another job's block in it passes.
LastBlock(valid) ==
  /\ WritesBlock
  /\ remaining = 1
  /\ valid => written' = {ctx} \X Blocks
  /\ queue' = Tail(queue)
  /\ timer' = FALSE /\ opened' = FALSE
  /\ pal' = IF valid THEN "verified" ELSE "closed"
  /\ doing' = [at |-> "final", buf |-> Buffer, complete |-> valid]
  /\ UNCHANGED <<state, momentum, expected, active, buffers, streams, outside>>

\* The outcome has been published; dataHandlerCleanup, then the application
\* activates a complete image.  That resets the device, or fails; then the agent
\* goes on as it does after a rejected image.
FinalDone(told) ==
  /\ Ends("final")
  /\ JobEnds(told /\ ~doing.complete)
  /\ timer' = FALSE
  /\ queue' = Sent(queue, Ev("CloseFile"))
  /\ \/ doing.complete /\ state' = "Reset"
     \/ (doing.complete => "activate" \in Faults) /\ UNCHANGED state
  /\ active' = NoJob
  /\ Free(doing.buf)
  /\ UNCHANGED <<momentum, expected, file, streams, net>>

CloseFile ==
  /\ Handles("WaitingForFileBlock", {"CloseFile"})
  /\ queue' = Tail(queue)
  /\ doing' = Waiting("close", NoBuffer)
  /\ UNCHANGED <<state, timer, momentum, expected, active, file, buffers, streams, outside>>

CloseFileDone ==
  /\ Ends("close")
  /\ Close
  /\ state' = "WaitingForJob"
  /\ UNCHANGED <<queue, timer, momentum, expected, active, buffers, serving, answers>>

\* jobNotificationHandler: a job document during a transfer ends it.  The
\* buffer of the document is not given back.
JobNotification ==
  /\ Handles("WaitingForFileBlock", {"ReceivedJobDocument"})
  /\ queue' = Tail(queue)
  /\ timer' = FALSE /\ pal' = "closed"
  /\ doing' = Waiting("notice", Buffer)
  /\ UNCHANGED <<state, momentum, expected, active, ctx, missing, remaining, opened, written,
                 buffers, streams, outside>>

JobNotificationDone ==
  /\ Ends("notice")
  /\ Close
  /\ active' = NoJob /\ state' = "RequestingJob"
  /\ queue' = Sent(queue, Ev("RequestJobDocument"))
  /\ leaked' = leaked \cup {doing.buf}
  /\ UNCHANGED <<timer, momentum, expected, used, data, serving, answers>>

-----------------------------------------------------------------------------
(* The end, and what no row of the table handles.                          *)

\* shutdownHandler, agentShutdownCleanup
Shutdown ==
  /\ Receives({"Shutdown"})
  /\ queue' = Tail(queue)
  /\ state' = "ShuttingDown" /\ timer' = FALSE
  /\ doing' = Waiting("shutdown", NoBuffer)
  /\ UNCHANGED <<momentum, expected, active, file, buffers, streams, outside>>

ShutdownDone ==
  /\ Ends("shutdown")
  /\ Close
  /\ active' = NoJob /\ momentum' = 0 /\ expected' = 0
  /\ state' = "Stopped"
  /\ UNCHANGED <<queue, timer, buffers, serving, answers>>

\* Faulty variant of UnexpectedEvent: only the buffer of a block is freed.
UnexpectedDocumentIsKept ==
  /\ Receives(Events \ {"Shutdown"})
  /\ <<state, Head(queue).id>> \notin Table
  /\ queue' = Tail(queue)
  /\ IF Head(queue).id = "ReceivedJobDocument" THEN UNCHANGED buffers ELSE Free(Buffer)
  /\ UNCHANGED <<agent, timer, file, streams, outside>>

\* handleUnexpectedEvents
UnexpectedEvent ==
  /\ Receives(Events \ {"Shutdown"})
  /\ <<state, Head(queue).id>> \notin Table
  /\ queue' = Tail(queue)
  /\ Free(Buffer)
  /\ UNCHANGED <<agent, timer, file, streams, outside>>

-----------------------------------------------------------------------------
(* The timer, the MQTT callbacks and the services.                         *)

\* otaTimerCallback, in the timer task
TimerExpires ==
  /\ timer
  /\ timer' = FALSE
  /\ queue' = IF Accepts(queue) THEN Append(queue, Ev("RequestTimer")) ELSE queue
  /\ UNCHANGED <<agent, file, buffers, streams, outside>>

Unused == Buffers \ used

\* prvOTAEventBufferGet returns the first buffer that is not in use; the
\* result of OTA_SignalEvent is not looked at.
Arrives(id, job, block) ==
  \/ Unused = {} /\ UNCHANGED <<queue, used, data>>
  \/ \E b \in Unused :
       /\ \A c \in Unused : b <= c
       /\ used' = used \cup {b}
       /\ data' = [data EXCEPT ![b] = [job |-> job, block |-> block]]
       /\ queue' = IF Accepts(queue) THEN Append(queue, [id |-> id, buf |-> b]) ELSE queue

\* prvProcessIncomingData
BlockArrives(p) ==
  /\ state # "Reset" /\ p \in net /\ p[1] \in streams
  /\ net' = net \ {p}
  /\ Arrives("ReceivedFileBlock", p[1], p[2])
  /\ UNCHANGED <<agent, timer, file, leaked, streams, serving, answers>>

\* prvProcessIncomingJobMessage.  Two of the filters that are subscribed match
\* a notification: the callback is called for each (here: it may arrive again).
DocumentArrives(d, again) ==
  /\ state # "Reset" /\ d \in answers
  /\ again => d.notice
  /\ answers' = (answers \ {d}) \cup (IF again THEN {Document(d.job, FALSE)} ELSE {})
  /\ Arrives("ReceivedJobDocument", d.job, 0)
  /\ UNCHANGED <<agent, timer, file, leaked, streams, serving, net>>

\* The operator cancels the job that is served.
JobCancelled ==
  /\ state # "Reset" /\ serving # NoJob
  /\ serving' = After(serving)
  /\ answers' = answers \cup {Document(After(serving), TRUE)}
  /\ UNCHANGED <<agent, queue, timer, file, buffers, streams, net>>

Published == Outcome("publish")

AgentStep ==
  \/ StartHandler
  \/ RequestJob \/ \E ok \in Published : RequestJobDone(ok)
  \/ ProcessNoJob \/ \E ok \in Outcome("create") : ProcessJob(ok)
  \/ ContinueJob \/ ReplaceJob \/ \E ok \in Outcome("create") : ReplaceJobDone(ok)
  \/ \E told \in Published : RefuseDone(told)
  \/ InitFile \/ \E ok \in Outcome("subscribe") : InitFileDone(ok)
  \/ RequestData \/ \E ok \in Published : RequestDataDone(ok)
  \/ NothingToRequest \/ GiveUp \/ \E told \in Published : GiveUpDone(told)
  \/ RefuseBlock \/ DuplicateBlock \/ FirstBlock \/ ProgressDone \/ NextBlock
  \/ \E valid \in BOOLEAN : LastBlock(valid)
  \/ \E told \in Published : FinalDone(told)
  \/ CloseFile \/ CloseFileDone
  \/ JobNotification \/ JobNotificationDone
  \/ Shutdown \/ ShutdownDone
  \/ UnexpectedEvent

ServiceStep ==
  \/ \E p \in net : BlockArrives(p)
  \/ \E d \in answers, again \in BOOLEAN : DocumentArrives(d, again)
  \/ JobCancelled

Next == AgentStep \/ TimerExpires \/ ServiceStep

Spec == Init /\ [][Next]_vars

\* The handlers' waits end: a publish after at most 20 s, the others because
\* the MQTT agent concludes what it is given (MQTTAgent).
FairSpec == Spec /\ WF_vars(AgentStep) /\ WF_vars(TimerExpires)

-----------------------------------------------------------------------------
(* Properties.                                                             *)

Steps == {"idle", "requestJob", "replace", "refuse", "initFile", "requestData", "giveUp", "progress",
          "final", "close", "notice", "shutdown"}
TypeOK ==
  /\ state \in States /\ timer \in BOOLEAN
  /\ queue \in Seq([id : Events, buf : Buffers \cup {NoBuffer}]) /\ Len(queue) <= QueueLength
  /\ momentum \in 0 .. MaxMomentum /\ expected \in 0 .. Window
  /\ {active, ctx, serving} \subseteq JobIds \cup {NoJob}
  /\ missing \subseteq Blocks /\ remaining \in 0 .. NumBlocks /\ opened \in BOOLEAN
  /\ doing \in [at : Steps, buf : Buffers \cup {NoBuffer}, complete : BOOLEAN]
  /\ used \subseteq Buffers /\ leaked \subseteq used
  /\ data \in [Buffers -> [job : JobIds \cup {NoJob}, block : Blocks \cup {0}]]
  /\ streams \subseteq JobIds /\ pal \in {"closed", "open", "verified"}
  /\ answers \subseteq [job : JobIds \cup {NoJob}, notice : BOOLEAN]
  /\ net \subseteq JobIds \X Blocks /\ written \subseteq JobIds \X Blocks

\* A buffer in use is owed by exactly one party - a queued event, the handler
\* that waits, or the handler that kept it - and no event has a free buffer.
Owing(b) ==
  Cardinality({i \in DOMAIN queue : queue[i].buf = b})
    + (IF doing.buf = b THEN 1 ELSE 0) + (IF b \in leaked THEN 1 ELSE 0)
BufferIsOwed ==
  state \notin {"Stopped", "Reset"} =>
    \A b \in Buffers : Owing(b) = (IF b \in used THEN 1 ELSE 0)

\* Each block is written into the open file once, whatever comes twice, late
\* or while the file is another job's, and the bitmap and the count that
\* decides which block is the last agree on what is still to come.  (Not all
\* the blocks need be the job's own: see the README.)
FileIsCounted ==
  opened => /\ {w[2] : w \in written} = Blocks \ missing
            /\ Cardinality(written) = NumBlocks - remaining
            /\ remaining = Cardinality(missing)

\* Where the agent owes the next step, the timer runs or an event that the
\* state handles is queued: nothing else would wake it.
NeverStranded ==
  doing = Idle /\ state \in {"Ready", "RequestingJob", "CreatingFile", "RequestingFileBlock",
                             "WaitingForFileBlock", "ShuttingDown"} =>
    \/ timer
    \/ \E i \in DOMAIN queue : queue[i].id = "Shutdown" \/ <<state, queue[i].id>> \in Table

\* Whatever the agent has begun ends - the image whole, rejected or given up -
\* though the service and the operator may never do anything again.
TransferEnds == []<>(state \in {"WaitingForJob", "Stopped", "Reset"})

-----------------------------------------------------------------------------
(* What the comments say and the code does not do.                         *)

\* ota.h says that the buffer of a job document is free once the event has
\* been handled: an agent with nothing left to handle holds no buffer.
HandledIsFreed == doing = Idle /\ queue = <<>> /\ state # "Stopped" => used = {}
=============================================================================
