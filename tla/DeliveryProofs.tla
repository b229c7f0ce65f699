--------------------------- MODULE DeliveryProofs ---------------------------
(***************************************************************************)
(* Proofs about Delivery, for any jobs, files and cancel requests: the two *)
(* nodes run Send and Receive, so what was proved of either holds of them  *)
(* here; and DeliveryInv says how what the sender counts follows from what *)
(* the receiver keeps.                                                     *)
(***************************************************************************)
EXTENDS Delivery, SendProofs

RP == INSTANCE ReceiveOutcomeProofs WITH
  Session <- Job, Upload <- Upload, state <- session, ctxDone <- sessionCtx

USE DEF Queued, Preparing, AwaitingAccept, Sending, Done, Failed, Cancelled

-----------------------------------------------------------------------------
(* R and RP are the same receiver, with and without what was proved of it. *)

LEMMA SameAssumption == R!ReceiveAssumption <=> RP!ReceiveAssumption
BY DEF R!Finals, RP!Finals, R!Pending, RP!Pending, R!Accepted, RP!Accepted, R!Done, RP!Done,
    R!Declined, RP!Declined, R!Cancelled, RP!Cancelled, R!Failed, RP!Failed, R!Terminal,
    RP!Terminal, R!ReceiveAssumption,
    RP!ReceiveAssumption

LEMMA SameInit == R!Init <=> RP!Init
BY DEF R!Pending, RP!Pending, R!Absent, RP!Absent, R!Init, RP!Init

LEMMA ReceiverStands == UNCHANGED receiverVars => UNCHANGED RP!vars
BY DEF receiverVars, RP!vars, RP!prepVars, RP!fileVars, RP!upVars, RP!cVars, RP!jobVars

LEMMA SameNext == R!Next <=> RP!Next
BY DEF R!Pending, RP!Pending, R!Accepted, RP!Accepted, R!Done, RP!Done, R!Declined,
    RP!Declined, R!Cancelled, RP!Cancelled, R!Failed, RP!Failed, R!Terminal, RP!Terminal,
    R!prepVars, RP!prepVars, R!fileVars, RP!fileVars, R!upVars, RP!upVars, R!cVars,
    RP!cVars, R!jobVars, RP!jobVars, R!vars, RP!vars, R!Absent, RP!Absent, R!Foreign,
    RP!Foreign, R!Observed, RP!Observed, R!SetState, RP!SetState, R!JobState, RP!JobState,
    R!Report, RP!Report, R!Partials, RP!Partials, R!Remove, RP!Remove, R!BeingStored,
    RP!BeingStored, R!CleanupOutcomes, RP!CleanupOutcomes, R!Advance, RP!Advance, R!Offer,
    RP!Offer, R!Announce, RP!Announce, R!Conclude, RP!Conclude, R!TakeDecision,
    RP!TakeDecision, R!Timeout, RP!Timeout, R!SeeCancel, RP!SeeCancel, R!WriteVerdict,
    RP!WriteVerdict, R!ReportVerdict, RP!ReportVerdict, R!SenderGoes, RP!SenderGoes,
    R!Decide, RP!Decide, R!Move, RP!Move, R!HasTokens, RP!HasTokens, R!StartUpload,
    RP!StartUpload, R!CannotOpen, RP!CannotOpen, R!Taken, RP!Taken, R!Claim, RP!Claim,
    R!OpenPart, RP!OpenPart, R!NotePart, RP!NotePart, R!Chunk, RP!Chunk, R!EndOfBody,
    RP!EndOfBody, R!StreamError, RP!StreamError, R!Rename, RP!Rename, R!AllDone, RP!AllDone,
    R!MarkDone, RP!MarkDone, R!ReportFile, RP!ReportFile, R!FailFile, RP!FailFile,
    R!Cleanup, RP!Cleanup, R!WriteResult, RP!WriteResult, R!ReportResult, RP!ReportResult,
    R!StartCancel, RP!StartCancel, R!CancelMove, RP!CancelMove, R!CancelCleanup,
    RP!CancelCleanup, R!WriteCancelled, RP!WriteCancelled, R!ReportCancelled,
    RP!ReportCancelled, R!Forget, RP!Forget, R!OutsiderCreates, RP!OutsiderCreates,
    R!PrepareStep, RP!PrepareStep, R!UploadStep, RP!UploadStep, R!BodyStep, RP!BodyStep,
    R!CancelStep, RP!CancelStep, R!Quiet, RP!Quiet, R!Rest, RP!Rest, R!Next, RP!Next

LEMMA SameNames ==
  /\ R!PartialsApart <=> RP!PartialsApart
  /\ R!Terminal = RP!Terminal /\ R!Accepted = RP!Accepted /\ R!Cancelled = RP!Cancelled
  /\ \A j, f : R!Stored(j, f) <=> RP!Stored(j, f)
BY DEF R!Finals, RP!Finals, R!Pending, RP!Pending, R!Accepted, RP!Accepted, R!Done, RP!Done,
    R!Declined, RP!Declined, R!Cancelled, RP!Cancelled, R!Failed, RP!Failed, R!Terminal,
    RP!Terminal, R!PartialsApart, RP!PartialsApart, R!Stored, RP!Stored

LEMMA Assumed == RP!ReceiveAssumption
BY SameAssumption, ReceiverAssumption

LEMMA DeliveryIsReceive ==
  ASSUME DeliveryNext
  PROVE  [RP!Next]_RP!vars
<1>1. CASE UNCHANGED receiverVars
  BY <1>1, ReceiverStands
<1>2. ASSUME NEW u \in Upload, UploadArrives(u)
      PROVE  R!Next
  <2>1. u[1] \in Job /\ u[2] \in File
    BY DEF Upload
  <2> QED
    BY <1>2, <2>1 DEF UploadArrives, R!Next
<1>3. ASSUME NEW u \in Upload, UploadStep(u) \/ BodyStep(u)
      PROVE  R!Next
  BY <1>3 DEF UploadStep, BodyStep, R!BodyStep, R!Next
<1>4. ASSUME NEW j \in Job, OfferArrives(j) \/ SessionStep(j) \/ OfferDropped(j)
      PROVE  R!Next
  BY <1>4 DEF OfferArrives, SessionStep, OfferDropped, R!Next
<1>5. CASE \E c \in Canceller : CancelStep(c)
  BY <1>5, SameNext DEF CancelStep, R!Next
<1>6. CASE ReceiverUsers
  BY <1>6, SameNext DEF ReceiverUsers, R!Next
<1>7. ASSUME NEW w \in Worker,
             \/ Busy(w) \/ AnswerTokens(w) \/ AnswerNothing(w)
             \/ AnswerStored(w) \/ AnswerFails(w) \/ ProgressShown(w)
      PROVE  UNCHANGED receiverVars
  BY <1>7 DEF Busy, OtherWorkerStep, SendOffer, SendFile, AnswerTokens, AnswerNothing,
     AnswerStored, AnswerFails, ProgressShown, SenderOnly
<1>8. ASSUME (\E j \in Job : JobStep(j)) \/ (\E u \in Upload : UploadTurnedAway(u)) \/ AllRest
      PROVE  UNCHANGED receiverVars
  BY <1>8 DEF JobStep, SenderOnly, UploadTurnedAway, AllRest
<1> QED
  BY <1>1, <1>2, <1>3, <1>4, <1>5, <1>6, <1>7, <1>8, SameNext DEF DeliveryNext

LEMMA DeliveryIsSend ==
  ASSUME DeliveryNext
  PROVE  [Next]_vars
BY DEF DeliveryNext, JobStep, OtherWorkerStep, SendOffer, SendFile, OfferArrives, SessionStep,
   OfferDropped, AnswerTokens, AnswerNothing, AnswerStored, AnswerFails, ProgressShown,
   UploadArrives, UploadTurnedAway, UploadStep, BodyStep, CancelStep, ReceiverUsers, AllRest,
   ReceiverOnly, Busy, Next, WorkerStep, CallStep

(* Composed, the nodes are still what they are alone: whatever holds of    *)
(* Send, of its jobs, queues and workers, holds of the sending node.       *)
THEOREM SenderRuns == DeliverySpec => Spec
<1>1. DeliveryInit => Init
  BY DEF DeliveryInit
<1>2. [DeliveryNext]_allVars => [Next]_vars
  BY DeliveryIsSend DEF allVars
<1> QED
  BY <1>1, <1>2, PTL DEF DeliverySpec, Spec

(* And whatever holds of Receive holds of the receiving node.              *)
THEOREM ReceiverRuns == DeliverySpec => RP!Spec
<1>1. DeliveryInit => RP!Init
  BY SameInit DEF DeliveryInit
<1>2. UNCHANGED allVars => UNCHANGED RP!vars
  BY ReceiverStands DEF allVars
<1>3. [DeliveryNext]_allVars => [RP!Next]_RP!vars
  BY <1>2, DeliveryIsReceive
<1> QED
  BY <1>1, <1>3, PTL DEF DeliverySpec, RP!Spec

(* What was proved of either is known of the composition.                  *)
LEMMA NodesKnown ==
  /\ DeliverySpec => [](TypeOK /\ SendInv)
  /\ DeliverySpec => [](RP!TypeOK /\ RP!Started /\ RP!OutcomeInv)
  /\ RP!PartialsApart => (DeliverySpec => [](RP!TypeOK /\ RP!ReceiveInv))
<1>1. RP!Spec => [](RP!TypeOK /\ RP!Started /\ RP!OutcomeInv)
  BY Assumed, RP!OutcomeInvariant
<1>2. RP!PartialsApart => (RP!Spec => [](RP!TypeOK /\ RP!ReceiveInv))
  BY Assumed, RP!InvariantHolds
<1> QED
  BY <1>1, <1>2, SenderRuns, ReceiverRuns, InvariantHolds, PTL

-----------------------------------------------------------------------------
(* What the sender counts as sent the receiver has, and the upload is      *)
(* over.                                                                   *)
SentTaken ==
  \A j \in Job : \A n \in 1 .. sent[j] : <<j, n>> \in fileDone /\ upc[<<j, n>>] = "over"

(* An upload is the one of its job and file, so no file is sent twice.     *)
Named == \A u \in Upload : us[u] # None => us[u] = u[1] /\ uf[u] = u[2]

(* A job that got through to its end got a token for every file, or        *)
(* somebody cancelled its session.                                         *)
Needed(j) == granted[j] = FileCount[j] \/ \E c \in Canceller : cs[c] = j
Late == {"granted", Sending, "loop", "uploading", "counted", "over", Done}
NeededThere ==
  /\ \A w \in Worker : worker[w] \in Late => Needed(cur[w])
  /\ \A j \in Job : state[j] = Done => Needed(j)

DeliveryInv == SentTaken /\ Named /\ NeededThere
Known == TypeOK /\ SendInv /\ RP!TypeOK /\ RP!Started /\ RP!OutcomeInv

(* What moves the sender's counts, its workers and the uploads' names.     *)
LEMMA SentChanges ==
  ASSUME DeliveryNext
  PROVE  sent' = sent \/ \E w \in Worker : AnswerStored(w)
BY DEF DeliveryNext, JobStep, Register, Enqueue, Refuse, Cancel, CallCancel, Forget, Ask,
   OfferArrives, SessionStep, OfferDropped, ReceiverOnly, Busy, OtherWorkerStep, WorkerStep,
   Take, Skip, Begin, NextFile, Fail, SetState, Tell, SendOffer, SendFile, AnswerTokens,
   Granted, AnswerNothing, NothingNeeded, AnswerFails, CallFails, CutOff, ProgressShown,
   Progress, UploadArrives, UploadTurnedAway, UploadStep, BodyStep, CancelStep, ReceiverUsers,
   AllRest, Rest, vars, fileVars

LEMMA GrantedChanges ==
  ASSUME DeliveryNext
  PROVE  granted' = granted \/ \E w \in Worker : AnswerTokens(w)
BY DEF DeliveryNext, JobStep, Register, Enqueue, Refuse, Cancel, CallCancel, Forget, Ask,
   OfferArrives, SessionStep, OfferDropped, ReceiverOnly, Busy, OtherWorkerStep, WorkerStep,
   Take, Skip, Begin, NextFile, Fail, SetState, Tell, SendOffer, SendFile, AnswerStored,
   FileSent, AnswerNothing, NothingNeeded, AnswerFails, CallFails, CutOff, ProgressShown,
   Progress, UploadArrives, UploadTurnedAway, UploadStep, BodyStep, CancelStep, ReceiverUsers,
   AllRest, Rest, vars, fileVars

LEMMA NamesChange ==
  ASSUME DeliveryNext
  PROVE  UNCHANGED <<us, uf>> \/ \E u \in Upload : UploadArrives(u)
<1>1. ASSUME UNCHANGED receiverVars
      PROVE  UNCHANGED <<us, uf>>
  BY <1>1 DEF receiverVars
<1>2. ASSUME NEW j \in Job, OfferArrives(j) \/ SessionStep(j) \/ OfferDropped(j)
      PROVE  UNCHANGED <<us, uf>>
  BY <1>2 DEF OfferArrives, SessionStep, OfferDropped, R!Offer, R!PrepareStep, R!Announce,
     R!TakeDecision, R!Timeout, R!SeeCancel, R!Conclude, R!WriteVerdict, R!ReportVerdict,
     R!Advance, R!SenderGoes, R!upVars
<1>3. ASSUME NEW u \in Upload, UploadStep(u) \/ BodyStep(u)
      PROVE  UNCHANGED <<us, uf>>
  BY <1>3 DEF UploadStep, BodyStep, R!UploadStep, R!CannotOpen, R!Claim, R!OpenPart,
     R!NotePart, R!Chunk, R!EndOfBody, R!StreamError, R!Rename, R!MarkDone, R!ReportFile,
     R!FailFile, R!Cleanup, R!WriteResult, R!ReportResult
<1>4. ASSUME (\E c \in Canceller : CancelStep(c)) \/ ReceiverUsers
      PROVE  UNCHANGED <<us, uf>>
  BY <1>4 DEF CancelStep, R!CancelStep, R!CancelCleanup, R!WriteCancelled, R!ReportCancelled,
     R!CancelMove, ReceiverUsers, R!Forget, R!Decide, R!StartCancel, R!OutsiderCreates, R!upVars
<1>5. ASSUME \/ \E j \in Job : JobStep(j)
             \/ \E w \in Worker : \/ Busy(w) \/ AnswerTokens(w) \/ AnswerNothing(w)
                                  \/ AnswerStored(w) \/ AnswerFails(w) \/ ProgressShown(w)
             \/ \E u \in Upload : UploadTurnedAway(u)
             \/ AllRest
      PROVE  UNCHANGED receiverVars
  BY <1>5 DEF JobStep, Busy, OtherWorkerStep, SendOffer, SendFile, AnswerTokens, AnswerNothing,
     AnswerStored, AnswerFails, ProgressShown, SenderOnly, UploadTurnedAway, AllRest
<1> QED
  BY <1>1, <1>2, <1>3, <1>4, <1>5 DEF DeliveryNext

LEMMA LateWorkers ==
  ASSUME TypeOK, DeliveryNext, NEW w \in Worker, worker'[w] \in Late
  PROVE  \/ worker[w] \in Late /\ cur'[w] = cur[w]
         \/ worker[w] = "asking" /\ cur'[w] = cur[w] /\ (AnswerTokens(w) \/ AnswerNothing(w))
<1> USE DEF TypeOK, Late, Worker
<1>1. CASE UNCHANGED <<worker, cur>>
  BY <1>1
<1>2. CASE \E j \in Job : JobStep(j)
  BY <1>2 DEF JobStep, Register, Enqueue, Refuse, Cancel, CallCancel, Forget, Ask
<1>3. ASSUME NEW v \in Worker, WorkerStep(v)
      PROVE  worker[w] \in Late /\ cur'[w] = cur[w]
  BY <1>3 DEF WorkerStep, Take, Skip, Begin, NextFile, Fail, SetState, Tell, Go
<1>4. ASSUME NEW v \in Worker, Busy(v)
      PROVE  WorkerStep(v)
  BY <1>4 DEF Busy, OtherWorkerStep, SendOffer, SendFile, WorkerStep
<1>5. ASSUME NEW v \in Worker, AnswerTokens(v) \/ AnswerNothing(v)
      PROVE  \/ worker[w] \in Late /\ cur'[w] = cur[w]
             \/ worker[w] = "asking" /\ cur'[w] = cur[w] /\ (AnswerTokens(w) \/ AnswerNothing(w))
  BY <1>5 DEF AnswerTokens, AnswerNothing, Granted, NothingNeeded, Go
<1>6. ASSUME NEW v \in Worker, AnswerStored(v) \/ AnswerFails(v)
      PROVE  worker[w] \in Late /\ cur'[w] = cur[w]
  BY <1>6 DEF AnswerStored, AnswerFails, FileSent, CallFails, CutOff, Go
<1>7. ASSUME \/ \E v \in Worker : ProgressShown(v)
             \/ \E j \in Job : OfferArrives(j) \/ SessionStep(j) \/ OfferDropped(j)
             \/ \E u \in Upload : \/ UploadArrives(u) \/ UploadTurnedAway(u)
                                  \/ UploadStep(u) \/ BodyStep(u)
             \/ \E c \in Canceller : CancelStep(c)
             \/ ReceiverUsers \/ AllRest
      PROVE  UNCHANGED <<worker, cur>>
  BY <1>7 DEF ProgressShown, Progress, OfferArrives, SessionStep, OfferDropped, UploadArrives,
     UploadTurnedAway, UploadStep, BodyStep, CancelStep, ReceiverUsers, AllRest, Rest,
     ReceiverOnly, vars
<1> QED
  BY <1>1, <1>2, <1>3, <1>4, <1>5, <1>6, <1>7 DEF DeliveryNext

LEMMA SentTakenStep ==
  ASSUME Known, SentTaken, DeliveryNext
  PROVE  SentTaken'
<1>1. fileDone \subseteq fileDone'
  BY Assumed, DeliveryIsReceive, RP!FileDoneGrows
<1>2. \A u \in Upload : upc[u] = "over" => upc'[u] = "over"
  BY Assumed, DeliveryIsReceive, RP!OverStays DEF Known
<1>3. ASSUME NEW j \in Job, NEW n \in 1 .. sent[j]
      PROVE  <<j, n>> \in fileDone' /\ upc'[<<j, n>>] = "over"
  <2>1. <<j, n>> \in fileDone /\ upc[<<j, n>>] = "over"
    BY <1>3 DEF SentTaken
  <2>2. <<j, n>> \in Upload
    BY <2>1 DEF Known, RP!TypeOK, Upload
  <2> QED
    BY <1>1, <1>2, <2>1, <2>2
<1>4. ASSUME NEW w \in Worker, AnswerStored(w)
      PROVE  SentTaken'
  <2>1. cur[w] \in Job /\ sent' = [sent EXCEPT ![cur[w]] = @ + 1]
    BY <1>4, Serving DEF AnswerStored, FileSent, Go, Engaged, Known, SendInv
  <2>2. /\ <<cur[w], sent[cur[w]] + 1>> \in fileDone
        /\ upc[<<cur[w], sent[cur[w]] + 1>>] = "over"
    BY <1>4 DEF AnswerStored, Current
  <2>3. UNCHANGED <<fileDone, upc>>
    BY <1>4 DEF AnswerStored, SenderOnly, receiverVars
  <2>4. ASSUME NEW j \in Job, NEW n \in 1 .. sent'[j]
        PROVE  n \in 1 .. sent[j] \/ (j = cur[w] /\ n = sent[j] + 1)
    BY <2>1, <2>4 DEF Known, TypeOK
  <2> QED
    BY <2>2, <2>3, <2>4 DEF SentTaken
<1>5. CASE sent' = sent
  BY <1>3, <1>5 DEF SentTaken
<1> QED
  BY <1>4, <1>5, SentChanges

LEMMA NamedStep ==
  ASSUME Known, Named, DeliveryNext
  PROVE  Named'
<1>1. ASSUME NEW u \in Upload, UploadArrives(u)
      PROVE  Named'
  <2>1. us' = [us EXCEPT ![u] = u[1]] /\ uf' = [uf EXCEPT ![u] = u[2]]
    BY <1>1 DEF UploadArrives, R!StartUpload
  <2> QED
    BY <2>1 DEF Named, Known, RP!TypeOK
<1>2. CASE UNCHANGED <<us, uf>>
  BY <1>2 DEF Named
<1> QED
  BY <1>1, <1>2, NamesChange

(* A session that was cancelled stays so; a token for every file is one    *)
(* for ever.                                                               *)
LEMMA NeededStays ==
  ASSUME Known, DeliveryNext, NEW j \in Job, Needed(j)
  PROVE  Needed(j)'
<1>1. ASSUME NEW c \in Canceller, cs[c] = j
      PROVE  cs'[c] = j
  <2>1. cpc[c] # "idle"
    BY <1>1, FeedAssumption DEF FeedAssumption, Known, RP!OutcomeInv, RP!Unstarted
  <2> QED
    BY <1>1, <2>1, Assumed, DeliveryIsReceive, RP!RequestsKept DEF Known
<1>2. ASSUME granted[j] = FileCount[j]
      PROVE  granted'[j] = FileCount[j]
  <2>1. ASSUME NEW w \in Worker, AnswerTokens(w)
        PROVE  granted'[j] = FileCount[j]
    BY <1>2, <2>1 DEF AnswerTokens, Granted, Known, TypeOK
  <2> QED
    BY <1>2, <2>1, GrantedChanges
<1> QED
  BY <1>1, <1>2 DEF Needed

LEMMA NeededThereStep ==
  ASSUME Known, NeededThere, DeliveryNext
  PROVE  NeededThere'
<1>1. ASSUME NEW w \in Worker, worker'[w] \in Late
      PROVE  Needed(cur[w])' /\ cur'[w] = cur[w]
  <2>1. cur'[w] = cur[w] /\ worker[w] \in Late \union {"asking"}
    BY <1>1, LateWorkers DEF Known
  <2>2. cur[w] \in Job
    BY <2>1, Serving DEF Engaged, Late, Known, SendInv
  <2>3. CASE worker[w] \in Late
    BY <2>1, <2>2, <2>3, NeededStays DEF NeededThere
  <2>4. CASE AnswerTokens(w)
    BY <2>1, <2>2, <2>4 DEF AnswerTokens, Needed
  <2>5. CASE AnswerNothing(w)
    <3>1. verdict[cur[w]] = RP!Cancelled /\ ~gone[cur[w]]
      BY <2>5, SameNames DEF AnswerNothing, Answered
    <3>2. \E c \in Canceller : cs[c] = cur[w]
      BY <2>2, <3>1 DEF Known, RP!OutcomeInv, RP!CalledOff
    <3>3. Needed(cur[w])
      BY <3>2 DEF Needed
    <3> QED
      BY <2>1, <2>2, <3>3, NeededStays
  <2> QED
    BY <1>1, <2>1, <2>3, <2>4, <2>5, LateWorkers DEF Known
<1>2. ASSUME NEW j \in Job, state'[j] = Done
      PROVE  Needed(j)'
  <2>1. CASE state[j] = Done
    BY <2>1, NeededStays DEF NeededThere
  <2>2. CASE state[j] # Done
    <3>1. PICK w \in Worker : worker[w] = "over" /\ cur[w] = j
      <4>1. [Next]_vars
        BY DeliveryIsSend
      <4>2. ASSUME NEW k \in Job, Register(k) \/ Refuse(k) \/ Cancel(k)
            PROVE  state'[j] # Done
        BY <2>2, <4>2 DEF Register, Refuse, Cancel, Known, TypeOK
      <4>3. ASSUME NEW w \in Worker, Fail(w)
            PROVE  state'[j] # Done
        BY <2>2, <4>3 DEF Fail, Known, TypeOK
      <4>4. ASSUME NEW w \in Worker, Sets(w)
            PROVE  worker[w] = "over" /\ cur[w] = j
        BY <1>2, <2>2, <4>4 DEF Sets, SetState, Go, Known, TypeOK
      <4>5. ASSUME NEW k \in Job, Enqueue(k)
            PROVE  state' = state
        BY <4>5 DEF Enqueue
      <4>6. ASSUME NEW w \in Worker,
                   \/ Take(w) \/ Skip(w) \/ Begin(w) \/ Moves(w)
                   \/ Tell(w, Done, "idle") \/ Granted(w) \/ FileSent(w)
            PROVE  state' = state
        BY <4>6 DEF Take, Skip, Begin, Moves, TellsOn, Tell, NextFile, NothingNeeded, CallFails,
           CutOff, Granted, FileSent
      <4>7. Aside => state' = state
        BY AsideKeeps DEF coreVars
      <4> QED
        BY <1>2, <2>2, <4>1, <4>2, <4>3, <4>4, <4>5, <4>6, <4>7, NextSteps
    <3>2. Needed(j)
      BY <3>1 DEF NeededThere, Late
    <3> QED
      BY <3>2, NeededStays
  <2> QED
    BY <2>1, <2>2
<1> QED
  BY <1>1, <1>2 DEF NeededThere

LEMMA DeliveryInit1 ==
  ASSUME DeliveryInit
  PROVE  DeliveryInv
<1>1. SentTaken /\ NeededThere
  BY FeedAssumption
  DEF DeliveryInit, Init, SentTaken, NeededThere, Late, FeedAssumption, JobStates
<1>2. Named
  BY DEF DeliveryInit, R!Init, Named
<1> QED
  BY <1>1, <1>2 DEF DeliveryInv

(* The inductive invariant of the two nodes.                               *)
THEOREM DeliveryInvariant == DeliverySpec => [](Known /\ DeliveryInv)
<1>1. DeliveryInit => DeliveryInv
  BY DeliveryInit1
<1>2. Known /\ DeliveryInv /\ [DeliveryNext]_allVars => DeliveryInv'
  <2> SUFFICES ASSUME Known, DeliveryInv, [DeliveryNext]_allVars
               PROVE  DeliveryInv'
    OBVIOUS
  <2>1. CASE DeliveryNext
    BY <2>1, SentTakenStep, NamedStep, NeededThereStep DEF DeliveryInv
  <2>2. CASE UNCHANGED allVars
    BY <2>2 DEF DeliveryInv, SentTaken, Named, NeededThere, Needed, allVars, vars, receiverVars,
       fileVars
  <2> QED
    BY <2>1, <2>2
<1>3. DeliverySpec => []Known
  BY NodesKnown, PTL DEF Known
<1> QED
  BY <1>1, <1>2, <1>3, PTL DEF DeliverySpec

(* What the sender counts as sent lies at the receiver, complete, when no  *)
(* offered name is another's partial.                                      *)
THEOREM SentIsStored == R!PartialsApart => (DeliverySpec => []SentMeansStored)
<1> SUFFICES ASSUME R!PartialsApart
             PROVE  DeliverySpec => []SentMeansStored
  OBVIOUS
<1>1. RP!TypeOK /\ RP!ReceiveInv /\ SentTaken => SentMeansStored
  <2> SUFFICES ASSUME RP!TypeOK, RP!ReceiveInv, SentTaken,
                      NEW j \in Job, NEW n \in 1 .. sent[j]
               PROVE  R!Stored(j, n)
    BY DEF SentMeansStored
  <2>1. <<j, n>> \in fileDone /\ n \in File
    BY DEF SentTaken, RP!TypeOK
  <2> QED
    BY <2>1, SameNames DEF RP!ReceiveInv, RP!Reported
<1>2. DeliverySpec => [](RP!TypeOK /\ RP!ReceiveInv)
  BY NodesKnown, SameNames
<1> QED
  BY <1>1, <1>2, DeliveryInvariant, PTL DEF DeliveryInv

(* What the sender shows as done the receiver shows as done, unless        *)
(* somebody cancelled there.                                               *)
THEOREM DoneAtBoth == DeliverySpec => []BothShowDone
<1>1. Known /\ DeliveryInv => BothShowDone
  <2> SUFFICES ASSUME Known, DeliveryInv, NEW j \in Job, state[j] = Done,
                      \A c \in Canceller : cs[c] # j
               PROVE  session[j] = Done /\ job[j] \in {Done, "forgotten"}
    BY DEF BothShowDone
  <2>1. sent[j] = FileCount[j] /\ FileCount[j] \in Nat \ {0} /\ File = 1 .. FileCount[j]
    BY SendAssumption, DeliveryAssumption
    DEF DeliveryInv, NeededThere, Needed, Known, SendInv, Counted, DoneMeansSent, SendAssumption,
        DeliveryAssumption
  <2>2. \A f \in File : <<j, f>> \in fileDone /\ upc[<<j, f>>] = "over"
    BY <2>1 DEF DeliveryInv, SentTaken
  <2>3. \A u \in Upload : us[u] = j => u = <<j, uf[u]>> /\ uf[u] \in File /\ upc[u] = "over"
    <3> SUFFICES ASSUME NEW u \in Upload, us[u] = j
                 PROVE  u = <<j, uf[u]>> /\ uf[u] \in File /\ upc[u] = "over"
      OBVIOUS
    <3>1. us[u] # None
      BY FeedAssumption DEF FeedAssumption
    <3>2. u[1] = j /\ u[2] = uf[u]
      BY <3>1 DEF DeliveryInv, Named
    <3> QED
      BY <2>2, <3>2 DEF Upload
  <2>4. RP!Undisturbed(j)
    BY <2>3 DEF RP!Undisturbed, RP!SentOnce
  <2>5. PICK u \in Upload : us[u] = j /\ want[u] = RP!Done
    <3>1. File # {}
      BY <2>1
    <3> QED
      BY <2>2, <3>1 DEF Known, RP!OutcomeInv, RP!Entitled, RP!AllDone
  <2>6. prep[j] = "answered"
    BY <2>3, <2>5 DEF Known, RP!Started
  <2>7. session[j] = RP!Done
    BY <2>3, <2>4, <2>5, <2>6 DEF Known, RP!OutcomeInv, RP!Followed
  <2>8. job[j] \in {"forgotten", RP!JobState(RP!Done)}
    BY <2>3, <2>4, <2>6, <2>7 DEF Known, RP!OutcomeInv, RP!Followed
  <2> QED
    BY <2>7, <2>8 DEF RP!JobState, RP!Done, RP!Accepted
<1> QED
  BY <1>1, DeliveryInvariant, PTL
=============================================================================
