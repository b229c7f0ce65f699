----------------------------- MODULE Delivery -----------------------------
(***************************************************************************)
(* Two nodes that run this program: a send job of the one (Send) and the   *)
(* session that its offer opens at the other (Receive), joined by the      *)
(* calls of internal/localsend/client.go and the handlers of               *)
(* internal/lsserver/server.go.                                            *)
(*                                                                         *)
(* Send by itself takes any answer a receiver could give, Receive takes    *)
(* any request a sender could make; here the answers are those that the    *)
(* other side gives.  A request is on its way once the sender's call has   *)
(* begun.  It may stay there for ever, or arrive when the sender has long  *)
(* given up; a connection may break, for either side, at any moment.       *)
(*                                                                         *)
(* A session is named after the job that it was opened for, an upload      *)
(* after its job and file.                                                 *)
(***************************************************************************)
EXTENDS Send

CONSTANTS
  File,                                   (* the files of a job, 1, 2, ... *)
  Canceller, Share, Path, Candidate, PartOf, Size, Dropbox, ForeignPath,
  Outsider, Decline, Torn                              (* as in Receive    *)

ASSUME DeliveryAssumption == \A j \in Job : File = 1 .. FileCount[j]

VARIABLES
  wire,       (* requests on their way: <<job, 0>> an offer, <<job, n>> an   *)
              (* upload                                                    *)
  session,    (* Receive: sess.State                                       *)
  sessionCtx, (* Receive: sess.cancel() was called                         *)
  prep, verdict, dest, decision, gone, acked, fileDone, partPath, inProgress,
  disk, upc, us, uf, final, got, want, cpc, cs, job, jobDone  (* as there  *)

Upload == Job \X File
R == INSTANCE Receive WITH
  Session <- Job, Upload <- Upload, state <- session, ctxDone <- sessionCtx

ASSUME ReceiverAssumption == R!ReceiveAssumption

receiverVars == <<session, sessionCtx, prep, verdict, dest, decision, gone, acked, fileDone,
                  partPath, inProgress, disk, upc, us, uf, final, got, want, cpc, cs, job, jobDone>>
allVars == <<vars, wire, receiverVars>>

DeliveryInit == Init /\ R!Init /\ wire = {}

-----------------------------------------------------------------------------
(* The sender.                                                             *)

SenderOnly == UNCHANGED <<wire, receiverVars>>

JobStep(j) ==
  /\ \/ Register(j) \/ Enqueue(j) \/ Refuse(j)
     \/ Cancel(j) \/ CallCancel(j) \/ Forget(j)
  /\ SenderOnly

(* The calls begin: client.Prepare ...                                     *)
SendOffer(w) ==
  /\ Tell(w, AwaitingAccept, "asking")
  /\ wire' = wire \union {<<cur[w], 0>>}
  /\ UNCHANGED receiverVars

(* ... and client.Upload, file after file.                                 *)
Current(w) == <<cur[w], sent[cur[w]] + 1>>

SendFile(w) ==
  /\ NextFile(w) /\ worker'[w] = "uploading"
  /\ wire' = wire \union {Current(w)}
  /\ UNCHANGED receiverVars

OtherWorkerStep(w) ==
  /\ WorkerStep(w) /\ worker'[w] \notin {"asking", "uploading"}
  /\ SenderOnly

-----------------------------------------------------------------------------
(* The receiver.                                                           *)

ReceiverOnly == UNCHANGED <<vars, wire>>

OfferArrives(j) ==
  /\ <<j, 0>> \in wire
  /\ R!Offer(j)
  /\ wire' = wire \ {<<j, 0>>}
  /\ UNCHANGED vars

UploadArrives(u) ==
  /\ u \in wire
  /\ R!StartUpload(u, u[1], u[2])
  /\ wire' = wire \ {u}
  /\ UNCHANGED vars

(* A session that is not seen accepted: 404, and nothing changes.          *)
UploadTurnedAway(u) ==
  /\ u \in wire
  /\ R!Observed(u[1]) # {R!Accepted}
  /\ wire' = wire \ {u}
  /\ UNCHANGED <<vars, receiverVars>>

(* The body of an upload: with a declared length the request ends there or *)
(* breaks; a declared length of 0 net/http sends as unknown, so the body   *)
(* is what the file holds by now.                                          *)
Declared(u) == Size[u[2]] > 0
BodyStep(u) ==
  /\ \/ R!Chunk(u) /\ (Declared(u) => got[u] < Size[u[2]])
     \/ R!EndOfBody(u) /\ (Declared(u) => got[u] = Size[u[2]])
     \/ R!StreamError(u)
  /\ ReceiverOnly

(* What the receiver does, and its users: this sender calls no /cancel.    *)
SessionStep(s) == R!PrepareStep(s) /\ ReceiverOnly
UploadStep(u) == R!UploadStep(u) /\ ReceiverOnly
CancelStep(c) == R!CancelStep(c) /\ ReceiverOnly
ReceiverUsers ==
  /\ \/ \E s \in Job : \/ R!Forget(s)
                       \/ \E d \in Share \union {Decline} : R!Decide(s, d)
     \/ \E c \in Canceller, s \in Job :
          job[s] \notin {None, "forgotten"} /\ R!StartCancel(c, s)
     \/ \E p \in Path : R!OutsiderCreates(p)
  /\ ReceiverOnly

(* The receiver sees the prepare-upload connection end.                    *)
OfferDropped(s) == R!SenderGoes(s) /\ ReceiverOnly

-----------------------------------------------------------------------------
(* Answers, as client.go reads them.                                       *)

Answered(j, st) == prep[j] = "answered" /\ verdict[j] = st /\ ~gone[j]

(* 200: tokens for every file of the offer.                                *)
AnswerTokens(w) ==
  /\ Granted(w) /\ granted'[cur[w]] = FileCount[cur[w]]
  /\ Answered(cur[w], R!Accepted)
  /\ SenderOnly

(* 204: the session's context was cancelled while the offer waited.        *)
AnswerNothing(w) ==
  /\ NothingNeeded(w)
  /\ Answered(cur[w], R!Cancelled)
  /\ SenderOnly

(* Mutant: the upload is answered when its last byte was read.             *)
AnswerEarly(w) ==
  /\ FileSent(w)
  /\ upc[Current(w)] = "rename"
  /\ SenderOnly

(* 200 on an upload: Upload has returned, and not with an error.           *)
AnswerStored(w) ==
  /\ FileSent(w)
  /\ upc[Current(w)] = "over" /\ Current(w) \in fileDone
  /\ SenderOnly

(* Any other status, a broken connection or a cancelled context; an answer *)
(* cut off in its body is one of tokens.                                   *)
AnswerFails(w) ==
  /\ \/ CallFails(w)
     \/ CutOff(w) /\ Answered(cur[w], R!Accepted)
  /\ SenderOnly

ProgressShown(w) == Progress(w) /\ SenderOnly

-----------------------------------------------------------------------------
Busy(w) == OtherWorkerStep(w) \/ SendOffer(w) \/ SendFile(w)

(* Every call was answered, and nobody asks for anything.                  *)
AllRest == Rest /\ UNCHANGED <<wire, receiverVars>>

DeliveryNext ==
  \/ \E j \in Job : \/ JobStep(j) \/ OfferArrives(j)
                    \/ SessionStep(j) \/ OfferDropped(j)
  \/ \E w \in Worker : \/ Busy(w) \/ AnswerTokens(w) \/ AnswerNothing(w)
                       \/ AnswerStored(w) \/ AnswerFails(w) \/ ProgressShown(w)
  \/ \E u \in Upload : \/ UploadArrives(u) \/ UploadTurnedAway(u)
                       \/ UploadStep(u) \/ BodyStep(u)
  \/ \E c \in Canceller : CancelStep(c)
  \/ ReceiverUsers
  \/ AllRest

DeliverySpec == DeliveryInit /\ [][DeliveryNext]_allVars

(* Both programs run on, and the read of a connection that the sender has  *)
(* closed ends in an error.  Nothing else that crosses the wire has to     *)
(* arrive.                                                                 *)
Uploading(u) == \E w \in Worker : worker[w] = "uploading" /\ Current(w) = u
HangUp(u) == ~Uploading(u) /\ R!StreamError(u) /\ ReceiverOnly
FairDelivery ==
  /\ DeliverySpec
  /\ \A j \in Job : WF_allVars(SessionStep(j))
  /\ \A u \in Upload : WF_allVars(UploadStep(u)) /\ WF_allVars(HangUp(u))
  /\ \A c \in Canceller : WF_allVars(CancelStep(c))
  /\ \A w \in Worker : WF_allVars(Busy(w))

-----------------------------------------------------------------------------
(* Properties that hold.                                                   *)

(* What the sender counts as sent is stored at the receiver and stays      *)
(* there, whatever is cancelled, retried or late at either end.            *)
SentMeansStored ==
  \A j \in Job : \A n \in 1 .. sent[j] : R!Stored(j, n)

(* A job that the sender shows as done is shown as done by the receiver,   *)
(* unless its user cancelled.                                              *)
BothShowDone ==
  \A j \in Job :
    state[j] = Done /\ (\A c \in Canceller : cs[c] # j) =>
      session[j] = Done /\ job[j] \in {Done, "forgotten"}

(* A sender that gives up in the middle of a file leaves no upload behind  *)
(* that waits for more: the rest was in the buffers and the file is        *)
(* stored, or the session ends.                                            *)
HangUpSettles ==
  \A u \in Upload :
    upc[u] = "stream" /\ ~Uploading(u) ~> u \in fileDone \/ session[u[1]] \in R!Terminal

-----------------------------------------------------------------------------
(* What the comment says and the code does not keep.                       *)

(* manager.go:304, "receiver needs nothing", of the job that a 204 makes   *)
(* done: it has nothing left to receive.                                   *)
DoneMeansDelivered ==
  \A j \in Job : state[j] = Done => \A f \in File : R!Stored(j, f)
=============================================================================
