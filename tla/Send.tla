------------------------------- MODULE Send -------------------------------
(***************************************************************************)
(* The sending half of localsend-nas: Send, Cancel, Forget and the target  *)
(* workers of internal/transfer/manager.go, with the calls they make on    *)
(* internal/localsend/client.go and the events they send to the browsers   *)
(* (JobFeed).                                                              *)
(*                                                                         *)
(* m.mu makes single assignments atomic; a worker holds it for one         *)
(* assignment at a time.  A step is one such section, or the answer of the *)
(* receiver.  Each Send request makes one job, and is named after it; so   *)
(* is the worker that it spawns when its target had none.                  *)
(***************************************************************************)
EXTENDS JobFeed

CONSTANTS
  Target,    (* fingerprints of devices                                    *)
  TargetOf,  (* job -> its target                                          *)
  QueueCap,  (* capacity of a target's queue, 32 in the code               *)
  FileCount  (* job -> the number of files its basket expanded to          *)

ASSUME SendAssumption ==
  /\ TargetOf \in [Job -> Target]
  /\ QueueCap \in Nat \ {0}
  /\ FileCount \in [Job -> Nat \ {0}]

VARIABLES
  jobs,       (* m.jobs, its keys                                          *)
  state,      (* job.State                                                 *)
  request,    (* Send: where the request of each job is                    *)
  queue,      (* m.queues: the jobs in each target's channel               *)
  worker,     (* targetWorker: where each worker is                        *)
  cur,        (* targetWorker: the job it runs                             *)
  begun,      (* the jobs with job.cancel set                              *)
  cancelling, (* the jobs that Cancel marked and is about to cancel()      *)
  ctxDone,    (* the jobs whose context is cancelled                       *)
  granted,    (* how many files the receiver gave tokens for               *)
  sent        (* how many files it took                                    *)

reqVars    == <<jobs, request>>
cancelVars == <<begun, cancelling, ctxDone>>
fileVars   == <<granted, sent>>
vars == <<reqVars, state, queue, worker, cur, cancelVars, fileVars, feedVars>>

Worker == Job
TypeOK ==
  /\ jobs \in SUBSET Job
  /\ state \in [Job -> {None, Queued, Preparing, AwaitingAccept, Sending,
                        Done, Failed, Cancelled}]
  /\ request \in [Job -> {"new", "registered", "enqueued", "refused"}]
  /\ queue \in [Target -> Seq(Job)]
  /\ worker \in [Worker -> {"none", "idle", "taken", "begun", "ready", "asking", "granted",
                            "loop", "uploading", "counted", "over", "failing", "unwinding",
                            Preparing, AwaitingAccept, Sending, Done}]
  /\ cur \in [Worker -> Job \union {None}]
  /\ begun \in SUBSET Job
  /\ cancelling \in SUBSET Job
  /\ ctxDone \in SUBSET Job
  /\ granted \in [Job -> Nat]
  /\ sent \in [Job -> Nat]
  /\ FeedTypeOK

Init ==
  /\ jobs = {}
  /\ state = [j \in Job |-> None]
  /\ request = [j \in Job |-> "new"]
  /\ queue = [t \in Target |-> <<>>]
  /\ worker = [w \in Worker |-> "none"]
  /\ cur = [w \in Worker |-> None]
  /\ begun = {}
  /\ cancelling = {}
  /\ ctxDone = {}
  /\ granted = [j \in Job |-> 0]
  /\ sent = [j \in Job |-> 0]
  /\ FeedInit

-----------------------------------------------------------------------------
(* Send.  A request for an unknown target or an empty basket changes       *)
(* nothing.                                                                *)

Ask(j, from, to) ==
  /\ request[j] = from
  /\ request' = [request EXCEPT ![j] = to]
  /\ UNCHANGED <<cur, cancelVars, fileVars, feedVars>>

HasQueue(t) == \E w \in Worker : worker[w] # "none" /\ TargetOf[w] = t

(* Mutant: every request starts a worker.                                  *)
RegisterAlwaysSpawns(j) ==
  /\ Ask(j, "new", "registered")
  /\ jobs' = jobs \union {j}
  /\ state' = [state EXCEPT ![j] = Queued]
  /\ worker' = [worker EXCEPT ![j] = "idle"]
  /\ UNCHANGED queue

(* The job is listed; the target gets its queue and its worker.            *)
Register(j) ==
  /\ Ask(j, "new", "registered")
  /\ jobs' = jobs \union {j}
  /\ state' = [state EXCEPT ![j] = Queued]
  /\ worker' = IF HasQueue(TargetOf[j]) THEN worker ELSE [worker EXCEPT ![j] = "idle"]
  /\ UNCHANGED queue

Enqueue(j) ==
  /\ Ask(j, "registered", "enqueued")
  /\ Len(queue[TargetOf[j]]) < QueueCap
  /\ queue' = [queue EXCEPT ![TargetOf[j]] = Append(@, j)]
  /\ UNCHANGED <<jobs, state, worker>>

(* Mutant: the job fails, but its request goes on waiting for room.        *)
RefuseAndWait(j) ==
  /\ Ask(j, "registered", "registered")
  /\ Len(queue[TargetOf[j]]) >= QueueCap
  /\ state' = [state EXCEPT ![j] = Failed]
  /\ UNCHANGED <<jobs, queue, worker>>

(* No room: the job fails, whatever it has become, and nobody is told.     *)
Refuse(j) ==
  /\ Ask(j, "registered", "refused")
  /\ Len(queue[TargetOf[j]]) >= QueueCap
  /\ state' = [state EXCEPT ![j] = Failed]
  /\ UNCHANGED <<jobs, queue, worker>>

-----------------------------------------------------------------------------
(* Cancel and Forget.                                                      *)

(* Mutant: a job that ended is marked cancelled all the same.              *)
CancelAnyway(j) ==
  /\ j \in jobs
  /\ state[j] # Cancelled
  /\ state' = [state EXCEPT ![j] = Cancelled]
  /\ cancelling' = IF j \in begun THEN cancelling \union {j} ELSE cancelling
  /\ Broadcast(j, Cancelled)
  /\ UNCHANGED <<reqVars, queue, worker, cur, begun, ctxDone, fileVars>>

(* The job is marked under the lock ...                                    *)
Cancel(j) ==
  /\ j \in jobs
  /\ state[j] \notin {Done, Failed, Cancelled}
  /\ state' = [state EXCEPT ![j] = Cancelled]
  /\ cancelling' = IF j \in begun THEN cancelling \union {j} ELSE cancelling
  /\ Broadcast(j, Cancelled)
  /\ UNCHANGED <<reqVars, queue, worker, cur, begun, ctxDone, fileVars>>

(* Mutant: the context is left alone.                                      *)
CancelNothing(j) ==
  /\ j \in cancelling
  /\ cancelling' = cancelling \ {j}
  /\ UNCHANGED <<reqVars, state, queue, worker, cur, begun, ctxDone, fileVars, feedVars>>

(* ... and its context cancelled after it.                                 *)
CallCancel(j) ==
  /\ j \in cancelling
  /\ cancelling' = cancelling \ {j}
  /\ ctxDone' = ctxDone \union {j}
  /\ UNCHANGED <<reqVars, state, queue, worker, cur, begun, fileVars, feedVars>>

Forget(j) ==
  /\ j \in jobs
  /\ state[j] \in {Done, Failed, Cancelled}
  /\ jobs' = jobs \ {j}
  /\ UNCHANGED <<request, state, queue, worker, cur, cancelVars, fileVars, feedVars>>

-----------------------------------------------------------------------------
(* The worker of a target.                                                 *)

Go(w, from, to) ==
  /\ worker[w] = from
  /\ worker' = [worker EXCEPT ![w] = to]
  /\ UNCHANGED reqVars

Take(w) ==
  /\ Go(w, "idle", "taken")
  /\ queue[TargetOf[w]] # <<>>
  /\ cur' = [cur EXCEPT ![w] = Head(queue[TargetOf[w]])]
  /\ queue' = [queue EXCEPT ![TargetOf[w]] = Tail(@)]
  /\ UNCHANGED <<state, cancelVars, fileVars, feedVars>>

(* A job cancelled while it was queued is skipped.                         *)
Skip(w) ==
  /\ Go(w, "taken", "idle")
  /\ state[cur[w]] = Cancelled
  /\ cur' = [cur EXCEPT ![w] = None]
  /\ UNCHANGED <<state, queue, cancelVars, fileVars, feedVars>>

(* Mutant: run does not look at the state.                                 *)
BeginAnyway(w) ==
  /\ Go(w, "taken", "begun")
  /\ begun' = begun \union {cur[w]}
  /\ UNCHANGED <<state, queue, cur, cancelling, ctxDone, fileVars, feedVars>>

Begin(w) ==
  /\ Go(w, "taken", "begun")
  /\ state[cur[w]] # Cancelled
  /\ begun' = begun \union {cur[w]}
  /\ UNCHANGED <<state, queue, cur, cancelling, ctxDone, fileVars, feedVars>>

(* setState: the state is stored, whatever it was ...                      *)
SetState(w, from, st) ==
  /\ Go(w, from, st)
  /\ state' = [state EXCEPT ![cur[w]] = st]
  /\ UNCHANGED <<queue, cur, cancelVars, fileVars, feedVars>>

(* ... and then broadcast.                                                 *)
Tell(w, from, to) ==
  /\ Go(w, from, to)
  /\ Broadcast(cur[w], state[cur[w]])
  /\ cur' = IF to = "idle" THEN [cur EXCEPT ![w] = None] ELSE cur
  /\ UNCHANGED <<state, queue, cancelVars, fileVars>>

(* client.Prepare returns with tokens for some of the files, or with the   *)
(* 204 that asks for none.                                                 *)
Granted(w) ==
  /\ Go(w, "asking", "granted")
  /\ \E n \in 0 .. FileCount[cur[w]] : granted' = [granted EXCEPT ![cur[w]] = n]
  /\ UNCHANGED <<state, queue, cur, cancelVars, sent, feedVars>>

NothingNeeded(w) ==
  /\ Go(w, "asking", "over")
  /\ UNCHANGED <<state, queue, cur, cancelVars, fileVars, feedVars>>

(* The loop over the files, those without a token passed over.             *)
NextFile(w) ==
  /\ Go(w, "loop", IF sent[cur[w]] < granted[cur[w]] THEN "uploading" ELSE "over")
  /\ UNCHANGED <<state, queue, cur, cancelVars, fileVars, feedVars>>

Progress(w) ==
  /\ worker[w] = "uploading"
  /\ Broadcast(cur[w], state[cur[w]])
  /\ UNCHANGED <<reqVars, state, queue, worker, cur, cancelVars, fileVars>>

FileSent(w) ==
  /\ Go(w, "uploading", "counted")
  /\ sent' = [sent EXCEPT ![cur[w]] = @ + 1]
  /\ UNCHANGED <<state, queue, cur, cancelVars, granted, feedVars>>

(* Mutant: a failed upload is passed over like a file without a token.     *)
CallFailsSoftly(w) ==
  /\ \/ Go(w, "asking", "failing")
     \/ Go(w, "uploading", "over")
  /\ UNCHANGED <<state, queue, cur, cancelVars, fileVars, feedVars>>

(* The receiver refuses, the connection breaks, the file cannot be opened  *)
(* or the context is cancelled.                                            *)
CallFails(w) ==
  /\ \/ Go(w, "asking", "failing")
     \/ Go(w, "uploading", "failing")
  /\ UNCHANGED <<state, queue, cur, cancelVars, fileVars, feedVars>>

(* Only an answer cut off in its body yields an error that is, for         *)
(* errors.Is, context.Canceled: client.go's SendError wraps nothing.       *)
CutOff(w) ==
  /\ Go(w, "asking", "unwinding")
  /\ cur[w] \in ctxDone
  /\ UNCHANGED <<state, queue, cur, cancelVars, fileVars, feedVars>>

(* Mutant: a failure is shown as the receiver's refusal.                   *)
FailAsDeclined(w) ==
  /\ \/ Go(w, "failing", "idle")
     \/ Go(w, "unwinding", "idle")
  /\ LET st == IF state[cur[w]] = Cancelled THEN Cancelled ELSE Declined
     IN /\ state' = [state EXCEPT ![cur[w]] = st]
        /\ Broadcast(cur[w], st)
  /\ cur' = [cur EXCEPT ![w] = None]
  /\ UNCHANGED <<queue, cancelVars, fileVars>>

(* Mutant: a job that failed is tried again at once.                       *)
FailRetries(w) ==
  /\ \/ Go(w, "failing", "begun")
     \/ Go(w, "unwinding", "begun")
  /\ UNCHANGED <<state, queue, cur, cancelVars, fileVars, feedVars>>

(* fail: the state and the broadcast under one lock.                       *)
Fail(w) ==
  /\ \/ Go(w, "failing", "idle")
     \/ Go(w, "unwinding", "idle")
  /\ LET st == IF state[cur[w]] = Cancelled \/ worker[w] = "unwinding" THEN Cancelled
                                                                      ELSE Failed
     IN /\ state' = [state EXCEPT ![cur[w]] = st]
        /\ Broadcast(cur[w], st)
  /\ cur' = [cur EXCEPT ![w] = None]
  /\ UNCHANGED <<queue, cancelVars, fileVars>>

-----------------------------------------------------------------------------
(* What a worker does without the receiver, in the order of run.           *)
WorkerStep(w) ==
  \/ Take(w) \/ Skip(w) \/ Begin(w) \/ NextFile(w) \/ Fail(w)
  \/ SetState(w, "begun", Preparing) \/ Tell(w, Preparing, "ready")
  \/ SetState(w, "ready", AwaitingAccept) \/ Tell(w, AwaitingAccept, "asking")
  \/ SetState(w, "granted", Sending) \/ Tell(w, Sending, "loop")
  \/ Tell(w, "counted", "loop")
  \/ SetState(w, "over", Done) \/ Tell(w, Done, "idle")

(* What the receiver or the network makes it do.                           *)
CallStep(w) ==
  Granted(w) \/ NothingNeeded(w) \/ Progress(w) \/ FileSent(w) \/ CallFails(w) \/ CutOff(w)

DeliverStep(s) ==
  /\ Deliver(s)
  /\ UNCHANGED <<reqVars, state, queue, worker, cur, cancelVars, fileVars>>
BrowserStep(s) ==
  /\ Disconnect(s) \/ \E j \in jobs : Subscribe(s, j, state[j])
  /\ UNCHANGED <<reqVars, state, queue, worker, cur, cancelVars, fileVars>>

(* Every request was answered and every worker waits for the next job.     *)
Rest ==
  /\ \A j \in Job : request[j] \in {"enqueued", "refused"} /\ j \notin cancelling
  /\ \A w \in Worker : worker[w] \in {"none", "idle"} /\ queue[TargetOf[w]] = <<>>
  /\ UNCHANGED vars

Next ==
  \/ \E j \in Job : \/ Register(j) \/ Enqueue(j) \/ Refuse(j)
                    \/ Cancel(j) \/ CallCancel(j) \/ Forget(j)
  \/ \E w \in Worker : WorkerStep(w) \/ CallStep(w)
  \/ \E s \in Stream : DeliverStep(s) \/ BrowserStep(s)
  \/ Rest

Spec == Init /\ [][Next]_vars

(* The program's own goroutines run on, a call whose context is done       *)
(* returns, and a browser that stays connected reads.  Receivers need not  *)
(* answer and users need do nothing.                                       *)
Returns(w) == cur[w] \in ctxDone /\ (CallFails(w) \/ CutOff(w))
FairSpec ==
  /\ Spec
  /\ \A j \in Job : WF_vars(Enqueue(j) \/ Refuse(j)) /\ WF_vars(CallCancel(j))
  /\ \A w \in Worker : WF_vars(WorkerStep(w)) /\ WF_vars(Returns(w))
  /\ \A s \in Stream : WF_vars(DeliverStep(s))

-----------------------------------------------------------------------------
(* Properties that hold.                                                   *)

(* manager.go:3, "One active job per target; further jobs queue": never    *)
(* two jobs of one target in a state between preparing and the end, even   *)
(* when one was cancelled, requests race, or a queue was full.             *)
Active == {Preparing, AwaitingAccept, Sending}
OneActivePerTarget ==
  \A j, k \in Job :
    state[j] \in Active /\ state[k] \in Active /\ TargetOf[j] = TargetOf[k] => j = k

(* The same promise as a service: in order, one at a time, each job at     *)
(* most once, none that was turned away.                                   *)
Waits(j) == \E i \in DOMAIN queue[TargetOf[j]] : queue[TargetOf[j]][i] = j
Service == INSTANCE JobService WITH
  line   <- queue,
  served <- [t \in Target |-> {cur[w] : w \in {v \in Worker : TargetOf[v] = t /\ cur[v] # None}}],
  over   <- {j \in Job : /\ request[j] \in {"enqueued", "refused"}
                         /\ ~Waits(j)
                         /\ \A w \in Worker : cur[w] # j}
ServesInOrder == Service!Spec

(* A job shown as done or failed is over: it is in no queue, and no worker *)
(* is still talking to the receiver for it.                                *)
EndedMeansOver ==
  \A j \in Job : state[j] \in {Done, Failed} =>
    ~Waits(j) /\ \A w \in Worker : cur[w] = j => worker[w] = Done

(* What is shown as done or failed stays so: Cancel's check against the    *)
(* worker's setState and Send's own failure path.                          *)
EndIsFinal ==
  [][\A j \in Job : state[j] \in {Done, Failed} => state'[j] = state[j]]_vars

(* A job is done only when every file that the receiver asked for was      *)
(* taken by it.                                                            *)
DoneMeansSent == \A j \in Job : state[j] = Done => sent[j] = granted[j]

(* A job cancelled before its worker began it is never offered to the      *)
(* receiver.                                                               *)
QueuedCancelHolds ==
  [][\A j \in Job : state[j] = Cancelled /\ j \notin begun =>
       state'[j] \in {Cancelled, Failed} /\ j \notin begun']_vars

(* Cancelling a running job frees its worker for the next one, however     *)
(* long the receiver would have kept the call open.                        *)
CancelFreesTheWorker ==
  \A j \in Job : j \in cancelling ~> \A w \in Worker : cur[w] # j

(* No queued job is left behind, unless the worker waits for ever in a     *)
(* call that nobody cancelled.                                             *)
NoJobStarves ==
  \/ \A j \in Job : Waits(j) ~> ~Waits(j)
  \/ <>[](\E w \in Worker : worker[w] \in {"asking", "uploading"} /\ cur[w] \notin ctxDone)

(* A stream that lost no snapshot returns when its job is over, unless the *)
(* job was turned away.                                                    *)
Final == {Done, Failed, Cancelled}
Over(s) == Open(s) /\ state[follows[s]] \in Final
StreamsEndIfTold ==
  \A s \in Stream :
    Over(s) ~> \/ ~Open(s) \/ s \in missed
               \/ \E j \in Job : follows[s] = j /\ request[j] = "refused"
=============================================================================
