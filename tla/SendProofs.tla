----------------------------- MODULE SendProofs -----------------------------
(***************************************************************************)
(* Proofs about Send, for any jobs, targets, capacities and streams.       *)
(* SendInv is the inductive invariant: where a job can be, who works on    *)
(* it, and what its state then is.                                         *)
(***************************************************************************)
EXTENDS Send, TLAPS

(* Every listed, queued or running job was registered, for its target.     *)
Engaged(w) == worker[w] \notin {"none", "idle"}
Registered ==
  /\ \A j \in Job : state[j] = None <=> request[j] = "new"
  /\ \A j \in jobs : request[j] # "new"
Working ==
  \A w \in Worker :
    /\ cur[w] # None <=> Engaged(w)
    /\ cur[w] # None => TargetOf[cur[w]] = TargetOf[w] /\ request[cur[w]] = "enqueued"
Lined ==
  \A t \in Target : \A i \in DOMAIN queue[t] :
    TargetOf[queue[t][i]] = t /\ request[queue[t][i]] = "enqueued"
Placed == Registered /\ Working /\ Lined

(* One worker per target; a job is in one place only.                      *)
Single ==
  /\ \A v, w \in Worker :
       worker[v] # "none" /\ worker[w] # "none" /\ TargetOf[v] = TargetOf[w] => v = w
  /\ \A t \in Target : \A i, k \in DOMAIN queue[t] : queue[t][i] = queue[t][k] => i = k
  /\ \A t \in Target : \A i \in DOMAIN queue[t] : \A w \in Worker : cur[w] # queue[t][i]

(* What the state of a job can be, given where the job is.                 *)
Early == {Queued, Cancelled}
Shown ==
  /\ \A j \in Job : request[j] = "registered" => state[j] \in Early
  /\ \A j \in Job : request[j] = "refused" => state[j] = Failed
  /\ \A t \in Target : \A i \in DOMAIN queue[t] : state[queue[t][i]] \in Early
  /\ \A w \in Worker : worker[w] = "taken" => state[cur[w]] \in Early
  /\ \A w \in Worker : Engaged(w) /\ worker[w] # Done => state[cur[w]] \notin {Done, Failed}
  /\ \A w \in Worker : worker[w] = Done => state[cur[w]] = Done
  /\ \A j \in Job : state[j] \in Active => \E w \in Worker : cur[w] = j
  /\ \A w \in Worker : Engaged(w) /\ worker[w] # "taken" => cur[w] \in begun

(* How many files are through, given where the worker is.                  *)
Asking == {"taken", "begun", Preparing, "ready", AwaitingAccept, "asking"}
Through(at, got, took) ==
  /\ at \in Asking => got = 0 /\ took = 0
  /\ at \in {"granted", Sending} => took = 0
  /\ at \in {"loop", "counted"} => took <= got
  /\ at = "uploading" => took < got
  /\ at \in {"over", Done} => took = got
Counted ==
  /\ \A j \in Job : request[j] # "enqueued" => granted[j] = 0 /\ sent[j] = 0
  /\ \A t \in Target : \A i \in DOMAIN queue[t] :
       granted[queue[t][i]] = 0 /\ sent[queue[t][i]] = 0
  /\ \A w \in Worker : Engaged(w) => Through(worker[w], granted[cur[w]], sent[cur[w]])
  /\ DoneMeansSent

SendInv == Placed /\ Single /\ Shown /\ Counted

USE DEF Queued, Preparing, AwaitingAccept, Sending, Done, Failed, Cancelled

-----------------------------------------------------------------------------
(* The steps, sorted by what they change.                                  *)
Sets(w) ==
  \/ SetState(w, "begun", Preparing) \/ SetState(w, "ready", AwaitingAccept)
  \/ SetState(w, "granted", Sending) \/ SetState(w, "over", Done)
TellsOn(w) ==
  \/ Tell(w, Preparing, "ready") \/ Tell(w, AwaitingAccept, "asking")
  \/ Tell(w, Sending, "loop") \/ Tell(w, "counted", "loop")
Moves(w) ==
  TellsOn(w) \/ NextFile(w) \/ NothingNeeded(w) \/ CallFails(w) \/ CutOff(w)

coreVars == <<request, state, queue, worker, cur, begun, fileVars>>
Aside ==
  \/ \E j \in Job : CallCancel(j) \/ Forget(j)
  \/ \E w \in Worker : Progress(w)
  \/ \E s \in Stream : DeliverStep(s) \/ BrowserStep(s)
  \/ UNCHANGED vars

LEMMA NextSteps ==
  ASSUME [Next]_vars
  PROVE  \/ \E j \in Job : Register(j) \/ Enqueue(j) \/ Refuse(j) \/ Cancel(j)
         \/ \E w \in Worker : \/ Take(w) \/ Skip(w) \/ Begin(w) \/ Fail(w) \/ Sets(w)
                              \/ Moves(w) \/ Tell(w, Done, "idle") \/ Granted(w) \/ FileSent(w)
         \/ Aside
BY DEF Next, WorkerStep, CallStep, Rest, Sets, Moves, TellsOn, Aside

LEMMA AsideKeeps ==
  ASSUME Aside
  PROVE  UNCHANGED coreVars /\ jobs' \subseteq jobs
BY DEF Aside, CallCancel, Forget, Progress, DeliverStep, BrowserStep, vars, reqVars, coreVars,
       fileVars, cancelVars

LEMMA Members ==
  ASSUME TypeOK
  PROVE  /\ \A w \in Worker : cur[w] # None => cur[w] \in Job
         /\ \A t \in Target : \A i \in DOMAIN queue[t] : queue[t][i] \in Job
         /\ jobs \subseteq Job
BY DEF TypeOK

(* What the steps do, in the terms of the invariant.                       *)
LEMMA RegisterDoes ==
  ASSUME TypeOK, NEW j \in Job, Register(j)
  PROVE  /\ \A k \in Job : k # j => request'[k] = request[k] /\ state'[k] = state[k]
         /\ request[j] = "new" /\ request'[j] = "registered" /\ state'[j] = Queued
         /\ UNCHANGED <<queue, cur, begun, granted, sent>> /\ jobs' = jobs \union {j}
         /\ \A w \in Worker : \/ worker'[w] = worker[w]
                              \/ /\ w = j /\ worker'[w] = "idle"
                                 /\ ~HasQueue(TargetOf[j])
<1>1. ASSUME NEW w \in Worker, worker'[w] # worker[w]
      PROVE  w = j /\ worker'[w] = "idle" /\ ~HasQueue(TargetOf[j])
  BY <1>1 DEF Register, TypeOK
<1> QED
  BY <1>1 DEF Register, Ask, TypeOK, cancelVars, fileVars

LEMMA AppendIndex ==
  ASSUME NEW S, NEW q \in Seq(S), NEW x \in S, NEW i \in DOMAIN Append(q, x)
  PROVE  (i \in DOMAIN q /\ Append(q, x)[i] = q[i]) \/ (i = Len(q) + 1 /\ Append(q, x)[i] = x)
OBVIOUS

LEMMA TailIndex ==
  ASSUME NEW S, NEW q \in Seq(S), q # <<>>, NEW i \in DOMAIN q, i # 1
  PROVE  i - 1 \in DOMAIN Tail(q) /\ Tail(q)[i - 1] = q[i]
<1>1. i \in 1 .. Len(q) /\ Len(q) \in Nat /\ Len(Tail(q)) = Len(q) - 1
  OBVIOUS
<1>2. i - 1 \in 1 .. Len(q) - 1
  BY <1>1
<1> QED
  BY <1>1, <1>2

LEMMA EnqueueDoes ==
  ASSUME TypeOK, NEW j \in Job, Enqueue(j)
  PROVE  /\ \A t \in Target : \A i \in DOMAIN queue'[t] :
              \/ i \in DOMAIN queue[t] /\ queue'[t][i] = queue[t][i]
              \/ t = TargetOf[j] /\ i = Len(queue[t]) + 1 /\ queue'[t][i] = j
         /\ \A k \in Job : k # j => request'[k] = request[k]
         /\ request'[j] = "enqueued" /\ request[j] = "registered"
         /\ UNCHANGED <<jobs, state, worker, cur, begun, granted, sent>>
<1> USE SendAssumption DEF SendAssumption
<1>1. \A t \in Target : \A i \in DOMAIN queue'[t] :
        \/ i \in DOMAIN queue[t] /\ queue'[t][i] = queue[t][i]
        \/ t = TargetOf[j] /\ i = Len(queue[t]) + 1 /\ queue'[t][i] = j
  <2> TAKE t \in Target
  <2>1. queue[t] \in Seq(Job)
    BY DEF TypeOK
  <2>2. CASE t = TargetOf[j]
    <3>1. queue'[t] = Append(queue[t], j)
      BY <2>2 DEF Enqueue, TypeOK
    <3> QED
      BY <2>1, <2>2, <3>1, AppendIndex
  <2>3. CASE t # TargetOf[j]
    <3>1. queue'[t] = queue[t]
      BY <2>3 DEF Enqueue, TypeOK
    <3> QED
      BY <3>1
  <2> QED
    BY <2>2, <2>3
<1> QED
  BY <1>1 DEF Enqueue, Ask, TypeOK, cancelVars, fileVars

LEMMA RefuseDoes ==
  ASSUME TypeOK, NEW j \in Job, Refuse(j)
  PROVE  /\ \A k \in Job : k # j => request'[k] = request[k] /\ state'[k] = state[k]
         /\ request'[j] = "refused" /\ request[j] = "registered" /\ state'[j] = Failed
         /\ UNCHANGED <<jobs, queue, worker, cur, begun, granted, sent>>
BY DEF Refuse, Ask, TypeOK, cancelVars, fileVars

LEMMA CancelDoes ==
  ASSUME TypeOK, NEW j \in Job, Cancel(j)
  PROVE  /\ \A k \in Job : k # j => state'[k] = state[k]
         /\ j \in jobs /\ state[j] \notin {Done, Failed} /\ state'[j] = Cancelled
         /\ UNCHANGED <<jobs, request, queue, worker, cur, begun, granted, sent>>
BY DEF Cancel, TypeOK, reqVars, fileVars

LEMMA TakeDoes ==
  ASSUME TypeOK, NEW w \in Worker, Take(w)
  PROVE  /\ worker[w] = "idle" /\ worker'[w] = "taken"
         /\ TargetOf[w] \in Target
         /\ 1 \in DOMAIN queue[TargetOf[w]] /\ cur'[w] = queue[TargetOf[w]][1]
         /\ \A v \in Worker : v # w => cur'[v] = cur[v] /\ worker'[v] = worker[v]
         /\ \A i \in DOMAIN queue'[TargetOf[w]] :
              /\ i \in Nat /\ i + 1 # 1 /\ i + 1 \in DOMAIN queue[TargetOf[w]]
              /\ queue'[TargetOf[w]][i] = queue[TargetOf[w]][i + 1]
         /\ \A t \in Target : t # TargetOf[w] => queue'[t] = queue[t]
         /\ UNCHANGED <<jobs, request, state, begun, granted, sent>>
<1> USE SendAssumption DEF SendAssumption, Worker
<1> DEFINE t == TargetOf[w]
<1>1. t \in Target /\ queue[t] \in Seq(Job) /\ queue[t] # <<>>
  BY DEF Take, TypeOK
<1>2. Head(queue[t]) = queue[t][1] /\ 1 \in DOMAIN queue[t] /\ Head(queue[t]) \in Job
  BY <1>1
<1>3. \A i \in DOMAIN Tail(queue[t]) :
        i \in Nat /\ i + 1 # 1 /\ i + 1 \in DOMAIN queue[t] /\ Tail(queue[t])[i] = queue[t][i + 1]
  BY <1>1
<1>4. queue'[t] = Tail(queue[t]) /\ \A u \in Target : u # t => queue'[u] = queue[u]
  BY <1>1 DEF Take, TypeOK
<1>5. \A v \in Worker : v # w => cur'[v] = cur[v] /\ worker'[v] = worker[v]
  BY DEF Take, Go, TypeOK
<1>6. cur'[w] = queue[t][1] /\ worker[w] = "idle" /\ worker'[w] = "taken"
  BY <1>2 DEF Take, Go, TypeOK
<1>7. UNCHANGED <<jobs, request, state, begun, granted, sent>>
  BY DEF Take, Go, cancelVars, fileVars, reqVars
<1> QED
  BY <1>1, <1>2, <1>3, <1>4, <1>5, <1>6, <1>7

(* The worker leaves its job.                                              *)
LEMMA LeaveDoes ==
  ASSUME TypeOK, NEW w \in Worker, cur[w] \in Job,
         Skip(w) \/ Tell(w, Done, "idle") \/ Fail(w)
  PROVE  /\ Engaged(w) /\ cur'[w] = None /\ worker'[w] = "idle"
         /\ \A v \in Worker : v # w => cur'[v] = cur[v] /\ worker'[v] = worker[v]
         /\ \A k \in Job : k # cur[w] => state'[k] = state[k]
         /\ \/ state'[cur[w]] = state[cur[w]] /\ worker[w] = "taken" /\ state[cur[w]] = Cancelled
            \/ state'[cur[w]] = state[cur[w]] /\ worker[w] = Done
            \/ /\ worker[w] \in {"failing", "unwinding"}
               /\ state'[cur[w]] \in {Failed, Cancelled}
               /\ state[cur[w]] = Cancelled => state'[cur[w]] = Cancelled
         /\ UNCHANGED <<jobs, request, queue, begun, granted, sent>>
<1> USE DEF Go, Engaged, reqVars, cancelVars, fileVars
<1>1. CASE Skip(w)
  BY <1>1 DEF Skip, TypeOK
<1>2. CASE Tell(w, Done, "idle")
  BY <1>2 DEF Tell, TypeOK
<1>3. CASE Fail(w)
  <2>1. worker[w] \in {"failing", "unwinding"} /\ worker' = [worker EXCEPT ![w] = "idle"]
        /\ cur' = [cur EXCEPT ![w] = None]
        /\ UNCHANGED <<jobs, request, queue, begun, granted, sent>>
    BY <1>3 DEF Fail
  <2>2. \E st \in {Failed, Cancelled} : /\ state' = [state EXCEPT ![cur[w]] = st]
                                        /\ state[cur[w]] = Cancelled => st = Cancelled
    BY <1>3 DEF Fail
  <2> QED
    BY <2>1, <2>2 DEF TypeOK
<1> QED
  BY <1>1, <1>2, <1>3

(* The worker goes on with it.                                             *)
LEMMA WorkDoes ==
  ASSUME TypeOK, NEW w \in Worker, cur[w] \in Job,
         Begin(w) \/ Moves(w) \/ Granted(w) \/ FileSent(w) \/ Sets(w)
  PROVE  /\ Engaged(w) /\ worker[w] # Done /\ worker'[w] \notin {"none", "idle", "taken"}
         /\ worker'[w] = Done <=> worker[w] = "over"
         /\ \A v \in Worker : v # w => worker'[v] = worker[v]
         /\ \A k \in Job : k # cur[w] => state'[k] = state[k]
         /\ \/ state'[cur[w]] = state[cur[w]] /\ worker[w] # "over"
            \/ worker[w] \notin {"taken", "over"} /\ state'[cur[w]] \in Active
            \/ worker[w] = "over" /\ state'[cur[w]] = Done
         /\ worker[w] = "taken" => begun' = begun \union {cur[w]} /\ state[cur[w]] # Cancelled
         /\ worker[w] # "taken" => begun' = begun
         /\ UNCHANGED <<jobs, request, queue, cur>>
<1> USE DEF Go, Engaged, Active, reqVars, cancelVars, fileVars
<1>1. CASE Begin(w)
  BY <1>1 DEF Begin, TypeOK
<1>2. CASE Moves(w)
  BY <1>2 DEF Moves, TellsOn, Tell, NextFile, NothingNeeded, CallFails, CutOff, TypeOK
<1>3. CASE Granted(w) \/ FileSent(w)
  BY <1>3 DEF Granted, FileSent, TypeOK
<1>4. CASE Sets(w)
  <2>1. PICK from, st :
          /\ SetState(w, from, st)
          /\ \/ from \in {"begun", "ready", "granted"} /\ st \in Active
             \/ from = "over" /\ st = Done
    BY <1>4 DEF Sets
  <2>2. worker[w] = from /\ worker' = [worker EXCEPT ![w] = st]
        /\ state' = [state EXCEPT ![cur[w]] = st]
        /\ UNCHANGED <<jobs, request, queue, cur, begun>>
    BY <2>1 DEF SetState
  <2> QED
    BY <2>1, <2>2 DEF TypeOK
<1> QED
  BY <1>1, <1>2, <1>3, <1>4

-----------------------------------------------------------------------------
LEMMA PlacedInit == ASSUME Init PROVE Placed
BY FeedAssumption DEF Init, Placed, Registered, Working, Lined, Engaged, Worker

LEMMA PlacedStep ==
  ASSUME TypeOK, Placed, [Next]_vars
  PROVE  Placed'
<1> USE FeedAssumption, SendAssumption
    DEF FeedAssumption, SendAssumption, JobStates, Worker, Engaged
<1>1. ASSUME NEW j \in Job, Register(j)
      PROVE  Placed'
  <2>1. Registered'
    <3>1. \A k \in Job : state'[k] = None <=> request'[k] = "new"
      BY <1>1, RegisterDoes DEF Placed, Registered
    <3>2. \A k \in jobs' : request'[k] # "new"
      BY <1>1, RegisterDoes, Members DEF Placed, Registered
    <3> QED
      BY <3>1, <3>2 DEF Registered
  <2>2. \A w \in Worker : Engaged(w)' <=> Engaged(w)
    BY <1>1, RegisterDoes DEF HasQueue
  <2>3. Working'
    <3>1. \A w \in Worker : cur[w] # None => request'[cur[w]] = "enqueued"
      BY <1>1, RegisterDoes, Members DEF Placed, Working
    <3> QED
      BY <1>1, <2>2, <3>1, RegisterDoes DEF Placed, Working
  <2>4. Lined'
    BY <1>1, RegisterDoes, Members DEF Placed, Lined
  <2> QED
    BY <2>1, <2>3, <2>4 DEF Placed
<1>2. ASSUME NEW j \in Job, Enqueue(j)
      PROVE  Placed'
  <2>1. Registered'
    BY <1>2, EnqueueDoes DEF Placed, Registered, TypeOK
  <2>2. Working'
    <3>1. \A w \in Worker : cur[w] # None => request'[cur[w]] = "enqueued"
      <4> SUFFICES ASSUME NEW w \in Worker, cur[w] # None
                   PROVE  request'[cur[w]] = "enqueued"
        OBVIOUS
      <4>1. cur[w] \in Job /\ request[cur[w]] = "enqueued"
        BY Members DEF Placed, Working
      <4> QED
        BY <1>2, <4>1, EnqueueDoes
    <3> QED
      BY <1>2, <3>1, EnqueueDoes DEF Placed, Working
  <2>3. Lined'
    <3> SUFFICES ASSUME NEW t \in Target, NEW i \in DOMAIN queue'[t]
                 PROVE  TargetOf[queue'[t][i]] = t /\ request'[queue'[t][i]] = "enqueued"
      BY DEF Lined
    <3>1. CASE i \in DOMAIN queue[t] /\ queue'[t][i] = queue[t][i]
      <4>1. TargetOf[queue[t][i]] = t /\ request[queue[t][i]] = "enqueued"
        BY <3>1 DEF Placed, Lined
      <4>2. queue[t][i] \in Job
        BY <3>1, Members
      <4> QED
        BY <1>2, <3>1, <4>1, <4>2, EnqueueDoes
    <3>2. CASE t = TargetOf[j] /\ queue'[t][i] = j
      BY <1>2, <3>2, EnqueueDoes
    <3> QED
      BY <1>2, <3>1, <3>2, EnqueueDoes
  <2> QED
    BY <2>1, <2>2, <2>3 DEF Placed
<1>3. ASSUME NEW j \in Job, Refuse(j)
      PROVE  Placed'
  <2>1. Registered'
    <3>1. state[j] # None /\ state'[j] # None /\ request[j] # "new" /\ request'[j] # "new"
      BY <1>3, RefuseDoes, FeedAssumption DEF Placed, Registered, FeedAssumption, JobStates
    <3>2. \A k \in Job : k # j => state'[k] = state[k] /\ request'[k] = request[k]
      BY <1>3, RefuseDoes
    <3>3. UNCHANGED jobs /\ jobs \subseteq Job
      BY <1>3, RefuseDoes, Members
    <3> QED
      BY <3>1, <3>2, <3>3 DEF Placed, Registered
  <2>2. Working'
    <3>1. \A w \in Worker : cur[w] # None => request'[cur[w]] = "enqueued"
      BY <1>3, RefuseDoes, Members DEF Placed, Working
    <3> QED
      BY <1>3, <3>1, RefuseDoes DEF Placed, Working
  <2>3. Lined'
    BY <1>3, RefuseDoes, Members DEF Placed, Lined
  <2> QED
    BY <2>1, <2>2, <2>3 DEF Placed
<1>4. ASSUME NEW j \in Job, Cancel(j)
      PROVE  Placed'
  <2>1. Registered'
    BY <1>4, CancelDoes DEF Placed, Registered, TypeOK
  <2>2. Working' /\ Lined'
    BY <1>4, CancelDoes DEF Placed, Working, Lined
  <2> QED
    BY <2>1, <2>2 DEF Placed
<1>5. ASSUME NEW w \in Worker, Take(w)
      PROVE  Placed'
  <2>1. Registered'
    BY <1>5, TakeDoes DEF Placed, Registered
  <2>2. cur'[w] # None /\ TargetOf[cur'[w]] = TargetOf[w] /\ request'[cur'[w]] = "enqueued"
    BY <1>5, TakeDoes, Members DEF Placed, Lined
  <2>3. Working'
    BY <1>5, <2>2, TakeDoes DEF Placed, Working
  <2>4. Lined'
    <3>1. \A t \in Target : \A i \in DOMAIN queue'[t] :
            \E k \in DOMAIN queue[t] : queue'[t][i] = queue[t][k]
      BY <1>5, TakeDoes
    <3> QED
      BY <1>5, <3>1, TakeDoes DEF Placed, Lined
  <2> QED
    BY <2>1, <2>3, <2>4 DEF Placed
<1>6. ASSUME NEW w \in Worker, Skip(w) \/ Tell(w, Done, "idle") \/ Fail(w)
      PROVE  Placed'
  <2>1. cur[w] \in Job /\ request[cur[w]] # "new"
    <3>1. Engaged(w)
      BY <1>6 DEF Skip, Tell, Fail, Go
    <3> QED
      BY <3>1, Members DEF Placed, Working
  <2>2. \A k \in Job : state'[k] = None <=> request[k] = "new"
    BY <1>6, <2>1, LeaveDoes DEF Placed, Registered
  <2>3. Registered'
    BY <1>6, <2>1, <2>2, LeaveDoes DEF Placed, Registered
  <2>4. Working'
    BY <1>6, <2>1, LeaveDoes DEF Placed, Working
  <2>5. Lined'
    BY <1>6, <2>1, LeaveDoes DEF Placed, Lined
  <2> QED
    BY <2>3, <2>4, <2>5 DEF Placed
<1>7. ASSUME NEW w \in Worker, Begin(w) \/ Moves(w) \/ Granted(w) \/ FileSent(w) \/ Sets(w)
      PROVE  Placed'
  <2>1. cur[w] \in Job /\ request[cur[w]] # "new"
    <3>1. Engaged(w)
      BY <1>7 DEF Begin, Moves, TellsOn, Granted, FileSent, Sets, SetState, Tell, NextFile,
                  NothingNeeded, CallFails, CutOff, Go
    <3> QED
      BY <3>1, Members DEF Placed, Working
  <2>2. \A k \in Job : state'[k] = None <=> request[k] = "new"
    BY <1>7, <2>1, WorkDoes DEF Placed, Registered, Active
  <2>3. Registered'
    BY <1>7, <2>1, <2>2, WorkDoes DEF Placed, Registered
  <2>4. Working'
    BY <1>7, <2>1, WorkDoes DEF Placed, Working
  <2>5. Lined'
    BY <1>7, <2>1, WorkDoes DEF Placed, Lined
  <2> QED
    BY <2>3, <2>4, <2>5 DEF Placed
<1>8. CASE Aside
  BY <1>8, AsideKeeps DEF Placed, Registered, Working, Lined, coreVars
<1> QED
  BY <1>1, <1>2, <1>3, <1>4, <1>5, <1>6, <1>7, <1>8, NextSteps

LEMMA Serving ==
  ASSUME TypeOK, Placed, NEW w \in Worker,
         \/ Engaged(w)
         \/ Skip(w) \/ Tell(w, Done, "idle") \/ Fail(w)
         \/ Begin(w) \/ Moves(w) \/ Granted(w) \/ FileSent(w) \/ Sets(w)
  PROVE  /\ Engaged(w) /\ cur[w] \in Job
         /\ TargetOf[cur[w]] = TargetOf[w] /\ request[cur[w]] = "enqueued"
<1>1. Engaged(w)
  BY DEF Engaged, Skip, Tell, Fail, Begin, Moves, TellsOn, Granted, FileSent, Sets, SetState,
         NextFile, NothingNeeded, CallFails, CutOff, Go
<1> QED
  BY <1>1, Members DEF Placed, Working

-----------------------------------------------------------------------------
LEMMA SingleInit == ASSUME Init PROVE Single
BY FeedAssumption, SendAssumption DEF Init, Single, SendAssumption, Worker

LEMMA SingleStep ==
  ASSUME TypeOK, Placed, Single, [Next]_vars
  PROVE  Single'
<1> USE FeedAssumption, SendAssumption
    DEF FeedAssumption, SendAssumption, JobStates, Worker
<1>1. ASSUME NEW j \in Job, Register(j)
      PROVE  Single'
  <2>1. \A v, w \in Worker : worker'[v] # "none" /\ worker'[w] # "none"
                               /\ TargetOf[v] = TargetOf[w] => v = w
    BY <1>1, RegisterDoes DEF Single, HasQueue
  <2> QED
    BY <1>1, <2>1, RegisterDoes DEF Single
<1>2. ASSUME NEW j \in Job, Enqueue(j)
      PROVE  Single'
  <2>1. \A t \in Target : \A i \in DOMAIN queue[t] : queue[t][i] # j
    BY <1>2, EnqueueDoes DEF Placed, Lined
  <2>2. \A w \in Worker : cur[w] # j
    BY <1>2, EnqueueDoes DEF Placed, Working
  <2>3. \A t \in Target : \A i, k \in DOMAIN queue'[t] : queue'[t][i] = queue'[t][k] => i = k
    <3> SUFFICES ASSUME NEW t \in Target, NEW i \in DOMAIN queue'[t], NEW k \in DOMAIN queue'[t],
                        queue'[t][i] = queue'[t][k]
                 PROVE  i = k
      OBVIOUS
    <3> DEFINE Old(n) == n \in DOMAIN queue[t] /\ queue'[t][n] = queue[t][n]
               New(n) == n = Len(queue[t]) + 1 /\ queue'[t][n] = j
    <3>1. (Old(i) \/ New(i)) /\ (Old(k) \/ New(k))
      BY <1>2, EnqueueDoes
    <3>2. Old(i) /\ Old(k) => i = k
      BY DEF Single
    <3>3. ~(Old(i) /\ New(k)) /\ ~(New(i) /\ Old(k))
      BY <2>1
    <3>4. New(i) /\ New(k) => i = k
      OBVIOUS
    <3> HIDE DEF Old, New
    <3> QED
      BY <3>1, <3>2, <3>3, <3>4
  <2>4. \A t \in Target : \A i \in DOMAIN queue'[t] : \A w \in Worker : cur[w] # queue'[t][i]
    BY <1>2, <2>2, EnqueueDoes DEF Single
  <2> QED
    BY <1>2, <2>3, <2>4, EnqueueDoes DEF Single
<1>3. ASSUME NEW j \in Job, Refuse(j) \/ Cancel(j)
      PROVE  Single'
  BY <1>3, RefuseDoes, CancelDoes DEF Single
<1>4. ASSUME NEW w \in Worker, Take(w)
      PROVE  Single'
  <2> DEFINE t == TargetOf[w]
  <2>1. \A v, u \in Worker : worker'[v] # "none" /\ worker'[u] # "none"
                               /\ TargetOf[v] = TargetOf[u] => v = u
    BY <1>4, TakeDoes DEF Single
  <2>2. \A u \in Target : \A i, k \in DOMAIN queue'[u] : queue'[u][i] = queue'[u][k] => i = k
    <3> SUFFICES ASSUME NEW u \in Target, NEW i \in DOMAIN queue'[u], NEW k \in DOMAIN queue'[u],
                        queue'[u][i] = queue'[u][k]
                 PROVE  i = k
      OBVIOUS
    <3>1. CASE u = t
      BY <1>4, <3>1, TakeDoes DEF Single
    <3>2. CASE u # t
      BY <1>4, <3>2, TakeDoes DEF Single
    <3> QED
      BY <3>1, <3>2
  <2>3. ASSUME NEW u \in Target, NEW i \in DOMAIN queue'[u], NEW v \in Worker
        PROVE  cur'[v] # queue'[u][i]
    <3>1. PICK k \in DOMAIN queue[u] : queue'[u][i] = queue[u][k] /\ (u = t => k # 1)
      <4>1. CASE u = t
        <5>1. i + 1 \in DOMAIN queue[t] /\ queue'[t][i] = queue[t][i + 1] /\ i + 1 # 1
          BY <1>4, <4>1, TakeDoes
        <5> QED
          BY <4>1, <5>1
      <4>2. CASE u # t
        BY <1>4, <4>2, TakeDoes
      <4> QED
        BY <4>1, <4>2
    <3>2. CASE v # w
      BY <1>4, <3>1, <3>2, TakeDoes DEF Single
    <3>3. CASE v = w /\ u = t
      BY <1>4, <3>1, <3>3, TakeDoes DEF Single
    <3>4. CASE v = w /\ u # t
      BY <1>4, <3>1, <3>4, TakeDoes DEF Placed, Lined
    <3> QED
      BY <3>2, <3>3, <3>4
  <2> QED
    BY <2>1, <2>2, <2>3 DEF Single
<1>5. ASSUME NEW w \in Worker, Skip(w) \/ Tell(w, Done, "idle") \/ Fail(w)
      PROVE  Single'
  <2>1. \A v \in Worker : worker'[v] # "none" => worker[v] # "none"
    BY <1>5, Serving, LeaveDoes DEF Engaged
  <2>2. \A v \in Worker : cur'[v] = cur[v] \/ cur'[v] = None
    BY <1>5, Serving, LeaveDoes
  <2>3. queue' = queue
    BY <1>5, Serving, LeaveDoes
  <2>4. \A t \in Target : \A i \in DOMAIN queue[t] : queue[t][i] # None
    BY Members
  <2> QED
    BY <2>1, <2>2, <2>3, <2>4 DEF Single
<1>6. ASSUME NEW w \in Worker, Begin(w) \/ Moves(w) \/ Granted(w) \/ FileSent(w) \/ Sets(w)
      PROVE  Single'
  <2>1. \A v \in Worker : worker'[v] # "none" => worker[v] # "none"
    BY <1>6, Serving, WorkDoes DEF Engaged
  <2> QED
    BY <1>6, <2>1, Serving, WorkDoes DEF Single
<1>7. CASE Aside
  BY <1>7, AsideKeeps DEF Single, coreVars
<1> QED
  BY <1>1, <1>2, <1>3, <1>4, <1>5, <1>6, <1>7, NextSteps

(* Two workers never run the same job.                                     *)
LEMMA OneRunner ==
  ASSUME TypeOK, Placed, Single, NEW v \in Worker, NEW w \in Worker, Engaged(v), cur[v] = cur[w]
  PROVE  v = w
<1>1. cur[v] # None /\ Engaged(w)
  BY DEF Placed, Working
<1>2. TargetOf[v] = TargetOf[w]
  BY <1>1 DEF Placed, Working
<1> QED
  BY <1>1, <1>2 DEF Single, Engaged

-----------------------------------------------------------------------------
LEMMA ShownInit == ASSUME Init PROVE Shown
BY FeedAssumption, SendAssumption
DEF Init, Shown, FeedAssumption, SendAssumption, JobStates, Worker, Early, Active, Engaged

LEMMA ShownStep ==
  ASSUME TypeOK, Placed, Single, Shown, [Next]_vars
  PROVE  Shown'
<1> USE FeedAssumption, SendAssumption
    DEF FeedAssumption, SendAssumption, JobStates, Worker, Early, Active
<1>1. ASSUME NEW j \in Job, Register(j)
      PROVE  Shown'
  <2>1. \A w \in Worker : cur[w] # j /\ (Engaged(w)' => Engaged(w) /\ worker'[w] = worker[w])
    BY <1>1, RegisterDoes DEF Placed, Working, Engaged
  <2>2. \A t \in Target : \A i \in DOMAIN queue[t] : queue[t][i] \in Job /\ queue[t][i] # j
    BY <1>1, RegisterDoes, Members DEF Placed, Lined
  <2>3. \A w \in Worker : Engaged(w) => cur[w] \in Job
    BY Serving
  <2>4. \A w \in Worker : worker'[w] \in {"taken", Done} => Engaged(w)'
    BY DEF Engaged
  <2> QED
    BY <1>1, <2>1, <2>2, <2>3, <2>4, RegisterDoes DEF Shown
<1>2. ASSUME NEW j \in Job, Enqueue(j)
      PROVE  Shown'
  <2>1. \A t \in Target : \A i \in DOMAIN queue'[t] : state[queue'[t][i]] \in Early
    BY <1>2, EnqueueDoes DEF Shown
  <2>2. \A w \in Worker : Engaged(w)' <=> Engaged(w)
    BY <1>2, EnqueueDoes DEF Engaged
  <2> QED
    BY <1>2, <2>1, <2>2, EnqueueDoes DEF Shown
<1>3. ASSUME NEW j \in Job, Refuse(j)
      PROVE  Shown'
  <2>1. \A w \in Worker : cur[w] # j /\ (Engaged(w)' <=> Engaged(w))
    BY <1>3, RefuseDoes DEF Placed, Working, Engaged
  <2>2. \A t \in Target : \A i \in DOMAIN queue[t] : queue[t][i] \in Job /\ queue[t][i] # j
    BY <1>3, RefuseDoes, Members DEF Placed, Lined
  <2>3. \A w \in Worker : Engaged(w) => cur[w] \in Job
    BY Serving
  <2>4. \A w \in Worker : worker[w] \in {"taken", Done} => Engaged(w)
    BY DEF Engaged
  <2> QED
    BY <1>3, <2>1, <2>2, <2>3, <2>4, RefuseDoes DEF Shown
<1>4. ASSUME NEW j \in Job, Cancel(j)
      PROVE  Shown'
  <2>1. \A w \in Worker : (Engaged(w)' <=> Engaged(w)) /\ (Engaged(w) => cur[w] \in Job)
    BY <1>4, CancelDoes, Serving DEF Engaged
  <2>2. \A t \in Target : \A i \in DOMAIN queue[t] : queue[t][i] \in Job
    BY Members
  <2>3. \A w \in Worker : worker[w] \in {"taken", Done} => Engaged(w)
    BY DEF Engaged
  <2> QED
    BY <1>4, <2>1, <2>2, <2>3, CancelDoes DEF Shown
<1>5. ASSUME NEW w \in Worker, Take(w)
      PROVE  Shown'
  <2>1. \A t \in Target : \A i \in DOMAIN queue'[t] :
          \E k \in DOMAIN queue[t] : queue'[t][i] = queue[t][k]
    BY <1>5, TakeDoes
  <2>2. \A t \in Target : \A i \in DOMAIN queue'[t] : state[queue'[t][i]] \in Early
    BY <2>1 DEF Shown
  <2>3. state[cur'[w]] \in Early
    BY <1>5, TakeDoes DEF Shown
  <2>4. ~Engaged(w) /\ cur[w] = None
    BY <1>5, TakeDoes DEF Engaged, Placed, Working
  <2>5. ASSUME NEW j \in Job, state[j] \in Active
        PROVE  \E v \in Worker : cur'[v] = j
    <3>1. PICK v \in Worker : cur[v] = j
      BY <2>5 DEF Shown
    <3> QED
      BY <1>5, <2>4, <3>1, TakeDoes
  <2>6. \A v \in Worker : v # w => (Engaged(v)' <=> Engaged(v))
    BY <1>5, TakeDoes DEF Engaged
  <2> QED
    BY <1>5, <2>2, <2>3, <2>5, <2>6, TakeDoes DEF Shown
<1>6. ASSUME NEW w \in Worker, Skip(w) \/ Tell(w, Done, "idle") \/ Fail(w)
      PROVE  Shown'
  <2>1. cur[w] \in Job /\ request[cur[w]] = "enqueued" /\ Engaged(w)
    BY <1>6, Serving
  <2>2. \A v \in Worker : Engaged(v)' => v # w /\ Engaged(v) /\ cur[v] \in Job /\ cur[v] # cur[w]
    BY <1>6, <2>1, LeaveDoes, Serving, OneRunner DEF Engaged
  <2>3. \A t \in Target : \A i \in DOMAIN queue[t] : queue[t][i] \in Job /\ queue[t][i] # cur[w]
    BY Members DEF Single
  <2>4. state'[cur[w]] \notin Active
    BY <1>6, <2>1, LeaveDoes DEF Shown
  <2>5. \A v \in Worker : worker'[v] \in {"taken", Done} => Engaged(v)'
    BY DEF Engaged
  <2>6. ASSUME NEW j \in Job, state'[j] \in Active
        PROVE  \E v \in Worker : cur'[v] = j
    <3>1. j # cur[w] /\ state[j] \in Active
      BY <1>6, <2>1, <2>4, <2>6, LeaveDoes
    <3>2. PICK v \in Worker : cur[v] = j
      BY <3>1 DEF Shown
    <3> QED
      BY <1>6, <2>1, <3>1, <3>2, LeaveDoes
  <2> QED
    BY <1>6, <2>1, <2>2, <2>3, <2>5, <2>6, LeaveDoes DEF Shown
<1>7. ASSUME NEW w \in Worker, Begin(w) \/ Moves(w) \/ Granted(w) \/ FileSent(w) \/ Sets(w)
      PROVE  Shown'
  <2>1. cur[w] \in Job /\ request[cur[w]] = "enqueued" /\ Engaged(w)
    BY <1>7, Serving
  <2>2. \A v \in Worker : Engaged(v)' => Engaged(v) /\ cur[v] \in Job /\ (v # w => cur[v] # cur[w])
    BY <1>7, <2>1, WorkDoes, Serving, OneRunner DEF Engaged
  <2>3. \A t \in Target : \A i \in DOMAIN queue[t] : queue[t][i] \in Job /\ queue[t][i] # cur[w]
    BY Members DEF Single
  <2>4. worker'[w] # Done => state'[cur[w]] \notin {Done, Failed}
    BY <1>7, <2>1, WorkDoes DEF Shown
  <2>5. worker'[w] = Done => state'[cur[w]] = Done
    BY <1>7, <2>1, WorkDoes
  <2>6. \A v \in Worker : worker'[v] \in {"taken", Done} => Engaged(v)'
    BY DEF Engaged
  <2>7. ASSUME NEW j \in Job, state'[j] \in Active
        PROVE  \E v \in Worker : cur'[v] = j
    BY <1>7, <2>1, <2>7, WorkDoes DEF Shown
  <2>8. cur[w] \in begun' /\ begun \subseteq begun'
    BY <1>7, <2>1, WorkDoes DEF Shown
  <2> QED
    BY <1>7, <2>1, <2>2, <2>3, <2>4, <2>5, <2>6, <2>7, <2>8, WorkDoes DEF Shown
<1>8. CASE Aside
  BY <1>8, AsideKeeps DEF Shown, Engaged, coreVars
<1> QED
  BY <1>1, <1>2, <1>3, <1>4, <1>5, <1>6, <1>7, <1>8, NextSteps

-----------------------------------------------------------------------------
LEMMA CountsDo ==
  ASSUME TypeOK, NEW w \in Worker, cur[w] \in Job,
         Begin(w) \/ Moves(w) \/ Granted(w) \/ FileSent(w) \/ Sets(w),
         Through(worker[w], granted[cur[w]], sent[cur[w]])
  PROVE  /\ \A k \in Job : k # cur[w] => granted'[k] = granted[k] /\ sent'[k] = sent[k]
         /\ Through(worker'[w], granted'[cur[w]], sent'[cur[w]])
<1> DEFINE c == cur[w]
<1> USE DEF Go, Through, Asking
<1>1. CASE Begin(w) \/ TellsOn(w) \/ Sets(w)
  <2>1. UNCHANGED <<granted, sent>>
    BY <1>1 DEF Begin, TellsOn, Sets, SetState, Tell, fileVars
  <2>2. \/ worker[w] \in Asking /\ worker'[w] \in Asking
        \/ worker[w] = "granted" /\ worker'[w] = Sending
        \/ worker[w] \in {Sending, "counted"} /\ worker'[w] = "loop"
        \/ worker[w] = "over" /\ worker'[w] = Done
    BY <1>1 DEF Begin, TellsOn, Sets, SetState, Tell, TypeOK
  <2> QED
    BY <2>1, <2>2 DEF TypeOK
<1>2. CASE NextFile(w)
  <2>1. UNCHANGED <<granted, sent>> /\ worker[w] = "loop"
        /\ worker'[w] = IF sent[c] < granted[c] THEN "uploading" ELSE "over"
    BY <1>2 DEF NextFile, fileVars, TypeOK
  <2> QED
    BY <2>1 DEF TypeOK
<1>3. CASE NothingNeeded(w) \/ CallFails(w) \/ CutOff(w)
  <2>1. UNCHANGED <<granted, sent>>
        /\ \/ worker[w] = "asking" /\ worker'[w] = "over"
           \/ worker'[w] \in {"failing", "unwinding"}
    BY <1>3 DEF NothingNeeded, CallFails, CutOff, fileVars, TypeOK
  <2> QED
    BY <2>1
<1>4. CASE Granted(w)
  <2>1. /\ sent' = sent /\ worker[w] = "asking" /\ worker'[w] = "granted"
        /\ \A k \in Job : k # c => granted'[k] = granted[k]
    BY <1>4 DEF Granted, TypeOK
  <2> QED
    BY <2>1
<1>5. CASE FileSent(w)
  <2>1. /\ granted' = granted /\ worker[w] = "uploading" /\ worker'[w] = "counted"
        /\ \A k \in Job : k # c => sent'[k] = sent[k]
        /\ sent'[c] = sent[c] + 1
    BY <1>5 DEF FileSent, TypeOK
  <2> QED
    BY <2>1 DEF TypeOK
<1> QED
  BY <1>1, <1>2, <1>3, <1>4, <1>5 DEF Moves

LEMMA CountedInit == ASSUME Init PROVE Counted
BY FeedAssumption, SendAssumption
DEF Init, Counted, FeedAssumption, SendAssumption, JobStates, Worker, Engaged, DoneMeansSent

LEMMA CountedStep ==
  ASSUME TypeOK, Placed, Single, Shown, Counted, [Next]_vars
  PROVE  Counted'
<1> USE FeedAssumption, SendAssumption
    DEF FeedAssumption, SendAssumption, JobStates, Worker, Early, Active
<1>1. ASSUME NEW j \in Job, Register(j) \/ Refuse(j)
      PROVE  Counted'
  <2>1. \A w \in Worker : Engaged(w)' => Engaged(w) /\ worker'[w] = worker[w]
    BY <1>1, RegisterDoes, RefuseDoes DEF Engaged
  <2>2. UNCHANGED <<queue, cur, granted, sent>>
    BY <1>1, RegisterDoes, RefuseDoes
  <2>3. \A k \in Job : state'[k] = Done => state[k] = Done
    BY <1>1, RegisterDoes, RefuseDoes
  <2>4. \A k \in Job : request'[k] # "enqueued" => request[k] # "enqueued"
    BY <1>1, RegisterDoes, RefuseDoes
  <2> QED
    BY <2>1, <2>2, <2>3, <2>4 DEF Counted, DoneMeansSent
<1>2. ASSUME NEW j \in Job, Enqueue(j)
      PROVE  Counted'
  <2>1. \A w \in Worker : Engaged(w)' <=> Engaged(w)
    BY <1>2, EnqueueDoes DEF Engaged
  <2>2. \A t \in Target : \A i \in DOMAIN queue'[t] :
          granted[queue'[t][i]] = 0 /\ sent[queue'[t][i]] = 0
    BY <1>2, EnqueueDoes DEF Counted
  <2>3. UNCHANGED <<worker, cur, granted, sent, state>>
    BY <1>2, EnqueueDoes
  <2>4. \A k \in Job : request'[k] # "enqueued" => request[k] # "enqueued"
    BY <1>2, EnqueueDoes
  <2> QED
    BY <2>1, <2>2, <2>3, <2>4 DEF Counted, DoneMeansSent
<1>3. ASSUME NEW j \in Job, Cancel(j)
      PROVE  Counted'
  <2>1. \A w \in Worker : Engaged(w)' <=> Engaged(w)
    BY <1>3, CancelDoes DEF Engaged
  <2>2. \A k \in Job : state'[k] = Done => state[k] = Done
    BY <1>3, CancelDoes
  <2> QED
    BY <1>3, <2>1, <2>2, CancelDoes DEF Counted, DoneMeansSent
<1>4. ASSUME NEW w \in Worker, Take(w)
      PROVE  Counted'
  <2>1. \A t \in Target : \A i \in DOMAIN queue'[t] :
          \E k \in DOMAIN queue[t] : queue'[t][i] = queue[t][k]
    BY <1>4, TakeDoes
  <2>2. \A t \in Target : \A i \in DOMAIN queue'[t] :
          granted[queue'[t][i]] = 0 /\ sent[queue'[t][i]] = 0
    BY <2>1 DEF Counted
  <2>3. Through(worker'[w], granted[cur'[w]], sent[cur'[w]])
    BY <1>4, TakeDoes DEF Counted, Through, Asking
  <2>4. \A v \in Worker : v # w => (Engaged(v)' <=> Engaged(v))
    BY <1>4, TakeDoes DEF Engaged
  <2> QED
    BY <1>4, <2>2, <2>3, <2>4, TakeDoes DEF Counted, DoneMeansSent
<1>5. ASSUME NEW w \in Worker, Skip(w) \/ Tell(w, Done, "idle") \/ Fail(w)
      PROVE  Counted'
  <2>1. cur[w] \in Job
    BY <1>5, Serving
  <2>2. UNCHANGED <<request, queue, granted, sent>>
    BY <1>5, <2>1, LeaveDoes
  <2>3. \A v \in Worker : Engaged(v)' => Engaged(v) /\ worker'[v] = worker[v] /\ cur'[v] = cur[v]
    BY <1>5, <2>1, LeaveDoes DEF Engaged
  <2>4. \A k \in Job : state'[k] = Done => state[k] = Done
    BY <1>5, <2>1, LeaveDoes
  <2> QED
    BY <2>2, <2>3, <2>4 DEF Counted, DoneMeansSent
<1>6. ASSUME NEW w \in Worker, Begin(w) \/ Moves(w) \/ Granted(w) \/ FileSent(w) \/ Sets(w)
      PROVE  Counted'
  <2>1. cur[w] \in Job /\ request[cur[w]] = "enqueued" /\ Engaged(w)
    BY <1>6, Serving
  <2>2. /\ \A k \in Job : k # cur[w] => granted'[k] = granted[k] /\ sent'[k] = sent[k]
        /\ Through(worker'[w], granted'[cur[w]], sent'[cur[w]])
    BY <1>6, <2>1, CountsDo DEF Counted
  <2>3. UNCHANGED <<request, queue, cur>>
    BY <1>6, <2>1, WorkDoes
  <2>4. \A v \in Worker : Engaged(v)' => Engaged(v)
    BY <1>6, <2>1, WorkDoes DEF Engaged
  <2>5. \A v \in Worker : Engaged(v)' /\ v # w =>
          cur[v] \in Job /\ cur[v] # cur[w] /\ worker'[v] = worker[v]
    BY <1>6, <2>1, <2>4, WorkDoes, Serving, OneRunner
  <2>6. \A v \in Worker : Engaged(v)' => Through(worker'[v], granted'[cur[v]], sent'[cur[v]])
    BY <2>2, <2>4, <2>5 DEF Counted
  <2>7. \A t \in Target : \A i \in DOMAIN queue[t] : queue[t][i] \in Job /\ queue[t][i] # cur[w]
    BY Members DEF Single
  <2>8. \A t \in Target : \A i \in DOMAIN queue[t] :
          granted'[queue[t][i]] = 0 /\ sent'[queue[t][i]] = 0
    BY <2>2, <2>7 DEF Counted
  <2>9. \A k \in Job : state'[k] = Done => sent'[k] = granted'[k]
    <3>1. state'[cur[w]] = Done => worker'[w] = Done
      BY <1>6, <2>1, WorkDoes DEF Shown
    <3>2. \A k \in Job : k # cur[w] => state'[k] = state[k]
      BY <1>6, <2>1, WorkDoes
    <3> QED
      BY <2>2, <3>1, <3>2 DEF Through, Counted, DoneMeansSent
  <2>10. \A k \in Job : request[k] # "enqueued" => granted'[k] = 0 /\ sent'[k] = 0
    BY <2>1, <2>2 DEF Counted
  <2> QED
    BY <2>3, <2>6, <2>8, <2>9, <2>10 DEF Counted, DoneMeansSent
<1>7. CASE Aside
  BY <1>7, AsideKeeps DEF Counted, DoneMeansSent, Engaged, coreVars, fileVars
<1> QED
  BY <1>1, <1>2, <1>3, <1>4, <1>5, <1>6, <1>7, NextSteps

-----------------------------------------------------------------------------
(* Types.                                                                  *)
LEMMA BroadcastTyped ==
  ASSUME FeedTypeOK, NEW j, NEW st \in JobStates, Broadcast(j, st)
  PROVE  FeedTypeOK'
<1>1. \A s \in Stream : feed[s] \in Seq(JobStates) /\ Append(feed[s], st) \in Seq(JobStates)
  BY DEF FeedTypeOK
<1>2. feed' \in [Stream -> Seq(JobStates)]
  BY <1>1 DEF Broadcast
<1> QED
  BY <1>2 DEF FeedTypeOK, Broadcast, Followers

LEMMA TypeInit == ASSUME Init PROVE TypeOK
BY FeedAssumption, SendAssumption
DEF Init, FeedInit, TypeOK, FeedTypeOK, FeedAssumption, SendAssumption, JobStates, Worker

LEMMA TypeStep ==
  ASSUME TypeOK, Placed, [Next]_vars
  PROVE  TypeOK'
<1> USE FeedAssumption, SendAssumption
    DEF FeedAssumption, SendAssumption, Worker, feedVars, cancelVars, fileVars, reqVars
<1> DEFINE Shows == state \in [Job -> {None, Queued, Preparing, AwaitingAccept, Sending,
                                       Done, Failed, Cancelled}]
<1>1. ASSUME UNCHANGED feedVars
      PROVE  FeedTypeOK'
  BY <1>1 DEF TypeOK, FeedTypeOK
<1>2. \A j \in Job : request[j] # "new" => state[j] \in JobStates
  BY DEF TypeOK, Placed, Registered, JobStates
<1>3. ASSUME NEW j \in Job, Register(j)
      PROVE  TypeOK'
  BY <1>1, <1>3 DEF Register, Ask, TypeOK
<1>4. ASSUME NEW j \in Job, Enqueue(j)
      PROVE  TypeOK'
  <2>1. queue' \in [Target -> Seq(Job)]
    BY <1>4 DEF Enqueue, TypeOK
  <2> QED
    BY <1>1, <1>4, <2>1 DEF Enqueue, Ask, TypeOK
<1>5. ASSUME NEW j \in Job, Refuse(j)
      PROVE  TypeOK'
  BY <1>1, <1>5 DEF Refuse, Ask, TypeOK
<1>6. ASSUME NEW j \in Job, Cancel(j)
      PROVE  TypeOK'
  <2>1. FeedTypeOK'
    BY <1>6, BroadcastTyped DEF Cancel, TypeOK, JobStates
  <2> QED
    BY <1>6, <2>1 DEF Cancel, TypeOK
<1>7. ASSUME NEW j \in Job, CallCancel(j) \/ Forget(j)
      PROVE  TypeOK'
  BY <1>1, <1>7 DEF CallCancel, Forget, TypeOK
<1>8. ASSUME NEW w \in Worker, Take(w)
      PROVE  TypeOK'
  <2>1. queue' \in [Target -> Seq(Job)] /\ Head(queue[TargetOf[w]]) \in Job
    BY <1>8 DEF Take, TypeOK
  <2> QED
    BY <1>1, <1>8, <2>1 DEF Take, Go, TypeOK
<1>9. ASSUME NEW w \in Worker, Skip(w) \/ Begin(w)
      PROVE  TypeOK'
  <2>1. cur[w] \in Job
    BY <1>9, Serving
  <2>2. CASE Skip(w)
    BY <1>1, <2>1, <2>2 DEF Skip, Go, TypeOK
  <2>3. CASE Begin(w)
    BY <1>1, <2>1, <2>3 DEF Begin, Go, TypeOK
  <2> QED
    BY <1>9, <2>2, <2>3
<1>10. ASSUME NEW w \in Worker, Sets(w)
       PROVE  TypeOK'
  <2>1. PICK from, st : SetState(w, from, st) /\ st \in {Preparing, AwaitingAccept, Sending, Done}
    BY <1>10 DEF Sets
  <2> QED
    BY <1>1, <2>1 DEF SetState, Go, TypeOK
<1>11. ASSUME NEW w \in Worker, TellsOn(w) \/ Tell(w, Done, "idle")
       PROVE  TypeOK'
  <2>1. PICK from, to : Tell(w, from, to) /\ to \in {"ready", "asking", "loop", "idle"}
    BY <1>11 DEF TellsOn
  <2>2. cur[w] \in Job /\ state[cur[w]] \in JobStates
    BY <1>2, <1>11, Serving DEF Moves
  <2>3. FeedTypeOK'
    BY <2>1, <2>2, BroadcastTyped DEF Tell, TypeOK
  <2> QED
    BY <2>1, <2>3 DEF Tell, Go, TypeOK
<1>12. ASSUME NEW w \in Worker, NextFile(w) \/ NothingNeeded(w) \/ CallFails(w) \/ CutOff(w)
       PROVE  TypeOK'
  <2>1. PICK from, to : Go(w, from, to) /\ to \in {"uploading", "over", "failing", "unwinding"}
    BY <1>12 DEF NextFile, NothingNeeded, CallFails, CutOff
  <2>2. UNCHANGED <<state, queue, cur, cancelVars, fileVars, feedVars>>
    BY <1>12 DEF NextFile, NothingNeeded, CallFails, CutOff
  <2> QED
    BY <1>1, <2>1, <2>2 DEF Go, TypeOK
<1>13. ASSUME NEW w \in Worker, Granted(w) \/ FileSent(w)
       PROVE  TypeOK'
  <2>1. cur[w] \in Job
    BY <1>13, Serving
  <2>2. 0 .. FileCount[cur[w]] \subseteq Nat
    BY <2>1
  <2>3. CASE Granted(w)
    <3>1. granted' \in [Job -> Nat] /\ worker' = [worker EXCEPT ![w] = "granted"]
      BY <2>1, <2>2, <2>3 DEF Granted, Go, TypeOK
    <3> QED
      BY <1>1, <2>3, <3>1 DEF Granted, Go, TypeOK
  <2>4. CASE FileSent(w)
    <3>1. sent' \in [Job -> Nat] /\ worker' = [worker EXCEPT ![w] = "counted"]
      BY <2>1, <2>4 DEF FileSent, Go, TypeOK
    <3> QED
      BY <1>1, <2>4, <3>1 DEF FileSent, Go, TypeOK
  <2> QED
    BY <1>13, <2>3, <2>4
<1>14. ASSUME NEW w \in Worker, Fail(w)
       PROVE  TypeOK'
  <2>1. PICK st \in {Failed, Cancelled} :
          state' = [state EXCEPT ![cur[w]] = st] /\ Broadcast(cur[w], st)
    BY <1>14 DEF Fail
  <2>2. FeedTypeOK'
    BY <2>1, BroadcastTyped DEF TypeOK, JobStates
  <2>3. /\ worker' = [worker EXCEPT ![w] = "idle"] /\ cur' = [cur EXCEPT ![w] = None]
        /\ UNCHANGED <<reqVars, queue, cancelVars, fileVars>>
    BY <1>14 DEF Fail, Go
  <2>4. state' \in [Job -> {None, Queued, Preparing, AwaitingAccept, Sending,
                            Done, Failed, Cancelled}]
    BY <2>1 DEF TypeOK
  <2> QED
    BY <2>2, <2>3, <2>4 DEF TypeOK, reqVars, cancelVars, fileVars
<1>15. ASSUME NEW w \in Worker, Progress(w)
       PROVE  TypeOK'
  <2>1. cur[w] \in Job /\ state[cur[w]] \in JobStates
    BY <1>2, <1>15, Serving DEF Progress, Engaged
  <2>2. FeedTypeOK'
    BY <1>15, <2>1, BroadcastTyped DEF Progress, TypeOK
  <2> QED
    BY <1>15, <2>2 DEF Progress, TypeOK
<1>16. ASSUME NEW s \in Stream, DeliverStep(s) \/ BrowserStep(s)
       PROVE  TypeOK'
  <2>1. FeedTypeOK'
    <3>1. ASSUME DeliverStep(s)
          PROVE  FeedTypeOK'
      <4>1. Head(feed[s]) \in JobStates /\ Tail(feed[s]) \in Seq(JobStates)
        BY <3>1 DEF DeliverStep, Deliver, TypeOK, FeedTypeOK
      <4> QED
        BY <3>1, <4>1 DEF DeliverStep, Deliver, TypeOK, FeedTypeOK
    <3>2. ASSUME BrowserStep(s), Disconnect(s)
          PROVE  FeedTypeOK'
      BY <3>2 DEF Disconnect, TypeOK, FeedTypeOK
    <3>3. ASSUME NEW j \in jobs, Subscribe(s, j, state[j])
          PROVE  FeedTypeOK'
      <4>1. j \in Job /\ <<state[j]>> \in Seq(JobStates)
        BY <1>2, Members DEF Placed, Registered
      <4> QED
        BY <3>3, <4>1 DEF Subscribe, TypeOK, FeedTypeOK
    <3> QED
      BY <1>16, <3>1, <3>2, <3>3 DEF BrowserStep
  <2> QED
    BY <1>16, <2>1 DEF DeliverStep, BrowserStep, TypeOK
<1>17. CASE UNCHANGED vars
  BY <1>1, <1>17 DEF vars, TypeOK
<1> QED
  BY <1>3, <1>4, <1>5, <1>6, <1>7, <1>8, <1>9, <1>10, <1>11, <1>12, <1>13, <1>14, <1>15,
     <1>16, <1>17 DEF Next, WorkerStep, CallStep, Rest, Sets, TellsOn

-----------------------------------------------------------------------------
(* Every variable has its type, whoever asks for what and whenever; a      *)
(* broadcast in particular always carries a state that a job can have.     *)
THEOREM TypeCorrect == Spec => []TypeOK
<1>1. Init => TypeOK /\ Placed
  BY TypeInit, PlacedInit
<1>2. TypeOK /\ Placed /\ [Next]_vars => TypeOK' /\ Placed'
  BY TypeStep, PlacedStep
<1> QED
  BY <1>1, <1>2, PTL DEF Spec

(* What the code of Send, Cancel and targetWorker keeps true between any   *)
(* two of its critical sections.                                           *)
THEOREM InvariantHolds == Spec => [](TypeOK /\ SendInv)
<1>1. Init => TypeOK /\ SendInv
  BY TypeInit, PlacedInit, SingleInit, ShownInit, CountedInit DEF SendInv
<1>2. TypeOK /\ SendInv /\ [Next]_vars => TypeOK' /\ SendInv'
  BY TypeStep, PlacedStep, SingleStep, ShownStep, CountedStep DEF SendInv
<1> QED
  BY <1>1, <1>2, PTL DEF Spec

(* Never two active jobs for one target: manager.go, "One active job per   *)
(* target; further jobs queue".                                            *)
THEOREM OneActive == Spec => []OneActivePerTarget
<1>1. ASSUME TypeOK, SendInv
      PROVE  OneActivePerTarget
  <2> SUFFICES ASSUME NEW j \in Job, NEW k \in Job, state[j] \in Active, state[k] \in Active,
                      TargetOf[j] = TargetOf[k]
               PROVE  j = k
    BY DEF OneActivePerTarget
  <2>1. PICK v \in Worker : cur[v] = j
    BY <1>1 DEF SendInv, Shown
  <2>2. PICK w \in Worker : cur[w] = k
    BY <1>1 DEF SendInv, Shown
  <2>3. j # None /\ k # None
    BY FeedAssumption DEF FeedAssumption
  <2>4. Engaged(v) /\ Engaged(w) /\ TargetOf[v] = TargetOf[w]
    BY <1>1, <2>1, <2>2, <2>3 DEF SendInv, Placed, Working
  <2> QED
    BY <1>1, <2>1, <2>2, <2>4 DEF SendInv, Single, Engaged
<1> QED
  BY <1>1, InvariantHolds, PTL

(* A job shown as done or failed waits in no queue, and no worker is still *)
(* in a call for it.                                                       *)
THEOREM EndedIsOver == Spec => []EndedMeansOver
<1>1. ASSUME TypeOK, SendInv
      PROVE  EndedMeansOver
  <2> SUFFICES ASSUME NEW j \in Job, state[j] \in {Done, Failed}
               PROVE  ~Waits(j) /\ \A w \in Worker : cur[w] = j => worker[w] = Done
    BY DEF EndedMeansOver
  <2>1. ~Waits(j)
    BY <1>1, SendAssumption DEF SendInv, Shown, Early, Waits, SendAssumption
  <2>2. \A w \in Worker : cur[w] = j => Engaged(w)
    BY <1>1, FeedAssumption DEF SendInv, Placed, Working, FeedAssumption
  <2> QED
    BY <1>1, <2>1, <2>2 DEF SendInv, Shown
<1> QED
  BY <1>1, InvariantHolds, PTL

(* Done is never said before the last file was taken.                      *)
THEOREM DoneIsSent == Spec => []DoneMeansSent
<1>1. SendInv => DoneMeansSent
  BY DEF SendInv, Counted
<1> QED
  BY <1>1, InvariantHolds, PTL

(* What a step does to a job that ended, or was cancelled in its queue.    *)
LEMMA EndedStays ==
  ASSUME TypeOK, SendInv, [Next]_vars, NEW j \in Job, state[j] \in {Done, Failed}
  PROVE  state'[j] = state[j]
<1> USE FeedAssumption DEF FeedAssumption, JobStates
<1>1. ASSUME NEW k \in Job, Register(k) \/ Enqueue(k) \/ Refuse(k) \/ Cancel(k)
      PROVE  state'[j] = state[j]
  <2>1. CASE Register(k)
    BY <2>1, RegisterDoes DEF SendInv, Placed, Registered
  <2>2. CASE Refuse(k)
    BY <2>2, RefuseDoes DEF SendInv, Shown, Early
  <2> QED
    BY <1>1, <2>1, <2>2, EnqueueDoes, CancelDoes
<1>2. ASSUME NEW w \in Worker, Skip(w) \/ Tell(w, Done, "idle") \/ Fail(w)
      PROVE  state'[j] = state[j]
  BY <1>2, Serving, LeaveDoes DEF SendInv, Shown
<1>3. ASSUME NEW w \in Worker, Begin(w) \/ Moves(w) \/ Granted(w) \/ FileSent(w) \/ Sets(w)
      PROVE  state'[j] = state[j]
  <2>1. cur[w] \in Job /\ Engaged(w) /\ worker[w] # Done
    BY <1>3, Serving, WorkDoes DEF SendInv
  <2>2. cur[w] # j
    BY <2>1 DEF SendInv, Shown
  <2> QED
    BY <1>3, <2>1, <2>2, WorkDoes
<1> QED
  BY <1>1, <1>2, <1>3, NextSteps, TakeDoes, AsideKeeps DEF coreVars

LEMMA CancelledStays ==
  ASSUME TypeOK, SendInv, [Next]_vars, NEW j \in Job, state[j] = Cancelled, j \notin begun
  PROVE  state'[j] \in {Cancelled, Failed} /\ j \notin begun'
<1> USE FeedAssumption DEF FeedAssumption, JobStates
<1>1. ASSUME NEW k \in Job, Register(k) \/ Enqueue(k) \/ Refuse(k) \/ Cancel(k)
      PROVE  state'[j] \in {Cancelled, Failed} /\ j \notin begun'
  <2>1. CASE Register(k)
    BY <2>1, RegisterDoes DEF SendInv, Placed, Registered
  <2> QED
    BY <1>1, <2>1, EnqueueDoes, RefuseDoes, CancelDoes
<1>2. ASSUME NEW w \in Worker, Skip(w) \/ Tell(w, Done, "idle") \/ Fail(w)
      PROVE  state'[j] \in {Cancelled, Failed} /\ j \notin begun'
  BY <1>2, Serving, LeaveDoes DEF SendInv
<1>3. ASSUME NEW w \in Worker, Begin(w) \/ Moves(w) \/ Granted(w) \/ FileSent(w) \/ Sets(w)
      PROVE  state'[j] \in {Cancelled, Failed} /\ j \notin begun'
  <2>1. cur[w] \in Job /\ Engaged(w)
    BY <1>3, Serving DEF SendInv
  <2>2. cur[w] # j
    BY <1>3, <2>1, WorkDoes DEF SendInv, Shown
  <2> QED
    BY <1>3, <2>1, <2>2, WorkDoes
<1> QED
  BY <1>1, <1>2, <1>3, NextSteps, TakeDoes, AsideKeeps DEF coreVars

(* Neither Cancel, nor the worker's setState, nor Send's own failure path  *)
(* touches a job that is done or has failed.                               *)
THEOREM EndStays == Spec => EndIsFinal
<1>1. TypeOK /\ SendInv /\ [Next]_vars =>
        [\A j \in Job : state[j] \in {Done, Failed} => state'[j] = state[j]]_vars
  BY EndedStays
<1> QED
  BY <1>1, InvariantHolds, PTL DEF Spec, EndIsFinal

(* A job cancelled before its worker began it is never offered: between    *)
(* run's check of the state and its cancel function there is one lock.     *)
THEOREM QueuedCancel == Spec => QueuedCancelHolds
<1>1. TypeOK /\ SendInv /\ [Next]_vars =>
        [\A j \in Job : state[j] = Cancelled /\ j \notin begun =>
           state'[j] \in {Cancelled, Failed} /\ j \notin begun']_vars
  BY CancelledStays
<1> QED
  BY <1>1, InvariantHolds, PTL DEF Spec, QueuedCancelHolds

-----------------------------------------------------------------------------
(* Send implements JobService.                                             *)
Serves(t) == {cur[w] : w \in {v \in Worker : TargetOf[v] = t /\ cur[v] # None}}
Gone(j) == /\ request[j] \in {"enqueued", "refused"} /\ ~Waits(j)
           /\ \A w \in Worker : cur[w] # j

LEMMA EnqueueWaits ==
  ASSUME TypeOK, NEW j \in Job, Enqueue(j)
  PROVE  \A k \in Job : Waits(k)' <=> Waits(k) \/ k = j
<1> USE SendAssumption DEF SendAssumption
<1> DEFINE t == TargetOf[j]
<1>1. t \in Target /\ queue[t] \in Seq(Job) /\ queue'[t] = Append(queue[t], j)
      /\ \A u \in Target : u # t => queue'[u] = queue[u]
  BY DEF Enqueue, TypeOK
<1>2. /\ Len(queue[t]) + 1 \in DOMAIN queue'[t] /\ queue'[t][Len(queue[t]) + 1] = j
      /\ \A i \in DOMAIN queue[t] : i \in DOMAIN queue'[t] /\ queue'[t][i] = queue[t][i]
      /\ \A i \in DOMAIN queue'[t] : i \in DOMAIN queue[t] \/ i = Len(queue[t]) + 1
  BY <1>1
<1> SUFFICES ASSUME NEW k \in Job
             PROVE  Waits(k)' <=> Waits(k) \/ k = j
  OBVIOUS
<1>3. CASE TargetOf[k] = t
  BY <1>2, <1>3 DEF Waits
<1>4. CASE TargetOf[k] # t
  BY <1>1, <1>4 DEF Waits
<1> QED
  BY <1>3, <1>4

LEMMA TakeWaits ==
  ASSUME TypeOK, Placed, NEW w \in Worker, Take(w)
  PROVE  /\ Waits(cur'[w]) /\ cur'[w] \in Job
         /\ \A k \in Job : k # cur'[w] => (Waits(k)' <=> Waits(k))
<1> USE SendAssumption DEF SendAssumption, Worker
<1> DEFINE t == TargetOf[w]
<1>1. t \in Target /\ queue[t] \in Seq(Job) /\ queue[t] # <<>> /\ queue'[t] = Tail(queue[t])
      /\ \A u \in Target : u # t => queue'[u] = queue[u]
  BY DEF Take, TypeOK
<1>2. cur'[w] = queue[t][1] /\ 1 \in DOMAIN queue[t]
  BY TakeDoes
<1>3. \A i \in DOMAIN queue[t] : i # 1 =>
        i - 1 \in DOMAIN queue'[t] /\ queue'[t][i - 1] = queue[t][i]
  BY <1>1, TailIndex
<1>4. \A i \in DOMAIN queue'[t] : i + 1 \in DOMAIN queue[t] /\ queue'[t][i] = queue[t][i + 1]
  BY TakeDoes
<1>5. TargetOf[cur'[w]] = t /\ cur'[w] \in Job
  BY <1>1, <1>2, Members DEF Placed, Lined
<1>6. Waits(cur'[w])
  BY <1>2, <1>5 DEF Waits
<1>7. ASSUME NEW k \in Job, k # cur'[w]
      PROVE  Waits(k)' <=> Waits(k)
  <2>1. CASE TargetOf[k] = t
    <3>1. Waits(k)' => Waits(k)
      BY <1>4, <2>1 DEF Waits
    <3>2. Waits(k) => Waits(k)'
      BY <1>2, <1>3, <1>7, <2>1 DEF Waits
    <3> QED
      BY <3>1, <3>2
  <2>2. CASE TargetOf[k] # t
    BY <1>1, <2>2 DEF Waits
  <2> QED
    BY <2>1, <2>2
<1> QED
  BY <1>5, <1>6, <1>7

LEMMA NotWaiting ==
  ASSUME TypeOK, Placed, Single, NEW w \in Worker, cur[w] \in Job
  PROVE  ~Waits(cur[w])
BY SendAssumption DEF Waits, Single, SendAssumption

LEMMA ServesOne ==
  ASSUME TypeOK, Placed, Single, NEW w \in Worker, worker[w] # "none"
  PROVE  Serves(TargetOf[w]) = IF cur[w] = None THEN {} ELSE {cur[w]}
<1>1. \A v \in Worker : TargetOf[v] = TargetOf[w] /\ cur[v] # None => v = w
  BY DEF Placed, Working, Engaged, Single
<1> QED
  BY <1>1 DEF Serves

LEMMA Unlined ==
  ASSUME TypeOK, Placed, NEW j \in Job, request[j] # "enqueued"
  PROVE  ~Waits(j) /\ \A w \in Worker : cur[w] # j
<1>1. ~Waits(j)
  BY SendAssumption DEF Placed, Lined, Waits, SendAssumption
<1>2. \A w \in Worker : cur[w] # j
  BY FeedAssumption DEF Placed, Working, FeedAssumption
<1> QED
  BY <1>1, <1>2

(* The step, read as one of the service.                                   *)
LEMMA JoinStep ==
  ASSUME TypeOK, SendInv, NEW j \in Job, Enqueue(j)
  PROVE  Service!Join(j)
<1> USE SendAssumption DEF SendAssumption, SendInv
<1>1. ~Waits(j) /\ (\A w \in Worker : cur[w] # j) /\ request[j] = "registered"
  BY EnqueueDoes, Unlined
<1>2. ~Service!Known(j)
  BY <1>1 DEF Service!Known, Service!Waits, Waits
<1>3. queue' = [queue EXCEPT ![TargetOf[j]] = Append(@, j)] /\ cur' = cur
  BY EnqueueDoes DEF Enqueue
<1>4. \A k \in Job : Gone(k)' <=> Gone(k)
  <2>1. \A k \in Job : k # j => request'[k] = request[k] /\ (Waits(k)' <=> Waits(k))
    BY EnqueueDoes, EnqueueWaits
  <2>2. ~Gone(j) /\ ~Gone(j)'
    BY <1>1, EnqueueWaits DEF Gone
  <2> QED
    BY <1>3, <2>1, <2>2 DEF Gone
<1> QED
  BY <1>2, <1>3, <1>4 DEF Service!Join, Gone

LEMMA TurnAwayStep ==
  ASSUME TypeOK, SendInv, NEW j \in Job, Refuse(j)
  PROVE  Service!TurnAway(j)
<1> USE SendAssumption DEF SendAssumption, SendInv
<1>1. ~Waits(j) /\ (\A w \in Worker : cur[w] # j) /\ request[j] = "registered"
  BY RefuseDoes, Unlined
<1>2. ~Service!Known(j)
  BY <1>1 DEF Service!Known, Service!Waits, Waits
<1>3. UNCHANGED <<queue, cur>>
  BY RefuseDoes
<1>4. \A k \in Job : Gone(k)' <=> Gone(k) \/ k = j
  BY <1>1, <1>3, RefuseDoes DEF Gone, Waits
<1> QED
  BY <1>2, <1>3, <1>4 DEF Service!TurnAway, Gone

LEMMA ServeStep ==
  ASSUME TypeOK, SendInv, NEW w \in Worker, Take(w)
  PROVE  Service!Serve(TargetOf[w])
<1> USE SendAssumption, FeedAssumption DEF SendAssumption, FeedAssumption, SendInv, Worker
<1> DEFINE t == TargetOf[w]
<1>1. t \in Target /\ queue[t] # <<>> /\ queue' = [queue EXCEPT ![t] = Tail(@)]
      /\ cur' = [cur EXCEPT ![w] = Head(queue[t])]
  BY DEF Take
<1>2. PICK h \in Job : h = cur'[w]
  BY TakeWaits
<1>3. worker[w] = "idle" /\ cur[w] = None /\ h = Head(queue[t])
  <2>1. worker[w] = "idle"
    BY TakeDoes
  <2>2. cur[w] = None
    BY <2>1 DEF Placed, Working, Engaged
  <2>3. h = Head(queue[t])
    BY <1>1, <1>2 DEF TypeOK
  <2> QED
    BY <2>1, <2>2, <2>3
<1>4. Serves(t) = {}
  BY <1>3, ServesOne
<1>5. Serves(t)' = {h}
  <2>1. \A v \in Worker : v # w /\ TargetOf[v] = t => cur'[v] = None
    BY <1>3, <1>4, TakeDoes DEF Serves
  <2> QED
    BY <1>2, <2>1 DEF Serves
<1>6. \A u \in Target : u # t => Serves(u)' = Serves(u)
  <2> SUFFICES ASSUME NEW u \in Target, u # t
               PROVE  Serves(u)' = Serves(u)
    OBVIOUS
  <2>1. \A v \in Worker : TargetOf[v] = u => cur'[v] = cur[v]
    BY TakeDoes
  <2> QED
    BY <2>1 DEF Serves
<1>7. \A k \in Job : Gone(k)' <=> Gone(k)
  <2>1. ~Gone(h) /\ ~Gone(h)'
    BY <1>2, TakeWaits DEF Gone
  <2>2. ASSUME NEW k \in Job, k # h
        PROVE  Gone(k)' <=> Gone(k)
    <3>1. request' = request /\ (Waits(k)' <=> Waits(k))
      BY <1>2, <2>2, TakeDoes, TakeWaits
    <3>2. (\A v \in Worker : cur'[v] # k) <=> (\A v \in Worker : cur[v] # k)
      BY <1>2, <1>3, <2>2, TakeDoes
    <3> QED
      BY <3>1, <3>2 DEF Gone
  <2> QED
    BY <2>1, <2>2
<1> HIDE DEF t
<1>8. [u \in Target |-> Serves(u)'] = [[u \in Target |-> Serves(u)] EXCEPT ![t] = {h}]
  BY <1>1, <1>5, <1>6
<1>9. {k \in Job : Gone(k)'} = {k \in Job : Gone(k)}
  BY <1>7
<1>10. [u \in Target |-> Serves(u)][t] = {}
  BY <1>1, <1>4
<1>11. /\ queue[t] # <<>> /\ h = Head(queue[t]) /\ queue' = [queue EXCEPT ![t] = Tail(@)]
  BY <1>1, <1>3
<1>12. t = TargetOf[w]
  BY DEF t
<1>13. Service!Serve(t) <=>
         /\ [u \in Target |-> Serves(u)][t] = {} /\ queue[t] # <<>>
         /\ [u \in Target |-> Serves(u)'] = [[u \in Target |-> Serves(u)] EXCEPT ![t] = {Head(queue[t])}]
         /\ queue' = [queue EXCEPT ![t] = Tail(@)]
         /\ {k \in Job : Gone(k)'} = {k \in Job : Gone(k)}
  BY DEF Service!Serve, Serves, Gone
<1> QED
  BY <1>8, <1>9, <1>10, <1>11, <1>12, <1>13

LEMMA FinishStep ==
  ASSUME TypeOK, SendInv, NEW w \in Worker, Skip(w) \/ Tell(w, Done, "idle") \/ Fail(w)
  PROVE  Service!Finish(TargetOf[w])
<1> USE SendAssumption, FeedAssumption DEF SendAssumption, FeedAssumption, SendInv, Worker
<1> DEFINE t == TargetOf[w]
<1>1. PICK c \in Job : c = cur[w]
  BY Serving
<1>2. t \in Target /\ request[c] = "enqueued" /\ Engaged(w)
  BY <1>1, Serving
<1>3. Serves(t) = {c}
  BY <1>1, <1>2, ServesOne DEF Engaged
<1>4. cur'[w] = None /\ UNCHANGED <<request, queue>> /\ \A v \in Worker : v # w => cur'[v] = cur[v]
  BY <1>1, LeaveDoes
<1>5. \A v \in Worker : v # w => cur[v] # c
  BY <1>1, <1>2, OneRunner
<1>6. Serves(t)' = {}
  <2>1. \A v \in Worker : v # w /\ TargetOf[v] = t => cur[v] = None
    BY <1>3, <1>5 DEF Serves
  <2> QED
    BY <1>4, <2>1 DEF Serves
<1>7. \A u \in Target : u # t => Serves(u)' = Serves(u)
  <2> SUFFICES ASSUME NEW u \in Target, u # t
               PROVE  Serves(u)' = Serves(u)
    OBVIOUS
  <2>1. \A v \in Worker : TargetOf[v] = u => cur'[v] = cur[v]
    BY <1>4
  <2> QED
    BY <2>1 DEF Serves
<1>8. \A k \in Job : Gone(k)' <=> Gone(k) \/ k = c
  <2>1. \A k \in Job : Waits(k)' <=> Waits(k)
    BY <1>4 DEF Waits
  <2>2. ~Waits(c)
    BY <1>1, NotWaiting
  <2>3. Gone(c)'
    BY <1>2, <1>4, <1>5, <2>1, <2>2 DEF Gone
  <2>4. \A k \in Job : k # c =>
          ((\A v \in Worker : cur'[v] # k) <=> (\A v \in Worker : cur[v] # k))
    BY <1>1, <1>4
  <2>5. \A k \in Job : k # c => (Gone(k)' <=> Gone(k))
    BY <1>4, <2>1, <2>4 DEF Gone
  <2> QED
    BY <2>3, <2>5
<1> HIDE DEF t
<1>9. [u \in Target |-> Serves(u)'] = [[u \in Target |-> Serves(u)] EXCEPT ![t] = {}]
  BY <1>2, <1>6, <1>7
<1>10. {k \in Job : Gone(k)'} = {k \in Job : Gone(k)} \union {c}
  BY <1>8
<1>11. [u \in Target |-> Serves(u)][t] = {c}
  BY <1>2, <1>3
<1>12. t = TargetOf[w] /\ UNCHANGED queue /\ {c} # {}
  BY <1>4 DEF t
<1>13. Service!Finish(t) <=>
         /\ [u \in Target |-> Serves(u)][t] # {}
         /\ {k \in Job : Gone(k)'} = {k \in Job : Gone(k)} \union [u \in Target |-> Serves(u)][t]
         /\ [u \in Target |-> Serves(u)'] = [[u \in Target |-> Serves(u)] EXCEPT ![t] = {}]
         /\ UNCHANGED queue
  BY DEF Service!Finish, Serves, Gone
<1> QED
  BY <1>9, <1>10, <1>11, <1>12, <1>13

LEMMA ServiceStutters ==
  ASSUME UNCHANGED <<queue, cur>>, \A k \in Job : Gone(k)' <=> Gone(k)
  PROVE  UNCHANGED Service!serviceVars
BY DEF Service!serviceVars, Gone

LEMMA ServiceStep ==
  ASSUME TypeOK, SendInv, [Next]_vars
  PROVE  [Service!Next]_Service!serviceVars
<1> USE SendAssumption DEF SendAssumption, SendInv, Worker
<1>1. ASSUME NEW j \in Job, Register(j) \/ Cancel(j)
      PROVE  UNCHANGED Service!serviceVars
  <2>1. UNCHANGED <<queue, cur>>
    BY <1>1, RegisterDoes, CancelDoes
  <2>2. \A k \in Job : request'[k] \in {"enqueued", "refused"}
                       <=> request[k] \in {"enqueued", "refused"}
    BY <1>1, RegisterDoes, CancelDoes
  <2> QED
    BY <2>1, <2>2, ServiceStutters DEF Gone, Waits
<1>2. ASSUME NEW w \in Worker, Begin(w) \/ Moves(w) \/ Granted(w) \/ FileSent(w) \/ Sets(w)
      PROVE  UNCHANGED Service!serviceVars
  <2>1. UNCHANGED <<request, queue, cur>>
    BY <1>2, Serving, WorkDoes
  <2> QED
    BY <2>1, ServiceStutters DEF Gone, Waits
<1>3. CASE Aside
  BY <1>3, AsideKeeps, ServiceStutters DEF Gone, Waits, coreVars
<1>4. ASSUME NEW j \in Job, Enqueue(j) \/ Refuse(j)
      PROVE  Service!Next
  BY <1>4, JoinStep, TurnAwayStep DEF Service!Next
<1>5. ASSUME NEW w \in Worker, Take(w) \/ Skip(w) \/ Tell(w, Done, "idle") \/ Fail(w)
      PROVE  Service!Next
  BY <1>5, ServeStep, FinishStep DEF Service!Next
<1> QED
  BY <1>1, <1>2, <1>3, <1>4, <1>5, NextSteps

(* The jobs of a target are served in the order in which their requests    *)
(* were queued, one at a time and at most once each, none of them after it *)
(* was turned away: every step of the manager is one of JobService or      *)
(* changes nothing that the service speaks of.                             *)
THEOREM ImplementsService == Spec => ServesInOrder
<1>1. Init => Service!Init
  BY FeedAssumption, SendAssumption DEF Init, Service!Init, SendAssumption, Worker
<1> QED
  BY <1>1, InvariantHolds, ServiceStep, PTL DEF Spec, ServesInOrder, Service!Spec
=============================================================================
