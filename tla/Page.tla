-------------------------------- MODULE Page --------------------------------
(***************************************************************************)
(* One browser tab that follows incoming transfers: the transfer list, the *)
(* badge and the dialog of web/app.js, with what they are fed from - the   *)
(* list, the event stream of each job (JobFeed) and the alerts of          *)
(* internal/httpapi/api.go, and the receive hooks of                       *)
(* internal/transfer/manager.go.                                           *)
(*                                                                         *)
(* The script runs one callback at a time, up to its next await; a step is *)
(* one callback, or one section of the server under its lock.  Between     *)
(* them lie requests and answers that overtake each other: a list may be   *)
(* shown when the server has long gone on, and lists are not numbered.     *)
(***************************************************************************)
EXTENDS JobFeed, Functions

CONSTANTS
  Rank,      (* job -> its place in the order the jobs come in             *)
  Fetch,     (* bound: list requests under way at one time                 *)
  AlertCap,  (* capacity of the tab's channel of alerts, 32 in the code    *)
  Outcome    (* bound: the ends of an accepted transfer that may happen    *)

ASSUME PageAssumption ==
  /\ Rank \in [Job -> Nat] /\ IsInjective(Rank)
  /\ Fetch # {} /\ AlertCap \in Nat \ {0}
  /\ Outcome \subseteq {Done, Failed, Cancelled}

VARIABLES
  jobs,      (* m.jobs, its keys                                           *)
  state,     (* job.State; kept when the job is forgotten                  *)
  reported,  (* history: the session states that the hook was given        *)
  untold,    (* jobs whose state was stored and not broadcast yet          *)
  unalerted, (* jobs that globalNotify was not called for yet              *)
  listening, (* a.events has the channel of this tab                       *)
  alerts,    (* that channel                                               *)
  fetch,     (* refreshTransfers: where each call of it is                 *)
  answer,    (* the list that it was answered with                         *)
  booting,   (* boot waits for its first list                              *)
  visible,   (* the Transfers tab is shown                                 *)
  known,     (* state.jobs: job -> state, None if it has no entry          *)
  watching,  (* state.events: job -> its EventSource                       *)
  broken,    (* history: jobs whose EventSource failed and was not renewed *)
  offer,     (* offerId                                                    *)
  deciding   (* decideOffer waits for its answer                           *)

serverVars == <<jobs, state, reported, untold, unalerted>>
alertVars  == <<listening, alerts>>
fetchVars  == <<fetch, answer, booting>>
watchVars  == <<known, watching, broken>>
dialogVars == <<offer, deciding>>
pageVars   == <<fetchVars, watchVars, dialogVars, visible>>
vars == <<serverVars, alertVars, pageVars, feedVars>>

ACTIVE == {Queued, Preparing, AwaitingAccept, Sending, Receiving}
Final == {Done, Failed, Cancelled, Declined}
SessionStates == {"accepted", "declined", "done", "failed", "cancelled"}
Nothing == [j \in Job |-> None]
List == [j \in Job |-> IF j \in jobs THEN state[j] ELSE None]

(* The page was opened and boot has asked for the list.                    *)
Init ==
  /\ jobs = {} /\ state = Nothing /\ reported = [j \in Job |-> {}]
  /\ untold = {} /\ unalerted = {}
  /\ listening = FALSE /\ alerts = <<>>
  /\ \E f \in Fetch : fetch = [g \in Fetch |-> IF g = f THEN "asked" ELSE "idle"]
  /\ answer = [f \in Fetch |-> Nothing]
  /\ booting = TRUE /\ visible = FALSE
  /\ known = Nothing /\ watching = Nothing /\ broken = {}
  /\ offer = None /\ deciding = FALSE
  /\ FeedInit

-----------------------------------------------------------------------------
(* The server: the job list and its hooks.                                 *)

ServerOnly == UNCHANGED <<alertVars, pageVars>>

(* ReceiveRegistered lists the job, then broadcasts it, then alerts.       *)
ReceiveRegistered(j) ==
  /\ state[j] = None
  /\ \A i \in Job : Rank[i] < Rank[j] => state[i] # None
  /\ jobs' = jobs \union {j}
  /\ state' = [state EXCEPT ![j] = AwaitingAccept]
  /\ untold' = untold \union {j} /\ unalerted' = unalerted \union {j}
  /\ UNCHANGED <<reported, feedVars>>
  /\ ServerOnly

JobState(st) == IF st = "accepted" THEN Receiving ELSE st

(* A session reports its verdict and its end, a cancel at any time; the    *)
(* reports of different goroutines come in any order, each kind once here. *)
MayReport(j, st) ==
  /\ st \notin reported[j]
  /\ st \in {"accepted", "declined"} => reported[j] \intersect {"accepted", "declined"} = {}
  /\ st = "done" => "accepted" \in reported[j]
  /\ st \in {"done", "failed"} => "declined" \notin reported[j]
  /\ st \notin {"accepted", "declined"} => st \in Outcome

(* The state is stored ...                                                 *)
ReceiveState(j, st) ==
  /\ j \in jobs
  /\ MayReport(j, st)
  /\ state' = [state EXCEPT ![j] = JobState(st)]
  /\ reported' = [reported EXCEPT ![j] = @ \union {st}]
  /\ untold' = untold \union {j}
  /\ UNCHANGED <<jobs, unalerted, feedVars>>
  /\ ServerOnly

(* ... and under the next lock broadcast, as it is by then.                *)
Tell(j) ==
  /\ j \in untold
  /\ untold' = untold \ {j}
  /\ Broadcast(j, state[j])
  /\ UNCHANGED <<jobs, state, reported, unalerted>>
  /\ ServerOnly

(* Forget, by this tab's button or another's.                              *)
Forget(j) ==
  /\ j \in jobs /\ state[j] \in Final
  /\ jobs' = jobs \ {j}
  /\ UNCHANGED <<state, reported, untold, unalerted, feedVars>>
  /\ ServerOnly

(* BroadcastJob: the alert is dropped for a tab whose channel is full.     *)
BroadcastJob(j) ==
  /\ j \in unalerted
  /\ unalerted' = unalerted \ {j}
  /\ alerts' = IF listening /\ Len(alerts) < AlertCap THEN Append(alerts, j) ELSE alerts
  /\ UNCHANGED <<jobs, state, reported, untold, listening, pageVars, feedVars>>

-----------------------------------------------------------------------------
(* The alerts: startGlobalEvents and handleGlobalEvents.                   *)

(* The EventSource connects once boot is through, and again when it broke. *)
Listen ==
  /\ ~booting /\ ~listening
  /\ listening' = TRUE
  /\ UNCHANGED <<serverVars, alerts, pageVars, feedVars>>

AlertsBreak ==
  /\ listening
  /\ listening' = FALSE /\ alerts' = <<>>
  /\ UNCHANGED <<serverVars, pageVars, feedVars>>

(* openOffer takes the dialog over from an offer that is in it.            *)
OnAlert ==
  /\ alerts # <<>>
  /\ offer' = Head(alerts)
  /\ alerts' = Tail(alerts)
  /\ UNCHANGED <<serverVars, listening, fetchVars, watchVars, deciding, visible, feedVars>>

-----------------------------------------------------------------------------
(* The dialog.                                                             *)

(* Mutant: the countdown only repaints.                                    *)
CountdownRepaints == offer # None /\ UNCHANGED vars

(* The dialog's own countdown reaches zero.                                *)
Countdown ==
  /\ offer # None
  /\ offer' = None
  /\ UNCHANGED <<serverVars, alertVars, fetchVars, watchVars, deciding, visible, feedVars>>

(* decideOffer: the user's answer is posted (bound: one at a time).  What  *)
(* the server makes of it is among the reports that may come anyway.       *)
Decide ==
  /\ offer # None /\ ~deciding
  /\ deciding' = TRUE
  /\ UNCHANGED <<serverVars, alertVars, fetchVars, watchVars, offer, visible, feedVars>>

(* However the post went: whatever offer is in the dialog by now, it       *)
(* closes, and the list is asked for.                                      *)
DecideReturns(f) ==
  /\ deciding /\ fetch[f] = "idle"
  /\ deciding' = FALSE /\ offer' = None
  /\ fetch' = [fetch EXCEPT ![f] = "asked"]
  /\ UNCHANGED <<serverVars, alertVars, answer, booting, watchVars, visible, feedVars>>

-----------------------------------------------------------------------------
(* The list: refreshTransfers.                                             *)

ShowTab ==
  /\ visible' = ~visible
  /\ UNCHANGED <<serverVars, alertVars, fetchVars, watchVars, dialogVars, feedVars>>

(* The list is asked for by a button or, while it is shown, every 3 s.     *)
Ask(f) ==
  /\ ~booting /\ fetch[f] = "idle"
  /\ fetch' = [fetch EXCEPT ![f] = "asked"]
  /\ UNCHANGED <<serverVars, alertVars, answer, booting, watchVars, dialogVars, visible, feedVars>>
Poll(f) == visible /\ Ask(f)

(* handleTransfers answers ...                                             *)
Answer(f) ==
  /\ fetch[f] = "asked"
  /\ fetch' = [fetch EXCEPT ![f] = "answered"]
  /\ answer' = [answer EXCEPT ![f] = List]
  /\ UNCHANGED <<serverVars, alertVars, booting, watchVars, dialogVars, visible, feedVars>>

EndFetch(f) ==
  /\ fetch' = [fetch EXCEPT ![f] = "idle"]
  /\ answer' = [answer EXCEPT ![f] = Nothing]
  /\ booting' = FALSE
  /\ UNCHANGED <<serverVars, alertVars, deciding, visible>>

FetchFails(f) ==
  /\ fetch[f] # "idle"
  /\ EndFetch(f)
  /\ UNCHANGED <<watchVars, offer, feedVars>>

(* An EventSource may be made of any stream that is not in use, at either  *)
(* end (bound: there are as many as Stream).                               *)
Unused == {s \in Stream : ~Open(s) /\ \A j \in Job : watching[j] # s}
Renew(S) ==
  /\ follows' = [s \in Stream |-> IF s \in S THEN None ELSE follows[s]]
  /\ feed' = [s \in Stream |-> IF s \in S THEN <<>> ELSE feed[s]]
  /\ ended' = ended \ S
  /\ missed' = missed \ S

OpenSources(J) ==
  \E es \in [J -> Unused] :
    /\ IsInjective(es)
    /\ watching' = [j \in Job |-> IF j \in J THEN es[j] ELSE watching[j]]
    /\ broken' = broken \ J
    /\ Renew(Range(es))

(* Mutant: only jobs that are new to the page are watched.                 *)
WatchNewJobs(J) == OpenSources({j \in J : watching[j] = None /\ known[j] = None})

WatchJobs(J) == OpenSources({j \in J : watching[j] = None})

Pending(list) == {j \in Job : list[j] = AwaitingAccept}
Newest(J) == CHOOSE j \in J : \A i \in J : Rank[i] <= Rank[j]

(* Mutant: entries that the answer lacks are kept.                         *)
MergeList(f) ==
  /\ fetch[f] = "answered"
  /\ EndFetch(f)
  /\ known' = [j \in Job |-> IF answer[f][j] = None THEN known[j] ELSE answer[f][j]]
  /\ WatchJobs({j \in Job : answer[f][j] \in ACTIVE})
  /\ offer' = IF Pending(answer[f]) = {} THEN None ELSE Newest(Pending(answer[f]))

(* Mutant: a pending offer in the list opens no dialog.                    *)
ShowListOnly(f) ==
  /\ fetch[f] = "answered"
  /\ EndFetch(f)
  /\ known' = answer[f]
  /\ WatchJobs({j \in Job : known'[j] \in ACTIVE})
  /\ offer' = IF Pending(answer[f]) = {} THEN None ELSE offer

(* ... and the answer, however old, replaces the list; what is active is   *)
(* watched, and the dialog shows the newest pending offer or none.         *)
ShowList(f) ==
  /\ fetch[f] = "answered"
  /\ EndFetch(f)
  /\ known' = answer[f]
  /\ WatchJobs({j \in Job : known'[j] \in ACTIVE})
  /\ offer' = IF Pending(answer[f]) = {} THEN None ELSE Newest(Pending(answer[f]))

-----------------------------------------------------------------------------
(* The event streams: watchJob and handleTransferEvents.                   *)

Others == UNCHANGED <<serverVars, alertVars, fetchVars, dialogVars, visible>>
Drop(j) == watching' = [watching EXCEPT ![j] = None]

Connect(j) ==
  /\ watching[j] # None /\ j \in jobs
  /\ Subscribe(watching[j], j, state[j])
  /\ UNCHANGED watchVars
  /\ Others

(* onerror: the job is unknown by now, or the connection breaks.           *)
OnError(j) ==
  /\ Drop(j)
  /\ broken' = broken \union {j}
  /\ UNCHANGED <<known, feedVars>>
  /\ Others
Unknown(j) ==
  /\ watching[j] # None /\ follows[watching[j]] = None /\ j \notin jobs
  /\ OnError(j)
StreamBreaks(j) == watching[j] # None /\ OnError(j)

(* Mutant: the page keeps a stream that its server would end.              *)
OnMessageLeavesOpen(s) ==
  /\ Deliver(s)
  /\ \E j \in Job :
       /\ watching[j] = s
       /\ known' = [known EXCEPT ![j] = Head(feed[s])]
       /\ IF s \in ended' THEN Drop(j) ELSE UNCHANGED watching
  /\ UNCHANGED broken
  /\ Others

(* onmessage: the entry is replaced (or made again), and the EventSource   *)
(* closed when the job is over.                                            *)
OnMessage(s) ==
  /\ Deliver(s)
  /\ \E j \in Job :
       /\ watching[j] = s
       /\ known' = [known EXCEPT ![j] = Head(feed[s])]
       /\ IF Head(feed[s]) \in ACTIVE THEN UNCHANGED watching ELSE Drop(j)
  /\ UNCHANGED broken
  /\ Others

(* The server sees the connection end, whatever it has still to write.     *)
ServerNotices(s) ==
  /\ \A j \in Job : watching[j] # s
  /\ Disconnect(s)
  /\ UNCHANGED watchVars
  /\ Others

-----------------------------------------------------------------------------
Next ==
  \/ \E j \in Job : \/ ReceiveRegistered(j) \/ Tell(j) \/ BroadcastJob(j) \/ Forget(j)
                    \/ \E st \in SessionStates : ReceiveState(j, st)
                    \/ Connect(j) \/ Unknown(j) \/ StreamBreaks(j)
  \/ \E f \in Fetch : Ask(f) \/ Answer(f) \/ FetchFails(f) \/ ShowList(f) \/ DecideReturns(f)
  \/ \E s \in Stream : OnMessage(s) \/ ServerNotices(s)
  \/ Listen \/ AlertsBreak \/ OnAlert \/ Countdown \/ Decide \/ ShowTab

Spec == Init /\ [][Next]_vars

(* Server and script run on, requests reach the server, and the browser's  *)
(* timers go off.  Answers may fail, but not every time for ever.          *)
FairSpec ==
  /\ Spec
  /\ \A j \in Job : /\ WF_vars(Tell(j)) /\ WF_vars(BroadcastJob(j))
                    /\ WF_vars(Connect(j)) /\ WF_vars(Unknown(j))
  /\ \A f \in Fetch : /\ WF_vars(Poll(f)) /\ WF_vars(DecideReturns(f))
                      /\ SF_vars(Answer(f)) /\ SF_vars(ShowList(f))
  /\ \A s \in Stream : WF_vars(OnMessage(s)) /\ WF_vars(ServerNotices(s))
  /\ WF_vars(Listen) /\ WF_vars(OnAlert) /\ WF_vars(Countdown)

-----------------------------------------------------------------------------
(* Properties that hold.                                                   *)

(* A dialog does not stay, nor come back for ever, on an offer that is     *)
(* pending no more, whichever late alert or old list opens it again.       *)
StaleDialogsClose ==
  \A j \in Job : <>[](offer = j => List[j] = AwaitingAccept)

(* While the Transfers tab is shown every pending offer raises a dialog,   *)
(* whatever became of its alert: the tab was booting or connecting again,  *)
(* or its channel full.                                                    *)
IsPending(j) == j \in jobs /\ state[j] = AwaitingAccept
OffersPopUp ==
  \A j \in Job : visible /\ IsPending(j) ~> offer # None \/ ~visible \/ ~IsPending(j)

(* A tab that stays on Transfers comes to show the list as it is, although *)
(* old answers and snapshots overwrite newer ones.                         *)
ListSettles == <>[]visible => <>[](known = List)

(* Also in a tab that does not poll, a job that is over stops counting as  *)
(* active, unless its stream broke or lost a snapshot or it was removed.   *)
IsOver(j) == state[j] \in Final
BadgeSettles ==
  \A j \in Job :
    IsOver(j) /\ known[j] \in ACTIVE ~>
      \/ known[j] \notin ACTIVE \/ ~IsOver(j)
      \/ j \notin jobs \/ j \in broken
      \/ \E s \in missed : watching[j] = s

(* A job that is over keeps no stream of this page open at the server:     *)
(* a declined one is not ended there (api.go:413), so the page must do it. *)
StreamsClose ==
  \A s \in Stream :
    Open(s) /\ IsOver(follows[s]) ~> ~Open(s) \/ ~IsOver(follows[s]) \/ s \in missed
=============================================================================
