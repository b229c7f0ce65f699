------------------------------ MODULE JobFeed ------------------------------
(***************************************************************************)
(* How a job's states reach the browsers that follow it: Subscribe and     *)
(* broadcastLocked of internal/transfer/manager.go and the event stream    *)
(* handleTransferEvents of internal/httpapi/api.go.                        *)
(*                                                                         *)
(* A subscriber's channel is bounded and is never waited for: a snapshot   *)
(* that finds it full is dropped.  Of a snapshot only the job's state is   *)
(* kept here, which is all that the stream itself looks at.                *)
(***************************************************************************)
EXTENDS Naturals, Sequences

CONSTANTS
  Job,       (* jobs                                                       *)
  Stream,    (* event streams, each opened at most once                    *)
  FeedCap,   (* capacity of a subscriber's channel, 32 in the code         *)
  None

Queued == "queued"
Preparing == "preparing"
AwaitingAccept == "awaiting-accept"
Sending == "sending"
Receiving == "receiving"
Done == "done"
Failed == "failed"
Cancelled == "cancelled"
Declined == "declined"
JobStates == {Queued, Preparing, AwaitingAccept, Sending, Receiving,
              Done, Failed, Cancelled, Declined}

ASSUME FeedAssumption ==
  /\ FeedCap \in Nat \ {0}
  /\ None \notin Job \union JobStates

VARIABLES
  follows,   (* the job a stream follows; None before it is opened         *)
  feed,      (* the subscriber's channel                                   *)
  ended,     (* the streams that have returned                             *)
  missed     (* history: the streams for which a snapshot was dropped      *)

feedVars == <<follows, feed, ended, missed>>

FeedTypeOK ==
  /\ follows \in [Stream -> Job \union {None}]
  /\ feed \in [Stream -> Seq(JobStates)]
  /\ ended \in SUBSET Stream
  /\ missed \in SUBSET Stream

FeedInit ==
  /\ follows = [s \in Stream |-> None]
  /\ feed = [s \in Stream |-> <<>>]
  /\ ended = {}
  /\ missed = {}

Open(s) == follows[s] # None /\ s \notin ended
Followers(j) == {s \in Stream : Open(s) /\ follows[s] = j}
Full(s) == Len(feed[s]) >= FeedCap

(* A new subscriber gets the current snapshot at once.                     *)
Subscribe(s, j, st) ==
  /\ follows[s] = None
  /\ follows' = [follows EXCEPT ![s] = j]
  /\ feed' = [feed EXCEPT ![s] = <<st>>]
  /\ UNCHANGED <<ended, missed>>

(* broadcastLocked: to everybody whose channel has room.                   *)
Broadcast(j, st) ==
  /\ feed' = [s \in Stream |-> IF s \in Followers(j) /\ ~Full(s) THEN Append(feed[s], st)
                                                                ELSE feed[s]]
  /\ missed' = missed \union {s \in Followers(j) : Full(s)}
  /\ UNCHANGED <<follows, ended>>

(* Mutant: declined jobs end their streams, done ones do not.              *)
DeliverPastDone(s) ==
  /\ Open(s) /\ feed[s] # <<>>
  /\ feed' = [feed EXCEPT ![s] = Tail(@)]
  /\ ended' = IF Head(feed[s]) \in {Declined, Failed, Cancelled} THEN ended \union {s} ELSE ended
  /\ UNCHANGED <<follows, missed>>

(* One turn of the stream's loop: a frame is written; the states listed    *)
(* end the stream, which unsubscribes.                                     *)
Deliver(s) ==
  /\ Open(s) /\ feed[s] # <<>>
  /\ feed' = [feed EXCEPT ![s] = Tail(@)]
  /\ ended' = IF Head(feed[s]) \in {Done, Failed, Cancelled} THEN ended \union {s} ELSE ended
  /\ UNCHANGED <<follows, missed>>

(* The browser goes away.                                                  *)
Disconnect(s) ==
  /\ Open(s)
  /\ ended' = ended \union {s}
  /\ UNCHANGED <<follows, feed, missed>>
=============================================================================
