---------------------------- MODULE JobService ----------------------------
(***************************************************************************)
(* What the package comment of internal/transfer promises: "One active job *)
(* per target; further jobs queue."  Jobs wait in line for their target,   *)
(* are served in the order they came, one at a time, each at most once.    *)
(***************************************************************************)
EXTENDS Sequences

CONSTANTS Job, Target, TargetOf

VARIABLES
  line,      (* target -> the jobs that wait, in order                     *)
  served,    (* target -> the jobs being served                            *)
  over       (* jobs that were served or turned away                       *)

serviceVars == <<line, served, over>>

Init ==
  /\ line = [t \in Target |-> <<>>]
  /\ served = [t \in Target |-> {}]
  /\ over = {}

Waits(j) == \E i \in DOMAIN line[TargetOf[j]] : line[TargetOf[j]][i] = j
Known(j) == Waits(j) \/ j \in served[TargetOf[j]] \/ j \in over

Join(j) ==
  /\ ~Known(j)
  /\ line' = [line EXCEPT ![TargetOf[j]] = Append(@, j)]
  /\ UNCHANGED <<served, over>>

TurnAway(j) ==
  /\ ~Known(j)
  /\ over' = over \union {j}
  /\ UNCHANGED <<line, served>>

Serve(t) ==
  /\ served[t] = {} /\ line[t] # <<>>
  /\ served' = [served EXCEPT ![t] = {Head(line[t])}]
  /\ line' = [line EXCEPT ![t] = Tail(@)]
  /\ UNCHANGED over

Finish(t) ==
  /\ served[t] # {}
  /\ over' = over \union served[t]
  /\ served' = [served EXCEPT ![t] = {}]
  /\ UNCHANGED line

Next ==
  \/ \E j \in Job : Join(j) \/ TurnAway(j)
  \/ \E t \in Target : Serve(t) \/ Finish(t)

Spec == Init /\ [][Next]_serviceVars
=============================================================================
