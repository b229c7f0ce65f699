-------------------------- MODULE DiscoveryProofs --------------------------
(***************************************************************************)
(* Proofs about Discovery, for any devices, addresses, requests and        *)
(* crashes.                                                                *)
(***************************************************************************)
EXTENDS Discovery, TLAPS

Busy(c) == pc[c] \in {"listed", "collected", "writing"}
Saving(n, what) == \E c \in Caller : Busy(c) /\ op[c] = what /\ node[c] = n
Waiting(n) == \E t \in todo : t[1] = n
InList(c, n) == \E t \in list[c] : t[1] = n

(* What a call knows at each of its steps.                                 *)
CallsKnown ==
  \A c \in Caller :
    /\ pc[c] \in {"probing", "found"} => op[c] = "add" /\ addr[c] \in Addr
    /\ pc[c] = "found" \/ Busy(c) => node[c] \in Node

(* What a save has collected is still what is manual, and its file still   *)
(* empty, unless another call came across it.                              *)
InTime(c) == c \notin late
SaveInv ==
  /\ \A c \in late : pc[c] \in {"collected", "writing"}
  /\ \A c \in Caller :
       /\ pc[c] \in {"collected", "writing"} /\ InTime(c) => \A n \in Node : Manual(n) <=> InList(c, n)
       /\ pc[c] = "writing" /\ InTime(c) => file = Empty

(* Where what is manual, was removed or was added can be found.            *)
ManualFound ==
  ~warned /\ ~overtaken /\ (\A c \in Caller : ~Busy(c)) => \A n \in Node : Manual(n) => Saved(n)
RemovedGone ==
  \A n \in Node : acked[n] = "remove" => ~Manual(n) /\ (~overtaken => ~Saved(n))
AddedKnown ==
  \A n \in Node : acked[n] = "add" => Manual(n) \/ n \in lost \/ Waiting(n)
AddedFound ==
  ~overtaken /\ file.kind = "whole" =>
    \A n \in Node : acked[n] = "add" => Saved(n) \/ n \in lost \/ Waiting(n) \/ Saving(n, "add")
FileInv ==
  /\ up => todo = {}
  /\ ManualFound /\ RemovedGone /\ AddedKnown /\ AddedFound

-----------------------------------------------------------------------------
(* Types.                                                                  *)

LEMMA ListedTyped == ASSUME TypeOK PROVE Listed \in SUBSET Target
BY DEF Listed, Manual, Known, TypeOK, Entry, Target

FileKind == [kind : {"none", "empty", "garbled", "whole"}, targets : SUBSET Target]

LEMMA FilesTyped ==
  /\ NoFile \in FileKind /\ Empty \in FileKind /\ Garbled \in FileKind
  /\ \A ts \in SUBSET Target : Whole(ts) \in FileKind
  /\ \A f \in FileKind : f.targets \in SUBSET Target
BY DEF FileKind, NoFile, Empty, Garbled, Whole

LEMMA CallTyped ==
  ASSUME TypeOK, CallsKnown, NEW c \in Caller, ProbeStep(c) \/ SaveStep(c),
         IF up THEN c \in Request ELSE c = Loader
  PROVE  TypeOK' /\ CallsKnown'
<1> USE DEF TypeOK, CallsKnown, Busy, Caller
<1>1. CASE ProbeFails(c)
  BY <1>1 DEF ProbeFails, Return, saveVars
<1>2. CASE Answers(c)
  BY <1>2, DiscoveryAssumption DEF Answers, DiscoveryAssumption, saveVars
<1>3. CASE Register(c)
  BY <1>3 DEF Register, Entry, Redone, CameAcross
<1>4. CASE Collect(c)
  BY <1>4, ListedTyped DEF Collect, saveVars
<1>5. CASE Truncate(c)
  BY <1>5 DEF Truncate, Empty, CameAcross
<1>6. CASE Write(c)
  <2>1. file' = Whole(list[c]) \/ file' = Garbled
    BY <1>6 DEF Write, Landing
  <2>2. file' \in FileKind
    BY <2>1, FilesTyped
  <2>3. acked' \in [Node -> {"nothing", "add", "remove"}]
    BY <1>6 DEF Write
  <2>4. late' \in SUBSET Caller /\ overtaken' \in BOOLEAN
    BY <1>6 DEF Write, CameAcross
  <2>5. /\ op' \in [Caller -> {"add", "remove"}]
        /\ addr' \in [Caller -> Addr \union {None}]
        /\ node' \in [Caller -> Node \union {None}]
        /\ list' \in [Caller -> SUBSET Target]
        /\ pc' = [pc EXCEPT ![c] = "idle"]
    BY <1>6 DEF Write, Return
  <2>6. CallsKnown'
    BY <1>6, <2>5 DEF Write, Return
  <2> QED
    BY <1>6, <2>2, <2>3, <2>4, <2>5, <2>6 DEF Write, FileKind
<1>7. CASE SaveFails(c)
  BY <1>7 DEF SaveFails, Garbled, Return, CameAcross
<1> QED
  BY <1>1, <1>2, <1>3, <1>4, <1>5, <1>6, <1>7 DEF ProbeStep, SaveStep

(* Who may take a step.                                                    *)
LEMMA CallersTurn ==
  ASSUME TypeOK, NEW c \in Caller, pc[c] # "idle"
  PROVE  IF up THEN c \in Request ELSE c = Loader
BY DEF TypeOK, Caller

LEMMA StepTyped ==
  ASSUME TypeOK, CallsKnown, [Next]_vars
  PROVE  TypeOK' /\ CallsKnown'
<1>1. CASE \E c \in Caller : ProbeStep(c) \/ SaveStep(c)
  <2>1. PICK c \in Caller : ProbeStep(c) \/ SaveStep(c)
    BY <1>1
  <2>2. pc[c] # "idle"
    BY <2>1 DEF ProbeStep, SaveStep, ProbeFails, Answers, Register, Collect, Truncate, Write, SaveFails
  <2> QED
    BY <2>1, <2>2, CallTyped, CallersTurn
<1> USE DEF TypeOK, CallsKnown, Busy, Caller
<1>2. CASE \E r \in Request, a \in Addr : AddTarget(r, a)
  BY <1>2, DiscoveryAssumption DEF AddTarget, Probe, saveVars, DiscoveryAssumption
<1>3. CASE \E r \in Request, n \in Node : Remove(r, n)
  BY <1>3, DiscoveryAssumption DEF Remove, Redone, CameAcross, DiscoveryAssumption
<1>4. CASE LoadNext
  BY <1>4, DiscoveryAssumption DEF LoadNext, Probe, Target, saveVars, DiscoveryAssumption
<1>5. CASE Started
  BY <1>5 DEF Started, callVars, saveVars
<1>6. CASE \E a \in Addr : \E n \in At[a] : Upsert(n, a)
  BY <1>6, DiscoveryAssumption DEF Upsert, Entry, Manual, Known, callVars, saveVars, DiscoveryAssumption
<1>7. CASE Evict
  BY <1>7 DEF Evict, callVars, saveVars
<1>8. CASE Crash
  <2>1. todo' \in SUBSET Target
    BY <1>8, FilesTyped DEF Crash, FileKind
  <2>2. crashes' \in 0 .. MaxCrashes /\ lost' \in SUBSET Node
    BY <1>8, DiscoveryAssumption DEF Crash, DiscoveryAssumption
  <2>3. devices' \in [Node -> Entry \union {None}] /\ pc' = AllIdle
    BY <1>8 DEF Crash, Unknown
  <2> QED
    BY <1>8, <2>1, <2>2, <2>3 DEF Crash, AllIdle, AllAdd, AllNone, NoLists
<1>9. CASE UNCHANGED vars
  BY <1>9 DEF vars, callVars, saveVars
<1> QED
  BY <1>1, <1>2, <1>3, <1>4, <1>5, <1>6, <1>7, <1>8, <1>9 DEF Next, LoaderStep

LEMMA InitTyped == Init => TypeOK /\ CallsKnown
<1> SUFFICES ASSUME Init PROVE TypeOK /\ CallsKnown
  OBVIOUS
<1>1. file \in FileKind
  BY FilesTyped DEF Init
<1>2. /\ devices \in [Node -> Entry \union {None}]
      /\ acked \in [Node -> {"nothing", "add", "remove"}]
      /\ pc = AllIdle
      /\ crashes \in 0 .. MaxCrashes
  BY DiscoveryAssumption DEF Init, Unknown, DiscoveryAssumption
<1>3. TypeOK
  <2>1. pc \in [Caller -> {"idle"}] /\ pc[Loader] = "idle" /\ up = FALSE
    BY <1>2 DEF AllIdle, Caller, Init
  <2>2. /\ op \in [Caller -> {"add", "remove"}]
        /\ addr \in [Caller -> Addr \union {None}]
        /\ node \in [Caller -> Node \union {None}]
        /\ list \in [Caller -> SUBSET Target]
        /\ todo \in SUBSET Target /\ lost \in SUBSET Node /\ warned \in BOOLEAN
        /\ late \in SUBSET Caller /\ overtaken \in BOOLEAN
    BY DEF Init, AllAdd, AllNone, NoLists
  <2>3. pc \in [Caller -> {"idle", "probing", "found", "listed", "collected", "writing"}]
    BY <2>1
  <2>4. file \in [kind : {"none", "empty", "garbled", "whole"}, targets : SUBSET Target]
    BY <1>1 DEF FileKind
  <2>5. up \in BOOLEAN /\ IF up THEN pc[Loader] = "idle" ELSE \A r \in Request : pc[r] = "idle"
    BY <2>1 DEF Caller
  <2> QED
    BY <1>2, <2>2, <2>3, <2>4, <2>5 DEF TypeOK
<1>4. CallsKnown
  BY <1>2 DEF CallsKnown, AllIdle, Busy
<1> QED
  BY <1>3, <1>4

LEMMA TypesHold == Spec => [](TypeOK /\ CallsKnown)
<1>1. TypeOK /\ CallsKnown /\ [Next]_vars => TypeOK' /\ CallsKnown'
  BY StepTyped
<1> QED
  BY <1>1, InitTyped, PTL DEF Spec

(* The registry, the file and the calls stay within their types, and the   *)
(* servers never run while the targets are still being loaded.             *)
THEOREM TypeCorrect == Spec => []TypeOK
BY TypesHold, PTL

LEMMA ManualAfter ==
  ASSUME TypeOK, NEW n \in Node, NEW a \in Addr, NEW b \in BOOLEAN,
         devices' = [devices EXCEPT ![n] = [addr |-> a, manual |-> b]]
  PROVE  /\ Manual(n)' <=> b
         /\ \A m \in Node \ {n} : Manual(m)' <=> Manual(m)
<1>1. devices'[n] = [addr |-> a, manual |-> b] /\ devices'[n] # None
  BY DiscoveryAssumption DEF TypeOK, DiscoveryAssumption
<1>2. \A m \in Node \ {n} : devices'[m] = devices[m]
  BY DEF TypeOK
<1> QED
  BY <1>1, <1>2 DEF Manual, Known

LEMMA ManualTyped == ASSUME TypeOK, NEW n \in Node PROVE Manual(n) \in BOOLEAN
BY DEF TypeOK, Manual, Known, Entry

(* A manual target leaves the registry only when a request removes it or   *)
(* the process dies: no announcement, expiry, save or load does it.        *)
THEOREM ManualStays == Spec => ManualTargetsStay
<1> DEFINE Leaves(n) ==
      Manual(n) /\ ~Manual(n)' =>
        \/ crashes' # crashes
        \/ \E r \in Request : pc[r] = "idle" /\ pc'[r] # "idle"
                                /\ op'[r] = "remove" /\ node'[r] = n
<1>1. TypeOK /\ CallsKnown /\ [Next]_vars => [\A n \in Node : Leaves(n)]_vars
  <2> SUFFICES ASSUME TypeOK, CallsKnown, [Next]_vars, NEW n \in Node
               PROVE  Leaves(n)
    OBVIOUS
  <2>1. CASE UNCHANGED devices
    BY <2>1 DEF Manual, Known
  <2>2. CASE \E c \in Caller : Register(c)
    <3>1. PICK c \in Caller : Register(c)
      BY <2>2
    <3>2. node[c] \in Node /\ addr[c] \in Addr
      BY <3>1 DEF Register, CallsKnown
    <3> QED
      BY <3>1, <3>2, ManualAfter DEF Register
  <2>3. CASE \E r \in Request, m \in Node : Remove(r, m)
    BY <2>3 DEF Remove, Manual, Known, TypeOK, Caller
  <2>4. CASE \E a \in Addr : \E m \in At[a] : Upsert(m, a)
    <3>1. PICK a \in Addr : \E m \in At[a] : Upsert(m, a)
      BY <2>4
    <3>2. PICK m \in At[a] : Upsert(m, a)
      BY <3>1
    <3>3. m \in Node
      BY DiscoveryAssumption DEF DiscoveryAssumption
    <3> QED
      BY <3>2, <3>3, ManualAfter, ManualTyped DEF Upsert
  <2>5. CASE Evict
    BY <2>5 DEF Evict, Manual, Known, TypeOK
  <2>6. CASE Crash
    BY <2>6, DiscoveryAssumption DEF Crash, TypeOK, DiscoveryAssumption
  <2> QED
    BY <2>1, <2>2, <2>3, <2>4, <2>5, <2>6
    DEF Next, LoaderStep, ProbeStep, SaveStep, AddTarget, LoadNext, Probe, Started, ProbeFails,
        Answers, Collect, Truncate, Write, SaveFails, Caller, vars
<1> QED
  BY <1>1, TypesHold, PTL DEF Spec, ManualTargetsStay

-----------------------------------------------------------------------------
(* What the file holds.                                                    *)

(* A step of a call that is about no save.                                 *)
Aside(c) ==
  /\ ~Busy(c) /\ ~Busy(c)'
  /\ \A d \in Caller \ {c} : pc'[d] = pc[d] /\ op'[d] = op[d] /\ node'[d] = node[d]

LEMMA AsideKeepsBusy ==
  ASSUME NEW c \in Caller, Aside(c)
  PROVE  /\ \A d \in Caller : Busy(d)' <=> Busy(d)
         /\ \A d \in Caller : Busy(d) => pc'[d] = pc[d] /\ op'[d] = op[d] /\ node'[d] = node[d]
         /\ \A n, what : Saving(n, what)' <=> Saving(n, what)
BY DEF Aside, Busy, Saving

(* Probes touch nothing that the invariant is about.                       *)
LEMMA ProbesKeep ==
  ASSUME TypeOK, SaveInv, FileInv, NEW c \in Caller, Aside(c),
         UNCHANGED <<devices, file, saveVars>>,
         \A d \in Caller : Busy(d) => list'[d] = list[d],
         lost \subseteq lost', up' => todo' = {},
         \A n \in Node : Waiting(n) => Waiting(n)' \/ n \in lost'
  PROVE  SaveInv' /\ FileInv'
<1>1. \A n : (Manual(n)' <=> Manual(n)) /\ (Saved(n)' <=> Saved(n))
  BY DEF Manual, Known, Saved
<1>2. \A d \in Caller : Busy(d) => \A n : InList(d, n)' <=> InList(d, n)
  BY DEF InList
<1>3. late' = late /\ late \subseteq Caller
  BY DEF saveVars, TypeOK
<1>4. \A d \in Caller : pc[d] \in {"collected", "writing"} \/ pc'[d] \in {"collected", "writing"} =>
                           pc'[d] = pc[d] /\ \A n : InList(d, n)' <=> InList(d, n)
  BY <1>2, AsideKeepsBusy DEF Busy
<1>5. SaveInv'
  BY <1>1, <1>3, <1>4 DEF SaveInv, InTime
<1>6. ManualFound' /\ RemovedGone'
  BY <1>1, AsideKeepsBusy DEF FileInv, ManualFound, RemovedGone, saveVars
<1>7. AddedKnown' /\ AddedFound'
  BY <1>1, AsideKeepsBusy DEF FileInv, AddedKnown, AddedFound, saveVars
<1> QED
  BY <1>5, <1>6, <1>7 DEF FileInv

(* A call that starts a save leaves the other saves where they are, but    *)
(* they have been come across.                                             *)
Starts(c) ==
  /\ ~Busy(c) /\ pc'[c] = "listed"
  /\ \A d \in Caller \ {c} : pc'[d] = pc[d] /\ op'[d] = op[d] /\ node'[d] = node[d]
  /\ late' = CameAcross({"collected", "writing"})

LEMMA SaveStarts ==
  ASSUME TypeOK, NEW c \in Caller, Starts(c), SaveInv
  PROVE  /\ Busy(c)' /\ SaveInv'
         /\ \A n, what : Saving(n, what) => Saving(n, what)'
<1>1. Busy(c)' /\ \A d \in Caller \ {c} : Busy(d)' <=> Busy(d)
  BY DEF Starts, Busy
<1>2. \A n, what : Saving(n, what) => Saving(n, what)'
  BY <1>1 DEF Starts, Saving
<1>3. \A d \in late' : d \in Caller /\ pc[d] \in {"collected", "writing"}
  BY DEF Starts, CameAcross, SaveInv, TypeOK
<1>4. \A d \in late' : pc'[d] \in {"collected", "writing"}
  BY <1>3 DEF Starts, Busy
<1>5. \A d \in Caller : pc'[d] \in {"collected", "writing"} => d \in late'
  BY DEF Starts, CameAcross
<1> QED
  BY <1>1, <1>2, <1>4, <1>5 DEF SaveInv, InTime

LEMMA RegisterKeeps ==
  ASSUME TypeOK, CallsKnown, SaveInv, FileInv, NEW c \in Caller, Register(c)
  PROVE  SaveInv' /\ FileInv'
<1>1. node[c] \in Node /\ addr[c] \in Addr
  BY DEF Register, CallsKnown
<1>2. \A n \in Node : Manual(n)' <=> n = node[c] \/ Manual(n)
  BY <1>1, ManualAfter DEF Register
<1>3. Starts(c)
  BY DEF Starts, Register, Busy, TypeOK
<1>4. \A n : (Saved(n)' <=> Saved(n)) /\ (Waiting(n)' <=> Waiting(n))
  BY DEF Register, Saved, Waiting
<1>5. \A n \in Node : /\ acked'[n] = "add" => acked[n] = "add"
                      /\ acked'[n] = "remove" => acked[n] = "remove" /\ n # node[c]
  BY <1>1 DEF Register, Redone, TypeOK
<1>6. ManualFound'
  BY <1>3, SaveStarts DEF ManualFound
<1>7. RemovedGone'
  BY <1>2, <1>4, <1>5 DEF FileInv, RemovedGone, Register
<1>8. \A n \in Node : n \in lost => n \in lost' \/ n = node[c]
  BY DEF Register
<1>9. AddedKnown'
  <2> SUFFICES ASSUME NEW n \in Node, acked'[n] = "add"
               PROVE  Manual(n)' \/ n \in lost' \/ Waiting(n)'
    BY DEF AddedKnown
  <2>1. Manual(n) \/ n \in lost \/ Waiting(n)
    BY <1>5 DEF FileInv, AddedKnown
  <2> QED
    BY <1>2, <1>4, <1>8, <2>1
<1>10. Saving(node[c], "add")'
  BY <1>3, SaveStarts DEF Saving, Register, CallsKnown
<1>11. AddedFound'
  BY <1>3, <1>4, <1>5, <1>8, <1>10, SaveStarts DEF FileInv, AddedFound, Register
<1> QED
  BY <1>3, <1>6, <1>7, <1>9, <1>11, SaveStarts DEF FileInv, Register

LEMMA RemoveKeeps ==
  ASSUME TypeOK, SaveInv, FileInv, NEW r \in Request, NEW n \in Node, Remove(r, n)
  PROVE  SaveInv' /\ FileInv'
<1>1. ~Manual(n)' /\ \A m \in Node \ {n} : Manual(m)' <=> Manual(m)
  BY DEF Remove, Manual, Known, TypeOK
<1>2. r \in Caller /\ Starts(r)
  BY DEF Starts, Remove, Busy, TypeOK, Caller
<1>3. \A m : (Saved(m)' <=> Saved(m)) /\ (Waiting(m)' <=> Waiting(m))
  BY DEF Remove, Saved, Waiting
<1>4. \A m \in Node : /\ acked'[m] = "add" => acked[m] = "add" /\ m # n
                      /\ acked'[m] = "remove" => acked[m] = "remove"
  BY DEF Remove, Redone, TypeOK
<1>5. ManualFound'
  BY <1>2, SaveStarts DEF ManualFound
<1>6. RemovedGone'
  BY <1>1, <1>3, <1>4 DEF FileInv, RemovedGone, Remove
<1>7. AddedKnown' /\ AddedFound'
  BY <1>1, <1>2, <1>3, <1>4, SaveStarts DEF FileInv, AddedKnown, AddedFound, Remove
<1> QED
  BY <1>2, <1>5, <1>6, <1>7, SaveStarts DEF FileInv, Remove

LEMMA CollectKeeps ==
  ASSUME TypeOK, SaveInv, FileInv, NEW c \in Caller, Collect(c)
  PROVE  SaveInv' /\ FileInv'
<1>1. Busy(c) /\ Busy(c)' /\ \A d \in Caller : Busy(d)' <=> Busy(d)
  BY DEF Collect, Busy, TypeOK
<1>2. \A n : /\ Manual(n)' <=> Manual(n)
             /\ Saved(n)' <=> Saved(n)
             /\ Waiting(n)' <=> Waiting(n)
             /\ \A what : Saving(n, what)' <=> Saving(n, what)
             /\ \A d \in Caller \ {c} : InList(d, n)' <=> InList(d, n)
  BY <1>1 DEF Collect, Manual, Known, Saved, Waiting, Saving, InList, TypeOK
<1>3. \A n \in Node : Manual(n)' <=> InList(c, n)'
  <2>1. \A n \in Node : Manual(n) <=> \E t \in Listed : t[1] = n
    <3> SUFFICES ASSUME NEW n \in Node
                 PROVE  Manual(n) <=> \E t \in Listed : t[1] = n
      OBVIOUS
    <3>1. ASSUME Manual(n) PROVE <<n, devices[n].addr>> \in Listed
      BY <3>1 DEF Listed
    <3>2. ASSUME NEW t \in Listed, t[1] = n PROVE Manual(n)
      <4>1. PICK m \in {k \in Node : Manual(k)} : t = <<m, devices[m].addr>>
        BY DEF Listed
      <4> QED
        BY <3>2, <4>1
    <3>3. <<n, devices[n].addr>>[1] = n
      OBVIOUS
    <3> QED
      BY <3>1, <3>2, <3>3
  <2>2. list'[c] = Listed
    BY DEF Collect, TypeOK
  <2> QED
    BY <1>2, <2>1, <2>2 DEF InList
<1>4. SaveInv'
  BY <1>1, <1>2, <1>3 DEF SaveInv, Collect, TypeOK, InTime, saveVars
<1>5. FileInv'
  BY <1>1, <1>2 DEF FileInv, Collect, ManualFound, RemovedGone, AddedKnown, AddedFound, saveVars
<1> QED
  BY <1>4, <1>5

LEMMA TruncateKeeps ==
  ASSUME TypeOK, SaveInv, FileInv, NEW c \in Caller, Truncate(c)
  PROVE  SaveInv' /\ FileInv'
<1>1. Busy(c) /\ Busy(c)'
  BY DEF Truncate, Busy, TypeOK
<1>2. \A n : /\ Manual(n)' <=> Manual(n)
             /\ Waiting(n)' <=> Waiting(n)
             /\ \A d \in Caller : InList(d, n)' <=> InList(d, n)
  BY DEF Truncate, Manual, Known, Waiting, InList
<1>3. file' = Empty /\ file'.kind # "whole" /\ \A n : ~Saved(n)'
  BY DEF Truncate, Saved, Empty
<1>4. late' = CameAcross({"writing"}) /\ \A d \in Caller \ {c} : pc'[d] = pc[d]
  BY DEF Truncate, TypeOK
<1>5. \A d \in late' : pc'[d] \in {"collected", "writing"}
  BY <1>4 DEF Truncate, CameAcross, SaveInv, TypeOK
<1>6. \A d \in Caller : d \notin late' => d \notin late
  BY <1>4 DEF CameAcross
<1>7. SaveInv'
  BY <1>2, <1>3, <1>4, <1>5, <1>6 DEF SaveInv, InTime, Truncate
<1>8. FileInv'
  BY <1>1, <1>2, <1>3 DEF FileInv, Truncate, ManualFound, RemovedGone, AddedKnown, AddedFound
<1> QED
  BY <1>7, <1>8

(* The end of a save.                                                      *)
LEMMA SaveEnds ==
  ASSUME TypeOK, SaveInv, NEW c \in Caller, Write(c) \/ SaveFails(c)
  PROVE  /\ Busy(c) /\ SaveInv'
         /\ \A n : (Manual(n)' <=> Manual(n)) /\ (Waiting(n)' <=> Waiting(n))
         /\ \A n, what : Saving(n, what) => Saving(n, what)' \/ n = node[c]
<1>1. Busy(c)
  BY DEF Write, SaveFails, Busy
<1>2. /\ pc'[c] = "idle"
      /\ \A d \in Caller \ {c} : pc'[d] = pc[d] /\ op'[d] = op[d] /\ node'[d] = node[d] /\ list'[d] = list[d]
  BY DEF Write, SaveFails, Return, TypeOK
<1>3. \A n, what : Saving(n, what) => Saving(n, what)' \/ n = node[c]
  BY <1>2 DEF Saving, Busy
<1>4. \A n : (Manual(n)' <=> Manual(n)) /\ (Waiting(n)' <=> Waiting(n))
  BY DEF Write, SaveFails, Manual, Known, Waiting
<1>5. \A d \in Caller \ {c} : \A n : InList(d, n)' <=> InList(d, n)
  BY <1>2 DEF InList
<1>6. (late' = late \ {c} /\ file' = file) \/ late' = CameAcross({"writing"}) \ {c}
  BY DEF Write, SaveFails
<1>7. \A d \in late' : pc'[d] \in {"collected", "writing"}
  BY <1>2, <1>6 DEF CameAcross, SaveInv, TypeOK
<1>8. \A d \in Caller \ {c} : d \notin late' => d \notin late /\ (pc[d] = "writing" => file' = file)
  BY <1>6 DEF CameAcross
<1>9. SaveInv'
  BY <1>2, <1>4, <1>5, <1>7, <1>8 DEF SaveInv, InTime
<1> QED
  BY <1>1, <1>3, <1>4, <1>9

LEMMA WriteKeeps ==
  ASSUME TypeOK, CallsKnown, SaveInv, FileInv, NEW c \in Caller, Write(c)
  PROVE  SaveInv' /\ FileInv'
<1>1. ASSUME ~overtaken' PROVE \A n \in Node : Saved(n)' <=> Manual(n)'
  <2>1. pc[c] = "writing" /\ InTime(c)
    BY <1>1 DEF Write, InTime
  <2>2. file = Empty /\ \A n \in Node : Manual(n) <=> InList(c, n)
    BY <2>1 DEF SaveInv
  <2>3. file' = Whole(list[c])
    BY <2>2 DEF Write, Landing
  <2> QED
    BY <2>2, <2>3, SaveEnds DEF Saved, InList, Whole
<1>2. \A n \in Node : \/ acked'[n] = acked[n]
                      \/ acked'[n] = "add" /\ Manual(n)
                      \/ acked'[n] = "remove" /\ ~Manual(n)
  <2>1. node[c] \in Node /\ op[c] \in {"add", "remove"}
    BY SaveEnds DEF CallsKnown, TypeOK
  <2>2. CASE Undone(c)
    BY <2>2 DEF Write
  <2>3. CASE ~Undone(c)
    <3>1. acked' = [acked EXCEPT ![node[c]] = op[c]]
      BY <2>3 DEF Write
    <3>2. op[c] = "add" <=> Manual(node[c])
      BY <2>1, <2>3, ManualTyped DEF Undone
    <3> QED
      BY <2>1, <3>1, <3>2 DEF TypeOK
  <2> QED
    BY <2>2, <2>3
<1>3. RemovedGone'
  BY <1>1, <1>2, SaveEnds DEF FileInv, RemovedGone
<1>4. AddedKnown'
  BY <1>2, SaveEnds DEF FileInv, AddedKnown, Write
<1>5. ManualFound' /\ AddedFound'
  BY <1>1, <1>4 DEF ManualFound, AddedFound, AddedKnown
<1> QED
  BY <1>3, <1>4, <1>5, SaveEnds DEF FileInv, Write

LEMMA SaveFailsKeeps ==
  ASSUME TypeOK, CallsKnown, SaveInv, FileInv, NEW c \in Caller, SaveFails(c)
  PROVE  SaveInv' /\ FileInv'
<1>1. \A n \in Node : acked'[n] # "nothing" => acked'[n] = acked[n] /\ n # node[c]
  BY SaveEnds DEF SaveFails, CallsKnown, TypeOK
<1>2. file' = file \/ file' = Garbled
  BY DEF SaveFails
<1>3. \A n : Saved(n)' => Saved(n)
  BY <1>2 DEF Saved, Garbled
<1>4. file'.kind = "whole" => file.kind = "whole" /\ \A n : Saved(n)' <=> Saved(n)
  BY <1>2 DEF Saved, Garbled
<1>5. warned' /\ overtaken' = overtaken /\ lost' = lost /\ (up' => todo' = {})
  BY DEF SaveFails, FileInv
<1>6. ManualFound' /\ RemovedGone'
  BY <1>1, <1>3, <1>5, SaveEnds DEF FileInv, ManualFound, RemovedGone
<1>7. AddedKnown'
  BY <1>1, <1>5, SaveEnds DEF FileInv, AddedKnown
<1>8. AddedFound'
  BY <1>1, <1>4, <1>5, SaveEnds DEF FileInv, AddedFound
<1> QED
  BY <1>5, <1>6, <1>7, <1>8, SaveEnds DEF FileInv

(* Announcements and expiry change what is known, not what is manual.      *)
LEMMA ManualKept ==
  ASSUME TypeOK, SaveInv, FileInv, \A n \in Node : Manual(n)' <=> Manual(n),
         UNCHANGED <<file, up, todo, callVars, saveVars, lost>>
  PROVE  SaveInv' /\ FileInv'
<1>1. \A n : /\ Saved(n)' <=> Saved(n)
             /\ Waiting(n)' <=> Waiting(n)
             /\ \A what : Saving(n, what)' <=> Saving(n, what)
             /\ \A c \in Caller : InList(c, n)' <=> InList(c, n)
  BY DEF Saved, Waiting, Saving, Busy, InList, callVars
<1>2. \A c \in Caller : Busy(c)' <=> Busy(c)
  BY DEF Busy, callVars
<1>3. SaveInv'
  BY <1>1 DEF SaveInv, InTime, callVars, saveVars
<1>4. FileInv'
  BY <1>1, <1>2 DEF FileInv, ManualFound, RemovedGone, AddedKnown, AddedFound, saveVars
<1> QED
  BY <1>3, <1>4

LEMMA CrashKeeps ==
  ASSUME TypeOK, SaveInv, FileInv, Crash
  PROVE  SaveInv' /\ FileInv'
<1>1. \A c \in Caller : pc'[c] = "idle"
  BY DEF Crash, AllIdle
<1>2. \A n \in Node : ~Manual(n)'
  BY DEF Crash, Unknown, Manual, Known
<1>3. \A n : (Saved(n)' <=> Saved(n)) /\ (Waiting(n)' <=> Saved(n))
  BY DEF Crash, Saved, Waiting
<1>4. ASSUME NEW n \in Node, acked[n] = "add" PROVE Saved(n) \/ n \in lost'
  <2>1. CASE Settled
    <3>1. ManualFound /\ todo = {} /\ \A c \in Caller : ~Busy(c)
      BY <2>1 DEF Settled, AtRest, AllIdle, Busy, FileInv
    <3>2. Manual(n) \/ n \in lost
      BY <1>4, <3>1 DEF FileInv, AddedKnown, Waiting
    <3> QED
      BY <2>1, <3>1, <3>2 DEF ManualFound, Settled, Crash
  <2>2. CASE ~Settled
    BY <2>2 DEF Crash
  <2> QED
    BY <2>1, <2>2
<1>5. SaveInv'
  BY <1>1 DEF SaveInv, Crash
<1>6. FileInv'
  BY <1>1, <1>2, <1>3, <1>4 DEF FileInv, Crash, ManualFound, RemovedGone, AddedKnown, AddedFound
<1> QED
  BY <1>5, <1>6

LEMMA StepKeeps ==
  ASSUME TypeOK, CallsKnown, SaveInv, FileInv, [Next]_vars
  PROVE  SaveInv' /\ FileInv'
<1>1. CASE \E c \in Caller : SaveStep(c)
  BY <1>1, RegisterKeeps, CollectKeeps, TruncateKeeps, WriteKeeps, SaveFailsKeeps DEF SaveStep
<1>2. CASE \E r \in Request, n \in Node : Remove(r, n)
  BY <1>2, RemoveKeeps
<1>3. CASE Crash
  BY <1>3, CrashKeeps
<1>4. CASE \E a \in Addr : \E n \in At[a] : Upsert(n, a)
  <2>1. PICK a \in Addr : \E n \in At[a] : Upsert(n, a)
    BY <1>4
  <2>2. PICK n \in At[a] : Upsert(n, a)
    BY <2>1
  <2>3. n \in Node
    BY DiscoveryAssumption DEF DiscoveryAssumption
  <2>4. \A m \in Node : Manual(m)' <=> Manual(m)
    BY <2>2, <2>3, ManualAfter, ManualTyped DEF Upsert
  <2> QED
    BY <2>2, <2>4, ManualKept DEF Upsert
<1>5. CASE Evict
  <2>1. \A m \in Node : Manual(m)' <=> Manual(m)
    BY <1>5 DEF Evict, Manual, Known, TypeOK
  <2> QED
    BY <1>5, <2>1, ManualKept DEF Evict
<1>6. CASE UNCHANGED vars
  BY <1>6, ManualKept DEF vars, Manual, Known
<1>7. CASE \E c \in Caller : ProbeStep(c)
  <2>1. PICK c \in Caller : ProbeStep(c)
    BY <1>7
  <2>2. Aside(c)
    BY <2>1 DEF ProbeStep, ProbeFails, Return, Answers, Aside, Busy, TypeOK
  <2>3. \A d \in Caller : Busy(d) => list'[d] = list[d]
    BY <2>1 DEF ProbeStep, ProbeFails, Return, Answers, Busy, TypeOK
  <2> QED
    BY <2>1, <2>2, <2>3, ProbesKeep DEF ProbeStep, ProbeFails, Answers, FileInv, Waiting
<1>8. CASE \E r \in Request, a \in Addr : AddTarget(r, a)
  <2>1. PICK r \in Request : \E a \in Addr : AddTarget(r, a)
    BY <1>8
  <2>2. r \in Caller /\ Aside(r)
    BY <2>1 DEF AddTarget, Probe, Aside, Busy, TypeOK, Caller
  <2> QED
    BY <2>1, <2>2, ProbesKeep DEF AddTarget, Probe, FileInv, Waiting
<1>9. CASE LoadNext
  <2>1. Loader \in Caller /\ Aside(Loader)
    BY <1>9 DEF LoadNext, Probe, Aside, Busy, TypeOK, Caller
  <2>2. \A n \in Node : Waiting(n) => Waiting(n)' \/ n \in lost'
    BY <1>9 DEF LoadNext, Waiting
  <2> QED
    BY <1>9, <2>1, <2>2, ProbesKeep DEF LoadNext, Probe
<1>10. CASE Started
  <2>1. Loader \in Caller /\ Aside(Loader)
    BY <1>10 DEF Started, callVars, Aside, Busy, Caller
  <2> QED
    BY <1>10, <2>1, ProbesKeep DEF Started, callVars, Waiting
<1> QED
  BY <1>1, <1>2, <1>3, <1>4, <1>5, <1>6, <1>7, <1>8, <1>9, <1>10 DEF Next, LoaderStep, Caller

(* The inductive invariant behind the theorems about targets.json.         *)
THEOREM InvariantHolds == Spec => [](TypeOK /\ SaveInv /\ FileInv)
<1>1. Init => SaveInv /\ FileInv
  <2> SUFFICES ASSUME Init PROVE SaveInv /\ FileInv
    OBVIOUS
  <2>1. \A c \in Caller : pc[c] = "idle"
    BY DEF Init, AllIdle
  <2>2. \A n \in Node : ~Manual(n) /\ acked[n] = "nothing"
    BY DEF Init, Unknown, Manual, Known
  <2> QED
    BY <2>1, <2>2 DEF Init, SaveInv, FileInv, ManualFound, RemovedGone, AddedKnown, AddedFound
<1>2. TypeOK /\ CallsKnown /\ SaveInv /\ FileInv /\ [Next]_vars => SaveInv' /\ FileInv'
  BY StepKeeps
<1> QED
  BY <1>1, <1>2, TypesHold, PTL DEF Spec

(* Once its requests are answered, however many there were at once, and    *)
(* none warned, whatever is manual in the registry is in the file, if the  *)
(* last save came across no other call.                                    *)
THEOREM ManualIsSaved == Spec => []ManualTargetsSaved
<1>1. FileInv => ManualTargetsSaved
  BY DEF FileInv, ManualFound, ManualTargetsSaved, Settled, AtRest, AllIdle, Busy
<1> QED
  BY <1>1, InvariantHolds, PTL

(* What the user removed is not in the file, whatever crashed since, if    *)
(* the save that wrote it came across no other call.                       *)
THEOREM RemovedIsUnsaved == Spec => []RemovedTargetsUnsaved
<1>1. FileInv => RemovedTargetsUnsaved
  BY DEF FileInv, RemovedGone, RemovedTargetsUnsaved
<1> QED
  BY <1>1, InvariantHolds, PTL

(* A whole file, written by a save that came across no other call, has     *)
(* every target that was added and not removed since, but those that a     *)
(* failed save, a crash or an unanswered probe lost.                       *)
THEOREM AddedIsKept == Spec => []AddedTargetsKept
<1>1. FileInv => AddedTargetsKept
  <2> SUFFICES ASSUME FileInv, AtRest, ~overtaken, file.kind = "whole",
                      NEW n \in Node, acked[n] = "add"
               PROVE  Saved(n) \/ n \in lost
    BY DEF AddedTargetsKept
  <2>1. ~Waiting(n) /\ ~Saving(n, "add")
    BY DEF FileInv, AtRest, AllIdle, Waiting, Saving, Busy
  <2> QED
    BY <2>1 DEF FileInv, AddedFound
<1> QED
  BY <1>1, InvariantHolds, PTL
=============================================================================
