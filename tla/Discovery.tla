----------------------------- MODULE Discovery -----------------------------
(***************************************************************************)
(* The device registry of internal/discovery/discovery.go and the file     *)
(* targets.json in which the targets that the user added survive a         *)
(* restart.                                                                *)
(*                                                                         *)
(* d.mu makes single accesses of the registry atomic.  A probe, and the    *)
(* opening and the writing of the file, happen outside it.  Time is        *)
(* abstract: what was not added by the user may expire at any moment.      *)
(***************************************************************************)
EXTENDS Naturals

CONSTANTS
  Node,       (* fingerprints of other devices; our own is ignored         *)
  Addr,       (* addresses, with their port                                *)
  At,         (* address -> the devices that may have it, now or later     *)
  Request,    (* requests of the web UI that can be in progress at once    *)
  Loader,     (* loadTargets, which Start runs to its end                  *)
  MaxCrashes, (* bound: how often the process dies                         *)
  None

ASSUME DiscoveryAssumption ==
  /\ Loader \notin Request
  /\ None \notin Node \union Addr \union [addr : Addr, manual : BOOLEAN]
  /\ At \in [Addr -> SUBSET Node]
  /\ MaxCrashes \in Nat

VARIABLES
  devices,    (* d.devices: None, or address and Manual                    *)
  file,       (* targets.json                                              *)
  up,         (* Start has returned: the loops and the servers run         *)
  todo,       (* loadTargets: saved targets not tried yet                  *)
  pc,         (* where each call of Add or Remove is                       *)
  op,         (* which of the two it is, ...                               *)
  addr,       (* ... the address it probes, ...                            *)
  node,       (* ... the device it is about, ...                           *)
  list,       (* ... and what its saveTargets collected                    *)
  acked,      (* history: what was last done for each device, and answered *)
  warned,     (* history: the last save failed, which is logged            *)
  late,       (* history: saves that another call came across              *)
  overtaken,  (* history: the file was last written by a late save         *)
  lost,       (* history: what a start could not read or did not find      *)
  crashes

callVars == <<pc, op, addr, node, list>>
saveVars == <<acked, warned, late, overtaken>>
vars == <<devices, file, up, todo, callVars, saveVars, lost, crashes>>

Caller == Request \union {Loader}
Entry == [addr : Addr, manual : BOOLEAN]

(* The file lists addresses.  The fingerprint beside each is what stood in *)
(* the registry with it; nobody reads it back.                             *)
Target == Node \X Addr
NoFile == [kind |-> "none", targets |-> {}]
Empty == [kind |-> "empty", targets |-> {}]
Garbled == [kind |-> "garbled", targets |-> {}]
Whole(ts) == [kind |-> "whole", targets |-> ts]

Known(n) == devices[n] # None
Manual(n) == Known(n) /\ devices[n].manual
Saved(n) == \E t \in file.targets : t[1] = n

TypeOK ==
  /\ devices \in [Node -> Entry \union {None}]
  /\ file \in [kind : {"none", "empty", "garbled", "whole"}, targets : SUBSET Target]
  /\ up \in BOOLEAN
  /\ todo \in SUBSET Target
  /\ pc \in [Caller -> {"idle", "probing", "found", "listed", "collected", "writing"}]
  /\ op \in [Caller -> {"add", "remove"}]
  /\ addr \in [Caller -> Addr \union {None}]
  /\ node \in [Caller -> Node \union {None}]
  /\ list \in [Caller -> SUBSET Target]
  /\ acked \in [Node -> {"nothing", "add", "remove"}]
  /\ warned \in BOOLEAN
  /\ late \in SUBSET Caller
  /\ overtaken \in BOOLEAN
  /\ lost \in SUBSET Node
  /\ crashes \in 0 .. MaxCrashes
  /\ IF up THEN pc[Loader] = "idle" ELSE \A r \in Request : pc[r] = "idle"

Unknown == [n \in Node |-> None]
AllIdle == [c \in Caller |-> "idle"]
AllAdd == [c \in Caller |-> "add"]
AllNone == [c \in Caller |-> None]
NoLists == [c \in Caller |-> {}]

Init ==
  /\ devices = Unknown
  /\ file = NoFile
  /\ up = FALSE
  /\ todo = {}
  /\ pc = AllIdle /\ op = AllAdd /\ addr = AllNone /\ node = AllNone /\ list = NoLists
  /\ acked = [n \in Node |-> "nothing"]
  /\ warned = FALSE
  /\ late = {}
  /\ overtaken = FALSE
  /\ lost = {}
  /\ crashes = 0

(* A call returns, and what it kept is gone.                               *)
Return(c) ==
  /\ pc' = [pc EXCEPT ![c] = "idle"]
  /\ op' = [op EXCEPT ![c] = "add"]
  /\ addr' = [addr EXCEPT ![c] = None]
  /\ node' = [node EXCEPT ![c] = None]
  /\ list' = [list EXCEPT ![c] = {}]

(* The saves at some stages, that a step of another call comes across.     *)
CameAcross(stages) == late \union {d \in Caller : pc[d] \in stages}
(* What was answered for a device no longer counts once a call undoes it.  *)
Redone(n, what) == [acked EXCEPT ![n] = IF @ = what THEN @ ELSE "nothing"]

-----------------------------------------------------------------------------
(* Add, by a request or for a saved address.                               *)

Probe(c, a) ==
  /\ pc[c] = "idle"
  /\ pc' = [pc EXCEPT ![c] = "probing"]
  /\ op' = [op EXCEPT ![c] = "add"]
  /\ addr' = [addr EXCEPT ![c] = a]
  /\ UNCHANGED <<devices, file, up, node, list, saveVars, crashes>>

AddTarget(r, a) == up /\ Probe(r, a) /\ UNCHANGED <<todo, lost>>

(* Mutant: one target that was tried is enough.                            *)
LoadNextOnly ==
  /\ ~up
  /\ \E t \in todo : Probe(Loader, t[2]) /\ lost' = lost \union {t[1]}
  /\ todo' = {}

(* loadTargets: the saved addresses one by one, in some order.             *)
LoadNext ==
  /\ ~up
  /\ \E t \in todo : /\ Probe(Loader, t[2])
                      /\ todo' = todo \ {t}
                      /\ lost' = lost \union {t[1]}

Started ==
  /\ ~up /\ todo = {} /\ pc[Loader] = "idle"
  /\ up' = TRUE
  /\ UNCHANGED <<devices, file, todo, callVars, saveVars, lost, crashes>>

(* No LocalSend node answers in time, or the node is this one.             *)
ProbeFails(c) ==
  /\ pc[c] = "probing"
  /\ Return(c)
  /\ UNCHANGED <<devices, file, up, todo, saveVars, lost, crashes>>

(* Whoever has the address now answers.                                    *)
Answers(c) ==
  /\ pc[c] = "probing"
  /\ pc' = [pc EXCEPT ![c] = "found"]
  /\ \E n \in At[addr[c]] : node' = [node EXCEPT ![c] = n]
  /\ UNCHANGED <<devices, file, up, todo, op, addr, list, saveVars, lost, crashes>>

(* Mutant: a target is saved only if it was unknown.                       *)
RegisterOnce(c) ==
  /\ pc[c] = "found"
  /\ IF Known(node[c])
     THEN Return(c) /\ acked' = [acked EXCEPT ![node[c]] = "add"]
     ELSE /\ pc' = [pc EXCEPT ![c] = "listed"]
          /\ addr' = [addr EXCEPT ![c] = None]
          /\ acked' = Redone(node[c], "add")
          /\ UNCHANGED <<op, node, list>>
  /\ devices' = [devices EXCEPT ![node[c]] = [addr |-> addr[c], manual |-> TRUE]]
  /\ lost' = lost \ {node[c]}
  /\ late' = CameAcross({"collected", "writing"})
  /\ UNCHANGED <<file, up, todo, warned, overtaken, crashes>>

Register(c) ==
  /\ pc[c] = "found"
  /\ pc' = [pc EXCEPT ![c] = "listed"]
  /\ addr' = [addr EXCEPT ![c] = None]
  /\ devices' = [devices EXCEPT ![node[c]] = [addr |-> addr[c], manual |-> TRUE]]
  /\ lost' = lost \ {node[c]}
  /\ acked' = Redone(node[c], "add")
  /\ late' = CameAcross({"collected", "writing"})
  /\ UNCHANGED <<file, up, todo, op, node, list, warned, overtaken, crashes>>

-----------------------------------------------------------------------------
(* Remove.  The removal of an unknown device changes nothing.              *)

Listed == {<<n, devices[n].addr>> : n \in {m \in Node : Manual(m)}}

(* Mutant: the targets are collected before the device is deleted.         *)
RemoveCollected(r, n) ==
  /\ up /\ pc[r] = "idle" /\ Known(n)
  /\ list' = [list EXCEPT ![r] = Listed]
  /\ devices' = [devices EXCEPT ![n] = None]
  /\ pc' = [pc EXCEPT ![r] = "collected"]
  /\ op' = [op EXCEPT ![r] = "remove"]
  /\ node' = [node EXCEPT ![r] = n]
  /\ acked' = Redone(n, "remove")
  /\ late' = CameAcross({"collected", "writing"})
  /\ UNCHANGED <<file, up, todo, addr, warned, overtaken, lost, crashes>>

Remove(r, n) ==
  /\ up /\ pc[r] = "idle" /\ Known(n)
  /\ devices' = [devices EXCEPT ![n] = None]
  /\ pc' = [pc EXCEPT ![r] = "listed"]
  /\ op' = [op EXCEPT ![r] = "remove"]
  /\ node' = [node EXCEPT ![r] = n]
  /\ acked' = Redone(n, "remove")
  /\ late' = CameAcross({"collected", "writing"})
  /\ UNCHANGED <<file, up, todo, addr, list, warned, overtaken, lost, crashes>>

-----------------------------------------------------------------------------
(* saveTargets, at the end of both.                                        *)

Collect(c) ==
  /\ pc[c] = "listed"
  /\ pc' = [pc EXCEPT ![c] = "collected"]
  /\ list' = [list EXCEPT ![c] = Listed]
  /\ UNCHANGED <<devices, file, up, todo, op, addr, node, saveVars, lost, crashes>>

(* os.WriteFile truncates the file ...                                     *)
Truncate(c) ==
  /\ pc[c] = "collected"
  /\ pc' = [pc EXCEPT ![c] = "writing"]
  /\ file' = Empty
  /\ late' = CameAcross({"writing"})
  /\ UNCHANGED <<devices, up, todo, op, addr, node, list, acked, warned, overtaken, lost, crashes>>

(* ... and writes it from its beginning.  What another call wrote since    *)
(* may be longer and stick out.  The call then returns to its user, who    *)
(* goes by the answer unless another request undid it in the meantime.     *)
Landing(c) ==
  {Whole(list[c])} \union IF file \in {Empty, Whole(list[c])} THEN {} ELSE {Garbled}
Undone(c) == (op[c] = "add") # Manual(node[c])
Write(c) ==
  /\ pc[c] = "writing"
  /\ file' \in Landing(c)
  /\ acked' = IF Undone(c) THEN acked ELSE [acked EXCEPT ![node[c]] = op[c]]
  /\ warned' = FALSE
  /\ overtaken' = (c \in late)
  /\ late' = CameAcross({"writing"}) \ {c}
  /\ Return(c)
  /\ UNCHANGED <<devices, up, todo, lost, crashes>>

(* The file cannot be opened, or the disk is full.  It is only logged.     *)
SaveFails(c) ==
  /\ \/ pc[c] = "collected" /\ UNCHANGED file /\ late' = late \ {c}
     \/ /\ pc[c] = "writing" /\ file' \in {file, Garbled}
        /\ late' = CameAcross({"writing"}) \ {c}
  /\ acked' = [acked EXCEPT ![node[c]] = "nothing"]
  /\ warned' = TRUE
  /\ Return(c)
  /\ UNCHANGED <<devices, up, todo, overtaken, lost, crashes>>

-----------------------------------------------------------------------------
(* Upsert: an announcement, or a call of /register.                        *)
Upsert(n, a) ==
  /\ up
  /\ devices' = [devices EXCEPT ![n] = [addr |-> a, manual |-> Manual(n)]]
  /\ UNCHANGED <<file, up, todo, callVars, saveVars, lost, crashes>>

(* Mutant: everything expires.                                             *)
EvictAll ==
  /\ up
  /\ \E S \in SUBSET {n \in Node : Known(n)} \ {{}} :
       devices' = [n \in Node |-> IF n \in S THEN None ELSE devices[n]]
  /\ UNCHANGED <<file, up, todo, callVars, saveVars, lost, crashes>>

(* The janitor: what was silent too long, unless the user added it.        *)
Evict ==
  /\ up
  /\ \E S \in SUBSET {n \in Node : Known(n) /\ ~Manual(n)} \ {{}} :
       devices' = [n \in Node |-> IF n \in S THEN None ELSE devices[n]]
  /\ UNCHANGED <<file, up, todo, callVars, saveVars, lost, crashes>>

(* The process dies and starts again.  A file that does not parse is       *)
(* passed over like a missing one.                                         *)
AtRest == up /\ pc = AllIdle
Settled == AtRest /\ ~warned /\ ~overtaken
Crash ==
  /\ crashes < MaxCrashes
  /\ crashes' = crashes + 1
  /\ devices' = Unknown
  /\ up' = FALSE
  /\ todo' = file.targets
  /\ lost' = IF Settled THEN lost ELSE lost \union {n \in Node : ~Saved(n)}
  /\ pc' = AllIdle /\ op' = AllAdd /\ addr' = AllNone /\ node' = AllNone /\ list' = NoLists
  /\ late' = {}
  /\ UNCHANGED <<file, acked, warned, overtaken>>

-----------------------------------------------------------------------------
SaveStep(c) == Register(c) \/ Collect(c) \/ Truncate(c) \/ Write(c) \/ SaveFails(c)
ProbeStep(c) == ProbeFails(c) \/ Answers(c)
LoaderStep == LoadNext \/ Started \/ ProbeStep(Loader) \/ SaveStep(Loader)

Next ==
  \/ \E r \in Request : \/ \E a \in Addr : AddTarget(r, a)
                        \/ \E n \in Node : Remove(r, n)
                        \/ ProbeStep(r) \/ SaveStep(r)
  \/ LoaderStep
  \/ \E a \in Addr : \E n \in At[a] : Upsert(n, a)
  \/ Evict
  \/ Crash

Spec == Init /\ [][Next]_vars

-----------------------------------------------------------------------------
(* Requests come as they like.  What they promise of the file is let go    *)
(* only while it was last written by a late save: one whose collection     *)
(* another call made stale, or beside whose writing another wrote.  The    *)
(* next save that no other comes across makes it true again.               *)

(* discovery.go:129, "registers the device as a persisted manual target":  *)
(* once its requests are answered, and none warned, whatever is manual in  *)
(* the registry is in the file, also after crashes in the middle of saves, *)
(* moves to other addresses and devices that swapped their addresses.      *)
ManualTargetsSaved ==
  Settled => \A n \in Node : Manual(n) => Saved(n)

(* discovery.go:167, "manual targets are also unpersisted": what the user  *)
(* removed, and nobody added again, is not in the file, and so cannot come *)
(* back by a restart.                                                      *)
RemovedTargetsUnsaved ==
  ~overtaken => \A n \in Node : acked[n] = "remove" => ~Saved(n)

(* discovery.go:43, "manual entries evade TTL eviction": while the process *)
(* lives a manual target leaves the registry, or stops being manual, only  *)
(* by a request that removes it.                                           *)
ManualTargetsStay ==
  [][\A n \in Node :
       Manual(n) /\ ~Manual(n)' =>
         \/ crashes' # crashes
         \/ \E r \in Request : pc[r] = "idle" /\ pc'[r] # "idle"
                                 /\ op'[r] = "remove" /\ node'[r] = n]_vars

(* discovery.go:43, "persist on disk": a file that was written to its end  *)
(* has every target that was added and not removed since, except those     *)
(* that did not answer while the program started, or that a save or a load *)
(* lost by failing or being cut off.                                       *)
AddedTargetsKept ==
  AtRest /\ ~overtaken /\ file.kind = "whole" =>
    \A n \in Node : acked[n] = "add" => Saved(n) \/ n \in lost
=============================================================================
