------------------------------ MODULE Folders ------------------------------
(***************************************************************************)
(* EnsureDir of internal/shares/shares.go, called by every upload for the  *)
(* folders in its file's name (internal/receive/receive.go), while other   *)
(* uploads do the same and other users work on the share.                  *)
(*                                                                         *)
(* The walk takes no lock.  Each look at the disk, and each Mkdir, is a    *)
(* step.  Nobody deletes or renames folders here.                          *)
(***************************************************************************)
EXTENDS Naturals, Sequences, SequencesExt

CONSTANTS
  Name,      (* names of files and folders                                 *)
  Depth,     (* how many folders a name may have                           *)
  Call,      (* calls of EnsureDir, each made at most once                 *)
  Outside    (* what a link that leads out of the share points to          *)

ASSUME FoldersAssumption == Depth \in Nat \ {0} /\ Outside \notin Name

(* Places in the share, the root being <<>>.  A link of another user leads *)
(* to a place in the share or out of it.                                   *)
Root == <<>>
Place == UNION {[1 .. n -> Name] : n \in 0 .. Depth}
Missing == [kind |-> "missing", to |-> Root]
Dir == [kind |-> "dir", to |-> Root]
Plain == [kind |-> "file", to |-> Root]
Link(to) == [kind |-> "link", to |-> to]
Node == {Missing, Dir, Plain} \union {Link(to) : to \in Place \union {<<Outside>>}}

VARIABLES
  fs,        (* what each place holds                                      *)
  pc,        (* where each call is                                         *)
  rel,       (* relDir, split into its elements                            *)
  at,        (* how many elements it has done                              *)
  refused,   (* history: the disk refused one of the call's system calls   *)
  raced      (* history: an element came to be after it was looked for     *)

vars == <<fs, pc, rel, at, refused, raced>>

TypeOK ==
  /\ fs \in [Place -> Node]
  /\ pc \in [Call -> {"idle", "look", "make", "check", "ready", "failed"}]
  /\ rel \in [Call -> Place]
  /\ at \in [Call -> 0 .. Depth]
  /\ refused \in SUBSET Call
  /\ raced \in SUBSET Call

Init ==
  /\ fs = [p \in Place |-> IF p = Root THEN Dir ELSE Missing]
  /\ pc = [c \in Call |-> "idle"]
  /\ rel = [c \in Call |-> Root]
  /\ at = [c \in Call |-> 0]
  /\ refused = {}
  /\ raced = {}

-----------------------------------------------------------------------------
(* Where a path of the share leads, links resolved element by element.     *)
Follow(disk, place, name) ==
  LET child == Append(place, name)
  IN IF child \in Place /\ disk[child].kind = "link" THEN disk[child].to ELSE child
LeadsOn(disk, path) ==
  LET place[i \in 0 .. Len(path)] ==
        IF i = 0 THEN Root ELSE Follow(disk, place[i - 1], path[i])
  IN place[Len(path)]
Leads(path) == LeadsOn(fs, path)
Folder(place) == place \in Place /\ fs[place] = Dir

(* The element that a call works on next.                                  *)
Candidate(c) == Append(Leads(SubSeq(rel[c], 1, at[c])), rel[c][at[c] + 1])

Move(c, from, to) ==
  /\ pc[c] = from
  /\ pc' = [pc EXCEPT ![c] = to]
Advance(c, from) ==
  /\ Move(c, from, IF at[c] + 1 = Len(rel[c]) THEN "ready" ELSE "look")
  /\ at' = [at EXCEPT ![c] = @ + 1]

StartCall(c, path) ==
  /\ Move(c, "idle", IF path = Root THEN "ready" ELSE "look")
  /\ rel' = [rel EXCEPT ![c] = path]
  /\ UNCHANGED <<fs, at, refused, raced>>

(* A call of EnsureDir that the disk refuses ends it: no permission to     *)
(* search a folder or to write to it, an I/O error, a full disk.           *)
Refused(c, from) ==
  /\ Move(c, from, "failed")
  /\ refused' = refused \union {c}
  /\ UNCHANGED <<fs, rel, at, raced>>

Look(c) ==
  /\ Move(c, "look", IF fs[Candidate(c)] = Missing THEN "make" ELSE "check")
  /\ UNCHANGED <<fs, rel, at, refused, raced>>
LookRefused(c) == Refused(c, "look")

(* Mkdir, if the element is still missing; it fails on one that is there.  *)
Make(c) ==
  /\ Advance(c, "make")
  /\ fs[Candidate(c)] = Missing
  /\ fs' = [fs EXCEPT ![Candidate(c)] = Dir]
  /\ UNCHANGED <<rel, refused, raced>>
MakeTooLate(c) ==
  /\ Move(c, "make", "failed")
  /\ fs[Candidate(c)] # Missing
  /\ raced' = raced \union {c}
  /\ UNCHANGED <<fs, rel, at, refused>>
MakeRefused(c) == Refused(c, "make")

(* Mutant: whatever is inside the share will do.                           *)
CheckInside(c) ==
  /\ Advance(c, "check")
  /\ Leads(SubSeq(rel[c], 1, at[c] + 1)) \in Place
  /\ UNCHANGED <<fs, rel, refused, raced>>

(* An element that exists must lead to a folder in the share.              *)
Check(c) ==
  /\ Advance(c, "check")
  /\ Folder(Leads(SubSeq(rel[c], 1, at[c] + 1)))
  /\ UNCHANGED <<fs, rel, refused, raced>>

(* Mutant: the element itself must be a folder, a link is not followed.    *)
CheckFailsOnLink(c) ==
  /\ Move(c, "check", "failed")
  /\ ~Folder(Candidate(c))
  /\ UNCHANGED <<fs, rel, at, refused, raced>>

CheckFails(c) ==
  /\ Move(c, "check", "failed")
  /\ ~Folder(Leads(SubSeq(rel[c], 1, at[c] + 1)))
  /\ UNCHANGED <<fs, rel, at, refused, raced>>
(* EvalSymlinks or Stat of an element that may well be a folder.           *)
CheckRefused(c) == Refused(c, "check")

(* Other users put files, folders and links where nothing was.  A link     *)
(* leads to a folder that is no deeper than the link, which keeps paths    *)
(* within Depth, or out of the share.                                      *)
Targets(place) == {Link(to) : to \in {p \in Place : Folder(p) /\ Len(p) <= Len(place)}
                                     \union {<<Outside>>}}
OthersCreate(place) ==
  /\ place # Root /\ fs[place] = Missing /\ Folder(Front(place))
  /\ \E n \in {Dir, Plain} \union Targets(place) : fs' = [fs EXCEPT ![place] = n]
  /\ UNCHANGED <<pc, rel, at, refused, raced>>

-----------------------------------------------------------------------------
Walk(c) ==
  \/ Look(c) \/ LookRefused(c)
  \/ Make(c) \/ MakeTooLate(c) \/ MakeRefused(c)
  \/ Check(c) \/ CheckFails(c) \/ CheckRefused(c)
Rest == (\A c \in Call : pc[c] \in {"ready", "failed"}) /\ UNCHANGED vars

(* The uploads alone, and the share with its other users.                  *)
Walks == \/ \E c \in Call : Walk(c) \/ \E path \in Place : StartCall(c, path)
         \/ Rest
Next == Walks \/ \E place \in Place : OthersCreate(place)

AloneSpec == Init /\ [][Walks]_vars
Spec == Init /\ [][Next]_vars

-----------------------------------------------------------------------------
(* shares.go:224, "creating each missing element inside the confinement    *)
(* guard; existing elements must be directories": what an upload is given  *)
(* is a folder in the share, however many uploads and users were about.    *)
ReadyMeansFolder ==
  \A c \in Call : pc[c] = "ready" => Folder(Leads(rel[c]))

(* A call fails, and takes the whole session with it, only if something on *)
(* its way is no folder of the share, the disk refused one of its system   *)
(* calls, or somebody else made the element between its look and Mkdir.    *)
Blocks(place) == ~Folder(place) /\ ~(place \in Place /\ fs[place] = Missing)
Obstacle(c) == \E n \in 1 .. Len(rel[c]) : Blocks(Leads(SubSeq(rel[c], 1, n)))
FailsForAReason ==
  \A c \in Call : pc[c] = "failed" => Obstacle(c) \/ c \in refused \union raced

-----------------------------------------------------------------------------
(* What the comment says and the code does not keep.                       *)

(* shares.go:224, "makes (share, relDir) exist, creating each missing      *)
(* element": two uploads into one new folder do not fail each other, where *)
(* nobody else works on the share (AloneSpec).                             *)
NoNeedlessFailure ==
  \A c \in Call : pc[c] = "failed" => Obstacle(c) \/ c \in refused
=============================================================================
