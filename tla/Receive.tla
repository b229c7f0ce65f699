------------------------------ MODULE Receive ------------------------------
(***************************************************************************)
(* The receiving half of localsend-nas: internal/receive/receive.go with   *)
(* the job list entries internal/transfer/manager.go keeps for it through  *)
(* the receive.Hooks callbacks.                                            *)
(*                                                                         *)
(* Three kinds of goroutine touch a session: the prepare-upload request    *)
(* that waits for the decision (Prepare), the upload requests (Upload) and *)
(* the cancel requests of the sender or the UI (CancelSession).  The       *)
(* mutex m.mu makes single sections atomic and nothing more: sess.State is *)
(* read without it, and setState calls the hook after releasing it.  A     *)
(* step below is what one goroutine does between two points at which       *)
(* another one can see or change what it works on.                         *)
(***************************************************************************)
EXTENDS Naturals, Sequences

CONSTANTS
  Session,     (* prepare-upload requests, one session each                *)
  File,        (* file ids; every session offers all of them               *)
  Upload,      (* upload requests, each sent at most once                  *)
  Canceller,   (* cancel requests, each sent at most once                  *)
  Share,       (* configured shares; fixed while the program runs          *)
  Path,        (* places on the shares' disks                              *)
  Candidate,   (* <<s, f, d>> -> the names claimFinalPath tries in order   *)
  PartOf,      (* final name -> the name with ".lnas-part" appended        *)
  Size,        (* file -> the declared size, in chunks                     *)
  Dropbox,     (* the dropbox shares the settings may name at a timeout    *)
  ForeignPath, (* names that other users of the disk may create            *)
  None, Outsider, Decline, Torn

Finals == {p \in Path : \E x \in DOMAIN Candidate :
                            \E k \in DOMAIN Candidate[x] : Candidate[x][k] = p}

Pending == "pending"
Accepted == "accepted"
Done == "done"
Declined == "declined"
Cancelled == "cancelled"
Failed == "failed"
Terminal == {Done, Declined, Cancelled, Failed}

ASSUME ReceiveAssumption ==
  /\ Candidate \in [Session \X File \X Share -> Seq(Path)]
  /\ PartOf \in [Finals -> Path]
  /\ \A p, q \in Finals : PartOf[p] = PartOf[q] => p = q
  /\ Size \in [File -> Nat]
  /\ Dropbox \subseteq Share
  /\ ForeignPath \subseteq Path
  /\ None \notin Path /\ None \notin Share /\ None \notin Session
  /\ None \notin File /\ None \notin Upload
  /\ None \notin {Outsider, Pending, Accepted} \union Terminal
                 \union {"awaiting-accept", "receiving", "forgotten"}
  /\ Outsider \notin Upload
  /\ Decline \notin Share \union {None}

(* No offered name, and no name an outsider uses, is the partial of        *)
(* another offered name.  Nothing in the code sees to it.                  *)
PartialsApart ==
  \A p \in Finals : PartOf[p] \notin Finals \union ForeignPath

VARIABLES
  prep,        (* Prepare: where the goroutine of each session is          *)
  verdict,     (* Prepare: the state it is about to set                    *)
  dest,        (* sess.DestShare; tokens exist as soon as it is set        *)
  decision,    (* sess.decision, the channel's one slot                    *)
  ctxDone,     (* sess.cancel() was called                                 *)
  gone,        (* the sender closed its prepare-upload request             *)
  acked,       (* history: the decisions Decide reported as taken          *)
  state,       (* sess.State                                               *)
  fileDone,    (* the <<session, file>> with File.Done                     *)
  partPath,    (* File.partPath                                            *)
  inProgress,  (* m.inProgress, its keys                                   *)
  disk,        (* what each path holds: whose data, how much of it         *)
  upc,         (* Upload: where each request is                            *)
  us, uf,      (* Upload: its session and its file                         *)
  final,       (* Upload: the name it claimed; kept after it returned      *)
  got,         (* Upload: chunks read                                      *)
  want,        (* Upload: the state it is about to set                     *)
  cpc, cs,     (* CancelSession: where each call is, and its session       *)
  job,         (* transfer.Manager: the state of the session's job         *)
  jobDone      (* transfer.Manager: the files the job shows as done        *)

prepVars == <<prep, verdict, dest, decision, ctxDone, gone, acked>>
fileVars == <<fileDone, partPath, inProgress, disk>>
upVars   == <<upc, us, uf, final, got, want>>
cVars    == <<cpc, cs>>
jobVars  == <<job, jobDone>>
vars     == <<prepVars, state, fileVars, upVars, cVars, jobVars>>

Absent == [by |-> None, len |-> 0]
Foreign == [by |-> Outsider, len |-> 0]
Content == [by : Upload \union {None, Outsider}, len : Nat]

TypeOK ==
  /\ prep \in [Session -> {"new", "listed", "waiting", "write", "report",
                           "answered", "refused"}]
  /\ verdict \in [Session -> {None, Accepted, Declined, Cancelled}]
  /\ dest \in [Session -> Share \union {None}]
  /\ decision \in [Session -> Share \union {Decline, None}]
  /\ ctxDone \in [Session -> BOOLEAN]
  /\ gone \in [Session -> BOOLEAN]
  /\ acked \in [Session -> SUBSET (Share \union {Decline})]
  /\ state \in [Session -> {Pending, Accepted} \union Terminal]
  /\ fileDone \in SUBSET (Session \X File)
  /\ partPath \in [Session \X File -> Path \union {None}]
  /\ inProgress \in SUBSET Path
  /\ disk \in [Path -> Content]
  /\ upc \in [Upload -> {"idle", "checked", "claimed", "opened", "stream",
                         "rename", "placed", "fileHook", "failFile", "cleanup",
                         "write", "report", "over"}]
  /\ us \in [Upload -> Session \union {None}]
  /\ uf \in [Upload -> File \union {None}]
  /\ final \in [Upload -> Path \union {None}]
  /\ got \in [Upload -> Nat]
  /\ want \in [Upload -> {None, Done, Failed}]
  /\ cpc \in [Canceller -> {"idle", "cleanup", "write", "report", "over"}]
  /\ cs \in [Canceller -> Session \union {None}]
  /\ job \in [Session -> {None, "awaiting-accept", "receiving", "forgotten"}
                         \union Terminal]
  /\ jobDone \in [Session -> SUBSET File]

Init ==
  /\ prep = [s \in Session |-> "new"]
  /\ verdict = [s \in Session |-> None]
  /\ dest = [s \in Session |-> None]
  /\ decision = [s \in Session |-> None]
  /\ ctxDone = [s \in Session |-> FALSE]
  /\ gone = [s \in Session |-> FALSE]
  /\ acked = [s \in Session |-> {}]
  /\ state = [s \in Session |-> Pending]
  /\ fileDone = {}
  /\ partPath = [x \in Session \X File |-> None]
  /\ inProgress = {}
  /\ disk = [p \in Path |-> Absent]
  /\ upc = [u \in Upload |-> "idle"]
  /\ us = [u \in Upload |-> None]
  /\ uf = [u \in Upload |-> None]
  /\ final = [u \in Upload |-> None]
  /\ got = [u \in Upload |-> 0]
  /\ want = [u \in Upload |-> None]
  /\ cpc = [c \in Canceller |-> "idle"]
  /\ cs = [c \in Canceller |-> None]
  /\ job = [s \in Session |-> None]
  /\ jobDone = [s \in Session |-> {}]

-----------------------------------------------------------------------------
(* Shared state.                                                           *)

(* A goroutine that is about to store sess.State races with every reader   *)
(* that does not hold m.mu: the string may be seen half written, which     *)
(* equals none of the state names.                                         *)
Observed(s) ==
  {state[s]} \union
  (IF \/ prep[s] = "write"
      \/ \E u \in Upload : us[u] = s /\ upc[u] = "write"
      \/ \E c \in Canceller : cs[c] = s /\ cpc[c] = "write"
   THEN {Torn} ELSE {})

(* setState stores under the lock; its callers report in a later step.     *)
SetState(s, st) == state' = [state EXCEPT ![s] = st]

(* Mutant: the state is passed on under the name the session has for it.   *)
UnmappedJobState(st) == st

(* transfer.ReceiveState: a job that was forgotten is not brought back.    *)
JobState(st) == IF st = Accepted THEN "receiving" ELSE st
Report(s, st) ==
  job' = IF job[s] \in {None, "forgotten"} THEN job
         ELSE [job EXCEPT ![s] = JobState(st)]

(* The partials cleanupPartials deletes: those of files not done.          *)
Partials(s) ==
  {partPath[<<s, f>>] : f \in {g \in File : /\ partPath[<<s, g>>] # None
                                            /\ <<s, g>> \notin fileDone}}
Remove(paths) == disk' = [p \in Path |-> IF p \in paths THEN Absent ELSE disk[p]]

(* Upload stores f.partPath without the lock.  cleanupPartials, reading it *)
(* in that moment, may take a garbled name and miss the old partial; with  *)
(* no old one it may see a length with a nil pointer and panic in          *)
(* os.Remove, at any point of its loop.  net/http recovers: the goroutine  *)
(* is gone.  An outcome is what was deleted and where the goroutine is.    *)
BeingStored(x) == \E v \in Upload : upc[v] = "opened" /\ <<us[v], uf[v]>> = x
CleanupOutcomes(s) ==
  LET garbled == {f \in File : BeingStored(<<s, f>>)}
      panics == \E f \in garbled : partPath[<<s, f>>] = None
  IN {[removed |-> Partials(s) \ {partPath[<<s, f>>] : f \in missed}, next |-> "write"] :
        missed \in SUBSET garbled}
     \union (IF panics THEN [removed : SUBSET Partials(s), next : {"over"}] ELSE {})

-----------------------------------------------------------------------------
(* Prepare.                                                                *)

Advance(s, from, to) ==
  /\ prep[s] = from
  /\ prep' = [prep EXCEPT ![s] = to]
  /\ UNCHANGED <<ctxDone, gone, acked, fileVars, upVars, cVars>>

(* The session enters m.sessions, pending; or the fingerprint, the empty   *)
(* list or a name is refused and there is no session at all.               *)
Offer(s) ==
  /\ \/ Advance(s, "new", "listed")
     \/ Advance(s, "new", "refused")
  /\ UNCHANGED <<verdict, dest, decision, state, jobVars>>

(* hooks.ReceiveRegistered puts the offer in the job list; then the        *)
(* countdown starts.                                                       *)
Announce(s) ==
  /\ Advance(s, "listed", "waiting")
  /\ job' = [job EXCEPT ![s] = "awaiting-accept"]
  /\ UNCHANGED <<verdict, dest, decision, state, jobDone>>

(* The select is left for good; on accept the destination and the tokens   *)
(* are stored.  They are used only once the state says accepted.           *)
Conclude(s, st, share) ==
  /\ Advance(s, "waiting", "write")
  /\ verdict' = [verdict EXCEPT ![s] = st]
  /\ dest' = [dest EXCEPT ![s] = share]
  /\ UNCHANGED <<state, jobVars>>

TakeDecision(s) ==
  /\ decision[s] # None
  /\ IF decision[s] = Decline THEN Conclude(s, Declined, None)
                              ELSE Conclude(s, Accepted, decision[s])
  /\ decision' = [decision EXCEPT ![s] = None]

(* Mutant: any share will do, not only the dropbox.                         *)
TimeoutToAnyShare(s) ==
  /\ \/ \E d \in Share : Conclude(s, Accepted, d)
     \/ Conclude(s, Declined, None)
  /\ UNCHANGED decision

(* The timer fires: to the dropbox if the settings name one, else decline. *)
Timeout(s) ==
  /\ \/ \E d \in Dropbox : Conclude(s, Accepted, d)
     \/ Conclude(s, Declined, None)
  /\ UNCHANGED decision

(* The session's context, or the request's, is done.                       *)
SeeCancel(s) ==
  /\ ctxDone[s] \/ gone[s]
  /\ Conclude(s, Cancelled, None)
  /\ UNCHANGED decision

(* setState, whatever the state has become meanwhile ...                   *)
WriteVerdict(s) ==
  /\ Advance(s, "write", "report")
  /\ SetState(s, verdict[s])
  /\ UNCHANGED <<verdict, dest, decision, jobVars>>

(* ... then its hook and the answer to the sender.                         *)
ReportVerdict(s) ==
  /\ Advance(s, "report", "answered")
  /\ Report(s, verdict[s])
  /\ UNCHANGED <<verdict, dest, decision, state, jobDone>>

SenderGoes(s) ==
  /\ prep[s] \in {"listed", "waiting", "write", "report"} /\ ~gone[s]
  /\ gone' = [gone EXCEPT ![s] = TRUE]
  /\ UNCHANGED <<prep, verdict, dest, decision, ctxDone, acked,
                 state, fileVars, upVars, cVars, jobVars>>

(* The UI answers.  The caller is told "ok" also when the slot was full    *)
(* and the answer was dropped.  The slot may be filled after the select    *)
(* was left: the answer then stays in it unread.                           *)
Decide(s, d) ==
  /\ prep[s] \notin {"new", "listed", "refused"}
  /\ Pending \in Observed(s)
  /\ decision' = IF decision[s] = None THEN [decision EXCEPT ![s] = d]
                                       ELSE decision
  /\ acked' = [acked EXCEPT ![s] = @ \union {d}]
  /\ UNCHANGED <<prep, verdict, dest, ctxDone, gone,
                 state, fileVars, upVars, cVars, jobVars>>

-----------------------------------------------------------------------------
(* Upload.  A request refused by the first checks changes nothing.         *)

Move(u, from, to) ==
  /\ upc[u] = from
  /\ upc' = [upc EXCEPT ![u] = to]
  /\ UNCHANGED <<prepVars, cVars>>

(* The sender has the tokens once its prepare-upload was answered.         *)
HasTokens(s) == prep[s] = "answered" /\ verdict[s] = Accepted /\ ~gone[s]

StartUpload(u, s, f) ==
  /\ HasTokens(s)
  /\ Accepted \in Observed(s)
  /\ <<s, f>> \notin fileDone
  /\ Move(u, "idle", "checked")
  /\ us' = [us EXCEPT ![u] = s]
  /\ uf' = [uf EXCEPT ![u] = f]
  /\ UNCHANGED <<final, got, want, state, fileVars, jobVars>>

(* EnsureDir or OpenFile fails: m.fail.  The claim is not given back.      *)
CannotOpen(u) ==
  /\ \/ Move(u, "checked", "cleanup")
     \/ Move(u, "claimed", "cleanup")
  /\ want' = [want EXCEPT ![u] = Failed]
  /\ UNCHANGED <<us, uf, final, got, state, fileVars, jobVars>>

(* Mutants: claims made by running uploads, or files on the disk, ignored. *)
TakenOnDisk(p) == disk[p] # Absent
TakenByClaim(p) == p \in inProgress

(* claimFinalPath, under the lock: the first name neither claimed nor      *)
(* on the disk.                                                            *)
Taken(p) == p \in inProgress \/ disk[p] # Absent

Claim(u) ==
  /\ Move(u, "checked", "claimed")
  /\ LET names == Candidate[<<us[u], uf[u], dest[us[u]]>>] IN
       \E k \in DOMAIN names :
         /\ ~Taken(names[k])
         /\ \A j \in 1 .. k - 1 : Taken(names[j])
         /\ final' = [final EXCEPT ![u] = names[k]]
         /\ inProgress' = inProgress \union {names[k]}
  /\ UNCHANGED <<us, uf, got, want, state, fileDone, partPath, disk, jobVars>>

(* The partial is created, or truncated ...                                *)
OpenPart(u) ==
  /\ Move(u, "claimed", "opened")
  /\ disk' = [disk EXCEPT ![PartOf[final[u]]] = [by |-> u, len |-> 0]]
  /\ UNCHANGED <<us, uf, final, got, want, state, fileDone, partPath, inProgress, jobVars>>

(* ... and f.partPath is pointed at it, without the lock.                  *)
NotePart(u) ==
  /\ Move(u, "opened", "stream")
  /\ partPath' = [partPath EXCEPT ![<<us[u], uf[u]>>] = PartOf[final[u]]]
  /\ UNCHANGED <<us, uf, final, got, want, state, fileDone, inProgress, disk, jobVars>>

(* One turn of streamWithProgress.  The limit is one chunk past the size;  *)
(* writes to a deleted partial go nowhere.                                 *)
Chunk(u) ==
  LET part == PartOf[final[u]] IN
  /\ upc[u] = "stream" /\ got[u] < Size[uf[u]] + 1
  /\ \E seen \in Observed(us[u]) :
       Move(u, "stream", IF seen = Cancelled THEN "failFile" ELSE "stream")
  /\ got' = [got EXCEPT ![u] = @ + 1]
  /\ disk' = IF disk[part].by = u THEN [disk EXCEPT ![part].len = @ + 1] ELSE disk
  /\ UNCHANGED <<us, uf, final, want, state, fileDone, partPath, inProgress, jobVars>>

(* Mutant: more than the declared size is accepted too.                    *)
EndOfLongBody(u) ==
  /\ Move(u, "stream", IF got[u] >= Size[uf[u]] THEN "rename" ELSE "failFile")
  /\ UNCHANGED <<us, uf, final, got, want, state, fileVars, jobVars>>

(* The body ends, or the limit does: only the declared size is kept.       *)
EndOfBody(u) ==
  /\ Move(u, "stream", IF got[u] = Size[uf[u]] THEN "rename" ELSE "failFile")
  /\ UNCHANGED <<us, uf, final, got, want, state, fileVars, jobVars>>

(* The sender disconnects, or a write, the close or the rename fails.      *)
StreamError(u) ==
  /\ \/ Move(u, "stream", "failFile")
     \/ Move(u, "rename", "failFile")
  /\ UNCHANGED <<us, uf, final, got, want, state, fileVars, jobVars>>

(* os.Rename replaces whatever has the final name by now.                  *)
Rename(u) ==
  LET part == PartOf[final[u]] IN
  /\ Move(u, "rename", "placed")
  /\ disk[part] # Absent
  /\ disk' = [disk EXCEPT ![final[u]] = disk[part], ![part] = Absent]
  /\ UNCHANGED <<us, uf, final, got, want, state, fileDone, partPath, inProgress, jobVars>>

(* Under the lock: Done, the claim given back, and is it the last one?     *)
AllDone(s, done) == \A f \in File : <<s, f>> \in done

(* Mutant: the other files are looked at before this one is marked.        *)
MarkDoneLate(u) ==
  /\ Move(u, "placed", "fileHook")
  /\ fileDone' = fileDone \union {<<us[u], uf[u]>>}
  /\ inProgress' = inProgress \ {final[u]}
  /\ want' = [want EXCEPT ![u] = IF AllDone(us[u], fileDone) THEN Done ELSE None]
  /\ UNCHANGED <<us, uf, final, got, state, partPath, disk, jobVars>>

MarkDone(u) ==
  /\ Move(u, "placed", "fileHook")
  /\ fileDone' = fileDone \union {<<us[u], uf[u]>>}
  /\ inProgress' = inProgress \ {final[u]}
  /\ want' = [want EXCEPT ![u] = IF AllDone(us[u], fileDone') THEN Done ELSE None]
  /\ UNCHANGED <<us, uf, final, got, state, partPath, disk, jobVars>>

(* hooks.ReceiveFileDone.                                                  *)
ReportFile(u) ==
  /\ Move(u, "fileHook", IF want[u] = Done THEN "write" ELSE "over")
  /\ jobDone' = IF job[us[u]] = "forgotten" THEN jobDone
                ELSE [jobDone EXCEPT ![us[u]] = @ \union {uf[u]}]
  /\ UNCHANGED <<us, uf, final, got, want, state, fileVars, job>>

(* Mutant: partPath is cleared before the file it names is deleted.        *)
FailFileLosesPart(u) ==
  /\ Move(u, "failFile", "cleanup")
  /\ partPath' = [partPath EXCEPT ![<<us[u], uf[u]>>] = None]
  /\ want' = [want EXCEPT ![u] = Failed]
  /\ UNCHANGED <<us, uf, final, got, state, fileDone, inProgress, disk, jobVars>>

(* Mutant: the partial goes, and the session is not told.                  *)
FailFileAlone(u) ==
  LET x == <<us[u], uf[u]>> IN
  /\ Move(u, "failFile", "over")
  /\ Remove({partPath[x]})
  /\ partPath' = [partPath EXCEPT ![x] = None]
  /\ UNCHANGED <<us, uf, final, got, want, state, fileDone, inProgress, jobVars>>

(* failFile: the file's partial goes, whichever upload wrote it.           *)
FailFile(u) ==
  LET x == <<us[u], uf[u]>> IN
  /\ Move(u, "failFile", "cleanup")
  /\ Remove({partPath[x]}) \/ (BeingStored(x) /\ Remove({}))
  /\ partPath' = [partPath EXCEPT ![x] = None]
  /\ want' = [want EXCEPT ![u] = Failed]
  /\ UNCHANGED <<us, uf, final, got, state, fileDone, inProgress, jobVars>>

(* fail: cleanupPartials, which may panic, then setState(failed).          *)
Cleanup(u) ==
  /\ upc[u] = "cleanup"
  /\ \E o \in CleanupOutcomes(us[u]) : Move(u, "cleanup", o.next) /\ Remove(o.removed)
  /\ UNCHANGED <<us, uf, final, got, want, state, fileDone, partPath, inProgress, jobVars>>

(* setState(done) after the last file, setState(failed) after a failure.   *)
WriteResult(u) ==
  /\ Move(u, "write", "report")
  /\ SetState(us[u], want[u])
  /\ UNCHANGED <<us, uf, final, got, want, fileVars, jobVars>>

(* Mutant: the state is set without its hook.                              *)
ReportNoResult(u) ==
  /\ Move(u, "report", "over")
  /\ UNCHANGED <<us, uf, final, got, want, state, fileVars, jobVars>>

ReportResult(u) ==
  /\ Move(u, "report", "over")
  /\ Report(us[u], want[u])
  /\ UNCHANGED <<us, uf, final, got, want, state, fileVars, jobDone>>

-----------------------------------------------------------------------------
(* CancelSession.  On a session it sees in a terminal state it returns at  *)
(* once.  The UI knows the session from the job list, the sender from the  *)
(* answer.                                                                 *)

StartCancel(c, s) ==
  /\ cpc[c] = "idle"
  /\ job[s] \notin {None, "forgotten"} \/ HasTokens(s)
  /\ Observed(s) \intersect {Pending, Accepted} # {}
  /\ ctxDone' = [ctxDone EXCEPT ![s] = TRUE]
  /\ cpc' = [cpc EXCEPT ![c] = "cleanup"]
  /\ cs' = [cs EXCEPT ![c] = s]
  /\ UNCHANGED <<prep, verdict, dest, decision, gone, acked,
                 state, fileVars, upVars, jobVars>>

CancelMove(c, from, to) ==
  /\ cpc[c] = from
  /\ cpc' = [cpc EXCEPT ![c] = to]
  /\ UNCHANGED <<cs, prepVars, upVars, jobDone, fileDone, partPath, inProgress>>

CancelCleanup(c) ==
  /\ cpc[c] = "cleanup"
  /\ \E o \in CleanupOutcomes(cs[c]) : CancelMove(c, "cleanup", o.next) /\ Remove(o.removed)
  /\ UNCHANGED <<state, job>>

WriteCancelled(c) ==
  /\ CancelMove(c, "write", "report")
  /\ SetState(cs[c], Cancelled)
  /\ UNCHANGED <<disk, job>>

ReportCancelled(c) ==
  /\ CancelMove(c, "report", "over")
  /\ Report(cs[c], Cancelled)
  /\ UNCHANGED <<state, disk>>

-----------------------------------------------------------------------------
(* The job list's Forget, and the other users of the disk.                 *)

Forget(s) ==
  /\ job[s] \in Terminal
  /\ job' = [job EXCEPT ![s] = "forgotten"]
  /\ UNCHANGED <<prepVars, state, fileVars, upVars, cVars, jobDone>>

OutsiderCreates(p) ==
  /\ p \in ForeignPath /\ disk[p] = Absent
  /\ disk' = [disk EXCEPT ![p] = Foreign]
  /\ UNCHANGED <<prepVars, state, fileDone, partPath, inProgress, upVars, cVars, jobVars>>

(* Mutant: no countdown.                                                   *)
PrepareWithoutTimer(s) ==
  \/ Announce(s) \/ TakeDecision(s) \/ SeeCancel(s)
  \/ WriteVerdict(s) \/ ReportVerdict(s)

PrepareStep(s) ==
  \/ Announce(s) \/ TakeDecision(s) \/ Timeout(s) \/ SeeCancel(s)
  \/ WriteVerdict(s) \/ ReportVerdict(s)

(* What an upload does by itself, and what its sender makes it do.         *)
UploadStep(u) ==
  \/ CannotOpen(u) \/ Claim(u) \/ OpenPart(u) \/ NotePart(u)
  \/ Rename(u) \/ MarkDone(u) \/ ReportFile(u)
  \/ FailFile(u) \/ Cleanup(u) \/ WriteResult(u) \/ ReportResult(u)
BodyStep(u) == Chunk(u) \/ EndOfBody(u) \/ StreamError(u)

CancelStep(c) == CancelCleanup(c) \/ WriteCancelled(c) \/ ReportCancelled(c)

(* Nothing is under way for the session.                                   *)
Quiet(s) ==
  /\ prep[s] \in {"answered", "refused"}
  /\ \A u \in Upload : us[u] = s => upc[u] = "over"
  /\ \A c \in Canceller : cs[c] = s => cpc[c] = "over"

(* Every request has been answered: the server waits for others.           *)
Rest == (\A s \in Session : Quiet(s)) /\ UNCHANGED vars

Next ==
  \/ \E s \in Session : \/ Offer(s) \/ PrepareStep(s) \/ SenderGoes(s) \/ Forget(s)
                        \/ \E d \in Share \union {Decline} : Decide(s, d)
  \/ \E u \in Upload : \/ \E s \in Session, f \in File : StartUpload(u, s, f)
                       \/ UploadStep(u) \/ BodyStep(u)
  \/ \E c \in Canceller : CancelStep(c) \/ \E s \in Session : StartCancel(c, s)
  \/ \E p \in Path : OutsiderCreates(p)
  \/ Rest

Spec == Init /\ [][Next]_vars

(* The program runs on; senders, users and the disk owe it nothing.        *)
FairSpec ==
  /\ Spec
  /\ \A s \in Session : WF_vars(PrepareStep(s))
  /\ \A u \in Upload : WF_vars(UploadStep(u))
  /\ \A c \in Canceller : WF_vars(CancelStep(c))

-----------------------------------------------------------------------------
(* Properties that hold.                                                   *)

(* Two uploads that stream at the same time never share a final name, and  *)
(* so never a partial: claimFinalPath's m.inProgress against the window    *)
(* between the Lstat and the rename.                                       *)
Holding == {u \in Upload : upc[u] \in {"claimed", "opened", "stream", "rename", "placed"}}
ClaimsExclusive ==
  \A u, v \in Holding : u # v => /\ final[u] # final[v]
                                 /\ PartOf[final[u]] # PartOf[final[v]]

(* A file that was received under a name that is nobody's partial is never *)
(* written, replaced or deleted again, whatever other sessions upload,     *)
(* rename, fail or clean up.  One whose own name ends like a partial can   *)
(* be: nothing in the code keeps the two kinds of names apart.             *)
PartNames == {PartOf[q] : q \in Finals}
Plain(p) == p \notin PartNames
ReceivedFilesSurvive ==
  [][\A u \in Upload :
       final[u] # None /\ disk[final[u]].by = u /\ Plain(final[u]) =>
         disk'[final[u]] = disk[final[u]]]_vars

(* A file reported done, and every file of a session that is done or whose *)
(* job shows done, is on the disk, complete, under a name claimed for it.  *)
Stored(s, f) ==
  \E u \in Upload : /\ us[u] = s /\ uf[u] = f
                    /\ final[u] # None
                    /\ disk[final[u]] = [by |-> u, len |-> Size[f]]
DoneMeansStored ==
  \A s \in Session, f \in File :
    <<s, f>> \in fileDone \/ state[s] = Done \/ job[s] = Done => Stored(s, f)

(* Data on the disk belongs to an upload of a session that was accepted,   *)
(* lies in the share that the user or the dropbox setting chose, and only  *)
(* under the upload's claimed name or that name's partial.                 *)
OnlyWhatWasAccepted ==
  \A p \in Path : disk[p].by \in Upload =>
    LET u == disk[p].by IN
    /\ final[u] # None
    /\ p \in {final[u], PartOf[final[u]]}
    /\ dest[us[u]] \in acked[us[u]] \union Dropbox
    /\ \E k \in DOMAIN Candidate[<<us[u], uf[u], dest[us[u]]>>] :
         final[u] = Candidate[<<us[u], uf[u], dest[us[u]]>>][k]

(* When every upload of a session was sent at most once per file, none of  *)
(* its partials is left once its requests are over, however they ended.    *)
SentOnce(s) ==
  \A u, v \in Upload : us[u] = s /\ us[v] = s /\ uf[u] = uf[v] => u = v
NoOrphanPartials ==
  \A s \in Session : Quiet(s) /\ SentOnce(s) =>
    \A p \in Finals : disk[PartOf[p]].by \in Upload => us[disk[PartOf[p]].by] # s

(* Once the requests of a session that nobody cancelled are over, the job  *)
(* list shows what the session came to, file by file, although setState    *)
(* calls the hooks after it released the lock.                             *)
JobTellsTheOutcome ==
  \A s \in Session :
    Quiet(s) /\ prep[s] = "answered" /\ SentOnce(s) /\ (\A c \in Canceller : cs[c] # s) =>
      \/ job[s] = "forgotten"
      \/ /\ job[s] = JobState(state[s])
         /\ \A f \in File : f \in jobDone[s] <=> <<s, f>> \in fileDone

(* Every offer is answered, whatever the user does: the countdown, with or *)
(* without a dropbox, ends Prepare's select.                               *)
OffersAnswered == \A s \in Session : prep[s] = "listed" ~> prep[s] = "answered"

(* When the last file is in, the job ends: of two uploads that finish      *)
(* together one sees all files done.                                       *)
AllReceivedEndsJob ==
  \A s \in Session :
    (\A f \in File : <<s, f>> \in fileDone) ~> job[s] \in Terminal \union {"forgotten"}
=============================================================================
