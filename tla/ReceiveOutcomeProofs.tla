------------------------ MODULE ReceiveOutcomeProofs ------------------------
(***************************************************************************)
(* How sessions end, proved for any number of sessions, files, uploads and *)
(* cancel requests: no partial is left behind, and the job list shows the  *)
(* outcome.  Both speak of sessions whose files were sent at most once; of *)
(* those Tracked says which upload is still to delete what, and OutcomeInv *)
(* which goroutine is still to report what.                                *)
(***************************************************************************)
EXTENDS ReceiveProofs

(* A request that has not begun belongs to no session.                     *)
Unstarted ==
  /\ \A u \in Upload : upc[u] = "idle" => us[u] = None
  /\ \A c \in Canceller : cpc[c] = "idle" => cs[c] = None

(* The partial of an upload exists only while the upload is between the    *)
(* open and the rename or failFile, and then partPath leads to it.         *)
TrackedBy(u) ==
  /\ upc[u] \in {"stream", "rename", "failFile"} =>
       partPath[<<us[u], uf[u]>>] = PartOf[final[u]]
  /\ upc[u] \notin {"opened", "stream", "rename", "failFile"} =>
       \A p \in Path : disk[p].by = u => p = final[u]
Tracked == \A u \in Upload : us[u] # None /\ SentOnce(us[u]) => TrackedBy(u)

(* What an upload is about to set, it was entitled to; and somebody sets   *)
(* done when the last file is in.                                          *)
Entitled ==
  /\ \A u \in Upload : want[u] = Done =>
       upc[u] \in {"fileHook", "write", "report", "over"} /\ AllDone(us[u], fileDone)
  /\ \A u \in Upload : want[u] = Failed => upc[u] \in {"cleanup", "write", "report", "over"}
  /\ \A u \in Upload : upc[u] = "cleanup" => want[u] = Failed
  /\ \A u \in Upload : upc[u] = "fileHook" => <<us[u], uf[u]>> \in fileDone
  /\ \A s \in Session : File # {} /\ AllDone(s, fileDone) =>
       \E u \in Upload : us[u] = s /\ want[u] = Done

(* No upload fails over a file that is done.                               *)
Undone ==
  \A u \in Upload : us[u] # None /\ SentOnce(us[u]) /\ <<us[u], uf[u]>> \in fileDone =>
    want[u] # Failed /\ upc[u] \in {"fileHook", "write", "report", "over"}

(* The job and the state, from the offer to the answer ...                 *)
Undisturbed(s) == SentOnce(s) /\ \A c \in Canceller : cs[c] # s
Entered ==
  \A s \in Session : job[s] = None <=> prep[s] \in {"new", "listed", "refused"}
Awaited ==
  \A s \in Session : Undisturbed(s) =>
    /\ prep[s] \in {"waiting", "write", "report"} => job[s] = "awaiting-accept"
    /\ prep[s] = "report" => state[s] = verdict[s]

(* ... and after it: the job follows the state, or an upload is about to   *)
(* report it.                                                              *)
Followed ==
  \A s \in Session : Undisturbed(s) /\ prep[s] = "answered" =>
    /\ \A u \in Upload : us[u] = s /\ upc[u] = "report" => state[s] = want[u]
    /\ \A u \in Upload : us[u] = s /\ want[u] = Done /\ upc[u] = "over" => state[s] = Done
    /\ \/ job[s] \in {"forgotten", JobState(state[s])}
       \/ \E u \in Upload : us[u] = s /\ upc[u] = "report"
FilesShown ==
  \A s \in Session, f \in File :
    /\ f \in jobDone[s] => <<s, f>> \in fileDone
    /\ <<s, f>> \in fileDone =>
         \/ job[s] = "forgotten" \/ f \in jobDone[s]
         \/ \E u \in Upload : us[u] = s /\ uf[u] = f /\ upc[u] = "fileHook"

(* A session is cancelled by a request, or by its sender's going.          *)
CalledOff ==
  \A s \in Session :
    /\ ctxDone[s] => \E c \in Canceller : cs[c] = s
    /\ verdict[s] = Cancelled => ctxDone[s] \/ gone[s]

OutcomeInv ==
  Unstarted /\ Entitled /\ Undone /\ Entered /\ Awaited /\ Followed /\ FilesShown /\ CalledOff

-----------------------------------------------------------------------------
(* What a step of one goroutine leaves alone.                              *)

LEMMA OthersStand ==
  ASSUME TypeOK, NEW u \in Upload, AnyUploadStep(u), NEW v \in Upload, v # u
  PROVE  /\ upc'[v] = upc[v] /\ us'[v] = us[v] /\ uf'[v] = uf[v]
         /\ want'[v] = want[v] /\ final'[v] = final[v]
<1>1. CASE \E s \in Session, f \in File : StartUpload(u, s, f)
  BY <1>1 DEF StartUpload, Move, TypeOK
<1>2. CASE BodyStep(u)
  BY <1>2 DEF BodyStep, Chunk, EndOfBody, StreamError, Move, TypeOK
<1>3. CASE UploadStep(u)
  BY <1>3 DEF UploadStep, CannotOpen, Claim, OpenPart, NotePart, Rename, MarkDone, ReportFile,
     FailFile, Cleanup, WriteResult, ReportResult, Move, TypeOK
<1> QED
  BY <1>1, <1>2, <1>3 DEF AnyUploadStep

(* A request keeps its session and its file.                               *)
LEMMA RequestsKept ==
  ASSUME TypeOK, [Next]_vars
  PROVE  /\ \A u \in Upload : upc[u] # "idle" =>
              us'[u] = us[u] /\ uf'[u] = uf[u] /\ upc'[u] # "idle"
         /\ \A c \in Canceller : cpc[c] # "idle" => cs'[c] = cs[c] /\ cpc'[c] # "idle"
<1>1. ASSUME NEW s \in Session, SessionStep(s)
      PROVE  UNCHANGED <<upVars, cVars>>
  BY <1>1, SessionFrame
<1>2. ASSUME NEW u \in Upload, AnyUploadStep(u)
      PROVE  /\ \A v \in Upload : upc[v] # "idle" =>
                  us'[v] = us[v] /\ uf'[v] = uf[v] /\ upc'[v] # "idle"
             /\ UNCHANGED cVars
  <2>1. upc[u] # "idle" => us'[u] = us[u] /\ uf'[u] = uf[u] /\ upc'[u] # "idle"
    <3>1. CASE \E s \in Session, f \in File : StartUpload(u, s, f)
      BY <3>1 DEF StartUpload, Move
    <3>2. CASE BodyStep(u)
      BY <3>2 DEF BodyStep, Chunk, EndOfBody, StreamError, Move, TypeOK
    <3>3. CASE UploadStep(u)
      BY <3>3 DEF UploadStep, CannotOpen, Claim, OpenPart, NotePart, Rename, MarkDone,
         ReportFile, FailFile, Cleanup, CleanupOutcomes, WriteResult, ReportResult, Move, TypeOK
    <3> QED
      BY <1>2, <3>1, <3>2, <3>3 DEF AnyUploadStep
  <2> QED
    BY <1>2, <2>1, OthersStand, UploadFrame
<1>3. ASSUME NEW c \in Canceller, AnyCancelStep(c)
      PROVE  /\ UNCHANGED upVars
             /\ \A d \in Canceller : cpc[d] # "idle" => cs'[d] = cs[d] /\ cpc'[d] # "idle"
  <2>1. UNCHANGED upVars
    BY <1>3, CancelFrame
  <2>2. CASE \E s \in Session : StartCancel(c, s)
    BY <2>1, <2>2 DEF StartCancel, TypeOK
  <2>3. CASE CancelStep(c)
    BY <2>1, <2>3 DEF CancelStep, CancelCleanup, CleanupOutcomes, WriteCancelled,
       ReportCancelled, CancelMove, TypeOK
  <2> QED
    BY <1>3, <2>2, <2>3 DEF AnyCancelStep
<1>4. UNCHANGED vars \/ (\E p \in Path : OutsiderCreates(p)) => UNCHANGED <<upVars, cVars>>
  BY DEF OutsiderCreates, vars
<1> QED
  BY <1>1, <1>2, <1>3, <1>4, NextSteps DEF upVars, cVars

(* An upload request that has returned stays returned.                     *)
LEMMA OverStays ==
  ASSUME TypeOK, [Next]_vars, NEW u \in Upload, upc[u] = "over"
  PROVE  upc'[u] = "over"
<1>1. AnyUploadStep(u) => FALSE
  BY DEF AnyUploadStep, UploadStep, BodyStep, StartUpload, CannotOpen, Claim, OpenPart,
     NotePart, Chunk, EndOfBody, StreamError, Rename, MarkDone, ReportFile, FailFile, Cleanup,
     WriteResult, ReportResult, Move
<1>2. UNCHANGED upVars \/ \E v \in Upload : v # u /\ AnyUploadStep(v)
  BY <1>1, NextSteps, SessionFrame, CancelFrame DEF OutsiderCreates, vars
<1> QED
  BY <1>2, OthersStand DEF upVars

LEMMA UnstartedStep ==
  ASSUME TypeOK, Unstarted, [Next]_vars
  PROVE  Unstarted'
<1>1. ASSUME NEW s \in Session, SessionStep(s)
      PROVE  UNCHANGED <<upVars, cVars>>
  BY <1>1, SessionFrame
<1>2. ASSUME NEW u \in Upload, AnyUploadStep(u)
      PROVE  Unstarted'
  <2>1. upc'[u] # "idle"
    <3>1. CASE \E s \in Session, f \in File : StartUpload(u, s, f)
      BY <3>1 DEF StartUpload, Move, TypeOK
    <3>2. CASE BodyStep(u)
      BY <3>2 DEF BodyStep, Chunk, EndOfBody, StreamError, Move, TypeOK
    <3>3. CASE UploadStep(u)
      BY <3>3 DEF UploadStep, CannotOpen, Claim, OpenPart, NotePart, Rename, MarkDone,
         ReportFile, FailFile, Cleanup, CleanupOutcomes, WriteResult, ReportResult, Move, TypeOK
    <3> QED
      BY <1>2, <3>1, <3>2, <3>3 DEF AnyUploadStep
  <2> QED
    BY <1>2, <2>1, OthersStand, UploadFrame DEF Unstarted, cVars
<1>3. ASSUME NEW c \in Canceller, AnyCancelStep(c)
      PROVE  Unstarted'
  <2>1. UNCHANGED upVars
    BY <1>3, CancelFrame
  <2>2. CASE \E s \in Session : StartCancel(c, s)
    BY <2>1, <2>2 DEF StartCancel, Unstarted, TypeOK, upVars
  <2>3. CASE CancelStep(c)
    BY <2>1, <2>3 DEF CancelStep, CancelCleanup, CleanupOutcomes, WriteCancelled,
       ReportCancelled, CancelMove, Unstarted, TypeOK, upVars
  <2> QED
    BY <1>3, <2>2, <2>3 DEF AnyCancelStep
<1>4. UNCHANGED vars \/ (\E p \in Path : OutsiderCreates(p)) => UNCHANGED <<upVars, cVars>>
  BY DEF OutsiderCreates, vars
<1>5. UNCHANGED <<upVars, cVars>> => Unstarted'
  BY DEF Unstarted, upVars, cVars
<1> QED
  BY <1>1, <1>2, <1>3, <1>4, <1>5, NextSteps

(* A session that was sent each file at most once, and one that nobody     *)
(* cancelled, was so before.                                               *)
LEMMA UndisturbedBefore ==
  ASSUME TypeOK, Unstarted, [Next]_vars, NEW s \in Session
  PROVE  /\ SentOnce(s)' => SentOnce(s)
         /\ Undisturbed(s)' => Undisturbed(s)
<1>1. None \notin Session
  BY ReceiveAssumption DEF ReceiveAssumption
<1>2. \A u \in Upload : us[u] = s => us'[u] = us[u] /\ uf'[u] = uf[u]
  BY <1>1, RequestsKept DEF Unstarted
<1>3. \A c \in Canceller : cs[c] = s => cs'[c] = cs[c]
  BY <1>1, RequestsKept DEF Unstarted
<1> QED
  BY <1>2, <1>3 DEF Undisturbed, SentOnce

-----------------------------------------------------------------------------
(* Partials.                                                               *)

(* No upload takes away or adds to what another one, of another file, has. *)
LEMMA OthersKeepTrack ==
  ASSUME TypeOK, ReceiveInv, PartialsApart, NEW u \in Upload, AnyUploadStep(u),
         NEW v \in Upload, v # u, upc[v] # "idle", SentOnce(us[v])
  PROVE  /\ partPath'[<<us[v], uf[v]>>] = partPath[<<us[v], uf[v]>>]
         /\ \A p \in Path : disk'[p].by = v => disk[p].by = v
<1> USE DEF ReceiveInv
<1>x. <<us[v], uf[v]>> \in Session \X File
  BY DEF Started
<1>a. Absent.by # v
  BY ReceiveAssumption DEF Absent, ReceiveAssumption
<1>1. CASE \E s \in Session, f \in File : StartUpload(u, s, f)
  BY <1>1 DEF StartUpload, fileVars
<1>2. CASE EndOfBody(u) \/ StreamError(u)
  BY <1>2 DEF EndOfBody, StreamError, fileVars
<1>3. CASE Chunk(u)
  <2>1. PartOf[final[u]] \in Path
    BY <1>3, ClaimIsFinal DEF Chunk, Started
  <2>2. disk[PartOf[final[u]]] \in Content
    BY <2>1 DEF TypeOK
  <2> QED
    BY <1>3, <2>1, <2>2, OneChunkMore DEF Chunk, TypeOK
<1>4. CASE CannotOpen(u) \/ Claim(u) \/ MarkDone(u) \/ ReportFile(u) \/ WriteResult(u)
           \/ ReportResult(u)
  BY <1>4 DEF CannotOpen, Claim, MarkDone, ReportFile, WriteResult, ReportResult, fileVars
<1>5. CASE OpenPart(u)
  BY <1>5 DEF OpenPart, TypeOK
<1>6. ASSUME NotePart(u) \/ FailFile(u)
      PROVE  <<us[u], uf[u]>> # <<us[v], uf[v]>>
  BY <1>6 DEF SentOnce
<1>7. CASE NotePart(u)
  BY <1>x, <1>6, <1>7 DEF NotePart, TypeOK
<1>8. CASE FailFile(u)
  <2>1. partPath'[<<us[v], uf[v]>>] = partPath[<<us[v], uf[v]>>]
    BY <1>x, <1>6, <1>8 DEF FailFile, TypeOK
  <2> QED
    BY <1>a, <1>8, <2>1 DEF FailFile, Remove
<1>9. CASE Cleanup(u)
  BY <1>a, <1>9 DEF Cleanup, Remove
<1>10. CASE Rename(u)
  <2>1. final[u] # None /\ disk[PartOf[final[u]]] # Absent
    BY <1>10 DEF Rename, Move, Started
  <2>2. final[u] \in Path /\ PartOf[final[u]] \in Path
    BY <2>1, ClaimIsFinal
  <2>3. disk[PartOf[final[u]]].by # v
    <3>1. SUFFICES ASSUME disk[PartOf[final[u]]].by = v PROVE FALSE
      OBVIOUS
    <3>2. final[v] # None /\ PartOf[final[u]] \in {PartOf[final[v]], final[v]}
      BY <2>2, <3>1 DEF OnDisk, Located
    <3> QED
      BY <2>1, <3>2, ClaimsApart
  <2> QED
    BY <1>a, <1>10, <2>2, <2>3 DEF Rename, TypeOK
<1> QED
  BY <1>1, <1>2, <1>3, <1>4, <1>5, <1>7, <1>8, <1>9, <1>10
  DEF AnyUploadStep, UploadStep, BodyStep

(* What is renamed is the upload's own partial.                            *)
LEMMA OwnPartRenamed ==
  ASSUME TypeOK, ReceiveInv, PartialsApart, NEW u \in Upload, Rename(u)
  PROVE  disk[PartOf[final[u]]].by = u
<1> USE DEF ReceiveInv
<1>1. final[u] # None /\ disk[PartOf[final[u]]] # Absent
  BY DEF Rename, Move, Started
<1>2. PartOf[final[u]] \in Path /\ final[u] \in Finals
  BY <1>1, ClaimIsFinal
<1>3. disk[PartOf[final[u]]].by \notin {None, Outsider}
  BY <1>1, <1>2 DEF OnDisk, Unowned, PartialsApart
<1>4. PICK v \in Upload : disk[PartOf[final[u]]].by = v
  BY <1>2, <1>3 DEF TypeOK, Content
<1>5. final[v] # None /\ PartOf[final[u]] \in {PartOf[final[v]], final[v]}
  BY <1>2, <1>4 DEF OnDisk, Located
<1> QED
  BY <1>1, <1>4, <1>5, ClaimsApart

(* What an upload does about its own partial.                              *)
LEMMA OwnTrack ==
  ASSUME TypeOK, ReceiveInv, PartialsApart, NEW u \in Upload, UploadStep(u) \/ BodyStep(u),
         upc[u] # "idle", SentOnce(us[u]), TrackedBy(u)
  PROVE  TrackedBy(u)'
<1> USE DEF ReceiveInv
<1>x. <<us[u], uf[u]>> \in Session \X File
  BY DEF Started
<1>a. Absent.by # u
  BY ReceiveAssumption DEF Absent, ReceiveAssumption
<1>1. CASE CannotOpen(u) \/ ReportFile(u) \/ WriteResult(u) \/ ReportResult(u) \/ MarkDone(u)
  BY <1>1 DEF CannotOpen, ReportFile, WriteResult, ReportResult, MarkDone, Move, TypeOK,
     TrackedBy, fileVars
<1>2. CASE EndOfBody(u) \/ StreamError(u)
  BY <1>2 DEF EndOfBody, StreamError, Move, TypeOK, TrackedBy, fileVars
<1>3. CASE Chunk(u)
  <2>1. upc[u] = "stream" /\ upc'[u] \in {"stream", "failFile"}
    BY <1>3 DEF Chunk, Move, TypeOK
  <2>2. UNCHANGED <<us, uf, final, partPath>>
    BY <1>3 DEF Chunk
  <2> QED
    BY <2>1, <2>2 DEF TrackedBy
<1>4. CASE Claim(u)
  <2>1. final[u] = None /\ disk' = disk /\ upc'[u] = "claimed"
    BY <1>4 DEF Claim, Move, Started, TypeOK
  <2>2. \A p \in Path : disk[p].by # u
    BY <2>1 DEF OnDisk, Located
  <2> QED
    BY <2>1, <2>2 DEF TrackedBy
<1>5. CASE OpenPart(u)
  BY <1>5 DEF OpenPart, Move, TypeOK, TrackedBy
<1>6. CASE NotePart(u)
  <2>1. upc'[u] = "stream" /\ UNCHANGED <<us, uf, final>>
    BY <1>6 DEF NotePart, Move, TypeOK
  <2>2. partPath'[<<us[u], uf[u]>>] = PartOf[final[u]]
    BY <1>x, <1>6 DEF NotePart, TypeOK
  <2> QED
    BY <2>1, <2>2 DEF TrackedBy
<1>7. CASE Rename(u)
  <2>1. final[u] # None /\ final[u] \in Path /\ PartOf[final[u]] \in Path
    BY <1>7, ClaimIsFinal DEF Rename, Move, Started
  <2>2. upc'[u] = "placed" /\ final' = final
    BY <1>7 DEF Rename, Move, TypeOK
  <2>3. \A p \in Path : disk'[p].by = u => p = final[u]
    <3>1. \A p \in Path : disk[p].by = u => p \in {PartOf[final[u]], final[u]}
      BY DEF OnDisk, Located
    <3>2. \A p \in Path : p \notin {PartOf[final[u]], final[u]} => disk'[p] = disk[p]
      BY <1>7 DEF Rename, TypeOK
    <3>3. PartOf[final[u]] # final[u]
      BY <2>1, ClaimsApart
    <3>4. disk'[PartOf[final[u]]] = Absent
      BY <1>7, <2>1, <3>3 DEF Rename, TypeOK
    <3> QED
      BY <1>a, <3>1, <3>2, <3>4
  <2> QED
    BY <2>2, <2>3 DEF TrackedBy
<1>8. CASE FailFile(u)
  <2>1. upc[u] = "failFile" /\ upc'[u] = "cleanup" /\ final' = final
    BY <1>8 DEF FailFile, Move, TypeOK
  <2>2. partPath[<<us[u], uf[u]>>] = PartOf[final[u]]
    BY <2>1 DEF TrackedBy
  <2>3. ~BeingStored(<<us[u], uf[u]>>)
    BY <2>1 DEF BeingStored, SentOnce
  <2>4. Remove({PartOf[final[u]]})
    BY <1>8, <2>2, <2>3 DEF FailFile
  <2>5. \A p \in Path : disk'[p].by = u => p = final[u]
    <3>1. \A p \in Path : disk[p].by = u => p \in {PartOf[final[u]], final[u]}
      BY DEF OnDisk, Located
    <3> QED
      BY <1>a, <2>4, <3>1 DEF Remove
  <2> QED
    BY <2>1, <2>5 DEF TrackedBy
<1>9. CASE Cleanup(u)
  <2>1. upc[u] = "cleanup" /\ upc'[u] \in {"write", "over"} /\ final' = final
    BY <1>9 DEF Cleanup, CleanupOutcomes, Move, TypeOK
  <2>2. \A p \in Path : disk'[p].by = u => disk[p].by = u
    BY <1>a, <1>9 DEF Cleanup, Remove
  <2> QED
    BY <2>1, <2>2 DEF TrackedBy
<1> QED
  BY <1>1, <1>2, <1>3, <1>4, <1>5, <1>6, <1>7, <1>8, <1>9 DEF UploadStep, BodyStep

LEMMA TrackedStep ==
  ASSUME TypeOK, ReceiveInv, Unstarted, Tracked, PartialsApart, [Next]_vars
  PROVE  Tracked'
<1> USE DEF ReceiveInv
<1>n. None \notin Session \union Upload
  BY ReceiveAssumption DEF ReceiveAssumption
<1>1. SUFFICES ASSUME NEW v \in Upload, us'[v] # None, SentOnce(us[v])'
               PROVE  TrackedBy(v)'
  BY DEF Tracked
<1>2. CASE upc[v] = "idle"
  <2>1. us[v] = None
    BY <1>2 DEF Unstarted
  <2>2. PICK u \in Upload : AnyUploadStep(u)
    BY <1>1, <2>1, NextSteps, SessionFrame, CancelFrame DEF OutsiderCreates, vars, upVars
  <2>3. u = v
    BY <1>1, <2>1, <2>2, OthersStand
  <2>4. PICK s \in Session, f \in File : StartUpload(u, s, f)
    BY <1>1, <2>1, <2>2, <2>3
    DEF AnyUploadStep, UploadStep, BodyStep, CannotOpen, Claim, OpenPart, NotePart, Chunk,
        EndOfBody, StreamError, Rename, MarkDone, ReportFile, FailFile, Cleanup, WriteResult,
        ReportResult
  <2>5. upc'[v] = "checked" /\ final[v] = None /\ UNCHANGED <<final, disk>>
    BY <1>2, <2>3, <2>4 DEF StartUpload, Move, TypeOK, Started, fileVars
  <2>6. \A p \in Path : disk[p].by # v
    BY <2>5 DEF OnDisk, Located
  <2> QED
    BY <2>5, <2>6 DEF TrackedBy
<1>3. CASE upc[v] # "idle"
  <2>1. us[v] \in Session /\ uf[v] \in File
    BY <1>3 DEF Started
  <2>2. us'[v] = us[v] /\ uf'[v] = uf[v]
    BY <1>3, RequestsKept
  <2>3. SentOnce(us[v])
    BY <1>1, <2>1, <2>2, UndisturbedBefore DEF SentOnce
  <2>4. TrackedBy(v)
    BY <1>n, <2>1, <2>3 DEF Tracked
  <2>5. ASSUME upc'[v] = upc[v], final'[v] = final[v],
               partPath'[<<us[v], uf[v]>>] = partPath[<<us[v], uf[v]>>],
               \A p \in Path : disk'[p].by = v => disk[p].by = v
        PROVE  TrackedBy(v)'
    BY <2>2, <2>4, <2>5 DEF TrackedBy
  <2>6. ASSUME NEW s \in Session, SessionStep(s)
        PROVE  TrackedBy(v)'
    BY <2>5, <2>6, SessionFrame DEF fileVars, upVars
  <2>7. ASSUME NEW u \in Upload, AnyUploadStep(u)
        PROVE  TrackedBy(v)'
    <3>1. CASE u = v
      <4>1. UploadStep(u) \/ BodyStep(u)
        BY <1>3, <2>7, <3>1 DEF AnyUploadStep, StartUpload, Move
      <4> QED
        BY <1>3, <2>3, <2>4, <3>1, <4>1, OwnTrack
    <3>2. CASE u # v
      BY <1>3, <2>3, <2>5, <2>7, <3>2, OthersStand, OthersKeepTrack
    <3> QED
      BY <3>1, <3>2
  <2>8. ASSUME NEW c \in Canceller, AnyCancelStep(c)
        PROVE  TrackedBy(v)'
    <3>1. UNCHANGED <<partPath, upVars>>
      BY <2>8, CancelFrame
    <3>2. \A p \in Path : disk'[p].by = v => disk[p].by = v
      BY <1>n, <2>8 DEF AnyCancelStep, CancelStep, StartCancel, CancelCleanup, Remove, Absent,
         WriteCancelled, ReportCancelled, fileVars
    <3> QED
      BY <2>5, <3>1, <3>2 DEF upVars
  <2>9. ASSUME NEW p \in Path, OutsiderCreates(p)
        PROVE  TrackedBy(v)'
    <3>1. Foreign.by # v
      BY ReceiveAssumption DEF Foreign, ReceiveAssumption
    <3> QED
      BY <2>5, <2>9, <3>1 DEF OutsiderCreates, TypeOK, upVars
  <2>10. CASE UNCHANGED vars
    BY <2>5, <2>10 DEF vars, fileVars, upVars
  <2> QED
    BY <2>6, <2>7, <2>8, <2>9, <2>10, NextSteps
<1> QED
  BY <1>2, <1>3

-----------------------------------------------------------------------------
(* What uploads come to.                                                   *)

LEMMA EntitledStep ==
  ASSUME TypeOK, Started, Unstarted, Entitled, [Next]_vars
  PROVE  Entitled'
<1>n. None \notin Session /\ Done # Failed /\ None # Done /\ None # Failed
  BY ReceiveAssumption DEF ReceiveAssumption, Terminal, Done, Failed
<1> DEFINE Own(u) ==
      /\ want[u] = Done =>
           upc[u] \in {"fileHook", "write", "report", "over"} /\ AllDone(us[u], fileDone)
      /\ want[u] = Failed => upc[u] \in {"cleanup", "write", "report", "over"}
      /\ upc[u] = "cleanup" => want[u] = Failed
      /\ upc[u] = "fileHook" => <<us[u], uf[u]>> \in fileDone
<1>1. \A u \in Upload : Own(u)
  BY DEF Entitled
<1>2. \A u \in Upload : want[u] = Done => us[u] \in Session
  BY <1>n DEF Started
<1>3. SUFFICES /\ \A v \in Upload : Own(v)'
               /\ \A v \in Upload : want[v] = Done => want'[v] = Done /\ us'[v] = us[v]
               /\ \A s \in Session : File # {} /\ AllDone(s, fileDone)' =>
                    \/ AllDone(s, fileDone)
                    \/ \E u \in Upload : us'[u] = s /\ want'[u] = Done
  <2>1. ASSUME \A v \in Upload : want[v] = Done => want'[v] = Done /\ us'[v] = us[v],
               NEW s \in Session, File # {}, AllDone(s, fileDone)
        PROVE  \E u \in Upload : us'[u] = s /\ want'[u] = Done
    BY <2>1 DEF Entitled
  <2> QED
    BY <2>1 DEF Entitled
<1>4. ASSUME UNCHANGED <<upc, us, uf, want, fileDone>>
      PROVE  /\ \A v \in Upload : Own(v)'
             /\ \A v \in Upload : want[v] = Done => want'[v] = Done /\ us'[v] = us[v]
             /\ \A s \in Session : AllDone(s, fileDone)' => AllDone(s, fileDone)
  BY <1>1, <1>4 DEF AllDone
<1>5. CASE \E s \in Session : SessionStep(s)
  BY <1>4, <1>5, SessionFrame DEF fileVars, upVars
<1>6. CASE \E c \in Canceller : AnyCancelStep(c)
  BY <1>4, <1>6, CancelFrame DEF upVars
<1>7. CASE UNCHANGED vars \/ \E p \in Path : OutsiderCreates(p)
  BY <1>4, <1>7 DEF OutsiderCreates, vars, fileVars, upVars
<1>8. ASSUME NEW u \in Upload, AnyUploadStep(u)
      PROVE  /\ \A v \in Upload : Own(v)'
             /\ \A v \in Upload : want[v] = Done => want'[v] = Done /\ us'[v] = us[v]
             /\ \A s \in Session : AllDone(s, fileDone)' =>
                  \/ AllDone(s, fileDone)
                  \/ \E w \in Upload : us'[w] = s /\ want'[w] = Done
  <2>g. \A r : AllDone(r, fileDone) => AllDone(r, fileDone')
    BY FileDoneGrows DEF AllDone
  <2>1. \A v \in Upload : v # u => Own(v)' /\ want'[v] = want[v] /\ us'[v] = us[v]
    BY <1>1, <1>8, <2>g, OthersStand, FileDoneGrows
  <2>2. Own(u)' /\ (want[u] = Done => want'[u] = Done /\ us'[u] = us[u])
    <3>1. Own(u)
      BY <1>1
    <3>2. CASE \E s \in Session, f \in File : StartUpload(u, s, f)
      BY <1>n, <3>1, <3>2 DEF StartUpload, Move, TypeOK, Started
    <3>3. CASE BodyStep(u)
      BY <1>n, <3>1, <3>3 DEF BodyStep, Chunk, EndOfBody, StreamError, Move, TypeOK, Started
    <3>4. CASE CannotOpen(u) \/ Claim(u) \/ OpenPart(u) \/ NotePart(u) \/ Rename(u)
      BY <1>n, <3>1, <3>4 DEF CannotOpen, Claim, OpenPart, NotePart, Rename, Move, TypeOK
    <3>5. CASE MarkDone(u)
      <4>1. upc[u] = "placed" /\ upc'[u] = "fileHook" /\ us' = us /\ uf' = uf
            /\ <<us[u], uf[u]>> \in fileDone'
        BY <3>5 DEF MarkDone, Move, TypeOK
      <4>2. want'[u] # Failed /\ (want'[u] = Done => AllDone(us[u], fileDone'))
        BY <1>n, <3>5 DEF MarkDone, TypeOK
      <4> QED
        BY <1>n, <3>1, <4>1, <4>2
    <3>6. CASE ReportFile(u) \/ FailFile(u) \/ WriteResult(u) \/ ReportResult(u)
      BY <1>n, <3>1, <3>6 DEF ReportFile, FailFile, WriteResult, ReportResult, Move, TypeOK,
         fileVars
    <3>7. CASE Cleanup(u)
      BY <1>n, <3>1, <3>7 DEF Cleanup, CleanupOutcomes, Move, TypeOK
    <3> QED
      BY <1>8, <3>2, <3>3, <3>4, <3>5, <3>6, <3>7 DEF AnyUploadStep, UploadStep
  <2>3. ASSUME NEW s \in Session, AllDone(s, fileDone)', ~AllDone(s, fileDone)
        PROVE  \E w \in Upload : us'[w] = s /\ want'[w] = Done
    <3>1. PICK w \in Upload : MarkDone(w)
      BY <2>3, FileDoneGrows DEF AllDone
    <3>2. us[w] = s /\ us' = us
      BY <2>3, <3>1 DEF MarkDone, AllDone
    <3>3. want'[w] = Done
      BY <2>3, <3>1, <3>2 DEF MarkDone, TypeOK, AllDone
    <3> QED
      BY <3>2, <3>3
  <2> QED
    BY <2>1, <2>2, <2>3
<1> QED
  BY <1>3, <1>5, <1>6, <1>7, <1>8, NextSteps

LEMMA UndoneStep ==
  ASSUME TypeOK, Started, Unstarted, Entitled, Undone, [Next]_vars
  PROVE  Undone'
<1>n. None \notin Session /\ Done # Failed /\ None # Failed
  BY ReceiveAssumption DEF ReceiveAssumption, Terminal, Done, Failed
<1>1. SUFFICES ASSUME NEW v \in Upload, us'[v] # None, SentOnce(us[v])',
                      <<us'[v], uf'[v]>> \in fileDone'
               PROVE  want'[v] # Failed /\ upc'[v] \in {"fileHook", "write", "report", "over"}
  BY DEF Undone
<1>2. ASSUME UNCHANGED <<upc, us, uf, want, fileDone>>
      PROVE  want'[v] # Failed /\ upc'[v] \in {"fileHook", "write", "report", "over"}
  BY <1>1, <1>2 DEF Undone, SentOnce
<1>3. CASE \E s \in Session : SessionStep(s)
  BY <1>2, <1>3, SessionFrame DEF fileVars, upVars
<1>4. CASE \E c \in Canceller : AnyCancelStep(c)
  BY <1>2, <1>4, CancelFrame DEF upVars
<1>5. CASE UNCHANGED vars \/ \E p \in Path : OutsiderCreates(p)
  BY <1>2, <1>5 DEF OutsiderCreates, vars, fileVars, upVars
<1>6. ASSUME NEW u \in Upload, \E s \in Session, f \in File : StartUpload(u, s, f)
      PROVE  want'[v] # Failed /\ upc'[v] \in {"fileHook", "write", "report", "over"}
  <2>1. PICK s \in Session, f \in File : StartUpload(u, s, f)
    BY <1>6
  <2>2. fileDone' = fileDone /\ <<s, f>> \notin fileDone /\ upc[u] = "idle" /\ us[u] = None
    BY <2>1 DEF StartUpload, fileVars, Move, Unstarted
  <2>3. us' = [us EXCEPT ![u] = s] /\ uf' = [uf EXCEPT ![u] = f]
    BY <2>1 DEF StartUpload
  <2>4. v # u
    BY <1>1, <2>2, <2>3 DEF TypeOK
  <2>5. us'[v] = us[v] /\ uf'[v] = uf[v] /\ upc'[v] = upc[v] /\ want'[v] = want[v]
    BY <1>6, <2>4, OthersStand DEF AnyUploadStep
  <2>6. SentOnce(us[v])
    <3>1. upc[v] # "idle"
      BY <1>1, <2>5 DEF Unstarted
    <3>2. us[v] \in Session
      BY <3>1 DEF Started
    <3> QED
      BY <1>1, <2>5, <3>2, UndisturbedBefore DEF SentOnce
  <2> QED
    BY <1>1, <2>2, <2>5, <2>6 DEF Undone
<1>7. ASSUME NEW u \in Upload, UploadStep(u) \/ BodyStep(u)
      PROVE  want'[v] # Failed /\ upc'[v] \in {"fileHook", "write", "report", "over"}
  <2>1. us' = us /\ uf' = uf
    BY <1>7 DEF UploadStep, BodyStep, CannotOpen, Claim, OpenPart, NotePart, Chunk, EndOfBody,
       StreamError, Rename, MarkDone, ReportFile, FailFile, Cleanup, WriteResult, ReportResult
  <2>2. SentOnce(us[v]) /\ us[v] # None
    BY <1>1, <2>1 DEF SentOnce
  <2>3. CASE <<us[v], uf[v]>> \in fileDone
    <3>1. want[v] # Failed /\ upc[v] \in {"fileHook", "write", "report", "over"}
      BY <2>2, <2>3 DEF Undone
    <3>2. CASE u # v
      BY <1>7, <3>1, <3>2, OthersStand DEF AnyUploadStep
    <3>3. CASE u = v
      BY <1>7, <3>1, <3>3
      DEF UploadStep, BodyStep, CannotOpen, Claim, OpenPart, NotePart, Chunk, EndOfBody,
          StreamError, Rename, MarkDone, ReportFile, FailFile, Cleanup, WriteResult,
          ReportResult, Move, TypeOK
    <3> QED
      BY <3>2, <3>3
  <2>4. CASE <<us[v], uf[v]>> \notin fileDone
    <3>1. PICK w \in Upload : MarkDone(w)
      BY <1>1, <2>1, <2>4, FileDoneGrows
    <3>2. us[w] = us[v] /\ uf[w] = uf[v]
      BY <1>1, <2>1, <2>4, <3>1 DEF MarkDone
    <3>3. w = v
      BY <2>2, <3>2 DEF SentOnce
    <3> QED
      BY <1>n, <3>1, <3>3 DEF MarkDone, Move, TypeOK
  <2> QED
    BY <2>3, <2>4
<1> QED
  BY <1>3, <1>4, <1>5, <1>6, <1>7, NextSteps DEF AnyUploadStep

(* Of a session's uploads none fails once all files are in.                *)
LEMMA DoneExcludesFailed ==
  ASSUME TypeOK, Started, Unstarted, Entitled, Undone, NEW u \in Upload, NEW v \in Upload,
         us[u] = us[v], us[u] # None, SentOnce(us[u]), want[u] = Done
  PROVE  want[v] # Failed
<1>1. AllDone(us[u], fileDone)
  BY DEF Entitled
<1>2. uf[v] \in File
  BY DEF Started, Unstarted
<1> QED
  BY <1>1, <1>2 DEF Undone, AllDone

-----------------------------------------------------------------------------
(* The job and the state.                                                  *)

(* Who stores sess.State ...                                               *)
LEMMA StateChanges ==
  ASSUME TypeOK, [Next]_vars, NEW s \in Session, state'[s] # state[s]
  PROVE  \/ WriteVerdict(s)
         \/ \E u \in Upload : us[u] = s /\ WriteResult(u)
         \/ \E c \in Canceller : cs[c] = s /\ WriteCancelled(c)
<1>1. ASSUME NEW r \in Session, SessionStep(r)
      PROVE  WriteVerdict(s)
  BY <1>1
  DEF SessionStep, Offer, PrepareStep, SenderGoes, Forget, Decide, Announce, TakeDecision,
      Timeout, SeeCancel, Conclude, WriteVerdict, ReportVerdict, SetState, TypeOK
<1>2. ASSUME NEW u \in Upload, AnyUploadStep(u)
      PROVE  us[u] = s /\ WriteResult(u)
  <2>1. CASE BodyStep(u) \/ \E r \in Session, f \in File : StartUpload(u, r, f)
    BY <2>1 DEF BodyStep, StartUpload, Chunk, EndOfBody, StreamError
  <2>2. CASE UploadStep(u)
    BY <2>2 DEF UploadStep, CannotOpen, Claim, OpenPart, NotePart, Rename, MarkDone,
       ReportFile, FailFile, Cleanup, ReportResult, WriteResult, SetState, TypeOK
  <2> QED
    BY <1>2, <2>1, <2>2 DEF AnyUploadStep
<1>3. ASSUME NEW c \in Canceller, AnyCancelStep(c)
      PROVE  cs[c] = s /\ WriteCancelled(c)
  BY <1>3
  DEF AnyCancelStep, CancelStep, StartCancel, CancelCleanup, WriteCancelled, ReportCancelled,
      SetState, TypeOK
<1>4. ~UNCHANGED vars /\ ~\E p \in Path : OutsiderCreates(p)
  BY DEF OutsiderCreates, vars
<1> QED
  BY <1>1, <1>2, <1>3, <1>4, NextSteps

(* ... and who the job's.                                                  *)
LEMMA JobChanges ==
  ASSUME TypeOK, [Next]_vars, NEW s \in Session, job'[s] # job[s]
  PROVE  \/ Announce(s) \/ ReportVerdict(s) \/ Forget(s)
         \/ \E u \in Upload : us[u] = s /\ ReportResult(u)
         \/ \E c \in Canceller : cs[c] = s /\ ReportCancelled(c)
<1>1. ASSUME NEW r \in Session, SessionStep(r)
      PROVE  Announce(s) \/ ReportVerdict(s) \/ Forget(s)
  BY <1>1
  DEF SessionStep, Offer, PrepareStep, SenderGoes, Forget, Decide, Announce, TakeDecision,
      Timeout, SeeCancel, Conclude, WriteVerdict, ReportVerdict, Report, Advance, jobVars, TypeOK
<1>2. ASSUME NEW u \in Upload, AnyUploadStep(u)
      PROVE  us[u] = s /\ ReportResult(u)
  <2>1. CASE BodyStep(u) \/ \E r \in Session, f \in File : StartUpload(u, r, f)
    BY <2>1 DEF BodyStep, StartUpload, Chunk, EndOfBody, StreamError, jobVars
  <2>2. CASE UploadStep(u)
    BY <2>2 DEF UploadStep, CannotOpen, Claim, OpenPart, NotePart, Rename, MarkDone,
       ReportFile, FailFile, Cleanup, WriteResult, ReportResult, Report, jobVars, TypeOK
  <2> QED
    BY <1>2, <2>1, <2>2 DEF AnyUploadStep
<1>3. ASSUME NEW c \in Canceller, AnyCancelStep(c)
      PROVE  cs[c] = s /\ ReportCancelled(c)
  BY <1>3
  DEF AnyCancelStep, CancelStep, StartCancel, CancelCleanup, WriteCancelled, ReportCancelled,
      Report, TypeOK, jobVars
<1>4. ~UNCHANGED vars /\ ~\E p \in Path : OutsiderCreates(p)
  BY DEF OutsiderCreates, vars, jobVars
<1> QED
  BY <1>1, <1>2, <1>3, <1>4, NextSteps

(* Prepare's place changes in Prepare alone.                               *)
LEMMA PrepChanges ==
  ASSUME TypeOK, [Next]_vars, NEW s \in Session
  PROVE  \/ prep'[s] = prep[s] /\ verdict'[s] = verdict[s]
         \/ prep[s] = "new" /\ prep'[s] \in {"listed", "refused"}
         \/ Announce(s)
         \/ prep[s] = "waiting" /\ prep'[s] = "write"
         \/ WriteVerdict(s) \/ ReportVerdict(s)
<1>1. ASSUME NEW r \in Session, SessionStep(r), prep'[s] # prep[s] \/ verdict'[s] # verdict[s]
      PROVE  \/ prep[s] = "new" /\ prep'[s] \in {"listed", "refused"}
             \/ Announce(s)
             \/ prep[s] = "waiting" /\ prep'[s] = "write"
             \/ WriteVerdict(s) \/ ReportVerdict(s)
  BY <1>1
  DEF SessionStep, Offer, PrepareStep, SenderGoes, Forget, Decide, Announce, TakeDecision,
      Timeout, SeeCancel, Conclude, WriteVerdict, ReportVerdict, Advance, prepVars, TypeOK
<1>2. \A u \in Upload : AnyUploadStep(u) => prep' = prep /\ verdict' = verdict
  BY UploadFrame DEF prepVars
<1>3. \A c \in Canceller : AnyCancelStep(c) => prep' = prep /\ verdict' = verdict
  BY CancelFrame
<1>4. UNCHANGED vars \/ (\E p \in Path : OutsiderCreates(p)) => prep' = prep /\ verdict' = verdict
  BY DEF OutsiderCreates, vars, prepVars
<1> QED
  BY <1>1, <1>2, <1>3, <1>4, NextSteps

LEMMA JobNames ==
  /\ None \notin {"awaiting-accept", "receiving", "forgotten"} \union Terminal
  /\ \A st \in {Accepted} \union Terminal : JobState(st) \notin {None, "forgotten"}
  /\ Terminal \intersect {"awaiting-accept", "forgotten"} = {}
BY ReceiveAssumption
DEF ReceiveAssumption, JobState, Terminal, Accepted, Done, Declined, Cancelled, Failed

LEMMA EnteredStep ==
  ASSUME TypeOK, Started, Entered, [Next]_vars
  PROVE  Entered'
<1>1. SUFFICES ASSUME NEW s \in Session
               PROVE  (job[s] = None <=> prep[s] \in {"new", "listed", "refused"})'
  BY DEF Entered
<1>2. job[s] = None <=> prep[s] \in {"new", "listed", "refused"}
  BY DEF Entered
<1>3. CASE Announce(s)
  <2>1. job'[s] = "awaiting-accept" /\ prep'[s] = "waiting"
    BY <1>3 DEF Announce, Advance, TypeOK
  <2> QED
    BY <2>1, JobNames
<1>4. CASE ~Announce(s)
  <2>1. prep'[s] \in {"new", "listed", "refused"} <=> prep[s] \in {"new", "listed", "refused"}
    BY <1>4, PrepChanges DEF WriteVerdict, ReportVerdict, Advance, TypeOK
  <2>2. job'[s] = None <=> job[s] = None
    <3>1. SUFFICES ASSUME job'[s] # job[s] PROVE job'[s] # None /\ job[s] # None
      OBVIOUS
    <3>2. CASE ReportVerdict(s)
      BY <3>1, <3>2, JobNames DEF ReportVerdict, Report, Started, TypeOK, Advance, Terminal
    <3>3. CASE Forget(s)
      BY <3>3, JobNames DEF Forget, TypeOK
    <3>4. ASSUME NEW u \in Upload, us[u] = s, ReportResult(u)
          PROVE  job'[s] # None /\ job[s] # None
      BY <3>1, <3>4, JobNames DEF ReportResult, Report, Move, Started, TypeOK, Terminal
    <3>5. ASSUME NEW c \in Canceller, cs[c] = s, ReportCancelled(c)
          PROVE  job'[s] # None /\ job[s] # None
      BY <3>1, <3>5, JobNames DEF ReportCancelled, Report, TypeOK, Terminal
    <3> QED
      BY <1>4, <3>1, <3>2, <3>3, <3>4, <3>5, JobChanges
  <2> QED
    BY <1>2, <2>1, <2>2
<1> QED
  BY <1>3, <1>4

(* Before the answer there are no uploads.                                 *)
LEMMA NoUploadsYet ==
  ASSUME Started, Unstarted, NEW s \in Session, prep[s] # "answered",
         NEW u \in Upload
  PROVE  us[u] # s
BY ReceiveAssumption DEF Started, Unstarted, ReceiveAssumption

LEMMA AwaitedStep ==
  ASSUME TypeOK, Started, Unstarted, Entered, Awaited, [Next]_vars
  PROVE  Awaited'
<1>1. SUFFICES ASSUME NEW s \in Session, Undisturbed(s)'
               PROVE  /\ prep'[s] \in {"waiting", "write", "report"} => job'[s] = "awaiting-accept"
                      /\ prep'[s] = "report" => state'[s] = verdict'[s]
  BY DEF Awaited
<1>2. Undisturbed(s)
  BY <1>1, UndisturbedBefore
<1>3. /\ prep[s] \in {"waiting", "write", "report"} => job[s] = "awaiting-accept"
      /\ prep[s] = "report" => state[s] = verdict[s]
  BY <1>2 DEF Awaited
<1>4. CASE Announce(s)
  BY <1>4 DEF Announce, Advance, TypeOK
<1>5. CASE ReportVerdict(s)
  BY <1>5 DEF ReportVerdict, Advance, TypeOK
<1>6. CASE ~Announce(s) /\ ~ReportVerdict(s)
  <2>1. prep'[s] \in {"waiting", "write", "report"} => prep[s] \in {"waiting", "write", "report"}
    BY <1>6, PrepChanges DEF WriteVerdict, Advance
  <2>2. prep[s] \in {"waiting", "write", "report"} => job'[s] = job[s]
    <3>1. SUFFICES ASSUME prep[s] \in {"waiting", "write", "report"}, job'[s] # job[s]
                   PROVE  FALSE
      OBVIOUS
    <3>2. ~Forget(s)
      BY <1>3, <3>1, JobNames DEF Forget
    <3> QED
      BY <1>2, <1>6, <3>1, <3>2, JobChanges, NoUploadsYet DEF Undisturbed
  <2>3. ASSUME prep'[s] = "report"
        PROVE  state'[s] = verdict'[s]
    <3>1. CASE WriteVerdict(s)
      BY <3>1 DEF WriteVerdict, SetState, TypeOK
    <3>2. CASE ~WriteVerdict(s)
      <4>1. prep[s] = "report" /\ verdict'[s] = verdict[s]
        BY <1>6, <2>3, <3>2, PrepChanges
      <4>2. state'[s] = state[s]
        BY <1>2, <3>2, <4>1, StateChanges, NoUploadsYet DEF Undisturbed
      <4> QED
        BY <1>3, <4>1, <4>2
    <3> QED
      BY <3>1, <3>2
  <2> QED
    BY <1>3, <2>1, <2>2, <2>3
<1> QED
  BY <1>4, <1>5, <1>6

(* Only the last two steps of setState bring an upload to its report, or   *)
(* past it.                                                                *)
LEMMA ReportPoints ==
  ASSUME TypeOK, Started, Unstarted, Entitled, [Next]_vars, NEW u \in Upload,
         ~WriteResult(u), ~ReportResult(u)
  PROVE  /\ upc'[u] = "report" <=> upc[u] = "report"
         /\ upc[u] = "report" => want'[u] = want[u] /\ us'[u] = us[u]
         /\ upc'[u] = "over" /\ want'[u] = Done =>
              upc[u] = "over" /\ want[u] = Done /\ us'[u] = us[u]
<1>n. Done # Failed /\ None # Done
  BY ReceiveAssumption DEF ReceiveAssumption, Terminal, Done, Failed
<1>1. CASE UNCHANGED upVars
  BY <1>1 DEF upVars
<1>2. CASE \E v \in Upload : v # u /\ AnyUploadStep(v)
  BY <1>2, OthersStand
<1>3. CASE AnyUploadStep(u)
  <2>1. CASE \E s \in Session, f \in File : StartUpload(u, s, f)
    BY <2>1 DEF StartUpload, Move, TypeOK
  <2>2. CASE BodyStep(u)
    BY <2>2 DEF BodyStep, Chunk, EndOfBody, StreamError, Move, TypeOK
  <2>3. CASE CannotOpen(u) \/ Claim(u) \/ OpenPart(u) \/ NotePart(u) \/ Rename(u) \/ MarkDone(u)
             \/ FailFile(u)
    BY <2>3 DEF CannotOpen, Claim, OpenPart, NotePart, Rename, MarkDone, FailFile, Move, TypeOK
  <2>4. CASE ReportFile(u)
    BY <1>n, <2>4 DEF ReportFile, Move, TypeOK
  <2>5. CASE Cleanup(u)
    BY <1>n, <2>5 DEF Cleanup, CleanupOutcomes, Move, TypeOK, Entitled
  <2> QED
    BY <1>3, <2>1, <2>2, <2>3, <2>4, <2>5 DEF AnyUploadStep, UploadStep
<1>4. UNCHANGED upVars \/ \E v \in Upload : AnyUploadStep(v)
  BY NextSteps, SessionFrame, CancelFrame DEF OutsiderCreates, vars
<1> QED
  BY <1>1, <1>2, <1>3, <1>4

(* The three things Followed says of a session.                            *)
FollowedOf(s) ==
  /\ \A u \in Upload : us[u] = s /\ upc[u] = "report" => state[s] = want[u]
  /\ \A u \in Upload : us[u] = s /\ want[u] = Done /\ upc[u] = "over" => state[s] = Done
  /\ \/ job[s] \in {"forgotten", JobState(state[s])}
     \/ \E u \in Upload : us[u] = s /\ upc[u] = "report"

(* The offer was answered, and the job follows the answer.                 *)
LEMMA FollowsAnswer ==
  ASSUME TypeOK, Started, Unstarted, Awaited, [Next]_vars, NEW s \in Session,
         Undisturbed(s), ReportVerdict(s)
  PROVE  FollowedOf(s)'
<1>1. prep[s] = "report"
  BY DEF ReportVerdict, Advance
<1>2. job[s] = "awaiting-accept" /\ state[s] = verdict[s]
  BY <1>1 DEF Awaited
<1>3. UNCHANGED <<upVars, state>>
  BY DEF ReportVerdict, Advance
<1>4. \A u \in Upload : us'[u] # s
  BY <1>1, <1>3, NoUploadsYet DEF upVars
<1>5. job'[s] = JobState(state'[s])
  BY <1>2, <1>3, JobNames DEF ReportVerdict, Report, TypeOK
<1> QED
  BY <1>4, <1>5 DEF FollowedOf

(* An upload stores its result: no other one of the session has a          *)
(* different one.                                                          *)
LEMMA FollowsResult ==
  ASSUME TypeOK, Started, Unstarted, Entitled, Undone, [Next]_vars, NEW s \in Session,
         Undisturbed(s), NEW w \in Upload, us[w] = s, WriteResult(w)
  PROVE  FollowedOf(s)'
<1>1. upc[w] = "write" /\ want[w] \in {Done, Failed}
  BY DEF WriteResult, Move, Started, TypeOK
<1>2. us' = us /\ want' = want /\ state'[s] = want[w]
  BY DEF WriteResult, SetState, TypeOK
<1>3. upc'[w] = "report" /\ \A u \in Upload : u # w => upc'[u] = upc[u]
  BY DEF WriteResult, Move, TypeOK
<1>4. \A u, v \in Upload : us[u] = s /\ us[v] = s /\ want[u] = Done => want[v] # Failed
  BY DoneExcludesFailed, ReceiveAssumption DEF Undisturbed, ReceiveAssumption
<1>5. \A u \in Upload : us[u] = s /\ upc[u] = "report" => want[u] = want[w]
  BY <1>1, <1>4 DEF Started, TypeOK
<1>6. \A u \in Upload : us[u] = s /\ want[u] = Done => want[w] = Done
  BY <1>1, <1>4
<1> QED
  BY <1>2, <1>3, <1>5, <1>6 DEF FollowedOf

LEMMA FollowedStep ==
  ASSUME TypeOK, Started, Unstarted, Entitled, Undone, Entered, Awaited, Followed, [Next]_vars
  PROVE  Followed'
<1>1. SUFFICES ASSUME NEW s \in Session, Undisturbed(s)', prep'[s] = "answered"
               PROVE  FollowedOf(s)'
  BY DEF Followed, FollowedOf
<1>2. Undisturbed(s)
  BY <1>1, UndisturbedBefore
<1>3. CASE prep[s] # "answered"
  <2>1. ReportVerdict(s)
    BY <1>1, <1>3, PrepChanges DEF Announce, WriteVerdict, Advance, TypeOK
  <2> QED
    BY <1>2, <2>1, FollowsAnswer
<1>4. CASE prep[s] = "answered"
  <2>1. FollowedOf(s)
    BY <1>2, <1>4 DEF Followed, FollowedOf
  <2>2. \A u \in Upload : us'[u] = s /\ us[u] # s => upc'[u] \notin {"report", "over"}
    <3>1. SUFFICES ASSUME NEW u \in Upload, us'[u] = s, us[u] # s
                   PROVE  upc'[u] \notin {"report", "over"}
      OBVIOUS
    <3>2. upc[u] = "idle" /\ us[u] = None
      BY <3>1, RequestsKept DEF Unstarted
    <3>3. PICK v \in Upload : AnyUploadStep(v)
      BY <3>1, NextSteps, SessionFrame, CancelFrame DEF OutsiderCreates, vars, upVars
    <3>4. v = u
      BY <3>1, <3>3, OthersStand
    <3> QED
      BY <3>1, <3>2, <3>3, <3>4
      DEF AnyUploadStep, UploadStep, BodyStep, StartUpload, CannotOpen, Claim, OpenPart,
          NotePart, Chunk, EndOfBody, StreamError, Rename, MarkDone, ReportFile, FailFile,
          Cleanup, WriteResult, ReportResult, Move, TypeOK
  <2>3. CASE \E w \in Upload : us[w] = s /\ WriteResult(w)
    BY <1>2, <2>3, FollowsResult
  <2>4. CASE \A w \in Upload : us[w] = s => ~WriteResult(w)
    <3>1. state'[s] = state[s]
      <4>1. ~WriteVerdict(s)
        BY <1>4 DEF WriteVerdict, Advance
      <4> QED
        BY <1>2, <2>4, <4>1, StateChanges DEF Undisturbed
    <3>2. ASSUME NEW w \in Upload, us[w] = s, ReportResult(w)
          PROVE  FollowedOf(s)'
      <4>1. upc[w] = "report" /\ want[w] = state[s] /\ want[w] \in {Done, Failed}
        BY <2>1, <3>2 DEF FollowedOf, ReportResult, Move, Started, TypeOK
      <4>2. us' = us /\ want' = want /\ upc'[w] = "over"
            /\ \A u \in Upload : u # w => upc'[u] = upc[u]
        BY <3>2 DEF ReportResult, Move, TypeOK
      <4>3. job[s] # None
        BY <1>4 DEF Entered
      <4>4. job'[s] \in {"forgotten", JobState(state'[s])}
        BY <3>1, <3>2, <4>1, <4>3 DEF ReportResult, Report, TypeOK
      <4> QED
        BY <2>1, <3>1, <4>1, <4>2, <4>4 DEF FollowedOf
    <3>3. CASE \A w \in Upload : us[w] = s => ~ReportResult(w)
      <4>1. \A u \in Upload : us[u] = s =>
              /\ upc'[u] = "report" <=> upc[u] = "report"
              /\ upc[u] = "report" => want'[u] = want[u] /\ us'[u] = us[u]
              /\ upc'[u] = "over" /\ want'[u] = Done => upc[u] = "over" /\ want[u] = Done
        BY <2>4, <3>3, ReportPoints
      <4>2. job'[s] \in {"forgotten", job[s]}
        <5>1. ~Announce(s) /\ ~ReportVerdict(s)
          BY <1>4 DEF Announce, ReportVerdict, Advance
        <5>2. Forget(s) => job'[s] = "forgotten"
          BY DEF Forget, TypeOK
        <5> QED
          BY <1>2, <3>3, <5>1, <5>2, JobChanges DEF Undisturbed
      <4> QED
        BY <2>1, <2>2, <3>1, <4>1, <4>2 DEF FollowedOf
    <3> QED
      BY <3>2, <3>3
  <2> QED
    BY <2>3, <2>4
<1> QED
  BY <1>3, <1>4

(* The files the job shows: a job once forgotten stays forgotten, and the  *)
(* hook of a file that is done comes.                                      *)
LEMMA ForgottenStays ==
  ASSUME TypeOK, Entered, [Next]_vars, NEW s \in Session, job[s] = "forgotten"
  PROVE  job'[s] = "forgotten"
<1>1. ~Announce(s)
  BY JobNames DEF Entered, Announce, Advance
<1> QED
  BY <1>1, JobChanges, JobNames
  DEF ReportVerdict, Forget, ReportResult, ReportCancelled, Report, TypeOK

LEMMA JobDoneChanges ==
  ASSUME [Next]_vars
  PROVE  jobDone' = jobDone \/ \E u \in Upload : ReportFile(u)
<1>1. \A s \in Session : SessionStep(s) => jobDone' = jobDone
  BY DEF SessionStep, Offer, PrepareStep, SenderGoes, Forget, Decide, Announce, TakeDecision,
     Timeout, SeeCancel, Conclude, WriteVerdict, ReportVerdict, jobVars
<1>2. \A c \in Canceller : AnyCancelStep(c) => jobDone' = jobDone
  BY CancelFrame
<1>3. \A u \in Upload : AnyUploadStep(u) /\ ~ReportFile(u) => jobDone' = jobDone
  BY DEF AnyUploadStep, UploadStep, BodyStep, StartUpload, CannotOpen, Claim, OpenPart,
     NotePart, Chunk, EndOfBody, StreamError, Rename, MarkDone, FailFile, Cleanup,
     WriteResult, ReportResult, jobVars
<1>4. UNCHANGED vars \/ (\E p \in Path : OutsiderCreates(p)) => jobDone' = jobDone
  BY DEF OutsiderCreates, vars, jobVars
<1> QED
  BY <1>1, <1>2, <1>3, <1>4, NextSteps

LEMMA FilesShownStep ==
  ASSUME TypeOK, Started, Entitled, Entered, FilesShown, [Next]_vars
  PROVE  FilesShown'
<1>1. SUFFICES ASSUME NEW s \in Session, NEW f \in File
               PROVE  /\ f \in jobDone'[s] => <<s, f>> \in fileDone'
                      /\ <<s, f>> \in fileDone' =>
                           \/ job'[s] = "forgotten" \/ f \in jobDone'[s]
                           \/ \E u \in Upload : us'[u] = s /\ uf'[u] = f /\ upc'[u] = "fileHook"
  BY DEF FilesShown
<1>2. fileDone \subseteq fileDone'
  BY FileDoneGrows
<1>3. jobDone[s] \subseteq jobDone'[s]
  BY JobDoneChanges DEF ReportFile, TypeOK
<1>4. f \in jobDone'[s] => <<s, f>> \in fileDone'
  <2>1. ASSUME NEW u \in Upload, ReportFile(u), f \in jobDone'[s], f \notin jobDone[s]
        PROVE  <<s, f>> \in fileDone
    BY <2>1 DEF ReportFile, Move, Entitled, TypeOK
  <2> QED
    BY <1>2, <2>1, JobDoneChanges DEF FilesShown
<1>5. ASSUME NEW u \in Upload, us[u] = s, uf[u] = f, upc[u] = "fileHook"
      PROVE  \/ job'[s] = "forgotten" \/ f \in jobDone'[s]
             \/ us'[u] = s /\ uf'[u] = f /\ upc'[u] = "fileHook"
  <2>1. CASE ReportFile(u)
    <3>1. CASE job[s] = "forgotten"
      BY <3>1, ForgottenStays
    <3>2. CASE job[s] # "forgotten"
      BY <1>5, <2>1, <3>2 DEF ReportFile, TypeOK
    <3> QED
      BY <3>1, <3>2
  <2>2. CASE ~ReportFile(u)
    <3>1. AnyUploadStep(u) => FALSE
      BY <1>5, <2>2
      DEF AnyUploadStep, UploadStep, BodyStep, StartUpload, CannotOpen, Claim, OpenPart,
          NotePart, Chunk, EndOfBody, StreamError, Rename, MarkDone, FailFile, Cleanup,
          WriteResult, ReportResult, Move
    <3>2. UNCHANGED upVars \/ \E v \in Upload : v # u /\ AnyUploadStep(v)
      BY <3>1, NextSteps, SessionFrame, CancelFrame DEF OutsiderCreates, vars
    <3> QED
      BY <1>5, <3>2, OthersStand DEF upVars
  <2> QED
    BY <2>1, <2>2
<1>6. ASSUME NEW u \in Upload, MarkDone(u), <<s, f>> \in fileDone', <<s, f>> \notin fileDone
      PROVE  us'[u] = s /\ uf'[u] = f /\ upc'[u] = "fileHook"
  BY <1>6 DEF MarkDone, Move, TypeOK
<1>7. CASE <<s, f>> \in fileDone
  BY <1>3, <1>4, <1>5, <1>7, ForgottenStays DEF FilesShown
<1>8. CASE <<s, f>> \notin fileDone
  BY <1>4, <1>6, <1>8, FileDoneGrows
<1> QED
  BY <1>7, <1>8

LEMMA CalledOffStep ==
  ASSUME TypeOK, Unstarted, CalledOff, [Next]_vars
  PROVE  CalledOff'
<1>n. None \notin Session \union {Cancelled} /\ Accepted # Cancelled /\ Declined # Cancelled
  BY ReceiveAssumption DEF ReceiveAssumption, Terminal, Accepted, Declined, Cancelled
<1>1. \A s \in Session, c \in Canceller : cs[c] = s => cs'[c] = s
  BY <1>n, RequestsKept DEF Unstarted
<1>2. ASSUME NEW r \in Session, SessionStep(r)
      PROVE  CalledOff'
  <2>1. UNCHANGED <<ctxDone, cVars>> /\ \A s \in Session : gone[s] => gone'[s]
    BY <1>2 DEF SessionStep, Offer, PrepareStep, SenderGoes, Forget, Decide, Announce,
       TakeDecision, Timeout, SeeCancel, Conclude, WriteVerdict, ReportVerdict, Advance,
       prepVars, TypeOK
  <2>2. \A s \in Session : verdict'[s] = verdict[s] \/ verdict'[s] # Cancelled \/ ctxDone[s] \/ gone[s]
    BY <1>n, <1>2 DEF SessionStep, Offer, PrepareStep, SenderGoes, Forget, Decide, Announce,
       TakeDecision, Timeout, SeeCancel, Conclude, WriteVerdict, ReportVerdict, Advance,
       prepVars, TypeOK
  <2> QED
    BY <2>1, <2>2 DEF CalledOff, cVars
<1>3. ASSUME NEW u \in Upload, AnyUploadStep(u)
      PROVE  CalledOff'
  BY <1>3, UploadFrame DEF CalledOff, prepVars, cVars
<1>4. ASSUME NEW c \in Canceller, AnyCancelStep(c)
      PROVE  CalledOff'
  <2>1. UNCHANGED <<verdict, gone>>
    BY <1>4, CancelFrame
  <2>2. \A s \in Session : ctxDone'[s] = ctxDone[s] \/ (cs'[c] = s /\ ctxDone'[s])
    BY <1>4 DEF AnyCancelStep, CancelStep, StartCancel, CancelCleanup, WriteCancelled,
       ReportCancelled, CancelMove, prepVars, TypeOK
  <2> QED
    BY <1>1, <2>1, <2>2 DEF CalledOff
<1>5. CASE UNCHANGED vars \/ \E p \in Path : OutsiderCreates(p)
  BY <1>5 DEF CalledOff, OutsiderCreates, vars, prepVars, cVars
<1> QED
  BY <1>2, <1>3, <1>4, <1>5, NextSteps

-----------------------------------------------------------------------------
(* The theorems.                                                           *)

LEMMA OutcomeStep ==
  ASSUME TypeOK, Started, OutcomeInv, [Next]_vars
  PROVE  OutcomeInv'
BY UnstartedStep, EntitledStep, UndoneStep, EnteredStep, AwaitedStep, FollowedStep,
   FilesShownStep, CalledOffStep
DEF OutcomeInv

LEMMA OutcomeInit ==
  ASSUME Init
  PROVE  OutcomeInv /\ Tracked
<1> USE ReceiveAssumption DEF Init, ReceiveAssumption
<1>1. Unstarted /\ Tracked /\ Undone
  BY DEF Unstarted, Tracked, Undone
<1>2. Entitled
  BY DEF Entitled, AllDone, Terminal, Done, Failed
<1>3. Entered /\ Awaited /\ Followed /\ FilesShown /\ CalledOff
  BY DEF Entered, Awaited, Followed, FilesShown, CalledOff, Terminal, Cancelled
<1> QED
  BY <1>1, <1>2, <1>3 DEF OutcomeInv

(* What is still to be reported of a session holds throughout, whatever    *)
(* the names on the disk are.                                              *)
THEOREM OutcomeInvariant == Spec => [](TypeOK /\ Started /\ OutcomeInv)
<1> DEFINE Inv == TypeOK /\ Started /\ Chosen /\ Drawn /\ OutcomeInv
<1>1. Init => Inv
  BY InitHolds, OutcomeInit DEF ReceiveInv
<1>2. Inv /\ [Next]_vars => Inv'
  BY TypedStep, StartedStep, ChosenStep, DrawnStep, OutcomeStep
<1>3. Inv => TypeOK /\ Started /\ OutcomeInv
  OBVIOUS
<1> QED
  BY <1>1, <1>2, <1>3, PTL DEF Spec

(* Once the requests of an undisturbed session are over, the job list      *)
(* shows its state and its files.                                          *)
THEOREM OutcomeTold == Spec => []JobTellsTheOutcome
<1>1. TypeOK /\ Started /\ OutcomeInv => JobTellsTheOutcome
  <2> SUFFICES ASSUME OutcomeInv, NEW s \in Session, Quiet(s), prep[s] = "answered",
                      SentOnce(s), \A c \in Canceller : cs[c] # s, job[s] # "forgotten"
               PROVE  /\ job[s] = JobState(state[s])
                      /\ \A f \in File : f \in jobDone[s] <=> <<s, f>> \in fileDone
    BY DEF JobTellsTheOutcome
  <2>1. \A u \in Upload : us[u] = s => upc[u] = "over"
    BY DEF Quiet
  <2>2. job[s] = JobState(state[s])
    BY <2>1 DEF OutcomeInv, Followed, Undisturbed
  <2>3. \A f \in File : f \in jobDone[s] <=> <<s, f>> \in fileDone
    BY <2>1 DEF OutcomeInv, FilesShown
  <2> QED
    BY <2>2, <2>3
<1> QED
  BY <1>1, OutcomeInvariant, PTL

(* A session whose requests are over has left no partial on any share,     *)
(* however each of its uploads ended.                                      *)
THEOREM NoPartialsLeft == PartialsApart => (Spec => []NoOrphanPartials)
<1> SUFFICES ASSUME PartialsApart
             PROVE  Spec => []NoOrphanPartials
  OBVIOUS
<1> DEFINE Inv == TypeOK /\ ReceiveInv /\ OutcomeInv
<1>1. Init => Tracked
  BY OutcomeInit
<1>2. Inv /\ Tracked /\ [Next]_vars => Tracked'
  BY TrackedStep DEF OutcomeInv
<1>3. Inv /\ Tracked => NoOrphanPartials
  <2> SUFFICES ASSUME TypeOK, ReceiveInv, Tracked, NEW s \in Session, Quiet(s), SentOnce(s),
                      NEW p \in Finals, NEW u \in Upload, disk[PartOf[p]].by = u, us[u] = s
               PROVE  FALSE
    BY DEF NoOrphanPartials
  <2>1. upc[u] = "over" /\ us[u] # None
    BY ReceiveAssumption DEF Quiet, ReceiveAssumption
  <2>2. PartOf[p] \in Path
    BY ReceiveAssumption DEF ReceiveAssumption
  <2>3. PartOf[p] = final[u]
    BY <2>1, <2>2 DEF Tracked, TrackedBy
  <2>4. final[u] \in Finals
    BY <2>2, ClaimIsFinal DEF ReceiveInv, OnDisk, Located
  <2> QED
    BY <2>3, <2>4 DEF PartialsApart
<1>4. Spec => [](TypeOK /\ ReceiveInv) /\ []OutcomeInv
  BY InvariantHolds, OutcomeInvariant, PTL
<1> QED
  BY <1>1, <1>2, <1>3, <1>4, PTL DEF Spec
=============================================================================
