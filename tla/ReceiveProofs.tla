--------------------------- MODULE ReceiveProofs ---------------------------
(***************************************************************************)
(* Proofs about Receive, for any number of sessions, files, uploads and    *)
(* cancel requests.  ReceiveInv is the inductive invariant: what the       *)
(* goroutines know about each other between their steps.                   *)
(***************************************************************************)
EXTENDS Receive, TLAPS

(* A request that was let in has its session, file and destination.        *)
Started ==
  /\ \A u \in Upload : upc[u] # "idle" =>
       /\ us[u] \in Session /\ uf[u] \in File
       /\ prep[us[u]] = "answered" /\ verdict[us[u]] = Accepted
  /\ \A u \in Upload :
       /\ upc[u] \in {"idle", "checked"} => final[u] = None
       /\ upc[u] \in {"claimed", "opened", "stream", "rename", "placed"} => final[u] # None
       /\ final[u] # None => upc[u] # "idle"
  /\ \A c \in Canceller : cpc[c] # "idle" => cs[c] \in Session
  /\ \A u \in Upload : upc[u] = "idle" => want[u] = None
  /\ \A s \in Session : prep[s] \in {"write", "report"} => verdict[s] # None
  /\ \A u \in Upload : upc[u] \in {"cleanup", "write", "report"} => want[u] # None

(* The destination is one the user or the dropbox setting chose.           *)
Chosen ==
  /\ \A s \in Session : decision[s] \in Share => decision[s] \in acked[s]
  /\ \A s \in Session : verdict[s] = Accepted => dest[s] \in Share /\ dest[s] \in acked[s] \union Dropbox

(* A claimed name is a candidate of its upload, is claimed once, and stays *)
(* in m.inProgress until the upload's data has it.                         *)
Names(u) == Candidate[<<us[u], uf[u], dest[us[u]]>>]
Drawn ==
  \A u \in Upload : final[u] # None => \E k \in DOMAIN Names(u) : final[u] = Names(u)[k]
Claimed ==
  /\ \A u \in Upload : final[u] # None =>
       final[u] \in inProgress \/ disk[final[u]].by = u
  /\ \A u, v \in Upload : final[u] # None /\ final[u] = final[v] => u = v

(* Partials are where partPath and the claims say, nobody else's data is   *)
(* moved, and what an upload has under its final name is complete.         *)
PartsNamed ==
  \A x \in Session \X File : partPath[x] # None => \E p \in Finals : partPath[x] = PartOf[p]
Unowned ==
  /\ \A p \in Path : disk[p].by = None => disk[p] = Absent
  /\ \A p \in Path : disk[p].by = Outsider => p \in ForeignPath
Located ==
  \A p \in Path, u \in Upload : disk[p].by = u =>
    /\ final[u] # None
    /\ p = PartOf[final[u]] \/ (p = final[u] /\ disk[p].len = Size[uf[u]])
ProgressOf(u) ==
  /\ upc[u] \in {"claimed", "opened", "stream", "rename"} => disk[final[u]].by # u
  /\ upc[u] \in {"checked", "claimed", "opened"} => got[u] = 0
  /\ upc[u] = "idle" => got[u] = 0
  /\ upc[u] \in {"opened", "stream", "rename"} /\ disk[PartOf[final[u]]].by = u =>
       disk[PartOf[final[u]]].len = got[u]
  /\ upc[u] = "rename" => got[u] = Size[uf[u]]
  /\ upc[u] = "placed" => disk[final[u]].by = u
Progress == \A u \in Upload : ProgressOf(u)
OnDisk == PartsNamed /\ Unowned /\ Located /\ Progress

(* What is reported done is done.                                          *)
Reported ==
  /\ \A s \in Session, f \in File : <<s, f>> \in fileDone => Stored(s, f)
  /\ \A u \in Upload : want[u] = Done => AllDone(us[u], fileDone)
  /\ \A s \in Session : state[s] = Done \/ job[s] = Done => AllDone(s, fileDone)

ReceiveInv == Started /\ Chosen /\ Drawn /\ Claimed /\ OnDisk /\ Reported

-----------------------------------------------------------------------------
(* The names claimFinalPath tries are places on the disk.                  *)
LEMMA CandidateIsFinal ==
  ASSUME NEW s \in Session, NEW f \in File, NEW d \in Share,
         NEW k \in DOMAIN Candidate[<<s, f, d>>]
  PROVE  Candidate[<<s, f, d>>][k] \in Finals
<1>1. <<s, f, d>> \in Session \X File \X Share
  OBVIOUS
<1>2. Candidate[<<s, f, d>>] \in Seq(Path) /\ <<s, f, d>> \in DOMAIN Candidate
  BY <1>1, ReceiveAssumption DEF ReceiveAssumption
<1>3. Candidate[<<s, f, d>>][k] \in Path
  BY <1>2
<1> QED
  BY <1>2, <1>3 DEF Finals

(* What a claim tells of its upload.                                       *)
LEMMA ClaimIsFinal ==
  ASSUME TypeOK, Started, Chosen, Drawn, NEW u \in Upload, final[u] # None
  PROVE  /\ us[u] \in Session /\ uf[u] \in File
         /\ final[u] \in Finals /\ final[u] \in Path
         /\ PartOf[final[u]] \in Path
<1>1. us[u] \in Session /\ uf[u] \in File /\ dest[us[u]] \in Share
  BY DEF Started, Chosen
<1>2. PICK k \in DOMAIN Names(u) : final[u] = Names(u)[k]
  BY DEF Drawn
<1>3. final[u] \in Finals
  BY <1>1, <1>2, CandidateIsFinal DEF Names
<1> QED
  BY <1>1, <1>3, ReceiveAssumption DEF ReceiveAssumption, Finals

(* What claimFinalPath takes: a candidate neither claimed nor on the disk. *)
LEMMA ClaimTakes ==
  ASSUME TypeOK, Started, Chosen, NEW u \in Upload, Claim(u)
  PROVE  \E p \in Finals \intersect Path :
           /\ \E k \in DOMAIN Names(u) : p = Names(u)[k]
           /\ p \notin inProgress /\ disk[p] = Absent
           /\ final' = [final EXCEPT ![u] = p]
           /\ inProgress' = inProgress \union {p}
<1>1. us[u] \in Session /\ uf[u] \in File /\ dest[us[u]] \in Share
  BY DEF Claim, Move, Started, Chosen
<1>2. PICK k \in DOMAIN Names(u) :
        /\ ~Taken(Names(u)[k])
        /\ final' = [final EXCEPT ![u] = Names(u)[k]]
        /\ inProgress' = inProgress \union {Names(u)[k]}
  BY DEF Claim, Names
<1>3. Names(u)[k] \in Finals
  BY <1>1, CandidateIsFinal DEF Names
<1> QED
  BY <1>2, <1>3 DEF Taken, Finals

(* One chunk more is still content, of the same upload.                    *)
LEMMA OneChunkMore ==
  ASSUME NEW d \in Content
  PROVE  /\ [d EXCEPT !.len = @ + 1] \in Content
         /\ [d EXCEPT !.len = @ + 1] = [by |-> d.by, len |-> d.len + 1]
BY DEF Content

(* Every step keeps the types; for the steps of a request it takes that    *)
(* the request knows its session and file.                                 *)
LEMMA SessionTyped ==
  ASSUME TypeOK, Started, NEW s \in Session,
         \/ Offer(s) \/ PrepareStep(s) \/ SenderGoes(s) \/ Forget(s)
         \/ \E d \in Share \union {Decline} : Decide(s, d)
  PROVE  TypeOK'
<1> USE DEF TypeOK, Advance, fileVars, upVars, cVars, jobVars
<1>1. CASE Offer(s)
  BY <1>1 DEF Offer
<1>2. CASE Announce(s)
  <2>1. job' \in [Session -> {None, "awaiting-accept", "receiving", "forgotten"} \union Terminal]
    BY <1>2 DEF Announce
  <2>2. prep' = [prep EXCEPT ![s] = "waiting"]
    BY <1>2 DEF Announce
  <2> QED
    BY <1>2, <2>1, <2>2 DEF Announce
<1>3. CASE TakeDecision(s)
  <2>1. CASE Conclude(s, Declined, None)
    BY <1>3, <2>1 DEF TakeDecision, Conclude
  <2>2. CASE decision[s] \in Share /\ Conclude(s, Accepted, decision[s])
    BY <1>3, <2>2 DEF TakeDecision, Conclude
  <2> QED
    BY <1>3, <2>1, <2>2 DEF TakeDecision
<1>4. CASE Timeout(s)
  <2>1. CASE Conclude(s, Declined, None)
    BY <1>4, <2>1 DEF Timeout, Conclude
  <2>2. ASSUME NEW d \in Dropbox, Conclude(s, Accepted, d)
        PROVE  TypeOK'
    <3>1. d \in Share
      BY ReceiveAssumption DEF ReceiveAssumption
    <3> QED
      BY <1>4, <2>2, <3>1 DEF Timeout, Conclude
  <2> QED
    BY <1>4, <2>1, <2>2 DEF Timeout
<1>5. CASE SeeCancel(s)
  BY <1>5 DEF SeeCancel, Conclude
<1>6. CASE WriteVerdict(s)
  BY <1>6 DEF Started, WriteVerdict, SetState, Terminal
<1>7. CASE ReportVerdict(s)
  BY <1>7 DEF Started, ReportVerdict, Report, JobState, Terminal
<1>8. CASE SenderGoes(s)
  BY <1>8 DEF SenderGoes
<1>9. CASE Forget(s)
  BY <1>9 DEF Forget, prepVars
<1>10. CASE \E d \in Share \union {Decline} : Decide(s, d)
  BY <1>10 DEF Decide
<1> QED
  BY <1>1, <1>2, <1>3, <1>4, <1>5, <1>6, <1>7, <1>8, <1>9, <1>10 DEF PrepareStep

LEMMA UploadTyped ==
  ASSUME TypeOK, Started, Chosen, Drawn, NEW u \in Upload,
         \/ UploadStep(u) \/ BodyStep(u)
         \/ \E s \in Session, f \in File : StartUpload(u, s, f)
  PROVE  TypeOK'
<1> USE ReceiveAssumption
<1> USE DEF TypeOK, ReceiveAssumption, Move, prepVars, fileVars, cVars, jobVars
<1>1. CASE \E s \in Session, f \in File : StartUpload(u, s, f)
  <2>1. PICK s \in Session, f \in File : StartUpload(u, s, f)
    BY <1>1
  <2>2. us' \in [Upload -> Session \union {None}]
    BY <2>1 DEF StartUpload
  <2>3. uf' \in [Upload -> File \union {None}]
    BY <2>1 DEF StartUpload
  <2>4. upc' = [upc EXCEPT ![u] = "checked"]
    BY <2>1 DEF StartUpload
  <2> QED
    BY <2>1, <2>2, <2>3, <2>4 DEF StartUpload
<1>2. CASE CannotOpen(u)
  <2>1. PICK from \in {"checked", "claimed"} : Move(u, from, "cleanup")
    BY <1>2 DEF CannotOpen
  <2> QED
    BY <1>2, <2>1 DEF CannotOpen
<1>3. CASE Claim(u)
  <2>1. PICK p \in Path : final' = [final EXCEPT ![u] = p] /\ inProgress' = inProgress \union {p}
    BY <1>3, ClaimTakes
  <2> QED
    BY <1>3, <2>1 DEF Claim
<1>4. CASE OpenPart(u)
  BY <1>4 DEF OpenPart, Content
<1>5. CASE NotePart(u)
  <2>1. us[u] \in Session /\ uf[u] \in File /\ PartOf[final[u]] \in Path
    BY <1>5, ClaimIsFinal DEF NotePart, Started
  <2>2. partPath' \in [Session \X File -> Path \union {None}]
    BY <1>5, <2>1 DEF NotePart
  <2> QED
    BY <1>5, <2>2 DEF NotePart
<1>6. CASE Chunk(u)
  <2>1. PartOf[final[u]] \in Path
    BY <1>6, ClaimIsFinal DEF Chunk, Started
  <2>2. [disk[PartOf[final[u]]] EXCEPT !.len = @ + 1] \in Content
    BY <2>1, OneChunkMore
  <2>3. disk' \in [Path -> Content]
    BY <1>6, <2>1, <2>2 DEF Chunk
  <2>4. PICK to \in {"stream", "failFile"} : Move(u, "stream", to)
    BY <1>6 DEF Chunk
  <2> QED
    BY <1>6, <2>3, <2>4 DEF Chunk
<1>7. CASE EndOfBody(u)
  <2>1. PICK to \in {"rename", "failFile"} : Move(u, "stream", to)
    BY <1>7 DEF EndOfBody
  <2> QED
    BY <1>7, <2>1 DEF EndOfBody
<1>8. CASE StreamError(u)
  <2>1. PICK from \in {"stream", "rename"} : Move(u, from, "failFile")
    BY <1>8 DEF StreamError
  <2> QED
    BY <1>8, <2>1 DEF StreamError
<1>9. CASE Rename(u)
  <2>1. final[u] \in Path /\ PartOf[final[u]] \in Path
    BY <1>9, ClaimIsFinal DEF Rename, Started
  <2>2. Absent \in Content
    BY DEF Absent, Content
  <2>3. disk' \in [Path -> Content]
    BY <1>9, <2>1, <2>2 DEF Rename
  <2> QED
    BY <1>9, <2>3 DEF Rename
<1>10. CASE MarkDone(u)
  BY <1>10 DEF MarkDone, Started
<1>11. CASE ReportFile(u)
  <2>1. us[u] \in Session /\ uf[u] \in File
    BY <1>11 DEF ReportFile, Started
  <2>2. jobDone' \in [Session -> SUBSET File]
    BY <1>11, <2>1 DEF ReportFile
  <2> QED
    BY <1>11, <2>2 DEF ReportFile
<1>12. CASE FailFile(u)
  <2>1. us[u] \in Session /\ uf[u] \in File
    BY <1>12 DEF FailFile, Started
  <2>2. disk' \in [Path -> Content]
    BY <1>12 DEF FailFile, Remove, Absent, Content
  <2>3. partPath' \in [Session \X File -> Path \union {None}]
    BY <1>12, <2>1 DEF FailFile
  <2> QED
    BY <1>12, <2>2, <2>3 DEF FailFile
<1>13. CASE Cleanup(u)
  BY <1>13 DEF Cleanup, CleanupOutcomes, Remove, Absent, Content
<1>14. CASE WriteResult(u)
  BY <1>14 DEF WriteResult, SetState, Started, Terminal
<1>15. CASE ReportResult(u)
  BY <1>15 DEF ReportResult, Report, JobState, Started, Terminal
<1> QED
  BY <1>1, <1>2, <1>3, <1>4, <1>5, <1>6, <1>7, <1>8, <1>9, <1>10,
     <1>11, <1>12, <1>13, <1>14, <1>15 DEF UploadStep, BodyStep

LEMMA CancelTyped ==
  ASSUME TypeOK, NEW c \in Canceller,
         CancelStep(c) \/ \E s \in Session : StartCancel(c, s)
  PROVE  TypeOK'
<1> USE DEF TypeOK, CancelMove, prepVars, fileVars, upVars, jobVars
<1>1. CASE \E s \in Session : StartCancel(c, s)
  BY <1>1 DEF StartCancel
<1>2. CASE CancelCleanup(c)
  BY <1>2, ReceiveAssumption
  DEF ReceiveAssumption, CancelCleanup, CleanupOutcomes, Remove, Absent, Content
<1>3. CASE WriteCancelled(c)
  BY <1>3 DEF WriteCancelled, SetState, Terminal
<1>4. CASE ReportCancelled(c)
  BY <1>4 DEF ReportCancelled, Report, JobState, Terminal
<1> QED
  BY <1>1, <1>2, <1>3, <1>4 DEF CancelStep

-----------------------------------------------------------------------------
(* The three kinds of goroutine, and what each of them leaves alone.       *)
SessionStep(s) ==
  \/ Offer(s) \/ PrepareStep(s) \/ SenderGoes(s) \/ Forget(s)
  \/ \E d \in Share \union {Decline} : Decide(s, d)
AnyUploadStep(u) ==
  \/ UploadStep(u) \/ BodyStep(u)
  \/ \E s \in Session, f \in File : StartUpload(u, s, f)
AnyCancelStep(c) == CancelStep(c) \/ \E s \in Session : StartCancel(c, s)

LEMMA NextSteps ==
  ASSUME Next
  PROVE  \/ \E s \in Session : SessionStep(s)
         \/ \E u \in Upload : AnyUploadStep(u)
         \/ \E c \in Canceller : AnyCancelStep(c)
         \/ \E p \in Path : OutsiderCreates(p)
         \/ UNCHANGED vars
BY DEF Next, SessionStep, AnyUploadStep, AnyCancelStep, Rest

LEMMA SessionFrame ==
  ASSUME NEW s \in Session, SessionStep(s)
  PROVE  UNCHANGED <<fileVars, upVars, cVars>>
BY DEF SessionStep, Offer, PrepareStep, SenderGoes, Forget, Decide, Announce,
       TakeDecision, Timeout, SeeCancel, Conclude, WriteVerdict, ReportVerdict,
       Advance

LEMMA UploadFrame ==
  ASSUME NEW u \in Upload, AnyUploadStep(u)
  PROVE  UNCHANGED <<prepVars, cVars>>
BY DEF AnyUploadStep, UploadStep, BodyStep, StartUpload, CannotOpen, Claim,
       OpenPart, NotePart, Chunk, EndOfBody, StreamError, Rename, MarkDone,
       ReportFile, FailFile, Cleanup, WriteResult, ReportResult, Move

LEMMA CancelFrame ==
  ASSUME NEW c \in Canceller, AnyCancelStep(c)
  PROVE  UNCHANGED <<prep, verdict, dest, decision, gone, acked, fileDone,
                     partPath, inProgress, upVars, jobDone>>
BY DEF AnyCancelStep, CancelStep, StartCancel, CancelCleanup, WriteCancelled,
       ReportCancelled, CancelMove, prepVars, fileVars, jobVars

(* The types hold throughout.                                              *)
LEMMA TypedStep ==
  ASSUME TypeOK, Started, Chosen, Drawn, [Next]_vars
  PROVE  TypeOK'
<1>1. CASE \E s \in Session : SessionStep(s)
  BY <1>1, SessionTyped DEF SessionStep
<1>2. CASE \E u \in Upload : AnyUploadStep(u)
  BY <1>2, UploadTyped DEF AnyUploadStep
<1>3. CASE \E c \in Canceller : AnyCancelStep(c)
  BY <1>3, CancelTyped DEF AnyCancelStep
<1>4. CASE \E p \in Path : OutsiderCreates(p)
  BY <1>4 DEF TypeOK, OutsiderCreates, Foreign, Content, prepVars, upVars, cVars, jobVars
<1>5. CASE UNCHANGED vars
  BY <1>5 DEF TypeOK, vars, prepVars, fileVars, upVars, cVars, jobVars
<1> QED
  BY <1>1, <1>2, <1>3, <1>4, <1>5, NextSteps

-----------------------------------------------------------------------------
(* Started.                                                                *)
LEMMA StartedStep ==
  ASSUME TypeOK, Started, Chosen, [Next]_vars
  PROVE  Started'
<1>1. ASSUME NEW s \in Session, SessionStep(s)
      PROVE  Started'
  <2>1. UNCHANGED <<upVars, cVars>>
    BY <1>1, SessionFrame
  <2>2. \A r \in Session : prep[r] = "answered" => UNCHANGED <<prep[r], verdict[r]>>
    BY <1>1 DEF TypeOK, SessionStep, Offer, PrepareStep, SenderGoes, Forget,
       Decide, Announce, TakeDecision, Timeout, SeeCancel, Conclude, WriteVerdict,
       ReportVerdict, Advance, prepVars
  <2>3. \A r \in Session : prep'[r] \in {"write", "report"} => verdict'[r] # None
    BY <1>1, ReceiveAssumption
    DEF TypeOK, SessionStep, Offer, PrepareStep, SenderGoes, Forget,
       Decide, Announce, TakeDecision, Timeout, SeeCancel, Conclude, WriteVerdict,
       ReportVerdict, Advance, prepVars, Started, Terminal, ReceiveAssumption
  <2> QED
    BY <2>1, <2>2, <2>3 DEF Started, upVars, cVars
<1>2. ASSUME NEW u \in Upload, AnyUploadStep(u)
      PROVE  Started'
  <2>0. Claim(u) => \E p \in Path : final' = [final EXCEPT ![u] = p]
    BY ClaimTakes
  <2> USE <1>2, ReceiveAssumption DEF TypeOK, Started, Move, prepVars, cVars, ReceiveAssumption
  <2>1. CASE \E s \in Session, f \in File : StartUpload(u, s, f)
    BY <2>1 DEF StartUpload, HasTokens
  <2>2. CASE CannotOpen(u)
    BY <2>2 DEF CannotOpen, Terminal
  <2>3. CASE Claim(u)
    <3>1. PICK p \in Path : final' = [final EXCEPT ![u] = p]
      BY <2>0, <2>3
    <3>2. UNCHANGED <<us, uf, want>> /\ upc[u] = "checked" /\ upc' = [upc EXCEPT ![u] = "claimed"]
      BY <2>3 DEF Claim
    <3>3. \A v \in Upload :
            /\ upc'[v] \in {"idle", "checked"} => final'[v] = None
            /\ upc'[v] \in {"claimed", "opened", "stream", "rename", "placed"} => final'[v] # None
            /\ final'[v] # None => upc'[v] # "idle"
      BY <3>1, <3>2
    <3>4. \A v \in Upload : upc'[v] = "idle" => want'[v] = None
      BY <3>2
    <3>5. \A v \in Upload : upc'[v] # "idle" => upc[v] # "idle"
      BY <3>2
    <3>6. \A v \in Upload : upc'[v] \in {"cleanup", "write", "report"} => want'[v] # None
      BY <3>2
    <3>7. UNCHANGED <<prepVars, cVars>>
      BY <2>3 DEF Claim
    <3> QED
      BY <3>2, <3>3, <3>4, <3>5, <3>6, <3>7
  <2>4. CASE OpenPart(u)
    BY <2>4 DEF OpenPart
  <2>5. CASE NotePart(u)
    BY <2>5 DEF NotePart
  <2>6. CASE Chunk(u)
    BY <2>6 DEF Chunk
  <2>7. CASE EndOfBody(u)
    BY <2>7 DEF EndOfBody
  <2>8. CASE StreamError(u)
    BY <2>8 DEF StreamError
  <2>9. CASE Rename(u)
    BY <2>9 DEF Rename
  <2>10. CASE MarkDone(u)
    BY <2>10 DEF MarkDone
  <2>11. CASE ReportFile(u)
    BY <2>11 DEF ReportFile, Terminal
  <2>12. CASE FailFile(u)
    BY <2>12 DEF FailFile, Terminal
  <2>13. CASE Cleanup(u)
    BY <2>13 DEF Cleanup, CleanupOutcomes
  <2>14. CASE WriteResult(u)
    BY <2>14 DEF WriteResult
  <2>15. CASE ReportResult(u)
    BY <2>15 DEF ReportResult
  <2> QED
    BY <2>1, <2>2, <2>3, <2>4, <2>5, <2>6, <2>7, <2>8, <2>9, <2>10, <2>11, <2>12, <2>13, <2>14, <2>15
    DEF AnyUploadStep, UploadStep, BodyStep
<1>3. ASSUME NEW c \in Canceller, AnyCancelStep(c)
      PROVE  Started'
  <2>1. \A d \in Canceller : cpc'[d] # "idle" => cs'[d] \in Session
    BY <1>3 DEF TypeOK, Started, AnyCancelStep, StartCancel, CancelStep, CancelCleanup,
       WriteCancelled, ReportCancelled, CancelMove
  <2> QED
    BY <1>3, <2>1, CancelFrame DEF Started, upVars
<1>4. CASE UNCHANGED vars \/ \E p \in Path : OutsiderCreates(p)
  BY <1>4 DEF Started, OutsiderCreates, vars, prepVars, upVars, cVars
<1> QED
  BY <1>1, <1>2, <1>3, <1>4, NextSteps

-----------------------------------------------------------------------------
(* Chosen: only Prepare and Decide touch the choice.                       *)
LEMMA ChosenStep ==
  ASSUME TypeOK, Started, Chosen, [Next]_vars
  PROVE  Chosen'
<1>1. ASSUME NEW s \in Session, SessionStep(s)
      PROVE  Chosen'
  <2>1. ASSUME NEW st, NEW share, Conclude(s, st, share),
               st = Accepted => share \in Share /\ share \in acked[s] \union Dropbox
        PROVE  /\ acked' = acked
               /\ \A r \in Session : verdict'[r] = Accepted =>
                    dest'[r] \in Share /\ dest'[r] \in acked'[r] \union Dropbox
    BY <2>1 DEF TypeOK, Chosen, Conclude, Advance
  <2>2. CASE TakeDecision(s)
    <3>1. decision[s] \in Share => decision[s] \in acked[s]
      BY DEF Chosen
    <3>2. decision[s] # Decline => decision[s] \in Share
      BY <2>2 DEF TypeOK, TakeDecision
    <3>3. \A r \in Session : decision'[r] \in Share => decision'[r] \in acked[r]
      BY <2>2, ReceiveAssumption DEF TypeOK, Chosen, TakeDecision, ReceiveAssumption
    <3> QED
      BY <2>1, <2>2, <3>1, <3>2, <3>3 DEF TakeDecision, Chosen, Accepted, Declined
  <2>3. CASE Timeout(s)
    <3>1. \A d \in Dropbox : d \in Share
      BY ReceiveAssumption DEF ReceiveAssumption
    <3> QED
      BY <2>1, <2>3, <3>1 DEF Timeout, Chosen, Accepted, Declined
  <2>4. CASE SeeCancel(s)
    BY <2>1, <2>4 DEF SeeCancel, Chosen, Accepted, Cancelled
  <2>5. CASE \E d \in Share \union {Decline} : Decide(s, d)
    BY <2>5, ReceiveAssumption DEF TypeOK, Chosen, Decide, ReceiveAssumption
  <2>6. CASE \/ Offer(s) \/ Announce(s) \/ WriteVerdict(s) \/ ReportVerdict(s)
             \/ SenderGoes(s) \/ Forget(s)
    BY <2>6 DEF Chosen, Offer, Announce, WriteVerdict, ReportVerdict, SenderGoes,
       Forget, Advance, prepVars
  <2> QED
    BY <1>1, <2>2, <2>3, <2>4, <2>5, <2>6 DEF SessionStep, PrepareStep
<1>2. ASSUME NEW u \in Upload, AnyUploadStep(u)
      PROVE  Chosen'
  BY <1>2, UploadFrame DEF Chosen, prepVars
<1>3. ASSUME NEW c \in Canceller, AnyCancelStep(c)
      PROVE  Chosen'
  BY <1>3, CancelFrame DEF Chosen
<1>4. CASE UNCHANGED vars \/ \E p \in Path : OutsiderCreates(p)
  BY <1>4 DEF Chosen, OutsiderCreates, vars, prepVars
<1> QED
  BY <1>1, <1>2, <1>3, <1>4, NextSteps

-----------------------------------------------------------------------------
(* Claims and the disk, whatever the names are.                            *)

(* An upload's session, file and destination stay as they are while it     *)
(* has a claim, so the claim stays one of its candidates.                  *)
LEMMA NamesKept ==
  ASSUME TypeOK, Started, [Next]_vars, NEW v \in Upload, final[v] # None
  PROVE  Names(v)' = Names(v) /\ us'[v] = us[v] /\ uf'[v] = uf[v]
<1>1. ASSUME NEW s \in Session, SessionStep(s)
      PROVE  Names(v)' = Names(v) /\ us'[v] = us[v] /\ uf'[v] = uf[v]
  <2>1. UNCHANGED upVars
    BY <1>1, SessionFrame
  <2>2. \A r \in Session : prep[r] = "answered" => dest'[r] = dest[r]
    BY <1>1 DEF TypeOK, SessionStep, Offer, PrepareStep, SenderGoes, Forget,
       Decide, Announce, TakeDecision, Timeout, SeeCancel, Conclude, WriteVerdict,
       ReportVerdict, Advance, prepVars
  <2> QED
    BY <2>1, <2>2 DEF Names, Started, upVars
<1>2. ASSUME NEW u \in Upload, AnyUploadStep(u)
      PROVE  Names(v)' = Names(v) /\ us'[v] = us[v] /\ uf'[v] = uf[v]
  <2>1. dest' = dest
    BY <1>2, UploadFrame DEF prepVars
  <2>2. CASE \E s \in Session, f \in File : StartUpload(u, s, f)
    <3>1. us'[v] = us[v] /\ uf'[v] = uf[v]
      BY <2>2 DEF StartUpload, Move, Started, TypeOK
    <3> QED
      BY <2>1, <3>1 DEF Names
  <2>3. CASE UploadStep(u) \/ BodyStep(u)
    <3>1. us' = us /\ uf' = uf
      BY <2>3 DEF UploadStep, BodyStep, CannotOpen, Claim, OpenPart, NotePart, Chunk,
         EndOfBody, StreamError, Rename, MarkDone, ReportFile, FailFile, Cleanup,
         WriteResult, ReportResult
    <3> QED
      BY <2>1, <3>1 DEF Names
  <2> QED
    BY <1>2, <2>2, <2>3 DEF AnyUploadStep
<1>3. ASSUME NEW c \in Canceller, AnyCancelStep(c)
      PROVE  Names(v)' = Names(v) /\ us'[v] = us[v] /\ uf'[v] = uf[v]
  BY <1>3, CancelFrame DEF Names, upVars
<1>4. CASE UNCHANGED vars \/ \E p \in Path : OutsiderCreates(p)
  BY <1>4 DEF Names, OutsiderCreates, vars, prepVars, upVars
<1> QED
  BY <1>1, <1>2, <1>3, <1>4, NextSteps

(* Claims are made by Claim and by nothing else.                           *)
LEMMA FinalKept ==
  ASSUME [Next]_vars, NEW v \in Upload, final'[v] # final[v]
  PROVE  \E u \in Upload : Claim(u)
<1>1. \A s \in Session : SessionStep(s) => final' = final
  BY SessionFrame DEF upVars
<1>2. \A c \in Canceller : AnyCancelStep(c) => final' = final
  BY CancelFrame DEF upVars
<1>3. \A u \in Upload : AnyUploadStep(u) /\ ~Claim(u) => final' = final
  BY DEF AnyUploadStep, UploadStep, BodyStep, StartUpload, CannotOpen, OpenPart,
     NotePart, Chunk, EndOfBody, StreamError, Rename, MarkDone, ReportFile, FailFile,
     Cleanup, WriteResult, ReportResult
<1>4. UNCHANGED vars \/ (\E p \in Path : OutsiderCreates(p)) => final' = final
  BY DEF OutsiderCreates, vars, upVars
<1> QED
  BY <1>1, <1>2, <1>3, <1>4, NextSteps

LEMMA DrawnStep ==
  ASSUME TypeOK, Started, Chosen, Drawn, [Next]_vars
  PROVE  Drawn'
<1>1. \A v \in Upload : final[v] # None => Names(v)' = Names(v)
  BY NamesKept
<1>2. CASE final' = final
  BY <1>1, <1>2 DEF Drawn
<1>3. ASSUME NEW u \in Upload, Claim(u)
      PROVE  Drawn'
  <2>1. PICK p \in Finals \intersect Path :
           /\ \E k \in DOMAIN Names(u) : p = Names(u)[k]
           /\ final' = [final EXCEPT ![u] = p]
    BY <1>3, ClaimTakes
  <2>2. Names(u)' = Names(u)
    BY <1>3 DEF Claim, Move, Names, prepVars
  <2> QED
    BY <1>1, <2>1, <2>2 DEF Drawn, TypeOK
<1>4. (\A v \in Upload : final'[v] = final[v]) => Drawn'
  BY <1>1 DEF Drawn
<1> QED
  BY <1>3, <1>4, FinalKept

(* A claim is given back by MarkDone and by nothing else.                  *)
LEMMA ClaimsReleased ==
  ASSUME [Next]_vars, NEW p \in inProgress, p \notin inProgress'
  PROVE  \E u \in Upload : MarkDone(u) /\ p = final[u]
<1>1. \A s \in Session : SessionStep(s) => inProgress' = inProgress
  BY SessionFrame DEF fileVars
<1>2. \A c \in Canceller : AnyCancelStep(c) => inProgress' = inProgress
  BY CancelFrame
<1>3. \A u \in Upload : MarkDone(u) => inProgress' = inProgress \ {final[u]}
  BY DEF MarkDone
<1>4. ASSUME NEW u \in Upload, AnyUploadStep(u), ~MarkDone(u)
      PROVE  inProgress \subseteq inProgress'
  <2>1. CASE Claim(u)
    BY <2>1 DEF Claim
  <2>2. CASE BodyStep(u) \/ \E s \in Session, f \in File : StartUpload(u, s, f)
    BY <2>2 DEF BodyStep, StartUpload, Chunk, EndOfBody, StreamError, fileVars
  <2>3. CASE UploadStep(u) /\ ~Claim(u)
    BY <1>4, <2>3 DEF UploadStep, CannotOpen, OpenPart, NotePart, Rename, ReportFile,
       FailFile, Cleanup, WriteResult, ReportResult, fileVars
  <2> QED
    BY <1>4, <2>1, <2>2, <2>3 DEF AnyUploadStep
<1>5. UNCHANGED vars \/ (\E q \in Path : OutsiderCreates(q)) => inProgress' = inProgress
  BY DEF OutsiderCreates, vars, fileVars
<1> QED
  BY <1>1, <1>2, <1>3, <1>4, <1>5, NextSteps

(* No cleanup deletes a file whose name is nobody's partial.               *)
LEMMA CleanupSparesPlain ==
  ASSUME PartsNamed, NEW s \in Session, NEW o \in CleanupOutcomes(s), NEW p, Plain(p)
  PROVE  p \notin o.removed
<1>1. p \notin Partials(s)
  <2>1. ASSUME NEW f \in File, partPath[<<s, f>>] # None
        PROVE  partPath[<<s, f>>] # p
    <3>1. <<s, f>> \in Session \X File
      OBVIOUS
    <3> QED
      BY <2>1, <3>1 DEF PartsNamed, Plain, PartNames
  <2> QED
    BY <2>1 DEF Partials
<1>2. o.removed \subseteq Partials(s)
  BY DEF CleanupOutcomes
<1> QED
  BY <1>1, <1>2

(* What lies under a name that is nobody's partial came there from outside *)
(* or by the rename of an upload that claimed the name, and stays.         *)
LEMMA PlainDisk ==
  ASSUME TypeOK, Started, Chosen, Drawn, PartsNamed, [Next]_vars,
         NEW p \in Path, Plain(p)
  PROVE  \/ disk'[p] = disk[p]
         \/ disk[p] = Absent /\ disk'[p] = Foreign
         \/ \E u \in Upload : /\ Rename(u) /\ p = final[u]
                              /\ disk'[p] = disk[PartOf[final[u]]]
                              /\ disk'[p] # Absent
<1>1. ASSUME NEW s \in Session, SessionStep(s)
      PROVE  disk' = disk
  BY <1>1, SessionFrame DEF fileVars
<1>2. ASSUME NEW u \in Upload, AnyUploadStep(u), disk'[p] # disk[p]
      PROVE  /\ Rename(u) /\ p = final[u]
             /\ disk'[p] = disk[PartOf[final[u]]]
             /\ disk'[p] # Absent
  <2>1. CASE OpenPart(u)
    <3>1. final[u] \in Finals
      BY <2>1, ClaimIsFinal DEF OpenPart, Move, Started
    <3> QED
      BY <1>2, <2>1, <3>1 DEF OpenPart, TypeOK, Plain, PartNames
  <2>2. CASE Chunk(u)
    <3>1. final[u] \in Finals
      BY <2>2, ClaimIsFinal DEF Chunk, Move, Started
    <3> QED
      BY <1>2, <2>2, <3>1 DEF Chunk, TypeOK, Plain, PartNames
  <2>3. CASE Rename(u)
    <3>1. final[u] \in Finals
      BY <2>3, ClaimIsFinal DEF Rename, Move, Started
    <3>2. p # PartOf[final[u]]
      BY <3>1 DEF Plain, PartNames
    <3> QED
      BY <1>2, <2>3, <3>2 DEF Rename, TypeOK
  <2>4. CASE FailFile(u)
    <3>1. <<us[u], uf[u]>> \in Session \X File
      BY <2>4 DEF FailFile, Move, Started
    <3>2. partPath[<<us[u], uf[u]>>] # p
      BY <3>1, ReceiveAssumption DEF PartsNamed, Plain, PartNames, ReceiveAssumption
    <3> QED
      BY <1>2, <2>4, <3>2 DEF FailFile, Remove
  <2>5. CASE Cleanup(u)
    <3>1. us[u] \in Session
      BY <2>5 DEF Cleanup, Started
    <3> QED
      BY <1>2, <2>5, <3>1, CleanupSparesPlain DEF Cleanup, Remove
  <2> QED
    BY <1>2, <2>1, <2>2, <2>3, <2>4, <2>5
    DEF AnyUploadStep, UploadStep, BodyStep, StartUpload, CannotOpen, Claim, NotePart,
        EndOfBody, StreamError, MarkDone, ReportFile, WriteResult, ReportResult, fileVars
<1>3. ASSUME NEW c \in Canceller, AnyCancelStep(c)
      PROVE  disk'[p] = disk[p]
  <2>1. CASE CancelCleanup(c)
    <3>1. cs[c] \in Session
      BY <2>1 DEF CancelCleanup, Started
    <3> QED
      BY <2>1, <3>1, CleanupSparesPlain DEF CancelCleanup, Remove
  <2> QED
    BY <1>3, <2>1 DEF AnyCancelStep, CancelStep, StartCancel, WriteCancelled,
       ReportCancelled, fileVars
<1>4. ASSUME NEW q \in Path, OutsiderCreates(q)
      PROVE  disk'[p] = disk[p] \/ (disk[p] = Absent /\ disk'[p] = Foreign)
  BY <1>4 DEF OutsiderCreates, TypeOK
<1>5. CASE UNCHANGED vars
  BY <1>5 DEF vars, fileVars
<1> QED
  BY <1>1, <1>2, <1>3, <1>4, <1>5, NextSteps

(* A name that is nobody's partial is claimed once, and taken from then    *)
(* on: in m.inProgress until a file has it, and the file stays.            *)
Placing(u) == upc[u] \in {"claimed", "opened", "stream", "rename"}
PlainClaim(u) ==
  /\ final[u] \in inProgress \/ disk[final[u]] # Absent
  /\ Placing(u) => disk[final[u]].by # u
  /\ upc[u] = "placed" => disk[final[u]] # Absent
  /\ \A v \in Upload : final[v] = final[u] => v = u
PlainClaims == \A u \in Upload : final[u] # None /\ Plain(final[u]) => PlainClaim(u)

(* No step touches what an upload has under such a name.                   *)
LEMMA PlainSurvives ==
  ASSUME TypeOK, Started, Chosen, Drawn, PartsNamed, PlainClaims, [Next]_vars,
         NEW w \in Upload, final[w] # None, Plain(final[w]), disk[final[w]].by = w
  PROVE  disk'[final[w]] = disk[final[w]]
<1>1. final[w] \in Path /\ PlainClaim(w)
  BY ClaimIsFinal DEF PlainClaims
<1>2. disk[final[w]] # Absent
  BY ReceiveAssumption DEF Absent, ReceiveAssumption
<1>3. ASSUME NEW u \in Upload, Rename(u), final[w] = final[u]
      PROVE  FALSE
  <2>1. u = w
    BY <1>1, <1>3 DEF PlainClaim
  <2> QED
    BY <1>1, <1>3, <2>1 DEF PlainClaim, Placing, Rename, Move
<1> QED
  BY <1>1, <1>2, <1>3, PlainDisk

(* An upload that has claimed its name goes on to its rename, or fails.    *)
LEMMA PlacingSteps ==
  ASSUME TypeOK, Started, [Next]_vars, NEW u \in Upload, final[u] # None
  PROVE  \/ upc'[u] = upc[u]
         \/ Placing(u) /\ Placing(u)' /\ ~Rename(u)
         \/ Rename(u) /\ upc'[u] = "placed"
         \/ ~Placing(u)' /\ upc'[u] # "placed"
<1>1. \A s \in Session : SessionStep(s) => upc' = upc
  BY SessionFrame DEF upVars
<1>2. \A c \in Canceller : AnyCancelStep(c) => upc' = upc
  BY CancelFrame DEF upVars
<1>3. ASSUME NEW v \in Upload, AnyUploadStep(v), v # u
      PROVE  upc'[u] = upc[u]
  BY <1>3 DEF AnyUploadStep, UploadStep, BodyStep, StartUpload, CannotOpen, Claim, OpenPart,
     NotePart, Chunk, EndOfBody, StreamError, Rename, MarkDone, ReportFile, FailFile, Cleanup,
     WriteResult, ReportResult, Move, TypeOK
<1>4. ASSUME AnyUploadStep(u)
      PROVE  \/ Placing(u) /\ Placing(u)' /\ ~Rename(u)
             \/ Rename(u) /\ upc'[u] = "placed"
             \/ ~Placing(u)' /\ upc'[u] # "placed"
  <2> USE DEF Placing, Move, TypeOK
  <2>1. CASE Rename(u)
    BY <2>1 DEF Rename
  <2>2. CASE BodyStep(u)
    BY <2>2 DEF BodyStep, Chunk, EndOfBody, StreamError, Rename
  <2>3. CASE \E s \in Session, f \in File : StartUpload(u, s, f)
    BY <2>3 DEF StartUpload
  <2>4. CASE Claim(u)
    BY <2>4 DEF Claim, Started
  <2>5. CASE OpenPart(u) \/ NotePart(u)
    BY <2>5 DEF OpenPart, NotePart, Rename
  <2>6. CASE CannotOpen(u) \/ MarkDone(u) \/ ReportFile(u) \/ FailFile(u)
    BY <2>6 DEF CannotOpen, MarkDone, ReportFile, FailFile
  <2>7. CASE Cleanup(u) \/ WriteResult(u) \/ ReportResult(u)
    BY <2>7 DEF Cleanup, WriteResult, ReportResult, CleanupOutcomes
  <2> QED
    BY <1>4, <2>1, <2>2, <2>3, <2>4, <2>5, <2>6, <2>7 DEF AnyUploadStep, UploadStep
<1>5. UNCHANGED vars \/ (\E p \in Path : OutsiderCreates(p)) => upc' = upc
  BY DEF OutsiderCreates, vars, upVars
<1> QED
  BY <1>1, <1>2, <1>3, <1>4, <1>5, NextSteps

(* Only partials of claimed names are noted.                               *)
LEMMA PartsNamedStep ==
  ASSUME TypeOK, Started, Chosen, Drawn, PartsNamed, [Next]_vars
  PROVE  PartsNamed'
<1>1. \A s \in Session : SessionStep(s) => partPath' = partPath
  BY SessionFrame DEF fileVars
<1>2. \A c \in Canceller : AnyCancelStep(c) => partPath' = partPath
  BY CancelFrame
<1>3. ASSUME NEW u \in Upload, AnyUploadStep(u)
      PROVE  PartsNamed'
  <2>1. CASE NotePart(u)
    <3>1. final[u] \in Finals
      BY <2>1, ClaimIsFinal DEF NotePart, Move, Started
    <3> QED
      BY <2>1, <3>1 DEF NotePart, PartsNamed, TypeOK
  <2>2. CASE FailFile(u)
    BY <2>2 DEF FailFile, PartsNamed, TypeOK
  <2>3. CASE ~NotePart(u) /\ ~FailFile(u)
    <3>1. partPath' = partPath
      BY <1>3, <2>3 DEF AnyUploadStep, UploadStep, BodyStep, StartUpload, CannotOpen, Claim,
         OpenPart, Chunk, EndOfBody, StreamError, Rename, MarkDone, ReportFile, Cleanup,
         WriteResult, ReportResult, fileVars
    <3> QED
      BY <3>1 DEF PartsNamed
  <2> QED
    BY <2>1, <2>2, <2>3
<1>4. UNCHANGED vars \/ (\E p \in Path : OutsiderCreates(p)) => partPath' = partPath
  BY DEF OutsiderCreates, vars, fileVars
<1>5. partPath' = partPath => PartsNamed'
  BY DEF PartsNamed
<1> QED
  BY <1>1, <1>2, <1>3, <1>4, <1>5, NextSteps

LEMMA PlainClaimsStep ==
  ASSUME TypeOK, Started, Chosen, Drawn, PartsNamed, PlainClaims, [Next]_vars
  PROVE  PlainClaims'
<1>n. None \notin Upload /\ Outsider \notin Upload
  BY ReceiveAssumption DEF ReceiveAssumption
<1>1. ASSUME NEW c \in Upload, Claim(c)
      PROVE  PlainClaims'
  <2>1. PICK p \in Finals \intersect Path :
           /\ p \notin inProgress /\ disk[p] = Absent
           /\ final' = [final EXCEPT ![c] = p]
           /\ inProgress' = inProgress \union {p}
    BY <1>1, ClaimTakes
  <2>2. disk' = disk /\ upc' = [upc EXCEPT ![c] = "claimed"]
    BY <1>1 DEF Claim, Move
  <2>3. \A v \in Upload : final[v] # None /\ Plain(final[v]) => final[v] # p
    BY <2>1 DEF PlainClaims, PlainClaim
  <2>4. final'[c] = p /\ \A v \in Upload \ {c} : final'[v] = final[v] /\ upc'[v] = upc[v]
    BY <2>1, <2>2 DEF TypeOK
  <2>5. disk[p].by = None
    BY <2>1 DEF Absent
  <2> SUFFICES ASSUME NEW u \in Upload, final'[u] # None, Plain(final'[u])
               PROVE  PlainClaim(u)'
    BY DEF PlainClaims, Plain, PartNames
  <2>6. CASE u = c
    <3>1. \A v \in Upload : final'[v] = final'[u] => v = u
      BY <2>3, <2>4, <2>6, ReceiveAssumption DEF ReceiveAssumption
    <3> QED
      BY <1>n, <2>1, <2>2, <2>4, <2>5, <2>6, <3>1 DEF PlainClaim, Placing, TypeOK
  <2>7. CASE u # c
    <3>1. final'[u] = final[u] /\ upc'[u] = upc[u] /\ PlainClaim(u) /\ final[u] # p
      BY <2>3, <2>4, <2>7 DEF PlainClaims
    <3> QED
      BY <2>1, <2>2, <2>4, <3>1 DEF PlainClaim, Placing
  <2> QED
    BY <2>6, <2>7
<1>2. ASSUME \A v \in Upload : final'[v] = final[v]
      PROVE  PlainClaims'
  <2> SUFFICES ASSUME NEW u \in Upload, final'[u] # None, Plain(final'[u])
               PROVE  PlainClaim(u)'
    BY DEF PlainClaims, Plain, PartNames
  <2>1. final'[u] = final[u] /\ final[u] # None /\ Plain(final[u]) /\ final[u] \in Path /\ PlainClaim(u)
    BY <1>2, ClaimIsFinal DEF PlainClaims
  <2>2. disk[final[u]] # Absent => disk'[final[u]] # Absent
    BY <2>1, PlainDisk
  <2>3. final[u] \in inProgress => final[u] \in inProgress' \/ disk[final[u]] # Absent
    <3>1. ASSUME NEW v \in Upload, MarkDone(v), final[u] = final[v]
          PROVE  disk[final[u]] # Absent
      BY <2>1, <3>1 DEF PlainClaims, PlainClaim, MarkDone, Move
    <3> QED
      BY <3>1, ClaimsReleased
  <2>4. \/ upc'[u] = upc[u]
        \/ Placing(u) /\ Placing(u)' /\ ~Rename(u)
        \/ Rename(u) /\ upc'[u] = "placed"
        \/ ~Placing(u)' /\ upc'[u] # "placed"
    BY <2>1, PlacingSteps
  <2>5. ASSUME Placing(u)'
        PROVE  disk'[final[u]].by # u
    <3>1. Placing(u) /\ ~Rename(u)
      BY <2>4, <2>5 DEF Placing, Rename, Move, TypeOK
    <3>2. \A v \in Upload : Rename(v) => final[v] # final[u]
      BY <2>1, <3>1 DEF PlainClaim
    <3> QED
      BY <1>n, <2>1, <3>1, <3>2, PlainDisk DEF PlainClaim, Foreign
  <2>6. ASSUME upc'[u] = "placed"
        PROVE  disk'[final[u]] # Absent
    <3>1. CASE Rename(u)
      BY <2>1, <3>1 DEF Rename, TypeOK
    <3>2. CASE ~Rename(u)
      BY <2>1, <2>2, <2>4, <2>6, <3>2 DEF Placing, PlainClaim
    <3> QED
      BY <3>1, <3>2
  <2>7. \A v \in Upload : final'[v] = final'[u] => v = u
    BY <1>2, <2>1 DEF PlainClaim
  <2> QED
    BY <2>1, <2>2, <2>3, <2>5, <2>6, <2>7 DEF PlainClaim
<1> QED
  BY <1>1, <1>2, FinalKept

-----------------------------------------------------------------------------
(* What takes more of the names: that no offered one is a partial.         *)

(* Claimed names and their partials never meet.                            *)
LEMMA ClaimsApart ==
  ASSUME TypeOK, Started, Chosen, Drawn, Claimed, PartialsApart,
         NEW u \in Upload, NEW v \in Upload, final[u] # None, final[v] # None
  PROVE  /\ PartOf[final[v]] # final[u]
         /\ PartOf[final[v]] = PartOf[final[u]] => u = v
         /\ PartOf[final[v]] \notin ForeignPath
<1>1. final[u] \in Finals /\ final[v] \in Finals
  BY ClaimIsFinal
<1>2. PartOf[final[v]] \notin Finals \union ForeignPath
  BY <1>1 DEF PartialsApart
<1>3. PartOf[final[v]] = PartOf[final[u]] => final[v] = final[u]
  BY <1>1, ReceiveAssumption DEF ReceiveAssumption
<1> QED
  BY <1>1, <1>2, <1>3 DEF Claimed

LEMMA FinalsPlain == ASSUME PartialsApart, NEW p \in Finals PROVE Plain(p)
BY DEF PartialsApart, Plain, PartNames

(* No cleanup deletes a file under its final name.                         *)
LEMMA CleanupSparesFinals ==
  ASSUME OnDisk, PartialsApart, NEW s \in Session, NEW o \in CleanupOutcomes(s)
  PROVE  o.removed \intersect Finals = {}
BY CleanupSparesPlain, FinalsPlain DEF OnDisk

(* No step touches what an upload has under its final name.                *)
LEMMA SurviveStep ==
  ASSUME TypeOK, Started, Chosen, Drawn, Claimed, OnDisk, PartialsApart, [Next]_vars,
         NEW w \in Upload, final[w] # None, disk[final[w]].by = w
  PROVE  disk'[final[w]] = disk[final[w]]
<1>1. final[w] \in Path /\ Plain(final[w])
  BY ClaimIsFinal, FinalsPlain
<1>2. disk[final[w]] # Absent
  BY ReceiveAssumption DEF Absent, ReceiveAssumption
<1>3. \A u \in Upload : Rename(u) => final[u] # final[w]
  BY DEF Rename, Move, Started, Claimed, OnDisk, Progress, ProgressOf
<1> QED
  BY <1>1, <1>2, <1>3, PlainDisk DEF OnDisk

LEMMA ClaimedStep ==
  ASSUME TypeOK, Started, Chosen, Drawn, Claimed, OnDisk, PartialsApart, [Next]_vars
  PROVE  Claimed'
<1>1. ASSUME NEW u \in Upload, Claim(u)
      PROVE  Claimed'
  <2>1. PICK p \in Finals \intersect Path :
           /\ p \notin inProgress /\ disk[p] = Absent
           /\ final' = [final EXCEPT ![u] = p]
           /\ inProgress' = inProgress \union {p}
    BY <1>1, ClaimTakes
  <2>2. \A v \in Upload : final[v] # None => final[v] # p
    BY <2>1, ReceiveAssumption DEF Claimed, Absent, ReceiveAssumption
  <2>3. disk' = disk
    BY <1>1 DEF Claim
  <2> QED
    BY <2>1, <2>2, <2>3 DEF Claimed, TypeOK
<1>2. ASSUME \A v \in Upload : final'[v] = final[v]
      PROVE  Claimed'
  <2>1. \A v \in Upload : final[v] # None /\ final[v] \in inProgress =>
            final[v] \in inProgress' \/ disk[final[v]].by = v
    <3>1. ASSUME NEW u \in Upload, MarkDone(u), NEW v \in Upload, final[v] # None,
                 final[v] = final[u]
          PROVE  disk[final[v]].by = v
      BY <3>1 DEF MarkDone, Move, OnDisk, Progress, ProgressOf, Claimed
    <3> QED
      BY <3>1, ClaimsReleased
  <2> QED
    BY <1>2, <2>1, SurviveStep DEF Claimed
<1> QED
  BY <1>1, <1>2, FinalKept

(* Steps that leave claims, disk and uploads as they are, or only delete   *)
(* files that are not final names.                                         *)
LEMMA RemovalKeepsOnDisk ==
  ASSUME TypeOK, Started, Chosen, Drawn, Claimed, OnDisk, NEW removed, Remove(removed),
         removed \intersect Finals = {}, UNCHANGED <<us, uf, final, got>>,
         PartsNamed',
         \A v \in Upload : upc'[v] = upc[v] \/ upc'[v] \in {"cleanup", "write", "over"}
  PROVE  OnDisk'
<1>1. \A p \in Path : disk'[p] = disk[p] \/ (disk'[p] = Absent /\ p \notin Finals)
  BY DEF Remove
<1>2. \A v \in Upload : final[v] # None => disk'[final[v]] = disk[final[v]]
  BY <1>1, ClaimIsFinal
<1>3. Absent.by = None /\ None \notin Upload /\ None # Outsider
  BY ReceiveAssumption DEF Absent, ReceiveAssumption
<1>4. Unowned'
  BY <1>1, <1>3 DEF OnDisk, Unowned
<1>5. Located'
  BY <1>1, <1>3 DEF OnDisk, Located
<1>6. Progress'
  <2>1. ASSUME NEW v \in Upload, upc'[v] = upc[v], final[v] # None
        PROVE  disk'[PartOf[final[v]]].by = v => disk'[PartOf[final[v]]] = disk[PartOf[final[v]]]
    BY <1>1, <1>3, <2>1, ClaimIsFinal
  <2> QED
    BY <1>2, <2>1 DEF OnDisk, Progress, ProgressOf, Started
<1> QED
  BY <1>4, <1>5, <1>6 DEF OnDisk

(* Steps that only move a request on, past the point where it matters.     *)
LEMMA MovingKeepsOnDisk ==
  ASSUME OnDisk, UNCHANGED <<disk, partPath, us, uf, final, got>>,
         \A v \in Upload :
            \/ upc'[v] = upc[v]
            \/ upc'[v] \in {"failFile", "cleanup", "write", "report", "over", "fileHook"}
            \/ upc[v] = "opened" /\ upc'[v] = "stream"
            \/ upc[v] = "stream" /\ upc'[v] = "rename" /\ got[v] = Size[uf[v]]
  PROVE  OnDisk'
<1>1. PartsNamed'
  BY DEF OnDisk, PartsNamed
<1>2. Unowned' /\ Located'
  BY DEF OnDisk, Unowned, Located
<1>3. ASSUME NEW v \in Upload
      PROVE  ProgressOf(v)'
  <2>1. ProgressOf(v)
    BY DEF OnDisk, Progress
  <2>2. CASE upc'[v] = upc[v]
    BY <2>1, <2>2 DEF ProgressOf
  <2>3. CASE upc'[v] \in {"failFile", "cleanup", "write", "report", "over", "fileHook"}
    BY <2>3 DEF ProgressOf
  <2>4. CASE upc[v] = "opened" /\ upc'[v] = "stream"
    BY <2>1, <2>4 DEF ProgressOf
  <2>5. CASE upc[v] = "stream" /\ upc'[v] = "rename" /\ got[v] = Size[uf[v]]
    BY <2>1, <2>5 DEF ProgressOf
  <2> QED
    BY <2>2, <2>3, <2>4, <2>5
<1> QED
  BY <1>1, <1>2, <1>3 DEF OnDisk, Progress

LEMMA OnDiskUploadStep ==
  ASSUME TypeOK, Started, Chosen, Drawn, Claimed, OnDisk, PartialsApart,
         NEW u \in Upload, AnyUploadStep(u)
  PROVE  OnDisk'
<1>n. None \notin Upload /\ Outsider \notin Upload /\ None # Outsider
  BY ReceiveAssumption DEF ReceiveAssumption
<1>1. CASE \E s \in Session, f \in File : StartUpload(u, s, f)
  <2>1. final[u] = None /\ got[u] = 0 /\ final' = final /\ got' = got
    BY <1>1 DEF StartUpload, Move, Started, OnDisk, Progress, ProgressOf
  <2>2. upc' = [upc EXCEPT ![u] = "checked"] /\ UNCHANGED <<disk, partPath>>
    BY <1>1 DEF StartUpload, Move, fileVars
  <2>3. \A v \in Upload : final[v] # None => uf'[v] = uf[v]
    BY <1>1, <2>1 DEF StartUpload, TypeOK
  <2>4. PartsNamed' /\ Unowned'
    BY <2>2 DEF OnDisk, PartsNamed, Unowned
  <2>5. Located'
    BY <2>1, <2>2, <2>3 DEF OnDisk, Located
  <2>6. \A v \in Upload : v # u => upc'[v] = upc[v] /\ uf'[v] = uf[v]
    <3>1. \A v \in Upload : v # u => uf'[v] = uf[v]
      BY <1>1 DEF StartUpload, TypeOK
    <3>2. \A v \in Upload : v # u => upc'[v] = upc[v]
      BY <2>2 DEF TypeOK
    <3> QED
      BY <3>1, <3>2
  <2>8. upc'[u] = "checked"
    BY <2>2 DEF TypeOK
  <2>7. ASSUME NEW v \in Upload
        PROVE  ProgressOf(v)'
    <3>1. ProgressOf(v)
      BY DEF OnDisk, Progress
    <3>2. CASE v = u
      BY <2>1, <2>2, <2>8, <3>2 DEF ProgressOf
    <3>3. CASE v # u
      BY <2>1, <2>2, <2>6, <3>1, <3>3 DEF ProgressOf
    <3> QED
      BY <3>2, <3>3
  <2> QED
    BY <2>4, <2>5, <2>7 DEF OnDisk, Progress
<1>2. CASE CannotOpen(u) \/ StreamError(u) \/ ReportFile(u) \/ WriteResult(u) \/ ReportResult(u)
  <2>1. UNCHANGED <<disk, partPath, us, uf, final, got>>
    BY <1>2 DEF CannotOpen, StreamError, ReportFile, WriteResult, ReportResult, fileVars
  <2>2. \A v \in Upload : upc'[v] = upc[v]
            \/ upc'[v] \in {"failFile", "cleanup", "write", "report", "over"}
    BY <1>2 DEF CannotOpen, StreamError, ReportFile, WriteResult, ReportResult, Move, TypeOK
  <2> QED
    BY <2>1, <2>2, MovingKeepsOnDisk
<1>3. CASE EndOfBody(u)
  <2>1. UNCHANGED <<disk, partPath, us, uf, final, got>>
    BY <1>3 DEF EndOfBody, fileVars
  <2>2. \A v \in Upload : \/ upc'[v] = upc[v]
                          \/ upc'[v] = "failFile"
                          \/ upc[v] = "stream" /\ upc'[v] = "rename" /\ got[v] = Size[uf[v]]
    BY <1>3 DEF EndOfBody, Move, TypeOK
  <2> QED
    BY <2>1, <2>2, MovingKeepsOnDisk
<1>4. CASE Claim(u)
  <2>1. PICK p \in Finals \intersect Path :
           disk[p] = Absent /\ final' = [final EXCEPT ![u] = p]
    BY <1>4, ClaimTakes
  <2>2. final[u] = None /\ got[u] = 0 /\ UNCHANGED <<disk, partPath, us, uf, got>>
           /\ upc' = [upc EXCEPT ![u] = "claimed"]
    BY <1>4 DEF Claim, Move, Started, OnDisk, Progress, ProgressOf
  <2>3. \A q \in Path : disk[q].by # u
    BY <2>2 DEF OnDisk, Located
  <2>4. \A v \in Upload : v = u \/ (final'[v] = final[v] /\ upc'[v] = upc[v])
    BY <2>1, <2>2 DEF TypeOK
  <2>5. final'[u] = p /\ upc'[u] = "claimed"
    BY <2>1, <2>2 DEF TypeOK
  <2>6. PartsNamed' /\ Unowned'
    BY <2>2 DEF OnDisk, PartsNamed, Unowned
  <2>7. Located'
    BY <2>2, <2>3, <2>4 DEF OnDisk, Located
  <2>8. ASSUME NEW v \in Upload
        PROVE  ProgressOf(v)'
    <3>1. ProgressOf(v)
      BY DEF OnDisk, Progress
    <3>2. CASE v = u
      BY <2>1, <2>2, <2>3, <2>5, <3>2 DEF ProgressOf
    <3>3. CASE v # u
      BY <2>2, <2>4, <3>1, <3>3 DEF ProgressOf
    <3> QED
      BY <3>2, <3>3
  <2> QED
    BY <2>6, <2>7, <2>8 DEF OnDisk, Progress
<1>5. CASE OpenPart(u)
  <2> DEFINE part == PartOf[final[u]]
  <2>1. final[u] # None /\ got[u] = 0 /\ part \in Path /\ final[u] \in Path
    BY <1>5, ClaimIsFinal DEF OpenPart, Move, Started, OnDisk, Progress, ProgressOf
  <2>2. disk' = [disk EXCEPT ![part] = [by |-> u, len |-> 0]]
        /\ upc' = [upc EXCEPT ![u] = "opened"] /\ upc[u] = "claimed"
        /\ UNCHANGED <<partPath, us, uf, final, got>>
    BY <1>5 DEF OpenPart, Move
  <2>3. \A v \in Upload : final[v] # None =>
          part # final[v] /\ (v # u => part # PartOf[final[v]])
    BY <2>1, ClaimsApart
  <2>4. disk'[part] = [by |-> u, len |-> 0] /\ \A q \in Path : q # part => disk'[q] = disk[q]
    BY <2>1, <2>2 DEF TypeOK
  <2>5. PartsNamed' /\ Unowned'
    BY <1>n, <2>2, <2>4 DEF OnDisk, PartsNamed, Unowned
  <2>6. Located'
    <3> SUFFICES ASSUME NEW p \in Path, NEW v \in Upload, disk'[p].by = v
                 PROVE  /\ final[v] # None
                        /\ p = PartOf[final[v]] \/ (p = final[v] /\ disk'[p].len = Size[uf[v]])
      BY <2>2 DEF Located
    <3>1. CASE p = part
      BY <2>1, <2>4, <3>1
    <3>2. CASE p # part
      BY <2>4, <3>2 DEF OnDisk, Located
    <3> QED
      BY <3>1, <3>2
  <2>7. Progress'
    <3>1. \A v \in Upload : final[v] # None => final[v] \in Path /\ PartOf[final[v]] \in Path
      BY ClaimIsFinal
    <3> QED
      BY <2>1, <2>2, <2>3, <2>4, <3>1 DEF OnDisk, Progress, ProgressOf, TypeOK, Started
  <2> QED
    BY <2>5, <2>6, <2>7 DEF OnDisk
<1>6. CASE NotePart(u)
  <2>1. final[u] \in Finals
    BY <1>6, ClaimIsFinal DEF NotePart, Move, Started
  <2>2. PartsNamed'
    BY <1>6, <2>1 DEF NotePart, OnDisk, PartsNamed, TypeOK
  <2>3. UNCHANGED <<disk, us, uf, final, got>> /\ upc' = [upc EXCEPT ![u] = "stream"]
        /\ upc[u] = "opened"
    BY <1>6 DEF NotePart, Move
  <2>4. \A v \in Upload : upc'[v] = upc[v] \/ (upc[v] = "opened" /\ upc'[v] = "stream")
    BY <2>3 DEF TypeOK
  <2>5. Unowned' /\ Located'
    BY <2>3 DEF OnDisk, Unowned, Located
  <2>6. ASSUME NEW v \in Upload
        PROVE  ProgressOf(v)'
    <3>1. ProgressOf(v)
      BY DEF OnDisk, Progress
    <3> QED
      BY <2>3, <2>4, <3>1 DEF ProgressOf
  <2> QED
    BY <2>2, <2>5, <2>6 DEF OnDisk, Progress
<1>7. CASE Chunk(u)
  <2> DEFINE part == PartOf[final[u]]
  <2>1. final[u] # None /\ part \in Path /\ final[u] \in Path /\ got[u] \in Nat
    BY <1>7, ClaimIsFinal DEF Chunk, Started, TypeOK
  <2>2. upc[u] = "stream" /\ got' = [got EXCEPT ![u] = @ + 1]
        /\ UNCHANGED <<partPath, us, uf, final>>
    BY <1>7 DEF Chunk
  <2>3. \A v \in Upload : upc'[v] = upc[v] \/ upc'[v] = "failFile"
    BY <1>7 DEF Chunk, Move, TypeOK
  <2>4. \A v \in Upload : final[v] # None =>
          part # final[v] /\ (v # u => part # PartOf[final[v]])
    BY <2>1, ClaimsApart
  <2>5. disk[part] \in Content
    BY <2>1 DEF TypeOK
  <2>6. /\ \A q \in Path : q # part => disk'[q] = disk[q]
        /\ disk[part].by = u => disk'[part] = [by |-> u, len |-> disk[part].len + 1]
        /\ disk[part].by # u => disk'[part] = disk[part]
    BY <1>7, <2>1, <2>5, OneChunkMore DEF Chunk, TypeOK
  <2>7. PartsNamed' /\ Unowned'
    <3>1. disk[part].by = u => disk'[part].by = u
      BY <2>6
    <3>2. PartsNamed'
      BY <2>2 DEF OnDisk, PartsNamed
    <3>3. ASSUME NEW q \in Path
          PROVE  /\ disk'[q].by = None => disk'[q] = Absent
                 /\ disk'[q].by = Outsider => q \in ForeignPath
      <4>1. disk'[q] = disk[q] \/ disk'[q].by = u
        BY <2>6
      <4>2. u # None /\ u # Outsider
        BY ReceiveAssumption DEF ReceiveAssumption
      <4> QED
        BY <4>1, <4>2 DEF OnDisk, Unowned
    <3> QED
      BY <3>2, <3>3 DEF Unowned
  <2>8. Located'
    <3> SUFFICES ASSUME NEW p \in Path, NEW v \in Upload, disk'[p].by = v
                 PROVE  /\ final[v] # None
                        /\ p = PartOf[final[v]] \/ (p = final[v] /\ disk'[p].len = Size[uf[v]])
      BY <2>2 DEF Located
    <3>1. CASE p = part
      BY <2>1, <2>4, <2>6, <3>1 DEF OnDisk, Located
    <3>2. CASE p # part
      BY <2>6, <3>2 DEF OnDisk, Located
    <3> QED
      BY <3>1, <3>2
  <2>9. Progress'
    <3>1. \A v \in Upload : final[v] # None => final[v] \in Path /\ PartOf[final[v]] \in Path
      BY ClaimIsFinal
    <3> QED
      BY <2>1, <2>2, <2>3, <2>4, <2>6, <3>1 DEF OnDisk, Progress, ProgressOf, TypeOK, Started
  <2> QED
    BY <2>7, <2>8, <2>9 DEF OnDisk
<1>8. CASE Rename(u)
  <2> DEFINE part == PartOf[final[u]]
  <2>1. final[u] # None /\ part \in Path /\ final[u] \in Path /\ part # final[u]
    BY <1>8, ClaimIsFinal, ClaimsApart DEF Rename, Move, Started
  <2>2. upc[u] = "rename" /\ upc' = [upc EXCEPT ![u] = "placed"] /\ disk[part] # Absent
        /\ UNCHANGED <<partPath, us, uf, final, got>>
    BY <1>8 DEF Rename, Move
  <2>3. disk'[final[u]] = disk[part] /\ disk'[part] = Absent
        /\ \A q \in Path : q # part /\ q # final[u] => disk'[q] = disk[q]
    BY <1>8, <2>1 DEF Rename, TypeOK
  <2>4. \A v \in Upload : final[v] # None =>
          part # final[v] /\ (v # u => part # PartOf[final[v]] /\ final[v] # final[u]
                                       /\ PartOf[final[v]] # final[u])
    BY <2>1, ClaimsApart DEF Claimed
  <2>5. disk[part].by = u
    <3>1. disk[part].by # None
      BY <2>1, <2>2 DEF OnDisk, Unowned
    <3>2. disk[part].by # Outsider
      BY <2>1, ClaimsApart DEF OnDisk, Unowned
    <3>3. disk[part].by \in Upload
      BY <2>1, <3>1, <3>2 DEF TypeOK, Content
    <3> QED
      BY <2>1, <2>4, <3>3 DEF OnDisk, Located
  <2>6. disk[part].len = Size[uf[u]]
    BY <2>2, <2>5 DEF OnDisk, Progress, ProgressOf
  <2>7. PartsNamed' /\ Unowned'
    <3>1. PartsNamed'
      BY <2>2 DEF OnDisk, PartsNamed
    <3>2. Absent.by = None /\ disk'[final[u]].by = u
      BY <2>3, <2>5 DEF Absent
    <3>3. ASSUME NEW q \in Path
          PROVE  /\ disk'[q].by = None => disk'[q] = Absent
                 /\ disk'[q].by = Outsider => q \in ForeignPath
      <4>1. disk'[q] \in {disk[q], Absent} \/ disk'[q].by = u
        BY <2>3, <3>2
      <4>2. u # None /\ u # Outsider /\ None # Outsider
        BY ReceiveAssumption DEF ReceiveAssumption
      <4> QED
        BY <4>1, <4>2, <3>2 DEF OnDisk, Unowned
    <3> QED
      BY <3>1, <3>3 DEF Unowned
  <2>8. Located'
    BY <1>n, <2>1, <2>2, <2>3, <2>5, <2>6 DEF OnDisk, Located, Absent
  <2>9. Progress'
    <3>1. \A v \in Upload : final[v] # None => final[v] \in Path /\ PartOf[final[v]] \in Path
      BY ClaimIsFinal
    <3> QED
      BY <2>1, <2>2, <2>3, <2>4, <2>5, <3>1 DEF OnDisk, Progress, ProgressOf, TypeOK, Started
  <2> QED
    BY <2>7, <2>8, <2>9 DEF OnDisk
<1>9. CASE MarkDone(u)
  <2>1. UNCHANGED <<disk, partPath, us, uf, final, got>>
    BY <1>9 DEF MarkDone
  <2>2. \A v \in Upload : upc'[v] = upc[v] \/ upc'[v] = "fileHook"
    BY <1>9 DEF MarkDone, Move, TypeOK
  <2> QED
    BY <2>1, <2>2, MovingKeepsOnDisk
<1>10. CASE FailFile(u)
  <2>1. <<us[u], uf[u]>> \in Session \X File
    BY <1>10 DEF FailFile, Move, Started
  <2>2. PICK removed : Remove(removed) /\ removed \in {{partPath[<<us[u], uf[u]>>]}, {}}
    BY <1>10 DEF FailFile
  <2>3. removed \intersect Finals = {}
    <3>1. None \notin Finals
      BY ReceiveAssumption DEF Finals, ReceiveAssumption
    <3>2. partPath[<<us[u], uf[u]>>] \notin Finals
      BY <2>1, <3>1 DEF OnDisk, PartsNamed, PartialsApart
    <3> QED
      BY <2>2, <3>2
  <2>4. PartsNamed'
    BY <1>10, <2>1 DEF FailFile, OnDisk, PartsNamed, TypeOK
  <2>5. UNCHANGED <<us, uf, final, got>> /\ upc' = [upc EXCEPT ![u] = "cleanup"]
    BY <1>10 DEF FailFile, Move
  <2>6. \A v \in Upload : upc'[v] = upc[v] \/ upc'[v] = "cleanup"
    BY <2>5 DEF TypeOK
  <2> QED
    BY <2>2, <2>3, <2>4, <2>5, <2>6, RemovalKeepsOnDisk
<1>11. CASE Cleanup(u)
  <2>1. us[u] \in Session
    BY <1>11 DEF Cleanup, Started
  <2>2. PICK o \in CleanupOutcomes(us[u]) : Move(u, "cleanup", o.next) /\ Remove(o.removed)
    BY <1>11 DEF Cleanup
  <2>3. o.removed \intersect Finals = {}
    BY <2>1, CleanupSparesFinals
  <2>4. o.next \in {"write", "over"}
    BY DEF CleanupOutcomes
  <2>5. UNCHANGED <<us, uf, final, got, partPath>>
    BY <1>11 DEF Cleanup
  <2>6. \A v \in Upload : upc'[v] = upc[v] \/ upc'[v] \in {"write", "over"}
    BY <2>2, <2>4 DEF Move, TypeOK
  <2>7. PartsNamed'
    BY <2>5 DEF OnDisk, PartsNamed
  <2> QED
    BY <2>2, <2>3, <2>5, <2>6, <2>7, RemovalKeepsOnDisk
<1> QED
  BY <1>1, <1>2, <1>3, <1>4, <1>5, <1>6, <1>7, <1>8, <1>9, <1>10, <1>11
  DEF AnyUploadStep, UploadStep, BodyStep

LEMMA OnDiskStep ==
  ASSUME TypeOK, Started, Chosen, Drawn, Claimed, OnDisk, PartialsApart, [Next]_vars
  PROVE  OnDisk'
<1>1. ASSUME NEW s \in Session, SessionStep(s)
      PROVE  OnDisk'
  BY <1>1, SessionFrame
  DEF OnDisk, PartsNamed, Unowned, Located, Progress, ProgressOf, fileVars, upVars
<1>2. ASSUME NEW u \in Upload, AnyUploadStep(u)
      PROVE  OnDisk'
  BY <1>2, OnDiskUploadStep
<1>3. ASSUME NEW c \in Canceller, AnyCancelStep(c)
      PROVE  OnDisk'
  <2>1. UNCHANGED <<partPath, us, uf, final, got, upc>>
    BY <1>3, CancelFrame DEF upVars
  <2>2. PartsNamed'
    BY <2>1 DEF OnDisk, PartsNamed
  <2>3. CASE CancelCleanup(c)
    <3>1. PICK o \in CleanupOutcomes(cs[c]) : Remove(o.removed)
      BY <2>3 DEF CancelCleanup
    <3>2. cs[c] \in Session
      BY <2>3 DEF CancelCleanup, Started
    <3>3. o.removed \intersect Finals = {}
      BY <3>2, CleanupSparesFinals
    <3> QED
      BY <2>1, <2>2, <3>1, <3>3, RemovalKeepsOnDisk
  <2>4. CASE disk' = disk
    BY <2>1, <2>4 DEF OnDisk, PartsNamed, Unowned, Located, Progress, ProgressOf
  <2> QED
    BY <1>3, <2>3, <2>4 DEF AnyCancelStep, CancelStep, StartCancel, WriteCancelled,
       ReportCancelled, fileVars
<1>4. ASSUME NEW p \in Path, OutsiderCreates(p)
      PROVE  OnDisk'
  <2>1. UNCHANGED <<partPath, us, uf, final, got, upc>>
    BY <1>4 DEF OutsiderCreates, upVars
  <2>2. disk'[p] = Foreign /\ p \in ForeignPath /\ disk[p] = Absent
        /\ \A q \in Path : q # p => disk'[q] = disk[q]
    BY <1>4 DEF OutsiderCreates, TypeOK
  <2>3. Foreign.by = Outsider /\ Outsider \notin Upload /\ Outsider # None /\ Absent.by = None
        /\ None \notin Upload
    BY ReceiveAssumption DEF Foreign, Absent, ReceiveAssumption
  <2>4. Unowned' /\ Located' /\ PartsNamed'
    BY <2>1, <2>2, <2>3 DEF OnDisk, PartsNamed, Unowned, Located
  <2>5. \A v \in Upload : final[v] # None => final[v] \in Path /\ PartOf[final[v]] \in Path
    BY ClaimIsFinal
  <2>6. Progress'
    BY <2>1, <2>2, <2>3, <2>5 DEF OnDisk, Progress, ProgressOf, Started
  <2> QED
    BY <2>4, <2>6 DEF OnDisk
<1>5. CASE UNCHANGED vars
  BY <1>5 DEF OnDisk, PartsNamed, Unowned, Located, Progress, ProgressOf, vars, fileVars, upVars
<1> QED
  BY <1>1, <1>2, <1>3, <1>4, <1>5, NextSteps

-----------------------------------------------------------------------------
(* What is reported done.                                                  *)

(* A stored file stays stored, and a file once done stays done.            *)
LEMMA StoredKept ==
  ASSUME TypeOK, Started, Chosen, Drawn, Claimed, OnDisk, PartialsApart, [Next]_vars,
         NEW s \in Session, NEW f \in File, Stored(s, f)
  PROVE  Stored(s, f)'
<1>1. PICK u \in Upload : /\ us[u] = s /\ uf[u] = f /\ final[u] # None
                          /\ disk[final[u]] = [by |-> u, len |-> Size[f]]
  BY DEF Stored
<1>2. disk'[final[u]] = disk[final[u]]
  BY <1>1, SurviveStep
<1>3. final'[u] = final[u]
  <2>1. SUFFICES ASSUME final'[u] # final[u] PROVE FALSE
    OBVIOUS
  <2>2. PICK v \in Upload : Claim(v)
    BY <2>1, FinalKept
  <2>3. v = u
    BY <2>1, <2>2 DEF Claim, TypeOK
  <2> QED
    BY <1>1, <2>2, <2>3 DEF Claim, Move, Started
<1>4. us'[u] = us[u] /\ uf'[u] = uf[u]
  BY <1>1, NamesKept
<1> QED
  BY <1>1, <1>2, <1>3, <1>4 DEF Stored

LEMMA FileDoneGrows ==
  ASSUME [Next]_vars
  PROVE  /\ fileDone \subseteq fileDone'
         /\ fileDone' = fileDone \/ \E u \in Upload : MarkDone(u)
<1>1. \A s \in Session : SessionStep(s) => fileDone' = fileDone
  BY SessionFrame DEF fileVars
<1>2. \A c \in Canceller : AnyCancelStep(c) => fileDone' = fileDone
  BY CancelFrame
<1>3. \A u \in Upload : AnyUploadStep(u) /\ ~MarkDone(u) => fileDone' = fileDone
  BY DEF AnyUploadStep, UploadStep, BodyStep, StartUpload, CannotOpen, Claim, OpenPart,
     NotePart, Chunk, EndOfBody, StreamError, Rename, ReportFile, FailFile, Cleanup,
     WriteResult, ReportResult, fileVars
<1>4. UNCHANGED vars \/ (\E p \in Path : OutsiderCreates(p)) => fileDone' = fileDone
  BY DEF OutsiderCreates, vars, fileVars
<1>5. \A u \in Upload : MarkDone(u) => fileDone \subseteq fileDone'
  BY DEF MarkDone
<1> QED
  BY <1>1, <1>2, <1>3, <1>4, <1>5, NextSteps

LEMMA ReportedStep ==
  ASSUME TypeOK, ReceiveInv, PartialsApart, [Next]_vars
  PROVE  Reported'
<1> USE DEF ReceiveInv
<1>1. \A s \in Session, f \in File : <<s, f>> \in fileDone' => Stored(s, f)'
  <2>1. ASSUME NEW s \in Session, NEW f \in File, <<s, f>> \in fileDone
        PROVE  Stored(s, f)'
    BY <2>1, StoredKept DEF Reported
  <2>2. ASSUME NEW u \in Upload, MarkDone(u)
        PROVE  Stored(us[u], uf[u])
    <3>1. final[u] # None /\ disk[final[u]].by = u
      BY <2>2 DEF MarkDone, Move, Started, OnDisk, Progress, ProgressOf
    <3>2. final[u] \in Path /\ PartOf[final[u]] # final[u]
      BY <3>1, ClaimIsFinal, ClaimsApart
    <3>3. disk[final[u]].len = Size[uf[u]]
      BY <3>1, <3>2 DEF OnDisk, Located
    <3>4. disk[final[u]] = [by |-> u, len |-> Size[uf[u]]]
      BY <3>1, <3>2, <3>3 DEF TypeOK, Content
    <3> QED
      BY <3>1, <3>4 DEF Stored
  <2>3. ASSUME NEW u \in Upload, MarkDone(u), NEW s \in Session, NEW f \in File,
               <<s, f>> \in fileDone'
        PROVE  Stored(s, f)'
    <3>1. <<s, f>> \in fileDone \/ (s = us[u] /\ f = uf[u])
      BY <2>3 DEF MarkDone
    <3> QED
      BY <2>1, <2>2, <2>3, <3>1, StoredKept
  <2> QED
    BY <2>1, <2>3, FileDoneGrows
<1>2. \A s : AllDone(s, fileDone) => AllDone(s, fileDone')
  BY FileDoneGrows DEF AllDone
<1>3. \A u \in Upload : want'[u] = Done => AllDone(us'[u], fileDone')
  <2>1. \A s \in Session : SessionStep(s) => UNCHANGED <<want, us>>
    BY SessionFrame DEF upVars
  <2>2. \A c \in Canceller : AnyCancelStep(c) => UNCHANGED <<want, us>>
    BY CancelFrame DEF upVars
  <2>3. ASSUME NEW u \in Upload, MarkDone(u)
        PROVE  \A v \in Upload : want'[v] = Done => AllDone(us'[v], fileDone')
    BY <2>3, <1>2, ReceiveAssumption
    DEF MarkDone, TypeOK, Reported, ReceiveAssumption, Terminal
  <2>4. ASSUME NEW u \in Upload, \E s \in Session, f \in File : StartUpload(u, s, f)
        PROVE  \A v \in Upload : want'[v] = Done => AllDone(us'[v], fileDone')
    BY <2>4, <1>2, ReceiveAssumption
    DEF StartUpload, Move, Started, TypeOK, Reported, ReceiveAssumption, Terminal
  <2>5. ASSUME NEW u \in Upload, UploadStep(u) \/ BodyStep(u), ~MarkDone(u)
        PROVE  us' = us /\ \A v \in Upload : want'[v] = Done => want[v] = Done
    BY <2>5
    DEF UploadStep, BodyStep, CannotOpen, Claim, OpenPart, NotePart, Chunk, EndOfBody,
        StreamError, Rename, ReportFile, FailFile, Cleanup, WriteResult, ReportResult,
        TypeOK, Done, Failed
  <2>6. UNCHANGED vars \/ (\E p \in Path : OutsiderCreates(p)) => UNCHANGED <<want, us>>
    BY DEF OutsiderCreates, vars, upVars
  <2> QED
    BY <1>2, <2>1, <2>2, <2>3, <2>4, <2>5, <2>6, NextSteps DEF Reported, AnyUploadStep
<1>4. \A s \in Session : state'[s] = Done => AllDone(s, fileDone')
  <2>1. ASSUME NEW r \in Session, SessionStep(r)
        PROVE  \A s \in Session : state'[s] = Done => state[s] = Done
    BY <2>1
    DEF SessionStep, Offer, PrepareStep, SenderGoes, Forget, Decide, Announce, TakeDecision,
        Timeout, SeeCancel, Conclude, WriteVerdict, ReportVerdict, SetState, TypeOK, Started,
        Advance, Accepted, Declined, Cancelled, Done
  <2>2. ASSUME NEW c \in Canceller, AnyCancelStep(c)
        PROVE  \A s \in Session : state'[s] = Done => state[s] = Done
    BY <2>2
    DEF AnyCancelStep, CancelStep, StartCancel, CancelCleanup, WriteCancelled, ReportCancelled,
        SetState, TypeOK, Cancelled, Done
  <2>3. ASSUME NEW u \in Upload, WriteResult(u)
        PROVE  \A s \in Session : state'[s] = Done => state[s] = Done \/ (s = us[u] /\ want[u] = Done)
    BY <2>3 DEF WriteResult, SetState, TypeOK
  <2>4. ASSUME NEW u \in Upload, AnyUploadStep(u), ~WriteResult(u)
        PROVE  state' = state
    <3>1. CASE BodyStep(u) \/ \E s \in Session, f \in File : StartUpload(u, s, f)
      BY <3>1 DEF BodyStep, StartUpload, Chunk, EndOfBody, StreamError
    <3>2. CASE UploadStep(u)
      BY <2>4, <3>2 DEF UploadStep, CannotOpen, Claim, OpenPart, NotePart, Rename, MarkDone,
         ReportFile, FailFile, Cleanup, ReportResult
    <3> QED
      BY <2>4, <3>1, <3>2 DEF AnyUploadStep
  <2>5. UNCHANGED vars \/ (\E p \in Path : OutsiderCreates(p)) => state' = state
    BY DEF OutsiderCreates, vars
  <2> QED
    BY <1>2, <2>1, <2>2, <2>3, <2>4, <2>5, NextSteps DEF Reported
<1>5. \A s \in Session : job'[s] = Done => AllDone(s, fileDone')
  <2>1. ASSUME NEW r \in Session, SessionStep(r)
        PROVE  \A s \in Session : job'[s] = Done => job[s] = Done
    BY <2>1
    DEF SessionStep, Offer, PrepareStep, SenderGoes, Forget, Decide, Announce, TakeDecision,
        Timeout, SeeCancel, Conclude, WriteVerdict, ReportVerdict, Report, JobState, TypeOK,
        Started, Advance, jobVars, Accepted, Declined, Cancelled, Done
  <2>2. ASSUME NEW c \in Canceller, AnyCancelStep(c)
        PROVE  \A s \in Session : job'[s] = Done => job[s] = Done
    BY <2>2
    DEF AnyCancelStep, CancelStep, StartCancel, CancelCleanup, WriteCancelled, ReportCancelled,
        Report, JobState, TypeOK, jobVars, Accepted, Cancelled, Done
  <2>3. ASSUME NEW u \in Upload, ReportResult(u)
        PROVE  \A s \in Session : job'[s] = Done => job[s] = Done \/ (s = us[u] /\ want[u] = Done)
    BY <2>3 DEF ReportResult, Report, JobState, TypeOK, Accepted, Done
  <2>4. \A u \in Upload : AnyUploadStep(u) /\ ~ReportResult(u) => job' = job
    BY DEF AnyUploadStep, UploadStep, BodyStep, StartUpload, CannotOpen, Claim, OpenPart,
       NotePart, Chunk, EndOfBody, StreamError, Rename, MarkDone, ReportFile, FailFile, Cleanup,
       WriteResult, jobVars
  <2>5. UNCHANGED vars \/ (\E p \in Path : OutsiderCreates(p)) => job' = job
    BY DEF OutsiderCreates, vars, jobVars
  <2> QED
    BY <1>2, <2>1, <2>2, <2>3, <2>4, <2>5, NextSteps DEF Reported
<1> QED
  BY <1>1, <1>3, <1>4, <1>5 DEF Reported

-----------------------------------------------------------------------------
(* The theorems.                                                           *)

LEMMA InitHolds ==
  ASSUME Init
  PROVE  TypeOK /\ ReceiveInv
<1> USE ReceiveAssumption DEF Init, ReceiveAssumption
<1>1. TypeOK
  BY DEF TypeOK, Absent, Content
<1>2. Started /\ Chosen /\ Drawn /\ Claimed
  BY DEF Started, Chosen, Drawn, Claimed, Terminal, Accepted
<1>3. OnDisk
  BY DEF OnDisk, PartsNamed, Unowned, Located, Progress, ProgressOf, Absent
<1>4. Reported
  BY DEF Reported, Terminal, Pending, Done
<1> QED
  BY <1>1, <1>2, <1>3, <1>4 DEF ReceiveInv

(* Type correctness.  The receiver stays within its types whatever the     *)
(* names are; the requests' knowledge of their sessions is what makes this *)
(* inductive.                                                              *)
THEOREM TypeCorrect == Spec => []TypeOK
<1> DEFINE Inv == TypeOK /\ Started /\ Chosen /\ Drawn
<1>1. Init => Inv
  BY InitHolds DEF ReceiveInv
<1>2. Inv /\ [Next]_vars => Inv'
  BY TypedStep, StartedStep, ChosenStep, DrawnStep
<1> QED
  BY <1>1, <1>2, PTL DEF Spec

(* The inductive invariant, when no offered name is another one's partial. *)
THEOREM InvariantHolds == PartialsApart => (Spec => [](TypeOK /\ ReceiveInv))
<1> SUFFICES ASSUME PartialsApart
             PROVE  Spec => [](TypeOK /\ ReceiveInv)
  OBVIOUS
<1>1. Init => TypeOK /\ ReceiveInv
  BY InitHolds
<1>2. TypeOK /\ ReceiveInv /\ [Next]_vars => (TypeOK /\ ReceiveInv)'
  BY TypedStep, StartedStep, ChosenStep, DrawnStep, ClaimedStep, OnDiskStep, ReportedStep
  DEF ReceiveInv
<1> QED
  BY <1>1, <1>2, PTL DEF Spec

(* claimFinalPath: uploads that stream at the same time never share a name *)
(* or a partial.                                                           *)
THEOREM ExclusiveClaims == PartialsApart => (Spec => []ClaimsExclusive)
<1> SUFFICES ASSUME PartialsApart
             PROVE  Spec => []ClaimsExclusive
  OBVIOUS
<1>1. TypeOK /\ ReceiveInv => ClaimsExclusive
  <2> SUFFICES ASSUME TypeOK, ReceiveInv, NEW u \in Holding, NEW v \in Holding, u # v
               PROVE  final[u] # final[v] /\ PartOf[final[u]] # PartOf[final[v]]
    BY DEF ClaimsExclusive
  <2>1. u \in Upload /\ v \in Upload /\ final[u] # None /\ final[v] # None
    BY DEF Holding, ReceiveInv, Started
  <2> QED
    BY <2>1, ClaimsApart DEF ReceiveInv, Claimed
<1> QED
  BY <1>1, InvariantHolds, PTL

(* A file reported done, and every file of a session or job that is done,  *)
(* is on the disk, complete, under its claimed name.                       *)
THEOREM DoneIsStored == PartialsApart => (Spec => []DoneMeansStored)
<1> SUFFICES ASSUME PartialsApart
             PROVE  Spec => []DoneMeansStored
  OBVIOUS
<1>1. TypeOK /\ ReceiveInv => DoneMeansStored
  BY DEF ReceiveInv, Reported, AllDone, DoneMeansStored
<1> QED
  BY <1>1, InvariantHolds, PTL

(* Data on the disk is where an accepted session's upload may put it.      *)
THEOREM OnlyAcceptedData == PartialsApart => (Spec => []OnlyWhatWasAccepted)
<1> SUFFICES ASSUME PartialsApart
             PROVE  Spec => []OnlyWhatWasAccepted
  OBVIOUS
<1>1. TypeOK /\ ReceiveInv => OnlyWhatWasAccepted
  <2> SUFFICES ASSUME TypeOK, ReceiveInv, NEW p \in Path, NEW u \in Upload, disk[p].by = u
               PROVE  /\ final[u] # None
                      /\ p \in {final[u], PartOf[final[u]]}
                      /\ dest[us[u]] \in acked[us[u]] \union Dropbox
                      /\ \E k \in DOMAIN Names(u) : final[u] = Names(u)[k]
    BY DEF OnlyWhatWasAccepted, Names
  <2>1. final[u] # None /\ p \in {final[u], PartOf[final[u]]}
    BY DEF ReceiveInv, OnDisk, Located
  <2>2. us[u] \in Session /\ verdict[us[u]] = Accepted
    BY <2>1 DEF ReceiveInv, Started
  <2> QED
    BY <2>1, <2>2 DEF ReceiveInv, Chosen, Drawn
<1> QED
  BY <1>1, InvariantHolds, PTL

(* Whatever the names are, nothing the receiver does later touches a file  *)
(* received under a name that is nobody's partial.                         *)
THEOREM FilesSurvive == Spec => ReceivedFilesSurvive
<1> DEFINE Inv == TypeOK /\ Started /\ Chosen /\ Drawn /\ PartsNamed /\ PlainClaims
<1>1. Init => Inv
  BY InitHolds DEF ReceiveInv, OnDisk, PlainClaims, Init
<1>2. Inv /\ [Next]_vars => Inv'
  BY TypedStep, StartedStep, ChosenStep, DrawnStep, PartsNamedStep, PlainClaimsStep
<1>3. Inv /\ [Next]_vars =>
        [\A u \in Upload :
           final[u] # None /\ disk[final[u]].by = u /\ Plain(final[u]) =>
             disk'[final[u]] = disk[final[u]]]_vars
  BY PlainSurvives
<1> QED
  BY <1>1, <1>2, <1>3, PTL DEF Spec, ReceivedFilesSurvive
=============================================================================
