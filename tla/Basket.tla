------------------------------- MODULE Basket -------------------------------
(***************************************************************************)
(* What becomes of an item in the basket: Send of                          *)
(* internal/transfer/manager.go expands it by List and Open of             *)
(* internal/shares/shares.go into the files that are offered, and the      *)
(* worker opens each of them again, much later, to upload it.  Meanwhile   *)
(* other users work on the share (Folders).                                *)
(*                                                                         *)
(* List and Open are steps; what List saw of an entry, its kind and size,  *)
(* is what the job goes by from then on.  Names that the server hides are  *)
(* not in Name.  The job of the item is followed alone, and its receiver   *)
(* takes what fits the offer.                                              *)
(***************************************************************************)
EXTENDS Folders, FiniteSets

CONSTANTS
  NewSize,   (* bound: how long a new file of each name is                 *)
  MaxSize,   (* bound: how large files grow                                *)
  MaxEntries, (* bound: how many entries the share comes to have           *)
  Touches,   (* bound: places that are touched while the job is under way  *)
  LinkSize   (* the size that Lstat has for a link                         *)

ASSUME BasketAssumption ==
  /\ {MaxSize, MaxEntries, Touches, LinkSize} \subseteq Nat
  /\ NewSize \in [Name -> 0 .. MaxSize]
  /\ IsFiniteSet(Name)

VARIABLES
  size,      (* how long each file is                                      *)
  changed,   (* history: places that other users touched since the request *)
  job,       (* where the request, and then its job, is                    *)
  item,      (* the item's path in the share                               *)
  todo,      (* expandItem: folders still to be listed                     *)
  offered,   (* j.Files: path, declared size, and whether List saw a link  *)
  taken,     (* the files that were uploaded                               *)
  culprit,   (* history: the file whose upload failed                      *)
  skipped,   (* history: entries that List could not describe              *)
  unread     (* history: files that the disk would not open or read        *)

diskVars == <<fs, size, changed>>
walkVars == <<pc, rel, at, refused, raced>>
refusals == <<skipped, unread>>
sendVars == <<job, item, todo, offered, taken, culprit, refusals>>
basketVars == <<diskVars, walkVars, sendVars>>

Offer(path, bytes, link) == [path |-> path, bytes |-> bytes, link |-> link]
Sending == "sending"
Done == "done"
Failed == "failed"

BasketInit ==
  /\ Init
  /\ size = [p \in Place |-> 0]
  /\ changed = {}
  /\ job = "none" /\ item = Root /\ todo = <<>>
  /\ offered = {} /\ taken = {} /\ culprit = {} /\ skipped = {} /\ unread = {}

-----------------------------------------------------------------------------
(* Other users create, write to and delete files.  Before the request only *)
(* what they leave matters, so they just create.                           *)

Touch(p) ==
  /\ changed' = IF job = "none" THEN {} ELSE changed \union {p}
  /\ Cardinality(changed') <= Touches
  /\ UNCHANGED <<walkVars, sendVars>>

Create(p) ==
  /\ OthersCreate(p)
  /\ Cardinality({q \in Place : fs[q] # Missing}) <= MaxEntries   (* the root is one *)
  /\ size' = [size EXCEPT ![p] = IF fs'[p] = Plain THEN NewSize[Last(p)] ELSE 0]
  /\ Touch(p)
Write(p) ==
  /\ job # "none"
  /\ fs[p] = Plain /\ size[p] < MaxSize
  /\ size' = [size EXCEPT ![p] = @ + 1]
  /\ Touch(p) /\ UNCHANGED fs
Delete(p) ==
  /\ job # "none"
  /\ fs[p] = Plain
  /\ fs' = [fs EXCEPT ![p] = Missing]
  /\ size' = [size EXCEPT ![p] = 0]
  /\ Touch(p)

-----------------------------------------------------------------------------
(* Send: the item is expanded before the job is made.                      *)

Request(path) ==
  /\ job = "none"
  /\ job' = "expanding"
  /\ item' = path /\ todo' = <<path>>
  /\ UNCHANGED <<diskVars, walkVars, offered, taken, culprit, refusals>>

(* An Open goes through links, to a file of the share.                     *)
Opens(path) == Leads(path) \in Place /\ fs[Leads(path)] = Plain

(* The entries of a folder as List has them: of a link, the link itself.   *)
Entries(path) ==
  {Append(path, n) : n \in {m \in Name : LET p == Append(Leads(path), m)
                                         IN p \in Place /\ fs[p] # Missing}}
At(path) == Append(Leads(Front(path)), Last(path))
Entry(path) == fs[At(path)]

(* Mutant: the entry is what a link leads to.                              *)
LeadsToDir(path) == Folder(Leads(path))

IsDir(path) == Entry(path) = Dir
AsOffer(path) ==
  IF Entry(path).kind = "link" THEN Offer(path, LinkSize, TRUE)
                               ELSE Offer(path, size[At(path)], FALSE)

Expanding(path) == job = "expanding" /\ todo # <<>> /\ path = Head(todo)
DiskAsItWas == UNCHANGED <<diskVars, walkVars, item, taken, culprit, unread>>

(* Mutant: a folder's own files are passed over when it has folders.       *)
ExpandDeepOnly(path) ==
  /\ Expanding(path) /\ Folder(Leads(path))
  /\ LET dirs == {e \in Entries(path) : IsDir(e)}
     IN /\ todo' = SetToSeq(dirs) \o Tail(todo)
        /\ offered' = IF dirs = {} THEN offered \union {AsOffer(e) : e \in Entries(path)}
                                  ELSE offered
  /\ UNCHANGED <<job, skipped>>
  /\ DiskAsItWas

(* Mutant: a folder without entries is listed again.                       *)
ExpandUntilFull(path) ==
  /\ Expanding(path) /\ Folder(Leads(path))
  /\ LET dirs == {e \in Entries(path) : IsDir(e)}
     IN /\ todo' = SetToSeq(dirs) \o IF Entries(path) = {} THEN todo ELSE Tail(todo)
        /\ offered' = offered \union {AsOffer(e) : e \in Entries(path) \ dirs}
  /\ UNCHANGED <<job, skipped>>
  /\ DiskAsItWas

(* expandItem on a folder: its files are offered as they were listed, its  *)
(* folders come before what waits already.  List passes over an entry that *)
(* Info fails for, as it does for every one of a folder that may be read   *)
(* but not searched.                                                       *)
ExpandFolder(path) ==
  /\ Expanding(path) /\ Folder(Leads(path))
  /\ \E unseen \in SUBSET Entries(path) :
       LET dirs == {e \in Entries(path) \ unseen : IsDir(e)}
           files == Entries(path) \ (unseen \union dirs)
       IN /\ todo' = SetToSeq(dirs) \o Tail(todo)
          /\ offered' = offered \union {AsOffer(e) : e \in files}
          /\ skipped' = skipped \union {At(e) : e \in unseen}
  /\ UNCHANGED job
  /\ DiskAsItWas

(* expandItem on what cannot be listed: a file, with the size it has when  *)
(* opened ...                                                              *)
ExpandFile(path) ==
  /\ Expanding(path) /\ Opens(path)
  /\ todo' = Tail(todo)
  /\ offered' = offered \union {Offer(path, size[Leads(path)], FALSE)}
  /\ UNCHANGED <<job, skipped>>
  /\ DiskAsItWas

(* ... or nothing that is in the share: the request fails as a whole.      *)
ExpandFails(path) ==
  /\ Expanding(path) /\ ~Opens(path) /\ ~Folder(Leads(path))
  /\ job' = "refused"
  /\ UNCHANGED <<todo, offered, skipped>>
  /\ DiskAsItWas

(* So it does when the disk refuses: a folder that List fails for is none  *)
(* for Open either, and a file may be there and not be opened.             *)
ReadRefused(path) ==
  /\ Expanding(path) /\ (Opens(path) \/ Folder(Leads(path)))
  /\ job' = "refused"
  /\ UNCHANGED <<todo, offered, skipped>>
  /\ DiskAsItWas

(* The job is made, unless nothing was found.                              *)
Expanded ==
  /\ job = "expanding" /\ todo = <<>>
  /\ job' = IF offered = {} THEN "refused" ELSE Sending
  /\ UNCHANGED <<todo, offered, skipped>>
  /\ DiskAsItWas

-----------------------------------------------------------------------------
(* The worker: uploadOne.                                                  *)

Uploading(o) ==
  /\ job = Sending /\ o \in offered \ taken
  /\ UNCHANGED <<diskVars, walkVars, item, todo, offered, skipped>>

(* Mutant: an empty file, sent with an unknown length, is not taken.       *)
FitsUnlessEmpty(o) == Opens(o.path) /\ size[Leads(o.path)] = o.bytes /\ o.bytes > 0

(* The file is opened again.  One that is longer than declared usually     *)
(* breaks the request, but the receiver may have its bytes and answer      *)
(* first; a declared 0 is sent as an unknown length.                       *)
Fits(o) == Opens(o.path) /\ size[Leads(o.path)] = o.bytes
Exceeds(o) == Opens(o.path) /\ size[Leads(o.path)] > o.bytes /\ o.bytes > 0

Upload(o) ==
  /\ Uploading(o) /\ (Fits(o) \/ Exceeds(o))
  /\ taken' = taken \union {o}
  /\ job' = IF taken' = offered THEN Done ELSE job
  /\ UNCHANGED <<culprit, unread>>

(* The job fails with the file: what is there is not what was declared, or *)
(* the disk refuses to open or to read it, which its listing did not show. *)
(* That a receiver or the network fails it is Send's part.                 *)
FailWith(o) ==
  /\ job' = Failed /\ culprit' = {o}
  /\ UNCHANGED taken
UploadFails(o) ==
  /\ Uploading(o) /\ ~Fits(o)
  /\ FailWith(o) /\ UNCHANGED unread
UploadRefused(o) ==
  /\ Uploading(o) /\ Opens(o.path)
  /\ FailWith(o) /\ unread' = unread \union {o}

-----------------------------------------------------------------------------
Expand(path) == ExpandFolder(path) \/ ExpandFile(path) \/ ExpandFails(path)
ExpandNext == Expanded \/ (todo # <<>> /\ Expand(Head(todo)))
Ended == job \in {"refused", Done, Failed} /\ UNCHANGED basketVars

BasketNext ==
  \/ \E p \in Place : Create(p) \/ Write(p) \/ Delete(p) \/ Request(p)
  \/ ExpandNext \/ (todo # <<>> /\ ReadRefused(Head(todo)))
  \/ \E o \in offered : Upload(o) \/ UploadFails(o) \/ UploadRefused(o)
  \/ Ended

BasketSpec == BasketInit /\ [][BasketNext]_basketVars

(* The request's own goroutine runs on.                                    *)
FairBasket == BasketSpec /\ WF_basketVars(ExpandNext)

-----------------------------------------------------------------------------
(* The path leads where it led when the request came in.                   *)
Untouched(path) == path = Root \/ {At(path), Leads(path)} \intersect changed = {}

(* What is in the item's folder all the while is offered, whatever comes   *)
(* and goes beside it, unless it is, or lies in, an entry that the disk    *)
(* would not describe (shares.go:153-156: nobody is told of those).        *)
NothingLeftOut ==
  job \in {Sending, Done, Failed} /\ Untouched(item) =>
    \A p \in Place \ changed :
      fs[p] = Plain /\ IsPrefix(Leads(item), p) =>
        \/ \E o \in offered : Leads(o.path) = p
        \/ \E q \in skipped : IsPrefix(q, p)

(* No file is offered twice: links, which may lead back up, are offered    *)
(* and not walked.                                                         *)
OfferedOnce ==
  \A o, q \in {f \in offered : ~f.link /\ Untouched(f.path)} :
    Leads(o.path) = Leads(q.path) => o = q

(* A file of the share fails its job only if another user touched it       *)
(* between its listing and its upload, or the disk refused to open or read *)
(* it.  A link may fail it at any time: it is declared with its own length *)
(* and may lead to a folder.                                               *)
UploadFailsForAReason ==
  \A o \in culprit : o.link \/ ~Untouched(o.path) \/ o \in unread

(* Expansion ends, also in a share whose links go in circles.              *)
ExpansionEnds == job = "expanding" ~> job # "expanding"
=============================================================================
