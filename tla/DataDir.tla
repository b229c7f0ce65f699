------------------------------ MODULE DataDir ------------------------------
(***************************************************************************)
(* What the program keeps in its data directory, and how it starts from    *)
(* it: the certificate and key of internal/identity/identity.go and the    *)
(* settings of internal/settings/settings.go, loaded by main.go in turn.   *)
(*                                                                         *)
(* os.WriteFile opens a file, which empties it, and then writes it: the    *)
(* process may die, or the disk fill up, between the two.  Of the settings *)
(* only the countdown's length is kept, the one field that is checked.     *)
(***************************************************************************)
EXTENDS Naturals

CONSTANTS
  Id,         (* key pairs that generate may come up with                  *)
  Updater,    (* requests that change the settings                         *)
  Asked,      (* the lengths that users ask for                            *)
  Default, MinTimeout, MaxTimeout,
  MaxCrashes, (* bound: how often the process is killed                    *)
  None, Missing, Empty, Garbled

(* A file that is not there, was only opened, or was not written to its   *)
(* end or by two at once.                                                  *)
NoData == {Missing, Empty, Garbled}

ASSUME DataDirAssumption ==
  /\ Asked \subseteq Nat
  /\ {Default, MinTimeout, MaxTimeout} \subseteq Nat
  /\ MinTimeout <= Default /\ Default <= MaxTimeout
  /\ MaxCrashes \in Nat
  /\ None \notin Id \union NoData
  /\ Missing \notin {Empty, Garbled} /\ NoData \intersect (Id \union Nat) = {}

VARIABLES
  phase,      (* where main is                                             *)
  cert, key,  (* the two files: no data, or whose pair it is               *)
  id,         (* the identity in memory                                    *)
  file,       (* settings.json                                             *)
  mem,        (* the settings in force                                     *)
  pc,         (* Update: where each request is                             *)
  want,       (* Update: the settings it saves, clamped                    *)
  announced,  (* history: the identity that peers have last seen           *)
  rivals,     (* history: what other requests wanted while one ran         *)
  legit,      (* history: the settings that a user may expect to find      *)
  torn,       (* history: a write failed, was cut off, or met another one  *)
  crashes

idVars == <<cert, key, id, announced>>
setVars == <<file, mem, pc, want, rivals, legit>>
vars == <<phase, idVars, setVars, torn, crashes>>

Starting == {"identity", "openCert", "writeCert", "openKey", "writeKey", "shares", "settings"}

Stopped == {"down", "exited", "noShares"}

TypeOK ==
  /\ phase \in Starting \union Stopped \union {"up"}
  /\ cert \in Id \union NoData
  /\ key \in Id \union NoData
  /\ id \in Id \union {None}
  /\ file \in Nat \union NoData
  /\ mem \in MinTimeout .. MaxTimeout
  /\ pc \in [Updater -> {"new", "open", "write", "adopt", "over"}]
  /\ want \in [Updater -> MinTimeout .. MaxTimeout]
  /\ announced \in Id \union {None}
  /\ rivals \in [Updater -> SUBSET (MinTimeout .. MaxTimeout)]
  /\ legit \in SUBSET (MinTimeout .. MaxTimeout)
  /\ torn \in BOOLEAN
  /\ crashes \in 0 .. MaxCrashes

Init ==
  /\ phase = "identity"
  /\ cert = Missing /\ key = Missing /\ id = None /\ announced = None
  /\ file = Missing /\ mem = Default
  /\ pc = [u \in Updater |-> "new"]
  /\ want = [u \in Updater |-> Default]
  /\ rivals = [u \in Updater |-> {}]
  /\ legit = {Default}
  /\ torn = FALSE
  /\ crashes = 0

-----------------------------------------------------------------------------
(* identity.Load.                                                          *)

Enter(from, to) == phase = from /\ phase' = to

(* A pair that is complete is used again.                                  *)
Reuse ==
  /\ Enter("identity", "shares")
  /\ cert \in Id /\ key = cert
  /\ id' = cert
  /\ UNCHANGED <<cert, key, announced, setVars, torn, crashes>>

(* If one of the files does not exist, a new pair is made.                 *)
Generate ==
  /\ Enter("identity", "openCert")
  /\ Missing \in {cert, key}
  /\ \E i \in Id \ {announced, cert, key} : id' = i
  /\ UNCHANGED <<cert, key, announced, setVars, torn, crashes>>

(* A file that does not parse, or the files of two pairs: main exits.      *)
BadPair ==
  /\ Enter("identity", "exited")
  /\ Missing \notin {cert, key} /\ ~(cert \in Id /\ key = cert)
  /\ UNCHANGED <<idVars, setVars, torn, crashes>>

OpenCert ==
  /\ Enter("openCert", "writeCert")
  /\ cert' = Empty
  /\ UNCHANGED <<key, id, announced, setVars, torn, crashes>>
WriteCert ==
  /\ Enter("writeCert", "openKey")
  /\ cert' = id
  /\ UNCHANGED <<key, id, announced, setVars, torn, crashes>>
OpenKey ==
  /\ Enter("openKey", "writeKey")
  /\ key' = Empty
  /\ UNCHANGED <<cert, id, announced, setVars, torn, crashes>>
WriteKey ==
  /\ Enter("writeKey", "shares")
  /\ key' = id
  /\ UNCHANGED <<cert, id, announced, setVars, torn, crashes>>

(* Mutant: an identity that could not be saved is used all the same.       *)
GoOnUnsaved ==
  /\ \E at \in {"openCert", "writeCert", "openKey", "writeKey"} : Enter(at, "shares")
  /\ torn' = TRUE
  /\ UNCHANGED <<idVars, setVars, crashes>>

(* A file cannot be opened, or not be written to its end.                  *)
SaveFails ==
  /\ \E at \in {"openCert", "writeCert", "openKey", "writeKey"} : Enter(at, "exited")
  /\ torn' = TRUE
  /\ UNCHANGED <<idVars, setVars, crashes>>

-----------------------------------------------------------------------------
(* The rest of main: the shares, the settings, and the servers.            *)
SharesFound ==
  /\ Enter("shares", "settings")
  /\ UNCHANGED <<idVars, setVars, torn, crashes>>
SharesMissing ==
  /\ Enter("shares", "noShares")
  /\ UNCHANGED <<idVars, setVars, torn, crashes>>

Clamp(v) == IF v < MinTimeout THEN MinTimeout ELSE IF v > MaxTimeout THEN MaxTimeout ELSE v

LoadFrom(timeout) ==
  /\ Enter("settings", "up")
  /\ mem' = timeout
  /\ announced' = id
  /\ UNCHANGED <<cert, key, id, file, pc, want, rivals, legit, torn, crashes>>

(* Mutant: what was written by hand is taken as it is.                     *)
LoadUnchecked == file \in Nat /\ LoadFrom(file)

(* settings.Load, and then the servers run and the node announces itself.  *)
LoadSettings == file \in Nat /\ LoadFrom(Clamp(file))
LoadDefaults == file = Missing /\ LoadFrom(Default)

(* Mutant: a first start is not told from a broken file.                   *)
NoSettings ==
  /\ Enter("settings", "exited")
  /\ file \in NoData
  /\ UNCHANGED <<idVars, setVars, torn, crashes>>

(* A file that does not parse: main exits.                                 *)
BadSettings ==
  /\ Enter("settings", "exited")
  /\ file \in {Empty, Garbled}
  /\ UNCHANGED <<idVars, setVars, torn, crashes>>

-----------------------------------------------------------------------------
(* settings.Update.                                                        *)

InFlight == {u \in Updater : pc[u] \notin {"new", "over"}}
Update(u, from, to) ==
  /\ phase = "up" /\ pc[u] = from
  /\ pc' = [pc EXCEPT ![u] = to]
  /\ UNCHANGED <<phase, idVars, crashes>>

AskFor(u, v) ==
  /\ Update(u, "new", "open")
  /\ want' = [want EXCEPT ![u] = Clamp(v)]
  /\ rivals' = [w \in Updater |-> IF w = u THEN {want[x] : x \in InFlight}
                                 ELSE IF w \in InFlight THEN rivals[w] \union {Clamp(v)}
                                 ELSE rivals[w]]
  /\ UNCHANGED <<file, mem, legit, torn>>

OpenFile(u) ==
  /\ Update(u, "open", "write")
  /\ file' = Empty
  /\ UNCHANGED <<mem, want, rivals, legit, torn>>

(* What another request wrote since may be longer and stick out.           *)
WriteFile(u) ==
  /\ Update(u, "write", "adopt")
  /\ \/ file' = want[u] /\ UNCHANGED torn
     \/ file \notin {Empty, want[u]} /\ file' = Garbled /\ torn' = TRUE
  /\ UNCHANGED <<mem, want, rivals, legit>>

(* Mutant: the settings are in force before they are saved.                *)
FailAndAdopt(u) ==
  /\ \/ Update(u, "open", "over") /\ UNCHANGED file
     \/ Update(u, "write", "over") /\ file' \in {file, Garbled}
  /\ torn' = TRUE
  /\ mem' = want[u]
  /\ UNCHANGED <<want, rivals, legit>>

(* The user is told that it failed.                                        *)
WriteFails(u) ==
  /\ \/ Update(u, "open", "over") /\ UNCHANGED file
     \/ Update(u, "write", "over") /\ file' \in {file, Garbled}
  /\ torn' = TRUE
  /\ UNCHANGED <<mem, want, rivals, legit>>

Adopt(u) ==
  /\ Update(u, "adopt", "over")
  /\ mem' = want[u]
  /\ legit' = {want[u]} \union rivals[u]
  /\ UNCHANGED <<file, want, rivals, torn>>

-----------------------------------------------------------------------------
(* The process dies; somebody may edit the settings and starts it again.   *)
Crash ==
  /\ phase \notin Stopped /\ crashes < MaxCrashes
  /\ phase' = "down"
  /\ crashes' = crashes + 1
  /\ torn' = (torn \/ phase \in {"writeCert", "writeKey"} \/ \E u \in Updater : pc[u] = "write")
  /\ legit' = legit \union {want[u] : u \in InFlight}
  /\ pc' = [u \in Updater |-> IF u \in InFlight THEN "over" ELSE pc[u]]
  /\ UNCHANGED <<idVars, file, mem, want, rivals>>

EditByHand(v) ==
  /\ phase \in Stopped
  /\ file' = v
  /\ legit' = {Clamp(v)}
  /\ UNCHANGED <<phase, idVars, mem, pc, want, rivals, torn, crashes>>

Start ==
  /\ phase \in Stopped
  /\ phase' = "identity"
  /\ id' = None
  /\ UNCHANGED <<cert, key, announced, setVars, torn, crashes>>

-----------------------------------------------------------------------------
IdentityStep ==
  Reuse \/ Generate \/ BadPair \/ OpenCert \/ WriteCert \/ OpenKey \/ WriteKey \/ SaveFails
SettingsStep == LoadSettings \/ LoadDefaults \/ BadSettings
UpdateStep(u) ==
  (\E v \in Asked : AskFor(u, v)) \/ OpenFile(u) \/ WriteFile(u) \/ WriteFails(u) \/ Adopt(u)

(* The servers run and nobody asks for anything.                           *)
Rest == phase = "up" /\ InFlight = {} /\ UNCHANGED vars

Next ==
  \/ IdentityStep \/ SharesFound \/ SharesMissing \/ SettingsStep
  \/ \E u \in Updater : UpdateStep(u)
  \/ Crash \/ Start
  \/ \E v \in Asked : EditByHand(v)
  \/ Rest

Spec == Init /\ [][Next]_vars

-----------------------------------------------------------------------------
(* identity_test.go:9, "Fingerprint must stay stable across restarts":     *)
(* what peers were once shown never changes, wherever earlier starts died  *)
(* between the two files, and whatever save failed.                        *)
IdentityStays ==
  [][announced # None => announced' = announced]_vars

(* settings.go:65, "validates (clamps), persists": in force is always, and *)
(* on the disk whenever the file is whole, what the last update asked for, *)
(* or one that ran together with it, or one that the process died in.      *)
SettingsKept ==
  /\ phase = "up" => mem \in legit
  /\ file \in Nat => Clamp(file) \in legit \union {want[u] : u \in InFlight}

(* The program only refuses to start from its files when a write of one    *)
(* failed, was cut off or met another: a death at any other moment, and a  *)
(* first start that got half way, are made up for.                         *)
StartsUnlessTorn == phase = "exited" => torn
=============================================================================
