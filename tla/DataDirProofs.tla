--------------------------- MODULE DataDirProofs ---------------------------
(***************************************************************************)
(* Proofs about DataDir, for any number of updates, restarts and edits.    *)
(* DataDirInv is the inductive invariant: what the two files of the        *)
(* identity can be, and whose settings the file can hold.                  *)
(***************************************************************************)
EXTENDS DataDir, TLAPS

Range == MinTimeout .. MaxTimeout

(* The certificate is written first, so a key means that it is the pair's; *)
(* and a pair that is complete is never written again.                     *)
CertFirst ==
  /\ cert = Missing => key = Missing
  /\ key \in Id => cert = key
  /\ phase \in {"openCert", "writeCert", "openKey"} => key = Missing
  /\ phase \in {"openCert", "writeCert", "openKey", "writeKey"} => id \in Id /\ announced = None
  /\ phase \in {"openKey", "writeKey"} => cert = id
  /\ phase \in {"shares", "settings", "up"} => id \in Id /\ cert = id /\ key = id
ShownKept == announced # None => cert = announced /\ key = announced
IdInv == CertFirst /\ ShownKept

(* Files are only unreadable while they are written, or torn.              *)
Readable ==
  /\ key \in {Empty, Garbled} => torn \/ phase = "writeKey"
  /\ file \in {Empty, Garbled} => torn \/ \E u \in Updater : pc[u] = "write"
  /\ StartsUnlessTorn

(* Updates run while the servers do, and know of each other.               *)
Overlapping ==
  /\ InFlight # {} => phase = "up"
  /\ \A u, v \in InFlight : u # v => want[v] \in rivals[u]
  /\ \A u \in Updater : pc[u] \in {"write", "adopt"} => file # Missing

(* Whose settings the file holds.                                          *)
Saved == {u \in Updater : pc[u] = "adopt"}
FromLegit ==
  /\ phase = "up" => mem \in legit
  /\ file = Missing => Default \in legit
  /\ file \in Nat => Clamp(file) \in legit \union {want[u] : u \in Saved}
  /\ \A u \in Saved : file \in Nat => Clamp(file) \in {want[u]} \union rivals[u]

DataDirInv == IdInv /\ Readable /\ Overlapping /\ FromLegit

-----------------------------------------------------------------------------
LEMMA ClampInRange ==
  ASSUME NEW v \in Nat
  PROVE  Clamp(v) \in Range /\ (v \in Range => Clamp(v) = v)
BY DataDirAssumption DEF DataDirAssumption, Clamp, Range

LEMMA RangeIsNat == Range \subseteq Nat /\ Default \in Range
BY DataDirAssumption DEF DataDirAssumption, Range

(* The steps, sorted by what they leave alone.                             *)
Saving == OpenCert \/ WriteCert \/ OpenKey \/ WriteKey \/ SaveFails
Going == Reuse \/ Generate \/ BadPair \/ SharesFound \/ SharesMissing \/ BadSettings \/ Start
Loading == LoadSettings \/ LoadDefaults
Updating(u) == (\E v \in Asked : AskFor(u, v)) \/ OpenFile(u) \/ WriteFile(u) \/ WriteFails(u) \/ Adopt(u)

LEMMA NextSteps ==
  ASSUME [Next]_vars
  PROVE  Saving \/ Going \/ Loading \/ Crash \/ (\E u \in Updater : Updating(u))
         \/ (\E v \in Asked : EditByHand(v)) \/ UNCHANGED vars
BY DEF Next, IdentityStep, SettingsStep, UpdateStep, Saving, Going, Loading, Updating, Rest

LEMMA SavingKeeps == ASSUME Saving PROVE UNCHANGED setVars
BY DEF Saving, OpenCert, WriteCert, OpenKey, WriteKey, SaveFails

LEMMA UpdatingKeeps ==
  ASSUME NEW u \in Updater, Updating(u)
  PROVE  UNCHANGED <<phase, idVars>> /\ phase = "up"
BY DEF Updating, AskFor, OpenFile, WriteFile, WriteFails, Adopt, Update

-----------------------------------------------------------------------------
(* Types.                                                                  *)
LEMMA InitTyped == Init => TypeOK
<1> SUFFICES ASSUME Init PROVE TypeOK
  OBVIOUS
<1>1. phase \in Starting /\ cert \in NoData /\ key \in NoData /\ file \in NoData
  BY DEF Init, Starting, NoData
<1>2. mem \in MinTimeout .. MaxTimeout /\ legit \in SUBSET (MinTimeout .. MaxTimeout)
  BY RangeIsNat DEF Init, Range
<1>3. want \in [Updater -> MinTimeout .. MaxTimeout]
  BY RangeIsNat DEF Init, Range
<1>4. rivals \in [Updater -> SUBSET (MinTimeout .. MaxTimeout)]
  BY DEF Init
<1>5. pc \in [Updater -> {"new", "open", "write", "adopt", "over"}]
  BY DEF Init
<1>6. crashes \in 0 .. MaxCrashes
  BY DataDirAssumption DEF Init, DataDirAssumption
<1>7. id \in {None} /\ announced \in {None} /\ torn \in BOOLEAN
  BY DEF Init
<1> QED
  BY <1>1, <1>2, <1>3, <1>4, <1>5, <1>6, <1>7 DEF TypeOK

LEMMA UpdatingTyped ==
  ASSUME TypeOK, NEW u \in Updater, Updating(u)
  PROVE  TypeOK'
<1>1. UNCHANGED <<phase, idVars, crashes>>
  BY DEF Updating, AskFor, OpenFile, WriteFile, WriteFails, Adopt, Update
<1>2. ASSUME NEW v \in Asked, AskFor(u, v)
      PROVE  TypeOK'
  <2>1. Clamp(v) \in MinTimeout .. MaxTimeout
    BY ClampInRange, DataDirAssumption DEF DataDirAssumption, Range
  <2>2. want' \in [Updater -> MinTimeout .. MaxTimeout]
    BY <1>2, <2>1 DEF AskFor, TypeOK
  <2>3. rivals' \in [Updater -> SUBSET (MinTimeout .. MaxTimeout)]
    BY <1>2, <2>1 DEF AskFor, TypeOK, InFlight
  <2>4. pc' \in [Updater -> {"new", "open", "write", "adopt", "over"}]
    BY <1>2 DEF AskFor, Update, TypeOK
  <2> QED
    BY <1>1, <1>2, <2>2, <2>3, <2>4 DEF AskFor, TypeOK, idVars
<1>3. CASE OpenFile(u)
  BY <1>1, <1>3 DEF OpenFile, Update, TypeOK, idVars, NoData
<1>4. CASE WriteFile(u)
  <2>1. want[u] \in Nat
    BY RangeIsNat DEF TypeOK, Range
  <2>2. file' \in Nat \union NoData /\ torn' \in BOOLEAN
    BY <1>4, <2>1 DEF WriteFile, TypeOK, NoData
  <2>3. pc' \in [Updater -> {"new", "open", "write", "adopt", "over"}]
    BY <1>4 DEF WriteFile, Update, TypeOK
  <2> QED
    BY <1>1, <1>4, <2>2, <2>3 DEF WriteFile, TypeOK, idVars
<1>5. CASE WriteFails(u)
  <2>1. file' \in Nat \union NoData
    BY <1>5 DEF WriteFails, TypeOK, NoData
  <2>2. pc' \in [Updater -> {"new", "open", "write", "adopt", "over"}]
    BY <1>5 DEF WriteFails, Update, TypeOK
  <2> QED
    BY <1>1, <1>5, <2>1, <2>2 DEF WriteFails, TypeOK, idVars
<1>6. CASE Adopt(u)
  <2>1. pc' \in [Updater -> {"new", "open", "write", "adopt", "over"}]
    BY <1>6 DEF Adopt, Update, TypeOK
  <2>2. mem' \in MinTimeout .. MaxTimeout /\ legit' \in SUBSET (MinTimeout .. MaxTimeout)
    BY <1>6 DEF Adopt, TypeOK
  <2> QED
    BY <1>1, <1>6, <2>1, <2>2 DEF Adopt, TypeOK, idVars
<1> QED
  BY <1>2, <1>3, <1>4, <1>5, <1>6 DEF Updating

LEMMA CrashTyped ==
  ASSUME TypeOK, Crash
  PROVE  TypeOK'
<1>1. legit' \in SUBSET (MinTimeout .. MaxTimeout)
  BY DEF Crash, TypeOK, InFlight
<1>2. pc' \in [Updater -> {"new", "open", "write", "adopt", "over"}]
  BY DEF Crash, TypeOK
<1>3. crashes' \in 0 .. MaxCrashes
  BY DataDirAssumption DEF Crash, TypeOK, DataDirAssumption
<1>4. torn' \in BOOLEAN /\ phase' = "down" /\ UNCHANGED <<idVars, file, mem, want, rivals>>
  BY Zenon DEF Crash
<1> QED
  BY <1>1, <1>2, <1>3, <1>4 DEF TypeOK, idVars, Stopped

LEMMA NextTyped ==
  ASSUME TypeOK, CertFirst, [Next]_vars
  PROVE  TypeOK'
<1>1. CASE Saving
  <2>1. UNCHANGED setVars
    BY <1>1, SavingKeeps
  <2> QED
    <3>1. cert' \in Id \union NoData /\ key' \in Id \union NoData /\ UNCHANGED <<announced, crashes, id>>
      BY <1>1 DEF Saving, OpenCert, WriteCert, OpenKey, WriteKey, SaveFails, Enter, TypeOK,
         CertFirst, NoData, idVars
    <3>2. phase' \in Starting \union Stopped
      BY <1>1 DEF Saving, OpenCert, WriteCert, OpenKey, WriteKey, SaveFails, Enter, Starting, Stopped
    <3>3. torn' \in BOOLEAN
      BY <1>1 DEF Saving, OpenCert, WriteCert, OpenKey, WriteKey, SaveFails, TypeOK
    <3> QED
      BY <2>1, <3>1, <3>2, <3>3 DEF TypeOK, setVars
<1>2. CASE Going
  BY <1>2 DEF Going, Reuse, Generate, BadPair, SharesFound, SharesMissing, BadSettings, Start, Enter,
     TypeOK, Starting, Stopped, setVars, idVars
<1>3. CASE Loading
  <2>1. mem' \in MinTimeout .. MaxTimeout
    BY <1>3, ClampInRange, RangeIsNat DEF Loading, LoadSettings, LoadDefaults, LoadFrom, Range
  <2>2. phase' = "up" /\ announced' = id /\ UNCHANGED <<cert, key, id, file, pc, want, rivals, legit, torn, crashes>>
    BY <1>3 DEF Loading, LoadSettings, LoadDefaults, LoadFrom, Enter
  <2> QED
    BY <2>1, <2>2 DEF TypeOK
<1>4. CASE Crash
  BY <1>4, CrashTyped
<1>5. ASSUME NEW u \in Updater, Updating(u)
      PROVE  TypeOK'
  BY <1>5, UpdatingTyped
<1>6. ASSUME NEW v \in Asked, EditByHand(v)
      PROVE  TypeOK'
  <2>1. v \in Nat /\ Clamp(v) \in MinTimeout .. MaxTimeout
    BY ClampInRange, DataDirAssumption DEF DataDirAssumption, Range
  <2> QED
    BY <1>6, <2>1 DEF EditByHand, TypeOK, idVars
<1>7. CASE UNCHANGED vars
  BY <1>7 DEF vars, idVars, setVars, TypeOK
<1> QED
  BY NextSteps, <1>1, <1>2, <1>3, <1>4, <1>5, <1>6, <1>7

-----------------------------------------------------------------------------
(* The identity: only the steps of main touch it.                          *)

LEMMA NextCertFirst ==
  ASSUME TypeOK, IdInv, [Next]_vars
  PROVE  IdInv'
<1>1. CASE OpenCert \/ WriteCert
  BY <1>1, DataDirAssumption DEF OpenCert, WriteCert, Enter, IdInv, CertFirst, ShownKept, TypeOK, NoData,
     DataDirAssumption
<1>2. CASE OpenKey \/ WriteKey
  BY <1>2, DataDirAssumption DEF OpenKey, WriteKey, Enter, IdInv, CertFirst, ShownKept, TypeOK, NoData,
     DataDirAssumption
<1>3. CASE Generate
  <2>1. key = Missing /\ announced = None
    BY <1>3, DataDirAssumption DEF Generate, IdInv, CertFirst, ShownKept, TypeOK, NoData, DataDirAssumption
  <2>2. phase' = "openCert" /\ id' \in Id /\ UNCHANGED <<cert, key, announced>>
    BY <1>3 DEF Generate, Enter
  <2> QED
    BY <2>1, <2>2 DEF IdInv, CertFirst, ShownKept
<1>4. CASE Reuse
  <2>1. phase' = "shares" /\ id' = cert /\ cert \in Id /\ key = cert /\ UNCHANGED <<cert, key, announced>>
    BY <1>4 DEF Reuse, Enter
  <2> QED
    BY <2>1 DEF IdInv, CertFirst, ShownKept
<1>5. CASE Loading
  <2>1. phase = "settings" /\ phase' = "up" /\ announced' = id /\ UNCHANGED <<cert, key, id>>
    BY <1>5 DEF Loading, LoadSettings, LoadDefaults, LoadFrom, Enter
  <2> QED
    BY <2>1 DEF IdInv, CertFirst, ShownKept
<1>6. CASE SharesFound \/ SharesMissing \/ BadPair \/ BadSettings \/ SaveFails
  <2>1. UNCHANGED idVars /\ ((phase = "shares" /\ phase' = "settings") \/ phase' \in Stopped)
    BY <1>6 DEF SharesFound, SharesMissing, BadPair, BadSettings, SaveFails, Enter, Stopped
  <2> QED
    BY <2>1 DEF IdInv, CertFirst, ShownKept, idVars, Stopped
<1>7. CASE Start
  <2>1. phase' = "identity" /\ UNCHANGED <<cert, key, announced>>
    BY <1>7 DEF Start
  <2> QED
    BY <2>1 DEF IdInv, CertFirst, ShownKept
<1>8. CASE Crash
  <2>1. phase' = "down" /\ UNCHANGED idVars
    BY <1>8 DEF Crash
  <2> QED
    BY <2>1 DEF IdInv, CertFirst, ShownKept, idVars
<1>9. ASSUME NEW u \in Updater, Updating(u)
      PROVE  IdInv'
  <2>1. UNCHANGED <<phase, idVars>>
    BY <1>9, UpdatingKeeps
  <2> QED
    BY <2>1 DEF IdInv, CertFirst, ShownKept, idVars
<1>10. ASSUME NEW v \in Asked, EditByHand(v)
       PROVE  IdInv'
  BY <1>10 DEF EditByHand, IdInv, CertFirst, ShownKept, idVars
<1>11. CASE UNCHANGED vars
  BY <1>11 DEF vars, IdInv, CertFirst, ShownKept, idVars
<1> QED
  BY NextSteps, <1>1, <1>2, <1>3, <1>4, <1>5, <1>6, <1>7, <1>8, <1>9, <1>10, <1>11 DEF Saving, Going

LEMMA StepShows ==
  ASSUME TypeOK, IdInv, [Next]_vars
  PROVE  announced # None => announced' = announced
<1>1. CASE Loading
  <2>1. phase = "settings" /\ announced' = id
    BY <1>1 DEF Loading, LoadSettings, LoadDefaults, LoadFrom, Enter
  <2> QED
    BY <2>1 DEF IdInv, CertFirst, ShownKept
<1>2. CASE Saving \/ Going
  BY <1>2 DEF Saving, Going, OpenCert, WriteCert, OpenKey, WriteKey, SaveFails, Reuse, Generate, BadPair,
     SharesFound, SharesMissing, BadSettings, Start, idVars
<1>3. CASE Crash \/ UNCHANGED vars \/ \E v \in Asked : EditByHand(v)
  BY <1>3 DEF Crash, EditByHand, vars, idVars
<1>4. ASSUME NEW u \in Updater, Updating(u)
      PROVE  announced' = announced
  BY <1>4, UpdatingKeeps DEF idVars
<1> QED
  BY NextSteps, <1>1, <1>2, <1>3, <1>4

LEMMA IdInvHolds == Spec => [](TypeOK /\ IdInv)
<1>1. Init => TypeOK /\ IdInv
  BY InitTyped, DataDirAssumption DEF Init, IdInv, CertFirst, ShownKept, DataDirAssumption, NoData
<1>2. TypeOK /\ IdInv /\ [Next]_vars => (TypeOK /\ IdInv)'
  BY NextTyped, NextCertFirst DEF IdInv
<1> QED
  BY <1>1, <1>2, PTL DEF Spec

(* Whatever is written by hand, the settings in force are within bounds,   *)
(* and nothing else leaves its type.                                       *)
THEOREM TypeCorrect == Spec => []TypeOK
BY IdInvHolds, PTL

(* The fingerprint that peers have seen is the node's for ever: a pair is  *)
(* only made while a file is missing, and the certificate, which is        *)
(* written first, is then not yet any peer's.                              *)
THEOREM IdentityIsKept == Spec => IdentityStays
<1>1. TypeOK /\ IdInv /\ [Next]_vars => [announced # None => announced' = announced]_vars
  BY StepShows
<1> QED
  BY <1>1, IdInvHolds, PTL DEF Spec, IdentityStays

-----------------------------------------------------------------------------
(* The settings: what main does, apart from loading them, is no concern of *)
(* theirs while no update runs.                                            *)
LEMMA QuietUnlessUp ==
  ASSUME TypeOK, Overlapping, phase # "up"
  PROVE  InFlight = {} /\ Saved = {} /\ \A u \in Updater : pc[u] # "write"
BY DEF TypeOK, Overlapping, InFlight, Saved

LEMMA MainOverlaps ==
  ASSUME TypeOK, Overlapping, Saving \/ Going \/ Loading
  PROVE  Overlapping'
<1>1. phase # "up"
  BY DEF Saving, OpenCert, WriteCert, OpenKey, WriteKey, SaveFails, Going, Reuse, Generate, BadPair,
     SharesFound, SharesMissing, BadSettings, Start, Loading, LoadSettings, LoadDefaults, LoadFrom,
     Enter, Stopped
<1>2. UNCHANGED <<file, pc, want, rivals>>
  BY DEF Saving, OpenCert, WriteCert, OpenKey, WriteKey, SaveFails, Going, Reuse, Generate, BadPair,
     SharesFound, SharesMissing, BadSettings, Start, Loading, LoadSettings, LoadDefaults, LoadFrom, setVars
<1>3. InFlight = {} /\ InFlight' = {}
  BY <1>1, <1>2, QuietUnlessUp DEF InFlight
<1> QED
  BY <1>2, <1>3 DEF Overlapping

LEMMA MainKeepsSettings ==
  ASSUME TypeOK, Overlapping, FromLegit, Saving \/ Going \/ Loading
  PROVE  Overlapping' /\ FromLegit'
<1>1. CASE Loading
  <2>1. phase = "settings" /\ phase' = "up" /\ UNCHANGED <<file, pc, want, rivals, legit>>
    BY <1>1 DEF Loading, LoadSettings, LoadDefaults, LoadFrom, Enter
  <2>2. (mem' = Clamp(file) /\ file \in Nat) \/ (mem' = Default /\ file = Missing)
    BY <1>1 DEF Loading, LoadSettings, LoadDefaults, LoadFrom
  <2>3. Saved = {} /\ Saved' = {}
    BY <2>1, QuietUnlessUp DEF Saved
  <2>4. mem' \in legit
    BY <2>2, <2>3 DEF FromLegit
  <2>5. FromLegit'
    BY <2>1, <2>3, <2>4 DEF FromLegit
  <2> QED
    BY <2>5, MainOverlaps, <1>1
<1>2. CASE (Saving \/ Going) /\ ~Loading
  <2>1. UNCHANGED setVars /\ Overlapping'
    BY <1>2, MainOverlaps DEF Saving, OpenCert, WriteCert, OpenKey, WriteKey, SaveFails, Going, Reuse, Generate,
       BadPair, SharesFound, SharesMissing, BadSettings, Start
  <2>2. phase # "up" /\ phase' # "up"
    BY <1>2 DEF Saving, OpenCert, WriteCert, OpenKey, WriteKey, SaveFails, Going, Reuse, Generate, BadPair,
       SharesFound, SharesMissing, BadSettings, Start, Enter, Stopped
  <2>3. UNCHANGED Saved
    BY <2>1 DEF setVars, Saved
  <2> QED
    BY <2>1, <2>2, <2>3 DEF FromLegit, setVars
<1> QED
  BY <1>1, <1>2

(* A request starts: the others learn what it wants, and it what they do.  *)
LEMMA AskForKeeps ==
  ASSUME TypeOK, Overlapping, FromLegit, NEW u \in Updater, NEW v \in Asked, AskFor(u, v)
  PROVE  Overlapping' /\ FromLegit'
<1>1. phase = "up" /\ UNCHANGED <<phase, file, mem, legit>> /\ pc[u] = "new"
  BY DEF AskFor, Update
<1>2. pc' = [pc EXCEPT ![u] = "open"] /\ want' = [want EXCEPT ![u] = Clamp(v)]
  BY DEF AskFor, Update
<1>3. rivals' = [w \in Updater |-> IF w = u THEN {want[x] : x \in InFlight}
                                  ELSE IF w \in InFlight THEN rivals[w] \union {Clamp(v)}
                                  ELSE rivals[w]]
  BY DEF AskFor
<1>4. u \notin InFlight /\ InFlight' = InFlight \union {u} /\ Saved' = Saved /\ Saved \subseteq InFlight
  BY <1>1, <1>2 DEF InFlight, Saved, TypeOK
<1>5. \A w \in InFlight : want'[w] = want[w] /\ rivals'[w] = rivals[w] \union {Clamp(v)}
  BY <1>2, <1>3, <1>4 DEF InFlight, TypeOK
<1>6. want'[u] = Clamp(v) /\ rivals'[u] = {want[x] : x \in InFlight}
  BY <1>2, <1>3 DEF TypeOK
<1>7. Overlapping'
  <2>1. \A w, x \in InFlight' : w # x => want'[x] \in rivals'[w]
    BY <1>4, <1>5, <1>6 DEF Overlapping
  <2>2. \A w \in Updater : pc'[w] \in {"write", "adopt"} => file' # Missing
    BY <1>1, <1>2 DEF Overlapping, TypeOK
  <2> QED
    BY <1>1, <2>1, <2>2 DEF Overlapping
<1>8. FromLegit'
  <2>1. \A w \in Saved : want'[w] = want[w] /\ rivals[w] \subseteq rivals'[w]
    BY <1>4, <1>5
  <2>2. {want'[w] : w \in Saved'} = {want[w] : w \in Saved}
    BY <1>4, <2>1
  <2> QED
    BY <1>1, <1>4, <2>1, <2>2 DEF FromLegit
<1> QED
  BY <1>7, <1>8

(* A request whose place is all that it changes among the others' business.*)
LEMMA UpdateOverlaps ==
  ASSUME TypeOK, Overlapping, NEW u \in Updater,
         NEW from \in {"open", "write", "adopt"}, NEW to \in {"write", "adopt", "over"},
         Update(u, from, to), UNCHANGED <<want, rivals>>,
         file' # Missing \/ (file' = file /\ to = "over")
  PROVE  Overlapping'
<1>1. phase = "up" /\ phase' = phase /\ pc' = [pc EXCEPT ![u] = to] /\ pc[u] = from
  BY DEF Update
<1>2. InFlight' \subseteq InFlight
  BY <1>1 DEF InFlight, TypeOK
<1>3. \A w \in Updater : pc'[w] \in {"write", "adopt"} => file' # Missing
  BY <1>1 DEF Overlapping, TypeOK
<1> QED
  BY <1>1, <1>2, <1>3 DEF Overlapping

LEMMA OpenKeeps ==
  ASSUME TypeOK, Overlapping, FromLegit, NEW u \in Updater, OpenFile(u)
  PROVE  Overlapping' /\ FromLegit'
<1>1. file' = Empty /\ Empty # Missing /\ Empty \notin Nat
  BY DataDirAssumption DEF OpenFile, DataDirAssumption, NoData
<1>2. Update(u, "open", "write") /\ UNCHANGED <<mem, want, rivals, legit>>
  BY DEF OpenFile
<1>3. Overlapping'
  BY <1>1, <1>2, UpdateOverlaps
<1>4. UNCHANGED phase
  BY <1>2 DEF Update
<1> QED
  BY <1>1, <1>2, <1>3, <1>4 DEF FromLegit

LEMMA WriteKeeps ==
  ASSUME TypeOK, Overlapping, FromLegit, NEW u \in Updater, WriteFile(u)
  PROVE  Overlapping' /\ FromLegit'
<1>1. Update(u, "write", "adopt") /\ UNCHANGED <<mem, want, rivals, legit>>
  BY DEF WriteFile
<1>2. want[u] \in Nat /\ Clamp(want[u]) = want[u] /\ Garbled \notin Nat /\ Garbled # Missing /\ Missing \notin Nat
  BY DataDirAssumption, ClampInRange, RangeIsNat DEF TypeOK, DataDirAssumption, NoData, Range
<1>3. file' = want[u] \/ file' = Garbled
  BY DEF WriteFile
<1>4. Overlapping'
  BY <1>1, <1>2, <1>3, UpdateOverlaps
<1>5. phase' = phase /\ pc' = [pc EXCEPT ![u] = "adopt"] /\ pc[u] = "write"
  BY <1>1 DEF Update
<1>6. Saved' = Saved \union {u} /\ u \in InFlight /\ u \notin Saved /\ Saved \subseteq InFlight
  BY <1>5 DEF Saved, InFlight, TypeOK
<1>7. \A w \in Saved : want[u] \in rivals[w]
  BY <1>6 DEF Overlapping
<1>8. file' # Missing
  BY <1>2, <1>3
<1> QED
  BY <1>1, <1>2, <1>3, <1>4, <1>5, <1>6, <1>7, <1>8 DEF FromLegit

LEMMA FailKeeps ==
  ASSUME TypeOK, Overlapping, FromLegit, NEW u \in Updater, WriteFails(u)
  PROVE  Overlapping' /\ FromLegit'
<1>1. UNCHANGED <<mem, want, rivals, legit, phase>>
  BY DEF WriteFails, Update
<1>2. file' = file \/ file' = Garbled
  BY DEF WriteFails
<1>3. Garbled \notin Nat /\ Garbled # Missing
  BY DataDirAssumption DEF DataDirAssumption, NoData
<1>4. Overlapping'
  BY <1>1, <1>2, <1>3, UpdateOverlaps DEF WriteFails
<1>5. Saved' = Saved
  BY DEF WriteFails, Update, Saved, TypeOK
<1> QED
  BY <1>1, <1>2, <1>3, <1>4, <1>5 DEF FromLegit

LEMMA AdoptKeeps ==
  ASSUME TypeOK, Overlapping, FromLegit, NEW u \in Updater, Adopt(u)
  PROVE  Overlapping' /\ FromLegit'
<1>1. Update(u, "adopt", "over") /\ UNCHANGED <<file, want, rivals>>
  BY DEF Adopt
<1>2. mem' = want[u] /\ legit' = {want[u]} \union rivals[u]
  BY DEF Adopt
<1>3. Overlapping'
  BY <1>1, UpdateOverlaps
<1>4. u \in Saved /\ Saved' \subseteq Saved /\ phase' = phase
  BY <1>1 DEF Update, Saved, TypeOK
<1>5. file # Missing
  BY <1>4 DEF Overlapping, Saved
<1>6. file \in Nat => Clamp(file) \in legit'
  BY <1>2, <1>4 DEF FromLegit
<1> QED
  BY <1>1, <1>2, <1>3, <1>4, <1>5, <1>6 DEF FromLegit

LEMMA CrashKeeps ==
  ASSUME TypeOK, Overlapping, FromLegit, Crash
  PROVE  Overlapping' /\ FromLegit'
<1>1. phase' = "down" /\ UNCHANGED <<file, want, rivals>> /\ legit' = legit \union {want[u] : u \in InFlight}
  BY DEF Crash
<1>2. pc' = [u \in Updater |-> IF u \in InFlight THEN "over" ELSE pc[u]]
  BY DEF Crash
<1>3. InFlight' = {} /\ Saved' = {} /\ Saved \subseteq InFlight /\ \A u \in Updater : pc'[u] \notin {"write", "adopt"}
  BY <1>2 DEF InFlight, Saved, TypeOK
<1>4. Overlapping'
  BY <1>3 DEF Overlapping
<1> QED
  BY <1>1, <1>3, <1>4 DEF FromLegit

LEMMA EditKeeps ==
  ASSUME TypeOK, Overlapping, NEW v \in Asked, EditByHand(v)
  PROVE  Overlapping' /\ FromLegit'
<1>1. phase # "up" /\ file' = v /\ legit' = {Clamp(v)} /\ UNCHANGED <<phase, pc, want, rivals>>
  BY DEF EditByHand, Stopped
<1>2. InFlight = {} /\ Saved = {}
  BY <1>1, QuietUnlessUp
<1>3. InFlight' = {} /\ Saved' = {}
  BY <1>1, <1>2 DEF InFlight, Saved
<1>4. v \in Nat /\ v # Missing
  BY DataDirAssumption DEF DataDirAssumption, NoData
<1> QED
  BY <1>1, <1>3, <1>4 DEF Overlapping, FromLegit, InFlight, Saved

LEMMA NextKeepsSettings ==
  ASSUME TypeOK, Overlapping, FromLegit, [Next]_vars
  PROVE  Overlapping' /\ FromLegit'
<1>1. ASSUME NEW u \in Updater, Updating(u)
      PROVE  Overlapping' /\ FromLegit'
  BY <1>1, AskForKeeps, OpenKeeps, WriteKeeps, FailKeeps, AdoptKeeps DEF Updating
<1>2. CASE UNCHANGED vars
  BY <1>2 DEF vars, setVars, Overlapping, FromLegit, InFlight, Saved
<1> QED
  BY NextSteps, <1>1, <1>2, MainKeepsSettings, CrashKeeps, EditKeeps

LEMMA SettingsHold == Spec => [](TypeOK /\ Overlapping /\ FromLegit)
<1>1. Init => Overlapping /\ FromLegit
  BY DataDirAssumption DEF Init, Overlapping, FromLegit, InFlight, Saved, DataDirAssumption, NoData
<1>2. Overlapping /\ FromLegit /\ TypeOK /\ [Next]_vars => (Overlapping /\ FromLegit)'
  BY NextKeepsSettings
<1> QED
  BY <1>1, <1>2, TypeCorrect, PTL DEF Spec

(* Whichever updates overlap, and wherever the process dies, the settings  *)
(* in force and the readable file are some user's: the last to be saved's, *)
(* or of one that ran together with it, or still runs.                     *)
THEOREM SettingsAreKept == Spec => []SettingsKept
<1>1. TypeOK /\ FromLegit => SettingsKept
  BY DEF FromLegit, SettingsKept, Saved, InFlight, TypeOK
<1> QED
  BY <1>1, SettingsHold, PTL

-----------------------------------------------------------------------------
(* What the program finds unreadable was torn.                             *)
LEMMA MainReadable ==
  ASSUME TypeOK, DataDirInv, Saving \/ Going \/ Loading
  PROVE  Readable'
<1>1. UNCHANGED <<file, pc>> /\ phase # "up"
  BY DEF Saving, OpenCert, WriteCert, OpenKey, WriteKey, SaveFails, Going, Reuse, Generate, BadPair,
     SharesFound, SharesMissing, BadSettings, Start, Loading, LoadSettings, LoadDefaults, LoadFrom,
     Enter, Stopped, setVars
<1>2. file \in {Empty, Garbled} => torn
  BY <1>1, QuietUnlessUp DEF DataDirInv, Readable
<1>3. torn => torn'
  BY DEF Saving, OpenCert, WriteCert, OpenKey, WriteKey, SaveFails, Going, Reuse, Generate, BadPair,
     SharesFound, SharesMissing, BadSettings, Start, Loading, LoadSettings, LoadDefaults, LoadFrom
<1>4. key' \in {Empty, Garbled} => torn' \/ phase' = "writeKey"
  <2>1. CASE OpenKey
    BY <2>1 DEF OpenKey, Enter
  <2>2. CASE WriteKey
    <3>1. key' \in Id
      BY <2>2 DEF WriteKey, Enter, DataDirInv, IdInv, CertFirst
    <3> QED
      BY <3>1, DataDirAssumption DEF DataDirAssumption, NoData
  <2>3. CASE SaveFails
    BY <2>3 DEF SaveFails
  <2>4. CASE OpenCert \/ WriteCert \/ Going \/ Loading
    <3>1. key' = key /\ phase # "writeKey"
      BY <2>4 DEF OpenCert, WriteCert, Going, Reuse, Generate, BadPair, SharesFound, SharesMissing,
         BadSettings, Start, Loading, LoadSettings, LoadDefaults, LoadFrom, Enter, Stopped, idVars
    <3> QED
      BY <3>1, <1>3 DEF DataDirInv, Readable
  <2> QED
    BY <2>1, <2>2, <2>3, <2>4 DEF Saving
<1>5. StartsUnlessTorn'
  <2>1. CASE BadPair
    <3>1. key \in {Empty, Garbled}
      BY <2>1 DEF BadPair, TypeOK, NoData, DataDirInv, IdInv, CertFirst
    <3>2. torn
      BY <2>1, <3>1 DEF BadPair, Enter, DataDirInv, Readable
    <3> QED
      BY <3>2, <1>3 DEF StartsUnlessTorn
  <2>2. CASE BadSettings
    BY <2>2, <1>2, <1>3 DEF BadSettings, StartsUnlessTorn
  <2>3. CASE SaveFails
    BY <2>3 DEF SaveFails, StartsUnlessTorn
  <2>4. CASE ~(BadPair \/ BadSettings \/ SaveFails)
    BY <2>4 DEF Saving, OpenCert, WriteCert, OpenKey, WriteKey, Going, Reuse, Generate, SharesFound,
       SharesMissing, Start, Loading, LoadSettings, LoadDefaults, LoadFrom, Enter, StartsUnlessTorn
  <2> QED
    BY <2>1, <2>2, <2>3, <2>4
<1> QED
  BY <1>1, <1>2, <1>3, <1>4, <1>5 DEF Readable

LEMMA UpdatingReadable ==
  ASSUME TypeOK, DataDirInv, NEW u \in Updater, Updating(u)
  PROVE  Readable'
<1>1. UNCHANGED <<phase, idVars>> /\ phase = "up"
  BY UpdatingKeeps
<1>2. torn => torn'
  BY DEF Updating, AskFor, OpenFile, WriteFile, WriteFails, Adopt
<1>3. file' \in {Empty, Garbled} => torn' \/ \E w \in Updater : pc'[w] = "write"
  <2>1. CASE OpenFile(u)
    BY <2>1 DEF OpenFile, Update, TypeOK
  <2>2. CASE WriteFile(u)
    <3>1. want[u] \in Nat
      BY RangeIsNat DEF TypeOK, Range
    <3> QED
      BY <2>2, <3>1, DataDirAssumption DEF WriteFile, DataDirAssumption, NoData
  <2>3. CASE WriteFails(u)
    BY <2>3 DEF WriteFails
  <2>4. CASE Adopt(u) \/ \E v \in Asked : AskFor(u, v)
    <3>1. file' = file /\ \A w \in Updater : pc[w] = "write" => pc'[w] = "write"
      BY <2>4 DEF Adopt, AskFor, Update, TypeOK
    <3> QED
      BY <3>1, <1>2 DEF DataDirInv, Readable
  <2> QED
    BY <2>1, <2>2, <2>3, <2>4 DEF Updating
<1> QED
  BY <1>1, <1>2, <1>3 DEF DataDirInv, Readable, StartsUnlessTorn, idVars

LEMMA NextReadable ==
  ASSUME TypeOK, DataDirInv, [Next]_vars
  PROVE  Readable'
<1>1. CASE Crash
  <2>1. phase' = "down" /\ UNCHANGED <<key, file>>
    BY <1>1 DEF Crash, idVars
  <2>2. torn' = (torn \/ phase \in {"writeCert", "writeKey"} \/ \E u \in Updater : pc[u] = "write")
    BY <1>1 DEF Crash
  <2> QED
    BY <2>1, <2>2 DEF DataDirInv, Readable, StartsUnlessTorn
<1>2. ASSUME NEW v \in Asked, EditByHand(v)
      PROVE  Readable'
  <2>1. UNCHANGED <<phase, key, pc, torn>> /\ file' = v
    BY <1>2 DEF EditByHand, idVars
  <2>2. file' \notin {Empty, Garbled}
    BY <2>1, DataDirAssumption DEF DataDirAssumption, NoData
  <2> QED
    BY <2>1, <2>2 DEF DataDirInv, Readable, StartsUnlessTorn
<1>3. CASE UNCHANGED vars
  BY <1>3 DEF vars, setVars, idVars, DataDirInv, Readable, StartsUnlessTorn
<1> QED
  BY NextSteps, <1>1, <1>2, <1>3, MainReadable, UpdatingReadable

(* DataDirInv is inductive.                                                *)
THEOREM InvariantHolds == Spec => [](TypeOK /\ DataDirInv)
<1>1. Init => Readable
  BY DataDirAssumption DEF Init, Readable, StartsUnlessTorn, DataDirAssumption, NoData
<1>2. TypeOK /\ DataDirInv /\ [Next]_vars => Readable'
  BY NextReadable
<1>3. DataDirInv <=> IdInv /\ Readable /\ Overlapping /\ FromLegit
  BY DEF DataDirInv
<1> QED
  BY <1>1, <1>2, <1>3, IdInvHolds, SettingsHold, PTL DEF Spec

(* A start only fails over the program's own files when a write of one     *)
(* failed, was cut off, or met another.                                    *)
THEOREM StartsWhenUntorn == Spec => []StartsUnlessTorn
<1>1. DataDirInv => StartsUnlessTorn
  BY DEF DataDirInv, Readable
<1> QED
  BY <1>1, InvariantHolds, PTL
=============================================================================
