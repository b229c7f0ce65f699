--------------------------- MODULE FoldersProofs ---------------------------
(***************************************************************************)
(* Proofs about Folders, for any names, depth and number of walks.         *)
(***************************************************************************)
EXTENDS Folders, TLAPS, WellFoundedInduction

(* A walk that is under way has elements left to do.                       *)
UnderWay == {"look", "make", "check"}
ElementsLeft ==
  \A c \in Call : /\ pc[c] = "idle" => at[c] = 0
                  /\ pc[c] \in UnderWay => at[c] < Len(rel[c])

LEMMA PlaceLength ==
  ASSUME NEW p \in Place
  PROVE  Len(p) \in 0 .. Depth /\ (p # Root => Len(p) > 0)
<1>1. PICK n \in 0 .. Depth : p \in [1 .. n -> Name]
  BY DEF Place
<1>2. n \in Nat
  BY FoldersAssumption DEF FoldersAssumption
<1>3. p \in Seq(Name) /\ Len(p) = n
  BY <1>1, <1>2
<1>4. ASSUME n = 0 PROVE p = Root
  BY <1>3, <1>4 DEF Root
<1> QED
  BY <1>2, <1>3, <1>4, FoldersAssumption DEF FoldersAssumption

LEMMA RootIsPlace == Root \in Place
<1>1. Root \in [1 .. 0 -> Name]
  BY DEF Root
<1> QED
  BY <1>1, FoldersAssumption DEF Place, FoldersAssumption

-----------------------------------------------------------------------------
(* Where paths lead, by induction on their length: a claim that fails of   *)
(* some length fails of a least one.                                       *)

LEMMA LeastNumber ==
  ASSUME NEW T, T \subseteq Nat, T # {}
  PROVE  \E n \in T : \A m \in T : n <= m
<1>1. PICK n \in T : \A m \in T : ~(<<m, n>> \in OpToRel(<, Nat))
  BY WFMin, NatLessThanWellFounded, Zenon
<1>2. n \in Nat /\ \A m \in T : m \in Nat /\ ~(m < n)
  BY <1>1, Zenon DEF OpToRel
<1> QED
  BY <1>2

(* The places on the way of a path, up to its element n.                   *)
Way(w, disk, path, n) ==
  w = [i \in 0 .. n |-> IF i = 0 THEN Root ELSE Follow(disk, w[i - 1], path[i])]

LEMMA WayExists ==
  ASSUME NEW disk, NEW path, NEW n \in Nat
  PROVE  \E w : Way(w, disk, path, n)
<1> DEFINE T == {m \in Nat : ~\E w : Way(w, disk, path, m)}
<1>1. SUFFICES ASSUME T # {}
               PROVE  FALSE
  OBVIOUS
<1>2. PICK m \in T : \A k \in T : m <= k
  BY <1>1, LeastNumber
<1>3. m # 0
  <2>1. Way([i \in 0 .. 0 |-> Root], disk, path, 0)
    BY DEF Way
  <2> QED
    BY <2>1
<1>4. m - 1 \in Nat /\ m \in Nat /\ m - 1 \notin T
  BY <1>2, <1>3
<1>5. PICK w : Way(w, disk, path, m - 1)
  BY <1>4
<1> DEFINE v == [i \in 0 .. m |-> IF i = m THEN Follow(disk, w[m - 1], path[m]) ELSE w[i]]
<1>6. Way(v, disk, path, m)
  <2>1. ASSUME NEW i \in 0 .. m
        PROVE  v[i] = IF i = 0 THEN Root ELSE Follow(disk, v[i - 1], path[i])
    <3>1. CASE i = m
      BY <1>4, <1>3, <3>1
    <3>2. CASE i # m
      <4>1. i \in 0 .. m - 1 /\ v[i] = w[i] /\ (i # 0 => i - 1 \in 0 .. m /\ i - 1 # m)
        BY <1>4, <3>2
      <4>2. i # 0 => v[i - 1] = w[i - 1]
        BY <4>1
      <4> QED
        BY <1>5, <4>1, <4>2 DEF Way
    <3> QED
      BY <3>1, <3>2
  <2>2. v = [i \in 0 .. m |-> v[i]]
    OBVIOUS
  <2> HIDE DEF v
  <2> QED
    BY <2>1, <2>2 DEF Way
<1> QED
  BY <1>2, <1>6

Agree(path, other, n) == \A i \in 1 .. n : other[i] = path[i]

LEMMA WaysAgree ==
  ASSUME NEW disk, NEW path, NEW other, NEW m \in Nat, NEW n \in Nat, m <= n,
         Agree(path, other, m),
         NEW v, Way(v, disk, other, m), NEW w, Way(w, disk, path, n)
  PROVE  \A i \in 0 .. m : v[i] = w[i]
<1> DEFINE T == {i \in 0 .. m : v[i] # w[i]}
<1>1. SUFFICES ASSUME T # {}
               PROVE  FALSE
  OBVIOUS
<1>2. PICK i \in T : \A k \in T : i <= k
  <2>1. T \subseteq Nat
    OBVIOUS
  <2> HIDE DEF T
  <2> QED
    BY <1>1, <2>1, LeastNumber
<1>3. i \in 0 .. m /\ i \in 0 .. n /\ v[i] # w[i]
  OBVIOUS
<1>4. i # 0
  BY <1>3 DEF Way
<1>5. v[i - 1] = w[i - 1] /\ i \in 1 .. m
  BY <1>2, <1>3, <1>4
<1> QED
  BY <1>3, <1>4, <1>5 DEF Way, Agree

(* LeadsOn takes the last place of the way.                                *)
LEMMA LeadsAlong ==
  ASSUME NEW disk, NEW path, NEW n \in Nat, Len(path) = n, NEW w, Way(w, disk, path, n)
  PROVE  LeadsOn(disk, path) = w[n]
<1>1. LeadsOn(disk, path) = (CHOOSE v : Way(v, disk, path, n))[n]
  BY DEF LeadsOn, Way
<1>2. Way(CHOOSE v : Way(v, disk, path, n), disk, path, n)
  OBVIOUS
<1> QED
  BY <1>1, <1>2, WaysAgree DEF Agree

Reached(disk, path, n) == LeadsOn(disk, SubSeq(path, 1, n))

(* A path leads where its last element does from where the others lead.    *)
LEMMA OneFurther ==
  ASSUME NEW disk, NEW S, NEW path \in Seq(S), NEW n \in Nat, n < Len(path)
  PROVE  Reached(disk, path, n + 1) = Follow(disk, Reached(disk, path, n), path[n + 1])
<1>1. ASSUME NEW m \in 0 .. Len(path)
      PROVE  /\ SubSeq(path, 1, m) \in Seq(S) /\ Len(SubSeq(path, 1, m)) = m
             /\ \A i \in 1 .. m : SubSeq(path, 1, m)[i] = path[i]
  OBVIOUS
<1> DEFINE front == SubSeq(path, 1, n)
           whole == SubSeq(path, 1, n + 1)
<1>2. /\ Len(front) = n /\ Len(whole) = n + 1
      /\ Agree(whole, front, n)
      /\ whole[n + 1] = path[n + 1]
  BY <1>1 DEF Agree
<1> HIDE DEF front, whole
<1>3. PICK v : Way(v, disk, front, n)
  BY WayExists
<1>4. PICK w : Way(w, disk, whole, n + 1)
  <2>1. n + 1 \in Nat
    OBVIOUS
  <2> QED
    BY <2>1, WayExists
<1>5. v[n] = w[n]
  <2>1. n + 1 \in Nat /\ n <= n + 1 /\ n \in 0 .. n
    OBVIOUS
  <2>2. \A i \in 0 .. n : v[i] = w[i]
    BY <1>2, <1>3, <1>4, <2>1, WaysAgree
  <2> QED
    BY <2>1, <2>2
<1>6. w[n + 1] = Follow(disk, w[n], whole[n + 1])
  BY <1>4 DEF Way
<1>7. LeadsOn(disk, front) = v[n] /\ LeadsOn(disk, whole) = w[n + 1]
  BY <1>2, <1>3, <1>4, LeadsAlong
<1> QED
  BY <1>2, <1>5, <1>6, <1>7 DEF Reached, front, whole

LEMMA NotYet ==
  ASSUME NEW disk, NEW path
  PROVE  Reached(disk, path, 0) = Root
<1> DEFINE none == SubSeq(path, 1, 0)
           w == [i \in 0 .. 0 |-> Root]
<1>1. Len(none) = 0
  OBVIOUS
<1>2. Way(w, disk, none, 0) /\ w[0] = Root
  BY DEF Way
<1> HIDE DEF none, w
<1> QED
  BY <1>1, <1>2, LeadsAlong DEF Reached, none

-----------------------------------------------------------------------------
(* What the disk holds: a tree, with a folder above all that is there, and *)
(* links that lead no deeper than they lie, and to a folder or outside.    *)
IsFolder(disk, place) == place \in Place /\ disk[place] = Dir
Tree(disk) ==
  /\ disk \in [Place -> Node]
  /\ disk[Root] = Dir
  /\ \A p \in Place \ {Root} : disk[p] # Missing => IsFolder(disk, Front(p))
  /\ \A p \in Place : disk[p].kind = "link" =>
       Len(disk[p].to) <= Len(p) /\ (disk[p].to \in Place => disk[disk[p].to] = Dir)

(* The share keeps what is not among the kinds that may go: folders and    *)
(* links, and where nobody deletes, files.                                 *)
MayGo == {gone \in SUBSET {Missing, Plain} : Missing \in gone}
Settled(disk, place, gone) == place \in Place => disk[place] \notin gone
Keeps(disk, later, gone) == \A p \in Place : Settled(disk, p, gone) => later[p] = disk[p]
Grows(disk, later) == Keeps(disk, later, {Missing})

(* What a path may lead to, in the share or out of it.                    *)
Spot == Seq(Name \union {Outside})

LEMMA PlaceIsShort ==
  Place = {p \in Seq(Name) : Len(p) <= Depth}
<1>1. ASSUME NEW p \in Seq(Name), Len(p) <= Depth
      PROVE  p \in Place
  <2>1. Len(p) \in 0 .. Depth /\ p \in [1 .. Len(p) -> Name]
    BY <1>1, FoldersAssumption DEF FoldersAssumption
  <2> QED
    BY <2>1 DEF Place
<1>2. ASSUME NEW p \in Place
      PROVE  p \in Seq(Name) /\ Len(p) <= Depth
  <2>1. PICK n \in 0 .. Depth : p \in [1 .. n -> Name]
    BY DEF Place
  <2>2. n \in Nat /\ n <= Depth
    BY FoldersAssumption DEF FoldersAssumption
  <2> QED
    BY <2>1, <2>2
<1> QED
  BY <1>1, <1>2

LEMMA PlaceIsSpot ==
  Place \subseteq Spot /\ <<Outside>> \in Spot /\ <<Outside>> \notin Place
<1>1. Seq(Name) \subseteq Spot /\ <<Outside>> \in Spot
  BY DEF Spot
<1>2. <<Outside>> \notin Seq(Name)
  <2>1. ASSUME NEW p \in Seq(Name), Len(p) = 1
        PROVE  p[1] # Outside
    <3>1. p[1] \in Name
      BY <2>1
    <3> QED
      BY <3>1, FoldersAssumption DEF FoldersAssumption
  <2> QED
    BY <2>1
<1> QED
  BY <1>1, <1>2, PlaceIsShort

LEMMA ChildIs ==
  ASSUME NEW s \in Spot, NEW name \in Name
  PROVE  /\ Append(s, name) \in Spot /\ Append(s, name) # Root
         /\ Len(Append(s, name)) = Len(s) + 1 /\ Front(Append(s, name)) = s
         /\ Append(s, name) \in Place <=> s \in Place /\ Len(s) < Depth
<1>1. Append(s, name) \in Spot /\ Len(Append(s, name)) = Len(s) + 1 /\ Len(s) \in Nat
  BY DEF Spot
<1>2. Append(s, name) # Root
  BY <1>1 DEF Root
<1>3. Front(Append(s, name)) = s
  BY DEF Front, Spot
<1>4. Append(s, name) \in Seq(Name) => s \in Seq(Name)
  <2> SUFFICES ASSUME Append(s, name) \in Seq(Name)
               PROVE  \A i \in 1 .. Len(s) : s[i] \in Name
    BY DEF Spot
  <2> DEFINE child == Append(s, name)
  <2>1. \A i \in 1 .. Len(s) : child[i] = s[i]
    BY DEF Spot
  <2>2. \A i \in 1 .. Len(child) : child[i] \in Name
    OBVIOUS
  <2> QED
    BY <1>1, <2>1, <2>2
<1>5. s \in Seq(Name) => Append(s, name) \in Seq(Name)
  OBVIOUS
<1>6. Len(s) + 1 <= Depth <=> Len(s) < Depth
  BY <1>1, FoldersAssumption DEF FoldersAssumption
<1>7. Len(s) < Depth => Len(s) <= Depth
  BY <1>1, FoldersAssumption DEF FoldersAssumption
<1> QED
  BY <1>1, <1>2, <1>3, <1>4, <1>5, <1>6, <1>7, PlaceIsShort

LEMMA LinksLead ==
  ASSUME NEW disk \in [Place -> Node], NEW p \in Place, disk[p].kind = "link"
  PROVE  disk[p].to \in Spot /\ disk[p] \notin {Missing, Dir}
<1>1. disk[p] \notin {Missing, Dir, Plain}
  BY DEF Missing, Dir, Plain
<1>2. disk[p] \in Node
  OBVIOUS
<1>3. PICK to \in Place \union {<<Outside>>} : disk[p] = Link(to)
  BY <1>1, <1>2 DEF Node
<1> QED
  BY <1>1, <1>3, PlaceIsSpot DEF Link

(* No path leads deeper than it is long.                                   *)
LEMMA ReachedShort ==
  ASSUME NEW disk, Tree(disk), NEW path \in Seq(Name), NEW n \in 0 .. Len(path)
  PROVE  Reached(disk, path, n) \in Spot /\ Len(Reached(disk, path, n)) <= n
<1> DEFINE T == {m \in 0 .. Len(path) : ~(/\ Reached(disk, path, m) \in Spot
                                          /\ Len(Reached(disk, path, m)) <= m)}
<1>1. SUFFICES ASSUME T # {}
               PROVE  FALSE
  OBVIOUS
<1>2. PICK m \in T : \A k \in T : m <= k
  <2>1. T \subseteq Nat
    OBVIOUS
  <2> HIDE DEF T
  <2> QED
    BY <1>1, <2>1, LeastNumber
<1>3. m # 0
  <2>1. Root \in Spot /\ Len(Root) = 0
    BY DEF Root, Spot
  <2> QED
    BY <2>1, NotYet
<1> DEFINE k == m - 1
           place == Reached(disk, path, k)
           child == Append(place, path[m])
<1>4. k \in Nat /\ k \in 0 .. Len(path) /\ k < Len(path) /\ m = k + 1 /\ k \notin T
      /\ path[m] \in Name
  BY <1>2, <1>3
<1>5. place \in Spot /\ Len(place) <= k
  BY <1>4
<1>6. Reached(disk, path, m) = Follow(disk, place, path[m])
  BY <1>4, OneFurther
<1> HIDE DEF place
<1>7. child \in Spot /\ Len(child) = Len(place) + 1 /\ Len(place) \in Nat
  BY <1>4, <1>5, ChildIs DEF Spot
<1> HIDE DEF child
<1>8. Len(child) <= m
  BY <1>4, <1>5, <1>7
<1>9. CASE child \in Place /\ disk[child].kind = "link"
  <2>1. disk[child].to \in Spot /\ Len(disk[child].to) <= Len(child)
    BY <1>9, LinksLead DEF Tree
  <2>2. Len(disk[child].to) <= m
    BY <1>4, <1>7, <1>8, <2>1 DEF Spot
  <2> QED
    BY <1>2, <1>6, <1>9, <2>1, <2>2 DEF Follow, child
<1>10. CASE ~(child \in Place /\ disk[child].kind = "link")
  BY <1>2, <1>6, <1>7, <1>8, <1>10 DEF Follow, child
<1> QED
  BY <1>9, <1>10

(* An element that something is known of lies in a folder.                 *)
LEMMA InFolder ==
  ASSUME NEW disk, Tree(disk), NEW gone \in MayGo,
         NEW path \in Seq(Name), NEW n \in Nat, n < Len(path),
         LET child == Append(Reached(disk, path, n), path[n + 1])
         IN Settled(disk, child, gone) /\ (child \in Place \/ Len(path) <= Depth)
  PROVE  LET place == Reached(disk, path, n)
         IN Settled(disk, place, gone) /\ (place \in Place \/ Len(path) <= Depth)
<1> DEFINE place == Reached(disk, path, n)
           child == Append(place, path[n + 1])
<1>1. n \in 0 .. Len(path) /\ path[n + 1] \in Name
  OBVIOUS
<1>2. place \in Spot /\ Len(place) <= n
  BY <1>1, ReachedShort
<1>3. gone \subseteq {Missing, Plain} /\ Missing \in gone
  BY DEF MayGo
<1> HIDE DEF place
<1>4. /\ child # Root /\ Front(child) = place
      /\ child \in Place <=> place \in Place /\ Len(place) < Depth
  BY <1>1, <1>2, ChildIs
<1>5. CASE child \in Place
  <2>1. disk[child] # Missing
    BY <1>3, <1>5 DEF Settled, place
  <2>2. disk[place] = Dir
    BY <1>4, <1>5, <2>1 DEF Tree, IsFolder
  <2> QED
    BY <1>3, <1>4, <1>5, <2>2 DEF Settled, Dir, Missing, Plain, place
<1>6. CASE child \notin Place
  <2>1. Len(path) <= Depth
    BY <1>6 DEF place
  <2>2. Len(place) < Depth
    BY <1>2, <2>1, FoldersAssumption DEF FoldersAssumption, Spot
  <2> QED
    BY <1>4, <1>6, <2>1, <2>2 DEF Settled, place
<1> QED
  BY <1>5, <1>6

(* Where a path has come to something that stays it comes to ever after.   *)
LEMMA ReachedStays ==
  ASSUME NEW disk, NEW later, Tree(disk), NEW gone \in MayGo, Keeps(disk, later, gone),
         NEW path \in Seq(Name), NEW n \in 0 .. Len(path),
         Settled(disk, Reached(disk, path, n), gone),
         Reached(disk, path, n) \in Place \/ Len(path) <= Depth
  PROVE  Reached(later, path, n) = Reached(disk, path, n)
<1> DEFINE T == {m \in 0 .. Len(path) : /\ Settled(disk, Reached(disk, path, m), gone)
                                        /\ Reached(disk, path, m) \in Place \/ Len(path) <= Depth
                                        /\ Reached(later, path, m) # Reached(disk, path, m)}
<1>1. SUFFICES ASSUME T # {}
               PROVE  FALSE
  OBVIOUS
<1>2. PICK m \in T : \A k \in T : m <= k
  <2>1. T \subseteq Nat
    OBVIOUS
  <2> HIDE DEF T
  <2> QED
    BY <1>1, <2>1, LeastNumber
<1>3. m # 0
  BY <1>2, NotYet
<1> DEFINE k == m - 1
           place == Reached(disk, path, k)
           child == Append(place, path[m])
<1>4. /\ k \in Nat /\ k \in 0 .. Len(path) /\ k < Len(path) /\ m = k + 1 /\ k \notin T
      /\ path[m] \in Name
  BY <1>2, <1>3
<1>5. /\ Reached(disk, path, m) = Follow(disk, place, path[m])
      /\ Reached(later, path, m) = Follow(later, Reached(later, path, k), path[m])
  <2>1. k \in Nat /\ k < Len(path) /\ m = k + 1
    BY <1>4
  <2> HIDE DEF k
  <2>2. Reached(disk, path, m) = Follow(disk, place, path[m])
    BY <2>1, OneFurther
  <2>3. Reached(later, path, m) = Follow(later, Reached(later, path, k), path[m])
    BY <2>1, OneFurther
  <2> QED
    BY <2>2, <2>3
<1>6. Settled(disk, child, gone) /\ (child \in Place \/ Len(path) <= Depth)
  <2>1. CASE child \in Place /\ disk[child].kind = "link"
    <3>1. disk[child] \notin {Missing, Plain}
      BY <2>1 DEF Missing, Plain
    <3> QED
      BY <2>1, <3>1 DEF Settled, MayGo
  <2>2. CASE ~(child \in Place /\ disk[child].kind = "link")
    BY <1>2, <1>5, <2>2 DEF Follow
  <2> QED
    BY <2>1, <2>2
<1>7. Settled(disk, place, gone) /\ (place \in Place \/ Len(path) <= Depth)
  BY <1>4, <1>6, InFolder
<1>8. Reached(later, path, k) = place
  BY <1>4, <1>7
<1>9. child \in Place => later[child] = disk[child]
  BY <1>6 DEF Keeps
<1>10. Follow(later, place, path[m]) = Follow(disk, place, path[m])
  BY <1>9 DEF Follow
<1> QED
  BY <1>2, <1>5, <1>8, <1>10

(* The element that a walk works on next is a place, once the walk has     *)
(* come to a folder.                                                       *)
LEMMA NextIsPlace ==
  ASSUME NEW disk, Tree(disk), NEW path \in Place, NEW n \in Nat, n < Len(path),
         IsFolder(disk, Reached(disk, path, n))
  PROVE  Append(Reached(disk, path, n), path[n + 1]) \in Place
<1>1. path \in Seq(Name) /\ Len(path) <= Depth
  BY PlaceIsShort
<1>2. n \in 0 .. Len(path) /\ path[n + 1] \in Name
  BY <1>1
<1>3. Reached(disk, path, n) \in Spot /\ Len(Reached(disk, path, n)) <= n
  BY <1>1, <1>2, ReachedShort
<1>4. Len(Reached(disk, path, n)) < Depth
  BY <1>1, <1>3, FoldersAssumption DEF FoldersAssumption, Spot
<1> QED
  BY <1>2, <1>3, <1>4, ChildIs DEF IsFolder

-----------------------------------------------------------------------------
(* Types.                                                                  *)

(* The disk, as every step leaves it.                                      *)
LEMMA DiskTyped ==
  ASSUME TypeOK, [Next]_vars
  PROVE  fs' \in [Place -> Node]
<1>1. CASE \E c \in Call : Make(c)
  BY <1>1 DEF Make, TypeOK, Node
<1>2. CASE \E place \in Place : OthersCreate(place)
  <2>1. PICK place \in Place :
          \E n \in {Dir, Plain} \union Targets(place) : fs' = [fs EXCEPT ![place] = n]
    BY <1>2 DEF OthersCreate
  <2>2. PICK n \in {Dir, Plain} \union Targets(place) : fs' = [fs EXCEPT ![place] = n]
    BY <2>1
  <2>3. n \in Node
    BY <2>2 DEF Targets, Node
  <2> QED
    BY <2>2, <2>3 DEF TypeOK
<1>3. CASE UNCHANGED fs
  BY <1>3 DEF TypeOK
<1> QED
  BY <1>1, <1>2, <1>3 DEF Next, Walks, Walk, Look, MakeTooLate, Check, CheckFails, Refused,
     LookRefused, MakeRefused, CheckRefused, StartCall, Rest, vars

LEMMA StartTyped ==
  ASSUME TypeOK, ElementsLeft, NEW c \in Call, NEW path \in Place, StartCall(c, path)
  PROVE  TypeOK' /\ ElementsLeft'
<1>1. fs' \in [Place -> Node]
  BY DEF StartCall, TypeOK
<1>2. pc' \in [Call -> UnderWay \union {"idle", "ready", "failed"}] /\ pc'[c] \in {"look", "ready"}
  BY DEF StartCall, Move, TypeOK, UnderWay
<1>3. TypeOK'
  BY <1>1, <1>2 DEF StartCall, TypeOK, UnderWay
<1>4. ElementsLeft'
  <2> SUFFICES ASSUME NEW d \in Call
               PROVE  /\ pc'[d] = "idle" => at'[d] = 0
                      /\ pc'[d] \in UnderWay => at'[d] < Len(rel'[d])
    BY DEF ElementsLeft
  <2>1. CASE d = c
    BY <2>1, PlaceLength DEF StartCall, Move, TypeOK, ElementsLeft, UnderWay
  <2>2. CASE d # c
    BY <2>2 DEF StartCall, Move, TypeOK, ElementsLeft
  <2> QED
    BY <2>1, <2>2
<1> QED
  BY <1>3, <1>4

(* A step within an element, or out of the walk by a failure.              *)
MovesOn(c) ==
  \E from, to \in UnderWay \union {"failed"} :
     /\ Move(c, from, to) /\ from # "failed"
     /\ UNCHANGED <<rel, at>> /\ refused' \in SUBSET Call /\ raced' \in SUBSET Call

LEMMA WalkTyped ==
  ASSUME TypeOK, ElementsLeft, fs' \in [Place -> Node], NEW c \in Call, Walk(c)
  PROVE  TypeOK' /\ ElementsLeft'
<1>1. CASE \E from \in UnderWay : Advance(c, from) /\ UNCHANGED <<rel, refused, raced>>
  <2>1. at[c] < Len(rel[c]) /\ Len(rel[c]) \in 0 .. Depth /\ at[c] \in Nat
    BY <1>1, PlaceLength, FoldersAssumption
    DEF Advance, Move, ElementsLeft, TypeOK, FoldersAssumption
  <2>2. at' = [at EXCEPT ![c] = at[c] + 1]
        /\ pc' = [pc EXCEPT ![c] = IF at[c] + 1 = Len(rel[c]) THEN "ready" ELSE "look"]
    BY <1>1 DEF Advance, Move
  <2>3. TypeOK'
    BY <1>1, <2>1, <2>2, FoldersAssumption DEF TypeOK, FoldersAssumption
  <2>4. ElementsLeft'
    BY <1>1, <2>1, <2>2 DEF ElementsLeft, TypeOK, UnderWay
  <2> QED
    BY <2>3, <2>4
<1>2. CASE MovesOn(c)
  BY <1>2 DEF MovesOn, Move, TypeOK, ElementsLeft, UnderWay
<1>3. Make(c) \/ Check(c) => \E from \in UnderWay : Advance(c, from) /\ UNCHANGED <<rel, refused, raced>>
  BY DEF Make, Check, UnderWay
<1>4. ASSUME \/ Look(c) \/ MakeTooLate(c) \/ CheckFails(c)
             \/ LookRefused(c) \/ MakeRefused(c) \/ CheckRefused(c)
      PROVE  MovesOn(c)
  <2>1. ASSUME Look(c) PROVE \E to \in {"make", "check"} : Move(c, "look", to)
    BY <2>1 DEF Look
  <2>2. Look(c) => MovesOn(c)
    BY <2>1 DEF MovesOn, Look, UnderWay, TypeOK
  <2>3. MakeTooLate(c) \/ CheckFails(c) => MovesOn(c)
    BY DEF MovesOn, MakeTooLate, CheckFails, UnderWay, TypeOK
  <2>4. ASSUME NEW from \in UnderWay, Refused(c, from)
        PROVE  MovesOn(c)
    BY <2>4 DEF MovesOn, Refused, UnderWay, TypeOK
  <2>5. LookRefused(c) \/ MakeRefused(c) \/ CheckRefused(c) =>
          \E from \in UnderWay : Refused(c, from)
    BY DEF LookRefused, MakeRefused, CheckRefused, UnderWay
  <2> QED
    BY <1>4, <2>2, <2>3, <2>4, <2>5
<1> QED
  BY <1>1, <1>2, <1>3, <1>4 DEF Walk

LEMMA TypedInit ==
  ASSUME Init
  PROVE  TypeOK /\ ElementsLeft
BY RootIsPlace, FoldersAssumption
DEF Init, TypeOK, ElementsLeft, Node, UnderWay, FoldersAssumption

LEMMA TypedStep ==
  ASSUME TypeOK, ElementsLeft, [Next]_vars
  PROVE  TypeOK' /\ ElementsLeft'
<1>1. fs' \in [Place -> Node]
  BY DiskTyped
<1>2. CASE UNCHANGED <<pc, rel, at, refused, raced>>
  BY <1>1, <1>2 DEF TypeOK, ElementsLeft
<1> QED
  BY <1>1, <1>2, StartTyped, WalkTyped DEF Next, Walks, OthersCreate, Rest, vars

(* Every walk stays in its path, and the disk holds nothing but folders,   *)
(* files and links to somewhere, whatever uploads and other users do.      *)
THEOREM TypeCorrect == Spec => []TypeOK
BY TypedInit, TypedStep, PTL DEF Spec

-----------------------------------------------------------------------------
(* A walk has a folder behind it; the element it goes on to check was      *)
(* there when it looked, and is there.  How it ends is what the properties *)
(* say.                                                                    *)
CallInv(c) ==
  /\ pc[c] \in UnderWay => IsFolder(fs, Reached(fs, rel[c], at[c]))
  /\ pc[c] = "check" => fs[Candidate(c)] # Missing
  /\ pc[c] = "ready" => Folder(Leads(rel[c]))
  /\ pc[c] = "failed" => Obstacle(c) \/ c \in refused \union raced

WalkInv == Tree(fs) /\ \A c \in Call : CallInv(c)
Known == TypeOK /\ ElementsLeft

LEMMA PathsAre ==
  ASSUME TypeOK, NEW c \in Call
  PROVE  rel[c] \in Place /\ rel[c] \in Seq(Name) /\ Len(rel[c]) <= Depth /\ Len(rel[c]) \in Nat
BY PlaceIsShort DEF TypeOK

LEMMA CandidateIs ==
  ASSUME Known, WalkInv, NEW c \in Call, pc[c] \in UnderWay
  PROVE  /\ at[c] \in Nat /\ at[c] < Len(rel[c])
         /\ Candidate(c) = Append(Reached(fs, rel[c], at[c]), rel[c][at[c] + 1])
         /\ Candidate(c) \in Place /\ Candidate(c) # Root
         /\ IsFolder(fs, Front(Candidate(c)))
<1>1. at[c] \in Nat /\ at[c] < Len(rel[c])
  BY FoldersAssumption DEF Known, TypeOK, ElementsLeft, FoldersAssumption
<1>2. Candidate(c) = Append(Reached(fs, rel[c], at[c]), rel[c][at[c] + 1])
  BY DEF Candidate, Leads, Reached
<1>3. IsFolder(fs, Reached(fs, rel[c], at[c])) /\ Tree(fs)
  BY DEF WalkInv, CallInv
<1>4. Candidate(c) \in Place
  BY <1>1, <1>2, <1>3, PathsAre, NextIsPlace DEF Known
<1>5. rel[c][at[c] + 1] \in Name /\ Reached(fs, rel[c], at[c]) \in Spot
  <2>1. Reached(fs, rel[c], at[c]) \in Place
    BY <1>3 DEF IsFolder
  <2> QED
    BY <1>1, <2>1, PathsAre, PlaceIsSpot DEF Known
<1> QED
  BY <1>1, <1>2, <1>3, <1>4, <1>5, ChildIs

(* Something put where nothing was, into a folder, leaves a tree.          *)
LEMMA PutInTree ==
  ASSUME NEW disk, NEW later, Tree(disk), NEW p \in Place, p # Root, disk[p] = Missing,
         IsFolder(disk, Front(p)), NEW n \in Node, n # Missing,
         n.kind = "link" => Len(n.to) <= Len(p) /\ (n.to \in Place => disk[n.to] = Dir),
         later = [disk EXCEPT ![p] = n]
  PROVE  Tree(later) /\ Grows(disk, later)
<1>1. later \in [Place -> Node] /\ later[p] = n /\ \A q \in Place : q # p => later[q] = disk[q]
  BY DEF Tree
<1>2. Grows(disk, later)
  BY <1>1 DEF Grows, Keeps, Settled
<1>3. \A q : IsFolder(disk, q) => IsFolder(later, q)
  BY <1>1 DEF IsFolder, Dir, Missing
<1>4. \A q \in Place : disk[q] = Dir => later[q] = Dir
  BY <1>1 DEF Dir, Missing
<1>5. later[Root] = Dir
  BY <1>1, RootIsPlace DEF Tree
<1>6. ASSUME NEW q \in Place \ {Root}, later[q] # Missing
      PROVE  IsFolder(later, Front(q))
  BY <1>1, <1>3, <1>6 DEF Tree
<1>7. ASSUME NEW q \in Place, later[q].kind = "link"
      PROVE  Len(later[q].to) <= Len(q) /\ (later[q].to \in Place => later[later[q].to] = Dir)
  BY <1>1, <1>4, <1>7 DEF Tree
<1> QED
  BY <1>1, <1>2, <1>5, <1>6, <1>7 DEF Tree

LEMMA OthersKeepTree ==
  ASSUME Tree(fs), NEW p \in Place, OthersCreate(p)
  PROVE  /\ p # Root /\ fs[p] = Missing /\ IsFolder(fs, Front(p))
         /\ \E n \in Node \ {Missing} : fs' = [fs EXCEPT ![p] = n]
         /\ Tree(fs') /\ Grows(fs, fs')
<1>1. p # Root /\ fs[p] = Missing /\ IsFolder(fs, Front(p))
  BY DEF OthersCreate, Folder, IsFolder
<1>2. PICK n \in {Dir, Plain} \union Targets(p) : fs' = [fs EXCEPT ![p] = n]
  BY DEF OthersCreate
<1>3. CASE n \in {Dir, Plain}
  <2>1. n \in Node /\ n # Missing /\ n.kind # "link"
    BY <1>3 DEF Dir, Plain, Missing, Node
  <2> QED
    BY <1>1, <1>2, <2>1, PutInTree
<1>4. CASE n \in Targets(p)
  <2>1. PICK to \in {q \in Place : Folder(q) /\ Len(q) <= Len(p)} \union {<<Outside>>} :
          n = Link(to)
    BY <1>4 DEF Targets
  <2>2. n \in Node /\ n # Missing /\ n.to = to
    BY <2>1 DEF Link, Missing, Node
  <2>3. Len(to) <= Len(p)
    <3>1. Len(<<Outside>>) <= Len(p)
      BY <1>1, PlaceLength
    <3> QED
      BY <2>1, <3>1
  <2>4. to \in Place => fs[to] = Dir
    BY <2>1, PlaceIsSpot DEF Folder
  <2> QED
    BY <1>1, <1>2, <2>2, <2>3, <2>4, PutInTree
<1> QED
  BY <1>2, <1>3, <1>4

LEMMA DiskGrows ==
  ASSUME Known, WalkInv, [Next]_vars
  PROVE  Tree(fs') /\ Grows(fs, fs')
<1>1. ASSUME NEW c \in Call, Make(c)
      PROVE  Tree(fs') /\ Grows(fs, fs')
  <2>1. pc[c] \in UnderWay /\ fs[Candidate(c)] = Missing /\ fs' = [fs EXCEPT ![Candidate(c)] = Dir]
    BY <1>1 DEF Make, Advance, Move, UnderWay
  <2>2. Dir \in Node /\ Dir # Missing /\ Dir.kind # "link"
    BY DEF Dir, Missing, Node
  <2> QED
    BY <2>1, <2>2, CandidateIs, PutInTree DEF WalkInv
<1>2. ASSUME NEW p \in Place, OthersCreate(p)
      PROVE  Tree(fs') /\ Grows(fs, fs')
  BY <1>2, OthersKeepTree DEF WalkInv
<1>3. CASE UNCHANGED fs
  BY <1>3 DEF WalkInv, Grows, Keeps
<1> QED
  BY <1>1, <1>2, <1>3 DEF Next, Walks, Walk, Look, MakeTooLate, Check, CheckFails, Refused,
     LookRefused, MakeRefused, CheckRefused, StartCall, Rest, vars

(* Leads, in the terms of the lemmas above.                                *)
LEMMA LeadsIs ==
  ASSUME NEW S, NEW path \in Seq(S)
  PROVE  Leads(path) = Reached(fs, path, Len(path))
<1>1. SubSeq(path, 1, Len(path)) = path
  OBVIOUS
<1> QED
  BY <1>1 DEF Leads, Reached

(* What a call has come to stays, and so does what is in its way.          *)
LEMMA ComeToStay ==
  ASSUME TypeOK, Tree(fs), Grows(fs, fs'), NEW path \in Place, NEW n \in 0 .. Len(path),
         Settled(fs, Reached(fs, path, n), {Missing})
  PROVE  /\ Reached(fs', path, n) = Reached(fs, path, n)
         /\ \A p \in Place : fs[p] # Missing => fs'[p] = fs[p]
<1>1. path \in Seq(Name) /\ Len(path) <= Depth
  BY PlaceIsShort
<1>2. {Missing} \in MayGo
  BY DEF MayGo
<1> QED
  BY <1>1, <1>2, ReachedStays DEF Grows, Keeps, Settled

LEMMA FolderStays ==
  ASSUME TypeOK, Tree(fs), Grows(fs, fs'), NEW path \in Place, NEW n \in 0 .. Len(path),
         IsFolder(fs, Reached(fs, path, n))
  PROVE  Reached(fs', path, n) = Reached(fs, path, n) /\ IsFolder(fs', Reached(fs, path, n))
<1>1. Settled(fs, Reached(fs, path, n), {Missing}) /\ fs[Reached(fs, path, n)] # Missing
  BY DEF Settled, IsFolder, Dir, Missing
<1> QED
  BY <1>1, ComeToStay DEF IsFolder

LEMMA ObstacleStays ==
  ASSUME TypeOK, Tree(fs), Grows(fs, fs'), NEW c \in Call, rel'[c] = rel[c], Obstacle(c)
  PROVE  Obstacle(c)'
<1>1. PICK n \in 1 .. Len(rel[c]) : Blocks(Leads(SubSeq(rel[c], 1, n)))
  BY DEF Obstacle
<1> DEFINE place == Reached(fs, rel[c], n)
<1>2. Settled(fs, place, {Missing}) /\ ~IsFolder(fs, place)
  BY <1>1 DEF Blocks, Settled, Folder, IsFolder, Leads, Reached
<1>3. n \in 0 .. Len(rel[c]) /\ rel[c] \in Place
  BY <1>1, PathsAre
<1>4. Reached(fs', rel[c], n) = place
  BY <1>2, <1>3, ComeToStay
<1>5. place \in Place => fs'[place] = fs[place] /\ fs[place] # Missing
  BY <1>2, <1>3, ComeToStay DEF Settled
<1>6. Blocks(Leads(SubSeq(rel[c], 1, n)))'
  <2>1. LeadsOn(fs', SubSeq(rel'[c], 1, n)) = place
    BY <1>4 DEF Reached
  <2> HIDE DEF place
  <2> QED
    BY <1>2, <1>5, <2>1 DEF Blocks, Folder, IsFolder, Leads
<1> QED
  BY <1>1, <1>6 DEF Obstacle

(* A call that does not move is none the worse for what others do.         *)
LEMMA OthersStand ==
  ASSUME Known, WalkInv, Tree(fs'), Grows(fs, fs'), NEW c \in Call,
         pc'[c] = pc[c], rel'[c] = rel[c], at'[c] = at[c],
         refused \subseteq refused', raced \subseteq raced'
  PROVE  CallInv(c)'
<1>1. CallInv(c) /\ TypeOK /\ Tree(fs)
  BY DEF WalkInv, Known
<1>2. CASE pc[c] \in UnderWay
  <2>1. at[c] \in 0 .. Len(rel[c]) /\ IsFolder(fs, Reached(fs, rel[c], at[c])) /\ rel[c] \in Place
    BY <1>1, <1>2, CandidateIs, PathsAre DEF CallInv
  <2>2. /\ Reached(fs', rel[c], at[c]) = Reached(fs, rel[c], at[c])
        /\ IsFolder(fs', Reached(fs, rel[c], at[c]))
    BY <1>1, <2>1, FolderStays
  <2>3. Candidate(c)' = Candidate(c)
    BY <2>2 DEF Candidate, Leads, Reached
  <2>4. fs[Candidate(c)] # Missing => fs'[Candidate(c)] # Missing
    BY <1>2, CandidateIs DEF Grows, Keeps, Settled
  <2> QED
    BY <1>1, <1>2, <2>2, <2>3, <2>4 DEF CallInv, UnderWay
<1>3. CASE pc[c] = "ready"
  <2>1. rel[c] \in Place /\ rel[c] \in Seq(Name) /\ Len(rel[c]) \in 0 .. Len(rel[c])
    BY <1>1, PathsAre
  <2>2. IsFolder(fs, Reached(fs, rel[c], Len(rel[c])))
    BY <1>1, <1>3, <2>1, LeadsIs DEF CallInv, Folder, IsFolder
  <2>3. /\ Reached(fs', rel[c], Len(rel[c])) = Reached(fs, rel[c], Len(rel[c]))
        /\ IsFolder(fs', Reached(fs, rel[c], Len(rel[c])))
    BY <1>1, <2>1, <2>2, FolderStays
  <2>4. SubSeq(rel[c], 1, Len(rel[c])) = rel[c]
    BY <2>1
  <2>5. Folder(Leads(rel[c]))'
    BY <2>3, <2>4 DEF Folder, IsFolder, Leads, Reached
  <2> QED
    BY <1>3, <2>5 DEF CallInv, UnderWay
<1>4. CASE pc[c] = "failed"
  BY <1>1, <1>4, ObstacleStays DEF CallInv, UnderWay
<1>5. CASE pc[c] = "idle"
  BY <1>5 DEF CallInv, UnderWay
<1> QED
  BY <1>1, <1>2, <1>3, <1>4, <1>5 DEF TypeOK, UnderWay

LEMMA AdvanceStands ==
  ASSUME Known, WalkInv, NEW c \in Call, NEW from \in UnderWay, Advance(c, from), rel' = rel,
         IsFolder(fs', Reached(fs', rel[c], at[c] + 1))
  PROVE  CallInv(c)'
<1>1. /\ at'[c] = at[c] + 1 /\ rel'[c] = rel[c]
      /\ pc'[c] = IF at[c] + 1 = Len(rel[c]) THEN "ready" ELSE "look"
  BY DEF Advance, Move, Known, TypeOK
<1>2. rel[c] \in Seq(Name) /\ SubSeq(rel[c], 1, Len(rel[c])) = rel[c]
  BY PathsAre DEF Known
<1>3. CASE at[c] + 1 = Len(rel[c])
  <2>1. Folder(Leads(rel[c]))'
    BY <1>1, <1>2, <1>3 DEF Folder, IsFolder, Leads, Reached
  <2> QED
    BY <1>1, <1>3, <2>1 DEF CallInv, UnderWay
<1>4. CASE at[c] + 1 # Len(rel[c])
  BY <1>1, <1>4 DEF CallInv
<1> QED
  BY <1>3, <1>4

LEMMA StartStands ==
  ASSUME Known, WalkInv, NEW c \in Call, NEW path \in Place, StartCall(c, path)
  PROVE  CallInv(c)'
<1>1. /\ pc'[c] = (IF path = Root THEN "ready" ELSE "look") /\ rel'[c] = path /\ at'[c] = 0
      /\ fs' = fs
  BY DEF StartCall, Move, Known, TypeOK, ElementsLeft
<1>2. IsFolder(fs, Root)
  BY RootIsPlace DEF WalkInv, Tree, IsFolder
<1>3. Reached(fs, path, 0) = Root
  BY NotYet
<1>4. CASE path = Root
  <2>1. SubSeq(path, 1, 0) = path
    BY <1>4 DEF Root
  <2>2. Folder(Leads(rel[c]))'
    BY <1>1, <1>2, <1>3, <2>1 DEF Folder, IsFolder, Leads, Reached
  <2> QED
    BY <1>1, <1>4, <2>2 DEF CallInv, UnderWay
<1>5. CASE path # Root
  BY <1>1, <1>2, <1>3, <1>5 DEF CallInv
<1> QED
  BY <1>4, <1>5

LEMMA MakeStands ==
  ASSUME Known, WalkInv, Tree(fs'), Grows(fs, fs'), NEW c \in Call, Make(c)
  PROVE  CallInv(c)'
<1> DEFINE place == Reached(fs, rel[c], at[c])
           child == Append(place, rel[c][at[c] + 1])
<1>1. /\ "make" \in UnderWay /\ Advance(c, "make") /\ rel' = rel /\ pc[c] \in UnderWay
      /\ fs' = [fs EXCEPT ![Candidate(c)] = Dir]
  BY DEF Make, Advance, Move, UnderWay
<1>2. Candidate(c) = child /\ child \in Place /\ at[c] \in Nat /\ at[c] < Len(rel[c])
  BY <1>1, CandidateIs
<1>3. IsFolder(fs, place) /\ at[c] \in 0 .. Len(rel[c]) /\ rel[c] \in Place /\ rel[c] \in Seq(Name)
  BY <1>1, <1>2, PathsAre DEF WalkInv, CallInv, Known
<1>4. Reached(fs', rel[c], at[c]) = place
  BY <1>3, FolderStays DEF Known, WalkInv
<1>5. Reached(fs', rel[c], at[c] + 1) = Follow(fs', place, rel[c][at[c] + 1])
  BY <1>2, <1>3, <1>4, OneFurther
<1>6. fs'[child] = Dir
  BY <1>1, <1>2 DEF WalkInv, Tree
<1>7. Follow(fs', place, rel[c][at[c] + 1]) = child
  BY <1>6 DEF Follow, Dir
<1>8. IsFolder(fs', Reached(fs', rel[c], at[c] + 1))
  BY <1>2, <1>5, <1>6, <1>7 DEF IsFolder
<1> QED
  BY <1>1, <1>8, AdvanceStands

LEMMA CheckStands ==
  ASSUME Known, WalkInv, NEW c \in Call, Check(c)
  PROVE  CallInv(c)'
<1>1. "check" \in UnderWay /\ Advance(c, "check") /\ rel' = rel /\ fs' = fs
  BY DEF Check, UnderWay
<1>2. IsFolder(fs', Reached(fs', rel[c], at[c] + 1))
  BY <1>1 DEF Check, Folder, IsFolder, Leads, Reached
<1> QED
  BY <1>1, <1>2, AdvanceStands

(* What fails a check is something: a file, or a link to a file or out of  *)
(* the share.                                                              *)
LEMMA CheckFailsStands ==
  ASSUME Known, WalkInv, NEW c \in Call, CheckFails(c)
  PROVE  CallInv(c)'
<1> DEFINE n == at[c] + 1
           place == Reached(fs, rel[c], at[c])
           child == Append(place, rel[c][n])
<1>1. pc[c] = "check" /\ pc[c] \in UnderWay /\ pc'[c] = "failed" /\ fs' = fs /\ rel' = rel
  BY DEF CheckFails, Move, Known, TypeOK, UnderWay
<1>2. at[c] \in Nat /\ at[c] < Len(rel[c]) /\ child = Candidate(c) /\ child \in Place
  BY <1>1, CandidateIs
<1>3. fs[child] # Missing
  BY <1>1, <1>2 DEF WalkInv, CallInv
<1>4. Reached(fs, rel[c], n) = Follow(fs, place, rel[c][n])
  BY <1>2, PathsAre, OneFurther DEF Known
<1>5. Settled(fs, Reached(fs, rel[c], n), {Missing})
  <2>1. CASE fs[child].kind = "link"
    BY <1>2, <1>4, <2>1 DEF Follow, WalkInv, Tree, Settled, Dir, Missing
  <2>2. CASE fs[child].kind # "link"
    BY <1>3, <1>4, <2>2 DEF Follow, Settled
  <2> QED
    BY <2>1, <2>2
<1>6. ~Folder(Leads(SubSeq(rel[c], 1, n)))
  BY DEF CheckFails
<1>7. Blocks(Leads(SubSeq(rel[c], 1, n))) /\ n \in 1 .. Len(rel[c])
  BY <1>2, <1>5, <1>6, PathsAre DEF Blocks, Settled, Leads, Reached, Known
<1>8. Obstacle(c)
  BY <1>7 DEF Obstacle
<1>9. Obstacle(c)'
  BY <1>1, <1>8 DEF Obstacle, Blocks, Folder, Leads
<1> QED
  BY <1>1, <1>9 DEF CallInv, UnderWay

LEMMA WalkStands ==
  ASSUME Known, WalkInv, Tree(fs'), Grows(fs, fs'), NEW c \in Call, Walk(c)
  PROVE  CallInv(c)'
<1>1. CASE Look(c)
  <2>1. /\ pc'[c] = (IF fs[Candidate(c)] = Missing THEN "make" ELSE "check")
        /\ pc[c] \in UnderWay /\ UNCHANGED <<fs, rel, at>>
    BY <1>1 DEF Look, Move, Known, TypeOK, UnderWay
  <2>2. Candidate(c)' = Candidate(c)
    BY <2>1 DEF Candidate, Leads
  <2> QED
    BY <2>1, <2>2 DEF CallInv, WalkInv
<1>2. CASE MakeTooLate(c)
  BY <1>2 DEF MakeTooLate, Move, Known, TypeOK, CallInv, UnderWay
<1>3. CASE LookRefused(c) \/ MakeRefused(c) \/ CheckRefused(c)
  <2>1. PICK from \in UnderWay : Refused(c, from)
    BY <1>3 DEF LookRefused, MakeRefused, CheckRefused, UnderWay
  <2> QED
    BY <2>1 DEF Refused, Move, Known, TypeOK, CallInv, UnderWay
<1> QED
  BY <1>1, <1>2, <1>3, MakeStands, CheckStands, CheckFailsStands DEF Walk

(* A call moves alone.                                                     *)
LEMMA MovesAlone ==
  ASSUME NEW c \in Call, NEW d \in Call, d # c, Known,
         Walk(c) \/ \E path \in Place : StartCall(c, path)
  PROVE  /\ pc'[d] = pc[d] /\ rel'[d] = rel[d] /\ at'[d] = at[d]
         /\ refused \subseteq refused' /\ raced \subseteq raced'
BY DEF Walk, StartCall, Look, Make, MakeTooLate, Check, CheckFails, Refused, LookRefused,
   MakeRefused, CheckRefused, Advance, Move, Known, TypeOK

LEMMA WalkInvStep ==
  ASSUME Known, WalkInv, [Next]_vars
  PROVE  WalkInv'
<1>1. Tree(fs') /\ Grows(fs, fs')
  BY DiskGrows
<1>2. ASSUME NEW c \in Call, Walk(c) \/ \E path \in Place : StartCall(c, path)
      PROVE  \A d \in Call : CallInv(d)'
  BY <1>1, <1>2, WalkStands, StartStands, MovesAlone, OthersStand
<1>3. CASE UNCHANGED <<pc, rel, at, refused, raced>>
  BY <1>1, <1>3, OthersStand DEF WalkInv
<1>4. \/ \E c \in Call : Walk(c) \/ \E path \in Place : StartCall(c, path)
      \/ UNCHANGED <<pc, rel, at, refused, raced>>
  BY DEF Next, Walks, OthersCreate, Rest, vars
<1>5. ASSUME NEW c \in Call, Walk(c) \/ \E path \in Place : StartCall(c, path)
      PROVE  WalkInv'
  BY <1>1, <1>2, <1>5 DEF WalkInv
<1> QED
  BY <1>3, <1>4, <1>5

LEMMA WalkInvInit ==
  ASSUME Init
  PROVE  WalkInv
<1>1. fs \in [Place -> Node] /\ fs[Root] = Dir /\ \A p \in Place \ {Root} : fs[p] = Missing
  BY TypedInit, RootIsPlace DEF Init, TypeOK
<1>2. Tree(fs)
  BY <1>1 DEF Tree, Dir, Missing
<1>3. \A c \in Call : CallInv(c)
  BY DEF Init, CallInv, UnderWay
<1> QED
  BY <1>2, <1>3 DEF WalkInv

(* The inductive invariant: above everything on the disk are folders, a    *)
(* walk has come to one, and what it looked at is still there.             *)
THEOREM InvariantHolds == Spec => [](Known /\ WalkInv)
<1>1. Init => Known /\ WalkInv
  BY TypedInit, WalkInvInit DEF Known
<1>2. Known /\ WalkInv /\ [Next]_vars => Known' /\ WalkInv'
  BY TypedStep, WalkInvStep DEF Known
<1> QED
  BY <1>1, <1>2, PTL DEF Spec

(* What an upload is given is a folder in the share, and stays one.        *)
THEOREM FolderIsGiven == Spec => []ReadyMeansFolder
<1>1. WalkInv => ReadyMeansFolder
  BY DEF WalkInv, CallInv, ReadyMeansFolder
<1> QED
  BY <1>1, InvariantHolds, PTL

(* A walk fails only for something in its way, by the disk, or in a race.  *)
THEOREM FailureHasReason == Spec => []FailsForAReason
<1>1. WalkInv => FailsForAReason
  BY DEF WalkInv, CallInv, FailsForAReason
<1> QED
  BY <1>1, InvariantHolds, PTL
=============================================================================
