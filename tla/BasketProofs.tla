---------------------------- MODULE BasketProofs ----------------------------
(***************************************************************************)
(* Proofs about Basket, for any names, depth, sizes and bounds.  What the  *)
(* share keeps through all of it are its folders and links (Tree and Keeps *)
(* of FoldersProofs); what was listed of a file holds as long as nobody    *)
(* touches its place.                                                      *)
(***************************************************************************)
EXTENDS Basket, FoldersProofs, FiniteSetTheorems

BasketTypeOK ==
  /\ job \in {"none", "expanding", "refused", Sending, Done, Failed}
  /\ size \in [Place -> Nat]
  /\ changed \subseteq Place
  /\ item \in Place
  /\ todo \in Seq(Seq(Name))
  /\ offered \subseteq [path : Seq(Name), bytes : Nat, link : BOOLEAN]
  /\ culprit \subseteq offered
  /\ skipped \subseteq Place

(* Nothing is offered before the request, nothing to be listed after it.   *)
Phases ==
  /\ job = "none" => offered = {} /\ culprit = {}
  /\ job \in {Sending, Done, Failed} => todo = <<>>

(* A file that was offered lies in a folder that is still there, and is    *)
(* what was declared unless it was touched.                                *)
AsDeclared(o) ==
  /\ o.path # Root /\ IsFolder(fs, Leads(Front(o.path)))
  /\ Untouched(o.path) => Fits(o)

(* It is the item itself, or lies in the item's folder as deep as its path *)
(* says: the folders on the way were no links.                             *)
Below(s) == s \in Seq(Name) \ {Root} /\ IsFolder(fs, Leads(item))
AsListed(o) ==
  \/ o.path = item
  \/ \E s : /\ Below(s)
            /\ o.path = item \o s /\ At(o.path) = Leads(item) \o s /\ At(o.path) \in Place
            /\ At(o.path) \notin changed => fs[At(o.path)] = Plain

FilesOffered == \A o \in offered : ~o.link => AsDeclared(o) /\ AsListed(o)

(* How far the expansion has come: not begun; over, with the item itself;  *)
(* or under way, in the item's folder, every file of which is offered, in  *)
(* a folder still to be listed, or below what was passed over.             *)
Fresh == todo = <<item>> /\ offered = {}
Single == todo = <<>> /\ \E o \in offered : ~o.link /\ o.path = item
ToList(path) ==
  \E s \in Seq(Name) : /\ path = item \o s /\ Leads(path) = Leads(item) \o s
                       /\ IsFolder(fs, Leads(path))
Covered(p) ==
  \/ \E o \in offered : ~o.link /\ o.path # Root /\ At(o.path) = p
  \/ \E i \in DOMAIN todo : IsPrefix(Leads(todo[i]), p)
  \/ \E q \in skipped : IsPrefix(q, p)
Walking ==
  /\ IsFolder(fs, Leads(item))
  /\ \A i \in DOMAIN todo : ToList(todo[i])
  /\ \A p \in Place \ changed : fs[p] = Plain /\ IsPrefix(Leads(item), p) => Covered(p)

BasketInv ==
  /\ Tree(fs) /\ BasketTypeOK /\ Phases /\ FilesOffered
  /\ job # "none" => Fresh \/ Single \/ Walking
  /\ UploadFailsForAReason

-----------------------------------------------------------------------------
(* Sequences.                                                              *)

LEMMA JoinAppend ==
  ASSUME NEW a \in Seq(Name), NEW s \in Seq(Name), NEW n \in Name
  PROVE  Append(a \o s, n) = a \o Append(s, n)
OBVIOUS

LEMMA JoinCancels ==
  ASSUME NEW S, NEW a \in Seq(S), NEW b \in Seq(S), NEW c \in Seq(S), a \o b = a \o c
  PROVE  b = c
<1>1. Len(b) = Len(c)
  <2>1. Len(a \o b) = Len(a) + Len(b) /\ Len(a \o c) = Len(a) + Len(c)
    OBVIOUS
  <2> QED
    BY <2>1
<1>2. ASSUME NEW i \in 1 .. Len(b)
      PROVE  b[i] = c[i]
  <2>1. (a \o b)[Len(a) + i] = b[i] /\ (a \o c)[Len(a) + i] = c[i]
    BY <1>1
  <2> QED
    BY <2>1
<1>3. b = [i \in 1 .. Len(b) |-> b[i]] /\ c = [i \in 1 .. Len(c) |-> c[i]]
  OBVIOUS
<1> QED
  BY <1>1, <1>2, <1>3

LEMMA AppendIs ==
  ASSUME NEW S, NEW s \in Seq(S), NEW e \in S
  PROVE  /\ Append(s, e) \in Seq(S) /\ Append(s, e) # Root
         /\ Front(Append(s, e)) = s /\ Last(Append(s, e)) = e
         /\ Len(Append(s, e)) = Len(s) + 1
<1>1. Append(s, e) \in Seq(S) /\ Len(Append(s, e)) = Len(s) + 1 /\ Len(s) \in Nat
  OBVIOUS
<1>2. Append(s, e) # Root
  BY <1>1 DEF Root
<1>3. Front(Append(s, e)) = s
  BY DEF Front
<1>4. Last(Append(s, e)) = e
  BY DEF Last
<1> QED
  BY <1>1, <1>2, <1>3, <1>4

LEMMA FrontLast ==
  ASSUME NEW S, NEW s \in Seq(S), s # Root
  PROVE  /\ Front(s) \in Seq(S) /\ Last(s) \in S /\ Len(s) \in Nat \ {0}
         /\ Front(s) = SubSeq(s, 1, Len(s) - 1) /\ Last(s) = s[Len(s)]
<1>1. Len(s) \in Nat \ {0}
  BY DEF Root
<1> QED
  BY <1>1 DEF Front, Last

(* A sequence that lists a finite set has every element of it.             *)
LEMMA SetListed ==
  ASSUME NEW S, IsFiniteSet(S)
  PROVE  /\ SetToSeq(S) \in Seq(S)
         /\ \A e \in S : \E i \in 1 .. Len(SetToSeq(S)) : SetToSeq(S)[i] = e
<1> DEFINE n == Cardinality(S)
           f == SetToSeq(S)
<1>1. n \in Nat /\ ExistsBijection(1 .. n, S)
  BY FS_CardinalityType
<1>2. \E g \in [1 .. n -> S] : IsInjective(g)
  BY <1>1 DEF ExistsBijection, Bijection, Injection, IsInjective
<1>3. f \in [1 .. n -> S] /\ IsInjective(f)
  BY <1>2 DEF SetToSeq
<1> HIDE DEF n, f
<1>4. f \in Injection(1 .. n, S)
  BY <1>3 DEF Injection, IsInjective
<1>5. Cardinality(1 .. n) = n
  BY <1>1, FS_Interval
<1>6. f \in Surjection(1 .. n, S)
  BY <1>4, <1>5, FS_Injection DEF n
<1>7. f \in Seq(S) /\ Len(f) = n
  BY <1>1, <1>3
<1> QED
  BY <1>6, <1>7 DEF Surjection, f

-----------------------------------------------------------------------------
(* Above everything that is there are folders.                             *)
LEMMA AboveAreFolders ==
  ASSUME NEW disk, Tree(disk), NEW p \in Place, disk[p] # Missing,
         NEW n \in Nat, n < Len(p)
  PROVE  IsFolder(disk, SubSeq(p, 1, n))
<1> DEFINE T == {m \in Nat : /\ 0 < m /\ m <= Len(p)
                             /\ ~IsFolder(disk, SubSeq(p, 1, Len(p) - m))}
<1>1. p \in Seq(Name) /\ Len(p) \in Nat
  BY PlaceIsShort
<1>2. ASSUME T # {}
      PROVE  FALSE
  <2>1. PICK m \in T : \A k \in T : m <= k
    <3>1. T \subseteq Nat
      OBVIOUS
    <3> HIDE DEF T
    <3> QED
      BY <1>2, <3>1, LeastNumber
  <2> DEFINE q == SubSeq(p, 1, Len(p) - m + 1)
  <2>2. /\ m \in Nat /\ 0 < m /\ m <= Len(p) /\ ~IsFolder(disk, SubSeq(p, 1, Len(p) - m))
        /\ Len(p) - m + 1 \in 1 .. Len(p)
    BY <1>1, <2>1
  <2>3. q \in Seq(Name) /\ Len(q) = Len(p) - m + 1
    <3> DEFINE k == Len(p) - m + 1
    <3>1. k \in 1 .. Len(p)
      BY <2>2
    <3> HIDE DEF k
    <3>2. SubSeq(p, 1, k) \in Seq(Name) /\ Len(SubSeq(p, 1, k)) = k
      BY <1>1, <3>1
    <3> QED
      BY <3>2 DEF k
  <2>4. q # Root
    <3>1. Len(q) # 0
      BY <2>2, <2>3
    <3> HIDE DEF q
    <3> QED
      BY <3>1 DEF Root
  <2>5. q \in Place
    <3>1. Len(p) <= Depth /\ Len(q) <= Len(p)
      BY <2>2, <2>3, PlaceIsShort
    <3>2. Len(q) <= Depth
      BY <1>1, <2>2, <2>3, <3>1, FoldersAssumption DEF FoldersAssumption
    <3> HIDE DEF q
    <3> QED
      BY <2>3, <3>2, PlaceIsShort
  <2>6. disk[q] # Missing
    <3>1. CASE m = 1
      <4>1. q = p
        BY <1>1, <3>1
      <4> QED
        BY <4>1
    <3>2. CASE m # 1
      <4>1. m - 1 \in Nat /\ 0 < m - 1 /\ m - 1 <= Len(p) /\ m - 1 \notin T
            /\ Len(p) - (m - 1) = Len(p) - m + 1
        BY <1>1, <2>1, <2>2, <3>2
      <4>2. IsFolder(disk, q)
        BY <4>1
      <4> QED
        BY <4>2 DEF IsFolder, Dir, Missing
    <3> QED
      BY <3>1, <3>2
  <2>7. Front(q) = SubSeq(p, 1, Len(p) - m)
    <3>1. Front(q) = SubSeq(q, 1, Len(q) - 1)
      BY DEF Front
    <3>2. Len(q) - 1 = Len(p) - m /\ Len(p) - m \in Nat /\ Len(p) - m < Len(p)
      BY <1>1, <2>2, <2>3
    <3>3. SubSeq(q, 1, Len(p) - m) = SubSeq(p, 1, Len(p) - m)
      BY <1>1, <2>2
    <3> QED
      BY <3>1, <3>2, <3>3
  <2> HIDE DEF q
  <2>8. IsFolder(disk, Front(q))
    BY <2>4, <2>5, <2>6 DEF Tree
  <2> QED
    BY <2>2, <2>7, <2>8
<1>3. Len(p) - n \in Nat /\ 0 < Len(p) - n /\ Len(p) - n <= Len(p)
      /\ Len(p) - (Len(p) - n) = n
  BY <1>1
<1> QED
  BY <1>2, <1>3

(* The way from a folder down to what lies in it: the next element is it,  *)
(* or a folder again.                                                      *)
LEMMA NextBelow ==
  ASSUME NEW disk, Tree(disk), NEW p \in Place, disk[p] = Plain,
         NEW q \in Place, disk[q] = Dir, IsPrefix(q, p)
  PROVE  LET name == p[Len(q) + 1]
             child == Append(q, name)
         IN /\ name \in Name /\ child \in Place
            /\ child = p \/ (IsFolder(disk, child) /\ IsPrefix(child, p))
<1> DEFINE k == Len(q) + 1
           name == p[k]
           child == Append(q, name)
<1>1. p \in Seq(Name) /\ q \in Seq(Name) /\ Len(p) \in Nat /\ Len(q) \in Nat
  BY PlaceIsShort
<1>2. Len(q) <= Len(p) /\ SubSeq(q, 1, Len(q)) = SubSeq(p, 1, Len(q)) /\ p # q
  BY DEF IsPrefix, Plain, Dir
<1>3. q = SubSeq(p, 1, Len(q))
  BY <1>1, <1>2
<1>4. Len(q) < Len(p)
  <2>1. ASSUME Len(q) = Len(p)
        PROVE  FALSE
    <3>1. SubSeq(p, 1, Len(p)) = p
      BY <1>1
    <3> QED
      BY <1>2, <1>3, <2>1, <3>1
  <2> QED
    BY <1>1, <1>2, <2>1
<1>5. name \in Name /\ k \in 1 .. Len(p)
  BY <1>1, <1>4
<1>6. child = SubSeq(p, 1, k)
  <2>1. Append(SubSeq(p, 1, Len(q)), p[k]) = SubSeq(p, 1, k)
    BY <1>1, <1>5
  <2> QED
    BY <1>3, <2>1
<1>7. child \in Seq(Name) /\ Len(child) = k
  BY <1>1, <1>5, AppendIs
<1> HIDE DEF child
<1>8. Len(child) <= Depth
  BY <1>1, <1>5, <1>7, PlaceIsShort, FoldersAssumption DEF FoldersAssumption
<1>9. child \in Place
  BY <1>7, <1>8, PlaceIsShort
<1>10. CASE k = Len(p)
  <2>1. child = p
    BY <1>1, <1>6, <1>10
  <2> QED
    BY <1>5, <1>9, <2>1 DEF child
<1>11. CASE k < Len(p)
  <2>1. IsFolder(disk, child)
    BY <1>1, <1>6, <1>11, AboveAreFolders DEF Plain, Missing
  <2>2. IsPrefix(child, p)
    <3>1. SubSeq(child, 1, k) = child
      BY <1>7
    <3> QED
      BY <1>6, <1>7, <1>11, <3>1 DEF IsPrefix
  <2> QED
    BY <1>5, <1>9, <2>1, <2>2 DEF child
<1> QED
  BY <1>1, <1>4, <1>10, <1>11

-----------------------------------------------------------------------------
(* Where paths lead while users create, write and delete.                  *)
Users == {Missing, Plain}

LEMMA LeadsLast ==
  ASSUME NEW disk, NEW path \in Seq(Name), path # Root
  PROVE  LeadsOn(disk, path) = Follow(disk, LeadsOn(disk, Front(path)), Last(path))
<1> DEFINE n == Len(path) - 1
<1>1. /\ n \in Nat /\ n < Len(path) /\ Len(path) = n + 1
      /\ Front(path) = SubSeq(path, 1, n) /\ Last(path) = path[n + 1]
  BY FrontLast
<1>2. SubSeq(path, 1, n + 1) = path
  BY <1>1
<1> HIDE DEF n
<1>3. Reached(disk, path, n + 1) = Follow(disk, Reached(disk, path, n), path[n + 1])
  BY <1>1, OneFurther
<1> QED
  BY <1>1, <1>2, <1>3 DEF Reached

LEMMA LeadsFar ==
  ASSUME NEW disk, Tree(disk), NEW path \in Seq(Name)
  PROVE  LeadsOn(disk, path) \in Spot
<1>1. SubSeq(path, 1, Len(path)) = path /\ Len(path) \in 0 .. Len(path)
  OBVIOUS
<1> QED
  BY <1>1, ReachedShort DEF Reached

LEMMA LeadsStays ==
  ASSUME NEW disk, NEW later, Tree(disk), Keeps(disk, later, Users),
         NEW path \in Seq(Name), IsFolder(disk, LeadsOn(disk, path))
  PROVE  LeadsOn(later, path) = LeadsOn(disk, path) /\ IsFolder(later, LeadsOn(disk, path))
<1>1. SubSeq(path, 1, Len(path)) = path /\ Len(path) \in 0 .. Len(path)
  OBVIOUS
<1>2. Users \in MayGo
  BY DEF MayGo, Users
<1>3. /\ LeadsOn(disk, path) \in Place
      /\ Settled(disk, LeadsOn(disk, path), Users)
  BY DEF IsFolder, Settled, Users, Dir, Missing, Plain
<1> DEFINE n == Len(path)
<1>4. n \in 0 .. Len(path)
  BY <1>1
<1>5. Reached(disk, path, n) = LeadsOn(disk, path) /\ Reached(later, path, n) = LeadsOn(later, path)
  BY <1>1 DEF Reached
<1> HIDE DEF n
<1>6. LeadsOn(later, path) = LeadsOn(disk, path)
  <2>1. /\ Settled(disk, Reached(disk, path, n), Users)
        /\ Reached(disk, path, n) \in Place \/ Len(path) <= Depth
    BY <1>3, <1>5
  <2>2. Reached(later, path, n) = Reached(disk, path, n)
    BY <1>2, <1>4, <2>1, ReachedStays
  <2> QED
    BY <1>5, <2>2
<1>7. later[LeadsOn(disk, path)] = disk[LeadsOn(disk, path)]
  BY <1>3 DEF Keeps
<1> QED
  BY <1>6, <1>7 DEF IsFolder

LEMMA LeadsRoot ==
  ASSUME NEW disk
  PROVE  LeadsOn(disk, Root) = Root
<1>1. SubSeq(Root, 1, 0) = Root
  BY DEF Root
<1> QED
  BY <1>1, NotYet DEF Reached

(* What can be opened lies in a folder.                                    *)
LEMMA OpensInFolder ==
  ASSUME Tree(fs), NEW path \in Seq(Name), Opens(path)
  PROVE  path # Root /\ IsFolder(fs, Leads(Front(path)))
<1>1. Leads(path) \in Place /\ fs[Leads(path)] = Plain
  BY DEF Opens
<1>2. path # Root
  <2>1. fs[Root] # Plain
    BY DEF Tree, Dir, Plain
  <2> QED
    BY <1>1, <2>1, LeadsRoot DEF Leads
<1> DEFINE place == Leads(Front(path))
           child == Append(place, Last(path))
<1>3. place \in Spot /\ Last(path) \in Name
  BY <1>2, FrontLast, LeadsFar DEF Leads
<1>4. Leads(path) = Follow(fs, place, Last(path))
  BY <1>2, LeadsLast DEF Leads
<1> HIDE DEF place
<1>5. child \in Place /\ fs[child] # Missing
  BY <1>1, <1>4 DEF Follow, Missing, Plain
<1>6. child # Root /\ Front(child) = place
  BY <1>3, ChildIs
<1> QED
  BY <1>2, <1>5, <1>6 DEF Tree, place

(* A file taken away leaves a tree.                                        *)
LEMMA TakenFromTree ==
  ASSUME NEW disk, NEW later, Tree(disk), NEW p \in Place, disk[p] = Plain,
         later = [disk EXCEPT ![p] = Missing]
  PROVE  Tree(later)
<1>1. later \in [Place -> Node] /\ later[p] = Missing /\ \A q \in Place : q # p => later[q] = disk[q]
  BY DEF Tree, Node
<1>2. \A q \in Place : disk[q] = Dir => later[q] = Dir
  BY <1>1 DEF Plain, Dir
<1>3. ASSUME NEW q \in Place \ {Root}, later[q] # Missing
      PROVE  IsFolder(later, Front(q))
  BY <1>1, <1>2, <1>3 DEF Tree, IsFolder
<1>4. ASSUME NEW q \in Place, later[q].kind = "link"
      PROVE  /\ Len(later[q].to) <= Len(q)
             /\ later[q].to \in Place => later[later[q].to] = Dir
  <2>1. later[q] = disk[q]
    BY <1>1, <1>4 DEF Missing
  <2> QED
    BY <1>2, <1>4, <2>1 DEF Tree
<1> QED
  BY <1>1, <1>2, <1>3, <1>4, RootIsPlace DEF Tree

LEMMA DiskDoes ==
  ASSUME Tree(fs), BasketTypeOK, NEW p \in Place, Create(p) \/ Write(p) \/ Delete(p)
  PROVE  /\ Tree(fs') /\ Keeps(fs, fs', Users)
         /\ \A q \in Place : q # p => fs'[q] = fs[q] /\ size'[q] = size[q]
         /\ changed' = IF job = "none" THEN {} ELSE changed \union {p}
         /\ size' \in [Place -> Nat]
         /\ UNCHANGED sendVars
<1>1. changed' = (IF job = "none" THEN {} ELSE changed \union {p}) /\ UNCHANGED sendVars
  BY DEF Create, Write, Delete, Touch
<1>2. CASE Create(p)
  <2>1. /\ Tree(fs') /\ fs[p] = Missing /\ p # Root
        /\ \E n \in Node \ {Missing} : fs' = [fs EXCEPT ![p] = n]
    BY <1>2, OthersKeepTree DEF Create
  <2>2. \A q \in Place : q # p => fs'[q] = fs[q]
    BY <2>1 DEF Tree
  <2>3. Keeps(fs, fs', Users)
    BY <2>1, <2>2 DEF Keeps, Settled, Users
  <2>4. NewSize[Last(p)] \in Nat
    <3>1. Last(p) \in Name
      BY <2>1, PlaceIsShort, FrontLast
    <3> QED
      BY <3>1, BasketAssumption DEF BasketAssumption
  <2>5. \E k \in Nat : size' = [size EXCEPT ![p] = k]
    BY <1>2, <2>4 DEF Create
  <2>6. size' \in [Place -> Nat] /\ \A q \in Place : q # p => size'[q] = size[q]
    BY <2>5 DEF BasketTypeOK
  <2> QED
    BY <1>1, <2>1, <2>2, <2>3, <2>6
<1>3. CASE Write(p)
  <2>1. fs' = fs /\ size' = [size EXCEPT ![p] = size[p] + 1]
    BY <1>3 DEF Write
  <2> QED
    BY <1>1, <2>1 DEF Keeps, BasketTypeOK
<1>4. CASE Delete(p)
  <2>1. fs[p] = Plain /\ fs' = [fs EXCEPT ![p] = Missing] /\ size' = [size EXCEPT ![p] = 0]
    BY <1>4 DEF Delete
  <2>2. Tree(fs')
    BY <2>1, TakenFromTree
  <2>3. \A q \in Place : q # p => fs'[q] = fs[q]
    BY <2>1 DEF Tree
  <2>4. Keeps(fs, fs', Users)
    BY <2>1, <2>3 DEF Keeps, Settled, Users
  <2> QED
    BY <1>1, <2>1, <2>2, <2>3, <2>4 DEF BasketTypeOK
<1> QED
  BY <1>2, <1>3, <1>4

-----------------------------------------------------------------------------
(* What other users do to an offered file shows in what they touched, and  *)
(* what was touched stays touched.                                         *)
LEMMA OfferStands ==
  ASSUME BasketInv, job # "none", NEW p \in Place, Create(p) \/ Write(p) \/ Delete(p),
         NEW o \in offered, ~o.link
  PROVE  /\ AsDeclared(o)' /\ AsListed(o)'
         /\ At(o.path)' = At(o.path)
         /\ Untouched(o.path)' => Untouched(o.path)
<1> DEFINE parent == Leads(Front(o.path))
           lies == Append(parent, Last(o.path))
           leads == Leads(o.path)
<1>1. /\ Tree(fs') /\ Keeps(fs, fs', Users)
      /\ \A q \in Place : q # p => fs'[q] = fs[q] /\ size'[q] = size[q]
      /\ changed' = changed \union {p} /\ item' = item
  BY DiskDoes DEF BasketInv, sendVars
<1>2. /\ o.path \in Seq(Name) /\ item \in Seq(Name) /\ AsDeclared(o) /\ AsListed(o) /\ Tree(fs)
  BY PlaceIsShort DEF BasketInv, BasketTypeOK, FilesOffered
<1>3. o.path # Root /\ Front(o.path) \in Seq(Name) /\ IsFolder(fs, parent)
  BY <1>2, FrontLast DEF AsDeclared
<1>4. LeadsOn(fs', Front(o.path)) = parent /\ IsFolder(fs', parent)
  BY <1>1, <1>2, <1>3, LeadsStays DEF Leads
<1>5. At(o.path) = lies /\ At(o.path)' = lies
  BY <1>4 DEF At, Leads
<1>6. /\ leads = Follow(fs, parent, Last(o.path))
      /\ LeadsOn(fs', o.path) = Follow(fs', parent, Last(o.path))
  BY <1>2, <1>3, <1>4, LeadsLast DEF Leads
<1>7. lies # p => LeadsOn(fs', o.path) = leads
  BY <1>1, <1>6 DEF Follow
<1> HIDE DEF parent, lies, leads
<1>8. Untouched(o.path)' =>
        Untouched(o.path) /\ lies # p /\ leads # p /\ LeadsOn(fs', o.path) = leads
  BY <1>1, <1>3, <1>5, <1>7 DEF Untouched, Leads, leads
<1>9. AsDeclared(o)'
  <2>1. ASSUME Untouched(o.path)'
        PROVE  Fits(o)'
    <3>1. leads \in Place /\ fs[leads] = Plain /\ size[leads] = o.bytes
      BY <1>2, <1>8, <2>1 DEF AsDeclared, Fits, Opens, leads
    <3>2. fs'[leads] = Plain /\ size'[leads] = o.bytes
      BY <1>1, <1>8, <2>1, <3>1
    <3> QED
      BY <1>8, <2>1, <3>1, <3>2 DEF Fits, Opens, Leads
  <2> QED
    BY <1>3, <1>4, <2>1 DEF AsDeclared, Leads
<1>10. AsListed(o)'
  <2>1. CASE o.path = item
    BY <1>1, <2>1 DEF AsListed
  <2>2. CASE o.path # item
    <3>1. PICK s : /\ Below(s) /\ o.path = item \o s /\ lies = Leads(item) \o s /\ lies \in Place
                   /\ lies \notin changed => fs[lies] = Plain
      BY <1>2, <1>5, <2>2 DEF AsListed
    <3>2. LeadsOn(fs', item) = Leads(item) /\ IsFolder(fs', Leads(item))
      BY <1>1, <1>2, <3>1, LeadsStays DEF Below, Leads
    <3>3. Below(s)'
      BY <1>1, <3>1, <3>2 DEF Below, Leads
    <3>4. lies \notin changed' => fs'[lies] = Plain
      BY <1>1, <3>1
    <3> QED
      BY <1>1, <1>5, <3>1, <3>2, <3>3, <3>4 DEF AsListed, Leads
  <2> QED
    BY <2>1, <2>2
<1> QED
  BY <1>5, <1>8, <1>9, <1>10

LEMMA CoverStands ==
  ASSUME BasketInv, job # "none", NEW p \in Place, Create(p) \/ Write(p) \/ Delete(p), Walking
  PROVE  Walking'
<1>1. /\ Tree(fs') /\ Keeps(fs, fs', Users)
      /\ \A q \in Place : q # p => fs'[q] = fs[q] /\ size'[q] = size[q]
      /\ changed' = changed \union {p}
      /\ item' = item /\ todo' = todo /\ offered' = offered /\ skipped' = skipped
  BY DiskDoes DEF BasketInv, sendVars, refusals
<1>2. Tree(fs) /\ item \in Seq(Name) /\ todo \in Seq(Seq(Name))
  BY PlaceIsShort DEF BasketInv, BasketTypeOK
<1>3. LeadsOn(fs', item) = Leads(item) /\ IsFolder(fs', Leads(item)) /\ IsFolder(fs, Leads(item))
  BY <1>1, <1>2, LeadsStays DEF Walking, Leads
<1>4. ASSUME NEW i \in DOMAIN todo
      PROVE  LeadsOn(fs', todo[i]) = Leads(todo[i]) /\ ToList(todo[i])'
  <2>1. PICK s \in Seq(Name) :
          /\ todo[i] = item \o s /\ Leads(todo[i]) = Leads(item) \o s
          /\ IsFolder(fs, Leads(todo[i]))
    BY DEF Walking, ToList
  <2>2. todo[i] \in Seq(Name)
    BY <1>2
  <2>3. LeadsOn(fs', todo[i]) = Leads(todo[i]) /\ IsFolder(fs', Leads(todo[i]))
    BY <1>1, <1>2, <2>1, <2>2, LeadsStays DEF Leads
  <2> QED
    BY <1>1, <1>3, <2>1, <2>3 DEF ToList, Leads
<1>5. ASSUME NEW q \in Place \ changed', fs'[q] = Plain, IsPrefix(Leads(item), q)
      PROVE  Covered(q)'
  <2>1. q \notin changed /\ fs[q] = Plain
    BY <1>1, <1>5
  <2>2. Covered(q)
    BY <1>5, <2>1 DEF Walking
  <2>3. ASSUME NEW o \in offered, ~o.link, o.path # Root, At(o.path) = q
        PROVE  Covered(q)'
    BY <1>1, <2>3, OfferStands DEF Covered
  <2>4. ASSUME NEW i \in DOMAIN todo, IsPrefix(Leads(todo[i]), q)
        PROVE  Covered(q)'
    BY <1>1, <1>4, <2>4 DEF Covered, Leads
  <2>5. (\E r \in skipped : IsPrefix(r, q)) => Covered(q)'
    BY <1>1 DEF Covered
  <2> QED
    BY <2>2, <2>3, <2>4, <2>5 DEF Covered
<1> QED
  BY <1>1, <1>3, <1>4, <1>5 DEF Walking, Leads

LEMMA DiskStep ==
  ASSUME BasketInv, NEW p \in Place, Create(p) \/ Write(p) \/ Delete(p)
  PROVE  BasketInv'
<1>1. /\ Tree(fs') /\ size' \in [Place -> Nat] /\ changed' \subseteq Place
      /\ UNCHANGED <<job, item, todo, offered, culprit, skipped, unread>>
  BY DiskDoes DEF BasketInv, BasketTypeOK, sendVars, refusals
<1>2. BasketTypeOK' /\ Phases'
  BY <1>1 DEF BasketInv, BasketTypeOK, Phases
<1>3. CASE job = "none"
  BY <1>1, <1>2, <1>3 DEF BasketInv, Phases, FilesOffered, UploadFailsForAReason
<1>4. CASE job # "none"
  <2>1. FilesOffered'
    BY <1>1, <1>4, OfferStands DEF FilesOffered
  <2>2. Fresh' \/ Single' \/ Walking'
    <3>1. Fresh => Fresh'
      BY <1>1 DEF Fresh
    <3>2. Single => Single'
      BY <1>1 DEF Single
    <3> QED
      BY <1>4, <3>1, <3>2, CoverStands DEF BasketInv
  <2>3. UploadFailsForAReason'
    <3>1. ASSUME NEW o \in culprit
          PROVE  o.link \/ ~Untouched(o.path)' \/ o \in unread
      <4>1. o \in offered /\ (o.link \/ ~Untouched(o.path) \/ o \in unread)
        BY DEF BasketInv, BasketTypeOK, UploadFailsForAReason
      <4> QED
        BY <1>4, <4>1, OfferStands
    <3> QED
      BY <1>1, <3>1 DEF UploadFailsForAReason
  <2> QED
    BY <1>1, <1>2, <2>1, <2>2, <2>3 DEF BasketInv
<1> QED
  BY <1>3, <1>4

-----------------------------------------------------------------------------
(* Expansion.                                                              *)
LEMMA EntryIs ==
  ASSUME Tree(fs), NEW path \in Seq(Name), IsFolder(fs, Leads(path)), NEW e \in Entries(path)
  PROVE  /\ e \in Seq(Name) /\ e # Root /\ Front(e) = path /\ Last(e) \in Name
         /\ e = Append(path, Last(e)) /\ At(e) = Append(Leads(path), Last(e))
         /\ At(e) \in Place /\ fs[At(e)] # Missing
         /\ fs[At(e)].kind # "link" => Leads(e) = At(e)
<1>1. PICK n \in Name : /\ e = Append(path, n)
                        /\ Append(Leads(path), n) \in Place /\ fs[Append(Leads(path), n)] # Missing
  BY DEF Entries
<1>2. e \in Seq(Name) /\ e # Root /\ Front(e) = path /\ Last(e) = n
  BY <1>1, AppendIs
<1>3. At(e) = Append(Leads(path), n)
  BY <1>2 DEF At
<1>4. Leads(e) = Follow(fs, Leads(path), n)
  BY <1>2, LeadsLast DEF Leads
<1> QED
  BY <1>1, <1>2, <1>3, <1>4 DEF Follow

LEMMA EntriesFinite ==
  ASSUME NEW path, NEW S, S \subseteq Entries(path)
  PROVE  IsFiniteSet(S)
<1> DEFINE Names == {n \in Name : Append(path, n) \in S}
           f == [n \in Names |-> Append(path, n)]
<1>1. IsFiniteSet(Names)
  BY BasketAssumption, FS_Subset DEF BasketAssumption
<1>2. \A e \in S : \E n \in Names : f[n] = e
  BY DEF Entries
<1>3. f \in Surjection(Names, S)
  BY <1>2 DEF Surjection
<1> HIDE DEF Names, f
<1> QED
  BY <1>1, <1>3, FS_Surjection

LEMMA FreshWalks ==
  ASSUME BasketInv, Fresh, IsFolder(fs, Leads(item))
  PROVE  Walking
<1>1. todo = <<item>> /\ DOMAIN todo = {1} /\ todo[1] = item
  BY DEF Fresh
<1>2. item \in Seq(Name) /\ Leads(item) \in Seq(Name)
  BY PlaceIsShort DEF BasketInv, BasketTypeOK, IsFolder
<1>3. Root \in Seq(Name) /\ item \o Root = item /\ Leads(item) \o Root = Leads(item)
  BY <1>2 DEF Root
<1>4. ToList(item)
  BY <1>3 DEF ToList
<1> QED
  BY <1>1, <1>4 DEF Walking, Covered

(* What List found of a file that is no link.                              *)
LEMMA EntryOffered ==
  ASSUME BasketInv, IsFolder(fs, Leads(item)), NEW path \in Seq(Name), ToList(path),
         NEW e \in Entries(path), ~IsDir(e)
  PROVE  /\ AsOffer(e) \in [path : Seq(Name), bytes : Nat, link : BOOLEAN]
         /\ AsOffer(e).path = e
         /\ ~AsOffer(e).link => fs[At(e)] = Plain /\ AsDeclared(AsOffer(e)) /\ AsListed(AsOffer(e))
<1> DEFINE o == AsOffer(e)
<1>1. PICK s \in Seq(Name) : /\ path = item \o s /\ Leads(path) = Leads(item) \o s
                             /\ IsFolder(fs, Leads(path))
  BY DEF ToList
<1>2. /\ e \in Seq(Name) /\ e # Root /\ Front(e) = path /\ Last(e) \in Name
      /\ e = Append(path, Last(e)) /\ At(e) = Append(Leads(path), Last(e))
      /\ At(e) \in Place /\ fs[At(e)] # Missing
      /\ fs[At(e)].kind # "link" => Leads(e) = At(e)
  BY <1>1, EntryIs DEF BasketInv
<1>3. o.path = e /\ o \in [path : Seq(Name), bytes : Nat, link : BOOLEAN]
  BY <1>2, BasketAssumption DEF AsOffer, Offer, BasketInv, BasketTypeOK, BasketAssumption
<1>4. CASE ~o.link
  <2>1. fs[At(e)].kind # "link" /\ o.bytes = size[At(e)]
    BY <1>4 DEF AsOffer, Offer, Entry
  <2>2. fs[At(e)] = Plain
    <3>1. fs[At(e)] \in Node /\ fs[At(e)] # Dir
      BY <1>2 DEF BasketInv, Tree, IsDir, Entry
    <3> QED
      BY <1>2, <2>1, <3>1 DEF Node, Link
  <2>3. AsDeclared(o)
    BY <1>1, <1>2, <1>3, <2>1, <2>2 DEF AsDeclared, Fits, Opens
  <2>4. PICK t \in Seq(Name) \ {Root} : e = item \o t /\ At(e) = Leads(item) \o t
    <3>1. item \in Seq(Name) /\ Leads(item) \in Seq(Name)
      BY PlaceIsShort DEF BasketInv, BasketTypeOK, IsFolder
    <3>2. PICK n \in Name : e = Append(path, n) /\ At(e) = Append(Leads(path), n)
      BY <1>2
    <3>3. e = Append(item \o s, n) /\ At(e) = Append(Leads(item) \o s, n)
      BY <1>1, <3>2
    <3>4. /\ Append(item \o s, n) = item \o Append(s, n)
          /\ Append(Leads(item) \o s, n) = Leads(item) \o Append(s, n)
          /\ Append(s, n) \in Seq(Name) \ {Root}
      BY <3>1, JoinAppend, AppendIs
    <3> QED
      BY <3>3, <3>4, Zenon
  <2>5. Below(t)
    BY DEF Below
  <2> HIDE DEF o
  <2>6. AsListed(o)
    BY <1>2, <1>3, <2>2, <2>4, <2>5 DEF AsListed
  <2> QED
    BY <1>3, <2>2, <2>3, <2>6 DEF o
<1> QED
  BY <1>3, <1>4

LEMMA DirToList ==
  ASSUME BasketInv, IsFolder(fs, Leads(item)), NEW path \in Seq(Name), ToList(path),
         NEW e \in Entries(path), IsDir(e)
  PROVE  e \in Seq(Name) /\ ToList(e) /\ Leads(e) = At(e)
<1>1. PICK s \in Seq(Name) : /\ path = item \o s /\ Leads(path) = Leads(item) \o s
                             /\ IsFolder(fs, Leads(path))
  BY DEF ToList
<1>2. /\ e \in Seq(Name) /\ Last(e) \in Name
      /\ e = Append(path, Last(e)) /\ At(e) = Append(Leads(path), Last(e))
      /\ At(e) \in Place
      /\ fs[At(e)].kind # "link" => Leads(e) = At(e)
  BY <1>1, EntryIs DEF BasketInv
<1>3. fs[At(e)] = Dir /\ Leads(e) = At(e)
  BY <1>2 DEF IsDir, Entry, Dir
<1>4. item \in Seq(Name) /\ Leads(item) \in Seq(Name)
  BY PlaceIsShort DEF BasketInv, BasketTypeOK, IsFolder
<1>5. \E t \in Seq(Name) : e = item \o t /\ At(e) = Leads(item) \o t
  <2>1. PICK n \in Name : e = Append(path, n) /\ At(e) = Append(Leads(path), n)
    BY <1>2
  <2>2. e = Append(item \o s, n) /\ At(e) = Append(Leads(item) \o s, n)
    BY <1>1, <2>1
  <2>3. /\ Append(item \o s, n) = item \o Append(s, n)
        /\ Append(Leads(item) \o s, n) = Leads(item) \o Append(s, n)
        /\ Append(s, n) \in Seq(Name)
    BY <1>4, JoinAppend, AppendIs
  <2> QED
    BY <2>2, <2>3, Zenon
<1> QED
  BY <1>2, <1>3, <1>5 DEF ToList, IsFolder

(* What is listed of the folders on top of those that wait.                *)
Listed(path, list) == \E i \in DOMAIN list : list[i] = path

LEMMA OnTop ==
  ASSUME NEW a \in Seq(Seq(Name)), NEW b \in Seq(Seq(Name)), b # <<>>, NEW c, c = a \o Tail(b)
  PROVE  /\ c \in Seq(Seq(Name))
         /\ \A x : Listed(x, c) => Listed(x, a) \/ Listed(x, b)
         /\ \A x : Listed(x, a) => Listed(x, c)
         /\ \A x : Listed(x, b) /\ x # Head(b) => Listed(x, c)
<1>1. /\ Len(a) \in Nat /\ Len(b) \in Nat \ {0} /\ Tail(b) \in Seq(Seq(Name))
      /\ Len(Tail(b)) = Len(b) - 1 /\ Head(b) = b[1]
      /\ \A j \in 1 .. Len(b) - 1 : Tail(b)[j] = b[j + 1]
  OBVIOUS
<1>2. /\ c \in Seq(Seq(Name)) /\ Len(c) = Len(a) + Len(b) - 1
      /\ \A i \in 1 .. Len(a) : c[i] = a[i]
      /\ \A j \in 1 .. Len(b) - 1 : c[Len(a) + j] = b[j + 1]
  BY <1>1
<1>3. ASSUME NEW i \in DOMAIN c
      PROVE  Listed(c[i], a) \/ Listed(c[i], b)
  <2>1. i \in 1 .. Len(a) + Len(b) - 1
    BY <1>2
  <2>2. CASE i <= Len(a)
    <3>1. i \in DOMAIN a /\ c[i] = a[i]
      BY <1>1, <1>2, <2>1, <2>2
    <3> QED
      BY <3>1 DEF Listed
  <2>3. CASE i > Len(a)
    <3>1. i - Len(a) \in 1 .. Len(b) - 1 /\ Len(a) + (i - Len(a)) = i
      BY <1>1, <2>1, <2>3
    <3>2. c[i] = b[i - Len(a) + 1] /\ i - Len(a) + 1 \in DOMAIN b
      BY <1>1, <1>2, <3>1
    <3> QED
      BY <3>2 DEF Listed
  <2> QED
    BY <1>1, <2>1, <2>2, <2>3
<1>4. ASSUME NEW i \in DOMAIN a
      PROVE  Listed(a[i], c)
  <2>1. i \in DOMAIN c /\ c[i] = a[i]
    BY <1>1, <1>2
  <2> QED
    BY <2>1 DEF Listed
<1>5. ASSUME NEW i \in DOMAIN b, b[i] # Head(b)
      PROVE  Listed(b[i], c)
  <2>1. PICK j \in 1 .. Len(b) - 1 : j + 1 = i
    <3>1. i - 1 \in 1 .. Len(b) - 1 /\ (i - 1) + 1 = i
      BY <1>1, <1>5
    <3> QED
      BY <3>1
  <2>2. Len(a) + j \in DOMAIN c
    BY <1>1, <1>2, <2>1
  <2>3. c[Len(a) + j] = b[i]
    BY <1>2, <2>1
  <2> QED
    BY <2>2, <2>3 DEF Listed
<1>6. \A x : Listed(x, c) => Listed(x, a) \/ Listed(x, b)
  BY <1>3, Zenon DEF Listed
<1>7. \A x : Listed(x, a) => Listed(x, c)
  BY <1>4, Zenon DEF Listed
<1>8. \A x : Listed(x, b) /\ x # Head(b) => Listed(x, c)
  BY <1>5, Zenon DEF Listed
<1> QED
  BY <1>2, <1>6, <1>7, <1>8, Zenon

(* While the disk is as it was, so is what is known of it.                 *)
LEMMA SameDisk ==
  ASSUME UNCHANGED <<fs, size, changed, item>>
  PROVE  /\ Tree(fs) => Tree(fs')
         /\ \A o : AsDeclared(o) /\ AsListed(o) => AsDeclared(o)' /\ AsListed(o)'
         /\ \A path : /\ Untouched(path)' <=> Untouched(path)
                      /\ At(path)' = At(path) /\ Leads(path)' = Leads(path)
                      /\ ToList(path) => ToList(path)'
<1>1. \A path : Leads(path)' = Leads(path)
  BY DEF Leads
<1>2. \A path : At(path)' = At(path)
  BY <1>1 DEF At
<1>3. \A path : Untouched(path)' <=> Untouched(path)
  BY <1>1, <1>2 DEF Untouched
<1>4. \A path : ToList(path) => ToList(path)'
  BY <1>1 DEF ToList, IsFolder
<1>5. \A o : AsDeclared(o) => AsDeclared(o)'
  BY <1>1, <1>3 DEF AsDeclared, Fits, Opens, IsFolder
<1>6. \A s : Below(s) => Below(s)'
  BY <1>1 DEF Below, IsFolder
<1>7. \A o : AsListed(o) => AsListed(o)'
  BY <1>1, <1>2, <1>6 DEF AsListed
<1> QED
  BY <1>1, <1>2, <1>3, <1>4, <1>5, <1>7

(* So are the stages, while nothing is listed or offered.                  *)
LEMMA SameList ==
  ASSUME BasketInv, UNCHANGED <<fs, size, changed, item, todo, offered, skipped>>,
         job # "none", job' \in {"expanding", "refused", Sending, Done, Failed},
         job' \in {Sending, Done, Failed} => todo = <<>>,
         culprit' \subseteq offered, UploadFailsForAReason'
  PROVE  BasketInv'
<1>1. Tree(fs') /\ BasketTypeOK' /\ Phases'
  BY DEF BasketInv, BasketTypeOK, Phases, Sending, Done, Failed
<1>2. FilesOffered'
  BY SameDisk DEF BasketInv, FilesOffered
<1>3. Fresh => Fresh'
  BY DEF Fresh
<1>4. Single => Single'
  BY DEF Single
<1>5. ASSUME Walking
      PROVE  Walking'
  <2>1. \A p : Covered(p) => Covered(p)'
    BY SameDisk DEF Covered
  <2> QED
    BY <1>5, <2>1, SameDisk DEF Walking, IsFolder
<1> QED
  BY <1>1, <1>2, <1>3, <1>4, <1>5 DEF BasketInv

LEMMA ExpandFolderStep ==
  ASSUME BasketInv, NEW path, path = Head(todo), ExpandFolder(path)
  PROVE  BasketInv'
<1>0. PICK unseen \in SUBSET Entries(path) :
        LET dirs == {e \in Entries(path) \ unseen : IsDir(e)}
            files == Entries(path) \ (unseen \union dirs)
        IN /\ todo' = SetToSeq(dirs) \o Tail(todo)
           /\ offered' = offered \union {AsOffer(e) : e \in files}
           /\ skipped' = skipped \union {At(e) : e \in unseen}
  BY DEF ExpandFolder
<1> DEFINE dirs == {e \in Entries(path) \ unseen : IsDir(e)}
           files == Entries(path) \ (unseen \union dirs)
           more == SetToSeq(dirs)
<1>1. /\ job = "expanding" /\ todo # <<>> /\ IsFolder(fs, Leads(path))
      /\ todo' = more \o Tail(todo)
      /\ offered' = offered \union {AsOffer(e) : e \in files}
      /\ skipped' = skipped \union {At(e) : e \in unseen}
      /\ UNCHANGED <<fs, size, changed, item, job, culprit, unread>>
  BY <1>0 DEF ExpandFolder, Expanding, DiskAsItWas, diskVars, Folder, IsFolder
<1>2. todo \in Seq(Seq(Name)) /\ path \in Seq(Name) /\ Listed(path, todo)
  <2>1. todo \in Seq(Seq(Name))
    BY DEF BasketInv, BasketTypeOK
  <2>2. 1 \in DOMAIN todo /\ todo[1] = path /\ path \in Seq(Name)
    BY <1>1, <2>1
  <2> QED
    BY <2>1, <2>2 DEF Listed
<1>3. Walking
  <2>1. CASE Fresh
    <3>1. path = item
      BY <2>1 DEF Fresh
    <3> QED
      BY <1>1, <2>1, <3>1, FreshWalks
  <2>2. CASE Single
    BY <1>1, <2>2 DEF Single
  <2> QED
    BY <1>1, <2>1, <2>2 DEF BasketInv
<1>4. IsFolder(fs, Leads(item)) /\ \A x : Listed(x, todo) => ToList(x)
  BY <1>3 DEF Walking, Listed
<1>5. ToList(path)
  BY <1>2, <1>4
<1>6. ASSUME NEW e \in dirs
      PROVE  e \in Seq(Name) /\ ToList(e) /\ Leads(e) = At(e)
  BY <1>2, <1>4, <1>5, DirToList
<1>7. more \in Seq(dirs) /\ \A x : Listed(x, more) <=> x \in dirs
  <2>1. IsFiniteSet(dirs)
    BY EntriesFinite
  <2> HIDE DEF dirs
  <2>2. more \in Seq(dirs) /\ \A e \in dirs : \E i \in 1 .. Len(more) : more[i] = e
    BY <2>1, SetListed
  <2> HIDE DEF more
  <2> QED
    BY <2>2 DEF Listed
<1>8. more \in Seq(Seq(Name))
  BY <1>6, <1>7
<1> HIDE DEF more
<1>9. /\ todo' \in Seq(Seq(Name))
      /\ \A x : Listed(x, todo') => Listed(x, more) \/ Listed(x, todo)
      /\ \A x : Listed(x, more) => Listed(x, todo')
      /\ \A x : Listed(x, todo) /\ x # path => Listed(x, todo')
  BY <1>1, <1>2, <1>8, OnTop
<1>10. ASSUME NEW e \in files
       PROVE  /\ AsOffer(e) \in [path : Seq(Name), bytes : Nat, link : BOOLEAN]
              /\ AsOffer(e).path = e
              /\ ~AsOffer(e).link =>
                   fs[At(e)] = Plain /\ AsDeclared(AsOffer(e)) /\ AsListed(AsOffer(e))
  BY <1>2, <1>4, <1>5, EntryOffered
<1>11. Tree(fs') /\ BasketTypeOK' /\ Phases'
  <2>1. \A e \in unseen : At(e) \in Place
    BY <1>1, <1>2, EntryIs DEF BasketInv
  <2> QED
    BY <1>1, <1>9, <1>10, <2>1 DEF BasketInv, BasketTypeOK, Phases, Sending, Done, Failed
<1>12. FilesOffered'
  <2>1. \A o \in offered' : ~o.link => AsDeclared(o) /\ AsListed(o)
    BY <1>1, <1>10 DEF BasketInv, FilesOffered
  <2> QED
    BY <1>1, <2>1, SameDisk DEF FilesOffered
<1>13. Walking'
  <2>1. IsFolder(fs', Leads(item)')
    BY <1>1, <1>4 DEF Leads, IsFolder
  <2>2. \A x : Listed(x, todo') => ToList(x)'
    BY <1>1, <1>4, <1>6, <1>7, <1>9, SameDisk
  <2>3. ASSUME NEW p \in Place \ changed, fs[p] = Plain, IsPrefix(Leads(item), p)
        PROVE  \/ \E o \in offered' : ~o.link /\ o.path # Root /\ At(o.path) = p
               \/ \E x : Listed(x, todo') /\ IsPrefix(Leads(x), p)
               \/ \E q \in skipped' : IsPrefix(q, p)
    <3>1. CASE \E o \in offered : ~o.link /\ o.path # Root /\ At(o.path) = p
      BY <1>1, <3>1
    <3>2. CASE \E x : x # path /\ Listed(x, todo) /\ IsPrefix(Leads(x), p)
      BY <1>9, <3>2
    <3>3. CASE IsPrefix(Leads(path), p)
      <4> DEFINE name == p[Len(Leads(path)) + 1]
                 child == Append(Leads(path), name)
                 e == Append(path, name)
      <4>1. /\ name \in Name /\ child \in Place
            /\ child = p \/ (IsFolder(fs, child) /\ IsPrefix(child, p))
        BY <1>1, <2>3, <3>3, NextBelow DEF BasketInv, IsFolder
      <4>2. fs[child] = Plain \/ fs[child] = Dir
        BY <2>3, <4>1 DEF IsFolder
      <4> HIDE DEF name
      <4>3. e \in Entries(path) /\ At(e) = child /\ e # Root
        <5>1. Front(e) = path /\ Last(e) = name /\ e # Root
          BY <1>2, <4>1, AppendIs
        <5>2. fs[child] # Missing
          BY <4>2 DEF Plain, Dir, Missing
        <5> QED
          BY <4>1, <5>1, <5>2 DEF Entries, At
      <4> HIDE DEF child, e
      <4>4. CASE e \in unseen
        <5>1. IsPrefix(child, p)
          <6>1. p \in Seq(Name)
            BY <2>3, PlaceIsShort
          <6> QED
            BY <4>1, <6>1 DEF IsPrefix
        <5> QED
          BY <1>1, <4>3, <4>4, <5>1
      <4>5. CASE e \notin unseen /\ fs[child] = Plain
        <5>1. child = p
          BY <4>1, <4>5 DEF IsFolder, Plain, Dir
        <5>2. e \in files /\ ~AsOffer(e).link
          BY <4>3, <4>5 DEF IsDir, Entry, AsOffer, Offer, Plain, Dir
        <5> QED
          BY <1>1, <1>10, <4>3, <5>1, <5>2
      <4>6. CASE e \notin unseen /\ fs[child] = Dir
        <5>1. IsPrefix(child, p)
          BY <2>3, <4>1, <4>6 DEF Plain, Dir
        <5>2. e \in dirs
          BY <4>3, <4>6 DEF IsDir, Entry
        <5> QED
          BY <1>6, <1>7, <1>9, <4>3, <5>1, <5>2
      <4> QED
        BY <4>2, <4>4, <4>5, <4>6
    <3>4. CASE \E q \in skipped : IsPrefix(q, p)
      BY <1>1, <3>4
    <3> QED
      BY <1>3, <2>3, <3>1, <3>2, <3>3, <3>4 DEF Walking, Covered, Listed
  <2>4. \A p : (\/ \E o \in offered' : ~o.link /\ o.path # Root /\ At(o.path) = p
                \/ \E x : Listed(x, todo') /\ IsPrefix(Leads(x), p)
                \/ \E q \in skipped' : IsPrefix(q, p))
               => Covered(p)'
    BY <1>1, SameDisk DEF Covered, Listed
  <2>5. \A p \in Place \ changed' : fs'[p] = Plain /\ IsPrefix(Leads(item)', p) => Covered(p)'
    BY <1>1, <2>3, <2>4 DEF Leads
  <2> QED
    BY <2>1, <2>2, <2>5 DEF Walking, Listed
<1>14. UploadFailsForAReason'
  BY <1>1, SameDisk DEF BasketInv, UploadFailsForAReason
<1> QED
  BY <1>11, <1>12, <1>13, <1>14 DEF BasketInv

LEMMA ExpandFileStep ==
  ASSUME BasketInv, NEW path, path = Head(todo), ExpandFile(path)
  PROVE  BasketInv'
<1> DEFINE o == Offer(path, size[Leads(path)], FALSE)
<1>1. /\ job = "expanding" /\ todo # <<>> /\ Opens(path)
      /\ todo' = Tail(todo) /\ offered' = offered \union {o}
      /\ UNCHANGED <<fs, size, changed, item, job, culprit, skipped, unread>>
  BY DEF ExpandFile, Expanding, DiskAsItWas, diskVars
<1>2. todo \in Seq(Seq(Name)) /\ 1 \in DOMAIN todo /\ path = todo[1] /\ path \in Seq(Name)
  BY <1>1 DEF BasketInv, BasketTypeOK
<1>3. Fresh
  <2>1. ~Walking
    BY <1>1, <1>2 DEF Walking, ToList, IsFolder, Opens, Plain, Dir
  <2>2. ~Single
    BY <1>1 DEF Single
  <2> QED
    BY <1>1, <2>1, <2>2 DEF BasketInv
<1>4. path = item /\ todo' = <<>> /\ offered' = {o}
  BY <1>1, <1>2, <1>3 DEF Fresh
<1>5. /\ o.path = path /\ ~o.link /\ o.bytes = size[Leads(path)] /\ o.bytes \in Nat
      /\ o \in [path : Seq(Name), bytes : Nat, link : BOOLEAN]
  BY <1>1, <1>2 DEF Offer, Opens, BasketInv, BasketTypeOK
<1> HIDE DEF o
<1>6. AsDeclared(o) /\ AsListed(o)
  BY <1>1, <1>2, <1>4, <1>5, OpensInFolder DEF AsDeclared, AsListed, Fits, BasketInv
<1>7. Tree(fs') /\ BasketTypeOK' /\ Phases'
  BY <1>1, <1>4, <1>5 DEF BasketInv, BasketTypeOK, Phases, Sending, Done, Failed
<1>8. FilesOffered'
  BY <1>1, <1>4, <1>6, SameDisk DEF FilesOffered
<1>9. Single'
  BY <1>1, <1>4, <1>5 DEF Single
<1>10. UploadFailsForAReason'
  BY <1>1, SameDisk DEF BasketInv, UploadFailsForAReason
<1> QED
  BY <1>7, <1>8, <1>9, <1>10 DEF BasketInv

LEMMA ExpansionEndsStep ==
  ASSUME BasketInv,
         \/ Expanded
         \/ \E path : ExpandFails(path) \/ ReadRefused(path)
  PROVE  BasketInv'
<1>1. /\ job = "expanding" /\ job' \in {"refused", Sending}
      /\ job' = Sending => todo = <<>>
      /\ UNCHANGED <<fs, size, changed, item, todo, offered, culprit, skipped, unread>>
  BY DEF Expanded, ExpandFails, ReadRefused, Expanding, DiskAsItWas, diskVars, Sending
<1>2. UploadFailsForAReason'
  BY <1>1, SameDisk DEF BasketInv, UploadFailsForAReason
<1>3. culprit' \subseteq offered
  BY <1>1 DEF BasketInv, BasketTypeOK
<1>4. job' \in {Sending, Done, Failed} => todo = <<>>
  BY <1>1 DEF Sending, Done, Failed
<1> QED
  BY <1>1, <1>2, <1>3, <1>4, SameList DEF Sending

-----------------------------------------------------------------------------
(* The request, and the uploads.                                           *)
LEMMA RequestStep ==
  ASSUME BasketInv, NEW path \in Place, Request(path)
  PROVE  BasketInv'
<1>1. /\ job = "none" /\ job' = "expanding" /\ item' = path /\ todo' = <<path>>
      /\ UNCHANGED <<fs, size, changed, offered, culprit, skipped, unread>>
  BY DEF Request, diskVars, refusals
<1>2. offered = {} /\ culprit = {} /\ path \in Seq(Name)
  BY <1>1, PlaceIsShort DEF BasketInv, Phases
<1>3. BasketTypeOK'
  BY <1>1, <1>2 DEF BasketInv, BasketTypeOK
<1>4. Phases'
  BY <1>1 DEF Phases, Sending, Done, Failed
<1>5. FilesOffered' /\ Fresh' /\ UploadFailsForAReason'
  BY <1>1, <1>2 DEF FilesOffered, Fresh, UploadFailsForAReason
<1> QED
  BY <1>1, <1>3, <1>4, <1>5 DEF BasketInv

LEMMA UploadStep ==
  ASSUME BasketInv, NEW o \in offered, Upload(o) \/ UploadFails(o) \/ UploadRefused(o)
  PROVE  BasketInv'
<1>1. /\ job = Sending /\ job' \in {Sending, Done, Failed}
      /\ UNCHANGED <<fs, size, changed, item, todo, offered, skipped>>
      /\ unread \subseteq unread'
      /\ culprit' = culprit \/ (culprit' = {o} /\ (~Fits(o) \/ o \in unread'))
  BY DEF Upload, UploadFails, UploadRefused, FailWith, Uploading, diskVars
<1>2. todo = <<>>
  BY <1>1 DEF BasketInv, Phases
<1>3. ASSUME ~Fits(o)
      PROVE  o.link \/ ~Untouched(o.path)
  BY <1>3 DEF BasketInv, FilesOffered, AsDeclared
<1>4. UploadFailsForAReason'
  BY <1>1, <1>3, SameDisk DEF BasketInv, UploadFailsForAReason
<1>5. culprit' \subseteq offered
  BY <1>1 DEF BasketInv, BasketTypeOK
<1> QED
  BY <1>1, <1>2, <1>4, <1>5, SameList DEF Sending

-----------------------------------------------------------------------------
LEMMA BasketInvInit ==
  ASSUME BasketInit
  PROVE  BasketInv
<1>1. Tree(fs)
  BY WalkInvInit DEF BasketInit, WalkInv
<1>2. BasketTypeOK
  BY RootIsPlace DEF BasketInit, BasketTypeOK
<1> QED
  BY <1>1, <1>2 DEF BasketInit, BasketInv, Phases, FilesOffered, UploadFailsForAReason,
                    Sending, Done, Failed

LEMMA BasketInvStep ==
  ASSUME BasketInv, [BasketNext]_basketVars
  PROVE  BasketInv'
<1>1. CASE UNCHANGED basketVars
  <2>1. UNCHANGED <<fs, size, changed, job, item, todo, offered, culprit, skipped, unread>>
    BY <1>1 DEF basketVars, diskVars, sendVars, refusals
  <2>2. UploadFailsForAReason'
    BY <2>1, SameDisk DEF BasketInv, UploadFailsForAReason
  <2>3. CASE job = "none"
    <3>1. Tree(fs') /\ BasketTypeOK' /\ Phases' /\ job' = "none" /\ offered' = {}
      BY <2>1, <2>3 DEF BasketInv, BasketTypeOK, Phases
    <3> QED
      BY <2>2, <3>1 DEF BasketInv, FilesOffered
  <2>4. CASE job # "none"
    BY <2>1, <2>2, <2>4, SameList DEF BasketInv, BasketTypeOK, Phases
  <2> QED
    BY <2>3, <2>4
<1>2. ASSUME NEW p \in Place, Create(p) \/ Write(p) \/ Delete(p)
      PROVE  BasketInv'
  BY <1>2, DiskStep
<1>3. ASSUME NEW p \in Place, Request(p)
      PROVE  BasketInv'
  BY <1>3, RequestStep
<1>4. ASSUME todo # <<>>, ExpandFolder(Head(todo)) \/ ExpandFile(Head(todo))
      PROVE  BasketInv'
  BY <1>4, ExpandFolderStep, ExpandFileStep
<1>5. ASSUME Expanded \/ ExpandFails(Head(todo)) \/ ReadRefused(Head(todo))
      PROVE  BasketInv'
  BY <1>5, ExpansionEndsStep
<1>6. ASSUME NEW o \in offered, Upload(o) \/ UploadFails(o) \/ UploadRefused(o)
      PROVE  BasketInv'
  BY <1>6, UploadStep
<1> QED
  BY <1>1, <1>2, <1>3, <1>4, <1>5, <1>6 DEF BasketNext, ExpandNext, Expand, Ended

(* What is known of the job at every moment, whatever other users do.      *)
THEOREM BasketInvariant == BasketSpec => []BasketInv
<1>1. BasketInit => BasketInv
  BY BasketInvInit
<1>2. BasketInv /\ [BasketNext]_basketVars => BasketInv'
  BY BasketInvStep
<1> QED
  BY <1>1, <1>2, PTL DEF BasketSpec

(* A job that lost no file of its own fails for what another user touched  *)
(* or the disk refuses: uploadOne opens what expandItem declared.          *)
THEOREM UploadFailureHasReason == BasketSpec => []UploadFailsForAReason
<1>1. BasketInv => UploadFailsForAReason
  BY DEF BasketInv
<1> QED
  BY <1>1, BasketInvariant, PTL

-----------------------------------------------------------------------------
(* A path whose last element is a file leads to it.                        *)
LEMMA LeadsToFile ==
  ASSUME NEW path \in Seq(Name), path # Root, At(path) \in Place, fs[At(path)] = Plain
  PROVE  Leads(path) = At(path)
BY LeadsLast DEF Leads, At, Follow, Plain

LEMMA AllIsOffered ==
  ASSUME BasketInv
  PROVE  NothingLeftOut
<1>1. SUFFICES ASSUME job \in {Sending, Done, Failed}, Untouched(item),
                      NEW p \in Place \ changed, fs[p] = Plain, IsPrefix(Leads(item), p)
               PROVE  \/ \E o \in offered : Leads(o.path) = p
                      \/ \E q \in skipped : IsPrefix(q, p)
  BY DEF NothingLeftOut
<1>2. todo = <<>> /\ job # "none" /\ Tree(fs)
  BY <1>1 DEF BasketInv, Phases, Sending, Done, Failed
<1>3. CASE Fresh
  BY <1>2, <1>3 DEF Fresh
<1>4. CASE Single
  <2>1. PICK o \in offered : ~o.link /\ o.path = item
    BY <1>4 DEF Single
  <2>2. Leads(item) \in Place /\ fs[Leads(item)] = Plain
    BY <1>1, <2>1 DEF BasketInv, FilesOffered, AsDeclared, Fits, Opens
  <2> DEFINE place == Leads(item)
  <2>3. place \in Seq(Name) /\ p \in Seq(Name) /\ Len(place) \in Nat /\ Len(p) \in Nat
    BY <2>2, PlaceIsShort
  <2>4. Len(place) <= Len(p) /\ SubSeq(place, 1, Len(place)) = SubSeq(p, 1, Len(place))
    BY <1>1 DEF IsPrefix
  <2> HIDE DEF place
  <2>5. place = SubSeq(p, 1, Len(place))
    BY <2>3, <2>4
  <2>6. ~(Len(place) < Len(p))
    <3>1. ASSUME Len(place) < Len(p)
          PROVE  IsFolder(fs, place)
      <4>1. fs[p] # Missing
        BY <1>1 DEF Plain, Missing
      <4>2. IsFolder(fs, SubSeq(p, 1, Len(place)))
        BY <1>2, <2>3, <3>1, <4>1, AboveAreFolders
      <4> QED
        BY <2>5, <4>2
    <3> QED
      BY <2>2, <3>1 DEF IsFolder, Plain, Dir, place
  <2>7. place = p
    <3>1. Len(place) = Len(p) /\ SubSeq(p, 1, Len(p)) = p
      BY <2>3, <2>4, <2>6
    <3> QED
      BY <2>5, <3>1
  <2> QED
    BY <2>1, <2>7 DEF place
<1>5. CASE Walking
  <2>1. SUFFICES ASSUME ~\E q \in skipped : IsPrefix(q, p)
                 PROVE  \E o \in offered : Leads(o.path) = p
    OBVIOUS
  <2>2. PICK o \in offered : ~o.link /\ o.path # Root /\ At(o.path) = p
    BY <1>1, <1>2, <1>5, <2>1 DEF Walking, Covered
  <2>3. o.path \in Seq(Name)
    BY DEF BasketInv, BasketTypeOK
  <2>4. Leads(o.path) = p
    BY <1>1, <2>2, <2>3, LeadsToFile
  <2> QED
    BY <2>4
<1> QED
  BY <1>2, <1>3, <1>4, <1>5 DEF BasketInv

(* An untouched file of the item's folder is where its path says.          *)
LEMMA LiesBelow ==
  ASSUME BasketInv, NEW o \in offered, ~o.link, Untouched(o.path), o.path # item
  PROVE  \E s \in Seq(Name) : o.path = item \o s /\ Leads(o.path) = Leads(item) \o s
<1>1. PICK s : /\ Below(s)
               /\ o.path = item \o s /\ At(o.path) = Leads(item) \o s /\ At(o.path) \in Place
               /\ At(o.path) \notin changed => fs[At(o.path)] = Plain
  BY DEF BasketInv, FilesOffered, AsListed
<1>2. o.path # Root /\ o.path \in Seq(Name)
  BY DEF BasketInv, BasketTypeOK, FilesOffered, AsDeclared
<1>3. At(o.path) \notin changed
  BY <1>2 DEF Untouched
<1>4. Leads(o.path) = At(o.path)
  BY <1>1, <1>2, <1>3, LeadsToFile
<1> QED
  BY <1>1, <1>4 DEF Below

LEMMA NoneIsOfferedTwice ==
  ASSUME BasketInv
  PROVE  OfferedOnce
<1>1. SUFFICES ASSUME NEW o \in offered, ~o.link, Untouched(o.path),
                      NEW q \in offered, ~q.link, Untouched(q.path),
                      Leads(o.path) = Leads(q.path)
               PROVE  o = q
  BY DEF OfferedOnce
<1>2. Fits(o) /\ Fits(q)
  BY <1>1 DEF BasketInv, FilesOffered, AsDeclared
<1>3. SUFFICES o.path = q.path
  BY <1>1, <1>2 DEF Fits, BasketInv, BasketTypeOK
<1>4. fs[Leads(o.path)] = Plain /\ fs[Leads(q.path)] = Plain
  BY <1>2 DEF Fits, Opens
<1>5. CASE o.path = item \/ q.path = item
  <2>1. ~IsFolder(fs, Leads(item))
    BY <1>4, <1>5 DEF IsFolder, Plain, Dir
  <2>2. AsListed(o) /\ AsListed(q)
    BY <1>1 DEF BasketInv, FilesOffered
  <2> QED
    BY <2>1, <2>2 DEF AsListed, Below
<1>6. CASE o.path # item /\ q.path # item
  <2>1. PICK s \in Seq(Name) : o.path = item \o s /\ Leads(o.path) = Leads(item) \o s
    BY <1>1, <1>6, LiesBelow
  <2>2. PICK t \in Seq(Name) : q.path = item \o t /\ Leads(q.path) = Leads(item) \o t
    BY <1>1, <1>6, LiesBelow
  <2>3. Leads(item) \in Seq(Name)
    BY <1>1, <1>6, PlaceIsShort DEF BasketInv, FilesOffered, AsListed, Below, IsFolder
  <2>4. Leads(item) \o s = Leads(item) \o t
    BY <1>1, <2>1, <2>2
  <2>5. s = t
    BY <2>3, <2>4, JoinCancels
  <2> QED
    BY <2>1, <2>2, <2>5
<1> QED
  BY <1>5, <1>6

(* What is in the item's folder all the while is offered, or below what    *)
(* the disk would not describe.                                            *)
THEOREM NoFileLeftOut == BasketSpec => []NothingLeftOut
BY BasketInvariant, AllIsOffered, PTL

(* No file is offered twice, whatever links lead where in the share.       *)
THEOREM NoFileTwice == BasketSpec => []OfferedOnce
BY BasketInvariant, NoneIsOfferedTwice, PTL
=============================================================================
