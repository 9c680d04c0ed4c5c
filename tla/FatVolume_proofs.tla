-------------------------- MODULE FatVolume_proofs --------------------------
(***************************************************************************)
(* Proofs about the FAT volume, for any number of threads, files, folders, *)
(* clusters, entries and sectors, and a power failure between any two      *)
(* steps: the card is always sound, open files keep their entries, what a  *)
(* completed f_sync or f_close has put on the card stays there, and no     *)
(* step but a power failure loses clusters.                                *)
(*                                                                         *)
(* The first half shows that the volume's links, starts and entries are    *)
(* sound (Inv); the second what the clusters of a chain hold (DataInv),    *)
(* and that every cluster which is lost sight of is freed (Reached).       *)
(***************************************************************************)
EXTENDS FatVolume, FiniteSetTheorems, WellFoundedInduction, TLAPS

(***************************************************************************)
(* Numbers and slots.                                                      *)
(***************************************************************************)

LEMMA Sizes ==
  /\ Clusters \in Nat /\ Clusters > 0 /\ Eoc \notin Cluster /\ Eoc # 0 /\ 0 \notin Cluster
  /\ Eoc \in 0..Eoc /\ 0 \in 0..Eoc /\ Cluster \subseteq 0..Eoc
  /\ \A x \in 0..Eoc : x \in Cluster \/ x = 0 \/ x = Eoc
  /\ Entries \in Nat /\ 0 \notin Slot /\ Slot \subseteq Nat /\ Cluster \subseteq Nat
BY SizeAssumption DEF Eoc, Cluster, Slot

LEMMA SmallestIn ==
  ASSUME NEW S \in SUBSET Nat, S # {}
  PROVE  \E n \in S : \A m \in S : n <= m
<1>1. PICK n \in S : \A m \in S : ~(<<m, n>> \in OpToRel(<, Nat))
  BY NatLessThanWellFounded, WFMin
<1>2. \A m \in S : ~(m < n)
  BY <1>1 DEF OpToRel
<1> QED
  BY <1>2

LEMMA FirstIsIn ==
  ASSUME NEW P \in SUBSET Slot, P # {}
  PROVE  First(P) \in P
<1>1. \E s \in P : \A q \in P : s <= q
  BY SmallestIn, Sizes
<1> QED
  BY <1>1 DEF First

\* The search for a free cluster finds one.
LEMMA NextIsFree ==
  ASSUME NEW scl \in 0..Clusters, FreeClusters # {}
  PROVE  NextFree(scl) \in Cluster /\ vol.fat[NextFree(scl)] = 0
<1> DEFINE S == {After(scl, c) : c \in FreeClusters}
<1>1. \A c \in Cluster : After(scl, c) \in Nat
  BY Sizes DEF After, Cluster
<1>2. S \in SUBSET Nat /\ S # {}
  BY <1>1 DEF FreeClusters
<1>3. PICK n \in S : \A m \in S : n <= m
  BY <1>2, SmallestIn
<1>4. \E c \in FreeClusters : \A d \in FreeClusters : After(scl, c) <= After(scl, d)
  BY <1>3
<1>5. NextFree(scl) \in FreeClusters
  BY <1>4 DEF NextFree
<1> QED
  BY <1>5 DEF FreeClusters

(***************************************************************************)
(* Links.  What a change of one of them does to the others.                *)
(***************************************************************************)

Fat == [Cluster -> 0..Eoc]

\* LinksAreSound of a table.
LinksOf(f) ==
  \A c \in Cluster : f[c] \in Cluster =>
    /\ f[f[c]] # 0
    /\ \A e \in Cluster : f[e] = f[c] => e = c

\* Cluster c is allocated and starts a chain.
Root(f, c) == c \in Cluster /\ f[c] # 0 /\ \A e \in Cluster : f[e] # c

LEMMA Allocating ==
  ASSUME NEW f \in Fat, LinksOf(f), NEW c \in Cluster, f[c] = 0, NEW g, g = [f EXCEPT ![c] = Eoc]
  PROVE  /\ g \in Fat /\ LinksOf(g) /\ Root(g, c)
         /\ \A r : Root(f, r) => Root(g, r) /\ r # c
BY Sizes DEF Fat, LinksOf, Root

LEMMA Linking ==
  ASSUME NEW f \in Fat, LinksOf(f), NEW p \in Cluster, NEW c \in Cluster, Root(f, c),
         NEW g, g[p] = c, \A e \in Cluster \ {p} : g[e] = f[e]
  PROVE  /\ LinksOf(g) /\ g[c] # 0
         /\ \A r : Root(f, r) /\ r # c => Root(g, r)
<1>1. \A d \in Cluster : f[d] # 0 => g[d] # 0
  BY Sizes
<1>2. ASSUME NEW d \in Cluster, g[d] \in Cluster
      PROVE  g[g[d]] # 0 /\ \A e \in Cluster : g[e] = g[d] => e = d
  <2>1. CASE d = p
    BY <2>1, <1>1 DEF Root
  <2>2. CASE d # p
    <3>1. g[d] = f[d] /\ f[f[d]] # 0 /\ f[d] # c /\ \A e \in Cluster : f[e] = f[d] => e = d
      BY <1>2, <2>2 DEF LinksOf, Root
    <3> QED
      BY <1>1, <1>2, <2>2, <3>1
  <2> QED
    BY <2>1, <2>2
<1>3. \A r : Root(f, r) /\ r # c => Root(g, r)
  BY <1>1 DEF Root
<1> QED
  BY <1>1, <1>2, <1>3 DEF LinksOf, Root

LEMMA Freeing ==
  ASSUME NEW f \in Fat, LinksOf(f), NEW c, Root(f, c), NEW g, g = [f EXCEPT ![c] = 0]
  PROVE  /\ g \in Fat /\ LinksOf(g)
         /\ \A r : Root(f, r) /\ r # c => Root(g, r) /\ r # f[c]
         /\ f[c] \in Cluster => Root(g, f[c])
BY Sizes DEF Fat, LinksOf, Root

(***************************************************************************)
(* Soundness of a volume, given as its directory, links and data.          *)
(***************************************************************************)

Dir == [Slot -> Entry \cup Blank]
Data == [Cluster -> Unit]

\* Entries start at roots of their own; two that a rename is between may share one,
\* and so may those that start in H.
EntriesOf(d, f, pair, H) ==
  /\ \A s \in Slot : d[s] \notin Blank /\ d[s].head # 0 => Root(f, d[s].head)
  /\ \A s, q \in Slot :
       d[s] \notin Blank /\ d[q] \notin Blank /\ d[s].head # 0 /\ d[s].head = d[q].head =>
         s = q \/ {s, q} = pair \/ d[s].head \in H

NamesOf(d) ==
  \A s, q \in Slot :
    d[s] \notin Blank /\ d[q] \notin Blank /\ d[s].name = d[q].name => s = q

FoldersOf(d, x) ==
  \A s \in Slot : d[s] \notin Blank /\ d[s].name \in Folder => d[s].head # 0 /\ x[d[s].head] = Dots

Sound(v, pair, H) ==
  /\ LinksOf(v.fat) /\ EntriesOf(v.dir, v.fat, pair, H)
  /\ NamesOf(v.dir) /\ FoldersOf(v.dir, v.data)

LEMMA VolumeIs == Volume = [dir : Dir, fat : Fat, data : Data]
BY DEF Volume, Dir, Fat, Data

LEMMA ChangeLink ==
  ASSUME NEW v \in Volume, NEW c \in Cluster, NEW x \in 0..Eoc, NEW w, w = [v EXCEPT !.fat[c] = x]
  PROVE  /\ w \in Volume /\ w.dir = v.dir /\ w.data = v.data
         /\ w.fat = [v.fat EXCEPT ![c] = x]
BY VolumeIs DEF Fat

LEMMA ChangeEntry ==
  ASSUME vol \in Volume, NEW s \in Slot, NEW e \in Entry \cup Blank, SetEntry(s, e)
  PROVE  /\ vol' \in Volume /\ vol'.fat = vol.fat /\ vol'.data = vol.data
         /\ \A q \in Slot : vol'.dir[q] = IF q = s THEN e ELSE vol.dir[q]
BY VolumeIs DEF SetEntry, Dir

LEMMA ChangeData ==
  ASSUME NEW v \in Volume, NEW c \in Cluster, NEW x \in Unit, NEW w, w = [v EXCEPT !.data[c] = x]
  PROVE  /\ w \in Volume /\ w.fat = v.fat /\ w.dir = v.dir
         /\ w.data = [v.data EXCEPT ![c] = x]
BY VolumeIs DEF Data

\* A slot is used when it has a name.
LEMMA UsedIsNamed ==
  ASSUME NEW d \in Dir, NEW s \in Slot
  PROVE  /\ d[s] \notin Blank => d[s] \in Entry /\ d[s].name \in Name /\ d[s].head \in Cluster \cup {0}
         /\ d[s].name \in Name => d[s] \notin Blank
<1>1. d[s] \in Entry \cup Blank
  BY DEF Dir
<1>2. d[s] \in Entry => d[s].name \in Name /\ d[s].head \in Cluster \cup {0}
  BY DEF Entry
<1>3. d[s] \in Blank => d[s].name \in {"unused", "deleted"}
  BY DEF Blank, Unused, Deleted
<1>4. \A n \in Name : n \notin {"unused", "deleted"}
  BY NameAssumption
<1> QED
  BY <1>1, <1>2, <1>3, <1>4

(***************************************************************************)
(* The invariant: types, locks, open files, the call under way, and the    *)
(* soundness of the volume and of the card.                                *)
(***************************************************************************)

Fil == [slot : Slot, write : BOOLEAN, excl : BOOLEAN, head : Cluster \cup {0}, size : 0..MaxSize,
        clust : Cluster \cup {0}, version : Version \cup {NoVersion}, written : BOOLEAN]

CallType ==
  \/ call = Idle
  \/ call \in [op : {"open"}, th : Thread, slot : Slot, version : Version, cl : 0..Eoc, first : Cluster]
  \/ call \in [op : {"unlink"}, cl : 0..Eoc]
  \/ call \in [op : {"fill", "link"}, th : Thread, cl : Cluster]
  \/ call \in [op : {"sync", "close"}, th : Thread]
  \/ call.op = "rename" /\ call \in [op : {"rename"}, old : Slot, new : Slot, was : {call.was}, half : BOOLEAN]
  \/ call \in [op : {"format", "register", "made"}, name : Folder, cl : Cluster]

Types ==
  /\ vol \in Volume /\ card \in Volume
  /\ last_clust \in 0..Clusters
  /\ fil \in [Thread -> Fil \cup {Closed}]
  /\ files \in [Slot -> Nat]
  /\ CallType

Open(t) == fil[t] # Closed

\* A file that has been written or may be.
Writes(t) == fil[t].write \/ fil[t].written

Holders(s) == {t \in Thread : fil[t].slot = s}

\* The counters of Files[] are those of the open files.
LockInv ==
  /\ \A s \in Slot : files[s] =
       IF \E t \in Holders(s) : fil[t].excl THEN Exclusive ELSE Cardinality(Holders(s))
  /\ \A t, u \in Thread : Open(t) /\ fil[t].excl /\ u # t => fil[u].slot # fil[t].slot
  /\ Cardinality({s \in Slot : IsOpen(s)}) <= FS_LOCK

\* An open file has an entry; what it may write back there is a root of its own.
FileInv(t) ==
  LET f == fil[t]
  IN  /\ vol.dir[f.slot] \notin Blank /\ vol.dir[f.slot].name \in File
      /\ Writes(t) => f.excl
      /\ f.write => f.version \in Version /\ (f.clust = 0 <=> f.head = 0)
      /\ ~f.written => vol.dir[f.slot].head = f.head /\ vol.dir[f.slot].size = f.size
      /\ Writes(t) /\ f.head # 0 =>
           /\ Root(vol.fat, f.head)
           /\ \A s \in Slot : vol.dir[s] \notin Blank /\ vol.dir[s].head = f.head => s = f.slot

FilesInv ==
  /\ \A t \in Thread : Open(t) => FileInv(t)
  /\ \A t, u \in Thread :
       Open(t) /\ Open(u) /\ Writes(t) /\ Writes(u) /\ fil[t].head # 0 /\ t # u =>
         fil[t].head # fil[u].head

\* Cluster c is in no entry and no file that may be written back.
Unnamed(c) ==
  /\ \A s \in Slot : vol.dir[s] \notin Blank => vol.dir[s].head # c
  /\ \A t \in Thread : Open(t) /\ Writes(t) => fil[t].head # c

\* The call that holds the mutex has its cluster to itself, and the entry it works
\* on is open to nobody else.
CallInv ==
  /\ call.op = "open" =>
       /\ ~Open(call.th) /\ ~IsOpen(call.slot) /\ CanRegister
       /\ vol.dir[call.slot] \notin Blank /\ vol.dir[call.slot].name \in File
       /\ vol.dir[call.slot].head = 0
  /\ call.op \in {"open", "unlink"} /\ call.cl \in Cluster =>
       Root(vol.fat, call.cl) /\ Unnamed(call.cl)
  /\ call.op \in {"link", "fill"} =>
       /\ Open(call.th) /\ fil[call.th].write /\ fil[call.th].size < MaxSize
       /\ vol.fat[call.cl] # 0 /\ Unnamed(call.cl)
       /\ call.op = "link" => fil[call.th].clust # 0 /\ Root(vol.fat, call.cl)
       /\ fil[call.th].head = 0 => Root(vol.fat, call.cl)
  /\ call.op \in {"sync", "close"} => Open(call.th)
  /\ call.op = "rename" =>
       /\ call.old # call.new
       /\ call.half =>
            /\ ~IsOpen(call.old) /\ ~IsOpen(call.new)
            /\ vol.dir[call.old] \notin Blank /\ vol.dir[call.new] \notin Blank
  /\ call.op \in {"format", "register"} =>
       /\ Root(vol.fat, call.cl) /\ Unnamed(call.cl) /\ ~Exists(call.name)
       /\ call.op = "register" => vol.data[call.cl] = Dots

Pair == IF call.op = "rename" THEN {call.old, call.new} ELSE {}
HalfPair == IF call.op = "rename" /\ call.half THEN {call.old, call.new} ELSE {}

VolumeInv == Types /\ LockInv /\ FilesInv /\ CallInv /\ Sound(vol, HalfPair, shared)
Inv == VolumeInv /\ Sound(card, Pair, shared)

(***************************************************************************)
(* Locks.                                                                  *)
(***************************************************************************)

LEMMA ClosedHoldsNothing ==
  ASSUME Types
  PROVE  /\ \A t \in Thread : ~Open(t) => fil[t].slot \notin Slot
         /\ \A t \in Thread : Open(t) => fil[t] \in Fil
BY Sizes DEF Types, Open, Closed

LEMMA HoldersAreFew ==
  ASSUME NEW S \in SUBSET Thread
  PROVE  IsFiniteSet(S) /\ Cardinality(S) \in Nat /\ Cardinality(S) < Exclusive
<1>1. IsFiniteSet(S) /\ Cardinality(S) <= Cardinality(Thread)
  BY ThreadAssumption, FS_Subset
<1>2. Cardinality(S) \in Nat /\ Cardinality(Thread) \in Nat
  BY <1>1, ThreadAssumption, FS_CardinalityType
<1> QED
  BY <1>1, <1>2, ThreadAssumption DEF Exclusive

\* An entry is open exactly when a file is at it.
LEMMA OpenIsHeld ==
  ASSUME Types, LockInv, NEW s \in Slot
  PROVE  IsOpen(s) <=> \E t \in Thread : fil[t].slot = s
<1>1. Holders(s) \in SUBSET Thread
  BY DEF Holders
<1>2. Cardinality(Holders(s)) \in Nat /\ (Cardinality(Holders(s)) = 0 <=> Holders(s) = {})
  BY <1>1, HoldersAreFew, FS_EmptySet
<1>3. (\E t \in Thread : fil[t].slot = s) <=> Holders(s) # {}
  BY DEF Holders
<1>4. CASE \E t \in Holders(s) : fil[t].excl
  BY <1>3, <1>4 DEF LockInv, IsOpen, Exclusive
<1>5. CASE ~\E t \in Holders(s) : fil[t].excl
  BY <1>2, <1>3, <1>5 DEF LockInv, IsOpen
<1> QED
  BY <1>4, <1>5

LEMMA ReadersOnly ==
  ASSUME Types, LockInv, NEW s \in Slot, files[s] # Exclusive
  PROVE  \A t \in Holders(s) : ~fil[t].excl
BY DEF LockInv

LEMMA SlotsAreFinite == \A S \in SUBSET Slot : IsFiniteSet(S) /\ Cardinality(S) \in Nat
<1>1. IsFiniteSet(Slot)
  BY FS_Interval, Sizes DEF Slot
<1> QED
  BY <1>1, FS_Subset, FS_CardinalityType

\* inc_lock for a file that is opened.
LEMMA Locking ==
  ASSUME Types, LockInv, NEW t \in Thread, ~Open(t), NEW r \in Fil,
         fil' = [fil EXCEPT ![t] = r], Lock(r.slot, r.excl),
         IF r.excl THEN CanWrite(r.slot) ELSE CanRead(r.slot)
  PROVE  LockInv' /\ files' \in [Slot -> Nat]
<1> DEFINE s == r.slot
<1>1. s \in Slot /\ r.excl \in BOOLEAN /\ r # Closed
  BY Sizes DEF Fil, Closed
<1>2. files' = [files EXCEPT ![s] = IF r.excl THEN Exclusive ELSE files[s] + 1] /\ files \in [Slot -> Nat]
  BY DEF Lock, Types
<1>3. files' \in [Slot -> Nat]
  BY <1>1, <1>2 DEF Exclusive
<1>4. fil \in [Thread -> Fil \cup {Closed}]
  BY DEF Types
<1>5. \A u \in Thread : fil'[u] = IF u = t THEN r ELSE fil[u]
  BY <1>4
<1>6. fil[t].slot \notin Slot
  BY ClosedHoldsNothing
<1>7. \A q \in Slot : Holders(q)' = IF q = s THEN Holders(q) \cup {t} ELSE Holders(q)
  BY <1>5, <1>6 DEF Holders
<1>8. t \notin Holders(s)
  BY <1>1, <1>6 DEF Holders
<1>9. r.excl => ~IsOpen(s) /\ Holders(s) = {}
  <2>1. r.excl => ~IsOpen(s)
    BY DEF CanWrite
  <2> QED
    BY <2>1, <1>1, OpenIsHeld DEF Holders
<1>10. ~r.excl => \A u \in Holders(s) : ~fil[u].excl
  <2>1. ~r.excl => ~IsOpen(s) \/ files[s] # Exclusive
    BY DEF CanRead
  <2>2. ~IsOpen(s) => Holders(s) = {}
    BY <1>1, OpenIsHeld DEF Holders
  <2> QED
    BY <2>1, <2>2, <1>1, ReadersOnly
<1>11. \A q \in Slot : files'[q] =
         (IF \E u \in Holders(q) : fil[u].excl THEN Exclusive ELSE Cardinality(Holders(q)))'
  <2> SUFFICES ASSUME NEW q \in Slot
               PROVE  files'[q] = IF \E u \in Holders(q)' : fil'[u].excl THEN Exclusive
                                  ELSE Cardinality(Holders(q)')
    OBVIOUS
  <2>1. CASE q # s
    <3>1. files'[q] = files[q] /\ Holders(q)' = Holders(q)
      BY <2>1, <1>2, <1>7
    <3>2. \A u \in Holders(q) : fil'[u] = fil[u]
      BY <1>5, <1>6 DEF Holders
    <3> QED
      BY <3>1, <3>2 DEF LockInv
  <2>2. CASE q = s /\ r.excl
    <3>1. t \in Holders(q)' /\ fil'[t].excl
      BY <2>2, <1>5, <1>7
    <3> QED
      BY <2>2, <3>1, <1>1, <1>2
  <2>3. CASE q = s /\ ~r.excl
    <3>1. \A u \in Holders(q)' : ~fil'[u].excl
      BY <2>3, <1>5, <1>7, <1>10
    <3>2. files[s] = Cardinality(Holders(s))
      BY <2>3, <1>1, <1>10 DEF LockInv
    <3>3. IsFiniteSet(Holders(s))
      BY HoldersAreFew DEF Holders
    <3>4. Cardinality(Holders(q)') = files[s] + 1
      BY <2>3, <3>2, <3>3, <1>7, <1>8, FS_AddElement
    <3> QED
      BY <2>3, <3>1, <3>4, <1>1, <1>2
  <2> QED
    BY <2>1, <2>2, <2>3, <1>1
<1>12. \A v, u \in Thread : Open(v)' /\ fil'[v].excl /\ u # v => fil'[u].slot # fil'[v].slot
  <2> SUFFICES ASSUME NEW v \in Thread, NEW u \in Thread, Open(v)', fil'[v].excl, u # v
               PROVE  fil'[u].slot # fil'[v].slot
    OBVIOUS
  <2>1. CASE v = t
    BY <2>1, <1>1, <1>5, <1>9 DEF Holders
  <2>2. CASE u = t
    <3>1. Open(v) /\ fil[v].excl /\ fil'[v] = fil[v]
      BY <2>2, <1>5 DEF Open
    <3>2. v \notin Holders(s)
      BY <3>1, <1>9, <1>10
    <3> QED
      BY <2>2, <3>1, <3>2, <1>5 DEF Holders
  <2>3. CASE v # t /\ u # t
    BY <2>3, <1>5 DEF LockInv, Open
  <2> QED
    BY <2>1, <2>2, <2>3
<1>13. Cardinality({q \in Slot : IsOpen(q)})' <= FS_LOCK
  <2> DEFINE O == {q \in Slot : IsOpen(q)}
  <2>1. files'[s] > 0
    BY <1>1, <1>2 DEF Types, Exclusive
  <2>2. O' = O \cup {s}
    BY <1>1, <1>2, <2>1 DEF IsOpen
  <2>3. CASE IsOpen(s)
    <3>1. O' = O
      BY <2>2, <2>3, <1>1
    <3> QED
      BY <3>1 DEF LockInv
  <2>4. CASE ~IsOpen(s)
    <3>1. CanRegister
      BY <2>4 DEF CanWrite, CanRead
    <3>2. IsFiniteSet(O) /\ Cardinality(O) \in Nat
      BY SlotsAreFinite
    <3>3. Cardinality(O') = Cardinality(O) + 1
      BY <2>2, <2>4, <3>2, FS_AddElement
    <3> QED
      BY <3>1, <3>2, <3>3, SizeAssumption DEF CanRegister
  <2> QED
    BY <2>3, <2>4
<1> QED
  BY <1>3, <1>11, <1>12, <1>13 DEF LockInv

\* dec_lock of a file that is closed.
LEMMA Unlocking ==
  ASSUME Types, LockInv, NEW t \in Thread, Open(t),
         fil' = [fil EXCEPT ![t] = Closed], Unlock(fil[t].slot)
  PROVE  LockInv' /\ files' \in [Slot -> Nat]
<1>0. fil[t].slot \in Slot /\ fil[t].excl \in BOOLEAN
  BY ClosedHoldsNothing DEF Fil
<1>1. PICK s \in Slot : s = fil[t].slot
  BY <1>0
<1>2. files' = [files EXCEPT ![s] = IF files[s] = Exclusive THEN 0 ELSE files[s] - 1] /\ files \in [Slot -> Nat]
  BY <1>1 DEF Unlock, Types
<1>3. \A u \in Thread : fil'[u] = IF u = t THEN Closed ELSE fil[u]
  BY DEF Types
<1>4. \A q \in Slot : Holders(q)' = Holders(q) \ {t}
  BY <1>3, Sizes DEF Holders, Closed
<1>5. t \in Holders(s) /\ \A q \in Slot : t \in Holders(q) => q = s
  BY <1>1 DEF Holders
<1>6. /\ files'[s] = IF \E u \in Holders(s)' : fil'[u].excl THEN Exclusive ELSE Cardinality(Holders(s)')
      /\ files'[s] \in Nat /\ files'[s] <= files[s]
  <2>1. CASE fil[t].excl
    <3>1. files[s] = Exclusive /\ Holders(s) = {t}
      <4>1. \A u \in Thread : u # t => fil[u].slot # s
        BY <1>1, <2>1 DEF LockInv
      <4>2. Holders(s) = {t}
        BY <4>1, <1>5 DEF Holders
      <4> QED
        BY <4>2, <1>1, <2>1 DEF LockInv
    <3>2. files'[s] = 0 /\ Holders(s)' = {}
      BY <1>1, <1>2, <1>4, <3>1
    <3> QED
      BY <3>1, <3>2, FS_EmptySet DEF Exclusive
  <2>2. CASE ~fil[t].excl
    <3>1. \A u \in Holders(s) : ~fil[u].excl
      BY <1>0, <1>1, <2>2, ClosedHoldsNothing DEF LockInv, Holders, Fil
    <3>2. files[s] = Cardinality(Holders(s)) /\ Holders(s) \in SUBSET Thread
      BY <1>1, <3>1 DEF LockInv, Holders
    <3>3. IsFiniteSet(Holders(s)) /\ files[s] # Exclusive /\ files[s] \in Nat
      BY <1>1, <1>2, <3>2, HoldersAreFew
    <3>4. Cardinality(Holders(s)') = files[s] - 1 /\ IsFiniteSet(Holders(s)')
      BY <1>1, <1>4, <1>5, <3>2, <3>3, FS_RemoveElement
    <3>5. Cardinality(Holders(s)') \in Nat
      BY <3>4, FS_CardinalityType
    <3>6. \A u \in Holders(s)' : ~fil'[u].excl
      BY <1>1, <1>3, <1>4, <3>1
    <3> QED
      BY <1>1, <1>2, <3>3, <3>4, <3>5, <3>6
  <2> QED
    BY <2>1, <2>2
<1>7. \A q \in Slot \ {s} :
        files'[q] = IF \E u \in Holders(q)' : fil'[u].excl THEN Exclusive ELSE Cardinality(Holders(q)')
  <2> SUFFICES ASSUME NEW q \in Slot \ {s}
               PROVE  files'[q] = IF \E u \in Holders(q)' : fil'[u].excl THEN Exclusive
                                  ELSE Cardinality(Holders(q)')
    OBVIOUS
  <2>1. files'[q] = files[q] /\ Holders(q)' = Holders(q) /\ t \notin Holders(q)
    BY <1>2, <1>4, <1>5
  <2>2. \A u \in Holders(q) : fil'[u] = fil[u]
    BY <1>3, <2>1 DEF Holders
  <2> QED
    BY <2>1, <2>2 DEF LockInv
<1>8. \A v, u \in Thread : Open(v)' /\ fil'[v].excl /\ u # v => fil'[u].slot # fil'[v].slot
  <2> SUFFICES ASSUME NEW v \in Thread, NEW u \in Thread, Open(v)', fil'[v].excl, u # v
               PROVE  fil'[u].slot # fil'[v].slot
    OBVIOUS
  <2>1. v # t /\ Open(v) /\ fil'[v] = fil[v] /\ fil[v].slot \in Slot
    BY <1>3, ClosedHoldsNothing DEF Open, Fil
  <2> QED
    BY <2>1, <1>3, Sizes DEF LockInv, Closed
<1>9. Cardinality({q \in Slot : IsOpen(q)})' <= FS_LOCK
  <2> DEFINE O == {q \in Slot : IsOpen(q)}
  <2>1. O' \subseteq O
    BY <1>1, <1>2, <1>6 DEF IsOpen
  <2>2. IsFiniteSet(O) /\ Cardinality(O) \in Nat /\ Cardinality(O') \in Nat
    BY SlotsAreFinite
  <2>3. Cardinality(O') <= Cardinality(O)
    BY <2>1, <2>2, FS_Subset
  <2> QED
    BY <2>2, <2>3, SizeAssumption DEF LockInv
<1>10. files' \in [Slot -> Nat]
  BY <1>1, <1>2, <1>6
<1> QED
  BY <1>1, <1>6, <1>7, <1>8, <1>9, <1>10 DEF LockInv

LEMMA LocksKept ==
  ASSUME LockInv, UNCHANGED files,
         \A t \in Thread : fil'[t].slot = fil[t].slot /\ fil'[t].excl = fil[t].excl /\ Open(t)' = Open(t)
  PROVE  LockInv'
<1>1. \A s \in Slot : Holders(s)' = Holders(s)
  BY DEF Holders
<1>2. \A s \in Slot : \A t \in Holders(s) : fil'[t].excl = fil[t].excl
  BY DEF Holders
<1>3. \A s \in Slot : files'[s] =
        IF \E t \in Holders(s)' : fil'[t].excl THEN Exclusive ELSE Cardinality(Holders(s)')
  BY <1>1, <1>2 DEF LockInv
<1>4. \A t, u \in Thread : Open(t)' /\ fil'[t].excl /\ u # t => fil'[u].slot # fil'[t].slot
  BY DEF LockInv
<1>5. {s \in Slot : IsOpen(s)}' = {s \in Slot : IsOpen(s)}
  BY DEF IsOpen
<1> QED
  BY <1>3, <1>4, <1>5 DEF LockInv

(***************************************************************************)
(* What a step keeps, by the part of the volume that it changes.           *)
(***************************************************************************)

LEMMA SoundWeaker ==
  ASSUME NEW v, NEW P, NEW H, Sound(v, {}, H)
  PROVE  Sound(v, P, H)
BY DEF Sound, EntriesOf

LEMMA CardChoice ==
  ASSUME NEW S, NEW s
  PROVE  /\ Sync => card' = vol
         /\ Visit(S) => card' \in {card, vol}
         /\ Change(S, s) => card' \in {card, vol}
BY DEF Sync, Visit, Change

\* What reaches the card is sound.
LEMMA CardKept ==
  ASSUME Inv, card' \in {card, vol}, UNCHANGED shared,
         Pair \in {{}, Pair'} \/ (HalfPair = {} /\ card' = vol)
  PROVE  card' \in Volume /\ Sound(card, Pair, shared)'
<1>1. HalfPair \in {{}, Pair}
  BY DEF Pair, HalfPair
<1>2. Sound(card', Pair', shared')
  BY <1>1, SoundWeaker DEF Inv, VolumeInv
<1> QED
  BY <1>2 DEF Inv, VolumeInv, Types

LEMMA EntryStep ==
  ASSUME vol \in Volume, NEW pair, NEW after, Sound(vol, pair, shared), UNCHANGED shared, NEW s \in Slot,
         NEW e \in Entry \cup Blank, SetEntry(s, e),
         e \notin Blank =>
           /\ e.head # 0 => Root(vol.fat, e.head)
           /\ e.name \in Folder => e.head # 0 /\ vol.data[e.head] = Dots
           /\ \A q \in Slot \ {s} : vol.dir[q] \notin Blank =>
                /\ vol.dir[q].name # e.name
                /\ e.head # 0 /\ vol.dir[q].head = e.head => {s, q} = after \/ e.head \in shared,
         pair = {} \/ s \in pair \/ pair = after
  PROVE  /\ Sound(vol', after, shared') /\ vol' \in Volume
         /\ vol'.fat = vol.fat /\ vol'.data = vol.data
         /\ \A q \in Slot : vol'.dir[q] = IF q = s THEN e ELSE vol.dir[q]
<1>1. vol' \in Volume /\ vol'.fat = vol.fat /\ vol'.data = vol.data
  BY ChangeEntry
<1>2. \A q \in Slot : vol'.dir[q] = IF q = s THEN e ELSE vol.dir[q]
  BY ChangeEntry
<1>3. EntriesOf(vol'.dir, vol'.fat, after, shared')
  <2>1. \A q \in Slot : vol'.dir[q] \notin Blank /\ vol'.dir[q].head # 0 => Root(vol'.fat, vol'.dir[q].head)
    BY <1>1, <1>2 DEF Sound, EntriesOf
  <2> SUFFICES ASSUME NEW p \in Slot, NEW q \in Slot, p # q, vol'.dir[p] \notin Blank, vol'.dir[q] \notin Blank,
                      vol'.dir[p].head # 0, vol'.dir[p].head = vol'.dir[q].head,
                      vol'.dir[p].head \notin shared
               PROVE  {p, q} = after
    BY <2>1 DEF EntriesOf
  <2>2. CASE p = s
    BY <2>2, <1>2
  <2>3. CASE q = s
    <3>1. {s, p} = after
      BY <2>3, <1>2
    <3> QED
      BY <2>3, <3>1
  <2>4. CASE p # s /\ q # s
    <3>1. {p, q} = pair
      BY <2>4, <1>2 DEF Sound, EntriesOf
    <3> QED
      BY <2>4, <3>1
  <2> QED
    BY <2>2, <2>3, <2>4
<1>4. NamesOf(vol'.dir)
  BY <1>2 DEF Sound, NamesOf
<1>5. FoldersOf(vol'.dir, vol'.data)
  <2> SUFFICES ASSUME NEW q \in Slot, vol'.dir[q] \notin Blank, vol'.dir[q].name \in Folder
               PROVE  vol'.dir[q].head # 0 /\ vol'.data[vol'.dir[q].head] = Dots
    BY DEF FoldersOf
  <2>1. CASE q = s
    BY <2>1, <1>1, <1>2
  <2>2. CASE q # s
    BY <2>2, <1>1, <1>2 DEF Sound, FoldersOf
  <2> QED
    BY <2>1, <2>2
<1> QED
  BY <1>1, <1>2, <1>3, <1>4, <1>5 DEF Sound

LEMMA FatStep ==
  ASSUME vol \in Volume, NEW pair, Sound(vol, pair, shared), UNCHANGED shared, NEW c \in Cluster, NEW x \in 0..Eoc,
         vol' = [vol EXCEPT !.fat[c] = x],
         LinksOf([vol.fat EXCEPT ![c] = x]),
         \A s \in Slot : vol.dir[s] \notin Blank /\ vol.dir[s].head # 0 =>
           Root([vol.fat EXCEPT ![c] = x], vol.dir[s].head)
  PROVE  /\ Sound(vol', pair, shared') /\ vol' \in Volume
         /\ vol'.fat = [vol.fat EXCEPT ![c] = x] /\ vol'.dir = vol.dir /\ vol'.data = vol.data
<1>1. vol' \in Volume /\ vol'.fat = [vol.fat EXCEPT ![c] = x] /\ vol'.dir = vol.dir /\ vol'.data = vol.data
  BY ChangeLink
<1>2. EntriesOf(vol'.dir, vol'.fat, pair, shared')
  BY <1>1 DEF Sound, EntriesOf
<1> QED
  BY <1>1, <1>2 DEF Sound

LEMMA DataStep ==
  ASSUME vol \in Volume, NEW pair, Sound(vol, pair, shared), UNCHANGED shared, NEW c \in Cluster, NEW x \in Unit,
         vol' = [vol EXCEPT !.data[c] = x],
         \A s \in Slot : vol.dir[s] \notin Blank => vol.dir[s].head # c
  PROVE  /\ Sound(vol', pair, shared') /\ vol' \in Volume
         /\ vol'.fat = vol.fat /\ vol'.dir = vol.dir /\ vol'.data[c] = x
<1>1. /\ vol' \in Volume /\ vol'.fat = vol.fat /\ vol'.dir = vol.dir
      /\ vol'.data = [vol.data EXCEPT ![c] = x] /\ vol.data \in Data
  BY ChangeData, VolumeIs
<1>2. vol'.data[c] = x /\ \A d \in Cluster \ {c} : vol'.data[d] = vol.data[d]
  BY <1>1 DEF Data
<1>3. FoldersOf(vol'.dir, vol'.data)
  BY <1>1, <1>2 DEF Sound, EntriesOf, FoldersOf, Root
<1> QED
  BY <1>1, <1>2, <1>3 DEF Sound

\* Threads outside S keep their files.
LEMMA FilesKept ==
  ASSUME FilesInv, NEW S \in SUBSET Thread,
         \A u \in Thread \ S : fil'[u] = fil[u],
         \A u \in Thread \ S : Open(u) =>
           /\ vol'.dir[fil[u].slot] = vol.dir[fil[u].slot]
           /\ Writes(u) /\ fil[u].head # 0 =>
                /\ Root(vol.fat, fil[u].head) => Root(vol'.fat, fil[u].head)
                /\ \A s \in Slot : vol'.dir[s] # vol.dir[s] /\ vol'.dir[s] \notin Blank =>
                     vol'.dir[s].head # fil[u].head,
         \A u \in S : Open(u)' => FileInv(u)',
         \A t \in S, u \in Thread :
           Open(t)' /\ Open(u)' /\ Writes(t)' /\ Writes(u)' /\ fil'[t].head # 0 /\ t # u =>
             fil'[t].head # fil'[u].head
  PROVE  FilesInv'
<1>1. \A u \in Thread : Open(u)' => FileInv(u)'
  <2> SUFFICES ASSUME NEW u \in Thread \ S, Open(u)
               PROVE  FileInv(u)'
    BY DEF Open
  <2>1. FileInv(u)
    BY DEF FilesInv
  <2> QED
    BY <2>1 DEF FileInv, Writes
<1>2. \A t, u \in Thread :
        Open(t)' /\ Open(u)' /\ Writes(t)' /\ Writes(u)' /\ fil'[t].head # 0 /\ t # u =>
          fil'[t].head # fil'[u].head
  BY DEF FilesInv, Open, Writes
<1> QED
  BY <1>1, <1>2 DEF FilesInv

LEMMA FilesUnchanged ==
  ASSUME FilesInv, UNCHANGED fil, vol'.dir = vol.dir, vol'.fat = vol.fat
  PROVE  FilesInv'
<1>1. {} \in SUBSET Thread
  OBVIOUS
<1> QED
  BY <1>1, FilesKept

LEMMA Ended ==
  ASSUME call' = Idle
  PROVE  CallType' /\ CallInv' /\ Pair' = {} /\ HalfPair' = {}
BY DEF CallType, CallInv, Pair, HalfPair, Idle

LEMMA SlotOfIs ==
  ASSUME Types, NEW n \in Name, Exists(n)
  PROVE  SlotOf(n) \in Slot /\ vol.dir[SlotOf(n)].name = n /\ vol.dir[SlotOf(n)] \in Entry
<1>1. SlotOf(n) \in At(n)
  BY DEF SlotOf, Exists
<1>2. SlotOf(n) \in Slot /\ vol.dir[SlotOf(n)].name = n
  BY <1>1 DEF At
<1>3. vol.dir \in Dir
  BY VolumeIs DEF Types
<1>4. vol.dir[SlotOf(n)] \notin Blank
  BY <1>2, <1>3, UsedIsNamed
<1> QED
  BY <1>2, <1>3, <1>4 DEF Dir

\* Blank entries and those not open are nobody's.
LEMMA NobodyAt ==
  ASSUME VolumeInv, NEW s \in Slot, ~IsOpen(s) \/ vol.dir[s] \in Blank
  PROVE  ~IsOpen(s) /\ \A t \in Thread : fil[t].slot # s
<1>1. IsOpen(s) <=> \E t \in Thread : fil[t].slot = s
  BY OpenIsHeld DEF VolumeInv
<1>2. \A t \in Thread : Open(t) => vol.dir[fil[t].slot] \notin Blank
  BY DEF VolumeInv, FilesInv, FileInv
<1>3. \A t \in Thread : ~Open(t) => fil[t].slot # s
  BY ClosedHoldsNothing DEF VolumeInv
<1> QED
  BY <1>1, <1>2, <1>3

LEMMA FirstBlank ==
  ASSUME BlankSlots # {}
  PROVE  First(BlankSlots) \in Slot /\ vol.dir[First(BlankSlots)] \in Blank
<1>1. BlankSlots \in SUBSET Slot
  BY DEF BlankSlots
<1> QED
  BY <1>1, FirstIsIn DEF BlankSlots

(***************************************************************************)
(* Steps that leave the volume alone.                                      *)
(***************************************************************************)

LEMMA LookStep == ASSUME Inv, Look PROVE Inv'
<1>1. card' \in {card, vol} /\ UNCHANGED <<vol, last_clust, fil, files, call, shared>>
  BY DEF Look, Sync
<1>2. Types' /\ LockInv' /\ FilesInv'
  BY <1>1, FilesUnchanged DEF Inv, VolumeInv, Types, CallType, LockInv, Holders, Open, IsOpen
<1>3. CallInv'
  BY <1>1 DEF Inv, VolumeInv, CallInv, Open, IsOpen, CanRegister, Unnamed, Exists, At, Writes
<1>4. Sound(vol, HalfPair, shared)' /\ Pair' = Pair
  BY <1>1 DEF Inv, VolumeInv, HalfPair, Pair
<1> QED
  BY <1>1, <1>2, <1>3, <1>4, CardKept DEF Inv, VolumeInv

LEMMA OpenedIsFil ==
  ASSUME NEW s \in Slot, NEW e \in Entry, NEW write \in BOOLEAN, NEW excl \in BOOLEAN,
         NEW v \in Version \cup {NoVersion}, NEW changed \in BOOLEAN
  PROVE  Opened(s, e, write, excl, v, changed) \in Fil
BY Sizes DEF Opened, Fil, Entry

LEMMA OpenReadStep ==
  ASSUME Inv, NEW t \in Thread, NEW n \in File, NEW always \in BOOLEAN, OpenRead(t, n, always)
  PROVE  Inv'
<1> DEFINE r == Opened(SlotOf(n), vol.dir[SlotOf(n)], FALSE, always, NoVersion, FALSE)
<1>1. PICK s \in Slot : s = SlotOf(n) /\ vol.dir[s].name = n /\ vol.dir[s] \in Entry
  BY SlotOfIs DEF OpenRead, Name, Inv, VolumeInv
<1>2. r \in Fil /\ r.slot = s /\ r.excl = always
  BY <1>1, OpenedIsFil DEF Opened
<1>3. ~Open(t) /\ fil' = [fil EXCEPT ![t] = r] /\ Lock(s, always) /\ UNCHANGED <<vol, last_clust, call, shared>>
      /\ IF always THEN CanWrite(s) ELSE CanRead(s)
  BY <1>1 DEF OpenRead, Open
<1>4. LockInv' /\ files' \in [Slot -> Nat]
  BY <1>2, <1>3, Locking DEF Inv, VolumeInv
<1>5. call' = Idle /\ call = Idle /\ HalfPair = {} /\ card' \in {card, vol}
  BY <1>3, CardChoice DEF OpenRead, HalfPair, Idle
<1>6. \A u \in Thread : fil'[u] = IF u = t THEN r ELSE fil[u]
  BY <1>3 DEF Inv, VolumeInv, Types
<1>7. vol.dir[s] \notin Blank
  BY <1>1, UsedIsNamed, VolumeIs DEF Inv, VolumeInv, Types, Name
<1>8. Sound(vol, {}, shared)
  BY <1>5 DEF Inv, VolumeInv
<1>9. FileInv(t)'
  BY <1>1, <1>3, <1>6, <1>7, <1>8 DEF FileInv, Opened, Sound, EntriesOf, Writes
<1>10. FilesInv'
  <2>1. always => \A u \in Thread : fil[u].slot # s
    BY <1>3, NobodyAt DEF CanWrite, Inv
  <2>2. \A u \in Thread : Open(u) /\ Writes(u) /\ fil[u].head # 0 /\ vol.dir[s].head = fil[u].head => fil[u].slot = s
    BY <1>7 DEF Inv, VolumeInv, FilesInv, FileInv
  <2>3. \A u \in Thread : Open(t)' /\ Open(u)' /\ Writes(t)' /\ Writes(u)' /\ fil'[t].head # 0 /\ t # u =>
             fil'[t].head # fil'[u].head
    BY <1>1, <1>6, <2>1, <2>2 DEF Open, Opened, Writes
  <2>4. {t} \in SUBSET Thread /\ (\A u \in Thread \ {t} : fil'[u] = fil[u]) /\ vol' = vol
    BY <1>3, <1>6
  <2> QED
    BY <1>9, <2>3, <2>4, FilesKept DEF Inv, VolumeInv
<1>11. CallType' /\ CallInv' /\ HalfPair' = {} /\ Pair' = {}
  BY <1>5, Ended
<1>12. Types'
  <2>1. fil' \in [Thread -> Fil \cup {Closed}]
    BY <1>2, <1>3 DEF Inv, VolumeInv, Types
  <2> QED
    BY <1>3, <1>4, <1>5, <1>11, <2>1 DEF Inv, VolumeInv, Types
<1>13. Sound(card, Pair, shared)'
  BY <1>3, <1>5, <1>11, CardKept DEF Pair, Idle
<1> QED
  BY <1>3, <1>4, <1>8, <1>10, <1>11, <1>12, <1>13 DEF Inv, VolumeInv

\* The end of a call that changes no file but those it closes.
LEMMA LastStep ==
  ASSUME Inv, UNCHANGED <<vol, shared>>, HalfPair = {}, last_clust' \in 0..Clusters, call' = Idle,
         card' \in {card, vol}, card' = vol \/ Pair = {},
         LockInv', FilesInv', files' \in [Slot -> Nat], fil' \in [Thread -> Fil \cup {Closed}]
  PROVE  Inv'
<1>1. CallType' /\ CallInv' /\ HalfPair' = {} /\ Pair' = {}
  BY Ended
<1>2. card' \in Volume /\ Sound(card, Pair, shared)'
  BY <1>1, CardKept
<1>3. Types'
  BY <1>1, <1>2 DEF Inv, VolumeInv, Types
<1> QED
  BY <1>1, <1>2, <1>3 DEF Inv, VolumeInv

LEMMA OverwrittenStep == ASSUME Inv, Overwritten PROVE Inv'
<1> DEFINE r == Opened(call.slot, vol.dir[call.slot], TRUE, TRUE, call.version, TRUE)
<1>1. call \in [op : {"open"}, th : Thread, slot : Slot, version : Version, cl : 0..Eoc, first : Cluster]
  BY DEF Overwritten, Inv, VolumeInv, Types, CallType, Idle
<1>2. PICK t \in Thread : t = call.th
  BY <1>1
<1>3. PICK s \in Slot : s = call.slot
  BY <1>1
<1>4. /\ ~Open(t) /\ ~IsOpen(s) /\ CanRegister
      /\ vol.dir[s] \notin Blank /\ vol.dir[s].name \in File /\ vol.dir[s].head = 0
  BY <1>2, <1>3 DEF Inv, VolumeInv, CallInv, Overwritten
<1>5. vol.dir[s] \in Entry
  BY <1>4, VolumeIs DEF Inv, VolumeInv, Types, Dir
<1>6. r \in Fil /\ r.slot = s /\ r.excl
  BY <1>1, <1>3, <1>5, OpenedIsFil DEF Opened
<1>7. fil' = [fil EXCEPT ![t] = r] /\ Lock(s, TRUE) /\ UNCHANGED <<vol, shared>> /\ call' = Idle
      /\ last_clust' = call.first - 1
  BY <1>2, <1>3 DEF Overwritten
<1>8. LockInv' /\ files' \in [Slot -> Nat]
  BY <1>4, <1>6, <1>7, Locking DEF Inv, VolumeInv, CanWrite
<1>9. \A u \in Thread : fil'[u] = IF u = t THEN r ELSE fil[u]
  BY <1>7 DEF Inv, VolumeInv, Types
<1>10. FileInv(t)'
  BY <1>1, <1>3, <1>4, <1>7, <1>9 DEF FileInv, Opened
<1>11. FilesInv'
  <2>1. {t} \in SUBSET Thread /\ \A u \in Thread \ {t} : fil'[u] = fil[u]
    BY <1>9
  <2>2. fil'[t].head = 0
    BY <1>3, <1>4, <1>9 DEF Opened
  <2> QED
    BY <1>7, <1>10, <2>1, <2>2, FilesKept DEF Inv, VolumeInv
<1>12. last_clust' \in 0..Clusters
  <2>1. call.first \in 1..Clusters
    BY <1>1 DEF Cluster
  <2> QED
    BY <2>1, <1>7, Sizes
<1>13. HalfPair = {} /\ Pair = {} /\ card' \in {card, vol}
  BY <1>1, CardChoice DEF HalfPair, Pair, Overwritten
<1>14. fil' \in [Thread -> Fil \cup {Closed}]
  BY <1>6, <1>7 DEF Inv, VolumeInv, Types
<1> QED
  BY <1>7, <1>8, <1>11, <1>12, <1>13, <1>14, LastStep

LEMMA ReleaseStep ==
  ASSUME VolumeInv, NEW t \in Thread, Open(t), Release(t), UNCHANGED vol
  PROVE  LockInv' /\ FilesInv' /\ files' \in [Slot -> Nat] /\ fil' \in [Thread -> Fil \cup {Closed}]
<1>1. LockInv' /\ files' \in [Slot -> Nat]
  BY Unlocking DEF Release, VolumeInv
<1>2. fil' \in [Thread -> Fil \cup {Closed}] /\ \A u \in Thread : fil'[u] = IF u = t THEN Closed ELSE fil[u]
  BY DEF Release, VolumeInv, Types
<1>3. ~Open(t)' /\ \A u \in Thread \ {t} : fil'[u] = fil[u]
  BY <1>2 DEF Open
<1>4. {t} \in SUBSET Thread
  OBVIOUS
<1>5. FilesInv'
  BY <1>3, <1>4, FilesKept DEF VolumeInv
<1> QED
  BY <1>1, <1>2, <1>5

LEMMA SyncedStep == ASSUME Inv, Synced PROVE Inv'
<1>1. call \in [op : {"sync", "close"}, th : Thread]
  BY DEF Synced, Inv, VolumeInv, Types, CallType, Idle
<1>2. PICK t \in Thread : t = call.th
  BY <1>1
<1>3. Open(t)
  BY <1>2 DEF Inv, VolumeInv, CallInv, Synced
<1>4. UNCHANGED <<vol, last_clust, shared>> /\ call' = Idle /\ card' = vol
  BY DEF Synced, Sync
<1>5. LockInv' /\ FilesInv' /\ files' \in [Slot -> Nat] /\ fil' \in [Thread -> Fil \cup {Closed}]
  <2>1. CASE Release(t)
    BY <2>1, <1>3, <1>4, ReleaseStep DEF Inv
  <2>2. CASE UNCHANGED <<fil, files>>
    BY <2>2, <1>4, FilesUnchanged DEF Inv, VolumeInv, Types, LockInv, Holders, Open, IsOpen
  <2> QED
    BY <1>2, <2>1, <2>2 DEF Synced
<1>6. HalfPair = {} /\ last_clust' \in 0..Clusters
  BY <1>1, <1>4 DEF HalfPair, Inv, VolumeInv, Types
<1> QED
  BY <1>4, <1>5, <1>6, LastStep

LEMMA CloseStep == ASSUME Inv, NEW t \in Thread, Close(t) PROVE Inv'
<1>1. Open(t) /\ Release(t) /\ UNCHANGED <<vol, card, last_clust, call, shared>> /\ call = Idle
  BY DEF Close, Open
<1>2. LockInv' /\ FilesInv' /\ files' \in [Slot -> Nat] /\ fil' \in [Thread -> Fil \cup {Closed}]
  BY <1>1, ReleaseStep DEF Inv
<1>3. Pair = {} /\ HalfPair = {} /\ last_clust' \in 0..Clusters
  BY <1>1 DEF Pair, HalfPair, Idle, Inv, VolumeInv, Types
<1> QED
  BY <1>1, <1>2, <1>3, LastStep

LEMMA EndStep == ASSUME Inv, Unlinked \/ Renamed \/ Made PROVE Inv'
<1>1. UNCHANGED <<vol, last_clust, fil, files, shared>> /\ call' = Idle /\ card' = vol
  BY DEF Unlinked, Renamed, Made, Sync
<1>2. LockInv' /\ FilesInv' /\ files' \in [Slot -> Nat] /\ fil' \in [Thread -> Fil \cup {Closed}]
  BY <1>1, FilesUnchanged DEF Inv, VolumeInv, Types, LockInv, Holders, Open, IsOpen
<1>3. HalfPair = {} /\ last_clust' \in 0..Clusters
  BY <1>1 DEF HalfPair, Unlinked, Renamed, Made, Inv, VolumeInv, Types
<1> QED
  BY <1>1, <1>2, <1>3, LastStep

(***************************************************************************)
(* Steps that change links or contents.                                    *)
(***************************************************************************)

\* What entries and writing files start with is a root.
LEMMA NamedAreRoots ==
  ASSUME VolumeInv
  PROVE  \A c \in Cluster : ~Root(vol.fat, c) => Unnamed(c)
<1> SUFFICES ASSUME NEW c \in Cluster, ~Root(vol.fat, c)
             PROVE  Unnamed(c)
  OBVIOUS
<1>1. \A s \in Slot : vol.dir[s] \notin Blank => vol.dir[s].head # c
  BY Sizes DEF VolumeInv, Sound, EntriesOf
<1>2. \A t \in Thread : Open(t) /\ Writes(t) => fil[t].head # c
  BY Sizes DEF VolumeInv, FilesInv, FileInv
<1> QED
  BY <1>1, <1>2 DEF Unnamed

\* A link is changed while cluster k, if any, changes hands.
LEMMA ChainStep ==
  ASSUME Inv, NEW c \in Cluster, NEW x \in 0..Eoc, vol' = [vol EXCEPT !.fat[c] = x],
         UNCHANGED <<fil, files, shared>>, card' \in {card, vol}, last_clust' \in 0..Clusters,
         Pair = {}, Pair' = {}, HalfPair' = {}, CallType',
         NEW g, g = [vol.fat EXCEPT ![c] = x], LinksOf(g),
         NEW k \in Cluster, Unnamed(k), \A r : Root(vol.fat, r) /\ r # k => Root(g, r)
  PROVE  /\ CallInv' => Inv'
         /\ vol'.fat = g /\ vol'.dir = vol.dir /\ vol'.data = vol.data
         /\ \A d : Unnamed(d) => Unnamed(d)'
<1>1. HalfPair = {}
  BY DEF HalfPair, Pair
<1>2. \A s \in Slot : vol.dir[s] \notin Blank /\ vol.dir[s].head # 0 => Root(g, vol.dir[s].head)
  BY DEF Unnamed, Inv, VolumeInv, Sound, EntriesOf
<1>3. /\ Sound(vol', {}, shared') /\ vol' \in Volume
      /\ vol'.fat = g /\ vol'.dir = vol.dir /\ vol'.data = vol.data
  BY <1>1, <1>2, FatStep DEF Inv, VolumeInv, Types
<1>4. \A t \in Thread : Open(t) /\ Writes(t) /\ fil[t].head # 0 =>
         (Root(vol.fat, fil[t].head) => Root(g, fil[t].head))
  BY DEF Unnamed
<1>5. FilesInv'
  BY <1>3, <1>4, FilesKept DEF Inv, VolumeInv
<1>6. LockInv'
  BY DEF Inv, VolumeInv, LockInv, Holders, Open, IsOpen
<1>7. card' \in Volume /\ Sound(card, Pair, shared)'
  BY CardKept
<1>8. Types'
  BY <1>3, <1>7 DEF Inv, VolumeInv, Types
<1>9. \A d : Unnamed(d) => Unnamed(d)'
  BY <1>3 DEF Unnamed, Open, Writes
<1> QED
  BY <1>3, <1>5, <1>6, <1>7, <1>8, <1>9 DEF Inv, VolumeInv

LEMMA FreeClusterStep == ASSUME Inv, FreeCluster PROVE Inv'
<1> DEFINE g == [vol.fat EXCEPT ![call.cl] = 0]
<1>1. PICK c \in Cluster : c = call.cl
  BY DEF FreeCluster
<1>2. Root(vol.fat, c) /\ Unnamed(c)
  BY <1>1 DEF FreeCluster, Inv, VolumeInv, CallInv
<1>3. vol.fat \in Fat /\ LinksOf(vol.fat) /\ vol.fat[c] \in 0..Eoc
  BY VolumeIs DEF Inv, VolumeInv, Types, Sound, Fat
<1>4. /\ LinksOf(g) /\ \A r : Root(vol.fat, r) /\ r # c => Root(g, r) /\ r # vol.fat[c]
      /\ vol.fat[c] \in Cluster => Root(g, vol.fat[c])
  BY <1>1, <1>2, <1>3, Freeing
<1>5. CallType' /\ call'.cl = vol.fat[c] /\ call'.op = call.op /\ Pair = {} /\ Pair' = {} /\ HalfPair' = {}
      /\ (call.op = "open" => call'.th = call.th /\ call'.slot = call.slot)
  <2>1. CASE call.op = "open"
    <3>1. call \in [op : {"open"}, th : Thread, slot : Slot, version : Version, cl : 0..Eoc, first : Cluster]
      BY <2>1 DEF Inv, VolumeInv, Types, CallType, Idle
    <3> QED
      BY <2>1, <3>1, <1>1, <1>3 DEF FreeCluster, CallType, Pair, HalfPair
  <2>2. CASE call.op = "unlink"
    <3>1. call \in [op : {"unlink"}, cl : 0..Eoc]
      BY <2>2 DEF Inv, VolumeInv, Types, CallType, Idle
    <3> QED
      BY <2>2, <3>1, <1>1, <1>3 DEF FreeCluster, CallType, Pair, HalfPair
  <2> QED
    BY <2>1, <2>2 DEF FreeCluster
<1>6. /\ vol' = [vol EXCEPT !.fat[c] = 0] /\ UNCHANGED <<fil, files, shared>> /\ card' \in {card, vol}
      /\ last_clust' \in 0..Clusters
  BY <1>1, CardChoice DEF FreeCluster, Inv, VolumeInv, Types
<1>7. /\ CallInv' => Inv'
      /\ vol'.fat = g /\ vol'.dir = vol.dir /\ vol'.data = vol.data
  BY <1>1, <1>2, <1>4, <1>5, <1>6, Sizes, ChainStep
<1>8. PICK d \in 0..Eoc : d = vol.fat[c]
  BY <1>3
<1>9. d \in Cluster => Unnamed(d)'
  <2> SUFFICES ASSUME d \in Cluster
               PROVE  /\ \A s \in Slot : vol.dir[s] \notin Blank => vol.dir[s].head # d
                      /\ \A t \in Thread : Open(t) /\ Writes(t) => fil[t].head # d
    BY <1>6, <1>7 DEF Unnamed, Open, Writes
  <2>1. \A s \in Slot : vol.dir[s] \notin Blank => vol.dir[s].head # d
    BY <1>2, <1>4, <1>8, Sizes DEF Unnamed, Inv, VolumeInv, Sound, EntriesOf
  <2>2. \A t \in Thread : Open(t) /\ Writes(t) => fil[t].head # d
    BY <1>2, <1>4, <1>8, Sizes DEF Unnamed, Inv, VolumeInv, FilesInv, FileInv
  <2> QED
    BY <2>1, <2>2
<1>10. call.op = "open" =>
       (/\ ~Open(call.th) /\ ~IsOpen(call.slot) /\ CanRegister
        /\ vol.dir[call.slot] \notin Blank /\ vol.dir[call.slot].name \in File
        /\ vol.dir[call.slot].head = 0)'
  BY <1>5, <1>6, <1>7 DEF Inv, VolumeInv, CallInv, Open, IsOpen, CanRegister
<1>11. CallInv'
  BY <1>1, <1>4, <1>5, <1>7, <1>9, <1>10, <1>8 DEF CallInv, FreeCluster
<1> QED
  BY <1>7, <1>11

LEMMA WriteStep == ASSUME Inv, NEW t \in Thread, Write(t) PROVE Inv'
<1> DEFINE scl == IF fil[t].clust = 0 THEN last_clust ELSE fil[t].clust
<1>1. Open(t) /\ fil[t] \in Fil /\ fil[t].write /\ fil[t].size < MaxSize /\ call = Idle
  BY ClosedHoldsNothing DEF Write, Open, Inv, VolumeInv
<1>2. FileInv(t) /\ fil[t].excl /\ Writes(t)
  BY <1>1 DEF Inv, VolumeInv, FilesInv, FileInv, Writes
<1>3. Pair = {} /\ HalfPair = {} /\ last_clust' \in 0..Clusters /\ UNCHANGED <<files, shared>>
  BY <1>1 DEF Write, Pair, HalfPair, Idle, Inv, VolumeInv, Types
<1>4. CASE FreeClusters = {}
  <2>1. card' \in {card, vol} /\ UNCHANGED <<vol, call>> /\ fil' = [fil EXCEPT ![t].written = TRUE]
    BY <1>4, CardChoice DEF Write
  <2>2. fil' = [fil EXCEPT ![t] = [fil[t] EXCEPT !.written = TRUE]]
    BY <2>1
  <2>3. /\ \A u \in Thread : fil'[u] = IF u = t THEN [fil[t] EXCEPT !.written = TRUE] ELSE fil[u]
        /\ [fil[t] EXCEPT !.written = TRUE] \in Fil
    BY <2>2, <1>1 DEF Inv, VolumeInv, Types, Fil
  <2>4. /\ fil' \in [Thread -> Fil \cup {Closed}]
        /\ \A u \in Thread : fil'[u].slot = fil[u].slot /\ fil'[u].excl = fil[u].excl
             /\ fil'[u].head = fil[u].head /\ Open(u)' = Open(u)
    BY <2>2, <2>3, <1>1, Sizes DEF Inv, VolumeInv, Types, Open, Fil, Closed
  <2>5. LockInv'
    BY <2>4, <1>3, LocksKept DEF Inv, VolumeInv
  <2>6. FileInv(t)'
    BY <2>1, <2>3, <1>1, <1>2 DEF FileInv, Fil
  <2>7. FilesInv'
    <3>1. {t} \in SUBSET Thread /\ (\A u \in Thread \ {t} : fil'[u] = fil[u]) /\ vol' = vol
      BY <2>1, <2>3
    <3>2. \A u \in Thread : Open(t)' /\ Open(u)' /\ Writes(t)' /\ Writes(u)' /\ fil'[t].head # 0 /\ t # u =>
             fil'[t].head # fil'[u].head
      <4>1. \A u \in Thread : Writes(u)' /\ t # u => Writes(u)
        BY <2>3 DEF Writes
      <4> QED
        BY <4>1, <2>4, <1>2 DEF Inv, VolumeInv, FilesInv
    <3> QED
      BY <2>6, <3>1, <3>2, FilesKept DEF Inv, VolumeInv
  <2>8. call' = Idle
    BY <2>1, <1>1
  <2> QED
    BY <2>1, <2>4, <2>5, <2>7, <2>8, <1>3, LastStep DEF Inv, VolumeInv, Types
<1>5. CASE FreeClusters # {}
  <2>1. scl \in 0..Clusters
    BY <1>1 DEF Inv, VolumeInv, Types, Fil, Cluster
  <2>2. PICK c \in Cluster : c = NextFree(scl) /\ vol.fat[c] = 0
    BY <2>1, <1>5, NextIsFree
  <2>3. /\ card' \in {card, vol} /\ UNCHANGED <<fil, files, shared>> /\ vol' = [vol EXCEPT !.fat[c] = Eoc]
        /\ call' = [op |-> IF fil[t].clust = 0 THEN "fill" ELSE "link", th |-> t, cl |-> c]
    BY <2>2, <1>5, CardChoice DEF Write
  <2> DEFINE g == [vol.fat EXCEPT ![c] = Eoc]
  <2>4. vol.fat \in Fat /\ LinksOf(vol.fat)
    BY VolumeIs DEF Inv, VolumeInv, Types, Sound
  <2>5. LinksOf(g) /\ Root(g, c) /\ \A r : Root(vol.fat, r) => Root(g, r)
    BY <2>2, <2>4, Allocating
  <2>6. Unnamed(c)
    BY <2>2, NamedAreRoots DEF Root, Inv
  <2>7. CallType' /\ Pair' = {} /\ HalfPair' = {}
    BY <2>3 DEF CallType, Pair, HalfPair
  <2>8. /\ CallInv' => Inv'
        /\ vol'.fat = g /\ vol'.dir = vol.dir /\ vol'.data = vol.data /\ Unnamed(c)'
    BY <2>3, <2>5, <2>6, <2>7, <1>3, Sizes, ChainStep
  <2>9. CallInv'
    BY <2>3, <2>5, <2>8, <1>1, Sizes DEF CallInv, Root, Open
  <2> QED
    BY <2>8, <2>9
<1> QED
  BY <1>4, <1>5

LEMMA LinkStep == ASSUME Inv, Link PROVE Inv'
<1>1. call \in [op : {"link"}, th : Thread, cl : Cluster]
  BY DEF Link, Inv, VolumeInv, Types, CallType, Idle
<1>2. PICK t \in Thread : t = call.th
  BY <1>1
<1>3. PICK c \in Cluster : c = call.cl
  BY <1>1
<1>4. /\ Open(t) /\ fil[t].write /\ fil[t].size < MaxSize /\ fil[t].clust # 0
      /\ Root(vol.fat, c) /\ Unnamed(c) /\ fil[t] \in Fil
  BY <1>2, <1>3, ClosedHoldsNothing DEF Link, Inv, VolumeInv, CallInv
<1>5. PICK p \in Cluster : p = fil[t].clust
  BY <1>4 DEF Fil
<1> DEFINE g == [vol.fat EXCEPT ![p] = c]
<1>6. /\ card' \in {card, vol} /\ UNCHANGED <<fil, files, shared>> /\ vol' = [vol EXCEPT !.fat[p] = c]
      /\ call' = [call EXCEPT !.op = "fill"] /\ last_clust' \in 0..Clusters
  BY <1>2, <1>3, <1>5, CardChoice DEF Link, Inv, VolumeInv, Types
<1>7. vol.fat \in Fat /\ LinksOf(vol.fat)
  BY VolumeIs DEF Inv, VolumeInv, Types, Sound
<1>8. LinksOf(g) /\ g[c] # 0 /\ \A r : Root(vol.fat, r) /\ r # c => Root(g, r)
  <2>1. g[p] = c /\ \A e \in Cluster \ {p} : g[e] = vol.fat[e]
    BY <1>7 DEF Fat
  <2> HIDE DEF g
  <2>2. Root(vol.fat, c) /\ vol.fat \in Fat /\ LinksOf(vol.fat) /\ p \in Cluster /\ c \in Cluster
    BY <1>4, <1>7
  <2> QED
    BY ONLY <2>1, <2>2, Linking
<1>9. CallType' /\ Pair = {} /\ Pair' = {} /\ HalfPair' = {} /\ call'.th = t /\ call'.cl = c /\ call'.op = "fill"
  BY <1>1, <1>2, <1>3, <1>6 DEF CallType, Pair, HalfPair
<1>10. /\ CallInv' => Inv'
       /\ vol'.fat = g /\ vol'.dir = vol.dir /\ vol'.data = vol.data /\ Unnamed(c)'
  BY <1>4, <1>6, <1>8, <1>9, Sizes, ChainStep
<1>11. fil[t].head # 0
  BY <1>4 DEF Inv, VolumeInv, FilesInv, FileInv
<1>12. CallInv'
  BY <1>4, <1>6, <1>8, <1>9, <1>10, <1>11 DEF CallInv, Open
<1> QED
  BY <1>10, <1>12

LEMMA MakeFolderStep == ASSUME Inv, NEW n \in Folder, MakeFolder(n) PROVE Inv'
<1>1. call = Idle /\ Pair = {} /\ last_clust \in 0..Clusters
  BY DEF MakeFolder, Pair, Idle, Inv, VolumeInv, Types
<1>2. PICK c \in Cluster : c = NextFree(last_clust) /\ vol.fat[c] = 0
  BY <1>1, NextIsFree DEF MakeFolder
<1> DEFINE g == [vol.fat EXCEPT ![c] = Eoc]
<1>3. /\ card' \in {card, vol} /\ UNCHANGED <<fil, files, shared>> /\ vol' = [vol EXCEPT !.fat[c] = Eoc]
      /\ call' = [op |-> "format", name |-> n, cl |-> c] /\ last_clust' = c
  BY <1>2, CardChoice DEF MakeFolder
<1>4. vol.fat \in Fat /\ LinksOf(vol.fat)
  BY VolumeIs DEF Inv, VolumeInv, Types, Sound
<1>5. LinksOf(g) /\ Root(g, c) /\ \A r : Root(vol.fat, r) => Root(g, r)
  BY <1>2, <1>4, Allocating
<1>6. Unnamed(c)
  BY <1>2, NamedAreRoots DEF Root, Inv
<1>7. CallType' /\ Pair' = {} /\ HalfPair' = {} /\ last_clust' \in 0..Clusters
  BY <1>3 DEF CallType, Pair, HalfPair, Cluster
<1>8. /\ CallInv' => Inv'
      /\ vol'.fat = g /\ vol'.dir = vol.dir /\ vol'.data = vol.data /\ Unnamed(c)'
  BY <1>1, <1>3, <1>5, <1>6, <1>7, Sizes, ChainStep
<1>9. ~Exists(n)'
  BY <1>8 DEF MakeFolder, Exists, At
<1>10. CallInv'
  BY <1>3, <1>5, <1>8, <1>9 DEF CallInv
<1> QED
  BY <1>8, <1>10

LEMMA FillStep == ASSUME Inv, Fill PROVE Inv'
<1>1. call \in [op : {"fill"}, th : Thread, cl : Cluster]
  BY DEF Fill, Inv, VolumeInv, Types, CallType, Idle
<1>2. PICK t \in Thread : t = call.th
  BY <1>1
<1>3. PICK c \in Cluster : c = call.cl
  BY <1>1
<1> DEFINE r == [fil[t] EXCEPT !.head = IF fil[t].head = 0 THEN c ELSE fil[t].head,
                   !.clust = c, !.size = fil[t].size + 1, !.written = TRUE]
<1>4. /\ Open(t) /\ fil[t].write /\ fil[t].size < MaxSize /\ vol.fat[c] # 0 /\ Unnamed(c)
      /\ fil[t].head = 0 => Root(vol.fat, c)
  BY <1>2, <1>3 DEF Fill, Inv, VolumeInv, CallInv
<1>5. fil[t] \in Fil /\ FileInv(t)
  BY <1>4, ClosedHoldsNothing DEF Inv, VolumeInv, FilesInv
<1>6. fil[t].excl /\ fil[t].version \in Version
  BY <1>4, <1>5 DEF FileInv, Writes
<1>7. <<fil[t].version, fil[t].size + 1>> \in Unit
  BY <1>4, <1>5, <1>6, SizeAssumption DEF Unit, Fil
<1>8. /\ card' \in {card, vol} /\ vol' = [vol EXCEPT !.data[c] = <<fil[t].version, fil[t].size + 1>>]
      /\ fil' = [fil EXCEPT ![t] = r] /\ UNCHANGED <<files, shared>> /\ call' = Idle /\ last_clust' = c
  BY <1>2, <1>3, CardChoice DEF Fill
<1>9. HalfPair = {} /\ Pair = {} /\ last_clust' \in 0..Clusters
  BY <1>1, <1>8 DEF HalfPair, Pair, Cluster
<1>10. Sound(vol', {}, shared') /\ vol' \in Volume /\ vol'.fat = vol.fat /\ vol'.dir = vol.dir
  BY <1>4, <1>7, <1>8, <1>9, DataStep DEF Unnamed, Inv, VolumeInv, Types
<1>11. /\ r \in Fil /\ r.slot = fil[t].slot /\ r.excl = fil[t].excl /\ r.excl /\ r.write
       /\ r.written /\ r.version = fil[t].version
       /\ r.clust = c /\ r.head = IF fil[t].head = 0 THEN c ELSE fil[t].head
  <2>1. fil[t].size + 1 \in 0..MaxSize
    BY <1>4, <1>5, SizeAssumption DEF Fil
  <2>2. (IF fil[t].head = 0 THEN c ELSE fil[t].head) \in Cluster \cup {0}
    BY <1>5 DEF Fil
  <2>3. r \in Fil
    BY <1>5, <2>1, <2>2 DEF Fil
  <2> QED
    BY <1>4, <1>5, <1>6, <2>3 DEF Fil
<1>12. \A u \in Thread : fil'[u] = IF u = t THEN r ELSE fil[u]
  BY <1>8 DEF Inv, VolumeInv, Types
<1> HIDE DEF r
<1>13. FileInv(t)'
  BY <1>4, <1>5, <1>6, <1>10, <1>11, <1>12, Sizes DEF FileInv, Unnamed, Writes
<1>14. FilesInv'
  <2>1. {t} \in SUBSET Thread /\ (\A u \in Thread \ {t} : fil'[u] = fil[u])
    BY <1>12
  <2>2. \A u \in Thread : Open(t)' /\ Open(u)' /\ Writes(t)' /\ Writes(u)' /\ fil'[t].head # 0 /\ t # u =>
             fil'[t].head # fil'[u].head
    BY <1>4, <1>6, <1>11, <1>12 DEF Inv, VolumeInv, FilesInv, Unnamed, Open, Writes
  <2> QED
    BY <1>10, <1>13, <2>1, <2>2, FilesKept DEF Inv, VolumeInv
<1>15. LockInv'
  <2>1. r # Closed
    BY <1>11, Sizes DEF Fil, Closed
  <2>2. LockInv'
    <3>1. \A u \in Thread : fil'[u].slot = fil[u].slot /\ fil'[u].excl = fil[u].excl /\ Open(u)' = Open(u)
      BY <2>1, <1>4, <1>6, <1>11, <1>12 DEF Open
    <3> QED
      BY <3>1, <1>8, LocksKept DEF Inv, VolumeInv
  <2> QED
    BY <2>2
<1>16. CallType' /\ CallInv' /\ HalfPair' = {} /\ Pair' = {}
  BY <1>8, Ended
<1>17. card' \in Volume /\ Sound(card, Pair, shared)'
  BY <1>8, <1>9, CardKept
<1>18. Types'
  BY <1>8, <1>9, <1>10, <1>11, <1>16, <1>17 DEF Inv, VolumeInv, Types
<1> QED
  BY <1>10, <1>14, <1>15, <1>16, <1>17, <1>18 DEF Inv, VolumeInv

LEMMA FormatStep == ASSUME Inv, Format PROVE Inv'
<1>1. call \in [op : {"format"}, name : Folder, cl : Cluster]
  BY DEF Format, Inv, VolumeInv, Types, CallType, Idle
<1>2. PICK c \in Cluster : c = call.cl
  BY <1>1
<1>3. PICK n \in Folder : n = call.name
  BY <1>1
<1>4. Root(vol.fat, c) /\ Unnamed(c) /\ ~Exists(n)
  BY <1>2, <1>3 DEF Format, Inv, VolumeInv, CallInv
<1>5. /\ card' \in {card, vol} /\ vol' = [vol EXCEPT !.data[c] = Dots]
      /\ UNCHANGED <<fil, files, last_clust, shared>> /\ call' = [call EXCEPT !.op = "register"]
  BY <1>2, CardChoice DEF Format
<1>6. /\ call' \in [op : {"register"}, name : Folder, cl : Cluster] /\ call'.cl = c /\ call'.name = n
      /\ HalfPair = {} /\ Pair = {} /\ Pair' = {} /\ HalfPair' = {}
  BY <1>1, <1>2, <1>3, <1>5 DEF HalfPair, Pair
<1>7. /\ Sound(vol', {}, shared') /\ vol' \in Volume
      /\ vol'.fat = vol.fat /\ vol'.dir = vol.dir /\ vol'.data[c] = Dots
  <2>1. Dots \in Unit
    BY DEF Unit
  <2> QED
    BY <2>1, <1>4, <1>5, <1>6, DataStep DEF Unnamed, Inv, VolumeInv, Types
<1>8. FilesInv' /\ LockInv'
  BY <1>5, <1>7, FilesUnchanged DEF Inv, VolumeInv, LockInv, Holders, Open, IsOpen
<1>9. CallInv' /\ CallType'
  BY <1>4, <1>5, <1>6, <1>7 DEF CallInv, CallType, Unnamed, Open, Exists, At, Writes
<1>10. card' \in Volume /\ Sound(card, Pair, shared)'
  BY <1>5, <1>6, CardKept
<1>11. Types'
  BY <1>5, <1>7, <1>9, <1>10 DEF Inv, VolumeInv, Types
<1> QED
  BY <1>6, <1>7, <1>8, <1>9, <1>10, <1>11 DEF Inv, VolumeInv

(***************************************************************************)
(* Steps that change an entry.                                             *)
(***************************************************************************)

\* An entry that nobody has open is changed, and no file is opened.
LEMMA FreeEntryStep ==
  ASSUME Inv, NEW s \in Slot, \A t \in Thread : fil[t].slot # s,
         NEW e \in Entry \cup Blank, UNCHANGED <<last_clust, fil, files, shared>>,
         /\ vol' \in Volume /\ vol'.fat = vol.fat
         /\ \A q \in Slot : vol'.dir[q] = IF q = s THEN e ELSE vol.dir[q],
         e \in Blank \/ e.head = 0 \/ \A u \in Thread : Open(u) /\ Writes(u) => fil[u].head # e.head,
         card' \in {card, vol}, Pair \in {{}, Pair'}
  PROVE  CallType' /\ CallInv' /\ Sound(vol, HalfPair, shared)' => Inv'
<1>1. \A u \in Thread : Open(u) => fil[u] \in Fil
  BY ClosedHoldsNothing DEF Inv, VolumeInv
<1>2. FilesInv'
  <2>1. \A u \in Thread : Open(u) => vol'.dir[fil[u].slot] = vol.dir[fil[u].slot]
    BY <1>1 DEF Fil
  <2>2. \A u \in Thread : Open(u) /\ Writes(u) /\ fil[u].head # 0 =>
          \A q \in Slot : vol'.dir[q] # vol.dir[q] /\ vol'.dir[q] \notin Blank => vol'.dir[q].head # fil[u].head
    OBVIOUS
  <2>3. {} \in SUBSET Thread /\ vol'.fat = vol.fat /\ fil' = fil
    OBVIOUS
  <2> QED
    BY <2>1, <2>2, <2>3, FilesKept DEF Inv, VolumeInv
<1>3. LockInv'
  BY DEF Inv, VolumeInv, LockInv, Holders, Open, IsOpen
<1>4. card' \in Volume /\ Sound(card, Pair, shared)'
  BY CardKept
<1>5. CallType' => Types'
  BY <1>4 DEF Inv, VolumeInv, Types
<1> QED
  BY <1>2, <1>3, <1>4, <1>5 DEF Inv, VolumeInv

LEMMA UnlinkStep == ASSUME Inv, NEW n \in File, Unlink(n), ~hurt' PROVE Inv'
<1>1. PICK s \in Slot : s = SlotOf(n) /\ vol.dir[s].name = n /\ vol.dir[s] \in Entry
  BY SlotOfIs DEF Unlink, Name, Inv, VolumeInv
<1>2. vol.dir[s] \notin Blank
  BY <1>1, UsedIsNamed, VolumeIs DEF Inv, VolumeInv, Types, Name
<1>3. /\ call = Idle /\ ~IsOpen(s) /\ card' \in {card, vol} /\ SetEntry(s, Deleted)
      /\ call' = [op |-> "unlink", cl |-> vol.dir[s].head] /\ UNCHANGED <<last_clust, fil, files, shared>>
  BY <1>1, CardChoice DEF Unlink
<1>4. Pair = {} /\ HalfPair = {} /\ Pair' = {} /\ HalfPair' = {}
  BY <1>3 DEF Pair, HalfPair, Idle
<1>5. Sound(vol, {}, shared) /\ vol \in Volume
  BY <1>4 DEF Inv, VolumeInv, Types
<1>6. Deleted \in Blank
  BY DEF Blank
<1>7. /\ Sound(vol', {}, shared') /\ vol' \in Volume
      /\ vol'.fat = vol.fat /\ vol'.data = vol.data
      /\ \A q \in Slot : vol'.dir[q] = IF q = s THEN Deleted ELSE vol.dir[q]
  BY <1>3, <1>5, <1>6, EntryStep
<1>8. \A t \in Thread : fil[t].slot # s
  BY <1>3, NobodyAt DEF Inv
<1>9. CallType' /\ Sound(vol, HalfPair, shared)'
  BY <1>1, <1>3, <1>4, <1>7, Sizes DEF CallType, Entry
<1>10. CallInv'
  <2> SUFFICES ASSUME vol.dir[s].head # 0
               PROVE  (Root(vol.fat, call.cl) /\ Unnamed(call.cl))'
    BY <1>1, <1>3, Sizes DEF CallInv, Entry
  <2>1. PICK c \in Cluster : c = vol.dir[s].head
    BY <1>1 DEF Entry
  <2>2. Root(vol'.fat, c)
    BY <1>2, <1>5, <1>7, <2>1 DEF Sound, EntriesOf
  <2>3. \A q \in Slot : vol'.dir[q] \notin Blank => vol'.dir[q].head # c
    <3>1. c \notin shared
      BY <1>1, <2>1 DEF Unlink, Hurting
    <3> QED
      BY <3>1, <1>2, <1>5, <1>6, <1>7, <2>1 DEF Sound, EntriesOf
  <2>4. \A t \in Thread : Open(t) /\ Writes(t) => fil[t].head # c
    BY <1>2, <1>8, <2>1 DEF Inv, VolumeInv, FilesInv, FileInv
  <2> QED
    BY <1>3, <2>1, <2>2, <2>3, <2>4 DEF Unnamed, Open, Writes
<1> QED
  BY <1>3, <1>4, <1>6, <1>7, <1>8, <1>9, <1>10, FreeEntryStep

LEMMA RenameStep == ASSUME Inv, NEW n \in File, NEW m \in File, Rename(n, m) PROVE Inv'
<1>1. PICK s \in Slot : s = SlotOf(n) /\ vol.dir[s].name = n /\ vol.dir[s] \in Entry
  BY SlotOfIs DEF Rename, Name, Inv, VolumeInv
<1>2. vol.dir[s] \notin Blank
  BY <1>1, UsedIsNamed, VolumeIs DEF Inv, VolumeInv, Types, Name
<1>3. PICK q \in Slot : q = First(BlankSlots) /\ vol.dir[q] \in Blank
  BY FirstBlank DEF Rename
<1> DEFINE e == [vol.dir[s] EXCEPT !.name = m]
<1>4. /\ call = Idle /\ ~IsOpen(s) /\ ~Exists(m) /\ card' \in {card, vol} /\ SetEntry(q, e)
      /\ call' = [op |-> "rename", old |-> s, new |-> q, was |-> promise[n], half |-> TRUE]
      /\ UNCHANGED <<last_clust, fil, files, shared>>
  BY <1>1, <1>3, CardChoice DEF Rename
<1>5. Pair = {} /\ HalfPair = {} /\ HalfPair' = {s, q} /\ s # q
  BY <1>2, <1>3, <1>4 DEF Pair, HalfPair, Idle
<1>6. Sound(vol, {}, shared) /\ vol \in Volume
  BY <1>5 DEF Inv, VolumeInv, Types
<1>7. e \in Entry /\ e.name = m /\ e.head = vol.dir[s].head
  BY <1>1 DEF Entry, Name
<1> HIDE DEF e
<1> DEFINE pair == {s, q}
<1>8. /\ e.head # 0 => Root(vol.fat, e.head)
      /\ e.name \notin Folder
      /\ \A p \in Slot \ {q} : vol.dir[p] \notin Blank =>
           /\ vol.dir[p].name # e.name
           /\ e.head # 0 /\ vol.dir[p].head = e.head => {q, p} = pair \/ e.head \in shared
  <2>1. \A p \in Slot : vol.dir[p].name # m
    BY <1>4 DEF Exists, At
  <2>2. \A p \in Slot : vol.dir[p] \notin Blank /\ e.head # 0 /\ vol.dir[p].head = e.head => p = s \/ e.head \in shared
    BY <1>2, <1>6, <1>7 DEF Sound, EntriesOf
  <2> QED
    BY <1>2, <1>6, <1>7, <2>1, <2>2, NameAssumption DEF Sound, EntriesOf
<1> HIDE DEF pair
<1>9. /\ Sound(vol', pair, shared') /\ vol' \in Volume
      /\ vol'.fat = vol.fat /\ vol'.data = vol.data
      /\ \A p \in Slot : vol'.dir[p] = IF p = q THEN e ELSE vol.dir[p]
  <2>1. SetEntry(q, e) /\ e \in Entry \cup Blank /\ Sound(vol, {}, shared) /\ vol \in Volume /\ q \in Slot
    BY <1>4, <1>6, <1>7
  <2>2. Sound(vol', pair, shared')
    BY ONLY <2>1, <1>4, <1>8, EntryStep
  <2> QED
    BY <2>1, <2>2, ChangeEntry
<1>10. ~IsOpen(q) /\ \A t \in Thread : fil[t].slot # q /\ fil[t].slot # s
  BY <1>3, <1>4, NobodyAt DEF Inv
<1>11. CallType' /\ Sound(vol, HalfPair, shared)'
  BY <1>4, <1>5, <1>9 DEF CallType, pair
<1>12. e \notin Blank
  <2>1. vol' \in Volume /\ vol'.dir \in Dir /\ vol'.dir[q].name \in Name
    BY <1>7, <1>9, VolumeIs DEF Name
  <2> QED
    BY <2>1, <1>9, UsedIsNamed
<1>13. CallInv'
  BY <1>2, <1>4, <1>5, <1>9, <1>10, <1>12 DEF CallInv, IsOpen
<1>14. e.head = 0 \/ \A u \in Thread : Open(u) /\ Writes(u) => fil[u].head # e.head
  BY <1>2, <1>7, <1>10 DEF Inv, VolumeInv, FilesInv, FileInv
<1> QED
  BY <1>4, <1>5, <1>7, <1>9, <1>10, <1>11, <1>13, <1>14, FreeEntryStep

LEMMA RemoveOldStep == ASSUME Inv, RemoveOld PROVE Inv'
<1>1. /\ call \in [op : {"rename"}, old : Slot, new : Slot, was : {call.was}, half : BOOLEAN]
      /\ call.half
  BY DEF RemoveOld, Inv, VolumeInv, Types, CallType, Idle
<1>2. PICK s \in Slot : s = call.old
  BY <1>1
<1>3. ~IsOpen(s) /\ call.old # call.new
  BY <1>1, <1>2 DEF Inv, VolumeInv, CallInv
<1>4. /\ card' \in {card, vol} /\ SetEntry(s, Deleted)
      /\ call' = [call EXCEPT !.half = FALSE] /\ UNCHANGED <<last_clust, fil, files, shared>>
  BY <1>2, CardChoice DEF RemoveOld
<1>5. HalfPair = Pair /\ Pair' = Pair /\ s \in Pair /\ HalfPair' = {}
  BY <1>1, <1>2, <1>4 DEF Pair, HalfPair
<1>6. Deleted \in Blank /\ Sound(vol, HalfPair, shared) /\ vol \in Volume
  BY DEF Blank, Inv, VolumeInv, Types
<1>7. /\ Sound(vol', {}, shared') /\ vol' \in Volume
      /\ vol'.fat = vol.fat /\ vol'.data = vol.data
      /\ \A q \in Slot : vol'.dir[q] = IF q = s THEN Deleted ELSE vol.dir[q]
  BY <1>4, <1>5, <1>6, EntryStep
<1>8. \A t \in Thread : fil[t].slot # s
  BY <1>3, NobodyAt DEF Inv
<1>9. CallType' /\ CallInv' /\ Sound(vol, HalfPair, shared)'
  BY <1>1, <1>3, <1>4, <1>5, <1>7 DEF CallType, CallInv
<1> QED
  BY <1>4, <1>5, <1>6, <1>7, <1>8, <1>9, FreeEntryStep

LEMMA RegisterStep == ASSUME Inv, Register PROVE Inv'
<1>1. call \in [op : {"register"}, name : Folder, cl : Cluster]
  BY DEF Register, Inv, VolumeInv, Types, CallType, Idle
<1>2. PICK c \in Cluster : c = call.cl
  BY <1>1
<1>3. PICK n \in Folder : n = call.name
  BY <1>1
<1>4. Root(vol.fat, c) /\ Unnamed(c) /\ ~Exists(n) /\ vol.data[c] = Dots
  BY <1>2, <1>3 DEF Register, Inv, VolumeInv, CallInv
<1>5. UNCHANGED <<last_clust, fil, files, shared>> /\ Pair = {} /\ HalfPair = {} /\ last_clust \in 0..Clusters
  BY <1>1 DEF Register, Pair, HalfPair, Inv, VolumeInv, Types
<1>6. CASE BlankSlots # {}
  <2>1. PICK s \in Slot : s = First(BlankSlots) /\ vol.dir[s] \in Blank
    BY <1>6, FirstBlank
  <2> DEFINE e == [name |-> n, head |-> c, size |-> 0]
  <2>2. /\ card' \in {card, vol} /\ SetEntry(s, e) /\ call' = [call EXCEPT !.op = "made"]
    BY <1>2, <1>3, <1>6, <2>1, CardChoice DEF Register
  <2>3. /\ call' \in [op : {"made"}, name : Folder, cl : Cluster]
        /\ Pair' = {} /\ HalfPair' = {}
    BY <1>1, <2>2 DEF Pair, HalfPair
  <2>4. e \in Entry
    BY SizeAssumption DEF Entry, Name
  <2>5. Sound(vol, {}, shared) /\ vol \in Volume
    BY <1>5 DEF Inv, VolumeInv, Types
  <2>6. e.name = n /\ e.head = c /\ \A q \in Slot : vol.dir[q].name # n
    BY <1>4 DEF Exists, At
  <2> HIDE DEF e
  <2>7. Sound(vol', {}, shared')
    BY <1>4, <1>5, <2>2, <2>4, <2>5, <2>6, Sizes, EntryStep DEF Unnamed
  <2>8. /\ vol' \in Volume /\ vol'.fat = vol.fat
        /\ \A q \in Slot : vol'.dir[q] = IF q = s THEN e ELSE vol.dir[q]
    BY <2>2, <2>4, <2>5, ChangeEntry
  <2>9. \A t \in Thread : fil[t].slot # s
    BY <2>1, NobodyAt DEF Inv
  <2>10. CallType' /\ CallInv' /\ Sound(vol, HalfPair, shared)'
    BY <2>3, <2>7 DEF CallType, CallInv
  <2>11. \A u \in Thread : Open(u) /\ Writes(u) => fil[u].head # e.head
    BY <1>4, <2>6 DEF Unnamed
  <2> QED
    BY <1>5, <2>2, <2>4, <2>8, <2>9, <2>10, <2>11, FreeEntryStep
<1>7. CASE BlankSlots = {}
  <2> DEFINE g == [vol.fat EXCEPT ![c] = 0]
  <2>1. /\ card' \in {card, vol} /\ vol' = [vol EXCEPT !.fat[c] = 0] /\ call' = Idle
    BY <1>2, <1>7, CardChoice DEF Register
  <2>2. vol.fat \in Fat /\ LinksOf(vol.fat)
    BY VolumeIs DEF Inv, VolumeInv, Types, Sound
  <2>3. LinksOf(g) /\ \A r : Root(vol.fat, r) /\ r # c => Root(g, r)
    BY <1>4, <2>2, Freeing
  <2>4. CallType' /\ CallInv' /\ Pair' = {} /\ HalfPair' = {}
    BY <2>1, Ended
  <2> QED
    BY <1>4, <1>5, <2>1, <2>3, <2>4, Sizes, ChainStep
<1> QED
  BY <1>6, <1>7

\* What a file that is opened to be written holds until it is written.
LEMMA EmptyFileInv ==
  ASSUME NEW t \in Thread, NEW s \in Slot, vol'.dir[s] \notin Blank, vol'.dir[s].name \in File,
         NEW write \in BOOLEAN, NEW v, write => v \in Version, NEW e, e.head = 0,
         fil'[t] = Opened(s, e, write, TRUE, v, TRUE)
  PROVE  FileInv(t)'
BY DEF FileInv, Opened

\* A file is opened by making its entry empty.
LEMMA OpenEmptyStep ==
  ASSUME Inv, NEW t \in Thread, ~Open(t), NEW s \in Slot, ~IsOpen(s), CanRegister, call = Idle,
         NEW e \in Entry, e.head = 0, e.name \in File, SetEntry(s, e),
         \A q \in Slot \ {s} : vol.dir[q].name # e.name,
         NEW write \in BOOLEAN, NEW v \in Version \cup {NoVersion}, write => v \in Version,
         fil' = [fil EXCEPT ![t] = Opened(s, e, write, TRUE, v, TRUE)], Lock(s, TRUE),
         UNCHANGED <<last_clust, call, shared>>, card' \in {card, vol}
  PROVE  Inv'
<1> DEFINE r == Opened(s, e, write, TRUE, v, TRUE)
<1>1. r \in Fil /\ r.slot = s /\ r.excl /\ r.head = 0
  BY OpenedIsFil DEF Opened
<1>2. LockInv' /\ files' \in [Slot -> Nat]
  BY <1>1, Locking DEF Inv, VolumeInv, CanWrite
<1>3. Pair = {} /\ HalfPair = {}
  BY DEF Pair, HalfPair, Idle
<1>4. Sound(vol, {}, shared) /\ vol \in Volume /\ e.name \notin Folder
  BY <1>3, NameAssumption DEF Inv, VolumeInv, Types
<1>5. Sound(vol', {}, shared')
  BY <1>4, EntryStep
<1>6. /\ vol' \in Volume /\ vol'.fat = vol.fat
      /\ \A q \in Slot : vol'.dir[q] = IF q = s THEN e ELSE vol.dir[q]
  BY <1>4, ChangeEntry
<1>7. vol'.dir[s] \notin Blank /\ vol'.dir[s].name \in File
  BY <1>6, VolumeIs, UsedIsNamed DEF Name
<1>8. \A u \in Thread : fil[u].slot # s
  BY NobodyAt DEF Inv
<1>9. \A u \in Thread : fil'[u] = IF u = t THEN r ELSE fil[u]
  BY DEF Inv, VolumeInv, Types
<1>10. FileInv(t)'
  BY <1>7, <1>9, EmptyFileInv
<1>11. FilesInv'
  <2>1. {t} \in SUBSET Thread /\ (\A u \in Thread \ {t} : fil'[u] = fil[u]) /\ fil'[t].head = 0
    BY <1>1, <1>9
  <2>2. \A u \in Thread : Open(u) => vol'.dir[fil[u].slot] = vol.dir[fil[u].slot]
    BY <1>6, <1>8, ClosedHoldsNothing DEF Inv, VolumeInv, Fil
  <2>3. \A u \in Thread : Open(u) /\ Writes(u) /\ fil[u].head # 0 =>
          /\ Root(vol.fat, fil[u].head) => Root(vol'.fat, fil[u].head)
          /\ \A q \in Slot : vol'.dir[q] # vol.dir[q] /\ vol'.dir[q] \notin Blank =>
               vol'.dir[q].head # fil[u].head
    BY <1>6
  <2> QED
    BY <1>10, <2>1, <2>2, <2>3, FilesKept DEF Inv, VolumeInv, Writes
<1>12. CallType' /\ CallInv' /\ HalfPair' = {} /\ Pair' = {}
  BY Ended
<1>13. card' \in Volume /\ Sound(card, Pair, shared)'
  BY <1>3, CardKept
<1>14. Types'
  BY <1>1, <1>2, <1>6, <1>12, <1>13 DEF Inv, VolumeInv, Types
<1> QED
  BY <1>2, <1>5, <1>11, <1>12, <1>13, <1>14 DEF Inv, VolumeInv

LEMMA CreateStep ==
  ASSUME Inv, NEW t \in Thread, NEW n \in File, NEW v \in Version \cup {NoVersion}, Create(t, n, v)
  PROVE  Inv'
<1>1. PICK s \in Slot : s = First(BlankSlots) /\ vol.dir[s] \in Blank
  BY FirstBlank DEF Create
<1> DEFINE e == [name |-> n, head |-> 0, size |-> 0]
<1> DEFINE write == v # NoVersion
<1>2. ~IsOpen(s)
  BY <1>1, NobodyAt DEF Inv
<1>3. e \in Entry /\ e.head = 0 /\ e.name = n
  BY SizeAssumption DEF Entry, Name
<1>4. write \in BOOLEAN /\ (write => v \in Version)
  OBVIOUS
<1>5. /\ ~Open(t) /\ CanRegister /\ call = Idle /\ SetEntry(s, e) /\ Lock(s, TRUE)
      /\ fil' = [fil EXCEPT ![t] = Opened(s, e, write, TRUE, v, TRUE)]
      /\ UNCHANGED <<last_clust, call, shared>> /\ card' \in {card, vol}
  BY <1>1, CardChoice DEF Create, Open
<1>6. \A q \in Slot \ {s} : vol.dir[q].name # n
  BY DEF Create, Exists, At
<1> HIDE DEF e, write
<1> QED
  BY <1>2, <1>3, <1>4, <1>5, <1>6, OpenEmptyStep

LEMMA OverwriteStep ==
  ASSUME Inv, NEW t \in Thread, NEW n \in File, NEW v \in Version, Overwrite(t, n, v), ~hurt'
  PROVE  Inv'
<1>1. PICK s \in Slot : s = SlotOf(n) /\ vol.dir[s].name = n /\ vol.dir[s] \in Entry
  BY SlotOfIs DEF Overwrite, Name, Inv, VolumeInv
<1>2. vol.dir[s] \notin Blank
  BY <1>1, UsedIsNamed, VolumeIs DEF Inv, VolumeInv, Types, Name
<1> DEFINE e == Emptied(vol.dir[s])
<1>3. e \in Entry /\ e.head = 0 /\ e.name = n
  <2>1. 0 \in 0..MaxSize /\ 0 \in Cluster \cup {0}
    BY SizeAssumption
  <2> QED
    BY <1>1, <2>1 DEF Emptied, Entry
<1>4. /\ ~Open(t) /\ ~IsOpen(s) /\ CanRegister /\ call = Idle /\ SetEntry(s, e)
      /\ UNCHANGED <<last_clust, shared>> /\ card' \in {card, vol}
  BY <1>1, CardChoice DEF Overwrite, Open, CanWrite
<1>5. Pair = {} /\ HalfPair = {} /\ Sound(vol, {}, shared) /\ vol \in Volume
  BY <1>4 DEF Pair, HalfPair, Idle, Inv, VolumeInv, Types
<1>6. \A q \in Slot \ {s} : vol.dir[q].name # n
  <2>1. \A q \in Slot : vol.dir[q].name = n => vol.dir[q] \notin Blank
    BY <1>5, VolumeIs, UsedIsNamed DEF Name
  <2> QED
    BY <2>1, <1>1, <1>2, <1>5 DEF Sound, NamesOf
<1>7. CASE vol.dir[s].head = 0
  <2>1. /\ fil' = [fil EXCEPT ![t] = Opened(s, e, TRUE, TRUE, v, TRUE)]
        /\ Lock(s, TRUE) /\ UNCHANGED call
    BY <1>1, <1>7 DEF Overwrite
  <2> HIDE DEF e
  <2> QED
    BY <2>1, <1>3, <1>4, <1>6, OpenEmptyStep
<1>8. CASE vol.dir[s].head # 0
  <2>1. PICK c \in Cluster : c = vol.dir[s].head
    BY <1>1, <1>8 DEF Entry
  <2>2. /\ call' = [op |-> "open", th |-> t, slot |-> s, version |-> v, cl |-> c, first |-> c]
        /\ UNCHANGED <<fil, files>>
    BY <1>1, <1>8, <2>1 DEF Overwrite
  <2> HIDE DEF e
  <2>3. Sound(vol', {}, shared')
    BY <1>3, <1>4, <1>5, <1>6, NameAssumption, EntryStep
  <2>4. /\ vol' \in Volume /\ vol'.fat = vol.fat
        /\ \A q \in Slot : vol'.dir[q] = IF q = s THEN e ELSE vol.dir[q]
    BY <1>3, <1>4, <1>5, ChangeEntry
  <2>5. \A u \in Thread : fil[u].slot # s
    BY <1>4, NobodyAt DEF Inv
  <2>6. vol'.dir[s] \notin Blank /\ vol'.dir[s].name \in File /\ vol'.dir[s].head = 0
    BY <1>3, <2>4, VolumeIs, UsedIsNamed DEF Name
  <2>7. Root(vol'.fat, c)
    BY <1>2, <1>5, <2>1, <2>4, Sizes DEF Sound, EntriesOf
  <2>8. Unnamed(c)'
    <3>1. \A q \in Slot : vol'.dir[q] \notin Blank => vol'.dir[q].head # c
      <4>1. c \notin shared
        BY <1>1, <2>1 DEF Overwrite, Hurting
      <4> QED
        BY <4>1, <1>2, <1>3, <1>5, <2>1, <2>4, Sizes DEF Sound, EntriesOf
    <3>2. \A u \in Thread : Open(u) /\ Writes(u) => fil[u].head # c
      BY <1>2, <2>1, <2>5, Sizes DEF Inv, VolumeInv, FilesInv, FileInv
    <3> QED
      BY <2>2, <3>1, <3>2 DEF Unnamed, Open, Writes
  <2>9. CallInv'
    BY <1>4, <2>2, <2>6, <2>7, <2>8 DEF CallInv, Open, IsOpen, CanRegister
  <2>10. CallType' /\ Pair' = {} /\ Sound(vol, HalfPair, shared)'
    BY <2>2, <2>3, Sizes DEF CallType, Pair, HalfPair
  <2> QED
    BY <1>3, <1>4, <1>5, <2>2, <2>4, <2>5, <2>9, <2>10, FreeEntryStep
<1> QED
  BY <1>7, <1>8

LEMMA SyncEntryStep ==
  ASSUME Inv, NEW t \in Thread, NEW closing \in BOOLEAN, SyncEntry(t, closing)
  PROVE  Inv'
<1> DEFINE r == [fil[t] EXCEPT !.written = FALSE]
<1>1. Open(t) /\ fil[t] \in Fil /\ fil[t].written /\ call = Idle
  BY ClosedHoldsNothing DEF SyncEntry, Open, Inv, VolumeInv
<1>2. FileInv(t) /\ fil[t].excl /\ Writes(t)
  BY <1>1 DEF Inv, VolumeInv, FilesInv, FileInv, Writes
<1>3. PICK s \in Slot : s = fil[t].slot
  BY <1>1 DEF Fil
<1>4. vol.dir[s] \in Entry /\ vol.dir[s] \notin Blank /\ vol.dir[s].name \in File
  BY <1>2, <1>3, VolumeIs DEF FileInv, Inv, VolumeInv, Types, Dir
<1> DEFINE e == [vol.dir[s] EXCEPT !.head = fil[t].head, !.size = fil[t].size]
<1>5. e \in Entry /\ e.name = vol.dir[s].name /\ e.head = fil[t].head /\ e.size = fil[t].size
  BY <1>1, <1>4 DEF Entry, Fil
<1>6. /\ SetEntry(s, e) /\ fil' = [fil EXCEPT ![t] = r] /\ UNCHANGED <<last_clust, files, shared>>
      /\ card' \in {card, vol}
      /\ call' = [op |-> IF closing THEN "close" ELSE "sync", th |-> t]
  BY <1>3, CardChoice DEF SyncEntry
<1>7. /\ Pair = {} /\ HalfPair = {} /\ Sound(vol, {}, shared) /\ vol \in Volume
      /\ Pair' = {} /\ HalfPair' = {}
  BY <1>1, <1>6 DEF Pair, HalfPair, Idle, Inv, VolumeInv, Types
<1>8. /\ r \in Fil /\ r.slot = s /\ r.excl = fil[t].excl /\ r.head = fil[t].head /\ r.size = fil[t].size
      /\ r.write = fil[t].write /\ r.version = fil[t].version /\ r.clust = fil[t].clust /\ ~r.written
  BY <1>1, <1>3 DEF Fil
<1> HIDE DEF e, r
<1>9. Sound(vol', {}, shared')
  <2>1. /\ e.head # 0 => Root(vol.fat, e.head)
        /\ e.name \notin Folder
    BY <1>2, <1>4, <1>5, NameAssumption DEF FileInv
  <2>2. \A q \in Slot \ {s} : vol.dir[q] \notin Blank =>
          vol.dir[q].name # e.name /\ (e.head # 0 => vol.dir[q].head # e.head)
    BY <1>2, <1>3, <1>4, <1>5, <1>7 DEF FileInv, Sound, NamesOf
  <2> QED
    BY <1>5, <1>6, <1>7, <2>1, <2>2, EntryStep
<1>10. /\ vol' \in Volume /\ vol'.fat = vol.fat
       /\ \A q \in Slot : vol'.dir[q] = IF q = s THEN e ELSE vol.dir[q]
  BY <1>5, <1>6, <1>7, ChangeEntry
<1>11. \A u \in Thread : fil'[u] = IF u = t THEN r ELSE fil[u]
  BY <1>6 DEF Inv, VolumeInv, Types
<1>12. vol'.dir[s] \notin Blank /\ vol'.dir[s].name \in File
  BY <1>4, <1>5, <1>10, VolumeIs, UsedIsNamed DEF Name
<1>13. FileInv(t)'
  <2>1. fil'[t] = r /\ vol'.dir[s] = e
    BY <1>10, <1>11
  <2>2. /\ fil'[t].written \/ fil'[t].write => fil'[t].excl
        /\ fil'[t].write => fil'[t].version \in Version /\ (fil'[t].clust = 0 <=> fil'[t].head = 0)
    BY <2>1, <1>2, <1>8 DEF FileInv
  <2>3. fil'[t].head # 0 =>
          /\ Root(vol'.fat, fil'[t].head)
          /\ \A q \in Slot : vol'.dir[q] \notin Blank /\ vol'.dir[q].head = fil'[t].head => q = s
    BY <2>1, <1>2, <1>3, <1>8, <1>10 DEF FileInv
  <2> QED
    BY <2>1, <2>2, <2>3, <1>5, <1>8, <1>12 DEF FileInv, Writes
<1>14. FilesInv'
  <2>1. {t} \in SUBSET Thread /\ (\A u \in Thread \ {t} : fil'[u] = fil[u])
    BY <1>11
  <2>2. \A u \in Thread \ {t} : Open(u) => vol'.dir[fil[u].slot] = vol.dir[fil[u].slot]
    BY <1>1, <1>2, <1>3, <1>10, ClosedHoldsNothing DEF Inv, VolumeInv, LockInv, Fil
  <2>3. \A u \in Thread \ {t} : Open(u) /\ Writes(u) /\ fil[u].head # 0 =>
          /\ Root(vol.fat, fil[u].head) => Root(vol'.fat, fil[u].head)
          /\ \A q \in Slot : vol'.dir[q] # vol.dir[q] /\ vol'.dir[q] \notin Blank =>
               vol'.dir[q].head # fil[u].head
    BY <1>1, <1>2, <1>5, <1>10 DEF Inv, VolumeInv, FilesInv, Writes
  <2>4. \A u \in Thread : Open(t)' /\ Open(u)' /\ Writes(t)' /\ Writes(u)' /\ fil'[t].head # 0 /\ t # u =>
             fil'[t].head # fil'[u].head
    BY <1>1, <1>2, <1>8, <1>11 DEF Inv, VolumeInv, FilesInv, Open, Writes
  <2>5. PICK S \in SUBSET Thread : S = {t}
    OBVIOUS
  <2>6. \A u \in Thread \ S :
          /\ fil'[u] = fil[u]
          /\ Open(u) =>
               /\ vol'.dir[fil[u].slot] = vol.dir[fil[u].slot]
               /\ Writes(u) /\ fil[u].head # 0 =>
                    /\ Root(vol.fat, fil[u].head) => Root(vol'.fat, fil[u].head)
                    /\ \A q \in Slot : vol'.dir[q] # vol.dir[q] /\ vol'.dir[q] \notin Blank =>
                         vol'.dir[q].head # fil[u].head
    BY <2>1, <2>2, <2>3, <2>5
  <2>7. \A w \in S : (Open(w)' => FileInv(w)') /\ \A u \in Thread :
          Open(w)' /\ Open(u)' /\ Writes(w)' /\ Writes(u)' /\ fil'[w].head # 0 /\ w # u =>
             fil'[w].head # fil'[u].head
    BY <1>13, <2>4, <2>5
  <2>8. FilesInv
    BY DEF Inv, VolumeInv
  <2> QED
    BY ONLY <2>6, <2>7, <2>8, S \in SUBSET Thread, FilesKept
<1>15. LockInv' /\ Open(t)'
  <2>1. r # Closed
    BY <1>8, Sizes DEF Fil, Closed
  <2>2. \A u \in Thread : fil'[u].slot = fil[u].slot /\ fil'[u].excl = fil[u].excl /\ Open(u)' = Open(u)
    BY <2>1, <1>1, <1>3, <1>8, <1>11 DEF Open
  <2> QED
    BY <2>1, <2>2, <1>6, <1>11, LocksKept DEF Inv, VolumeInv, Open
<1>16. CallType' /\ CallInv'
  BY <1>6, <1>15 DEF CallType, CallInv
<1>17. card' \in Volume /\ Sound(card, Pair, shared)'
  BY <1>6, <1>7, CardKept
<1>18. Types'
  BY <1>6, <1>8, <1>10, <1>16, <1>17 DEF Inv, VolumeInv, Types
<1> QED
  BY <1>7, <1>9, <1>14, <1>15, <1>16, <1>17, <1>18 DEF Inv, VolumeInv

(***************************************************************************)
(* Power and the beginning.                                                *)
(***************************************************************************)

\* Nothing is open.
LEMMA NothingOpen ==
  ASSUME \A t \in Thread : fil'[t] = Closed, \A s \in Slot : files'[s] = 0
  PROVE  LockInv' /\ FilesInv'
<1>1. \A s \in Slot : Holders(s)' = {} /\ ~IsOpen(s)'
  BY Sizes DEF Holders, Closed, IsOpen
<1>2. Cardinality({s \in Slot : IsOpen(s)})' <= FS_LOCK
  <2>1. {s \in Slot : IsOpen(s)}' = {}
    BY <1>1
  <2> QED
    BY <2>1, FS_EmptySet, SizeAssumption
<1> QED
  BY <1>1, <1>2, FS_EmptySet DEF LockInv, FilesInv, Open

\* The two names that a rename may have on the card are left to one chain.
LEMMA PowerLossStep == ASSUME Inv, PowerLoss PROVE Inv'
<1>1. /\ vol' = card /\ last_clust' \in Suggested /\ call' = Idle /\ card' = card
      /\ fil' = [t \in Thread |-> Closed] /\ files' = [s \in Slot |-> 0]
      /\ shared' = shared \cup IF Torn THEN {card.dir[call.old].head} \ {0} ELSE {}
  BY DEF PowerLoss
<1>2. CallType' /\ CallInv' /\ HalfPair' = {} /\ Pair' = {}
  BY <1>1, Ended
<1>3. LockInv' /\ FilesInv'
  BY <1>1, NothingOpen
<1>4. EntriesOf(card.dir, card.fat, {}, shared')
  <2> SUFFICES ASSUME NEW s \in Slot, NEW q \in Slot, card.dir[s] \notin Blank, card.dir[q] \notin Blank,
                      card.dir[s].head # 0, card.dir[s].head = card.dir[q].head, s # q,
                      card.dir[s].head \notin shared
               PROVE  card.dir[s].head \in shared'
    BY <1>1 DEF Inv, Sound, EntriesOf
  <2>1. {s, q} = Pair
    BY DEF Inv, Sound, EntriesOf
  <2>2. call.op = "rename" /\ {s, q} = {call.old, call.new}
    <3>1. Pair # {}
      BY <2>1
    <3> QED
      BY <2>1, <3>1 DEF Pair
  <2>3. Torn /\ card.dir[call.old].head = card.dir[s].head
    BY <2>2 DEF Torn
  <2> QED
    BY <1>1, <2>3
<1>5. Sound(card, {}, shared')
  BY <1>4 DEF Inv, Sound
<1>6. Types'
  BY <1>1, <1>2, SizeAssumption DEF Inv, VolumeInv, Types
<1> QED
  BY <1>1, <1>2, <1>3, <1>5, <1>6 DEF Inv, VolumeInv

LEMMA InitInv == Init => Inv
<1> SUFFICES ASSUME Init PROVE Inv
  OBVIOUS
<1>1. /\ card = [dir |-> [s \in Slot |-> Unused], fat |-> [c \in Cluster |-> 0],
                 data |-> [c \in Cluster |-> Garbage]]
      /\ vol = card /\ last_clust \in Suggested /\ call = Idle
      /\ fil = [t \in Thread |-> Closed] /\ files = [s \in Slot |-> 0]
  BY DEF Init
<1>2. card \in Volume
  <2>1. Unused \in Entry \cup Blank /\ Garbage \in Unit
    BY DEF Blank, Unit
  <2>2. [s \in Slot |-> Unused] \in Dir /\ [c \in Cluster |-> 0] \in Fat /\ [c \in Cluster |-> Garbage] \in Data
    BY <2>1, Sizes DEF Dir, Fat, Data
  <2> QED
    BY <1>1, <2>2, VolumeIs
<1>3. Types
  BY <1>1, <1>2, SizeAssumption DEF Types, CallType
<1>4. \A s \in Slot : card.dir[s] \in Blank
  BY <1>1 DEF Blank
<1>5. Sound(card, {}, shared)
  <2>1. LinksOf(card.fat)
    BY <1>1, Sizes DEF LinksOf
  <2> QED
    BY <2>1, <1>4 DEF Sound, EntriesOf, NamesOf, FoldersOf
<1>6. LockInv /\ FilesInv
  <2>1. \A s \in Slot : Holders(s) = {} /\ ~IsOpen(s)
    BY <1>1, Sizes DEF Holders, Closed, IsOpen
  <2>2. {s \in Slot : IsOpen(s)} = {}
    BY <2>1
  <2>3. Cardinality({s \in Slot : IsOpen(s)}) <= FS_LOCK
    BY <2>2, FS_EmptySet, SizeAssumption
  <2> QED
    BY <1>1, <2>1, <2>3, FS_EmptySet DEF LockInv, FilesInv, Open
<1>7. CallInv /\ Pair = {} /\ HalfPair = {}
  BY <1>1 DEF CallInv, Pair, HalfPair, Idle
<1> QED
  BY <1>1, <1>3, <1>5, <1>6, <1>7 DEF Inv, VolumeInv

LEMMA Stutter == ASSUME Inv, UNCHANGED vars PROVE Inv'
<1>1. UNCHANGED <<vol, card, last_clust, fil, files, call, shared>>
  BY DEF vars
<1>2. Types' /\ LockInv' /\ FilesInv'
  BY <1>1, FilesUnchanged DEF Inv, VolumeInv, Types, CallType, LockInv, Holders, Open, IsOpen
<1>3. CallInv'
  BY <1>1 DEF Inv, VolumeInv, CallInv, Open, IsOpen, CanRegister, Unnamed, Exists, At, Writes
<1>4. Sound(vol, HalfPair, shared)' /\ Sound(card, Pair, shared)'
  BY <1>1 DEF Inv, VolumeInv, HalfPair, Pair
<1> QED
  BY <1>2, <1>3, <1>4 DEF Inv, VolumeInv

LEMMA InvStep == ASSUME Inv, [Next]_vars, ~hurt' PROVE Inv'
<1>1. CASE UNCHANGED vars
  BY <1>1, Stutter
<1>2. ASSUME NEW t \in Thread, NEW n \in File, NEW always \in BOOLEAN, OpenRead(t, n, always)
      PROVE  Inv'
  BY <1>2, OpenReadStep
<1>3. ASSUME NEW t \in Thread, NEW n \in File, NEW v \in Version \cup {NoVersion}, Create(t, n, v)
      PROVE  Inv'
  BY <1>3, CreateStep
<1>4. ASSUME NEW t \in Thread, NEW n \in File, NEW v \in Version, Overwrite(t, n, v)
      PROVE  Inv'
  BY <1>4, OverwriteStep
<1>5. ASSUME NEW t \in Thread, Write(t) PROVE Inv'
  BY <1>5, WriteStep
<1>6. ASSUME NEW t \in Thread, Close(t) PROVE Inv'
  BY <1>6, CloseStep
<1>7. ASSUME NEW t \in Thread, NEW closing \in BOOLEAN, SyncEntry(t, closing) PROVE Inv'
  BY <1>7, SyncEntryStep
<1>8. ASSUME NEW n \in File, Unlink(n) PROVE Inv'
  BY <1>8, UnlinkStep
<1>9. ASSUME NEW n \in Folder, MakeFolder(n) PROVE Inv'
  BY <1>9, MakeFolderStep
<1>10. ASSUME NEW n \in File, NEW m \in File, Rename(n, m) PROVE Inv'
  BY <1>10, RenameStep
<1>11. CASE Look \/ FreeCluster \/ Overwritten \/ Link \/ Fill \/ Synced
  BY <1>11, LookStep, FreeClusterStep, OverwrittenStep, LinkStep, FillStep, SyncedStep
<1>12. CASE Unlinked \/ Renamed \/ Made \/ RemoveOld \/ Format \/ Register \/ PowerLoss
  BY <1>12, EndStep, RemoveOldStep, FormatStep, RegisterStep, PowerLossStep
<1> QED
  BY <1>1, <1>2, <1>3, <1>4, <1>5, <1>6, <1>7, <1>8, <1>9, <1>10, <1>11, <1>12 DEF Next

\* What is hurt stays so.
LEMMA HurtStays == ASSUME hurt, [Next]_vars PROVE hurt'
BY DEF Next, vars, Hurting, Look, OpenRead, Create, Overwrite, FreeCluster, Overwritten, Write, Link, Fill,
   SyncEntry, Synced, Close, Unlink, Unlinked, Rename, RemoveOld, Renamed, MakeFolder, Format, Register,
   Made, PowerLoss

LEMMA InvHolds == Spec => [](hurt \/ Inv)
<1>1. (hurt \/ Inv) /\ [Next]_vars => (hurt \/ Inv)'
  BY InvStep, HurtStays
<1> QED
  BY <1>1, InitInv, PTL DEF Spec

(***************************************************************************)
(* Theorems.                                                               *)
(***************************************************************************)

\* Whatever the calls of any number of threads and wherever between two writes
\* power is lost, the card is sound: the order of the writes in f_open, f_write,
\* f_unlink and f_mkdir is enough for that.  The one thing that power may leave is a
\* chain with the two names of a rename (ff.c:3704), and no other file is hurt by
\* that before one of the two is overwritten or removed.
THEOREM CardStaysSound == Spec => []CardIsSound
<1>1. hurt \/ Inv => CardIsSound
  <2> SUFFICES ASSUME Inv PROVE CardIsSound
    BY DEF CardIsSound
  <2>1. Sound(card, Pair, shared)
    BY DEF Inv
  <2>2. LinksAreSound(card) /\ StartsAreSound(card)
    BY <2>1 DEF LinksAreSound, StartsAreSound, Sound, LinksOf, EntriesOf, Root, Started, Used, Linked
  <2>3. \A s, q \in Started(card) : card.dir[s].head = card.dir[q].head =>
          \/ s = q
          \/ call.op = "rename" /\ {s, q} = {call.old, call.new}
          \/ card.dir[s].head \in shared
    <3> SUFFICES ASSUME NEW s \in Started(card), NEW q \in Started(card), s # q,
                        card.dir[s].head = card.dir[q].head, card.dir[s].head \notin shared
                 PROVE  call.op = "rename" /\ {s, q} = {call.old, call.new}
      OBVIOUS
    <3>1. {s, q} = Pair
      BY <2>1 DEF Sound, EntriesOf, Started, Used
    <3>2. Pair # {}
      BY <3>1
    <3> QED
      BY <3>1, <3>2 DEF Pair
  <2>4. \A s, q \in Used(card) : card.dir[s].name = card.dir[q].name => s = q
    BY <2>1 DEF Sound, NamesOf, Used
  <2>5. \A s \in Used(card) : card.dir[s].name \in Folder =>
          card.dir[s].head # 0 /\ card.data[card.dir[s].head] = Dots
    BY <2>1 DEF Sound, FoldersOf, Used
  <2> QED
    BY <2>2, <2>3, <2>4, <2>5 DEF CardIsSound
<1> QED
  BY <1>1, InvHolds, PTL

\* The table of open files excludes writers from each other and from readers, and
\* what an open file knows of its entry is true, whatever is created, removed or
\* renamed meanwhile and whenever power is lost.
THEOREM OpenFilesAlwaysStay == Spec => [](hurt \/ OpenFilesStay)
<1>1. Inv => OpenFilesStay
  <2> SUFFICES ASSUME Inv PROVE OpenFilesStay
    OBVIOUS
  <2>1. ASSUME NEW t \in Thread, fil[t] # Closed
        PROVE  /\ fil[t].slot \in Used(vol) /\ vol.dir[fil[t].slot].name \in File
               /\ ~fil[t].written =>
                    vol.dir[fil[t].slot].head = fil[t].head /\ vol.dir[fil[t].slot].size = fil[t].size
               /\ fil[t].excl => \A u \in Thread \ {t} : fil[u].slot # fil[t].slot
    <3>1. FileInv(t) /\ fil[t] \in Fil
      BY <2>1, ClosedHoldsNothing DEF Inv, VolumeInv, FilesInv, Open
    <3>2. fil[t].excl => \A u \in Thread \ {t} : fil[u].slot # fil[t].slot
      BY <2>1 DEF Inv, VolumeInv, LockInv, Open
    <3> QED
      BY <3>1, <3>2 DEF FileInv, Used, Fil
  <2> QED
    BY <2>1 DEF OpenFilesStay, Inv, VolumeInv, LockInv, Holders
<1> QED
  BY <1>1, InvHolds, PTL

-----------------------------------------------------------------------------
(***************************************************************************)
(* What files hold.  A chain that starts at h holds versions w when q goes *)
(* along its first clusters and these were written as parts of w.          *)
(***************************************************************************)

HoldsAlong(v, h, q, w) ==
  /\ w \in Seq(Version) /\ q \in [1..Len(w) -> Cluster]
  /\ Len(w) > 0 => q[1] = h
  /\ \A i \in 1..(Len(w) - 1) : v.fat[q[i]] = q[i + 1]
  /\ \A i \in 1..Len(w) : v.data[q[i]] = <<w[i], i>>

\* Entry s has the size and the start of a chain that holds w.
Kept(v, s, w) ==
  /\ v.dir[s] \in Entry /\ v.dir[s].size = Len(w)
  /\ \E q : HoldsAlong(v, v.dir[s].head, q, w)

\* The entry at s awaits sync_fs.
Syncing(s) == call.op \in {"sync", "close"} /\ fil[call.th].slot = s

Promised(n, s) ==
  /\ vol.dir[s].name = n /\ card.dir[s].name = n
  /\ Kept(card, s, promise[n])
  /\ Kept(vol, s, promise[n]) \/ Syncing(s)

\* Every promise is kept on the card, and by the volume unless the new entry
\* waits in the window.
Promises ==
  /\ promise \in [Name -> Seq(Version) \cup {None}]
  /\ \A n \in Name : promise[n] # None => \E s \in Slot : Promised(n, s)

\* The end of the chain that t writes is linked to nothing but the cluster that
\* a write is about to fill.
EndIsFree(t) ==
  fil[t].clust # 0 => vol.fat[fil[t].clust] \notin Cluster \/ (call.op = "fill" /\ call.th = t)

\* Along q there is what the file of t was given to write, q ends where the next
\* write goes on, and the entry knows no more than this.
WritesAlong(t, q) ==
  LET f == fil[t]
  IN  /\ HoldsAlong(vol, f.head, q, Saved(t))
      /\ f.size > 0 => f.head # 0 /\ q[f.size] = f.clust
      /\ f.size = 0 => f.head = 0

FileData(t) ==
  LET f == fil[t]
  IN  /\ vol.dir[f.slot].head \in {0, f.head} /\ vol.dir[f.slot].size <= f.size
      /\ f.write => EndIsFree(t) /\ \E q : WritesAlong(t, q)
      /\ f.written /\ ~f.write => f.size = 0

CallData ==
  /\ call.op = "open" => vol.dir[call.slot].size = 0
  /\ call.op \in {"link", "fill", "format", "register"} => vol.fat[call.cl] \notin Cluster
  /\ call.op = "fill" /\ fil[call.th].head # 0 => vol.fat[fil[call.th].clust] = call.cl
  /\ call.op \in {"sync", "close"} =>
       ~fil[call.th].written /\ (fil[call.th].write \/ fil[call.th].size = 0)
  /\ call.op = "rename" =>
       /\ call.half =>
            /\ vol.dir[call.old].head = vol.dir[call.new].head
            /\ promise[vol.dir[call.old].name] = None
       /\ promise[vol.dir[call.new].name] = None
       /\ vol.dir[call.new].name \in Name
       /\ call.was # None =>
            /\ Kept(vol, call.new, call.was) /\ Kept(card, call.old, call.was)
            /\ call.half => Kept(vol, call.old, call.was)
  /\ call.op = "made" =>
       \E s \in Slot : vol.dir[s] = [name |-> call.name, head |-> call.cl, size |-> 0]

FilesData == \A t \in Thread : Open(t) => FileData(t)

DataInv == Promises /\ FilesData /\ CallData

-----------------------------------------------------------------------------
(* Chains.                                                                 *)

\* A chain holds what it held if its links and its contents stay.
LEMMA ChainStays ==
  ASSUME NEW v, NEW u, NEW h, NEW q, NEW w, HoldsAlong(v, h, q, w),
         \A i \in 1..Len(w) : u.data[q[i]] = v.data[q[i]],
         \A i \in 1..(Len(w) - 1) : u.fat[q[i]] = v.fat[q[i]]
  PROVE  HoldsAlong(u, h, q, w)
BY DEF HoldsAlong

\* Clusters that end a chain are not in the way.
LEMMA LinksStay ==
  ASSUME NEW v, NEW u, u.data = v.data,
         \A c \in Cluster : v.fat[c] \in Cluster => u.fat[c] = v.fat[c],
         NEW h, NEW q, NEW w, HoldsAlong(v, h, q, w)
  PROVE  HoldsAlong(u, h, q, w)
<1>1. PICK n \in Nat : n = Len(w)
  BY DEF HoldsAlong
<1>2. q \in [1..n -> Cluster] /\ \A i \in 1..(n - 1) : v.fat[q[i]] = q[i + 1]
  BY <1>1 DEF HoldsAlong
<1>3. \A i \in 1..(n - 1) : i \in 1..n /\ i + 1 \in 1..n
  OBVIOUS
<1>4. \A i \in 1..(n - 1) : q[i] \in Cluster /\ v.fat[q[i]] \in Cluster
  BY <1>2, <1>3
<1> QED
  BY <1>1, <1>4, ChainStays

\* Chains that meet are one.
LEMMA ChainsThatMeet ==
  ASSUME NEW v, LinksOf(v.fat), NEW h, NEW p, NEW w, HoldsAlong(v, h, p, w),
         NEW g, NEW q, NEW x, HoldsAlong(v, g, q, x),
         NEW i \in 1..Len(w), NEW j \in 1..Len(x), p[i] = q[j]
  PROVE  i = j /\ h = g
<1>1. Len(w) \in Nat /\ Len(x) \in Nat
  BY DEF HoldsAlong
<1>2. v.data[p[i]] = <<w[i], i>> /\ v.data[q[j]] = <<x[j], j>>
  BY DEF HoldsAlong
<1>3. i = j
  BY <1>2
<1> DEFINE S == {k \in 1..i : p[k] = q[k]}
<1>4. S \in SUBSET Nat /\ S # {}
  BY <1>1, <1>3
<1>5. PICK k \in S : \A m \in S : k <= m
  BY <1>4, SmallestIn
<1>6. k \in 1..Len(w) /\ k \in 1..Len(x) /\ p[k] = q[k]
  BY <1>1, <1>3, <1>5
<1>7. k = 1
  <2> SUFFICES ASSUME k # 1 PROVE FALSE
    OBVIOUS
  <2>1. PICK m \in Nat : m = k - 1
    BY <1>6, <1>1
  <2>2. m \in 1..(Len(w) - 1) /\ m \in 1..(Len(x) - 1) /\ m \in 1..i /\ k = m + 1
    BY <2>1, <1>1, <1>3, <1>5, <1>6
  <2>3. v.fat[p[m]] = p[k] /\ v.fat[q[m]] = q[k]
    BY <2>2 DEF HoldsAlong
  <2>6. m \in 1..Len(w) /\ m \in 1..Len(x)
    BY <2>2, <1>1
  <2>7. p[m] \in Cluster /\ q[m] \in Cluster /\ p[k] \in Cluster
    BY <2>6, <1>6 DEF HoldsAlong
  <2>4. p[m] = q[m]
    BY <2>3, <2>7, <1>6 DEF LinksOf
  <2>5. m \in S
    BY <2>2, <2>4
  <2> QED
    BY <2>1, <2>5, <1>5
<1>8. p[1] = h /\ q[1] = g
  BY <1>1, <1>6 DEF HoldsAlong
<1> QED
  BY <1>3, <1>6, <1>7, <1>8

\* A chain that does not start with c reaches it over a link.
LEMMA ReachedOverLink ==
  ASSUME NEW v, NEW h, NEW q, NEW w, HoldsAlong(v, h, q, w),
         NEW i \in 1..Len(w), NEW c, q[i] = c, h # c
  PROVE  \E m \in 1..Len(w) : m = i - 1 /\ q[m] \in Cluster /\ v.fat[q[m]] = c
<1>1. Len(w) \in Nat /\ i # 1
  BY DEF HoldsAlong
<1>2. PICK m \in Nat : m = i - 1
  BY <1>1
<1>3. m \in 1..(Len(w) - 1) /\ m \in 1..Len(w) /\ i = m + 1
  BY <1>1, <1>2
<1>4. q[m] \in Cluster /\ v.fat[q[m]] = c
  BY <1>3 DEF HoldsAlong
<1> QED
  BY <1>2, <1>3, <1>4

\* So no chain but its own has a root.
LEMMA RootsAreApart ==
  ASSUME NEW v, NEW h, NEW q, NEW w, HoldsAlong(v, h, q, w),
         NEW c, Root(v.fat, c), h # c
  PROVE  \A i \in 1..Len(w) : q[i] # c
<1> SUFFICES ASSUME NEW i \in 1..Len(w), q[i] = c PROVE FALSE
  OBVIOUS
<1>1. PICK m \in 1..Len(w) : q[m] \in Cluster /\ v.fat[q[m]] = c
  BY ReachedOverLink
<1> QED
  BY <1>1 DEF Root

LEMMA NothingAlong ==
  ASSUME NEW v, NEW h, NEW w, w \in Seq(Version), Len(w) = 0
  PROVE  HoldsAlong(v, h, <<>>, w)
BY DEF HoldsAlong

LEMMA SavedIs ==
  ASSUME NEW t \in Thread, Open(t), Types, FilesInv, fil[t].write \/ fil[t].size = 0
  PROVE  Saved(t) \in Seq(Version) /\ Len(Saved(t)) = fil[t].size
<1>1. fil[t] \in Fil /\ FileInv(t)
  BY ClosedHoldsNothing DEF FilesInv
<1>2. fil[t].size \in Nat
  BY <1>1, SizeAssumption DEF Fil
<1>3. \A i \in 1..fil[t].size : fil[t].version \in Version
  BY <1>1, <1>2 DEF FileInv
<1>4. Saved(t) \in [1..fil[t].size -> Version]
  BY <1>3 DEF Saved
<1> QED
  BY <1>2, <1>4

-----------------------------------------------------------------------------
(* What a step keeps.                                                      *)

LEMMA KeptStays ==
  ASSUME NEW v, NEW u, NEW s, NEW w, Kept(v, s, w), u.dir[s] = v.dir[s],
         \A q : HoldsAlong(v, v.dir[s].head, q, w) => HoldsAlong(u, v.dir[s].head, q, w)
  PROVE  Kept(u, s, w)
BY DEF Kept

LEMMA KeptByCopy ==
  ASSUME NEW v, NEW u, NEW s, NEW q, NEW w, Kept(v, s, w), u.fat = v.fat, u.data = v.data,
         u.dir[q] \in Entry, u.dir[q].head = v.dir[s].head, u.dir[q].size = v.dir[s].size
  PROVE  Kept(u, q, w)
BY DEF Kept, HoldsAlong

LEMMA PromisesKept ==
  ASSUME Promises, call.op \notin {"sync", "close"}, card' \in {card, vol},
         promise' \in [Name -> Seq(Version) \cup {None}],
         \A n \in Name : promise'[n] \in {promise[n], None},
         \A n \in Name, s \in Slot : promise'[n] # None /\ vol.dir[s].name = n =>
           vol'.dir[s] = vol.dir[s] \/ (vol'.dir[s].name = n /\ Syncing(s)'),
         \A s \in Slot : \A w, q :
           vol.dir[s] \in Entry /\ vol.dir[s].size = Len(w) /\ HoldsAlong(vol, vol.dir[s].head, q, w) =>
             HoldsAlong(vol', vol.dir[s].head, q, w)
  PROVE  Promises'
<1>1. ASSUME NEW n \in Name, promise'[n] # None
      PROVE  \E s \in Slot : Promised(n, s)'
  <2>1. promise'[n] = promise[n] /\ promise[n] # None
    BY <1>1
  <2>2. PICK s \in Slot : Promised(n, s)
    BY <2>1 DEF Promises
  <2>3. /\ vol.dir[s].name = n /\ card.dir[s].name = n
        /\ Kept(card, s, promise[n]) /\ Kept(vol, s, promise[n])
    BY <2>2 DEF Promised, Syncing
  <2>4. card'.dir[s].name = n /\ Kept(card', s, promise[n])
    BY <2>3
  <2>5. vol'.dir[s].name = n
    BY <1>1, <2>3
  <2>6. CASE Syncing(s)'
    BY <2>1, <2>4, <2>5, <2>6 DEF Promised
  <2>7. CASE vol'.dir[s] = vol.dir[s]
    <3>1. vol.dir[s] \in Entry /\ vol.dir[s].size = Len(promise[n])
      BY <2>3 DEF Kept
    <3>2. \A q : HoldsAlong(vol, vol.dir[s].head, q, promise[n]) => HoldsAlong(vol', vol.dir[s].head, q, promise[n])
      BY <3>1
    <3>3. Kept(vol', s, promise[n])
      BY <2>3, <2>7, <3>2, KeptStays
    <3> QED
      BY <2>1, <2>4, <2>5, <3>3 DEF Promised
  <2> QED
    BY <1>1, <2>3, <2>6, <2>7
<1> QED
  BY <1>1 DEF Promises

LEMMA FilesDataKept ==
  ASSUME FilesData, NEW S \in SUBSET Thread,
         \A u \in Thread \ S : fil'[u] = fil[u],
         \A u \in Thread \ S : Open(u) =>
           /\ vol'.dir[fil[u].slot] = vol.dir[fil[u].slot]
           /\ fil[u].write =>
                /\ EndIsFree(u)'
                /\ \A q : HoldsAlong(vol, fil[u].head, q, Saved(u)) => HoldsAlong(vol', fil[u].head, q, Saved(u)),
         \A u \in S : Open(u)' => FileData(u)'
  PROVE  FilesData'
<1>1. ASSUME NEW u \in Thread \ S, Open(u)'
      PROVE  FileData(u)'
  <2>1. Open(u) /\ fil'[u] = fil[u] /\ vol'.dir[fil[u].slot] = vol.dir[fil[u].slot]
    BY <1>1 DEF Open
  <2>2. FileData(u) /\ Saved(u)' = Saved(u)
    BY <2>1 DEF FilesData, Saved
  <2>3. CASE fil[u].write
    <3>1. PICK q : WritesAlong(u, q)
      BY <2>2, <2>3 DEF FileData
    <3>2. WritesAlong(u, q)'
      BY <2>1, <2>2, <2>3, <3>1 DEF WritesAlong
    <3>3. EndIsFree(u)'
      BY <2>1, <2>3
    <3> QED
      BY <2>1, <2>2, <2>3, <3>2, <3>3 DEF FileData
  <2>4. CASE ~fil[u].write
    BY <2>1, <2>2, <2>4 DEF FileData
  <2> QED
    BY <2>3, <2>4
<1> QED
  BY <1>1 DEF FilesData

\* The steps that change neither contents nor links, but what ends a chain.
Calm ==
  /\ call.op # "fill" /\ vol'.data = vol.data
  /\ \A c \in Cluster : vol.fat[c] \in Cluster => vol'.fat[c] = vol.fat[c]
  /\ \A c \in Cluster : vol'.fat[c] \in Cluster => vol.fat[c] \in Cluster

LEMMA CalmFiles ==
  ASSUME Types, FilesData, Calm, NEW S \in SUBSET Thread,
         \A u \in Thread \ S : fil'[u] = fil[u],
         \A u \in Thread \ S : Open(u) => vol'.dir[fil[u].slot] = vol.dir[fil[u].slot],
         \A u \in S : Open(u)' => FileData(u)'
  PROVE  FilesData'
<1>1. ASSUME NEW u \in Thread \ S, Open(u), fil[u].write
      PROVE  EndIsFree(u)'
  <2>1. EndIsFree(u) /\ fil[u].clust \in Cluster \cup {0} /\ fil'[u] = fil[u]
    BY <1>1, ClosedHoldsNothing DEF FilesData, FileData, Fil
  <2> QED
    BY <2>1 DEF EndIsFree, Calm
<1>2. ASSUME NEW u \in Thread \ S, NEW q, HoldsAlong(vol, fil[u].head, q, Saved(u))
      PROVE  HoldsAlong(vol', fil[u].head, q, Saved(u))
  BY <1>2, LinksStay DEF Calm
<1> QED
  BY <1>1, <1>2, FilesDataKept

LEMMA CalmPromises ==
  ASSUME Promises, Calm, call.op \notin {"sync", "close"}, card' \in {card, vol},
         promise' \in [Name -> Seq(Version) \cup {None}],
         \A n \in Name : promise'[n] \in {promise[n], None},
         \A n \in Name, s \in Slot : promise'[n] # None /\ vol.dir[s].name = n =>
           vol'.dir[s] = vol.dir[s] \/ (vol'.dir[s].name = n /\ Syncing(s)')
  PROVE  Promises'
<1>1. \A s \in Slot : \A w, q :
        vol.dir[s] \in Entry /\ vol.dir[s].size = Len(w) /\ HoldsAlong(vol, vol.dir[s].head, q, w) =>
          HoldsAlong(vol', vol.dir[s].head, q, w)
  BY LinksStay DEF Calm
<1> QED
  BY <1>1, PromisesKept

LEMMA NoCallData == ASSUME call' = Idle PROVE CallData'
BY DEF CallData, Idle

\* The steps that leave volume and files as they are and end a call or begin none.
LEMMA NothingButCard ==
  ASSUME Inv, DataInv, call.op \notin {"sync", "close", "fill"}, call' = Idle,
         UNCHANGED <<vol, fil, promise>>, card' \in {card, vol}
  PROVE  DataInv'
<1>1. Calm /\ Types
  BY DEF Calm, Inv, VolumeInv
<1>2. Promises'
  BY <1>1, CalmPromises DEF DataInv, Promises
<1>3. FilesData'
  <2>1. {} \in SUBSET Thread
    OBVIOUS
  <2> QED
    BY <1>1, <2>1, CalmFiles DEF DataInv
<1> QED
  BY <1>2, <1>3, NoCallData DEF DataInv

\* What reaches the card with the end of a call is promised for the name n.
LEMMA NewPromise ==
  ASSUME Promises, NEW n \in Name, NEW w \in Seq(Version) \cup {None}, NEW s \in Slot,
         vol.dir[s].name = n, w # None => Kept(vol, s, w),
         \A q \in Slot : Syncing(q) => vol.dir[q].name = n,
         UNCHANGED vol, card' = vol, promise' = [promise EXCEPT ![n] = w]
  PROVE  Promises'
<1>1. promise' \in [Name -> Seq(Version) \cup {None}]
  BY DEF Promises
<1>2. ASSUME NEW m \in Name, promise'[m] # None
      PROVE  \E q \in Slot : Promised(m, q)'
  <2>1. CASE m = n
    <3>1. promise'[m] = w
      BY <2>1 DEF Promises
    <3> QED
      BY <1>2, <2>1, <3>1 DEF Promised
  <2>2. CASE m # n
    <3>1. promise'[m] = promise[m]
      BY <2>2 DEF Promises
    <3>2. PICK q \in Slot : Promised(m, q)
      BY <1>2, <3>1 DEF Promises
    <3>3. ~Syncing(q)
      BY <2>2, <3>2 DEF Promised
    <3> QED
      BY <3>1, <3>2, <3>3 DEF Promised
  <2> QED
    BY <2>1, <2>2
<1> QED
  BY <1>1, <1>2 DEF Promises

-----------------------------------------------------------------------------
(* Steps that open and close files.                                        *)

LEMMA LookData == ASSUME Inv, DataInv, Look PROVE DataInv'
BY NothingButCard, CardChoice DEF Look, Idle

LEMMA UnlinkedData == ASSUME Inv, DataInv, Unlinked PROVE DataInv'
BY NothingButCard, CardChoice DEF Unlinked

LEMMA OpenReadData ==
  ASSUME Inv, DataInv, NEW t \in Thread, NEW n \in File, NEW always \in BOOLEAN, OpenRead(t, n, always)
  PROVE  DataInv'
<1>1. PICK s \in Slot : s = SlotOf(n) /\ vol.dir[s] \in Entry
  BY SlotOfIs DEF OpenRead, Name, Inv, VolumeInv
<1>2. /\ call = Idle /\ UNCHANGED <<vol, call, promise>> /\ card' \in {card, vol}
      /\ fil' = [fil EXCEPT ![t] = Opened(s, vol.dir[s], FALSE, always, NoVersion, FALSE)]
  BY <1>1, CardChoice DEF OpenRead
<1>3. Calm /\ Types /\ call.op \notin {"sync", "close"}
  BY <1>2 DEF Calm, Inv, VolumeInv, Idle
<1>4. \A u \in Thread : fil'[u] = IF u = t THEN Opened(s, vol.dir[s], FALSE, always, NoVersion, FALSE) ELSE fil[u]
  BY <1>2, <1>3 DEF Types
<1>5. FileData(t)'
  <2>1. vol.dir[s].size \in Nat
    BY <1>1, SizeAssumption DEF Entry
  <2> QED
    BY <2>1, <1>2, <1>4 DEF FileData, Opened
<1>6. FilesData'
  <2>1. {t} \in SUBSET Thread /\ \A u \in Thread \ {t} : fil'[u] = fil[u]
    BY <1>4
  <2> QED
    BY <2>1, <1>2, <1>3, <1>5, CalmFiles DEF DataInv
<1>7. Promises'
  BY <1>2, <1>3, CalmPromises DEF DataInv, Promises
<1> QED
  BY <1>2, <1>6, <1>7, NoCallData DEF DataInv

\* A file that has just been made empty.
LEMMA EmptyFileData ==
  ASSUME NEW t \in Thread, NEW s \in Slot, NEW e, vol'.dir[s] = e, e.head = 0, e.size = 0,
         NEW write, NEW excl, NEW v, NEW changed,
         fil'[t] = Opened(s, e, write, excl, v, changed)
  PROVE  FileData(t)'
<1>1. fil'[t].slot = s /\ fil'[t].head = 0 /\ fil'[t].size = 0 /\ fil'[t].clust = 0
  BY DEF Opened
<1>2. EndIsFree(t)'
  BY <1>1 DEF EndIsFree
<1>3. WritesAlong(t, <<>>)'
  <2>1. Saved(t)' \in Seq(Version) /\ Len(Saved(t)') = 0
    <3>1. \A i \in 1..0 : FALSE
      OBVIOUS
    <3>2. Saved(t)' \in [1..0 -> Version]
      BY <1>1, <3>1 DEF Saved
    <3> QED
      BY <3>2
  <2>2. HoldsAlong(vol', fil'[t].head, <<>>, Saved(t)')
    BY <2>1, NothingAlong
  <2> QED
    BY <1>1, <2>2 DEF WritesAlong
<1> QED
  BY <1>1, <1>2, <1>3 DEF FileData

\* An entry that nobody has open is changed; threads of S may open or close a file.
LEMMA EntryData ==
  ASSUME Inv, DataInv, call.op \notin {"sync", "close", "fill"},
         NEW s \in Slot, \A t \in Thread : fil[t].slot # s,
         NEW e \in Entry \cup Blank, SetEntry(s, e), card' \in {card, vol},
         promise' \in [Name -> Seq(Version) \cup {None}],
         \A n \in Name : promise'[n] \in {promise[n], None} /\ (promise'[n] # None => vol.dir[s].name # n),
         NEW S \in SUBSET Thread,
         \A u \in Thread \ S : fil'[u] = fil[u],
         \A u \in S : Open(u)' => FileData(u)'
  PROVE  Promises' /\ FilesData'
<1>1. /\ vol'.fat = vol.fat /\ vol'.data = vol.data /\ Types
      /\ \A q \in Slot : vol'.dir[q] = IF q = s THEN e ELSE vol.dir[q]
  BY ChangeEntry DEF Inv, VolumeInv, Types
<1>2. Calm
  BY <1>1 DEF Calm
<1>3. \A u \in Thread : Open(u) => vol'.dir[fil[u].slot] = vol.dir[fil[u].slot]
  BY <1>1, ClosedHoldsNothing DEF Fil
<1>4. FilesData'
  BY <1>1, <1>2, <1>3, CalmFiles DEF DataInv
<1>5. Promises'
  BY <1>1, <1>2, CalmPromises DEF DataInv
<1> QED
  BY <1>4, <1>5

LEMMA CreateData ==
  ASSUME Inv, DataInv, NEW t \in Thread, NEW n \in File, NEW v \in Version \cup {NoVersion}, Create(t, n, v)
  PROVE  DataInv'
<1>1. PICK s \in Slot : s = First(BlankSlots) /\ vol.dir[s] \in Blank
  BY FirstBlank DEF Create
<1> DEFINE e == [name |-> n, head |-> 0, size |-> 0]
<1>2. \A u \in Thread : fil[u].slot # s
  BY <1>1, NobodyAt DEF Inv
<1>3. e \in Entry /\ e.head = 0 /\ e.size = 0
  BY SizeAssumption DEF Entry, Name
<1>4. /\ call = Idle /\ SetEntry(s, e) /\ UNCHANGED <<call, promise>> /\ card' \in {card, vol}
      /\ fil' = [fil EXCEPT ![t] = Opened(s, e, v # NoVersion, TRUE, v, TRUE)]
  BY <1>1, CardChoice DEF Create
<1> HIDE DEF e
<1>5. /\ \A u \in Thread : fil'[u] = IF u = t THEN Opened(s, e, v # NoVersion, TRUE, v, TRUE) ELSE fil[u]
      /\ vol \in Volume /\ vol.dir \in Dir
  BY <1>4, VolumeIs DEF Inv, VolumeInv, Types
<1>6. vol'.dir[s] = e
  BY <1>3, <1>4, <1>5, ChangeEntry
<1>7. FileData(t)'
  BY <1>3, <1>5, <1>6, EmptyFileData
<1>8. \A m \in Name : vol.dir[s].name # m
  BY <1>1, <1>5, UsedIsNamed
<1>9. {t} \in SUBSET Thread /\ \A u \in Thread \ {t} : fil'[u] = fil[u]
  BY <1>5
<1>10. call.op \notin {"sync", "close", "fill"}
  BY <1>4 DEF Idle
<1>11. Promises' /\ FilesData'
  BY <1>2, <1>3, <1>4, <1>7, <1>8, <1>9, <1>10, EntryData DEF DataInv, Promises
<1> QED
  BY <1>4, <1>11, NoCallData DEF DataInv

LEMMA OverwriteData ==
  ASSUME Inv, DataInv, NEW t \in Thread, NEW n \in File, NEW v \in Version, Overwrite(t, n, v)
  PROVE  DataInv'
<1>1. PICK s \in Slot : s = SlotOf(n) /\ vol.dir[s].name = n /\ vol.dir[s] \in Entry
  BY SlotOfIs DEF Overwrite, Name, Inv, VolumeInv
<1> DEFINE e == Emptied(vol.dir[s])
<1>2. e \in Entry /\ e.head = 0 /\ e.size = 0
  <2>1. 0 \in 0..MaxSize /\ 0 \in Cluster \cup {0}
    BY SizeAssumption
  <2> QED
    BY <1>1, <2>1 DEF Emptied, Entry
<1>3. /\ call = Idle /\ ~IsOpen(s) /\ SetEntry(s, e) /\ card' \in {card, vol}
      /\ promise' = [promise EXCEPT ![n] = None] /\ ~Open(t) /\ n \in Name
  BY <1>1, CardChoice DEF Overwrite, CanWrite, Open, Name
<1> HIDE DEF e
<1>4. vol \in Volume /\ fil \in [Thread -> Fil \cup {Closed}]
  BY DEF Inv, VolumeInv, Types
<1>5. vol'.dir[s] = e
  BY <1>2, <1>3, <1>4, ChangeEntry
<1>6. \A u \in Thread : fil[u].slot # s
  BY <1>3, NobodyAt DEF Inv
<1>7. /\ promise' \in [Name -> Seq(Version) \cup {None}]
      /\ \A m \in Name : promise'[m] \in {promise[m], None} /\ (promise'[m] # None => vol.dir[s].name # m)
  BY <1>1, <1>3 DEF DataInv, Promises
<1>8. /\ \A u \in Thread \ {t} : fil'[u] = fil[u]
      /\ call' = Idle => FileData(t)'
      /\ call' # Idle => fil' = fil /\ call'.op = "open" /\ call'.slot = s
  <2>1. CASE vol.dir[s].head = 0
    <3>1. fil' = [fil EXCEPT ![t] = Opened(s, e, TRUE, TRUE, v, TRUE)] /\ call' = Idle
      BY <1>1, <1>3, <2>1 DEF Overwrite, e
    <3>2. \A u \in Thread : fil'[u] = IF u = t THEN Opened(s, e, TRUE, TRUE, v, TRUE) ELSE fil[u]
      BY <1>4, <3>1
    <3>3. FileData(t)'
      <4>1. fil'[t] = Opened(s, e, TRUE, TRUE, v, TRUE)
        BY <3>2
      <4> QED
        BY <1>2, <1>5, <4>1, EmptyFileData
    <3> QED
      BY <3>1, <3>2, <3>3
  <2>2. CASE vol.dir[s].head # 0
    <3>1. fil' = fil /\ call'.op = "open" /\ call'.slot = s
      BY <1>1, <2>2 DEF Overwrite
    <3> QED
      BY <3>1 DEF Idle
  <2> QED
    BY <2>1, <2>2
<1>9. CallData'
  <2>1. CASE call' = Idle
    BY <2>1, NoCallData
  <2>2. CASE call' # Idle
    BY <2>2, <1>2, <1>5, <1>8 DEF CallData
  <2> QED
    BY <2>1, <2>2
<1>10. {t} \in SUBSET Thread /\ \A u \in {t} : Open(u)' => FileData(u)'
  BY <1>3, <1>8 DEF Open
<1>11. call.op \notin {"sync", "close", "fill"}
  BY <1>3 DEF Idle
<1>12. Promises' /\ FilesData'
  BY <1>2, <1>3, <1>6, <1>7, <1>8, <1>10, <1>11, EntryData
<1> QED
  BY <1>9, <1>12 DEF DataInv

\* A cluster that starts a chain which no entry and no file that is written leads
\* to gets free or is filled.
LEMMA RootData ==
  ASSUME Inv, DataInv, call.op \notin {"sync", "close", "fill"}, NEW c, Root(vol.fat, c), Unnamed(c),
         UNCHANGED <<fil, promise>>, card' \in {card, vol}, vol'.dir = vol.dir,
         \A d \in Cluster \ {c} : vol'.fat[d] = vol.fat[d] /\ vol'.data[d] = vol.data[d],
         vol'.fat[c] \in {0, vol.fat[c]}
  PROVE  Promises' /\ FilesData'
<1>1. \A h, q, w : h # c /\ HoldsAlong(vol, h, q, w) => HoldsAlong(vol', h, q, w)
  <2> SUFFICES ASSUME NEW h, NEW q, NEW w, h # c, HoldsAlong(vol, h, q, w)
               PROVE  HoldsAlong(vol', h, q, w)
    OBVIOUS
  <2>1. \A i \in 1..Len(w) : q[i] # c
    BY RootsAreApart
  <2>2. Len(w) \in Nat /\ \A i \in 1..Len(w) : q[i] \in Cluster
    BY DEF HoldsAlong
  <2>3. \A i \in 1..(Len(w) - 1) : i \in 1..Len(w)
    BY <2>2
  <2>4. \A i \in 1..Len(w) : vol'.fat[q[i]] = vol.fat[q[i]] /\ vol'.data[q[i]] = vol.data[q[i]]
    BY <2>1, <2>2
  <2> QED
    BY <2>3, <2>4, ChainStays
<1>2. Promises'
  <2>1. \A s \in Slot : vol.dir[s] \in Entry => vol.dir[s].head # c
    BY VolumeIs, UsedIsNamed DEF Unnamed, Entry, Inv, VolumeInv, Types
  <2>2. \A s \in Slot : \A w, q :
          vol.dir[s] \in Entry /\ vol.dir[s].size = Len(w) /\ HoldsAlong(vol, vol.dir[s].head, q, w) =>
            HoldsAlong(vol', vol.dir[s].head, q, w)
    BY <1>1, <2>1
  <2> QED
    BY <2>2, PromisesKept DEF DataInv, Promises
<1>3. ASSUME NEW u \in Thread, Open(u), fil[u].write
      PROVE  /\ EndIsFree(u)'
             /\ \A q : HoldsAlong(vol, fil[u].head, q, Saved(u)) => HoldsAlong(vol', fil[u].head, q, Saved(u))
  <2>1. EndIsFree(u) /\ FileInv(u) /\ fil[u].clust \in Cluster \cup {0}
    BY <1>3, ClosedHoldsNothing DEF DataInv, FilesData, FileData, Inv, VolumeInv, FilesInv, Fil
  <2>2. fil[u].head # c
    BY <1>3, <2>1 DEF Unnamed, FileInv, Writes
  <2>3. fil[u].clust = 0 \/ vol'.fat[fil[u].clust] \notin Cluster
    BY <2>1, Sizes DEF EndIsFree
  <2> QED
    BY <1>1, <2>2, <2>3 DEF EndIsFree
<1>4. FilesData'
  <2>1. {} \in SUBSET Thread
    OBVIOUS
  <2> QED
    BY <2>1, <1>3, FilesDataKept DEF DataInv
<1> QED
  BY <1>2, <1>4

LEMMA FreeClusterData == ASSUME Inv, DataInv, FreeCluster PROVE DataInv'
<1>1. PICK c \in Cluster : c = call.cl
  BY DEF FreeCluster
<1>2. Root(vol.fat, c) /\ Unnamed(c) /\ vol \in Volume /\ Types
  BY <1>1 DEF FreeCluster, Inv, VolumeInv, CallInv, Types
<1>3. /\ card' \in {card, vol} /\ UNCHANGED <<fil, promise>> /\ vol' = [vol EXCEPT !.fat[c] = 0]
      /\ call' = [call EXCEPT !.cl = vol.fat[c]] /\ call.op \in {"open", "unlink"}
  BY <1>1, CardChoice DEF FreeCluster
<1>4. /\ vol'.dir = vol.dir /\ vol'.data = vol.data
      /\ \A d \in Cluster : vol'.fat[d] = IF d = c THEN 0 ELSE vol.fat[d]
  BY <1>2, <1>3, ChangeLink, VolumeIs, Sizes DEF Fat
<1>5. Promises' /\ FilesData'
  BY <1>2, <1>3, <1>4, RootData
<1>6. CallData'
  <2>1. call'.op \in {"open", "unlink"} /\ (call'.op = "open" => call'.slot = call.slot /\ call.op = "open")
    <3>1. CASE call.op = "open"
      <4>1. call \in [op : {"open"}, th : Thread, slot : Slot, version : Version, cl : 0..Eoc, first : Cluster]
        BY <1>2, <3>1 DEF Types, CallType, Idle
      <4> QED
        BY <3>1, <4>1, <1>3
    <3>2. CASE call.op = "unlink"
      <4>1. call \in [op : {"unlink"}, cl : 0..Eoc]
        BY <1>2, <3>2 DEF Types, CallType, Idle
      <4> QED
        BY <3>2, <4>1, <1>3
    <3> QED
      BY <1>3, <3>1, <3>2
  <2> QED
    BY <2>1, <1>4 DEF CallData, DataInv
<1> QED
  BY <1>5, <1>6 DEF DataInv

LEMMA OverwrittenData == ASSUME Inv, DataInv, Overwritten PROVE DataInv'
<1>1. call \in [op : {"open"}, th : Thread, slot : Slot, version : Version, cl : 0..Eoc, first : Cluster]
  BY DEF Overwritten, Inv, VolumeInv, Types, CallType, Idle
<1>2. PICK t \in Thread : t = call.th
  BY <1>1
<1>3. PICK s \in Slot : s = call.slot
  BY <1>1
<1>4. vol.dir[s].head = 0 /\ vol.dir[s].size = 0
  BY <1>3 DEF Inv, VolumeInv, CallInv, DataInv, CallData, Overwritten
<1>5. /\ fil' = [fil EXCEPT ![t] = Opened(s, vol.dir[s], TRUE, TRUE, call.version, TRUE)]
      /\ UNCHANGED <<vol, promise>> /\ call' = Idle /\ card' \in {card, vol}
  BY <1>2, <1>3, CardChoice DEF Overwritten
<1>6. \A u \in Thread : fil'[u] = IF u = t THEN Opened(s, vol.dir[s], TRUE, TRUE, call.version, TRUE) ELSE fil[u]
  BY <1>5 DEF Inv, VolumeInv, Types
<1>7. FileData(t)'
  <2>1. fil'[t] = Opened(s, vol.dir[s], TRUE, TRUE, call.version, TRUE) /\ vol'.dir[s] = vol.dir[s]
    BY <1>5, <1>6
  <2> QED
    BY <2>1, <1>4, EmptyFileData
<1>8. Calm /\ Types /\ call.op \notin {"sync", "close"}
  BY <1>1, <1>5 DEF Calm, Inv, VolumeInv
<1>9. FilesData'
  <2>1. {t} \in SUBSET Thread /\ \A u \in Thread \ {t} : fil'[u] = fil[u]
    BY <1>6
  <2> QED
    BY <2>1, <1>5, <1>7, <1>8, CalmFiles DEF DataInv
<1>10. Promises'
  BY <1>5, <1>8, CalmPromises DEF DataInv, Promises
<1> QED
  BY <1>5, <1>9, <1>10, NoCallData DEF DataInv

\* Files that are closed take nothing with them.
LEMMA ReleaseData ==
  ASSUME Types, FilesData, NEW t \in Thread, Release(t), UNCHANGED vol, call.op # "fill"
  PROVE  FilesData'
<1>1. \A u \in Thread : fil'[u] = IF u = t THEN Closed ELSE fil[u]
  BY DEF Release, Types
<1>2. {t} \in SUBSET Thread /\ ~Open(t)' /\ \A u \in Thread \ {t} : fil'[u] = fil[u]
  BY <1>1 DEF Open
<1>3. Calm
  BY DEF Calm
<1> QED
  BY <1>2, <1>3, CalmFiles

LEMMA CloseData == ASSUME Inv, DataInv, NEW t \in Thread, Close(t) PROVE DataInv'
<1>1. Release(t) /\ UNCHANGED <<vol, card, call, promise>> /\ call = Idle
  BY DEF Close
<1>2. Calm /\ Types /\ call.op \notin {"sync", "close", "fill"}
  BY <1>1 DEF Calm, Inv, VolumeInv, Idle
<1>3. FilesData'
  BY <1>1, <1>2, ReleaseData DEF DataInv
<1>4. Promises'
  BY <1>1, <1>2, CalmPromises DEF DataInv, Promises
<1> QED
  BY <1>1, <1>3, <1>4, NoCallData DEF DataInv

-----------------------------------------------------------------------------
(* Removing and renaming.                                                  *)

LEMMA UnlinkData == ASSUME Inv, DataInv, NEW n \in File, Unlink(n) PROVE DataInv'
<1>1. PICK s \in Slot : s = SlotOf(n) /\ vol.dir[s].name = n
  BY SlotOfIs DEF Unlink, Name, Inv, VolumeInv
<1>2. /\ call = Idle /\ ~IsOpen(s) /\ SetEntry(s, Deleted) /\ card' \in {card, vol}
      /\ promise' = [promise EXCEPT ![n] = None] /\ UNCHANGED fil /\ n \in Name /\ call'.op = "unlink"
  BY <1>1, CardChoice DEF Unlink, Name
<1>3. \A u \in Thread : fil[u].slot # s
  BY <1>2, NobodyAt DEF Inv
<1>4. /\ promise' \in [Name -> Seq(Version) \cup {None}]
      /\ \A m \in Name : promise'[m] \in {promise[m], None} /\ (promise'[m] # None => vol.dir[s].name # m)
  BY <1>1, <1>2 DEF DataInv, Promises
<1>5. Deleted \in Entry \cup Blank /\ {} \in SUBSET Thread /\ call.op \notin {"sync", "close", "fill"}
  BY <1>2 DEF Blank, Idle
<1>6. Promises' /\ FilesData'
  BY <1>2, <1>3, <1>4, <1>5, EntryData
<1>7. CallData'
  BY <1>2 DEF CallData
<1> QED
  BY <1>6, <1>7 DEF DataInv

LEMMA RenameData == ASSUME Inv, DataInv, NEW n \in File, NEW m \in File, Rename(n, m) PROVE DataInv'
<1>1. PICK s \in Slot : s = SlotOf(n) /\ vol.dir[s].name = n /\ vol.dir[s] \in Entry
  BY SlotOfIs DEF Rename, Name, Inv, VolumeInv
<1>2. PICK q \in Slot : q = First(BlankSlots) /\ vol.dir[q] \in Blank
  BY FirstBlank DEF Rename
<1> DEFINE e == [vol.dir[s] EXCEPT !.name = m]
<1>3. /\ call = Idle /\ ~Exists(m) /\ card' \in {card, vol} /\ SetEntry(q, e) /\ UNCHANGED fil
      /\ call' = [op |-> "rename", old |-> s, new |-> q, was |-> promise[n], half |-> TRUE]
      /\ promise' = [promise EXCEPT ![n] = None] /\ n \in Name /\ m \in Name
  BY <1>1, <1>2, CardChoice DEF Rename, Name
<1>4. e \in Entry /\ e.name = m /\ e.head = vol.dir[s].head /\ e.size = vol.dir[s].size
  BY <1>1, <1>3 DEF Entry
<1> HIDE DEF e
<1>5. vol \in Volume /\ vol.dir \in Dir /\ NamesOf(vol.dir)
  BY VolumeIs DEF Inv, VolumeInv, Types, Sound
<1>6. \A k \in Name : vol.dir[q].name # k
  BY <1>2, <1>5, UsedIsNamed
<1>7. /\ vol'.fat = vol.fat /\ vol'.data = vol.data
      /\ \A p \in Slot : vol'.dir[p] = IF p = q THEN e ELSE vol.dir[p]
  BY <1>3, <1>4, <1>5, ChangeEntry
<1>8. s # q /\ vol'.dir[s] = vol.dir[s] /\ vol'.dir[q] = e
  BY <1>1, <1>3, <1>6, <1>7
<1>9. \A u \in Thread : fil[u].slot # q
  BY <1>2, NobodyAt DEF Inv
<1>10. /\ promise' \in [Name -> Seq(Version) \cup {None}]
       /\ \A k \in Name : promise'[k] \in {promise[k], None}
       /\ promise'[n] = None
  BY <1>3 DEF DataInv, Promises
<1>11. {} \in SUBSET Thread /\ call.op \notin {"sync", "close", "fill"}
  BY <1>3 DEF Idle
<1>12. Promises' /\ FilesData'
  BY <1>3, <1>4, <1>6, <1>9, <1>10, <1>11, EntryData
<1>13. promise'[m] = None
  <2> SUFFICES ASSUME promise[m] # None PROVE FALSE
    BY <1>3, <1>10
  <2>1. PICK p \in Slot : vol.dir[p].name = m
    BY <1>3 DEF DataInv, Promises, Promised
  <2> QED
    BY <2>1, <1>3 DEF Exists, At
<1>14. promise[n] # None => /\ Kept(vol', q, promise[n]) /\ Kept(card', s, promise[n])
                           /\ Kept(vol', s, promise[n])
  <2> SUFFICES ASSUME promise[n] # None
               PROVE  /\ Kept(vol', q, promise[n]) /\ Kept(card', s, promise[n])
                      /\ Kept(vol', s, promise[n])
    OBVIOUS
  <2>1. PICK p \in Slot : vol.dir[p].name = n /\ Kept(card, p, promise[n]) /\ Kept(vol, p, promise[n])
    BY <1>3, <1>11 DEF DataInv, Promises, Promised, Syncing
  <2>2. p = s
    <3>1. vol.dir[p] \notin Blank /\ vol.dir[s] \notin Blank
      BY <2>1, <1>1, <1>3, <1>5, UsedIsNamed
    <3> QED
      BY <2>1, <3>1, <1>1, <1>5 DEF NamesOf
  <2>3. Kept(vol, s, promise[n]) /\ Kept(card', s, promise[n])
    BY <2>1, <2>2, <1>3
  <2>4. Kept(vol', s, promise[n])
    BY <2>3, <1>1, <1>7, <1>8, KeptByCopy
  <2>5. Kept(vol', q, promise[n])
    BY <2>3, <1>4, <1>7, <1>8, KeptByCopy
  <2> QED
    BY <2>3, <2>4, <2>5
<1>15. CallData'
  BY <1>1, <1>3, <1>4, <1>8, <1>10, <1>13, <1>14 DEF CallData
<1> QED
  BY <1>12, <1>15 DEF DataInv

LEMMA RemoveOldData == ASSUME Inv, DataInv, RemoveOld PROVE DataInv'
<1>1. /\ call \in [op : {"rename"}, old : Slot, new : Slot, was : {call.was}, half : BOOLEAN]
      /\ call.half
  BY DEF RemoveOld, Inv, VolumeInv, Types, CallType, Idle
<1>2. PICK s \in Slot : s = call.old
  BY <1>1
<1>3. PICK q \in Slot : q = call.new
  BY <1>1
<1>4. ~IsOpen(s) /\ s # q /\ vol.dir[s] \notin Blank
  BY <1>1, <1>2, <1>3 DEF Inv, VolumeInv, CallInv
<1>5. /\ card' \in {card, vol} /\ SetEntry(s, Deleted) /\ UNCHANGED <<fil, promise>>
      /\ call' = [call EXCEPT !.half = FALSE]
  BY <1>2, CardChoice DEF RemoveOld
<1>6. /\ call'.op = "rename" /\ call'.old = s /\ call'.new = q /\ call'.was = call.was /\ ~call'.half
  BY <1>1, <1>2, <1>3, <1>5
<1>7. vol \in Volume /\ Deleted \in Entry \cup Blank
  BY DEF Inv, VolumeInv, Types, Blank
<1>8. /\ vol'.fat = vol.fat /\ vol'.data = vol.data
      /\ \A p \in Slot : vol'.dir[p] = IF p = s THEN Deleted ELSE vol.dir[p]
  BY <1>5, <1>7, ChangeEntry
<1>9. /\ promise[vol.dir[s].name] = None /\ promise[vol.dir[q].name] = None /\ vol.dir[q].name \in Name
      /\ call.was # None =>
           Kept(vol, q, call.was) /\ Kept(card, s, call.was) /\ Kept(vol, s, call.was)
  BY <1>1, <1>2, <1>3 DEF DataInv, CallData
<1>10. \A u \in Thread : fil[u].slot # s
  BY <1>4, NobodyAt DEF Inv
<1>11. {} \in SUBSET Thread /\ call.op \notin {"sync", "close", "fill"}
  BY <1>1
<1>12. /\ promise' \in [Name -> Seq(Version) \cup {None}]
       /\ \A n \in Name : promise'[n] \in {promise[n], None} /\ (promise'[n] # None => vol.dir[s].name # n)
  BY <1>5, <1>9 DEF DataInv, Promises
<1>13. Promises' /\ FilesData'
  BY <1>5, <1>7, <1>10, <1>11, <1>12, EntryData
<1>14. call.was # None => Kept(vol', q, call.was) /\ Kept(card', s, call.was)
  <2>1. Kept(vol, q, call.was) => Kept(vol', q, call.was)
    BY <1>4, <1>8 DEF Kept, HoldsAlong
  <2> QED
    BY <2>1, <1>5, <1>9
<1>15. CallData'
  BY <1>4, <1>5, <1>6, <1>8, <1>9, <1>14 DEF CallData
<1> QED
  BY <1>13, <1>15 DEF DataInv

LEMMA RenamedData == ASSUME Inv, DataInv, Renamed PROVE DataInv'
<1>1. /\ call \in [op : {"rename"}, old : Slot, new : Slot, was : {call.was}, half : BOOLEAN]
      /\ ~call.half
  BY DEF Renamed, Inv, VolumeInv, Types, CallType, Idle
<1>2. PICK q \in Slot : q = call.new
  BY <1>1
<1>3. PICK n \in Name : n = vol.dir[q].name
  BY <1>1, <1>2 DEF DataInv, CallData
<1>4. /\ UNCHANGED <<vol, fil>> /\ call' = Idle /\ card' = vol
      /\ promise' = [promise EXCEPT ![n] = call.was]
  BY <1>2, <1>3 DEF Renamed, Sync
<1>5. call.was # None => Kept(vol, q, call.was)
  BY <1>1, <1>2 DEF DataInv, CallData
<1>6. call.was \in Seq(Version) \cup {None}
  BY <1>5 DEF Kept, HoldsAlong
<1>7. Promises'
  BY <1>1, <1>3, <1>4, <1>5, <1>6, NewPromise DEF DataInv, Syncing
<1>8. FilesData'
  <2>1. {} \in SUBSET Thread /\ Calm /\ Types
    BY <1>1, <1>4 DEF Calm, Inv, VolumeInv
  <2> QED
    BY <2>1, <1>4, CalmFiles DEF DataInv
<1> QED
  BY <1>4, <1>7, <1>8, NoCallData DEF DataInv

-----------------------------------------------------------------------------
(* Folders and power.                                                      *)

LEMMA MakeFolderData == ASSUME Inv, DataInv, NEW n \in Folder, MakeFolder(n) PROVE DataInv'
<1>1. call = Idle /\ last_clust \in 0..Clusters /\ Types /\ vol \in Volume
  BY DEF MakeFolder, Inv, VolumeInv, Types
<1>2. PICK c \in Cluster : c = NextFree(last_clust) /\ vol.fat[c] = 0
  BY <1>1, NextIsFree DEF MakeFolder
<1>3. /\ card' \in {card, vol} /\ UNCHANGED <<fil, promise>> /\ vol' = [vol EXCEPT !.fat[c] = Eoc]
      /\ call' = [op |-> "format", name |-> n, cl |-> c]
  BY <1>2, CardChoice DEF MakeFolder
<1>4. /\ vol'.dir = vol.dir /\ vol'.data = vol.data
      /\ \A d \in Cluster : vol'.fat[d] = IF d = c THEN Eoc ELSE vol.fat[d]
  BY <1>1, <1>3, ChangeLink, VolumeIs, Sizes DEF Fat
<1>5. Calm /\ call.op \notin {"sync", "close"}
  BY <1>1, <1>2, <1>4, Sizes DEF Calm, Idle
<1>6. Promises'
  BY <1>3, <1>4, <1>5, CalmPromises DEF DataInv, Promises
<1>7. FilesData'
  <2>1. {} \in SUBSET Thread
    OBVIOUS
  <2> QED
    BY <2>1, <1>1, <1>3, <1>4, <1>5, CalmFiles DEF DataInv
<1>8. CallData'
  BY <1>3, <1>4, Sizes DEF CallData
<1> QED
  BY <1>6, <1>7, <1>8 DEF DataInv

LEMMA FormatData == ASSUME Inv, DataInv, Format PROVE DataInv'
<1>1. call \in [op : {"format"}, name : Folder, cl : Cluster]
  BY DEF Format, Inv, VolumeInv, Types, CallType, Idle
<1>2. PICK c \in Cluster : c = call.cl
  BY <1>1
<1>3. Root(vol.fat, c) /\ Unnamed(c) /\ vol.fat[c] \notin Cluster /\ vol \in Volume
  BY <1>2 DEF Format, Inv, VolumeInv, CallInv, DataInv, CallData, Types
<1>4. /\ card' \in {card, vol} /\ UNCHANGED <<fil, promise>> /\ vol' = [vol EXCEPT !.data[c] = Dots]
      /\ call' = [call EXCEPT !.op = "register"]
  BY <1>2, CardChoice DEF Format
<1>5. /\ vol'.dir = vol.dir /\ vol'.fat = vol.fat
      /\ \A d \in Cluster \ {c} : vol'.data[d] = vol.data[d]
  <2>1. Dots \in Unit
    BY DEF Unit
  <2> QED
    BY <2>1, <1>3, <1>4, ChangeData, VolumeIs DEF Data
<1>6. Promises' /\ FilesData'
  <2>1. call.op \notin {"sync", "close", "fill"}
    BY <1>1
  <2> QED
    BY <2>1, <1>3, <1>4, <1>5, RootData
<1>7. CallData'
  <2>1. call'.op = "register" /\ call'.cl = c
    BY <1>1, <1>2, <1>4
  <2> QED
    BY <2>1, <1>3, <1>5 DEF CallData
<1> QED
  BY <1>6, <1>7 DEF DataInv

LEMMA RegisterData == ASSUME Inv, DataInv, Register PROVE DataInv'
<1>1. call \in [op : {"register"}, name : Folder, cl : Cluster]
  BY DEF Register, Inv, VolumeInv, Types, CallType, Idle
<1>2. PICK c \in Cluster : c = call.cl
  BY <1>1
<1>3. PICK n \in Folder : n = call.name
  BY <1>1
<1>4. Root(vol.fat, c) /\ Unnamed(c) /\ vol \in Volume /\ call.op \notin {"sync", "close", "fill"}
  BY <1>1, <1>2 DEF Register, Inv, VolumeInv, CallInv, Types
<1>5. CASE BlankSlots # {}
  <2>1. PICK s \in Slot : s = First(BlankSlots) /\ vol.dir[s] \in Blank
    BY <1>5, FirstBlank
  <2> DEFINE e == [name |-> n, head |-> c, size |-> 0]
  <2>2. /\ card' \in {card, vol} /\ SetEntry(s, e) /\ call' = [call EXCEPT !.op = "made"]
        /\ UNCHANGED <<fil, promise>>
    BY <1>2, <1>3, <1>5, <2>1, CardChoice DEF Register
  <2>3. call'.op = "made" /\ call'.name = n /\ call'.cl = c
    BY <1>1, <1>2, <1>3, <2>2
  <2>4. e \in Entry
    BY SizeAssumption DEF Entry, Name
  <2>5. vol'.dir[s] = e
    BY <1>4, <2>2, <2>4, ChangeEntry
  <2>6. \A u \in Thread : fil[u].slot # s
    BY <2>1, NobodyAt DEF Inv
  <2>7. \A m \in Name : vol.dir[s].name # m
    BY <1>4, <2>1, UsedIsNamed, VolumeIs
  <2>8. CallData'
    BY <2>3, <2>5 DEF CallData
  <2> HIDE DEF e
  <2>9. {} \in SUBSET Thread
    OBVIOUS
  <2>10. Promises' /\ FilesData'
    BY <1>4, <2>2, <2>4, <2>6, <2>7, <2>9, EntryData DEF DataInv, Promises
  <2> QED
    BY <2>8, <2>10 DEF DataInv
<1>6. CASE BlankSlots = {}
  <2>1. /\ card' \in {card, vol} /\ vol' = [vol EXCEPT !.fat[c] = 0] /\ call' = Idle
        /\ UNCHANGED <<fil, promise>>
    BY <1>2, <1>6, CardChoice DEF Register
  <2>2. /\ vol'.dir = vol.dir /\ vol'.data = vol.data
        /\ \A d \in Cluster : vol'.fat[d] = IF d = c THEN 0 ELSE vol.fat[d]
    BY <1>4, <2>1, ChangeLink, VolumeIs, Sizes DEF Fat
  <2>3. Promises' /\ FilesData'
    BY <1>4, <2>1, <2>2, RootData
  <2> QED
    BY <2>1, <2>3, NoCallData DEF DataInv
<1> QED
  BY <1>5, <1>6

LEMMA MadeData == ASSUME Inv, DataInv, Made PROVE DataInv'
<1>1. call \in [op : {"made"}, name : Folder, cl : Cluster]
  BY DEF Made, Inv, VolumeInv, Types, CallType, Idle
<1>2. PICK n \in Name : n = call.name
  BY <1>1 DEF Name
<1>3. PICK s \in Slot : vol.dir[s] = [name |-> n, head |-> call.cl, size |-> 0]
  BY <1>1, <1>2 DEF DataInv, CallData
<1>4. /\ UNCHANGED <<vol, fil>> /\ call' = Idle /\ card' = vol /\ promise' = [promise EXCEPT ![n] = <<>>]
  BY <1>2 DEF Made, Sync
<1>5. Kept(vol, s, <<>>)
  <2>1. vol.dir[s] \in Entry /\ vol.dir[s].size = 0
    BY <1>1, <1>2, <1>3, SizeAssumption DEF Entry
  <2>2. <<>> \in Seq(Version) /\ Len(<<>>) = 0
    OBVIOUS
  <2>3. HoldsAlong(vol, vol.dir[s].head, <<>>, <<>>)
    BY <2>2, NothingAlong
  <2> QED
    BY <2>1, <2>2, <2>3 DEF Kept
<1>6. Promises'
  <2>1. <<>> \in Seq(Version) /\ vol.dir[s].name = n
    BY <1>3
  <2> QED
    BY <2>1, <1>1, <1>4, <1>5, NewPromise DEF DataInv, Syncing
<1>7. FilesData'
  <2>1. {} \in SUBSET Thread /\ Calm /\ Types
    BY <1>1, <1>4 DEF Calm, Inv, VolumeInv
  <2> QED
    BY <2>1, <1>4, CalmFiles DEF DataInv
<1> QED
  BY <1>4, <1>6, <1>7, NoCallData DEF DataInv

\* A rename that has lost power is one that has not begun.
LEMMA PowerLossData == ASSUME Inv, DataInv, PowerLoss PROVE DataInv'
<1>1. /\ vol' = card /\ card' = card /\ call' = Idle
      /\ \A t \in Thread : ~Open(t)'
      /\ promise' = [n \in Name |-> IF Renaming(n) THEN call.was ELSE promise[n]]
  BY DEF PowerLoss, Open
<1>2. call.op = "rename" => call.old \in Slot /\ (call.was # None => Kept(card, call.old, call.was))
  BY DEF Inv, VolumeInv, Types, CallType, Idle, DataInv, CallData
<1>3. call.op = "rename" => call.was \in Seq(Version) \cup {None}
  BY <1>2 DEF Kept, HoldsAlong
<1>4. promise' \in [Name -> Seq(Version) \cup {None}]
  BY <1>1, <1>3 DEF Renaming, DataInv, Promises
<1>5. ASSUME NEW n \in Name, promise'[n] # None
      PROVE  \E s \in Slot : Promised(n, s)'
  <2>1. CASE Renaming(n)
    <3>1. /\ promise'[n] = call.was /\ call.old \in Slot
          /\ card.dir[call.old].name = n /\ Kept(card, call.old, call.was)
      BY <1>1, <1>2, <1>5, <2>1 DEF Renaming
    <3>2. PICK s \in Slot : card.dir[s].name = n /\ Kept(card, s, promise'[n])
      BY <3>1
    <3> QED
      BY <3>2, <1>1 DEF Promised
  <2>2. CASE ~Renaming(n)
    <3>1. promise'[n] = promise[n]
      BY <1>1, <2>2
    <3>2. PICK s \in Slot : Promised(n, s)
      BY <1>5, <3>1 DEF DataInv, Promises
    <3> QED
      BY <1>1, <3>1, <3>2 DEF Promised
  <2> QED
    BY <2>1, <2>2
<1>6. Promises'
  BY <1>4, <1>5 DEF Promises
<1>7. FilesData'
  BY <1>1 DEF FilesData
<1> QED
  BY <1>1, <1>6, <1>7, NoCallData DEF DataInv

-----------------------------------------------------------------------------
(* Writing and syncing.                                                    *)

LEMMA SyncEntryData ==
  ASSUME Inv, DataInv, NEW t \in Thread, NEW closing \in BOOLEAN, SyncEntry(t, closing)
  PROVE  DataInv'
<1> DEFINE r == [fil[t] EXCEPT !.written = FALSE]
<1>1. Open(t) /\ fil[t] \in Fil /\ fil[t].written /\ call = Idle
  BY ClosedHoldsNothing DEF SyncEntry, Open, Inv, VolumeInv
<1>2. FileInv(t) /\ fil[t].excl /\ FileData(t)
  BY <1>1 DEF Inv, VolumeInv, FilesInv, FileInv, DataInv, FilesData, Writes
<1>3. PICK s \in Slot : s = fil[t].slot
  BY <1>1 DEF Fil
<1>4. vol \in Volume /\ vol.dir[s] \in Entry
  BY <1>2, <1>3, VolumeIs DEF FileInv, Inv, VolumeInv, Types, Dir
<1> DEFINE e == [vol.dir[s] EXCEPT !.head = fil[t].head, !.size = fil[t].size]
<1>5. e \in Entry /\ e.name = vol.dir[s].name /\ e.head = fil[t].head /\ e.size = fil[t].size
  BY <1>1, <1>4 DEF Entry, Fil
<1>6. /\ SetEntry(s, e) /\ fil' = [fil EXCEPT ![t] = r] /\ card' \in {card, vol} /\ UNCHANGED promise
      /\ call' = [op |-> IF closing THEN "close" ELSE "sync", th |-> t]
  BY <1>3, CardChoice DEF SyncEntry
<1>7. /\ r.slot = s /\ r.head = fil[t].head /\ r.size = fil[t].size /\ r.write = fil[t].write
      /\ r.version = fil[t].version /\ r.clust = fil[t].clust /\ ~r.written
  BY <1>1, <1>3 DEF Fil
<1> HIDE DEF e, r
<1>8. /\ vol'.fat = vol.fat /\ vol'.data = vol.data
      /\ \A q \in Slot : vol'.dir[q] = IF q = s THEN e ELSE vol.dir[q]
  BY <1>4, <1>5, <1>6, ChangeEntry
<1>9. \A u \in Thread : fil'[u] = IF u = t THEN r ELSE fil[u]
  BY <1>6 DEF Inv, VolumeInv, Types
<1>10. Calm /\ Types /\ call.op \notin {"sync", "close"}
  BY <1>1, <1>8 DEF Calm, Inv, VolumeInv, Idle
<1>11. FileData(t)'
  <2>1. fil[t].size \in Nat
    BY <1>1, SizeAssumption DEF Fil
  <2>2. fil[t].write => EndIsFree(t)' /\ \E q : WritesAlong(t, q)'
    <3> SUFFICES ASSUME fil[t].write
                 PROVE  EndIsFree(t)' /\ \E q : WritesAlong(t, q)'
      OBVIOUS
    <3>1. EndIsFree(t)'
      BY <1>2, <1>7, <1>8, <1>9, <1>10 DEF FileData, EndIsFree, Calm
    <3>2. PICK q : WritesAlong(t, q)
      BY <1>2 DEF FileData
    <3>3. Saved(t)' = Saved(t)
      BY <1>7, <1>9 DEF Saved
    <3>4. WritesAlong(t, q)'
      BY <1>7, <1>8, <1>9, <3>2, <3>3 DEF WritesAlong, HoldsAlong
    <3> QED
      BY <3>1, <3>4
  <2>3. fil'[t] = r /\ vol'.dir[s] = e
    BY <1>8, <1>9
  <2> QED
    BY <1>5, <1>7, <2>1, <2>2, <2>3 DEF FileData
<1>12. FilesData'
  <2>1. {t} \in SUBSET Thread /\ \A u \in Thread \ {t} : fil'[u] = fil[u]
    BY <1>9
  <2>2. \A u \in Thread \ {t} : Open(u) => vol'.dir[fil[u].slot] = vol.dir[fil[u].slot]
    BY <1>1, <1>2, <1>3, <1>8, ClosedHoldsNothing DEF Inv, VolumeInv, LockInv, Fil
  <2> QED
    BY <2>1, <2>2, <1>10, <1>11, CalmFiles DEF DataInv
<1>13. Promises'
  <2>1. Syncing(s)'
    BY <1>6, <1>7, <1>9 DEF Syncing
  <2>2. \A n \in Name, q \in Slot : vol.dir[q].name = n =>
           vol'.dir[q] = vol.dir[q] \/ (vol'.dir[q].name = n /\ Syncing(q)')
    BY <2>1, <1>5, <1>8
  <2> QED
    BY <2>2, <1>6, <1>10, CalmPromises DEF DataInv, Promises
<1>14. CallData'
  <2>1. call'.op \in {"sync", "close"} /\ call'.th = t
    BY <1>6
  <2>2. fil[t].write \/ fil[t].size = 0
    BY <1>1, <1>2 DEF FileData
  <2>3. fil'[t] = r
    BY <1>9
  <2> QED
    BY <2>1, <2>2, <2>3, <1>7 DEF CallData
<1> QED
  BY <1>12, <1>13, <1>14 DEF DataInv

LEMMA SyncedData == ASSUME Inv, DataInv, Synced PROVE DataInv'
<1>1. call \in [op : {"sync", "close"}, th : Thread]
  BY DEF Synced, Inv, VolumeInv, Types, CallType, Idle
<1>2. PICK t \in Thread : t = call.th
  BY <1>1
<1>3. /\ Open(t) /\ ~fil[t].written /\ (fil[t].write \/ fil[t].size = 0)
      /\ FileInv(t) /\ FileData(t) /\ fil[t] \in Fil /\ Types /\ FilesInv
  BY <1>1, <1>2, ClosedHoldsNothing
  DEF Inv, VolumeInv, CallInv, DataInv, CallData, FilesInv, FilesData
<1>4. PICK s \in Slot : s = fil[t].slot
  BY <1>3 DEF Fil
<1>5. vol.dir[s] \in Entry /\ vol.dir[s].head = fil[t].head /\ vol.dir[s].size = fil[t].size
  BY <1>3, <1>4, VolumeIs DEF FileInv, Types, Dir
<1>6. PICK n \in Name : n = vol.dir[s].name
  BY <1>3, <1>4 DEF FileInv, Name
<1>7. PICK w \in Seq(Version) : w = Saved(t) /\ Len(w) = fil[t].size
  BY <1>3, SavedIs
<1>8. UNCHANGED vol /\ call' = Idle /\ card' = vol /\ promise' = [promise EXCEPT ![n] = w]
  BY <1>2, <1>4, <1>6, <1>7 DEF Synced, Sync
<1>9. Kept(vol, s, w)
  <2>1. CASE fil[t].write
    <3>1. PICK q : WritesAlong(t, q)
      BY <1>3, <2>1 DEF FileData
    <3> QED
      BY <3>1, <1>5, <1>7 DEF WritesAlong, Kept
  <2>2. CASE fil[t].size = 0
    <3>1. HoldsAlong(vol, vol.dir[s].head, <<>>, w)
      BY <2>2, <1>7, NothingAlong
    <3> QED
      BY <3>1, <1>5, <1>7 DEF Kept
  <2> QED
    BY <2>1, <2>2, <1>3
<1>10. Promises'
  <2>1. \A q \in Slot : Syncing(q) => vol.dir[q].name = n
    BY <1>2, <1>4, <1>6 DEF Syncing
  <2> QED
    BY <2>1, <1>6, <1>8, <1>9, NewPromise DEF DataInv
<1>11. FilesData'
  <2>1. CASE Release(t)
    BY <2>1, <1>1, <1>3, <1>8, ReleaseData DEF DataInv
  <2>2. CASE UNCHANGED fil
    <3>1. {} \in SUBSET Thread /\ Calm
      BY <1>1, <1>8 DEF Calm
    <3> QED
      BY <2>2, <3>1, <1>3, <1>8, CalmFiles DEF DataInv
  <2> QED
    BY <2>1, <2>2, <1>2 DEF Synced
<1> QED
  BY <1>8, <1>10, <1>11, NoCallData DEF DataInv

LEMMA WriteData == ASSUME Inv, DataInv, NEW t \in Thread, Write(t) PROVE DataInv'
<1> DEFINE scl == IF fil[t].clust = 0 THEN last_clust ELSE fil[t].clust
<1>1. /\ Open(t) /\ fil[t] \in Fil /\ fil[t].write /\ call = Idle /\ Types /\ vol \in Volume
      /\ FileInv(t) /\ FileData(t) /\ UNCHANGED promise
  BY ClosedHoldsNothing DEF Write, Open, Inv, VolumeInv, FilesInv, DataInv, FilesData, Types
<1>2. CASE FreeClusters = {}
  <2>1. card' \in {card, vol} /\ UNCHANGED <<vol, call>> /\ fil' = [fil EXCEPT ![t].written = TRUE]
    BY <1>2, CardChoice DEF Write
  <2>2. fil' = [fil EXCEPT ![t] = [fil[t] EXCEPT !.written = TRUE]]
    BY <2>1
  <2>3. \A u \in Thread : fil'[u] = IF u = t THEN [fil[t] EXCEPT !.written = TRUE] ELSE fil[u]
    BY <2>2, <1>1 DEF Types
  <2>4. /\ fil'[t].slot = fil[t].slot /\ fil'[t].head = fil[t].head /\ fil'[t].size = fil[t].size
        /\ fil'[t].write /\ fil'[t].version = fil[t].version /\ fil'[t].clust = fil[t].clust
    BY <2>3, <1>1 DEF Fil
  <2>5. Calm /\ call.op \notin {"sync", "close"}
    BY <1>1, <2>1 DEF Calm, Idle
  <2>6. FileData(t)'
    <3>1. PICK q : WritesAlong(t, q)
      BY <1>1 DEF FileData
    <3>2. Saved(t)' = Saved(t)
      BY <2>4 DEF Saved
    <3>3. WritesAlong(t, q)'
      BY <2>1, <2>4, <3>1, <3>2 DEF WritesAlong
    <3>4. EndIsFree(t)'
      BY <1>1, <2>1, <2>4 DEF FileData, EndIsFree
    <3> QED
      BY <1>1, <2>1, <2>4, <3>3, <3>4 DEF FileData
  <2>7. FilesData'
    <3>1. {t} \in SUBSET Thread /\ \A u \in Thread \ {t} : fil'[u] = fil[u]
      BY <2>3
    <3> QED
      BY <3>1, <1>1, <2>1, <2>5, <2>6, CalmFiles DEF DataInv
  <2>8. Promises'
    BY <1>1, <2>1, <2>5, CalmPromises DEF DataInv, Promises
  <2> QED
    BY <1>1, <2>1, <2>7, <2>8, NoCallData DEF DataInv
<1>3. CASE FreeClusters # {}
  <2>1. scl \in 0..Clusters
    BY <1>1 DEF Types, Fil, Cluster
  <2>2. PICK c \in Cluster : c = NextFree(scl) /\ vol.fat[c] = 0
    BY <2>1, <1>3, NextIsFree
  <2>3. /\ card' \in {card, vol} /\ UNCHANGED fil /\ vol' = [vol EXCEPT !.fat[c] = Eoc]
        /\ call' = [op |-> IF fil[t].clust = 0 THEN "fill" ELSE "link", th |-> t, cl |-> c]
    BY <2>2, <1>3, CardChoice DEF Write
  <2>4. /\ vol'.dir = vol.dir /\ vol'.data = vol.data
        /\ \A d \in Cluster : vol'.fat[d] = IF d = c THEN Eoc ELSE vol.fat[d]
    BY <1>1, <2>3, ChangeLink, VolumeIs, Sizes DEF Fat
  <2>5. Calm /\ call.op \notin {"sync", "close"}
    BY <1>1, <2>2, <2>4, Sizes DEF Calm, Idle
  <2>6. Promises'
    BY <1>1, <2>3, <2>4, <2>5, CalmPromises DEF DataInv, Promises
  <2>7. FilesData'
    <3>1. {} \in SUBSET Thread
      OBVIOUS
    <3> QED
      BY <3>1, <1>1, <2>3, <2>4, <2>5, CalmFiles DEF DataInv
  <2>8. CallData'
    <3>1. call'.op \in {"fill", "link"} /\ call'.th = t /\ call'.cl = c /\ vol'.fat[c] \notin Cluster
      BY <2>3, <2>4, Sizes
    <3>2. call'.op = "fill" => fil'[t].head = 0
      BY <2>3, <1>1 DEF FileInv
    <3> QED
      BY <3>1, <3>2 DEF CallData
  <2> QED
    BY <2>6, <2>7, <2>8 DEF DataInv
<1> QED
  BY <1>2, <1>3

LEMMA LinkData == ASSUME Inv, DataInv, Link PROVE DataInv'
<1>1. call \in [op : {"link"}, th : Thread, cl : Cluster]
  BY DEF Link, Inv, VolumeInv, Types, CallType, Idle
<1>2. PICK t \in Thread : t = call.th
  BY <1>1
<1>3. PICK c \in Cluster : c = call.cl
  BY <1>1
<1>4. /\ Open(t) /\ fil[t].write /\ fil[t].clust # 0 /\ fil[t] \in Fil /\ Types /\ vol \in Volume
      /\ Root(vol.fat, c) /\ Unnamed(c) /\ vol.fat[c] \notin Cluster /\ LinksOf(vol.fat)
      /\ FileInv(t) /\ FileData(t)
  BY <1>1, <1>2, <1>3, ClosedHoldsNothing
  DEF Link, Inv, VolumeInv, CallInv, DataInv, CallData, FilesInv, FilesData, Sound, Types
<1>5. PICK p \in Cluster : p = fil[t].clust
  BY <1>4 DEF Fil
<1>6. vol.fat[p] \notin Cluster
  BY <1>1, <1>4, <1>5, Sizes DEF FileData, EndIsFree
<1>7. /\ card' \in {card, vol} /\ UNCHANGED <<fil, promise>> /\ vol' = [vol EXCEPT !.fat[p] = c]
      /\ call'.op = "fill" /\ call'.th = t /\ call'.cl = c
  BY <1>1, <1>2, <1>3, <1>5, CardChoice DEF Link
<1>8. /\ vol'.dir = vol.dir /\ vol'.data = vol.data
      /\ \A d \in Cluster : vol'.fat[d] = IF d = p THEN c ELSE vol.fat[d]
  BY <1>4, <1>7, ChangeLink, VolumeIs, Sizes DEF Fat
<1>9. \A h, q, w : HoldsAlong(vol, h, q, w) => HoldsAlong(vol', h, q, w)
  BY <1>6, <1>8, LinksStay
<1>10. PICK x : WritesAlong(t, x)
  BY <1>4 DEF FileData
<1>11. HoldsAlong(vol, fil[t].head, x, Saved(t)) /\ fil[t].size \in 1..Len(Saved(t)) /\ x[fil[t].size] = p
  <2>1. fil[t].head # 0 /\ fil[t].size \in Nat
    BY <1>4, SizeAssumption DEF FileInv, Fil
  <2>2. Len(Saved(t)) = fil[t].size
    BY <1>4, SavedIs DEF Inv, VolumeInv
  <2> QED
    BY <2>1, <2>2, <1>5, <1>10 DEF WritesAlong
<1>12. ASSUME NEW u \in Thread, Open(u), fil[u].write
       PROVE  EndIsFree(u)'
  <2>1. CASE u = t
    BY <2>1, <1>7 DEF EndIsFree
  <2>2. CASE u # t
    <3>1. FileInv(u) /\ FileData(u) /\ fil[u] \in Fil
      BY <1>12, ClosedHoldsNothing DEF Inv, VolumeInv, FilesInv, DataInv, FilesData
    <3>2. PICK q : WritesAlong(u, q)
      BY <1>12, <3>1 DEF FileData
    <3>3. CASE fil[u].clust = 0
      BY <3>3, <1>7 DEF EndIsFree
    <3>4. CASE fil[u].clust # 0
      <4>1. fil[u].head # 0 /\ fil[u].size \in Nat /\ Len(Saved(u)) = fil[u].size
        BY <3>1, <3>4, <1>4, <1>12, SavedIs, SizeAssumption DEF FileInv, Fil, Inv, VolumeInv
      <4>2. /\ HoldsAlong(vol, fil[u].head, q, Saved(u)) /\ fil[u].size \in 1..Len(Saved(u))
            /\ q[fil[u].size] = fil[u].clust
        BY <4>1, <3>2 DEF WritesAlong
      <4>3. fil[u].head # fil[t].head
        BY <1>4, <1>12, <2>2, <3>1, <4>1 DEF Inv, VolumeInv, FilesInv, FileInv, Writes
      <4>4. fil[u].clust # p
        BY <4>2, <4>3, <1>4, <1>11, ChainsThatMeet
      <4>5. fil[u].clust \in Cluster /\ vol.fat[fil[u].clust] \notin Cluster
        BY <3>1, <3>4, <1>1, <1>12 DEF FileData, EndIsFree, Fil
      <4> QED
        BY <4>4, <4>5, <1>7, <1>8 DEF EndIsFree
    <3> QED
      BY <3>3, <3>4
  <2> QED
    BY <2>1, <2>2
<1>13. FilesData'
  <2>1. {} \in SUBSET Thread
    OBVIOUS
  <2> QED
    BY <2>1, <1>7, <1>8, <1>9, <1>12, FilesDataKept DEF DataInv
<1>14. Promises'
  <2>1. call.op \notin {"sync", "close"}
    BY <1>1
  <2> QED
    BY <2>1, <1>7, <1>8, <1>9, PromisesKept DEF DataInv, Promises
<1>15. CallData'
  <2>1. c # p
    <3>1. \A i \in 1..Len(Saved(t)) : x[i] # c
      <4>1. fil[t].head # c
        BY <1>4 DEF Unnamed, Writes
      <4> QED
        BY <4>1, <1>4, <1>11, RootsAreApart
    <3> QED
      BY <3>1, <1>11
  <2>2. vol'.fat[c] \notin Cluster /\ vol'.fat[p] = c /\ fil'[t].clust = p
    BY <2>1, <1>4, <1>5, <1>7, <1>8
  <2> QED
    BY <2>2, <1>7 DEF CallData
<1> QED
  BY <1>13, <1>14, <1>15 DEF DataInv

\* A chain that gets one more cluster.
LEMMA OneMore ==
  ASSUME NEW v, NEW h, NEW x, NEW w, HoldsAlong(v, h, x, w), NEW c \in Cluster, NEW k \in Version,
         NEW n \in Nat, n = Len(w), v.data[c] = <<k, n + 1>>,
         IF n = 0 THEN h = c ELSE v.fat[x[n]] = c
  PROVE  HoldsAlong(v, h, [i \in 1..(n + 1) |-> IF i = n + 1 THEN c ELSE x[i]], Append(w, k))
<1> DEFINE y == [i \in 1..(n + 1) |-> IF i = n + 1 THEN c ELSE x[i]]
<1>1. /\ w \in Seq(Version) /\ x \in [1..n -> Cluster] /\ (n > 0 => x[1] = h)
      /\ \A i \in 1..(n - 1) : v.fat[x[i]] = x[i + 1]
      /\ \A i \in 1..n : v.data[x[i]] = <<w[i], i>>
  BY DEF HoldsAlong
<1>2. /\ Append(w, k) \in Seq(Version) /\ Len(Append(w, k)) = n + 1
      /\ \A i \in 1..n : Append(w, k)[i] = w[i]
      /\ Append(w, k)[n + 1] = k
  BY <1>1
<1>3. y \in [1..(n + 1) -> Cluster]
  BY <1>1
<1>4. y[n + 1] = c /\ \A i \in 1..n : y[i] = x[i]
  OBVIOUS
<1>5. y[1] = h
  <2>1. CASE n = 0
    BY <2>1, <1>4
  <2>2. CASE n # 0
    BY <2>2, <1>1, <1>4
  <2> QED
    BY <2>1, <2>2
<1>6. \A i \in 1..(n + 1) : v.data[y[i]] = <<Append(w, k)[i], i>>
  <2> SUFFICES ASSUME NEW i \in 1..(n + 1)
               PROVE  v.data[y[i]] = <<Append(w, k)[i], i>>
    OBVIOUS
  <2>1. CASE i = n + 1
    BY <2>1, <1>2, <1>4
  <2>2. CASE i # n + 1
    <3>1. i \in 1..n
      BY <2>2
    <3> QED
      BY <3>1, <1>1, <1>2, <1>4
  <2> QED
    BY <2>1, <2>2
<1>7. \A i \in 1..n : v.fat[y[i]] = y[i + 1]
  <2> SUFFICES ASSUME NEW i \in 1..n
               PROVE  v.fat[y[i]] = y[i + 1]
    OBVIOUS
  <2>1. CASE i = n
    BY <2>1, <1>4
  <2>2. CASE i # n
    <3>1. i \in 1..(n - 1) /\ i + 1 \in 1..n
      BY <2>2
    <3> QED
      BY <3>1, <1>1, <1>4
  <2> QED
    BY <2>1, <2>2
<1> HIDE DEF y
<1>8. HoldsAlong(v, h, y, Append(w, k))
  <2>1. (n + 1) - 1 = n
    OBVIOUS
  <2> QED
    BY <2>1, <1>2, <1>3, <1>5, <1>6, <1>7 DEF HoldsAlong
<1> QED
  BY <1>8 DEF y

LEMMA FillData == ASSUME Inv, DataInv, Fill PROVE DataInv'
<1>1. call \in [op : {"fill"}, th : Thread, cl : Cluster]
  BY DEF Fill, Inv, VolumeInv, Types, CallType, Idle
<1>2. PICK t \in Thread : t = call.th
  BY <1>1
<1>3. PICK c \in Cluster : c = call.cl
  BY <1>1
<1> DEFINE h == IF fil[t].head = 0 THEN c ELSE fil[t].head
           r == [fil[t] EXCEPT !.head = h, !.clust = c, !.size = fil[t].size + 1, !.written = TRUE]
<1>4. /\ Open(t) /\ fil[t].write /\ fil[t].size < MaxSize /\ Unnamed(c)
      /\ fil[t].head = 0 => Root(vol.fat, c)
      /\ fil[t] \in Fil /\ FileInv(t) /\ FileData(t)
  BY <1>1, <1>2, <1>3, ClosedHoldsNothing
  DEF Inv, VolumeInv, CallInv, FilesInv, DataInv, FilesData
<1>5. /\ vol.fat[c] \notin Cluster /\ (fil[t].head # 0 => vol.fat[fil[t].clust] = c)
      /\ LinksOf(vol.fat) /\ Types /\ FilesInv /\ vol \in Volume
  BY <1>1, <1>2, <1>3 DEF Inv, VolumeInv, DataInv, CallData, Sound, Types
<1>6. PICK n \in Nat : n = fil[t].size
  BY <1>4, SizeAssumption DEF Fil
<1>7. fil[t].version \in Version /\ fil[t].excl
  BY <1>4 DEF FileInv, Writes
<1>8. /\ card' \in {card, vol} /\ vol' = [vol EXCEPT !.data[c] = <<fil[t].version, n + 1>>]
      /\ fil' = [fil EXCEPT ![t] = r] /\ call' = Idle /\ UNCHANGED promise
  BY <1>2, <1>3, <1>6, CardChoice DEF Fill
<1>9. /\ vol'.fat = vol.fat /\ vol'.dir = vol.dir /\ vol'.data[c] = <<fil[t].version, n + 1>>
      /\ \A d \in Cluster \ {c} : vol'.data[d] = vol.data[d]
  <2>1. n + 1 \in 1..MaxSize
    BY <1>4, <1>6, SizeAssumption
  <2>2. <<fil[t].version, n + 1>> \in Unit
    BY <2>1, <1>7 DEF Unit
  <2> QED
    BY <2>2, <1>5, <1>8, ChangeData, VolumeIs DEF Data
<1>10. /\ r.slot = fil[t].slot /\ r.head = h /\ r.size = n + 1 /\ r.write /\ r.written
       /\ r.version = fil[t].version /\ r.clust = c
  BY <1>4, <1>6 DEF Fil
<1>11. h \in Cluster \cup {0} /\ h # 0 /\ (fil[t].head = 0 => h = c) /\ (fil[t].head # 0 => h = fil[t].head)
  BY <1>4, Sizes DEF Fil
<1> HIDE DEF r, h
<1>12. \A u \in Thread : fil'[u] = IF u = t THEN r ELSE fil[u]
  BY <1>5, <1>8 DEF Types
<1>13. PICK x : WritesAlong(t, x)
  BY <1>4 DEF FileData
<1>14. HoldsAlong(vol, fil[t].head, x, Saved(t)) /\ Len(Saved(t)) = n
  BY <1>4, <1>5, <1>6, <1>13, SavedIs DEF WritesAlong
<1>15. ASSUME NEW g, NEW q, NEW w, HoldsAlong(vol, g, q, w), g # c,
              NEW i \in 1..Len(w), q[i] = c
       PROVE  fil[t].head # 0 /\ g = fil[t].head /\ Len(w) > n
  <2>1. ~Root(vol.fat, c)
    BY <1>15, RootsAreApart
  <2>2. fil[t].head # 0 /\ fil[t].clust \in Cluster
    BY <2>1, <1>4 DEF FileInv, Fil
  <2>3. PICK m \in 1..Len(w) : m = i - 1 /\ q[m] \in Cluster /\ vol.fat[q[m]] = c
    BY <1>15, ReachedOverLink
  <2>4. q[m] = fil[t].clust
    BY <2>2, <2>3, <1>5 DEF LinksOf
  <2>5. n \in 1..Len(Saved(t)) /\ x[n] = fil[t].clust
    BY <2>2, <1>6, <1>13, <1>14 DEF WritesAlong
  <2>6. m = n /\ g = fil[t].head
    BY <2>4, <2>5, <1>5, <1>14, <1>15, ChainsThatMeet
  <2>7. Len(w) \in Nat
    BY <1>15 DEF HoldsAlong
  <2> QED
    BY <2>2, <2>3, <2>6, <2>7
<1>16. ASSUME NEW g, NEW q, NEW w, HoldsAlong(vol, g, q, w), g # c,
              fil[t].head = 0 \/ g # fil[t].head \/ Len(w) <= n
       PROVE  HoldsAlong(vol', g, q, w)
  <2>1. Len(w) \in Nat /\ \A i \in 1..Len(w) : q[i] \in Cluster
    BY <1>16 DEF HoldsAlong
  <2>2. \A i \in 1..Len(w) : q[i] # c
    BY <2>1, <1>15, <1>16
  <2>3. \A i \in 1..Len(w) : vol'.data[q[i]] = vol.data[q[i]]
    BY <2>1, <2>2, <1>9
  <2> QED
    BY <2>3, <1>9, <1>16, ChainStays
<1>17. Promises'
  <2>1. ASSUME NEW s \in Slot, NEW w, NEW q, vol.dir[s] \in Entry, vol.dir[s].size = Len(w),
               HoldsAlong(vol, vol.dir[s].head, q, w)
        PROVE  HoldsAlong(vol', vol.dir[s].head, q, w)
    <3>1. vol.dir[s] \notin Blank
      BY <2>1, <1>5, VolumeIs, UsedIsNamed DEF Entry
    <3>2. vol.dir[s].head # c
      BY <3>1, <1>4 DEF Unnamed
    <3>3. fil[t].head # 0 /\ vol.dir[s].head = fil[t].head => s = fil[t].slot
      BY <3>1, <1>4, <1>7 DEF FileInv, Writes
    <3>4. s = fil[t].slot => Len(w) <= n
      BY <2>1, <1>4, <1>6 DEF FileData
    <3> QED
      BY <2>1, <3>2, <3>3, <3>4, <1>16
  <2>2. call.op \notin {"sync", "close"}
    BY <1>1
  <2> QED
    BY <2>1, <2>2, <1>8, <1>9, PromisesKept DEF DataInv, Promises
<1>18. FileData(t)'
  <2>1. fil'[t] = r
    BY <1>12
  <2>2. Saved(t)' = Append(Saved(t), fil[t].version)
    <3>1. Saved(t)' = [i \in 1..(n + 1) |-> fil[t].version]
      BY <2>1, <1>10 DEF Saved
    <3>2. Saved(t) = [i \in 1..n |-> fil[t].version]
      BY <1>6 DEF Saved
    <3>3. Append(Saved(t), fil[t].version) = [i \in 1..(n + 1) |-> IF i = n + 1 THEN fil[t].version ELSE Saved(t)[i]]
      BY <1>14
    <3>4. \A i \in 1..(n + 1) : i # n + 1 => i \in 1..n
      OBVIOUS
    <3> QED
      BY <3>1, <3>2, <3>3, <3>4
  <2>3. HoldsAlong(vol', h, x, Saved(t))
    <3>1. fil[t].head # c
      BY <1>4, <1>7 DEF Unnamed, Writes
    <3>2. HoldsAlong(vol', fil[t].head, x, Saved(t))
      BY <3>1, <1>14, <1>16
    <3>3. n > 0 => fil[t].head # 0
      BY <1>6, <1>13 DEF WritesAlong
    <3> QED
      BY <3>2, <3>3, <1>11, <1>14 DEF HoldsAlong
  <2>4. IF n = 0 THEN h = c ELSE vol'.fat[x[n]] = c
    <3>1. CASE n = 0
      BY <3>1, <1>6, <1>11, <1>13 DEF WritesAlong
    <3>2. CASE n # 0
      <4>1. fil[t].head # 0 /\ x[n] = fil[t].clust
        BY <3>2, <1>6, <1>13 DEF WritesAlong
      <4> QED
        BY <3>2, <4>1, <1>5, <1>9
    <3> QED
      BY <3>1, <3>2
  <2> DEFINE y == [i \in 1..(n + 1) |-> IF i = n + 1 THEN c ELSE x[i]]
  <2>5. HoldsAlong(vol', h, y, Append(Saved(t), fil[t].version))
    BY <2>3, <2>4, <1>7, <1>9, <1>14, OneMore
  <2>6. y[n + 1] = c
    OBVIOUS
  <2> HIDE DEF y
  <2>7. WritesAlong(t, y)'
    BY <2>1, <2>2, <2>5, <2>6, <1>10, <1>11 DEF WritesAlong
  <2>8. EndIsFree(t)'
    BY <2>1, <1>5, <1>9, <1>10 DEF EndIsFree
  <2>9. vol.dir[fil[t].slot].head \in {0, fil[t].head} /\ vol.dir[fil[t].slot].size <= n
    BY <1>4, <1>6 DEF FileData
  <2>10. vol.dir[fil[t].slot].size \in Nat
    <3>1. vol.dir[fil[t].slot] \in Entry
      BY <1>4, <1>5, VolumeIs DEF FileInv, Fil, Dir
    <3> QED
      BY <3>1, SizeAssumption DEF Entry
  <2>11. vol'.dir[r.slot].head \in {0, h} /\ vol'.dir[r.slot].size <= n + 1
    BY <2>9, <2>10, <1>9, <1>10, <1>11
  <2> QED
    BY <2>1, <2>7, <2>8, <2>11, <1>10 DEF FileData
<1>19. FilesData'
  <2>1. {t} \in SUBSET Thread /\ \A u \in Thread \ {t} : fil'[u] = fil[u]
    BY <1>12
  <2>2. ASSUME NEW u \in Thread \ {t}, Open(u), fil[u].write
        PROVE  /\ EndIsFree(u)'
               /\ \A q : HoldsAlong(vol, fil[u].head, q, Saved(u)) => HoldsAlong(vol', fil[u].head, q, Saved(u))
    <3>1. EndIsFree(u) /\ FileInv(u)
      BY <2>2, <1>5 DEF DataInv, FilesData, FileData, FilesInv
    <3>2. fil[u].head # c /\ (fil[t].head # 0 => fil[u].head # fil[t].head)
      BY <2>2, <3>1, <1>4, <1>5, <1>7 DEF FileInv, FilesInv, Unnamed, Writes
    <3>3. EndIsFree(u)'
      BY <2>1, <2>2, <3>1, <1>2, <1>9 DEF EndIsFree
    <3> QED
      BY <3>2, <3>3, <1>16
  <2> QED
    BY <2>1, <2>2, <1>9, <1>18, FilesDataKept DEF DataInv
<1> QED
  BY <1>8, <1>17, <1>19, NoCallData DEF DataInv

-----------------------------------------------------------------------------
(* The whole.                                                              *)

LEMMA InitData == Init => DataInv
<1> SUFFICES ASSUME Init PROVE DataInv
  OBVIOUS
<1>1. /\ promise = [n \in Name |-> None] /\ call = Idle
      /\ \A t \in Thread : ~Open(t)
  BY DEF Init, Open
<1>2. Promises
  BY <1>1 DEF Promises
<1> QED
  BY <1>1, <1>2 DEF DataInv, FilesData, CallData, Idle

LEMMA StutterData == ASSUME DataInv, UNCHANGED vars PROVE DataInv'
<1>1. UNCHANGED <<vol, card, fil, call, promise>>
  BY DEF vars
<1>2. Promises'
  BY <1>1 DEF DataInv, Promises, Promised, Syncing
<1>3. FilesData'
  BY <1>1 DEF DataInv, FilesData, FileData, Open, EndIsFree, WritesAlong, Saved
<1>4. CallData'
  BY <1>1 DEF DataInv, CallData
<1> QED
  BY <1>2, <1>3, <1>4 DEF DataInv

LEMMA DataInvStep == ASSUME Inv, DataInv, [Next]_vars PROVE DataInv'
<1>1. CASE UNCHANGED vars
  BY <1>1, StutterData
<1>2. ASSUME NEW t \in Thread, NEW n \in File, NEW always \in BOOLEAN, OpenRead(t, n, always)
      PROVE  DataInv'
  BY <1>2, OpenReadData
<1>3. ASSUME NEW t \in Thread, NEW n \in File, NEW v \in Version \cup {NoVersion}, Create(t, n, v)
      PROVE  DataInv'
  BY <1>3, CreateData
<1>4. ASSUME NEW t \in Thread, NEW n \in File, NEW v \in Version, Overwrite(t, n, v)
      PROVE  DataInv'
  BY <1>4, OverwriteData
<1>5. ASSUME NEW t \in Thread, Write(t) PROVE DataInv'
  BY <1>5, WriteData
<1>6. ASSUME NEW t \in Thread, Close(t) PROVE DataInv'
  BY <1>6, CloseData
<1>7. ASSUME NEW t \in Thread, NEW closing \in BOOLEAN, SyncEntry(t, closing) PROVE DataInv'
  BY <1>7, SyncEntryData
<1>8. ASSUME NEW n \in File, Unlink(n) PROVE DataInv'
  BY <1>8, UnlinkData
<1>9. ASSUME NEW n \in Folder, MakeFolder(n) PROVE DataInv'
  BY <1>9, MakeFolderData
<1>10. ASSUME NEW n \in File, NEW m \in File, Rename(n, m) PROVE DataInv'
  BY <1>10, RenameData
<1>11. CASE Look \/ FreeCluster \/ Overwritten \/ Link \/ Fill \/ Synced
  BY <1>11, LookData, FreeClusterData, OverwrittenData, LinkData, FillData, SyncedData
<1>12. CASE Unlinked \/ Renamed \/ Made \/ RemoveOld \/ Format \/ Register \/ PowerLoss
  BY <1>12, UnlinkedData, RenamedData, MadeData, RemoveOldData, FormatData, RegisterData, PowerLossData
<1> QED
  BY <1>1, <1>2, <1>3, <1>4, <1>5, <1>6, <1>7, <1>8, <1>9, <1>10, <1>11, <1>12 DEF Next

LEMMA DataHolds == Spec => [](hurt \/ (Inv /\ DataInv))
<1>1. (hurt \/ (Inv /\ DataInv)) /\ [Next]_vars => (hurt \/ (Inv /\ DataInv))'
  BY InvStep, DataInvStep, HurtStays
<1> QED
  BY <1>1, InitInv, InitData, PTL DEF Spec

(***************************************************************************)
(* Trails.                                                                 *)
(***************************************************************************)

\* g follows the links of f from h for n clusters.
Follows(f, h, g, n) ==
  \A i \in 1..n : g[i] = IF i = 1 THEN h ELSE IF g[i - 1] \in Cluster THEN f[g[i - 1]] ELSE g[i - 1]

LEMMA TrailsExist ==
  ASSUME NEW f \in Fat, NEW h \in 0..Eoc
  PROVE  \A n \in Nat : \E g \in [1..n -> 0..Eoc] : Follows(f, h, g, n)
<1> DEFINE Good(n) == \E g \in [1..n -> 0..Eoc] : Follows(f, h, g, n)
           S == {n \in Nat : ~Good(n)}
<1> SUFFICES ASSUME S # {} PROVE FALSE
  OBVIOUS
<1>1. S \in SUBSET Nat
  OBVIOUS
<1>2. PICK n \in S : \A m \in S : n <= m
  BY <1>1, SmallestIn
<1>3. n \in Nat /\ ~Good(n)
  OBVIOUS
<1> HIDE DEF Good
<1>4. CASE n = 0
  <2>1. [i \in 1..0 |-> h] \in [1..0 -> 0..Eoc] /\ Follows(f, h, [i \in 1..0 |-> h], 0)
    BY DEF Follows
  <2> QED
    BY <1>3, <1>4, <2>1 DEF Good
<1>5. CASE n # 0
  <2>1. PICK m \in Nat : n = m + 1
    BY <1>3, <1>5
  <2>2. Good(m)
    BY <1>2, <2>1
  <2>3. PICK g \in [1..m -> 0..Eoc] : Follows(f, h, g, m)
    BY <2>2 DEF Good
  <2> DEFINE last == IF m = 0 THEN h ELSE IF g[m] \in Cluster THEN f[g[m]] ELSE g[m]
             k == [i \in 1..(m + 1) |-> IF i = m + 1 THEN last ELSE g[i]]
  <2>4. last \in 0..Eoc
    BY <2>3 DEF Fat
  <2>5. k \in [1..(m + 1) -> 0..Eoc]
    BY <2>3, <2>4
  <2>6. k[m + 1] = last /\ \A i \in 1..m : k[i] = g[i]
    OBVIOUS
  <2>7. (m + 1) - 1 = m /\ \A i \in 1..m : i = 1 \/ i - 1 \in 1..m
    OBVIOUS
  <2> HIDE DEF k
  <2>8. ASSUME NEW i \in 1..(m + 1)
        PROVE  k[i] = IF i = 1 THEN h ELSE IF k[i - 1] \in Cluster THEN f[k[i - 1]] ELSE k[i - 1]
    <3>1. CASE i = m + 1
      <4>1. CASE m = 0
        BY <3>1, <4>1, <2>6
      <4>2. CASE m # 0
        <5>1. m \in 1..m /\ m + 1 # 1
          BY <4>2
        <5> QED
          BY <3>1, <4>2, <5>1, <2>6, <2>7
      <4> QED
        BY <4>1, <4>2
    <3>2. CASE i # m + 1
      <4>1. i \in 1..m
        BY <3>2
      <4> QED
        BY <4>1, <2>3, <2>6, <2>7 DEF Follows
    <3> QED
      BY <3>1, <3>2
  <2>9. Good(m + 1)
    BY <2>5, <2>8 DEF Follows, Good
  <2> QED
    BY <1>3, <2>1, <2>9
<1> QED
  BY <1>4, <1>5

LEMMA TrailFollows ==
  ASSUME NEW v \in Volume, NEW h \in 0..Eoc
  PROVE  Follows(v.fat, h, Trail(v, h), Clusters)
<1> DEFINE IsTrail(g) ==
             g = [i \in 1..Clusters |->
                   IF i = 1 THEN h ELSE IF g[i - 1] \in Cluster THEN v.fat[g[i - 1]] ELSE g[i - 1]]
           G == CHOOSE g : IsTrail(g)
<1>1. PICK k \in [1..Clusters -> 0..Eoc] : Follows(v.fat, h, k, Clusters)
  BY TrailsExist, Sizes, VolumeIs
<1>2. IsTrail(k)
  BY <1>1 DEF Follows
<1>3. IsTrail(G)
  BY <1>2, Zenon
<1>4. Trail(v, h) = G
  BY DEF Trail
<1> HIDE DEF G
<1>5. Follows(v.fat, h, G, Clusters)
  BY <1>3 DEF Follows
<1> QED
  BY <1>4, <1>5

\* What an entry holds along a chain it holds along its trail.
LEMMA KeptIsHeld == ASSUME NEW v \in Volume, NEW s \in Slot, NEW w, Kept(v, s, w) PROVE Holds(v, s, w)
<1>1. PICK q : HoldsAlong(v, v.dir[s].head, q, w)
  BY DEF Kept
<1>2. PICK n \in Nat : n = Len(w)
  BY <1>1 DEF HoldsAlong
<1> DEFINE h == v.dir[s].head
<1>3. /\ q \in [1..n -> Cluster] /\ (n > 0 => q[1] = h)
      /\ \A i \in 1..(n - 1) : v.fat[q[i]] = q[i + 1]
      /\ \A i \in 1..n : v.data[q[i]] = <<w[i], i>>
  BY <1>1, <1>2 DEF HoldsAlong
<1>4. v.dir[s] \in Entry /\ v.dir[s].size = n /\ v.dir[s] \notin Blank /\ h \in 0..Eoc
  <2>1. v.dir[s] \in Entry /\ v.dir[s].size = n
    BY <1>2 DEF Kept
  <2> QED
    BY <2>1, VolumeIs, UsedIsNamed, Sizes DEF Entry
<1>5. n <= Clusters
  <2> SUFFICES ASSUME n > Clusters PROVE FALSE
    BY Sizes
  <2>5. n > 0 /\ 1 \in Int /\ n \in Int
    BY Sizes
  <2>1. IsFiniteSet(1..n) /\ Cardinality(1..n) = n
    BY <2>5, FS_Interval
  <2>2. IsFiniteSet(Cluster) /\ Cardinality(Cluster) = Clusters
    BY Sizes, FS_Interval DEF Cluster
  <2>3. PICK i \in 1..n, j \in 1..n : i # j /\ q[i] = q[j]
    BY <2>1, <2>2, <1>3, FS_PigeonHole
  <2>4. <<w[i], i>> = <<w[j], j>>
    BY <2>3, <1>3
  <2> QED
    BY <2>3, <2>4
<1> DEFINE T == Trail(v, h)
<1>6. Follows(v.fat, h, T, Clusters)
  BY <1>4, TrailFollows
<1> HIDE DEF T, h
<1>7. \A i \in 1..n : T[i] = q[i]
  <2> DEFINE S == {i \in 1..n : T[i] # q[i]}
  <2> SUFFICES ASSUME S # {} PROVE FALSE
    OBVIOUS
  <2>1. S \in SUBSET Nat
    OBVIOUS
  <2>2. PICK i \in S : \A j \in S : i <= j
    BY <2>1, SmallestIn
  <2>3. i \in 1..n /\ i \in 1..Clusters /\ T[i] # q[i]
    BY <1>5, Sizes
  <2>4. i # 1
    BY <2>3, <1>3, <1>6 DEF Follows
  <2>5. PICK j \in Nat : i = j + 1
    BY <2>3
  <2>6. j \in 1..n /\ j \in 1..(n - 1) /\ j = i - 1 /\ j \notin S
    BY <2>2, <2>3, <2>4, <2>5
  <2>7. T[j] = q[j] /\ q[j] \in Cluster /\ v.fat[q[j]] = q[i]
    BY <2>5, <2>6, <1>3
  <2>8. T[i] = v.fat[T[j]]
    BY <2>3, <2>4, <2>6, <2>7, <1>6 DEF Follows
  <2> QED
    BY <2>3, <2>7, <2>8
<1>8. \A i \in 1..Len(w) : Trail(v, v.dir[s].head)[i] \in Cluster /\ v.data[Trail(v, v.dir[s].head)[i]] = <<w[i], i>>
  BY <1>2, <1>3, <1>7 DEF T, h
<1> QED
  BY <1>2, <1>4, <1>8 DEF Holds, Used

\* What a completed f_sync or f_close has put on the card is on the card at every
\* instant, whatever any number of threads do to other files and wherever the
\* power fails, until that file is overwritten or removed, or one of the two names
\* that a rename may have left for a chain; until a rename is
\* over the old name is the one that counts.
THEOREM SyncedAlwaysSurvives == Spec => []SyncedSurvives
<1>1. hurt \/ (Inv /\ DataInv) => SyncedSurvives
  <2> SUFFICES ASSUME Inv, DataInv PROVE SyncedSurvives
    BY DEF SyncedSurvives
  <2>1. card \in Volume
    BY DEF Inv, VolumeInv, Types
  <2>2. ASSUME NEW n \in Name, promise[n] # None
        PROVE  \E s \in Slot : card.dir[s].name = n /\ Holds(card, s, promise[n])
    <3>1. PICK s \in Slot : card.dir[s].name = n /\ Kept(card, s, promise[n])
      BY <2>2 DEF DataInv, Promises, Promised
    <3> QED
      BY <3>1, <2>1, KeptIsHeld
  <2>3. ASSUME call.op = "rename", call.was # None
        PROVE  Holds(card, call.old, call.was)
    <3>1. call.old \in Slot
      BY <2>3 DEF Inv, VolumeInv, Types, CallType, Idle
    <3>2. Kept(card, call.old, call.was)
      BY <2>3 DEF DataInv, CallData
    <3> QED
      BY <3>1, <3>2, <2>1, KeptIsHeld
  <2> QED
    BY <2>2, <2>3 DEF SyncedSurvives
<1> QED
  BY <1>1, DataHolds, PTL

(***************************************************************************)
(* Clusters that something leads to.                                       *)
(***************************************************************************)

Entered(c) == \E s \in Slot : vol.dir[s] \notin Blank /\ vol.dir[s].head = c
Held(c) == \E t \in Thread : Open(t) /\ fil[t].head = c
Claimed(c) == "cl" \in DOMAIN call /\ call.cl = c
Reached(c) == Linked(vol, c) \/ Entered(c) \/ Held(c) \/ Claimed(c)

LEMMA Reaching ==
  ASSUME \A c \in Cluster : vol'.fat[c] # 0 =>
           /\ vol.fat[c] = 0 => Reached(c)'
           /\ Linked(vol, c) => Reached(c)'
           /\ Entered(c) => Reached(c)'
           /\ Held(c) => Reached(c)'
           /\ Claimed(c) => Reached(c)'
  PROVE  Orphans' \subseteq Orphans
<1>1. Orphans = {c \in Cluster : vol.fat[c] # 0 /\ ~Reached(c)}
  BY DEF Orphans, Reached, Entered, Held, Claimed, Used, Open
<1>2. Orphans' = {c \in Cluster : vol'.fat[c] # 0 /\ ~Reached(c)'}
  BY DEF Orphans, Reached, Entered, Held, Claimed, Used, Open
<1> QED
  BY <1>1, <1>2 DEF Reached

\* Which calls claim a cluster.
LEMMA Claims ==
  ASSUME CallType
  PROVE  /\ call.op \in {"none", "sync", "close", "rename"} => \A c : ~Claimed(c)
         /\ call.op \in {"open", "unlink", "fill", "link", "format", "register", "made"} =>
              \A c : Claimed(c) <=> call.cl = c
<1>1. CASE call = Idle
  BY <1>1 DEF Claimed, Idle
<1>2. CASE call \in [op : {"open"}, th : Thread, slot : Slot, version : Version, cl : 0..Eoc, first : Cluster]
  BY <1>2 DEF Claimed
<1>3. CASE call \in [op : {"unlink"}, cl : 0..Eoc]
  BY <1>3 DEF Claimed
<1>4. CASE call \in [op : {"fill", "link"}, th : Thread, cl : Cluster]
  BY <1>4 DEF Claimed
<1>5. CASE call \in [op : {"sync", "close"}, th : Thread]
  BY <1>5 DEF Claimed
<1>6. CASE call.op = "rename" /\ call \in [op : {"rename"}, old : Slot, new : Slot, was : {call.was}, half : BOOLEAN]
  BY <1>6 DEF Claimed
<1>7. CASE call \in [op : {"format", "register", "made"}, name : Folder, cl : Cluster]
  BY <1>7 DEF Claimed
<1> QED
  BY <1>1, <1>2, <1>3, <1>4, <1>5, <1>6, <1>7 DEF CallType

\* Files are opened, the volume stays.
LEMMA OpeningLeaks ==
  ASSUME Types, NEW t \in Thread, ~Open(t), \A u \in Thread \ {t} : fil'[u] = fil[u], UNCHANGED vol,
         \A c \in Cluster : ~Claimed(c)
  PROVE  Orphans' \subseteq Orphans
<1>1. \A c : (Linked(vol, c) => Linked(vol, c)') /\ (Entered(c) => Entered(c)') /\ (Held(c) => Held(c)')
  BY DEF Linked, Entered, Held, Open
<1> QED
  BY <1>1, Reaching DEF Reached

\* Calls that change nothing but entries that they need no more, or none.
LEMMA EndingLeaks ==
  ASSUME UNCHANGED <<vol, fil>>, \A c \in Cluster : Claimed(c) => Entered(c)
  PROVE  Orphans' \subseteq Orphans
<1>1. \A c : (Linked(vol, c) => Linked(vol, c)') /\ (Entered(c) => Entered(c)') /\ (Held(c) => Held(c)')
  BY DEF Linked, Entered, Held, Open
<1> QED
  BY <1>1, Reaching DEF Reached

\* An entry is changed while what it had is still led to.
LEMMA EntryLeaks ==
  ASSUME Types, NEW s \in Slot, NEW e \in Entry \cup Blank, SetEntry(s, e),
         NEW S \in SUBSET Thread, \A u \in Thread \ S : fil'[u] = fil[u],
         \A u \in S : ~Open(u) \/ (Open(u)' /\ fil'[u].head = fil[u].head),
         \A c \in Cluster : Claimed(c) => Reached(c)',
         \A c \in Cluster : vol.dir[s] \notin Blank /\ vol.dir[s].head = c => Reached(c)'
  PROVE  Orphans' \subseteq Orphans
<1>1. /\ vol'.fat = vol.fat /\ vol'.data = vol.data
      /\ \A q \in Slot : vol'.dir[q] = IF q = s THEN e ELSE vol.dir[q]
  BY ChangeEntry DEF Types
<1>2. \A c : (Linked(vol, c) => Linked(vol, c)') /\ (Held(c) => Held(c)')
  BY <1>1 DEF Linked, Held, Open
<1>3. \A c \in Cluster : Entered(c) => Reached(c)'
  BY <1>1 DEF Entered, Reached
<1> QED
  BY <1>1, <1>2, <1>3, Reaching DEF Reached

LEMMA StaticLeaks ==
  ASSUME Inv, DataInv,
         \/ Look \/ Overwritten \/ Synced \/ Unlinked \/ Renamed \/ Made
         \/ \E t \in Thread : Close(t)
         \/ \E t \in Thread, n \in File, always \in BOOLEAN : OpenRead(t, n, always)
  PROVE  Orphans' \subseteq Orphans
<1>1. Types /\ CallType
  BY DEF Inv, VolumeInv, Types
<1>2. CASE Look
  <2>1. call = Idle /\ UNCHANGED <<vol, fil>>
    BY <1>2 DEF Look
  <2>2. \A c : ~Claimed(c)
    BY <2>1 DEF Claimed, Idle
  <2> QED
    BY <2>1, <2>2, EndingLeaks
<1>3. CASE Overwritten
  <2>1. call \in [op : {"open"}, th : Thread, slot : Slot, version : Version, cl : 0..Eoc, first : Cluster]
    BY <1>1, <1>3 DEF Overwritten, CallType, Idle
  <2>2. PICK t \in Thread : t = call.th
    BY <2>1
  <2>3. ~Open(t) /\ UNCHANGED vol /\ call.cl \notin Cluster
    BY <1>3, <2>2 DEF Overwritten, Inv, VolumeInv, CallInv
  <2>4. \A u \in Thread \ {t} : fil'[u] = fil[u]
    BY <1>1, <1>3, <2>2 DEF Overwritten, Types
  <2>5. \A c \in Cluster : ~Claimed(c)
    BY <2>3 DEF Claimed
  <2> QED
    BY <1>1, <2>3, <2>4, <2>5, OpeningLeaks
<1>4. ASSUME NEW t \in Thread, Release(t), UNCHANGED vol, Open(t), ~fil[t].written,
             \A c : ~Claimed(c)
      PROVE  Orphans' \subseteq Orphans
  <2>1. FileInv(t)
    BY <1>4 DEF Inv, VolumeInv, FilesInv
  <2>2. vol.dir[fil[t].slot] \notin Blank /\ vol.dir[fil[t].slot].head = fil[t].head /\ fil[t].slot \in Slot
    BY <1>1, <1>4, <2>1, ClosedHoldsNothing DEF FileInv, Fil
  <2>3. \A u \in Thread \ {t} : fil'[u] = fil[u]
    BY <1>1, <1>4 DEF Release, Types
  <2>4. \A c : (Linked(vol, c) => Linked(vol, c)') /\ (Entered(c) => Entered(c)')
    BY <1>4 DEF Linked, Entered
  <2>5. \A c : Held(c) => Held(c)' \/ Entered(c)
    BY <2>2, <2>3 DEF Held, Entered, Open
  <2> QED
    BY <1>4, <2>4, <2>5, Reaching DEF Reached
<1>5. CASE Synced
  <2>1. call \in [op : {"sync", "close"}, th : Thread]
    BY <1>1, <1>5 DEF Synced, CallType, Idle
  <2>2. PICK t \in Thread : t = call.th
    BY <2>1
  <2>3. UNCHANGED vol /\ Open(t) /\ ~fil[t].written
    BY <1>5, <2>1, <2>2 DEF Synced, Inv, VolumeInv, CallInv, DataInv, CallData
  <2>4. \A c : ~Claimed(c)
    BY <2>1 DEF Claimed
  <2>5. CASE Release(t)
    BY <2>3, <2>4, <2>5, <1>4
  <2>6. CASE UNCHANGED fil
    BY <2>3, <2>4, <2>6, EndingLeaks
  <2> QED
    BY <1>5, <2>2, <2>5, <2>6 DEF Synced
<1>6. ASSUME NEW t \in Thread, Close(t)
      PROVE  Orphans' \subseteq Orphans
  <2>1. Release(t) /\ UNCHANGED vol /\ Open(t) /\ ~fil[t].written /\ call = Idle
    BY <1>6 DEF Close, Open
  <2>2. \A c : ~Claimed(c)
    BY <2>1 DEF Claimed, Idle
  <2> QED
    BY <2>1, <2>2, <1>4
<1>7. ASSUME NEW t \in Thread, NEW n \in File, NEW always \in BOOLEAN, OpenRead(t, n, always)
      PROVE  Orphans' \subseteq Orphans
  <2>1. ~Open(t) /\ UNCHANGED vol /\ call = Idle /\ \A u \in Thread \ {t} : fil'[u] = fil[u]
    BY <1>1, <1>7 DEF OpenRead, Open, Types
  <2>2. \A c : ~Claimed(c)
    BY <2>1 DEF Claimed, Idle
  <2> QED
    BY <1>1, <2>1, <2>2, OpeningLeaks
<1>8. CASE Unlinked \/ Renamed
  <2>1. UNCHANGED <<vol, fil>> /\ call.op \in {"unlink", "rename"}
    BY <1>8 DEF Unlinked, Renamed
  <2>2. \A c \in Cluster : ~Claimed(c)
    <3>1. CASE call.op = "unlink"
      BY <3>1, <1>8 DEF Unlinked, Renamed, Claimed
    <3>2. CASE call.op = "rename"
      BY <3>2, <1>1, Claims
    <3> QED
      BY <2>1, <3>1, <3>2
  <2> QED
    BY <2>1, <2>2, EndingLeaks
<1>9. CASE Made
  <2>1. UNCHANGED <<vol, fil>> /\ call.op = "made"
    BY <1>9 DEF Made
  <2>2. PICK s \in Slot : vol.dir[s] = [name |-> call.name, head |-> call.cl, size |-> 0]
    BY <2>1 DEF DataInv, CallData
  <2>3. call \in [op : {"made"}, name : Folder, cl : Cluster]
    BY <2>1, <1>1 DEF CallType, Idle
  <2>4. vol.dir[s] \notin Blank
    <3>1. vol.dir[s].name \in Name
      BY <2>2, <2>3 DEF Name
    <3> QED
      BY <3>1, <1>1, VolumeIs, UsedIsNamed DEF Types
  <2>5. \A c \in Cluster : Claimed(c) => Entered(c)
    BY <2>2, <2>4 DEF Claimed, Entered
  <2> QED
    BY <2>1, <2>5, EndingLeaks
<1> QED
  BY <1>2, <1>3, <1>5, <1>6, <1>7, <1>8, <1>9

LEMMA CreateLeaks ==
  ASSUME Inv, NEW t \in Thread, NEW n \in File, NEW v \in Version \cup {NoVersion}, Create(t, n, v)
  PROVE  Orphans' \subseteq Orphans
<1>1. PICK s \in Slot : s = First(BlankSlots) /\ vol.dir[s] \in Blank
  BY FirstBlank DEF Create
<1>2. PICK e \in Entry \cup Blank : e = [name |-> n, head |-> 0, size |-> 0]
  <2>1. n \in Name /\ 0 \in Cluster \cup {0} /\ 0 \in 0..MaxSize
    BY SizeAssumption DEF Name
  <2>2. [name |-> n, head |-> 0, size |-> 0] \in Entry
    BY <2>1 DEF Entry
  <2> QED
    BY <2>2
<1>3. /\ call = Idle /\ SetEntry(s, e) /\ ~Open(t) /\ Types
      /\ {t} \in SUBSET Thread /\ \A u \in Thread \ {t} : fil'[u] = fil[u]
  BY <1>1, <1>2 DEF Create, Open, Inv, VolumeInv, Types
<1>4. \A c : ~Claimed(c)
  BY <1>3 DEF Claimed, Idle
<1> QED
  BY <1>1, <1>3, <1>4, EntryLeaks

LEMMA OverwriteLeaks ==
  ASSUME Inv, NEW t \in Thread, NEW n \in File, NEW v \in Version, Overwrite(t, n, v)
  PROVE  Orphans' \subseteq Orphans
<1>1. PICK s \in Slot : s = SlotOf(n) /\ vol.dir[s] \in Entry
  BY SlotOfIs DEF Overwrite, Name, Inv, VolumeInv
<1>2. PICK e \in Entry \cup Blank : e = Emptied(vol.dir[s])
  <2>1. 0 \in 0..MaxSize /\ 0 \in Cluster \cup {0}
    BY SizeAssumption
  <2> QED
    BY <1>1, <2>1 DEF Emptied, Entry
<1>3. /\ call = Idle /\ SetEntry(s, e) /\ ~Open(t) /\ Types
      /\ {t} \in SUBSET Thread
  BY <1>1, <1>2 DEF Overwrite, Open, Inv, VolumeInv
<1>4. \A u \in Thread \ {t} : fil'[u] = fil[u]
  BY <1>3 DEF Overwrite, Types
<1>5. \A c : ~Claimed(c)
  BY <1>3 DEF Claimed, Idle
<1>6. \A c \in Cluster : vol.dir[s].head = c => Reached(c)'
  <2> SUFFICES ASSUME NEW c \in Cluster, vol.dir[s].head = c
               PROVE  Reached(c)'
    OBVIOUS
  <2>1. call' = [op |-> "open", th |-> t, slot |-> s, version |-> v, cl |-> c, first |-> c]
    BY <1>1, Sizes DEF Overwrite
  <2>2. Claimed(c)'
    BY <2>1 DEF Claimed
  <2> QED
    BY <2>2 DEF Reached
<1> QED
  BY <1>3, <1>4, <1>5, <1>6, EntryLeaks

LEMMA SyncEntryLeaks ==
  ASSUME Inv, DataInv, NEW t \in Thread, NEW closing \in BOOLEAN, SyncEntry(t, closing)
  PROVE  Orphans' \subseteq Orphans
<1>1. Open(t) /\ fil[t] \in Fil /\ call = Idle /\ FileInv(t) /\ FileData(t) /\ Types
  BY ClosedHoldsNothing DEF SyncEntry, Open, Inv, VolumeInv, FilesInv, DataInv, FilesData
<1>2. PICK s \in Slot : s = fil[t].slot
  BY <1>1 DEF Fil
<1>3. vol.dir[s] \in Entry /\ vol.dir[s].head \in {0, fil[t].head}
  BY <1>1, <1>2, VolumeIs DEF FileInv, FileData, Types, Dir
<1>4. PICK e \in Entry \cup Blank : e = [vol.dir[s] EXCEPT !.head = fil[t].head, !.size = fil[t].size]
  BY <1>1, <1>3 DEF Entry, Fil
<1>5. SetEntry(s, e) /\ fil' = [fil EXCEPT ![t] = [fil[t] EXCEPT !.written = FALSE]]
  BY <1>2, <1>4 DEF SyncEntry
<1>6. \A u \in Thread : fil'[u] = IF u = t THEN [fil[t] EXCEPT !.written = FALSE] ELSE fil[u]
  BY <1>1, <1>5 DEF Types
<1>7. fil'[t].head = fil[t].head /\ Open(t)'
  <2>1. fil'[t].head = fil[t].head /\ fil'[t].slot = fil[t].slot
    BY <1>1, <1>6 DEF Fil
  <2> QED
    BY <2>1, <1>2, Sizes DEF Open, Closed
<1>8. \A c : ~Claimed(c)
  BY <1>1 DEF Claimed, Idle
<1>9. \A c \in Cluster : vol.dir[s].head = c => Reached(c)'
  BY <1>3, <1>7, Sizes DEF Reached, Held
<1>10. {t} \in SUBSET Thread /\ \A u \in Thread \ {t} : fil'[u] = fil[u]
  BY <1>6
<1> QED
  BY <1>1, <1>5, <1>7, <1>8, <1>9, <1>10, EntryLeaks

LEMMA UnlinkLeaks == ASSUME Inv, NEW n \in File, Unlink(n) PROVE Orphans' \subseteq Orphans
<1>1. PICK s \in Slot : s = SlotOf(n)
  BY SlotOfIs DEF Unlink, Name, Inv, VolumeInv
<1>2. /\ call = Idle /\ SetEntry(s, Deleted) /\ UNCHANGED fil /\ Types
      /\ call' = [op |-> "unlink", cl |-> vol.dir[s].head]
      /\ Deleted \in Entry \cup Blank /\ {} \in SUBSET Thread
  BY <1>1 DEF Unlink, Blank, Inv, VolumeInv
<1>3. \A c : ~Claimed(c)
  BY <1>2 DEF Claimed, Idle
<1>4. \A c \in Cluster : vol.dir[s].head = c => Reached(c)'
  BY <1>2 DEF Reached, Claimed
<1> QED
  BY <1>2, <1>3, <1>4, EntryLeaks

LEMMA RenameLeaks == ASSUME Inv, NEW n \in File, NEW m \in File, Rename(n, m) PROVE Orphans' \subseteq Orphans
<1>1. PICK s \in Slot : s = SlotOf(n) /\ vol.dir[s] \in Entry
  BY SlotOfIs DEF Rename, Name, Inv, VolumeInv
<1>2. PICK q \in Slot : q = First(BlankSlots) /\ vol.dir[q] \in Blank
  BY FirstBlank DEF Rename
<1>3. PICK e \in Entry \cup Blank : e = [vol.dir[s] EXCEPT !.name = m]
  BY <1>1 DEF Entry, Name
<1>4. call = Idle /\ SetEntry(q, e) /\ UNCHANGED fil /\ Types /\ {} \in SUBSET Thread
  BY <1>1, <1>2, <1>3 DEF Rename, Inv, VolumeInv
<1>5. \A c : ~Claimed(c)
  BY <1>4 DEF Claimed, Idle
<1> QED
  BY <1>2, <1>4, <1>5, EntryLeaks

LEMMA RemoveOldLeaks == ASSUME Inv, DataInv, RemoveOld PROVE Orphans' \subseteq Orphans
<1>1. /\ call \in [op : {"rename"}, old : Slot, new : Slot, was : {call.was}, half : BOOLEAN]
      /\ call.half /\ Types /\ vol \in Volume
  BY DEF RemoveOld, Inv, VolumeInv, Types, CallType, Idle
<1>2. PICK s \in Slot : s = call.old
  BY <1>1
<1>3. PICK q \in Slot : q = call.new
  BY <1>1
<1>4. s # q /\ vol.dir[q] \notin Blank /\ vol.dir[s].head = vol.dir[q].head
  BY <1>1, <1>2, <1>3 DEF Inv, VolumeInv, CallInv, DataInv, CallData
<1>5. SetEntry(s, Deleted) /\ UNCHANGED fil /\ Deleted \in Entry \cup Blank /\ {} \in SUBSET Thread
  BY <1>2 DEF RemoveOld, Blank
<1>6. \A c : ~Claimed(c)
  BY <1>1 DEF Claimed
<1>7. vol'.dir[q] = vol.dir[q]
  BY <1>1, <1>4, <1>5, ChangeEntry
<1>8. \A c \in Cluster : vol.dir[s].head = c => Reached(c)'
  BY <1>4, <1>7 DEF Reached, Entered
<1> QED
  BY <1>1, <1>5, <1>6, <1>8, EntryLeaks

LEMMA RegisterLeaks == ASSUME Inv, DataInv, Register PROVE Orphans' \subseteq Orphans
<1>1. call \in [op : {"register"}, name : Folder, cl : Cluster] /\ Types /\ vol \in Volume
  BY DEF Register, Inv, VolumeInv, Types, CallType, Idle
<1>2. PICK c \in Cluster : c = call.cl /\ vol.fat[c] \notin Cluster
  BY <1>1 DEF DataInv, CallData
<1>3. \A d : Claimed(d) => d = c
  BY <1>2 DEF Claimed
<1>4. UNCHANGED fil /\ {} \in SUBSET Thread
  BY DEF Register
<1>5. CASE BlankSlots # {}
  <2>1. PICK s \in Slot : s = First(BlankSlots) /\ vol.dir[s] \in Blank
    BY <1>5, FirstBlank
  <2>2. PICK e \in Entry \cup Blank : e = [name |-> call.name, head |-> c, size |-> 0]
    <3>1. call.name \in Name /\ 0 \in 0..MaxSize
      BY <1>1, SizeAssumption DEF Name
    <3>2. [name |-> call.name, head |-> c, size |-> 0] \in Entry
      BY <3>1 DEF Entry
    <3> QED
      BY <3>2
  <2>3. SetEntry(s, e) /\ call' = [call EXCEPT !.op = "made"]
    BY <1>2, <1>5, <2>1, <2>2 DEF Register
  <2>4. Claimed(c)'
    BY <1>1, <1>2, <2>3 DEF Claimed
  <2> QED
    BY <1>1, <1>3, <1>4, <2>1, <2>3, <2>4, EntryLeaks DEF Reached
<1>6. CASE BlankSlots = {}
  <2>1. vol' = [vol EXCEPT !.fat[c] = 0]
    BY <1>2, <1>6 DEF Register
  <2>2. /\ vol'.dir = vol.dir
        /\ \A d \in Cluster : vol'.fat[d] = IF d = c THEN 0 ELSE vol.fat[d]
    BY <1>1, <2>1, ChangeLink, VolumeIs, Sizes DEF Fat
  <2>3. \A d \in Cluster : Linked(vol, d) => Linked(vol, d)'
    BY <1>2, <2>2 DEF Linked
  <2>4. \A d \in Cluster : (Entered(d) => Entered(d)') /\ (Held(d) => Held(d)')
    BY <1>4, <2>2 DEF Entered, Held, Open
  <2> QED
    BY <1>3, <2>2, <2>3, <2>4, Reaching DEF Reached
<1> QED
  BY <1>5, <1>6

LEMMA FreeClusterLeaks == ASSUME Inv, FreeCluster PROVE Orphans' \subseteq Orphans
<1>1. PICK c \in Cluster : c = call.cl
  BY DEF FreeCluster
<1>2. vol \in Volume /\ Types /\ CallType /\ vol' = [vol EXCEPT !.fat[c] = 0] /\ UNCHANGED fil
  BY <1>1 DEF FreeCluster, Inv, VolumeInv, Types
<1>3. /\ vol'.dir = vol.dir
      /\ \A d \in Cluster : vol'.fat[d] = IF d = c THEN 0 ELSE vol.fat[d]
  BY <1>2, ChangeLink, VolumeIs, Sizes DEF Fat
<1>4. \A d : Claimed(d) => d = c
  BY <1>1 DEF Claimed
<1>5. PICK n : n = vol.fat[c]
  OBVIOUS
<1>6. Claimed(n)'
  <2>1. call' = [call EXCEPT !.cl = n] /\ call.op \in {"open", "unlink"}
    BY <1>1, <1>5 DEF FreeCluster
  <2>2. CASE call.op = "open"
    <3>1. call \in [op : {"open"}, th : Thread, slot : Slot, version : Version, cl : 0..Eoc, first : Cluster]
      BY <2>2, <1>2 DEF CallType, Idle
    <3>2. "cl" \in DOMAIN call' /\ call'.cl = n
      BY <2>1, <3>1
    <3> QED
      BY <3>2 DEF Claimed
  <2>3. CASE call.op = "unlink"
    <3>1. call \in [op : {"unlink"}, cl : 0..Eoc]
      BY <2>3, <1>2 DEF CallType, Idle
    <3>2. "cl" \in DOMAIN call' /\ call'.cl = n
      BY <2>1, <3>1
    <3> QED
      BY <3>2 DEF Claimed
  <2> QED
    BY <2>1, <2>2, <2>3
<1>7. \A d \in Cluster : Linked(vol, d) => Linked(vol, d)' \/ d = n
  BY <1>3, <1>5 DEF Linked
<1>8. \A d \in Cluster : (Entered(d) => Entered(d)') /\ (Held(d) => Held(d)')
  BY <1>2, <1>3 DEF Entered, Held, Open
<1> QED
  BY <1>3, <1>4, <1>6, <1>7, <1>8, Reaching DEF Reached

\* A cluster is allocated and claimed.
LEMMA AllocatingLeaks ==
  ASSUME vol \in Volume, NEW c \in Cluster, vol.fat[c] = 0, vol' = [vol EXCEPT !.fat[c] = Eoc],
         UNCHANGED fil, \A d : ~Claimed(d), Claimed(c)'
  PROVE  Orphans' \subseteq Orphans
<1>1. /\ vol'.dir = vol.dir
      /\ \A d \in Cluster : vol'.fat[d] = IF d = c THEN Eoc ELSE vol.fat[d]
  BY ChangeLink, VolumeIs, Sizes DEF Fat
<1>2. \A d \in Cluster : Linked(vol, d) => Linked(vol, d)'
  BY <1>1, Sizes DEF Linked
<1>3. \A d \in Cluster : (Entered(d) => Entered(d)') /\ (Held(d) => Held(d)')
  BY <1>1 DEF Entered, Held, Open
<1>4. \A d \in Cluster : vol'.fat[d] # 0 /\ vol.fat[d] = 0 => Claimed(d)'
  BY <1>1
<1> QED
  BY <1>2, <1>3, <1>4, Reaching DEF Reached

LEMMA MakeFolderLeaks == ASSUME Inv, NEW n \in Folder, MakeFolder(n) PROVE Orphans' \subseteq Orphans
<1>1. call = Idle /\ last_clust \in 0..Clusters /\ vol \in Volume
  BY DEF MakeFolder, Inv, VolumeInv, Types
<1>2. PICK c \in Cluster : c = NextFree(last_clust) /\ vol.fat[c] = 0
  BY <1>1, NextIsFree DEF MakeFolder
<1>3. /\ UNCHANGED fil /\ vol' = [vol EXCEPT !.fat[c] = Eoc]
      /\ call' = [op |-> "format", name |-> n, cl |-> c]
  BY <1>2 DEF MakeFolder
<1>4. Claimed(c)' /\ \A d : ~Claimed(d)
  BY <1>1, <1>3 DEF Claimed, Idle
<1> QED
  BY <1>1, <1>2, <1>3, <1>4, AllocatingLeaks

LEMMA WriteLeaks == ASSUME Inv, NEW t \in Thread, Write(t) PROVE Orphans' \subseteq Orphans
<1> DEFINE scl == IF fil[t].clust = 0 THEN last_clust ELSE fil[t].clust
<1>1. call = Idle /\ Open(t) /\ fil[t] \in Fil /\ vol \in Volume /\ Types
  BY ClosedHoldsNothing DEF Write, Open, Inv, VolumeInv, Types
<1>2. \A d : ~Claimed(d)
  BY <1>1 DEF Claimed, Idle
<1>3. CASE FreeClusters = {}
  <2>1. UNCHANGED vol /\ fil' = [fil EXCEPT ![t] = [fil[t] EXCEPT !.written = TRUE]]
    BY <1>3 DEF Write
  <2>2. \A u \in Thread : fil'[u] = IF u = t THEN [fil[t] EXCEPT !.written = TRUE] ELSE fil[u]
    BY <1>1, <2>1 DEF Types
  <2>3. fil'[t].head = fil[t].head /\ fil'[t].slot = fil[t].slot /\ fil[t].slot \in Slot
    BY <1>1, <2>2 DEF Fil
  <2>4. Open(t)'
    BY <2>3, Sizes DEF Open, Closed
  <2>5. \A c : (Linked(vol, c) => Linked(vol, c)') /\ (Entered(c) => Entered(c)') /\ (Held(c) => Held(c)')
    BY <2>1, <2>2, <2>3, <2>4 DEF Linked, Entered, Held, Open
  <2> QED
    BY <1>2, <2>1, <2>5, Reaching DEF Reached
<1>4. CASE FreeClusters # {}
  <2>1. scl \in 0..Clusters
    BY <1>1 DEF Types, Fil, Cluster
  <2>2. PICK c \in Cluster : c = NextFree(scl) /\ vol.fat[c] = 0
    BY <2>1, <1>4, NextIsFree
  <2>3. /\ UNCHANGED fil /\ vol' = [vol EXCEPT !.fat[c] = Eoc]
        /\ call' = [op |-> IF fil[t].clust = 0 THEN "fill" ELSE "link", th |-> t, cl |-> c]
    BY <2>2, <1>4 DEF Write
  <2>4. Claimed(c)'
    BY <2>3 DEF Claimed
  <2> QED
    BY <1>1, <1>2, <2>2, <2>3, <2>4, AllocatingLeaks
<1> QED
  BY <1>3, <1>4

LEMMA LinkLeaks == ASSUME Inv, DataInv, Link PROVE Orphans' \subseteq Orphans
<1>1. call \in [op : {"link"}, th : Thread, cl : Cluster] /\ Types /\ vol \in Volume
  BY DEF Link, Inv, VolumeInv, Types, CallType, Idle
<1>2. PICK t \in Thread : t = call.th
  BY <1>1
<1>3. Open(t) /\ fil[t].write /\ fil[t].clust # 0 /\ fil[t] \in Fil /\ FileData(t)
  BY <1>1, <1>2, ClosedHoldsNothing DEF Link, Inv, VolumeInv, CallInv, DataInv, FilesData
<1>4. PICK p \in Cluster : p = fil[t].clust
  BY <1>3 DEF Fil
<1>5. vol.fat[p] \notin Cluster
  BY <1>1, <1>3, <1>4, Sizes DEF FileData, EndIsFree
<1>6. UNCHANGED fil /\ vol' = [vol EXCEPT !.fat[p] = call.cl] /\ call' = [call EXCEPT !.op = "fill"]
  BY <1>2, <1>4 DEF Link
<1>7. call.cl \in 0..Eoc
  BY <1>1, Sizes
<1>8. /\ vol'.dir = vol.dir
      /\ \A d \in Cluster : vol'.fat[d] = IF d = p THEN call.cl ELSE vol.fat[d]
  BY <1>1, <1>6, <1>7, ChangeLink, VolumeIs DEF Fat
<1>9. \A d \in Cluster : Linked(vol, d) => Linked(vol, d)'
  BY <1>5, <1>8 DEF Linked
<1>10. \A d : (Entered(d) => Entered(d)') /\ (Held(d) => Held(d)') /\ (Claimed(d) => Claimed(d)')
  BY <1>1, <1>6, <1>8 DEF Entered, Held, Claimed, Open
<1>11. \A d \in Cluster : vol.fat[d] = 0 /\ vol'.fat[d] # 0 => d = p
  BY <1>8
<1>12. vol.fat[p] = 0 => Reached(p)'
  <2>1. fil[t].head # 0 /\ fil[t].size \in Nat
    BY <1>3, SizeAssumption DEF Inv, VolumeInv, FilesInv, FileInv, Fil
  <2>2. PICK x : WritesAlong(t, x)
    BY <1>3 DEF FileData
  <2>3. HoldsAlong(vol, fil[t].head, x, Saved(t)) /\ Len(Saved(t)) = fil[t].size
    BY <1>3, <2>2, SavedIs DEF WritesAlong, Inv, VolumeInv
  <2>4. fil[t].size \in 1..Len(Saved(t)) /\ x[fil[t].size] = p
    BY <1>4, <2>1, <2>2, <2>3 DEF WritesAlong
  <2>5. CASE fil[t].head = p
    BY <2>5, <1>3, <1>6 DEF Reached, Held, Open
  <2>6. CASE fil[t].head # p
    <3>1. Linked(vol, p)
      <4>1. PICK m : x[m] \in Cluster /\ vol.fat[x[m]] = p
        BY <2>3, <2>4, <2>6, ReachedOverLink
      <4> QED
        BY <4>1 DEF Linked
    <3> QED
      BY <3>1, <1>9 DEF Reached
  <2> QED
    BY <2>5, <2>6
<1> QED
  BY <1>9, <1>10, <1>11, <1>12, Reaching DEF Reached

LEMMA FillLeaks == ASSUME Inv, DataInv, Fill PROVE Orphans' \subseteq Orphans
<1>1. call \in [op : {"fill"}, th : Thread, cl : Cluster] /\ Types /\ vol \in Volume
  BY DEF Fill, Inv, VolumeInv, Types, CallType, Idle
<1>2. PICK t \in Thread : t = call.th
  BY <1>1
<1>3. PICK c \in Cluster : c = call.cl
  BY <1>1
<1>4. /\ Open(t) /\ fil[t] \in Fil
      /\ fil[t].write /\ (fil[t].head # 0 => fil[t].clust \in Cluster /\ vol.fat[fil[t].clust] = c)
  <2>1. Open(t) /\ fil[t].write
    BY <1>1, <1>2 DEF Inv, VolumeInv, CallInv
  <2>2. fil[t] \in Fil /\ FileInv(t)
    BY <2>1, ClosedHoldsNothing DEF Inv, VolumeInv, FilesInv
  <2>3. fil[t].head # 0 => fil[t].clust # 0 /\ vol.fat[fil[t].clust] = c
    BY <1>1, <1>2, <1>3, <2>1, <2>2 DEF FileInv, DataInv, CallData
  <2> QED
    BY <2>1, <2>2, <2>3 DEF Fil
<1> DEFINE h == IF fil[t].head = 0 THEN c ELSE fil[t].head
           r == [fil[t] EXCEPT !.head = h, !.clust = c, !.size = fil[t].size + 1, !.written = TRUE]
<1>5. /\ vol' = [vol EXCEPT !.data[c] = <<fil[t].version, fil[t].size + 1>>]
      /\ fil' = [fil EXCEPT ![t] = r]
  BY <1>2, <1>3 DEF Fill
<1>6. vol'.fat = vol.fat /\ vol'.dir = vol.dir
  BY <1>1, <1>5, VolumeIs
<1>7. r.head = h /\ r.slot = fil[t].slot /\ fil[t].slot \in Slot
  BY <1>4 DEF Fil
<1>8. \A u \in Thread : fil'[u] = IF u = t THEN r ELSE fil[u]
  BY <1>1, <1>5 DEF Types
<1>9. Open(t)' /\ fil'[t].head = h
  <2>1. fil'[t].head = h /\ fil'[t].slot = fil[t].slot
    BY <1>7, <1>8
  <2>2. fil'[t].slot # 0
    BY <2>1, <1>7, Sizes
  <2> QED
    BY <2>1, <2>2 DEF Open, Closed
<1> HIDE DEF r
<1>10. \A d \in Cluster : Held(d) => Held(d)'
  BY <1>8, <1>9, Sizes DEF Held, Open
<1>11. \A d : (Linked(vol, d) => Linked(vol, d)') /\ (Entered(d) => Entered(d)')
  BY <1>6 DEF Linked, Entered
<1>12. Reached(c)'
  <2>1. CASE fil[t].head = 0
    BY <2>1, <1>9 DEF Reached, Held
  <2>2. CASE fil[t].head # 0
    BY <2>2, <1>4, <1>6 DEF Reached, Linked
  <2> QED
    BY <2>1, <2>2
<1>13. \A d : Claimed(d) => d = c
  BY <1>3 DEF Claimed
<1> QED
  BY <1>6, <1>10, <1>11, <1>12, <1>13, Reaching DEF Reached

LEMMA FormatLeaks == ASSUME Inv, Format PROVE Orphans' \subseteq Orphans
<1>1. call \in [op : {"format"}, name : Folder, cl : Cluster] /\ vol \in Volume
  BY DEF Format, Inv, VolumeInv, Types, CallType, Idle
<1>2. UNCHANGED fil /\ vol' = [vol EXCEPT !.data[call.cl] = Dots] /\ call' = [call EXCEPT !.op = "register"]
  BY DEF Format
<1>3. vol'.fat = vol.fat /\ vol'.dir = vol.dir
  BY <1>1, <1>2, VolumeIs
<1>4. \A d : /\ Linked(vol, d) => Linked(vol, d)'
             /\ Entered(d) => Entered(d)'
             /\ Held(d) => Held(d)'
             /\ Claimed(d) => Claimed(d)'
  BY <1>1, <1>2, <1>3 DEF Linked, Entered, Held, Claimed, Open
<1> QED
  BY <1>3, <1>4, Reaching DEF Reached

LEMMA LeaksStep == (hurt \/ (Inv /\ DataInv)) /\ [Next]_vars => PowerLoss \/ hurt \/ Orphans' \subseteq Orphans
<1> SUFFICES ASSUME Inv, DataInv, [Next]_vars, ~PowerLoss
             PROVE  Orphans' \subseteq Orphans
  OBVIOUS
<1>1. CASE UNCHANGED vars
  <2>1. UNCHANGED <<vol, fil, call>>
    BY <1>1 DEF vars
  <2> QED
    BY <2>1 DEF Orphans, Linked, Used
<1>2. ASSUME NEW t \in Thread, NEW n \in File
      PROVE  /\ \A always \in BOOLEAN : OpenRead(t, n, always) => Orphans' \subseteq Orphans
             /\ \A v \in Version \cup {NoVersion} : Create(t, n, v) => Orphans' \subseteq Orphans
             /\ \A v \in Version : Overwrite(t, n, v) => Orphans' \subseteq Orphans
  BY StaticLeaks, CreateLeaks, OverwriteLeaks
<1>3. ASSUME NEW t \in Thread
      PROVE  /\ Write(t) => Orphans' \subseteq Orphans
             /\ Close(t) => Orphans' \subseteq Orphans
             /\ \A closing \in BOOLEAN : SyncEntry(t, closing) => Orphans' \subseteq Orphans
  BY WriteLeaks, StaticLeaks, SyncEntryLeaks
<1>4. ASSUME NEW n \in File
      PROVE  /\ Unlink(n) => Orphans' \subseteq Orphans
             /\ \A m \in File : Rename(n, m) => Orphans' \subseteq Orphans
  BY UnlinkLeaks, RenameLeaks
<1>5. ASSUME NEW n \in Folder, MakeFolder(n) PROVE Orphans' \subseteq Orphans
  BY <1>5, MakeFolderLeaks
<1>6. CASE Look \/ Overwritten \/ Synced \/ Unlinked \/ Renamed \/ Made
  BY <1>6, StaticLeaks
<1>7. CASE FreeCluster \/ Link \/ Fill
  BY <1>7, FreeClusterLeaks, LinkLeaks, FillLeaks
<1>8. CASE RemoveOld \/ Format \/ Register
  BY <1>8, RemoveOldLeaks, FormatLeaks, RegisterLeaks
<1> QED
  BY <1>1, <1>2, <1>3, <1>4, <1>5, <1>6, <1>7, <1>8 DEF Next

\* Whatever any number of threads open, write, rename and remove, no step but a
\* power failure makes a cluster that is allocated while no link, entry, open file
\* or call leads to it: each call takes hold of a cluster before what held it
\* lets go, even when the volume or the folder is full.
THEOREM OnlyPowerLosesClusters == Spec => NothingLeaks
<1>1. (hurt \/ (Inv /\ DataInv)) /\ [Next]_vars => [PowerLoss \/ hurt \/ Orphans' \subseteq Orphans]_vars
  BY LeaksStep
<1> QED
  BY <1>1, DataHolds, PTL DEF Spec, NothingLeaks

=============================================================================
