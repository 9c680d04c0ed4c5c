----------------------------- MODULE FatVolume -----------------------------
(***************************************************************************)
(* The FAT volume on the memory card (libs/FATFileSystem/src/ff.c) as the  *)
(* applications use it: files are created, written from the start, synced, *)
(* closed, read, removed and renamed, folders are made.  A mutex makes the *)
(* calls of different threads exclude each other, so one call is under way *)
(* at a time.  All sectors but those of file contents larger than a sector *)
(* go through one window (_FS_TINY): a changed sector reaches the card     *)
(* when another one takes its place.  Power may go between any two steps.  *)
(*                                                                         *)
(* One directory of a fixed number of entries; clusters of one sector,     *)
(* each written by one f_write; cluster c is the code's c + 1.             *)
(***************************************************************************)
EXTENDS Integers, Sequences, FiniteSets, Functions

CONSTANTS
  Thread,
  File, Folder,        \* names
  Version,             \* what a save writes: <<v, i>> into the i-th cluster
  NoVersion,
  Clusters, Entries,   \* size of the volume and of its directory
  LinksPerSector, EntriesPerSector,
  MaxSize,             \* bound: clusters of a file
  FS_LOCK,             \* _FS_LOCK: objects open at a time
  Suggested            \* last_clust after a mount: what FSINFO may say, 0 for nothing

Name == File \cup Folder
Cluster == 1..Clusters
Slot == 1..Entries
Eoc == Clusters + 1      \* "last link": not below n_fatent
Exclusive == 256

ASSUME NameAssumption == File \cap Folder = {} /\ {"unused", "deleted"} \cap Name = {}
ASSUME VersionAssumption == NoVersion \notin Version
\* A counter of readers never looks like a writer.
ASSUME ThreadAssumption == IsFiniteSet(Thread) /\ Cardinality(Thread) < Exclusive
ASSUME SizeAssumption ==
  /\ {Clusters, Entries, LinksPerSector, EntriesPerSector} \subseteq Nat \ {0}
  /\ MaxSize \in Nat /\ FS_LOCK \in Nat
  /\ Suggested \subseteq 0..Clusters

Unused == [name |-> "unused"]     \* first byte 0: no entry from here on
Deleted == [name |-> "deleted"]   \* first byte DDE
Entry == [name : Name, head : Cluster \cup {0}, size : 0..MaxSize]
Blank == {Unused, Deleted}

\* What a cluster may hold: the unit of a save, the dots of a folder, or what
\* was there before.
Garbage == <<"garbage">>
Dots == <<"dots">>
Unit == (Version \X (1..MaxSize)) \cup {Garbage, Dots}

Volume == [dir : [Slot -> Entry \cup Blank], fat : [Cluster -> 0..Eoc], data : [Cluster -> Unit]]

DirSector(s) == <<"dir", (s - 1) \div EntriesPerSector>>
FatSector(c) == <<"fat", (c - 1) \div LinksPerSector>>
DataSector(c) == <<"data", c>>
Clean == <<"clean">>
Sector ==
  {DirSector(s) : s \in Slot} \cup {FatSector(c) : c \in Cluster}
    \cup {DataSector(c) : c \in Cluster}

VARIABLES
  vol,        \* the volume as the program sees it: card and window
  card,       \* what is on the card
  win,        \* the sector in fs->win if it waits to be written (fs->wflag), else Clean
  last_clust,
  fil,        \* the FIL of each thread
  files,      \* Files[]: open counter of each entry; Exclusive for a writer
  call,       \* the call that holds the mutex, and how far it is
  promise,    \* history: by name, what a completed call has put on the card and
              \* nobody has touched since: versions of its clusters, or None
  shared,     \* history: starts of the chains to which a rename that power
              \* interrupted has left two names
  hurt        \* history: a file with such a chain has been overwritten or removed

vars == <<vol, card, win, last_clust, fil, files, call, promise, shared, hurt>>

None == <<NoVersion>>
Closed == [slot |-> 0]
Idle == [op |-> "none"]

-----------------------------------------------------------------------------
(* The window.                                                             *)

\* sync_window, sync_fs
Sync == card' = vol /\ win' = Clean

\* move_window to each of some sectors: a changed window is written back unless
\* it stays.
Visit(S) == IF S \subseteq {win} THEN UNCHANGED <<card, win>> ELSE Sync

\* The same, and then to sector s, which is changed there.
Change(S, s) ==
  /\ card' = IF S \cup {s} = {win} THEN card ELSE vol
  /\ win' = s

SetEntry(s, e) == vol' = [vol EXCEPT !.dir[s] = e]

\* The chain that starts at head is going to be freed.
Hurting(head) == hurt' = (hurt \/ head \in shared)

-----------------------------------------------------------------------------
(* Directories: dir_find, dir_alloc, chk_lock, enq_lock, inc_lock.         *)

At(n) == {s \in Slot : vol.dir[s].name = n}
Exists(n) == At(n) # {}
SlotOf(n) == CHOOSE s \in At(n) : TRUE

First(P) == CHOOSE s \in P : \A q \in P : s <= q
BlankSlots == {s \in Slot : vol.dir[s] \in Blank}

\* Sectors that a search for a name reads: up to it, or to the first entry
\* that was never used, or to the end.
Searched(n) ==
  LET stop == At(n) \cup {s \in Slot : vol.dir[s] = Unused}
      upto == IF stop = {} THEN Entries ELSE First(stop)
  IN  {DirSector(s) : s \in 1..upto}

Allocated(s) == {DirSector(q) : q \in 1..s}

IsOpen(s) == files[s] > 0
CanRegister == Cardinality({s \in Slot : IsOpen(s)}) < FS_LOCK
\* A fault: whoever else has the file open.
CanWriteAny(s) == IsOpen(s) \/ CanRegister

CanWrite(s) == ~IsOpen(s) /\ CanRegister
CanRead(s) == IF IsOpen(s) THEN files[s] # Exclusive ELSE CanRegister

Lock(s, excl) == files' = [files EXCEPT ![s] = IF excl THEN Exclusive ELSE @ + 1]
\* dec_lock
Unlock(s) == files' = [files EXCEPT ![s] = IF @ = Exclusive THEN 0 ELSE @ - 1]

-----------------------------------------------------------------------------
(* Calls.  Those that fail or only read (f_stat, f_readdir, f_read) may do *)
(* no more than move the window.                                           *)

Look ==
  /\ call = Idle /\ win # Clean
  /\ Sync
  /\ UNCHANGED <<vol, last_clust, fil, files, call, promise, shared, hurt>>

\* The FIL that f_open fills.
Opened(s, e, write, excl, v, changed) ==
  [slot |-> s, write |-> write, excl |-> excl, head |-> e.head, size |-> e.size,
   clust |-> 0, version |-> v, written |-> changed]

\* f_open with FA_READ only, or with FA_OPEN_ALWAYS as well, which locks the
\* entry as for writing, of a file that exists.
OpenRead(t, n, always) ==
  LET s == SlotOf(n)
  IN  /\ call = Idle /\ fil[t] = Closed /\ Exists(n)
      /\ IF always THEN CanWrite(s) ELSE CanRead(s)
      /\ Visit(Searched(n))
      /\ fil' = [fil EXCEPT ![t] = Opened(s, vol.dir[s], FALSE, always, NoVersion, FALSE)]
      /\ Lock(s, always)
      /\ UNCHANGED <<vol, last_clust, call, promise, shared, hurt>>

\* f_open of a file that does not exist, with FA_CREATE_ALWAYS to write it or
\* with FA_OPEN_ALWAYS to read it: dir_register.
Create(t, n, v) ==
  LET s == First(BlankSlots)
      e == [name |-> n, head |-> 0, size |-> 0]
  IN  /\ call = Idle /\ fil[t] = Closed /\ ~Exists(n)
      /\ BlankSlots # {} /\ CanRegister
      /\ Change(Searched(n) \cup Allocated(s), DirSector(s))
      /\ SetEntry(s, e)
      /\ fil' = [fil EXCEPT ![t] = Opened(s, e, v # NoVersion, TRUE, v, TRUE)]
      /\ Lock(s, TRUE)
      /\ UNCHANGED <<last_clust, call, promise, shared, hurt>>

\* A fault: the entry keeps its start while the chain is freed.
EmptiedLater(e) == [e EXCEPT !.size = 0]

Emptied(e) == [e EXCEPT !.head = 0, !.size = 0]

\* f_open with FA_CREATE_ALWAYS of a file that exists: its size and start are
\* cleared, then its chain is freed.
Overwrite(t, n, v) ==
  LET s == SlotOf(n)
      e == Emptied(vol.dir[s])
  IN  /\ call = Idle /\ fil[t] = Closed /\ Exists(n) /\ CanWrite(s)
      /\ Change(Searched(n), DirSector(s))
      /\ SetEntry(s, e)
      /\ promise' = [promise EXCEPT ![n] = None]
      /\ IF vol.dir[s].head = 0
           THEN /\ fil' = [fil EXCEPT ![t] = Opened(s, e, TRUE, TRUE, v, TRUE)]
                /\ Lock(s, TRUE)
                /\ UNCHANGED call
           ELSE /\ call' = [op |-> "open", th |-> t, slot |-> s, version |-> v,
                            cl |-> vol.dir[s].head, first |-> vol.dir[s].head]
                /\ UNCHANGED <<fil, files>>
      /\ Hurting(vol.dir[s].head)
      /\ UNCHANGED <<last_clust, shared>>

\* A fault: only the first cluster is freed.
FreeFirst ==
  /\ call.op \in {"open", "unlink"} /\ call.cl \in Cluster
  /\ Change({}, FatSector(call.cl))
  /\ vol' = [vol EXCEPT !.fat[call.cl] = 0]
  /\ call' = [call EXCEPT !.cl = 0]
  /\ UNCHANGED <<last_clust, fil, files, promise, shared, hurt>>

\* A turn of remove_chain.
FreeCluster ==
  /\ call.op \in {"open", "unlink"} /\ call.cl \in Cluster
  /\ Change({}, FatSector(call.cl))
  /\ vol' = [vol EXCEPT !.fat[call.cl] = 0]
  /\ call' = [call EXCEPT !.cl = vol.fat[call.cl]]
  /\ UNCHANGED <<last_clust, fil, files, promise, shared, hurt>>

\* The rest of f_open after remove_chain.
Overwritten ==
  /\ call.op = "open" /\ call.cl \notin Cluster
  /\ Visit({DirSector(call.slot)})
  /\ last_clust' = call.first - 1
  /\ fil' = [fil EXCEPT ![call.th] = Opened(call.slot, vol.dir[call.slot], TRUE, TRUE, call.version, TRUE)]
  /\ Lock(call.slot, TRUE)
  /\ call' = Idle
  /\ UNCHANGED <<vol, promise, shared, hurt>>

-----------------------------------------------------------------------------
(* create_chain: the first free cluster after scl, in a circle.            *)

FreeClusters == {c \in Cluster : vol.fat[c] = 0}
After(scl, c) == (c - scl - 1) % Clusters
NextFree(scl) == CHOOSE c \in FreeClusters : \A d \in FreeClusters : After(scl, c) <= After(scl, d)

\* FAT sectors read on the way to cluster c, from cluster cl (0 for a new chain).
Scanned(cl, scl, c) ==
  {FatSector(d) : d \in {x \in Cluster : After(scl, x) <= After(scl, c) \/ x = cl}}

\* f_write at the end of a file, first the cluster.
Write(t) ==
  LET f == fil[t]
      scl == IF f.clust = 0 THEN last_clust ELSE f.clust
      c == NextFree(scl)
  IN  /\ call = Idle /\ f # Closed /\ f.write /\ f.size < MaxSize
      /\ IF FreeClusters = {}
           THEN /\ Visit({FatSector(x) : x \in Cluster})
                /\ fil' = [fil EXCEPT ![t].written = TRUE]
                /\ UNCHANGED <<vol, call>>
           ELSE /\ Change(Scanned(f.clust, scl, c), FatSector(c))
                /\ vol' = [vol EXCEPT !.fat[c] = Eoc]
                /\ call' = [op |-> IF f.clust = 0 THEN "fill" ELSE "link", th |-> t, cl |-> c]
                /\ UNCHANGED fil
      /\ UNCHANGED <<last_clust, files, promise, shared, hurt>>

\* create_chain: the previous cluster gets linked.
Link ==
  /\ call.op = "link"
  /\ Change({}, FatSector(fil[call.th].clust))
  /\ vol' = [vol EXCEPT !.fat[fil[call.th].clust] = call.cl]
  /\ call' = [call EXCEPT !.op = "fill"]
  /\ UNCHANGED <<last_clust, fil, files, promise, shared, hurt>>

\* The rest of f_write: the data, in the window.
Fill ==
  LET t == call.th
      f == fil[t]
  IN  /\ call.op = "fill"
      /\ Change({}, DataSector(call.cl))
      /\ vol' = [vol EXCEPT !.data[call.cl] = <<f.version, f.size + 1>>]
      /\ last_clust' = call.cl
      /\ fil' = [fil EXCEPT ![t] = [f EXCEPT !.head = IF @ = 0 THEN call.cl ELSE @,
                   !.clust = call.cl, !.size = @ + 1, !.written = TRUE]]
      /\ call' = Idle
      /\ UNCHANGED <<files, promise, shared, hurt>>

-----------------------------------------------------------------------------
(* f_sync, f_close.                                                        *)

\* The versions that a file written by t holds.
Saved(t) == [i \in 1..fil[t].size |-> fil[t].version]

\* f_sync of a changed file: its directory entry, in the window.
SyncEntry(t, closing) ==
  LET f == fil[t]
  IN  /\ call = Idle /\ f # Closed /\ f.written
      /\ Change({}, DirSector(f.slot))
      /\ SetEntry(f.slot, [vol.dir[f.slot] EXCEPT !.head = f.head, !.size = f.size])
      /\ fil' = [fil EXCEPT ![t].written = FALSE]
      /\ call' = [op |-> IF closing THEN "close" ELSE "sync", th |-> t]
      /\ UNCHANGED <<last_clust, files, promise, shared, hurt>>

\* f_close: validate, dec_lock
Release(t) ==
  /\ Unlock(fil[t].slot)
  /\ fil' = [fil EXCEPT ![t] = Closed]

\* A fault: the entry stays in the window.
SyncedInWindow ==
  LET t == call.th
  IN  /\ call.op \in {"sync", "close"}
      /\ IF call.op = "close" THEN Release(t) ELSE UNCHANGED <<fil, files>>
      /\ promise' = [promise EXCEPT ![vol.dir[fil[t].slot].name] = Saved(t)]
      /\ call' = Idle
      /\ UNCHANGED <<vol, card, win, last_clust, shared, hurt>>

\* sync_fs, then what is left of f_close.
Synced ==
  LET t == call.th
  IN  /\ call.op \in {"sync", "close"}
      /\ Sync
      /\ IF call.op = "close" THEN Release(t) ELSE UNCHANGED <<fil, files>>
      /\ promise' = [promise EXCEPT ![vol.dir[fil[t].slot].name] = Saved(t)]
      /\ call' = Idle
      /\ UNCHANGED <<vol, last_clust, shared, hurt>>

\* f_close of a file without changes.
Close(t) ==
  /\ call = Idle /\ fil[t] # Closed /\ ~fil[t].written
  /\ Release(t)
  /\ UNCHANGED <<vol, card, win, last_clust, call, promise, shared, hurt>>

-----------------------------------------------------------------------------
(* f_unlink, f_rename, f_mkdir.                                            *)

\* f_unlink: the entry goes first (dir_remove), then the chain (FreeCluster),
\* then sync_fs.  The applications remove no folder.
Unlink(n) ==
  LET s == SlotOf(n)
      e == vol.dir[s]
  IN  /\ call = Idle /\ Exists(n) /\ ~IsOpen(s)
      /\ Change(Searched(n), DirSector(s))
      /\ SetEntry(s, Deleted)
      /\ promise' = [promise EXCEPT ![n] = None]
      /\ call' = [op |-> "unlink", cl |-> e.head]
      /\ Hurting(e.head)
      /\ UNCHANGED <<last_clust, fil, files, shared>>

Unlinked ==
  /\ call.op = "unlink" /\ call.cl \notin Cluster
  /\ Sync
  /\ call' = Idle
  /\ UNCHANGED <<vol, last_clust, fil, files, promise, shared, hurt>>

\* f_rename: the new entry is registered and gets what the old one has ...
Rename(n, m) ==
  LET old == SlotOf(n)
      new == First(BlankSlots)
  IN  /\ call = Idle /\ Exists(n) /\ ~Exists(m)
      /\ ~IsOpen(old) /\ BlankSlots # {}
      /\ Change(Searched(n) \cup Searched(m) \cup Allocated(new), DirSector(new))
      /\ SetEntry(new, [vol.dir[old] EXCEPT !.name = m])
      /\ promise' = [promise EXCEPT ![n] = None]
      /\ call' = [op |-> "rename", old |-> old, new |-> new, was |-> promise[n], half |-> TRUE]
      /\ UNCHANGED <<last_clust, fil, files, shared, hurt>>

\* ... the old entry is removed ...
RemoveOld ==
  /\ call.op = "rename" /\ call.half
  /\ Change({}, DirSector(call.old))
  /\ SetEntry(call.old, Deleted)
  /\ call' = [call EXCEPT !.half = FALSE]
  /\ UNCHANGED <<last_clust, fil, files, promise, shared, hurt>>

\* ... and sync_fs.
Renamed ==
  /\ call.op = "rename" /\ ~call.half
  /\ Sync
  /\ promise' = [promise EXCEPT ![vol.dir[call.new].name] = call.was]
  /\ call' = Idle
  /\ UNCHANGED <<vol, last_clust, fil, files, shared, hurt>>

\* f_mkdir: a cluster is allocated ...
MakeFolder(n) ==
  LET c == NextFree(last_clust)
  IN  /\ call = Idle /\ ~Exists(n) /\ FreeClusters # {}
      /\ Change(Searched(n) \cup Scanned(0, last_clust, c), FatSector(c))
      /\ vol' = [vol EXCEPT !.fat[c] = Eoc]
      /\ last_clust' = c
      /\ call' = [op |-> "format", name |-> n, cl |-> c]
      /\ UNCHANGED <<fil, files, promise, shared, hurt>>

\* ... gets its dot entries ...
Format ==
  /\ call.op = "format"
  /\ Change({}, DataSector(call.cl))
  /\ vol' = [vol EXCEPT !.data[call.cl] = Dots]
  /\ call' = [call EXCEPT !.op = "register"]
  /\ UNCHANGED <<last_clust, fil, files, promise, shared, hurt>>

\* ... and is registered, or freed when the directory is full ...
Register ==
  LET s == First(BlankSlots)
  IN  /\ call.op = "register"
      /\ IF BlankSlots # {}
           THEN /\ Change(Allocated(s), DirSector(s))
                /\ SetEntry(s, [name |-> call.name, head |-> call.cl, size |-> 0])
                /\ call' = [call EXCEPT !.op = "made"]
           ELSE /\ Change(Allocated(Entries), FatSector(call.cl))
                /\ vol' = [vol EXCEPT !.fat[call.cl] = 0]
                /\ call' = Idle
      /\ UNCHANGED <<last_clust, fil, files, promise, shared, hurt>>

\* ... and sync_fs.
Made ==
  /\ call.op = "made"
  /\ Sync
  /\ promise' = [promise EXCEPT ![call.name] = <<>>]
  /\ call' = Idle
  /\ UNCHANGED <<vol, last_clust, fil, files, shared, hurt>>

-----------------------------------------------------------------------------
(* Power fails; the volume is mounted again (find_volume).                 *)

\* In the middle of a rename from one directory sector to another the card has
\* both names for one chain ("critical section that any interruption can cause
\* a cross-link", ff.c:3704).
Torn ==
  /\ call.op = "rename"
  /\ card.dir[call.old] \notin Blank /\ card.dir[call.new] \notin Blank

\* The card has the file that is being renamed under its old name.
Renaming(n) == call.op = "rename" /\ card.dir[call.old].name = n

PowerLoss ==
  /\ vol' = card
  /\ win' = Clean
  /\ last_clust' \in Suggested
  /\ fil' = [t \in Thread |-> Closed]
  /\ files' = [s \in Slot |-> 0]
  /\ call' = Idle
  /\ promise' = [n \in Name |-> IF Renaming(n) THEN call.was ELSE promise[n]]
  /\ shared' = shared \cup IF Torn THEN {card.dir[call.old].head} \ {0} ELSE {}
  /\ UNCHANGED <<card, hurt>>

Init ==
  /\ card = [dir |-> [s \in Slot |-> Unused], fat |-> [c \in Cluster |-> 0],
             data |-> [c \in Cluster |-> Garbage]]
  /\ vol = card
  /\ win = Clean
  /\ last_clust \in Suggested
  /\ fil = [t \in Thread |-> Closed]
  /\ files = [s \in Slot |-> 0]
  /\ call = Idle
  /\ promise = [n \in Name |-> None]
  /\ shared = {} /\ hurt = FALSE

Next ==
  \/ Look
  \/ \E t \in Thread, n \in File :
       \/ \E always \in BOOLEAN : OpenRead(t, n, always)
       \/ \E v \in Version \cup {NoVersion} : Create(t, n, v)
       \/ \E v \in Version : Overwrite(t, n, v)
  \/ FreeCluster \/ Overwritten
  \/ \E t \in Thread : Write(t) \/ Close(t) \/ \E closing \in BOOLEAN : SyncEntry(t, closing)
  \/ Link \/ Fill \/ Synced
  \/ \E n \in File : Unlink(n)
  \/ \E n \in Folder : MakeFolder(n)
  \/ Unlinked
  \/ \E n, m \in File : Rename(n, m)
  \/ RemoveOld \/ Renamed
  \/ Format \/ Register \/ Made
  \/ PowerLoss

Spec == Init /\ [][Next]_vars

-----------------------------------------------------------------------------
(* Chains on a volume v.                                                   *)

Used(v) == {s \in Slot : v.dir[s] \notin Blank}
Started(v) == {s \in Used(v) : v.dir[s].head # 0}
Linked(v, c) == \E d \in Cluster : v.fat[d] = c

\* A link leads to an allocated cluster, to which no other link leads.
LinksAreSound(v) ==
  \A c \in Cluster : v.fat[c] \in Cluster =>
    /\ v.fat[v.fat[c]] # 0
    /\ \A d \in Cluster : v.fat[d] = v.fat[c] => d = c

\* An entry starts with an allocated cluster that is in no other chain.
StartsAreSound(v) ==
  \A s \in Started(v) : v.fat[v.dir[s].head] # 0 /\ ~Linked(v, v.dir[s].head)

\* The clusters that links lead to from h; Eoc leads to itself, as does 0.
Trail(v, h) ==
  LET at[i \in 1..Clusters] ==
        IF i = 1 THEN h ELSE IF at[i - 1] \in Cluster THEN v.fat[at[i - 1]] ELSE at[i - 1]
  IN  at

\* Entry s holds a save of these versions.
Holds(v, s, versions) ==
  LET e == v.dir[s]
  IN  /\ s \in Used(v) /\ e.size = Len(versions)
      /\ \A i \in 1..Len(versions) :
           /\ Trail(v, e.head)[i] \in Cluster
           /\ v.data[Trail(v, e.head)[i]] = <<versions[i], i>>

-----------------------------------------------------------------------------
(* Properties.                                                             *)

\* Whenever power is lost the card is sound: every entry has the start of a chain
\* to itself and no chain runs into another, into itself or into free clusters,
\* so that no two files share a cluster; a name has one entry; a folder has
\* its dot entries.  The order of the writes in f_open, f_write, f_unlink and f_mkdir
\* is for this.  A rename is the one exception: power lost in it may leave two
\* names for its chain (ff.c:3704), which hurts no other file, until one of them is
\* overwritten or removed.
CardIsSound ==
  hurt \/
    /\ LinksAreSound(card) /\ StartsAreSound(card)
    /\ \A s, q \in Started(card) : card.dir[s].head = card.dir[q].head =>
         \/ s = q
         \/ call.op = "rename" /\ {s, q} = {call.old, call.new}
         \/ card.dir[s].head \in shared
    /\ \A s, q \in Used(card) : card.dir[s].name = card.dir[q].name => s = q
    /\ \A s \in Used(card) : card.dir[s].name \in Folder =>
         card.dir[s].head # 0 /\ card.data[card.dir[s].head] = Dots

\* What a completed f_sync or f_close has put on the card stays there, at every
\* instant and whatever is done to other files, until a thread overwrites or
\* removes that file.  A rename loses it at no time: power lost in one leaves it
\* under the old name, the new one or not, and to stay there until one of
\* two such names is overwritten or removed.
SyncedSurvives ==
  hurt \/
    /\ \A n \in Name : promise[n] # None =>
         \E s \in Slot : card.dir[s].name = n /\ Holds(card, s, promise[n])
    /\ call.op = "rename" /\ call.was # None =>
         Holds(card, call.old, call.was)

\* An open file keeps its entry, no other thread writes it, and unless it has
\* been written since, start and size in its FIL are those of the entry; the
\* counters of the table of open files are right.
OpenFilesStay ==
  /\ \A t \in Thread : fil[t] # Closed =>
       LET f == fil[t]
       IN  /\ f.slot \in Used(vol) /\ vol.dir[f.slot].name \in File
           /\ ~f.written => vol.dir[f.slot].head = f.head /\ vol.dir[f.slot].size = f.size
           /\ f.excl => \A u \in Thread \ {t} : fil[u].slot # f.slot
  /\ \A s \in Slot :
       LET holders == {t \in Thread : fil[t].slot = s}
       IN  files[s] = IF \E t \in holders : fil[t].excl THEN Exclusive ELSE Cardinality(holders)
  /\ Cardinality({s \in Slot : IsOpen(s)}) <= FS_LOCK

\* Clusters that are allocated, but nothing leads to: no link, entry, open file
\* or call.
Orphans ==
  {c \in Cluster :
    /\ vol.fat[c] # 0 /\ ~Linked(vol, c)
    /\ \A s \in Used(vol) : vol.dir[s].head # c
    /\ \A t \in Thread : fil[t] # Closed => fil[t].head # c
    /\ ~("cl" \in DOMAIN call /\ call.cl = c)}

\* Only a power failure loses clusters; after one of the two names that it may have
\* left for a chain has been overwritten or removed, other calls may as well.
NothingLeaks == [][PowerLoss \/ hurt \/ Orphans' \subseteq Orphans]_vars

=============================================================================
