------------------------------- MODULE Ext2Proofs -------------------------------
(***************************************************************************)
(* The file system keeps its volume sound, for any size of its disk, its   *)
(* directory blocks and its bitmaps, any names and any number of commands. *)
(* What the helpers do to a volume is in Ext2VolumeProofs; here is what    *)
(* the commands do with them: they keep the volume sound and show its      *)
(* tree, and on what they show they are the commands of FileTree.          *)
(***************************************************************************)
EXTENDS Ext2VolumeProofs

(***************************************************************************)
(* The inductive invariant.  As long as the contract is kept the volume is *)
(* sound and cd stands in one of its directories; the rest is typing.      *)
(***************************************************************************)
TableOK == file_open_table \in [TableSlots -> Inodes] /\ file_open_name_set \subseteq Names
PathOK == current_path \in Seq(Names) /\ current_dirlen \in {0, 1}
FsInv ==
  /\ kept => Sound(vol) /\ current_dir \in Dirs(vol)
  /\ current_dir \in Inodes /\ PathOK /\ TableOK
  /\ kept \in BOOLEAN /\ commands \in 0 .. MaxCommands

\* A command starts in a sound volume and a directory of it, and is counted.
LEMMA Starts ==
  ASSUME FsInv, kept
  PROVE  /\ Sound(vol) /\ vol \in Volumes /\ current_dir \in Dirs(vol) /\ current_dir \in Inodes
         /\ current_dir \in vol.inode_bits /\ vol.inode_bits \in SUBSET Inodes /\ TreeSound(vol)
<1>1. Sound(vol) /\ current_dir \in Dirs(vol)
  BY DEF FsInv
<1> QED
  BY <1>1, Fields DEF Sound, Dirs

\* A counted command, and the bound on their number.
LEMMA Counts ==
  ASSUME FsInv, MayRun
  PROVE  commands' \in 0 .. MaxCommands /\ kept
<1>1. MaxCommands \in Nat
  BY CommandAssumption
<1> QED
  BY <1>1 DEF FsInv, MayRun

\* What a step has to show.
LEMMA Keeps ==
  ASSUME FsInv, commands' \in 0 .. MaxCommands, kept' \in BOOLEAN, PathOK', TableOK',
         current_dir' \in Inodes, kept' => Sound(vol') /\ current_dir' \in Dirs(vol')
  PROVE  FsInv'
BY DEF FsInv

\* Closing files keeps the type of the open table.
LEMMA Closes ==
  ASSUME FsInv, NEW S, NEW N, Closed(S, N)
  PROVE  TableOK'
<1>1. 0 \in Inodes
  BY SizeFacts DEF Inodes
<1>2. file_open_table \in [TableSlots -> Inodes] /\ file_open_name_set \subseteq Names
  BY DEF FsInv, TableOK
<1>3. file_open_name_set' \subseteq Names
  BY <1>2 DEF Closed
<1>4. file_open_table' \in [TableSlots -> Inodes]
  BY <1>1, <1>2 DEF Closed
<1> QED
  BY <1>3, <1>4 DEF TableOK

(***************************************************************************)
(* The commands, one by one.                                               *)
(***************************************************************************)
\* mkdir and touch, when there is an inode and a block for them.
LEMMA CreateKeeps ==
  ASSUME FsInv, NEW n \in Names, NEW t \in {FILE, DIR}, Create(n, t)
  PROVE  /\ FsInv' /\ kept /\ ~Exists(n, t)
         /\ kept' => /\ Gained(vol, vol', current_dir, n, NewInode(vol), t)
                     /\ t = FILE => vol'.inode[NewInode(vol)] = Inode(DefaultMode[n], 0, <<>>)
<1> DEFINE d == current_dir
           i == NewInode(vol)
           u == AddEntry(vol, d, n, t)
<1>1. MayRun /\ ~Found(vol, d, n, t) /\ kept' = EntryFits(t)
      /\ InodesLeft >= 1 /\ BlocksLeft(vol.block_bits) >= BlocksTaken(t)
      /\ vol' = preProcess(u, i, d, n, t, current_dirlen)
      /\ UNCHANGED <<open_files, position>>
  BY DEF Create, Exists
<1>2. commands' \in 0 .. MaxCommands /\ kept
  BY <1>1, Counts
<1>3. Sound(vol) /\ vol \in Volumes /\ d \in Dirs(vol) /\ d \in Inodes
  BY <1>2, Starts
<1>4. Reachable(vol.inode_bits) # {}
  <2>1. Cardinality(Reachable(vol.inode_bits)) # 0
    BY <1>1 DEF InodesLeft
  <2> QED
    BY <2>1, ReachFinite
<1>5. BlocksLeft(vol.block_bits) \in Nat
  BY ReachFinite DEF BlocksLeft
<1>6. BlocksTaken(t) = (IF BlocksAreFull(vol, d) THEN 1 ELSE 0) + (IF t = DIR THEN 1 ELSE 0)
  BY DEF BlocksTaken
<1> HIDE DEF d, i, u
<1>7. ASSUME EntryFits(t)
      PROVE  \E p : Entered(vol, u, d, p, i, n, t)
  <2>1. CASE BlocksAreFull(vol, d)
    <3>1. BlocksLeft(vol.block_bits) # 0
      BY <1>1, <1>5, <1>6, <2>1
    <3>2. Reachable(vol.block_bits) # {}
      BY <3>1, ReachFinite DEF BlocksLeft
    <3>3. t = FILE => \A s \in Slots \ {0, 1} : vol.block[NewBlock(vol)][s].inode = 0
      BY <1>7, <2>1 DEF EntryFits, d
    <3>4. u = AddEntry(vol, d, n, t)
      BY DEF u
    <3>5. Entered(vol, u, d, <<2, 0>>, NewInode(vol), n, t)
      BY <1>3, <1>4, <2>1, <3>2, <3>3, <3>4, EntryGetsBlock
    <3> QED
      BY <3>5 DEF i
  <2>2. CASE ~BlocksAreFull(vol, d)
    <3>1. Room(vol, d) # {}
      BY <1>7, <2>2 DEF EntryFits, d
    <3>2. u = AddEntry(vol, d, n, t)
      BY DEF u
    <3>3. \E p : Entered(vol, u, d, p, NewInode(vol), n, t)
      BY <1>3, <1>4, <2>2, <3>1, <3>2, EntryFindsRoom
    <3> QED
      BY <3>3 DEF i
  <2> QED
    BY <2>1, <2>2
<1>8. ASSUME EntryFits(t), t = DIR
      PROVE  Reachable(u.block_bits) # {}
  <2>1. PICK p : Entered(vol, u, d, p, i, n, t)
    BY <1>7, <1>8
  <2>2. CASE BlocksAreFull(vol, d)
    <3>1. BlocksLeft(vol.block_bits) >= 2
      BY <1>1, <1>5, <1>6, <1>8, <2>2
    <3>2. BlocksLeft(vol.block_bits) # 0
      BY <1>5, <3>1
    <3>3. Reachable(vol.block_bits) # {}
      BY <3>2, ReachFinite DEF BlocksLeft
    <3>4. NewBlock(vol) \in Reachable(vol.block_bits)
      BY <1>3, <3>3, BlockAllocated
    <3>5. BlocksLeft(vol.block_bits \cup {NewBlock(vol)}) = BlocksLeft(vol.block_bits) - 1
      BY <3>4, ReachLess
    <3>6. u.block_bits = vol.block_bits \cup {NewBlock(vol)}
      BY <2>1, <2>2 DEF Entered
    <3>7. BlocksLeft(u.block_bits) # 0
      BY <1>5, <3>1, <3>5, <3>6
    <3> QED
      BY <3>7, ReachFinite DEF BlocksLeft
  <2>3. CASE ~BlocksAreFull(vol, d)
    <3>1. u.block_bits = vol.block_bits
      BY <2>1, <2>3 DEF Entered
    <3>2. BlocksLeft(u.block_bits) # 0
      BY <1>1, <1>5, <1>6, <1>8, <2>3, <3>1
    <3> QED
      BY <3>2, ReachFinite DEF BlocksLeft
  <2> QED
    BY <2>2, <2>3
<1>9. ASSUME kept'
      PROVE  /\ Sound(vol') /\ d \in Dirs(vol') /\ Gained(vol, vol', d, n, i, t)
             /\ t = FILE => vol'.inode[i] = Inode(DefaultMode[n], 0, <<>>)
  <2>1. EntryFits(t)
    BY <1>1, <1>9
  <2>2. PICK p : Entered(vol, u, d, p, i, n, t)
    BY <1>7, <2>1
  <2>3. CASE t = FILE
    <3>1. vol' = preProcess(u, i, d, n, FILE, current_dirlen)
      BY <1>1, <2>3
    <3>2. Entered(vol, u, d, p, i, n, FILE) /\ ~Found(vol, d, n, FILE)
      BY <1>1, <2>2, <2>3
    <3>3. /\ Sound(vol') /\ Dirs(vol') = Dirs(vol) /\ Gained(vol, vol', d, n, i, FILE)
          /\ vol'.inode[i] = Inode(DefaultMode[n], 0, <<>>)
      BY <1>3, <3>1, <3>2, FileMade
    <3> QED
      BY <1>3, <2>3, <3>3
  <2>4. CASE t = DIR
    <3>1. vol' = preProcess(u, i, d, n, DIR, current_dirlen)
      BY <1>1, <2>4
    <3>2. Entered(vol, u, d, p, i, n, DIR) /\ ~Found(vol, d, n, DIR)
      BY <1>1, <2>2, <2>4
    <3>3. Reachable(u.block_bits) # {} /\ current_dirlen \in {0, 1}
      BY <1>8, <2>1, <2>4 DEF FsInv, PathOK
    <3>4. Sound(vol') /\ Dirs(vol') = Dirs(vol) \cup {i} /\ Gained(vol, vol', d, n, i, DIR)
      BY <1>3, <3>1, <3>2, <3>3, DirMade
    <3>5. t # FILE
      BY <2>4 DEF FILE, DIR
    <3> QED
      BY <1>3, <2>4, <3>4, <3>5
  <2> QED
    BY <2>3, <2>4
<1>10. PathOK' /\ TableOK' /\ current_dir' = d
  BY <1>1 DEF open_files, position, PathOK, TableOK, FsInv, d
<1>11. kept' \in BOOLEAN
  <2>1. EntryFits(t) \in BOOLEAN
    BY DEF EntryFits
  <2> QED
    BY <1>1, <2>1
<1>12. FsInv'
  BY <1>2, <1>3, <1>9, <1>10, <1>11, Keeps
<1> QED
  BY <1>1, <1>2, <1>9, <1>12 DEF Exists, d, i

\* ToSet of a list of blocks.
LEMMA ListedSet ==
  ASSUME NEW a \in Seq(Blocks)
  PROVE  ToSet(a) = ListedIn(a)
BY DEF ToSet, ListedIn

\* rm of a file that is not open.
LEMMA RmKeeps ==
  ASSUME FsInv, NEW n \in Names, rm(n)
  PROVE  /\ FsInv' /\ kept
         /\ kept' => /\ ~searchInTable(NodeOf(n, FILE)) /\ UNCHANGED open_files
                     /\ Shrunk(vol, vol', {NodeOf(n, FILE)})
<1> DEFINE d == current_dir
           p == Place(n, FILE)
           i == NodeOf(n, FILE)
           a == vol.inode[i].i_block
<1>1. MayRun /\ Found(vol, d, n, FILE) /\ UNCHANGED position
  BY DEF rm, Exists
<1>2. commands' \in 0 .. MaxCommands /\ kept
  BY <1>1, Counts
<1>3. Sound(vol) /\ vol \in Volumes /\ d \in Dirs(vol) /\ d \in Inodes
  BY <1>2, Starts
<1>4. /\ vol' = RemoveFile(vol, d, p, Held(d, i))
      /\ IF searchInTable(i) THEN Closed({i}, {n}) ELSE UNCHANGED open_files
      /\ kept' = (~searchInTable(i) /\ BlocksInUse(vol, d, p))
  BY DEF rm
<1>5. TableOK'
  <2>1. CASE searchInTable(i)
    BY <1>4, <2>1, Closes
  <2>2. CASE ~searchInTable(i)
    BY <1>4, <2>2 DEF open_files, TableOK, FsInv
  <2> QED
    BY <2>1, <2>2
<1>6. p \in Entries(vol, d) /\ i = CellAt(vol, d, p).inode /\ i \in Inodes /\ i \notin Dirs(vol)
  <2>1. FILE # DIR
    BY DEF FILE, DIR
  <2> QED
    BY <1>1, <1>3, <2>1, NameFinds DEF NodeOf, Place
<1>7. ~searchInTable(i) => Held(d, i) = a
  BY DEF Held
<1>8. ASSUME kept'
      PROVE  Sound(vol') /\ d \in Dirs(vol') /\ Shrunk(vol, vol', {i}) /\ ~searchInTable(i)
  <2>1. ~searchInTable(i) /\ BlocksInUse(vol, d, p)
    BY <1>4, <1>8
  <2>2. vol' = RemoveFile(vol, d, p, vol.inode[i].i_block)
    BY <1>4, <1>7, <2>1
  <2> HIDE DEF p, i
  <2>3. Sound(vol') /\ Gone(vol, vol', d, p, i) /\ Shrunk(vol, vol', {i})
    BY <1>3, <1>6, <2>1, <2>2, FileRemoved
  <2> QED
    BY <2>1, <2>3 DEF Gone
<1>9. kept' \in BOOLEAN
  BY Zenon, <1>4
<1>10. PathOK' /\ current_dir' = d
  BY <1>1 DEF position, PathOK, FsInv
<1>11. FsInv'
  BY <1>2, <1>3, <1>5, <1>8, <1>9, <1>10, Keeps
<1> QED
  BY <1>2, <1>4, <1>8, <1>11

\* rmdir of an empty directory.
LEMMA RmdirEmptyKeeps ==
  ASSUME FsInv, NEW n \in Names, rmdir_empty(n)
  PROVE  /\ FsInv' /\ kept /\ Entries(vol, NodeOf(n, DIR)) = {}
         /\ kept' => Shrunk(vol, vol', {NodeOf(n, DIR)})
<1> DEFINE d == current_dir
           p == Place(n, DIR)
           i == NodeOf(n, DIR)
<1>1. /\ MayRun /\ Found(vol, d, n, DIR) /\ UNCHANGED <<open_files, position>>
      /\ vol.inode[i].i_size = 2 /\ vol' = RemoveEmpty(vol, d, p)
      /\ kept' = (Len(vol.inode[i].i_block) = 1)
  BY DEF rmdir_empty, Exists
<1>2. commands' \in 0 .. MaxCommands /\ kept
  BY <1>1, Counts
<1>3. Sound(vol) /\ TreeSound(vol) /\ d \in Dirs(vol) /\ d \in Inodes
  BY <1>2, Starts
<1>4. p \in Entries(vol, d) /\ i = CellAt(vol, d, p).inode /\ i \in Dirs(vol)
  BY <1>1, <1>3, NameFinds DEF NodeOf, Place
<1>5. Entries(vol, i) = {}
  BY <1>1, <1>3, <1>4, DirSize
<1>6. ASSUME kept'
      PROVE  Sound(vol') /\ d \in Dirs(vol') /\ Shrunk(vol, vol', {i})
  <2>1. Len(vol.inode[i].i_block) = 1
    BY <1>1, <1>6
  <2> HIDE DEF p, i
  <2>2. Sound(vol') /\ Dirs(vol') = Dirs(vol) \ {i} /\ i # d /\ Shrunk(vol, vol', {i})
    BY <1>1, <1>3, <1>4, <1>5, <2>1, EmptyRemoved
  <2> QED
    BY <1>3, <2>2
<1>7. kept' \in BOOLEAN
  BY Zenon, <1>1
<1>8. PathOK' /\ TableOK' /\ current_dir' = d
  BY <1>1 DEF open_files, position, PathOK, TableOK, FsInv
<1>9. FsInv'
  BY <1>2, <1>3, <1>6, <1>7, <1>8, Keeps
<1> QED
  BY <1>2, <1>5, <1>6, <1>9

\* rmdir elsewhere than in the root of a directory with files that are not open.
LEMMA RmdirElsewhereKeeps ==
  ASSUME FsInv, NEW n \in Names, rmdir_elsewhere(n)
  PROVE  /\ FsInv' /\ kept
         /\ kept' => /\ Children(vol, NodeOf(n, DIR), DIR) = {} /\ UNCHANGED <<open_files, position>>
                     /\ \A q \in Children(vol, NodeOf(n, DIR), FILE) :
                          ~searchInTable(CellAt(vol, NodeOf(n, DIR), q).inode)
                     /\ Shrunk(vol, vol', {CellAt(vol, NodeOf(n, DIR), q).inode :
                                             q \in Entries(vol, NodeOf(n, DIR))} \cup {NodeOf(n, DIR)})
<1> DEFINE d == current_dir
           p == Place(n, DIR)
           i == NodeOf(n, DIR)
           w == ChildrenWalked(vol, i)
           opened == {q \in Children(vol, i, FILE) : searchInTable(CellAt(vol, i, q).inode)}
<1>1. /\ MayRun /\ Found(vol, d, n, DIR) /\ UNCHANGED <<current_dir, current_dirlen>>
      /\ Len(vol.inode[i].i_block) = 1 /\ vol' = RemoveEmpty(w, d, p)
      /\ Closed({CellAt(vol, i, q).inode : q \in opened}, {CellAt(vol, i, q).name : q \in opened})
      /\ current_path' = IF Children(vol, i, DIR) = {} THEN current_path ELSE <<n>>
      /\ kept' = (opened = {} /\ Children(vol, i, DIR) = {})
  BY DEF rmdir_elsewhere, Exists, ChildrenWalked
<1>2. commands' \in 0 .. MaxCommands /\ kept
  BY <1>1, Counts
<1>3. Sound(vol) /\ TreeSound(vol) /\ d \in Dirs(vol) /\ d \in Inodes
  BY <1>2, Starts
<1>4. /\ p \in Entries(vol, d) /\ i = CellAt(vol, d, p).inode /\ i \in Dirs(vol)
      /\ i \in Inodes /\ i # root
      /\ CellAt(vol, d, p).type = DIR /\ CellAt(vol, d, p).name \in Names /\ p \in Places(vol, d)
  <2>1. /\ p \in Entries(vol, d) /\ i = CellAt(vol, d, p).inode /\ i \in Dirs(vol)
        /\ i \in Inodes /\ i # root
    BY <1>1, <1>3, NameFinds DEF NodeOf, Place
  <2>2. CellAt(vol, d, p).type = DIR
    BY <1>1, <1>3, SearchFinds DEF Place
  <2> QED
    BY <2>1, <2>2 DEF Entries
<1>5. TableOK'
  BY <1>1, Closes
<1> HIDE DEF p, i, w
<1>6. ASSUME kept'
      PROVE  /\ Sound(vol') /\ d \in Dirs(vol')
             /\ Shrunk(vol, vol', {CellAt(vol, i, q).inode : q \in Entries(vol, i)} \cup {i})
  <2>1. opened = {} /\ Children(vol, i, DIR) = {}
    BY <1>1, <1>6
  <2>2. \A q \in Children(vol, i, FILE) : ~searchInTable(CellAt(vol, i, q).inode)
    BY <2>1
  <2>3. i # d
    <3>1. i # 0
      BY <1>4 DEF root
    <3>2. p \in Children(vol, d, DIR)
      BY <1>4, <3>1 DEF Children
    <3> QED
      BY <2>1, <3>2
  <2>4. w = ChildrenWalked(vol, i)
    BY DEF w
  <2>5. /\ Sound(w) /\ Dirs(w) = Dirs(vol) /\ Entries(w, i) = {}
        /\ Len(w.inode[i].i_block) = 1
        /\ p \in Entries(w, d) /\ CellAt(w, d, p) = CellAt(vol, d, p)
        /\ Shrunk(vol, w, {CellAt(vol, i, q).inode : q \in Entries(vol, i)})
    <3>1. /\ Sound(vol) /\ d \in Dirs(vol) /\ i \in Dirs(vol) /\ i # d /\ p \in Entries(vol, d)
          /\ Len(vol.inode[i].i_block) = 1 /\ Children(vol, i, DIR) = {}
          /\ w = ChildrenWalked(vol, i)
      BY <1>1, <1>3, <1>4, <2>1, <2>3, <2>4
    <3> HIDE DEF d, opened
    <3> QED
      BY <2>2, <3>1, ChildrenRemoved
  <2>6. i = CellAt(w, d, p).inode /\ i \in Dirs(w) /\ d \in Dirs(w)
    BY <1>3, <1>4, <2>5
  <2>7. Sound(vol') /\ Dirs(vol') = Dirs(w) \ {i} /\ i # d /\ Shrunk(w, vol', {i})
    BY <1>1, <2>5, <2>6, EmptyRemoved
  <2>8. Shrunk(vol, vol', {CellAt(vol, i, q).inode : q \in Entries(vol, i)} \cup {i})
    BY <2>5, <2>7, ShrunkTwice
  <2> QED
    BY <2>6, <2>7, <2>8
<1>7. kept' \in BOOLEAN
  <2> HIDE DEF opened
  <2> QED
    BY Zenon, <1>1
<1>8. PathOK' /\ current_dir' = d
  BY <1>1 DEF PathOK, FsInv
<1>9. FsInv'
  BY <1>2, <1>3, <1>5, <1>6, <1>7, <1>8, Keeps
<1>10. ASSUME kept'
       PROVE  /\ opened = {} /\ Children(vol, i, DIR) = {} /\ UNCHANGED <<open_files, position>>
  <2>1. opened = {} /\ Children(vol, i, DIR) = {}
    BY <1>1, <1>10
  <2>2. Closed({}, {})
    BY <1>1, <2>1
  <2>3. UNCHANGED open_files
    BY <2>2 DEF Closed, open_files, FsInv, TableOK
  <2> QED
    BY <1>1, <2>1, <2>3 DEF position
<1> QED
  BY <1>2, <1>6, <1>9, <1>10 DEF i

\* A breach, or a program that hangs or crashes: nothing is said of the volume.
LEMMA BreachKeeps ==
  ASSUME FsInv, commands' \in 0 .. MaxCommands, kept' = FALSE, UNCHANGED <<open_files, position>>
  PROVE  FsInv'
<1>1. PathOK' /\ TableOK' /\ current_dir' = current_dir /\ current_dir \in Inodes
  BY DEF open_files, position, PathOK, TableOK, FsInv
<1> QED
  BY <1>1, Keeps

\* The volume stays as it is, and so does the directory.
LEMMA StillKeeps ==
  ASSUME FsInv, kept, commands' \in 0 .. MaxCommands, kept' \in BOOLEAN, UNCHANGED <<vol, position>>,
         TableOK'
  PROVE  FsInv'
<1>1. PathOK' /\ current_dir' = current_dir /\ current_dir \in Inodes
  BY DEF position, PathOK, FsInv
<1>2. Sound(vol') /\ current_dir' \in Dirs(vol')
  BY Starts, <1>1
<1> QED
  BY <1>1, <1>2, Keeps

\* open.
LEMMA OpenKeeps ==
  ASSUME FsInv, NEW n \in Names, open(n)
  PROVE  FsInv'
<1>1. MayRun /\ Found(vol, current_dir, n, FILE) /\ UNCHANGED <<vol, position>>
  BY DEF open, Exists
<1>2. commands' \in 0 .. MaxCommands /\ kept
  BY <1>1, Counts
<1>3. NodeOf(n, FILE) \in Inodes
  <2>1. Sound(vol) /\ current_dir \in Dirs(vol)
    BY <1>2, Starts
  <2> QED
    BY <1>1, <2>1, NameFinds DEF NodeOf
<1>4. PICK k \in TableSlots :
        /\ file_open_table' = [file_open_table EXCEPT ![k] = NodeOf(n, FILE)]
        /\ kept' = (k # FOPEN_TABLE_MAX - 1 /\ n \notin file_open_name_set)
  BY DEF open
<1>5. TableOK'
  <2>1. file_open_table \in [TableSlots -> Inodes] /\ file_open_name_set \subseteq Names
    BY DEF FsInv, TableOK
  <2>2. file_open_name_set' = file_open_name_set \cup {n}
    BY DEF open
  <2>3. file_open_table' \in [TableSlots -> Inodes]
    BY <1>3, <1>4, <2>1
  <2> QED
    BY <2>1, <2>2, <2>3 DEF TableOK
<1>6. kept' \in BOOLEAN
  BY Zenon, <1>4
<1> QED
  BY <1>1, <1>2, <1>5, <1>6, StillKeeps

\* close.
LEMMA CloseKeeps ==
  ASSUME FsInv, NEW n \in Names, close(n)
  PROVE  FsInv'
<1>1. /\ MayRun /\ UNCHANGED <<vol, position>> /\ Closed({NodeOf(n, FILE)}, {n})
      /\ kept' = (n \in file_open_name_set)
  BY DEF close
<1>2. commands' \in 0 .. MaxCommands /\ kept
  BY <1>1, Counts
<1>3. kept' \in BOOLEAN
  <2>1. (n \in file_open_name_set) \in BOOLEAN
    OBVIOUS
  <2> QED
    BY <1>1, <2>1
<1>4. TableOK'
  BY <1>1, Closes
<1> QED
  BY <1>1, <1>2, <1>3, <1>4, StillKeeps

\* chmod.
LEMMA ChmodKeeps ==
  ASSUME FsInv, NEW n \in Names, NEW mode \in Modes, chmod(n, mode)
  PROVE  /\ FsInv' /\ kept /\ FileChanged(vol, vol', NodeOf(n, FILE)) /\ vol'.block = vol.block
         /\ vol'.inode[NodeOf(n, FILE)].i_mode = mode
         /\ vol'.inode[NodeOf(n, FILE)].i_block = vol.inode[NodeOf(n, FILE)].i_block
<1> DEFINE i == NodeOf(n, FILE)
<1>1. /\ MayRun /\ Found(vol, current_dir, n, FILE) /\ UNCHANGED <<open_files, position, kept>>
      /\ vol' = [vol EXCEPT !.inode[i].i_mode = mode]
  BY DEF chmod, Exists
<1>2. commands' \in 0 .. MaxCommands /\ kept
  BY <1>1, Counts
<1>3. Sound(vol) /\ current_dir \in Dirs(vol) /\ current_dir \in Inodes
  BY <1>2, Starts
<1>4. i \in Inodes
  BY <1>1, <1>3, NameFinds DEF NodeOf
<1>5. mode \in SUBSET {"r", "w", "x"}
  BY CommandAssumption
<1> HIDE DEF i
<1>6. /\ Sound(vol') /\ Dirs(vol') = Dirs(vol) /\ FileChanged(vol, vol', i)
      /\ vol'.block = vol.block /\ vol'.inode[i].i_mode = mode
      /\ vol'.inode[i].i_block = vol.inode[i].i_block
  <2>1. vol' = [vol EXCEPT !.inode[i].i_mode = mode]
    BY <1>1
  <2>2. Sound(vol') /\ Dirs(vol') = Dirs(vol) /\ FileChanged(vol, vol', i)
    BY <1>3, <1>4, <1>5, <2>1, ModeSet
  <2>3. vol'.block = vol.block
    BY <1>3, <1>4, <1>5, <2>1, ModeSet
  <2>4. vol'.inode[i].i_mode = mode
    <3>1. vol \in Volumes /\ vol.inode \in [Inodes -> InodeRecords]
      BY <1>3, Fields DEF Sound
    <3> QED
      BY <1>4, <2>1, <3>1 DEF Volumes, InodeRecords
  <2>5. vol'.inode[i].i_block = vol.inode[i].i_block
    BY <1>3, <1>4, <1>5, <2>1, ModeSet
  <2> QED
    BY <2>2, <2>3, <2>4, <2>5
<1>7. PathOK' /\ TableOK' /\ current_dir' = current_dir /\ kept' \in BOOLEAN
  BY <1>1 DEF open_files, position, PathOK, TableOK, FsInv
<1>8. FsInv'
  BY <1>2, <1>3, <1>6, <1>7, Keeps
<1> QED
  BY <1>2, <1>6, <1>8 DEF i

\* A text takes a number of blocks.
LEMMA BlocksForType ==
  ASSUME NEW length \in Nat
  PROVE  BlocksFor(length) \in Nat
BY SizeFacts DEF BlocksFor

\* write.
LEMMA WriteKeeps ==
  ASSUME FsInv, NEW n \in Names, NEW d \in Data, NEW length \in Lengths, write(n, d, length)
  PROVE  /\ FsInv' /\ kept /\ FileChanged(vol, vol', NodeOf(n, FILE))
         /\ vol'.inode[NodeOf(n, FILE)].i_mode = vol.inode[NodeOf(n, FILE)].i_mode
         /\ Holds(vol', NodeOf(n, FILE), d, length)
<1> DEFINE i == NodeOf(n, FILE)
<1>1. /\ MayRun /\ Found(vol, current_dir, n, FILE) /\ UNCHANGED <<open_files, position>>
      /\ BlocksFor(length) <= N_DIRECT /\ BlocksFor(length) <= BlocksForWrite(n)
      /\ vol' = WriteText(vol, i, d, length)
      /\ kept' = ("w" \in vol.inode[i].i_mode)
  BY DEF write, Writes, Exists
<1>2. commands' \in 0 .. MaxCommands /\ kept
  BY <1>1, Counts
<1>3. Sound(vol) /\ vol \in Volumes /\ current_dir \in Dirs(vol) /\ current_dir \in Inodes
  BY <1>2, Starts
<1>4. i \in vol.inode_bits /\ i \in Inodes /\ i \notin Dirs(vol)
  <2>1. FILE # DIR
    BY DEF FILE, DIR
  <2> QED
    BY <1>1, <1>3, <2>1, NameFinds DEF NodeOf
<1>5. length \in Nat /\ BlocksFor(length) \in Nat
  <2>1. length \in Nat
    BY CommandAssumption
  <2> QED
    BY <2>1, BlocksForType
<1>6. BlocksFor(length) <= BlocksLeft(vol.block_bits \ ListedIn(vol.inode[i].i_block))
  <2> DEFINE a == vol.inode[i].i_block
  <2>1. a \in Seq(Blocks)
    BY <1>3, <1>4, Fields
  <2>2. BlocksForWrite(n) = BlocksLeft(vol.block_bits \ ToSet(a))
    BY DEF BlocksForWrite
  <2> HIDE DEF a
  <2>3. ToSet(a) = ListedIn(a)
    BY <2>1, ListedSet
  <2>4. BlocksFor(length) <= BlocksLeft(vol.block_bits \ ListedIn(a))
    BY <1>1, <2>2, <2>3
  <2> QED
    BY <2>4 DEF a
<1> HIDE DEF i
<1>7. /\ Sound(vol') /\ Dirs(vol') = Dirs(vol) /\ FileChanged(vol, vol', i)
      /\ vol'.inode[i].i_mode = vol.inode[i].i_mode /\ Holds(vol', i, d, length)
  BY <1>1, <1>3, <1>4, <1>5, <1>6, TextWritten
<1>8. PathOK' /\ TableOK' /\ current_dir' = current_dir
  BY <1>1 DEF open_files, position, PathOK, TableOK, FsInv
<1>9. kept' \in BOOLEAN
  <2>1. ("w" \in vol.inode[i].i_mode) \in BOOLEAN
    OBVIOUS
  <2> QED
    BY <1>1, <2>1
<1>10. FsInv'
  BY <1>2, <1>3, <1>7, <1>8, <1>9, Keeps
<1> QED
  BY <1>2, <1>7, <1>10 DEF i

\* cd to a directory that an entry names.
LEMMA CdDownKeeps ==
  ASSUME FsInv, NEW n \in Names, cd_down(n)
  PROVE  FsInv'
<1>1. /\ kept /\ Found(vol, current_dir, n, DIR) /\ current_dir' = NodeOf(n, DIR)
      /\ current_path' = Append(current_path, n) /\ current_dirlen' = 1
      /\ kept' = (PathLength(current_path') <= PATH_ROOM)
      /\ UNCHANGED <<vol, open_files, commands>>
  BY DEF cd_down, Exists
<1>2. Sound(vol) /\ current_dir \in Dirs(vol)
  BY <1>1, Starts
<1>3. NodeOf(n, DIR) \in Dirs(vol) /\ NodeOf(n, DIR) \in Inodes
  BY <1>1, <1>2, NameFinds DEF NodeOf
<1>4. PathOK'
  <2>1. current_path \in Seq(Names)
    BY DEF FsInv, PathOK
  <2> QED
    BY <1>1, <2>1 DEF PathOK
<1>5. TableOK' /\ commands' \in 0 .. MaxCommands
  BY <1>1 DEF FsInv, TableOK, open_files
<1>6. kept' \in BOOLEAN
  <2>1. kept' = (PathLength(current_path') <= PATH_ROOM)
    BY <1>1
  <2> QED
    BY <2>1
<1> QED
  BY <1>1, <1>2, <1>3, <1>4, <1>5, <1>6, Keeps

\* Only the second slot of a directory has the name .. in it.
LEMMA DotDotFound ==
  ASSUME NEW v, Sound(v), NEW d \in Dirs(v)
  PROVE  /\ Found(v, d, "..", DIR) /\ searchFile(v, d, "..", DIR) = DotDot
         /\ Node(v, d, "..", DIR) = CellAt(v, d, DotDot).inode
<1> DEFINE p == searchFile(v, d, "..", DIR)
<1>1. /\ CellAt(v, d, Dot) = Entry(d, DIR, ".", 1) /\ Len(v.inode[d].i_block) \in 1 .. 2
      /\ CellAt(v, d, DotDot).type = DIR /\ CellAt(v, d, DotDot).name = ".."
      /\ \A q \in Places(v, d) \ {Dot, DotDot} :
           Empty(CellAt(v, d, q)) \/ Names1(v, d, CellAt(v, d, q))
  BY DEF Sound, TreeSound, Dotted, Tidy
<1>2. DotDot \in Places(v, d)
  BY <1>1, PlacesOf
<1>3. Found(v, d, "..", DIR)
  BY <1>1, <1>2 DEF Found, Matches
<1>4. p \in Places(v, d) /\ CellAt(v, d, p).name = ".."
  BY <1>3, SearchFinds
<1> HIDE DEF p
<1>5. p # Dot
  <2>1. CellAt(v, d, Dot).name = "."
    BY <1>1 DEF Entry
  <2> QED
    BY <1>4, <2>1
<1>6. p = DotDot
  <2>1. ASSUME p # DotDot PROVE FALSE
    <3>1. Empty(CellAt(v, d, p)) \/ Names1(v, d, CellAt(v, d, p))
      BY <1>1, <1>4, <1>5, <2>1
    <3> QED
      BY <1>4, <3>1, NotNames DEF Empty, Names1
  <2> QED
    BY <2>1
<1> QED
  BY <1>3, <1>6 DEF Node, p

\* cd .. to the directory that named this one.
LEMMA CdUpKeeps ==
  ASSUME FsInv, cd_up
  PROVE  FsInv'
<1>1. kept /\ UNCHANGED <<vol, open_files, kept, commands>> /\ current_dir' = NodeOf("..", DIR)
  BY DEF cd_up
<1>2. Sound(vol) /\ vol \in Volumes /\ current_dir \in Dirs(vol) /\ current_dir \in Inodes
      /\ TreeSound(vol) /\ vol.inode_bits \in SUBSET Inodes
  BY <1>1, Starts
<1>3. /\ Place("..", DIR) = DotDot
      /\ NodeOf("..", DIR) = CellAt(vol, current_dir, DotDot).inode
  BY <1>2, DotDotFound DEF Place, NodeOf
<1>4. /\ CellAt(vol, current_dir, DotDot).inode \in Dirs(vol)
      /\ Len(vol.inode[current_dir].i_block) \in 1 .. 2
  BY <1>2 DEF TreeSound, Dotted
<1>5. CellAt(vol, current_dir, DotDot).name_len \in {0, 1}
  <2>1. DotDot \in Places(vol, current_dir)
    BY <1>4, PlacesOf
  <2> QED
    BY <1>2, <2>1, PlaceType
<1>6. PathOK'
  <2>1. current_path \in Seq(Names) /\ current_dirlen \in {0, 1}
    BY DEF FsInv, PathOK
  <2>2. Front(current_path) \in Seq(Names)
    BY <2>1 DEF Front
  <2>3. \/ UNCHANGED <<current_path, current_dirlen>>
        \/ /\ current_path' = Front(current_path)
           /\ current_dirlen' = CellAt(vol, current_dir, DotDot).name_len
    BY <1>3 DEF cd_up
  <2> QED
    BY <1>5, <2>1, <2>2, <2>3 DEF PathOK
<1>7. TableOK' /\ commands' \in 0 .. MaxCommands /\ kept' \in BOOLEAN
  BY <1>1 DEF FsInv, TableOK, open_files
<1>8. current_dir' \in Dirs(vol') /\ current_dir' \in Inodes
  BY <1>1, <1>2, <1>3, <1>4 DEF Dirs
<1> QED
  BY <1>1, <1>2, <1>6, <1>7, <1>8, Keeps

\* The invariant holds of a new file system.
LEMMA InitHolds == Init => FsInv
<1> SUFFICES ASSUME Init PROVE FsInv
  OBVIOUS
<1>1. root \in Inodes
  BY SizeFacts DEF Inodes, root
<1>2. Sound(vol) /\ current_dir \in Dirs(vol) /\ current_dir \in Inodes
  BY <1>1, NewSound DEF Init
<1>3. TableOK /\ PathOK
  BY <1>1 DEF Init, TableOK, PathOK, root
<1>4. commands \in 0 .. MaxCommands /\ kept \in BOOLEAN
  BY CommandAssumption DEF Init
<1> QED
  BY <1>2, <1>3, <1>4 DEF FsInv

\* Every command, and a step of none, keeps it.
LEMMA StepKeeps == FsInv /\ [Next]_vars => FsInv'
<1> SUFFICES ASSUME FsInv, [Next]_vars PROVE FsInv'
  OBVIOUS
<1>1. CASE UNCHANGED vars
  BY <1>1 DEF vars, open_files, position, FsInv, TableOK, PathOK
<1>2. CASE cd_up
  BY <1>2, CdUpKeeps
<1>3. ASSUME NEW n \in Names, mkdir(n) \/ touch(n)
      PROVE  FsInv'
  <2>1. PICK t \in {FILE, DIR} : Create(n, t)
    BY <1>3 DEF mkdir, touch
  <2> QED
    BY <2>1, CreateKeeps
<1>4. ASSUME NEW n \in Names, rm(n)
      PROVE  FsInv'
  BY <1>4, RmKeeps
<1>5. ASSUME NEW n \in Names, rmdir(n)
      PROVE  FsInv'
  <2>1. CASE rmdir_empty(n)
    BY <2>1, RmdirEmptyKeeps
  <2>2. CASE rmdir_in_root(n)
    <3>1. MayRun /\ kept' = FALSE /\ UNCHANGED <<open_files, position>>
      BY <2>2 DEF rmdir_in_root
    <3> QED
      BY <3>1, Counts, BreachKeeps
  <2>3. CASE rmdir_elsewhere(n)
    BY <2>3, RmdirElsewhereKeeps
  <2> QED
    BY <1>5, <2>1, <2>2, <2>3 DEF rmdir
<1>6. ASSUME NEW n \in Names, cd_down(n) \/ open(n) \/ close(n)
      PROVE  FsInv'
  BY <1>6, CdDownKeeps, OpenKeeps, CloseKeeps
<1>7. ASSUME NEW n \in Names, NEW t \in {FILE, DIR}, create_hangs(n, t)
      PROVE  FsInv'
  <2>1. MayRun /\ kept' = FALSE /\ UNCHANGED <<open_files, position>>
    BY <1>7 DEF create_hangs, Ends
  <2> QED
    BY <2>1, Counts, BreachKeeps
<1>8. ASSUME NEW n \in Names, NEW mode \in Modes, chmod(n, mode)
      PROVE  FsInv'
  BY <1>8, ChmodKeeps
<1>9. ASSUME NEW n \in Names, NEW length \in Lengths, write_ends(n, length)
      PROVE  FsInv'
  <2>1. MayRun /\ kept' = FALSE /\ UNCHANGED <<open_files, position>>
    BY <1>9 DEF write_ends, Writes, Ends
  <2> QED
    BY <2>1, Counts, BreachKeeps
<1>10. ASSUME NEW n \in Names, NEW length \in Lengths, NEW d \in Data, write(n, d, length)
       PROVE  FsInv'
  BY <1>10, WriteKeeps
<1> QED
  BY <1>1, <1>2, <1>3, <1>4, <1>5, <1>6, <1>7, <1>8, <1>9, <1>10 DEF Next

\* So it holds always.
LEMMA InvHolds == Spec => []FsInv
BY InitHolds, StepKeeps, PTL DEF Spec

(***************************************************************************)
(* The tree that cd and read show, inode by inode.                         *)
(***************************************************************************)
Kind(v, i) == IF i \in Dirs(v) THEN DIR ELSE FILE
Parent(v, i) ==
  IF i = root THEN root
  ELSE CHOOSE d \in Dirs(v) : \E p \in Entries(v, d) : CellAt(v, d, p).inode = i
Record(v, path, i) ==
  [path |-> path[i], inode |-> i, type |-> Kind(v, i), parent |-> Parent(v, i),
   mode |-> v.inode[i].i_mode, text |-> IF i \in Dirs(v) THEN <<>> ELSE ReadText(v, i)]

\* What an entry says of the inode it names.
LEMMA NamedAbove ==
  ASSUME NEW v, TreeSound(v), NEW path, Pathed(v, path),
         NEW d \in Dirs(v), NEW p \in Entries(v, d), NEW i, i = CellAt(v, d, p).inode
  PROVE  /\ i \in v.inode_bits \ {root} /\ d \in v.inode_bits /\ Parent(v, i) = d
         /\ CellAt(v, d, p).type = Kind(v, i) /\ CellAt(v, d, p).name \in Names
         /\ path[d] \in Seq(Names) /\ path[i] = Append(path[d], CellAt(v, d, p).name)
         /\ Len(path[d]) \in Nat /\ Len(path[i]) = Len(path[d]) + 1
<1>1. Names1(v, d, CellAt(v, d, p)) /\ d \in v.inode_bits
  BY EntryNames DEF Dirs
<1>2. \A e \in Dirs(v) : (\E q \in Entries(v, e) : CellAt(v, e, q).inode = i) => e = d
  BY DEF TreeSound, NamedOnce
<1>3. Parent(v, i) = d
  <2>1. i # root
    BY <1>1 DEF Names1
  <2> QED
    BY <1>2, <2>1 DEF Parent
<1>4. path[d] \in Seq(Names) /\ path[i] = Append(path[d], CellAt(v, d, p).name)
  BY <1>1 DEF Pathed
<1>5. CellAt(v, d, p).type = Kind(v, i)
  BY <1>1 DEF Names1, Kind
<1>6. Len(path[d]) \in Nat /\ Len(path[i]) = Len(path[d]) + 1
  BY <1>1, <1>4, AppendProperties, LenProperties DEF Names1
<1> QED
  BY <1>1, <1>3, <1>4, <1>5, <1>6 DEF Names1

\* Every live inode but the root is named.
LEMMA HasParent ==
  ASSUME NEW v, TreeSound(v), NEW i \in v.inode_bits \ {root}
  PROVE  \E d \in Dirs(v) : \E p \in Entries(v, d) : i = CellAt(v, d, p).inode
BY DEF TreeSound, Named1

\* No path is longer than there are inodes below the root: of every length down to 0
\* there is one.
LEMMA DepthBound ==
  ASSUME NEW v, Sound(v), NEW path, Pathed(v, path), NEW i \in v.inode_bits
  PROVE  Len(path[i]) \in 0 .. INODE_NUM - 1
<1> DEFINE m == Len(path[i])
           Good == {k \in Nat : k <= m => \E j \in v.inode_bits : Len(path[j]) = m - k}
<1>1. TreeSound(v) /\ v.inode_bits \in SUBSET Inodes
  BY Fields DEF Sound
<1>2. \A j \in v.inode_bits : path[j] \in Seq(Names) /\ Len(path[j]) \in Nat
  BY LenProperties DEF Pathed
<1>3. m \in Nat
  BY <1>2
<1>4. 0 \in Good
  BY <1>3
<1>5. ASSUME NEW k \in Nat, k \in Good PROVE k + 1 \in Good
  <2>1. SUFFICES ASSUME k + 1 <= m
                 PROVE  \E j \in v.inode_bits : Len(path[j]) = m - (k + 1)
    OBVIOUS
  <2> HIDE DEF m
  <2>2. PICK j \in v.inode_bits : Len(path[j]) = m - k
    BY <1>3, <1>5, <2>1
  <2>3. j # root
    <3>1. Len(path[root]) = 0
      BY DEF Pathed
    <3> QED
      BY <1>3, <2>1, <2>2, <3>1
  <2>4. PICK d \in Dirs(v) : \E p \in Entries(v, d) : j = CellAt(v, d, p).inode
    BY <1>1, <2>3, HasParent
  <2>5. PICK p \in Entries(v, d) : j = CellAt(v, d, p).inode
    BY <2>4
  <2>6. d \in v.inode_bits /\ Len(path[d]) \in Nat /\ Len(path[j]) = Len(path[d]) + 1
    BY <1>1, <2>5, NamedAbove
  <2> QED
    BY <1>3, <2>2, <2>6
<1> HIDE DEF m
<1>6. \A k \in 0 .. m : \E j \in v.inode_bits : Len(path[j]) = k
  <2>1. Nat \subseteq Good
    <3> HIDE DEF Good
    <3> QED
      BY <1>4, <1>5, NaturalSteps
  <2> TAKE k \in 0 .. m
  <2>2. m - k \in Nat /\ m - k <= m /\ m - (m - k) = k
    BY <1>3
  <2> QED
    BY <2>1, <2>2
<1> DEFINE f == [k \in 0 .. m |-> CHOOSE j \in v.inode_bits : Len(path[j]) = k]
<1>7. \A k \in 0 .. m : f[k] \in v.inode_bits /\ Len(path[f[k]]) = k
  BY <1>6
<1>8. f \in Injection(0 .. m, Inodes)
  <2>1. f \in [0 .. m -> Inodes]
    BY <1>1, <1>7
  <2>2. \A a, b \in 0 .. m : f[a] = f[b] => a = b
    BY <1>7
  <2> HIDE DEF f
  <2> QED
    BY <2>1, <2>2 DEF Injection, IsInjective
<1> HIDE DEF f
<1>9. IsFiniteSet(Inodes) /\ Cardinality(Inodes) = INODE_NUM
  BY SizeFacts, FS_Interval DEF Inodes
<1>10. Cardinality(0 .. m) = m + 1
  <2>1. 0 \in Int /\ m \in Int
    BY <1>3
  <2>2. Cardinality(0 .. m) = IF 0 > m THEN 0 ELSE m - 0 + 1
    BY <2>1, FS_Interval
  <2> QED
    BY <1>3, <2>2
<1>11. Cardinality(0 .. m) <= Cardinality(Inodes)
  BY <1>8, <1>9, FS_Injection
<1> QED
  BY <1>3, <1>9, <1>10, <1>11, SizeFacts DEF m

\* What is in a directory is what its entries name.
LEMMA ContentsAre ==
  ASSUME NEW v, Sound(v), NEW path, Pathed(v, path), NEW d \in Dirs(v)
  PROVE  Contents(v, Record(v, path, d)) =
           {Record(v, path, CellAt(v, d, p).inode) : p \in Entries(v, d)}
<1> DEFINE q == Record(v, path, d)
<1>1. TreeSound(v) /\ q.type = DIR /\ q.inode = d /\ q.path = path[d]
  BY DEF Sound, Record, Kind
<1> HIDE DEF q
<1>2. ASSUME NEW n \in Names, NEW t \in {FILE, DIR}, Found(v, d, n, t)
      PROVE  \E p \in Entries(v, d) : Shown(v, q, n, t) = Record(v, path, CellAt(v, d, p).inode)
  <2> DEFINE p == searchFile(v, d, n, t)
             i == CellAt(v, d, p).inode
  <2>1. p \in Entries(v, d) /\ Node(v, d, n, t) = i
    BY <1>2, NameFinds
  <2>2. CellAt(v, d, p).type = t /\ CellAt(v, d, p).name = n
    BY <1>2, SearchFinds
  <2> HIDE DEF p
  <2>3. Parent(v, i) = d /\ t = Kind(v, i) /\ path[i] = Append(path[d], n)
    BY <1>1, <2>1, <2>2, NamedAbove
  <2> HIDE DEF i
  <2>4. t = FILE <=> i \notin Dirs(v)
    BY <2>3 DEF Kind, FILE, DIR
  <2>5. Shown(v, q, n, t) =
          [path |-> Append(path[d], n), inode |-> i, type |-> t, parent |-> d,
           mode |-> v.inode[i].i_mode, text |-> IF t = FILE THEN ReadText(v, i) ELSE <<>>]
    BY <1>1, <2>1 DEF Shown
  <2>6. (IF t = FILE THEN ReadText(v, i) ELSE <<>>)
          = (IF i \in Dirs(v) THEN <<>> ELSE ReadText(v, i))
    BY <2>4
  <2>7. Shown(v, q, n, t) = Record(v, path, i)
    BY <2>3, <2>5, <2>6 DEF Record
  <2> QED
    BY <2>1, <2>7 DEF i
<1>3. ASSUME NEW p \in Entries(v, d)
      PROVE  \E e \in Names \X {FILE, DIR} :
               /\ Found(v, d, e[1], e[2])
               /\ Shown(v, q, e[1], e[2]) = Record(v, path, CellAt(v, d, p).inode)
  <2> DEFINE n == CellAt(v, d, p).name
             t == CellAt(v, d, p).type
  <2>1. n \in Names /\ t \in {FILE, DIR} /\ p \in Places(v, d)
    BY <1>1, EntryNames DEF Names1
  <2>2. Found(v, d, n, t)
    BY <2>1 DEF Found, Matches
  <2> HIDE DEF n, t
  <2>3. PICK r \in Entries(v, d) : /\ r = searchFile(v, d, n, t)
                                   /\ CellAt(v, d, r).name = n /\ CellAt(v, d, r).type = t
    BY <2>1, <2>2, NameFinds, SearchFinds
  <2>4. r = p
    BY <1>1, <2>3 DEF TreeSound, Unique, n, t
  <2>5. Node(v, d, n, t) = CellAt(v, d, p).inode
    BY <2>3, <2>4 DEF Node
  <2> DEFINE i == CellAt(v, d, p).inode
  <2>6. Parent(v, i) = d /\ t = Kind(v, i) /\ path[i] = Append(path[d], n)
    BY <1>1, NamedAbove DEF n, t
  <2> HIDE DEF i
  <2>7. t = FILE <=> i \notin Dirs(v)
    BY <2>6 DEF Kind, FILE, DIR
  <2>8. Shown(v, q, n, t) =
          [path |-> Append(path[d], n), inode |-> i, type |-> t, parent |-> d,
           mode |-> v.inode[i].i_mode, text |-> IF t = FILE THEN ReadText(v, i) ELSE <<>>]
    BY <1>1, <2>5 DEF Shown, i
  <2>9. (IF t = FILE THEN ReadText(v, i) ELSE <<>>)
          = (IF i \in Dirs(v) THEN <<>> ELSE ReadText(v, i))
    BY <2>7
  <2>10. Shown(v, q, n, t) = Record(v, path, i)
    BY <2>6, <2>8, <2>9 DEF Record
  <2>11. <<n, t>> \in Names \X {FILE, DIR} /\ <<n, t>>[1] = n /\ <<n, t>>[2] = t
    BY <2>1
  <2> QED
    BY <2>2, <2>10, <2>11 DEF i
<1>4. Contents(v, q) =
        {Shown(v, q, e[1], e[2]) : e \in {f \in Names \X {FILE, DIR} : Found(v, d, f[1], f[2])}}
  BY <1>1 DEF Contents
<1>5. \A e \in Names \X {FILE, DIR} : e[1] \in Names /\ e[2] \in {FILE, DIR}
  OBVIOUS
<1> QED
  BY <1>2, <1>3, <1>4, <1>5 DEF q

\* In a file there is nothing.
LEMMA NoContents ==
  ASSUME NEW v, NEW path, NEW i, i \notin Dirs(v)
  PROVE  Contents(v, Record(v, path, i)) = {}
<1>1. Record(v, path, i).type # DIR
  BY DEF Record, Kind, FILE, DIR
<1> QED
  BY <1>1 DEF Contents

\* The tree is what the live inodes are: a record of each with its path.
LEMMA TreeIs ==
  ASSUME NEW v, Sound(v), NEW path, Pathed(v, path)
  PROVE  Tree(v) = {Record(v, path, i) : i \in v.inode_bits}
<1> DEFINE top == [path |-> <<>>, inode |-> root, type |-> DIR, parent |-> root,
                   mode |-> v.inode[root].i_mode, text |-> <<>>]
           Below(S) == UNION {Contents(v, q) : q \in S}
           Rec(it) == [k \in Inodes |->
             IF k = 0 THEN [all |-> {top}, last |-> {top}]
             ELSE IF it[k - 1].last = {} THEN it[k - 1]
                  ELSE [all |-> it[k - 1].all \cup Below(it[k - 1].last),
                        last |-> Below(it[k - 1].last)]]
           At(k) == {Record(v, path, i) : i \in {j \in v.inode_bits : Len(path[j]) = k}}
           UpTo(k) == {Record(v, path, i) : i \in {j \in v.inode_bits : Len(path[j]) <= k}}
           Level(k) == [all |-> UpTo(k), last |-> At(k)]
           deep == [k \in Inodes |-> Level(k)]
<1>1. TreeSound(v) /\ v.inode_bits \in SUBSET Inodes /\ root \in Dirs(v) /\ root \in v.inode_bits
      /\ Dirs(v) \subseteq v.inode_bits
  BY Fields DEF Sound, TreeSound, Dotted, Dirs
<1>2. \A i \in v.inode_bits : Len(path[i]) \in Nat
  BY LenProperties DEF Pathed
<1>3. Tree(v) = (CHOOSE it : it = Rec(it))[INODE_NUM - 1].all
  BY DEF Tree
<1>4. \A i \in v.inode_bits : Len(path[i]) = 0 <=> i = root
  <2>1. Len(path[root]) = 0
    BY DEF Pathed
  <2>2. ASSUME NEW i \in v.inode_bits \ {root} PROVE Len(path[i]) # 0
    <3>1. PICK d \in Dirs(v) : \E p \in Entries(v, d) : i = CellAt(v, d, p).inode
      BY <1>1, HasParent
    <3>2. Len(path[d]) \in Nat /\ Len(path[i]) = Len(path[d]) + 1
      BY <1>1, <3>1, NamedAbove
    <3> QED
      BY <3>2
  <2> QED
    BY <2>1, <2>2
<1>5. Record(v, path, root) = top
  BY <1>1 DEF Record, Kind, Parent, Pathed
<1>6. At(0) = {top} /\ UpTo(0) = {top}
  <2>1. {j \in v.inode_bits : Len(path[j]) = 0} = {root}
    BY <1>1, <1>4
  <2>2. {j \in v.inode_bits : Len(path[j]) <= 0} = {root}
    BY <1>1, <1>2, <1>4
  <2> HIDE DEF top
  <2> QED
    BY <1>5, <2>1, <2>2
<1> HIDE DEF top
<1>7. ASSUME NEW k \in Nat
      PROVE  Below(At(k)) = At(k + 1) /\ UpTo(k + 1) = UpTo(k) \cup At(k + 1)
  <2>1. ASSUME NEW r \in Below(At(k)) PROVE r \in At(k + 1)
    <3>1. PICK i \in v.inode_bits : Len(path[i]) = k /\ r \in Contents(v, Record(v, path, i))
      OBVIOUS
    <3>2. i \in Dirs(v)
      BY <3>1, NoContents
    <3>3. PICK p \in Entries(v, i) : r = Record(v, path, CellAt(v, i, p).inode)
      BY <3>1, <3>2, ContentsAre
    <3>4. /\ CellAt(v, i, p).inode \in v.inode_bits
          /\ Len(path[CellAt(v, i, p).inode]) = Len(path[i]) + 1
      BY <1>1, <3>2, <3>3, NamedAbove
    <3> QED
      BY <3>1, <3>3, <3>4
  <2>2. ASSUME NEW r \in At(k + 1) PROVE r \in Below(At(k))
    <3>1. PICK i \in v.inode_bits : Len(path[i]) = k + 1 /\ r = Record(v, path, i)
      OBVIOUS
    <3>2. i # root
      BY <1>4, <3>1
    <3>3. PICK d \in Dirs(v) : \E p \in Entries(v, d) : i = CellAt(v, d, p).inode
      BY <1>1, <3>2, HasParent
    <3>4. PICK p \in Entries(v, d) : i = CellAt(v, d, p).inode
      BY <3>3
    <3>5. d \in v.inode_bits /\ Len(path[d]) \in Nat /\ Len(path[i]) = Len(path[d]) + 1
      BY <1>1, <3>4, NamedAbove
    <3>6. Record(v, path, d) \in At(k)
      BY <3>1, <3>5
    <3>7. r \in Contents(v, Record(v, path, d))
      BY <3>1, <3>4, ContentsAre
    <3> QED
      BY <3>6, <3>7
  <2>3. \A j \in v.inode_bits : Len(path[j]) <= k + 1 <=> Len(path[j]) <= k \/ Len(path[j]) = k + 1
    BY <1>2
  <2>4. UpTo(k + 1) = UpTo(k) \cup At(k + 1)
    BY <2>3
  <2> HIDE DEF At, Below
  <2> QED
    BY <2>1, <2>2, <2>4
<1> HIDE DEF At, UpTo
<1>8. Below({}) = {}
  OBVIOUS
<1> HIDE DEF Below
<1>9. deep = Rec(deep)
  <2>1. ASSUME NEW k \in Inodes
        PROVE  deep[k] = Rec(deep)[k]
    <3>1. CASE k = 0
      BY <1>6, <3>1
    <3>2. CASE k # 0
      <4>1. k - 1 \in Inodes /\ k - 1 \in Nat /\ (k - 1) + 1 = k
        BY <3>2, SizeFacts DEF Inodes
      <4>2. deep[k - 1].last = At(k - 1) /\ deep[k - 1].all = UpTo(k - 1)
            /\ deep[k - 1] = Level(k - 1)
        BY <4>1
      <4>3. Below(At(k - 1)) = At(k) /\ UpTo(k) = UpTo(k - 1) \cup At(k)
        BY <1>7, <4>1
      <4>4. CASE At(k - 1) = {}
        <5>1. At(k) = {} /\ UpTo(k) = UpTo(k - 1)
          BY <1>8, <4>3, <4>4
        <5> QED
          BY <3>2, <4>2, <4>4, <5>1
      <4>5. CASE At(k - 1) # {}
        BY <3>2, <4>2, <4>3, <4>5
      <4> QED
        BY <4>4, <4>5
    <3> QED
      BY <3>1, <3>2
  <2> QED
    BY <2>1
<1> HIDE DEF deep
<1> DEFINE it == CHOOSE g : g = Rec(g)
<1>10. it = Rec(it)
  BY <1>9
<1> HIDE DEF it
<1> DEFINE Good == {k \in Nat : k \in Inodes => it[k] = deep[k]}
<1>11. 0 \in Good
  <2>1. 0 \in Inodes => it[0] = Rec(it)[0] /\ deep[0] = Rec(deep)[0]
    BY <1>9, <1>10
  <2> QED
    BY <2>1
<1>12. ASSUME NEW k \in Nat, k \in Good PROVE k + 1 \in Good
  <2>1. SUFFICES ASSUME k + 1 \in Inodes PROVE it[k + 1] = deep[k + 1]
    OBVIOUS
  <2>2. k \in Inodes /\ (k + 1) - 1 = k /\ k + 1 # 0
    BY <2>1, SizeFacts DEF Inodes
  <2>3. it[k] = deep[k]
    BY <1>12, <2>2
  <2>4. Rec(it)[k + 1] = Rec(deep)[k + 1]
    BY <2>1, <2>2, <2>3
  <2>5. it[k + 1] = Rec(it)[k + 1] /\ deep[k + 1] = Rec(deep)[k + 1]
    BY <1>9, <1>10
  <2> QED
    BY <2>4, <2>5
<1>13. Nat \subseteq Good
  <2> HIDE DEF Good
  <2> QED
    BY <1>11, <1>12, NaturalSteps
<1>14. INODE_NUM - 1 \in Nat /\ INODE_NUM - 1 \in Inodes
  BY SizeFacts DEF Inodes
<1>15. it[INODE_NUM - 1].all = UpTo(INODE_NUM - 1)
  <2>1. it[INODE_NUM - 1] = deep[INODE_NUM - 1]
    BY <1>13, <1>14
  <2> QED
    BY <1>14, <2>1 DEF deep
<1>16. UpTo(INODE_NUM - 1) = {Record(v, path, i) : i \in v.inode_bits}
  <2>1. \A i \in v.inode_bits : Len(path[i]) <= INODE_NUM - 1
    BY <1>14, DepthBound
  <2>2. {j \in v.inode_bits : Len(path[j]) <= INODE_NUM - 1} = v.inode_bits
    BY <2>1
  <2> QED
    BY <2>2 DEF UpTo
<1> QED
  BY <1>3, <1>15, <1>16 DEF it

(***************************************************************************)
(* What the invariant says.                                                *)
(***************************************************************************)
\* A counter is what the bitmap leaves, and never negative.
LEMMA CountersType ==
  ASSUME NEW v, Sound(v)
  PROVE  v.free_blocks_count \in Nat /\ v.free_inodes_count \in Nat
<1>1. /\ v.block_bits \in SUBSET Blocks /\ v.inode_bits \in SUBSET Inodes
      /\ BlocksCounted(v) /\ InodesCounted(v)
  BY Fields DEF Sound
<1>2. Cardinality(Blocks) = DATA_BLOCK_NUM /\ Cardinality(Inodes) = INODE_NUM
  <2>1. Cardinality(0 .. DATA_BLOCK_NUM - 1) = DATA_BLOCK_NUM
    BY SizeFacts, FS_Interval
  <2>2. Cardinality(0 .. INODE_NUM - 1) = INODE_NUM
    BY SizeFacts, FS_Interval
  <2> QED
    BY <2>1, <2>2 DEF Blocks, Inodes
<1>3. /\ Cardinality(v.block_bits) \in Nat /\ Cardinality(v.block_bits) <= DATA_BLOCK_NUM
      /\ Cardinality(v.inode_bits) \in Nat /\ Cardinality(v.inode_bits) <= INODE_NUM
  BY <1>1, <1>2, BlocksFinite, FS_Subset, FS_CardinalityType
<1> QED
  BY <1>1, <1>3, SizeFacts DEF BlocksCounted, InodesCounted

\* A sound volume has the type the runs check.
LEMMA SoundTyped ==
  ASSUME Sound(vol)
  PROVE  VolumeOK
<1>1. vol \in Volumes /\ Small(vol) /\ TreeSound(vol) /\ vol.inode_bits \in SUBSET Inodes
  BY Fields DEF Sound
<1>2. /\ vol.block_bits \subseteq Blocks /\ vol.inode_bits \subseteq Inodes
      /\ vol.last_alloc_block \in Slots /\ vol.last_alloc_inode \in Slots
      /\ vol.block \in [Blocks -> [Slots -> Cells]]
  BY <1>1, Fields
<1>3. ASSUME NEW i \in Inodes
      PROVE  /\ vol.inode[i].i_mode \subseteq {"r", "w", "x"}
             /\ vol.inode[i].i_size \in 0 .. MAX_DIR_SIZE
             /\ vol.inode[i].i_block \in Seq(Blocks) /\ Len(vol.inode[i].i_block) <= 8
  <2>1. /\ vol.inode[i].i_mode \subseteq {"r", "w", "x"} /\ vol.inode[i].i_block \in Seq(Blocks)
    BY <1>1, Fields DEF InodeRecords
  <2>2. Len(vol.inode[i].i_block) <= 8
    BY <1>1 DEF Small
  <2>3. MAX_DIR_SIZE \in Nat /\ 2 * DIR_ENTRY_NUM_PER_BLOCK <= MAX_DIR_SIZE
    BY SizeFacts DEF MAX_DIR_SIZE
  <2>4. CASE i \in Dirs(vol)
    <3>1. vol.inode[i].i_size \in 2 .. 2 * DIR_ENTRY_NUM_PER_BLOCK
      BY <1>1, <2>4, DirSize
    <3>2. vol.inode[i].i_size \in 0 .. MAX_DIR_SIZE
      BY <2>3, <3>1, SizeFacts
    <3> QED
      BY <2>1, <2>2, <3>2
  <2>5. CASE i \notin Dirs(vol)
    <3>1. vol.inode[i].i_size = 0
      BY <1>1, <2>5 DEF Dirs, Small
    <3> QED
      BY <2>1, <2>2, <2>3, <3>1
  <2> QED
    BY <2>4, <2>5
<1> QED
  BY <1>2, <1>3, CountersType DEF VolumeOK

\* In a sound volume every marked block has one owner.
LEMMA SoundOwned ==
  ASSUME Sound(vol)
  PROVE  /\ vol.block_bits = UNION {ToSet(BlocksOf(i)) : i \in vol.inode_bits}
         /\ \A i, j \in vol.inode_bits :
              \A k \in DOMAIN BlocksOf(i), l \in DOMAIN BlocksOf(j) :
                BlocksOf(i)[k] = BlocksOf(j)[l] => i = j /\ k = l
         /\ vol.free_blocks_count = DATA_BLOCK_NUM - Cardinality(vol.block_bits)
         /\ vol.free_inodes_count = INODE_NUM - Cardinality(vol.inode_bits)
<1>1. /\ vol \in Volumes /\ vol.inode_bits \in SUBSET Inodes
      /\ Owned(vol.block_bits, vol.inode_bits, Lists(vol))
  BY Fields DEF Sound
<1>2. ASSUME NEW i \in vol.inode_bits
      PROVE  /\ Lists(vol)[i] = BlocksOf(i) /\ ToSet(BlocksOf(i)) = ListedIn(BlocksOf(i))
             /\ DOMAIN BlocksOf(i) = 1 .. Len(BlocksOf(i))
  <2>1. Lists(vol)[i] = BlocksOf(i) /\ BlocksOf(i) \in Seq(Blocks)
    BY <1>1, Fields DEF BlocksOf
  <2> QED
    BY <2>1, ListedSet
<1>3. vol.block_bits = UNION {ToSet(BlocksOf(i)) : i \in vol.inode_bits}
  <2>1. ASSUME NEW b \in vol.block_bits
        PROVE  \E i \in vol.inode_bits : b \in ToSet(BlocksOf(i))
    <3>1. PICK i \in vol.inode_bits : \E k \in 1 .. Len(Lists(vol)[i]) : Lists(vol)[i][k] = b
      BY <1>1 DEF Owned
    <3> QED
      BY <1>2, <3>1 DEF ListedIn
  <2>2. ASSUME NEW i \in vol.inode_bits, NEW b \in ToSet(BlocksOf(i))
        PROVE  b \in vol.block_bits
    BY <1>1, <1>2 DEF Owned, ListedIn
  <2> QED
    BY <2>1, <2>2
<1>4. \A i, j \in vol.inode_bits :
        \A k \in DOMAIN BlocksOf(i), l \in DOMAIN BlocksOf(j) :
          BlocksOf(i)[k] = BlocksOf(j)[l] => i = j /\ k = l
  BY <1>1, <1>2 DEF Owned
<1> QED
  BY <1>3, <1>4 DEF Sound, BlocksCounted, InodesCounted

\* As long as every call is within its contract the volume has its type: no more than
\* eight blocks in an inode, no size that eight blocks could not have, no counter below
\* 0; and the open table and the current directory have theirs whatever was called.
THEOREM TypeCorrect == Spec => []TypeOK
<1>1. FsInv => TypeOK
  BY SoundTyped DEF FsInv, TypeOK, TableOK, PathOK
<1> QED
  BY <1>1, InvHolds, PTL

\* While every call was within the contract (which each action states from what it is
\* given: rm of a closed file with direct blocks only, a disk with room), mkdir, touch,
\* rm, rmdir and write never lose a block, hand one out twice, or leave a live inode
\* with a free one: every marked block is in the list of one live inode, once, and the
\* free counters are what the bitmaps say.
THEOREM BlocksAreOwned == Spec => []BlocksOwned
<1>1. FsInv => BlocksOwned
  BY SoundOwned DEF FsInv, BlocksOwned
<1> QED
  BY <1>1, InvHolds, PTL

\* Within the contract the directories fit together: . and .. where they belong, every
\* other cell empty or an entry of a live inode of the type it says, .. leading back to
\* the directory with the entry, names unique, sizes counting the entries, and every
\* live inode but the root named exactly once.  cd always stands in a live directory.
THEOREM DirectoriesAreSound == Spec => [](kept => TreeSound(vol) /\ current_dir \in Dirs(vol))
<1>1. FsInv => (kept => TreeSound(vol) /\ current_dir \in Dirs(vol))
  BY DEF FsInv, Sound
<1> QED
  BY <1>1, InvHolds, PTL

(***************************************************************************)
(* Paths.  Within the contract `shown' is the tree of the volume, the      *)
(* current path leads to the current directory, and the open table holds   *)
(* live files with different names.                                        *)
(***************************************************************************)
InTable == {k \in TableSlots : file_open_table[k] # 0}
OpenName(path, k) == Last(path[file_open_table[k]])
TableNamed(path) ==
  /\ \A k \in InTable :
       k < FOPEN_TABLE_MAX - 1 /\ file_open_table[k] \in vol.inode_bits \ Dirs(vol)
  /\ \A j, k \in InTable : OpenName(path, j) = OpenName(path, k) => j = k
  /\ file_open_name_set = {OpenName(path, k) : k \in InTable}
Stands(path) == Pathed(vol, path) /\ current_path = path[current_dir] /\ TableNamed(path)
ShownInv == FsInv /\ (kept => shown = Tree(vol) /\ \E path : Stands(path))

\* A file of the table that searchInTable does not miss.
LEMMA InTableFound ==
  ASSUME NEW path, TableNamed(path), NEW k \in InTable
  PROVE  searchInTable(file_open_table[k])
<1>1. k \in TableSlots \ {FOPEN_TABLE_MAX - 1}
  BY CommandAssumption DEF TableNamed, InTable, TableSlots
<1> QED
  BY <1>1 DEF searchInTable

\* The table stays, and with it the files in it and their paths.
LEMMA TableStays ==
  ASSUME NEW path, TableNamed(path), NEW new, UNCHANGED open_files,
         \A k \in InTable : /\ file_open_table[k] \in vol'.inode_bits \ Dirs(vol')
                            /\ new[file_open_table[k]] = path[file_open_table[k]]
  PROVE  TableNamed(new)'
<1>1. InTable' = InTable /\ file_open_table' = file_open_table
      /\ file_open_name_set' = file_open_name_set
  BY DEF InTable, open_files
<1>2. \A k \in InTable : OpenName(new, k)' = OpenName(path, k)
  BY <1>1 DEF OpenName
<1>3. \A k \in InTable' :
        k < FOPEN_TABLE_MAX - 1 /\ file_open_table'[k] \in vol'.inode_bits \ Dirs(vol')
  BY <1>1 DEF TableNamed
<1>4. \A j, k \in InTable' : OpenName(new, j)' = OpenName(new, k)' => j = k
  BY <1>1, <1>2 DEF TableNamed
<1>5. file_open_name_set' = {OpenName(new, k)' : k \in InTable'}
  BY <1>1, <1>2 DEF TableNamed
<1> QED
  BY <1>3, <1>4, <1>5 DEF TableNamed

\* Something was removed, and neither the current directory nor an open file with it.
LEMMA ShrinkStands ==
  ASSUME FsInv, FsInv', kept, kept', NEW path, Stands(path), NEW S, Shrunk(vol, vol', S),
         UNCHANGED <<open_files, position>>, \A k \in InTable : file_open_table[k] \notin S,
         NEW new, new = [j \in vol'.inode_bits |-> path[j]]
  PROVE  Stands(new)'
<1>1. /\ vol'.inode_bits = vol.inode_bits \ S /\ Dirs(vol') = Dirs(vol) \ S
      /\ Pathed(vol', new)
  BY DEF Shrunk, Stands
<1>2. current_dir' = current_dir /\ current_path' = current_path
  BY DEF position
<1>3. current_dir \in vol'.inode_bits
  BY <1>2 DEF FsInv, Dirs
<1>4. TableNamed(new)'
  <2>1. \A k \in InTable : file_open_table[k] \in vol.inode_bits \ Dirs(vol)
    BY DEF Stands, TableNamed
  <2>2. \A k \in InTable : /\ file_open_table[k] \in vol'.inode_bits \ Dirs(vol')
                           /\ new[file_open_table[k]] = path[file_open_table[k]]
    BY <1>1, <2>1
  <2> QED
    BY <2>2, TableStays DEF Stands
<1> QED
  BY <1>1, <1>2, <1>3, <1>4 DEF Stands

\* The files stay where they are, whatever became of their contents.
LEMMA ChangeStands ==
  ASSUME FsInv, kept, NEW path, Stands(path), NEW i, FileChanged(vol, vol', i),
         UNCHANGED <<open_files, position>>
  PROVE  Stands(path)'
<1>1. vol'.inode_bits = vol.inode_bits /\ Dirs(vol') = Dirs(vol) /\ Pathed(vol', path)
  BY DEF FileChanged, Stands
<1>2. current_dir' = current_dir /\ current_path' = current_path
  BY DEF position
<1>3. TableNamed(path)'
  <2>1. \A k \in InTable : /\ file_open_table[k] \in vol'.inode_bits \ Dirs(vol')
                           /\ path[file_open_table[k]] = path[file_open_table[k]]
    BY <1>1 DEF Stands, TableNamed
  <2> QED
    BY <2>1, TableStays DEF Stands
<1> QED
  BY <1>1, <1>2, <1>3 DEF Stands

\* mkdir and touch: a path more.
LEMMA CreateStands ==
  ASSUME FsInv, NEW n \in Names, NEW t \in {FILE, DIR}, Create(n, t), kept',
         NEW path, Stands(path), NEW i, i = NewInode(vol), NEW new,
         new = [j \in vol'.inode_bits |-> IF j = i THEN Append(path[current_dir], n) ELSE path[j]]
  PROVE  Stands(new)' /\ shown' = Tree(vol')
<1>1. Gained(vol, vol', current_dir, n, i, t) /\ kept
  BY CreateKeeps
<1>2. /\ i \notin vol.inode_bits /\ vol'.inode_bits = vol.inode_bits \cup {i}
      /\ Dirs(vol') = Dirs(vol) \cup (IF t = DIR THEN {i} ELSE {})
      /\ Pathed(vol', new)
  BY <1>1 DEF Gained, Stands
<1>3. UNCHANGED <<open_files, position>> /\ shown' = Tree(vol')
  BY DEF Create, Shows
<1>4. current_dir \in vol.inode_bits
  BY <1>1, Starts
<1>5. TableNamed(new)'
  <2>1. \A k \in InTable : /\ file_open_table[k] \in vol'.inode_bits \ Dirs(vol')
                           /\ new[file_open_table[k]] = path[file_open_table[k]]
    BY <1>2 DEF Stands, TableNamed
  <2> QED
    BY <1>3, <2>1, TableStays DEF Stands
<1>6. current_path' = new[current_dir']
  BY <1>2, <1>3, <1>4 DEF Stands, position
<1> QED
  BY <1>2, <1>3, <1>5, <1>6 DEF Stands

\* rm.
LEMMA RmStands ==
  ASSUME FsInv, NEW n \in Names, rm(n), kept', NEW path, Stands(path),
         NEW new, new = [j \in vol'.inode_bits |-> path[j]]
  PROVE  Stands(new)' /\ shown' = Tree(vol')
<1> DEFINE i == NodeOf(n, FILE)
<1>1. /\ FsInv' /\ kept /\ ~searchInTable(i) /\ UNCHANGED open_files
      /\ Shrunk(vol, vol', {i})
  BY RmKeeps
<1>2. UNCHANGED position /\ shown' = Tree(vol')
  BY DEF rm, Shows
<1> HIDE DEF i
<1>3. \A k \in InTable : file_open_table[k] \notin {i}
  BY <1>1, InTableFound DEF Stands
<1> QED
  BY <1>1, <1>2, <1>3, ShrinkStands

\* rmdir of an empty directory: a directory is no open file.
LEMMA RmdirEmptyStands ==
  ASSUME FsInv, NEW n \in Names, rmdir_empty(n), kept', NEW path, Stands(path),
         NEW new, new = [j \in vol'.inode_bits |-> path[j]]
  PROVE  Stands(new)' /\ shown' = Tree(vol')
<1> DEFINE i == NodeOf(n, DIR)
<1>1. FsInv' /\ kept /\ Shrunk(vol, vol', {i})
  BY RmdirEmptyKeeps
<1>2. UNCHANGED <<open_files, position>> /\ shown' = Tree(vol')
  BY DEF rmdir_empty, Shows
<1>3. i \in Dirs(vol)
  <2>1. Sound(vol) /\ current_dir \in Dirs(vol)
    BY <1>1, Starts
  <2>2. Found(vol, current_dir, n, DIR)
    BY DEF rmdir_empty, Exists
  <2> QED
    BY <2>1, <2>2, NameFinds DEF NodeOf
<1> HIDE DEF i
<1>4. \A k \in InTable : file_open_table[k] \notin {i}
  BY <1>3 DEF Stands, TableNamed
<1> QED
  BY <1>1, <1>2, <1>4, ShrinkStands

\* What is in a directory without subdirectories: files.
LEMMA OnlyFiles ==
  ASSUME NEW v, TreeSound(v), NEW i \in Dirs(v), Children(v, i, DIR) = {}
  PROVE  Children(v, i, FILE) = Entries(v, i)
<1>1. ASSUME NEW q \in Entries(v, i) PROVE q \in Children(v, i, FILE)
  <2>1. /\ CellAt(v, i, q).name \in Names /\ CellAt(v, i, q).inode # 0
        /\ CellAt(v, i, q).type \in {FILE, DIR} /\ q \in Places(v, i)
    BY EntryNames DEF Names1, root
  <2>2. CellAt(v, i, q).type # DIR
    BY <2>1 DEF Children
  <2> QED
    BY <2>1, <2>2 DEF Children
<1>2. Children(v, i, FILE) \subseteq Entries(v, i)
  BY DEF Children, Entries
<1> QED
  BY <1>1, <1>2

\* rmdir of a directory with files, none of them open.
LEMMA RmdirElsewhereStands ==
  ASSUME FsInv, NEW n \in Names, rmdir_elsewhere(n), kept', NEW path, Stands(path),
         NEW new, new = [j \in vol'.inode_bits |-> path[j]]
  PROVE  Stands(new)' /\ shown' = Tree(vol')
<1> DEFINE i == NodeOf(n, DIR)
           S == {CellAt(vol, i, q).inode : q \in Entries(vol, i)} \cup {i}
<1>1. /\ FsInv' /\ kept /\ UNCHANGED <<open_files, position>> /\ Shrunk(vol, vol', S)
      /\ Children(vol, i, DIR) = {}
      /\ \A q \in Children(vol, i, FILE) : ~searchInTable(CellAt(vol, i, q).inode)
  BY RmdirElsewhereKeeps
<1>2. shown' = Tree(vol')
  BY DEF rmdir_elsewhere, Shows
<1>3. i \in Dirs(vol) /\ TreeSound(vol)
  <2>1. Sound(vol) /\ current_dir \in Dirs(vol) /\ TreeSound(vol)
    BY <1>1, Starts
  <2>2. Found(vol, current_dir, n, DIR)
    BY DEF rmdir_elsewhere, Exists
  <2> QED
    BY <2>1, <2>2, NameFinds DEF NodeOf
<1> HIDE DEF i
<1>4. ASSUME NEW k \in InTable PROVE file_open_table[k] \notin S
  <2>1. file_open_table[k] # i
    BY <1>3 DEF Stands, TableNamed
  <2>2. searchInTable(file_open_table[k])
    BY InTableFound DEF Stands
  <2>3. \A q \in Entries(vol, i) : ~searchInTable(CellAt(vol, i, q).inode)
    BY <1>1, <1>3, OnlyFiles
  <2> QED
    BY <2>1, <2>2, <2>3
<1> HIDE DEF S
<1> QED
  BY <1>1, <1>2, <1>4, ShrinkStands

\* rmdir, whichever way it goes.
LEMMA RmdirStands ==
  ASSUME FsInv, NEW n \in Names, rmdir(n), kept', NEW path, Stands(path),
         NEW new, new = [j \in vol'.inode_bits |-> path[j]]
  PROVE  Stands(new)' /\ shown' = Tree(vol')
<1>1. CASE rmdir_empty(n)
  BY <1>1, RmdirEmptyStands
<1>2. CASE rmdir_in_root(n)
  BY <1>2 DEF rmdir_in_root
<1>3. CASE rmdir_elsewhere(n)
  BY <1>3, RmdirElsewhereStands
<1> QED
  BY <1>1, <1>2, <1>3 DEF rmdir

\* chmod.
LEMMA ChmodStands ==
  ASSUME FsInv, NEW n \in Names, NEW mode \in Modes, chmod(n, mode), kept', NEW path, Stands(path)
  PROVE  Stands(path)' /\ shown' = Tree(vol')
<1>1. kept /\ FileChanged(vol, vol', NodeOf(n, FILE))
  BY ChmodKeeps
<1>2. UNCHANGED <<open_files, position>> /\ shown' = Tree(vol')
  BY DEF chmod, Shows
<1> QED
  BY <1>1, <1>2, ChangeStands

\* write.
LEMMA WriteStands ==
  ASSUME FsInv, NEW n \in Names, NEW d \in Data, NEW length \in Lengths, write(n, d, length),
         kept', NEW path, Stands(path)
  PROVE  Stands(path)' /\ shown' = Tree(vol')
<1>1. kept /\ FileChanged(vol, vol', NodeOf(n, FILE))
  BY WriteKeeps
<1>2. UNCHANGED <<open_files, position>> /\ shown' = Tree(vol')
  BY DEF write, Shows
<1> QED
  BY <1>1, <1>2, ChangeStands

\* The volume stays, and the tree with it.
LEMMA StillStands ==
  ASSUME ShownInv, kept, kept', UNCHANGED vol, NEW path, Pathed(vol, path),
         current_path' = path[current_dir'], TableNamed(path)', Shows(shown) \/ UNCHANGED shown
  PROVE  Stands(path)' /\ shown' = Tree(vol')
<1>1. shown = Tree(vol)
  BY DEF ShownInv
<1>2. shown' = shown
  BY DEF Shows
<1>3. Tree(vol') = Tree(vol)
  OBVIOUS
<1>4. Pathed(vol', path)
  OBVIOUS
<1> QED
  BY <1>1, <1>2, <1>3, <1>4 DEF Stands

\* cd to a directory by its name.
LEMMA CdDownStands ==
  ASSUME ShownInv, NEW n \in Names, cd_down(n), kept', NEW path, Stands(path)
  PROVE  /\ Stands(path)' /\ shown' = Tree(vol') /\ kept /\ Found(vol, current_dir, n, DIR)
         /\ path[NodeOf(n, DIR)] = Append(path[current_dir], n)
<1>1. /\ kept /\ Found(vol, current_dir, n, DIR) /\ current_dir' = NodeOf(n, DIR)
      /\ current_path' = Append(current_path, n)
      /\ UNCHANGED <<vol, open_files, commands, shown>>
  BY DEF cd_down, Exists, Shows
<1>2. Sound(vol) /\ current_dir \in Dirs(vol) /\ TreeSound(vol)
  BY <1>1, Starts DEF ShownInv
<1>3. path[NodeOf(n, DIR)] = Append(path[current_dir], n)
  <2> DEFINE p == searchFile(vol, current_dir, n, DIR)
  <2>1. p \in Entries(vol, current_dir) /\ NodeOf(n, DIR) = CellAt(vol, current_dir, p).inode
    BY <1>1, <1>2, NameFinds DEF NodeOf
  <2>2. CellAt(vol, current_dir, p).name = n
    BY <1>1, <1>2, SearchFinds
  <2> HIDE DEF p
  <2> QED
    BY <1>2, <2>1, <2>2 DEF Stands, Pathed
<1>4. current_path' = path[current_dir']
  BY <1>1, <1>3 DEF Stands
<1>5. TableNamed(path)'
  BY <1>1 DEF Stands, TableNamed, InTable, OpenName, open_files
<1>6. Stands(path)' /\ shown' = Tree(vol')
  <2>1. Pathed(vol, path) /\ kept' /\ UNCHANGED vol /\ UNCHANGED shown
    BY <1>1 DEF Stands
  <2> QED
    BY <1>1, <1>4, <1>5, <2>1, StillStands
<1> QED
  BY <1>1, <1>3, <1>6

\* The last name of a path, and the path without it.
LEMMA AppendedEnds ==
  ASSUME NEW S, NEW s \in Seq(S), NEW e \in S
  PROVE  Front(Append(s, e)) = s /\ Last(Append(s, e)) = e
<1>1. Append(s, e) \in Seq(S) /\ Len(Append(s, e)) = Len(s) + 1 /\ Len(s) \in Nat
  BY AppendProperties, LenProperties
<1>2. Last(Append(s, e)) = e
  BY <1>1, AppendProperties DEF Last
<1>3. Front(Append(s, e)) = s
  <2>1. Front(Append(s, e)) = [k \in 1 .. Len(s) |-> Append(s, e)[k]]
    BY <1>1 DEF Front
  <2>2. \A k \in 1 .. Len(s) : Append(s, e)[k] = s[k]
    BY AppendProperties
  <2>3. s = [k \in 1 .. Len(s) |-> s[k]]
    BY LenProperties
  <2> QED
    BY <2>1, <2>2, <2>3
<1> QED
  BY <1>2, <1>3

\* A live inode but the root lies below its parent, under the name of its entry.
LEMMA BelowParent ==
  ASSUME NEW v, TreeSound(v), NEW path, Pathed(v, path), NEW i \in v.inode_bits \ {root}
  PROVE  \E p \in Entries(v, Parent(v, i)) :
           /\ Parent(v, i) \in Dirs(v) /\ i = CellAt(v, Parent(v, i), p).inode
           /\ CellAt(v, Parent(v, i), p).type = Kind(v, i)
           /\ path[i] = Append(path[Parent(v, i)], CellAt(v, Parent(v, i), p).name)
           /\ CellAt(v, Parent(v, i), p).name \in Names /\ path[Parent(v, i)] \in Seq(Names)
           /\ Front(path[i]) = path[Parent(v, i)]
           /\ Last(path[i]) = CellAt(v, Parent(v, i), p).name
           /\ Len(path[i]) = Len(path[Parent(v, i)]) + 1 /\ Len(path[Parent(v, i)]) \in Nat
<1>1. PICK d \in Dirs(v) : \E p \in Entries(v, d) : i = CellAt(v, d, p).inode
  BY HasParent
<1>2. PICK p \in Entries(v, d) : i = CellAt(v, d, p).inode
  BY <1>1
<1> DEFINE n == CellAt(v, d, p).name
<1>3. /\ Parent(v, i) = d /\ CellAt(v, d, p).type = Kind(v, i) /\ n \in Names
      /\ path[d] \in Seq(Names) /\ path[i] = Append(path[d], n)
      /\ Len(path[d]) \in Nat /\ Len(path[i]) = Len(path[d]) + 1
  BY <1>2, NamedAbove
<1> HIDE DEF n
<1>4. Front(Append(path[d], n)) = path[d] /\ Last(Append(path[d], n)) = n
  BY <1>3, AppendedEnds
<1> QED
  BY <1>1, <1>2, <1>3, <1>4 DEF n

\* The second cell of a directory leads to the one above it.
LEMMA DotDotParent ==
  ASSUME NEW v, TreeSound(v), NEW d \in Dirs(v)
  PROVE  CellAt(v, d, DotDot).inode = Parent(v, d)
<1>1. CASE d = root
  BY <1>1 DEF TreeSound, Dotted, Parent
<1>2. CASE d # root
  <2>1. d \in v.inode_bits \ {root}
    BY <1>2 DEF Dirs
  <2>2. PICK e \in Dirs(v) : \E p \in Entries(v, e) : d = CellAt(v, e, p).inode
    BY <2>1, HasParent
  <2>3. PICK p \in Entries(v, e) : d = CellAt(v, e, p).inode
    BY <2>2
  <2>4. Names1(v, e, CellAt(v, e, p))
    BY EntryNames
  <2>5. \A f \in Dirs(v) : (\E q \in Entries(v, f) : CellAt(v, f, q).inode = d) => f = e
    BY <2>3 DEF TreeSound, NamedOnce
  <2>6. Parent(v, d) = e
    BY <1>2, <2>3, <2>5 DEF Parent
  <2> QED
    BY <2>3, <2>4, <2>6 DEF Names1
<1> QED
  BY <1>1, <1>2

\* Moving changes neither the tree nor what is open.
LEMMA MoveStands ==
  ASSUME ShownInv, kept, UNCHANGED <<vol, open_files, kept, commands, shown>>,
         NEW path, Stands(path), current_path' = path[current_dir']
  PROVE  Stands(path)' /\ shown' = Tree(vol')
<1>1. TableNamed(path)'
  BY DEF Stands, TableNamed, InTable, OpenName, open_files
<1>2. Pathed(vol, path) /\ kept' /\ UNCHANGED vol /\ UNCHANGED shown
  BY DEF Stands
<1> QED
  BY <1>1, <1>2, StillStands

\* cd .. : the path loses its last name, and in the root none.
LEMMA CdUpStands ==
  ASSUME ShownInv, cd_up, NEW path, Stands(path)
  PROVE  /\ Stands(path)' /\ shown' = Tree(vol') /\ kept
         /\ current_dir = root => UNCHANGED <<current_dir, current_path>>
         /\ current_dir # root => current_path # <<>> /\ current_path' = Front(current_path)
<1> DEFINE d == current_dir
<1>1. /\ kept /\ UNCHANGED <<vol, open_files, kept, commands, shown>>
      /\ current_dir' = NodeOf("..", DIR)
  BY DEF cd_up
<1>2. Sound(vol) /\ d \in Dirs(vol) /\ TreeSound(vol) /\ d \in vol.inode_bits
  BY <1>1, Starts DEF ShownInv
<1>3. Place("..", DIR) = DotDot /\ current_dir' = Parent(vol, d)
  <2>1. Place("..", DIR) = DotDot /\ NodeOf("..", DIR) = CellAt(vol, d, DotDot).inode
    BY <1>2, DotDotFound DEF Place, NodeOf
  <2> QED
    BY <1>1, <1>2, <2>1, DotDotParent
<1>4. BeforeDotDot(DotDot).name_len = 1 /\ BeforeDotDot(DotDot).inode = d
  <2>1. CellAt(vol, d, Dot) = Entry(d, DIR, ".", 1)
    BY <1>2 DEF TreeSound, Dotted
  <2>2. BeforeDotDot(DotDot) = CellAt(vol, d, Dot)
    BY DEF BeforeDotDot, DotDot, Dot
  <2> QED
    BY <2>1, <2>2 DEF Entry
<1>5. IF d # 0 THEN current_path' = Front(current_path) ELSE current_path' = current_path
  BY <1>3, <1>4 DEF cd_up
<1>6. CASE d = root
  <2>1. current_dir' = d /\ current_path' = current_path
    BY <1>3, <1>5, <1>6 DEF Parent, root
  <2> QED
    BY <2>1, <1>1, <1>6, MoveStands DEF Stands
<1>7. CASE d # root
  <2>1. /\ Front(path[d]) = path[Parent(vol, d)] /\ Len(path[d]) # 0
    <3>1. Pathed(vol, path) /\ d \in vol.inode_bits \ {root}
      BY <1>2, <1>7 DEF Stands
    <3> QED
      BY <1>2, <3>1, BelowParent
  <2>2. current_path # <<>> /\ current_path' = Front(current_path)
    BY <1>5, <1>7, <2>1 DEF Stands, root
  <2>3. current_path' = path[current_dir']
    BY <1>3, <2>1, <2>2 DEF Stands
  <2> QED
    BY <1>1, <1>7, <2>2, <2>3, MoveStands DEF Stands
<1> QED
  BY <1>6, <1>7

\* Where an entry of the current directory leads.
LEMMA HereLeads ==
  ASSUME NEW v, Sound(v), NEW path, Pathed(v, path), NEW d \in Dirs(v), NEW n \in Names, NEW t,
         Found(v, d, n, t)
  PROVE  /\ Node(v, d, n, t) \in v.inode_bits \ {root} /\ d \in v.inode_bits
         /\ path[d] \in Seq(Names) /\ path[Node(v, d, n, t)] = Append(path[d], n)
         /\ Kind(v, Node(v, d, n, t)) = t /\ Parent(v, Node(v, d, n, t)) = d
         /\ Last(path[Node(v, d, n, t)]) = n
<1> DEFINE p == searchFile(v, d, n, t)
           i == Node(v, d, n, t)
<1>1. p \in Entries(v, d) /\ i = CellAt(v, d, p).inode /\ TreeSound(v)
  BY NameFinds DEF Sound
<1>2. CellAt(v, d, p).name = n /\ CellAt(v, d, p).type = t
  BY SearchFinds
<1> HIDE DEF p, i
<1>3. /\ i \in v.inode_bits \ {root} /\ d \in v.inode_bits /\ Parent(v, i) = d /\ t = Kind(v, i)
      /\ path[d] \in Seq(Names) /\ path[i] = Append(path[d], n)
  BY <1>1, <1>2, NamedAbove
<1>4. Last(Append(path[d], n)) = n
  BY <1>3, AppendedEnds
<1> QED
  BY <1>3, <1>4 DEF i

\* The slot found is the least with its inode.
LEMMA SlotFound ==
  ASSUME NEW i, \E k \in TableSlots : file_open_table[k] = i, NEW c,
         c = LeastOf({k \in TableSlots : file_open_table[k] = i})
  PROVE  c \in TableSlots /\ file_open_table[c] = i
<1> DEFINE S == {k \in TableSlots : file_open_table[k] = i}
<1>1. S \subseteq Nat /\ S # {}
  BY CommandAssumption DEF TableSlots
<1> HIDE DEF S
<1>2. \E x \in S : \A y \in S : x <= y
  BY <1>1, LeastNatural
<1>3. LeastOf(S) \in S
  BY <1>2 DEF LeastOf
<1> QED
  BY <1>3 DEF S

\* open: the slot was free, and no open file has the name.
LEMMA OpenStands ==
  ASSUME ShownInv, NEW n \in Names, open(n), kept', NEW path, Stands(path)
  PROVE  /\ Stands(path)' /\ shown' = Tree(vol') /\ kept
         /\ \A j : j # 0 => (searchInTable(j)' <=> searchInTable(j) \/ j = NodeOf(n, FILE))
<1> DEFINE i == NodeOf(n, FILE)
           last == FOPEN_TABLE_MAX - 1
<1>1. /\ MayRun /\ Found(vol, current_dir, n, FILE) /\ UNCHANGED <<vol, position>>
      /\ file_open_name_set' = file_open_name_set \cup {n} /\ Shows(shown)
  BY DEF open, Exists
<1>2. PICK k \in TableSlots :
        /\ k = LeastOf({j \in TableSlots : file_open_table[j] = 0})
        /\ file_open_table' = [file_open_table EXCEPT ![k] = i]
        /\ kept' = (k # last /\ n \notin file_open_name_set)
  BY DEF open
<1>3. kept /\ Sound(vol) /\ current_dir \in Dirs(vol) /\ FsInv /\ TreeSound(vol)
  BY <1>1, Starts DEF MayRun, ShownInv
<1>4. i \in vol.inode_bits \ Dirs(vol) /\ i # 0 /\ Last(path[i]) = n
  <2>1. Pathed(vol, path)
    BY DEF Stands
  <2>2. Node(vol, current_dir, n, FILE) \in vol.inode_bits \ {root}
        /\ Kind(vol, Node(vol, current_dir, n, FILE)) = FILE
        /\ Last(path[Node(vol, current_dir, n, FILE)]) = n
    BY <1>1, <1>3, <2>1, HereLeads
  <2> QED
    BY <2>2 DEF NodeOf, Kind, FILE, DIR, root
<1>5. last \in TableSlots /\ last \in Nat
  BY CommandAssumption DEF TableSlots
<1>6. file_open_table \in [TableSlots -> Inodes]
  BY <1>3 DEF FsInv, TableOK
<1> HIDE DEF i
<1>7. file_open_table[k] = 0
  <2>1. file_open_table[last] = 0
    BY <1>5 DEF Stands, TableNamed, InTable
  <2> QED
    BY <1>2, <1>5, <2>1, SlotFound
<1>8. k # last /\ k < last /\ n \notin file_open_name_set
  <2>1. k # last /\ n \notin file_open_name_set
    BY <1>2
  <2> QED
    BY <2>1, <1>5 DEF TableSlots
<1>9. /\ InTable' = InTable \cup {k} /\ k \notin InTable
      /\ \A j \in InTable : OpenName(path, j)' = OpenName(path, j) /\ j # k
      /\ OpenName(path, k)' = n
  <2>1. \A j \in TableSlots : file_open_table'[j] = IF j = k THEN i ELSE file_open_table[j]
    BY <1>2, <1>6
  <2>2. InTable' = InTable \cup {k} /\ k \notin InTable
    BY <1>4, <1>7, <2>1 DEF InTable
  <2> QED
    BY <1>4, <2>1, <2>2 DEF OpenName, InTable
<1>10. TableNamed(path)'
  <2>1. \A j \in InTable' : j < FOPEN_TABLE_MAX - 1 /\ file_open_table'[j] \in vol'.inode_bits \ Dirs(vol')
    <3>1. \A j \in TableSlots : file_open_table'[j] = IF j = k THEN i ELSE file_open_table[j]
      BY <1>2, <1>6
    <3> QED
      BY <1>1, <1>4, <1>8, <1>9, <3>1 DEF Stands, TableNamed, InTable
  <2>2. \A j \in InTable : OpenName(path, j) # n
    BY <1>8 DEF Stands, TableNamed
  <2>3. \A j, h \in InTable' : OpenName(path, j)' = OpenName(path, h)' => j = h
    BY <1>9, <2>2 DEF Stands, TableNamed
  <2>4. file_open_name_set' = {OpenName(path, j)' : j \in InTable'}
    BY <1>1, <1>9 DEF Stands, TableNamed
  <2> QED
    BY <2>1, <2>3, <2>4 DEF TableNamed
<1>11. Stands(path)' /\ shown' = Tree(vol')
  <2>1. Pathed(vol, path) /\ UNCHANGED vol /\ current_path' = path[current_dir']
    BY <1>1 DEF Stands, position
  <2> QED
    BY <1>1, <1>3, <1>10, <2>1, StillStands
<1>12. ASSUME NEW j, j # 0 PROVE searchInTable(j)' <=> searchInTable(j) \/ j = i
  <2>1. \A h \in TableSlots : file_open_table'[h] = IF h = k THEN i ELSE file_open_table[h]
    BY <1>2, <1>6
  <2>2. searchInTable(j)' <=> \E h \in TableSlots \ {last} : file_open_table'[h] = j
    BY DEF searchInTable
  <2> QED
    BY <1>7, <1>8, <1>12, <2>1, <2>2 DEF searchInTable
<1> QED
  BY <1>3, <1>11, <1>12 DEF i

\* close: the slot of the file is free again, and its name goes.
LEMMA CloseStands ==
  ASSUME ShownInv, NEW n \in Names, close(n), kept', NEW path, Stands(path)
  PROVE  /\ Stands(path)' /\ shown' = Tree(vol') /\ kept
         /\ \A j : j # 0 => (searchInTable(j)' <=> searchInTable(j) /\ j # NodeOf(n, FILE))
<1> DEFINE i == NodeOf(n, FILE)
           last == FOPEN_TABLE_MAX - 1
           c == ClosedSlot(i)
<1>1. /\ MayRun /\ Found(vol, current_dir, n, FILE) /\ UNCHANGED <<vol, position>>
      /\ searchInTable(i) /\ Closed({i}, {n}) /\ Shows(shown)
  BY DEF close, Exists
<1>2. kept /\ Sound(vol) /\ current_dir \in Dirs(vol) /\ FsInv /\ TreeSound(vol)
  BY <1>1, Starts DEF MayRun, ShownInv
<1>3. i \in vol.inode_bits \ Dirs(vol) /\ i # 0 /\ Last(path[i]) = n
  <2>1. Pathed(vol, path)
    BY DEF Stands
  <2>2. Node(vol, current_dir, n, FILE) \in vol.inode_bits \ {root}
        /\ Kind(vol, Node(vol, current_dir, n, FILE)) = FILE
        /\ Last(path[Node(vol, current_dir, n, FILE)]) = n
    BY <1>1, <1>2, <2>1, HereLeads
  <2> QED
    BY <2>2 DEF NodeOf, Kind, FILE, DIR, root
<1> HIDE DEF i, c
<1>4. c \in TableSlots /\ file_open_table[c] = i
  <2>1. \E k \in TableSlots : file_open_table[k] = i
    BY <1>1 DEF searchInTable
  <2>2. c = LeastOf({k \in TableSlots : file_open_table[k] = i})
    BY DEF c, ClosedSlot
  <2> QED
    BY <2>1, <2>2, SlotFound
<1>5. \A k \in TableSlots : file_open_table'[k] = IF k = c THEN 0 ELSE file_open_table[k]
  BY <1>1 DEF Closed, c
<1>6. c \in InTable /\ OpenName(path, c) = n
  BY <1>3, <1>4 DEF InTable, OpenName
<1>7. InTable' = InTable \ {c} /\ \A j \in InTable' : OpenName(path, j)' = OpenName(path, j)
  BY <1>5 DEF InTable, OpenName
<1>8. \A j \in InTable' : OpenName(path, j) # n
  BY <1>6, <1>7 DEF Stands, TableNamed
<1>9. TableNamed(path)'
  <2>1. \A j \in InTable' : j < last /\ file_open_table'[j] \in vol'.inode_bits \ Dirs(vol')
    BY <1>1, <1>5, <1>7 DEF Stands, TableNamed, InTable
  <2>2. \A j, h \in InTable' : OpenName(path, j)' = OpenName(path, h)' => j = h
    BY <1>7 DEF Stands, TableNamed
  <2>3. file_open_name_set' = {OpenName(path, j)' : j \in InTable'}
    BY <1>1, <1>6, <1>7, <1>8 DEF Stands, TableNamed, Closed
  <2> QED
    BY <2>1, <2>2, <2>3 DEF TableNamed
<1>10. Stands(path)' /\ shown' = Tree(vol')
  <2>1. Pathed(vol, path) /\ UNCHANGED vol /\ current_path' = path[current_dir']
    BY <1>1 DEF Stands, position
  <2> QED
    BY <1>1, <1>2, <1>9, <2>1, StillStands
<1>11. ASSUME NEW j, j # 0 PROVE searchInTable(j)' <=> searchInTable(j) /\ j # i
  <2>1. ASSUME NEW k \in TableSlots, file_open_table[k] = i PROVE k = c
    <3>1. k \in InTable /\ OpenName(path, k) = OpenName(path, c)
      BY <1>3, <1>4, <2>1 DEF InTable, OpenName
    <3> QED
      BY <1>6, <3>1 DEF Stands, TableNamed
  <2>2. searchInTable(j)' <=> \E k \in TableSlots \ {last} : file_open_table'[k] = j
    BY DEF searchInTable
  <2> QED
    BY <1>4, <1>5, <1>11, <2>1, <2>2 DEF searchInTable
<1> QED
  BY <1>2, <1>10, <1>11 DEF i

\* A new file system: the root at the empty path, and no file open.
LEMMA InitStands ==
  ASSUME Init, NEW path, path = [i \in {root} |-> <<>>]
  PROVE  Stands(path) /\ shown = Tree(vol) /\ vol.inode_bits = {root} /\ Dirs(vol) = {root}
<1>1. vol = NewVolume /\ current_path = <<>> /\ current_dir = root /\ shown = Tree(vol)
  BY DEF Init
<1>2. InTable = {} /\ file_open_name_set = {}
  BY DEF Init, InTable
<1>3. Pathed(vol, path) /\ vol.inode_bits = {root} /\ Dirs(vol) = {root}
  BY <1>1, NewSound
<1>4. TableNamed(path)
  BY <1>2 DEF TableNamed
<1> QED
  BY <1>1, <1>3, <1>4 DEF Stands

\* No command runs after the contract was broken.
LEMMA KeptBefore ==
  ASSUME Next
  PROVE  kept
<1>1. cd_up => kept
  BY DEF cd_up
<1>2. \A n \in Names : mkdir(n) \/ touch(n) \/ rm(n) => kept
  BY DEF mkdir, touch, Create, rm, MayRun
<1>3. \A n \in Names : rmdir(n) => kept
  BY DEF rmdir, rmdir_empty, rmdir_in_root, rmdir_elsewhere, MayRun
<1>4. \A n \in Names : cd_down(n) \/ open(n) \/ close(n) => kept
  BY DEF cd_down, open, close, MayRun
<1>5. /\ \A n \in Names, t \in {FILE, DIR} : create_hangs(n, t) => kept
      /\ \A n \in Names, mode \in Modes : chmod(n, mode) => kept
  BY DEF create_hangs, chmod, MayRun
<1>6. /\ \A n \in Names, length \in Lengths : write_ends(n, length) => kept
      /\ \A n \in Names, length \in Lengths, d \in Data : write(n, d, length) => kept
  BY DEF write_ends, write, Writes, MayRun
<1> QED
  BY <1>1, <1>2, <1>3, <1>4, <1>5, <1>6 DEF Next

\* Every command within the contract, and a step of none, keeps it.
LEMMA StepStands == ShownInv /\ [Next]_vars => ShownInv'
<1> SUFFICES ASSUME ShownInv, [Next]_vars, kept'
             PROVE  shown' = Tree(vol') /\ \E path : Stands(path)'
  BY StepKeeps DEF ShownInv
<1>1. CASE UNCHANGED vars
  <2>1. UNCHANGED <<vol, open_files, position, kept, shown>>
    BY <1>1 DEF vars
  <2>2. kept /\ shown' = shown /\ shown = Tree(vol)
    BY <2>1 DEF ShownInv
  <2>3. PICK path : Stands(path)
    BY <2>2 DEF ShownInv
  <2>4. Stands(path)'
    BY <2>1, <2>3 DEF Stands, TableNamed, InTable, OpenName, open_files, position
  <2> QED
    BY <2>1, <2>2, <2>4
<1>2. CASE Next
  <2>1. kept /\ FsInv
    BY <1>2, KeptBefore DEF ShownInv
  <2>2. PICK path : Stands(path)
    BY <2>1 DEF ShownInv
  <2>3. CASE cd_up
    BY <2>2, <2>3, CdUpStands
  <2>4. ASSUME NEW n \in Names, mkdir(n) \/ touch(n) PROVE shown' = Tree(vol') /\ \E q : Stands(q)'
    <3>1. PICK t \in {FILE, DIR} : Create(n, t)
      BY <2>4 DEF mkdir, touch
    <3> QED
      BY <2>1, <2>2, <3>1, CreateStands
  <2>5. ASSUME NEW n \in Names, rm(n) PROVE shown' = Tree(vol') /\ \E q : Stands(q)'
    BY <2>1, <2>2, <2>5, RmStands
  <2>6. ASSUME NEW n \in Names, rmdir(n) PROVE shown' = Tree(vol') /\ \E q : Stands(q)'
    BY <2>1, <2>2, <2>6, RmdirStands
  <2>7. ASSUME NEW n \in Names, cd_down(n) \/ open(n) \/ close(n)
        PROVE  shown' = Tree(vol') /\ \E q : Stands(q)'
    BY <2>2, <2>7, CdDownStands, OpenStands, CloseStands
  <2>8. ASSUME NEW n \in Names, NEW mode \in Modes, chmod(n, mode)
        PROVE  shown' = Tree(vol') /\ \E q : Stands(q)'
    BY <2>1, <2>2, <2>8, ChmodStands
  <2>9. ASSUME NEW n \in Names, NEW length \in Lengths, NEW d \in Data, write(n, d, length)
        PROVE  shown' = Tree(vol') /\ \E q : Stands(q)'
    BY <2>1, <2>2, <2>9, WriteStands
  <2> QED
    BY <1>2, <2>3, <2>4, <2>5, <2>6, <2>7, <2>8, <2>9 DEF Next, create_hangs, write_ends, Ends
<1> QED
  BY <1>1, <1>2

\* So it holds always.
LEMMA ShownHolds == Spec => []ShownInv
<1>1. Init => ShownInv
  BY InitHolds, InitStands DEF ShownInv
<1> QED
  BY <1>1, StepStands, PTL DEF Spec

(***************************************************************************)
(* What ShownInv says.                                                     *)
(***************************************************************************)
\* A set and what its members are mapped to one by one have the same size.
LEMMA SameSize ==
  ASSUME NEW S, IsFiniteSet(S), NEW T, NEW f, f \in [S -> T],
         \A a, b \in S : f[a] = f[b] => a = b, \A t \in T : \E a \in S : f[a] = t
  PROVE  IsFiniteSet(T) /\ Cardinality(T) = Cardinality(S)
<1>1. f \in Bijection(S, T)
  BY DEF Bijection, Injection, IsInjective, Surjection
<1>2. ExistsBijection(S, T)
  BY <1>1 DEF ExistsBijection
<1> QED
  BY <1>2, FS_Bijection

\* The fields of a record of the tree.
LEMMA RecordFields ==
  ASSUME NEW v, NEW path, NEW i
  PROVE  /\ Record(v, path, i).path = path[i] /\ Record(v, path, i).inode = i
         /\ Record(v, path, i).type = Kind(v, i) /\ Record(v, path, i).parent = Parent(v, i)
         /\ Record(v, path, i).mode = v.inode[i].i_mode
         /\ Record(v, path, i).text = IF i \in Dirs(v) THEN <<>> ELSE ReadText(v, i)
         /\ Kind(v, i) = DIR <=> i \in Dirs(v)
         /\ Kind(v, i) = FILE <=> i \notin Dirs(v)
BY DEF Record, Kind, FILE, DIR

\* What is shown, the directories and the files of it.
LEMMA ShownIs ==
  ASSUME ShownInv, kept, NEW path, Stands(path)
  PROVE  /\ shown = {Record(vol, path, i) : i \in vol.inode_bits}
         /\ Directories = {Record(vol, path, i) : i \in Dirs(vol)}
         /\ Files = {Record(vol, path, i) : i \in vol.inode_bits \ Dirs(vol)}
<1>1. shown = {Record(vol, path, i) : i \in vol.inode_bits}
  BY TreeIs DEF ShownInv, FsInv, Stands
<1>2. \A i : Record(vol, path, i).type = DIR <=> i \in Dirs(vol)
  BY RecordFields
<1>3. \A i : Record(vol, path, i).type = FILE <=> i \notin Dirs(vol)
  BY RecordFields
<1>4. Dirs(vol) \subseteq vol.inode_bits
  BY DEF Dirs
<1>5. Directories = {Record(vol, path, i) : i \in Dirs(vol)}
  BY <1>1, <1>2, <1>4 DEF Directories
<1>6. Files = {Record(vol, path, i) : i \in vol.inode_bits \ Dirs(vol)}
  BY <1>1, <1>3 DEF Files
<1> QED
  BY <1>1, <1>5, <1>6

\* The entries of a directory and the records below it are as many.
LEMMA EntriesCounted ==
  ASSUME ShownInv, kept, NEW path, Stands(path), NEW d \in Dirs(vol)
  PROVE  /\ Named(d) = Entries(vol, d)
         /\ Cardinality(Named(d)) = Cardinality({f \in shown : f.path # <<>> /\ f.parent = d})
<1> DEFINE T == {f \in shown : f.path # <<>> /\ f.parent = d}
           f == [p \in Entries(vol, d) |-> Record(vol, path, CellAt(vol, d, p).inode)]
<1>1. /\ Sound(vol) /\ vol \in Volumes /\ TreeSound(vol) /\ Pathed(vol, path)
      /\ shown = {Record(vol, path, i) : i \in vol.inode_bits}
  BY ShownIs, Starts DEF ShownInv, Stands
<1>2. Named(d) = Entries(vol, d)
  <2>1. \A p \in Entries(vol, d) : CellAt(vol, d, p).inode # 0
    BY <1>1, EntryNames DEF Names1, root
  <2> QED
    BY <2>1 DEF Named, Entries
<1>3. IsFiniteSet(Entries(vol, d))
  <2>1. Len(vol.inode[d].i_block) \in 1 .. 2
    BY <1>1 DEF TreeSound, Dotted
  <2> QED
    BY <2>1, PlacesOf, FS_Subset DEF Entries
<1>4. ASSUME NEW p \in Entries(vol, d) PROVE f[p] \in T
  <2> DEFINE i == CellAt(vol, d, p).inode
  <2>1. i \in vol.inode_bits /\ Parent(vol, i) = d /\ Len(path[d]) \in Nat
        /\ Len(path[i]) = Len(path[d]) + 1
    BY <1>1, NamedAbove
  <2>2. path[i] # <<>>
    BY <2>1
  <2> HIDE DEF i
  <2>3. Record(vol, path, i).path # <<>> /\ Record(vol, path, i).parent = d
    BY <2>1, <2>2, RecordFields
  <2>4. Record(vol, path, i) \in shown
    BY <1>1, <2>1
  <2> QED
    BY <2>3, <2>4 DEF i
<1>5. ASSUME NEW p \in Entries(vol, d), NEW q \in Entries(vol, d), f[p] = f[q] PROVE p = q
  <2>1. CellAt(vol, d, p).inode = CellAt(vol, d, q).inode
    BY <1>5, RecordFields
  <2> QED
    BY <1>1, <2>1 DEF TreeSound, NamedOnce
<1>6. ASSUME NEW t \in T PROVE \E p \in Entries(vol, d) : f[p] = t
  <2>1. PICK i \in vol.inode_bits : t = Record(vol, path, i)
    BY <1>1
  <2>2. path[i] # <<>> /\ Parent(vol, i) = d
    BY <2>1, RecordFields
  <2>3. i # root
    BY <1>1, <2>2 DEF Pathed
  <2>4. PICK p \in Entries(vol, Parent(vol, i)) : i = CellAt(vol, Parent(vol, i), p).inode
    BY <1>1, <2>3, BelowParent
  <2> QED
    BY <2>1, <2>2, <2>4
<1>7. f \in [Entries(vol, d) -> T]
  BY <1>4
<1> HIDE DEF f, T
<1>8. Cardinality(T) = Cardinality(Entries(vol, d))
  BY <1>3, <1>5, <1>6, <1>7, SameSize
<1> QED
  BY <1>2, <1>8 DEF T

\* As many records as live inodes.
LEMMA ShownCounted ==
  ASSUME ShownInv, kept
  PROVE  vol.inode_bits = {q.inode : q \in shown} /\ Cardinality(vol.inode_bits) = Cardinality(shown)
<1>1. PICK path : Stands(path)
  BY DEF ShownInv
<1>2. shown = {Record(vol, path, i) : i \in vol.inode_bits}
  BY <1>1, ShownIs
<1>3. \A i : Record(vol, path, i).inode = i
  BY RecordFields
<1>4. IsFiniteSet(vol.inode_bits)
  BY Starts, BlocksFinite, FS_Subset DEF ShownInv
<1> DEFINE f == [i \in vol.inode_bits |-> Record(vol, path, i)]
<1>5. /\ f \in [vol.inode_bits -> shown] /\ \A i, j \in vol.inode_bits : f[i] = f[j] => i = j
      /\ \A q \in shown : \E i \in vol.inode_bits : f[i] = q
  BY <1>2, <1>3
<1> HIDE DEF f
<1>6. Cardinality(vol.inode_bits) = Cardinality(shown)
  BY <1>4, <1>5, SameSize
<1>7. vol.inode_bits = {q.inode : q \in shown}
  BY <1>2, <1>3
<1> QED
  BY <1>6, <1>7

\* mkdir, touch, rm and rmdir leave no live inode that cd does not reach, none that two
\* entries name and no entry of a dead one: within the contract the tree that cd, read
\* and chmod show holds every live inode once, .. of every directory leads to the
\* directory it is shown in, and i_size counts what is shown in it.
THEOREM EntriesAreRight == Spec => []EntriesAgree
<1>1. ASSUME ShownInv, kept, NEW q \in Directories
      PROVE  /\ Found(vol, q.inode, "..", DIR) /\ Node(vol, q.inode, "..", DIR) = q.parent
             /\ vol.inode[q.inode].i_size = 2 + Cardinality(Named(q.inode))
             /\ Cardinality(Named(q.inode)) =
                  Cardinality({f \in shown : f.path # <<>> /\ f.parent = q.inode})
  <2>1. PICK path : Stands(path)
    BY <1>1 DEF ShownInv
  <2>2. PICK d \in Dirs(vol) : q = Record(vol, path, d)
    BY <1>1, <2>1, ShownIs
  <2>3. q.inode = d /\ q.parent = Parent(vol, d)
    BY <2>2, RecordFields
  <2>4. Sound(vol) /\ TreeSound(vol)
    BY <1>1, Starts DEF ShownInv
  <2>5. Found(vol, d, "..", DIR) /\ Node(vol, d, "..", DIR) = Parent(vol, d)
    BY <2>4, DotDotFound, DotDotParent
  <2>6. /\ Named(d) = Entries(vol, d)
        /\ Cardinality(Named(d)) = Cardinality({f \in shown : f.path # <<>> /\ f.parent = d})
    BY <1>1, <2>1, EntriesCounted
  <2>7. vol.inode[d].i_size = 2 + Cardinality(Named(d))
    BY <2>4, <2>6 DEF TreeSound, Sized
  <2> QED
    BY <2>3, <2>5, <2>6, <2>7
<1>2. ShownInv => EntriesAgree
  BY <1>1, ShownCounted DEF EntriesAgree
<1> QED
  BY <1>2, ShownHolds, PTL

\* open, close, rm and rmdir keep the open table: within the contract it holds live
\* files that cd can reach, each in one slot and none in the slot searchInTable misses,
\* and the set of names has the name of each of them and no other.
THEOREM OpenTableIsSound == Spec => []OpenTableSound
<1>1. ASSUME ShownInv, kept
      PROVE  OpenTableSound
  <2> DEFINE named(k) == {f \in Files : f.inode = file_open_table[k]}
             rec(path, k) == Record(vol, path, file_open_table[k])
  <2>1. PICK path : Stands(path)
    BY <1>1 DEF ShownInv
  <2>2. Files = {Record(vol, path, i) : i \in vol.inode_bits \ Dirs(vol)}
    BY <1>1, <2>1, ShownIs
  <2>3. TableNamed(path)
    BY <2>1 DEF Stands
  <2>4. \A i : Record(vol, path, i).inode = i /\ Record(vol, path, i).path = path[i]
    BY RecordFields
  <2>5. ASSUME NEW k \in InTable PROVE named(k) = {rec(path, k)}
    <3>1. file_open_table[k] \in vol.inode_bits \ Dirs(vol)
      BY <2>3 DEF TableNamed
    <3> QED
      BY <2>2, <2>4, <3>1
  <2>6. ASSUME NEW k \in InTable PROVE k < FOPEN_TABLE_MAX - 1 /\ named(k) # {}
    BY <2>3, <2>5 DEF TableNamed
  <2>7. ASSUME NEW j \in InTable, NEW k \in InTable, file_open_table[j] = file_open_table[k]
        PROVE  j = k
    BY <2>3, <2>7 DEF TableNamed, OpenName
  <2>8. \A k \in InTable : Last(rec(path, k).path) = OpenName(path, k)
    BY <2>4 DEF OpenName
  <2> HIDE DEF rec
  <2>9. UNION {named(k) : k \in InTable} = {rec(path, k) : k \in InTable}
    <3> HIDE DEF named
    <3> QED
      BY <2>5
  <2>10. {Last(f.path) : f \in {rec(path, k) : k \in InTable}} = {OpenName(path, k) : k \in InTable}
    BY <2>8
  <2>11. file_open_name_set = {Last(f.path) : f \in UNION {named(k) : k \in InTable}}
    <3> HIDE DEF named
    <3> QED
      BY <2>3, <2>9, <2>10 DEF TableNamed
  <2>12. \A k \in InTable : k < FOPEN_TABLE_MAX - 1 /\ named(k) # {}
    BY <2>6
  <2>13. \A j, k \in InTable : file_open_table[j] = file_open_table[k] => j = k
    BY <2>7
  <2> QED
    BY <2>11, <2>12, <2>13 DEF OpenTableSound, InTable
<1>2. ShownInv => OpenTableSound
  BY <1>1 DEF OpenTableSound
<1> QED
  BY <1>2, ShownHolds, PTL

(***************************************************************************)
(* What FileTree sees of a sound volume: the paths of its directories, the *)
(* files with their paths, and which of them are open.                     *)
(***************************************************************************)
FilesOf(v) == v.inode_bits \ Dirs(v)
PathsOf(path, I) == {path[i] : i \in I}
Maps(F, P) == F = [p \in P |-> F[p]]
WithFile(F, x, file) == [p \in DOMAIN F \cup {x} |-> IF p = x THEN file ELSE F[p]]
Without(F, S) == [p \in DOMAIN F \ S |-> F[p]]
DirsUnder(D, x) == {p \in D : IsPrefix(x, p)}
FilesUnder(F, x) == {p \in DOMAIN F : IsStrictPrefix(x, p)}
FileAt(v, i) == [mode |-> v.inode[i].i_mode, text |-> ReadText(v, i)]
SeenDirs(t) == {q.path : q \in {r \in t : r.type = DIR}}
SeenFiles(t) ==
  [p \in {f.path : f \in {r \in t : r.type = FILE}} |->
     LET f == CHOOSE g \in {r \in t : r.type = FILE} : g.path = p
     IN [mode |-> f.mode, text |-> f.text]]
SeenOpen(t, I) == {f.path : f \in {r \in {q \in t : q.type = FILE} : r.inode \in I}}

\* No two directories and no two files have the same path.
LEMMA PathsDiffer ==
  ASSUME NEW v, TreeSound(v), NEW path, Pathed(v, path), NEW x \in v.inode_bits,
         NEW y \in v.inode_bits, Kind(v, x) = Kind(v, y), path[x] = path[y]
  PROVE  x = y
<1> DEFINE Good == {m \in Nat : \A i, j \in v.inode_bits :
                      Len(path[i]) = m /\ Kind(v, i) = Kind(v, j) /\ path[i] = path[j] => i = j}
<1>1. \A i \in v.inode_bits \ {root} : Len(path[i]) # 0
  BY BelowParent
<1>2. Len(path[root]) = 0
  BY DEF Pathed
<1>3. 0 \in Good
  <2> SUFFICES ASSUME NEW i \in v.inode_bits, NEW j \in v.inode_bits, Len(path[i]) = 0,
                      path[i] = path[j]
               PROVE  i = j
    OBVIOUS
  <2> QED
    BY <1>1, <1>2
<1>4. ASSUME NEW m \in Nat, m \in Good PROVE m + 1 \in Good
  <2> SUFFICES ASSUME NEW i \in v.inode_bits, NEW j \in v.inode_bits, Len(path[i]) = m + 1,
                      Kind(v, i) = Kind(v, j), path[i] = path[j]
               PROVE  i = j
    OBVIOUS
  <2>1. i \in v.inode_bits \ {root} /\ j \in v.inode_bits \ {root}
    BY <1>2
  <2> DEFINE d == Parent(v, i)
             e == Parent(v, j)
  <2>2. PICK p \in Entries(v, d) :
          /\ d \in Dirs(v) /\ i = CellAt(v, d, p).inode /\ CellAt(v, d, p).type = Kind(v, i)
          /\ Front(path[i]) = path[d] /\ Last(path[i]) = CellAt(v, d, p).name
          /\ Len(path[i]) = Len(path[d]) + 1 /\ Len(path[d]) \in Nat
    BY <2>1, BelowParent
  <2>3. PICK q \in Entries(v, e) :
          /\ e \in Dirs(v) /\ j = CellAt(v, e, q).inode /\ CellAt(v, e, q).type = Kind(v, j)
          /\ Front(path[j]) = path[e] /\ Last(path[j]) = CellAt(v, e, q).name
    BY <2>1, BelowParent
  <2> HIDE DEF d, e
  <2>4. d = e
    <3>1. d \in v.inode_bits /\ e \in v.inode_bits /\ Kind(v, d) = Kind(v, e)
      BY <2>2, <2>3 DEF Dirs, Kind
    <3>2. path[d] = path[e] /\ Len(path[d]) = m
      BY <2>2, <2>3
    <3> HIDE DEF Good
    <3>3. \A a, b \in v.inode_bits :
            Len(path[a]) = m /\ Kind(v, a) = Kind(v, b) /\ path[a] = path[b] => a = b
      BY <1>4 DEF Good
    <3> QED
      BY <3>1, <3>2, <3>3
  <2>5. p = q
    BY <2>2, <2>3, <2>4 DEF TreeSound, Unique
  <2> QED
    BY <2>2, <2>3, <2>4, <2>5
<1>5. Nat \subseteq Good
  <2> HIDE DEF Good
  <2> QED
    BY <1>3, <1>4, NaturalSteps
<1>6. Len(path[x]) \in Nat
  BY LenProperties DEF Pathed
<1> QED
  BY <1>5, <1>6

\* A name that is not found in a directory is no path below it.
LEMMA NameFree ==
  ASSUME NEW v, TreeSound(v), NEW path, Pathed(v, path), NEW d \in Dirs(v), NEW n \in Names,
         NEW t, ~Found(v, d, n, t), NEW j \in v.inode_bits, Kind(v, j) = t
  PROVE  path[j] # Append(path[d], n)
<1> DEFINE e == Parent(v, j)
<1>1. ASSUME j # root
      PROVE  \E p \in Entries(v, e) :
               /\ e \in Dirs(v) /\ CellAt(v, e, p).type = Kind(v, j)
               /\ Front(path[j]) = path[e] /\ Last(path[j]) = CellAt(v, e, p).name
  BY <1>1, BelowParent
<1> HIDE DEF e
<1> SUFFICES ASSUME path[j] = Append(path[d], n) PROVE FALSE
  OBVIOUS
<1>2. d \in v.inode_bits /\ path[d] \in Seq(Names)
  BY DEF Dirs, Pathed
<1>3. Front(path[j]) = path[d] /\ Last(path[j]) = n /\ path[j] # <<>>
  BY <1>2, AppendedEnds, AppendProperties
<1>4. j \in v.inode_bits \ {root}
  BY <1>3 DEF Pathed
<1>5. PICK p \in Entries(v, e) :
        /\ e \in Dirs(v) /\ CellAt(v, e, p).type = Kind(v, j)
        /\ Front(path[j]) = path[e] /\ Last(path[j]) = CellAt(v, e, p).name
  BY <1>1, <1>4
<1>6. e = d
  <2>1. e \in v.inode_bits /\ Kind(v, e) = Kind(v, d)
    BY <1>5 DEF Kind, Dirs
  <2> QED
    BY <1>2, <1>3, <1>5, <2>1, PathsDiffer
<1>7. CellAt(v, d, p).name = n /\ CellAt(v, d, p).type = t /\ p \in Places(v, d)
  BY <1>3, <1>5, <1>6 DEF Entries
<1> QED
  BY <1>7 DEF Found, Matches

\* What FileTree sees, inode by inode.
LEMMA TreeSeen ==
  ASSUME NEW v, Sound(v), NEW path, Pathed(v, path), NEW I
  PROVE  /\ SeenDirs(Tree(v)) = PathsOf(path, Dirs(v))
         /\ Maps(SeenFiles(Tree(v)), PathsOf(path, FilesOf(v)))
         /\ \A i \in FilesOf(v) : SeenFiles(Tree(v))[path[i]] = FileAt(v, i)
         /\ SeenOpen(Tree(v), I) = PathsOf(path, FilesOf(v) \cap I)
<1> DEFINE F == {r \in Tree(v) : r.type = FILE}
<1>1. Tree(v) = {Record(v, path, i) : i \in v.inode_bits}
  BY TreeIs
<1>2. \A i : /\ Record(v, path, i).path = path[i] /\ Record(v, path, i).inode = i
             /\ Record(v, path, i).mode = v.inode[i].i_mode
             /\ i \notin Dirs(v) => Record(v, path, i).text = ReadText(v, i)
             /\ Record(v, path, i).type = Kind(v, i)
             /\ Record(v, path, i).type = FILE <=> i \notin Dirs(v)
             /\ Record(v, path, i).type = DIR <=> i \in Dirs(v)
  BY RecordFields
<1>3. Dirs(v) \subseteq v.inode_bits /\ TreeSound(v)
  BY DEF Dirs, Sound
<1>4. {r \in Tree(v) : r.type = DIR} = {Record(v, path, i) : i \in Dirs(v)}
  BY <1>1, <1>2, <1>3
<1>5. F = {Record(v, path, i) : i \in FilesOf(v)}
  BY <1>1, <1>2 DEF FilesOf
<1> HIDE DEF F
<1>6. SeenDirs(Tree(v)) = {path[i] : i \in Dirs(v)}
  BY <1>2, <1>4 DEF SeenDirs
<1>7. {f.path : f \in F} = {path[i] : i \in FilesOf(v)}
  BY <1>2, <1>5
<1> DEFINE P == {path[i] : i \in FilesOf(v)}
           At(p) == CHOOSE g \in F : g.path = p
<1>8. SeenFiles(Tree(v)) = [p \in P |-> [mode |-> At(p).mode, text |-> At(p).text]]
  BY <1>7 DEF SeenFiles, F
<1>9. ASSUME NEW i \in FilesOf(v) PROVE SeenFiles(Tree(v))[path[i]] = FileAt(v, i)
  <2> DEFINE g == At(path[i])
  <2>1. Record(v, path, i) \in F /\ Record(v, path, i).path = path[i]
    BY <1>2, <1>5
  <2>2. g \in F /\ g.path = path[i]
    BY <2>1
  <2> HIDE DEF g
  <2>3. PICK j \in FilesOf(v) : g = Record(v, path, j)
    BY <1>5, <2>2
  <2>4. path[j] = path[i] /\ Kind(v, j) = Kind(v, i)
    BY <1>2, <2>2, <2>3 DEF Kind, FilesOf
  <2>5. j = i
    BY <1>3, <2>4, PathsDiffer DEF FilesOf
  <2>6. g.mode = v.inode[i].i_mode /\ g.text = ReadText(v, i)
    BY <1>2, <2>3, <2>5 DEF FilesOf
  <2>7. SeenFiles(Tree(v))[path[i]] = [mode |-> g.mode, text |-> g.text]
    <3>1. path[i] \in P
      OBVIOUS
    <3> HIDE DEF P, At
    <3> QED
      BY <1>8, <3>1 DEF g
  <2> QED
    BY <2>6, <2>7 DEF FileAt
<1>10. SeenOpen(Tree(v), I) = {path[i] : i \in FilesOf(v) \cap I}
  <2>1. SeenOpen(Tree(v), I) = {f.path : f \in {r \in F : r.inode \in I}}
    BY DEF SeenOpen, F
  <2>2. {r \in F : r.inode \in I} = {Record(v, path, i) : i \in FilesOf(v) \cap I}
    BY <1>2, <1>5
  <2> QED
    BY <1>2, <2>1, <2>2
<1>11. Maps(SeenFiles(Tree(v)), PathsOf(path, FilesOf(v)))
  BY <1>8 DEF Maps, PathsOf
<1> QED
  BY <1>6, <1>9, <1>10, <1>11 DEF PathsOf

\* A file of which neither the inode nor a block changed reads as before.
LEMMA SameFile ==
  ASSUME NEW v, NEW w, NEW I, FilesKept(v, w, I), NEW e \in I
  PROVE  FileAt(w, e) = FileAt(v, e)
<1>1. /\ w.inode[e] = v.inode[e]
      /\ \A k \in 1 .. Len(v.inode[e].i_block) :
           w.block[v.inode[e].i_block[k]] = v.block[v.inode[e].i_block[k]]
  BY DEF FilesKept
<1>2. \A k \in 1 .. Len(v.inode[e].i_block) : BlockText(BlockAt(w, e, k)) = BlockText(BlockAt(v, e, k))
  BY <1>1 DEF BlockAt
<1>3. [k \in 1 .. Len(w.inode[e].i_block) |-> BlockText(BlockAt(w, e, k))]
        = [k \in 1 .. Len(v.inode[e].i_block) |-> BlockText(BlockAt(v, e, k))]
  BY <1>1, <1>2
<1> QED
  BY <1>1, <1>3 DEF FileAt, ReadText

\* What is seen of the files is a function of their paths, and nothing else is it.
LEMMA FilesAre ==
  ASSUME NEW v, Sound(v), NEW path, Pathed(v, path), NEW G,
         Maps(G, PathsOf(path, FilesOf(v))),
         \A i \in FilesOf(v) : G[path[i]] = FileAt(v, i)
  PROVE  SeenFiles(Tree(v)) = G
<1> DEFINE F == SeenFiles(Tree(v))
           P == PathsOf(path, FilesOf(v))
<1>1. Maps(F, P) /\ \A i \in FilesOf(v) : F[path[i]] = FileAt(v, i)
  BY TreeSeen
<1> HIDE DEF F
<1>2. \A p \in P : F[p] = G[p]
  BY <1>1 DEF PathsOf
<1> HIDE DEF P
<1>3. Maps(F, P) /\ Maps(G, P)
  BY <1>1 DEF P
<1> QED
  BY <1>2, <1>3 DEF F, Maps

\* A path more, whatever it leads to.
LEMMA GainPaths ==
  ASSUME NEW v, Sound(v), NEW w, NEW path, Pathed(v, path), NEW d \in Dirs(v), NEW n, NEW i, NEW t,
         Gained(v, w, d, n, i, t), NEW new,
         new = [j \in w.inode_bits |-> IF j = i THEN Append(path[d], n) ELSE path[j]]
  PROVE  /\ i \notin v.inode_bits /\ w.inode_bits = v.inode_bits \cup {i}
         /\ Dirs(w) = Dirs(v) \cup (IF t = DIR THEN {i} ELSE {})
         /\ Dirs(v) \subseteq v.inode_bits /\ FilesOf(v) \subseteq v.inode_bits
         /\ Pathed(w, new) /\ new[i] = Append(path[d], n)
         /\ \A j \in v.inode_bits : new[j] = path[j]
         /\ \A j \in FilesOf(v) : FileAt(w, j) = FileAt(v, j)
<1>1. /\ i \notin v.inode_bits /\ w.inode_bits = v.inode_bits \cup {i}
      /\ Dirs(w) = Dirs(v) \cup (IF t = DIR THEN {i} ELSE {})
      /\ Pathed(w, new) /\ FilesKept(v, w, FilesOf(v))
  BY DEF Gained, FilesOf
<1>2. Dirs(v) \subseteq v.inode_bits /\ FilesOf(v) \subseteq v.inode_bits
  BY DEF Dirs, FilesOf
<1>3. (\A j \in v.inode_bits : new[j] = path[j]) /\ new[i] = Append(path[d], n)
  BY <1>1
<1>4. \A j \in FilesOf(v) : FileAt(w, j) = FileAt(v, j)
  BY <1>1, SameFile
<1> QED
  BY <1>1, <1>2, <1>3, <1>4

\* A directory was added below d.
LEMMA DirGainSeen ==
  ASSUME NEW v, Sound(v), NEW w, Sound(w), NEW path, Pathed(v, path), NEW d \in Dirs(v),
         NEW n, NEW i, Gained(v, w, d, n, i, DIR), NEW I
  PROVE  /\ SeenDirs(Tree(w)) = SeenDirs(Tree(v)) \cup {Append(path[d], n)}
         /\ SeenFiles(Tree(w)) = SeenFiles(Tree(v))
         /\ SeenOpen(Tree(w), I) = SeenOpen(Tree(v), I)
<1> DEFINE x == Append(path[d], n)
           new == [j \in w.inode_bits |-> IF j = i THEN x ELSE path[j]]
           F == SeenFiles(Tree(v))
<1>1. /\ i \notin v.inode_bits /\ w.inode_bits = v.inode_bits \cup {i}
      /\ Dirs(w) = Dirs(v) \cup {i}
      /\ Dirs(v) \subseteq v.inode_bits /\ FilesOf(v) \subseteq v.inode_bits
      /\ Pathed(w, new) /\ new[i] = x
      /\ \A j \in v.inode_bits : new[j] = path[j]
      /\ \A j \in FilesOf(v) : FileAt(w, j) = FileAt(v, j)
  <2>1. /\ i \notin v.inode_bits /\ w.inode_bits = v.inode_bits \cup {i}
        /\ Dirs(w) = Dirs(v) \cup (IF DIR = DIR THEN {i} ELSE {})
        /\ Dirs(v) \subseteq v.inode_bits /\ FilesOf(v) \subseteq v.inode_bits
        /\ Pathed(w, new) /\ new[i] = Append(path[d], n)
        /\ \A j \in v.inode_bits : new[j] = path[j]
        /\ \A j \in FilesOf(v) : FileAt(w, j) = FileAt(v, j)
    <3>1. new = [j \in w.inode_bits |-> IF j = i THEN Append(path[d], n) ELSE path[j]]
      OBVIOUS
    <3> HIDE DEF new
    <3> QED
      BY <3>1, GainPaths
  <2> HIDE DEF new
  <2> QED
    BY <2>1
<1> HIDE DEF new, x
<1>2. FilesOf(w) = FilesOf(v)
  BY <1>1 DEF FilesOf
<1>3. /\ SeenDirs(Tree(v)) = PathsOf(path, Dirs(v)) /\ SeenDirs(Tree(w)) = PathsOf(new, Dirs(w))
      /\ Maps(F, PathsOf(path, FilesOf(v))) /\ \A j \in FilesOf(v) : F[path[j]] = FileAt(v, j)
      /\ SeenOpen(Tree(v), I) = PathsOf(path, FilesOf(v) \cap I)
      /\ SeenOpen(Tree(w), I) = PathsOf(new, FilesOf(w) \cap I)
  BY <1>1, TreeSeen
<1> HIDE DEF F
<1>4. SeenDirs(Tree(w)) = SeenDirs(Tree(v)) \cup {x}
  BY <1>1, <1>3 DEF PathsOf
<1>5. SeenFiles(Tree(w)) = F
  <2>1. PathsOf(new, FilesOf(w)) = PathsOf(path, FilesOf(v))
    BY <1>1, <1>2 DEF PathsOf
  <2>2. \A j \in FilesOf(w) : F[new[j]] = FileAt(w, j)
    BY <1>1, <1>2, <1>3
  <2> QED
    BY <1>1, <1>3, <2>1, <2>2, FilesAre
<1>6. SeenOpen(Tree(w), I) = SeenOpen(Tree(v), I)
  BY <1>1, <1>2, <1>3 DEF PathsOf
<1> QED
  BY <1>4, <1>5, <1>6 DEF F, x

\* A file was added below d.
LEMMA FileGainSeen ==
  ASSUME NEW v, Sound(v), NEW w, Sound(w), NEW path, Pathed(v, path), NEW d \in Dirs(v),
         NEW n, NEW i, Gained(v, w, d, n, i, FILE), NEW I, i \notin I,
         Append(path[d], n) \notin PathsOf(path, FilesOf(v))
  PROVE  /\ SeenDirs(Tree(w)) = SeenDirs(Tree(v))
         /\ SeenFiles(Tree(w)) = WithFile(SeenFiles(Tree(v)), Append(path[d], n), FileAt(w, i))
         /\ SeenOpen(Tree(w), I) = SeenOpen(Tree(v), I)
<1> DEFINE x == Append(path[d], n)
           new == [j \in w.inode_bits |-> IF j = i THEN x ELSE path[j]]
           F == SeenFiles(Tree(v))
           G == WithFile(F, x, FileAt(w, i))
<1>1. /\ i \notin v.inode_bits /\ w.inode_bits = v.inode_bits \cup {i}
      /\ Dirs(w) = Dirs(v)
      /\ Dirs(v) \subseteq v.inode_bits /\ FilesOf(v) \subseteq v.inode_bits
      /\ Pathed(w, new) /\ new[i] = x
      /\ \A j \in v.inode_bits : new[j] = path[j]
      /\ \A j \in FilesOf(v) : FileAt(w, j) = FileAt(v, j)
  <2>1. /\ i \notin v.inode_bits /\ w.inode_bits = v.inode_bits \cup {i}
        /\ Dirs(w) = Dirs(v) \cup (IF FILE = DIR THEN {i} ELSE {})
        /\ Dirs(v) \subseteq v.inode_bits /\ FilesOf(v) \subseteq v.inode_bits
        /\ Pathed(w, new) /\ new[i] = Append(path[d], n)
        /\ \A j \in v.inode_bits : new[j] = path[j]
        /\ \A j \in FilesOf(v) : FileAt(w, j) = FileAt(v, j)
    <3>1. new = [j \in w.inode_bits |-> IF j = i THEN Append(path[d], n) ELSE path[j]]
      OBVIOUS
    <3> HIDE DEF new
    <3> QED
      BY <3>1, GainPaths
  <2>2. FILE # DIR
    BY DEF FILE, DIR
  <2> HIDE DEF new
  <2> QED
    BY <2>1, <2>2
<1> HIDE DEF new, x
<1>2. FilesOf(w) = FilesOf(v) \cup {i}
  BY <1>1 DEF FilesOf
<1>3. /\ SeenDirs(Tree(v)) = PathsOf(path, Dirs(v)) /\ SeenDirs(Tree(w)) = PathsOf(new, Dirs(w))
      /\ Maps(F, PathsOf(path, FilesOf(v))) /\ \A j \in FilesOf(v) : F[path[j]] = FileAt(v, j)
      /\ SeenOpen(Tree(v), I) = PathsOf(path, FilesOf(v) \cap I)
      /\ SeenOpen(Tree(w), I) = PathsOf(new, FilesOf(w) \cap I)
  BY <1>1, TreeSeen
<1> HIDE DEF F
<1>4. SeenDirs(Tree(w)) = SeenDirs(Tree(v))
  BY <1>1, <1>3 DEF PathsOf
<1>5. SeenOpen(Tree(w), I) = SeenOpen(Tree(v), I)
  BY <1>1, <1>2, <1>3 DEF PathsOf
<1>6. SeenFiles(Tree(w)) = G
  <2>1. DOMAIN F = PathsOf(path, FilesOf(v))
    BY <1>3 DEF Maps
  <2>2. DOMAIN F \cup {x} = PathsOf(new, FilesOf(w))
    BY <1>1, <1>2, <2>1 DEF PathsOf
  <2>3. Maps(G, PathsOf(new, FilesOf(w)))
    BY <2>2 DEF Maps, WithFile
  <2>4. \A j \in FilesOf(v) : path[j] # x
    BY DEF PathsOf, x
  <2>5. \A j \in FilesOf(w) : G[new[j]] = FileAt(w, j)
    BY <1>1, <1>2, <1>3, <2>1, <2>4 DEF PathsOf, WithFile
  <2> HIDE DEF G
  <2> QED
    BY <1>1, <2>3, <2>5, FilesAre
<1> QED
  BY <1>4, <1>5, <1>6 DEF F, G, x

\* A prefix, element by element.
LEMMA PrefixIs ==
  ASSUME NEW S, NEW s \in Seq(S), NEW t \in Seq(S)
  PROVE  IsPrefix(s, t) <=> Len(s) <= Len(t) /\ \A k \in 1 .. Len(s) : s[k] = t[k]
<1>1. Len(s) \in Nat /\ Len(t) \in Nat
  BY LenProperties
<1>2. SubSeq(s, 1, Len(s)) = [k \in 1 .. Len(s) |-> s[k]]
      /\ SubSeq(t, 1, Len(s)) = [k \in 1 .. Len(s) |-> t[k]]
  BY <1>1
<1> QED
  BY <1>2 DEF IsPrefix

\* What is strictly above t \o <<n>> is t, or strictly above it.
LEMMA StrictlyAbove ==
  ASSUME NEW S, NEW s \in Seq(S), NEW t \in Seq(S), NEW n \in S
  PROVE  IsStrictPrefix(s, Append(t, n)) <=> s = t \/ IsStrictPrefix(s, t)
<1> DEFINE u == Append(t, n)
<1>1. /\ u \in Seq(S) /\ Len(u) = Len(t) + 1 /\ Len(t) \in Nat /\ Len(s) \in Nat
      /\ \A k \in 1 .. Len(t) : u[k] = t[k]
  BY AppendProperties, LenProperties
<1> HIDE DEF u
<1>2. ASSUME IsStrictPrefix(s, u) PROVE IsPrefix(s, t)
  <2>1. Len(s) <= Len(u) /\ (\A k \in 1 .. Len(s) : s[k] = u[k]) /\ s # u
    BY <1>1, <1>2, PrefixIs DEF IsStrictPrefix
  <2>2. Len(s) # Len(u)
    <3>1. ASSUME Len(s) = Len(u) PROVE s = u
      BY <1>1, <2>1, <3>1, SeqEqual
    <3> QED
      BY <2>1, <3>1
  <2>3. Len(s) <= Len(t) /\ \A k \in 1 .. Len(s) : s[k] = t[k]
    BY <1>1, <2>1, <2>2
  <2> QED
    BY <2>3, PrefixIs
<1>3. ASSUME IsPrefix(s, t) PROVE IsStrictPrefix(s, u)
  <2>1. Len(s) <= Len(t) /\ \A k \in 1 .. Len(s) : s[k] = t[k]
    BY <1>3, PrefixIs
  <2>2. Len(s) <= Len(u) /\ (\A k \in 1 .. Len(s) : s[k] = u[k]) /\ s # u
    BY <1>1, <2>1
  <2> QED
    BY <1>1, <2>2, PrefixIs DEF IsStrictPrefix
<1>4. IsPrefix(s, t) <=> s = t \/ IsStrictPrefix(s, t)
  <2>1. IsPrefix(t, t)
    BY <1>1, PrefixIs
  <2> QED
    BY <2>1 DEF IsStrictPrefix
<1> QED
  BY <1>2, <1>3, <1>4 DEF u

\* Nothing is above the root, and what is below a directory without subdirectories is
\* what its entries name.
LEMMA BelowIs ==
  ASSUME NEW v, TreeSound(v), NEW path, Pathed(v, path), NEW i \in Dirs(v),
         \A q \in Entries(v, i) : CellAt(v, i, q).inode \notin Dirs(v), NEW y \in v.inode_bits
  PROVE  IsStrictPrefix(path[i], path[y]) <=> \E q \in Entries(v, i) : y = CellAt(v, i, q).inode
<1> DEFINE named(j) == \E q \in Entries(v, i) : j = CellAt(v, i, q).inode
           Good == {m \in Nat : \A j \in v.inode_bits :
                      Len(path[j]) = m => (IsStrictPrefix(path[i], path[j]) <=> named(j))}
<1>1. /\ Dirs(v) \subseteq v.inode_bits /\ path[root] = <<>>
      /\ \A j \in v.inode_bits : path[j] \in Seq(Names) /\ Len(path[j]) \in Nat
  BY LenProperties DEF Dirs, Pathed
<1>2. ~IsStrictPrefix(path[i], <<>>) /\ ~named(root)
  <2>1. ~IsStrictPrefix(path[i], <<>>)
    <3>1. path[i] \in Seq(Names) /\ <<>> \in Seq(Names) /\ Len(<<>>) = 0 /\ Len(path[i]) \in Nat
      BY <1>1
    <3>2. ASSUME IsPrefix(path[i], <<>>) PROVE path[i] = <<>>
      <4> DEFINE s == path[i]
      <4>1. s \in Seq(Names) /\ IsPrefix(s, <<>>)
        BY <3>1, <3>2
      <4> HIDE DEF s
      <4>2. Len(s) <= 0
        BY <3>1, <4>1, PrefixIs
      <4> QED
        BY <4>1, <4>2, EmptySeq DEF s
    <3> QED
      BY <3>2 DEF IsStrictPrefix
  <2>2. ~named(root)
    BY LiveNames
  <2> QED
    BY <2>1, <2>2
<1> HIDE DEF named
<1>3. \A j \in v.inode_bits \ {root} : Len(path[j]) # 0
  BY BelowParent
<1>4. 0 \in Good
  BY <1>1, <1>2, <1>3
<1>5. ASSUME NEW m \in Nat, m \in Good PROVE m + 1 \in Good
  <2> SUFFICES ASSUME NEW j \in v.inode_bits, Len(path[j]) = m + 1
               PROVE  IsStrictPrefix(path[i], path[j]) <=> named(j)
    OBVIOUS
  <2>1. j \in v.inode_bits \ {root}
    <3>1. Len(path[root]) = 0
      BY <1>1
    <3> QED
      BY <3>1
  <2> DEFINE d == Parent(v, j)
  <2>2. PICK p \in Entries(v, d) :
          /\ d \in Dirs(v) /\ j = CellAt(v, d, p).inode
          /\ path[j] = Append(path[d], CellAt(v, d, p).name)
          /\ CellAt(v, d, p).name \in Names /\ Len(path[j]) = Len(path[d]) + 1
    BY <2>1, BelowParent
  <2> HIDE DEF d
  <2>3. d \in v.inode_bits /\ path[d] \in Seq(Names) /\ path[i] \in Seq(Names) /\ Len(path[d]) = m
    BY <1>1, <2>2
  <2>4. IsStrictPrefix(path[i], path[j]) <=> path[i] = path[d] \/ IsStrictPrefix(path[i], path[d])
    BY <2>2, <2>3, StrictlyAbove
  <2>5. ~IsStrictPrefix(path[i], path[d])
    <3>1. IsStrictPrefix(path[i], path[d]) <=> named(d)
      BY <1>5, <2>3
    <3>2. ~named(d)
      BY <2>2 DEF named
    <3> QED
      BY <3>1, <3>2
  <2>6. path[i] = path[d] <=> i = d
    <3>1. Kind(v, i) = Kind(v, d) /\ i \in v.inode_bits
      BY <1>1, <2>2 DEF Kind
    <3> QED
      BY <2>3, <3>1, PathsDiffer
  <2>7. named(j) <=> i = d
    BY <2>2 DEF named, TreeSound, NamedOnce
  <2> QED
    BY <2>4, <2>5, <2>6, <2>7
<1>6. Nat \subseteq Good
  <2> HIDE DEF Good
  <2> QED
    BY <1>4, <1>5, NaturalSteps
<1>7. Len(path[y]) \in Nat
  BY <1>1
<1> QED
  BY <1>6, <1>7 DEF named

\* Files alone were removed.
LEMMA FileShrinkSeen ==
  ASSUME NEW v, Sound(v), NEW w, Sound(w), NEW path, Pathed(v, path), NEW i \in FilesOf(v),
         Shrunk(v, w, {i}), NEW I, i \notin I
  PROVE  /\ SeenDirs(Tree(w)) = SeenDirs(Tree(v))
         /\ SeenFiles(Tree(w)) = Without(SeenFiles(Tree(v)), {path[i]})
         /\ SeenOpen(Tree(w), I) = SeenOpen(Tree(v), I)
<1> DEFINE new == [j \in w.inode_bits |-> path[j]]
           F == SeenFiles(Tree(v))
           G == Without(F, {path[i]})
<1>1. /\ w.inode_bits = v.inode_bits \ {i} /\ Dirs(w) = Dirs(v) \ {i}
      /\ Pathed(w, new) /\ FilesKept(v, w, FilesOf(w))
  BY DEF Shrunk, FilesOf
<1>2. Dirs(w) = Dirs(v) /\ FilesOf(w) = FilesOf(v) \ {i} /\ Dirs(w) \subseteq w.inode_bits
      /\ FilesOf(w) \subseteq w.inode_bits /\ TreeSound(v)
  BY <1>1 DEF FilesOf, Dirs, Sound
<1>3. \A j \in w.inode_bits : new[j] = path[j]
  OBVIOUS
<1> HIDE DEF new
<1>4. /\ SeenDirs(Tree(v)) = PathsOf(path, Dirs(v)) /\ SeenDirs(Tree(w)) = PathsOf(new, Dirs(w))
      /\ Maps(F, PathsOf(path, FilesOf(v))) /\ \A j \in FilesOf(v) : F[path[j]] = FileAt(v, j)
      /\ SeenOpen(Tree(v), I) = PathsOf(path, FilesOf(v) \cap I)
      /\ SeenOpen(Tree(w), I) = PathsOf(new, FilesOf(w) \cap I)
  BY <1>1, TreeSeen
<1> HIDE DEF F
<1>5. SeenDirs(Tree(w)) = SeenDirs(Tree(v))
  BY <1>2, <1>3, <1>4 DEF PathsOf
<1>6. SeenOpen(Tree(w), I) = SeenOpen(Tree(v), I)
  BY <1>2, <1>3, <1>4 DEF PathsOf
<1>7. ASSUME NEW j \in FilesOf(w) PROVE path[j] # path[i]
  <2>1. Kind(v, i) = Kind(v, j) /\ i \in v.inode_bits /\ j \in v.inode_bits /\ i # j
    BY <1>2 DEF FilesOf, Kind
  <2> QED
    BY <1>2, <2>1, PathsDiffer
<1>8. DOMAIN F \ {path[i]} = PathsOf(new, FilesOf(w))
  <2>1. DOMAIN F = PathsOf(path, FilesOf(v))
    BY <1>4 DEF Maps
  <2> QED
    BY <1>2, <1>3, <1>7, <2>1 DEF PathsOf
<1>9. \A j \in FilesOf(w) : G[new[j]] = FileAt(w, j)
  <2>1. \A j \in FilesOf(w) : FileAt(w, j) = FileAt(v, j)
    BY <1>1, SameFile
  <2> QED
    BY <1>2, <1>3, <1>4, <1>8, <2>1 DEF PathsOf, Without
<1>10. Maps(G, PathsOf(new, FilesOf(w)))
  BY <1>8 DEF Maps, Without
<1> HIDE DEF G
<1>11. SeenFiles(Tree(w)) = G
  BY <1>1, <1>9, <1>10, FilesAre
<1> QED
  BY <1>5, <1>6, <1>11 DEF G, F

\* A directory was removed with its files.
LEMMA DirShrinkSeen ==
  ASSUME NEW v, Sound(v), NEW w, Sound(w), NEW path, Pathed(v, path), NEW i \in Dirs(v),
         \A q \in Entries(v, i) : CellAt(v, i, q).inode \notin Dirs(v),
         NEW S, \A j : j \in S <=> j = i \/ \E q \in Entries(v, i) : j = CellAt(v, i, q).inode,
         Shrunk(v, w, S), NEW I, I \cap S = {}
  PROVE  /\ SeenDirs(Tree(w)) =
              SeenDirs(Tree(v)) \ DirsUnder(SeenDirs(Tree(v)), path[i])
         /\ SeenFiles(Tree(w)) =
              Without(SeenFiles(Tree(v)), FilesUnder(SeenFiles(Tree(v)), path[i]))
         /\ FilesUnder(SeenFiles(Tree(v)), path[i]) \cap SeenOpen(Tree(v), I) = {}
         /\ SeenOpen(Tree(w), I) = SeenOpen(Tree(v), I)
<1> DEFINE new == [j \in w.inode_bits |-> path[j]]
           F == SeenFiles(Tree(v))
           under == FilesUnder(F, path[i])
           G == Without(F, under)
           named(j) == \E q \in Entries(v, i) : j = CellAt(v, i, q).inode
<1>1. /\ w.inode_bits = v.inode_bits \ S /\ Dirs(w) = Dirs(v) \ S
      /\ Pathed(w, new) /\ FilesKept(v, w, FilesOf(w))
  BY DEF Shrunk, FilesOf
<1>2. TreeSound(v) /\ \A j : j \in S <=> j = i \/ named(j)
  BY DEF Sound
<1>3. \A j \in v.inode_bits : IsStrictPrefix(path[i], path[j]) <=> named(j)
  BY <1>2, BelowIs
<1>4. \A j \in Dirs(v) : ~named(j)
  OBVIOUS
<1> HIDE DEF named
<1>5. /\ Dirs(w) = Dirs(v) \ {i} /\ FilesOf(w) = {j \in FilesOf(v) : ~named(j)}
      /\ Dirs(w) \subseteq w.inode_bits /\ FilesOf(w) \subseteq w.inode_bits
      /\ Dirs(v) \subseteq v.inode_bits /\ FilesOf(v) \subseteq v.inode_bits
  BY <1>1, <1>2, <1>4 DEF FilesOf, Dirs
<1>6. \A j \in w.inode_bits : new[j] = path[j]
  OBVIOUS
<1> HIDE DEF new
<1>7. /\ SeenDirs(Tree(v)) = PathsOf(path, Dirs(v)) /\ SeenDirs(Tree(w)) = PathsOf(new, Dirs(w))
      /\ Maps(F, PathsOf(path, FilesOf(v))) /\ \A j \in FilesOf(v) : F[path[j]] = FileAt(v, j)
      /\ SeenOpen(Tree(v), I) = PathsOf(path, FilesOf(v) \cap I)
      /\ SeenOpen(Tree(w), I) = PathsOf(new, FilesOf(w) \cap I)
  BY <1>1, TreeSeen
<1> HIDE DEF F
<1>8. \A j \in Dirs(v) : IsPrefix(path[i], path[j]) <=> j = i
  <2> SUFFICES ASSUME NEW j \in Dirs(v) PROVE IsPrefix(path[i], path[j]) <=> j = i
    OBVIOUS
  <2>1. ~IsStrictPrefix(path[i], path[j])
    BY <1>3, <1>4, <1>5
  <2>2. path[i] \in Seq(Names)
    BY <1>5 DEF Pathed
  <2>3. IsPrefix(path[i], path[i])
    BY <2>2, LenProperties, PrefixIs
  <2>4. path[i] = path[j] => i = j
    <3>1. Kind(v, i) = Kind(v, j) /\ i \in v.inode_bits /\ j \in v.inode_bits
      BY <1>5 DEF Kind
    <3> QED
      BY <1>2, <3>1, PathsDiffer
  <2> QED
    BY <2>1, <2>3, <2>4 DEF IsStrictPrefix
<1>9. SeenDirs(Tree(w)) = SeenDirs(Tree(v)) \ DirsUnder(SeenDirs(Tree(v)), path[i])
  BY <1>5, <1>6, <1>7, <1>8 DEF PathsOf, DirsUnder
<1>10. SeenOpen(Tree(w), I) = SeenOpen(Tree(v), I)
  BY <1>2, <1>5, <1>6, <1>7 DEF PathsOf
<1>11. DOMAIN F = PathsOf(path, FilesOf(v))
  BY <1>7 DEF Maps
<1>12. \A j \in FilesOf(v) : path[j] \in under <=> named(j)
  BY <1>3, <1>5, <1>11 DEF PathsOf, FilesUnder
<1>13. under \cap SeenOpen(Tree(v), I) = {}
  BY <1>2, <1>7, <1>12 DEF PathsOf
<1>14. DOMAIN F \ under = PathsOf(new, FilesOf(w))
  <2> HIDE DEF under
  <2> QED
    BY <1>5, <1>6, <1>11, <1>12 DEF PathsOf
<1> HIDE DEF under
<1>15. \A j \in FilesOf(w) : G[new[j]] = FileAt(w, j)
  <2>1. \A j \in FilesOf(w) : FileAt(w, j) = FileAt(v, j)
    BY <1>1, SameFile
  <2> QED
    BY <1>5, <1>6, <1>7, <1>14, <2>1 DEF PathsOf, Without
<1>16. Maps(G, PathsOf(new, FilesOf(w)))
  BY <1>14 DEF Maps, Without
<1> HIDE DEF G
<1>17. SeenFiles(Tree(w)) = G
  BY <1>1, <1>15, <1>16, FilesAre
<1> QED
  BY <1>9, <1>10, <1>13, <1>17 DEF G, F, under

\* A file has other contents, or another mode.
LEMMA ChangeSeen ==
  ASSUME NEW v, Sound(v), NEW w, Sound(w), NEW path, Pathed(v, path), NEW i \in FilesOf(v),
         FileChanged(v, w, i), NEW I
  PROVE  /\ SeenDirs(Tree(w)) = SeenDirs(Tree(v)) /\ SeenOpen(Tree(w), I) = SeenOpen(Tree(v), I)
         /\ path[i] \in DOMAIN SeenFiles(Tree(v)) /\ SeenFiles(Tree(v))[path[i]] = FileAt(v, i)
         /\ SeenFiles(Tree(w)) = WithFile(SeenFiles(Tree(v)), path[i], FileAt(w, i))
<1> DEFINE F == SeenFiles(Tree(v))
           G == WithFile(F, path[i], FileAt(w, i))
<1>1. /\ w.inode_bits = v.inode_bits /\ Dirs(w) = Dirs(v) /\ FilesOf(w) = FilesOf(v)
      /\ Pathed(w, path) /\ FilesKept(v, w, FilesOf(v) \ {i})
  BY DEF FileChanged, FilesOf
<1>2. /\ SeenDirs(Tree(v)) = PathsOf(path, Dirs(v)) /\ SeenDirs(Tree(w)) = PathsOf(path, Dirs(w))
      /\ Maps(F, PathsOf(path, FilesOf(v))) /\ \A j \in FilesOf(v) : F[path[j]] = FileAt(v, j)
      /\ SeenOpen(Tree(v), I) = PathsOf(path, FilesOf(v) \cap I)
      /\ SeenOpen(Tree(w), I) = PathsOf(path, FilesOf(w) \cap I)
  BY <1>1, TreeSeen
<1> HIDE DEF F
<1>3. DOMAIN F = PathsOf(path, FilesOf(v)) /\ path[i] \in PathsOf(path, FilesOf(v))
  BY <1>2 DEF Maps, PathsOf
<1>4. DOMAIN F \cup {path[i]} = PathsOf(path, FilesOf(w))
  BY <1>1, <1>3
<1>5. ASSUME NEW j \in FilesOf(w) PROVE G[path[j]] = FileAt(w, j)
  <2>1. path[j] \in DOMAIN F
    BY <1>1, <1>3 DEF PathsOf
  <2>2. CASE j = i
    BY <2>1, <2>2 DEF WithFile
  <2>3. CASE j # i
    <3>1. path[j] # path[i]
      <4>1. Kind(v, i) = Kind(v, j) /\ i \in v.inode_bits /\ j \in v.inode_bits /\ TreeSound(v)
        BY <1>1 DEF FilesOf, Kind, Sound
      <4> QED
        BY <2>3, <4>1, PathsDiffer
    <3>2. FileAt(w, j) = FileAt(v, j)
      BY <1>1, <2>3, SameFile
    <3> QED
      BY <1>1, <1>2, <2>1, <3>1, <3>2 DEF WithFile
  <2> QED
    BY <2>2, <2>3
<1>6. Maps(G, PathsOf(path, FilesOf(w)))
  BY <1>4 DEF Maps, WithFile
<1> HIDE DEF G
<1>7. SeenFiles(Tree(w)) = G
  BY <1>1, <1>5, <1>6, FilesAre
<1> QED
  BY <1>1, <1>2, <1>3, <1>7 DEF G, F

\* What write makes of one letter, and of blocks full of it.
Copies(d, n) == [k \in 1 .. n |-> d]
Pieces(d, m, n) == [k \in 1 .. n |-> Copies(d, m[k])]
Totals(n, m, total) ==
  /\ m \in [1 .. n -> Nat] /\ total \in [0 .. n -> Nat]
  /\ total[0] = 0 /\ \A k \in 1 .. n : total[k] = total[k - 1] + m[k]

\* Copies of one letter, put together.
LEMMA CopiesJoin ==
  ASSUME NEW d, NEW a \in Nat, NEW b \in Nat
  PROVE  Copies(d, a) \o Copies(d, b) = Copies(d, a + b) /\ Len(Copies(d, a)) = a
<1>1. Copies(d, a) \in Seq({d}) /\ Copies(d, b) \in Seq({d}) /\ Copies(d, a + b) \in Seq({d})
  BY DEF Copies
<1>2. Len(Copies(d, a)) = a /\ Len(Copies(d, b)) = b /\ Len(Copies(d, a + b)) = a + b
  BY DEF Copies
<1>3. /\ Copies(d, a) \o Copies(d, b) \in Seq({d})
      /\ Len(Copies(d, a) \o Copies(d, b)) = a + b
  BY <1>1, <1>2, ConcatProperties
<1>4. \A s \in Seq({d}) : \A k \in 1 .. Len(s) : s[k] = d
  OBVIOUS
<1>5. \A k \in 1 .. a + b : (Copies(d, a) \o Copies(d, b))[k] = d /\ Copies(d, a + b)[k] = d
  BY <1>1, <1>2, <1>3, <1>4
<1> HIDE DEF Copies
<1>6. Copies(d, a) \o Copies(d, b) = Copies(d, a + b)
  BY <1>1, <1>2, <1>3, <1>5, SeqEqual
<1> QED
  BY <1>2, <1>6

\* Where a text of `length' cells ends.
LEMMA LastBlock ==
  ASSUME NEW D \in Nat, D > 2, NEW length \in Nat \ {0}, NEW n, n = (length + D - 1) \div D
  PROVE  /\ n \in Nat \ {0} /\ (n - 1) * D < length /\ length <= n * D
         /\ (n - 1) * D \in Nat /\ length - (n - 1) * D \in 1 .. D
<1>1. n \in Int /\ D * n <= length + D - 1 /\ length + D - 1 < D * n + D
  OBVIOUS
<1>2. n * D = D * n /\ (n - 1) * D = D * n - D
  BY <1>1
<1>3. n > 0
  <2>1. ASSUME n <= 0 PROVE FALSE
    <3>1. D * n <= 0
      BY <1>1, <2>1
    <3> QED
      BY <1>1, <3>1
  <2> QED
    BY <1>1, <2>1
<1>4. D * n - D >= 0
  BY <1>1, <1>3
<1> QED
  BY <1>1, <1>2, <1>3, <1>4

\* What is put together of blocks of copies.
LEMMA CopiesFlatten ==
  ASSUME NEW d, NEW n \in Nat \ {0}, NEW m, NEW total, Totals(n, m, total)
  PROVE  FlattenSeq(Pieces(d, m, n)) = Copies(d, total[n])
<1>join. \A a, b \in Nat : Copies(d, a) \o Copies(d, b) = Copies(d, a + b)
  BY CopiesJoin
<1>0. /\ m \in [1 .. n -> Nat] /\ total \in [0 .. n -> Nat] /\ total[0] = 0
      /\ \A k \in 1 .. n : total[k] = total[k - 1] + m[k]
  BY DEF Totals
<1> USE <1>0
<1> DEFINE seqs == Pieces(d, m, n)
           Rec(f) == [k \in 1 .. Len(seqs) |-> IF k = 1 THEN seqs[k] ELSE f[k - 1] \o seqs[k]]
           flat == [k \in 1 .. n |-> Copies(d, total[k])]
           f == CHOOSE it : it = Rec(it)
<1>1. Len(seqs) = n
  BY DEF Pieces
<1>2. \A k \in 1 .. n : seqs[k] = Copies(d, m[k]) /\ flat[k] = Copies(d, total[k])
  BY DEF Pieces
<1>3. \A k \in 1 .. n : m[k] \in Nat /\ total[k - 1] \in Nat /\ total[k] \in Nat
  OBVIOUS
<1> HIDE DEF flat, seqs
<1>4. FlattenSeq(seqs) = f[n]
  BY <1>1 DEF FlattenSeq
<1>5. flat = Rec(flat)
  <2>1. ASSUME NEW k \in 1 .. n
        PROVE  flat[k] = IF k = 1 THEN seqs[k] ELSE flat[k - 1] \o seqs[k]
    <3>1. CASE k = 1
      BY <1>2, <1>3, <3>1
    <3>2. CASE k # 1
      <4>1. k - 1 \in 1 .. n /\ total[k - 1] \in Nat /\ m[k] \in Nat
        BY <1>3, <3>2
      <4>2. Copies(d, total[k - 1]) \o Copies(d, m[k]) = Copies(d, total[k - 1] + m[k])
        BY <4>1, <1>join
      <4> QED
        BY <1>2, <3>2, <4>1, <4>2
    <3> QED
      BY <3>1, <3>2
  <2>2. flat = [k \in 1 .. n |-> flat[k]]
    BY DEF flat
  <2> QED
    BY <1>1, <2>1, <2>2
<1>6. f = Rec(f)
  <2> HIDE DEF Rec
  <2> QED
    BY <1>5
<1>7. \A k \in 1 .. n : f[k] = IF k = 1 THEN seqs[k] ELSE f[k - 1] \o seqs[k]
  BY <1>1, <1>6
<1> HIDE DEF f
<1> DEFINE Good == {k \in Nat : k + 1 \in 1 .. n => f[k + 1] = Copies(d, total[k + 1])}
<1>8. 0 \in Good
  <2>1. 1 \in 1 .. n /\ total[1] = m[1]
    <3>1. 1 \in 1 .. n /\ total[1] = total[1 - 1] + m[1] /\ 1 - 1 = 0 /\ m[1] \in Nat
      OBVIOUS
    <3> QED
      BY <3>1
  <2>2. f[1] = Copies(d, total[1])
    BY <1>2, <1>7, <2>1
  <2> QED
    BY <2>2
<1>9. ASSUME NEW k \in Nat, k \in Good PROVE k + 1 \in Good
  <2> SUFFICES ASSUME k + 2 \in 1 .. n PROVE f[k + 2] = Copies(d, total[k + 2])
    OBVIOUS
  <2>1. f[k + 1] = Copies(d, total[k + 1])
    BY <1>9
  <2>2. k + 2 \in 1 .. n /\ k + 2 # 1 /\ (k + 2) - 1 = k + 1 /\ (k + 1) + 1 = k + 2
    OBVIOUS
  <2>3. f[k + 2] = f[k + 1] \o Copies(d, m[k + 2])
    BY <1>2, <1>7, <2>2
  <2>4. total[k + 2] = total[k + 1] + m[k + 2] /\ total[k + 1] \in Nat /\ m[k + 2] \in Nat
    BY <1>3, <2>2
  <2> DEFINE a == total[k + 1]
             b == m[k + 2]
  <2>5. a \in Nat /\ b \in Nat /\ total[k + 2] = a + b /\ f[k + 2] = Copies(d, a) \o Copies(d, b)
    BY <2>1, <2>3, <2>4
  <2> HIDE DEF a, b
  <2>6. Copies(d, a) \o Copies(d, b) = Copies(d, a + b)
    BY <2>5, <1>join
  <2> QED
    BY <2>5, <2>6
<1>10. n - 1 \in Good
  <2> HIDE DEF Good
  <2>1. Nat \subseteq Good
    BY <1>8, <1>9, NaturalSteps
  <2> QED
    BY <2>1
<1> QED
  BY <1>4, <1>10 DEF seqs

\* What read prints of a block, of which e cells are text.
LEMMA BlockReads ==
  ASSUME NEW cells, NEW d, NEW e \in 1 .. DIR_ENTRY_NUM_PER_BLOCK,
         \A s \in 0 .. e - 2 : cells[s] = TextCell(d, TEXT),
         \/ cells[e - 1] = TextCell(d, TEXT_END)
         \/ e = DIR_ENTRY_NUM_PER_BLOCK /\ cells[e - 1] = TextCell(d, TEXT)
  PROVE  BlockText(cells) = Copies(d, e)
<1> DEFINE D == DIR_ENTRY_NUM_PER_BLOCK
           ends == {s \in Slots : cells[s].type = TEXT_END} \cup {D - 1}
<1>1. D \in Nat /\ D > 2 /\ Slots = 0 .. D - 1 /\ e \in 1 .. D
  BY SizeFacts DEF Slots
<1>2. /\ \A s \in 0 .. e - 1 : cells[s].name = d
      /\ \A s \in 0 .. e - 2 : cells[s].type # TEXT_END
  BY <1>1 DEF TextCell, Entry, TEXT, TEXT_END
<1>3. e - 1 \in ends
  BY <1>1 DEF TextCell, Entry
<1>4. \A s \in ends : e - 1 <= s
  BY <1>1, <1>2
<1>5. ends \subseteq Int
  BY <1>1
<1>6. LeastOf(ends) = e - 1
  <2> HIDE DEF ends, D
  <2>1. LeastOf(ends) \in ends /\ \A s \in ends : LeastOf(ends) <= s
    BY <1>3, <1>4 DEF LeastOf
  <2> DEFINE a == LeastOf(ends)
  <2>2. a \in Int /\ e - 1 \in Int
    BY <1>3, <1>5, <2>1
  <2>3. a <= e - 1 /\ e - 1 <= a
    BY <1>3, <1>4, <2>1
  <2> HIDE DEF a
  <2>4. a = e - 1
    BY <2>2, <2>3
  <2> QED
    BY <2>4 DEF a
<1>7. BlockText(cells) = [k \in 1 .. LeastOf(ends) + 1 |-> cells[k - 1].name]
  BY DEF BlockText
<1> HIDE DEF ends, D
<1>8. BlockText(cells) = [k \in 1 .. e |-> cells[k - 1].name]
  BY <1>1, <1>6, <1>7
<1> QED
  BY <1>1, <1>2, <1>8 DEF Copies

\* What read prints of a file that holds a text.
LEMMA TextReads ==
  ASSUME NEW v, NEW i, NEW d, NEW length \in Nat \ {0}, Holds(v, i, d, length)
  PROVE  ReadText(v, i) = Copies(d, length)
<1> DEFINE D == DIR_ENTRY_NUM_PER_BLOCK
           n == BlocksFor(length)
           m == [k \in 1 .. n |-> IF k < n THEN D ELSE length - (n - 1) * D]
           total == [k \in 0 .. n |-> IF k < n THEN k * D ELSE length]
           at(k) == BlockAt(v, i, k)
<1>1. D \in Nat /\ D > 2 /\ Slots = 0 .. D - 1
  BY SizeFacts DEF Slots
<1>2. n = (length + D - 1) \div D
  BY DEF BlocksFor
<1>3. /\ Len(v.inode[i].i_block) = n
      /\ \A k \in 1 .. n, s \in Slots :
           /\ (k - 1) * D + s + 1 < length => at(k)[s] = TextCell(d, TEXT)
           /\ (k - 1) * D + s + 1 = length => at(k)[s] = TextCell(d, TEXT_END)
  BY DEF Holds
<1> HIDE DEF D, n, at
<1>4. /\ n \in Nat \ {0} /\ (n - 1) * D < length /\ length <= n * D
      /\ (n - 1) * D \in Nat /\ length - (n - 1) * D \in 1 .. D
  BY <1>1, <1>2, LastBlock
<1>5. ASSUME NEW k \in 1 .. n
      PROVE  /\ (k - 1) * D \in Nat /\ k * D = (k - 1) * D + D
             /\ k < n => k * D <= (n - 1) * D
  <2>1. k \in Nat /\ k >= 1 /\ n \in Nat /\ D \in Nat
    BY <1>1, <1>4
  <2>2. (k - 1) * D \in Nat /\ k * D = (k - 1) * D + D
    BY <2>1
  <2>3. ASSUME k < n PROVE k * D <= (n - 1) * D
    <3>1. (n - 1) - k \in Nat /\ ((n - 1) - k) * D \in Nat
      BY <2>1, <2>3
    <3>2. (n - 1) * D = k * D + ((n - 1) - k) * D
      BY <2>1
    <3> QED
      BY <2>1, <3>1, <3>2
  <2> QED
    BY <2>2, <2>3
<1>6. ASSUME NEW k \in 1 .. n PROVE BlockText(at(k)) = Copies(d, m[k])
  <2> DEFINE e == m[k]
             c == (k - 1) * D
  <2>1. e \in 1 .. D /\ e = IF k < n THEN D ELSE length - (n - 1) * D
    BY <1>1, <1>4
  <2>2. c \in Nat /\ k * D = c + D /\ (k < n => c + D <= (n - 1) * D) /\ (k = n => c = (n - 1) * D)
    BY <1>5
  <2>3. \A s \in Slots : /\ c + s + 1 < length => at(k)[s] = TextCell(d, TEXT)
                         /\ c + s + 1 = length => at(k)[s] = TextCell(d, TEXT_END)
    BY <1>3
  <2>4. k < n => c + D < length
    BY <1>1, <1>4, <2>2
  <2>5. k = n => c + e = length
    BY <1>4, <2>1, <2>2
  <2> HIDE DEF e, c, m
  <2>6. \A s \in 0 .. e - 2 : at(k)[s] = TextCell(d, TEXT)
    BY <1>1, <1>4, <2>1, <2>2, <2>3, <2>4, <2>5
  <2>7. \/ at(k)[e - 1] = TextCell(d, TEXT_END)
        \/ e = D /\ at(k)[e - 1] = TextCell(d, TEXT)
    BY <1>1, <1>4, <2>1, <2>2, <2>3, <2>4, <2>5
  <2> QED
    BY <2>1, <2>6, <2>7, BlockReads DEF D, e
<1>7. [k \in 1 .. Len(v.inode[i].i_block) |-> BlockText(BlockAt(v, i, k))]
        = Pieces(d, m, n)
  <2> HIDE DEF m
  <2> QED
    BY <1>3, <1>6 DEF at, Pieces
<1>8. m \in [1 .. n -> Nat] /\ total \in [0 .. n -> Nat] /\ total[0] = 0 /\ total[n] = length
  <2>1. \A k \in 1 .. n : m[k] \in Nat
    BY <1>1, <1>4
  <2>2. \A k \in 0 .. n : total[k] \in Nat
    BY <1>1, <1>4
  <2> QED
    BY <1>1, <1>4, <2>1, <2>2
<1>9. ASSUME NEW k \in 1 .. n PROVE total[k] = total[k - 1] + m[k]
  <2>1. k - 1 \in 0 .. n /\ k \in 0 .. n /\ k - 1 < n
    BY <1>4
  <2>2. total[k - 1] = (k - 1) * D
    BY <2>1
  <2>3. CASE k < n
    BY <1>5, <2>1, <2>2, <2>3
  <2>4. CASE k = n
    BY <1>4, <2>1, <2>2, <2>4
  <2> QED
    BY <1>4, <2>3, <2>4
<1> HIDE DEF m, total
<1>10. FlattenSeq(Pieces(d, m, n)) = Copies(d, length)
  <2>1. n \in Nat \ {0} /\ Totals(n, m, total)
    BY <1>4, <1>8, <1>9 DEF Totals
  <2>2. FlattenSeq(Pieces(d, m, n)) = Copies(d, total[n])
    BY <2>1, CopiesFlatten
  <2> QED
    BY <1>8, <2>2
<1> QED
  BY <1>7, <1>10 DEF ReadText

\* What read prints of a file without blocks.
LEMMA NothingReads ==
  ASSUME NEW v, NEW i, v.inode[i].i_block = <<>>
  PROVE  ReadText(v, i) = <<>>
<1>1. [k \in 1 .. Len(v.inode[i].i_block) |-> BlockText(BlockAt(v, i, k))] = <<>>
  <2>1. Len(v.inode[i].i_block) = 0
    OBVIOUS
  <2>2. [k \in 1 .. 0 |-> BlockText(BlockAt(v, i, k))] = <<>>
    OBVIOUS
  <2> QED
    BY <2>1, <2>2
<1>2. FlattenSeq(<<>>) = <<>>
  <2>1. Len(<<>>) = 0
    OBVIOUS
  <2> QED
    BY <2>1 DEF FlattenSeq
<1> QED
  BY <1>1, <1>2 DEF ReadText

(***************************************************************************)
(* FileTree, on what is shown: its variables, and what each of its         *)
(* commands needs.                                                         *)
(***************************************************************************)
InUse == {file_open_table[k] : k \in TableSlots \ {FOPEN_TABLE_MAX - 1}}
AbsDirs == {q.path : q \in Directories}
AbsFiles == [p \in {f.path : f \in Files} |->
               LET f == CHOOSE g \in Files : g.path = p IN [mode |-> f.mode, text |-> f.text]]
AbsOpened == {f.path : f \in {g \in Files : searchInTable(g.inode)}}

\* What FileTree sees is what is seen of the tree that is shown.
LEMMA AbsIs ==
  /\ AbsDirs = SeenDirs(shown) /\ AbsFiles = SeenFiles(shown)
  /\ AbsOpened = SeenOpen(shown, InUse)
  /\ AbsDirs' = SeenDirs(shown') /\ AbsFiles' = SeenFiles(shown')
  /\ AbsOpened' = SeenOpen(shown', InUse')
<1>1. \A i : searchInTable(i) <=> i \in InUse
  BY DEF searchInTable, InUse
<1>2. \A i : searchInTable(i)' <=> i \in InUse'
  BY DEF searchInTable, InUse
<1>3. AbsDirs = SeenDirs(shown) /\ AbsDirs' = SeenDirs(shown')
  BY DEF AbsDirs, Directories, SeenDirs
<1>4. AbsFiles = SeenFiles(shown) /\ AbsFiles' = SeenFiles(shown')
  BY DEF AbsFiles, Files, SeenFiles
<1>5. AbsOpened = SeenOpen(shown, InUse)
  BY <1>1 DEF AbsOpened, Files, SeenOpen
<1>6. AbsOpened' = SeenOpen(shown', InUse')
  BY <1>2 DEF AbsOpened, Files, SeenOpen
<1> QED
  BY <1>3, <1>4, <1>5, <1>6

\* Where a command of FileTree works.
LEMMA HereIs ==
  ASSUME NEW n
  PROVE  Abstract!Here(n) = Append(current_path, n)
BY DEF Abstract!Here

\* What stays, in the words of FileTree.
LEMMA StayIs ==
  UNCHANGED <<AbsDirs, current_path, AbsOpened>> =>
    UNCHANGED <<{q.path : q \in Directories}, current_path,
                {f.path : f \in {g \in Files : searchInTable(g.inode)}}>>
BY DEF AbsDirs, AbsOpened

\* FileTree's mkdir: a path is new among the directories.
LEMMA DoesMkdir ==
  ASSUME NEW n, NEW x, x = Append(current_path, n), x \notin AbsDirs,
         AbsDirs' = AbsDirs \cup {x}, AbsFiles' = AbsFiles, AbsOpened' = AbsOpened,
         current_path' = current_path
  PROVE  Abstract!Mkdir(n)
BY HereIs DEF Abstract!Mkdir, AbsDirs, AbsFiles, AbsOpened

\* FileTree's touch: an empty file is new.
LEMMA DoesTouch ==
  ASSUME NEW n, NEW x, x = Append(current_path, n), x \notin DOMAIN AbsFiles,
         AbsFiles' = WithFile(AbsFiles, x, [mode |-> DefaultMode[n], text |-> <<>>]),
         AbsDirs' = AbsDirs, AbsOpened' = AbsOpened, current_path' = current_path
  PROVE  Abstract!Touch(n)
<1>1. Abstract!Here(n) = x
  BY HereIs
<1>2. AbsFiles' = [p \in DOMAIN AbsFiles \cup {Abstract!Here(n)} |->
        IF p = Abstract!Here(n) THEN [mode |-> DefaultMode[n], text |-> <<>>] ELSE AbsFiles[p]]
  BY <1>1 DEF WithFile
<1>3. Abstract!Put(Abstract!Here(n), [mode |-> DefaultMode[n], text |-> <<>>])
  BY <1>2 DEF Abstract!Put, AbsFiles
<1>4. Abstract!Here(n) \notin DOMAIN AbsFiles
  BY <1>1
<1> QED
  BY <1>3, <1>4, StayIs DEF Abstract!Touch, AbsFiles

\* FileTree's rm: a file that is not open goes.
LEMMA DoesRm ==
  ASSUME NEW n, NEW x, x = Append(current_path, n), x \in DOMAIN AbsFiles \ AbsOpened,
         AbsFiles' = Without(AbsFiles, {x}),
         AbsDirs' = AbsDirs, AbsOpened' = AbsOpened, current_path' = current_path
  PROVE  Abstract!Rm(n)
<1>1. Abstract!Restricted(AbsFiles, DOMAIN AbsFiles \ {x}) = Without(AbsFiles, {x})
  BY DEF Abstract!Restricted, Without
<1>2. Abstract!Here(n) = x
  BY HereIs
<1> QED
  BY <1>1, <1>2 DEF Abstract!Rm, AbsDirs, AbsFiles, AbsOpened

\* FileTree's rmdir: a directory goes with all below it, none of it open.
LEMMA DoesRmdir ==
  ASSUME NEW n, NEW x, x = Append(current_path, n), x \in AbsDirs,
         NEW D, D = DirsUnder(AbsDirs, x), NEW B, B = FilesUnder(AbsFiles, x), B \cap AbsOpened = {},
         AbsDirs' = AbsDirs \ D, AbsFiles' = Without(AbsFiles, B),
         AbsOpened' = AbsOpened, current_path' = current_path
  PROVE  Abstract!Rmdir(n)
<1>1. Abstract!Restricted(AbsFiles, DOMAIN AbsFiles \ B) = Without(AbsFiles, B)
  BY DEF Abstract!Restricted, Without
<1>2. Abstract!Here(n) = x
  BY HereIs
<1>3. \A p : /\ Abstract!IsPrefix(x, p) <=> IsPrefix(x, p)
             /\ Abstract!IsStrictPrefix(x, p) <=> IsStrictPrefix(x, p)
  BY DEF Abstract!IsPrefix, IsPrefix, Abstract!IsStrictPrefix, IsStrictPrefix
<1>4. Abstract!Below(AbsDirs, n) = D
  BY <1>2, <1>3 DEF Abstract!Below, DirsUnder
<1>5. Abstract!FilesBelow(n) = B
  BY <1>2, <1>3 DEF Abstract!FilesBelow, AbsFiles, FilesUnder
<1> QED
  BY <1>1, <1>2, <1>4, <1>5 DEF Abstract!Rmdir, AbsDirs, AbsFiles, AbsOpened

\* FileTree's cd: the current path is that of a directory below.
LEMMA DoesCd ==
  ASSUME NEW n, Append(current_path, n) \in AbsDirs, current_path' = Append(current_path, n),
         AbsDirs' = AbsDirs, AbsFiles' = AbsFiles, AbsOpened' = AbsOpened
  PROVE  Abstract!Cd(n)
<1>1. Abstract!Here(n) = Append(current_path, n)
  BY HereIs
<1> QED
  BY <1>1 DEF Abstract!Cd, AbsDirs, AbsFiles, AbsOpened

\* FileTree's cd to the parent: the current path loses its last name.
LEMMA DoesCdUp ==
  ASSUME current_path # <<>>, current_path' = Front(current_path),
         AbsDirs' = AbsDirs, AbsFiles' = AbsFiles, AbsOpened' = AbsOpened
  PROVE  Abstract!CdUp
BY DEF Abstract!CdUp, AbsDirs, AbsFiles, AbsOpened, Abstract!Front, Front

\* FileTree's open and close: one path more, or less, is open.
LEMMA DoesOpen ==
  ASSUME NEW n, NEW x, x = Append(current_path, n),
         AbsDirs' = AbsDirs, AbsFiles' = AbsFiles, current_path' = current_path
  PROVE  /\ x \in DOMAIN AbsFiles /\ AbsOpened' = AbsOpened \cup {x} => Abstract!Open(n)
         /\ AbsOpened' = AbsOpened \ {x} => Abstract!Close(n)
<1>1. Abstract!Here(n) = x
  BY HereIs
<1> QED
  BY <1>1 DEF Abstract!Open, Abstract!Close, AbsDirs, AbsFiles, AbsOpened

\* FileTree's chmod: a file has another mode and the same text.
LEMMA DoesChmod ==
  ASSUME NEW n, NEW x, x = Append(current_path, n), x \in DOMAIN AbsFiles, NEW m \in Modes,
         NEW file, file = [AbsFiles[x] EXCEPT !.mode = m], AbsFiles' = WithFile(AbsFiles, x, file),
         AbsDirs' = AbsDirs, AbsOpened' = AbsOpened, current_path' = current_path
  PROVE  Abstract!Chmod(n)
<1>1. Abstract!Here(n) = x
  BY HereIs
<1>2. AbsFiles' = [p \in DOMAIN AbsFiles \cup {Abstract!Here(n)} |->
        IF p = Abstract!Here(n) THEN [AbsFiles[Abstract!Here(n)] EXCEPT !.mode = m] ELSE AbsFiles[p]]
  BY <1>1 DEF WithFile
<1>3. \E a \in Modes : AbsFiles' = [p \in DOMAIN AbsFiles \cup {Abstract!Here(n)} |->
        IF p = Abstract!Here(n) THEN [AbsFiles[Abstract!Here(n)] EXCEPT !.mode = a] ELSE AbsFiles[p]]
  BY <1>2
<1>4. Abstract!Here(n) \in DOMAIN AbsFiles
  BY <1>1
<1> QED
  BY <1>3, <1>4, StayIs DEF Abstract!Chmod, Abstract!Put, AbsFiles

\* FileTree's write: an open file has another text and the same mode.
LEMMA DoesWrite ==
  ASSUME NEW n, NEW x, x = Append(current_path, n), x \in AbsOpened,
         {"r", "w"} \subseteq AbsFiles[x].mode, NEW d \in Data, NEW length \in Lengths,
         NEW file, file = [AbsFiles[x] EXCEPT !.text = Copies(d, length)],
         AbsFiles' = WithFile(AbsFiles, x, file),
         AbsDirs' = AbsDirs, AbsOpened' = AbsOpened, current_path' = current_path
  PROVE  Abstract!Write(n)
<1>1. Abstract!Here(n) = x
  BY HereIs
<1> DEFINE t == Copies(d, length)
<1>2. t \in Texts
  BY DEF Copies, Texts
<1> HIDE DEF t
<1>3. AbsFiles' = [p \in DOMAIN AbsFiles \cup {Abstract!Here(n)} |->
        IF p = Abstract!Here(n) THEN [AbsFiles[Abstract!Here(n)] EXCEPT !.text = t] ELSE AbsFiles[p]]
  BY <1>1 DEF WithFile, t
<1>4. \E u \in Texts : AbsFiles' = [p \in DOMAIN AbsFiles \cup {Abstract!Here(n)} |->
        IF p = Abstract!Here(n) THEN [AbsFiles[Abstract!Here(n)] EXCEPT !.text = u] ELSE AbsFiles[p]]
  BY <1>2, <1>3
<1>5. Abstract!Here(n) \in AbsOpened /\ {"r", "w"} \subseteq AbsFiles[Abstract!Here(n)].mode
  BY <1>1
<1> QED
  BY <1>4, <1>5, StayIs DEF Abstract!Write, Abstract!Put, AbsFiles, AbsOpened

(***************************************************************************)
(* What each command within the contract does, FileTree does: the helper   *)
(* lemmas say what is seen of it, the lemmas above which command that is.  *)
(***************************************************************************)
\* What a command within the contract starts from and ends in, and what is seen of it.
LEMMA CommandSees ==
  ASSUME ShownInv, ShownInv', kept, kept', NEW path, Stands(path)
  PROVE  /\ Sound(vol) /\ Sound(vol') /\ TreeSound(vol) /\ Pathed(vol, path) /\ FsInv
         /\ current_dir \in Dirs(vol) /\ current_path = path[current_dir]
         /\ AbsDirs = SeenDirs(Tree(vol)) /\ AbsDirs' = SeenDirs(Tree(vol'))
         /\ AbsFiles = SeenFiles(Tree(vol)) /\ AbsFiles' = SeenFiles(Tree(vol'))
         /\ AbsOpened = SeenOpen(Tree(vol), InUse) /\ AbsOpened' = SeenOpen(Tree(vol'), InUse')
<1>1. shown = Tree(vol) /\ shown' = Tree(vol') /\ FsInv /\ Sound(vol')
  BY DEF ShownInv, FsInv
<1>2. Sound(vol) /\ TreeSound(vol) /\ current_dir \in Dirs(vol)
  BY <1>1, Starts
<1> QED
  BY <1>1, <1>2, AbsIs DEF Stands

\* Only files are in use.
LEMMA OnlyFilesInUse ==
  ASSUME NEW path, Stands(path), NEW i \in InUse, i # 0
  PROVE  i \in FilesOf(vol)
<1>1. PICK k \in TableSlots : file_open_table[k] = i
  BY DEF InUse
<1> QED
  BY <1>1 DEF Stands, TableNamed, InTable, FilesOf

\* In use is what searchInTable finds.
LEMMA InUseIs ==
  /\ \A i : searchInTable(i) <=> i \in InUse
  /\ \A i : searchInTable(i)' <=> i \in InUse'
  /\ UNCHANGED open_files => InUse' = InUse
BY DEF searchInTable, InUse, open_files

\* mkdir and touch.
LEMMA CreateDoes ==
  ASSUME ShownInv, ShownInv', NEW n \in Names, NEW t \in {FILE, DIR}, Create(n, t), kept', NEW path,
         Stands(path)
  PROVE  /\ t = DIR => Abstract!Mkdir(n)
         /\ t = FILE => Abstract!Touch(n)
<1> DEFINE i == NewInode(vol)
           d == current_dir
           x == Append(current_path, n)
<1>1. /\ kept /\ ~Found(vol, d, n, t) /\ Gained(vol, vol', d, n, i, t)
      /\ t = FILE => vol'.inode[i] = Inode(DefaultMode[n], 0, <<>>)
  BY CreateKeeps DEF ShownInv, Exists
<1>2. /\ Sound(vol) /\ Sound(vol') /\ TreeSound(vol) /\ Pathed(vol, path)
      /\ d \in Dirs(vol) /\ x = Append(path[d], n)
      /\ AbsDirs = SeenDirs(Tree(vol)) /\ AbsDirs' = SeenDirs(Tree(vol'))
      /\ AbsFiles = SeenFiles(Tree(vol)) /\ AbsFiles' = SeenFiles(Tree(vol'))
      /\ AbsOpened = SeenOpen(Tree(vol), InUse) /\ AbsOpened' = SeenOpen(Tree(vol'), InUse')
  BY <1>1, CommandSees
<1>3. UNCHANGED <<open_files, position>>
  BY DEF Create
<1>4. InUse' = InUse /\ current_path' = current_path
  BY <1>3, InUseIs DEF position
<1>5. i \notin InUse
  <2>1. i \notin vol.inode_bits /\ root \in vol.inode_bits
    BY <1>1, <1>2 DEF Gained, TreeSound, Dotted, Dirs
  <2>2. i # 0 /\ i \notin FilesOf(vol)
    BY <2>1 DEF FilesOf, root
  <2> QED
    BY <2>2, OnlyFilesInUse
<1> HIDE DEF i, d, x
<1>6. ASSUME NEW j \in vol.inode_bits, Kind(vol, j) = t PROVE path[j] # x
  BY <1>1, <1>2, <1>6, NameFree
<1>7. /\ SeenDirs(Tree(vol)) = PathsOf(path, Dirs(vol))
      /\ Maps(SeenFiles(Tree(vol)), PathsOf(path, FilesOf(vol)))
  BY <1>2, TreeSeen
<1>8. x = Append(current_path, n)
  BY DEF x
<1>9. CASE t = DIR
  <2>1. x \notin AbsDirs
    BY <1>2, <1>6, <1>7, <1>9 DEF PathsOf, Kind, Dirs
  <2>2. Gained(vol, vol', d, n, i, DIR)
    BY <1>1, <1>9
  <2>3. /\ SeenDirs(Tree(vol')) = SeenDirs(Tree(vol)) \cup {Append(path[d], n)}
        /\ SeenFiles(Tree(vol')) = SeenFiles(Tree(vol))
        /\ SeenOpen(Tree(vol'), InUse) = SeenOpen(Tree(vol), InUse)
    BY <1>2, <2>2, DirGainSeen
  <2>4. AbsDirs' = AbsDirs \cup {x} /\ AbsFiles' = AbsFiles /\ AbsOpened' = AbsOpened
    BY <1>2, <1>4, <2>3
  <2>5. Abstract!Mkdir(n)
    BY <1>4, <1>8, <2>1, <2>4, DoesMkdir
  <2> QED
    BY <1>9, <2>5 DEF FILE, DIR
<1>10. CASE t = FILE
  <2>1. x \notin PathsOf(path, FilesOf(vol)) /\ x \notin DOMAIN AbsFiles
    <3>1. x \notin PathsOf(path, FilesOf(vol))
      BY <1>6, <1>10 DEF PathsOf, Kind, FilesOf
    <3> QED
      BY <1>2, <1>7, <3>1 DEF Maps
  <2>2. Gained(vol, vol', d, n, i, FILE) /\ Append(path[d], n) \notin PathsOf(path, FilesOf(vol))
    BY <1>1, <1>2, <1>10, <2>1
  <2>3. /\ SeenDirs(Tree(vol')) = SeenDirs(Tree(vol))
        /\ SeenFiles(Tree(vol')) = WithFile(SeenFiles(Tree(vol)), Append(path[d], n), FileAt(vol', i))
        /\ SeenOpen(Tree(vol'), InUse) = SeenOpen(Tree(vol), InUse)
    BY <1>2, <1>5, <2>2, FileGainSeen
  <2>4. FileAt(vol', i) = [mode |-> DefaultMode[n], text |-> <<>>]
    <3>1. vol'.inode[i].i_block = <<>> /\ vol'.inode[i].i_mode = DefaultMode[n]
      BY <1>1, <1>10 DEF Inode
    <3> QED
      BY <3>1, NothingReads DEF FileAt
  <2>5. AbsFiles' = WithFile(AbsFiles, x, [mode |-> DefaultMode[n], text |-> <<>>])
    BY <1>2, <2>3, <2>4
  <2>6. AbsDirs' = AbsDirs /\ AbsOpened' = AbsOpened
    BY <1>2, <1>4, <2>3
  <2>7. Abstract!Touch(n)
    BY <1>4, <1>8, <2>1, <2>5, <2>6, DoesTouch
  <2> QED
    BY <1>10, <2>7 DEF FILE, DIR
<1> QED
  BY <1>9, <1>10

\* What a name that is found in the current directory leads to.
LEMMA FileHere ==
  ASSUME ShownInv, ShownInv', kept, kept', NEW path, Stands(path), NEW n \in Names,
         Exists(n, FILE), NEW i, i = NodeOf(n, FILE)
  PROVE  /\ i \in FilesOf(vol) /\ i # 0 /\ path[i] = Append(current_path, n)
         /\ path[i] \in DOMAIN AbsFiles /\ AbsFiles[path[i]] = FileAt(vol, i)
         /\ path[i] \in AbsOpened <=> i \in InUse
<1> DEFINE d == current_dir
<1>1. /\ Sound(vol) /\ TreeSound(vol) /\ Pathed(vol, path) /\ d \in Dirs(vol)
      /\ current_path = path[d] /\ AbsFiles = SeenFiles(Tree(vol))
      /\ AbsOpened = SeenOpen(Tree(vol), InUse)
  BY CommandSees
<1>2. Found(vol, d, n, FILE) /\ i = Node(vol, d, n, FILE)
  BY DEF Exists, NodeOf
<1> HIDE DEF d
<1>3. i \in vol.inode_bits \ {root} /\ path[i] = Append(path[d], n) /\ Kind(vol, i) = FILE
  BY <1>1, <1>2, HereLeads
<1>4. i \in FilesOf(vol) /\ i # 0
  BY <1>3 DEF FilesOf, Kind, FILE, DIR, root
<1>5. /\ Maps(AbsFiles, PathsOf(path, FilesOf(vol)))
      /\ \A j \in FilesOf(vol) : AbsFiles[path[j]] = FileAt(vol, j)
      /\ AbsOpened = PathsOf(path, FilesOf(vol) \cap InUse)
  BY <1>1, TreeSeen
<1>6. path[i] \in DOMAIN AbsFiles
  BY <1>4, <1>5 DEF Maps, PathsOf
<1>7. path[i] \in AbsOpened <=> i \in InUse
  <2>1. i \in InUse => path[i] \in AbsOpened
    BY <1>4, <1>5 DEF PathsOf
  <2>2. ASSUME path[i] \in AbsOpened PROVE i \in InUse
    <3>1. PICK j \in FilesOf(vol) \cap InUse : path[i] = path[j]
      BY <1>5, <2>2 DEF PathsOf
    <3>2. Kind(vol, i) = Kind(vol, j) /\ j \in vol.inode_bits
      BY <1>3, <1>4 DEF FilesOf, Kind
    <3>3. i = j
      BY <1>1, <1>3, <3>1, <3>2, PathsDiffer
    <3> QED
      BY <3>1, <3>3
  <2> QED
    BY <2>1, <2>2
<1> QED
  BY <1>1, <1>3, <1>4, <1>5, <1>6, <1>7

\* rm.
LEMMA RmDoes ==
  ASSUME ShownInv, ShownInv', NEW n \in Names, rm(n), kept', NEW path, Stands(path)
  PROVE  Abstract!Rm(n)
<1> DEFINE i == NodeOf(n, FILE)
           x == Append(current_path, n)
<1>1. /\ kept /\ ~searchInTable(i) /\ UNCHANGED open_files /\ Shrunk(vol, vol', {i})
      /\ Exists(n, FILE)
  BY RmKeeps DEF ShownInv, rm
<1>2. /\ Sound(vol) /\ Sound(vol') /\ Pathed(vol, path)
      /\ AbsDirs = SeenDirs(Tree(vol)) /\ AbsDirs' = SeenDirs(Tree(vol'))
      /\ AbsFiles = SeenFiles(Tree(vol)) /\ AbsFiles' = SeenFiles(Tree(vol'))
      /\ AbsOpened = SeenOpen(Tree(vol), InUse) /\ AbsOpened' = SeenOpen(Tree(vol'), InUse')
  BY <1>1, CommandSees
<1>3. InUse' = InUse /\ current_path' = current_path /\ i \notin InUse
  BY <1>1, InUseIs DEF rm, position
<1> HIDE DEF i
<1>4. /\ i \in FilesOf(vol) /\ path[i] = x /\ x \in DOMAIN AbsFiles
      /\ x \in AbsOpened <=> i \in InUse
  <2>1. /\ i \in FilesOf(vol) /\ path[i] = Append(current_path, n)
        /\ path[i] \in DOMAIN AbsFiles
        /\ path[i] \in AbsOpened <=> i \in InUse
    BY <1>1, FileHere DEF i
  <2> QED
    BY <2>1
<1> HIDE DEF x
<1>5. /\ SeenDirs(Tree(vol')) = SeenDirs(Tree(vol))
      /\ SeenFiles(Tree(vol')) = Without(SeenFiles(Tree(vol)), {path[i]})
      /\ SeenOpen(Tree(vol'), InUse) = SeenOpen(Tree(vol), InUse)
  <2>1. /\ Sound(vol) /\ Sound(vol') /\ Pathed(vol, path) /\ i \in FilesOf(vol)
        /\ Shrunk(vol, vol', {i}) /\ i \notin InUse
    BY <1>1, <1>2, <1>3, <1>4
  <2> QED
    BY <2>1, FileShrinkSeen
<1>6. AbsFiles' = Without(AbsFiles, {x}) /\ AbsDirs' = AbsDirs /\ AbsOpened' = AbsOpened
  BY <1>2, <1>3, <1>4, <1>5
<1>7. x \in DOMAIN AbsFiles \ AbsOpened /\ x = Append(current_path, n)
  BY <1>3, <1>4 DEF x
<1> QED
  BY <1>3, <1>6, <1>7, DoesRm

\* What is seen when a directory goes with its files.
LEMMA DirGoes ==
  ASSUME ShownInv, ShownInv', kept, kept', NEW path, Stands(path), NEW n \in Names,
         Exists(n, DIR), NEW i, i = NodeOf(n, DIR),
         \A q \in Entries(vol, i) : CellAt(vol, i, q).inode \notin Dirs(vol) \cup InUse,
         NEW S, S = {CellAt(vol, i, q).inode : q \in Entries(vol, i)} \cup {i},
         Shrunk(vol, vol', S), UNCHANGED <<open_files, position>>
  PROVE  Abstract!Rmdir(n)
<1> DEFINE x == Append(current_path, n)
           d == current_dir
           D == DirsUnder(AbsDirs, x)
           B == FilesUnder(AbsFiles, x)
<1>1. /\ Sound(vol) /\ Sound(vol') /\ Pathed(vol, path) /\ d \in Dirs(vol)
      /\ current_path = path[d]
      /\ AbsDirs = SeenDirs(Tree(vol)) /\ AbsDirs' = SeenDirs(Tree(vol'))
      /\ AbsFiles = SeenFiles(Tree(vol)) /\ AbsFiles' = SeenFiles(Tree(vol'))
      /\ AbsOpened = SeenOpen(Tree(vol), InUse) /\ AbsOpened' = SeenOpen(Tree(vol'), InUse')
  BY CommandSees
<1>2. InUse' = InUse /\ current_path' = current_path
  BY InUseIs DEF position
<1>3. i \in Dirs(vol) /\ i # 0 /\ path[i] = x
  <2>1. Found(vol, d, n, DIR) /\ i = Node(vol, d, n, DIR)
    BY DEF Exists, NodeOf
  <2> HIDE DEF d, x
  <2>2. i \in vol.inode_bits \ {root} /\ path[i] = Append(path[d], n) /\ Kind(vol, i) = DIR
    BY <1>1, <2>1, HereLeads
  <2> QED
    BY <1>1, <2>2 DEF Kind, FILE, DIR, root, x
<1>4. InUse \cap S = {}
  <2>1. i \notin InUse
    BY <1>3, OnlyFilesInUse DEF FilesOf
  <2> QED
    BY <2>1
<1>5. \A q \in Entries(vol, i) : CellAt(vol, i, q).inode \notin Dirs(vol)
  OBVIOUS
<1>6. SeenDirs(Tree(vol)) = PathsOf(path, Dirs(vol))
  BY <1>1, TreeSeen
<1>7. x \in AbsDirs
  BY <1>1, <1>3, <1>6 DEF PathsOf
<1> HIDE DEF d, x, D, B
<1>8. /\ SeenDirs(Tree(vol')) =
           SeenDirs(Tree(vol)) \ DirsUnder(SeenDirs(Tree(vol)), path[i])
      /\ SeenFiles(Tree(vol')) =
           Without(SeenFiles(Tree(vol)), FilesUnder(SeenFiles(Tree(vol)), path[i]))
      /\ FilesUnder(SeenFiles(Tree(vol)), path[i]) \cap SeenOpen(Tree(vol), InUse) = {}
      /\ SeenOpen(Tree(vol'), InUse) = SeenOpen(Tree(vol), InUse)
  <2>1. /\ Sound(vol) /\ Sound(vol') /\ Pathed(vol, path) /\ i \in Dirs(vol)
        /\ \A q \in Entries(vol, i) : CellAt(vol, i, q).inode \notin Dirs(vol)
        /\ \A j : j \in S <=> j = i \/ \E q \in Entries(vol, i) : j = CellAt(vol, i, q).inode
        /\ Shrunk(vol, vol', S) /\ InUse \cap S = {}
    BY <1>1, <1>3, <1>4, <1>5
  <2> QED
    BY <2>1, DirShrinkSeen
<1>9. /\ AbsDirs' = AbsDirs \ D /\ AbsFiles' = Without(AbsFiles, B)
      /\ B \cap AbsOpened = {} /\ AbsOpened' = AbsOpened
  BY <1>1, <1>2, <1>3, <1>8 DEF D, B
<1> QED
  BY <1>2, <1>7, <1>9, DoesRmdir DEF x, D, B

\* rmdir.
LEMMA RmdirDoes ==
  ASSUME ShownInv, ShownInv', NEW n \in Names, rmdir(n), kept', NEW path, Stands(path)
  PROVE  Abstract!Rmdir(n)
<1> DEFINE i == NodeOf(n, DIR)
           S == {CellAt(vol, i, q).inode : q \in Entries(vol, i)} \cup {i}
<1>1. FsInv
  BY DEF ShownInv
<1>2. CASE rmdir_empty(n)
  <2>1. /\ kept /\ Entries(vol, i) = {} /\ Shrunk(vol, vol', {i}) /\ Exists(n, DIR)
        /\ UNCHANGED <<open_files, position>>
    BY <1>1, <1>2, RmdirEmptyKeeps DEF rmdir_empty
  <2> HIDE DEF i
  <2>2. S = {i}
    BY <2>1
  <2>3. Shrunk(vol, vol', S) /\ \A q \in Entries(vol, i) : CellAt(vol, i, q).inode \notin Dirs(vol) \cup InUse
    BY <2>1, <2>2
  <2> QED
    BY <2>1, <2>3, DirGoes DEF i
<1>3. CASE rmdir_in_root(n)
  BY <1>3 DEF rmdir_in_root
<1>4. CASE rmdir_elsewhere(n)
  <2>1. /\ kept /\ UNCHANGED <<open_files, position>> /\ Shrunk(vol, vol', S)
        /\ Children(vol, i, DIR) = {}
        /\ \A q \in Children(vol, i, FILE) : ~searchInTable(CellAt(vol, i, q).inode)
    BY <1>1, <1>4, RmdirElsewhereKeeps
  <2>2. Exists(n, DIR) /\ TreeSound(vol) /\ Sound(vol) /\ current_dir \in Dirs(vol)
    BY <1>1, <1>4, <2>1, Starts DEF rmdir_elsewhere
  <2>3. i \in Dirs(vol)
    <3>1. Found(vol, current_dir, n, DIR)
      BY <2>2 DEF Exists
    <3> QED
      BY <2>2, <3>1, NameFinds DEF NodeOf
  <2> HIDE DEF i, S
  <2>4. Children(vol, i, FILE) = Entries(vol, i)
    BY <2>1, <2>2, <2>3, OnlyFiles
  <2>5. ASSUME NEW q \in Entries(vol, i) PROVE CellAt(vol, i, q).inode \notin Dirs(vol) \cup InUse
    <3>1. CellAt(vol, i, q).type = FILE
      BY <2>4 DEF Children
    <3>2. Names1(vol, i, CellAt(vol, i, q))
      BY <2>2, <2>3, EntryNames
    <3>3. CellAt(vol, i, q).inode \notin Dirs(vol)
      BY <3>1, <3>2 DEF Names1, FILE, DIR
    <3>4. CellAt(vol, i, q).inode \notin InUse
      BY <2>1, <2>4, InUseIs
    <3> QED
      BY <3>3, <3>4
  <2> QED
    BY <2>1, <2>2, <2>5, DirGoes DEF i, S
<1> QED
  BY <1>2, <1>3, <1>4 DEF rmdir

\* chmod.
LEMMA ChmodDoes ==
  ASSUME ShownInv, ShownInv', NEW n \in Names, NEW mode \in Modes, chmod(n, mode), kept',
         NEW path, Stands(path)
  PROVE  Abstract!Chmod(n)
<1> DEFINE i == NodeOf(n, FILE)
           x == Append(current_path, n)
<1>1. /\ kept /\ FileChanged(vol, vol', i) /\ vol'.block = vol.block
      /\ vol'.inode[i].i_mode = mode /\ vol'.inode[i].i_block = vol.inode[i].i_block
      /\ Exists(n, FILE) /\ UNCHANGED <<open_files, position>>
  BY ChmodKeeps DEF ShownInv, chmod
<1>2. /\ Sound(vol) /\ Sound(vol') /\ Pathed(vol, path)
      /\ AbsDirs = SeenDirs(Tree(vol)) /\ AbsDirs' = SeenDirs(Tree(vol'))
      /\ AbsFiles = SeenFiles(Tree(vol)) /\ AbsFiles' = SeenFiles(Tree(vol'))
      /\ AbsOpened = SeenOpen(Tree(vol), InUse) /\ AbsOpened' = SeenOpen(Tree(vol'), InUse')
  BY <1>1, CommandSees
<1>3. InUse' = InUse /\ current_path' = current_path
  BY <1>1, InUseIs DEF position
<1> HIDE DEF i
<1>4. i \in FilesOf(vol) /\ path[i] = x /\ x \in DOMAIN AbsFiles /\ AbsFiles[x] = FileAt(vol, i)
  BY <1>1, FileHere DEF i
<1> HIDE DEF x
<1>5. /\ SeenDirs(Tree(vol')) = SeenDirs(Tree(vol))
      /\ SeenOpen(Tree(vol'), InUse) = SeenOpen(Tree(vol), InUse)
      /\ SeenFiles(Tree(vol')) = WithFile(SeenFiles(Tree(vol)), path[i], FileAt(vol', i))
  BY <1>1, <1>2, <1>4, ChangeSeen
<1>6. FileAt(vol', i) = [AbsFiles[x] EXCEPT !.mode = mode]
  <2>1. ReadText(vol', i) = ReadText(vol, i)
    BY <1>1 DEF ReadText, BlockAt
  <2> QED
    BY <1>1, <1>4, <2>1 DEF FileAt
<1>7. AbsFiles' = WithFile(AbsFiles, x, FileAt(vol', i)) /\ AbsDirs' = AbsDirs /\ AbsOpened' = AbsOpened
  BY <1>2, <1>3, <1>4, <1>5
<1> QED
  BY <1>3, <1>4, <1>6, <1>7, DoesChmod DEF x

\* write.
LEMMA WriteDoes ==
  ASSUME ShownInv, ShownInv', NEW n \in Names, NEW d \in Data, NEW length \in Lengths,
         write(n, d, length), kept', NEW path, Stands(path)
  PROVE  Abstract!Write(n)
<1> DEFINE i == NodeOf(n, FILE)
           x == Append(current_path, n)
<1>1. /\ kept /\ FileChanged(vol, vol', i)
      /\ vol'.inode[i].i_mode = vol.inode[i].i_mode /\ Holds(vol', i, d, length)
      /\ Exists(n, FILE) /\ UNCHANGED <<open_files, position>>
      /\ searchInTable(i) /\ {"r", "w"} \subseteq vol.inode[i].i_mode
  BY WriteKeeps DEF ShownInv, write, Writes
<1>2. /\ Sound(vol) /\ Sound(vol') /\ Pathed(vol, path)
      /\ AbsDirs = SeenDirs(Tree(vol)) /\ AbsDirs' = SeenDirs(Tree(vol'))
      /\ AbsFiles = SeenFiles(Tree(vol)) /\ AbsFiles' = SeenFiles(Tree(vol'))
      /\ AbsOpened = SeenOpen(Tree(vol), InUse) /\ AbsOpened' = SeenOpen(Tree(vol'), InUse')
  BY <1>1, CommandSees
<1>3. InUse' = InUse /\ current_path' = current_path /\ i \in InUse
  BY <1>1, InUseIs DEF position
<1> HIDE DEF i
<1>4. /\ i \in FilesOf(vol) /\ path[i] = x /\ x \in DOMAIN AbsFiles /\ AbsFiles[x] = FileAt(vol, i)
      /\ x \in AbsOpened
  BY <1>1, <1>3, FileHere DEF i
<1> HIDE DEF x
<1>5. /\ SeenDirs(Tree(vol')) = SeenDirs(Tree(vol))
      /\ SeenOpen(Tree(vol'), InUse) = SeenOpen(Tree(vol), InUse)
      /\ SeenFiles(Tree(vol')) = WithFile(SeenFiles(Tree(vol)), path[i], FileAt(vol', i))
  BY <1>1, <1>2, <1>4, ChangeSeen
<1>6. FileAt(vol', i) = [AbsFiles[x] EXCEPT !.text = Copies(d, length)]
  <2>1. ReadText(vol', i) = Copies(d, length)
    <3>1. length \in Nat \ {0}
      BY CommandAssumption
    <3> QED
      BY <1>1, <3>1, TextReads
  <2> QED
    BY <1>1, <1>4, <2>1 DEF FileAt
<1>7. AbsFiles' = WithFile(AbsFiles, x, FileAt(vol', i)) /\ AbsDirs' = AbsDirs /\ AbsOpened' = AbsOpened
  BY <1>2, <1>3, <1>4, <1>5
<1>8. {"r", "w"} \subseteq AbsFiles[x].mode
  BY <1>1, <1>4 DEF FileAt
<1> QED
  BY <1>3, <1>4, <1>6, <1>7, <1>8, DoesWrite DEF x

\* Nothing is seen of a command that changes neither the volume nor the table.
LEMMA NothingSeen ==
  ASSUME UNCHANGED <<shown, open_files>>
  PROVE  AbsDirs' = AbsDirs /\ AbsFiles' = AbsFiles /\ AbsOpened' = AbsOpened
<1>1. InUse' = InUse
  BY InUseIs
<1> QED
  BY <1>1, AbsIs

\* cd into a directory.
LEMMA CdDoes ==
  ASSUME ShownInv, ShownInv', NEW n \in Names, cd_down(n), kept', NEW path, Stands(path)
  PROVE  Abstract!Cd(n)
<1> DEFINE i == NodeOf(n, DIR)
           x == Append(current_path, n)
<1>1. /\ kept /\ Found(vol, current_dir, n, DIR) /\ path[i] = Append(path[current_dir], n)
  BY CdDownStands
<1>2. current_path' = x /\ UNCHANGED <<shown, open_files>>
  BY DEF cd_down, Shows
<1>3. /\ Sound(vol) /\ TreeSound(vol) /\ Pathed(vol, path) /\ current_dir \in Dirs(vol)
      /\ current_path = path[current_dir] /\ AbsDirs = SeenDirs(Tree(vol))
  BY <1>1, CommandSees
<1>4. i \in Dirs(vol)
  BY <1>1, <1>3, NameFinds DEF NodeOf
<1> HIDE DEF i
<1>5. AbsDirs = PathsOf(path, Dirs(vol))
  BY <1>3, TreeSeen
<1>6. x \in AbsDirs
  BY <1>1, <1>3, <1>4, <1>5 DEF PathsOf
<1>7. AbsDirs' = AbsDirs /\ AbsFiles' = AbsFiles /\ AbsOpened' = AbsOpened
  BY <1>2, NothingSeen
<1> QED
  BY <1>2, <1>6, <1>7, DoesCd

\* cd to the parent: at the root nothing is seen of it.
LEMMA CdUpDoes ==
  ASSUME ShownInv, cd_up, NEW path, Stands(path)
  PROVE  \/ Abstract!CdUp
         \/ UNCHANGED <<AbsDirs, AbsFiles, AbsOpened, current_path, kept>>
<1>1. /\ current_dir = root => UNCHANGED current_path
      /\ current_dir # root => current_path # <<>> /\ current_path' = Front(current_path)
  BY CdUpStands
<1>2. UNCHANGED <<shown, open_files, kept>>
  BY DEF cd_up
<1>3. AbsDirs' = AbsDirs /\ AbsFiles' = AbsFiles /\ AbsOpened' = AbsOpened
  BY <1>2, NothingSeen
<1>4. CASE current_dir = root
  BY <1>1, <1>2, <1>3, <1>4
<1>5. CASE current_dir # root
  BY <1>1, <1>3, <1>5, DoesCdUp
<1> QED
  BY <1>4, <1>5

\* Which files are seen to be open after the table has changed and the volume not.
LEMMA TableSeen ==
  ASSUME ShownInv, ShownInv', kept, kept', NEW path, Stands(path), UNCHANGED vol
  PROVE  /\ AbsDirs' = AbsDirs /\ AbsFiles' = AbsFiles /\ 0 \notin FilesOf(vol)
         /\ AbsOpened = PathsOf(path, FilesOf(vol) \cap InUse)
         /\ AbsOpened' = PathsOf(path, FilesOf(vol) \cap InUse')
<1>1. /\ Sound(vol) /\ TreeSound(vol) /\ Pathed(vol, path) /\ vol' = vol
      /\ AbsDirs = SeenDirs(Tree(vol)) /\ AbsDirs' = SeenDirs(Tree(vol'))
      /\ AbsFiles = SeenFiles(Tree(vol)) /\ AbsFiles' = SeenFiles(Tree(vol'))
      /\ AbsOpened = SeenOpen(Tree(vol), InUse) /\ AbsOpened' = SeenOpen(Tree(vol'), InUse')
  BY CommandSees
<1>2. AbsOpened = PathsOf(path, FilesOf(vol) \cap InUse)
  BY <1>1, TreeSeen
<1>3. SeenOpen(Tree(vol), InUse') = PathsOf(path, FilesOf(vol) \cap InUse')
  BY <1>1, TreeSeen
<1>4. 0 \notin FilesOf(vol)
  BY <1>1 DEF TreeSound, Dotted, FilesOf, root
<1> QED
  BY <1>1, <1>2, <1>3, <1>4

\* open.
LEMMA OpenDoes ==
  ASSUME ShownInv, ShownInv', NEW n \in Names, open(n), kept', NEW path, Stands(path)
  PROVE  Abstract!Open(n)
<1> DEFINE i == NodeOf(n, FILE)
           x == Append(current_path, n)
<1>1. kept /\ \A j : j # 0 => (searchInTable(j)' <=> searchInTable(j) \/ j = i)
  BY OpenStands
<1>2. Exists(n, FILE) /\ UNCHANGED vol /\ current_path' = current_path
  BY DEF open, position
<1> HIDE DEF i
<1>3. i \in FilesOf(vol) /\ path[i] = x /\ x \in DOMAIN AbsFiles
  <2>1. /\ i \in FilesOf(vol) /\ path[i] = Append(current_path, n)
        /\ path[i] \in DOMAIN AbsFiles
    BY <1>1, <1>2, FileHere DEF i
  <2> QED
    BY <2>1
<1> HIDE DEF x
<1>4. /\ AbsDirs' = AbsDirs /\ AbsFiles' = AbsFiles /\ 0 \notin FilesOf(vol)
      /\ AbsOpened = PathsOf(path, FilesOf(vol) \cap InUse)
      /\ AbsOpened' = PathsOf(path, FilesOf(vol) \cap InUse')
  BY <1>1, <1>2, TableSeen
<1>5. \A j \in FilesOf(vol) : j \in InUse' <=> j \in InUse \/ j = i
  BY <1>1, <1>4, InUseIs
<1>6. AbsOpened' = AbsOpened \cup {x}
  BY <1>3, <1>4, <1>5 DEF PathsOf
<1> QED
  BY <1>2, <1>3, <1>4, <1>6, DoesOpen DEF x

\* close.
LEMMA CloseDoes ==
  ASSUME ShownInv, ShownInv', NEW n \in Names, close(n), kept', NEW path, Stands(path)
  PROVE  Abstract!Close(n)
<1> DEFINE i == NodeOf(n, FILE)
           x == Append(current_path, n)
<1>1. kept /\ \A j : j # 0 => (searchInTable(j)' <=> searchInTable(j) /\ j # i)
  BY CloseStands
<1>2. Exists(n, FILE) /\ UNCHANGED vol /\ current_path' = current_path
  BY DEF close, position
<1> HIDE DEF i
<1>3. i \in FilesOf(vol) /\ path[i] = x
  BY <1>1, <1>2, FileHere DEF i
<1> HIDE DEF x
<1>4. /\ AbsDirs' = AbsDirs /\ AbsFiles' = AbsFiles /\ 0 \notin FilesOf(vol)
      /\ AbsOpened = PathsOf(path, FilesOf(vol) \cap InUse)
      /\ AbsOpened' = PathsOf(path, FilesOf(vol) \cap InUse')
  BY <1>1, <1>2, TableSeen
<1>5. \A j \in FilesOf(vol) : j \in InUse' <=> j \in InUse /\ j # i
  BY <1>1, <1>4, InUseIs
<1>6. \A j \in FilesOf(vol) : path[j] = x => j = i
  <2>1. TreeSound(vol) /\ Pathed(vol, path)
    BY <1>1, CommandSees
  <2>2. \A j \in FilesOf(vol) : j \in vol.inode_bits /\ Kind(vol, j) = FILE
    BY DEF FilesOf, Kind
  <2> QED
    BY <1>3, <2>1, <2>2, PathsDiffer
<1>7. AbsOpened' = AbsOpened \ {x}
  <2>1. ASSUME NEW p \in AbsOpened' PROVE p \in AbsOpened \ {x}
    BY <1>3, <1>4, <1>5, <1>6, <2>1 DEF PathsOf
  <2>2. ASSUME NEW p \in AbsOpened \ {x} PROVE p \in AbsOpened'
    BY <1>3, <1>4, <1>5, <2>2 DEF PathsOf
  <2> QED
    BY <2>1, <2>2
<1> QED
  BY <1>2, <1>4, <1>7, DoesOpen DEF x

\* A volume with nothing but its root is what FileTree starts with.
LEMMA StartsAsTree == Init => Abstract!Init
<1> SUFFICES ASSUME Init PROVE Abstract!Init
  OBVIOUS
<1> DEFINE path == [i \in {root} |-> <<>>]
<1>1. /\ Stands(path) /\ shown = Tree(vol) /\ vol.inode_bits = {root} /\ Dirs(vol) = {root}
      /\ path[root] = <<>>
  BY InitStands
<1> HIDE DEF path
<1>2. Sound(vol) /\ Pathed(vol, path) /\ FilesOf(vol) = {}
  BY <1>1, NewSound DEF Init, Stands, FilesOf
<1>3. /\ AbsDirs = PathsOf(path, {root}) /\ Maps(AbsFiles, PathsOf(path, {}))
      /\ AbsOpened = PathsOf(path, {} \cap InUse)
  <2>1. /\ SeenDirs(Tree(vol)) = PathsOf(path, Dirs(vol))
        /\ Maps(SeenFiles(Tree(vol)), PathsOf(path, FilesOf(vol)))
        /\ SeenOpen(Tree(vol), InUse) = PathsOf(path, FilesOf(vol) \cap InUse)
    BY <1>2, TreeSeen
  <2> QED
    BY <1>1, <1>2, <2>1, AbsIs
<1>4. AbsDirs = {<<>>} /\ AbsOpened = {}
  BY <1>1, <1>3 DEF PathsOf
<1>5. AbsFiles = <<>>
  <2>1. DOMAIN AbsFiles = {} /\ AbsFiles = [p \in {} |-> AbsFiles[p]]
    BY <1>3 DEF Maps, PathsOf
  <2> HIDE DEF AbsFiles
  <2>2. [p \in {} |-> AbsFiles[p]] = <<>>
    OBVIOUS
  <2> QED
    BY <2>1, <2>2
<1>6. current_path = <<>> /\ kept = TRUE
  BY DEF Init
<1> QED
  BY <1>4, <1>5, <1>6 DEF Abstract!Init, AbsDirs, AbsFiles, AbsOpened

\* What a command does within the contract, FileTree does in one step.
LEMMA CommandDoes ==
  ASSUME ShownInv, ShownInv', kept', NEW path, Stands(path), NEW n \in Names,
         \/ mkdir(n) \/ touch(n) \/ rm(n) \/ rmdir(n) \/ cd_down(n) \/ open(n) \/ close(n)
         \/ \E mode \in Modes : chmod(n, mode)
         \/ \E length \in Lengths, d \in Data : write(n, d, length)
  PROVE  Abstract!Command
<1>1. CASE mkdir(n)
  BY <1>1, CreateDoes DEF mkdir, Abstract!Command
<1>2. CASE touch(n)
  BY <1>2, CreateDoes DEF touch, Abstract!Command
<1>3. CASE rm(n)
  BY <1>3, RmDoes DEF Abstract!Command
<1>4. CASE rmdir(n)
  BY <1>4, RmdirDoes DEF Abstract!Command
<1>5. CASE cd_down(n)
  BY <1>5, CdDoes DEF Abstract!Command
<1>6. CASE open(n)
  BY <1>6, OpenDoes DEF Abstract!Command
<1>7. CASE close(n)
  BY <1>7, CloseDoes DEF Abstract!Command
<1>8. CASE \E mode \in Modes : chmod(n, mode)
  BY <1>8, ChmodDoes DEF Abstract!Command
<1>9. CASE \E length \in Lengths, d \in Data : write(n, d, length)
  BY <1>9, WriteDoes DEF Abstract!Command
<1> QED
  BY <1>1, <1>2, <1>3, <1>4, <1>5, <1>6, <1>7, <1>8, <1>9

\* A step of the commands is a step of FileTree, or none.
LEMMA StepsAsTree == ShownInv /\ ShownInv' /\ [Next]_vars => [Abstract!Next]_(Abstract!tree)
<1> SUFFICES ASSUME ShownInv, ShownInv', [Next]_vars PROVE [Abstract!Next]_(Abstract!tree)
  OBVIOUS
<1>1. UNCHANGED <<AbsDirs, AbsFiles, AbsOpened, current_path, kept>> => UNCHANGED Abstract!tree
  BY DEF Abstract!tree, AbsDirs, AbsFiles, AbsOpened
<1>2. CASE UNCHANGED vars
  <2>1. UNCHANGED <<shown, open_files, current_path, kept>>
    BY <1>2 DEF vars, position
  <2>2. AbsDirs' = AbsDirs /\ AbsFiles' = AbsFiles /\ AbsOpened' = AbsOpened
    BY <2>1, NothingSeen
  <2> QED
    BY <1>1, <2>1, <2>2
<1>3. CASE kept' = FALSE
  BY <1>3 DEF Abstract!Next
<1>4. CASE Next /\ kept' # FALSE
  <2>1. kept \in BOOLEAN /\ kept' \in BOOLEAN
    BY DEF ShownInv, FsInv
  <2>2. kept' = TRUE /\ kept'
    BY <1>4, <2>1
  <2>3. kept
    BY <1>4, KeptBefore
  <2>4. kept = TRUE
    BY <2>1, <2>3
  <2>5. PICK path : Stands(path)
    BY <2>3 DEF ShownInv
  <2>6. CASE cd_up
    <3>1. CASE Abstract!CdUp
      BY <2>2, <2>4, <3>1 DEF Abstract!Next, Abstract!Command
    <3> QED
      BY <1>1, <2>5, <2>6, <3>1, CdUpDoes
  <2>7. ASSUME NEW n \in Names,
               \/ mkdir(n) \/ touch(n) \/ rm(n) \/ rmdir(n) \/ cd_down(n) \/ open(n) \/ close(n)
               \/ \E mode \in Modes : chmod(n, mode)
               \/ \E length \in Lengths, d \in Data : write(n, d, length)
        PROVE  [Abstract!Next]_(Abstract!tree)
    <3>1. Abstract!Command
      BY <2>2, <2>5, <2>7, CommandDoes
    <3> QED
      BY <2>2, <2>4, <3>1 DEF Abstract!Next
  <2>8. ASSUME NEW n \in Names,
               \/ \E t \in {FILE, DIR} : create_hangs(n, t)
               \/ \E length \in Lengths : write_ends(n, length)
        PROVE  FALSE
    BY <2>2, <2>8 DEF create_hangs, write_ends, Ends
  <2> QED
    BY <1>4, <2>6, <2>7, <2>8 DEF Next
<1> QED
  BY <1>2, <1>3, <1>4

\* Until the first call outside the contract (the first cd whose path does not fit
\* current_path is one), mkdir, touch, rm, rmdir, cd, open, close, chmod and write do to
\* the tree that cd and read show exactly what FileTree says, or nothing that shows: no
\* command touches a directory, a file, a mode, a text or an open file it was not asked
\* to.
THEOREM TreeIsImplemented == Spec => ImplementsTree
<1>1. Init => Abstract!Init
  BY StartsAsTree
<1>2. ShownInv /\ ShownInv' /\ [Next]_vars => [Abstract!Next]_(Abstract!tree)
  BY StepsAsTree
<1> QED
  BY <1>1, <1>2, ShownHolds, PTL DEF Spec, ImplementsTree, Abstract!Spec
=============================================================================
