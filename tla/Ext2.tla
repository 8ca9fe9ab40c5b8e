---------------------------------- MODULE Ext2 ----------------------------------
(***************************************************************************)
(* The commands of the file system of Lab 3 (Ext2.cpp), one action per     *)
(* command with everything it calls.  ls, ll, read and the other commands  *)
(* that only print change no state; what read prints is ReadText.          *)
(*                                                                         *)
(* The buffers a command loads are not state: every command loads them     *)
(* before it uses them.  Where it uses one that a callee has reloaded, the *)
(* action uses what the callee left.                                       *)
(*                                                                         *)
(* Some calls lead the code out of its depth: it hangs, crashes, loses an  *)
(* entry, frees a wrong block, writes behind the end of current_path.      *)
(* `kept' is TRUE as long as there was none;                               *)
(* the conjunct kept' of each action is the contract a caller must keep,   *)
(* and no command follows a breach (a bound: what a corrupted volume       *)
(* becomes is not explored).                                               *)
(***************************************************************************)
EXTENDS Ext2Volume

CONSTANTS
  FOPEN_TABLE_MAX,
  PATH_ROOM,        \* characters current_path has room for behind the prompt
  NameLength,       \* characters of a name
  Modes,            \* what chmod is given
  Data, Lengths,    \* texts: a letter, and a number of cells
  MaxCommands        \* BOUND: commands that change something, cd apart

ASSUME CommandAssumption ==
  /\ FOPEN_TABLE_MAX \in Nat /\ FOPEN_TABLE_MAX > 1
  /\ PATH_ROOM \in Nat /\ NameLength \in [Names -> Nat \ {0}]
  /\ Lengths \subseteq Nat \ {0}
  /\ MaxCommands \in Nat /\ Modes \subseteq SUBSET {"r", "w", "x"}

VARIABLES
  vol,
  file_open_table, file_open_name_set,
  current_dir, current_path, current_dirlen,
  kept,             \* history: every call so far was within its contract
  commands,         \* history: commands that changed something, cd apart
  shown             \* history: the tree cd and read show, while the contract is kept

open_files == <<file_open_table, file_open_name_set>>
position == <<current_dir, current_path, current_dirlen>>
vars == <<vol, open_files, position, kept, commands, shown>>

TableSlots == 0 .. FOPEN_TABLE_MAX - 1
MAX_DIR_SIZE == 8 * DIR_ENTRY_NUM_PER_BLOCK

Init ==
  /\ vol = NewVolume
  /\ file_open_table = [k \in TableSlots |-> 0] /\ file_open_name_set = {}
  /\ current_dir = root /\ current_path = <<>> /\ current_dirlen = 0
  /\ kept = TRUE /\ commands = 0 /\ shown = Tree(vol)

Here == vol.inode[current_dir]
Exists(n, t) == Found(vol, current_dir, n, t)
Place(n, t) == searchFile(vol, current_dir, n, t)
NodeOf(n, t) == Node(vol, current_dir, n, t)

\* The search leaves the loop with f_idx one past the slot it found: the last slot
\* counts as not found.
searchInTable(i) == \E k \in TableSlots \ {FOPEN_TABLE_MAX - 1} : file_open_table[k] = i

\* The program hangs or crashes.  Nobody sees the volume again: the next start
\* truncates the file it is in.
Ends == kept' = FALSE /\ UNCHANGED <<vol, open_files, position>> /\ shown' = {}

MayRun == kept /\ commands < MaxCommands /\ commands' = commands + 1
Shows(tree) == shown' = IF kept' THEN tree ELSE {}

\* Bits the two scans can still find.
BlocksLeft(bits) == Cardinality(Reachable(bits))
InodesLeft == Cardinality(Reachable(vol.inode_bits))
-----------------------------------------------------------------------------

\* An entry finds its slot, and no text is taken for entries in a new block.
EntryFits(t) ==
  IF BlocksAreFull(vol, current_dir)
  THEN /\ Len(Here.i_block) < 8
       /\ t = FILE => \A s \in Slots \ {0, 1} : vol.block[NewBlock(vol)][s].inode = 0
  ELSE Room(vol, current_dir) # {}
BlocksTaken(t) ==
  (IF BlocksAreFull(vol, current_dir) THEN 1 ELSE 0) + (IF t = DIR THEN 1 ELSE 0)

Create(n, t) ==
  /\ MayRun /\ ~Exists(n, t)
  /\ InodesLeft >= 1 /\ BlocksLeft(vol.block_bits) >= BlocksTaken(t)
  /\ vol' = preProcess(AddEntry(vol, current_dir, n, t), NewInode(vol), current_dir,
                       n, t, current_dirlen)
  /\ kept' = EntryFits(t)
  /\ Shows(Tree(vol'))
  /\ UNCHANGED <<open_files, position>>

mkdir(n) == Here.i_size # MAX_DIR_SIZE /\ Create(n, DIR)
touch(n) == Create(n, FILE)

\* The scan for a free bit has none to find and does not end.
create_hangs(n, t) ==
  /\ MayRun /\ ~Exists(n, t)
  /\ InodesLeft = 0 \/ BlocksLeft(vol.block_bits) < BlocksTaken(t)
  /\ Ends

\* Which blocks of a removed file rm frees: if the file is open, ext2_close leaves the
\* inode of directory d in the buffer.
Held(d, i) == IF searchInTable(i) THEN vol.inode[d].i_block ELSE vol.inode[i].i_block

ClosedSlot(i) == LeastOf({k \in TableSlots : file_open_table[k] = i})
ClosedByInode(S, N) ==  \* mutant: the names stay in the set
  /\ file_open_table' = [k \in TableSlots |->
       IF \E i \in S : k = ClosedSlot(i) THEN 0 ELSE file_open_table[k]]
  /\ UNCHANGED file_open_name_set
\* The files with inodes S, named N, are closed.
Closed(S, N) ==
  /\ file_open_table' = [k \in TableSlots |->
       IF \E i \in S : k = ClosedSlot(i) THEN 0 ELSE file_open_table[k]]
  /\ file_open_name_set' = file_open_name_set \ N

\* Every block of directory d of v but the first has an entry besides the one at p.
\* (A block without one is freed, and stays in the directory.)
BlocksInUse(v, d, p) ==
  \A k \in 2 .. Len(v.inode[d].i_block) :
    \E s \in Slots : <<k, s>> # p /\ BlockAt(v, d, k)[s].inode # 0

rm(n) ==
  /\ MayRun /\ Exists(n, FILE)
  /\ LET i == NodeOf(n, FILE)
         open == searchInTable(i)
     IN /\ vol' = RemoveFile(vol, current_dir, Place(n, FILE), Held(current_dir, i))
        /\ IF open THEN Closed({i}, {n}) ELSE UNCHANGED open_files
        /\ kept' = (~open /\ BlocksInUse(vol, current_dir, Place(n, FILE)))
  /\ Shows(Tree(vol'))
  /\ UNCHANGED position

rmdir_empty(n) ==
  /\ MayRun /\ Exists(n, DIR)
  /\ LET target == vol.inode[NodeOf(n, DIR)]
     IN /\ target.i_size = 2
        /\ vol' = RemoveEmpty(vol, current_dir, Place(n, DIR))
        /\ kept' = (Len(target.i_block) = 1)
  /\ Shows(Tree(vol'))
  /\ UNCHANGED <<open_files, position>>

\* In the root the loop over the blocks starts at the third: nothing is removed.
rmdir_in_root(n) ==
  /\ MayRun /\ current_dir = root /\ Exists(n, DIR)
  /\ vol.inode[NodeOf(n, DIR)].i_size # 2 /\ Len(vol.inode[NodeOf(n, DIR)].i_block) <= 2
  /\ kept' = FALSE /\ Shows(shown)
  /\ UNCHANGED <<vol, open_files, position>>

\* Elsewhere what the directory holds is removed first, slot by slot.  Modelled for
\* a directory of one block in one of one block, with empty subdirectories.
Children(v, i, t) ==
  {p \in Places(v, i) : LET c == CellAt(v, i, p) IN
     c.type = t /\ c.inode # 0 /\ c.name \in Names}
RemoveChild(v, i, p) ==
  IF p \in Children(v, i, FILE) THEN RemoveFile(v, i, p, Held(i, CellAt(v, i, p).inode))
  ELSE IF p \in Children(v, i, DIR) THEN RemoveEmpty(v, i, p) ELSE v

rmdir_elsewhere(n) ==
  /\ MayRun /\ current_dir # root /\ Exists(n, DIR) /\ Len(Here.i_block) = 1
  /\ LET i == NodeOf(n, DIR)
         emptied == FoldLeft(LAMBDA v, s : RemoveChild(v, i, <<1, s - 1>>), vol,
                             [s \in 1 .. DIR_ENTRY_NUM_PER_BLOCK |-> s])
         opened == {p \in Children(vol, i, FILE) : searchInTable(CellAt(vol, i, p).inode)}
     IN /\ vol.inode[i].i_size # 2 /\ Len(vol.inode[i].i_block) = 1
        /\ \A p \in Children(vol, i, DIR) : vol.inode[CellAt(vol, i, p).inode].i_size = 2
        /\ vol' = RemoveEmpty(emptied, current_dir, Place(n, DIR))
        /\ Closed({CellAt(vol, i, p).inode : p \in opened},
                  {CellAt(vol, i, p).name : p \in opened})
        /\ current_path' = IF Children(vol, i, DIR) = {} THEN current_path ELSE <<n>>
        /\ kept' = (opened = {} /\ Children(vol, i, DIR) = {})
  /\ Shows(Tree(vol'))
  /\ UNCHANGED <<current_dir, current_dirlen>>

rmdir(n) == rmdir_empty(n) \/ rmdir_in_root(n) \/ rmdir_elsewhere(n)
-----------------------------------------------------------------------------

PathLength(path) == FoldLeft(LAMBDA length, n : length + NameLength[n] + 1, 0, path)

\* The name and a "/" are appended to current_path, whether it has room or not.
cd_down(n) ==
  /\ kept /\ Exists(n, DIR)
  /\ current_dir' = NodeOf(n, DIR)
  /\ current_path' = Append(current_path, n) /\ current_dirlen' = 1
  /\ kept' = (PathLength(current_path') <= PATH_ROOM)
  /\ Shows(shown)
  /\ UNCHANGED <<vol, open_files, commands>>

AtDotDot(p) == CellAt(vol, current_dir, p)  \* mutant: the entry .. itself is asked
BeforeDotDot(p) == CellAt(vol, current_dir, <<p[1], p[2] - 1>>)

\* The path loses its last name unless the entry before .. says this is the root.
cd_up ==
  /\ kept
  /\ LET p == Place("..", DIR)
         dot == BeforeDotDot(p)
     IN /\ current_dir' = NodeOf("..", DIR)
        /\ IF dot.name_len # 0 /\ dot.inode # 0
             THEN /\ current_path' = Front(current_path)
                  /\ current_dirlen' = CellAt(vol, current_dir, p).name_len
             ELSE UNCHANGED <<current_path, current_dirlen>>
  /\ UNCHANGED <<vol, open_files, kept, commands, shown>>

\* A free slot is taken.  The contract: not the last, and no other open file's name.
open(n) ==
  /\ MayRun /\ Exists(n, FILE) /\ ~searchInTable(NodeOf(n, FILE))
  /\ \E k \in TableSlots :
       /\ k = LeastOf({j \in TableSlots : file_open_table[j] = 0})
       /\ file_open_table' = [file_open_table EXCEPT ![k] = NodeOf(n, FILE)]
       /\ kept' = (k # FOPEN_TABLE_MAX - 1 /\ n \notin file_open_name_set)
  /\ file_open_name_set' = file_open_name_set \cup {n}
  /\ Shows(shown)
  /\ UNCHANGED <<vol, position>>

\* Erasing a name that is not in the set is undefined.
close(n) ==
  /\ MayRun /\ Exists(n, FILE) /\ searchInTable(NodeOf(n, FILE))
  /\ Closed({NodeOf(n, FILE)}, {n})
  /\ kept' = (n \in file_open_name_set)
  /\ Shows(shown)
  /\ UNCHANGED <<vol, position>>

chmod(n, mode) ==
  /\ MayRun /\ Exists(n, FILE)
  /\ vol' = [vol EXCEPT !.inode[NodeOf(n, FILE)].i_mode = mode]
  /\ UNCHANGED <<open_files, position, kept>>
  /\ Shows(Tree(vol'))

\* The permission asked for is to read.
Writes(n) ==
  /\ MayRun /\ Exists(n, FILE) /\ searchInTable(NodeOf(n, FILE))
  /\ "r" \in vol.inode[NodeOf(n, FILE)].i_mode
BlocksForWrite(n) ==
  BlocksLeft(vol.block_bits \ ToSet(vol.inode[NodeOf(n, FILE)].i_block))

write(n, d, length) ==
  /\ Writes(n)
  /\ BlocksFor(length) <= N_DIRECT /\ BlocksFor(length) <= BlocksForWrite(n)
  /\ vol' = WriteText(vol, NodeOf(n, FILE), d, length)
  /\ kept' = ("w" \in vol.inode[NodeOf(n, FILE)].i_mode)
  /\ Shows(Tree(vol'))
  /\ UNCHANGED <<open_files, position>>

\* The loop over the indirect blocks copies a negative number of bytes.
write_ends(n, length) ==
  /\ Writes(n)
  /\ BlocksFor(length) > N_DIRECT \/ BlocksFor(length) > BlocksForWrite(n)
  /\ Ends

Next ==
  \/ cd_up
  \/ \E n \in Names :
       \/ mkdir(n) \/ touch(n) \/ rm(n) \/ rmdir(n) \/ cd_down(n) \/ open(n) \/ close(n)
       \/ \E t \in {FILE, DIR} : create_hangs(n, t)
       \/ \E mode \in Modes : chmod(n, mode)
       \/ \E length \in Lengths : write_ends(n, length) \/ \E d \in Data : write(n, d, length)

Spec == Init /\ [][Next]_vars
-----------------------------------------------------------------------------

Cells == [inode : 0..INODE_NUM, type : {0, FILE, DIR, TEXT, TEXT_END},
          name : Names \cup Data \cup {"", ".", ".."}, name_len : {0, 1}]
VolumeOK ==
  /\ vol.block_bits \subseteq Blocks /\ vol.inode_bits \subseteq Inodes
  /\ vol.free_blocks_count \in Nat /\ vol.free_inodes_count \in Nat
  /\ vol.last_alloc_block \in Slots /\ vol.last_alloc_inode \in Slots
  /\ \A i \in Inodes :
       /\ vol.inode[i].i_mode \subseteq {"r", "w", "x"} /\ vol.inode[i].i_size \in 0..MAX_DIR_SIZE
       /\ vol.inode[i].i_block \in Seq(Blocks) /\ Len(vol.inode[i].i_block) <= 8
  /\ vol.block \in [Blocks -> [Slots -> Cells]]
\* Of the volume that a call outside the contract leaves nothing is said.
TypeOK ==
  /\ kept => VolumeOK
  /\ file_open_table \in [TableSlots -> Inodes] /\ file_open_name_set \subseteq Names
  /\ current_dir \in Inodes /\ current_path \in Seq(Names) /\ current_dirlen \in {0, 1}
  /\ kept \in BOOLEAN /\ commands \in 0..MaxCommands

BlocksOf(i) == vol.inode[i].i_block
\* Every marked block belongs to one live inode, once; no live inode has an unmarked
\* one; the free counters are what the bitmaps say.
BlocksOwned ==
  kept =>
    /\ vol.block_bits = UNION {ToSet(BlocksOf(i)) : i \in vol.inode_bits}
    /\ \A i, j \in vol.inode_bits :
         \A k \in DOMAIN BlocksOf(i), l \in DOMAIN BlocksOf(j) :
           BlocksOf(i)[k] = BlocksOf(j)[l] => i = j /\ k = l
    /\ vol.free_blocks_count = DATA_BLOCK_NUM - Cardinality(vol.block_bits)
    /\ vol.free_inodes_count = INODE_NUM - Cardinality(vol.inode_bits)

Directories == {q \in shown : q.type = DIR}
Files == {q \in shown : q.type = FILE}
\* Every live inode but the root is named by one entry of one directory that cd
\* reaches; .. leads to the directory that names it; the size of a directory is
\* the number of its entries, and no two have the same name and type.
Named(d) ==
  {p \in Places(vol, d) : CellAt(vol, d, p).name \in Names /\ CellAt(vol, d, p).inode # 0}
EntriesAgree ==
  kept =>
    /\ vol.inode_bits = {q.inode : q \in shown}
    /\ Cardinality(vol.inode_bits) = Cardinality(shown)
    /\ \A q \in Directories :
         /\ Found(vol, q.inode, "..", DIR) /\ Node(vol, q.inode, "..", DIR) = q.parent
         /\ vol.inode[q.inode].i_size = 2 + Cardinality(Named(q.inode))
         /\ Cardinality(Named(q.inode)) =
              Cardinality({f \in shown : f.path # <<>> /\ f.parent = q.inode})

\* The open table holds live files, each once, none in the slot searchInTable
\* misses, and the set of names is the names of the files in it.
OpenTableSound ==
  kept =>
    LET inTable == {k \in TableSlots : file_open_table[k] # 0}
        named(k) == {f \in Files : f.inode = file_open_table[k]}
    IN /\ \A k \in inTable : k < FOPEN_TABLE_MAX - 1 /\ named(k) # {}
       /\ \A j, k \in inTable : file_open_table[j] = file_open_table[k] => j = k
       /\ file_open_name_set = {Last(f.path) : f \in UNION {named(k) : k \in inTable}}

\* What write may put into a file: a length of one letter.
Texts == {[k \in 1..length |-> d] : d \in Data, length \in Lengths}

\* The commands do to the tree that cd and read show what FileTree says, as long as
\* the contract is kept.
Abstract == INSTANCE FileTree WITH
  Texts <- Texts,
  dirs <- {q.path : q \in Directories},
  files <- [p \in {f.path : f \in Files} |->
             LET f == CHOOSE g \in Files : g.path = p IN [mode |-> f.mode, text |-> f.text]],
  cwd <- current_path,
  opened <- {f.path : f \in {g \in Files : searchInTable(g.inode)}}
ImplementsTree == Abstract!Spec

\* After rm the current directory still holds its blocks: the file is removed, not
\* the directory it was in.
RmLeavesTheDirectory ==
  [][\A n \in Names : rm(n) =>
       ToSet(vol'.inode[current_dir].i_block) \subseteq vol'.block_bits]_vars
=============================================================================
