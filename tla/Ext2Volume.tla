------------------------------- MODULE Ext2Volume -------------------------------
(***************************************************************************)
(* The volume of the file system of Lab 3 (Ext2.cpp): bitmaps, counters,   *)
(* inodes and data blocks, and the helpers that change them.  A volume is  *)
(* a record; a helper takes one and returns the volume it leaves.          *)
(*                                                                         *)
(* A data block is DIR_ENTRY_NUM_PER_BLOCK cells of 16 bytes, each a       *)
(* directory entry or a piece of text: blocks keep what they held when     *)
(* they were freed, and a directory can be made in one that held text.     *)
(***************************************************************************)
EXTENDS Integers, Sequences, FiniteSets, SequencesExt

CONSTANTS
  DIR_ENTRY_NUM_PER_BLOCK,  \* also the modulus of the scan for a free bit, in bytes
  BYTE_BITS,                \* bits in a byte of a bitmap
  DATA_BLOCK_NUM, INODE_NUM,
  N_DIRECT,                 \* direct block pointers used for a file's text
  Names, DefaultMode        \* names, and the mode their suffix gives a new file

ASSUME Ext2Assumption ==
  /\ DIR_ENTRY_NUM_PER_BLOCK \in Nat /\ DIR_ENTRY_NUM_PER_BLOCK > 2
  /\ BYTE_BITS \in Nat \ {0} /\ N_DIRECT \in 0 .. 8
  /\ DATA_BLOCK_NUM \in Nat /\ DATA_BLOCK_NUM > DIR_ENTRY_NUM_PER_BLOCK * BYTE_BITS
  /\ INODE_NUM \in Nat /\ INODE_NUM > DIR_ENTRY_NUM_PER_BLOCK * BYTE_BITS
  /\ {"", ".", ".."} \cap Names = {} /\ DefaultMode \in [Names -> SUBSET {"r", "w", "x"}]

Blocks == 0 .. DATA_BLOCK_NUM - 1
Inodes == 0 .. INODE_NUM - 1
Slots == 0 .. DIR_ENTRY_NUM_PER_BLOCK - 1
root == 0

\* file_type of a cell.  The bytes of a text are no file types; the text's last cell,
\* with its '\0', is told from the others.
FILE == 1
DIR == 2
TEXT == 3
TEXT_END == 4

\* name_len is 0 or 1: nothing but being 0 is asked of it.
Entry(i, t, n, len) == [inode |-> i, type |-> t, name |-> n, name_len |-> len]
NoEntry == Entry(0, 0, "", 0)
TextCell(d, t) == Entry(INODE_NUM, t, d, 1)  \* an inode number that is no inode's

\* i_block as far as i_blocks goes; i_size in cells.  The times are left out.
Inode(mode, size, block) == [i_mode |-> mode, i_size |-> size, i_block |-> block]
Blank == Inode({}, 0, <<>>)
DIR_RW_MODE == {"r", "w"}
-----------------------------------------------------------------------------
(* Allocation *)

ByteOf(b) == b \div BYTE_BITS
Bits(k) == {b \in 0 .. DIR_ENTRY_NUM_PER_BLOCK * BYTE_BITS - 1 : ByteOf(b) = k}
ByteFull(used, k) == Bits(k) \subseteq used

LeastOf(S) == CHOOSE x \in S : \A y \in S : x <= y
\* The scan starts at the byte of the last allocation and wraps after
\* DIR_ENTRY_NUM_PER_BLOCK bytes, however long the bitmap is.
NextFree(used, byte) ==
  LET away == LeastOf({d \in Slots : ~ByteFull(used, (byte + d) % DIR_ENTRY_NUM_PER_BLOCK)})
  IN LeastOf(Bits((byte + away) % DIR_ENTRY_NUM_PER_BLOCK) \ used)

\* Bits the scan can reach.  When none is left it does not end.
Reachable(used) == (UNION {Bits(k) : k \in Slots}) \ used

NewBlock(v) == NextFree(v.block_bits, v.last_alloc_block)
allocDataBlock(v) ==
  [v EXCEPT !.block_bits = @ \cup {NewBlock(v)}, !.free_blocks_count = @ - 1,
            !.last_alloc_block = ByteOf(NewBlock(v))]

NewInode(v) == NextFree(v.inode_bits, v.last_alloc_inode)
allocInode(v) ==
  [v EXCEPT !.inode_bits = @ \cup {NewInode(v)}, !.free_inodes_count = @ - 1,
            !.last_alloc_inode = ByteOf(NewInode(v))]

\* Freeing flips the bit, whatever it was.
Flip(bits, b) == IF b \in bits THEN bits \ {b} ELSE bits \cup {b}
\* A free block keeps its bytes.  All that is seen of them again, when a directory is
\* made in it, is whether a cell but the first has an inode number and a name length.
Remains(cells) ==
  [s \in Slots |-> IF s = 0 THEN NoEntry
     ELSE Entry(IF cells[s].inode = 0 THEN 0 ELSE INODE_NUM, 0, "", cells[s].name_len)]
freeDataBlock(v, b) ==
  [v EXCEPT !.block_bits = Flip(@, b), !.free_blocks_count = @ + 1,
            !.block[b] = Remains(@)]
\* What a free inode held is not read again.
freeInode(v, i) ==
  [v EXCEPT !.inode_bits = Flip(@, i), !.free_inodes_count = @ + 1, !.inode[i] = Blank]

freeAllButOne(v, blocks) ==  \* mutant: the loop ends one block early
  FoldLeft(freeDataBlock, v, SubSeq(blocks, 1, Len(blocks) - 1))
freeDataBlocks(v, blocks) == FoldLeft(freeDataBlock, v, blocks)
-----------------------------------------------------------------------------
(* Directories.  A place is a block of a directory, from 1, and a slot. *)

Places(v, d) == (1 .. Len(v.inode[d].i_block)) \X Slots
CellAt(v, d, p) == v.block[v.inode[d].i_block[p[1]]][p[2]]
First(P) ==
  CHOOSE p \in P : \A q \in P : p[1] < q[1] \/ (p[1] = q[1] /\ p[2] <= q[2])

\* The places whose type and name match; an entry's inode is not looked at.
Matches(v, d, n, t) ==
  {p \in Places(v, d) : CellAt(v, d, p).type = t /\ CellAt(v, d, p).name = n}
Found(v, d, n, t) == Matches(v, d, n, t) # {}
searchFile(v, d, n, t) == First(Matches(v, d, n, t))
Node(v, d, n, t) == CellAt(v, d, searchFile(v, d, n, t)).inode

SetCell(v, d, p, cell) ==
  [v EXCEPT !.block[v.inode[d].i_block[p[1]]][p[2]] = cell]

\* Slots 0 and 1 are never searched for room: the . and .. of the root have inode 0.
SearchedFromZero == 0  \* mutant: from the first slot on
SearchedFrom == 2
Room(v, d) ==
  {p \in Places(v, d) : p[2] >= SearchedFrom /\ CellAt(v, d, p).inode = 0}
BlocksAreFull(v, d) ==
  v.inode[d].i_size = Len(v.inode[d].i_block) * DIR_ENTRY_NUM_PER_BLOCK

\* mkdir clears the entries of a new block; touch only the one after the first.
Cleared(t) == IF t = DIR THEN Slots \ {0} ELSE {1}

\* mkdir and touch up to preProcess: an entry for inode NewInode(v) in directory d.
\* With neither a slot nor full blocks it is written past the buffer, and lost.
AddEntry(v, d, n, t) ==
  LET entry == Entry(NewInode(v), t, n, 1)
      b == NewBlock(v)
      w == IF BlocksAreFull(v, d)
             THEN [allocInode(allocDataBlock(v)) EXCEPT
                     !.inode[d].i_block = Append(@, b),
                     !.block[b] = [s \in Slots |->
                       IF s = 0 THEN entry
                       ELSE IF s \in Cleared(t) THEN [@[s] EXCEPT !.inode = 0] ELSE @[s]]]
           ELSE IF Room(v, d) # {} THEN SetCell(allocInode(v), d, First(Room(v, d)), entry)
           ELSE allocInode(v)
  IN [w EXCEPT !.inode[d].i_size = @ + 1]

\* The new inode i in directory d.  A directory's block keeps all but the inode
\* numbers of what it held.
preProcess(v, i, d, n, t, dirlen) ==
  IF t = FILE THEN [v EXCEPT !.inode[i] = Inode(DefaultMode[n], 0, <<>>)]
  ELSE [allocDataBlock(v) EXCEPT
          !.inode[i] = Inode(DIR_RW_MODE, 2, <<NewBlock(v)>>),
          !.block[NewBlock(v)] = [s \in Slots |->
             CASE s = 0 -> Entry(i, DIR, ".", 1)
               [] s = 1 -> Entry(d, DIR, "..", dirlen)
               [] OTHER -> [@[s] EXCEPT !.inode = 0]]]

DropEntryTwice(v, d, p) ==  \* mutant: the size is counted down once too often
  [SetCell(v, d, p, NoEntry) EXCEPT !.inode[d].i_size = @ - 2]
\* The entry at p is zeroed; size is counted down.
DropEntry(v, d, p) == [SetCell(v, d, p, NoEntry) EXCEPT !.inode[d].i_size = @ - 1]

BlockAt(v, d, k) == v.block[v.inode[d].i_block[k]]
\* rm: a block other than the first that has no inodes is freed and those behind it
\* move up, but i_blocks stays as it is.
rmFreesBlock(v, d, k) ==
  LET old == v.inode[d].i_block
  IN IF k = 1 \/ \E s \in Slots : BlockAt(v, d, k)[s].inode # 0 THEN v
     ELSE [freeDataBlock(v, old[k]) EXCEPT !.inode[d].i_block =
             [j \in 1 .. Len(old) |-> IF k <= j /\ j < Len(old) THEN old[j + 1] ELSE old[j]]]
\* rmdir: the same for any block without inodes and names, but i_blocks is counted
\* down first, so that the last block does not move.
rmdirFreesBlock(v, d, k) ==
  LET old == v.inode[d].i_block
      left == Len(old) - 1
  IN IF k > Len(old) \/ \E s \in Slots : BlockAt(v, d, k)[s].inode # 0
                                         \/ BlockAt(v, d, k)[s].name_len # 0 THEN v
     ELSE [freeDataBlock(v, old[k]) EXCEPT !.inode[d].i_block =
             [j \in 1 .. left |-> IF k <= j /\ j < left THEN old[j + 1] ELSE old[j]]]
EachBlock(v, d) == [k \in 1 .. Len(v.inode[d].i_block) |-> k]

\* rm of the file with entry p in d; `held' are the blocks of the inode in the buffer.
RemoveFile(v, d, p, held) ==
  LET w == DropEntry(freeInode(freeDataBlocks(v, held), CellAt(v, d, p).inode), d, p)
  IN FoldLeft(LAMBDA u, k : rmFreesBlock(u, d, k), w, EachBlock(w, d))

\* rmdir of the directory with entry p in d, which holds . and .. only.
RemoveEmpty(v, d, p) ==
  LET i == CellAt(v, d, p).inode
      w == DropEntry(freeInode(freeDataBlock(v, v.inode[i].i_block[1]), i), d, p)
  IN FoldLeft(LAMBDA u, k : rmdirFreesBlock(u, d, k), w, EachBlock(w, d))
-----------------------------------------------------------------------------
(* Text *)

BlocksFor(length) ==
  (length + DIR_ENTRY_NUM_PER_BLOCK - 1) \div DIR_ENTRY_NUM_PER_BLOCK

\* n more blocks for the text of inode i.
Grow(v, i, n) ==
  FoldLeft(LAMBDA u, k : [allocDataBlock(u) EXCEPT !.inode[i].i_block = Append(@, NewBlock(u))],
           v, [k \in 1 .. n |-> k])

\* A text of `length' cells of d replaces that of file i, in at most N_DIRECT blocks.
\* Cells behind its end keep what they held.
WriteText(v, i, d, length) ==
  LET w == Grow([freeDataBlocks(v, v.inode[i].i_block) EXCEPT !.inode[i].i_block = <<>>],
                i, BlocksFor(length))
      at == w.inode[i].i_block
      Number(k, s) == (k - 1) * DIR_ENTRY_NUM_PER_BLOCK + s + 1
      Written(b, s) ==
        LET c == Number(CHOOSE k \in DOMAIN at : at[k] = b, s)
        IN IF c < length THEN TextCell(d, TEXT)
           ELSE IF c = length THEN TextCell(d, TEXT_END) ELSE w.block[b][s]
  IN [w EXCEPT !.block = [b \in Blocks |->
        IF b \in {at[k] : k \in DOMAIN at} THEN [s \in Slots |-> Written(b, s)] ELSE @[b]]]

\* What read prints of a file: of each block the cells up to the end of the text.
BlockText(cells) ==
  LET ends == {s \in Slots : cells[s].type = TEXT_END} \cup {DIR_ENTRY_NUM_PER_BLOCK - 1}
  IN [k \in 1 .. LeastOf(ends) + 1 |-> cells[k - 1].name]
ReadText(v, i) == FlattenSeq([k \in 1 .. Len(v.inode[i].i_block) |-> BlockText(BlockAt(v, i, k))])
-----------------------------------------------------------------------------
(* The tree that cd and read show, from the root down *)

Shown(v, q, n, t) ==
  LET i == Node(v, q.inode, n, t)
  IN [path |-> Append(q.path, n), inode |-> i, type |-> t, parent |-> q.inode,
      mode |-> v.inode[i].i_mode, text |-> IF t = FILE THEN ReadText(v, i) ELSE <<>>]
Contents(v, q) ==
  {Shown(v, q, e[1], e[2]) :
     e \in {f \in Names \X {FILE, DIR} : q.type = DIR /\ Found(v, q.inode, f[1], f[2])}}
Tree(v) ==
  LET Top == [path |-> <<>>, inode |-> root, type |-> DIR, parent |-> root,
              mode |-> v.inode[root].i_mode, text |-> <<>>]
      Deep[k \in Inodes] ==
        IF k = 0 THEN [all |-> {Top}, last |-> {Top}]
        ELSE LET up == Deep[k - 1]
                 next == UNION {Contents(v, q) : q \in up.last}
             IN IF up.last = {} THEN up ELSE [all |-> up.all \cup next, last |-> next]
  IN Deep[INODE_NUM - 1].all
-----------------------------------------------------------------------------

\* The disk after init_fs, with the root directory made by the same allocators.
NewVolume ==
  LET zero == [block_bits |-> {}, free_blocks_count |-> DATA_BLOCK_NUM,
               last_alloc_block |-> 0,
               inode_bits |-> {}, free_inodes_count |-> INODE_NUM, last_alloc_inode |-> 0,
               inode |-> [i \in Inodes |-> Blank],
               block |-> [b \in Blocks |-> [s \in Slots |-> NoEntry]]]
  IN [allocInode(allocDataBlock(zero)) EXCEPT
        !.inode[root] = Inode(DIR_RW_MODE, 2, <<NewBlock(zero)>>),
        !.block[root] = [s \in Slots |->
           CASE s = 0 -> Entry(root, DIR, ".", 1)
             [] s = 1 -> Entry(root, DIR, "..", 1)
             [] OTHER -> NoEntry]]
=============================================================================
