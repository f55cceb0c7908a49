-------------------------------- MODULE Ext2 --------------------------------
(***************************************************************************)
(* ssu_ext2, a reader of ext2 images: it checks the superblock and the     *)
(* group descriptors, then answers `tree' and `print' at a prompt.  The    *)
(* image is arbitrary: its directories may have cycles, its pointers holes *)
(* or values outside the disk.  Lengths count 4-byte words.  An image is   *)
(*   super   the fields of the superblock, and `size', blocks of the file  *)
(*   tables  the inode table of each group, as its descriptor says         *)
(*   ino, ptr, dir, data   a block read as inodes, pointers, directory     *)
(*           records or bytes; a block without one reads as zeros          *)
(* A line is a sequence of lexemes: text, " ", a quote, "\\" or "/".       *)
(***************************************************************************)
EXTENDS Integers, Sequences, FiniteSets, FiniteSetsExt, SequencesExt

CONSTANTS NDIR,           \* direct blocks of an inode, EXT2_NDIR_BLOCKS
          BSIZE,          \* words in a block
          InodesPerBlock, DescsPerBlock,
          UINT,           \* values of a 32-bit field
          NameOrder,      \* names in the order of strcmp
          MaxTokens, CommandMax,
          Images, Lines   \* bound: images, and lines typed at the prompt

VARIABLES ex    \* phase, image, fs, line, tokens, and what the running command keeps

ROOT == 2
PerBlock == BSIZE         \* pointers in a block
Newline == 10
MaxTreeDepth == 4096
ZeroInode == [mode |-> "?", low |-> 0, high |-> 0, blocks |-> [i \in 0..(NDIR + 2) |-> 0]]
Idle == [start |-> 0, rec |-> FALSE, limit |-> 0, stack |-> <<>>, visited |-> {}, dirs |-> 0, files |-> 0,
         rows |-> <<>>, logical |-> 0, lines |-> 0, out |-> <<>>, msg |-> "none"]

Init == \E img \in Images :
    ex = [phase |-> "open", img |-> img, fs |-> <<>>, line |-> <<>>, toks |-> <<>>, cmd |-> Idle]

-----------------------------------------------------------------------------
(* The superblock, the descriptors and inodes                              *)

ceil_div(v, d) == v \div d + (IF v % d # 0 THEN 1 ELSE 0)
MaxOf(a, b) == IF a > b THEN a ELSE b

ValidSuper(s) ==
    /\ s.magic /\ s.log_block_size <= 6
    /\ s.inodes_count >= ROOT /\ s.blocks_count > 0
    /\ s.blocks_per_group > 0 /\ s.inodes_per_group > 0
    /\ s.first_data_block < s.blocks_count
    /\ s.inode_size_ok /\ s.features_ok
    /\ s.blocks_count <= s.size
    /\ s.inodes_count <= s.size * InodesPerBlock + 1

\* Seeded fault: the groups are counted from the blocks alone.
groups_count_Blocks(s) == ceil_div(s.blocks_count - s.first_data_block, s.blocks_per_group)

groups_count(s) == MaxOf(ceil_div(s.blocks_count - s.first_data_block, s.blocks_per_group),
                         ceil_div(s.inodes_count, s.inodes_per_group))

\* A descriptor past the end of the image reads as "none".
Descriptor(img, g) ==
    IF img.super.first_data_block + 1 + g \div DescsPerBlock < img.super.size /\ g \in DOMAIN img.tables
    THEN img.tables[g] ELSE 0

ext2_open ==
    LET s == ex.img.super
        groups == 0..(groups_count(s) - 1)
    IN  /\ ex.phase = "open"
        /\ IF /\ ValidSuper(s)
              /\ \A g \in groups : Descriptor(ex.img, g) \in 1..(s.blocks_count - 1)
           THEN ex' = [ex EXCEPT !.phase = "prompt",
                                 !.fs = [tables |-> [g \in groups |-> Descriptor(ex.img, g)]]]
           ELSE ex' = [ex EXCEPT !.phase = "closed", !.cmd.msg = "not ext2"]

\* The whole block lies in the image.
Readable(img, b) == b < img.super.size
At(f, i, default) == IF i \in DOMAIN f THEN f[i] ELSE default

GroupOf(img, n) == (n - 1) \div img.super.inodes_per_group

\* ok is false when the number is out of range or the table ends outside the image.
ext2_read_inode(n) ==
    LET img == ex.img
        index == (n - 1) % img.super.inodes_per_group
        block == ex.fs.tables[GroupOf(img, n)] + index \div InodesPerBlock
    IN  IF n \notin 1..img.super.inodes_count \/ GroupOf(img, n) \notin DOMAIN ex.fs.tables
        THEN [ok |-> FALSE, i |-> ZeroInode]
        ELSE [ok |-> Readable(img, block),
              i |-> At(At(img.ino, block, <<>>), index % InodesPerBlock, ZeroInode)]

ext2_inode_size(i) == IF i.mode = "reg" THEN i.low + UINT * i.high ELSE i.low

\* Seeded fault: a missing index block is an error, not a hole.
ext2_read_pointer_NoHole(b, index) ==
    LET v == At(At(ex.img.ptr, b, <<>>), index, 0)
    IN  IF b \notin 1..(ex.img.super.blocks_count - 1) \/ v >= ex.img.super.blocks_count THEN -1 ELSE v

\* The pointer at an index of a block; a hole has only holes, -1 is a failure.
ext2_read_pointer(b, index) ==
    LET count == ex.img.super.blocks_count
        v == At(At(ex.img.ptr, b, <<>>), index, 0)
    IN  CASE b = 0 -> 0
          [] b # 0 /\ (b < 0 \/ b >= count \/ index >= PerBlock) -> -1
          [] OTHER -> IF v >= count THEN -1 ELSE v

\* Direct, single, double, triple.
ext2_data_block(i, logical) ==
    LET n1 == logical - NDIR
        n2 == n1 - PerBlock
        n3 == n2 - PerBlock * PerBlock
        double(n, top) == ext2_read_pointer(ext2_read_pointer(top, n \div PerBlock), n % PerBlock)
        in3 == n3 % (PerBlock * PerBlock)
    IN  CASE n1 < 0 -> IF i.blocks[logical] < ex.img.super.blocks_count THEN i.blocks[logical] ELSE -1
          [] n1 >= 0 /\ n2 < 0 -> ext2_read_pointer(i.blocks[NDIR], n1)
          [] n2 >= 0 /\ n3 < 0 -> double(n2, i.blocks[NDIR + 1])
          [] n3 >= PerBlock * PerBlock * PerBlock -> -1
          [] OTHER -> double(in3, ext2_read_pointer(i.blocks[NDIR + 2], n3 \div (PerBlock * PerBlock)))

-----------------------------------------------------------------------------
(* Directories                                                             *)

Rank(name) == CHOOSE k \in DOMAIN NameOrder : NameOrder[k] = name

\* Before the first entry with a greater name.
entry_list_insert(list, e) ==
    LET after == {k \in DOMAIN list : Rank(list[k].name) > Rank(e.name)}
    IN  InsertAt(list, Min(after \cup {Len(list) + 1}), e)

\* What a directory that cannot be read returns: no list holds inode 0.
Bad == <<[inode |-> 0, name |-> "", len |-> 0, need |-> 0]>>

\* The records of a block from an offset on.  What no record describes is zeros: a
\* record of length 0.
RECURSIVE ScanBlock(_, _, _, _, _)
ScanBlock(records, offset, valid, hide, list) ==
    LET d == Head(records)
        visible == d.inode # 0 /\ d.name \notin {".", ".."} /\ ~(hide /\ d.name = "lost+found")
    IN  IF offset >= valid THEN list
        ELSE IF valid - offset < 2 \/ records = <<>> THEN Bad
        ELSE IF d.len < 2 \/ d.len > valid - offset \/ d.need > d.len - 2 THEN Bad
        ELSE IF d.inode > ex.img.super.inodes_count THEN Bad
        ELSE ScanBlock(Tail(records), offset + d.len, valid, hide,
                       IF visible THEN entry_list_insert(list, d) ELSE list)

\* The list with the entries of block b of the directory.
ScanNext(list, b, valid, hide) ==
    CASE list = Bad \/ b = -1 -> Bad
      [] list # Bad /\ b = 0 -> list
      [] OTHER -> ScanBlock(At(ex.img.dir, b, <<>>), 0, valid, hide, list)

ValidBytes(size, logical) == Min({BSIZE, size - logical * BSIZE})

ScanInode(i, size, hide) ==
    FoldLeft(LAMBDA list, logical : ScanNext(list, ext2_data_block(i, logical), ValidBytes(size, logical), hide),
             <<>>, [k \in 1..ceil_div(size, BSIZE) |-> k - 1])

ScanRead(r, hide) == IF ~r.ok \/ r.i.mode # "dir" THEN Bad ELSE ScanInode(r.i, ext2_inode_size(r.i), hide)

\* The live entries of a directory in the order of their names, or Bad.
ext2_read_directory(n, hide) == ScanRead(ext2_read_inode(n), hide)

\* strtok_r: what stands between slashes.
RECURSIVE Components(_, _)
Components(path, cur) ==
    LET done == IF cur = <<>> THEN <<>> ELSE <<cur>>
    IN  IF path = <<>> THEN done
        ELSE IF Head(path) = "/" THEN done \o Components(Tail(path), <<>>)
        ELSE Components(Tail(path), Append(cur, Head(path)))

\* The inode of the first entry of a name, or 0.
EntryNamed(list, name) ==
    LET found == {k \in DOMAIN list : <<list[k].name>> = name}
    IN  IF list = Bad \/ found = {} THEN 0 ELSE list[Min(found)].inode

\* From the root, or 0; `.' stays, `..' is refused.
RECURSIVE ResolveFrom(_, _)
ResolveFrom(n, comps) ==
    IF n = 0 \/ comps = <<>> THEN n
    ELSE IF Head(comps) = <<".">> THEN ResolveFrom(n, Tail(comps))
    ELSE IF Head(comps) = <<"..">> THEN 0
    ELSE ResolveFrom(EntryNamed(ext2_read_directory(n, FALSE), Head(comps)), Tail(comps))

ext2_resolve_path(path) ==
    IF path = <<>> \/ path[1] = "/" THEN 0 ELSE ResolveFrom(ROOT, Components(path, <<>>))

-----------------------------------------------------------------------------
(* The prompt                                                              *)

\* tokenize() writes the tokens over the line it reads: s has the line, the places of
\* reading and writing, the starts of the tokens and the open quote.
Quotes == {"'", "\""}
RECURSIVE tokenize(_)
tokenize(s) ==
    LET c == s.buf[s.r]
        store(k) == [s EXCEPT !.buf[s.w] = s.buf[s.r + k], !.r = @ + k + 1, !.w = @ + 1]
        finish(skip) == [s EXCEPT !.in = FALSE, !.r = @ + skip, !.buf[s.w] = "end", !.w = @ + 1]
    IN  IF ~s.in
        THEN CASE c = "end" -> s
               [] c = " " -> tokenize([s EXCEPT !.r = @ + 1])
               [] c \notin {"end", " "} /\ Len(s.starts) = MaxTokens -> [s EXCEPT !.error = TRUE]
               [] OTHER -> tokenize([s EXCEPT !.in = TRUE, !.starts = Append(@, s.w)])
        ELSE CASE c = "end" -> IF s.quote # "none" THEN [s EXCEPT !.error = TRUE] ELSE finish(0)
               [] c = s.quote -> tokenize([s EXCEPT !.quote = "none", !.r = @ + 1])
               [] c \in Quotes /\ s.quote = "none" -> tokenize([s EXCEPT !.quote = c, !.r = @ + 1])
               [] c = " " /\ s.quote = "none" -> tokenize(finish(1))
               [] c = "\\" /\ s.buf[s.r + 1] # "end" -> tokenize(store(1))
               [] OTHER -> tokenize(store(0))

\* The token that starts at a place of the buffer.
TokenAt(buf, start) == SubSeq(buf, start, Min({k \in start..Len(buf) : buf[k] = "end"}) - 1)
Tokenized(line) == tokenize([buf |-> Append(line, "end"), r |-> 1, w |-> 1, starts |-> <<>>,
                             in |-> FALSE, quote |-> "none", error |-> FALSE])

Say(msg) == ex' = [ex EXCEPT !.phase = "prompt", !.cmd.msg = msg]

\* A line longer than the buffer is dropped whole.
prompt_loop(line) ==
    LET t == Tokenized(line)
    IN  /\ ex.phase = "prompt" /\ ex.line = <<>>
        /\ ex' = IF Len(line) > CommandMax \/ t.error
                 THEN [ex EXCEPT !.line = line, !.cmd.msg = "help"]
                 ELSE [ex EXCEPT !.line = line, !.phase = "execute",
                                 !.toks = [k \in DOMAIN t.starts |-> TokenAt(t.buf, t.starts[k])]]

\* End of input.
prompt_eof ==
    /\ ex.phase = "prompt"
    /\ ex' = [ex EXCEPT !.phase = "closed"]

Named(name) == ex.phase = "execute" /\ ex.toks # <<>> /\ ex.toks[1] = <<name>>
OptionsFrom(k) == {ex.toks[j] : j \in k..Len(ex.toks)}
\* A dash and letters.
TreeOption(tok) == Len(tok) > 1 /\ tok[1] = "-" /\ Range(Tail(tok)) \subseteq {"r", "s", "p"}

TreeOf(n, r, list) ==
    IF n = 0 THEN Say("usage")
    ELSE IF ~r.ok THEN Say("error")
    ELSE IF r.i.mode # "dir" THEN Say("not directory")
    ELSE IF list = Bad THEN Say("malformed")
    ELSE ex' = [ex EXCEPT !.phase = "tree",
                          !.cmd = [Idle EXCEPT !.start = n, !.rec = \E opt \in OptionsFrom(3) : "r" \in Range(opt),
                                               !.visited = {n}, !.dirs = 1,
                                               !.stack = <<[list |-> list, depth |-> 0]>>]]
TreeFrom(n) == TreeOf(n, ext2_read_inode(n), ext2_read_directory(n, TRUE))

command_tree ==
    /\ Named("tree")
    /\ IF Len(ex.toks) < 2 \/ (\E opt \in OptionsFrom(3) : ~TreeOption(opt)) THEN Say("usage")
       ELSE TreeFrom(ext2_resolve_path(ex.toks[2]))

\* Seeded fault: a directory is entered each time it is met.
visited_test_Never(n) == FALSE

visited_test(n) == n \in ex.cmd.visited

\* The entry e of the directory on top: counted, printed, and entered when it is a
\* directory not seen before.
TreeEntry(cmd, top, e, r, list) ==
    LET isdir == r.i.mode = "dir"
        enter == cmd.rec /\ isdir /\ top.depth < MaxTreeDepth /\ ~visited_test(e.inode)
        rest == Append(Front(cmd.stack), [top EXCEPT !.list = Tail(@)])
        row == [depth |-> top.depth, name |-> e.name, inode |-> e.inode, last |-> Len(top.list) = 1]
    IN  IF ~r.ok THEN Say("malformed")
        ELSE ex' = [ex EXCEPT
               !.phase = IF enter /\ list = Bad THEN "prompt" ELSE @,
               !.cmd = [cmd EXCEPT !.rows = Append(@, row),
                          !.dirs = IF isdir THEN @ + 1 ELSE @,
                          !.files = IF isdir THEN @ ELSE @ + 1,
                          !.visited = IF enter THEN @ \cup {e.inode} ELSE @,
                          !.stack = IF enter /\ list # Bad
                                    THEN Append(rest, [list |-> list, depth |-> top.depth + 1]) ELSE rest,
                          !.msg = IF enter /\ list = Bad THEN "malformed" ELSE @]]

print_tree_children ==
    LET top == Last(ex.cmd.stack)
        e == Head(top.list)
    IN  /\ ex.phase = "tree" /\ ex.cmd.stack # <<>> /\ top.list # <<>>
        /\ TreeEntry(ex.cmd, top, e, ext2_read_inode(e.inode), ext2_read_directory(e.inode, TRUE))

\* The end of a directory; after the first, the counts are printed.
tree_return ==
    /\ ex.phase = "tree" /\ Last(ex.cmd.stack).list = <<>>
    /\ ex' = [ex EXCEPT !.cmd.stack = Front(@),
                        !.phase = IF Len(ex.cmd.stack) = 1 THEN "prompt" ELSE @,
                        !.cmd.msg = IF Len(ex.cmd.stack) = 1 THEN "counts" ELSE @]

\* The numerals; anything else is refused, zero too.
LineCount(tok) == CASE tok = <<"1">> -> 1 [] tok = <<"2">> -> 2 [] OTHER -> 0

PrintOf(n, r, limit) ==
    IF n = 0 THEN Say("usage")
    ELSE IF ~r.ok THEN Say("error")
    ELSE IF r.i.mode # "reg" THEN Say("not file")
    ELSE ex' = [ex EXCEPT !.phase = "print", !.cmd = [Idle EXCEPT !.start = n, !.limit = limit]]
PrintFrom(n, limit) == PrintOf(n, ext2_read_inode(n), limit)

command_print ==
    LET toks == ex.toks
    IN  /\ Named("print")
        /\ CASE Len(toks) < 2 -> Say("usage")
             [] Len(toks) = 3 -> Say(IF toks[3] = <<"-n">> THEN "requires an argument" ELSE "usage")
             [] Len(toks) > 4 -> Say("usage")
             [] Len(toks) = 4 /\ (toks[3] # <<"-n">> \/ LineCount(toks[4]) = 0) -> Say("usage")
             [] OTHER -> PrintFrom(ext2_resolve_path(toks[2]), IF Len(toks) = 4 THEN LineCount(toks[4]) ELSE 0)

\* One block of the file: all of it, or up to the newline that makes the limit.
PrintBytes(cmd, bytes) ==
    LET newlines == {k \in DOMAIN bytes : bytes[k] = Newline}
        enough == {k \in newlines : cmd.lines + Cardinality(newlines \cap 1..k) = cmd.limit}
    IN  IF cmd.limit > 0 /\ enough # {}
        THEN ex' = [ex EXCEPT !.phase = "prompt", !.cmd.msg = "printed",
                              !.cmd.out = @ \o SubSeq(bytes, 1, Min(enough))]
        ELSE ex' = [ex EXCEPT !.cmd.out = @ \o bytes, !.cmd.logical = @ + 1,
                              !.cmd.lines = @ + Cardinality(newlines)]

PrintBlock(cmd, size, b) ==
    IF cmd.logical >= ceil_div(size, BSIZE) THEN Say("printed")
    ELSE IF b = -1 THEN Say("read error")
    ELSE PrintBytes(cmd, SubSeq(At(ex.img.data, b, [k \in 1..BSIZE |-> 0]), 1, ValidBytes(size, cmd.logical)))

PrintInode(cmd, i) == PrintBlock(cmd, ext2_inode_size(i), ext2_data_block(i, cmd.logical))

print_inode_data ==
    /\ ex.phase = "print"
    /\ PrintInode(ex.cmd, ext2_read_inode(ex.cmd.start).i)

\* help, exit, an empty line and anything else.
execute_other ==
    /\ ex.phase = "execute"
    /\ ~Named("tree") /\ ~Named("print")
    /\ CASE ex.toks = <<>> -> Say("none")
         [] Named("exit") /\ Len(ex.toks) = 1 -> ex' = [ex EXCEPT !.phase = "closed"]
         [] Named("exit") /\ Len(ex.toks) > 1 -> Say("usage")
         [] OTHER -> Say("help")

Next == \/ ext2_open \/ prompt_eof \/ command_tree \/ print_tree_children \/ tree_return
        \/ command_print \/ print_inode_data \/ execute_other
        \/ \E line \in Lines : prompt_loop(line)

-----------------------------------------------------------------------------
(* Reference definitions                                                   *)

\* The bytes below a pointer of a level, in order; -1 for each block that cannot be read.
RECURSIVE Leaves(_, _)
Leaves(b, level) ==
    LET n == PerBlock ^ level
    IN  IF b = 0 THEN [k \in 1..n |-> 0]
        ELSE IF b = -1 \/ b >= ex.img.super.blocks_count THEN [k \in 1..n |-> -1]
        ELSE IF level = 0 THEN <<b>>
        ELSE FlattenSeq([k \in 1..PerBlock |-> Leaves(At(At(ex.img.ptr, b, <<>>), k - 1, 0), level - 1)])
FileBlocks(i) == FlattenSeq([k \in 1..(NDIR + 3) |->
                    Leaves(i.blocks[k - 1], IF k <= NDIR THEN 0 ELSE k - NDIR)])
Content(i) ==
    LET blocks == FileBlocks(i)
        byte(b, k) == IF b = -1 THEN -1 ELSE At(At(ex.img.data, b, <<>>), k, 0)
    IN  [j \in 1..ext2_inode_size(i) |-> byte(At(blocks, (j - 1) \div BSIZE + 1, -1), ((j - 1) % BSIZE) + 1)]

\* The prefix that ends with a given newline, or everything.
FirstLines(s, limit) ==
    LET ends == {j \in DOMAIN s : s[j] = Newline /\ Cardinality({k \in 1..j : s[k] = Newline}) = limit}
    IN  IF limit = 0 \/ ends = {} THEN s ELSE SubSeq(s, 1, Min(ends))

PrintedIs(want) ==
    /\ IsPrefix(ex.cmd.out, want)
    /\ ex.cmd.msg = "printed" => ex.cmd.out = want
    /\ ex.cmd.msg = "read error" => At(want, Len(ex.cmd.out) + 1, 0) = -1
    /\ \A j \in DOMAIN ex.cmd.out : ex.cmd.out[j] # -1

\* print writes the first lines of the file, through every level of pointers and every
\* hole, and reports an error exactly when a pointer it needs leaves the disk.
PrintExact ==
    ex.cmd.msg \in {"printed", "read error"} =>
        PrintedIs(FirstLines(Content(ext2_read_inode(ex.cmd.start).i), ex.cmd.limit))

\* Directories reached through entries the tree shows.
SubDirs(list) == {list[k].inode : k \in {j \in DOMAIN list : ext2_read_inode(list[j].inode).i.mode = "dir"}}
ShownDirs(n) == SubDirs(ext2_read_directory(n, TRUE))
RECURSIVE Closure(_)
Closure(S) == IF \A n \in S : ShownDirs(n) \subseteq S THEN S ELSE Closure(S \cup UNION {ShownDirs(n) : n \in S})

\* The entries of a list are shown, in the order of their names.
Listing(list) ==
    LET shown(k) == {j \in DOMAIN ex.cmd.rows :
                       LET row == ex.cmd.rows[j]
                       IN  row.name = list[k].name /\ row.inode = list[k].inode /\ row.last = (k = Len(list))}
    IN  /\ \A k \in DOMAIN list : shown(k) # {}
        /\ \A k \in 2..Len(list) : /\ Min(shown(k - 1)) < Max(shown(k))
                                  /\ Rank(list[k - 1].name) <= Rank(list[k].name)
BadEntry(list) == list = Bad \/ \E k \in DOMAIN list : ~ext2_read_inode(list[k].inode).ok

TreeShows(cmd, dirs, entries) ==
    /\ Len(cmd.rows) <= entries
    /\ cmd.msg = "counts" =>
          /\ Len(cmd.rows) = entries
          /\ cmd.dirs = 1 + Cardinality({k \in DOMAIN cmd.rows : ext2_read_inode(cmd.rows[k].inode).i.mode = "dir"})
          /\ cmd.dirs + cmd.files = 1 + Len(cmd.rows)
          /\ \A n \in dirs : Listing(ext2_read_directory(n, TRUE))
    /\ cmd.msg = "malformed" => \E n \in dirs : BadEntry(ext2_read_directory(n, TRUE))
TreeOver(cmd, dirs) == TreeShows(cmd, dirs, MapThenSumSet(LAMBDA n : Len(ext2_read_directory(n, TRUE)), dirs))

\* tree ends, with cycles too, and has shown every entry of each directory it reaches
\* exactly once, in the order of names (NameOrder stands for strcmp), and counted each; an
\* image that has no bad directory among them is never called malformed, and every inode
\* number has a group.
TreeExact ==
    /\ ex.phase = "prompt" =>
          \A n \in 1..ex.img.super.inodes_count : GroupOf(ex.img, n) \in DOMAIN ex.fs.tables
    /\ ex.cmd.start # 0 /\ ex.cmd.msg \notin {"printed", "read error"} /\ ex.phase # "print" =>
          TreeOver(ex.cmd, IF ex.cmd.rec THEN Closure({ex.cmd.start}) ELSE {ex.cmd.start})
=============================================================================
