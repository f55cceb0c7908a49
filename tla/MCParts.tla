------------------------------ MODULE MCParts -------------------------------
(***************************************************************************)
(* The parts of the repository that keep no state together, each checked   *)
(* on an instance of its own in one run: `part' says which one a behaviour *)
(* is about, and `st' is the state of that part.  Spin and Multilevel,     *)
(* about which there are theorems, keep their own variables sp and fs.     *)
(***************************************************************************)
EXTENDS Spin, Multilevel, TLC

VARIABLES part, st

vars == <<part, st, sp, fs>>

-----------------------------------------------------------------------------
(* Blocks of the files of Multilevel: the first grows to MAXFILE           *)

TwoFiles == <<18, 1>>

-----------------------------------------------------------------------------
(* Images of an ext2 file system                                           *)

Super == [magic |-> TRUE, log_block_size |-> 0, inodes_count |-> 6, blocks_count |-> 24, first_data_block |-> 0,
          blocks_per_group |-> 24, inodes_per_group |-> 6, inode_size_ok |-> TRUE, features_ok |-> TRUE, size |-> 24]

\* Inodes 1..6 in blocks 2..4: the root (2), a directory (3), a file (4), a link (5)
\* and a second directory (6).
Node(mode, low, high, b0, b1, b2, b3) ==
    [mode |-> mode, low |-> low, high |-> high, blocks |-> (0 :> b0 @@ 1 :> b1 @@ 2 :> b2 @@ 3 :> b3)]
DirEntry(n, name) == [inode |-> n, name |-> name, len |-> 3, need |-> 1]
Dots(n) == <<DirEntry(n, "."), DirEntry(2, "..")>>
Text(b) == [k \in 1..6 |-> IF k = b % 6 THEN 10 ELSE 100 + b]

\* A root of two blocks, the second behind the single indirect block 6.
Ext2Image(super, file, a, z, ptr) ==
    [super |-> super, tables |-> (0 :> 2 @@ 1 :> 3),
     ino |-> (2 :> (1 :> Node("dir", 12, 0, 5, 6, 0, 0)) @@ 3 :> (0 :> Node("dir", 12, 9, 8, 7, 0, 0) @@ 1 :> file)
              @@ 4 :> (0 :> Node("lnk", 3, 0, 0, 0, 0, 0) @@ 1 :> Node("dir", 6, 0, 11, 0, 0, 0))),
     ptr |-> ptr @@ (6 :> (0 :> 9) @@ 7 :> (0 :> 10)),
     dir |-> (5 :> Dots(2) @@ 9 :> <<DirEntry(4, "b"), a>> @@ 8 :> Dots(3) @@ 10 :> <<DirEntry(5, "z"), z>> @@ 11 :> Dots(6)),
     data |-> [b \in 1..23 |-> Text(b)]]

File0 == Node("reg", 13, 0, 12, 0, 0, 0)
NoPtr == [b \in {} |-> <<>>]
Ext2Trees == {Ext2Image(Super, File0, a, z, NoPtr) :
            a \in {DirEntry(3, "a"), DirEntry(0, "a"), DirEntry(3, "lost+found"), DirEntry(7, "a"), [DirEntry(3, "a") EXCEPT !.len = 4],
                   [DirEntry(3, "a") EXCEPT !.need = 2], [DirEntry(0, "") EXCEPT !.len = 1]},
            z \in {DirEntry(2, "a"), DirEntry(3, "b"), DirEntry(6, "b"), DirEntry(4, "a"), DirEntry(6, "z"), [DirEntry(6, "a") EXCEPT !.len = 2]}}
Ext2Pointers == {Ext2Image(Super, Node("reg", low, high, b0, b1, b2, b3), DirEntry(3, "a"), DirEntry(6, "b"), ptr) :
               low \in {1, 50}, high \in {0, 4}, b0 \in {12, 24}, b1 \in {0, 13}, b2 \in {14, 30}, b3 \in {0, 15},
               ptr \in {(13 :> (0 :> 16 @@ 1 :> p @@ 5 :> 18) @@ 14 :> (0 :> 17 @@ 5 :> p) @@ 17 :> (0 :> 19 @@ 5 :> 20)
                         @@ 15 :> (0 :> 17) @@ 16 :> <<>>) : p \in {0, 17, 25}}}
Ext2Supers == {Ext2Image([Super EXCEPT !.inodes_per_group = ipg, !.blocks_count = bc, !.first_data_block = fdb, !.size = sz,
                               !.inodes_count = n],
                 File0, DirEntry(3, "a"), DirEntry(2, "a"), NoPtr) :
             ipg \in {0, 2, 3, 6}, bc \in {3, 12, 24}, fdb \in {0, 3}, sz \in {4, 24}, n \in {1, 6}}
\* The inode table ends with the image: inodes 5 and 6 are outside.
Cut == LET img == Ext2Image(Super, File0, DirEntry(5, "a"), DirEntry(6, "b"), NoPtr)
       IN  [img EXCEPT !.tables = 0 :> 22, !.ino = 22 :> img.ino[2] @@ 23 :> img.ino[3]]
Huge == Ext2Image(Super, Node("reg", 62, 24, 12, 13, 14, 15), DirEntry(3, "a"), DirEntry(6, "b"), NoPtr)
ImageSet == Ext2Trees \cup Ext2Pointers \cup Ext2Supers \cup {Cut, Huge}
NameSeq == <<"", ".", "..", "a", "b", "lost+found", "z">>
Ext2Lines == {<<"tree", " ", ".", " ", "-", "r">>, <<"tree", " ", "a">>, <<"tree", " ", "a", " ", "-", "r", " ", "-", "s">>, <<"print", " ", "b">>, <<"print", " ", "a">>, <<"print">>, <<"print", " ", "b", " ", "-n", " ", "1", " ", "1">>,
          <<"print", " ", "b", " ", "-n", " ", "1">>, <<"print", " ", "'", "b", "'", " ", "-n", " ", "2">>,
          <<"print", " ", "a", "/", "\\", "z">>, <<"print", " ", "b", " ", "-n">>, <<"tree", " ", "/", "a">>,
          <<"tree", " ", "a", "/", "..">>, <<"tree", " ", "b">>, <<"print", " ", "b", " ", "-n", " ", "0">>,
          <<"tree", " ", "/">>, <<"help">>, <<"exit">>, <<"exit", " ", "a">>, <<" ">>, <<"'", "a">>, <<"tree">>,
          <<"a", " ", "a", " ", "a", " ", "a", " ", "a", " ", "a">>, <<"tree", " ", ".", " ", "-", "x">>,
          <<"tree", " ", ".", " ", "-", "s">>, <<"tree", " ", "a", " ", "-", "s", "p", " ", "-", "r", "p">>,
          <<"tree", " ", ".", " ", "-", "r", "x">>, <<"tree", " ", ".", " ", "-">>, <<"tree", " ", ".", " ", "r">>,
          <<"print", " ", "b", " ", "-x", " ", "1">>, <<"print", " ", "b", " ", "-n", " ", "a">>,
          <<"help", " ", " ", " ", " ", " ", " ", " ", " ", " ", " ", " ", " ">>}

-----------------------------------------------------------------------------
(* Answers, submissions and arguments of ssu_score                         *)

Endless == 1000000        \* Score!Never
ScoreFiles == {[major |-> 1, minor |-> 1, ext |-> "txt", regular |-> TRUE], [major |-> 2, minor |-> 0, ext |-> "c", regular |-> TRUE],
          [major |-> 2, minor |-> 0, ext |-> "exe", regular |-> TRUE], [major |-> 3, minor |-> 0, ext |-> "txt", regular |-> FALSE]}
Ran(compiles, warnings, end, same) ==
    [kind |-> "program", compiles |-> compiles, warnings |-> warnings, threads |-> FALSE, end |-> end, same |-> same]
Threaded(p) == [p EXCEPT !.threads = TRUE]
BlankWork == {[kind |-> "blank", right |-> TRUE], [kind |-> "blank", right |-> FALSE]}
AnswerPrograms == {Ran(FALSE, 0, 0, FALSE), Ran(TRUE, 1, 4, TRUE), Ran(TRUE, 0, Endless, TRUE)}
StudentWork ==
    <<BlankWork \cup {[kind |-> "missing"], Ran(FALSE, 1, 0, FALSE), Ran(TRUE, 2, 4, TRUE), Ran(TRUE, 0, 5, FALSE),
                   Ran(TRUE, 0, 6, TRUE), Ran(TRUE, 0, 7, TRUE), Ran(TRUE, 0, 9, TRUE), Ran(TRUE, 0, Endless, TRUE)},
      BlankWork \cup {Ran(TRUE, 6, 0, TRUE)},
      {[kind |-> "missing"], Threaded(Ran(TRUE, 0, 2, TRUE))}>>
ArgLists == {<<"-m">>, <<"-s", "score", "-1", "-e", "dir">>, <<"-c", "s1", "-p", "-t", "q2", "-s", "score", "1">>, <<"-p", "s1", "-c", "s2">>,
  <<"-t", "q9">>, <<"-c", "s3", "s1", "s9">>, <<"-c", "s9">>, <<"-n", "x.csv", "-t">>, <<"-n", "x">>, <<"-e", "cwd">>, <<"-s", "score">>, <<"-s", "sum", "1">>, <<"-m", "-m">>, <<"-h">>}

-----------------------------------------------------------------------------
(* Expressions of blanks                                                   *)

RECURSIVE Flat(_)
Flat(n) == IF n = 1 THEN {<<x>> : x \in {"a", "b"}}
           ELSE {e \o <<op, x>> : e \in Flat(n - 1), op \in {"+", "*", "-", "<", ">", "=="}, x \in {"a", "b"}}
Line(t, b) == [toks |-> t, semi |-> b]
Ops(t) == {IF t[k] = ">" THEN "<" ELSE t[k] : k \in {2, 4} \cap DOMAIN t}
PairSet == {<<Line(s, b), <<Line(<<"b">>, FALSE), Line(k, TRUE)>> >> : s \in Flat(1) \cup Flat(2), k \in Flat(1) \cup Flat(2), b \in BOOLEAN}
   \cup {<<Line(p[1], FALSE), <<Line(p[2], FALSE)>>>> : p \in {q \in Flat(3) \X Flat(3) : Ops(q[1]) = Ops(q[2])}}
\* A comparison and a subtraction under ==.
Sides == {<<x, op, y>> : x, y \in {"a", "b"}, op \in {"<", "-"}}
FourSet == {<<Line(s \o <<"==">> \o r, FALSE), <<Line(k \o <<"==">> \o l, FALSE)>>>> : s, r, k, l \in Sides}
Values == [{"a", "b"} -> 0..2]

-----------------------------------------------------------------------------
(* A tree to arrange, and options                                          *)

FileSeq == << [dir |-> "m/d,k", name |-> "y", ext |-> "noext"], [dir |-> "m/d/e", name |-> "x.c", ext |-> "c"],
              [dir |-> "m/d", name |-> "x.c", ext |-> "c"], [dir |-> "m", name |-> "x.c", ext |-> "c"]>>
AboveFn == "m" :> {"m"} @@ "m/d" :> {"m", "m/d"} @@ "m/d/e" :> {"m", "m/d", "m/d/e"} @@ "m/d,k" :> {"m", "m/d,k"}
\* m/l is a link to m/d,k, which nobody can type after -x.
RealFn == [d \in {"m", "m/d", "m/d/e"} |-> d] @@ "m/l" :> "m/d,k"
SplitFn == "m/d,k" :> <<"m/d", "k">>
Tok(s) == <<s>>
Comma == <<>>
ArrangeOptions == { <<Tok("-m"), Tok("1"), Tok("-l"), Tok("1")>>, <<Tok("-m"), Tok("2"), Tok("-e"), <<".c", "noext">>>>,
          <<Tok("-m"), Tok("4")>>, <<Tok("-e"), Tok("all")>>, <<Tok("-x"), Tok("m/d/e"), Tok("-i"), Tok("1")>>, <<Tok("-x"), <<"m/d", "m/d/e">>>>,
          <<Tok("-d"), Tok("out"), Tok("-d"), Tok("out")>>, <<Tok("-d"), Tok("out"), Tok("-m"), Tok("3"), Tok("-l"), Tok("2")>>, <<Tok("-e"), Tok("-x")>>, <<Tok("-l")>>, <<Tok("bad")>>,
          <<Tok("-x"), Tok("m/l"), Tok("-e"), <<". c", "c">>>>, <<Tok("-x"), Comma, Tok("-e"), Comma>>, <<Tok("-x"), <<"m/l", "m/d/e">>>>, <<Tok("-x"), Comma, Tok("-x"), Tok("m/d")>> }
FileTimes == {<<1, 2, 2, 1>>, <<2, 1, 2, 2>>, <<0, 2, 1, 0>>, <<1, 0, 0, 2>>, <<2, 2, 1, 2>>}
Before == {"x.c" :> "none" @@ "y" :> "none", "x.c" :> "reg" @@ "y" :> "dir"}

-----------------------------------------------------------------------------
(* Lines of the shell, formats, lines typed, patterns                      *)

Word(n) == <<"exec", n>>
ShellScripts ==
    {<<<<"cd">>, Word(0), <<"pipe", <<"redir", Word(1), "<">>, <<"pipe", Word(2), <<"redir", Word(3), ">">>>>>>>>,
     <<<<"pipe", <<"back", Word(1)>>, Word(2)>>, <<"redir", <<"list", Word(1), <<"pipe", Word(2), Word(3)>>>>, "<">>>>}

Fmts == UNION {[1..n -> {"%", "d", "c", "q"}] : n \in 0..4} \cup {<<"%", "x", "%", "s">>, <<"%", "p">>}
Ins == UNION {[1..n -> {"k", "nl"}] : n \in 0..4}

GrepPatterns == UNION {[1..n -> {"a", ".", "*", "^", "$"}] : n \in 0..3}
GrepFiles == {<<"a", "b", "\n", "a", "\n">>, <<"a", "\n", "b", "a", "\n", "b">>, <<"b", "\n", "\n", "a", "a", "\n">>,
              <<"a", "a", "a", "a", "a", "a", "a", "\n">>}

-----------------------------------------------------------------------------

Heap == INSTANCE Malloc WITH heap <- st, MinUnits <- 4, HeapUnits <- 12, Payloads <- {1, 2, 5}
Egrep == INSTANCE Grep WITH gr <- st, BUFSIZE <- 6, Patterns <- GrepPatterns, Inputs <- GrepFiles
Parser == INSTANCE Shell WITH sh <- st, MAXARGS <- 4, MaxTokens <- 5
Runner == INSTANCE Run WITH rn <- st, Scripts <- ShellScripts, NFD <- 6, MaxProcs <- 6, MaxFaults <- 1
Library == INSTANCE LibC WITH lc <- st, MemSize <- 4, Byte <- {0, 1}, Width <- 7, Formats <- Fmts, Inputs <- Ins
Keyboard == INSTANCE Kbd WITH kb <- st, MaxBytes <- 2
Image == INSTANCE Ext2 WITH ex <- st, NDIR <- 1, BSIZE <- 6, InodesPerBlock <- 2, DescsPerBlock <- 2, UINT <- 64,
                             NameOrder <- NameSeq, MaxTokens <- 5, CommandMax <- 12, Images <- ImageSet,
                             Lines <- Ext2Lines
Grader == INSTANCE Score WITH sc <- st, AnswerFiles <- ScoreFiles, Students <- {1, 2, 3}, MaxOptionArgs <- 2,
                              MaxQuestions <- 2, MaxStudents <- 3, Timeout <- 5, Poll <- 2, Delay <- 1,
                              Commands <- ArgLists, Typed <- {333, 500}, Programs <- AnswerPrograms,
                              Work <- StudentWork, MaxRuns <- 2
Compare == INSTANCE Blank WITH bl <- st, Pairs <- PairSet \cup FourSet, Valuations <- Values
Pass == INSTANCE Arrange WITH ar <- st, Files <- FileSeq, Above <- AboveFn, Real <- RealFn, Split <- SplitFn, Outputs <- {<<"out">>}, MAX_VALUES <- 2, ShownLines <- 1,
                              Commands <- ArrangeOptions, MaxTime <- 2, Trees <- FileTimes, Old <- Before,
                              MaxPasses <- 2, MaxChanges <- 1

PartsInit ==
    /\ Init /\ FilesInit
    /\ \/ part = "files" /\ st = <<>>
       \/ part = "heap" /\ Heap!Init
       \/ part = "grep" /\ Egrep!Init
       \/ part = "parser" /\ Parser!Init
       \/ part = "runner" /\ Runner!Init
       \/ part = "locks" /\ st = <<>>
       \/ part = "library" /\ Library!Init
       \/ part = "keyboard" /\ Keyboard!Init
       \/ part = "ext2" /\ Image!Init
       \/ part = "score" /\ Grader!Init
       \/ part = "blank" /\ Compare!Init
       \/ part = "arrange" /\ Pass!Init

PartsNext ==
    \/ part = "files" /\ FilesNext /\ UNCHANGED <<part, st, sp>>
    \/ part = "heap" /\ Heap!Next /\ UNCHANGED <<part, sp, fs>>
    \/ part = "grep" /\ Egrep!Next /\ UNCHANGED <<part, sp, fs>>
    \/ part = "parser" /\ Parser!Next /\ UNCHANGED <<part, sp, fs>>
    \/ part = "runner" /\ Runner!Next /\ UNCHANGED <<part, sp, fs>>
    \/ part = "locks" /\ Next /\ UNCHANGED <<part, st, fs>>
    \/ part = "library" /\ Library!Next /\ UNCHANGED <<part, sp, fs>>
    \/ part = "keyboard" /\ Keyboard!Next /\ UNCHANGED <<part, sp, fs>>
    \/ part = "ext2" /\ Image!Next /\ UNCHANGED <<part, sp, fs>>
    \/ part = "score" /\ Grader!Next /\ UNCHANGED <<part, sp, fs>>
    \/ part = "blank" /\ Compare!Next /\ UNCHANGED <<part, sp, fs>>
    \/ part = "arrange" /\ Pass!Next /\ UNCHANGED <<part, sp, fs>>

PartsSpec == PartsInit /\ [][PartsNext]_vars

-----------------------------------------------------------------------------

\* Malloc, LibC, Grep, Kbd: blocks and free blocks tile the heap; copies, comparisons, numbers
\* and formats come out as defined; grep prints the matching lines; modifiers never stick.
LibraryRight ==
    /\ part = "heap" => Heap!HeapTiled
    /\ part = "library" => Library!LibExact
    /\ part = "grep" => Egrep!GrepExact
    /\ part = "keyboard" => Keyboard!KbdExact

\* Shell and Run: the tree has the tokens of its line, commands are wired as the tree says and
\* hold no other end of a pipe, nobody waits for ever, and the prompt waits for the foreground.
ShellRight ==
    /\ part = "parser" => Parser!ShellTree
    /\ part = "runner" => Runner!RunsAsWritten

\* Ext2: print shows the bytes of the file and tree the entries of the directory, or an error,
\* on images with bad pointers, short tables and directories that contain themselves.
Ext2Right == part = "ext2" => Image!PrintExact /\ Image!TreeExact

\* Score: grades, the score table, the time limit and the options, over two runs.
ScoreRight ==
    part = "score" => Grader!GradesExact /\ Grader!ScoresTyped /\ Grader!TimeoutFair /\ Grader!OptionsSound

\* Blank: an answer is accepted when it equals a candidate of the key up to the order of
\* operands, with the three exceptions that Blank names.
BlankFair == part = "blank" => Compare!BlankFair

\* Arrange: a pass leaves the newest file of each name, and the options that were given.
PassExact == part = "arrange" => Pass!PassExact
=============================================================================
