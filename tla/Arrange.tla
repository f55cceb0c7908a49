------------------------------ MODULE Arrange -------------------------------
(***************************************************************************)
(* What a daemon of ssu_cleanup does on each pass, and the options that    *)
(* steer it: `add' and `modify' parse a command into a configuration,      *)
(* write_config() puts it in a file, each pass reads the file again,       *)
(* collects the files of the monitored tree and copies one of each name    *)
(* to the output directory.  A token of a command, and a line of the file, *)
(* is the sequence of its comma-separated parts, empty ones left out as    *)
(* strtok() does.  The user changes files, and modifies the configuration, *)
(* at any time.  The daemons' registry is module Cleanup.                  *)
(***************************************************************************)
EXTENDS Integers, Sequences, FiniteSets, FiniteSetsExt, SequencesExt

CONSTANTS Files,        \* [dir, name, ext] of each file there may be, in the order of strcmp on paths
          Above,        \* of each directory of the tree, the directories it lies in, itself too
          Real,         \* the directory that realpath() finds for each path that can be typed
          Split,        \* of a directory with a comma in its path, the parts strtok() makes of it
          Outputs,      \* output directories outside the tree, as they are typed
          MAX_VALUES,
          ShownLines,   \* lines of the log that `show' prints, 10 in the code
          Commands,     \* bound: options of a command
          MaxTime,      \* bound: times of modification, 0 of a file that is not there
          Trees, Old,   \* bound: times of the files, and what stands at the destinations, at first
          MaxPasses, MaxChanges

VARIABLES ar    \* the files, the destinations, the configuration and its file, and the pass

Names == {Files[k].name : k \in DOMAIN Files}
Monitor == CHOOSE d \in DOMAIN Above : Above[d] = {d}
NoCopy == [kind |-> "none", mtime |-> 0, src |-> 0]
Default == <<"arranged">>
NoPatch == [d |-> <<"unset">>, i |-> 0, l |-> 0, m |-> 0,
            has_excludes |-> FALSE, x |-> <<>>, has_extensions |-> FALSE, e |-> <<>>]

-----------------------------------------------------------------------------
(* Options                                                                 *)

Dashed(tok) == tok # <<>> /\ tok[1] \in {"-d", "-i", "-l", "-m", "-x", "-e", "-1"}

parse_positive_integer(tok) == CASE tok = <<"1">> -> 1 [] tok = <<"2">> -> 2 [] tok = <<"3">> -> 3 [] tok = <<"4">> -> 4 [] OTHER -> 0

\* trim(): an extension that was ". c" keeps its blank until it is read again.
Trimmed(part) == CASE part = " c" -> "c" [] part = " " -> "" [] OTHER -> part

\* What is left of an extension without its dots; "" is refused, and a slash.
Undotted(part) == CASE part = ".c" -> "c" [] part = ". c" -> " c" [] part = "." -> "" [] part = "a/b" -> "" [] OTHER -> part

\* Both return the longer list, or <<"">> for a part that is empty or one too many.
AppendAll(parts, list) ==
    IF (\E k \in DOMAIN parts : parts[k] = "") \/ Len(list) + Len(parts) > MAX_VALUES THEN <<"">> ELSE list \o parts
append_csv_paths(parts, list) == AppendAll([k \in DOMAIN parts |-> Trimmed(parts[k])], list)
append_csv_extensions(parts, list) == AppendAll([k \in DOMAIN parts |-> Undotted(Trimmed(parts[k]))], list)

Refused == [ok |-> FALSE, p |-> NoPatch]

\* The arguments of -x or -e: the tokens up to the next that starts with a dash.
Consumed(toks) == SubSeq(toks, 1, Min({k \in DOMAIN toks : Dashed(toks[k])} \cup {Len(toks) + 1}) - 1)

RECURSIVE parse_options(_, _)
parse_options(toks, p) ==
    LET opt == toks[1]
        value == parse_positive_integer(toks[2])
        args == Consumed(Tail(toks))
        rest(n) == SubSeq(toks, n + 1, Len(toks))
        fold(op(_, _)) == FoldLeft(LAMBDA list, tok : IF list = <<"">> THEN list ELSE op(tok, list), <<>>, args)
        xs == fold(append_csv_paths)
        es == fold(append_csv_extensions)
    IN  CASE toks = <<>> -> [ok |-> TRUE, p |-> p]
          [] toks # <<>> /\ opt = <<"-d">> ->
               IF p.d # NoPatch.d \/ Len(toks) = 1 THEN Refused ELSE parse_options(rest(2), [p EXCEPT !.d = toks[2]])
          [] toks # <<>> /\ opt = <<"-i">> ->
               IF p.i # 0 \/ Len(toks) = 1 THEN Refused
               ELSE IF value = 0 THEN Refused ELSE parse_options(rest(2), [p EXCEPT !.i = value])
          [] toks # <<>> /\ opt = <<"-l">> ->
               IF p.l # 0 \/ Len(toks) = 1 THEN Refused
               ELSE IF value = 0 THEN Refused ELSE parse_options(rest(2), [p EXCEPT !.l = value])
          [] toks # <<>> /\ opt = <<"-m">> ->
               IF p.m # 0 \/ Len(toks) = 1 THEN Refused
               ELSE IF value \notin 1..3 THEN Refused ELSE parse_options(rest(2), [p EXCEPT !.m = value])
          [] toks # <<>> /\ opt = <<"-x">> ->
               IF p.has_excludes \/ args = <<>> \/ xs = <<"">> THEN Refused
               ELSE parse_options(rest(1 + Len(args)), [p EXCEPT !.has_excludes = TRUE, !.x = xs])
          [] toks # <<>> /\ opt = <<"-e">> ->
               IF p.has_extensions \/ args = <<>> \/ es = <<"">> THEN Refused
               ELSE parse_options(rest(1 + Len(args)), [p EXCEPT !.has_extensions = TRUE, !.e = es])
          [] OTHER -> Refused

path_is_within(dir, parent, strict) == parent \in Above[dir] /\ (strict => dir # parent)

\* Each is a directory strictly below the monitored one, and no two overlap.
validate_excludes(x) ==
    /\ \A k \in DOMAIN x : x[k] \in DOMAIN Real /\ path_is_within(Real[x[k]], Monitor, TRUE)
    /\ \A j, k \in DOMAIN x : j < k => /\ ~path_is_within(Real[x[j]], Real[x[k]], FALSE)
                                      /\ ~path_is_within(Real[x[k]], Real[x[j]], FALSE)

Accepted(toks) ==
    LET r == parse_options(toks, NoPatch)
    IN  r.ok /\ validate_excludes(r.p.x) /\ r.p.d \in Outputs \cup {NoPatch.d}

\* The options of an accepted command, its excluded directories resolved.
Patch(toks) ==
    LET p == parse_options(toks, NoPatch).p IN [p EXCEPT !.x = [k \in DOMAIN p.x |-> Real[p.x[k]]]]

config_defaults == [out |-> Default, interval |-> 10, max |-> -1, ex |-> <<>>, ext |-> <<>>, mode |-> 1]

apply_options(c, p) ==
    [c EXCEPT !.out = IF p.d = NoPatch.d THEN @ ELSE p.d, !.interval = IF p.i = 0 THEN @ ELSE p.i,
              !.max = IF p.l = 0 THEN @ ELSE p.l, !.mode = IF p.m = 0 THEN @ ELSE p.m,
              !.ex = IF p.has_excludes THEN p.x ELSE @, !.ext = IF p.has_extensions THEN p.e ELSE @]

Parts(path) == IF path \in DOMAIN Split THEN Split[path] ELSE <<path>>

\* The lines of the file: a list is joined with commas, an empty one written as a word.
write_config(c) ==
    [out |-> c.out, interval |-> c.interval, mode |-> c.mode,
     max |-> [none |-> c.max < 0, n |-> c.max],
     ex |-> IF c.ex = <<>> THEN <<"none">> ELSE FlattenSeq([k \in DOMAIN c.ex |-> Parts(c.ex[k])]),
     ext |-> IF c.ext = <<>> THEN <<"all">> ELSE c.ext]
read_config(t) ==
    LET xs == append_csv_paths(t.ex, <<>>)
        es == append_csv_extensions(t.ext, <<>>)
    IN  [out |-> t.out, interval |-> t.interval, mode |-> t.mode,
         max |-> IF t.max.none THEN -1 ELSE t.max.n,
         ex |-> IF t.ex = <<"none">> \/ xs = <<"">> THEN <<>> ELSE xs,
         ext |-> IF t.ext = <<"all">> \/ es = <<"">> THEN <<>> ELSE es]

-----------------------------------------------------------------------------
(* The commands and the user                                               *)

Init ==
    \E toks \in Commands, files \in Trees, dest \in Old :
        ar = [phase |-> "add", toks |-> toks, text |-> <<>>, meant |-> config_defaults,
              files |-> files,
              dest |-> [o \in Outputs \cup {Default} |->
                          [n \in Names |-> IF o = Default /\ dest[n] # "none"
                                           THEN [kind |-> dest[n], mtime |-> 1, src |-> 0] ELSE NoCopy]],
              conf |-> config_defaults, vec |-> <<>>, handled |-> {}, i |-> 1, sel |-> 0, log |-> <<>>, wrote |-> <<>>,
              passes |-> 0, changes |-> 0, before |-> <<>>, clean |-> TRUE]

\* The daemon starts once the configuration is written.
add_command ==
    /\ ar.phase = "add"
    /\ ar' = IF Accepted(ar.toks)
             THEN LET c == apply_options(config_defaults, Patch(ar.toks))
                  IN  [ar EXCEPT !.phase = "sleep", !.meant = c, !.text = write_config(c)]
             ELSE [ar EXCEPT !.phase = "refused"]

Changes == ar.phase \notin {"add", "refused"} /\ ar.changes < MaxChanges
Changed == [ar EXCEPT !.changes = @ + 1, !.clean = FALSE]

\* What is meant is what the commands say, what is written starts from what is read.
modify_command(toks) ==
    /\ Changes /\ toks # <<>>
    /\ ar' = IF Accepted(toks)
             THEN [Changed EXCEPT !.meant = apply_options(@, Patch(toks)),
                                  !.text = write_config(apply_options(read_config(@), Patch(toks)))]
             ELSE Changed

\* A file is written, or removed.
touch(k, t) ==
    /\ Changes /\ ar.files[k] # t
    /\ ar' = [Changed EXCEPT !.files[k] = t]

-----------------------------------------------------------------------------
(* A pass                                                                  *)

extension_selected(c, k) == c.ext = <<>> \/ Files[k].ext \in Range(c.ext)
excluded_directory(c, k) == \E d \in Range(c.ex) : path_is_within(Files[k].dir, d, FALSE)
Taken(c) == {k \in DOMAIN Files : ar.files[k] # 0 /\ ~excluded_directory(c, k) /\ extension_selected(c, k)}

\* An order of readdir(): what lies below a directory stands together.
Walks(ks) ==
    {w \in SetToSeqs(ks) : \A d \in DOMAIN Above : \A a, b, c \in DOMAIN w :
        a < b /\ b < c /\ d \in Above[Files[w[a]].dir] /\ d \in Above[Files[w[c]].dir] => d \in Above[Files[w[b]].dir]}

collect_files ==
    LET c == read_config(ar.text)
    IN  /\ ar.phase = "sleep" /\ ar.passes < MaxPasses
        /\ \E w \in Walks(Taken(c)) :
              ar' = [ar EXCEPT !.phase = "arrange", !.conf = c, !.i = 1, !.handled = {}, !.wrote = <<>>,
                               !.vec = [j \in DOMAIN w |-> [k |-> w[j], mtime |-> ar.files[w[j]]]],
                               !.passes = @ + 1, !.clean = TRUE, !.before = [dest |-> ar.dest, log |-> ar.log]]

\* Seeded fault: of files of the same time the one met last is taken.
Better_Last(mode, a, b) == \/ mode = 1 /\ a.mtime >= b.mtime
                           \/ mode = 2 /\ a.mtime <= b.mtime

Better(mode, a, b) ==
    \/ mode = 1 /\ a.mtime > b.mtime
    \/ mode = 2 /\ a.mtime < b.mtime
    \/ a.mtime = b.mtime /\ a.k < b.k

\* The next name: which of its files is copied, if any.
arrange_files ==
    LET v == ar.vec
        name(j) == Files[v[j].k].name
        same == {j \in ar.i..Len(v) : name(j) = name(ar.i)}
        sel == FoldLeft(LAMBDA s, j : IF j \in same /\ Better(ar.conf.mode, v[j], v[s]) THEN j ELSE s,
                        ar.i, [j \in 1..Len(v) |-> j])
        d == ar.dest[ar.conf.out][name(ar.i)]
        wanted == CASE ar.conf.mode = 3 -> Cardinality(same) = 1 /\ d.kind = "none"
                    [] ar.conf.mode # 3 /\ d.kind = "none" -> TRUE
                    [] ar.conf.mode = 1 /\ d.kind # "none" -> d.kind = "reg" /\ v[sel].mtime > d.mtime
                    [] OTHER -> d.kind = "reg" /\ v[sel].mtime < d.mtime
    IN  /\ ar.phase = "arrange" /\ ar.i <= Len(v)
        /\ ar' = CASE ar.i \in ar.handled -> [ar EXCEPT !.i = @ + 1]
                   [] ar.i \notin ar.handled /\ wanted -> [ar EXCEPT !.handled = @ \cup same, !.phase = "copy", !.sel = sel]
                   [] OTHER -> [ar EXCEPT !.handled = @ \cup same, !.i = @ + 1]

\* Bytes, mode and times, and a line of the log; a copy that fails, because the file is
\* gone or for any other reason, takes the destination away.
copy_file ==
    LET k == ar.vec[ar.sel].k
        n == Files[k].name
        out == ar.conf.out
    IN  /\ ar.phase = "copy"
        /\ \/ /\ ar.files[k] # 0
              /\ ar' = [ar EXCEPT !.dest[out][n] = [kind |-> "reg", mtime |-> ar.files[k], src |-> k],
                                  !.log = Append(@, <<k, out>>), !.wrote = Append(@, <<k, out>>), !.phase = "arrange", !.i = @ + 1]
           \/ /\ ar.files[k] = 0 \/ ar.changes < MaxChanges
              /\ ar' = [Changed EXCEPT !.dest[out][n] = NoCopy, !.phase = "arrange", !.i = @ + 1]

\* A ring of n slots into which all lines have been put: the line in slot pos.
Slot(lines, n, pos) == lines[Max({j \in DOMAIN lines : (j - 1) % n = pos})]

\* The ring of the last lines, read from its oldest slot.
trim_log(lines, max) ==
    LET index == Len(lines) % max
        count == Min({Len(lines), max})
    IN  [i \in 1..count |-> Slot(lines, max, (index + max - count + i - 1) % max)]

\* show: a ring again, read by the number of the line.
print_last_logs(lines) ==
    LET first == IF Len(lines) > ShownLines THEN Len(lines) - ShownLines ELSE 0
    IN  [i \in 1..(Len(lines) - first) |-> Slot(lines, ShownLines, (first + i - 1) % ShownLines)]

end_pass ==
    /\ ar.phase = "arrange" /\ ar.i > Len(ar.vec)
    /\ ar' = [ar EXCEPT !.phase = "sleep",
                        !.log = IF ar.wrote # <<>> /\ ar.conf.max >= 0 THEN trim_log(@, ar.conf.max) ELSE @]

Next == \/ add_command \/ collect_files \/ arrange_files \/ copy_file \/ end_pass
        \/ \E toks \in Commands : modify_command(toks)
        \/ \E k \in DOMAIN Files, t \in 0..MaxTime : touch(k, t)

-----------------------------------------------------------------------------
(* What a pass and a command are to do                                     *)

\* The destinations after a pass that nobody disturbs, from the files alone.
Expected(dest, c) ==
    LET of(n) == {k \in Taken(c) : Files[k].name = n}
        best(n) == CHOOSE k \in of(n) : \A j \in of(n) :
                      \/ c.mode = 1 /\ ar.files[k] > ar.files[j]
                      \/ c.mode = 2 /\ ar.files[k] < ar.files[j]
                      \/ ar.files[k] = ar.files[j] /\ k <= j
        copied(n) == [kind |-> "reg", mtime |-> ar.files[best(n)], src |-> best(n)]
        new(n, d) ==
            CASE of(n) = {} \/ d.kind = "dir" -> d
              [] of(n) # {} /\ c.mode = 3 /\ d.kind # "dir" ->
                   IF Cardinality(of(n)) = 1 /\ d.kind = "none" THEN copied(n) ELSE d
              [] OTHER -> IF \/ d.kind = "none"
                             \/ c.mode = 1 /\ ar.files[best(n)] > d.mtime
                             \/ c.mode = 2 /\ ar.files[best(n)] < d.mtime
                          THEN copied(n) ELSE d
    IN  [dest EXCEPT ![c.out] = [n \in Names |-> new(n, dest[c.out][n])]]

Suffix(s, n) == SubSeq(s, Len(s) - Min({n, Len(s)}) + 1, Len(s))

\* What comes back from the file as it was written.
Intact(c) == /\ \A k \in DOMAIN c.ex : Parts(c.ex[k]) = <<c.ex[k]>> /\ Trimmed(c.ex[k]) = c.ex[k]
             /\ c.ext # <<"all">> /\ \A k \in DOMAIN c.ext : Trimmed(c.ext[k]) = c.ext[k]

\* A pass that nothing disturbs does what the configuration last accepted says: whatever
\* order readdir() gives, each name gets its newest, oldest or only file; another pass would
\* change nothing; the log is its own newest lines, and `show' prints the newest of them.
\* What the daemon reads is what the commands meant, with exceptions, for the lists are
\* joined with commas and split again: an excluded directory whose real path has a comma
\* comes back as several paths (or, when they are too many or one is blank, as none), so its
\* files are copied and others may be left out, although README 7.3 says that an excluded
\* directory is never opened; the extension `all' comes back as every extension, and one
\* that begins with a blank without it.
PassExact ==
    ar.phase = "sleep" /\ ar.passes > 0 /\ ar.clean =>
        /\ ar.conf = ar.meant \/ ~Intact(ar.meant)
        /\ [ar.conf EXCEPT !.ex = <<>>, !.ext = <<>>] = [ar.meant EXCEPT !.ex = <<>>, !.ext = <<>>]
        /\ ar.dest = Expected(ar.before.dest, ar.conf)
        /\ Expected(ar.dest, ar.conf) = ar.dest
        /\ LET lines == ar.before.log \o ar.wrote
           IN  ar.log = IF ar.wrote # <<>> /\ ar.conf.max >= 0 THEN Suffix(lines, ar.conf.max) ELSE lines
        /\ print_last_logs(ar.log) = Suffix(ar.log, ShownLines)
=============================================================================
